--------------------------- MODULE FramingProofs ---------------------------
(***************************************************************************)
(* Proofs about the messages between the processes, for every number and   *)
(* size of the messages and every way in which the stream is cut.          *)
(***************************************************************************)
EXTENDS Framing, SequenceTheorems, FiniteSetTheorems, WellFoundedInduction, TLAPS

----------------------------------------------------------------------------
(* The inductive invariant.                                                *)

Byte == [msg: Nat, at: Nat]

\* The bytes that have been written and not been parsed
Stream == buffer \o wire

\* Every byte belongs to a message that was written,
BytesOf(s, n) ==
  \A i \in 1..Len(s) : s[i].msg \in 1..n /\ s[i].at \in 1..Size(s[i].msg)

\* the bytes are in their order,
Ordered(s) ==
  \A i, j \in 1..Len(s) :
    i < j => \/ s[i].msg < s[j].msg
             \/ s[i].msg = s[j].msg /\ s[i].at < s[j].at

\* and a message that has begun goes on to its end.
Whole(s) ==
  \A i \in 1..Len(s) : \A k \in 0..(Size(s[i].msg) - s[i].at) :
    i + k <= Len(s) /\ s[i + k] = [msg |-> s[i].msg, at |-> s[i].at + k]

Sound(s, n) == BytesOf(s, n) /\ Ordered(s) /\ Whole(s)

\* A piece that ended with the last of these bytes was one of the two cuts.
CutsKnown(b, heads, tails) ==
  b # <<>> =>
    LET x == b[Len(b)]
    IN /\ MagicLen <= x.at /\ x.at < Header(x.msg) => x.msg \in heads
       /\ Size(x.msg) - LengthBytes[x.msg] <= x.at /\ x.at < Size(x.msg) =>
            x.msg \in tails

Begins(s, m) == \E i \in 1..Len(s) : s[i] = [msg |-> m, at |-> 1]
Delivered(m) == \E i \in DOMAIN delivered : delivered[i] = m

IInv ==
  /\ sent \in 0..Cardinality(Msg)
  /\ buffer \in Seq(Byte) /\ wire \in Seq(Byte)
  /\ delivered \in Seq(Nat)
  /\ \A i \in 1..Len(delivered) : delivered[i] <= sent
  /\ Sound(Stream, sent)
  /\ \A i \in 1..Len(delivered), j \in 1..Len(Stream) : delivered[i] < Stream[j].msg
  /\ \A i, j \in 1..Len(delivered) : i < j => delivered[i] < delivered[j]
  /\ CutsKnown(buffer, headCut, tailCut)
  /\ \A m \in 1..sent : Begins(Stream, m) \/ m \in tailCut \/ Delivered(m)
  /\ dead => headCut # {}

----------------------------------------------------------------------------
(* Numbers and sequences.                                                  *)

\* The sizes of a message
LEMMA Sizes ==
  ASSUME NEW m \in Msg
  PROVE  /\ m \in Nat \ {0}
         /\ MagicLen \in Nat \ {0}
         /\ LengthBytes[m] \in Nat \ {0}
         /\ Payload[m] \in Nat \ {0}
         /\ Header(m) = MagicLen + LengthBytes[m]
         /\ Size(m) = MagicLen + LengthBytes[m] + Payload[m]
         /\ Size(m) \in Nat \ {0}
         /\ Header(m) \in Nat
<1>1. Cardinality(Msg) \in Nat
  BY FramingAssumption, FS_CardinalityType
<1>2. m \in Nat \ {0}
  BY <1>1, FramingAssumption
<1>3. /\ MagicLen \in Nat \ {0}
      /\ LengthBytes[m] \in Nat \ {0}
      /\ Payload[m] \in Nat \ {0}
  BY FramingAssumption
<1>4. /\ Header(m) = MagicLen + LengthBytes[m]
      /\ Size(m) = MagicLen + LengthBytes[m] + Payload[m]
  BY <1>3 DEF Header, Size
<1> QED
  BY <1>2, <1>3, <1>4

\* A nonempty set of natural numbers has a least one.
LEMMA LeastNatural ==
  ASSUME NEW S \in SUBSET Nat, S # {}
  PROVE  Least(S) \in S /\ \A q \in S : Least(S) <= q
<1> DEFINE R == OpToRel(<, Nat)
<1>1. IsWellFoundedOn(R, Nat)
  BY NatLessThanWellFounded
<1>2. \A x, y \in Nat : y < x => <<y, x>> \in R
  BY DEF OpToRel
<1> HIDE DEF R
<1>3. PICK p \in S : \A q \in S : <<q, p>> \notin R
  BY <1>1, WFMin
<1>4. ASSUME NEW q \in S
      PROVE  p <= q
  <2>1. p \in Nat /\ q \in Nat
    OBVIOUS
  <2>2. ~(q < p)
    BY <1>2, <1>3, <2>1
  <2> QED
    BY <2>1, <2>2
<1> QED
  BY <1>4 DEF Least

\* The end of a sequence from place k on
LEMMA SuffixLemma ==
  ASSUME NEW T, NEW s \in Seq(T), NEW k \in 1..(Len(s) + 1)
  PROVE  /\ SubSeq(s, k, Len(s)) \in Seq(T)
         /\ Len(SubSeq(s, k, Len(s))) = Len(s) - k + 1
         /\ \A i \in 1..(Len(s) - k + 1) : SubSeq(s, k, Len(s))[i] = s[k + i - 1]
<1>1. Len(s) \in Nat /\ k \in Nat /\ k >= 1 /\ k <= Len(s) + 1
  BY LenProperties
<1>2. \A i \in k..Len(s) : s[i] \in T
  BY <1>1, ElementOfSeq
<1>3. /\ SubSeq(s, k, Len(s)) \in Seq(T)
      /\ Len(SubSeq(s, k, Len(s))) = IF k <= Len(s) THEN Len(s) - k + 1 ELSE 0
      /\ \A i \in 1..(Len(s) - k + 1) : SubSeq(s, k, Len(s))[i] = s[k + i - 1]
  BY <1>1, <1>2, SubSeqProperties
<1> QED
  BY <1>1, <1>3

\* What is cut off the front of a sequence is cut off every longer one.
LEMMA SuffixConcat ==
  ASSUME NEW T, NEW b \in Seq(T), NEW w \in Seq(T), NEW k \in 1..(Len(b) + 1)
  PROVE  /\ SubSeq(b, k, Len(b)) \o w \in Seq(T)
         /\ Len(SubSeq(b, k, Len(b)) \o w) = Len(b \o w) - k + 1
         /\ \A i \in 1..(Len(b \o w) - k + 1) :
              (SubSeq(b, k, Len(b)) \o w)[i] = (b \o w)[k + i - 1]
<1> DEFINE t == SubSeq(b, k, Len(b))
<1>1. Len(b) \in Nat /\ Len(w) \in Nat /\ k \in Nat /\ k >= 1 /\ k <= Len(b) + 1
  BY LenProperties
<1>2. /\ t \in Seq(T) /\ Len(t) = Len(b) - k + 1
      /\ \A i \in 1..(Len(b) - k + 1) : t[i] = b[k + i - 1]
  BY SuffixLemma
<1> HIDE DEF t
<1>3. /\ t \o w \in Seq(T)
      /\ Len(t \o w) = Len(t) + Len(w)
      /\ \A i \in 1..(Len(t) + Len(w)) :
           (t \o w)[i] = IF i <= Len(t) THEN t[i] ELSE w[i - Len(t)]
  BY <1>2, ConcatProperties
<1>4. /\ Len(b \o w) = Len(b) + Len(w)
      /\ \A i \in 1..(Len(b) + Len(w)) :
           (b \o w)[i] = IF i <= Len(b) THEN b[i] ELSE w[i - Len(b)]
  BY ConcatProperties
<1>5. Len(t \o w) = Len(b \o w) - k + 1
  BY <1>1, <1>2, <1>3, <1>4
<1>6. ASSUME NEW i \in 1..(Len(b \o w) - k + 1)
      PROVE  (t \o w)[i] = (b \o w)[k + i - 1]
  <2>1. /\ i \in Nat /\ i >= 1
        /\ i \in 1..(Len(t) + Len(w))
        /\ k + i - 1 \in 1..(Len(b) + Len(w))
    BY <1>1, <1>2, <1>4
  <2>2. CASE i <= Len(t)
    <3>1. (t \o w)[i] = t[i]
      BY <1>3, <2>1, <2>2
    <3>2. i \in 1..(Len(b) - k + 1) /\ k + i - 1 <= Len(b)
      BY <1>1, <1>2, <2>1, <2>2
    <3> QED
      BY <1>2, <1>4, <2>1, <3>1, <3>2
  <2>3. CASE i > Len(t)
    <3>1. (t \o w)[i] = w[i - Len(t)]
      BY <1>2, <1>1, <1>3, <2>1, <2>3
    <3>2. k + i - 1 > Len(b) /\ (k + i - 1) - Len(b) = i - Len(t)
      BY <1>1, <1>2, <2>1, <2>3
    <3> QED
      BY <1>1, <1>4, <2>1, <3>1, <3>2
  <2> QED
    BY <1>1, <1>2, <2>1, <2>2, <2>3
<1> QED
  BY <1>3, <1>5, <1>6 DEF t

\* A piece moves from the wire to the buffer; the stream is the same.
LEMMA PieceMoves ==
  ASSUME NEW T, NEW b \in Seq(T), NEW w \in Seq(T), NEW n \in 1..Len(w)
  PROVE  LET c == b \o SubSeq(w, 1, n)
             v == SubSeq(w, n + 1, Len(w))
         IN /\ c \in Seq(T) /\ v \in Seq(T)
            /\ c # <<>> /\ c[Len(c)] = w[n]
            /\ c \o v = b \o w
<1> DEFINE p == SubSeq(w, 1, n)
           c == b \o p
           v == SubSeq(w, n + 1, Len(w))
<1>1. Len(b) \in Nat /\ Len(w) \in Nat /\ n \in Nat /\ n >= 1 /\ n <= Len(w)
  BY LenProperties
<1>2. /\ p \in Seq(T) /\ Len(p) = n
      /\ \A i \in 1..n : p[i] = w[i]
  <2>1. \A i \in 1..n : w[i] \in T
    BY <1>1, ElementOfSeq
  <2>2. /\ p \in Seq(T)
        /\ Len(p) = IF 1 <= n THEN n - 1 + 1 ELSE 0
        /\ \A i \in 1..(n - 1 + 1) : p[i] = w[1 + i - 1]
    BY <1>1, <2>1, SubSeqProperties
  <2> QED
    BY <1>1, <2>2
<1>3. v \in Seq(T)
  BY <1>1, SuffixLemma
<1>4. p \o v = w
  <2>1. /\ Len(v) = Len(w) - n
        /\ \A i \in 1..(Len(w) - n) : v[i] = w[n + i]
    <3>1. n + 1 \in 1..(Len(w) + 1)
      BY <1>1
    <3>2. /\ Len(v) = Len(w) - (n + 1) + 1
          /\ \A i \in 1..(Len(w) - (n + 1) + 1) : v[i] = w[(n + 1) + i - 1]
      BY <3>1, SuffixLemma
    <3> QED
      BY <1>1, <3>2
  <2> HIDE DEF p, v
  <2>2. /\ p \o v \in Seq(T)
        /\ Len(p \o v) = Len(p) + Len(v)
        /\ \A i \in 1..(Len(p) + Len(v)) :
             (p \o v)[i] = IF i <= Len(p) THEN p[i] ELSE v[i - Len(p)]
    BY <1>2, <1>3, ConcatProperties
  <2>3. Len(p \o v) = Len(w)
    BY <1>1, <1>2, <2>1, <2>2
  <2>4. ASSUME NEW i \in 1..Len(w)
        PROVE  (p \o v)[i] = w[i]
    <3>1. CASE i <= n
      BY <1>1, <1>2, <2>1, <2>2, <3>1
    <3>2. CASE i > n
      <4>1. i - n \in 1..(Len(w) - n) /\ n + (i - n) = i
        BY <1>1, <3>2
      <4>2. v[i - n] = w[i]
        BY <2>1, <4>1
      <4> QED
        BY <1>1, <1>2, <2>1, <2>2, <3>2, <4>2
    <3>3. i \in Nat /\ n \in Nat
      BY <1>1
    <3>4. i <= n \/ i > n
      BY <3>3
    <3> QED
      BY <3>1, <3>2, <3>4
  <2> QED
    BY <2>2, <2>3, <2>4, SeqEqual
<1> HIDE DEF p, v
<1>5. c \in Seq(T) /\ Len(c) = Len(b) + n /\ c[Len(b) + n] = p[n]
  <2>1. /\ c \in Seq(T)
        /\ Len(c) = Len(b) + Len(p)
        /\ \A i \in 1..(Len(b) + Len(p)) :
             c[i] = IF i <= Len(b) THEN b[i] ELSE p[i - Len(b)]
    BY <1>2, ConcatProperties
  <2>2. Len(b) + n \in 1..(Len(b) + Len(p)) /\ ~(Len(b) + n <= Len(b))
        /\ (Len(b) + n) - Len(b) = n
    BY <1>1, <1>2
  <2> QED
    BY <1>2, <2>1, <2>2
<1>6. c \o v = b \o w
  <2>1. p \in Seq(T) /\ v \in Seq(T)
    BY <1>2, <1>3
  <2>2. \A x, y, u \in Seq(T) : (x \o y) \o u = x \o (y \o u)
    BY ONLY ConcatAssociative, SMTT(60)
  <2>3. (b \o p) \o v = b \o (p \o v)
    BY <2>1, <2>2
  <2> QED
    BY <1>4, <2>3
<1>7. c # <<>> /\ c[Len(c)] = w[n]
  BY <1>1, <1>2, <1>5, EmptySeq
<1> QED
  BY <1>3, <1>5, <1>6, <1>7 DEF p, v

----------------------------------------------------------------------------
(* The bytes of messages.                                                  *)

\* What is left of the stream when its front is taken off is as sound.
LEMMA SoundSuffix ==
  ASSUME NEW s \in Seq(Byte), NEW n \in Nat, 1..n \subseteq Msg,
         NEW k \in 1..(Len(s) + 1), NEW t \in Seq(Byte),
         Len(t) = Len(s) - k + 1,
         \A i \in 1..(Len(s) - k + 1) : t[i] = s[k + i - 1],
         Sound(s, n)
  PROVE  Sound(t, n)
<1>1. Len(s) \in Nat /\ Len(t) \in Nat /\ k \in Nat /\ k >= 1 /\ k <= Len(s) + 1
  BY LenProperties
<1>2. \A i \in 1..Len(t) : k + i - 1 \in 1..Len(s) /\ t[i] = s[k + i - 1]
  BY <1>1
<1>3. BytesOf(s, n) /\ Ordered(s) /\ Whole(s)
  BY DEF Sound
<1>4. BytesOf(t, n)
  BY <1>2, <1>3 DEF BytesOf
<1>5. Ordered(t)
  <2> SUFFICES ASSUME NEW i \in 1..Len(t), NEW j \in 1..Len(t), i < j
               PROVE  \/ t[i].msg < t[j].msg
                      \/ t[i].msg = t[j].msg /\ t[i].at < t[j].at
    BY DEF Ordered
  <2>1. k + i - 1 < k + j - 1
    BY <1>1
  <2>2. /\ k + i - 1 \in 1..Len(s) /\ t[i] = s[k + i - 1]
        /\ k + j - 1 \in 1..Len(s) /\ t[j] = s[k + j - 1]
    BY <1>2
  <2> QED
    BY <1>3, <2>1, <2>2 DEF Ordered
<1>6. Whole(t)
  <2> SUFFICES ASSUME NEW i \in 1..Len(t), NEW d \in 0..(Size(t[i].msg) - t[i].at)
               PROVE  /\ i + d <= Len(t)
                      /\ t[i + d] = [msg |-> t[i].msg, at |-> t[i].at + d]
    BY DEF Whole
  <2>1. k + i - 1 \in 1..Len(s) /\ t[i] = s[k + i - 1]
    BY <1>2
  <2>2. /\ (k + i - 1) + d <= Len(s)
        /\ s[(k + i - 1) + d] = [msg |-> t[i].msg, at |-> t[i].at + d]
    BY <1>3, <2>1 DEF Whole
  <2>3. i \in Nat /\ i >= 1 /\ d \in Nat
    <3>1. t[i] \in Byte
      BY ElementOfSeq
    <3>2. t[i].msg \in Msg /\ t[i].at \in Nat
      BY <1>4, <3>1 DEF BytesOf, Byte
    <3>3. Size(t[i].msg) \in Nat
      BY <3>2, Sizes
    <3> QED
      BY <3>2, <3>3
  <2>4. i + d <= Len(t) /\ i + d >= 1 /\ k + (i + d) - 1 = (k + i - 1) + d
    BY <1>1, <2>2, <2>3
  <2>5. t[i + d] = s[k + (i + d) - 1]
    BY <1>2, <2>3, <2>4
  <2> QED
    BY <2>2, <2>4, <2>5
<1> QED
  BY <1>4, <1>5, <1>6 DEF Sound

\* The bytes of a message
LEMMA Encoded ==
  ASSUME NEW m \in Msg
  PROVE  /\ EncodeMessage(m) \in Seq(Byte)
         /\ Len(EncodeMessage(m)) = Size(m)
         /\ \A i \in 1..Size(m) : EncodeMessage(m)[i] = [msg |-> m, at |-> i]
<1>1. m \in Nat /\ Size(m) \in Nat
  BY Sizes
<1>2. EncodeMessage(m) \in [1..Size(m) -> Byte]
  BY <1>1 DEF EncodeMessage, Byte
<1>3. EncodeMessage(m) \in Seq(Byte)
  BY <1>1, <1>2, SeqDef
<1>4. DOMAIN EncodeMessage(m) = 1..Size(m)
  BY DEF EncodeMessage
<1>5. Len(EncodeMessage(m)) = Size(m)
  BY <1>1, <1>3, <1>4, LenProperties
<1> QED
  BY <1>3, <1>5 DEF EncodeMessage

\* A message that is written goes behind the others.
LEMMA SoundWrite ==
  ASSUME NEW s \in Seq(Byte), NEW n \in Nat, 1..n \subseteq Msg, n + 1 \in Msg,
         Sound(s, n)
  PROVE  Sound(s \o EncodeMessage(n + 1), n + 1)
<1> DEFINE e == EncodeMessage(n + 1)
           t == s \o e
           z == Size(n + 1)
<1>1. e \in Seq(Byte) /\ Len(e) = z /\ \A i \in 1..z : e[i] = [msg |-> n + 1, at |-> i]
  BY Encoded
<1>2. z \in Nat /\ Len(s) \in Nat
  BY Sizes, LenProperties
<1> HIDE DEF e, z
<1>3. /\ t \in Seq(Byte)
      /\ Len(t) = Len(s) + z
      /\ \A i \in 1..(Len(s) + z) : t[i] = IF i <= Len(s) THEN s[i] ELSE e[i - Len(s)]
  BY <1>1, ConcatProperties
<1> HIDE DEF t
<1>4. \A i \in 1..Len(s) : i \in 1..Len(t) /\ t[i] = s[i]
  BY <1>2, <1>3
<1>5. \A i \in 1..Len(t) : i \notin 1..Len(s) =>
        /\ i - Len(s) \in 1..z
        /\ t[i] = [msg |-> n + 1, at |-> i - Len(s)]
        /\ t[i].msg = n + 1 /\ t[i].at = i - Len(s)
  <2> SUFFICES ASSUME NEW i \in 1..Len(t), i \notin 1..Len(s)
               PROVE  /\ i - Len(s) \in 1..z
                      /\ t[i] = [msg |-> n + 1, at |-> i - Len(s)]
    OBVIOUS
  <2>1. i - Len(s) \in 1..z /\ ~(i <= Len(s)) /\ i \in 1..(Len(s) + z)
    BY <1>2, <1>3
  <2> QED
    BY <1>1, <1>3, <2>1
<1>6. \A i \in 1..Len(s) : /\ s[i].msg \in 1..n
                           /\ s[i].msg \in Msg
                           /\ s[i].at \in 1..Size(s[i].msg)
  BY DEF Sound, BytesOf
<1>7. BytesOf(t, n + 1)
  <2> SUFFICES ASSUME NEW i \in 1..Len(t)
               PROVE  t[i].msg \in 1..(n + 1) /\ t[i].at \in 1..Size(t[i].msg)
    BY DEF BytesOf
  <2>1. CASE i \in 1..Len(s)
    BY <1>4, <1>6, <2>1
  <2>2. CASE i \notin 1..Len(s)
    <3>1. t[i].msg = n + 1 /\ t[i].at \in 1..z
      BY <1>5, <2>2
    <3> QED
      BY <3>1 DEF z
  <2> QED
    BY <2>1, <2>2
<1>8. Ordered(t)
  <2> SUFFICES ASSUME NEW i \in 1..Len(t), NEW j \in 1..Len(t), i < j
               PROVE  \/ t[i].msg < t[j].msg
                      \/ t[i].msg = t[j].msg /\ t[i].at < t[j].at
    BY DEF Ordered
  <2>1. i \in Nat /\ j \in Nat
    OBVIOUS
  <2>2. CASE j \in 1..Len(s)
    <3>1. i \in 1..Len(s)
      BY <2>1, <2>2
    <3> QED
      BY <1>4, <2>2, <3>1 DEF Sound, Ordered
  <2>3. CASE j \notin 1..Len(s)
    <3>1. CASE i \in 1..Len(s)
      <4>1. t[j].msg = n + 1
        BY <1>5, <2>3
      <4>2. t[i].msg \in 1..n
        BY <1>4, <1>6, <3>1
      <4> QED
        BY <4>1, <4>2
    <3>2. CASE i \notin 1..Len(s)
      <4>1. t[j].msg = n + 1 /\ t[j].at = j - Len(s)
        BY <1>5, <2>3
      <4>2. t[i].msg = n + 1 /\ t[i].at = i - Len(s)
        BY <1>5, <3>2
      <4> QED
        BY <1>2, <2>1, <4>1, <4>2
    <3> QED
      BY <3>1, <3>2
  <2> QED
    BY <2>2, <2>3
<1>9. Whole(t)
  <2> SUFFICES ASSUME NEW i \in 1..Len(t), NEW d \in 0..(Size(t[i].msg) - t[i].at)
               PROVE  /\ i + d <= Len(t)
                      /\ t[i + d] = [msg |-> t[i].msg, at |-> t[i].at + d]
    BY DEF Whole
  <2>1. CASE i \in 1..Len(s)
    <3>1. t[i] = s[i]
      BY <1>4, <2>1
    <3>2. i + d <= Len(s) /\ s[i + d] = [msg |-> t[i].msg, at |-> t[i].at + d]
      BY <2>1, <3>1 DEF Sound, Whole
    <3>3. Size(t[i].msg) \in Nat /\ t[i].at \in Nat
      BY <1>6, <2>1, <3>1, Sizes, SMTT(40)
    <3>4. d \in Nat
      BY <3>3
    <3>5. i + d \in 1..Len(s)
      BY <1>2, <2>1, <3>2, <3>4
    <3> QED
      BY <1>3, <1>4, <3>2, <3>5, <1>2
  <2>2. CASE i \notin 1..Len(s)
    <3>1. /\ i - Len(s) \in 1..z
          /\ t[i].msg = n + 1 /\ t[i].at = i - Len(s)
      BY <1>5, <2>2
    <3>2. d \in 0..(z - (i - Len(s)))
      BY <3>1 DEF z
    <3>3. i + d \in 1..Len(t) /\ i + d \notin 1..Len(s) /\ (i + d) - Len(s) = (i - Len(s)) + d
      BY <1>2, <1>3, <3>1, <3>2
    <3>4. t[i + d] = [msg |-> n + 1, at |-> (i + d) - Len(s)]
      BY <1>5, <3>3
    <3> QED
      BY <1>2, <1>3, <3>1, <3>3, <3>4
  <2> QED
    BY <2>1, <2>2
<1> QED
  BY <1>7, <1>8, <1>9 DEF Sound, e, t

----------------------------------------------------------------------------
(* The parser.                                                             *)

\* Where the first magic number stands, and what is left of the bytes there
LEMMA FirstPlace ==
  ASSUME NEW b \in Seq(Byte), Found(b)
  PROVE  LET p == Least(Places(b))
         IN /\ p \in 1..Len(b)
            /\ b[p].at = 1 /\ p + MagicLen - 1 <= Len(b)
            /\ \A i \in 1..(p - 1) : b[i].at # 1
            /\ Seek(b) = SubSeq(b, p, Len(b))
            /\ Seek(b) \in Seq(Byte)
            /\ Len(Seek(b)) = Len(b) - p + 1
            /\ \A i \in 1..(Len(b) - p + 1) : Seek(b)[i] = b[p + i - 1]
            /\ Seek(b)[1] = b[p]
<1> DEFINE p == Least(Places(b))
           s == Seek(b)
<1>1. Len(b) \in Nat
  BY LenProperties
<1>2. Places(b) \in SUBSET Nat /\ Places(b) # {}
  BY <1>1 DEF Places, Found
<1>3. p \in Places(b) /\ \A q \in Places(b) : p <= q
  BY <1>2, LeastNatural
<1> HIDE DEF p
<1>4. p \in 1..Len(b) /\ b[p].at = 1 /\ p + MagicLen - 1 <= Len(b)
  BY <1>3 DEF Places, MagicAt
<1>5. \A i \in 1..(p - 1) : b[i].at # 1
  <2> SUFFICES ASSUME NEW i \in 1..(p - 1), b[i].at = 1
               PROVE  FALSE
    OBVIOUS
  <2>1. i \in 1..Len(b) /\ i < p
    BY <1>1, <1>4
  <2>2. MagicLen \in Nat
    BY FramingAssumption
  <2>3. i + MagicLen - 1 <= Len(b)
    BY <1>1, <1>4, <2>1, <2>2
  <2>4. i \in Places(b)
    BY <2>1, <2>3 DEF Places, MagicAt
  <2> QED
    BY <1>3, <1>4, <2>1, <2>4
<1>6. s = SubSeq(b, p, Len(b))
  BY DEF Seek, p
<1>7. p \in 1..(Len(b) + 1)
  BY <1>1, <1>4
<1>8. /\ s \in Seq(Byte)
      /\ Len(s) = Len(b) - p + 1
      /\ \A i \in 1..(Len(b) - p + 1) : s[i] = b[p + i - 1]
  BY <1>6, <1>7, SuffixLemma
<1>9. s[1] = b[p]
  <2>1. 1 \in 1..(Len(b) - p + 1) /\ p + 1 - 1 = p
    BY <1>1, <1>4
  <2> QED
    BY <1>8, <2>1
<1> QED
  BY <1>4, <1>5, <1>6, <1>8, <1>9 DEF p

\* What remains after the message at place p
LEMMA RemainingLemma ==
  ASSUME NEW b \in Seq(Byte), NEW p \in 1..Len(b), NEW s \in Seq(Byte),
         Len(s) = Len(b) - p + 1,
         \A i \in 1..(Len(b) - p + 1) : s[i] = b[p + i - 1],
         NEW z \in Nat, z <= Len(s)
  PROVE  SubSeq(s, z + 1, Len(s)) = SubSeq(b, p + z, Len(b))
<1>1. Len(b) \in Nat /\ Len(s) \in Nat /\ p \in Nat /\ p >= 1 /\ p <= Len(b)
  BY LenProperties
<1>2. z + 1 \in 1..(Len(s) + 1) /\ p + z \in 1..(Len(b) + 1)
  BY <1>1
<1> DEFINE x == SubSeq(s, z + 1, Len(s))
           y == SubSeq(b, p + z, Len(b))
<1>3. /\ x \in Seq(Byte) /\ Len(x) = Len(s) - (z + 1) + 1
      /\ \A i \in 1..(Len(s) - (z + 1) + 1) : x[i] = s[(z + 1) + i - 1]
  BY <1>2, SuffixLemma
<1>4. /\ y \in Seq(Byte) /\ Len(y) = Len(b) - (p + z) + 1
      /\ \A i \in 1..(Len(b) - (p + z) + 1) : y[i] = b[(p + z) + i - 1]
  BY <1>2, SuffixLemma
<1> HIDE DEF x, y
<1>5. Len(x) = Len(y)
  BY <1>1, <1>3, <1>4
<1>6. ASSUME NEW i \in 1..Len(x)
      PROVE  x[i] = y[i]
  <2>1. i \in 1..(Len(s) - (z + 1) + 1) /\ i \in 1..(Len(b) - (p + z) + 1)
    BY <1>1, <1>3
  <2>2. z + i \in 1..(Len(b) - p + 1)
    BY <1>1, <2>1
  <2>3. (z + 1) + i - 1 = z + i /\ (p + z) + i - 1 = p + (z + i) - 1
    BY <1>1, <2>1
  <2>4. s[z + i] = b[p + (z + i) - 1]
    BY <2>2
  <2> QED
    BY <1>3, <1>4, <2>1, <2>3, <2>4
<1> QED
  BY <1>3, <1>4, <1>5, <1>6, SeqEqual DEF x, y

\* The bytes of the message at place p follow it, and then come later ones.
LEMMA MessageAt ==
  ASSUME NEW s \in Seq(Byte), NEW n \in Nat, 1..n \subseteq Msg, Sound(s, n),
         NEW p \in 1..Len(s), s[p].at = 1
  PROVE  LET m == s[p].msg
         IN /\ m \in 1..n /\ m \in Msg
            /\ p + Size(m) <= Len(s) + 1
            /\ \A k \in 0..(Size(m) - 1) : s[p + k] = [msg |-> m, at |-> k + 1]
            /\ \A j \in (p + Size(m))..Len(s) : m < s[j].msg
<1> DEFINE m == s[p].msg
<1>1. m \in 1..n /\ m \in Msg
  BY DEF Sound, BytesOf
<1>2. Size(m) \in Nat \ {0} /\ Len(s) \in Nat /\ p \in Nat
  BY <1>1, Sizes, LenProperties
<1> HIDE DEF m
<1>3. \A k \in 0..(Size(m) - 1) : p + k <= Len(s) /\ s[p + k] = [msg |-> m, at |-> 1 + k]
  BY DEF Sound, Whole, m
<1>4. \A k \in 0..(Size(m) - 1) : s[p + k] = [msg |-> m, at |-> k + 1]
  BY <1>2, <1>3
<1>5. Size(m) - 1 \in 0..(Size(m) - 1)
  BY <1>2
<1>6. p + (Size(m) - 1) <= Len(s)
  BY <1>3, <1>5
<1>7. s[p + (Size(m) - 1)].msg = m /\ s[p + (Size(m) - 1)].at = Size(m)
  <2>1. s[p + (Size(m) - 1)] = [msg |-> m, at |-> (Size(m) - 1) + 1]
    BY <1>4, <1>5
  <2>2. (Size(m) - 1) + 1 = Size(m)
    BY <1>2
  <2> QED
    BY <2>1, <2>2
<1>8. ASSUME NEW j \in (p + Size(m))..Len(s)
      PROVE  m < s[j].msg
  <2> DEFINE i == p + (Size(m) - 1)
  <2>1. i \in 1..Len(s) /\ j \in 1..Len(s) /\ i < j
    BY <1>2, <1>6
  <2>2. s[i].msg = m /\ s[i].at = Size(m)
    BY <1>7
  <2> HIDE DEF i
  <2>3. s[j].msg \in 1..n /\ s[j].at \in 1..Size(s[j].msg)
    BY <2>1 DEF Sound, BytesOf
  <2>4. \/ s[i].msg < s[j].msg
        \/ s[i].msg = s[j].msg /\ s[i].at < s[j].at
    BY <2>1 DEF Sound, Ordered
  <2>5. CASE s[i].msg < s[j].msg
    BY <2>2, <2>5
  <2>6. CASE s[i].msg = s[j].msg /\ s[i].at < s[j].at
    <3>1. s[j].at \in 1..Size(m) /\ Size(m) < s[j].at
      BY <2>2, <2>3, <2>6
    <3> QED
      BY <1>2, <3>1
  <2> QED
    BY <2>4, <2>5, <2>6
<1> QED
  BY <1>1, <1>2, <1>4, <1>6, <1>8 DEF m

\* What a parse does: it cuts the front off the bytes; it hands over the one
\* message that begins there, or else the message is one of which a piece
\* ended within the last bytes; and it throws only at a cut within a length.
LEMMA ParseLemma ==
  ASSUME NEW b \in Seq(Byte), NEW w \in Seq(Byte), NEW n \in Nat, 1..n \subseteq Msg,
         Sound(b \o w, n), CutsKnown(b, headCut', tailCut'), Parse(b)
  PROVE  /\ dead' => dead \/ headCut' # {}
         /\ \E q \in 1..(Len(b) + 1) :
              /\ buffer' = SubSeq(b, q, Len(b))
              /\ \/ /\ delivered' = delivered
                    /\ \A i \in 1..(q - 1) : b[i].at = 1 => b[i].msg \in tailCut'
                 \/ \E p \in 1..(q - 1) :
                      /\ b[p].at = 1 /\ b[p].msg \in 1..n
                      /\ delivered' = Append(delivered, b[p].msg)
                      /\ \A i \in 1..(q - 1) : b[i].at = 1 => i = p
                      /\ \A j \in q..Len(b \o w) : b[p].msg < (b \o w)[j].msg
<1> DEFINE bw == b \o w
           p == Least(Places(b))
           s == Seek(b)
           m == b[p].msg
<1>1. /\ bw \in Seq(Byte) /\ Len(bw) = Len(b) + Len(w)
      /\ \A i \in 1..(Len(b) + Len(w)) : bw[i] = IF i <= Len(b) THEN b[i] ELSE w[i - Len(b)]
  BY ConcatProperties
<1>2. Len(b) \in Nat /\ Len(w) \in Nat
  BY LenProperties
<1>3. \A i \in 1..Len(b) : i \in 1..Len(bw) /\ bw[i] = b[i]
  BY <1>1, <1>2
<1> HIDE DEF bw
<1>4. CASE ~Found(b)
  <2>1. buffer' = b /\ delivered' = delivered /\ dead' = dead
    BY <1>4 DEF Parse
  <2>2. SubSeq(b, 1, Len(b)) = b
    BY SubSeqFull
  <2>3. 1 \in 1..(Len(b) + 1) /\ 1..(1 - 1) = {}
    BY <1>2
  <2> QED
    BY <2>1, <2>2, <2>3
<1>5. CASE Found(b)
  <2>1. /\ p \in 1..Len(b) /\ b[p].at = 1 /\ p + MagicLen - 1 <= Len(b)
        /\ \A i \in 1..(p - 1) : b[i].at # 1
        /\ s = SubSeq(b, p, Len(b))
        /\ s \in Seq(Byte)
        /\ Len(s) = Len(b) - p + 1
        /\ \A i \in 1..(Len(b) - p + 1) : s[i] = b[p + i - 1]
        /\ s[1] = b[p]
    BY <1>5, FirstPlace
  <2> HIDE DEF p, s
  <2>2. p \in 1..Len(bw) /\ bw[p] = b[p]
    BY <1>3, <2>1
  <2> DEFINE z == Size(m)
             h == Header(m)
             y == LengthBytes[m]
             d == Payload[m]
             lb == Len(b)
             ls == Len(s)
  <2>3. /\ m \in 1..n /\ m \in Msg
        /\ p + z <= Len(bw) + 1
        /\ \A k \in 0..(z - 1) : bw[p + k] = [msg |-> m, at |-> k + 1]
        /\ \A j \in (p + z)..Len(bw) : m < bw[j].msg
    <3>1. bw[p].at = 1 /\ Sound(bw, n) /\ bw[p].msg = m
      BY <2>1, <2>2 DEF bw
    <3> QED
      BY <1>1, <2>2, <3>1, MessageAt, ZenonT(60)
  <2>4. /\ MagicLen \in Nat \ {0} /\ y \in Nat \ {0} /\ d \in Nat \ {0}
        /\ h = MagicLen + y /\ z = MagicLen + y + d
    BY <2>3, Sizes
  <2>5. s[1].msg = m /\ b[p].msg = m
    BY <2>1
  <2> HIDE DEF m
  <2>6. /\ Enough(s) <=> ls >= d + MagicLen
        /\ Complete(s) <=> ls >= z
        /\ Remaining(s) = SubSeq(s, z + 1, ls)
    BY <2>5 DEF Enough, Complete, Remaining
  <2>7. \/ ls < h /\ buffer' = s /\ delivered' = delivered
        \/ /\ ~Enough(s)
           /\ buffer' = s /\ delivered' = delivered /\ dead' = dead
        \/ /\ Enough(s)
           /\ buffer' = Remaining(s) /\ dead' = dead
           /\ delivered' = IF Complete(s) THEN Append(delivered, m) ELSE delivered
    <3>1. \/ Len(s) < Header(s[1].msg) /\ buffer' = s /\ delivered' = delivered
          \/ /\ ~Enough(s)
             /\ buffer' = s /\ delivered' = delivered /\ dead' = dead
          \/ /\ Enough(s)
             /\ buffer' = Remaining(s) /\ dead' = dead
             /\ delivered' = IF Complete(s) THEN Append(delivered, s[1].msg) ELSE delivered
      BY <1>5, Zenon DEF Parse, s
    <3> QED
      BY <2>5, <3>1, Zenon
  <2>8. b[lb].msg = m =>
          /\ MagicLen <= b[lb].at /\ b[lb].at < h => m \in headCut'
          /\ z - y <= b[lb].at /\ b[lb].at < z => m \in tailCut'
    <3>1. b # <<>>
      BY <1>2, <2>1, EmptySeq
    <3> QED
      BY <3>1 DEF CutsKnown
  <2> HIDE DEF z, h, y, d
  <2>9. /\ lb \in Nat /\ p \in Nat /\ p >= 1 /\ p <= lb
        /\ ls \in Nat /\ ls = lb - p + 1
        /\ MagicLen <= ls
    <3>1. p \in 1..Len(b) /\ p + MagicLen - 1 <= Len(b) /\ Len(s) = Len(b) - p + 1
      BY <2>1
    <3> HIDE DEF s
    <3> QED
      BY ONLY <1>2, <2>4, <3>1
  <2> HIDE DEF lb, ls
  <2>10. z \in Nat /\ h \in Nat /\ z >= 1 /\ h < z /\ z - y = d + MagicLen
    BY ONLY <2>4
  <2>11. lb \in 1..lb /\ (lb - p) + 1 = ls /\ p + (lb - p) = lb /\ p \in 1..(lb + 1)
    BY ONLY <2>9
  <2>12. ls < z => b[lb].msg = m /\ b[lb].at = ls
    <3> SUFFICES ASSUME ls < z
                 PROVE  b[lb].msg = m /\ b[lb].at = ls
      OBVIOUS
    <3>1. lb - p \in 0..(z - 1)
      BY ONLY ls < z, <2>9, <2>10
    <3>2. bw[p + (lb - p)] = [msg |-> m, at |-> (lb - p) + 1]
      BY <2>3, <3>1
    <3>3. bw[lb] = [msg |-> m, at |-> ls]
      BY <2>11, <3>2
    <3>4. bw[lb] = b[lb]
      BY <1>3, <2>11 DEF lb
    <3> QED
      BY <3>3, <3>4
  <2>13. \A i \in 1..lb : b[i].at = 1 /\ i < p + z => i = p
    <3> SUFFICES ASSUME NEW i \in 1..lb, i < p + z, i # p
                 PROVE  b[i].at # 1
      OBVIOUS
    <3>1. i \in Nat /\ i >= 1 /\ i <= lb
      BY <2>9
    <3>2. CASE i < p
      <4>1. i \in 1..(p - 1)
        BY ONLY <2>9, <3>1, <3>2
      <4> QED
        BY <2>1, <4>1
    <3>3. CASE i > p
      <4>1. i - p \in 0..(z - 1) /\ p + (i - p) = i /\ (i - p) + 1 # 1
        BY ONLY i < p + z, <2>9, <2>10, <3>1, <3>3
      <4>2. bw[p + (i - p)] = [msg |-> m, at |-> (i - p) + 1]
        BY <2>3, <4>1
      <4>3. bw[i] = b[i]
        BY <1>3 DEF lb
      <4> QED
        BY <4>1, <4>2, <4>3
    <3> QED
      BY <2>9, <3>1, <3>2, <3>3
  <2>14. s = SubSeq(b, p, lb) /\ \A i \in 1..(p - 1) : b[i].at # 1
    BY <2>1 DEF lb
  <2>15. CASE ls < h /\ buffer' = s /\ delivered' = delivered
    <3>1. ls < z
      BY ONLY <2>9, <2>10, <2>15
    <3>2. m \in headCut'
      BY <2>8, <2>9, <2>12, <2>15, <3>1
    <3> QED
      BY <2>11, <2>14, <2>15, <3>2 DEF lb
  <2>16. CASE buffer' = s /\ delivered' = delivered /\ dead' = dead
    BY <2>11, <2>14, <2>16 DEF lb
  <2>17. CASE /\ Complete(s) /\ buffer' = Remaining(s) /\ dead' = dead
              /\ delivered' = Append(delivered, m)
    <3> DEFINE q == p + z
    <3>1. z <= ls
      BY ONLY <2>6, <2>9, <2>10, <2>17
    <3>2. q \in 1..(lb + 1) /\ p \in 1..(q - 1) /\ q \in Nat /\ q <= lb + 1
      BY ONLY <2>9, <2>10, <3>1
    <3>3. SubSeq(s, z + 1, ls) = SubSeq(b, p + z, lb)
      <4>1. z \in Nat /\ z <= Len(s)
        BY <2>10, <3>1 DEF ls
      <4> QED
        BY <2>1, <4>1, RemainingLemma DEF ls, lb
    <3>4. buffer' = SubSeq(b, q, lb)
      BY <2>6, <2>17, <3>3
    <3>5. \A j \in q..Len(bw) : m < bw[j].msg
      BY <2>3
    <3>6. \A i \in 1..(q - 1) : i \in 1..lb /\ i < p + z
      BY ONLY <2>9, <3>2
    <3>7. \A i \in 1..(q - 1) : b[i].at = 1 => i = p
      BY <2>13, <3>6
    <3> HIDE DEF q
    <3>8. b[p].at = 1 /\ b[p].msg \in 1..n
      BY <2>1, <2>3, <2>5
    <3> QED
      BY <2>5, <2>17, <3>2, <3>4, <3>5, <3>7, <3>8 DEF bw, lb
  <2>18. CASE /\ Enough(s) /\ ~Complete(s) /\ buffer' = Remaining(s) /\ dead' = dead
              /\ delivered' = delivered
    <3>1. ls < z /\ d + MagicLen <= ls
      BY ONLY <2>4, <2>6, <2>9, <2>10, <2>18
    <3>2. Remaining(s) = <<>>
      <4>1. ls \in Int /\ z + 1 \in Int /\ ls < z + 1
        BY ONLY <2>9, <2>10, <3>1
      <4> QED
        BY <2>6, <4>1, SubSeqEmpty
    <3> DEFINE q == lb + 1
    <3>3. SubSeq(b, lb + 1, lb) = <<>>
      BY <2>9, SubSeqEmpty
    <3>4. q \in 1..(lb + 1) /\ \A i \in 1..(q - 1) : i \in 1..lb
      BY ONLY <2>9
    <3>5. m \in tailCut'
      BY <2>8, <2>10, <2>12, <3>1
    <3>6. \A i \in 1..lb : i < p + z
      BY ONLY <2>9, <2>10, <3>1
    <3>7. \A i \in 1..(q - 1) : b[i].at = 1 => b[i].msg \in tailCut'
      BY <2>5, <2>13, <3>4, <3>5, <3>6
    <3>8. buffer' = SubSeq(b, q, lb)
      BY <2>18, <3>2, <3>3
    <3> HIDE DEF q
    <3> QED
      BY <2>18, <3>4, <3>7, <3>8 DEF lb
  <2> QED
    BY <2>7, <2>15, <2>16, <2>17, <2>18
<1> QED
  BY <1>4, <1>5

----------------------------------------------------------------------------
(* The steps.                                                              *)

\* The messages that were written are messages.
LEMMA SentAreMessages ==
  ASSUME sent \in 0..Cardinality(Msg)
  PROVE  sent \in Nat /\ 1..sent \subseteq Msg
<1>1. Cardinality(Msg) \in Nat /\ Msg = 1..Cardinality(Msg)
  BY FramingAssumption, FS_CardinalityType
<1> QED
  BY <1>1

\* A parse of the bytes that have come keeps the invariant.
LEMMA ParseStep ==
  ASSUME IInv, NEW b \in Seq(Byte), NEW w \in Seq(Byte),
         b \o w = Stream, Parse(b), wire' = w, sent' = sent, ~dead,
         headCut \subseteq headCut', tailCut \subseteq tailCut',
         CutsKnown(b, headCut', tailCut')
  PROVE  IInv'
<1> DEFINE bw == b \o w
           n == sent
<1>1. n \in Nat /\ 1..n \subseteq Msg
  BY SentAreMessages DEF IInv
<1>2. /\ bw \in Seq(Byte) /\ Len(bw) = Len(b) + Len(w)
      /\ \A i \in 1..(Len(b) + Len(w)) : bw[i] = IF i <= Len(b) THEN b[i] ELSE w[i - Len(b)]
  BY ConcatProperties
<1>3. Len(b) \in Nat /\ Len(w) \in Nat
  BY LenProperties
<1>4. bw = Stream /\ Sound(bw, n)
  BY DEF IInv
<1>5. /\ dead' => dead \/ headCut' # {}
      /\ \E q \in 1..(Len(b) + 1) :
           /\ buffer' = SubSeq(b, q, Len(b))
           /\ \/ /\ delivered' = delivered
                 /\ \A i \in 1..(q - 1) : b[i].at = 1 => b[i].msg \in tailCut'
              \/ \E p \in 1..(q - 1) :
                   /\ b[p].at = 1 /\ b[p].msg \in 1..n
                   /\ delivered' = Append(delivered, b[p].msg)
                   /\ \A i \in 1..(q - 1) : b[i].at = 1 => i = p
                   /\ \A j \in q..Len(bw) : b[p].msg < bw[j].msg
  BY <1>1, <1>4, ParseLemma
<1>6. PICK q \in 1..(Len(b) + 1) :
        /\ buffer' = SubSeq(b, q, Len(b))
        /\ \/ /\ delivered' = delivered
              /\ \A i \in 1..(q - 1) : b[i].at = 1 => b[i].msg \in tailCut'
           \/ \E p \in 1..(q - 1) :
                /\ b[p].at = 1 /\ b[p].msg \in 1..n
                /\ delivered' = Append(delivered, b[p].msg)
                /\ \A i \in 1..(q - 1) : b[i].at = 1 => i = p
                /\ \A j \in q..Len(bw) : b[p].msg < bw[j].msg
  BY <1>5
<1> DEFINE c == buffer'
           st == c \o w
<1>7. /\ c \in Seq(Byte)
      /\ Len(c) = Len(b) - q + 1
      /\ \A i \in 1..(Len(b) - q + 1) : c[i] = b[q + i - 1]
  BY <1>6, SuffixLemma
<1>8. /\ st \in Seq(Byte)
      /\ Len(st) = Len(bw) - q + 1
      /\ \A i \in 1..(Len(bw) - q + 1) : st[i] = bw[q + i - 1]
  <2>1. /\ SubSeq(b, q, Len(b)) \o w \in Seq(Byte)
        /\ Len(SubSeq(b, q, Len(b)) \o w) = Len(bw) - q + 1
        /\ \A i \in 1..(Len(bw) - q + 1) : (SubSeq(b, q, Len(b)) \o w)[i] = bw[q + i - 1]
    BY ONLY SuffixConcat, b \in Seq(Byte), w \in Seq(Byte), q \in 1..(Len(b) + 1), SMTT(60)
  <2>2. st = SubSeq(b, q, Len(b)) \o w
    BY <1>6
  <2> HIDE DEF st, bw
  <2> QED
    BY <2>1, <2>2
<1>9. Stream' = st
  BY DEF Stream
<1> HIDE DEF bw, st
<1>10. Len(bw) \in Nat /\ q \in Nat /\ q >= 1 /\ q <= Len(b) + 1 /\ q <= Len(bw) + 1
  BY <1>2, <1>3
<1>11. \A i \in 1..Len(b) : i \in 1..Len(bw) /\ bw[i] = b[i]
  BY <1>2, <1>3
<1>12. \A j \in 1..Len(st) : /\ q + j - 1 \in q..Len(bw)
                             /\ q + j - 1 \in 1..Len(bw)
                             /\ st[j] = bw[q + j - 1]
  BY <1>8, <1>10
<1>13. Sound(st, n)
  <2>1. q \in 1..(Len(bw) + 1)
    BY <1>10
  <2> QED
    BY <1>1, <1>2, <1>4, <1>8, <2>1, SoundSuffix
<1>14. /\ delivered \in Seq(Nat)
       /\ Len(delivered) \in Nat
       /\ \A i \in 1..Len(delivered) : delivered[i] \in Nat /\ delivered[i] <= n
       /\ \A i \in 1..Len(delivered), j \in 1..Len(bw) : delivered[i] < bw[j].msg
       /\ \A i, j \in 1..Len(delivered) : i < j => delivered[i] < delivered[j]
  BY <1>4, LenProperties, ElementOfSeq DEF IInv
<1>15. \A m \in 1..n : Begins(bw, m) \/ m \in tailCut \/ Delivered(m)
  BY <1>4 DEF IInv
<1>16. CutsKnown(c, headCut', tailCut')
  <2> SUFFICES ASSUME c # <<>>
               PROVE  c[Len(c)] = b[Len(b)] /\ b # <<>>
    BY DEF CutsKnown
  <2>1. Len(c) # 0 /\ Len(c) \in Nat
    BY <1>7, EmptySeq, LenProperties
  <2>2. Len(c) \in 1..(Len(b) - q + 1) /\ q + Len(c) - 1 = Len(b) /\ Len(b) # 0
    BY <1>3, <1>7, <1>10, <2>1
  <2> QED
    BY <1>7, <2>2, EmptySeq
<1>17. ASSUME NEW m \in 1..n, Begins(bw, m)
       PROVE  Begins(st, m) \/ \E i \in 1..(q - 1) : b[i].at = 1 /\ b[i].msg = m
  <2>1. PICK i \in 1..Len(bw) : bw[i] = [msg |-> m, at |-> 1]
    BY <1>17 DEF Begins
  <2>2. i \in Nat
    OBVIOUS
  <2>3. CASE i >= q
    <3>1. i - q + 1 \in 1..Len(st) /\ q + (i - q + 1) - 1 = i
      BY <1>8, <1>10, <2>2, <2>3
    <3>2. st[i - q + 1] = bw[i]
      BY <1>12, <3>1
    <3> QED
      BY <2>1, <3>1, <3>2 DEF Begins
  <2>4. CASE i < q
    <3>1. i \in 1..(q - 1) /\ i \in 1..Len(b)
      BY <1>3, <1>10, <2>2, <2>4
    <3>2. b[i] = [msg |-> m, at |-> 1]
      BY <1>11, <2>1, <3>1
    <3>3. b[i].at = 1 /\ b[i].msg = m
      BY <3>2
    <3> QED
      BY <3>1, <3>3
  <2> QED
    BY <1>10, <2>2, <2>3, <2>4
<1> HIDE DEF c
<1>18. CASE /\ delivered' = delivered
            /\ \A i \in 1..(q - 1) : b[i].at = 1 => b[i].msg \in tailCut'
  <2>1. \A i \in 1..Len(delivered), j \in 1..Len(st) : delivered[i] < st[j].msg
    BY <1>12, <1>14
  <2>2. \A m \in 1..n : Begins(st, m) \/ m \in tailCut' \/ Delivered(m)
    BY <1>15, <1>17, <1>18
  <2>3. \A m : Delivered(m)' <=> Delivered(m)
    BY <1>18 DEF Delivered
  <2>4. c = buffer'
    BY DEF c
  <2> QED
    BY <1>5, <1>7, <1>9, <1>13, <1>14, <1>16, <1>18, <2>1, <2>2, <2>3, <2>4 DEF IInv
<1>19. ASSUME NEW p \in 1..(q - 1),
              b[p].at = 1, b[p].msg \in 1..n,
              delivered' = Append(delivered, b[p].msg),
              \A i \in 1..(q - 1) : b[i].at = 1 => i = p,
              \A j \in q..Len(bw) : b[p].msg < bw[j].msg
       PROVE  IInv'
  <2> DEFINE m == b[p].msg
             d == delivered'
             k == Len(delivered)
  <2>1. m \in Nat /\ m \in 1..n
    BY <1>19
  <2>2. p \in 1..Len(bw) /\ bw[p].msg = m
    <3>1. p \in 1..Len(b)
      BY <1>3, <1>10
    <3> QED
      BY <1>11, <3>1
  <2>3. \A i \in 1..k : delivered[i] < m
    BY <1>14, <2>2
  <2>4. /\ d \in Seq(Nat) /\ Len(d) = k + 1
        /\ \A i \in 1..k : d[i] = delivered[i]
        /\ d[k + 1] = m
    BY <1>14, <1>19, <2>1, AppendProperties
  <2>5. \A j \in q..Len(bw) : m < bw[j].msg
    BY <1>19
  <2> HIDE DEF m, d
  <2>6. \A i \in 1..Len(d) : i \in 1..k \/ i = k + 1
    BY <1>14, <2>4
  <2>7. \A i \in 1..Len(d) : d[i] <= n
    <3>1. m <= n
      BY <1>1, <2>1
    <3> QED
      BY <1>14, <2>4, <2>6, <3>1
  <2>8. \A i \in 1..Len(d), j \in 1..Len(st) : d[i] < st[j].msg
    BY <1>12, <1>14, <2>4, <2>5, <2>6
  <2>9. ASSUME NEW i \in 1..Len(d), NEW j \in 1..Len(d), i < j
        PROVE  d[i] < d[j]
    <3>1. i \in 1..k
      BY <1>14, <2>4, <2>6, <2>9
    <3>2. CASE j \in 1..k
      BY <1>14, <2>4, <2>9, <3>1, <3>2
    <3>3. CASE j = k + 1
      BY <2>3, <2>4, <3>1, <3>3
    <3> QED
      BY <2>6, <3>2, <3>3
  <2>10. \A x : Delivered(x)' <=> \E i \in 1..Len(d) : d[i] = x
    <3>1. DOMAIN d = 1..Len(d)
      BY <2>4, LenProperties
    <3> QED
      BY <3>1 DEF Delivered, d
  <2>11. \A x : Delivered(x) => Delivered(x)'
    <3>1. DOMAIN delivered = 1..k
      BY <1>14, LenProperties
    <3>2. \A i \in 1..k : i \in 1..Len(d)
      BY <1>14, <2>4
    <3> QED
      BY <2>4, <2>10, <3>1, <3>2 DEF Delivered
  <2>12. Delivered(m)'
    <3>1. k + 1 \in 1..Len(d)
      BY <1>14, <2>4
    <3> QED
      BY <2>4, <2>10, <3>1
  <2>13. ASSUME NEW x \in 1..n
         PROVE  Begins(st, x) \/ x \in tailCut' \/ Delivered(x)'
    <3>1. CASE Begins(bw, x)
      <4>1. CASE \E i \in 1..(q - 1) : b[i].at = 1 /\ b[i].msg = x
        <5>1. x = m
          BY <1>19, <4>1 DEF m
        <5> QED
          BY <2>12, <5>1
      <4> QED
        BY <1>17, <3>1, <4>1
    <3> QED
      BY <1>15, <2>11, <3>1
  <2>14. c = buffer' /\ d = delivered'
    BY DEF c, d
  <2> QED
    BY <1>5, <1>7, <1>9, <1>13, <1>14, <1>16, <2>4, <2>7, <2>8, <2>9, <2>13, <2>14 DEF IInv
<1> QED
  BY <1>6, <1>18, <1>19

LEMMA InitStep == Init => IInv
<1> SUFFICES ASSUME Init
             PROVE  IInv
  OBVIOUS
<1>1. /\ sent = 0 /\ wire = <<>> /\ buffer = <<>> /\ delivered = <<>> /\ dead = FALSE
      /\ headCut = {} /\ tailCut = {}
  BY DEF Init
<1>2. Cardinality(Msg) \in Nat
  BY FramingAssumption, FS_CardinalityType
<1>3. <<>> \in Seq(Byte) /\ <<>> \in Seq(Nat) /\ Len(<<>>) = 0
  BY EmptySeq
<1>4. Stream \in Seq(Byte) /\ Len(Stream) = 0
  <2>1. <<>> \o <<>> \in Seq(Byte) /\ Len(<<>> \o <<>>) = 0 + 0
    BY <1>3, ConcatProperties
  <2> QED
    BY <1>1, <2>1 DEF Stream
<1>5. Sound(Stream, sent)
  BY <1>4 DEF Sound, BytesOf, Ordered, Whole
<1>6. CutsKnown(buffer, headCut, tailCut)
  BY <1>1 DEF CutsKnown
<1> QED
  BY <1>1, <1>2, <1>3, <1>4, <1>5, <1>6 DEF IInv

LEMMA WriteStep ==
  ASSUME IInv, Write
  PROVE  IInv'
<1> DEFINE e == EncodeMessage(sent + 1)
           z == Size(sent + 1)
           s == Stream
           t == s \o e
<1>1. sent \in Nat /\ 1..sent \subseteq Msg
  BY SentAreMessages DEF IInv
<1>2. /\ sent + 1 \in Msg
      /\ sent' = sent + 1 /\ wire' = wire \o e /\ buffer' = buffer
      /\ delivered' = delivered /\ dead' = dead /\ headCut' = headCut /\ tailCut' = tailCut
  BY DEF Write
<1>3. sent + 1 \in 0..Cardinality(Msg)
  BY <1>1, <1>2, FramingAssumption, FS_CardinalityType
<1>4. /\ e \in Seq(Byte) /\ Len(e) = z
      /\ \A i \in 1..z : e[i] = [msg |-> sent + 1, at |-> i]
      /\ z \in Nat \ {0}
  BY <1>2, Encoded, Sizes
<1>5. buffer \in Seq(Byte) /\ wire \in Seq(Byte)
  BY DEF IInv
<1>6. s \in Seq(Byte) /\ Len(s) \in Nat
  BY <1>5, ConcatProperties, LenProperties DEF Stream
<1>7. Sound(s, sent)
  BY DEF IInv
<1>8. Sound(t, sent + 1)
  BY <1>1, <1>2, <1>6, <1>7, SoundWrite
<1> HIDE DEF e, z
<1>9. wire \o e \in Seq(Byte)
  BY <1>4, <1>5, ConcatProperties
<1>10. Stream' = t
  <2>1. (buffer \o wire) \o e = buffer \o (wire \o e)
    BY ONLY ConcatAssociative, <1>4, <1>5, SMTT(60)
  <2>2. Stream' = buffer \o (wire \o e)
    BY <1>2 DEF Stream
  <2> QED
    BY <2>1, <2>2 DEF Stream
<1> HIDE DEF s
<1>11. /\ t \in Seq(Byte) /\ Len(t) = Len(s) + z
       /\ \A i \in 1..(Len(s) + z) : t[i] = IF i <= Len(s) THEN s[i] ELSE e[i - Len(s)]
  BY <1>4, <1>6, ConcatProperties
<1> HIDE DEF t
<1>12. /\ delivered \in Seq(Nat)
       /\ Len(delivered) \in Nat
       /\ \A i \in 1..Len(delivered) : delivered[i] \in Nat /\ delivered[i] <= sent
       /\ \A i \in 1..Len(delivered), j \in 1..Len(s) : delivered[i] < s[j].msg
       /\ \A i, j \in 1..Len(delivered) : i < j => delivered[i] < delivered[j]
       /\ CutsKnown(buffer, headCut, tailCut)
       /\ \A m \in 1..sent : Begins(s, m) \/ m \in tailCut \/ Delivered(m)
       /\ dead => headCut # {}
  BY LenProperties, ElementOfSeq DEF IInv, s
<1>13. \A i \in 1..Len(s) : i \in 1..Len(t) /\ t[i] = s[i]
  BY <1>4, <1>6, <1>11
<1>14. \A i \in 1..Len(t) : i \notin 1..Len(s) => t[i].msg = sent + 1
  <2> SUFFICES ASSUME NEW i \in 1..Len(t), i \notin 1..Len(s)
               PROVE  t[i].msg = sent + 1
    OBVIOUS
  <2>1. i \in 1..(Len(s) + z) /\ ~(i <= Len(s)) /\ i - Len(s) \in 1..z
    BY <1>4, <1>6, <1>11
  <2> QED
    BY <1>4, <1>11, <2>1
<1>15. t[Len(s) + 1] = [msg |-> sent + 1, at |-> 1] /\ Len(s) + 1 \in 1..Len(t)
  <2>1. /\ Len(s) + 1 \in 1..(Len(s) + z) /\ ~(Len(s) + 1 <= Len(s))
        /\ (Len(s) + 1) - Len(s) = 1 /\ 1 \in 1..z
    BY <1>4, <1>6
  <2> QED
    BY <1>4, <1>11, <2>1
<1>16. \A i \in 1..Len(delivered) : delivered[i] <= sent + 1 /\ delivered[i] < sent + 1
  BY <1>1, <1>12
<1>17. \A i \in 1..Len(delivered), j \in 1..Len(t) : delivered[i] < t[j].msg
  BY <1>12, <1>13, <1>14, <1>16
<1>18. \A m \in 1..(sent + 1) : Begins(t, m) \/ m \in tailCut \/ Delivered(m)
  <2> SUFFICES ASSUME NEW m \in 1..(sent + 1), m \notin tailCut, ~Delivered(m)
               PROVE  Begins(t, m)
    OBVIOUS
  <2>1. CASE m \in 1..sent
    <3>1. PICK i \in 1..Len(s) : s[i] = [msg |-> m, at |-> 1]
      BY <1>12, <2>1 DEF Begins
    <3> QED
      BY <1>13, <3>1 DEF Begins
  <2>2. CASE m = sent + 1
    BY <1>15, <2>2 DEF Begins
  <2>3. m \in 1..sent \/ m = sent + 1
    BY <1>1
  <2> QED
    BY <2>1, <2>2, <2>3
<1>19. \A m : Delivered(m)' <=> Delivered(m)
  BY <1>2 DEF Delivered
<1> QED
  BY <1>2, <1>3, <1>5, <1>8, <1>9, <1>10, <1>11, <1>12, <1>16, <1>17, <1>18, <1>19 DEF IInv

LEMMA ReceiveStep ==
  ASSUME IInv, Receive
  PROVE  IInv'
<1>1. PICK n \in 1..Len(wire) :
        /\ wire' = SubSeq(wire, n + 1, Len(wire))
        /\ Parse(buffer \o SubSeq(wire, 1, n))
        /\ headCut' = headCut \cup
             CutWithin(wire[n], MagicLen, Header(wire[n].msg))
        /\ tailCut' = tailCut \cup
             CutWithin(wire[n], Size(wire[n].msg) - LengthBytes[wire[n].msg],
                       Size(wire[n].msg))
  BY DEF Receive
<1> DEFINE c == buffer \o SubSeq(wire, 1, n)
           v == SubSeq(wire, n + 1, Len(wire))
<1>2. ~dead /\ sent' = sent /\ buffer \in Seq(Byte) /\ wire \in Seq(Byte)
  BY DEF Receive, IInv
<1>3. /\ c \in Seq(Byte) /\ v \in Seq(Byte)
      /\ c # <<>> /\ c[Len(c)] = wire[n]
      /\ c \o v = Stream
  BY <1>2, PieceMoves DEF Stream
<1>4. Parse(c) /\ wire' = v
  BY <1>1
<1> HIDE DEF c, v
<1>5. CutsKnown(c, headCut', tailCut')
  BY <1>1, <1>3 DEF CutsKnown, CutWithin
<1>6. headCut \subseteq headCut' /\ tailCut \subseteq tailCut'
  BY <1>1
<1> QED
  BY <1>2, <1>3, <1>4, <1>5, <1>6, ParseStep

LEMMA AgainStep ==
  ASSUME IInv, Again
  PROVE  IInv'
<1>1. /\ ~dead /\ Parse(buffer) /\ sent' = sent /\ wire' = wire
      /\ headCut' = headCut /\ tailCut' = tailCut
  BY DEF Again
<1>2. buffer \in Seq(Byte) /\ wire \in Seq(Byte) /\ buffer \o wire = Stream
  BY DEF IInv, Stream
<1>3. CutsKnown(buffer, headCut', tailCut')
  BY <1>1 DEF IInv
<1>4. headCut \subseteq headCut' /\ tailCut \subseteq tailCut'
  BY <1>1
<1> QED
  BY <1>1, <1>2, <1>3, <1>4, ParseStep

LEMMA StutterStep ==
  ASSUME IInv, UNCHANGED vars
  PROVE  IInv'
<1>1. /\ sent' = sent /\ wire' = wire /\ buffer' = buffer /\ delivered' = delivered
      /\ dead' = dead /\ headCut' = headCut /\ tailCut' = tailCut
  BY DEF vars
<1>2. Stream' = Stream
  BY <1>1 DEF Stream
<1>3. \A m : Delivered(m)' <=> Delivered(m)
  BY <1>1 DEF Delivered
<1> QED
  BY <1>1, <1>2, <1>3 DEF IInv

----------------------------------------------------------------------------
(* The theorems.                                                           *)

\* The stream is sound, the messages come out of it in order, and what is
\* missing from it was cut, whatever the pieces are (messages.parser).
THEOREM Inductive == Spec => []IInv
<1>1. Init => IInv
  BY InitStep
<1>2. IInv /\ [Next]_vars => IInv'
  BY WriteStep, ReceiveStep, AgainStep, StutterStep DEF Next
<1> QED
  BY <1>1, <1>2, PTL DEF Spec

\* The parser hands over messages in the order in which they were written,
\* each once, however the stream is cut (messages.parser).
THEOREM InOrder == Spec => []InOrderOnce
<1>1. IInv => InOrderOnce
  <2> SUFFICES ASSUME IInv
               PROVE  InOrderOnce
    OBVIOUS
  <2>1. DOMAIN delivered = 1..Len(delivered)
    BY LenProperties DEF IInv
  <2> QED
    BY <2>1 DEF IInv, InOrderOnce
<1> QED
  BY <1>1, Inductive, PTL

\* A message is lost only where a piece of the stream ended within its last
\* bytes, as many as its length has (read in messages.parser).
THEOREM LostOnlyByTailCuts == Spec => []OnlyTailCutsLose
<1>1. IInv => OnlyTailCutsLose
  <2> SUFFICES ASSUME IInv, NEW m \in 1..sent, m \notin tailCut, Begins(Stream, m)
               PROVE  InFlight(m)
    BY DEF IInv, OnlyTailCutsLose, Delivered
  <2>1. buffer \in Seq(Byte) /\ wire \in Seq(Byte)
    BY DEF IInv
  <2>2. /\ Len(Stream) = Len(buffer) + Len(wire)
        /\ \A i \in 1..(Len(buffer) + Len(wire)) :
             Stream[i] = IF i <= Len(buffer) THEN buffer[i] ELSE wire[i - Len(buffer)]
    BY <2>1, ConcatProperties DEF Stream
  <2>3. /\ Len(buffer) \in Nat /\ Len(wire) \in Nat
        /\ DOMAIN buffer = 1..Len(buffer) /\ DOMAIN wire = 1..Len(wire)
    BY <2>1, LenProperties
  <2>4. PICK i \in 1..Len(Stream) : Stream[i] = [msg |-> m, at |-> 1]
    BY DEF Begins
  <2>5. i \in Nat /\ i >= 1 /\ i <= Len(buffer) + Len(wire)
    BY <2>2, <2>3
  <2>6. CASE i <= Len(buffer)
    BY <2>2, <2>3, <2>4, <2>5, <2>6 DEF InFlight
  <2>7. CASE ~(i <= Len(buffer))
    <3>1. i - Len(buffer) \in 1..Len(wire)
      BY <2>3, <2>5, <2>7
    <3>2. Stream[i] = wire[i - Len(buffer)]
      BY <2>2, <2>3, <2>5, <2>7
    <3> QED
      BY <2>3, <2>4, <3>1, <3>2 DEF InFlight
  <2> QED
    BY <2>6, <2>7
<1> QED
  BY <1>1, Inductive, PTL

\* The parser throws only after a piece that ended between the magic number
\* and the end of the length (readMessageLength on too few bytes).
THEOREM KilledOnlyByHeadCuts == Spec => []OnlyHeadCutsKill
<1>1. IInv => OnlyHeadCutsKill
  BY DEF IInv, OnlyHeadCutsKill
<1> QED
  BY <1>1, Inductive, PTL
=============================================================================
