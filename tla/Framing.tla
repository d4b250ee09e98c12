------------------------------ MODULE Framing ------------------------------
(***************************************************************************)
(* lib/messages.js: the messages between a web worker or the service and   *)
(* the writer are a magic number, a length of variable size and JSON.      *)
(* The socket hands the bytes over in pieces that may be cut anywhere, and *)
(* the parser finds the messages again.  A byte is the number of its       *)
(* message and its place in it.                                            *)
(***************************************************************************)
EXTENDS Integers, Sequences, FiniteSets

CONSTANTS MagicLen,     \* bytes of MAGIC_BUFFER
          LengthBytes,  \* LengthBytes[m]: bytes of the length of message m
          Payload       \* Payload[m]: bytes of its JSON

Msg == DOMAIN Payload

ASSUME FramingAssumption ==
  /\ MagicLen \in Nat \ {0}
  /\ IsFiniteSet(Msg) /\ Msg = 1..Cardinality(Msg)
  /\ DOMAIN LengthBytes = Msg
  /\ \A m \in Msg : LengthBytes[m] \in {1, 3, 5, 9} /\ Payload[m] \in Nat \ {0}

VARIABLES
  sent,       \* the messages written so far are 1..sent
  wire,       \* bytes on their way
  buffer,     \* bytes the parser keeps
  scheduled,  \* a parse is queued with setImmediate
  delivered,  \* messages given to the callback
  dead,       \* an exception in the parser has ended the process
  headCut,    \* messages of which a piece ended within the length
  tailCut     \* messages of which a piece ended within the last bytes, as
              \* many as the length has

vars == <<sent, wire, buffer, scheduled, delivered, dead, headCut, tailCut>>

Header(m) == MagicLen + LengthBytes[m]
Size(m) == Header(m) + Payload[m]

\* The length written is that of the text; the bytes are as many as long as the
\* text is ASCII, as ids, addresses, hashes and numbers are.
EncodeMessage(m) == [i \in 1..Size(m) |-> [msg |-> m, at |-> i]]

\* Mutant: the part of a magic number at the end of the buffer is taken for one.
MagicBegins(b, p) == b[p].at = 1

\* The magic number stands at place p of bytes b.
MagicAt(b, p) == b[p].at = 1 /\ p + MagicLen - 1 <= Len(b)

Places(b) == {p \in 1..Len(b) : MagicAt(b, p)}
Found(b) == Places(b) # {}
Least(S) == CHOOSE p \in S : \A q \in S : p <= q
Seek(b) == IF Found(b) THEN SubSeq(b, Least(Places(b)), Len(b)) ELSE b

\* Mutant: the magic number is not counted.
EnoughForPayload(b) == Len(b) >= Payload[b[1].msg]

\* The test of read: the bytes of the length are not counted.
Enough(b) == Len(b) >= Payload[b[1].msg] + MagicLen
Complete(b) == Len(b) >= Size(b[1].msg)

\* Mutant: the buffer is not cut.
NothingRead(b) == b

Remaining(b) == SubSeq(b, Size(b[1].msg) + 1, Len(b))

Init ==
  /\ sent = 0
  /\ wire = <<>> /\ buffer = <<>>
  /\ scheduled = FALSE
  /\ delivered = <<>>
  /\ dead = FALSE
  /\ headCut = {} /\ tailCut = {}

Write ==
  /\ sent + 1 \in Msg
  /\ sent' = sent + 1
  /\ wire' = wire \o EncodeMessage(sent')
  /\ UNCHANGED <<buffer, scheduled, delivered, dead, headCut, tailCut>>

\* Mutant: what is left after a message waits for more data.
WaitForData(b) == FALSE

\* setImmediate(parse) when bytes are left.
ParseAgain(b) == b # <<>>

\* parse: one message at most is read, and truncated JSON is only logged.
Parse(b) ==
  LET s == Seek(b)
      rest == Remaining(s)
  IN \/ /\ ~Found(b)
        /\ buffer' = b
        /\ scheduled' = FALSE
        /\ UNCHANGED <<delivered, dead>>
     \/ /\ Found(b) /\ Len(s) < Header(s[1].msg)
        /\ buffer' = s
        /\ dead' = TRUE
        /\ UNCHANGED <<scheduled, delivered>>
     \/ /\ Found(b) /\ Len(s) >= Header(s[1].msg) /\ ~Enough(s)
        /\ buffer' = s
        /\ scheduled' = ParseAgain(s)
        /\ UNCHANGED <<delivered, dead>>
     \/ /\ Found(b) /\ Len(s) >= Header(s[1].msg) /\ Enough(s)
        /\ buffer' = rest
        /\ scheduled' = ParseAgain(rest)
        /\ delivered' = IF Complete(s) THEN Append(delivered, s[1].msg) ELSE delivered
        /\ UNCHANGED dead

CutWithin(c, from, to) == {m \in {c.msg} : from <= c.at /\ c.at < to}

\* A piece of the stream arrives.
Receive ==
  /\ ~dead
  /\ \E n \in 1..Len(wire) :
       /\ wire' = SubSeq(wire, n + 1, Len(wire))
       /\ Parse(buffer \o SubSeq(wire, 1, n))
       /\ headCut' = headCut \cup
            CutWithin(wire[n], MagicLen, Header(wire[n].msg))
       /\ tailCut' = tailCut \cup
            CutWithin(wire[n], Size(wire[n].msg) - LengthBytes[wire[n].msg],
                      Size(wire[n].msg))
  /\ UNCHANGED sent

\* A queued parse runs without new data.
Again ==
  /\ ~dead /\ scheduled
  /\ Parse(buffer)
  /\ UNCHANGED <<sent, wire, headCut, tailCut>>

Next == Write \/ Receive \/ Again

\* The socket delivers what was written, and setImmediate runs.
Spec == Init /\ [][Next]_vars /\ WF_vars(Receive) /\ WF_vars(Again)

----------------------------------------------------------------------------
\* The parser hands over messages in the order in which they were written,
\* each once, however the stream is cut (messages.parser).
InOrderOnce == \A i, j \in DOMAIN delivered : i < j => delivered[i] < delivered[j]

InFlight(m) ==
  \/ \E i \in DOMAIN wire : wire[i] = [msg |-> m, at |-> 1]
  \/ \E i \in DOMAIN buffer : buffer[i] = [msg |-> m, at |-> 1]

\* A message that has left the buffer was handed over, unless a piece of the
\* stream ended within its last bytes, which read does not count: then, and
\* only then, it may be lost, and the messages after it are found again.
OnlyTailCutsLose ==
  \A m \in 1..sent :
    InFlight(m) \/ m \in tailCut \/ \E i \in DOMAIN delivered : delivered[i] = m

\* The parser throws only when a piece ends between the magic number and the
\* end of the length: no other cut ends the process.
OnlyHeadCutsKill == dead => headCut # {}

\* What is written is handed over in the end, also the second message of one
\* piece and a message in many pieces, unless a cut of these two kinds comes.
EveryMessageArrives ==
  \A m \in Msg :
    sent >= m ~> \/ \E i \in DOMAIN delivered : delivered[i] = m
                 \/ headCut # {} \/ m \in tailCut
=============================================================================
