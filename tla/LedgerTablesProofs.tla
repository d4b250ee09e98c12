------------------------- MODULE LedgerTablesProofs -------------------------
(***************************************************************************)
(* Lemmas about the tables of a chain, without the programs that use them: *)
(* the places of the deltas of a chain, the rows of outputs and of         *)
(* transactions that some of these places give the wallets, what such rows *)
(* are worth, and what the writes of a delta and of an import change in    *)
(* them.                                                                   *)
(***************************************************************************)
EXTENDS LedgerTables, FiniteSetTheorems, WellFoundedInduction, TLAPS

----------------------------------------------------------------------------
(* Chains                                                                  *)

\* Some block of a set is the lowest.
LEMMA LowestBlock ==
  ASSUME NEW B \in SUBSET Block, B # {}
  PROVE  \E b \in B : \A c \in B : Height[b] <= Height[c]
<1> DEFINE R == OpToRel(<, Nat)
           H == {Height[b] : b \in B}
<1>1. IsWellFoundedOn(R, Nat)
  BY NatLessThanWellFounded
<1>2. \A x, y \in Nat : y < x => <<y, x>> \in R
  BY DEF OpToRel
<1>3. H \in SUBSET Nat /\ H # {}
  BY ChainAssumption
<1> HIDE DEF R
<1>4. PICK h \in H : \A k \in H : <<k, h>> \notin R
  <2> HIDE DEF H
  <2> QED
    BY <1>1, <1>3, WFMin
<1>5. PICK b \in B : h = Height[b]
  BY <1>4
<1>6. ASSUME NEW c \in B
      PROVE  Height[b] <= Height[c]
  <2>1. Height[c] \in H /\ Height[b] \in Nat /\ Height[c] \in Nat
    BY ChainAssumption
  <2>2. <<Height[c], Height[b]>> \notin R
    BY <1>4, <1>5, <2>1
  <2>3. ~(Height[c] < Height[b])
    BY <1>2, <2>1, <2>2
  <2> QED
    BY <2>1, <2>3
<1> QED
  BY <1>6

\* A way down the tree from b to c in n steps
Way(p, n, b, c) ==
  /\ p \in [0 .. n -> Block]
  /\ p[0] = b
  /\ p[n] = c
  /\ \A i \in 0 .. n - 1 : p[i + 1] = Parent[p[i]]

Below(b) == {c \in Block : \E n \in Nat : \E p \in [0 .. n -> Block] : Way(p, n, b, c)}

\* The blocks below b satisfy the equation that defines Ancestors.
LEMMA BelowStep ==
  ASSUME NEW b \in Block
  PROVE  Below(b) = IF Parent[b] = NoBlock THEN {b} ELSE {b} \cup Below(Parent[b])
<1>1. b \in Below(b)
  <2> DEFINE p == [i \in 0 .. 0 |-> b]
  <2>1. p \in [0 .. 0 -> Block] /\ Way(p, 0, b, b)
    BY DEF Way
  <2> HIDE DEF p
  <2> QED
    BY <2>1 DEF Below
<1>2. ASSUME NEW c \in Below(b), c # b
      PROVE  Parent[b] # NoBlock /\ c \in Below(Parent[b])
  <2>0. PICK n \in Nat : \E p \in [0 .. n -> Block] : Way(p, n, b, c)
    BY DEF Below
  <2>1. PICK p \in [0 .. n -> Block] : Way(p, n, b, c)
    BY <2>0
  <2>2. n # 0
    BY <1>2, <2>1 DEF Way
  <2>3. p[0] = b /\ p[n] = c /\ \A i \in 0 .. n - 1 : p[i + 1] = Parent[p[i]]
    BY <2>1 DEF Way
  <2>4. p[1] = Parent[b]
    <3>1. 0 \in 0 .. n - 1
      BY <2>2
    <3>2. p[0 + 1] = Parent[p[0]]
      BY <2>3, <3>1
    <3> QED
      BY <2>3, <3>2
  <2>5. p[1] \in Block
    BY <2>2
  <2> DEFINE q == [i \in 0 .. n - 1 |-> p[i + 1]]
  <2>6. q \in [0 .. n - 1 -> Block]
    BY <2>2
  <2>7. n - 1 \in Nat
    BY <2>2
  <2>8. Way(q, n - 1, Parent[b], c)
    <3>1. q[0] = Parent[b] /\ q[n - 1] = c
      BY <2>2, <2>3, <2>4
    <3>2. ASSUME NEW i \in 0 .. (n - 1) - 1
          PROVE  q[i + 1] = Parent[q[i]]
      <4>1. i + 1 \in 0 .. n - 1 /\ i \in 0 .. n - 1
        BY <3>2, <2>2
      <4>2. p[(i + 1) + 1] = Parent[p[i + 1]]
        BY <4>1, <2>3
      <4> QED
        BY <4>1, <4>2
    <3> HIDE DEF q
    <3> QED
      BY <2>6, <3>1, <3>2 DEF Way
  <2> HIDE DEF q
  <2>9. c \in Below(Parent[b])
    <3>1. c \in Block
      BY DEF Below
    <3> QED
      BY <2>6, <2>7, <2>8, <3>1 DEF Below
  <2> QED
    BY <2>4, <2>5, <2>9, ChainAssumption
<1>3. ASSUME Parent[b] # NoBlock, NEW c \in Below(Parent[b])
      PROVE  c \in Below(b)
  <2>0. PICK n \in Nat : \E q \in [0 .. n -> Block] : Way(q, n, Parent[b], c)
    BY <1>3 DEF Below
  <2>1. PICK q \in [0 .. n -> Block] : Way(q, n, Parent[b], c)
    BY <2>0
  <2>2. q[0] = Parent[b] /\ q[n] = c /\ \A i \in 0 .. n - 1 : q[i + 1] = Parent[q[i]]
    BY <2>1 DEF Way
  <2> DEFINE p == [i \in 0 .. n + 1 |-> IF i = 0 THEN b ELSE q[i - 1]]
  <2>3. p \in [0 .. n + 1 -> Block]
    <3> SUFFICES ASSUME NEW i \in 0 .. n + 1
                 PROVE  (IF i = 0 THEN b ELSE q[i - 1]) \in Block
      OBVIOUS
    <3>1. i # 0 => i - 1 \in 0 .. n
      OBVIOUS
    <3> QED
      BY <3>1
  <2>4. p[0] = b /\ p[n + 1] = c
    BY <2>2
  <2>5. ASSUME NEW i \in 0 .. (n + 1) - 1
        PROVE  p[i + 1] = Parent[p[i]]
    <3>1. CASE i = 0
      <4>1. p[0 + 1] = q[0] /\ p[0] = b
        OBVIOUS
      <4> QED
        BY <3>1, <4>1, <2>2
    <3>2. CASE i # 0
      <4>1. i - 1 \in 0 .. n - 1 /\ i \in 0 .. n + 1 /\ i + 1 \in 0 .. n + 1 /\ i + 1 # 0
        BY <2>5, <3>2
      <4>2. q[(i - 1) + 1] = Parent[q[i - 1]]
        BY <4>1, <2>2
      <4>3. p[i + 1] = q[(i + 1) - 1] /\ p[i] = q[i - 1]
        BY <4>1, <3>2
      <4>4. (i - 1) + 1 = (i + 1) - 1
        BY <4>1
      <4> QED
        BY <4>2, <4>3, <4>4
    <3> QED
      BY <3>1, <3>2
  <2> HIDE DEF p
  <2>6. Way(p, n + 1, b, c)
    BY <2>3, <2>4, <2>5 DEF Way
  <2>7. n + 1 \in Nat /\ c \in Block
    BY <1>3 DEF Below
  <2> QED
    BY <2>3, <2>6, <2>7 DEF Below
<1> QED
  BY <1>1, <1>2, <1>3

\* There is a function that satisfies it, so that Ancestors does.
LEMMA AncestorsStep ==
  \A b \in Block :
    Ancestors[b] = IF Parent[b] = NoBlock THEN {b} ELSE {b} \cup Ancestors[Parent[b]]
<1> DEFINE G == [b \in Block |-> Below(b)]
           Step(f) == [b \in Block |-> IF Parent[b] = NoBlock THEN {b} ELSE {b} \cup f[Parent[b]]]
<1>1. G = Step(G)
  <2>1. ASSUME NEW b \in Block
        PROVE  G[b] = Step(G)[b]
    <3>1. Parent[b] # NoBlock => Parent[b] \in Block
      BY ChainAssumption
    <3> QED
      BY <3>1, BelowStep
  <2>2. G = [b \in Block |-> G[b]] /\ Step(G) = [b \in Block |-> Step(G)[b]]
    OBVIOUS
  <2> QED
    BY <2>1, <2>2
<1> HIDE DEF G
<1>2. Ancestors = Step(Ancestors)
  BY <1>1 DEF Ancestors
<1> QED
  BY <1>2

\* The chain of a block is the block and the chain of its parent.
LEMMA ChainStep ==
  ASSUME NEW b \in Block
  PROVE  /\ b \in ChainOf(b)
         /\ Parent[b] = NoBlock => ChainOf(b) = {b}
         /\ Parent[b] # NoBlock =>
              /\ Parent[b] \in Block
              /\ Height[b] = Height[Parent[b]] + 1
              /\ ChainOf(b) = {b} \cup ChainOf(Parent[b])
<1>1. Parent[b] # NoBlock => Parent[b] \in Block /\ Height[b] = Height[Parent[b]] + 1
  BY ChainAssumption
<1>2. ChainOf(b) = IF Parent[b] = NoBlock THEN {b} ELSE {b} \cup ChainOf(Parent[b])
  BY AncestorsStep DEF ChainOf
<1> QED
  BY <1>1, <1>2

\* Down a chain the height falls.
LEMMA ChainHeight ==
  ASSUME NEW b \in Block, NEW c \in ChainOf(b)
  PROVE  /\ c \in Block
         /\ Height[c] <= Height[b]
         /\ Height[c] = Height[b] => c = b
<1> DEFINE Good(e) == \A f \in ChainOf(e) :
                        Height[f] <= Height[e] /\ (Height[f] = Height[e] => f = e)
           B == {e \in Block : ~Good(e)}
<1>1. SUFFICES B = {}
  BY DEF ChainOf
<1>2. SUFFICES ASSUME B # {} PROVE FALSE
  OBVIOUS
<1>3. PICK e \in B : \A f \in B : Height[e] <= Height[f]
  <2>1. B \in SUBSET Block
    OBVIOUS
  <2> HIDE DEF B
  <2> QED
    BY <1>2, <2>1, LowestBlock
<1>4. e \in Block /\ Height[e] \in Nat
  BY ChainAssumption
<1>5. CASE Parent[e] = NoBlock
  BY <1>4, <1>5, ChainStep
<1>6. CASE Parent[e] # NoBlock
  <2>1. /\ Parent[e] \in Block /\ Height[e] = Height[Parent[e]] + 1
        /\ ChainOf(e) = {e} \cup ChainOf(Parent[e])
        /\ Height[Parent[e]] \in Nat
    BY <1>4, <1>6, ChainStep, ChainAssumption
  <2>2. Parent[e] \notin B
    <3> HIDE DEF B
    <3> QED
      BY <1>3, <1>4, <2>1
  <2>3. \A f \in ChainOf(Parent[e]) : f \in Block /\ Height[f] \in Nat
    BY ChainAssumption DEF ChainOf
  <2>4. \A f \in ChainOf(Parent[e]) : Height[f] <= Height[Parent[e]]
    BY <2>1, <2>2
  <2>5. \A f \in ChainOf(Parent[e]) : Height[f] < Height[e]
    BY <2>1, <2>3, <2>4
  <2>6. Good(e)
    BY <1>4, <2>1, <2>3, <2>5
  <2> QED
    BY <2>6
<1> QED
  BY <1>5, <1>6

\* The chain of a block of a chain is part of it.
LEMMA ChainTransitive ==
  ASSUME NEW b \in Block, NEW c \in ChainOf(b)
  PROVE  ChainOf(c) \subseteq ChainOf(b)
<1> DEFINE Good(e) == \A f \in ChainOf(e) : ChainOf(f) \subseteq ChainOf(e)
           B == {e \in Block : ~Good(e)}
<1>1. SUFFICES ASSUME B # {} PROVE FALSE
  OBVIOUS
<1>2. PICK e \in B : \A f \in B : Height[e] <= Height[f]
  <2>1. B \in SUBSET Block
    OBVIOUS
  <2> HIDE DEF B
  <2> QED
    BY <1>1, <2>1, LowestBlock
<1>3. e \in Block /\ Height[e] \in Nat
  BY ChainAssumption
<1>4. CASE Parent[e] = NoBlock
  BY <1>3, <1>4, ChainStep
<1>5. CASE Parent[e] # NoBlock
  <2>1. /\ Parent[e] \in Block /\ Height[e] = Height[Parent[e]] + 1
        /\ ChainOf(e) = {e} \cup ChainOf(Parent[e])
        /\ Height[Parent[e]] \in Nat
    BY <1>3, <1>5, ChainStep, ChainAssumption
  <2>2. Parent[e] \notin B
    <3> HIDE DEF B
    <3> QED
      BY <1>2, <1>3, <2>1
  <2>3. Good(Parent[e])
    BY <2>1, <2>2
  <2> QED
    BY <2>1, <2>3
<1> QED
  BY <1>4, <1>5

\* Of two blocks of a chain the lower one is in the chain of the other.
LEMMA ChainOrder ==
  ASSUME NEW b \in Block, NEW c \in ChainOf(b), NEW d \in ChainOf(b),
         Height[c] <= Height[d]
  PROVE  c \in ChainOf(d)
<1> DEFINE Good(e) == \A f, g \in ChainOf(e) : Height[f] <= Height[g] => f \in ChainOf(g)
           B == {e \in Block : ~Good(e)}
<1>1. SUFFICES ASSUME B # {} PROVE FALSE
  OBVIOUS
<1>2. PICK e \in B : \A f \in B : Height[e] <= Height[f]
  <2>1. B \in SUBSET Block
    OBVIOUS
  <2> HIDE DEF B
  <2> QED
    BY <1>1, <2>1, LowestBlock
<1>3. e \in Block /\ Height[e] \in Nat
  BY ChainAssumption
<1>4. CASE Parent[e] = NoBlock
  BY <1>3, <1>4, ChainStep
<1>5. CASE Parent[e] # NoBlock
  <2>1. /\ Parent[e] \in Block /\ Height[e] = Height[Parent[e]] + 1
        /\ ChainOf(e) = {e} \cup ChainOf(Parent[e])
        /\ Height[Parent[e]] \in Nat
    BY <1>3, <1>5, ChainStep, ChainAssumption
  <2>2. Parent[e] \notin B
    <3> HIDE DEF B
    <3> QED
      BY <1>2, <1>3, <2>1
  <2>3. Good(Parent[e])
    BY <2>1, <2>2
  <2>4. ASSUME NEW f \in ChainOf(e), NEW g \in ChainOf(e), Height[f] <= Height[g]
        PROVE  f \in ChainOf(g)
    <3>1. CASE g = e
      BY <3>1
    <3>2. CASE g \in ChainOf(Parent[e]) /\ f = e
      <4>1. Height[g] <= Height[Parent[e]] /\ Height[g] \in Nat
        BY <2>1, <3>2, ChainHeight, ChainAssumption
      <4> QED
        BY <1>3, <2>1, <2>4, <3>2, <4>1
    <3>3. CASE g \in ChainOf(Parent[e]) /\ f \in ChainOf(Parent[e])
      BY <2>3, <2>4, <3>3
    <3> QED
      BY <2>1, <3>1, <3>2, <3>3
  <2>5. Good(e)
    BY <2>4
  <2> QED
    BY <2>5
<1> QED
  BY <1>4, <1>5

\* A chain has one block of each height, and its blocks follow each other.
LEMMA ChainUnique ==
  ASSUME NEW b \in Block, NEW c \in ChainOf(b), NEW d \in ChainOf(b)
  PROVE  /\ Height[c] = Height[d] => c = d
         /\ Height[d] = Height[c] + 1 => Parent[d] = c
<1>1. c \in Block /\ d \in Block /\ Height[c] \in Nat /\ Height[d] \in Nat
  BY ChainAssumption DEF ChainOf
<1>2. ASSUME Height[c] = Height[d]
      PROVE  c = d
  <2>1. c \in ChainOf(d)
    BY <1>1, <1>2, ChainOrder
  <2> QED
    BY <1>1, <1>2, <2>1, ChainHeight
<1>3. ASSUME Height[d] = Height[c] + 1
      PROVE  Parent[d] = c
  <2>1. c \in ChainOf(d) /\ c # d
    BY <1>1, <1>3, ChainOrder
  <2>2. /\ Parent[d] \in Block /\ Height[d] = Height[Parent[d]] + 1
        /\ c \in ChainOf(Parent[d]) /\ Height[Parent[d]] \in Nat
    BY <1>1, <2>1, ChainStep, ChainAssumption
  <2> QED
    BY <1>1, <1>3, <2>2, ChainHeight
<1> QED
  BY <1>2, <1>3

----------------------------------------------------------------------------
(* Places                                                                  *)

\* What a place of a chain is.
LEMMA PlaceFacts ==
  ASSUME NEW b \in Block, NEW e \in PlacesOf(b)
  PROVE  /\ e[1] \in ChainOf(b) /\ e[1] \in Block
         /\ e[2] \in DOMAIN Deltas[e[1]] /\ e[2] \in Nat
         /\ e = <<e[1], e[2]>>
         /\ DeltaAt(e) \in Delta
         /\ Height[e[1]] \in Nat
         /\ DeltaAt(e).out \in Outpoint
         /\ AddressOfDelta(DeltaAt(e)) = AddressOf[DeltaAt(e).out]
         /\ AddressOf[DeltaAt(e).out] \in Address
<1>1. PICK c \in ChainOf(b) : e \in {c} \X DOMAIN Deltas[c]
  BY DEF PlacesOf
<1>2. c \in Block /\ Deltas[c] \in Seq(Delta)
  BY ChainAssumption DEF ChainOf
<1>3. e[1] = c /\ e[2] \in DOMAIN Deltas[c] /\ e = <<e[1], e[2]>>
  BY <1>1
<1>4. DOMAIN Deltas[c] \subseteq Nat /\ \A i \in DOMAIN Deltas[c] : Deltas[c][i] \in Delta
  BY <1>2
<1>5. DeltaAt(e) \in Delta
  BY <1>3, <1>4 DEF DeltaAt
<1>6. DeltaAt(e).out \in Outpoint
  BY <1>5 DEF Delta
<1> QED
  BY <1>2, <1>3, <1>4, <1>5, <1>6, ChainAssumption DEF AddressOfDelta

\* Every delta of every block of the chain has its place.
LEMMA PlaceIn ==
  ASSUME NEW b \in Block, NEW c \in ChainOf(b), NEW i \in DOMAIN Deltas[c]
  PROVE  <<c, i>> \in PlacesOf(b) /\ DeltaAt(<<c, i>>) = Deltas[c][i]
BY DEF PlacesOf, DeltaAt

\* A block adds the places of its deltas to those of its parent.
LEMMA PlacesStep ==
  ASSUME NEW b \in Block
  PROVE  /\ Parent[b] = NoBlock => PlacesOf(b) = {b} \X DOMAIN Deltas[b]
         /\ Parent[b] # NoBlock =>
              /\ PlacesOf(b) = PlacesOf(Parent[b]) \cup ({b} \X DOMAIN Deltas[b])
              /\ \A e \in PlacesOf(Parent[b]) : e[1] # b
<1>1. CASE Parent[b] = NoBlock
  BY <1>1, ChainStep DEF PlacesOf
<1>2. CASE Parent[b] # NoBlock
  <2>1. /\ Parent[b] \in Block /\ Height[b] = Height[Parent[b]] + 1
        /\ ChainOf(b) = {b} \cup ChainOf(Parent[b])
        /\ Height[Parent[b]] \in Nat /\ Height[b] \in Nat
    BY <1>2, ChainStep, ChainAssumption
  <2>2. PlacesOf(b) = PlacesOf(Parent[b]) \cup ({b} \X DOMAIN Deltas[b])
    BY <2>1 DEF PlacesOf
  <2>3. ASSUME NEW e \in PlacesOf(Parent[b])
        PROVE  e[1] # b
    <3>1. e[1] \in ChainOf(Parent[b])
      BY <2>1, PlaceFacts
    <3>2. Height[e[1]] <= Height[Parent[b]]
      BY <2>1, <3>1, ChainHeight
    <3> QED
      BY <2>1, <3>2
  <2> QED
    BY <1>2, <2>2, <2>3
<1> QED
  BY <1>1, <1>2

\* The places of a block of a chain are among those of the chain.
LEMMA PlacesTransitive ==
  ASSUME NEW b \in Block, NEW c \in ChainOf(b)
  PROVE  PlacesOf(c) \subseteq PlacesOf(b)
BY ChainTransitive DEF PlacesOf

\* A chain has finitely many deltas.
LEMMA PlacesFinite ==
  ASSUME NEW b \in Block
  PROVE  IsFiniteSet(PlacesOf(b))
<1> DEFINE B == {e \in Block : ~IsFiniteSet(PlacesOf(e))}
<1>1. SUFFICES ASSUME B # {} PROVE FALSE
  OBVIOUS
<1>2. PICK e \in B : \A f \in B : Height[e] <= Height[f]
  <2>1. B \in SUBSET Block
    OBVIOUS
  <2> HIDE DEF B
  <2> QED
    BY <1>1, <2>1, LowestBlock
<1>3. e \in Block /\ Height[e] \in Nat
  BY ChainAssumption
<1>4. IsFiniteSet({e} \X DOMAIN Deltas[e])
  <2>1. DOMAIN Deltas[e] = 1 .. Len(Deltas[e]) /\ Len(Deltas[e]) \in Nat
    BY <1>3, ChainAssumption
  <2>2. IsFiniteSet(DOMAIN Deltas[e])
    BY <2>1, FS_Interval
  <2>3. IsFiniteSet({e})
    BY FS_Singleton
  <2> QED
    BY <2>2, <2>3, FS_Product
<1>5. CASE Parent[e] = NoBlock
  BY <1>3, <1>4, <1>5, PlacesStep
<1>6. CASE Parent[e] # NoBlock
  <2>1. /\ Parent[e] \in Block /\ Height[e] = Height[Parent[e]] + 1
        /\ Height[Parent[e]] \in Nat
        /\ PlacesOf(e) = PlacesOf(Parent[e]) \cup ({e} \X DOMAIN Deltas[e])
    BY <1>3, <1>6, ChainStep, PlacesStep, ChainAssumption
  <2>2. Parent[e] \notin B
    <3> HIDE DEF B
    <3> QED
      BY <1>2, <1>3, <2>1
  <2>3. IsFiniteSet(PlacesOf(Parent[e]))
    BY <2>1, <2>2
  <2> DEFINE X == PlacesOf(Parent[e])
             Y == {e} \X DOMAIN Deltas[e]
  <2>4. IsFiniteSet(PlacesOf(e))
    <3>1. IsFiniteSet(X) /\ IsFiniteSet(Y) /\ PlacesOf(e) = X \cup Y
      BY <1>4, <2>1, <2>3
    <3> HIDE DEF X, Y
    <3>2. IsFiniteSet(X \cup Y)
      BY <3>1, FS_Union
    <3> QED
      BY <3>1, <3>2
  <2> QED
    BY <2>4
<1> QED
  BY <1>5, <1>6

----------------------------------------------------------------------------
(* What rows are worth.  The lemmas and their proofs are those of          *)
(* StatementProofs about the amounts of a transaction.                     *)

Worth(S) == MapThenSumSet(LAMBDA r : Satoshis[r.out], S)

\* What the total unfolds to: a function over the parts of S that is equal to a
\* step of itself.  That there is one is to be proved.
SumStep(S, f) ==
  [P \in SUBSET S |-> IF P = {} THEN 0
                      ELSE LET n == CHOOSE n \in P : TRUE IN Satoshis[n.out] + f[P \ {n}]]
Sums(S) == CHOOSE f : f = SumStep(S, f)

\* Of some parts of a finite set one is minimal.
LEMMA MinimalPart ==
  ASSUME NEW S, IsFiniteSet(S), NEW F \in SUBSET (SUBSET S), F # {}
  PROVE  \E P \in F : \A R \in F : R \subseteq P => R = P
<1>1. IsWellFoundedOn(StrictSubsetOrdering(S), SUBSET S)
  BY FS_StrictSubsetOrderingWellFounded, FS_FiniteSubsetsOfFinite
<1>2. PICK P \in F : \A R \in F : <<R, P>> \notin StrictSubsetOrdering(S)
  BY <1>1, WFMin
<1> QED
  BY <1>2 DEF StrictSubsetOrdering

\* The total is the last value of that function.
LEMMA WorthIsSums ==
  ASSUME NEW S
  PROVE  Worth(S) = Sums(S)[S]
BY DEF Worth, Sums, SumStep, MapThenSumSet, MapThenFoldSet

\* Two such functions agree wherever both are defined.
LEMMA SumsAgree ==
  ASSUME NEW S, NEW T, IsFiniteSet(S),
         NEW f, f = SumStep(S, f), NEW g, g = SumStep(T, g),
         NEW P \in SUBSET S, P \in SUBSET T
  PROVE  f[P] = g[P]
<1> DEFINE F == {R \in SUBSET S : R \in SUBSET T /\ f[R] # g[R]}
<1>1. SUFFICES ASSUME F # {} PROVE FALSE
  OBVIOUS
<1>2. PICK R \in F : \A Q \in F : Q \subseteq R => Q = R
  <2>1. F \in SUBSET (SUBSET S)
    OBVIOUS
  <2> HIDE DEF F
  <2> QED
    BY <1>1, <2>1, MinimalPart
<1> DEFINE n == CHOOSE n \in R : TRUE
<1>3. /\ f[R] = IF R = {} THEN 0 ELSE Satoshis[n.out] + f[R \ {n}]
      /\ g[R] = IF R = {} THEN 0 ELSE Satoshis[n.out] + g[R \ {n}]
  BY DEF SumStep
<1>4. R # {}
  BY <1>3
<1>5. n \in R
  BY <1>4
<1>6. R \ {n} \notin F
  BY <1>2, <1>5
<1>7. f[R \ {n}] = g[R \ {n}]
  BY <1>6
<1> QED
  BY <1>3, <1>4, <1>7

\* Two functions that agree everywhere are the same.
LEMMA SameFunction ==
  ASSUME NEW D, NEW f, NEW g, f = [x \in D |-> f[x]], g = [x \in D |-> g[x]],
         \A x \in D : f[x] = g[x]
  PROVE  f = g
OBVIOUS

\* There is such a function for every finite set.
LEMMA SumsExist ==
  ASSUME NEW S, IsFiniteSet(S)
  PROVE  Sums(S) = SumStep(S, Sums(S))
<1> DEFINE F == {R \in SUBSET S : Sums(R) # SumStep(R, Sums(R))}
<1>1. SUFFICES ASSUME F # {} PROVE FALSE
  OBVIOUS
<1>2. PICK R \in F : \A Q \in F : Q \subseteq R => Q = R
  <2>1. F \in SUBSET (SUBSET S)
    OBVIOUS
  <2> HIDE DEF F
  <2> QED
    BY <1>1, <2>1, MinimalPart
<1> DEFINE first(P) == CHOOSE n \in P : TRUE
           rest(P) == P \ {first(P)}
           f == [P \in SUBSET R |-> IF P = {} THEN 0
                   ELSE Satoshis[first(P).out] + Sums(rest(P))[rest(P)]]
<1>3. ASSUME NEW Q \in SUBSET R, Q # R
      PROVE  Sums(Q) = SumStep(Q, Sums(Q))
  BY <1>2, <1>3
<1>4. ASSUME NEW P \in SUBSET R, P # {}
      PROVE  first(P) \in P /\ rest(P) \in SUBSET R /\ rest(P) # R
  BY <1>4
<1>5. ASSUME NEW P \in SUBSET R, P # {}
      PROVE  f[rest(P)] = Sums(rest(P))[rest(P)]
  <2> DEFINE Q == rest(P)
  <2>1. Q \in SUBSET R /\ Q # R
    BY <1>4, <1>5
  <2>2. Sums(Q) = SumStep(Q, Sums(Q))
    BY <2>1, <1>3
  <2>3. Sums(Q)[Q] = IF Q = {} THEN 0 ELSE Satoshis[first(Q).out] + Sums(Q)[rest(Q)]
    <3> HIDE DEF Q
    <3> QED
      BY <2>2 DEF SumStep
  <2>4. CASE Q = {}
    BY <2>1, <2>3, <2>4
  <2>5. CASE Q # {}
    <3>1. rest(Q) \in SUBSET R /\ rest(Q) # R /\ rest(Q) \in SUBSET Q
      BY <2>1, <2>5, <1>4
    <3>2. Sums(rest(Q)) = SumStep(rest(Q), Sums(rest(Q)))
      BY <3>1, <1>3
    <3>3. IsFiniteSet(Q)
      BY FS_Subset, <2>1
    <3>4. Sums(Q)[rest(Q)] = Sums(rest(Q))[rest(Q)]
      <4> HIDE DEF Q, rest
      <4> QED
        BY <2>2, <3>1, <3>2, <3>3, SumsAgree
    <3>5. f[Q] = Satoshis[first(Q).out] + Sums(rest(Q))[rest(Q)]
      BY <2>1, <2>5
    <3> QED
      BY <2>3, <2>5, <3>4, <3>5
  <2> QED
    BY <2>4, <2>5
<1>6. f = SumStep(R, f)
  <2>1. f = [P \in SUBSET R |-> IF P = {} THEN 0 ELSE Satoshis[first(P).out] + f[rest(P)]]
    <3> DEFINE g == [P \in SUBSET R |-> IF P = {} THEN 0 ELSE Satoshis[first(P).out] + f[rest(P)]]
    <3>1. ASSUME NEW P \in SUBSET R PROVE f[P] = g[P]
      <4>1. CASE P = {}
        BY <4>1
      <4>2. CASE P # {}
        <5>1. f[P] = Satoshis[first(P).out] + Sums(rest(P))[rest(P)]
          BY <4>2
        <5>2. g[P] = Satoshis[first(P).out] + f[rest(P)]
          <6> HIDE DEF f
          <6> QED
            BY <4>2
        <5>3. f[rest(P)] = Sums(rest(P))[rest(P)]
          BY <1>5, <4>2
        <5> HIDE DEF f, g, first, rest
        <5> QED
          BY <5>1, <5>2, <5>3
      <4> QED
        BY <4>1, <4>2
    <3>2. f = [P \in SUBSET R |-> f[P]] /\ g = [P \in SUBSET R |-> g[P]]
      OBVIOUS
    <3> DEFINE D == SUBSET R
    <3>3. /\ f = [P \in D |-> f[P]] /\ g = [P \in D |-> g[P]]
          /\ \A P \in D : f[P] = g[P]
      BY <3>1, <3>2
    <3>4. f = g
      <4> HIDE DEF f, g, D
      <4> QED
        BY <3>3, SameFunction
    <3> QED
      BY <3>4
  <2> HIDE DEF f
  <2> QED
    BY <2>1 DEF SumStep
<1>7. Sums(R) = SumStep(R, Sums(R))
  <2> HIDE DEF f
  <2> QED
    BY <1>6 DEF Sums
<1> QED
  BY <1>7

\* The sum over nothing, and over a set and the element the fold takes first.
LEMMA WorthStep ==
  ASSUME NEW S, IsFiniteSet(S)
  PROVE  Worth(S) = IF S = {} THEN 0
                       ELSE LET n == CHOOSE n \in S : TRUE
                            IN Satoshis[n.out] + Worth(S \ {n})
<1>1. Sums(S) = SumStep(S, Sums(S))
  BY SumsExist
<1>2. CASE S = {}
  BY <1>1, <1>2, WorthIsSums DEF SumStep
<1>3. CASE S # {}
  <2> DEFINE n == CHOOSE n \in S : TRUE
             R == S \ {n}
  <2>1. R \in SUBSET S /\ IsFiniteSet(R)
    BY FS_Subset
  <2>2. Sums(S)[S] = Satoshis[n.out] + Sums(S)[R]
    BY <1>1, <1>3 DEF SumStep
  <2>3. Sums(R) = SumStep(R, Sums(R))
    BY <2>1, SumsExist
  <2>4. Sums(S)[R] = Sums(R)[R]
    <3> HIDE DEF n, R
    <3>1. R \in SUBSET R
      OBVIOUS
    <3> DEFINE f == Sums(S)
               g == Sums(R)
    <3>2. f = SumStep(S, f) /\ g = SumStep(R, g)
      BY <1>1, <2>3
    <3> HIDE DEF f, g
    <3>3. f[R] = g[R]
      BY <2>1, <3>1, <3>2, SumsAgree
    <3> QED
      BY <3>3 DEF f, g
  <2> QED
    BY <2>2, <2>4, <1>3, WorthIsSums
<1> QED
  BY <1>2, <1>3

\* The sums of this specification are of numbers.
Numbers(S) == \A n \in S : Satoshis[n.out] \in Int

\* The total of a finite set of rows is an integer.
LEMMA WorthInt ==
  ASSUME NEW S, IsFiniteSet(S), Numbers(S)
  PROVE  Worth(S) \in Int
<1> DEFINE F == {R \in SUBSET S : Worth(R) \notin Int}
<1>1. SUFFICES ASSUME F # {} PROVE FALSE
  OBVIOUS
<1>2. PICK R \in F : \A Q \in F : Q \subseteq R => Q = R
  <2>1. F \in SUBSET (SUBSET S)
    OBVIOUS
  <2> HIDE DEF F
  <2> QED
    BY <1>1, <2>1, MinimalPart
<1>3. IsFiniteSet(R)
  BY FS_Subset
<1> DEFINE n == CHOOSE n \in R : TRUE
<1>4. Worth(R) = IF R = {} THEN 0 ELSE Satoshis[n.out] + Worth(R \ {n})
  BY <1>3, WorthStep
<1>5. R # {}
  BY <1>4
<1>6. n \in R
  BY <1>5
<1>7. R \ {n} \notin F
  BY <1>2, <1>6
<1>8. Worth(R \ {n}) \in Int /\ Satoshis[n.out] \in Int
  BY <1>6, <1>7 DEF Numbers
<1> HIDE DEF n
<1> QED
  BY <1>4, <1>5, <1>8

\* It does not matter which element is taken first.
LEMMA WorthRemove ==
  ASSUME NEW S, IsFiniteSet(S), Numbers(S), NEW e \in S
  PROVE  Worth(S) = Satoshis[e.out] + Worth(S \ {e})
<1> DEFINE F == {R \in SUBSET S : \E m \in R : Worth(R) # Satoshis[m.out] + Worth(R \ {m})}
<1>1. SUFFICES ASSUME F # {} PROVE FALSE
  OBVIOUS
<1>2. PICK R \in F : \A Q \in F : Q \subseteq R => Q = R
  <2>1. F \in SUBSET (SUBSET S)
    OBVIOUS
  <2> HIDE DEF F
  <2> QED
    BY <1>1, <2>1, MinimalPart
<1>3. PICK m \in R : Worth(R) # Satoshis[m.out] + Worth(R \ {m})
  OBVIOUS
<1> DEFINE n == CHOOSE n \in R : TRUE
<1>4. Worth(R) = Satoshis[n.out] + Worth(R \ {n})
  BY WorthStep, FS_Subset
<1>5. n \in R /\ n # m
  BY <1>3, <1>4
<1> HIDE DEF n
<1>6. R \ {n} \notin F /\ R \ {m} \notin F
  BY <1>2, <1>5
<1>7. Worth(R \ {n}) = Satoshis[m.out] + Worth((R \ {n}) \ {m})
  BY <1>5, <1>6
<1>8. Worth(R \ {m}) = Satoshis[n.out] + Worth((R \ {m}) \ {n})
  BY <1>5, <1>6
<1>9. (R \ {m}) \ {n} = (R \ {n}) \ {m}
  OBVIOUS
<1>10. Worth((R \ {n}) \ {m}) \in Int
  <2>1. (R \ {n}) \ {m} \in SUBSET S /\ Numbers((R \ {n}) \ {m})
    BY DEF Numbers
  <2> QED
    BY <2>1, FS_Subset, WorthInt
<1>11. Satoshis[m.out] \in Int /\ Satoshis[n.out] \in Int
  BY <1>5 DEF Numbers
<1>12. Worth((R \ {m}) \ {n}) = Worth((R \ {n}) \ {m})
  BY <1>9
<1> HIDE DEF F
<1> QED
  BY <1>3, <1>4, <1>7, <1>8, <1>10, <1>11, <1>12

\* A row that comes in adds its amount.
LEMMA WorthInsert ==
  ASSUME NEW S, NEW e, IsFiniteSet(S), Numbers(S \cup {e}), e \notin S
  PROVE  Worth(S \cup {e}) = Satoshis[e.out] + Worth(S)
<1>1. IsFiniteSet(S \cup {e}) /\ (S \cup {e}) \ {e} = S
  BY FS_AddElement
<1> QED
  BY <1>1, WorthRemove

\* No rows are worth nothing.
LEMMA WorthEmpty ==
  Worth({}) = 0
BY WorthStep, FS_EmptySet

\* The sum over two sets that share nothing.
LEMMA WorthUnion ==
  ASSUME NEW S, NEW T, IsFiniteSet(S), IsFiniteSet(T),
         Numbers(S \cup T), S \cap T = {}
  PROVE  Worth(S \cup T) = Worth(S) + Worth(T)
<1> DEFINE F == {R \in SUBSET S : Worth(R \cup T) # Worth(R) + Worth(T)}
<1>1. SUFFICES ASSUME F # {} PROVE FALSE
  OBVIOUS
<1>2. PICK R \in F : \A Q \in F : Q \subseteq R => Q = R
  <2>1. F \in SUBSET (SUBSET S)
    OBVIOUS
  <2> HIDE DEF F
  <2> QED
    BY <1>1, <2>1, MinimalPart
<1>3. Worth(T) \in Int
  BY WorthInt DEF Numbers
<1>4. R # {}
  <2>1. ASSUME R = {} PROVE FALSE
    <3>1. R \cup T = T
      BY <2>1
    <3>2. Worth(R \cup T) = Worth(T) /\ Worth(R) = 0
      BY <2>1, <3>1, WorthEmpty
    <3>3. Worth(R \cup T) # Worth(R) + Worth(T)
      OBVIOUS
    <3> HIDE DEF F
    <3> QED
      BY <1>3, <3>2, <3>3
  <2> QED
    BY <2>1
<1>5. PICK n \in R : TRUE
  BY <1>4
<1>6. R \ {n} \notin F
  BY <1>2, <1>5
<1>7. Worth((R \ {n}) \cup T) = Worth(R \ {n}) + Worth(T)
  BY <1>6
<1>8. /\ IsFiniteSet(R) /\ IsFiniteSet(R \ {n}) /\ IsFiniteSet(R \cup T)
      /\ Numbers(R) /\ Numbers(R \ {n}) /\ Numbers(R \cup T)
  BY FS_Subset, FS_Union DEF Numbers
<1>9. Worth(R) = Satoshis[n.out] + Worth(R \ {n}) /\ Worth(R \ {n}) \in Int
  BY <1>5, <1>8, WorthRemove, WorthInt
<1>10. Worth(R \cup T) = Satoshis[n.out] + Worth((R \ {n}) \cup T)
  <2>1. (R \cup T) \ {n} = (R \ {n}) \cup T
    BY <1>5
  <2> QED
    BY <1>5, <1>8, <2>1, WorthRemove
<1>11. Satoshis[n.out] \in Int
  BY <1>5 DEF Numbers
<1>12. Worth(R \cup T) = Worth(R) + Worth(T)
  <2> HIDE DEF F
  <2> QED
    BY <1>3, <1>7, <1>9, <1>10, <1>11
<1> QED
  BY <1>12

\* The amounts of rows of outputs are integers.
LEMMA RowsAreNumbers ==
  ASSUME NEW S \in SUBSET UtxoRow
  PROVE  Numbers(S)
BY ChainAssumption DEF Numbers, UtxoRow

\* The value of a wallet when rows are added or taken away.
LEMMA ValueEmpty ==
  ASSUME NEW w PROVE ValueOf({}, w) = 0
<1>1. {r \in {} : r.wallet = w} = {}
  OBVIOUS
<1> QED
  BY <1>1, WorthEmpty DEF ValueOf, Worth

\* What a wallet has in a finite set of rows is an integer.
LEMMA ValueInt ==
  ASSUME NEW S \in SUBSET UtxoRow, IsFiniteSet(S), NEW w
  PROVE  ValueOf(S, w) \in Int
<1> DEFINE R == {r \in S : r.wallet = w}
<1>1. IsFiniteSet(R) /\ Numbers(R)
  BY FS_Subset, RowsAreNumbers
<1>2. ValueOf(S, w) = Worth(R)
  BY DEF ValueOf, Worth
<1> HIDE DEF R
<1> QED
  BY <1>1, <1>2, WorthInt

\* What it has in two sets that share nothing is the sum.
LEMMA ValueUnion ==
  ASSUME NEW S \in SUBSET UtxoRow, NEW T \in SUBSET UtxoRow,
         IsFiniteSet(S), IsFiniteSet(T), S \cap T = {}, NEW w
  PROVE  ValueOf(S \cup T, w) = ValueOf(S, w) + ValueOf(T, w)
<1> DEFINE R == {r \in S : r.wallet = w}
           Q == {r \in T : r.wallet = w}
<1>1. /\ IsFiniteSet(R) /\ IsFiniteSet(Q)
      /\ Numbers(R \cup Q) /\ R \cap Q = {}
  BY FS_Subset, RowsAreNumbers
<1>2. ValueOf(S, w) = Worth(R) /\ ValueOf(T, w) = Worth(Q)
  BY DEF ValueOf, Worth
<1>3. {r \in S \cup T : r.wallet = w} = R \cup Q
  OBVIOUS
<1>4. ValueOf(S \cup T, w) = Worth(R \cup Q)
  BY <1>3 DEF ValueOf, Worth
<1> HIDE DEF R, Q
<1> QED
  BY <1>1, <1>2, <1>4, WorthUnion

\* One row counts for the wallet it belongs to.
LEMMA ValueOne ==
  ASSUME NEW r \in UtxoRow, NEW w
  PROVE  ValueOf({r}, w) = IF r.wallet = w THEN Satoshis[r.out] ELSE 0
<1>1. CASE r.wallet = w
  <2>1. {q \in {r} : q.wallet = w} = {} \cup {r}
    BY <1>1
  <2>2. Numbers({} \cup {r}) /\ IsFiniteSet({}) /\ Satoshis[r.out] \in Int
    BY RowsAreNumbers, FS_EmptySet DEF Numbers
  <2>3. Worth({} \cup {r}) = Satoshis[r.out] + Worth({})
    BY <2>2, WorthInsert
  <2>4. ValueOf({r}, w) = Worth({} \cup {r})
    BY <2>1 DEF ValueOf, Worth
  <2> QED
    BY <1>1, <2>2, <2>3, <2>4, WorthEmpty
<1>2. CASE r.wallet # w
  <2>1. {q \in {r} : q.wallet = w} = {}
    BY <1>2
  <2>2. ValueOf({r}, w) = Worth({})
    BY <2>1 DEF ValueOf, Worth
  <2> QED
    BY <1>2, <2>2, WorthEmpty
<1> QED
  BY <1>1, <1>2

\* One row more
LEMMA ValueInsert ==
  ASSUME NEW S \in SUBSET UtxoRow, IsFiniteSet(S), NEW r \in UtxoRow, r \notin S,
         NEW w
  PROVE  /\ IsFiniteSet(S \cup {r})
         /\ ValueOf(S \cup {r}, w) =
              ValueOf(S, w) + IF r.wallet = w THEN Satoshis[r.out] ELSE 0
<1>1. IsFiniteSet({r}) /\ S \cap {r} = {}
  BY FS_Singleton
<1>2. IsFiniteSet(S \cup {r})
  BY FS_AddElement
<1>3. ValueOf(S \cup {r}, w) = ValueOf(S, w) + ValueOf({r}, w)
  BY <1>1, ValueUnion
<1> QED
  BY <1>2, <1>3, ValueOne

----------------------------------------------------------------------------
(* The tables of a part of the chain                                       *)

\* The rows of the outputs that the places done[w] leave to each wallet w, and
\* the transactions they list, for the tracked pairs.
UtxoRows(done, pairs) ==
  {r \in UtxoRow :
     /\ <<r.wallet, AddressOf[r.out]>> \in pairs
     /\ \E e \in done[r.wallet] :
          DeltaAt(e).kind = "output" /\ DeltaAt(e).out = r.out /\ Height[e[1]] = r.height
     /\ \A e \in done[r.wallet] : ~(DeltaAt(e).kind = "input" /\ DeltaAt(e).out = r.out)}

TxRows(done, pairs) ==
  {r \in TxidRow :
     \E e \in done[r.wallet] :
       /\ <<r.wallet, AddressOfDelta(DeltaAt(e))>> \in pairs
       /\ Height[e[1]] = r.height
       /\ DeltaAt(e).index = r.index
       /\ DeltaAt(e).tx = r.tx}

Everywhere(b) == [w \in Wallet |-> PlacesOf(b)]

\* A part of the chain of b for each wallet
PartsOf(b) == [Wallet -> SUBSET PlacesOf(b)]

\* The whole chain is a part of itself.
LEMMA EverywhereIsPart ==
  ASSUME NEW b
  PROVE  /\ Everywhere(b) \in PartsOf(b)
         /\ \A w \in Wallet : Everywhere(b)[w] = PlacesOf(b)
BY DEF Everywhere, PartsOf

\* The fields of a row of an output
LEMMA RowOf ==
  ASSUME NEW w \in Wallet, NEW o \in Outpoint, NEW h \in Nat
  PROVE  /\ [wallet |-> w, out |-> o, height |-> h] \in UtxoRow
         /\ [wallet |-> w, out |-> o, height |-> h].wallet = w
         /\ [wallet |-> w, out |-> o, height |-> h].out = o
         /\ [wallet |-> w, out |-> o, height |-> h].height = h
BY DEF UtxoRow

\* A row is given by its fields.
LEMMA SameRow ==
  ASSUME NEW r \in UtxoRow, NEW s \in UtxoRow,
         r.wallet = s.wallet, r.out = s.out, r.height = s.height
  PROVE  r = s
BY DEF UtxoRow

\* The fields of a row of a transaction
LEMMA TxRowOf ==
  ASSUME NEW w \in Wallet, NEW h \in Nat, NEW i \in Nat, NEW t \in Txid
  PROVE  LET r == [wallet |-> w, height |-> h, index |-> i, tx |-> t]
         IN r \in TxidRow /\ r.wallet = w /\ r.height = h /\ r.index = i /\ r.tx = t
BY DEF TxidRow

\* Such a row is given by its fields, too.
LEMMA SameTxRow ==
  ASSUME NEW r \in TxidRow, NEW s \in TxidRow,
         r.wallet = s.wallet, r.height = s.height, r.index = s.index, r.tx = s.tx
  PROVE  r = s
BY DEF TxidRow

\* What bitcoind says of outputs, in places
LEMMA CreatedAt ==
  ASSUME NEW b \in Block, NEW c \in ChainOf(b), NEW o \in Outpoint
  PROVE  /\ o \in Created(c) <=>
              \E e \in PlacesOf(b) : e[1] = c /\ DeltaAt(e).kind = "output" /\ DeltaAt(e).out = o
         /\ o \in Spent(c) <=>
              \E e \in PlacesOf(b) : e[1] = c /\ DeltaAt(e).kind = "input" /\ DeltaAt(e).out = o
<1>1. ASSUME NEW i \in DOMAIN Deltas[c]
      PROVE  /\ <<c, i>> \in PlacesOf(b) /\ <<c, i>>[1] = c
             /\ DeltaAt(<<c, i>>) = Deltas[c][i]
  BY <1>1, PlaceIn
<1>2. ASSUME NEW e \in PlacesOf(b), e[1] = c
      PROVE  e[2] \in DOMAIN Deltas[c] /\ DeltaAt(e) = Deltas[c][e[2]]
  BY <1>2, PlaceFacts DEF DeltaAt
<1>3. ASSUME NEW kind
      PROVE  (\E i \in DOMAIN Deltas[c] : Deltas[c][i].kind = kind /\ Deltas[c][i].out = o)
               <=> \E e \in PlacesOf(b) : e[1] = c /\ DeltaAt(e).kind = kind /\ DeltaAt(e).out = o
  <2>1. ASSUME NEW i \in DOMAIN Deltas[c], Deltas[c][i].kind = kind, Deltas[c][i].out = o
        PROVE  \E e \in PlacesOf(b) : e[1] = c /\ DeltaAt(e).kind = kind /\ DeltaAt(e).out = o
    BY <1>1, <2>1
  <2>2. ASSUME NEW e \in PlacesOf(b), e[1] = c, DeltaAt(e).kind = kind, DeltaAt(e).out = o
        PROVE  \E i \in DOMAIN Deltas[c] : Deltas[c][i].kind = kind /\ Deltas[c][i].out = o
    BY <1>2, <2>2
  <2> QED
    BY <2>1, <2>2
<1> QED
  BY <1>3 DEF Created, Spent

\* getaddressutxos of some addresses, as rows of one wallet
LEMMA UnspentAt ==
  ASSUME NEW b \in Block, NEW w \in Wallet, NEW A \in SUBSET Address
  PROVE  {[wallet |-> w, out |-> u[1], height |-> Height[u[2]]] : u \in Unspent(b, A)}
           = UtxoRows(Everywhere(b), {w} \X A)
<1> DEFINE L == {[wallet |-> w, out |-> u[1], height |-> Height[u[2]]] : u \in Unspent(b, A)}
           R == UtxoRows(Everywhere(b), {w} \X A)
<1>1. ASSUME NEW u \in Unspent(b, A)
      PROVE  [wallet |-> w, out |-> u[1], height |-> Height[u[2]]] \in R
  <2>1. /\ u[1] \in Outpoint /\ u[2] \in ChainOf(b) /\ AddressOf[u[1]] \in A
        /\ u[1] \in Created(u[2])
        /\ \A c \in ChainOf(b) : u[1] \notin Spent(c)
    BY DEF Unspent
  <2>2. u[2] \in Block /\ Height[u[2]] \in Nat
    BY <2>1, ChainAssumption DEF ChainOf
  <2>3. PICK e \in PlacesOf(b) : e[1] = u[2] /\ DeltaAt(e).kind = "output" /\ DeltaAt(e).out = u[1]
    BY <2>1, CreatedAt
  <2>4. ASSUME NEW f \in PlacesOf(b), DeltaAt(f).kind = "input", DeltaAt(f).out = u[1]
        PROVE  FALSE
    <3>1. f[1] \in ChainOf(b)
      BY PlaceFacts
    <3> QED
      BY <2>1, <2>4, <3>1, CreatedAt
  <2> DEFINE r == [wallet |-> w, out |-> u[1], height |-> Height[u[2]]]
  <2>5. r \in UtxoRow /\ r.wallet = w /\ r.out = u[1] /\ r.height = Height[u[2]]
    BY <2>1, <2>2, RowOf
  <2> HIDE DEF r
  <2> QED
    BY <2>1, <2>3, <2>4, <2>5, EverywhereIsPart DEF UtxoRows, r
<1>2. ASSUME NEW r \in R
      PROVE  r \in L
  <2>1. /\ r \in UtxoRow /\ r.wallet = w /\ AddressOf[r.out] \in A
        /\ \A e \in PlacesOf(b) : ~(DeltaAt(e).kind = "input" /\ DeltaAt(e).out = r.out)
    BY EverywhereIsPart DEF UtxoRows
  <2>2. PICK e \in PlacesOf(b) :
          DeltaAt(e).kind = "output" /\ DeltaAt(e).out = r.out /\ Height[e[1]] = r.height
    BY <2>1, EverywhereIsPart DEF UtxoRows
  <2>3. e[1] \in ChainOf(b) /\ r.out \in Outpoint
    BY <2>1, PlaceFacts DEF UtxoRow
  <2>4. r.out \in Created(e[1])
    BY <2>2, <2>3, CreatedAt
  <2>5. \A c \in ChainOf(b) : r.out \notin Spent(c)
    BY <2>1, <2>3, CreatedAt
  <2>6. <<r.out, e[1]>> \in Unspent(b, A)
    BY <2>1, <2>3, <2>4, <2>5 DEF Unspent
  <2>7. r = [wallet |-> w, out |-> r.out, height |-> Height[e[1]]]
    BY <2>1, <2>2 DEF UtxoRow
  <2> DEFINE u == <<r.out, e[1]>>
  <2>8. u[1] = r.out /\ u[2] = e[1]
    OBVIOUS
  <2> QED
    BY <2>6, <2>7, <2>8
<1> HIDE DEF L, R
<1>3. L = R
  <2>1. \A r \in L : r \in R
    BY <1>1 DEF L
  <2> QED
    BY <2>1, <1>2
<1> QED
  BY <1>3 DEF L, R

\* The abstract tables are those of all places.
LEMMA OutputsAtRows ==
  ASSUME NEW b \in Block, NEW pairs \in SUBSET (Wallet \X Address)
  PROVE  OutputsAt(b, pairs) = UtxoRows(Everywhere(b), pairs)
<1>1. \A w \in Wallet :
        {[wallet |-> w, out |-> u[1], height |-> Height[u[2]]] :
           u \in Unspent(b, AddressesOf(w, pairs))}
          = UtxoRows(Everywhere(b), {w} \X AddressesOf(w, pairs))
  BY UnspentAt DEF AddressesOf
<1>2. \A r : r \in OutputsAt(b, pairs) <=>
        \E w \in Wallet : r \in UtxoRows(Everywhere(b), {w} \X AddressesOf(w, pairs))
  <2> DEFINE Of(w) == {[wallet |-> w, out |-> u[1], height |-> Height[u[2]]] :
                         u \in Unspent(b, AddressesOf(w, pairs))}
  <2>1. OutputsAt(b, pairs) = UNION {Of(w) : w \in Wallet}
    BY DEF OutputsAt
  <2>2. \A w \in Wallet : Of(w) = UtxoRows(Everywhere(b), {w} \X AddressesOf(w, pairs))
    BY <1>1
  <2> HIDE DEF Of
  <2> QED
    BY <2>1, <2>2
<1>3. ASSUME NEW w \in Wallet, NEW r \in UtxoRow
      PROVE  r \in UtxoRows(Everywhere(b), {w} \X AddressesOf(w, pairs)) <=>
               r \in UtxoRows(Everywhere(b), pairs) /\ r.wallet = w
  <2>1. AddressOf[r.out] \in Address
    BY ChainAssumption DEF UtxoRow
  <2> QED
    BY <2>1 DEF UtxoRows, AddressesOf
<1>4. \A r \in UtxoRows(Everywhere(b), pairs) : r \in UtxoRow /\ r.wallet \in Wallet
  BY DEF UtxoRows, UtxoRow
<1>5. \A w \in Wallet : UtxoRows(Everywhere(b), {w} \X AddressesOf(w, pairs)) \subseteq UtxoRow
  BY DEF UtxoRows
<1>6. \A r : r \in OutputsAt(b, pairs) <=> r \in UtxoRows(Everywhere(b), pairs)
  BY <1>2, <1>3, <1>4, <1>5
<1> QED
  BY <1>6

\* The transactions of the ledger are the rows of the whole chain: no delta is
\* in the first block, where the ledger does not look.
LEMMA TxidsAtRows ==
  ASSUME NEW b \in Block, NEW pairs \in SUBSET (Wallet \X Address), ValidChain
  PROVE  TxidsAt(b, pairs) = TxRows(Everywhere(b), pairs)
<1> DEFINE Row(w, e) == [wallet |-> w, height |-> Height[e[1]],
                         index |-> Deltas[e[1]][e[2]].index, tx |-> Deltas[e[1]][e[2]].tx]
           Found(w) == DeltasBetween(b, AddressesOf(w, pairs), 1, Height[b])
<1>1. ASSUME NEW w \in Wallet, NEW e
      PROVE  e \in Found(w) <=>
               e \in PlacesOf(b) /\ <<w, AddressOfDelta(DeltaAt(e))>> \in pairs
  <2>1. e \in Found(w) <=>
          /\ e \in PlacesOf(b)
          /\ Height[e[1]] \in 1 .. Height[b]
          /\ AddressOfDelta(DeltaAt(e)) \in AddressesOf(w, pairs)
    BY DEF DeltasBetween, PlacesOf, DeltaAt
  <2>2. ASSUME e \in PlacesOf(b)
        PROVE  Height[e[1]] \in 1 .. Height[b] /\ AddressOfDelta(DeltaAt(e)) \in Address
    <3>1. e[1] \in ChainOf(b) /\ e[1] \in Block /\ e[2] \in DOMAIN Deltas[e[1]]
          /\ AddressOfDelta(DeltaAt(e)) \in Address
      BY <2>2, PlaceFacts
    <3>2. Deltas[e[1]] # <<>>
      BY <3>1
    <3>3. Parent[e[1]] # NoBlock
      BY <3>1, <3>2 DEF ValidChain
    <3>4. Height[e[1]] = Height[Parent[e[1]]] + 1 /\ Height[Parent[e[1]]] \in Nat
          /\ Height[b] \in Nat
      BY <3>1, <3>3, ChainStep, ChainAssumption
    <3>5. Height[e[1]] <= Height[b]
      BY <3>1, ChainHeight
    <3> QED
      BY <3>1, <3>4, <3>5
  <2> QED
    BY <2>1, <2>2 DEF AddressesOf
<1>2. ASSUME NEW w \in Wallet, NEW e \in PlacesOf(b)
      PROVE  /\ Row(w, e) \in TxidRow
             /\ Row(w, e).wallet = w /\ Row(w, e).height = Height[e[1]]
             /\ Row(w, e).index = DeltaAt(e).index /\ Row(w, e).tx = DeltaAt(e).tx
  <2>1. Height[e[1]] \in Nat /\ DeltaAt(e) \in Delta
    BY PlaceFacts
  <2> QED
    BY <2>1, TxRowOf DEF Delta, DeltaAt
<1>3. TxidsAt(b, pairs) = UNION {{Row(w, e) : e \in Found(w)} : w \in Wallet}
  BY DEF TxidsAt
<1> HIDE DEF Row, Found
<1>4. ASSUME NEW w \in Wallet, NEW e \in Found(w)
      PROVE  Row(w, e) \in TxRows(Everywhere(b), pairs)
  <2>1. e \in PlacesOf(b) /\ <<w, AddressOfDelta(DeltaAt(e))>> \in pairs
    BY <1>1, <1>4
  <2> DEFINE r == Row(w, e)
  <2>2. /\ r \in TxidRow /\ r.wallet = w /\ r.height = Height[e[1]]
        /\ r.index = DeltaAt(e).index /\ r.tx = DeltaAt(e).tx
    BY <1>2, <2>1
  <2>3. e \in Everywhere(b)[r.wallet]
    BY <2>1, <2>2, EverywhereIsPart
  <2> HIDE DEF r
  <2>4. r \in TxRows(Everywhere(b), pairs)
    BY <2>1, <2>2, <2>3 DEF TxRows
  <2> QED
    BY <2>4 DEF r
<1>5. ASSUME NEW r \in TxRows(Everywhere(b), pairs)
      PROVE  \E w \in Wallet : \E e \in Found(w) : r = Row(w, e)
  <2>1. r \in TxidRow /\ r.wallet \in Wallet
    BY DEF TxRows, TxidRow
  <2>2. PICK e \in PlacesOf(b) :
          /\ <<r.wallet, AddressOfDelta(DeltaAt(e))>> \in pairs
          /\ Height[e[1]] = r.height /\ DeltaAt(e).index = r.index /\ DeltaAt(e).tx = r.tx
    BY <2>1, EverywhereIsPart DEF TxRows
  <2>3. e \in Found(r.wallet)
    BY <1>1, <2>1, <2>2
  <2>4. r = Row(r.wallet, e)
    BY <1>2, <2>1, <2>2, SameTxRow
  <2> QED
    BY <2>1, <2>3, <2>4
<1> QED
  BY <1>3, <1>4, <1>5

----------------------------------------------------------------------------
(* One more place                                                          *)

Visited(done, w, e) == [done EXCEPT ![w] = @ \cup {e}]

\* Visiting one place for one wallet
LEMMA VisitedIs ==
  ASSUME NEW b \in Block, NEW done \in PartsOf(b), NEW w \in Wallet, NEW e \in PlacesOf(b)
  PROVE  /\ Visited(done, w, e) \in PartsOf(b)
         /\ Visited(done, w, e)[w] = done[w] \cup {e}
         /\ \A v \in Wallet : v # w => Visited(done, w, e)[v] = done[v]
         /\ \A v \in Wallet : done[v] \subseteq PlacesOf(b)
BY DEF Visited, PartsOf

\* In terms of membership
LEMMA InTxRows ==
  ASSUME NEW done, NEW pairs, NEW r
  PROVE  r \in TxRows(done, pairs) <=>
           /\ r \in TxidRow
           /\ \E e \in done[r.wallet] :
                /\ <<r.wallet, AddressOfDelta(DeltaAt(e))>> \in pairs
                /\ Height[e[1]] = r.height
                /\ DeltaAt(e).index = r.index
                /\ DeltaAt(e).tx = r.tx
BY DEF TxRows

\* The fields of a row are of their types.
LEMMA RowFields ==
  ASSUME NEW r \in UtxoRow
  PROVE  r.wallet \in Wallet /\ r.out \in Outpoint /\ r.height \in Nat
         /\ AddressOf[r.out] \in Address /\ Satoshis[r.out] \in Nat
BY ChainAssumption DEF UtxoRow

\* And those of a row of a transaction
LEMMA TxRowFields ==
  ASSUME NEW r \in TxidRow
  PROVE  r.wallet \in Wallet /\ r.height \in Nat /\ r.index \in Nat /\ r.tx \in Txid
BY DEF TxidRow

\* The row of the output that place e makes
RowAt(w, e) == [wallet |-> w, out |-> DeltaAt(e).out, height |-> Height[e[1]]]

TxRowAt(w, e) ==
  [wallet |-> w, height |-> Height[e[1]], index |-> DeltaAt(e).index, tx |-> DeltaAt(e).tx]

\* The row of an output has the fields of its delta.
LEMMA RowAtIs ==
  ASSUME NEW b \in Block, NEW e \in PlacesOf(b), NEW w \in Wallet
  PROVE  /\ RowAt(w, e) \in UtxoRow
         /\ RowAt(w, e).wallet = w
         /\ RowAt(w, e).out = DeltaAt(e).out
         /\ RowAt(w, e).height = Height[e[1]]
BY PlaceFacts, RowOf DEF RowAt

\* So has the row of its transaction.
LEMMA TxRowAtIs ==
  ASSUME NEW b \in Block, NEW e \in PlacesOf(b), NEW w \in Wallet
  PROVE  /\ TxRowAt(w, e) \in TxidRow
         /\ TxRowAt(w, e).wallet = w
         /\ TxRowAt(w, e).height = Height[e[1]]
         /\ TxRowAt(w, e).index = DeltaAt(e).index
         /\ TxRowAt(w, e).tx = DeltaAt(e).tx
<1>1. Height[e[1]] \in Nat /\ DeltaAt(e).index \in Nat /\ DeltaAt(e).tx \in Txid
  BY PlaceFacts DEF Delta
<1> QED
  BY <1>1, TxRowOf DEF TxRowAt

\* An output is created once and spent once.
LEMMA OncePlace ==
  ASSUME ValidChain, NEW b \in Block, NEW e \in PlacesOf(b), NEW f \in PlacesOf(b),
         DeltaAt(e).kind = DeltaAt(f).kind, DeltaAt(e).out = DeltaAt(f).out
  PROVE  e = f
BY DEF ValidChain

\* What is spent was created before, on the same chain.
LEMMA Creator ==
  ASSUME ValidChain, NEW b \in Block, NEW f \in PlacesOf(b), DeltaAt(f).kind = "input"
  PROVE  \E e \in PlacesOf(b) :
           Precedes(e, f) /\ DeltaAt(e).kind = "output" /\ DeltaAt(e).out = DeltaAt(f).out
BY DEF ValidChain

\* A delta is an input or an output.
LEMMA KindIs ==
  ASSUME NEW b \in Block, NEW e \in PlacesOf(b)
  PROVE  DeltaAt(e).kind = "input" \/ DeltaAt(e).kind = "output"
BY PlaceFacts DEF Delta

\* At most one row for each output
LEMMA RowsUnique ==
  ASSUME ValidChain, NEW b \in Block, NEW done \in PartsOf(b), NEW pairs,
         NEW r \in UtxoRows(done, pairs), NEW s \in UtxoRows(done, pairs), SameOutput(r, s)
  PROVE  r = s
<1>1. r \in UtxoRow /\ s \in UtxoRow /\ r.wallet = s.wallet /\ r.out = s.out
  BY DEF UtxoRows, SameOutput
<1>2. PICK e \in done[r.wallet] :
        DeltaAt(e).kind = "output" /\ DeltaAt(e).out = r.out /\ Height[e[1]] = r.height
  BY DEF UtxoRows
<1>3. PICK f \in done[s.wallet] :
        DeltaAt(f).kind = "output" /\ DeltaAt(f).out = s.out /\ Height[f[1]] = s.height
  BY DEF UtxoRows
<1>4. e \in PlacesOf(b) /\ f \in PlacesOf(b)
  BY <1>1, RowFields DEF PartsOf
<1>5. e = f
  BY <1>1, <1>2, <1>3, <1>4, OncePlace
<1> QED
  BY <1>1, <1>2, <1>3, <1>5, SameRow

\* A new output adds its row.
LEMMA RowsOutput ==
  ASSUME ValidChain, NEW b \in Block, NEW done \in PartsOf(b),
         NEW pairs, NEW w \in Wallet, NEW e \in PlacesOf(b),
         e \notin done[w], \A f \in done[w] : ~Precedes(e, f),
         DeltaAt(e).kind = "output", <<w, AddressOfDelta(DeltaAt(e))>> \in pairs
  PROVE  /\ UtxoRows(Visited(done, w, e), pairs) = UtxoRows(done, pairs) \cup {RowAt(w, e)}
         /\ \A s \in UtxoRows(done, pairs) : ~SameOutput(s, RowAt(w, e))
<1> DEFINE next == Visited(done, w, e)
           r == RowAt(w, e)
<1>1. /\ next[w] = done[w] \cup {e}
      /\ \A v \in Wallet : v # w => next[v] = done[v]
      /\ \A v \in Wallet : done[v] \subseteq PlacesOf(b)
  BY VisitedIs
<1>2. /\ r \in UtxoRow /\ r.wallet = w /\ r.out = DeltaAt(e).out /\ r.height = Height[e[1]]
  BY RowAtIs
<1>3. AddressOf[r.out] = AddressOfDelta(DeltaAt(e))
  BY <1>2, PlaceFacts
<1> HIDE DEF next, r
<1>4. \A f \in next[w] : ~(DeltaAt(f).kind = "input" /\ DeltaAt(f).out = DeltaAt(e).out)
  <2> SUFFICES ASSUME NEW f \in next[w], DeltaAt(f).kind = "input", DeltaAt(f).out = DeltaAt(e).out
               PROVE  FALSE
    OBVIOUS
  <2>1. f \in done[w] /\ f \in PlacesOf(b)
    BY <1>1
  <2>2. PICK g \in PlacesOf(b) :
          Precedes(g, f) /\ DeltaAt(g).kind = "output" /\ DeltaAt(g).out = DeltaAt(f).out
    BY <2>1, Creator
  <2>3. g = e
    BY <2>2, OncePlace
  <2> QED
    BY <2>1, <2>2, <2>3
<1>5. r \in UtxoRows(next, pairs)
  BY <1>1, <1>2, <1>3, <1>4 DEF UtxoRows
<1>6. ASSUME NEW s \in UtxoRows(done, pairs)
      PROVE  ~SameOutput(s, r)
  <2> SUFFICES ASSUME SameOutput(s, r) PROVE FALSE
    OBVIOUS
  <2>1. s.wallet = w /\ s.out = DeltaAt(e).out
    BY <1>2 DEF SameOutput
  <2>2. PICK f \in done[w] : DeltaAt(f).kind = "output" /\ DeltaAt(f).out = DeltaAt(e).out
    BY <2>1 DEF UtxoRows
  <2> QED
    BY <1>1, <2>2, OncePlace
<1>7. ASSUME NEW s \in UtxoRows(done, pairs)
      PROVE  s \in UtxoRows(next, pairs)
  <2>1. s \in UtxoRow /\ s.wallet \in Wallet
    BY RowFields DEF UtxoRows
  <2>2. CASE s.wallet = w
    <3>1. s.out # DeltaAt(e).out
      BY <1>2, <1>6, <2>2 DEF SameOutput
    <3> QED
      BY <1>1, <2>1, <2>2, <3>1 DEF UtxoRows
  <2>3. CASE s.wallet # w
    BY <1>1, <2>1, <2>3 DEF UtxoRows
  <2> QED
    BY <2>2, <2>3
<1>8. ASSUME NEW s \in UtxoRows(next, pairs), s # r
      PROVE  s \in UtxoRows(done, pairs)
  <2>1. s \in UtxoRow /\ s.wallet \in Wallet
    BY RowFields DEF UtxoRows
  <2>2. CASE s.wallet = w
    <3>1. PICK f \in next[w] :
            DeltaAt(f).kind = "output" /\ DeltaAt(f).out = s.out /\ Height[f[1]] = s.height
      BY <2>2 DEF UtxoRows
    <3>2. f # e
      BY <1>2, <1>8, <2>1, <2>2, <3>1, SameRow
    <3>3. f \in done[w]
      BY <1>1, <3>1, <3>2
    <3> QED
      BY <1>1, <2>1, <2>2, <3>1, <3>3 DEF UtxoRows
  <2>3. CASE s.wallet # w
    BY <1>1, <2>1, <2>3 DEF UtxoRows
  <2> QED
    BY <2>2, <2>3
<1>9. UtxoRows(next, pairs) = UtxoRows(done, pairs) \cup {r}
  BY <1>5, <1>7, <1>8
<1> QED
  BY <1>6, <1>9 DEF next, r

\* A new input finds the row of its output, and takes it away.
LEMMA RowsInput ==
  ASSUME ValidChain, NEW b \in Block, NEW done \in PartsOf(b),
         NEW pairs, NEW w \in Wallet, NEW e \in PlacesOf(b),
         e \notin done[w], \A f \in PlacesOf(b) : Precedes(f, e) => f \in done[w],
         DeltaAt(e).kind = "input", <<w, AddressOfDelta(DeltaAt(e))>> \in pairs
  PROVE  \E r \in UtxoRows(done, pairs) :
           /\ r.wallet = w /\ r.out = DeltaAt(e).out
           /\ UtxoRows(Visited(done, w, e), pairs) = UtxoRows(done, pairs) \ {r}
<1> DEFINE next == Visited(done, w, e)
<1>1. /\ next[w] = done[w] \cup {e}
      /\ \A v \in Wallet : v # w => next[v] = done[v]
      /\ \A v \in Wallet : done[v] \subseteq PlacesOf(b)
  BY VisitedIs
<1>2. PICK c \in PlacesOf(b) :
        Precedes(c, e) /\ DeltaAt(c).kind = "output" /\ DeltaAt(c).out = DeltaAt(e).out
  BY Creator
<1> DEFINE r == RowAt(w, c)
<1>3. /\ r \in UtxoRow /\ r.wallet = w /\ r.out = DeltaAt(e).out /\ r.height = Height[c[1]]
  BY <1>2, RowAtIs
<1>4. AddressOf[r.out] = AddressOfDelta(DeltaAt(e))
  BY <1>3, PlaceFacts
<1>5. c \in done[w]
  BY <1>2
<1>6. \A f \in done[w] : ~(DeltaAt(f).kind = "input" /\ DeltaAt(f).out = DeltaAt(e).out)
  BY <1>1, OncePlace
<1> HIDE DEF next, r
<1>7. r \in UtxoRows(done, pairs)
  BY <1>2, <1>3, <1>4, <1>5, <1>6 DEF UtxoRows
<1>8. r \notin UtxoRows(next, pairs)
  BY <1>1, <1>3 DEF UtxoRows
<1>9. ASSUME NEW s \in UtxoRows(done, pairs), s # r
      PROVE  s \in UtxoRows(next, pairs)
  <2>1. s \in UtxoRow /\ s.wallet \in Wallet
    BY RowFields DEF UtxoRows
  <2>2. CASE s.wallet = w
    <3>1. s.out # DeltaAt(e).out
      BY <1>3, <1>7, <1>9, <2>2, RowsUnique DEF SameOutput
    <3> QED
      BY <1>1, <2>1, <2>2, <3>1 DEF UtxoRows
  <2>3. CASE s.wallet # w
    BY <1>1, <2>1, <2>3 DEF UtxoRows
  <2> QED
    BY <2>2, <2>3
<1>10. ASSUME NEW s \in UtxoRows(next, pairs)
       PROVE  s \in UtxoRows(done, pairs)
  <2>1. s \in UtxoRow /\ s.wallet \in Wallet
    BY RowFields DEF UtxoRows
  <2>2. CASE s.wallet = w
    BY <1>1, <2>1, <2>2 DEF UtxoRows
  <2>3. CASE s.wallet # w
    BY <1>1, <2>1, <2>3 DEF UtxoRows
  <2> QED
    BY <2>2, <2>3
<1>11. UtxoRows(next, pairs) = UtxoRows(done, pairs) \ {r}
  BY <1>8, <1>9, <1>10
<1> QED
  BY <1>3, <1>7, <1>11 DEF next

\* A place adds the row of its transaction.
LEMMA TxRowsVisit ==
  ASSUME NEW b \in Block, NEW done \in PartsOf(b),
         NEW pairs, NEW w \in Wallet, NEW e \in PlacesOf(b),
         <<w, AddressOfDelta(DeltaAt(e))>> \in pairs
  PROVE  TxRows(Visited(done, w, e), pairs) = TxRows(done, pairs) \cup {TxRowAt(w, e)}
<1> DEFINE next == Visited(done, w, e)
           r == TxRowAt(w, e)
<1>1. /\ next[w] = done[w] \cup {e}
      /\ \A v \in Wallet : v # w => next[v] = done[v]
  BY VisitedIs
<1>2. /\ r \in TxidRow /\ r.wallet = w /\ r.height = Height[e[1]]
      /\ r.index = DeltaAt(e).index /\ r.tx = DeltaAt(e).tx
  BY TxRowAtIs
<1> HIDE DEF next, r
<1>3. r \in TxRows(next, pairs)
  BY <1>1, <1>2, InTxRows
<1>4. ASSUME NEW s \in TxRows(done, pairs)
      PROVE  s \in TxRows(next, pairs)
  <2>1. s \in TxidRow /\ s.wallet \in Wallet
    BY InTxRows, TxRowFields
  <2>2. done[s.wallet] \subseteq next[s.wallet]
    BY <1>1, <2>1
  <2> QED
    BY <2>2, InTxRows
<1>5. ASSUME NEW s \in TxRows(next, pairs), s # r
      PROVE  s \in TxRows(done, pairs)
  <2>1. s \in TxidRow /\ s.wallet \in Wallet
    BY InTxRows, TxRowFields
  <2>2. PICK f \in next[s.wallet] :
          /\ <<s.wallet, AddressOfDelta(DeltaAt(f))>> \in pairs
          /\ Height[f[1]] = s.height /\ DeltaAt(f).index = s.index /\ DeltaAt(f).tx = s.tx
    BY InTxRows
  <2>3. ~(s.wallet = w /\ f = e)
    BY <1>2, <1>5, <2>1, <2>2, SameTxRow
  <2>4. f \in done[s.wallet]
    BY <1>1, <2>1, <2>2, <2>3
  <2> QED
    BY <2>1, <2>2, <2>4, InTxRows
<1>6. TxRows(next, pairs) = TxRows(done, pairs) \cup {r}
  BY <1>3, <1>4, <1>5
<1> QED
  BY <1>6 DEF next, r

\* A key of txids stands for one transaction.
LEMMA TxKeys ==
  ASSUME ValidChain, NEW b \in Block, NEW done \in PartsOf(b), NEW pairs,
         NEW r \in TxRows(done, pairs), NEW s \in TxRows(done, pairs), SameTxidKey(r, s)
  PROVE  r = s
<1>1. /\ r \in TxidRow /\ s \in TxidRow
      /\ r.wallet = s.wallet /\ r.height = s.height /\ r.index = s.index
  BY InTxRows DEF SameTxidKey
<1>0. \A t \in TxRows(done, pairs) : \E e \in done[t.wallet] :
        Height[e[1]] = t.height /\ DeltaAt(e).index = t.index /\ DeltaAt(e).tx = t.tx
  BY DEF TxRows
<1>2. PICK e \in done[r.wallet] :
        Height[e[1]] = r.height /\ DeltaAt(e).index = r.index /\ DeltaAt(e).tx = r.tx
  BY <1>0
<1>3. PICK f \in done[s.wallet] :
        Height[f[1]] = s.height /\ DeltaAt(f).index = s.index /\ DeltaAt(f).tx = s.tx
  BY <1>0
<1>4. e \in PlacesOf(b) /\ f \in PlacesOf(b)
  BY <1>1, TxRowFields DEF PartsOf
<1>5. /\ e[1] \in ChainOf(b) /\ f[1] \in ChainOf(b) /\ e[1] \in Block
      /\ e[2] \in DOMAIN Deltas[e[1]] /\ f[2] \in DOMAIN Deltas[f[1]]
  BY <1>4, PlaceFacts
<1>6. e[1] = f[1]
  BY <1>1, <1>2, <1>3, <1>5, ChainUnique
<1>7. Deltas[e[1]][e[2]].index = Deltas[e[1]][f[2]].index
  BY <1>1, <1>2, <1>3, <1>6 DEF DeltaAt
<1>8. Deltas[e[1]][e[2]].tx = Deltas[e[1]][f[2]].tx
  BY <1>5, <1>6, <1>7 DEF ValidChain
<1>9. r.tx = s.tx
  BY <1>2, <1>3, <1>6, <1>8 DEF DeltaAt
<1> QED
  BY <1>1, <1>9, SameTxRow

\* Only the places of tracked addresses count.
LEMMA SameTracked ==
  ASSUME NEW b \in Block, NEW done \in PartsOf(b), NEW next \in PartsOf(b), NEW pairs,
         \A w \in Wallet, e \in PlacesOf(b) :
           <<w, AddressOfDelta(DeltaAt(e))>> \in pairs => (e \in done[w] <=> e \in next[w])
  PROVE  UtxoRows(done, pairs) = UtxoRows(next, pairs) /\ TxRows(done, pairs) = TxRows(next, pairs)
<1>1. \A w \in Wallet : done[w] \subseteq PlacesOf(b) /\ next[w] \subseteq PlacesOf(b)
  BY DEF PartsOf
<1>2. ASSUME NEW r
      PROVE  r \in UtxoRows(done, pairs) <=> r \in UtxoRows(next, pairs)
  <2>1. CASE r \in UtxoRow /\ <<r.wallet, AddressOf[r.out]>> \in pairs
    <3>1. r.wallet \in Wallet
      BY <2>1, RowFields
    <3>2. ASSUME NEW e \in PlacesOf(b), DeltaAt(e).out = r.out
          PROVE  e \in done[r.wallet] <=> e \in next[r.wallet]
      <4>1. AddressOfDelta(DeltaAt(e)) = AddressOf[r.out]
        BY <3>2, PlaceFacts
      <4> QED
        BY <2>1, <3>1, <4>1
    <3>3. (\E e \in done[r.wallet] :
            DeltaAt(e).kind = "output" /\ DeltaAt(e).out = r.out /\ Height[e[1]] = r.height) <=>
          (\E e \in next[r.wallet] :
            DeltaAt(e).kind = "output" /\ DeltaAt(e).out = r.out /\ Height[e[1]] = r.height)
      BY <1>1, <3>1, <3>2
    <3>4. (\A e \in done[r.wallet] : ~(DeltaAt(e).kind = "input" /\ DeltaAt(e).out = r.out)) <=>
          (\A e \in next[r.wallet] : ~(DeltaAt(e).kind = "input" /\ DeltaAt(e).out = r.out))
      BY <1>1, <3>1, <3>2
    <3> QED
      BY <3>3, <3>4 DEF UtxoRows
  <2>2. CASE ~(r \in UtxoRow /\ <<r.wallet, AddressOf[r.out]>> \in pairs)
    BY <2>2 DEF UtxoRows
  <2> QED
    BY <2>1, <2>2
<1>3. ASSUME NEW r
      PROVE  r \in TxRows(done, pairs) <=> r \in TxRows(next, pairs)
  <2>1. CASE r \in TxidRow
    <3>1. r.wallet \in Wallet
      BY <2>1, TxRowFields
    <3> QED
      BY <1>1, <3>1, InTxRows
  <2>2. CASE r \notin TxidRow
    BY <2>2, InTxRows
  <2> QED
    BY <2>1, <2>2
<1> QED
  BY <1>2, <1>3

\* More tracked pairs
LEMMA RowsOfPairs ==
  ASSUME NEW done, NEW pairs, NEW more
  PROVE  /\ UtxoRows(done, pairs \cup more) = UtxoRows(done, pairs) \cup UtxoRows(done, more)
         /\ TxRows(done, pairs \cup more) = TxRows(done, pairs) \cup TxRows(done, more)
         /\ UtxoRows(done, {}) = {} /\ TxRows(done, {}) = {}
         /\ UtxoRows(done, pairs) \subseteq UtxoRow /\ TxRows(done, pairs) \subseteq TxidRow
BY DEF UtxoRows, TxRows

----------------------------------------------------------------------------
(* The value of the rows of a wallet                                       *)

OfWallet(S, w) == {r \in S : r.wallet = w}

\* Only the rows of the wallet count for it.
LEMMA ValueOfWallet ==
  ASSUME NEW S, NEW w
  PROVE  ValueOf(S, w) = ValueOf(OfWallet(S, w), w)
<1>1. {r \in OfWallet(S, w) : r.wallet = w} = {r \in S : r.wallet = w}
  BY DEF OfWallet
<1> QED
  BY <1>1 DEF ValueOf

\* The rows of the outputs that the places of S make, for wallet w
CreatedRows(w, S) ==
  {r \in UtxoRow :
     r.wallet = w /\ \E e \in S : DeltaAt(e).kind = "output" /\ DeltaAt(e).out = r.out
                                  /\ Height[e[1]] = r.height}

\* They are finitely many.
LEMMA CreatedFinite ==
  ASSUME NEW b \in Block, NEW w \in Wallet, NEW S \in SUBSET PlacesOf(b)
  PROVE  IsFiniteSet(CreatedRows(w, S))
<1> DEFINE P == {e \in S : DeltaAt(e).kind = "output"}
           C == CreatedRows(w, S)
           f == [e \in P |-> RowAt(w, e)]
<1>1. IsFiniteSet(P)
  BY PlacesFinite, FS_Subset
<1>2. \A e \in P : /\ RowAt(w, e) \in UtxoRow /\ RowAt(w, e).wallet = w
                   /\ RowAt(w, e).out = DeltaAt(e).out /\ RowAt(w, e).height = Height[e[1]]
  BY RowAtIs
<1>3. \A e \in P : f[e] \in C
  BY <1>2 DEF CreatedRows
<1>4. ASSUME NEW r \in C
      PROVE  \E e \in P : f[e] = r
  <2>1. PICK e \in S : DeltaAt(e).kind = "output" /\ DeltaAt(e).out = r.out /\ Height[e[1]] = r.height
    BY DEF CreatedRows
  <2>2. r \in UtxoRow /\ r.wallet = w
    BY DEF CreatedRows
  <2>3. RowAt(w, e) = r
    BY <1>2, <2>1, <2>2, SameRow
  <2> QED
    BY <2>1, <2>3
<1>5. f \in [P -> C]
  BY <1>3
<1> HIDE DEF P, C, f
<1>6. f \in Surjection(P, C)
  BY <1>4, <1>5 DEF Surjection
<1> QED
  BY <1>1, <1>6, FS_Surjection DEF C

\* So are the unspent ones.
LEMMA RowsFinite ==
  ASSUME NEW b \in Block, NEW done \in PartsOf(b), NEW pairs, NEW w \in Wallet
  PROVE  IsFiniteSet(OfWallet(UtxoRows(done, pairs), w))
<1>1. OfWallet(UtxoRows(done, pairs), w) \subseteq CreatedRows(w, done[w])
  BY DEF OfWallet, UtxoRows, CreatedRows
<1>2. done[w] \in SUBSET PlacesOf(b)
  BY DEF PartsOf
<1> QED
  BY <1>1, <1>2, CreatedFinite, FS_Subset

\* A new row adds its amount to its wallet, and to no other.
LEMMA ValueMore ==
  ASSUME NEW S \in SUBSET UtxoRow, NEW r \in UtxoRow, r \notin S, NEW w \in Wallet,
         IsFiniteSet(OfWallet(S, w))
  PROVE  /\ ValueOf(S, w) \in Int
         /\ ValueOf(S \cup {r}, w) =
              ValueOf(S, w) + IF r.wallet = w THEN Satoshis[r.out] ELSE 0
<1> DEFINE O == OfWallet(S, w)
<1>1. O \in SUBSET UtxoRow /\ r \notin O
  BY DEF OfWallet
<1>2. CASE r.wallet = w
  <2>1. OfWallet(S \cup {r}, w) = O \cup {r}
    BY <1>2 DEF OfWallet
  <2>2. ValueOf(O \cup {r}, w) = ValueOf(O, w) + Satoshis[r.out]
    BY <1>1, <1>2, ValueInsert
  <2>3. ValueOf(S, w) = ValueOf(O, w) /\ ValueOf(S \cup {r}, w) = ValueOf(O \cup {r}, w)
    BY <2>1, ValueOfWallet
  <2>4. ValueOf(O, w) \in Int
    BY <1>1, ValueInt
  <2> QED
    BY <1>2, <2>2, <2>3, <2>4
<1>3. CASE r.wallet # w
  <2>1. OfWallet(S \cup {r}, w) = O
    BY <1>3 DEF OfWallet
  <2>2. ValueOf(S, w) = ValueOf(O, w) /\ ValueOf(S \cup {r}, w) = ValueOf(O, w)
    BY <2>1, ValueOfWallet
  <2>3. ValueOf(O, w) \in Int
    BY <1>1, ValueInt
  <2> QED
    BY <1>3, <2>2, <2>3
<1> QED
  BY <1>2, <1>3

\* A row that goes takes it away again.
LEMMA ValueLess ==
  ASSUME NEW S \in SUBSET UtxoRow, NEW r \in S, NEW w \in Wallet,
         IsFiniteSet(OfWallet(S, w))
  PROVE  ValueOf(S \ {r}, w) =
           ValueOf(S, w) - IF r.wallet = w THEN Satoshis[r.out] ELSE 0
<1> DEFINE T == S \ {r}
<1>1. T \in SUBSET UtxoRow /\ r \notin T /\ r \in UtxoRow /\ T \cup {r} = S
  OBVIOUS
<1>2. IsFiniteSet(OfWallet(T, w))
  <2>1. OfWallet(T, w) \subseteq OfWallet(S, w)
    BY DEF OfWallet
  <2> QED
    BY <2>1, FS_Subset
<1> HIDE DEF T
<1>3. ValueOf(T, w) \in Int /\
      ValueOf(T \cup {r}, w) = ValueOf(T, w) + IF r.wallet = w THEN Satoshis[r.out] ELSE 0
  BY <1>1, <1>2, ValueMore
<1>4. Satoshis[r.out] \in Int
  BY <1>1, RowFields
<1>5. ValueOf(T, w) = ValueOf(S, w) - IF r.wallet = w THEN Satoshis[r.out] ELSE 0
  BY <1>1, <1>3, <1>4
<1> QED
  BY <1>5 DEF T

\* What a wallet has in two sets of rows that share none of its rows
LEMMA ValueBoth ==
  ASSUME NEW S \in SUBSET UtxoRow, NEW T \in SUBSET UtxoRow, NEW w \in Wallet,
         IsFiniteSet(OfWallet(S, w)), IsFiniteSet(OfWallet(T, w)),
         \A r \in S : \A s \in T : r.wallet = w /\ s.wallet = w => r # s
  PROVE  /\ ValueOf(S \cup T, w) = ValueOf(S, w) + ValueOf(T, w)
         /\ ValueOf(S, w) \in Int /\ ValueOf(T, w) \in Int
<1> DEFINE O == OfWallet(S, w)
           Q == OfWallet(T, w)
<1>1. O \in SUBSET UtxoRow /\ Q \in SUBSET UtxoRow /\ O \cap Q = {}
  BY DEF OfWallet
<1>2. OfWallet(S \cup T, w) = O \cup Q
  BY DEF OfWallet
<1>3. ValueOf(S \cup T, w) = ValueOf(O \cup Q, w)
  BY <1>2, ValueOfWallet
<1>4. ValueOf(S, w) = ValueOf(O, w) /\ ValueOf(T, w) = ValueOf(Q, w)
  BY ValueOfWallet
<1> HIDE DEF O, Q
<1>5. IsFiniteSet(O) /\ IsFiniteSet(Q)
  BY DEF O, Q
<1>6. ValueOf(O \cup Q, w) = ValueOf(O, w) + ValueOf(Q, w)
  BY <1>1, <1>5, ValueUnion
<1>7. ValueOf(O, w) \in Int /\ ValueOf(Q, w) \in Int
  BY <1>1, <1>5, ValueInt
<1> QED
  BY <1>3, <1>4, <1>6, <1>7

----------------------------------------------------------------------------
(* A database shows a part of the chain                                    *)

Shows(d, done, pairs) ==
  /\ d.utxos = UtxoRows(done, pairs)
  /\ d.txids = TxRows(done, pairs)
  /\ \A w \in Wallet : d.balance[w] = ValueOf(UtxoRows(done, pairs), w)

\* One delta is applied for one wallet.
LEMMA AppliedTables ==
  ASSUME NEW d \in Database, NEW row \in TxidRow, NEW w \in Wallet, NEW n \in Int
  PROVE  /\ AddBalance(PutTxid(d, row), w, n) \in Database
         /\ AddBalance(PutTxid(d, row), w, n).utxos = d.utxos
         /\ AddBalance(PutTxid(d, row), w, n).txids =
              {r \in d.txids : ~SameTxidKey(r, row)} \cup {row}
         /\ \A v \in Wallet : AddBalance(PutTxid(d, row), w, n).balance[v] =
                               IF v = w THEN d.balance[v] + n ELSE d.balance[v]
<1> DEFINE p == PutTxid(d, row)
           e == AddBalance(p, w, n)
           new == [v \in Wallet |-> IF v = w THEN d.balance[v] + n ELSE d.balance[v]]
           ids == {r \in d.txids : ~SameTxidKey(r, row)} \cup {row}
<1>1. p \in Database /\ p.utxos = d.utxos /\ p.txids = ids /\ p.balance = d.balance
  BY DEF PutTxid, Database
<1> HIDE DEF p, ids
<1>2. p.balance \in [Wallet -> Int]
  BY <1>1 DEF Database
<1>3. [p.balance EXCEPT ![w] = @ + n] = new
  BY <1>1, <1>2
<1>4. e = [p EXCEPT !.balance = new]
  BY <1>3 DEF AddBalance
<1>5. e \in Database
  <2>1. new \in [Wallet -> Int]
    BY <1>1 DEF Database
  <2> HIDE DEF new
  <2> QED
    BY <1>1, <1>4, <2>1 DEF Database
<1> HIDE DEF new, e
<1>6. e.utxos = d.utxos /\ e.txids = ids /\ e.balance = new
  BY <1>1, <1>4 DEF Database
<1> QED
  BY <1>5, <1>6 DEF e, new, ids, p

\* What adding outputs leaves of these tables
LEMMA OutputTables ==
  ASSUME NEW d \in Database, NEW new \in SUBSET UtxoRow
  PROVE  /\ AddUTXOs(d, new).utxos = Without(d.utxos, new) \cup new
         /\ AddUTXOs(d, new).txids = d.txids
         /\ AddUTXOs(d, new).balance = d.balance
BY DEF AddUTXOs, Database

\* What deleting one leaves of them
LEMMA InputTables ==
  ASSUME NEW d \in Database, NEW row \in UtxoRow
  PROVE  /\ DeleteUTXO(d, row).utxos = Without(d.utxos, {row})
         /\ DeleteUTXO(d, row).txids = d.txids
         /\ DeleteUTXO(d, row).balance = d.balance
BY DEF DeleteUTXO, Database

\* Putting a row of a place next to others of the same chain replaces none.
LEMMA PutRow ==
  ASSUME ValidChain, NEW b \in Block, NEW done \in PartsOf(b), NEW pairs,
         NEW T \in SUBSET TxRows(done, pairs), NEW row \in TxRows(done, pairs)
  PROVE  {r \in T : ~SameTxidKey(r, row)} \cup {row} = T \cup {row}
<1>1. \A r \in T : SameTxidKey(r, row) => r = row
  BY TxKeys
<1> QED
  BY <1>1

\* Connecting an output: if the tables show the places that were visited, they
\* show them together with the new place afterwards, as no visited place comes
\* after it.
LEMMA OutputShown ==
  ASSUME ValidChain, NEW b \in Block, NEW done \in PartsOf(b),
         NEW pairs, NEW w \in Wallet, NEW e \in PlacesOf(b),
         e \notin done[w], \A f \in done[w] : ~Precedes(e, f),
         DeltaAt(e).kind = "output", <<w, AddressOfDelta(DeltaAt(e))>> \in pairs,
         NEW d \in Database, Shows(d, done, pairs)
  PROVE  Shows(AddUTXOs(AddBalance(PutTxid(d, TxRowAt(w, e)), w, SatoshisOf(DeltaAt(e))),
                        {RowAt(w, e)}),
               Visited(done, w, e), pairs)
<1> DEFINE n == SatoshisOf(DeltaAt(e))
           urow == RowAt(w, e)
           row == TxRowAt(w, e)
           new == AddUTXOs(AddBalance(PutTxid(d, row), w, n), {urow})
           next == Visited(done, w, e)
           R == UtxoRows(done, pairs)
<1>1. /\ urow \in UtxoRow /\ urow.wallet = w /\ urow.out = DeltaAt(e).out
      /\ row \in TxidRow
  BY RowAtIs, TxRowAtIs
<1>2. n = Satoshis[urow.out] /\ n \in Int
  BY <1>1, RowFields DEF SatoshisOf
<1>3. /\ UtxoRows(next, pairs) = R \cup {urow}
      /\ \A s \in R : ~SameOutput(s, urow)
  BY RowsOutput
<1>4. TxRows(next, pairs) = TxRows(done, pairs) \cup {row}
  BY TxRowsVisit
<1>5. next \in PartsOf(b)
  BY VisitedIs
<1>6. R \in SUBSET UtxoRow /\ \A v \in Wallet : IsFiniteSet(OfWallet(R, v))
  BY RowsFinite, RowsOfPairs
<1> HIDE DEF urow, row, n, next, R
<1>7. /\ new.utxos = Without(d.utxos, {urow}) \cup {urow}
      /\ new.txids = {r \in d.txids : ~SameTxidKey(r, row)} \cup {row}
      /\ \A v \in Wallet : new.balance[v] = IF v = w THEN d.balance[v] + n ELSE d.balance[v]
  <2> DEFINE a == AddBalance(PutTxid(d, row), w, n)
  <2>1. /\ a \in Database /\ a.utxos = d.utxos
        /\ a.txids = {r \in d.txids : ~SameTxidKey(r, row)} \cup {row}
        /\ \A v \in Wallet : a.balance[v] = IF v = w THEN d.balance[v] + n ELSE d.balance[v]
    BY <1>1, <1>2, AppliedTables
  <2> HIDE DEF a
  <2>2. {urow} \in SUBSET UtxoRow
    BY <1>1
  <2>3. /\ AddUTXOs(a, {urow}).utxos = Without(a.utxos, {urow}) \cup {urow}
        /\ AddUTXOs(a, {urow}).txids = a.txids
        /\ AddUTXOs(a, {urow}).balance = a.balance
    BY <2>1, <2>2, OutputTables
  <2> QED
    BY <2>1, <2>3 DEF a
<1> HIDE DEF new
<1>8. d.utxos = R /\ d.txids = TxRows(done, pairs)
      /\ \A v \in Wallet : d.balance[v] = ValueOf(R, v)
  BY DEF Shows, R
<1>9. Without(R, {urow}) = R
  BY <1>3 DEF Without
<1>10. new.utxos = UtxoRows(next, pairs)
  BY <1>3, <1>7, <1>8, <1>9
<1>11. new.txids = TxRows(next, pairs)
  BY <1>4, <1>5, <1>7, <1>8, PutRow
<1>12. urow \notin R
  BY <1>3 DEF SameOutput
<1>13. ASSUME NEW v \in Wallet
       PROVE  new.balance[v] = ValueOf(UtxoRows(next, pairs), v)
  <2>1. ValueOf(R \cup {urow}, v) = ValueOf(R, v) + (IF urow.wallet = v THEN Satoshis[urow.out] ELSE 0)
        /\ ValueOf(R, v) \in Int
    BY <1>1, <1>6, <1>12, ValueMore
  <2> QED
    BY <1>1, <1>2, <1>3, <1>7, <1>8, <2>1
<1> QED
  BY <1>10, <1>11, <1>13 DEF Shows, new, urow, row, n, next

\* Connecting an input: the row of the output that it spends is there, as the
\* place that creates it was visited before, and it goes.
LEMMA InputShown ==
  ASSUME ValidChain, NEW b \in Block, NEW done \in PartsOf(b),
         NEW pairs, NEW w \in Wallet, NEW e \in PlacesOf(b),
         e \notin done[w], \A f \in PlacesOf(b) : Precedes(f, e) => f \in done[w],
         DeltaAt(e).kind = "input", <<w, AddressOfDelta(DeltaAt(e))>> \in pairs,
         NEW d \in Database, Shows(d, done, pairs)
  PROVE  /\ \E r \in d.utxos : r.wallet = w /\ r.out = DeltaAt(e).out
         /\ \A r \in d.utxos : r.wallet = w /\ r.out = DeltaAt(e).out =>
              Shows(DeleteUTXO(AddBalance(PutTxid(d, TxRowAt(w, e)), w, SatoshisOf(DeltaAt(e))), r),
                    Visited(done, w, e), pairs)
<1> DEFINE n == SatoshisOf(DeltaAt(e))
           row == TxRowAt(w, e)
           next == Visited(done, w, e)
           R == UtxoRows(done, pairs)
<1>1. row \in TxidRow /\ next \in PartsOf(b)
  BY TxRowAtIs, VisitedIs
<1>2. TxRows(next, pairs) = TxRows(done, pairs) \cup {row}
  BY TxRowsVisit
<1>3. PICK spent \in R : /\ spent.wallet = w /\ spent.out = DeltaAt(e).out
                         /\ UtxoRows(next, pairs) = R \ {spent}
  BY RowsInput
<1>4. R \in SUBSET UtxoRow /\ \A v \in Wallet : IsFiniteSet(OfWallet(R, v))
  BY RowsFinite, RowsOfPairs
<1>5. \A r, s \in R : SameOutput(r, s) => r = s
  BY RowsUnique
<1>6. n = -Satoshis[spent.out] /\ Satoshis[spent.out] \in Int /\ n \in Int
  BY <1>3, <1>4, RowFields DEF SatoshisOf
<1> HIDE DEF row, n, next, R
<1>7. d.utxos = R /\ d.txids = TxRows(done, pairs)
      /\ \A v \in Wallet : d.balance[v] = ValueOf(R, v)
  BY DEF Shows, R
<1> DEFINE new == DeleteUTXO(AddBalance(PutTxid(d, row), w, n), spent)
<1>8. /\ new.utxos = Without(d.utxos, {spent})
      /\ new.txids = {r \in d.txids : ~SameTxidKey(r, row)} \cup {row}
      /\ \A v \in Wallet : new.balance[v] = IF v = w THEN d.balance[v] + n ELSE d.balance[v]
  <2> DEFINE a == AddBalance(PutTxid(d, row), w, n)
  <2>1. /\ a \in Database /\ a.utxos = d.utxos
        /\ a.txids = {r \in d.txids : ~SameTxidKey(r, row)} \cup {row}
        /\ \A v \in Wallet : a.balance[v] = IF v = w THEN d.balance[v] + n ELSE d.balance[v]
    BY <1>1, <1>6, AppliedTables
  <2> HIDE DEF a
  <2>2. spent \in UtxoRow
    BY <1>4
  <2>3. /\ DeleteUTXO(a, spent).utxos = Without(a.utxos, {spent})
        /\ DeleteUTXO(a, spent).txids = a.txids
        /\ DeleteUTXO(a, spent).balance = a.balance
    BY <2>1, <2>2, InputTables
  <2> QED
    BY <2>1, <2>3 DEF a
<1> HIDE DEF new
<1>9. Without(R, {spent}) = R \ {spent}
  BY <1>5 DEF Without, SameOutput
<1>10. new.utxos = UtxoRows(next, pairs)
  BY <1>3, <1>7, <1>8, <1>9
<1>11. new.txids = TxRows(next, pairs)
  BY <1>1, <1>2, <1>7, <1>8, PutRow
<1>12. ASSUME NEW v \in Wallet
       PROVE  new.balance[v] = ValueOf(UtxoRows(next, pairs), v)
  <2>1. ValueOf(R \ {spent}, v) = ValueOf(R, v) - IF spent.wallet = v THEN Satoshis[spent.out] ELSE 0
    BY <1>4, ValueLess
  <2>2. ValueOf(R, v) \in Int
    <3>1. OfWallet(R, v) \in SUBSET UtxoRow /\ IsFiniteSet(OfWallet(R, v))
      BY <1>4 DEF OfWallet
    <3> QED
      BY <3>1, ValueInt, ValueOfWallet
  <2> QED
    BY <1>3, <1>6, <1>7, <1>8, <2>1, <2>2
<1>13. Shows(new, next, pairs)
  BY <1>10, <1>11, <1>12 DEF Shows
<1>14. \A r \in d.utxos : r.wallet = w /\ r.out = DeltaAt(e).out => r = spent
  BY <1>3, <1>5, <1>7 DEF SameOutput
<1> QED
  BY <1>3, <1>7, <1>13, <1>14 DEF new, row, n, next

----------------------------------------------------------------------------
(* What some deltas of a chain are worth to a wallet                       *)

SpentRows(b, w, S) ==
  {r \in CreatedRows(w, PlacesOf(b)) :
     \E e \in S : DeltaAt(e).kind = "input" /\ DeltaAt(e).out = r.out}

Net(b, w, S) == ValueOf(CreatedRows(w, S), w) - ValueOf(SpentRows(b, w, S), w)

\* Both sets of rows are finite and have a value.
LEMMA CreatedIs ==
  ASSUME NEW b \in Block, NEW w \in Wallet, NEW S \in SUBSET PlacesOf(b)
  PROVE  /\ CreatedRows(w, S) \in SUBSET UtxoRow
         /\ IsFiniteSet(OfWallet(CreatedRows(w, S), w))
         /\ ValueOf(CreatedRows(w, S), w) \in Int
         /\ SpentRows(b, w, S) \in SUBSET UtxoRow
         /\ IsFiniteSet(OfWallet(SpentRows(b, w, S), w))
         /\ ValueOf(SpentRows(b, w, S), w) \in Int
<1>1. /\ CreatedRows(w, S) \in SUBSET UtxoRow
      /\ SpentRows(b, w, S) \in SUBSET UtxoRow
      /\ OfWallet(CreatedRows(w, S), w) = CreatedRows(w, S)
      /\ OfWallet(SpentRows(b, w, S), w) = SpentRows(b, w, S)
      /\ SpentRows(b, w, S) \subseteq CreatedRows(w, PlacesOf(b))
  BY DEF CreatedRows, SpentRows, OfWallet
<1>2. IsFiniteSet(CreatedRows(w, S)) /\ IsFiniteSet(CreatedRows(w, PlacesOf(b)))
  BY CreatedFinite
<1>3. IsFiniteSet(SpentRows(b, w, S))
  BY <1>1, <1>2, FS_Subset
<1> QED
  BY <1>1, <1>2, <1>3, ValueInt

\* No deltas are worth nothing.
LEMMA NetEmpty ==
  ASSUME NEW b \in Block, NEW w \in Wallet
  PROVE  Net(b, w, {}) = 0
<1>1. CreatedRows(w, {}) = {} /\ SpentRows(b, w, {}) = {}
  BY DEF CreatedRows, SpentRows
<1> QED
  BY <1>1, ValueEmpty DEF Net

\* One more delta is worth its satoshis.
LEMMA NetAdd ==
  ASSUME ValidChain, NEW b \in Block, NEW w \in Wallet,
         NEW S \in SUBSET PlacesOf(b), NEW e \in PlacesOf(b), e \notin S
  PROVE  /\ Net(b, w, S) \in Int
         /\ SatoshisOf(DeltaAt(e)) \in Int
         /\ Net(b, w, S \cup {e}) = Net(b, w, S) + SatoshisOf(DeltaAt(e))
<1> DEFINE T == S \cup {e}
           C == CreatedRows(w, S)
           D == SpentRows(b, w, S)
<1>1. /\ C \in SUBSET UtxoRow /\ IsFiniteSet(OfWallet(C, w)) /\ ValueOf(C, w) \in Int
      /\ D \in SUBSET UtxoRow /\ IsFiniteSet(OfWallet(D, w)) /\ ValueOf(D, w) \in Int
  BY CreatedIs
<1>2. DeltaAt(e).out \in Outpoint /\ Satoshis[DeltaAt(e).out] \in Int
  BY PlaceFacts, ChainAssumption
<1>5. /\ Net(b, w, S) = ValueOf(C, w) - ValueOf(D, w)
      /\ Net(b, w, T) = ValueOf(CreatedRows(w, T), w) - ValueOf(SpentRows(b, w, T), w)
  BY DEF Net
<1>3. CASE DeltaAt(e).kind = "output"
  <2> DEFINE r == RowAt(w, e)
  <2>1. /\ r \in UtxoRow /\ r.wallet = w /\ r.out = DeltaAt(e).out /\ r.height = Height[e[1]]
    BY RowAtIs
  <2> HIDE DEF r
  <2>2. r \notin C
    <3>1. SUFFICES ASSUME r \in C PROVE FALSE
      OBVIOUS
    <3>2. PICK f \in S : DeltaAt(f).kind = "output" /\ DeltaAt(f).out = r.out
      BY <3>1 DEF CreatedRows
    <3> QED
      BY <1>3, <2>1, <3>2, OncePlace
  <2>3. CreatedRows(w, T) = C \cup {r}
    <3>1. \A s \in CreatedRows(w, T) : s \in C \/ s = r
      <4> SUFFICES ASSUME NEW s \in CreatedRows(w, T) PROVE s \in C \/ s = r
        OBVIOUS
      <4>1. s \in UtxoRow /\ s.wallet = w
        BY DEF CreatedRows
      <4>2. PICK f \in T : DeltaAt(f).kind = "output" /\ DeltaAt(f).out = s.out /\ Height[f[1]] = s.height
        BY DEF CreatedRows
      <4>3. CASE f = e
        BY <2>1, <4>1, <4>2, <4>3, SameRow
      <4>4. CASE f \in S
        BY <4>1, <4>2, <4>4 DEF CreatedRows
      <4> QED
        BY <4>3, <4>4
    <3>2. C \subseteq CreatedRows(w, T)
      BY DEF CreatedRows
    <3>3. r \in CreatedRows(w, T)
      BY <1>3, <2>1 DEF CreatedRows
    <3> QED
      BY <3>1, <3>2, <3>3
  <2>4. SpentRows(b, w, T) = D
    BY <1>3 DEF SpentRows
  <2> HIDE DEF C, D
  <2>5. ValueOf(C \cup {r}, w) = ValueOf(C, w) + Satoshis[r.out]
    BY <1>1, <2>1, <2>2, ValueMore
  <2>6. SatoshisOf(DeltaAt(e)) = Satoshis[r.out]
    BY <1>3, <2>1 DEF SatoshisOf
  <2>7. /\ Net(b, w, T) = ValueOf(C \cup {r}, w) - ValueOf(D, w)
        /\ SatoshisOf(DeltaAt(e)) \in Int
    BY <1>2, <1>5, <2>1, <2>3, <2>4, <2>6
  <2> HIDE DEF T
  <2>8. Net(b, w, S) \in Int /\ Net(b, w, T) = Net(b, w, S) + SatoshisOf(DeltaAt(e))
    BY <1>1, <1>2, <1>5, <2>1, <2>5, <2>6, <2>7
  <2> QED
    BY <2>7, <2>8 DEF T
<1>4. CASE DeltaAt(e).kind = "input"
  <2>1. PICK c \in PlacesOf(b) : DeltaAt(c).kind = "output" /\ DeltaAt(c).out = DeltaAt(e).out
    BY <1>4, Creator
  <2> DEFINE r == RowAt(w, c)
  <2>2. /\ r \in UtxoRow /\ r.wallet = w /\ r.out = DeltaAt(e).out /\ r.height = Height[c[1]]
    BY <2>1, RowAtIs
  <2> HIDE DEF r
  <2>3. r \in CreatedRows(w, PlacesOf(b))
    BY <2>1, <2>2 DEF CreatedRows
  <2>4. r \notin D
    <3>1. SUFFICES ASSUME r \in D PROVE FALSE
      OBVIOUS
    <3>2. PICK f \in S : DeltaAt(f).kind = "input" /\ DeltaAt(f).out = r.out
      BY <3>1 DEF SpentRows
    <3> QED
      BY <1>4, <2>2, <3>2, OncePlace
  <2>5. SpentRows(b, w, T) = D \cup {r}
    <3>1. \A s \in SpentRows(b, w, T) : s \in D \/ s = r
      <4> SUFFICES ASSUME NEW s \in SpentRows(b, w, T), s \notin D PROVE s = r
        OBVIOUS
      <4>1. s \in CreatedRows(w, PlacesOf(b)) /\ s.out = DeltaAt(e).out
        BY DEF SpentRows
      <4>2. s \in UtxoRow /\ s.wallet = w
        BY <4>1 DEF CreatedRows
      <4>3. PICK f \in PlacesOf(b) :
              DeltaAt(f).kind = "output" /\ DeltaAt(f).out = s.out /\ Height[f[1]] = s.height
        BY <4>1 DEF CreatedRows
      <4>4. f = c
        BY <2>1, <4>1, <4>3, OncePlace
      <4> QED
        BY <2>2, <4>1, <4>2, <4>3, <4>4, SameRow
    <3>2. D \subseteq SpentRows(b, w, T)
      BY DEF SpentRows
    <3>3. r \in SpentRows(b, w, T)
      BY <1>4, <2>2, <2>3 DEF SpentRows
    <3> QED
      BY <3>1, <3>2, <3>3
  <2>6. CreatedRows(w, T) = C
    BY <1>4 DEF CreatedRows
  <2> HIDE DEF C, D
  <2>7. ValueOf(D \cup {r}, w) = ValueOf(D, w) + Satoshis[r.out]
    BY <1>1, <2>2, <2>4, ValueMore
  <2>8. SatoshisOf(DeltaAt(e)) = -Satoshis[r.out]
    BY <1>4, <2>2 DEF SatoshisOf
  <2>9. /\ Net(b, w, T) = ValueOf(C, w) - ValueOf(D \cup {r}, w)
        /\ SatoshisOf(DeltaAt(e)) \in Int
    <3>1. SatoshisOf(DeltaAt(e)) \in Int
      BY <1>2, <2>2, <2>8
    <3>2. Net(b, w, T) = ValueOf(C, w) - ValueOf(D \cup {r}, w)
      BY <1>5, <2>5, <2>6
    <3> QED
      BY <3>1, <3>2
  <2> HIDE DEF T
  <2>10. Net(b, w, S) \in Int /\ Net(b, w, T) = Net(b, w, S) + SatoshisOf(DeltaAt(e))
    BY <1>1, <1>2, <1>5, <2>2, <2>7, <2>8, <2>9
  <2> QED
    BY <2>9, <2>10 DEF T
<1> QED
  BY <1>3, <1>4, KindIs

\* The places of the addresses in A
TouchedAt(b, A) == {e \in PlacesOf(b) : AddressOfDelta(DeltaAt(e)) \in A}

\* All of them together are worth what they leave unspent.
LEMMA NetAll ==
  ASSUME ValidChain, NEW b \in Block, NEW w \in Wallet, NEW A \in SUBSET Address
  PROVE  Net(b, w, TouchedAt(b, A)) = ValueOf(UtxoRows(Everywhere(b), {w} \X A), w)
<1> DEFINE T == TouchedAt(b, A)
           C == CreatedRows(w, T)
           D == SpentRows(b, w, T)
           U == UtxoRows(Everywhere(b), {w} \X A)
<1>1. T \in SUBSET PlacesOf(b)
  BY DEF TouchedAt
<1>2. /\ C \in SUBSET UtxoRow /\ IsFiniteSet(OfWallet(C, w)) /\ ValueOf(C, w) \in Int
      /\ D \in SUBSET UtxoRow /\ IsFiniteSet(OfWallet(D, w)) /\ ValueOf(D, w) \in Int
  BY <1>1, CreatedIs
<1>3. U \in SUBSET UtxoRow /\ IsFiniteSet(OfWallet(U, w))
  BY RowsFinite, RowsOfPairs, EverywhereIsPart
<1>4. \A e \in PlacesOf(b) : e \in T <=> AddressOf[DeltaAt(e).out] \in A
  BY PlaceFacts DEF TouchedAt
<1>5. ASSUME NEW r
      PROVE  r \in C <=> /\ r \in UtxoRow /\ r.wallet = w /\ AddressOf[r.out] \in A
                         /\ \E e \in PlacesOf(b) : DeltaAt(e).kind = "output" /\ DeltaAt(e).out = r.out
                                                  /\ Height[e[1]] = r.height
  BY <1>1, <1>4 DEF CreatedRows
<1>6. ASSUME NEW r \in C
      PROVE  r \in D <=> \E e \in PlacesOf(b) : DeltaAt(e).kind = "input" /\ DeltaAt(e).out = r.out
  <2>1. r \in CreatedRows(w, PlacesOf(b))
    BY <1>5 DEF CreatedRows
  <2>2. AddressOf[r.out] \in A
    BY <1>5
  <2> QED
    BY <1>1, <1>4, <2>1, <2>2 DEF SpentRows
<1>7. ASSUME NEW r
      PROVE  r \in U <=> r \in C /\ ~\E e \in PlacesOf(b) : DeltaAt(e).kind = "input" /\ DeltaAt(e).out = r.out
  <2>1. r \in U <=> /\ r \in UtxoRow /\ r.wallet = w /\ AddressOf[r.out] \in A
                    /\ \E e \in PlacesOf(b) : DeltaAt(e).kind = "output" /\ DeltaAt(e).out = r.out
                                             /\ Height[e[1]] = r.height
                    /\ \A e \in PlacesOf(b) : ~(DeltaAt(e).kind = "input" /\ DeltaAt(e).out = r.out)
    BY EverywhereIsPart DEF UtxoRows
  <2> QED
    BY <1>5, <2>1
<1>8. D \subseteq C
  <2> SUFFICES ASSUME NEW r \in D PROVE r \in C
    OBVIOUS
  <2>1. r \in UtxoRow /\ r.wallet = w
        /\ \E e \in PlacesOf(b) : DeltaAt(e).kind = "output" /\ DeltaAt(e).out = r.out
                                  /\ Height[e[1]] = r.height
    BY DEF SpentRows, CreatedRows
  <2>2. PICK f \in T : DeltaAt(f).kind = "input" /\ DeltaAt(f).out = r.out
    BY DEF SpentRows
  <2>3. AddressOf[r.out] \in A
    BY <1>1, <1>4, <2>2
  <2> QED
    BY <1>5, <2>1, <2>3
<1>11. Net(b, w, TouchedAt(b, A)) = ValueOf(C, w) - ValueOf(D, w)
  BY DEF Net
<1> HIDE DEF T, C, D, U
<1>9. C = U \cup D /\ U \cap D = {}
  BY <1>6, <1>7, <1>8
<1>13. \A q \in U : \A t \in D : q.wallet = w /\ t.wallet = w => q # t
  BY <1>9
<1>10. /\ ValueOf(U \cup D, w) = ValueOf(U, w) + ValueOf(D, w)
       /\ ValueOf(U, w) \in Int
  BY <1>2, <1>3, <1>13, ValueBoth
<1>12. Net(b, w, TouchedAt(b, A)) = ValueOf(U, w)
  <2>1. ValueOf(C, w) = ValueOf(U, w) + ValueOf(D, w)
    BY <1>9, <1>10
  <2> QED
    BY <1>2, <1>10, <1>11, <2>1
<1> QED
  BY <1>12 DEF U

----------------------------------------------------------------------------
(* A database in which an import has added the deltas of S for the         *)
(* addresses in A of wallet w, to what database old shows of block b.      *)

Imported(d, old, b, w, A, S) ==
  /\ d.txids = TxRows(Everywhere(b), old.addresses) \cup TxRows([v \in Wallet |-> S], {w} \X A)
  /\ \A v \in Wallet :
       d.balance[v] = IF v = w THEN old.balance[v] + Net(b, w, S) ELSE old.balance[v]

\* At first nothing is collected.
LEMMA ImportBegins ==
  ASSUME NEW b \in Block, NEW w \in Wallet, NEW A \in SUBSET Address,
         NEW old \in Database, Shows(old, Everywhere(b), old.addresses),
         NEW d, d.txids = old.txids, d.balance = old.balance
  PROVE  Imported(d, old, b, w, A, {})
<1>1. TxRows([v \in Wallet |-> {}], {w} \X A) = {}
  BY TxRowFields DEF TxRows
<1>2. \A v \in Wallet : old.balance[v] \in Int
  BY DEF Database
<1>3. d.txids = TxRows(Everywhere(b), old.addresses)
  BY DEF Shows
<1>4. \A v \in Wallet : d.balance[v] =
        IF v = w THEN old.balance[v] + Net(b, w, {}) ELSE old.balance[v]
  BY <1>2, NetEmpty
<1> QED
  BY <1>1, <1>3, <1>4 DEF Imported

\* One more delta
LEMMA ImportAdds ==
  ASSUME ValidChain, NEW b \in Block, NEW w \in Wallet, NEW A \in SUBSET Address,
         NEW old \in Database, NEW d \in Database,
         NEW S \in SUBSET PlacesOf(b), NEW e \in TouchedAt(b, A), e \notin S,
         Imported(d, old, b, w, A, S),
         NEW new, new.txids = {r \in d.txids : ~SameTxidKey(r, TxRowAt(w, e))} \cup {TxRowAt(w, e)},
         \A v \in Wallet : new.balance[v] =
                             IF v = w THEN d.balance[v] + SatoshisOf(DeltaAt(e)) ELSE d.balance[v]
  PROVE  Imported(new, old, b, w, A, S \cup {e})
<1> DEFINE row == TxRowAt(w, e)
           done == [v \in Wallet |-> S]
           pairs == {w} \X A
           T == TxRows(Everywhere(b), old.addresses) \cup TxRows(done, pairs)
<1>1. e \in PlacesOf(b) /\ <<w, AddressOfDelta(DeltaAt(e))>> \in pairs
  BY DEF TouchedAt
<1>2. done \in PartsOf(b) /\ done[w] = S
  BY DEF PartsOf
<1>3. TxRows(Visited(done, w, e), pairs) = TxRows(done, pairs) \cup {row}
  BY <1>1, <1>2, TxRowsVisit
<1>4. TxRows(Visited(done, w, e), pairs) = TxRows([v \in Wallet |-> S \cup {e}], pairs)
  <2>1. Visited(done, w, e)[w] = S \cup {e} /\ [v \in Wallet |-> S \cup {e}][w] = S \cup {e}
    BY <1>1, <1>2, VisitedIs
  <2>2. ASSUME NEW f, NEW g, f[w] = g[w]
        PROVE  TxRows(f, pairs) = TxRows(g, pairs)
    BY <2>2 DEF TxRows
  <2> QED
    BY <2>1, <2>2
<1>5. /\ T \in SUBSET TxRows(Everywhere(b), Wallet \X Address)
      /\ row \in TxRows(Everywhere(b), Wallet \X Address)
  <2>1. old.addresses \subseteq Wallet \X Address /\ pairs \subseteq Wallet \X Address
    BY DEF Database
  <2>2. TxRows(Everywhere(b), old.addresses) \subseteq TxRows(Everywhere(b), Wallet \X Address)
    BY <2>1 DEF TxRows
  <2>3. ASSUME NEW r \in TxRows(done, pairs)
        PROVE  r \in TxRows(Everywhere(b), Wallet \X Address)
    <3>1. r \in TxidRow /\ r.wallet \in Wallet
      BY InTxRows, TxRowFields
    <3>2. done[r.wallet] \subseteq Everywhere(b)[r.wallet]
      BY <3>1, EverywhereIsPart
    <3>3. PICK f \in done[r.wallet] :
            /\ <<r.wallet, AddressOfDelta(DeltaAt(f))>> \in pairs
            /\ Height[f[1]] = r.height /\ DeltaAt(f).index = r.index /\ DeltaAt(f).tx = r.tx
      BY InTxRows
    <3>4. <<r.wallet, AddressOfDelta(DeltaAt(f))>> \in Wallet \X Address
      BY <2>1, <3>3
    <3> QED
      BY <3>1, <3>2, <3>3, <3>4, InTxRows
  <2>4. row \in TxRows(Everywhere(b), Wallet \X Address)
    <3>1. /\ row \in TxidRow /\ row.wallet = w /\ row.height = Height[e[1]]
          /\ row.index = DeltaAt(e).index /\ row.tx = DeltaAt(e).tx
      BY <1>1, TxRowAtIs
    <3>2. e \in Everywhere(b)[w] /\ <<w, AddressOfDelta(DeltaAt(e))>> \in Wallet \X Address
      BY <1>1, <2>1, EverywhereIsPart
    <3> HIDE DEF row
    <3> QED
      BY <3>1, <3>2, InTxRows
  <2> QED
    BY <2>2, <2>3, <2>4
<1>6. d.txids = T
  BY DEF Imported
<1> HIDE DEF row, done, T
<1>7. {r \in T : ~SameTxidKey(r, row)} \cup {row} = T \cup {row}
  BY <1>5, PutRow, EverywhereIsPart
<1>8. new.txids = TxRows(Everywhere(b), old.addresses)
                    \cup TxRows([v \in Wallet |-> S \cup {e}], pairs)
  <2>1. new.txids = T \cup {row}
    BY <1>6, <1>7 DEF row
  <2> QED
    BY <1>3, <1>4, <2>1 DEF T
<1>9. /\ Net(b, w, S) \in Int /\ SatoshisOf(DeltaAt(e)) \in Int
      /\ Net(b, w, S \cup {e}) = Net(b, w, S) + SatoshisOf(DeltaAt(e))
  BY <1>1, NetAdd
<1>10. ASSUME NEW v \in Wallet
       PROVE  new.balance[v] = IF v = w THEN old.balance[v] + Net(b, w, S \cup {e})
                                        ELSE old.balance[v]
  <2>1. old.balance[v] \in Int
    BY DEF Database
  <2>2. d.balance[v] = IF v = w THEN old.balance[v] + Net(b, w, S) ELSE old.balance[v]
    BY DEF Imported
  <2> QED
    BY <1>9, <2>1, <2>2
<1> QED
  BY <1>8, <1>10 DEF Imported

\* With all of them the database shows the block for the new addresses, too.
LEMMA ImportShown ==
  ASSUME ValidChain, NEW b \in Block, NEW w \in Wallet, NEW A \in SUBSET Address,
         NEW old \in Database, Shows(old, Everywhere(b), old.addresses),
         \A a \in A : <<w, a>> \notin old.addresses,
         NEW d, d.utxos = UtxoRows(Everywhere(b), old.addresses \cup ({w} \X A)),
         Imported(d, old, b, w, A, TouchedAt(b, A))
  PROVE  Shows(d, Everywhere(b), old.addresses \cup ({w} \X A))
<1> DEFINE pairs == {w} \X A
           R == UtxoRows(Everywhere(b), old.addresses)
           U == UtxoRows(Everywhere(b), pairs)
<1>1. UtxoRows(Everywhere(b), old.addresses \cup pairs) = R \cup U
  BY DEF UtxoRows
<1>2. TxRows(Everywhere(b), old.addresses \cup pairs) =
        TxRows(Everywhere(b), old.addresses) \cup TxRows(Everywhere(b), pairs)
  BY DEF TxRows
<1>3. TxRows(Everywhere(b), pairs) = TxRows([v \in Wallet |-> TouchedAt(b, A)], pairs)
  <2>1. [v \in Wallet |-> TouchedAt(b, A)] \in PartsOf(b)
    BY DEF PartsOf, TouchedAt
  <2>2. ASSUME NEW v \in Wallet, NEW e \in PlacesOf(b), <<v, AddressOfDelta(DeltaAt(e))>> \in pairs
        PROVE  e \in Everywhere(b)[v] <=> e \in [u \in Wallet |-> TouchedAt(b, A)][v]
    BY <2>2, EverywhereIsPart DEF TouchedAt
  <2> QED
    BY <2>1, <2>2, SameTracked, EverywhereIsPart
<1>4. /\ R \in SUBSET UtxoRow /\ U \in SUBSET UtxoRow
      /\ \A v \in Wallet : IsFiniteSet(OfWallet(R, v)) /\ IsFiniteSet(OfWallet(U, v))
  BY RowsFinite, RowsOfPairs, EverywhereIsPart
<1>5. \A r \in U : r.wallet = w /\ r \notin R
  BY DEF UtxoRows
<1>6. Net(b, w, TouchedAt(b, A)) = ValueOf(U, w)
  BY NetAll
<1>7. \A v \in Wallet : old.balance[v] = ValueOf(R, v)
  BY DEF Shows
<1> HIDE DEF R, U
<1>8. ASSUME NEW v \in Wallet
      PROVE  d.balance[v] = ValueOf(R \cup U, v)
  <2>1. d.balance[v] = IF v = w THEN old.balance[v] + ValueOf(U, v) ELSE old.balance[v]
    BY <1>6 DEF Imported
  <2>2. /\ ValueOf(R \cup U, v) = ValueOf(R, v) + ValueOf(U, v)
        /\ ValueOf(R, v) \in Int /\ ValueOf(U, v) \in Int
    BY <1>4, <1>5, ValueBoth
  <2>3. CASE v = w
    BY <1>7, <2>1, <2>2, <2>3
  <2>4. CASE v # w
    <3>1. OfWallet(U, v) = {}
      BY <1>5, <2>4 DEF OfWallet
    <3>2. ValueOf(U, v) = 0
      BY <3>1, ValueOfWallet, ValueEmpty
    <3> QED
      BY <1>7, <2>1, <2>2, <2>4, <3>2
  <2> QED
    BY <2>3, <2>4
<1>9. d.txids = TxRows(Everywhere(b), old.addresses) \cup TxRows([v \in Wallet |-> TouchedAt(b, A)], pairs)
  BY DEF Imported
<1> QED
  BY <1>1, <1>2, <1>3, <1>8, <1>9 DEF Shows

\* The outputs that bitcoind says are unspent come in without replacing any.
LEMMA ImportOutputs ==
  ASSUME NEW b \in Block, NEW w \in Wallet, NEW A \in SUBSET Address,
         NEW d \in Database, d.utxos = UtxoRows(Everywhere(b), d.addresses),
         \A a \in A : <<w, a>> \notin d.addresses
  PROVE  LET new == {[wallet |-> w, out |-> u[1], height |-> Height[u[2]]] : u \in Unspent(b, A)}
         IN AddUTXOs(d, new).utxos = UtxoRows(Everywhere(b), d.addresses \cup ({w} \X A))
<1> DEFINE new == {[wallet |-> w, out |-> u[1], height |-> Height[u[2]]] : u \in Unspent(b, A)}
           U == UtxoRows(Everywhere(b), {w} \X A)
<1>1. new = U
  BY UnspentAt
<1>2. U \in SUBSET UtxoRow
  BY RowsOfPairs
<1>3. Without(d.utxos, U) = d.utxos
  <2>1. ASSUME NEW r \in d.utxos, NEW s \in U, SameOutput(r, s)
        PROVE  FALSE
    <3>1. s.wallet = w /\ AddressOf[s.out] \in A
      BY DEF UtxoRows
    <3>2. <<r.wallet, AddressOf[r.out]>> \in d.addresses
      BY DEF UtxoRows
    <3> QED
      BY <2>1, <3>1, <3>2 DEF SameOutput
  <2> QED
    BY <2>1 DEF Without
<1> HIDE DEF new, U
<1>4. AddUTXOs(d, U).utxos = d.utxos \cup U
  BY <1>2, <1>3, OutputTables
<1>5. UtxoRows(Everywhere(b), d.addresses \cup ({w} \X A)) = d.utxos \cup U
  BY DEF U, UtxoRows
<1> QED
  BY <1>1, <1>4, <1>5 DEF new
=============================================================================
