--------------------------- MODULE StatementProofs ---------------------------
(***************************************************************************)
(* Proofs about the statement of a transaction, for every set of amounts   *)
(* and every number of inputs and outputs: the lines add up to the change  *)
(* of the balance, and the fee is the fee.                                 *)
(***************************************************************************)
EXTENDS Statement, SequenceTheorems, FiniteSetTheorems, WellFoundedInduction, TLAPS

----------------------------------------------------------------------------
(* Sums                                                                    *)

\* What the total unfolds to: a function over the parts of S that is equal to a
\* step of itself.  That there is one is to be proved.
Step(X, S, f) ==
  [P \in SUBSET S |-> IF P = {} THEN 0
                      ELSE LET n == CHOOSE n \in P : TRUE IN X[n].satoshis + f[P \ {n}]]
Sums(X, S) == CHOOSE f : f = Step(X, S, f)

\* Of some parts of a finite set one is minimal.
LEMMA MinimalPart ==
  ASSUME NEW S, IsFiniteSet(S), NEW F \in SUBSET (SUBSET S), F # {}
  PROVE  \E P \in F : \A R \in F : R \subseteq P => R = P
<1>1. IsWellFoundedOn(StrictSubsetOrdering(S), SUBSET S)
  BY FS_StrictSubsetOrderingWellFounded, FS_FiniteSubsetsOfFinite
<1>2. PICK P \in F : \A R \in F : <<R, P>> \notin StrictSubsetOrdering(S)
  BY <1>1, WFMin
<1> QED
  BY <1>2 DEF StrictSubsetOrdering

LEMMA TotalIsSums ==
  ASSUME NEW X, NEW S
  PROVE  Total(X, S) = Sums(X, S)[S]
BY DEF Total, Sums, Step, MapThenSumSet, MapThenFoldSet

\* Two such functions agree wherever both are defined.
LEMMA SumsAgree ==
  ASSUME NEW X, NEW S, NEW T, IsFiniteSet(S),
         NEW f, f = Step(X, S, f), NEW g, g = Step(X, T, g),
         NEW P \in SUBSET S, P \in SUBSET T
  PROVE  f[P] = g[P]
<1> DEFINE F == {R \in SUBSET S : R \in SUBSET T /\ f[R] # g[R]}
<1>1. SUFFICES ASSUME F # {} PROVE FALSE
  OBVIOUS
<1>2. PICK R \in F : \A Q \in F : Q \subseteq R => Q = R
  <2>1. F \in SUBSET (SUBSET S)
    OBVIOUS
  <2> HIDE DEF F
  <2> QED
    BY <1>1, <2>1, MinimalPart
<1> DEFINE n == CHOOSE n \in R : TRUE
<1>3. /\ f[R] = IF R = {} THEN 0 ELSE X[n].satoshis + f[R \ {n}]
      /\ g[R] = IF R = {} THEN 0 ELSE X[n].satoshis + g[R \ {n}]
  BY DEF Step
<1>4. R # {}
  BY <1>3
<1>5. n \in R
  BY <1>4
<1>6. R \ {n} \notin F
  BY <1>2, <1>5
<1>7. f[R \ {n}] = g[R \ {n}]
  BY <1>6
<1> QED
  BY <1>3, <1>4, <1>7

LEMMA SameFunction ==
  ASSUME NEW D, NEW f, NEW g, f = [x \in D |-> f[x]], g = [x \in D |-> g[x]],
         \A x \in D : f[x] = g[x]
  PROVE  f = g
OBVIOUS

\* There is such a function for every finite set.
LEMMA SumsExist ==
  ASSUME NEW X, NEW S, IsFiniteSet(S)
  PROVE  Sums(X, S) = Step(X, S, Sums(X, S))
<1> DEFINE F == {R \in SUBSET S : Sums(X, R) # Step(X, R, Sums(X, R))}
<1>1. SUFFICES ASSUME F # {} PROVE FALSE
  OBVIOUS
<1>2. PICK R \in F : \A Q \in F : Q \subseteq R => Q = R
  <2>1. F \in SUBSET (SUBSET S)
    OBVIOUS
  <2> HIDE DEF F
  <2> QED
    BY <1>1, <2>1, MinimalPart
<1> DEFINE first(P) == CHOOSE n \in P : TRUE
           rest(P) == P \ {first(P)}
           f == [P \in SUBSET R |-> IF P = {} THEN 0
                   ELSE X[first(P)].satoshis + Sums(X, rest(P))[rest(P)]]
<1>3. ASSUME NEW Q \in SUBSET R, Q # R
      PROVE  Sums(X, Q) = Step(X, Q, Sums(X, Q))
  BY <1>2, <1>3
<1>4. ASSUME NEW P \in SUBSET R, P # {}
      PROVE  first(P) \in P /\ rest(P) \in SUBSET R /\ rest(P) # R
  BY <1>4
<1>5. ASSUME NEW P \in SUBSET R, P # {}
      PROVE  f[rest(P)] = Sums(X, rest(P))[rest(P)]
  <2> DEFINE Q == rest(P)
  <2>1. Q \in SUBSET R /\ Q # R
    BY <1>4, <1>5
  <2>2. Sums(X, Q) = Step(X, Q, Sums(X, Q))
    BY <2>1, <1>3
  <2>3. Sums(X, Q)[Q] = IF Q = {} THEN 0 ELSE X[first(Q)].satoshis + Sums(X, Q)[rest(Q)]
    <3> HIDE DEF Q
    <3> QED
      BY <2>2 DEF Step
  <2>4. CASE Q = {}
    BY <2>1, <2>3, <2>4
  <2>5. CASE Q # {}
    <3>1. rest(Q) \in SUBSET R /\ rest(Q) # R /\ rest(Q) \in SUBSET Q
      BY <2>1, <2>5, <1>4
    <3>2. Sums(X, rest(Q)) = Step(X, rest(Q), Sums(X, rest(Q)))
      BY <3>1, <1>3
    <3>3. IsFiniteSet(Q)
      BY FS_Subset, <2>1
    <3>4. Sums(X, Q)[rest(Q)] = Sums(X, rest(Q))[rest(Q)]
      <4> HIDE DEF Q, rest
      <4> QED
        BY <2>2, <3>1, <3>2, <3>3, SumsAgree
    <3>5. f[Q] = X[first(Q)].satoshis + Sums(X, rest(Q))[rest(Q)]
      BY <2>1, <2>5
    <3> QED
      BY <2>3, <2>5, <3>4, <3>5
  <2> QED
    BY <2>4, <2>5
<1>6. f = Step(X, R, f)
  <2>1. f = [P \in SUBSET R |-> IF P = {} THEN 0 ELSE X[first(P)].satoshis + f[rest(P)]]
    <3> DEFINE g == [P \in SUBSET R |-> IF P = {} THEN 0 ELSE X[first(P)].satoshis + f[rest(P)]]
    <3>1. ASSUME NEW P \in SUBSET R PROVE f[P] = g[P]
      <4>1. CASE P = {}
        BY <4>1
      <4>2. CASE P # {}
        <5>1. f[P] = X[first(P)].satoshis + Sums(X, rest(P))[rest(P)]
          BY <4>2
        <5>2. g[P] = X[first(P)].satoshis + f[rest(P)]
          <6> HIDE DEF f
          <6> QED
            BY <4>2
        <5>3. f[rest(P)] = Sums(X, rest(P))[rest(P)]
          BY <1>5, <4>2
        <5> HIDE DEF f, g, first, rest
        <5> QED
          BY <5>1, <5>2, <5>3
      <4> QED
        BY <4>1, <4>2
    <3>2. f = [P \in SUBSET R |-> f[P]] /\ g = [P \in SUBSET R |-> g[P]]
      OBVIOUS
    <3> DEFINE D == SUBSET R
    <3>3. /\ f = [P \in D |-> f[P]] /\ g = [P \in D |-> g[P]]
          /\ \A P \in D : f[P] = g[P]
      BY <3>1, <3>2
    <3>4. f = g
      <4> HIDE DEF f, g, D
      <4> QED
        BY <3>3, SameFunction
    <3> QED
      BY <3>4
  <2> HIDE DEF f
  <2> QED
    BY <2>1 DEF Step
<1>7. Sums(X, R) = Step(X, R, Sums(X, R))
  <2> HIDE DEF f
  <2> QED
    BY <1>6 DEF Sums
<1> QED
  BY <1>7

\* The sum over nothing, and over a set and the element the fold takes first.
LEMMA TotalStep ==
  ASSUME NEW X, NEW S, IsFiniteSet(S)
  PROVE  Total(X, S) = IF S = {} THEN 0
                       ELSE LET n == CHOOSE n \in S : TRUE
                            IN X[n].satoshis + Total(X, S \ {n})
<1>1. Sums(X, S) = Step(X, S, Sums(X, S))
  BY SumsExist
<1>2. CASE S = {}
  BY <1>1, <1>2, TotalIsSums DEF Step
<1>3. CASE S # {}
  <2> DEFINE n == CHOOSE n \in S : TRUE
             R == S \ {n}
  <2>1. R \in SUBSET S /\ IsFiniteSet(R)
    BY FS_Subset
  <2>2. Sums(X, S)[S] = X[n].satoshis + Sums(X, S)[R]
    BY <1>1, <1>3 DEF Step
  <2>3. Sums(X, R) = Step(X, R, Sums(X, R))
    BY <2>1, SumsExist
  <2>4. Sums(X, S)[R] = Sums(X, R)[R]
    <3> HIDE DEF n, R
    <3>1. R \in SUBSET R
      OBVIOUS
    <3> DEFINE f == Sums(X, S)
               g == Sums(X, R)
    <3>2. f = Step(X, S, f) /\ g = Step(X, R, g)
      BY <1>1, <2>3
    <3> HIDE DEF f, g
    <3>3. f[R] = g[R]
      BY <2>1, <3>1, <3>2, SumsAgree
    <3> QED
      BY <3>3 DEF f, g
  <2> QED
    BY <2>2, <2>4, <1>3, TotalIsSums
<1> QED
  BY <1>2, <1>3

\* The sums of this specification are of numbers.
Numbers(X, S) == \A n \in S : X[n].satoshis \in Int

LEMMA TotalInt ==
  ASSUME NEW X, NEW S, IsFiniteSet(S), Numbers(X, S)
  PROVE  Total(X, S) \in Int
<1> DEFINE F == {R \in SUBSET S : Total(X, R) \notin Int}
<1>1. SUFFICES ASSUME F # {} PROVE FALSE
  OBVIOUS
<1>2. PICK R \in F : \A Q \in F : Q \subseteq R => Q = R
  <2>1. F \in SUBSET (SUBSET S)
    OBVIOUS
  <2> HIDE DEF F
  <2> QED
    BY <1>1, <2>1, MinimalPart
<1>3. IsFiniteSet(R)
  BY FS_Subset
<1> DEFINE n == CHOOSE n \in R : TRUE
<1>4. Total(X, R) = IF R = {} THEN 0 ELSE X[n].satoshis + Total(X, R \ {n})
  BY <1>3, TotalStep
<1>5. R # {}
  BY <1>4
<1>6. n \in R
  BY <1>5
<1>7. R \ {n} \notin F
  BY <1>2, <1>6
<1>8. Total(X, R \ {n}) \in Int /\ X[n].satoshis \in Int
  BY <1>6, <1>7 DEF Numbers
<1> HIDE DEF n
<1> QED
  BY <1>4, <1>5, <1>8

\* It does not matter which element is taken first.
LEMMA TotalRemove ==
  ASSUME NEW X, NEW S, IsFiniteSet(S), Numbers(X, S), NEW e \in S
  PROVE  Total(X, S) = X[e].satoshis + Total(X, S \ {e})
<1> DEFINE F == {R \in SUBSET S : \E m \in R : Total(X, R) # X[m].satoshis + Total(X, R \ {m})}
<1>1. SUFFICES ASSUME F # {} PROVE FALSE
  OBVIOUS
<1>2. PICK R \in F : \A Q \in F : Q \subseteq R => Q = R
  <2>1. F \in SUBSET (SUBSET S)
    OBVIOUS
  <2> HIDE DEF F
  <2> QED
    BY <1>1, <2>1, MinimalPart
<1>3. PICK m \in R : Total(X, R) # X[m].satoshis + Total(X, R \ {m})
  OBVIOUS
<1> DEFINE n == CHOOSE n \in R : TRUE
<1>4. Total(X, R) = X[n].satoshis + Total(X, R \ {n})
  BY TotalStep, FS_Subset
<1>5. n \in R /\ n # m
  BY <1>3, <1>4
<1> HIDE DEF n
<1>6. R \ {n} \notin F /\ R \ {m} \notin F
  BY <1>2, <1>5
<1>7. Total(X, R \ {n}) = X[m].satoshis + Total(X, (R \ {n}) \ {m})
  BY <1>5, <1>6
<1>8. Total(X, R \ {m}) = X[n].satoshis + Total(X, (R \ {m}) \ {n})
  BY <1>5, <1>6
<1>9. (R \ {m}) \ {n} = (R \ {n}) \ {m}
  OBVIOUS
<1>10. Total(X, (R \ {n}) \ {m}) \in Int
  <2>1. (R \ {n}) \ {m} \in SUBSET S /\ Numbers(X, (R \ {n}) \ {m})
    BY DEF Numbers
  <2> QED
    BY <2>1, FS_Subset, TotalInt
<1>11. X[m].satoshis \in Int /\ X[n].satoshis \in Int
  BY <1>5 DEF Numbers
<1>12. Total(X, (R \ {m}) \ {n}) = Total(X, (R \ {n}) \ {m})
  BY <1>9
<1> HIDE DEF F
<1> QED
  BY <1>3, <1>4, <1>7, <1>8, <1>10, <1>11, <1>12

LEMMA TotalInsert ==
  ASSUME NEW X, NEW S, NEW e, IsFiniteSet(S), Numbers(X, S \cup {e}), e \notin S
  PROVE  Total(X, S \cup {e}) = X[e].satoshis + Total(X, S)
<1>1. IsFiniteSet(S \cup {e}) /\ (S \cup {e}) \ {e} = S
  BY FS_AddElement
<1> QED
  BY <1>1, TotalRemove

LEMMA TotalEmpty ==
  ASSUME NEW X PROVE Total(X, {}) = 0
BY TotalStep, FS_EmptySet

\* The sum depends only on the amounts at those places.
LEMMA TotalSame ==
  ASSUME NEW X, NEW Y, NEW S, IsFiniteSet(S),
         \A n \in S : X[n].satoshis = Y[n].satoshis
  PROVE  Total(X, S) = Total(Y, S)
<1> DEFINE F == {R \in SUBSET S : Total(X, R) # Total(Y, R)}
<1>1. SUFFICES ASSUME F # {} PROVE FALSE
  OBVIOUS
<1>2. PICK R \in F : \A Q \in F : Q \subseteq R => Q = R
  <2>1. F \in SUBSET (SUBSET S)
    OBVIOUS
  <2> HIDE DEF F
  <2> QED
    BY <1>1, <2>1, MinimalPart
<1> DEFINE n == CHOOSE n \in R : TRUE
<1>3. /\ Total(X, R) = IF R = {} THEN 0 ELSE X[n].satoshis + Total(X, R \ {n})
      /\ Total(Y, R) = IF R = {} THEN 0 ELSE Y[n].satoshis + Total(Y, R \ {n})
  BY TotalStep, FS_Subset
<1>4. n \in R
  BY <1>3
<1> HIDE DEF n
<1>5. R \ {n} \notin F
  BY <1>2, <1>4
<1> QED
  BY <1>3, <1>4, <1>5

\* The sum over two sets that share nothing.
LEMMA TotalUnion ==
  ASSUME NEW X, NEW S, NEW T, IsFiniteSet(S), IsFiniteSet(T),
         Numbers(X, S \cup T), S \cap T = {}
  PROVE  Total(X, S \cup T) = Total(X, S) + Total(X, T)
<1> DEFINE F == {R \in SUBSET S : Total(X, R \cup T) # Total(X, R) + Total(X, T)}
<1>1. SUFFICES ASSUME F # {} PROVE FALSE
  OBVIOUS
<1>2. PICK R \in F : \A Q \in F : Q \subseteq R => Q = R
  <2>1. F \in SUBSET (SUBSET S)
    OBVIOUS
  <2> HIDE DEF F
  <2> QED
    BY <1>1, <2>1, MinimalPart
<1>3. Total(X, T) \in Int
  BY TotalInt DEF Numbers
<1>4. R # {}
  <2>1. ASSUME R = {} PROVE FALSE
    <3>1. R \cup T = T
      BY <2>1
    <3>2. Total(X, R \cup T) = Total(X, T) /\ Total(X, R) = 0
      BY <2>1, <3>1, TotalEmpty
    <3>3. Total(X, R \cup T) # Total(X, R) + Total(X, T)
      OBVIOUS
    <3> HIDE DEF F
    <3> QED
      BY <1>3, <3>2, <3>3
  <2> QED
    BY <2>1
<1>5. PICK n \in R : TRUE
  BY <1>4
<1>6. R \ {n} \notin F
  BY <1>2, <1>5
<1>7. Total(X, (R \ {n}) \cup T) = Total(X, R \ {n}) + Total(X, T)
  BY <1>6
<1>8. /\ IsFiniteSet(R) /\ IsFiniteSet(R \ {n}) /\ IsFiniteSet(R \cup T)
      /\ Numbers(X, R) /\ Numbers(X, R \ {n}) /\ Numbers(X, R \cup T)
  BY FS_Subset, FS_Union DEF Numbers
<1>9. Total(X, R) = X[n].satoshis + Total(X, R \ {n}) /\ Total(X, R \ {n}) \in Int
  BY <1>5, <1>8, TotalRemove, TotalInt
<1>10. Total(X, R \cup T) = X[n].satoshis + Total(X, (R \ {n}) \cup T)
  <2>1. (R \cup T) \ {n} = (R \ {n}) \cup T
    BY <1>5
  <2> QED
    BY <1>5, <1>8, <2>1, TotalRemove
<1>11. X[n].satoshis \in Int
  BY <1>5 DEF Numbers
<1>12. Total(X, R \cup T) = Total(X, R) + Total(X, T)
  <2> HIDE DEF F
  <2> QED
    BY <1>3, <1>7, <1>9, <1>10, <1>11
<1> QED
  BY <1>12

\* Amounts are not negative, nor is their sum, which is at least each of them.
LEMMA TotalNat ==
  ASSUME NEW X, NEW S, IsFiniteSet(S), \A n \in S : X[n].satoshis \in Nat
  PROVE  Total(X, S) \in Nat /\ \A n \in S : X[n].satoshis <= Total(X, S)
<1>1. Numbers(X, S)
  BY DEF Numbers
<1> DEFINE F == {R \in SUBSET S : Total(X, R) \notin Nat}
<1>2. ASSUME F # {} PROVE FALSE
  <2>1. PICK R \in F : \A Q \in F : Q \subseteq R => Q = R
    <3>1. F \in SUBSET (SUBSET S)
      OBVIOUS
    <3> HIDE DEF F
    <3> QED
      BY <1>2, <3>1, MinimalPart
  <2>2. R # {}
    BY TotalEmpty
  <2>3. PICK n \in R : TRUE
    BY <2>2
  <2>4. R \ {n} \notin F
    BY <2>1, <2>3
  <2>5. Total(X, R) = X[n].satoshis + Total(X, R \ {n})
    BY <1>1, <2>3, TotalRemove, FS_Subset DEF Numbers
  <2> QED
    BY <2>3, <2>4, <2>5
<1>3. Total(X, S) \in Nat
  BY <1>2
<1>4. ASSUME NEW n \in S PROVE X[n].satoshis <= Total(X, S)
  <2>1. Total(X, S) = X[n].satoshis + Total(X, S \ {n})
    BY <1>1, TotalRemove
  <2>2. S \ {n} \notin F
    BY <1>2
  <2>3. Total(X, S \ {n}) \in Nat
    BY <2>2
  <2> HIDE DEF F
  <2> QED
    BY <2>1, <2>3
<1> QED
  BY <1>3, <1>4

----------------------------------------------------------------------------
(* What the inputs and outputs of a transaction add up to                  *)

Others == Coin \ Wallets

\* The places of the coins that are counted, all of them or from place j on
Places(coins, counted) == {n \in DOMAIN coins : coins[n] \in counted}
From(coins, counted, j) == {n \in j..Len(coins) : coins[n] \in counted}

Remaining(coins, counted, j) == Total(coins, From(coins, counted, j))

LEMMA SumIsTotal ==
  ASSUME NEW coins, NEW counted
  PROVE  Sum(coins, counted) = Total(coins, Places(coins, counted))
BY DEF Sum, Places

LEMMA CoinsFacts ==
  ASSUME NEW max \in Nat, NEW coins \in Coins(max)
  PROVE  /\ coins \in Seq(Coin) /\ Len(coins) \in Nat /\ DOMAIN coins = 1..Len(coins)
         /\ \A n \in 1..Len(coins) :
              coins[n] \in Coin /\ coins[n].wallet \in BOOLEAN /\ coins[n].satoshis \in Nat
<1>1. PICK m \in 1..max : coins \in [1..m -> Coin]
  BY DEF Coins
<1>2. coins \in Seq(Coin) /\ Len(coins) = m
  BY <1>1
<1>3. DOMAIN coins = 1..Len(coins)
  BY <1>1, <1>2
<1>4. \A n \in 1..Len(coins) : coins[n] \in Coin
  BY <1>1, <1>2
<1>5. \A c \in Coin : c.wallet \in BOOLEAN /\ c.satoshis \in Nat
  BY StatementAssumption DEF Coin
<1> QED
  BY <1>1, <1>2, <1>3, <1>4, <1>5

LEMMA FromFacts ==
  ASSUME NEW max \in Nat, NEW coins \in Coins(max), NEW counted,
         NEW j \in 1..(Len(coins) + 1)
  PROVE  /\ IsFiniteSet(From(coins, counted, j))
         /\ \A n \in From(coins, counted, j) : coins[n].satoshis \in Nat
<1>1. Len(coins) \in Nat /\ \A n \in 1..Len(coins) : coins[n].satoshis \in Nat
  BY CoinsFacts
<1>2. From(coins, counted, j) \in SUBSET (1..Len(coins))
  BY <1>1 DEF From
<1>3. IsFiniteSet(1..Len(coins))
  BY <1>1, FS_Interval
<1> QED
  BY <1>1, <1>2, <1>3, FS_Subset

LEMMA RemainingFacts ==
  ASSUME NEW max \in Nat, NEW coins \in Coins(max), NEW counted
  PROVE  /\ Sum(coins, counted) = Remaining(coins, counted, 1)
         /\ Remaining(coins, counted, Len(coins) + 1) = 0
         /\ \A j \in 1..(Len(coins) + 1) : Remaining(coins, counted, j) \in Nat
<1>1. Len(coins) \in Nat /\ DOMAIN coins = 1..Len(coins)
  BY CoinsFacts
<1>2. Sum(coins, counted) = Remaining(coins, counted, 1)
  <2>1. Places(coins, counted) = From(coins, counted, 1)
    BY <1>1 DEF Places, From
  <2> QED
    BY <2>1, SumIsTotal DEF Remaining
<1>3. Remaining(coins, counted, Len(coins) + 1) = 0
  <2>1. From(coins, counted, Len(coins) + 1) = {}
    BY <1>1 DEF From
  <2> QED
    BY <2>1, TotalEmpty DEF Remaining
<1>4. ASSUME NEW j \in 1..(Len(coins) + 1) PROVE Remaining(coins, counted, j) \in Nat
  BY FromFacts, TotalNat DEF Remaining
<1> QED
  BY <1>2, <1>3, <1>4

\* From a place on there is the coin at that place, if it counts, and the rest.
LEMMA RemainingStep ==
  ASSUME NEW max \in Nat, NEW coins \in Coins(max), NEW counted, NEW j \in 1..Len(coins)
  PROVE  Remaining(coins, counted, j)
           = Remaining(coins, counted, j + 1)
               + (IF coins[j] \in counted THEN coins[j].satoshis ELSE 0)
<1> DEFINE R == From(coins, counted, j + 1)
<1>1. Len(coins) \in Nat /\ \A n \in 1..Len(coins) : coins[n].satoshis \in Nat
  BY CoinsFacts
<1>2. j + 1 \in 1..(Len(coins) + 1)
  BY <1>1
<1>3. IsFiniteSet(R) /\ (\A n \in R : coins[n].satoshis \in Nat) /\ Total(coins, R) \in Nat
  BY <1>2, FromFacts, RemainingFacts DEF Remaining
<1>4. CASE coins[j] \in counted
  <2>1. From(coins, counted, j) = R \cup {j} /\ j \notin R
    BY <1>1, <1>4 DEF From
  <2>2. IsFiniteSet(R) /\ Numbers(coins, R \cup {j})
    BY <1>1, <1>3 DEF Numbers
  <2>3. Total(coins, R \cup {j}) = coins[j].satoshis + Total(coins, R)
    <3> HIDE DEF R
    <3> QED
      BY <2>1, <2>2, TotalInsert
  <2>4. coins[j].satoshis \in Nat
    BY <1>1
  <2> HIDE DEF R
  <2> QED
    BY <1>3, <1>4, <2>1, <2>3, <2>4 DEF Remaining, R
<1>5. CASE coins[j] \notin counted
  <2>1. From(coins, counted, j) = R
    BY <1>1, <1>5 DEF From
  <2> QED
    BY <1>3, <1>5, <2>1 DEF Remaining
<1> QED
  BY <1>4, <1>5

\* A coin is the wallet's or another's.
LEMMA AnyIsBoth ==
  ASSUME NEW max \in Nat, NEW coins \in Coins(max)
  PROVE  Sum(coins, Any) = Sum(coins, Wallets) + Sum(coins, Others)
<1> DEFINE P(counted) == Places(coins, counted)
<1>1. /\ DOMAIN coins = 1..Len(coins) /\ Len(coins) \in Nat
      /\ \A n \in 1..Len(coins) : coins[n] \in Coin /\ coins[n].satoshis \in Nat
  BY CoinsFacts
<1>2. IsFiniteSet(DOMAIN coins) /\ Numbers(coins, DOMAIN coins)
  <2>1. IsFiniteSet(1..Len(coins))
    BY <1>1, FS_Interval
  <2> QED
    BY <1>1, <2>1 DEF Numbers
<1>3. P(Any) = P(Wallets) \cup P(Others) /\ P(Wallets) \cap P(Others) = {}
  BY <1>1 DEF Places, Any, Others, Wallets
<1>4. IsFiniteSet(P(Wallets)) /\ IsFiniteSet(P(Others))
  <2>1. P(Wallets) \in SUBSET (DOMAIN coins) /\ P(Others) \in SUBSET (DOMAIN coins)
    BY DEF Places
  <2> QED
    BY <1>2, <2>1, FS_Subset
<1>5. Numbers(coins, P(Wallets) \cup P(Others))
  BY <1>2 DEF Numbers, Places
<1>6. Total(coins, P(Any)) = Total(coins, P(Wallets)) + Total(coins, P(Others))
  <2> HIDE DEF P
  <2> QED
    BY <1>3, <1>4, <1>5, TotalUnion
<1> QED
  BY <1>6, SumIsTotal

\* The fee, and the wallet's part of the inputs and outputs, as the details
\* have them
Fee == IF raw.coinbase THEN 0 ELSE Sum(raw.inputs, Any) - Sum(raw.outputs, Any)
In == IF raw.coinbase THEN 0 ELSE Sum(raw.inputs, Wallets)
Out == Sum(raw.outputs, Wallets)

Unclassified ==
  [type |-> TypeOfInputs, fee |-> Fee, inputSatoshis |-> In, outputSatoshis |-> Out]
Details == [Unclassified EXCEPT !.type = Classify(Unclassified)]

\* The wallet alone pays.
SoleSender == ~raw.coinbase /\ ~Mixed /\ In > 0

LEMMA RawFacts ==
  ASSUME raw \in Raw
  PROVE  /\ raw.coinbase \in BOOLEAN
         /\ raw.inputs \in Coins(MaxInputs) /\ raw.outputs \in Coins(MaxOutputs)
         /\ MaxInputs \in Nat /\ MaxOutputs \in Nat
         /\ Fee \in Nat /\ In \in Nat /\ Out \in Nat
         /\ In = Sum(raw.inputs, Wallets)
<1>1. /\ raw.coinbase \in BOOLEAN
      /\ raw.inputs \in Coins(MaxInputs) /\ raw.outputs \in Coins(MaxOutputs)
      /\ \/ raw.coinbase /\ raw.inputs = CoinbaseInput
         \/ ~raw.coinbase /\ Sum(raw.inputs, Any) >= Sum(raw.outputs, Any)
  BY DEF Raw
<1>2. MaxInputs \in Nat /\ MaxOutputs \in Nat
  BY StatementAssumption
<1>3. ASSUME NEW counted
      PROVE  Sum(raw.inputs, counted) \in Nat /\ Sum(raw.outputs, counted) \in Nat
  <2>1. /\ Len(raw.inputs) \in Nat /\ Len(raw.outputs) \in Nat
    BY <1>1, <1>2, CoinsFacts
  <2>2. 1 \in 1..(Len(raw.inputs) + 1) /\ 1 \in 1..(Len(raw.outputs) + 1)
    BY <2>1
  <2> QED
    BY <1>1, <1>2, <2>2, RemainingFacts
<1>4. raw.coinbase => Sum(raw.inputs, Wallets) = 0
  <2> SUFFICES ASSUME raw.coinbase PROVE Sum(raw.inputs, Wallets) = 0
    OBVIOUS
  <2>1. raw.inputs = CoinbaseInput
    BY <1>1
  <2>2. Places(raw.inputs, Wallets) = {}
    BY <2>1 DEF Places, CoinbaseInput, Wallets
  <2> QED
    BY <2>2, TotalEmpty, SumIsTotal
<1> QED
  BY <1>1, <1>2, <1>3, <1>4 DEF Fee, In, Out

\* Who alone pays, pays the outputs and the fee.
LEMMA SoleSenderPays ==
  ASSUME raw \in Raw, SoleSender
  PROVE  /\ Fee = Sum(raw.inputs, Any) - Sum(raw.outputs, Any)
         /\ In = Out + Remaining(raw.outputs, Others, 1) + Fee
         /\ Out <= In
<1>1. /\ ~raw.coinbase /\ ~Mixed /\ In > 0
      /\ raw.inputs \in Coins(MaxInputs) /\ raw.outputs \in Coins(MaxOutputs)
      /\ MaxInputs \in Nat /\ MaxOutputs \in Nat
      /\ Fee \in Nat /\ In \in Nat /\ Out \in Nat
      /\ In = Sum(raw.inputs, Wallets)
  BY RawFacts DEF SoleSender
<1>2. /\ DOMAIN raw.inputs = 1..Len(raw.inputs)
      /\ \A n \in 1..Len(raw.inputs) :
           raw.inputs[n] \in Coin /\ raw.inputs[n].wallet \in BOOLEAN
  BY <1>1, CoinsFacts
<1> DEFINE P(counted) == Places(raw.inputs, counted)
<1>3. P(Wallets) # {}
  <2>1. ASSUME P(Wallets) = {} PROVE FALSE
    <3>1. Sum(raw.inputs, Wallets) = 0
      BY <2>1, TotalEmpty, SumIsTotal
    <3> QED
      BY <1>1, <3>1
  <2> QED
    BY <2>1
<1>4. PICK m \in DOMAIN raw.inputs : raw.inputs[m].wallet
  BY <1>3 DEF Places, Wallets
<1>5. \A n \in DOMAIN raw.inputs : raw.inputs[n].wallet = raw.inputs[m].wallet
  BY <1>1 DEF Mixed
<1>6. P(Any) = P(Wallets)
  BY <1>2, <1>4, <1>5 DEF Places, Any, Wallets
<1>7. Sum(raw.inputs, Any) = In
  BY <1>1, <1>6, SumIsTotal
<1>8. Fee = Sum(raw.inputs, Any) - Sum(raw.outputs, Any)
  BY <1>1 DEF Fee
<1>9. Sum(raw.outputs, Any) = Out + Sum(raw.outputs, Others)
  BY <1>1, AnyIsBoth DEF Out
<1>10. Sum(raw.outputs, Others) = Remaining(raw.outputs, Others, 1)
  BY <1>1, RemainingFacts
<1>11. Remaining(raw.outputs, Others, 1) \in Nat
  <2>1. 1 \in 1..(Len(raw.outputs) + 1)
    BY <1>1, CoinsFacts
  <2> QED
    BY <1>1, <2>1, RemainingFacts
<1> HIDE DEF P
<1> QED
  BY <1>1, <1>7, <1>8, <1>9, <1>10, <1>11

\* What the type of a transaction says of it.
LEMMA TypeFacts ==
  ASSUME raw \in Raw
  PROVE  /\ Details = [type |-> Details.type, fee |-> Fee,
                       inputSatoshis |-> In, outputSatoshis |-> Out]
         /\ Details.type \in Type
         /\ Details.type = "send" => SoleSender
         /\ Details.type = "join" => Mixed
         /\ Details.type = "move" => ~raw.coinbase /\ Fee + Out = In
         /\ Details.type \notin {"join", "move", "send"} => Out >= In
         /\ SoleSender /\ Fee > 0 => Details.type \in {"send", "move"}
<1>1. Fee \in Nat /\ In \in Nat /\ Out \in Nat /\ raw.coinbase \in BOOLEAN
  BY RawFacts
<1>2. Details = [type |-> Classify(Unclassified), fee |-> Fee,
                 inputSatoshis |-> In, outputSatoshis |-> Out]
  BY DEF Details, Unclassified
<1>3. /\ Unclassified.type = TypeOfInputs /\ Unclassified.fee = Fee
      /\ Unclassified.inputSatoshis = In /\ Unclassified.outputSatoshis = Out
  BY DEF Unclassified
<1>4. /\ raw.coinbase => TypeOfInputs = "coinbase"
      /\ ~raw.coinbase /\ Mixed => TypeOfInputs = "join"
      /\ ~raw.coinbase /\ ~Mixed => TypeOfInputs = "send"
  BY DEF TypeOfInputs
<1>5. IsMove(Unclassified) <=> ~raw.coinbase /\ In # 0 /\ Fee + Out = In
  BY <1>1, <1>3, <1>4 DEF IsMove
<1>6. IsReceive(Unclassified) <=> ~raw.coinbase /\ ~Mixed /\ In < Out
  BY <1>1, <1>3, <1>4 DEF IsReceive
<1>7. /\ In = 0 /\ Out = 0 => Details.type = "not related"
      /\ ~(In = 0 /\ Out = 0) /\ IsMove(Unclassified) => Details.type = "move"
      /\ ~(In = 0 /\ Out = 0) /\ ~IsMove(Unclassified) /\ IsReceive(Unclassified) =>
           Details.type = "receive"
      /\ ~(In = 0 /\ Out = 0) /\ ~IsMove(Unclassified) /\ ~IsReceive(Unclassified) =>
           Details.type = TypeOfInputs
  <2>1. Details.type = Classify(Unclassified)
    BY <1>2
  <2>2. CASE In = 0 /\ Out = 0
    <3>1. ~IsMove(Unclassified) /\ ~IsReceive(Unclassified)
      BY <1>5, <1>6, <2>2
    <3> QED
      BY <1>3, <2>1, <2>2, <3>1 DEF Classify
  <2>3. CASE ~(In = 0 /\ Out = 0) /\ IsMove(Unclassified)
    <3>1. ~IsReceive(Unclassified)
      BY <1>1, <1>5, <1>6, <2>3
    <3> QED
      BY <1>3, <2>1, <2>3, <3>1 DEF Classify
  <2>4. CASE ~(In = 0 /\ Out = 0) /\ ~IsMove(Unclassified) /\ IsReceive(Unclassified)
    BY <1>3, <2>1, <2>4 DEF Classify
  <2>5. CASE ~(In = 0 /\ Out = 0) /\ ~IsMove(Unclassified) /\ ~IsReceive(Unclassified)
    BY <1>3, <2>1, <2>5 DEF Classify
  <2> QED
    BY <2>2, <2>3, <2>4, <2>5
<1>8. raw.coinbase => In = 0
  BY DEF In
<1>9. SoleSender => Out <= In
  BY SoleSenderPays
<1>10. SoleSender <=> ~raw.coinbase /\ ~Mixed /\ In > 0
  BY DEF SoleSender
<1> DEFINE t == Details.type
<1>11. Details = [type |-> t, fee |-> Fee, inputSatoshis |-> In, outputSatoshis |-> Out]
  BY <1>2
<1>12. t \in Type
  BY <1>4, <1>7 DEF Type
<1> HIDE DEF t
<1>13. /\ In = 0 /\ Out = 0 => t = "not related"
       /\ ~(In = 0 /\ Out = 0) /\ IsMove(Unclassified) => t = "move"
       /\ ~(In = 0 /\ Out = 0) /\ ~IsMove(Unclassified) /\ IsReceive(Unclassified) =>
            t = "receive"
       /\ ~(In = 0 /\ Out = 0) /\ ~IsMove(Unclassified) /\ ~IsReceive(Unclassified) =>
            t = TypeOfInputs
  BY <1>7 DEF t
<1>14. t = "send" => SoleSender
  BY <1>1, <1>4, <1>6, <1>10, <1>13
<1>15. t = "join" => Mixed
  BY <1>4, <1>13
<1>16. t = "move" => ~raw.coinbase /\ Fee + Out = In
  BY <1>4, <1>5, <1>13
<1>17. t \notin {"join", "move", "send"} => Out >= In
  <2>1. CASE raw.coinbase
    BY <1>1, <1>8, <2>1
  <2>2. CASE ~raw.coinbase /\ IsReceive(Unclassified)
    BY <1>1, <1>6, <2>2
  <2>3. CASE ~raw.coinbase /\ ~IsReceive(Unclassified)
    <3>1. TypeOfInputs \in {"join", "send"}
      BY <1>4, <2>3
    <3>2. (In = 0 /\ Out = 0) \/ t \in {"move", "join", "send"}
      BY <1>13, <2>3, <3>1
    <3> QED
      BY <1>1, <3>2
  <2> QED
    BY <2>1, <2>2, <2>3
<1>18. SoleSender /\ Fee > 0 => t \in {"send", "move"}
  <2> SUFFICES ASSUME SoleSender PROVE t \in {"send", "move"}
    OBVIOUS
  <2>1. TypeOfInputs = "send" /\ ~IsReceive(Unclassified) /\ In # 0
    BY <1>1, <1>4, <1>6, <1>9, <1>10
  <2> QED
    BY <1>13, <2>1
<1> QED
  BY <1>11, <1>12, <1>14, <1>15, <1>16, <1>17, <1>18 DEF t

----------------------------------------------------------------------------
(* The inductive invariant                                                 *)

\* The details are those of the transaction as soon as they are made.
DetailsInv ==
  /\ raw \in Raw
  /\ as \in {"list", "csv"}
  /\ pc \in {"transform", "details", "list", "csv", "done"}
  /\ pc \in {"transform", "details"} => i = 1 /\ lines = <<>>
  /\ pc = "transform" => details = NoDetails
  /\ pc = "details" => details = [NoDetails EXCEPT !.fee = Fee]
  /\ pc \in {"list", "csv", "done"} => details = Details
  /\ pc \in {"list", "csv"} => pc = as

\* A line of an output, of which no category is fee
OutputLine == [category : Type, satoshis : Int]

\* What is still to be told, delta, is what the lines so far leave of the
\* change of the balance.  Of a receipt the wallet's outputs from i on are
\* enough for it; of what the wallet alone pays it is exactly the outputs of
\* others from i on, and the fee.
LoopInv ==
  pc \in {"list", "csv"} =>
    /\ i \in 1..(Len(raw.outputs) + 1)
    /\ delta \in Int
    /\ lines \in Seq(OutputLine)
    /\ Total(lines, DOMAIN lines) + delta = Out - In
    /\ Out >= In => delta \in 0..Remaining(raw.outputs, Wallets, i)
    /\ Out <= In => delta <= 0
    /\ SoleSender => -delta = Remaining(raw.outputs, Others, i) + Fee
    /\ pc = "list" /\ details.type \in {"join", "move"} => lines = <<>>

Inv == DetailsInv /\ LoopInv /\ StatementAddsUp /\ FeeIsTheFee

----------------------------------------------------------------------------
(* Lines                                                                   *)

AnyLine == [category : Category, satoshis : Int]

WrittenIn(ls) == {n \in DOMAIN ls : ls[n] # NoLine}

\* Every line with an amount is written, and they have a sum.
LEMMA AllWritten ==
  ASSUME NEW ls \in Seq(AnyLine)
  PROVE  /\ WrittenIn(ls) = DOMAIN ls /\ IsFiniteSet(DOMAIN ls)
         /\ Numbers(ls, DOMAIN ls) /\ Total(ls, DOMAIN ls) \in Int
<1>1. DOMAIN ls = 1..Len(ls) /\ Len(ls) \in Nat /\ \A n \in DOMAIN ls : ls[n] \in AnyLine
  OBVIOUS
<1>2. IsFiniteSet(DOMAIN ls)
  BY <1>1, FS_Interval
<1>3. NoLine \notin AnyLine
  BY StatementAssumption DEF AnyLine
<1>4. \A l \in AnyLine : l.satoshis \in Int
  BY DEF AnyLine
<1>5. Numbers(ls, DOMAIN ls)
  BY <1>1, <1>4 DEF Numbers
<1>6. WrittenIn(ls) = DOMAIN ls
  BY <1>1, <1>3 DEF WrittenIn
<1> QED
  BY <1>2, <1>5, <1>6, TotalInt

\* One line more adds its amount, and a line that is none adds nothing.
LEMMA OneLineMore ==
  ASSUME NEW ls \in Seq(AnyLine), NEW l, l \in AnyLine \/ l = NoLine
  PROVE  Total(Append(ls, l), WrittenIn(Append(ls, l)))
           = Total(ls, DOMAIN ls) + (IF l = NoLine THEN 0 ELSE l.satoshis)
<1> DEFINE more == Append(ls, l)
           S == DOMAIN ls
           e == Len(ls) + 1
<1>1. /\ S = 1..Len(ls) /\ Len(ls) \in Nat /\ DOMAIN more = S \cup {e}
      /\ \A n \in S : more[n] = ls[n]
      /\ more[e] = l /\ e \notin S
  OBVIOUS
<1>2. /\ WrittenIn(ls) = S /\ IsFiniteSet(S)
      /\ Numbers(ls, S) /\ Total(ls, S) \in Int
  BY AllWritten
<1>3. Total(more, S) = Total(ls, S)
  <2>1. \A n \in S : more[n].satoshis = ls[n].satoshis
    BY <1>1
  <2> HIDE DEF more, S
  <2> QED
    BY <1>2, <2>1, TotalSame
<1>4. CASE l = NoLine
  <2>1. WrittenIn(more) = S
    <3> HIDE DEF more, e
    <3> QED
      BY <1>1, <1>2, <1>4 DEF WrittenIn
  <2> QED
    BY <1>2, <1>3, <1>4, <2>1
<1>5. CASE l # NoLine
  <2>1. l \in AnyLine
    BY <1>5
  <2>2. l.satoshis \in Int
    BY <2>1 DEF AnyLine
  <2>3. WrittenIn(more) = S \cup {e}
    <3> HIDE DEF more, e
    <3> QED
      BY <1>1, <1>2, <1>5 DEF WrittenIn
  <2>4. Numbers(more, S \cup {e})
    <3> HIDE DEF more, e, S
    <3> QED
      BY <1>1, <1>2, <2>2 DEF Numbers
  <2>5. Total(more, S \cup {e}) = more[e].satoshis + Total(more, S)
    <3> HIDE DEF more, e, S
    <3> QED
      BY <1>1, <1>2, <2>4, TotalInsert
  <2>6. Total(more, WrittenIn(more)) = l.satoshis + Total(ls, S)
    BY <1>1, <1>3, <2>3, <2>5
  <2> HIDE DEF more, S
  <2>7. Total(more, WrittenIn(more)) = Total(ls, S) + l.satoshis
    BY <1>2, <2>2, <2>6
  <2> QED
    BY <1>5, <2>7 DEF more, S
<1> QED
  BY <1>4, <1>5

LEMMA OneOutputMore ==
  ASSUME NEW ls \in Seq(OutputLine), NEW l \in OutputLine
  PROVE  /\ Append(ls, l) \in Seq(OutputLine)
         /\ ls \in Seq(AnyLine) /\ Append(ls, l) \in Seq(AnyLine)
         /\ Total(ls, DOMAIN ls) \in Int
         /\ Total(Append(ls, l), DOMAIN Append(ls, l)) = Total(ls, DOMAIN ls) + l.satoshis
<1>1. OutputLine \subseteq AnyLine
  BY DEF OutputLine, AnyLine, Category
<1>2. ls \in Seq(AnyLine) /\ l \in AnyLine /\ Append(ls, l) \in Seq(AnyLine)
  BY <1>1
<1>3. l # NoLine
  BY <1>2, StatementAssumption DEF AnyLine
<1>4. WrittenIn(Append(ls, l)) = DOMAIN Append(ls, l)
  BY <1>2, AllWritten
<1>5. Total(Append(ls, l), WrittenIn(Append(ls, l))) = Total(ls, DOMAIN ls) + l.satoshis
  BY <1>2, <1>3, OneLineMore
<1>6. Total(ls, DOMAIN ls) \in Int
  BY <1>2, AllWritten
<1> QED
  BY <1>2, <1>4, <1>5, <1>6

\* What is to be shown where a statement is done.
LEMMA AddsUp ==
  ASSUME raw' = raw, raw \in Raw, Total(lines', WrittenIn(lines')) = Out - In
  PROVE  StatementAddsUp'
<1>1. In = Sum(raw.inputs, Wallets)
  BY RawFacts
<1>2. Total(lines', Written') = Out - In
  BY DEF Written, WrittenIn
<1>3. /\ Sum(raw'.outputs, Wallets) = Sum(raw.outputs, Wallets)
      /\ Sum(raw'.inputs, Wallets) = Sum(raw.inputs, Wallets)
  OBVIOUS
<1> QED
  BY <1>1, <1>2, <1>3 DEF StatementAddsUp, Out

LEMMA FeeTold ==
  ASSUME raw' = raw, raw \in Raw, details' = details, details = Details, as' = as,
         \/ as = "csv" /\ Mixed
         \/ /\ \A n \in WrittenIn(lines') :
                 lines'[n].category = "fee" => ~raw.coinbase /\ lines'[n].satoshis = -Fee
            /\ SoleSender /\ Fee > 0 => \E n \in WrittenIn(lines') : lines'[n].category = "fee"
  PROVE  FeeIsTheFee'
<1>1. Details.inputSatoshis = In
  BY TypeFacts
<1>2. raw.coinbase \in BOOLEAN
  BY RawFacts
<1>3. Written' = WrittenIn(lines')
  BY DEF Written, WrittenIn
<1>4. Mixed' <=> Mixed
  BY DEF Mixed
<1>5. ~raw.coinbase => Fee = Sum(raw.inputs, Any) - Sum(raw.outputs, Any)
  BY DEF Fee
<1> DEFINE left == Sum(raw.inputs, Any) - Sum(raw.outputs, Any)
           fees == {n \in Written' : lines'[n].category = "fee"}
<1>6. CASE as = "csv" /\ Mixed
  BY <1>4, <1>6 DEF FeeIsTheFee
<1>7. CASE ~(as = "csv" /\ Mixed)
  <2>1. \A n \in fees : lines'[n].satoshis = -left
    BY <1>3, <1>5, <1>7
  <2>2. left > 0 /\ details'.inputSatoshis > 0 /\ ~Mixed' /\ ~raw'.coinbase => fees # {}
    BY <1>1, <1>3, <1>4, <1>5, <1>7 DEF SoleSender
  <2> QED
    BY <2>1, <2>2 DEF FeeIsTheFee
<1> QED
  BY <1>6, <1>7

----------------------------------------------------------------------------
(* The steps                                                               *)

LEMMA InitInv == Init => Inv
<1> SUFFICES ASSUME Init PROVE Inv
  OBVIOUS
<1>1. DetailsInv
  BY DEF Init, DetailsInv
<1>2. LoopInv /\ StatementAddsUp /\ FeeIsTheFee
  BY DEF Init, LoopInv, StatementAddsUp, FeeIsTheFee
<1> QED
  BY <1>1, <1>2 DEF Inv

\* The sums and the details are of what does not change.
LEMMA Same ==
  ASSUME raw' = raw
  PROVE  /\ Fee' = Fee /\ In' = In /\ Out' = Out /\ Details' = Details
         /\ (SoleSender' <=> SoleSender) /\ (Mixed' <=> Mixed)
<1>1. Fee' = Fee /\ In' = In /\ Out' = Out
  BY DEF Fee, In, Out
<1>2. Mixed' <=> Mixed
  BY DEF Mixed
<1>3. TypeOfInputs' = TypeOfInputs
  BY <1>2 DEF TypeOfInputs
<1>4. Unclassified' = Unclassified
  BY <1>1, <1>3 DEF Unclassified
<1>5. Details' = Details
  BY <1>4 DEF Details
<1> QED
  BY <1>1, <1>2, <1>5 DEF SoleSender

LEMMA TransformStep ==
  ASSUME Inv, TransformRawTransaction PROVE Inv'
<1>1. raw' = raw /\ as' = as /\ i' = i /\ lines' = lines /\ pc = "transform" /\ pc' = "details"
  BY DEF TransformRawTransaction, chosen
<1>2. details = NoDetails
  BY <1>1 DEF Inv, DetailsInv
<1>3. details' = [NoDetails EXCEPT !.fee = Fee]
  BY <1>2 DEF TransformRawTransaction, Fee
<1>4. DetailsInv'
  BY <1>1, <1>3, Same DEF Inv, DetailsInv
<1>5. LoopInv' /\ StatementAddsUp' /\ FeeIsTheFee'
  BY <1>1 DEF LoopInv, StatementAddsUp, FeeIsTheFee
<1> QED
  BY <1>4, <1>5 DEF Inv

LEMMA DetailsStep ==
  ASSUME Inv, GetTransactionDetails PROVE Inv'
<1>1. /\ raw' = raw /\ as' = as /\ i' = i /\ lines' = lines
      /\ pc = "details" /\ pc' = as
  BY DEF GetTransactionDetails, chosen
<1>2. /\ raw \in Raw /\ as \in {"list", "csv"} /\ i = 1 /\ lines = <<>>
      /\ details = [NoDetails EXCEPT !.fee = Fee]
  BY <1>1 DEF Inv, DetailsInv
<1> DEFINE d == [details EXCEPT !.type = TypeOfInputs,
                   !.inputSatoshis = IF raw.coinbase THEN 0 ELSE Sum(raw.inputs, Wallets),
                   !.outputSatoshis = Sum(raw.outputs, Wallets)]
<1>3. d = Unclassified
  <2>1. details = [type |-> "send", fee |-> Fee, inputSatoshis |-> 0, outputSatoshis |-> 0]
    BY <1>2 DEF NoDetails
  <2>2. d = [details EXCEPT !.type = TypeOfInputs, !.inputSatoshis = In, !.outputSatoshis = Out]
    BY DEF In, Out
  <2> HIDE DEF d
  <2>3. d = [type |-> TypeOfInputs, fee |-> Fee, inputSatoshis |-> In, outputSatoshis |-> Out]
    BY <2>1, <2>2
  <2> QED
    BY <2>3 DEF Unclassified
<1>4. details' = [d EXCEPT !.type = Classify(d)] /\ delta' = d.outputSatoshis - d.inputSatoshis
  BY DEF GetTransactionDetails
<1>5. details' = Details /\ delta' = Out - In
  <2> HIDE DEF d
  <2> QED
    BY <1>3, <1>4 DEF Details, Unclassified
<1>6. DetailsInv'
  BY <1>1, <1>2, <1>5, Same DEF Inv, DetailsInv
<1>7. /\ Out \in Nat /\ In \in Nat /\ Fee \in Nat
      /\ raw.outputs \in Coins(MaxOutputs) /\ MaxOutputs \in Nat
  BY <1>2, RawFacts
<1>8. LoopInv'
  <2>1. i' \in 1..(Len(raw.outputs) + 1)
    BY <1>1, <1>2, <1>7, CoinsFacts
  <2>2. lines' \in Seq(OutputLine) /\ DOMAIN lines' = {}
    BY <1>1, <1>2
  <2>3. Total(lines', DOMAIN lines') = 0
    BY <2>2, TotalEmpty
  <2>4. Out = Remaining(raw.outputs, Wallets, 1)
    BY <1>7, RemainingFacts DEF Out
  <2>5. Out >= In => delta' \in 0..Remaining(raw.outputs, Wallets, i')
    BY <1>1, <1>2, <1>5, <1>7, <2>4
  <2>6. SoleSender => -delta' = Remaining(raw.outputs, Others, i') + Fee
    <3>1. 1 \in 1..(Len(raw.outputs) + 1)
      BY <1>1, <1>2, <2>1
    <3>2. Remaining(raw.outputs, Others, 1) \in Nat
      BY <1>7, <3>1, RemainingFacts
    <3> SUFFICES ASSUME SoleSender PROVE -delta' = Remaining(raw.outputs, Others, 1) + Fee
      BY <1>1, <1>2
    <3>3. In = Out + Remaining(raw.outputs, Others, 1) + Fee
      BY <1>2, SoleSenderPays
    <3> QED
      BY <1>5, <1>7, <3>2, <3>3
  <2>7. Total(lines', DOMAIN lines') + delta' = Out - In /\ (Out <= In => delta' <= 0)
    BY <1>5, <1>7, <2>3
  <2> QED
    BY <1>1, <1>2, <1>5, <1>7, <2>1, <2>2, <2>5, <2>6, <2>7, Same DEF LoopInv
<1>9. StatementAddsUp' /\ FeeIsTheFee'
  BY <1>1, <1>2 DEF StatementAddsUp, FeeIsTheFee
<1> QED
  BY <1>6, <1>8, <1>9 DEF Inv

\* What the invariant says of the loop, and what a step of it leaves to show
LEMMA AtLoop ==
  ASSUME Inv, pc \in {"list", "csv"}
  PROVE  /\ raw \in Raw /\ details = Details /\ pc = as /\ as \in {"list", "csv"}
         /\ raw.outputs \in Coins(MaxOutputs) /\ MaxOutputs \in Nat
         /\ Out \in Nat /\ In \in Nat /\ Fee \in Nat
         /\ i \in 1..(Len(raw.outputs) + 1) /\ Len(raw.outputs) \in Nat
         /\ delta \in Int
         /\ lines \in Seq(OutputLine) /\ lines \in Seq(AnyLine)
         /\ Total(lines, DOMAIN lines) \in Int
         /\ Total(lines, DOMAIN lines) = Out - In - delta
         /\ Out >= In => delta \in 0..Remaining(raw.outputs, Wallets, i)
         /\ Out <= In => delta <= 0
         /\ SoleSender => -delta = Remaining(raw.outputs, Others, i) + Fee
         /\ SoleSender => Out <= In
         /\ details.type \in Type
<1>1. /\ raw \in Raw /\ details = Details /\ pc = as /\ as \in {"list", "csv"}
  BY DEF Inv, DetailsInv
<1>2. /\ raw.outputs \in Coins(MaxOutputs) /\ MaxOutputs \in Nat
      /\ Out \in Nat /\ In \in Nat /\ Fee \in Nat
  BY <1>1, RawFacts
<1>3. Len(raw.outputs) \in Nat
  BY <1>2, CoinsFacts
<1>4. /\ i \in 1..(Len(raw.outputs) + 1)
      /\ delta \in Int
      /\ lines \in Seq(OutputLine)
      /\ Total(lines, DOMAIN lines) + delta = Out - In
      /\ Out >= In => delta \in 0..Remaining(raw.outputs, Wallets, i)
      /\ Out <= In => delta <= 0
      /\ SoleSender => -delta = Remaining(raw.outputs, Others, i) + Fee
  BY DEF Inv, LoopInv
<1>5. lines \in Seq(AnyLine)
  <2>1. OutputLine \subseteq AnyLine
    BY DEF OutputLine, AnyLine, Category
  <2> QED
    BY <1>4, <2>1
<1>6. Total(lines, DOMAIN lines) \in Int
  BY <1>5, AllWritten
<1>7. SoleSender => Out <= In
  BY <1>1, SoleSenderPays
<1>8. details.type \in Type
  BY <1>1, TypeFacts
<1>9. Total(lines, DOMAIN lines) = Out - In - delta
  BY <1>2, <1>4, <1>6
<1> QED
  BY <1>1, <1>2, <1>3, <1>4, <1>5, <1>6, <1>7, <1>8, <1>9

LEMMA NextOutput ==
  ASSUME Inv, pc \in {"list", "csv"}, i <= Len(raw.outputs),
         raw' = raw, as' = as, details' = details, pc' = pc, i' = i + 1,
         LoopInv'
  PROVE  Inv'
<1>1. DetailsInv'
  BY Same DEF Inv, DetailsInv
<1>2. StatementAddsUp' /\ FeeIsTheFee'
  BY DEF StatementAddsUp, FeeIsTheFee
<1> QED
  BY <1>1, <1>2 DEF Inv

\* What is left of the outputs once output i is done with
LEMMA OneLess ==
  ASSUME Inv, pc \in {"list", "csv"}, i <= Len(raw.outputs)
  PROVE  /\ i + 1 \in 1..(Len(raw.outputs) + 1)
         /\ raw.outputs[i].satoshis \in Nat
         /\ raw.outputs[i] \in Wallets <=> raw.outputs[i].wallet
         /\ raw.outputs[i] \in Others <=> ~raw.outputs[i].wallet
         /\ \A counted \in {Wallets, Others} :
              /\ Remaining(raw.outputs, counted, i + 1) \in Nat
              /\ Remaining(raw.outputs, counted, i)
                   = Remaining(raw.outputs, counted, i + 1)
                       + (IF raw.outputs[i] \in counted THEN raw.outputs[i].satoshis ELSE 0)
<1>1. /\ raw.outputs \in Coins(MaxOutputs) /\ MaxOutputs \in Nat
      /\ i \in 1..(Len(raw.outputs) + 1) /\ Len(raw.outputs) \in Nat
  BY AtLoop
<1>2. i \in 1..Len(raw.outputs) /\ i + 1 \in 1..(Len(raw.outputs) + 1)
  BY <1>1
<1>3. /\ raw.outputs[i] \in Coin /\ raw.outputs[i].wallet \in BOOLEAN
      /\ raw.outputs[i].satoshis \in Nat
  BY <1>1, <1>2, CoinsFacts
<1>4. ASSUME NEW counted
      PROVE  /\ Remaining(raw.outputs, counted, i + 1) \in Nat
             /\ Remaining(raw.outputs, counted, i)
                  = Remaining(raw.outputs, counted, i + 1)
                      + (IF raw.outputs[i] \in counted THEN raw.outputs[i].satoshis ELSE 0)
  <2>1. Remaining(raw.outputs, counted, i + 1) \in Nat
    BY <1>1, <1>2, RemainingFacts
  <2> DEFINE coins == raw.outputs
  <2>2. coins \in Coins(MaxOutputs) /\ i \in 1..Len(coins)
    BY <1>1, <1>2
  <2> HIDE DEF coins
  <2>3. Remaining(coins, counted, i)
          = Remaining(coins, counted, i + 1)
              + (IF coins[i] \in counted THEN coins[i].satoshis ELSE 0)
    BY <1>1, <2>2, RemainingStep
  <2> QED
    BY <2>1, <2>3 DEF coins
<1>5. /\ raw.outputs[i] \in Wallets <=> raw.outputs[i].wallet
      /\ raw.outputs[i] \in Others <=> ~raw.outputs[i].wallet
  BY <1>3 DEF Wallets, Others
<1> QED
  BY <1>2, <1>3, <1>4, <1>5

LEMMA ReceiveStep ==
  ASSUME Inv, ReceiveOutput PROVE Inv'
<1> DEFINE output == raw.outputs[i]
           got == Received(output)
<1>1. /\ raw' = raw /\ as' = as /\ details' = details /\ pc' = pc /\ i' = i + 1
      /\ Looping /\ i <= Len(raw.outputs) /\ delta > 0 /\ output.wallet
      /\ lines' = Append(lines, Line(details.type, got))
      /\ delta' = delta - got
  BY DEF ReceiveOutput, chosen
<1>2. pc \in {"list", "csv"} /\ ~(pc = "list" /\ details.type \in {"join", "move"})
  BY <1>1 DEF Looping
<1>3. /\ Out \in Nat /\ In \in Nat /\ delta \in Int
      /\ lines \in Seq(OutputLine) /\ details.type \in Type
      /\ Total(lines, DOMAIN lines) \in Int
      /\ Total(lines, DOMAIN lines) = Out - In - delta
      /\ Out >= In => delta \in 0..Remaining(raw.outputs, Wallets, i)
      /\ Out <= In => delta <= 0
      /\ SoleSender => Out <= In
  BY <1>2, AtLoop
<1>4. /\ i + 1 \in 1..(Len(raw.outputs) + 1) /\ output.satoshis \in Nat
      /\ output \in Wallets
      /\ Remaining(raw.outputs, Wallets, i + 1) \in Nat
      /\ Remaining(raw.outputs, Wallets, i)
           = Remaining(raw.outputs, Wallets, i + 1) + output.satoshis
  BY <1>1, <1>2, OneLess
<1>5. got \in Nat /\ got <= delta /\ (got = delta \/ got = output.satoshis)
  BY <1>1, <1>3, <1>4, SMTT(40) DEF Received, Lesser
<1> HIDE DEF got, output
<1>6. Line(details.type, got) \in OutputLine /\ Line(details.type, got).satoshis = got
  BY <1>3, <1>5 DEF Line, OutputLine
<1>7. lines' \in Seq(OutputLine) /\ Total(lines', DOMAIN lines') = Total(lines, DOMAIN lines) + got
  BY <1>1, <1>3, <1>6, OneOutputMore
<1>8. Out > In /\ ~SoleSender
  BY <1>1, <1>3
<1>9. delta' \in 0..Remaining(raw.outputs, Wallets, i')
  BY <1>1, <1>3, <1>4, <1>5, <1>8
<1>10. Total(lines', DOMAIN lines') + delta' = Out - In
  BY <1>1, <1>3, <1>5, <1>7
<1>11. LoopInv'
  <2>1. i' \in 1..(Len(raw.outputs) + 1)
    BY <1>1, <1>4
  <2>2. delta' \in Int /\ (Out <= In => delta' <= 0)
    BY <1>1, <1>3, <1>5, <1>8
  <2> QED
    BY <1>1, <1>2, <1>7, <1>8, <1>9, <1>10, <2>1, <2>2, Same DEF LoopInv
<1> QED
  BY <1>1, <1>2, <1>11, NextOutput

LEMMA SendStep ==
  ASSUME Inv, SendOutput PROVE Inv'
<1> DEFINE output == raw.outputs[i]
           paid == Sent(output)
<1>1. /\ raw' = raw /\ as' = as /\ details' = details /\ pc' = pc /\ i' = i + 1
      /\ Looping /\ i <= Len(raw.outputs) /\ delta < 0 /\ ~output.wallet
      /\ lines' = Append(lines, Line(details.type, -paid))
      /\ delta' = delta + paid
  BY DEF SendOutput, chosen
<1>2. pc \in {"list", "csv"} /\ ~(pc = "list" /\ details.type \in {"join", "move"})
  BY <1>1 DEF Looping
<1>3. /\ Out \in Nat /\ In \in Nat /\ Fee \in Nat /\ delta \in Int
      /\ lines \in Seq(OutputLine) /\ details.type \in Type
      /\ Total(lines, DOMAIN lines) \in Int
      /\ Total(lines, DOMAIN lines) = Out - In - delta
      /\ Out >= In => delta \in 0..Remaining(raw.outputs, Wallets, i)
      /\ SoleSender => -delta = Remaining(raw.outputs, Others, i) + Fee
      /\ SoleSender => Out <= In
  BY <1>2, AtLoop
<1>4. /\ i + 1 \in 1..(Len(raw.outputs) + 1) /\ output.satoshis \in Nat
      /\ output \in Others
      /\ Remaining(raw.outputs, Others, i + 1) \in Nat
      /\ Remaining(raw.outputs, Others, i)
           = Remaining(raw.outputs, Others, i + 1) + output.satoshis
  BY <1>1, <1>2, OneLess
<1>5. /\ paid \in Nat /\ paid <= -delta
      /\ output.satoshis <= -delta => paid = output.satoshis
  BY <1>1, <1>3, <1>4, SMTT(40) DEF Sent, Lesser
<1> HIDE DEF paid, output
<1>6. Line(details.type, -paid) \in OutputLine /\ Line(details.type, -paid).satoshis = -paid
  BY <1>3, <1>5 DEF Line, OutputLine
<1>7. lines' \in Seq(OutputLine) /\ Total(lines', DOMAIN lines') = Total(lines, DOMAIN lines) + (-paid)
  BY <1>1, <1>3, <1>6, OneOutputMore
<1>8. Out < In
  <2>1. ~(Out >= In)
    <3> SUFFICES ASSUME Out >= In PROVE FALSE
      OBVIOUS
    <3>1. delta \in 0..Remaining(raw.outputs, Wallets, i)
      BY <1>3
    <3> QED
      BY <1>1, <1>3, <3>1
  <2> QED
    BY <1>3, <2>1
<1>9. SoleSender => -delta' = Remaining(raw.outputs, Others, i') + Fee
  <2> SUFFICES ASSUME SoleSender PROVE -delta' = Remaining(raw.outputs, Others, i + 1) + Fee
    BY <1>1
  <2>1. -delta = Remaining(raw.outputs, Others, i + 1) + output.satoshis + Fee
    BY <1>3, <1>4
  <2>2. paid = output.satoshis
    BY <1>3, <1>4, <1>5, <2>1
  <2> DEFINE R == Remaining(raw.outputs, Others, i + 1)
  <2>3. delta' = delta + output.satoshis /\ R \in Nat /\ -delta = R + output.satoshis + Fee
    BY <1>1, <1>4, <2>1, <2>2
  <2>4. delta \in Int /\ Fee \in Nat /\ output.satoshis \in Nat
    BY <1>3, <1>4
  <2> DEFINE amount == output.satoshis
             next == delta'
  <2> HIDE DEF R, amount, next
  <2>5. -next = R + Fee
    BY <2>3, <2>4 DEF amount, next
  <2> QED
    BY <2>5 DEF R, next
<1>10. Total(lines', DOMAIN lines') + delta' = Out - In
  BY <1>1, <1>3, <1>5, <1>7
<1>11. LoopInv'
  <2>1. i' \in 1..(Len(raw.outputs) + 1)
    BY <1>1, <1>4
  <2>2. delta' \in Int /\ delta' <= 0 /\ ~(Out >= In)
    BY <1>1, <1>3, <1>5, <1>8
  <2> QED
    BY <1>1, <1>2, <1>7, <1>9, <1>10, <2>1, <2>2, Same DEF LoopInv
<1> QED
  BY <1>1, <1>2, <1>11, NextOutput

LEMMA SkipStep ==
  ASSUME Inv, SkipOutput PROVE Inv'
<1> DEFINE output == raw.outputs[i]
<1>1. /\ raw' = raw /\ as' = as /\ details' = details /\ pc' = pc /\ i' = i + 1
      /\ lines' = lines /\ delta' = delta
      /\ Looping /\ i <= Len(raw.outputs)
      /\ delta > 0 => ~output.wallet
      /\ delta < 0 => output.wallet
  BY DEF SkipOutput, chosen
<1>2. pc \in {"list", "csv"} /\ ~(pc = "list" /\ details.type \in {"join", "move"})
  BY <1>1 DEF Looping
<1>3. /\ Out \in Nat /\ In \in Nat /\ Fee \in Nat /\ delta \in Int
      /\ lines \in Seq(OutputLine)
      /\ Total(lines, DOMAIN lines) \in Int
      /\ Total(lines, DOMAIN lines) = Out - In - delta
      /\ Out >= In => delta \in 0..Remaining(raw.outputs, Wallets, i)
      /\ Out <= In => delta <= 0
      /\ SoleSender => -delta = Remaining(raw.outputs, Others, i) + Fee
      /\ SoleSender => Out <= In
  BY <1>2, AtLoop
<1>4. /\ i + 1 \in 1..(Len(raw.outputs) + 1) /\ output.satoshis \in Nat
      /\ output \in Wallets <=> output.wallet
      /\ output \in Others <=> ~output.wallet
      /\ Remaining(raw.outputs, Wallets, i + 1) \in Nat
      /\ Remaining(raw.outputs, Others, i + 1) \in Nat
      /\ Remaining(raw.outputs, Wallets, i)
           = Remaining(raw.outputs, Wallets, i + 1)
               + (IF output \in Wallets THEN output.satoshis ELSE 0)
      /\ Remaining(raw.outputs, Others, i)
           = Remaining(raw.outputs, Others, i + 1)
               + (IF output \in Others THEN output.satoshis ELSE 0)
  BY <1>1, <1>2, OneLess
<1> HIDE DEF output
<1>5. Out >= In => delta' \in 0..Remaining(raw.outputs, Wallets, i')
  BY <1>1, <1>3, <1>4
<1>6. SoleSender => -delta' = Remaining(raw.outputs, Others, i') + Fee
  BY <1>1, <1>3, <1>4
<1>7. LoopInv'
  <2>1. i' \in 1..(Len(raw.outputs) + 1)
    BY <1>1, <1>4
  <2>2. delta' \in Int /\ (Out <= In => delta' <= 0)
    BY <1>1, <1>3
  <2>3. Total(lines', DOMAIN lines') + delta' = Out - In
    BY <1>1, <1>3
  <2> QED
    BY <1>1, <1>2, <1>3, <1>5, <1>6, <2>1, <2>2, <2>3, Same DEF LoopInv
<1> QED
  BY <1>1, <1>2, <1>7, NextOutput

LEMMA Finish ==
  ASSUME Inv, pc \in {"list", "csv"}, raw' = raw, as' = as, details' = details, pc' = "done",
         StatementAddsUp', FeeIsTheFee'
  PROVE  Inv'
<1>1. DetailsInv'
  BY Same DEF Inv, DetailsInv
<1>2. LoopInv'
  BY DEF LoopInv
<1> QED
  BY <1>1, <1>2 DEF Inv

\* The fee item, and where a line called fee can be
LEMMA FeeItem ==
  ASSUME raw \in Raw, details = Details
  PROVE  /\ FormatFeeItem = IF Fee = 0 THEN NoLine ELSE Line("fee", -Fee)
         /\ \A n \in Int : /\ Line("fee", n) \in AnyLine /\ Line("fee", n) # NoLine
                           /\ Line("fee", n).satoshis = n /\ Line("fee", n).category = "fee"
<1>1. details.fee = Fee
  BY TypeFacts
<1>2. ASSUME NEW n \in Int
      PROVE  /\ Line("fee", n) \in AnyLine /\ Line("fee", n) # NoLine
             /\ Line("fee", n).satoshis = n /\ Line("fee", n).category = "fee"
  <2>1. Line("fee", n) \in AnyLine
    BY DEF Line, AnyLine, Category
  <2> QED
    BY <2>1, StatementAssumption DEF AnyLine, Line
<1> QED
  BY <1>1, <1>2 DEF FormatFeeItem

LEMMA FeesAmong ==
  ASSUME NEW ls \in Seq(OutputLine)
  PROVE  /\ \A n \in WrittenIn(ls) : ls[n].category # "fee"
         /\ \A l : \A n \in WrittenIn(Append(ls, l)) :
              Append(ls, l)[n].category = "fee" => Append(ls, l)[n] = l /\ l # NoLine
         /\ \A l : l # NoLine => /\ Len(ls) + 1 \in WrittenIn(Append(ls, l))
                                 /\ Append(ls, l)[Len(ls) + 1] = l
<1>1. \A l \in OutputLine : l.category # "fee"
  BY DEF OutputLine, Type
<1>2. DOMAIN ls = 1..Len(ls) /\ Len(ls) \in Nat /\ \A n \in 1..Len(ls) : ls[n] \in OutputLine
  OBVIOUS
<1>3. \A n \in WrittenIn(ls) : ls[n].category # "fee"
  BY <1>1, <1>2 DEF WrittenIn
<1>4. ASSUME NEW l
      PROVE  /\ DOMAIN Append(ls, l) = 1..(Len(ls) + 1)
             /\ \A n \in 1..Len(ls) : Append(ls, l)[n] = ls[n]
             /\ Append(ls, l)[Len(ls) + 1] = l
  OBVIOUS
<1>5. ASSUME NEW l, NEW n \in WrittenIn(Append(ls, l)), Append(ls, l)[n].category = "fee"
      PROVE  Append(ls, l)[n] = l /\ l # NoLine
  <2>1. n \in 1..(Len(ls) + 1) /\ Append(ls, l)[n] # NoLine
    BY <1>4 DEF WrittenIn
  <2>2. n \notin 1..Len(ls)
    BY <1>1, <1>2, <1>4, <1>5
  <2>3. n = Len(ls) + 1
    BY <1>2, <2>1, <2>2
  <2> QED
    BY <1>4, <2>1, <2>3
<1>6. ASSUME NEW l, l # NoLine
      PROVE  Len(ls) + 1 \in WrittenIn(Append(ls, l)) /\ Append(ls, l)[Len(ls) + 1] = l
  BY <1>2, <1>4, <1>6 DEF WrittenIn
<1> QED
  BY <1>3, <1>5, <1>6

LEMMA JoinStep ==
  ASSUME Inv, JoinTransactionToList PROVE Inv'
<1> DEFINE category == IF delta > 0 THEN "shared-receive"
                       ELSE IF delta < 0 THEN "shared-send" ELSE "shared-equal"
           line == Line(category, delta)
<1>1. /\ raw' = raw /\ as' = as /\ details' = details /\ pc = "list" /\ pc' = "done"
      /\ details.type = "join" /\ lines' = <<line>>
  BY DEF JoinTransactionToList, chosen
<1>2. /\ raw \in Raw /\ details = Details /\ delta \in Int /\ Out \in Nat /\ In \in Nat
      /\ Total(lines, DOMAIN lines) = Out - In - delta
  BY <1>1, AtLoop
<1>3. lines = <<>>
  BY <1>1 DEF Inv, LoopInv
<1>4. delta = Out - In
  <2>1. DOMAIN lines = {}
    BY <1>3
  <2>2. Total(lines, DOMAIN lines) = 0
    BY <2>1, TotalEmpty
  <2> QED
    BY <1>2, <2>2
<1>5. /\ line \in AnyLine /\ line.satoshis = delta /\ line # NoLine /\ line.category # "fee"
  <2>1. category \in Category /\ category # "fee"
    BY DEF Category
  <2>2. line \in AnyLine /\ line.satoshis = delta /\ line.category # "fee"
    <3> HIDE DEF category
    <3> QED
      BY <1>2, <2>1 DEF Line, AnyLine
  <2> HIDE DEF line
  <2> QED
    BY <2>2, StatementAssumption DEF AnyLine
<1> HIDE DEF line
<1>6. <<>> \in Seq(AnyLine) /\ lines' = Append(<<>>, line) /\ DOMAIN <<>> = {}
  BY <1>1
<1>7. Total(lines', WrittenIn(lines')) = Out - In
  <2>1. Total(Append(<<>>, line), WrittenIn(Append(<<>>, line)))
          = Total(<<>>, DOMAIN <<>>) + line.satoshis
    BY <1>5, <1>6, OneLineMore
  <2>2. Total(<<>>, DOMAIN <<>>) = 0
    BY <1>6, TotalEmpty
  <2> QED
    BY <1>2, <1>4, <1>5, <1>6, <2>1, <2>2
<1>8. StatementAddsUp'
  BY <1>1, <1>2, <1>7, AddsUp
<1>9. \A n \in WrittenIn(lines') : lines'[n].category # "fee"
  BY <1>1, <1>5 DEF WrittenIn
<1>10. ~SoleSender
  BY <1>1, <1>2, TypeFacts DEF SoleSender
<1>11. FeeIsTheFee'
  BY <1>1, <1>2, <1>9, <1>10, FeeTold
<1> QED
  BY <1>1, <1>8, <1>11, Finish

LEMMA NothingStep ==
  ASSUME Inv, NothingToCSV PROVE Inv'
<1>1. /\ raw' = raw /\ as' = as /\ details' = details /\ pc = "csv" /\ pc' = "done"
      /\ lines' = lines /\ delta = 0 /\ i = 1
  BY DEF NothingToCSV, chosen
<1>2. /\ raw \in Raw /\ details = Details /\ Out \in Nat /\ In \in Nat /\ Fee \in Nat
      /\ lines \in Seq(OutputLine) /\ lines \in Seq(AnyLine)
      /\ Total(lines, DOMAIN lines) = Out - In - delta
      /\ raw.outputs \in Coins(MaxOutputs) /\ MaxOutputs \in Nat
      /\ i \in 1..(Len(raw.outputs) + 1)
      /\ SoleSender => -delta = Remaining(raw.outputs, Others, i) + Fee
  BY <1>1, AtLoop
<1>3. Total(lines', WrittenIn(lines')) = Out - In
  BY <1>1, <1>2, AllWritten
<1>4. StatementAddsUp'
  BY <1>1, <1>2, <1>3, AddsUp
<1>5. \A n \in WrittenIn(lines') : lines'[n].category # "fee"
  BY <1>1, <1>2, FeesAmong
<1>6. Remaining(raw.outputs, Others, i) \in Nat
  BY <1>2, RemainingFacts
<1>7. ~(SoleSender /\ Fee > 0)
  BY <1>1, <1>2, <1>6
<1>8. FeeIsTheFee'
  BY <1>1, <1>2, <1>5, <1>7, FeeTold
<1> QED
  BY <1>1, <1>4, <1>8, Finish

\* What is left when the outputs are done with
LEMMA AtEnd ==
  ASSUME Inv, pc \in {"list", "csv"}, i > Len(raw.outputs)
  PROVE  /\ Out >= In => delta = 0
         /\ delta <= 0
         /\ SoleSender => delta = -Fee
<1>1. /\ raw.outputs \in Coins(MaxOutputs) /\ MaxOutputs \in Nat
      /\ Out \in Nat /\ In \in Nat /\ Fee \in Nat /\ delta \in Int
      /\ i \in 1..(Len(raw.outputs) + 1) /\ Len(raw.outputs) \in Nat
      /\ Out >= In => delta \in 0..Remaining(raw.outputs, Wallets, i)
      /\ Out <= In => delta <= 0
      /\ SoleSender => -delta = Remaining(raw.outputs, Others, i) + Fee
  BY AtLoop
<1>2. i = Len(raw.outputs) + 1
  BY <1>1
<1>3. /\ Remaining(raw.outputs, Wallets, i) = 0
      /\ Remaining(raw.outputs, Others, i) = 0
  BY <1>1, <1>2, RemainingFacts
<1>4. Out >= In => delta = 0
  BY <1>1, <1>3
<1>5. SoleSender => delta = -Fee
  BY <1>1, <1>3
<1> QED
  BY <1>1, <1>4, <1>5

LEMMA FeeOfListStep ==
  ASSUME Inv, FeeOfList PROVE Inv'
<1>1. /\ raw' = raw /\ as' = as /\ details' = details /\ pc = "list" /\ pc' = "done"
      /\ i > Len(raw.outputs) /\ details.type \notin {"join", "move"}
      /\ lines' = IF details.type = "send" THEN Append(lines, FormatFeeItem) ELSE lines
  BY DEF FeeOfList, Looping, chosen
<1>2. /\ raw \in Raw /\ details = Details /\ Out \in Nat /\ In \in Nat /\ Fee \in Nat
      /\ lines \in Seq(OutputLine) /\ lines \in Seq(AnyLine) /\ delta \in Int
      /\ Total(lines, DOMAIN lines) \in Int
      /\ Total(lines, DOMAIN lines) = Out - In - delta
  BY <1>1, AtLoop
<1>3. Out >= In => delta = 0
  BY <1>1, AtEnd
<1>4. CASE details.type = "send"
  <2>1. SoleSender /\ delta = -Fee
    BY <1>1, <1>2, <1>4, TypeFacts, AtEnd
  <2> DEFINE item == FormatFeeItem
  <2>2. lines' = Append(lines, item)
    BY <1>1, <1>4
  <2>3. item = IF Fee = 0 THEN NoLine ELSE Line("fee", -Fee)
    BY <1>2, FeeItem
  <2>4. -Fee \in Int
    BY <1>2
  <2>5. /\ item = NoLine \/ item \in AnyLine
        /\ item = NoLine <=> Fee = 0
        /\ item # NoLine => item.satoshis = -Fee /\ item.category = "fee"
    BY <1>2, <2>3, <2>4, FeeItem
  <2> HIDE DEF item
  <2>6. Total(lines', WrittenIn(lines')) = Out - In
    <3>1. Total(lines', WrittenIn(lines'))
            = Total(lines, DOMAIN lines) + (IF item = NoLine THEN 0 ELSE item.satoshis)
      BY <1>2, <2>2, <2>5, OneLineMore
    <3>2. (IF item = NoLine THEN 0 ELSE item.satoshis) = -Fee
      BY <1>2, <2>5
    <3> QED
      BY <1>2, <2>1, <3>1, <3>2
  <2>7. \A n \in WrittenIn(lines') :
          lines'[n].category = "fee" => ~raw.coinbase /\ lines'[n].satoshis = -Fee
    BY <1>2, <2>1, <2>2, <2>5, FeesAmong DEF SoleSender
  <2>8. Fee > 0 => \E n \in WrittenIn(lines') : lines'[n].category = "fee"
    BY <1>2, <2>2, <2>5, FeesAmong
  <2>9. StatementAddsUp'
    BY <1>1, <1>2, <2>6, AddsUp
  <2>10. FeeIsTheFee'
    BY <1>1, <1>2, <2>7, <2>8, FeeTold
  <2> QED
    BY <1>1, <2>9, <2>10, Finish
<1>5. CASE details.type # "send"
  <2>1. lines' = lines
    BY <1>1, <1>5
  <2>2. Out >= In /\ ~(SoleSender /\ Fee > 0)
    BY <1>1, <1>2, <1>5, TypeFacts
  <2>3. Total(lines', WrittenIn(lines')) = Out - In
    BY <1>2, <1>3, <2>1, <2>2, AllWritten
  <2>4. \A n \in WrittenIn(lines') : lines'[n].category # "fee"
    BY <1>2, <2>1, FeesAmong
  <2>5. StatementAddsUp'
    BY <1>1, <1>2, <2>3, AddsUp
  <2>6. FeeIsTheFee'
    BY <1>1, <1>2, <2>2, <2>4, FeeTold
  <2> QED
    BY <1>1, <2>5, <2>6, Finish
<1> QED
  BY <1>4, <1>5

LEMMA FeeOfCSVStep ==
  ASSUME Inv, FeeOfCSV PROVE Inv'
<1>1. /\ raw' = raw /\ as' = as /\ details' = details /\ pc = "csv" /\ pc' = "done"
      /\ i > Len(raw.outputs)
      /\ lines' = IF delta < 0 THEN Append(lines, Line("fee", delta)) ELSE lines
  BY DEF FeeOfCSV, Remainder, chosen
<1>2. /\ raw \in Raw /\ details = Details /\ Out \in Nat /\ In \in Nat /\ Fee \in Nat
      /\ pc = as /\ lines \in Seq(OutputLine) /\ lines \in Seq(AnyLine) /\ delta \in Int
      /\ Total(lines, DOMAIN lines) \in Int
      /\ Total(lines, DOMAIN lines) = Out - In - delta
  BY <1>1, AtLoop
<1>3. /\ Out >= In => delta = 0
      /\ delta <= 0
      /\ SoleSender => delta = -Fee
  BY <1>1, AtEnd
<1>4. CASE delta < 0
  <2> DEFINE item == Line("fee", delta)
  <2>1. lines' = Append(lines, item)
    BY <1>1, <1>4
  <2>2. item \in AnyLine /\ item # NoLine /\ item.satoshis = delta /\ item.category = "fee"
    BY <1>2, FeeItem
  <2> HIDE DEF item
  <2>3. Total(lines', WrittenIn(lines')) = Out - In
    <3>1. Total(lines', WrittenIn(lines')) = Total(lines, DOMAIN lines) + item.satoshis
      BY <1>2, <2>1, <2>2, OneLineMore
    <3> QED
      BY <1>2, <2>2, <3>1
  <2>4. StatementAddsUp'
    BY <1>1, <1>2, <2>3, AddsUp
  <2>5. ~Mixed => SoleSender
    <3>1. In > 0
      BY <1>2, <1>3, <1>4
    <3>2. ~raw.coinbase
      BY <3>1 DEF In
    <3> QED
      BY <3>1, <3>2 DEF SoleSender
  <2>6. ~Mixed => \A n \in WrittenIn(lines') :
          lines'[n].category = "fee" => ~raw.coinbase /\ lines'[n].satoshis = -Fee
    <3>1. \A n \in WrittenIn(lines') : lines'[n].category = "fee" => lines'[n] = item
      BY <1>2, <2>1, FeesAmong, ZenonT(60)
    <3>2. ~Mixed => ~raw.coinbase /\ item.satoshis = -Fee
      BY <1>3, <2>2, <2>5 DEF SoleSender
    <3> QED
      BY <3>1, <3>2
  <2>7. \E n \in WrittenIn(lines') : lines'[n].category = "fee"
    BY <1>2, <2>1, <2>2, FeesAmong
  <2>8. FeeIsTheFee'
    BY <1>1, <1>2, <2>6, <2>7, FeeTold
  <2> QED
    BY <1>1, <2>4, <2>8, Finish
<1>5. CASE ~(delta < 0)
  <2>1. lines' = lines /\ delta = 0
    BY <1>1, <1>2, <1>3, <1>5
  <2>2. ~(SoleSender /\ Fee > 0)
    BY <1>2, <1>3, <2>1
  <2>3. Total(lines', WrittenIn(lines')) = Out - In
    BY <1>2, <2>1, AllWritten
  <2>4. \A n \in WrittenIn(lines') : lines'[n].category # "fee"
    BY <1>2, <2>1, FeesAmong
  <2>5. StatementAddsUp'
    BY <1>1, <1>2, <2>3, AddsUp
  <2>6. FeeIsTheFee'
    BY <1>1, <1>2, <2>2, <2>4, FeeTold
  <2> QED
    BY <1>1, <2>5, <2>6, Finish
<1> QED
  BY <1>4, <1>5

LEMMA MoveStep ==
  ASSUME Inv, MoveTransactionToList PROVE Inv'
<1> DEFINE moved == IF bitcoin THEN NaN ELSE details.inputSatoshis
           a == Line("receive", moved)
           b == Line("send", IF moved = NaN THEN NaN ELSE -moved)
           c == FormatFeeItem
<1>1. /\ raw' = raw /\ as' = as /\ bitcoin' = bitcoin /\ details' = details
      /\ pc = "list" /\ pc' = "done" /\ details.type = "move" /\ lines' = <<a, b, c>>
  BY DEF MoveTransactionToList, chosen
<1>2. /\ raw \in Raw /\ details = Details /\ Out \in Nat /\ In \in Nat /\ Fee \in Nat
      /\ pc = as
  BY <1>1, AtLoop
<1>3. ~raw.coinbase /\ Fee + Out = In /\ details.inputSatoshis = In
  BY <1>1, <1>2, TypeFacts
<1>4. /\ c = NoLine \/ c \in AnyLine
      /\ c = NoLine <=> Fee = 0
      /\ c # NoLine => c.satoshis = -Fee /\ c.category = "fee"
  <2>1. -Fee \in Int
    BY <1>2
  <2> QED
    BY <1>2, <2>1, FeeItem
<1>5. a.category = "receive" /\ b.category = "send"
  BY DEF Line
<1>6. CASE bitcoin
  <2>1. StatementAddsUp'
    BY <1>1, <1>2, <1>6 DEF StatementAddsUp
  <2> QED
    <3> HIDE DEF a, b, c
    <3>1. \A n \in WrittenIn(lines') :
            lines'[n].category = "fee" => ~raw.coinbase /\ lines'[n].satoshis = -Fee
      BY <1>1, <1>3, <1>4, <1>5 DEF WrittenIn
    <3>2. Fee > 0 => \E n \in WrittenIn(lines') : lines'[n].category = "fee"
      <4>1. 3 \in DOMAIN lines' /\ lines'[3] = c
        BY <1>1
      <4> QED
        BY <1>2, <1>4, <4>1 DEF WrittenIn
    <3>3. FeeIsTheFee'
      BY <1>1, <1>2, <3>1, <3>2, FeeTold
    <3> QED
      BY <1>1, <2>1, <3>3, Finish
<1>7. CASE ~bitcoin
  <2>1. moved = In /\ In # NaN /\ -In \in Int
    BY <1>2, <1>3, <1>7, StatementAssumption
  <2>2. /\ a = Line("receive", In) /\ b = Line("send", -In)
    BY <2>1
  <2>3. /\ a \in OutputLine /\ a.satoshis = In
        /\ b \in OutputLine /\ b.satoshis = -In
    BY <1>2, <2>1, <2>2 DEF Line, OutputLine, Type
  <2> HIDE DEF a, b, c, moved
  <2> DEFINE one == Append(<<>>, a)
             two == Append(one, b)
  <2>4. <<>> \in Seq(OutputLine) /\ DOMAIN <<>> = {} /\ lines' = Append(two, c)
    BY <1>1
  <2>5. one \in Seq(OutputLine) /\ Total(one, DOMAIN one) = 0 + In
    BY <2>3, <2>4, OneOutputMore, TotalEmpty
  <2>6. two \in Seq(OutputLine) /\ two \in Seq(AnyLine)
        /\ Total(two, DOMAIN two) = Total(one, DOMAIN one) + (-In)
    <3> HIDE DEF one
    <3> QED
      BY <2>3, <2>5, OneOutputMore
  <2> HIDE DEF one, two
  <2>7. Total(lines', WrittenIn(lines')) = Out - In
    <3>1. Total(lines', WrittenIn(lines'))
            = Total(two, DOMAIN two) + (IF c = NoLine THEN 0 ELSE c.satoshis)
      BY <1>4, <2>4, <2>6, OneLineMore
    <3>2. (IF c = NoLine THEN 0 ELSE c.satoshis) = -Fee
      BY <1>2, <1>4
    <3>3. Total(two, DOMAIN two) = 0
      BY <1>2, <2>5, <2>6
    <3>4. Total(lines', WrittenIn(lines')) = 0 + -Fee
      BY <3>1, <3>2, <3>3
    <3>5. 0 + -Fee = Out - In
      BY <1>2, <1>3
    <3> QED
      BY <3>4, <3>5
  <2>8. \A n \in WrittenIn(lines') :
          lines'[n].category = "fee" => ~raw.coinbase /\ lines'[n].satoshis = -Fee
    BY <1>3, <1>4, <2>4, <2>6, FeesAmong
  <2>9. Fee > 0 => \E n \in WrittenIn(lines') : lines'[n].category = "fee"
    BY <1>2, <1>4, <2>4, <2>6, FeesAmong
  <2>10. StatementAddsUp'
    BY <1>1, <1>2, <2>7, AddsUp
  <2>11. FeeIsTheFee'
    BY <1>1, <1>2, <2>8, <2>9, FeeTold
  <2> QED
    BY <1>1, <2>10, <2>11, Finish
<1> QED
  BY <1>6, <1>7

----------------------------------------------------------------------------
(* The theorem                                                             *)

LEMMA Inductive ==
  ASSUME Inv, [Next]_vars PROVE Inv'
<1>1. CASE TransformRawTransaction
  BY <1>1, TransformStep
<1>2. CASE GetTransactionDetails
  BY <1>2, DetailsStep
<1>3. CASE JoinTransactionToList
  BY <1>3, JoinStep
<1>4. CASE MoveTransactionToList
  BY <1>4, MoveStep
<1>5. CASE NothingToCSV
  BY <1>5, NothingStep
<1>6. CASE ReceiveOutput
  BY <1>6, ReceiveStep
<1>7. CASE SendOutput
  BY <1>7, SendStep
<1>8. CASE SkipOutput
  BY <1>8, SkipStep
<1>9. CASE FeeOfList
  BY <1>9, FeeOfListStep
<1>10. CASE FeeOfCSV
  BY <1>10, FeeOfCSVStep
<1>11. CASE UNCHANGED vars
  <2>1. /\ raw' = raw /\ as' = as /\ bitcoin' = bitcoin /\ pc' = pc /\ details' = details
        /\ delta' = delta /\ i' = i /\ lines' = lines
    BY <1>11 DEF vars, chosen
  <2>2. DetailsInv'
    BY <2>1, Same DEF Inv, DetailsInv
  <2>3. LoopInv'
    BY <2>1, Same DEF Inv, LoopInv
  <2>4. StatementAddsUp'
    BY <2>1 DEF Inv, StatementAddsUp, Written
  <2>5. FeeIsTheFee'
    BY <2>1 DEF Inv, FeeIsTheFee, Written, Mixed
  <2> QED
    BY <2>2, <2>3, <2>4, <2>5 DEF Inv
<1> QED
  BY <1>1, <1>2, <1>3, <1>4, <1>5, <1>6, <1>7, <1>8, <1>9, <1>10, <1>11 DEF Next

THEOREM Invariant == Spec => []Inv
BY InitInv, Inductive, PTL DEF Spec

\* The lines a client writes for a transaction, as a list or as CSV, add up to
\* what the transaction changes in the balance of the wallet, whatever its
\* inputs, outputs and fee are: each loop over the outputs tells of exactly
\* what the sums of the web worker leave to be told.
THEOREM AlwaysAddsUp == Spec => []StatementAddsUp
<1>1. Inv => StatementAddsUp
  BY DEF Inv
<1> QED
  BY <1>1, Invariant, PTL

\* A line called fee is the fee, and who alone pays a fee is told of it.
THEOREM AlwaysTheFee == Spec => []FeeIsTheFee
<1>1. Inv => FeeIsTheFee
  BY DEF Inv
<1> QED
  BY <1>1, Invariant, PTL
=============================================================================
