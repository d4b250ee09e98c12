----------------------------- MODULE MCRequests -----------------------------
(***************************************************************************)
(* Two callers: "a" tries every kind of credential on one route of each    *)
(* kind, and every range; "b" asks for the default page and imports.       *)
(***************************************************************************)
EXTENDS Requests, TLC

MCRange == [height |-> Absent, index |-> Absent, limit |-> Absent, end |-> Absent]
SignedBy(k) == [identity |-> k, signature |-> k, nonce |-> "hex"]
Plain(route) ==
  [route |-> route, credential |-> SignedBy("k1"), body |-> "json",
   walletId |-> TRUE, addresses |-> "good", range |-> MCRange]

Credentials ==
  [identity : {"k1", "k2", "none", "unusable"}, signature : {"k1", "k2"},
           nonce : {"hex"}]
    \cup {[SignedBy("k1") EXCEPT !.nonce = n] : n \in {"none", "nothex"}}
    \cup {[SignedBy("k1") EXCEPT !.signature = "unusable"]}
Routes == {Plain(route) : route \in Route}
Signatures == {[Plain("putWallet") EXCEPT !.credential = cr] : cr \in Credentials}
Bodies == {[Plain("putAddress") EXCEPT !.body = b] : b \in {"none", "broken"}}
Names ==
  {[Plain("putAddress") EXCEPT !.walletId = FALSE],
   [Plain("putAddress") EXCEPT !.addresses = "bad"],
   [Plain("postAddresses") EXCEPT !.addresses = "none"]}
Ranges ==
  {[Plain("txids") EXCEPT !.range = [MCRange EXCEPT !.height = h, !.end = e]] :
     h \in {NaN, -1, 2}, e \in {Absent, -1, 2}}
    \cup {[Plain("txids") EXCEPT !.range = [MCRange EXCEPT !.limit = l, !.index = 1]] :
     l \in {-1, 3, 4}}

MCRequestsOf ==
  "a" :> (Routes \cup Signatures \cup Bodies \cup Names \cup Ranges)
    @@ "b" :> {Plain("transactions")}
=============================================================================
