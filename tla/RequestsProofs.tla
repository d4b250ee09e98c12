----------------------------- MODULE RequestsProofs -----------------------------
(***************************************************************************)
(* Proofs about the requests to a web worker, for every number of callers  *)
(* and requests, every list of authorized keys and every limit of a page.  *)
(***************************************************************************)
EXTENDS Requests, SequenceTheorems, TLAPS

Stage == {"idle", "body", "cors", "signature", "auth", "route", "writer", "replied", "cut"}
Check == {"walletId", "range", "address", "addresses"}
Call ==
  [stage : Stage \ {"idle"}, request : Request, height : Int,
   identity : Key \cup {NoIdentity}, checks : Seq(Check), range : PageRange,
   replies : Nat, status : Nat, told : Parameter]

Pending == Stage \ {"idle", "replied", "cut"}

----------------------------------------------------------------------------
(* What holds of each call                                                 *)

\* The identity of a call was proved by its signature.
Proved(r) ==
  r.identity \in Key =>
    r.request.credential.identity = r.identity /\ r.request.credential.signature = r.identity

\* A call past the middleware has an identity that may be there.
Admitted(r) ==
  r.stage \in {"route", "writer"} \/ r.status \in {200, 201} => IsAuthorized(r.identity)

\* The reply is counted once.
Counted(r) ==
  /\ r.replies \in {0, 1}
  /\ r.stage \in Pending => r.replies = 0 /\ r.status = 0

\* The checks of a page are still those of its route, and its end is that of the
\* headers, or else its range is still to be checked.
RangeChecks == {<<"walletId", "range">>, <<"range">>}
PageEnd(r) ==
  /\ r.stage \in Pending \ {"route", "writer"} => r.checks = Checks(r.request.route)
  /\ r.stage = "route" =>
       /\ r.told = r.height
       /\ r.request.route \in Ranged /\ r.request.range.end = Absent =>
            r.checks \in RangeChecks \/ r.range.end = r.height

Good(r) == r \in Call /\ Proved(r) /\ Admitted(r) /\ Counted(r) /\ PageEnd(r)

IInv ==
  /\ tip \in Int \cup {Absent} /\ seen \in Int
  /\ DOMAIN call = Client /\ call = [c \in Client |-> call[c]]
  /\ \A c \in Client : call[c] = Idle \/ Good(call[c])

LEMMA ChecksOfPage ==
  ASSUME NEW route \in Ranged
  PROVE  Checks(route) = <<"walletId", "range">>
<1>1. route \notin {"putAddress", "postAddresses"}
  BY DEF Ranged
<1>2. Checks(route) = <<"walletId">> \o <<"range">> \o <<>> \o <<>>
  BY <1>1 DEF Checks
<1>3. <<"walletId">> \o <<"range">> = <<"walletId", "range">>
  <2> DEFINE a == <<"walletId">>
             b == <<"range">>
             q == a \o b
             p == <<"walletId", "range">>
  <2>1. a \in Seq(Check) /\ b \in Seq(Check) /\ Len(a) = 1 /\ Len(b) = 1
    BY DEF Check
  <2>2. /\ p \in Seq(Check) /\ Len(p) = 2 /\ p[1] = "walletId" /\ p[2] = "range"
    BY DEF Check
  <2>3. a[1] = "walletId" /\ b[1] = "range"
    OBVIOUS
  <2> HIDE DEF a, b, p
  <2>4. q \in Seq(Check) /\ Len(q) = 2 /\ q[1] = a[1] /\ q[2] = b[1]
    <3>1. /\ q \in Seq(Check) /\ Len(q) = Len(a) + Len(b)
          /\ \A i \in 1..Len(a) + Len(b) :
               q[i] = IF i <= Len(a) THEN a[i] ELSE b[i - Len(a)]
      BY <2>1, ConcatProperties
    <3>2. 1 \in 1..Len(a) + Len(b) /\ 2 \in 1..Len(a) + Len(b)
      BY <2>1
    <3> HIDE DEF q
    <3>3. q[1] = a[1] /\ q[2] = b[2 - Len(a)]
      BY <2>1, <3>1, <3>2
    <3> QED
      BY <2>1, <3>1, <3>3
  <2> HIDE DEF q
  <2>5. \A i \in 1..Len(q) : q[i] = p[i]
    BY <2>2, <2>3, <2>4
  <2>6. q = p
    BY <2>2, <2>4, <2>5, SeqEqual
  <2> QED
    BY <2>6 DEF a, b, p, q
<1>4. <<"walletId", "range">> \in Seq(Check)
  BY DEF Check
<1> QED
  BY <1>2, <1>3, <1>4, ConcatEmptySeq

LEMMA ChecksType ==
  ASSUME NEW route \in Route
  PROVE  Checks(route) \in Seq(Check)
<1> DEFINE a == IF route \in Ranged \cup Queued \cup {"balance", "utxos"} THEN <<"walletId">> ELSE <<>>
           b == IF route \in Ranged THEN <<"range">> ELSE <<>>
           d == IF route = "putAddress" THEN <<"address">> ELSE <<>>
           e == IF route = "postAddresses" THEN <<"addresses">> ELSE <<>>
<1>1. /\ <<>> \in Seq(Check)
      /\ <<"walletId">> \in Seq(Check) /\ <<"range">> \in Seq(Check)
      /\ <<"address">> \in Seq(Check) /\ <<"addresses">> \in Seq(Check)
  BY DEF Check
<1>2. a \in Seq(Check) /\ b \in Seq(Check) /\ d \in Seq(Check) /\ e \in Seq(Check)
  BY <1>1
<1>3. Checks(route) = a \o b \o d \o e
  BY DEF Checks
<1> HIDE DEF a, b, d, e
<1>4. a \o b \in Seq(Check)
  BY <1>2, ConcatProperties
<1>5. a \o b \o d \in Seq(Check)
  BY <1>2, <1>4, ConcatProperties
<1> QED
  BY <1>2, <1>3, <1>5, ConcatProperties

\* One call moves, the others stay.
LEMMA BecomeKeeps ==
  ASSUME IInv, NEW c \in Client, NEW new, new = Idle \/ Good(new), Become(c, new)
  PROVE  IInv'
BY DEF IInv, Become

\* A reply that is no success may be written any time, a success past the middleware.
LEMMA ReplyKeeps ==
  ASSUME IInv, NEW c \in Client, NEW s \in Nat, call[c].stage \in Pending, Reply(c, s),
         s \in {200, 201} => call[c].stage \in {"route", "writer"}
  PROVE  IInv'
<1> DEFINE r == call[c]
           q == Replied(r, s)
<1>1. Good(r)
  BY DEF IInv, Pending, Idle
<1>2. q = [r EXCEPT !.stage = "replied", !.status = s, !.replies = r.replies + 1]
  BY DEF Replied
<1>3. r \in Call /\ r.replies = 0
  BY <1>1 DEF Good, Counted
<1>4. q \in Call
  <2> DEFINE n == r.replies + 1
  <2>1. n \in Nat /\ "replied" \in Stage \ {"idle"}
    BY <1>3 DEF Stage
  <2> HIDE DEF n
  <2> QED
    BY <1>2, <1>3, <2>1 DEF Call, n
<1>5. /\ q.stage = "replied" /\ q.status = s /\ q.replies = 1
      /\ q.request = r.request /\ q.identity = r.identity
  BY <1>2, <1>3 DEF Call
<1>6. Proved(q) /\ Admitted(q) /\ Counted(q) /\ PageEnd(q)
  BY <1>1, <1>5 DEF Good, Proved, Admitted, Counted, PageEnd, Pending
<1>7. Good(q)
  BY <1>4, <1>6 DEF Good
<1> QED
  BY <1>7, BecomeKeeps DEF Reply

\* A call goes on without a reply, its identity or its range.
LEMMA GoToKeeps ==
  ASSUME IInv, NEW c \in Client, call[c].stage \in Pending, NEW stage, GoTo(c, stage),
         \/ stage = "cut"
         \/ stage = "writer" /\ call[c].stage = "route"
         \/ stage \in {"cors", "signature", "auth"} /\ call[c].stage \notin {"route", "writer"}
  PROVE  IInv'
<1> DEFINE r == call[c]
           q == [r EXCEPT !.stage = stage]
<1>1. Good(r) /\ r \in Call
  BY DEF IInv, Pending, Idle, Good
<1>2. stage \in Stage \ {"idle"}
  BY DEF Stage
<1>3. q \in Call
  BY <1>1, <1>2 DEF Call
<1>4. /\ q.stage = stage /\ q.status = r.status /\ q.replies = r.replies
      /\ q.request = r.request /\ q.identity = r.identity /\ q.checks = r.checks
  BY <1>1 DEF Call
<1>5. Proved(q) /\ Admitted(q) /\ Counted(q) /\ PageEnd(q)
  BY <1>1, <1>4 DEF Good, Proved, Admitted, Counted, PageEnd, Pending, Stage
<1>6. Good(q)
  BY <1>3, <1>5 DEF Good
<1> QED
  BY <1>6, BecomeKeeps DEF GoTo
\* A check of the route is passed.
LEMMA PassedKeeps ==
  ASSUME IInv, NEW c \in Client, NEW check, AtCheck(c, check),
         NEW range \in PageRange,
         Become(c, Passed([call[c] EXCEPT !.range = range])),
         \/ check # "range" /\ range = call[c].range
         \/ check = "range" /\ (call[c].request.range.end = Absent => range.end = call[c].height)
  PROVE  IInv'
<1> DEFINE r == call[c]
           q == Passed([r EXCEPT !.range = range])
<1>1. r.stage = "route" /\ r.checks # <<>> /\ Head(r.checks) = check
  BY DEF AtCheck, At
<1>2. Good(r) /\ r \in Call /\ r.checks \in Seq(Check)
  BY <1>1 DEF IInv, Idle, Good, Call
<1>3. Tail(r.checks) \in Seq(Check)
  BY <1>1, <1>2, HeadTailProperties
<1>4. q = [r EXCEPT !.range = range, !.checks = Tail(r.checks)]
  BY <1>2 DEF Passed, Call
<1>5. q \in Call
  BY <1>2, <1>3, <1>4 DEF Call
<1>6. /\ q.stage = "route" /\ q.status = r.status /\ q.replies = r.replies
      /\ q.request = r.request /\ q.identity = r.identity /\ q.checks = Tail(r.checks)
      /\ q.range = range /\ q.told = r.told /\ q.height = r.height
  BY <1>1, <1>2, <1>4 DEF Call
<1>7. Proved(q) /\ Admitted(q) /\ Counted(q)
  BY <1>1, <1>2, <1>6 DEF Good, Proved, Admitted, Counted
<1>8. PageEnd(q)
  <2> SUFFICES ASSUME r.request.route \in Ranged, r.request.range.end = Absent,
                      q.checks \notin RangeChecks
               PROVE  range.end = r.height
    BY <1>1, <1>2, <1>6 DEF Good, PageEnd, Pending
  <2>1. r.checks \in RangeChecks \/ r.range.end = r.height
    BY <1>1, <1>2 DEF Good, PageEnd
  <2>2. CASE check = "range"
    BY <2>2
  <2>3. CASE check # "range" /\ r.checks \in RangeChecks
    <3>1. r.checks = <<"walletId", "range">>
      BY <1>1, <2>3 DEF RangeChecks
    <3>2. Tail(r.checks) = <<"range">>
      BY <3>1
    <3> QED
      BY <1>6, <3>2 DEF RangeChecks
  <2>4. CASE check # "range" /\ r.range.end = r.height
    BY <2>4
  <2> QED
    BY <2>1, <2>2, <2>3, <2>4
<1>9. Good(q)
  BY <1>5, <1>7, <1>8 DEF Good
<1> QED
  BY <1>9, BecomeKeeps

----------------------------------------------------------------------------
(* Every step                                                              *)

LEMMA InitIInv == Init => IInv
BY RequestAssumption DEF Init, IInv, Idle

\* A request arrives.
LEMMA ArrivalKeeps ==
  ASSUME IInv, NEW c \in Client, NEW request \in RequestsOf[c], ChainInfo(c, request)
  PROVE  IInv'
<1> DEFINE q == call'[c]
<1>1. request \in Request /\ request.route \in Route
  BY RequestAssumption DEF Request
<1>2. seen' \in Int /\ tip' = tip
  BY DEF ChainInfo, Latest, IInv
<1>3. call' = [call EXCEPT ![c] = q]
  BY DEF ChainInfo, IInv
<1>4. q = [stage |-> "body", request |-> request, height |-> seen',
           identity |-> NoIdentity, checks |-> Checks(request.route),
           range |-> NoRange, replies |-> 0, status |-> 0, told |-> Absent]
  BY DEF ChainInfo, IInv
<1>5. Checks(request.route) \in Seq(Check)
  BY <1>1, ChecksType
<1>6. NoRange \in PageRange /\ Absent \in Parameter
  <2> DEFINE limit == DefaultLimit
  <2>1. limit \in Int /\ 0 \in Int
    BY RequestAssumption
  <2>2. NoRange = [height |-> 0, index |-> 0, limit |-> limit, end |-> 0]
    BY DEF NoRange
  <2> HIDE DEF limit
  <2> QED
    BY <2>1, <2>2 DEF PageRange, Parameter
<1> DEFINE zero == 0
<1>7. zero \in Nat
  OBVIOUS
<1>8. q = [stage |-> "body", request |-> request, height |-> seen',
           identity |-> NoIdentity, checks |-> Checks(request.route),
           range |-> NoRange, replies |-> zero, status |-> zero, told |-> Absent]
  BY <1>4
<1> HIDE DEF q, zero
<1>9. q \in Call
  BY <1>1, <1>2, <1>5, <1>6, <1>7, <1>8 DEF Call, Stage
<1>10. NoIdentity \notin Key
  BY RequestAssumption DEF NoIdentity, Wrong
<1>11. Proved(q) /\ Admitted(q) /\ Counted(q) /\ PageEnd(q)
  BY <1>4, <1>10 DEF Proved, Admitted, Counted, PageEnd, Pending
<1>12. Good(q)
  BY <1>9, <1>11 DEF Good
<1> QED
  BY <1>2, <1>3, <1>12 DEF IInv

\* The signature proves the identity, and the configuration knows it.
LEMMA MiddlewareKeeps ==
  ASSUME IInv, NEW c \in Client, ReadBody(c) \/ EnableCORS(c) \/ CheckSignature(c) \/ CheckAuth(c)
  PROVE  IInv'
<1> DEFINE r == call[c]
<1>1. r.stage \in Pending \ {"route", "writer"}
  BY DEF ReadBody, EnableCORS, CheckSignature, CheckAuth, At, Pending, Stage
<1>2. Good(r) /\ r \in Call
  BY <1>1 DEF IInv, Pending, Idle, Good
<1>3. ASSUME NEW s \in {204, 400, 401, 500}, Reply(c, s)
      PROVE  IInv'
  BY <1>1, <1>3, ReplyKeeps
<1>4. ASSUME NEW stage \in {"cors", "signature", "auth"}, GoTo(c, stage)
      PROVE  IInv'
  BY <1>1, <1>4, GoToKeeps
<1>5. CASE ReadBody(c) \/ EnableCORS(c)
  BY <1>3, <1>4, <1>5 DEF ReadBody, EnableCORS
<1>6. CASE CheckSignature(c)
  <2> DEFINE k == r.request.credential.identity
             q == [r EXCEPT !.stage = "auth", !.identity = k]
  <2>1. ASSUME k \in Key, r.request.credential.signature = k, Become(c, q)
        PROVE  IInv'
    <3>1. "auth" \in Stage \ {"idle"}
      BY DEF Stage
    <3>2. q \in Call
      BY <1>2, <2>1, <3>1 DEF Call
    <3>3. /\ q.stage = "auth" /\ q.status = r.status /\ q.replies = r.replies
          /\ q.request = r.request /\ q.identity = k /\ q.checks = r.checks
      BY <1>2 DEF Call
    <3>4. Proved(q) /\ Admitted(q) /\ Counted(q) /\ PageEnd(q)
      BY <1>1, <1>2, <2>1, <3>3 DEF Good, Proved, Admitted, Counted, PageEnd, Pending
    <3> QED
      BY <2>1, <3>2, <3>4, BecomeKeeps DEF Good
  <2>2. \/ \E s \in {400, 401, 500} : Reply(c, s)
        \/ GoTo(c, "auth")
        \/ k \in Key /\ r.request.credential.signature = k /\ Become(c, q)
    BY <1>6 DEF CheckSignature, Importable
  <2> QED
    BY <1>3, <1>4, <2>1, <2>2
<1>7. CASE CheckAuth(c)
  <2> DEFINE q == [r EXCEPT !.stage = "route", !.told = r.height]
  <2>1. ASSUME IsAuthorized(r.identity), Become(c, q)
        PROVE  IInv'
    <3>1. "route" \in Stage \ {"idle"} /\ r.height \in Parameter
      BY <1>2 DEF Stage, Call, Parameter
    <3>2. q \in Call
      BY <1>2, <3>1 DEF Call
    <3>3. /\ q.stage = "route" /\ q.status = r.status /\ q.replies = r.replies
          /\ q.request = r.request /\ q.identity = r.identity /\ q.checks = r.checks
          /\ q.told = r.height /\ q.height = r.height
      BY <1>2 DEF Call
    <3>4. r.checks = Checks(r.request.route)
      BY <1>1, <1>2 DEF Good, PageEnd
    <3>5. r.request.route \in Ranged => r.checks \in RangeChecks
      BY <3>4, ChecksOfPage DEF RangeChecks
    <3>6. Proved(q) /\ Admitted(q) /\ Counted(q) /\ PageEnd(q)
      BY <1>1, <1>2, <2>1, <3>3, <3>5
        DEF Good, Proved, Admitted, Counted, PageEnd, Pending
    <3> QED
      BY <2>1, <3>2, <3>6, BecomeKeeps DEF Good
  <2> QED
    BY <1>3, <1>7, <2>1 DEF CheckAuth
<1> QED
  BY <1>5, <1>6, <1>7

\* The range of a request without an end ends at its height.
LEMMA ChecksKeep ==
  ASSUME IInv, NEW c \in Client,
         CheckWalletId(c) \/ CheckAddress(c) \/ CheckAddresses(c) \/ CheckRangeParams(c)
  PROVE  IInv'
<1> DEFINE r == call[c]
<1>1. r.stage = "route" /\ r.stage \in Pending
  BY DEF CheckWalletId, CheckAddress, CheckAddresses, CheckRangeParams, AtCheck, At, Pending, Stage
<1>2. Good(r) /\ r \in Call
  BY <1>1 DEF IInv, Idle, Good
<1>3. ASSUME NEW s \in {400, 500}, Reply(c, s)
      PROVE  IInv'
  BY <1>1, <1>3, ReplyKeeps
<1>4. r = [r EXCEPT !.range = r.range] /\ r.range \in PageRange
  BY <1>2 DEF Call
<1>5. ASSUME NEW check \in {"walletId", "address", "addresses"}, AtCheck(c, check),
             Become(c, Passed(r))
      PROVE  IInv'
  BY <1>4, <1>5, PassedKeeps
<1>6. CASE CheckWalletId(c)
  BY <1>3, <1>5, <1>6 DEF CheckWalletId
<1>7. CASE CheckAddress(c)
  BY <1>3, <1>5, <1>7 DEF CheckAddress
<1>8. CASE CheckAddresses(c)
  BY <1>3, <1>5, <1>8 DEF CheckAddresses
<1>9. CASE CheckRangeParams(c)
  <2> DEFINE query == r.request.range
             range == Sanitized(query, r.height)
  <2>1. AtCheck(c, "range")
    BY <1>9 DEF CheckRangeParams
  <2>2. query \in PageRange /\ r.height \in Parameter
    BY <1>2 DEF Call, Request, Parameter
  <2>3. range \in PageRange
    <3>1. \A x \in Parameter, y \in Parameter : Or(x, y) \in Parameter
      BY DEF Or
    <3>2. 0 \in Parameter /\ DefaultLimit \in Parameter
      BY RequestAssumption DEF Parameter
    <3>3. /\ query.height \in Parameter /\ query.index \in Parameter
          /\ query.limit \in Parameter /\ query.end \in Parameter
      BY <2>2 DEF PageRange
    <3> QED
      BY <2>2, <3>1, <3>2, <3>3 DEF Sanitized, PageRange
  <2>4. query.end = Absent => range.end = r.height
    BY DEF Sanitized, Or
  <2>5. ASSUME Become(c, Passed([r EXCEPT !.range = range]))
        PROVE  IInv'
    BY <2>1, <2>3, <2>4, <2>5, PassedKeeps
  <2> QED
    BY <1>3, <1>9, <2>5 DEF CheckRangeParams
<1> QED
  BY <1>6, <1>7, <1>8, <1>9

\* The endpoints, the writer's answer and the timeout.
LEMMA EndpointKeeps ==
  ASSUME IInv, NEW c \in Client,
         \/ Balance(c) \/ Txids(c) \/ UTXOs(c) \/ GetInfo(c) \/ NotFound(c)
         \/ Transactions(c) \/ RawTransactions(c) \/ HeightsFromTimestamps(c)
         \/ QueueTask(c) \/ WriterAnswers(c)
  PROVE  IInv'
<1> DEFINE r == call[c]
<1>1. r.stage \in {"route", "writer"} /\ r.stage \in Pending
  BY DEF Balance, Txids, UTXOs, GetInfo, NotFound, Transactions, RawTransactions,
         HeightsFromTimestamps, QueueTask, WriterAnswers, AtEndpoint, At, Pending, Stage
<1>2. ASSUME NEW s \in {0, 200, 201, 204, 400, 404, 503}, Reply(c, s)
      PROVE  IInv'
  BY <1>1, <1>2, ReplyKeeps
<1>3. CASE \/ Balance(c) \/ Txids(c) \/ UTXOs(c) \/ GetInfo(c) \/ NotFound(c)
           \/ Transactions(c) \/ RawTransactions(c) \/ HeightsFromTimestamps(c)
  BY <1>2, <1>3 DEF Balance, Txids, UTXOs, GetInfo, NotFound, Transactions,
                    RawTransactions, HeightsFromTimestamps, ConvertDateToHeight
<1>4. CASE QueueTask(c)
  <2>1. r.stage = "route" /\ GoTo(c, "writer")
    BY <1>4 DEF QueueTask, AtEndpoint, At
  <2> QED
    BY <1>1, <2>1, GoToKeeps
<1>5. CASE WriterAnswers(c)
  <2>1. ASSUME NEW answer
        PROVE  /\ PutAddress(answer) \in {200, 201, 503}
               /\ PostAddresses(answer) \in {201, 204, 503}
               /\ PutWallet(answer) \in {201, 204, 503}
    BY DEF PutAddress, PostAddresses, PutWallet
  <2> QED
    BY <1>2, <1>5, <2>1 DEF WriterAnswers
<1> QED
  BY <1>3, <1>4, <1>5

\* The worker dies: what is pending is cut.
LEMMA DeathKeeps ==
  ASSUME IInv, WorkerDies
  PROVE  IInv'
<1>1. seen' \in Int /\ tip' = tip /\ call' = [c \in Client |-> call'[c]] /\ DOMAIN call' = Client
  BY RequestAssumption DEF WorkerDies, IInv
<1>2. ASSUME NEW c \in Client
      PROVE  call'[c] = Idle \/ Good(call'[c])
  <2> DEFINE r == call[c]
             q == [r EXCEPT !.stage = "cut"]
  <2>1. r = Idle \/ Good(r)
    BY DEF IInv
  <2>2. CASE call'[c] = r
    BY <2>1, <2>2
  <2>3. CASE call'[c] = q /\ r.stage \notin {"idle", "replied"}
    <3>1. Good(r) /\ r \in Call
      BY <2>1, <2>3 DEF Idle, Good
    <3>2. "cut" \in Stage \ {"idle"}
      BY DEF Stage
    <3>3. q \in Call
      BY <3>1, <3>2 DEF Call
    <3>4. /\ q.stage = "cut" /\ q.status = r.status /\ q.replies = r.replies
          /\ q.request = r.request /\ q.identity = r.identity
      BY <3>1 DEF Call
    <3>5. Proved(q) /\ Admitted(q) /\ Counted(q) /\ PageEnd(q)
      BY <3>1, <3>4 DEF Good, Proved, Admitted, Counted, PageEnd, Pending
    <3> QED
      BY <2>3, <3>3, <3>5 DEF Good
  <2> QED
    BY <2>2, <2>3 DEF WorkerDies
<1> QED
  BY <1>1, <1>2 DEF IInv

LEMMA NextIInv == IInv /\ [Next]_vars => IInv'
<1> SUFFICES ASSUME IInv, [Next]_vars PROVE IInv'
  OBVIOUS
<1>1. CASE UNCHANGED vars
  BY <1>1 DEF vars, IInv
<1>2. CASE MoveTip
  <2>1. tip' \in Int /\ UNCHANGED <<seen, call>>
    BY <1>2 DEF MoveTip
  <2> QED
    BY <2>1 DEF IInv
<1>3. CASE WorkerDies
  BY <1>3, DeathKeeps
<1>4. ASSUME NEW c \in Client, Timeout(c)
      PROVE  IInv'
  <2>1. call[c].stage \in Pending /\ GoTo(c, "cut")
    BY <1>4 DEF Timeout, Pending, IInv, Good, Call, Idle
  <2> QED
    BY <2>1, GoToKeeps
<1>5. ASSUME NEW c \in Client, ClientHears(c)
      PROVE  IInv'
  BY <1>5, BecomeKeeps DEF ClientHears
<1>6. ASSUME NEW c \in Client,
             \/ \E r \in RequestsOf[c] : ChainInfo(c, r)
             \/ ReadBody(c) \/ Serve(c) \/ WriterAnswers(c)
      PROVE  IInv'
  BY <1>6, ArrivalKeeps, MiddlewareKeeps, ChecksKeep, EndpointKeeps DEF Serve
<1> QED
  BY <1>1, <1>2, <1>3, <1>4, <1>5, <1>6 DEF Next

THEOREM Invariance == Spec => []IInv
BY InitIInv, NextIInv, PTL DEF Spec

\* No request passes the middleware, and none is told of a success, without the
\* signature of a key that is listed (_middlewareCheckSignature,
\* _middlewareCheckAuth), for every list of keys and every set of requests.
THEOREM Authorization == Spec => []OnlyAuthorized
<1>1. IInv => OnlyAuthorized
  <2> SUFFICES ASSUME IInv, AuthorizedKeys # {}, NEW c \in Client,
                      call[c].stage \in {"route", "writer"} \/ call[c].status \in {200, 201}
               PROVE  Signed(call[c].request)
    BY DEF OnlyAuthorized
  <2>1. Good(call[c])
    BY DEF IInv, Idle
  <2>2. call[c].identity \in AuthorizedKeys
    BY <2>1 DEF Good, Admitted, IsAuthorized
  <2>3. call[c].identity \in Key
    BY <2>2, RequestAssumption
  <2> QED
    BY <2>1, <2>2, <2>3 DEF Good, Proved, Signed
<1> QED
  BY <1>1, Invariance, PTL

\* A request is answered at most once (the middleware, the checks, sendError).
THEOREM OnlyOneReply == Spec => []OneReply
<1>1. IInv => OneReply
  <2> SUFFICES ASSUME IInv, NEW c \in Client PROVE call[c].replies <= 1
    BY DEF OneReply
  <2>1. call[c].replies \in {0, 1}
    BY DEF IInv, Good, Counted, Idle
  <2> QED
    BY <2>1
<1> QED
  BY <1>1, Invariance, PTL

\* A page ends at the height its headers tell, however many requests move the
\* worker's own in between (_middlewareChainInfo, checkRangeParams).
THEOREM PageEnds == Spec => []PageEndsAtTheHeightTold
<1>1. IInv => PageEndsAtTheHeightTold
  <2> SUFFICES ASSUME IInv, NEW c \in Client, NEW route \in Ranged, AtEndpoint(c, route),
                      call[c].request.range.end = Absent
               PROVE  call[c].range.end = call[c].told
    BY DEF PageEndsAtTheHeightTold
  <2>1. Good(call[c]) /\ call[c].stage = "route" /\ call[c].checks = <<>>
    BY DEF IInv, Idle, AtEndpoint, At
  <2>2. call[c].checks \notin RangeChecks
    BY <2>1 DEF RangeChecks
  <2> QED
    BY <2>1, <2>2 DEF Good, PageEnd, AtEndpoint
<1> QED
  BY <1>1, Invariance, PTL

=============================================================================
