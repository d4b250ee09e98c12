------------------------------ MODULE Requests ------------------------------
(***************************************************************************)
(* One web worker (lib/web-workers.js) and its HTTP clients                *)
(* (lib/client/index.js): the middleware a request walks through, the      *)
(* checks of its route, its endpoint, the reply, and the one callback the  *)
(* client is owed.  The worker's view of the chain (seen) is shared by all *)
(* requests; a body arrives after the request has read that view.  What an *)
(* endpoint reads is in WalletReader, what the writer does in WorkQueue.   *)
(***************************************************************************)
EXTENDS Integers, Sequences

CONSTANTS
  Client,          \* callers
  RequestsOf,      \* RequestsOf[c]: the requests caller c may send
  Key,             \* API key pairs
  AuthorizedKeys,  \* wallet.authorizedKeys of the configuration
  NaN,             \* a query parameter that is not a number
  Absent,          \* a query parameter that is not there
  DefaultLimit, MaxLimit,   \* 10 and 500
  StartHeight,     \* bitcoinHeight of the worker's options
  TopHeight        \* bound: the highest tip

Wrong == {"none", "nothex", "unusable"}
Credential ==
  [identity : Key \cup Wrong, signature : Key \cup Wrong,
   nonce : {"none", "nothex", "hex"}]
Ranged == {"txids", "transactions", "rawtransactions"}
Queued == {"putAddress", "postAddresses", "putWallet"}
Route == Ranged \cup Queued
           \cup {"balance", "utxos", "info", "timestamps", "options", "other"}
Parameter == Int \cup {NaN, Absent}
PageRange == [height : Parameter, index : Parameter, limit : Parameter, end : Parameter]
Request ==
  [route : Route, credential : Credential, body : {"none", "json", "broken"},
   walletId : BOOLEAN, addresses : {"none", "bad", "good"}, range : PageRange]

ASSUME RequestAssumption ==
  /\ \A c \in Client : RequestsOf[c] \subseteq Request
  /\ AuthorizedKeys \subseteq Key
  /\ Key \cap Wrong = {}
  /\ NaN \notin Int /\ Absent \notin Int /\ NaN # Absent
  /\ DefaultLimit \in 1..MaxLimit /\ MaxLimit \in Nat
  /\ TopHeight \in Nat /\ StartHeight \in 0..TopHeight

VARIABLES
  tip,    \* height of the last block in the database; Absent without a wallet
  seen,   \* the worker's bitcoinHeight
  call    \* what has become of each caller's request

vars == <<tip, seen, call>>

NoIdentity == "none"
NoRange == [height |-> 0, index |-> 0, limit |-> DefaultLimit, end |-> 0]

\* The checks a route lists before its endpoint.
Checks(route) ==
  (IF route \in Ranged \cup Queued \cup {"balance", "utxos"} THEN <<"walletId">> ELSE <<>>)
    \o (IF route \in Ranged THEN <<"range">> ELSE <<>>)
    \o (IF route = "putAddress" THEN <<"address">> ELSE <<>>)
    \o (IF route = "postAddresses" THEN <<"addresses">> ELSE <<>>)

Idle == [stage |-> "idle", replies |-> 0, status |-> 0, told |-> Absent]
At(c, stage) == call[c].stage = stage
AtCheck(c, check) ==
  At(c, "route") /\ call[c].checks # <<>> /\ Head(call[c].checks) = check
AtEndpoint(c, route) ==
  At(c, "route") /\ call[c].checks = <<>> /\ call[c].request.route = route

Become(c, new) == call' = [call EXCEPT ![c] = new] /\ UNCHANGED <<tip, seen>>
GoTo(c, stage) == Become(c, [call[c] EXCEPT !.stage = stage])
Passed(r) == [r EXCEPT !.checks = Tail(@)]

\* sendError, or a response of the endpoint: the reply is written.
Replied(r, s) ==
  [r EXCEPT !.stage = "replied", !.status = s, !.replies = @ + 1]
Reply(c, s) == Become(c, Replied(call[c], s))

Init ==
  /\ tip \in {Absent, StartHeight}
  /\ seen = StartHeight
  /\ call = [c \in Client |-> Idle]

\* The writer commits: the tip moves by one block, or the first wallet is made.
MoveTip ==
  /\ tip' \in 0..TopHeight
  /\ tip # Absent => tip' \in {tip - 1, tip + 1}
  /\ tip = Absent => tip' = StartHeight
  /\ UNCHANGED <<seen, call>>

Latest == IF tip = Absent THEN seen ELSE tip

\* A request arrives and the chain info is set before its body is read.
ChainInfo(c, r) ==
  /\ At(c, "idle")
  /\ seen' = Latest
  /\ call' = [call EXCEPT ![c] =
                [stage |-> "body", request |-> r, height |-> seen',
                 identity |-> NoIdentity, checks |-> Checks(r.route),
                 range |-> NoRange, replies |-> 0, status |-> 0, told |-> Absent]]
  /\ UNCHANGED tip

ReadBody(c) ==
  /\ At(c, "body")
  /\ \/ call[c].request.body = "broken" /\ Reply(c, 400)
     \/ call[c].request.body # "broken" /\ GoTo(c, "cors")

EnableCORS(c) ==
  /\ At(c, "cors")
  /\ \/ call[c].request.route = "options" /\ Reply(c, 204)
     \/ call[c].request.route # "options" /\ GoTo(c, "signature")

WellFormed(credential) == \A f \in DOMAIN credential : credential[f] # "nothex"
Importable(credential) ==
  credential.signature \in Key /\ credential.identity \in Key

\* Mutant: the identity is taken before the signature is verified.
TakeIdentity(c) ==
  /\ At(c, "signature")
  /\ Become(c, [call[c] EXCEPT !.stage = "auth",
                   !.identity = call[c].request.credential.identity])

\* Without an identity nothing is checked.  The hash needs a nonce and the bytes
\* of a body: without them the handler throws, and express answers 500.
CheckSignature(c) ==
  LET credential == call[c].request.credential
      hashed == credential.nonce # "none" /\ call[c].request.body # "none"
  IN /\ At(c, "signature")
     /\ \/ credential.identity = "none" /\ GoTo(c, "auth")
        \/ /\ credential.identity # "none"
           /\ \/ ~WellFormed(credential) /\ Reply(c, 400)
              \/ WellFormed(credential) /\ ~hashed /\ Reply(c, 500)
              \/ /\ WellFormed(credential) /\ hashed
                 /\ ~Importable(credential) /\ Reply(c, 400)
              \/ /\ WellFormed(credential) /\ hashed /\ Importable(credential)
                 /\ \/ /\ credential.signature # credential.identity
                       /\ Reply(c, 401)
                    \/ /\ credential.signature = credential.identity
                       /\ Become(c, [call[c] EXCEPT !.stage = "auth",
                                               !.identity = credential.identity])

IsAuthorized(identity) == AuthorizedKeys = {} \/ identity \in AuthorizedKeys

\* An identity that is known goes on, with the headers of the chain.
CheckAuth(c) ==
  /\ At(c, "auth")
  /\ \/ ~IsAuthorized(call[c].identity) /\ Reply(c, 401)
     \/ /\ IsAuthorized(call[c].identity)
        /\ Become(c, [call[c] EXCEPT !.stage = "route", !.told = call[c].height])

CheckWalletId(c) ==
  /\ AtCheck(c, "walletId")
  /\ \/ ~call[c].request.walletId /\ Reply(c, 400)
     \/ call[c].request.walletId /\ Become(c, Passed(call[c]))

\* Mutant: the handler goes on after it has sent an error.
CheckAddressAndGoOn(c) ==
  /\ AtCheck(c, "address")
  /\ \/ /\ call[c].request.addresses # "good"
        /\ Become(c, [Passed(call[c]) EXCEPT !.replies = @ + 1])
     \/ call[c].request.addresses = "good" /\ Become(c, Passed(call[c]))

CheckAddress(c) ==
  /\ AtCheck(c, "address")
  /\ \/ call[c].request.addresses # "good" /\ Reply(c, 400)
     \/ call[c].request.addresses = "good" /\ Become(c, Passed(call[c]))

CheckAddresses(c) ==
  /\ AtCheck(c, "addresses")
  /\ \/ call[c].request.addresses # "good" /\ Reply(c, 400)
     \/ call[c].request.addresses = "good" /\ Become(c, Passed(call[c]))

\* x || otherwise
Or(x, otherwise) == IF x \in {0, NaN, Absent} THEN otherwise ELSE x

Sanitized(query, height) ==
  [height |-> Or(query.height, 0), index |-> Or(query.index, 0),
   limit |-> Or(query.limit, DefaultLimit), end |-> Or(query.end, height)]

IsRange(range) ==
  /\ range.height >= 0 /\ range.index >= 0 /\ range.end >= 0
  /\ range.limit \in 0..MaxLimit

\* Mutant: the height of the worker, not that of the request.
CheckRangeOfWorker(c) ==
  LET range == Sanitized(call[c].request.range, seen)
  IN /\ AtCheck(c, "range")
     /\ seen # 0 /\ IsRange(range) /\ range.height <= range.end
     /\ Become(c, Passed([call[c] EXCEPT !.range = range]))

\* Height zero and a range that ends before it starts fail an assertion outside
\* the try: they are answered with 500, other bad ranges with 400.
CheckRangeParams(c) ==
  LET range == Sanitized(call[c].request.range, call[c].height)
  IN /\ AtCheck(c, "range")
     /\ \/ call[c].height = 0 /\ Reply(c, 500)
        \/ call[c].height # 0 /\ ~IsRange(range) /\ Reply(c, 400)
        \/ /\ call[c].height # 0 /\ IsRange(range)
           /\ range.height > range.end /\ Reply(c, 500)
        \/ /\ call[c].height # 0 /\ IsRange(range) /\ range.height <= range.end
           /\ Become(c, Passed([call[c] EXCEPT !.range = range]))

Balance(c) == AtEndpoint(c, "balance") /\ \E s \in {200, 404} : Reply(c, s)
Txids(c) == AtEndpoint(c, "txids") /\ Reply(c, 200)
UTXOs(c) == AtEndpoint(c, "utxos") /\ Reply(c, 200)
GetInfo(c) == AtEndpoint(c, "info") /\ Reply(c, 200)
NotFound(c) == AtEndpoint(c, "other") /\ Reply(c, 404)
\* No wallet, a failing request to bitcoind, or a page.
Transactions(c) ==
  AtEndpoint(c, "transactions") /\ \E s \in {200, 404, 503} : Reply(c, s)
RawTransactions(c) ==
  AtEndpoint(c, "rawtransactions") /\ \E s \in {200, 404, 503} : Reply(c, s)

\* Two heights, fewer than two blocks between the dates, or a failing request: an
\* error of bitcoind has a code, negative; one on the way to it has none, and its
\* reply no status, here 0.
ConvertDateToHeight == {200, 404, 400, 0}
HeightsFromTimestamps(c) ==
  /\ AtEndpoint(c, "timestamps")
  /\ \E s \in {400} \cup ConvertDateToHeight : Reply(c, s)

\* The three endpoints that queue a task for the writer.
QueueTask(c) ==
  /\ \E route \in Queued : AtEndpoint(c, route)
  /\ GoTo(c, "writer")

PutAddress(answer) == CASE answer = "error" -> 503 [] answer = "none" -> 200 [] OTHER -> 201
PostAddresses(answer) == CASE answer = "error" -> 503 [] answer = "none" -> 204 [] OTHER -> 201
PutWallet(answer) == CASE answer = "error" -> 503 [] answer = "none" -> 204 [] OTHER -> 201

WriterAnswers(c) ==
  /\ At(c, "writer")
  /\ \E answer \in {"error", "none", "some"} :
       \/ call[c].request.route = "putAddress" /\ Reply(c, PutAddress(answer))
       \/ call[c].request.route = "postAddresses" /\ Reply(c, PostAddresses(answer))
       \/ call[c].request.route = "putWallet" /\ Reply(c, PutWallet(answer))

\* Mutant: no timeout once the writer has the task.
TimeoutBeforeTask(c) ==
  call[c].stage \notin {"idle", "replied", "cut", "writer"} /\ GoTo(c, "cut")

\* Eight minutes without traffic close the socket of a request.
Timeout(c) ==
  /\ call[c].stage \notin {"idle", "replied", "cut"}
  /\ GoTo(c, "cut")

\* The worker dies and is started again with the options of the service.
WorkerDies ==
  /\ seen' = StartHeight
  /\ call' = [c \in Client |->
                IF call[c].stage \in {"idle", "replied"} THEN call[c]
                ELSE [call[c] EXCEPT !.stage = "cut"]]
  /\ UNCHANGED tip

\* The client's callback, once for the reply or for the error of its socket.
ClientHears(c) ==
  /\ call[c].stage \in {"replied", "cut"}
  /\ Become(c, Idle)

Serve(c) ==
  \/ EnableCORS(c) \/ CheckSignature(c) \/ CheckAuth(c)
  \/ CheckWalletId(c) \/ CheckAddress(c) \/ CheckAddresses(c) \/ CheckRangeParams(c)
  \/ Balance(c) \/ Txids(c) \/ UTXOs(c) \/ GetInfo(c) \/ NotFound(c)
  \/ Transactions(c) \/ RawTransactions(c) \/ HeightsFromTimestamps(c) \/ QueueTask(c)

Next ==
  \/ MoveTip
  \/ WorkerDies
  \/ \E c \in Client :
       \/ \E r \in RequestsOf[c] : ChainInfo(c, r)
       \/ ReadBody(c) \/ Serve(c) \/ WriterAnswers(c) \/ Timeout(c) \/ ClientHears(c)

\* The event loop runs what is ready, and timers fire; a body, the writer and
\* bitcoind may stay away for ever.
Fairness ==
  \A c \in Client : WF_vars(Serve(c)) /\ WF_vars(Timeout(c)) /\ WF_vars(ClientHears(c))

Spec == Init /\ [][Next]_vars /\ Fairness

----------------------------------------------------------------------------
Signed(r) ==
  r.credential.identity \in AuthorizedKeys /\ r.credential.signature = r.credential.identity

\* Past the middleware, in front of an endpoint, in the writer's queue or with a
\* reply that says so, there are only requests signed with a key the
\* configuration lists, unless it lists none (_middlewareCheckSignature and
\* _middlewareCheckAuth together; a request without an identity skips the first).
OnlyAuthorized ==
  AuthorizedKeys # {} =>
    \A c \in Client :
      \/ call[c].stage \in {"route", "writer"}
      \/ call[c].status \in {200, 201}
      => Signed(call[c].request)

\* One reply per request, whichever of the middleware, the checks, the
\* endpoint and the writer's callback gives it: a handler that sends an error
\* does not also go on.
OneReply == \A c \in Client : call[c].replies <= 1

\* A page without an end of its own ends at the height its headers tell the
\* client, although other requests move the worker's height while the body of
\* this one is read (_middlewareChainInfo, checkRangeParams).
PageEndsAtTheHeightTold ==
  \A c \in Client :
    \A route \in Ranged :
      AtEndpoint(c, route) /\ call[c].request.range.end = Absent
        => call[c].range.end = call[c].told

\* Every call of a client comes back, also when the writer never answers the
\* task of its request or the worker dies (server.timeout, req.on('error')).
EveryCallReturns == \A c \in Client : call[c].stage # "idle" ~> call[c].stage = "idle"
=============================================================================
