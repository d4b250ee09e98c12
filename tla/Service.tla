------------------------------- MODULE Service -------------------------------
(***************************************************************************)
(* The processes of a wallet node: the service (lib/wallet-service.js, in  *)
(* the process bin/bwdb starts through lib/server.js), the writer, the web *)
(* master and its cluster workers (the last lines of lib/writer-worker.js  *)
(* and lib/web-workers.js).  They are started, signalled, killed and left  *)
(* behind here; what they do while they run is in the other modules.       *)
(***************************************************************************)
EXTENDS Integers, FiniteSets

CONSTANTS
  Slot,       \* places for cluster workers
  MaxDeaths   \* bound: cluster workers that die

ASSUME ServiceAssumption == IsFiniteSet(Slot) /\ Slot # {} /\ MaxDeaths \in Nat

VARIABLES
  phase,    \* of WalletService.start, then "up"; "exited" when the process is gone
  code,     \* its exit code
  stops,    \* calls of WalletService.stop: for a signal, for the writer's crash
  writer,   \* the writer's process
  web,      \* the web master's
  worker,   \* the cluster workers'
  events,   \* exits of children the service has not heard of
  deaths,
  early     \* a stop or a failing start came before the web workers were started

processes == <<writer, web, worker>>
vars == <<phase, code, stops, processes, events, deaths, early>>

Reason == {"signal", "crash"}
Child == {"writer", "web"}
NoProcess == [state |-> "none", told |-> FALSE, unclean |-> FALSE]
Spawned == [NoProcess EXCEPT !.state = "loading"]
NoStop == [called |-> {}, begun |-> FALSE, waits |-> {}, need |-> 0, exited |-> 0, failed |-> FALSE]

Alive(p) == p.state \in {"loading", "running"}
Gone(p, unclean) == [p EXCEPT !.state = "gone", !.unclean = unclean]
Up == phase # "exited"
Process(c) == IF c = "writer" THEN writer ELSE web

Init ==
  /\ phase = "spawn" /\ code = 0
  /\ stops = [r \in Reason |-> NoStop]
  /\ writer = NoProcess /\ web = NoProcess
  /\ worker = [s \in Slot |-> NoProcess]
  /\ events = {} /\ deaths = 0 /\ early = FALSE

----------------------------------------------------------------------------
(* start                                                                   *)

Starting(from, to) == phase = from /\ phase' = to /\ UNCHANGED <<code, stops, deaths, early>>

StartWriterWorker ==
  /\ Starting("spawn", "ready")
  /\ writer' = Spawned
  /\ UNCHANGED <<web, worker, events>>

\* The writer says it is ready.
Ready ==
  /\ Starting("ready", "config") /\ writer.state = "running"
  /\ UNCHANGED <<processes, events>>

SetupConfig == Starting("config", "connect") /\ UNCHANGED <<processes, events>>

\* bin/bwdb prints the error of a start and exits.
SetupConfigFails ==
  /\ phase = "config"
  /\ phase' = "exited" /\ code' = 0 /\ early' = TRUE
  /\ UNCHANGED <<stops, processes, events, deaths>>

\* An error of the socket is logged, and start goes no further.
ConnectWriterSocket ==
  /\ Starting("connect", "web") /\ writer.state = "running"
  /\ UNCHANGED <<processes, events>>

StartWebWorkers ==
  /\ Starting("web", "up")
  /\ web' = Spawned
  /\ UNCHANGED <<writer, worker, events>>

----------------------------------------------------------------------------
(* The children                                                            *)

Exits(c, unclean) ==
  /\ events' = events \cup {c}
  /\ writer' = IF c = "writer" THEN Gone(writer, unclean) ELSE writer
  /\ web' = IF c = "web" THEN Gone(web, unclean) ELSE web

\* The handlers of a process are in place once its module has run.
WriterLoads ==
  /\ writer.state = "loading" /\ ~writer.told
  /\ writer' = [writer EXCEPT !.state = "running"]
  /\ UNCHANGED <<phase, code, stops, web, worker, events, deaths, early>>

\* SIGINT kills a process that has no handler yet; the writer's closes the
\* database and exits with 0.
WriterEnds ==
  /\ Alive(writer) /\ writer.told
  /\ Exits("writer", writer.state = "loading")
  /\ UNCHANGED <<phase, code, stops, worker, deaths, early>>

WriterCrashes ==
  /\ writer.state = "running"
  /\ Exits("writer", TRUE)
  /\ UNCHANGED <<phase, code, stops, worker, deaths, early>>

\* The web master forks its workers.
MasterLoads ==
  /\ web.state = "loading" /\ ~web.told
  /\ web' = [web EXCEPT !.state = "running"]
  /\ worker' = [s \in Slot |-> Spawned]
  /\ UNCHANGED <<phase, code, stops, writer, events, deaths, early>>

MasterKilled ==
  /\ web.state = "loading" /\ web.told
  /\ Exits("web", TRUE)
  /\ UNCHANGED <<phase, code, stops, worker, deaths, early>>

\* SIGINT at the master: each worker is sent a message, which one that has not
\* loaded its configuration does not hear.
MasterSendsShutdown ==
  /\ web.state = "running" /\ web.told
  /\ worker' = [s \in Slot |-> [worker[s] EXCEPT !.told = @ \/ worker[s].state = "running"]]
  /\ web' = [web EXCEPT !.told = FALSE]
  /\ UNCHANGED <<phase, code, stops, writer, events, deaths, early>>

\* The master ends when no worker is left.
MasterEnds ==
  /\ web.state = "running"
  /\ \A s \in Slot : ~Alive(worker[s])
  /\ Exits("web", FALSE)
  /\ UNCHANGED <<phase, code, stops, worker, deaths, early>>

Worker(s, new) ==
  /\ worker' = [worker EXCEPT ![s] = new]
  /\ UNCHANGED <<phase, code, stops, writer, web, events, early>>

WorkerLoads(s) ==
  /\ worker[s].state = "loading"
  /\ Worker(s, [worker[s] EXCEPT !.state = "running"]) /\ UNCHANGED deaths

\* shutdown: the database is closed, and the process exits with 0.
WorkerEnds(s) ==
  /\ worker[s].state = "running" /\ worker[s].told
  /\ Worker(s, Gone(worker[s], FALSE)) /\ UNCHANGED deaths

\* A worker without its master exits.
WorkerDisconnects(s) ==
  /\ Alive(worker[s]) /\ ~Alive(web)
  /\ Worker(s, Gone(worker[s], FALSE)) /\ UNCHANGED deaths

\* The master forks a new worker for one that dies, also while it shuts down.
WorkerDies(s) ==
  /\ Alive(worker[s]) /\ Alive(web) /\ deaths < MaxDeaths
  /\ deaths' = deaths + 1
  /\ Worker(s, Spawned)

----------------------------------------------------------------------------
(* stop                                                                    *)

\* Mutant: both children are waited for, also the one that is not there.
NumExitOfBoth == 2

\* _writerWorkers, which is never set, does not count.
NumExit == IF web = NoProcess THEN 0 ELSE 1

\* Mutant: only the web workers.
OnlyWeb(r) == {"web"}

\* The children that are told to exit: the writer unless it has crashed.
ToExit(r) ==
  {"web"} \cup (IF r = "crash" \/ stops["crash"].begun THEN {} ELSE {"writer"})

Told(p) == IF Alive(p) THEN [p EXCEPT !.told = TRUE] ELSE p

\* Without web workers stop calls back at once and tells the writer nothing.
\* An exit the service has not heard of yet is still to come; one it has, is not.
Stop(r) ==
  IF NumExit = 0
  THEN /\ stops' = [stops EXCEPT ![r] = [NoStop EXCEPT !.begun = TRUE, !.called = {"ok"}]]
       /\ early' = TRUE
       /\ UNCHANGED <<writer, web>>
  ELSE /\ stops' = [stops EXCEPT ![r] =
                      [NoStop EXCEPT !.begun = TRUE, !.need = NumExit, !.waits = ToExit(r)]]
       /\ writer' = IF "writer" \in ToExit(r) THEN Told(writer) ELSE writer
       /\ web' = Told(web)
       /\ UNCHANGED early

\* SIGINT at bin/bwdb: node.stop, and with it the service's.
Signal ==
  /\ Up /\ ~stops["signal"].begun
  /\ Stop("signal")
  /\ UNCHANGED <<phase, code, worker, events, deaths>>

\* finish: the count is compared for equality, an error calls back at once.
Finish(s, c, err) ==
  LET t == [s EXCEPT !.waits = @ \ {c}]
      counted == [t EXCEPT !.exited = @ + 1]
  IN IF c \notin s.waits THEN s
     ELSE IF err /\ ~t.failed THEN [t EXCEPT !.failed = TRUE, !.called = @ \cup {"error"}]
     ELSE IF counted.exited = t.need /\ ~t.failed THEN [counted EXCEPT !.called = @ \cup {"ok"}]
     ELSE counted

\* The service hears that a child has exited: first the handler of its own, which
\* stops the node if the writer has not ended cleanly, then those of exitWorker.
HearExit(c) ==
  LET heard == [r \in Reason |-> Finish(stops[r], c, Process(c).unclean)]
      crash == c = "writer" /\ writer.unclean /\ ~stops["crash"].begun
  IN /\ Up /\ c \in events
     /\ events' = events \ {c}
     /\ \/ ~crash /\ stops' = heard /\ UNCHANGED <<web, early>>
        \/ /\ crash
           /\ stops' = [heard EXCEPT !["crash"] =
                [NoStop EXCEPT !.begun = TRUE, !.need = NumExit,
                   !.waits = IF NumExit = 0 THEN {} ELSE ToExit("crash"),
                   !.called = IF NumExit = 0 THEN {"ok"} ELSE {}]]
           /\ web' = Told(web)
           /\ early' = (early \/ NumExit = 0)
     /\ UNCHANGED <<phase, code, writer, worker, deaths>>

\* exitWorker after ten seconds: SIGKILL, and an error.
ExitTimeout(r, c) ==
  /\ Up /\ c \in stops[r].waits
  /\ stops' = [stops EXCEPT ![r] = Finish(stops[r], c, TRUE)]
  /\ \/ Alive(Process(c)) /\ Exits(c, TRUE)
     \/ ~Alive(Process(c)) /\ UNCHANGED <<events, writer, web>>
  /\ UNCHANGED <<phase, code, worker, deaths, early>>

\* The node has stopped bitcoind, and calls back: the process exits.
Exit(r) ==
  /\ Up /\ stops[r].called # {}
  /\ phase' = "exited"
  /\ code' = IF r = "crash" \/ "error" \in stops[r].called THEN 1 ELSE 0
  /\ UNCHANGED <<stops, processes, events, deaths, early>>

Start ==
  \/ StartWriterWorker \/ Ready \/ SetupConfig \/ SetupConfigFails
  \/ ConnectWriterSocket \/ StartWebWorkers

Children ==
  \/ WriterLoads \/ WriterEnds \/ MasterLoads \/ MasterKilled
  \/ MasterSendsShutdown \/ MasterEnds
  \/ \E s \in Slot : WorkerLoads(s) \/ WorkerEnds(s) \/ WorkerDisconnects(s)

Fault == WriterCrashes \/ \E s \in Slot : WorkerDies(s)

Stopping == \/ \E c \in Child : HearExit(c)
            \/ \E r \in Reason, c \in Child : ExitTimeout(r, c)
            \/ \E r \in Reason : Exit(r)

Next == Start \/ Children \/ Fault \/ Signal \/ Stopping

\* Timers fire and exits are heard; nothing is assumed of start or of what a
\* child does with a signal.
Spec == Init /\ [][Next]_vars /\ WF_vars(Stopping)

----------------------------------------------------------------------------
\* A service that is stopped, or whose writer has crashed, ends: stop calls back
\* whichever of the children is there, hangs or has died before, and the process
\* exits (stop, exitWorker, the exit handler of _startWriterWorker).
ServiceEnds ==
  (\E r \in Reason : stops[r].begun) \/ (writer.unclean /\ Up) ~> ~Up

\* When the process has exited, a writer that still runs was told to exit, for every
\* order of start, signal, crash and timeout.  It may still run, even hang: numExit
\* is 1, so stop calls back when the first of the two children has exited, and the
\* timer that would kill the other is gone with the process.  Not so where the web
\* workers were not started yet: then stop returns before it tells the writer (stop,
\* exitWorker).
WriterIsTold ==
  ~Up /\ ~early => (Alive(writer) => writer.told)

\* What a test says of stop ("will exit all workers"): when it calls back without an
\* error, both children it has told are gone.
StopExitsAll ==
  \A r \in Reason :
    stops[r].need > 0 /\ stops[r].called = {"ok"} => \A c \in Child : ~Alive(Process(c))
=============================================================================
