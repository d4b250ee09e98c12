----------------------------- MODULE ServiceProofs -----------------------------
(***************************************************************************)
(* Proofs about the processes of a wallet node, for every number of        *)
(* cluster workers and of their deaths.                                    *)
(***************************************************************************)
EXTENDS Service, TLAPS

Running == [state : {"none", "loading", "running", "gone"}, told : BOOLEAN, unclean : BOOLEAN]
Call == [called : SUBSET {"ok", "error"}, begun : BOOLEAN, waits : SUBSET Child,
         need : Nat, exited : Nat, failed : BOOLEAN]

Types ==
  /\ writer \in Running /\ web \in Running
  /\ stops \in [Reason -> Call] /\ early \in BOOLEAN /\ events \subseteq Child

----------------------------------------------------------------------------
(* The inductive invariant                                                 *)

\* A stop that waits for a child or has called back has begun.
CallsBegin ==
  \A r \in Reason : stops[r].called # {} \/ stops[r].waits # {} => stops[r].begun

Started == phase \in {"up", "exited"}
WriterTold == Alive(writer) => writer.told

\* A stop that comes late enough tells the writer.
StopTells == \A r \in Reason : stops[r].begun => early \/ (Started /\ WriterTold)

\* The writer is unclean only after its end, the web workers come last.
Processes ==
  /\ writer.unclean => ~Alive(writer)
  /\ web # NoProcess => Started

\* The service ends by a stop, or early.
EndsByStop == ~Up => early \/ \E r \in Reason : stops[r].begun

IInv == Types /\ CallsBegin /\ StopTells /\ Processes /\ EndsByStop

LEMMA NoProcessType == NoProcess \in Running /\ NoStop \in Call
<1> DEFINE zero == 0
<1>1. zero \in Nat
  OBVIOUS
<1>2. NoStop = [called |-> {}, begun |-> FALSE, waits |-> {}, need |-> zero,
                exited |-> zero, failed |-> FALSE]
  BY DEF NoStop
<1> HIDE DEF zero
<1> QED
  BY <1>1, <1>2 DEF NoProcess, Running, Call

LEMMA InitIInv == Init => IInv
<1> SUFFICES ASSUME Init PROVE IInv
  OBVIOUS
<1>1. /\ writer = NoProcess /\ web = NoProcess /\ phase = "spawn" /\ early = FALSE /\ events = {}
      /\ stops = [r \in Reason |-> NoStop]
  BY DEF Init
<1>2. Types
  BY <1>1, NoProcessType DEF Types
<1>3. ~NoStop.begun /\ NoStop.called = {} /\ NoStop.waits = {} /\ ~NoProcess.unclean
  BY DEF NoStop, NoProcess
<1>4. CallsBegin /\ StopTells /\ Processes /\ EndsByStop
  BY <1>1, <1>3 DEF CallsBegin, StopTells, Processes, EndsByStop, Up
<1> QED
  BY <1>2, <1>4 DEF IInv

\* Telling a process to exit.
LEMMA ToldProcess ==
  ASSUME NEW p \in Running
  PROVE  /\ Told(p) \in Running /\ (Alive(Told(p)) <=> Alive(p))
         /\ Alive(p) => Told(p).told
         /\ Told(p).unclean = p.unclean
         /\ ~Alive(p) => Told(p) = p
BY DEF Told, Running, Alive

\* The end of a process.
LEMMA GoneProcess ==
  ASSUME NEW p \in Running, NEW unclean \in BOOLEAN
  PROVE  Gone(p, unclean) \in Running /\ ~Alive(Gone(p, unclean))
BY DEF Gone, Running, Alive

LEMMA NoneIsDead == ~Alive(NoProcess)
BY DEF NoProcess, Alive

\* Finishing with one child keeps the call a call that has begun.
LEMMA FinishCall ==
  ASSUME NEW s \in Call, NEW c \in Child, NEW err \in BOOLEAN,
         s.called # {} \/ s.waits # {} => s.begun
  PROVE  /\ Finish(s, c, err) \in Call
         /\ Finish(s, c, err).begun = s.begun
         /\ Finish(s, c, err).called # {} \/ Finish(s, c, err).waits # {} => s.begun
<1> DEFINE t == [s EXCEPT !.waits = s.waits \ {c}]
           n == s.exited + 1
           counted == [t EXCEPT !.exited = n]
<1>1. n \in Nat
  BY DEF Call
<1> HIDE DEF n
<1>2. t \in Call /\ t.begun = s.begun /\ t.called = s.called
  BY DEF Call
<1>3. counted \in Call /\ counted.begun = s.begun /\ counted.called = s.called
  BY <1>1, <1>2 DEF Call
<1>4. CASE c \notin s.waits
  BY <1>4 DEF Finish
<1>5. CASE c \in s.waits
  <2>1. s.begun
    BY <1>5
  <2> DEFINE failing == [t EXCEPT !.failed = TRUE, !.called = t.called \cup {"error"}]
             ending == [counted EXCEPT !.called = counted.called \cup {"ok"}]
  <2>2. failing \in Call /\ failing.begun = s.begun
    BY <1>2 DEF Call
  <2>3. ending \in Call /\ ending.begun = s.begun
    BY <1>3 DEF Call
  <2>4. counted = [t EXCEPT !.exited = t.exited + 1]
    BY DEF n, Call
  <2> HIDE DEF t, counted
  <2>5. Finish(s, c, err) \in {failing, ending, counted}
    BY <1>5, <2>4 DEF Finish, t, counted
  <2> HIDE DEF failing, ending
  <2> QED
    BY <1>3, <2>1, <2>2, <2>3, <2>5
<1> QED
  BY <1>4, <1>5
----------------------------------------------------------------------------
(* Every step                                                              *)

\* A step of the start.
LEMMA StartKeeps ==
  ASSUME IInv, Start
  PROVE  IInv'
<1>1. Spawned \in Running /\ ~Spawned.unclean
  BY NoProcessType DEF Spawned, Running, NoProcess
<1>2. UNCHANGED stops
  BY DEF Start, Starting, StartWriterWorker, Ready, SetupConfig, SetupConfigFails,
         ConnectWriterSocket, StartWebWorkers
<1>3. CASE StartWriterWorker
  <2>1. /\ phase = "spawn" /\ phase' = "ready" /\ writer' = Spawned
        /\ UNCHANGED <<web, stops, early, events>>
    BY <1>3 DEF StartWriterWorker, Starting
  <2> QED
    BY <1>1, <2>1 DEF IInv, Types, CallsBegin, StopTells, Processes, EndsByStop, Started, Up
<1>4. CASE SetupConfigFails
  <2>1. phase' = "exited" /\ early' = TRUE /\ UNCHANGED <<web, writer, stops, events>>
    BY <1>4 DEF SetupConfigFails, processes
  <2> QED
    BY <2>1 DEF IInv, Types, CallsBegin, StopTells, Processes, EndsByStop, Started, Up
<1>5. CASE Ready \/ SetupConfig \/ ConnectWriterSocket
  <2>1. /\ phase \in {"ready", "config", "connect"} /\ phase' \in {"config", "connect", "web"}
        /\ UNCHANGED <<web, writer, stops, early, events>>
    BY <1>5 DEF Ready, SetupConfig, ConnectWriterSocket, Starting, processes
  <2> QED
    BY <2>1 DEF IInv, Types, CallsBegin, StopTells, Processes, EndsByStop, Started, Up, WriterTold
<1>6. CASE StartWebWorkers
  <2>1. /\ phase = "web" /\ phase' = "up" /\ web' = Spawned
        /\ UNCHANGED <<writer, stops, early, events>>
    BY <1>6 DEF StartWebWorkers, Starting
  <2> QED
    BY <1>1, <2>1 DEF IInv, Types, CallsBegin, StopTells, Processes, EndsByStop, Started, Up, WriterTold
<1> QED
  BY <1>3, <1>4, <1>5, <1>6 DEF Start

\* The writer or the web master ends.
LEMMA ExitsKeeps ==
  ASSUME IInv, NEW c \in Child, NEW unclean \in BOOLEAN, Alive(Process(c)), Exits(c, unclean),
         UNCHANGED <<phase, stops, early>>
  PROVE  IInv'
<1>1. /\ Gone(writer, unclean) \in Running /\ ~Alive(Gone(writer, unclean))
      /\ Gone(web, unclean) \in Running
  BY GoneProcess DEF IInv, Types
<1>2. c = "web" => web # NoProcess
  BY NoneIsDead DEF Process
<1>3. writer' \in {writer, Gone(writer, unclean)}
  BY DEF Exits
<1>4. web' = web \/ (c = "web" /\ web' = Gone(web, unclean))
  BY DEF Exits
<1>5. events' \subseteq Child
  BY DEF Exits, IInv, Types
<1>6. Types'
  BY <1>1, <1>3, <1>4, <1>5 DEF IInv, Types
<1>7. StopTells' /\ CallsBegin' /\ EndsByStop'
  BY <1>1, <1>3 DEF IInv, StopTells, CallsBegin, EndsByStop, Started, WriterTold, Up
<1>8. Processes'
  BY <1>1, <1>2, <1>3, <1>4 DEF IInv, Processes, Started
<1> QED
  BY <1>6, <1>7, <1>8 DEF IInv

\* A child that loads, or the master that has told its workers.
LEMMA OtherKeeps ==
  ASSUME IInv, UNCHANGED <<phase, stops, early, events>>,
         \/ writer' = writer
         \/ ~writer.told /\ Alive(writer) /\ writer' = [writer EXCEPT !.state = "running"],
         \/ web' = web
         \/ Alive(web) /\ web' \in Running
  PROVE  IInv'
<1>1. writer \in Running
  BY DEF IInv, Types
<1>2. writer' \in Running /\ writer'.unclean = writer.unclean
  BY <1>1 DEF Running
<1>3. Alive(web) => web # NoProcess
  BY NoneIsDead
<1>4. Types'
  BY <1>2 DEF IInv, Types
<1>5. CallsBegin' /\ EndsByStop'
  BY DEF IInv, CallsBegin, EndsByStop, Up
<1>6. StopTells'
  BY DEF IInv, StopTells, WriterTold, Started
<1>7. Processes'
  BY <1>1, <1>2, <1>3 DEF IInv, Processes, Started, Alive, Running
<1> QED
  BY <1>4, <1>5, <1>6, <1>7 DEF IInv

LEMMA ChildrenKeep ==
  ASSUME IInv, Children \/ Fault
  PROVE  IInv'
<1>0. writer \in Running /\ web \in Running
  BY DEF IInv, Types
<1>1. CASE WriterLoads
  BY <1>1, OtherKeeps DEF WriterLoads, Alive
<1>2. CASE WriterEnds \/ WriterCrashes
  <2>1. \E unclean \in BOOLEAN : Exits("writer", unclean)
    BY <1>2 DEF WriterEnds, WriterCrashes
  <2>2. Alive(Process("writer")) /\ UNCHANGED <<phase, stops, early>>
    BY <1>2 DEF WriterEnds, WriterCrashes, Process, Alive
  <2> QED
    BY <2>1, <2>2, ExitsKeeps DEF Child
<1>3. CASE MasterKilled \/ MasterEnds
  <2>1. \E unclean \in BOOLEAN : Exits("web", unclean)
    BY <1>3 DEF MasterKilled, MasterEnds
  <2>2. Alive(Process("web")) /\ UNCHANGED <<phase, stops, early>>
    BY <1>3 DEF MasterKilled, MasterEnds, Process, Alive
  <2> QED
    BY <2>1, <2>2, ExitsKeeps DEF Child
<1>4. CASE MasterLoads \/ MasterSendsShutdown
  <2>1. Alive(web) /\ UNCHANGED <<phase, stops, early, events, writer>>
    BY <1>4 DEF MasterLoads, MasterSendsShutdown, Alive
  <2>2. web' \in Running
    BY <1>0, <1>4 DEF MasterLoads, MasterSendsShutdown, Running
  <2> QED
    BY <2>1, <2>2, OtherKeeps
<1>5. ASSUME NEW s \in Slot, WorkerLoads(s) \/ WorkerEnds(s) \/ WorkerDisconnects(s) \/ WorkerDies(s)
      PROVE  IInv'
  <2>1. UNCHANGED <<phase, stops, early, events, writer, web>>
    BY <1>5 DEF WorkerLoads, WorkerEnds, WorkerDisconnects, WorkerDies, Worker
  <2> QED
    BY <2>1, OtherKeeps
<1> QED
  BY <1>1, <1>2, <1>3, <1>4, <1>5 DEF Children, Fault

\* The signal tells the writer, unless a stop has begun for its crash.
LEMMA SignalKeeps ==
  ASSUME IInv, Signal
  PROVE  IInv'
<1> DEFINE r == "signal"
<1>1. /\ Stop(r) /\ UNCHANGED <<phase, events>> /\ Up /\ r \in Reason
  BY DEF Signal, Reason
<1>2. /\ writer \in Running /\ web \in Running /\ stops \in [Reason -> Call]
  BY DEF IInv, Types
<1>3. CASE NumExit = 0
  <2> DEFINE s == [NoStop EXCEPT !.begun = TRUE, !.called = {"ok"}]
  <2>1. stops' = [stops EXCEPT ![r] = s] /\ early' = TRUE /\ UNCHANGED <<writer, web>>
    BY <1>1, <1>3 DEF Stop
  <2>2. s \in Call /\ s.begun
    BY NoProcessType DEF Call, NoStop
  <2> HIDE DEF s
  <2> QED
    BY <1>1, <1>2, <2>1, <2>2
      DEF IInv, Types, CallsBegin, StopTells, Processes, EndsByStop, Up, Started
<1>4. CASE NumExit # 0
  <2> DEFINE n == NumExit
             w == ToExit(r)
             s == [NoStop EXCEPT !.begun = TRUE, !.need = n, !.waits = w]
  <2>1. /\ stops' = [stops EXCEPT ![r] = s] /\ UNCHANGED early
        /\ writer' = IF "writer" \in w THEN Told(writer) ELSE writer
        /\ web' = Told(web)
    BY <1>1, <1>4 DEF Stop
  <2>2. n \in Nat /\ w \subseteq Child
    BY DEF NumExit, ToExit, Child
  <2>3. web # NoProcess
    BY <1>4 DEF NumExit
  <2>4. "writer" \in w \/ stops["crash"].begun
    BY DEF ToExit
  <2> HIDE DEF n, w
  <2>5. s \in Call /\ s.begun
    BY <2>2, NoProcessType DEF Call, NoStop
  <2> HIDE DEF s
  <2>6. Started /\ Started'
    BY <1>1, <2>3 DEF IInv, Processes, Started
  <2>7. writer' \in Running /\ web' \in Running /\ (Alive(writer') <=> Alive(writer))
        /\ writer'.unclean = writer.unclean
    BY <1>2, <2>1, ToldProcess
  <2>8. early \/ (Alive(writer') => writer'.told)
    <3>1. CASE "writer" \in w
      BY <1>2, <2>1, <2>7, <3>1, ToldProcess
    <3>2. CASE stops["crash"].begun /\ writer' = writer
      BY <3>2 DEF IInv, StopTells, WriterTold, Reason
    <3> QED
      BY <2>1, <2>4, <3>1, <3>2
  <2>9. StopTells' /\ Processes'
    BY <2>1, <2>6, <2>7, <2>8 DEF IInv, StopTells, WriterTold, Processes
  <2>10. Types' /\ CallsBegin' /\ EndsByStop'
    BY <1>1, <1>2, <2>1, <2>5, <2>7 DEF IInv, Types, CallsBegin, EndsByStop, Up
  <2> QED
    BY <2>9, <2>10 DEF IInv
<1> QED
  BY <1>3, <1>4

\* What the service hears does not change the types, nor that calls have begun.
LEMMA FinishKeeps ==
  ASSUME IInv, NEW c \in Child, NEW err \in BOOLEAN, NEW old \in Reason
  PROVE  LET s == Finish(stops[old], c, err)
         IN s \in Call /\ s.begun = stops[old].begun
              /\ (s.called # {} \/ s.waits # {} => s.begun)
<1>1. stops[old] \in Call /\ (stops[old].called # {} \/ stops[old].waits # {} => stops[old].begun)
  BY DEF IInv, Types, CallsBegin
<1> QED
  BY <1>1, FinishCall

\* An exit is heard; a crash of the writer begins a stop.
LEMMA HearExitKeeps ==
  ASSUME IInv, NEW c \in Child, HearExit(c)
  PROVE  IInv'
<1> DEFINE err == Process(c).unclean
           heard == [r \in Reason |-> Finish(stops[r], c, err)]
           crash == c = "writer" /\ writer.unclean /\ ~stops["crash"].begun
<1>1. /\ Up /\ events' = events \ {c} /\ UNCHANGED <<phase, writer>>
      /\ writer \in Running /\ web \in Running /\ early \in BOOLEAN /\ events \subseteq Child
  BY DEF HearExit, IInv, Types
<1>2. err \in BOOLEAN
  BY <1>1 DEF Process, Running
<1> HIDE DEF err
<1>3. /\ heard \in [Reason -> Call]
      /\ \A r \in Reason : heard[r].begun = stops[r].begun
      /\ \A r \in Reason : heard[r].called # {} \/ heard[r].waits # {} => heard[r].begun
  BY <1>2, FinishKeeps
<1>4. CASE ~crash
  <2>1. stops' = heard /\ UNCHANGED <<web, early>>
    BY <1>4 DEF HearExit, err
  <2> HIDE DEF heard
  <2> QED
    BY <1>1, <1>3, <2>1
      DEF IInv, Types, CallsBegin, StopTells, Processes, EndsByStop, Started, WriterTold, Up
<1>5. CASE crash
  <2> DEFINE n == NumExit
             w == IF NumExit = 0 THEN {} ELSE ToExit("crash")
             k == IF NumExit = 0 THEN {"ok"} ELSE {}
             s == [NoStop EXCEPT !.begun = TRUE, !.need = n, !.waits = w, !.called = k]
  <2>1. stops' = [heard EXCEPT !["crash"] = s] /\ web' = Told(web) /\ early' = (early \/ NumExit = 0)
    BY <1>5 DEF HearExit, err
  <2>2. n \in Nat /\ w \subseteq Child /\ k \subseteq {"ok", "error"}
    BY DEF NumExit, ToExit, Child
  <2> HIDE DEF n, w, k
  <2>3. s \in Call /\ s.begun
    BY <2>2, NoProcessType DEF Call, NoStop
  <2> HIDE DEF s, heard
  <2>4. early' \/ Started
    BY <2>1 DEF NumExit, IInv, Processes
  <2>5. WriterTold
    BY <1>5 DEF IInv, Processes, WriterTold
  <2>6. web' \in Running /\ (web' # NoProcess => web # NoProcess)
    BY <1>1, <2>1, ToldProcess, NoneIsDead
  <2>7. Types'
    BY <1>1, <1>3, <2>1, <2>3, <2>6 DEF Types, NumExit
  <2>8. CallsBegin'
    BY <1>3, <2>1, <2>3 DEF CallsBegin
  <2>9. StopTells'
    BY <1>1, <2>1, <2>4, <2>5 DEF StopTells, Started, WriterTold
  <2>10. Processes' /\ EndsByStop'
    BY <1>1, <2>6 DEF IInv, Processes, EndsByStop, Started, Up
  <2> QED
    BY <2>7, <2>8, <2>9, <2>10 DEF IInv
<1> QED
  BY <1>4, <1>5

\* The timer of exitWorker.
LEMMA ExitTimeoutKeeps ==
  ASSUME IInv, NEW q \in Reason, NEW c \in Child, ExitTimeout(q, c)
  PROVE  IInv'
<1> DEFINE s == Finish(stops[q], c, TRUE)
<1>1. /\ stops' = [stops EXCEPT ![q] = s] /\ UNCHANGED <<phase, early>>
      /\ stops \in [Reason -> Call] /\ writer \in Running /\ web \in Running
  BY DEF ExitTimeout, IInv, Types
<1>2. s \in Call /\ s.begun = stops[q].begun /\ (s.called # {} \/ s.waits # {} => s.begun)
  BY FinishKeeps
<1> HIDE DEF s
<1>3. /\ writer' \in Running /\ web' \in Running /\ events' \subseteq Child
      /\ writer' = writer \/ ~Alive(writer')
      /\ web' # NoProcess => web # NoProcess
  <2>1. CASE Alive(Process(c)) /\ Exits(c, TRUE)
    <3>1. /\ Gone(writer, TRUE) \in Running /\ ~Alive(Gone(writer, TRUE))
          /\ Gone(web, TRUE) \in Running
      BY <1>1, GoneProcess
    <3>2. c = "web" => web # NoProcess
      BY <2>1, NoneIsDead DEF Process
    <3> QED
      BY <1>1, <2>1, <3>1, <3>2 DEF Exits, IInv, Types
  <2>2. CASE UNCHANGED <<events, writer, web>>
    BY <1>1, <2>2 DEF IInv, Types
  <2> QED
    BY <2>1, <2>2 DEF ExitTimeout
<1>4. Types'
  BY <1>1, <1>2, <1>3 DEF IInv, Types
<1>5. CallsBegin'
  BY <1>1, <1>2 DEF IInv, CallsBegin
<1>6. StopTells'
  BY <1>1, <1>2, <1>3 DEF IInv, StopTells, Started, WriterTold
<1>7. Processes' /\ EndsByStop'
  BY <1>1, <1>2, <1>3 DEF IInv, Processes, EndsByStop, Started, Up
<1> QED
  BY <1>4, <1>5, <1>6, <1>7 DEF IInv

LEMMA ExitKeeps ==
  ASSUME IInv, NEW q \in Reason, Exit(q)
  PROVE  IInv'
<1>1. /\ phase' = "exited" /\ UNCHANGED <<stops, writer, web, events, early>>
      /\ stops[q].called # {}
  BY DEF Exit, processes
<1>2. stops[q].begun
  BY <1>1 DEF IInv, CallsBegin
<1>3. Types' /\ CallsBegin'
  BY <1>1 DEF IInv, Types, CallsBegin
<1>4. StopTells' /\ Processes' /\ EndsByStop'
  BY <1>1, <1>2 DEF IInv, StopTells, Processes, EndsByStop, Started, WriterTold
<1> QED
  BY <1>3, <1>4 DEF IInv

LEMMA NextIInv ==
  ASSUME IInv, [Next]_vars
  PROVE  IInv'
<1>1. CASE Start
  BY <1>1, StartKeeps
<1>2. CASE Children \/ Fault
  BY <1>2, ChildrenKeep
<1>3. CASE Signal
  BY <1>3, SignalKeeps
<1>4. CASE Stopping
  BY <1>4, HearExitKeeps, ExitTimeoutKeeps, ExitKeeps DEF Stopping
<1>5. CASE UNCHANGED vars
  BY <1>5 DEF vars, processes, IInv, Types, CallsBegin, StopTells, Processes, EndsByStop,
              Started, WriterTold, Up
<1> QED
  BY <1>1, <1>2, <1>3, <1>4, <1>5 DEF Next

----------------------------------------------------------------------------
(* The theorems                                                            *)

\* The invariant of the processes, for every number of cluster workers.
THEOREM Invariance == Spec => []IInv
<1>1. Init => IInv
  BY InitIInv
<1>2. IInv /\ [Next]_vars => IInv'
  BY NextIInv
<1> QED
  BY <1>1, <1>2, PTL DEF Spec

\* A writer that still runs when the service has exited was told to exit, whatever
\* starts, stops, crashes and timeouts come in which order, unless the web workers
\* were not started; that it does exit is not said (WalletService.stop, exitWorker).
THEOREM WriterAlwaysTold == Spec => []WriterIsTold
<1>1. IInv => WriterIsTold
  BY DEF IInv, EndsByStop, StopTells, WriterTold, WriterIsTold
<1> QED
  BY <1>1, Invariance, PTL
=============================================================================
