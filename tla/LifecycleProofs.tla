-------------------------- MODULE LifecycleProofs --------------------------
(***************************************************************************)
(* Reconnection, shutdown and the state of a Knx instance, for every       *)
(* script of calls, number of losses, failures and connections, and        *)
(* whichever tasks are slow.                                               *)
(*                                                                         *)
(* None of the properties is inductive.  OneReconnector needs to know that *)
(* a reconnection task which is running is the one in the slot, or that    *)
(* the control task, which alone could spawn another, has ended for good.  *)
(* StaysDown needs that from the end of stop() on both are gone.           *)
(* StateTellsTruth needs to know who may speak of the state at a time: the *)
(* application while those tasks are quiet, the control task while it      *)
(* handles the loss, and the reconnection task after it.                   *)
(***************************************************************************)
EXTENDS KnxLifecycle, TLAPS

ControlTasks ==
    [pc : {"none", "select", "lost", "closing", "reconnect", "ended"},
     conn : 0 .. MaxConnections]
ReconnectTasks ==
    [pc : {"none", "check", "trying", "made", "announced", "telling", "ended"},
     attempt : Nat, conn : 0 .. MaxConnections]
Running(r) == ~Gone(reconnect[r].pc)

TasksTyped ==
    /\ connection \in 0 .. MaxConnections
    /\ control \in ControlTasks
    /\ reconnect \in [Reconnectors -> ReconnectTasks]
    /\ reconnect_task \in Reconnectors \cup {0}

(* The slot. *)
SlotInv ==
    /\ control_rx => control.pc = "none"
    /\ control.pc = "none" => \A r \in Reconnectors : ~Running(r)
    /\ "control" \notin use.slow /\ app = "stop reconnect" => Gone(control.pc)
    /\ ~({"control", "reconnect"} \subseteq use.slow) =>
          \A r \in Reconnectors :
             Running(r) => \/ reconnect_task = r
                           \/ "reconnect" \in use.slow /\ control.pc = "ended"
    /\ OneReconnector

(* Where the application is once stop() has waited for the control task and
   the reconnection task. *)
PastStop ==
    \/ app \in {"stop refresh", "down"}
    \/ app \in {"disconnecting", "closing"} /\ shutting
Quiet == Gone(control.pc) /\ \A r \in Reconnectors : ~Running(r)
DownInv ==
    StopWaitsLongEnough =>
       /\ PastStop => Quiet
       /\ app = "closing" => connection = 0 \/ ~shutting
       /\ ShutdownIsFinal

LifeInv == TasksTyped /\ SlotInv /\ DownInv

(* At most one DisconnectRequest reaches the client: then the loss it brings is
   in one place at a time, the socket, the control channel, the control task
   or the reconnection task. *)
InSocket == \E c \in Connections : inbox[c] > 0
Busy == control.pc \in {"lost", "closing", "reconnect"}
Spawned == \E r \in Reconnectors : reconnect[r].pc # "none"
LossInv ==
    use.requests <= 1 =>
       /\ requests = 0 => ~InSocket /\ events = <<>> /\ ~Busy /\ ~Spawned
       /\ InSocket => events = <<>> /\ ~Busy /\ ~Spawned
       /\ events # <<>> => ~Busy /\ ~Spawned /\ ~Gone(control.pc)
       /\ Busy => ~Spawned
       /\ events \in {<<>>, <<"respond", "lost">>, <<"lost">>}
       /\ \A c, d \in Connections : inbox[c] > 0 /\ inbox[d] > 0 => c = d /\ inbox[c] = 1

(* What is left of the script still stops before it connects or disconnects:
   after each start in it, and after the start that has been made. *)
StopsBetween(s) ==
    \A i, j \in DOMAIN s :
       /\ i < j /\ s[i] = "start" /\ s[j] \in {"connect", "disconnect"}
       => \E k \in i .. j : s[k] = "stop"
StopsBefore(s) ==
    \A j \in DOMAIN s : s[j] \in {"connect", "disconnect"} => \E k \in 1 .. j : s[k] = "stop"

(* So the application leaves the state alone while the tasks might change it,
   and whoever tells the callbacks of a state tells them of the present one. *)
AppIsAside ==
    /\ app \in {"idle", "stop receiving", "stop control", "stop reconnect"}
    /\ app = "idle" => StopsBefore(script)
    /\ Free("app")
Claims ==
    /\ Free("control") \/ control.pc = "lost"
    /\ Free("reconnect") \/ \E r \in Reconnectors : reconnect[r].pc = "telling"
    /\ control.pc = "lost" => state = "Disconnected"
    /\ app = "disconnecting" => state = "Disconnecting"
    /\ app = "connected" => connection # 0
    /\ \A r \in Reconnectors : /\ reconnect[r].pc = "made" => connection # 0
                               /\ reconnect[r].pc = "announced" => state = "Connected"
    /\ \A t \in Tellers : telling[t] \in {"nothing", state}
    /\ state = "Connected" => connection # 0
    /\ (\A t \in Tellers : Free(t)) /\ (\A r \in Reconnectors : reconnect[r].pc # "announced")
       => told = state
TruthInv == Orderly => StopsBetween(script) /\ (Quiet \/ AppIsAside) /\ Claims

-----------------------------------------------------------------------------
LEMMA LifeInit == Init => LifeInv
  <1> SUFFICES ASSUME Init PROVE LifeInv
    OBVIOUS
  <1>1. /\ connection = 0 /\ control = NoTask /\ reconnect_task = 0 /\ app = "idle"
        /\ reconnect = [r \in Reconnectors |-> [pc |-> "none", attempt |-> 0, conn |-> 0]]
    BY DEF Init
  <1>2. TasksTyped
    BY <1>1, LifecycleAssumption DEF TasksTyped, NoTask, ControlTasks, ReconnectTasks
  <1>3. control.pc = "none" /\ \A r \in Reconnectors : ~Running(r)
    BY <1>1 DEF NoTask, Running, Gone
  <1>4. SlotInv
    BY <1>1, <1>3 DEF SlotInv, OneReconnector, Running, Gone
  <1> QED BY <1>1, <1>2, <1>4 DEF LifeInv, DownInv, PastStop, ShutdownIsFinal

(* The application moves on, and the tasks stay as they are. *)
LEMMA AppKeeps ==
  ASSUME LifeInv, UNCHANGED <<use, control, control_rx, reconnect, reconnect_task>>,
         connection' \in 0 .. MaxConnections,
         app' = "stop reconnect" => app = app' \/ Waited("control", control.pc),
         StopWaitsLongEnough /\ PastStop' => Quiet,
         StopWaitsLongEnough /\ app' = "closing" => connection' = 0 \/ ~shutting',
         StopWaitsLongEnough => ShutdownIsFinal'
  PROVE  LifeInv'
  <1>1. TasksTyped'
    BY DEF LifeInv, TasksTyped
  <1>2. SlotInv'
    BY DEF LifeInv, SlotInv, OneReconnector, Running, Gone, Waited
  <1>3. Quiet' <=> Quiet
    BY DEF Quiet, Running, Gone
  <1>4. DownInv'
    BY <1>3 DEF LifeInv, DownInv, StopWaitsLongEnough
  <1> QED BY <1>1, <1>2, <1>4 DEF LifeInv

(* The control task moves on, and is not about to reconnect. *)
LEMMA ControlKeeps ==
  ASSUME LifeInv, ~Gone(control.pc), NEW pc \in {"select", "lost", "closing", "reconnect", "ended"},
         control' = [control EXCEPT !.pc = pc],
         UNCHANGED <<use, app, shutting, control_rx, reconnect, reconnect_task>>,
         connection' \in {connection, 0}
  PROVE  LifeInv'
  <1>1. TasksTyped' /\ control'.pc = pc
    BY LifecycleAssumption DEF LifeInv, TasksTyped, ControlTasks
  <1>2. ~control_rx
    BY DEF LifeInv, SlotInv, Gone
  <1>3. SlotInv'
    BY <1>1, <1>2 DEF LifeInv, SlotInv, OneReconnector, Running, Gone
  <1>4. StopWaitsLongEnough => ~PastStop
    BY DEF LifeInv, DownInv, Quiet
  <1>5. DownInv'
    BY <1>4 DEF DownInv, PastStop, StopWaitsLongEnough, ShutdownIsFinal
  <1> QED BY <1>1, <1>3, <1>5 DEF LifeInv

(* A reconnection task moves on. *)
LEMMA ReconnectKeeps ==
  ASSUME LifeInv, NEW r \in Reconnectors, Running(r), NEW task \in ReconnectTasks,
         reconnect' = [reconnect EXCEPT ![r] = task],
         UNCHANGED <<use, app, shutting, control, control_rx, reconnect_task>>,
         connection' \in 0 .. MaxConnections
  PROVE  LifeInv'
  <1>1. TasksTyped' /\ \A q \in Reconnectors : Running(q)' => Running(q)
    BY DEF LifeInv, TasksTyped, Running
  <1>2. control.pc # "none"
    BY DEF LifeInv, SlotInv
  <1>3. SlotInv'
    BY <1>1, <1>2 DEF LifeInv, SlotInv, OneReconnector, Running
  <1>4. StopWaitsLongEnough => ~PastStop
    BY DEF LifeInv, DownInv, Quiet
  <1>5. DownInv'
    BY <1>4 DEF DownInv, PastStop, StopWaitsLongEnough, ShutdownIsFinal
  <1> QED BY <1>1, <1>3, <1>5 DEF LifeInv

-----------------------------------------------------------------------------
(* What leaves alone everything the invariant is about. *)
LEMMA IdleKeeps ==
  ASSUME LifeInv, UNCHANGED <<use, app, shutting, state, connection, control, control_rx,
                              reconnect, reconnect_task>>
  PROVE  LifeInv'
  BY DEF LifeInv, TasksTyped, SlotInv, OneReconnector, Running, DownInv, PastStop, Quiet,
         StopWaitsLongEnough, ShutdownIsFinal

(* The calls of the application. *)
LEMMA CallSteps ==
  ASSUME LifeInv, use' = use,
         \/ ConnectStart \/ ConnectOk \/ ConnectAnnounce \/ ConnectErr
         \/ StopStart \/ StopReceiving \/ StopControl \/ StopEnd
         \/ DisconnectStart \/ DisconnectTake \/ DisconnectEnd \/ DisconnectErr
  PROVE  LifeInv'
  <1>0. /\ connection \in 0 .. MaxConnections /\ 0 \in 0 .. MaxConnections
        /\ Connections \subseteq 0 .. MaxConnections
    BY LifecycleAssumption DEF LifeInv, TasksTyped, Connections
  <1>1. UNCHANGED <<control, control_rx, reconnect, reconnect_task>>
    BY Zenon DEF ConnectStart, ConnectOk, ConnectAnnounce, ConnectErr, StopStart, StopReceiving,
                 StopControl, StopEnd, DisconnectStart, DisconnectTake, DisconnectEnd,
                 DisconnectErr, flagVars, taskVars
  (* Neither in stop() nor in disconnect() afterwards. *)
  <1>2. ASSUME connection' \in 0 .. MaxConnections,
               app' \in {"idle", "connecting", "connected", "stop receiving", "stop control"}
        PROVE  LifeInv'
    BY <1>1, <1>2, AppKeeps DEF PastStop, ShutdownIsFinal
  <1>3. CASE ConnectStart \/ ConnectOk \/ ConnectAnnounce \/ ConnectErr
    <2>1. app' \in {"idle", "connecting", "connected"}
      BY <1>3, Zenon DEF ConnectStart, ConnectOk, ConnectAnnounce, ConnectErr
    <2>2. connection' = connection \/ connection' \in Connections
      BY <1>3, Zenon DEF ConnectStart, ConnectOk, ConnectAnnounce, ConnectErr
    <2> QED BY <1>0, <1>2, <2>1, <2>2
  <1>4. CASE StopStart \/ StopReceiving \/ DisconnectErr
    <2>1. /\ app' \in {"idle", "stop receiving", "stop control"}
          /\ connection' = connection
      BY <1>4, Zenon DEF StopStart, StopReceiving, DisconnectErr, connVars
    <2> QED BY <1>0, <1>2, <2>1
  <1>5. CASE StopControl
    <2>1. /\ app' = "stop reconnect" /\ Waited("control", control.pc)
          /\ connection' = connection
      BY <1>5, Zenon DEF StopControl, connVars
    <2> QED BY <1>0, <1>1, <2>1, AppKeeps DEF PastStop, ShutdownIsFinal
  <1>6. CASE StopEnd
    <2>1. /\ app = "stop refresh" /\ app' \in {"disconnecting", "idle"}
          /\ UNCHANGED <<connection, shutting>>
      BY <1>6, Zenon DEF StopEnd
    <2>2. StopWaitsLongEnough => Quiet
      BY <2>1 DEF LifeInv, DownInv, PastStop
    <2> QED BY <1>0, <1>1, <2>1, <2>2, AppKeeps DEF ShutdownIsFinal
  <1>7. CASE DisconnectStart
    <2>1. app' = "disconnecting" /\ shutting' = FALSE /\ connection' = connection
      BY <1>7, Zenon DEF DisconnectStart
    <2> QED BY <1>0, <1>1, <2>1, AppKeeps DEF PastStop, ShutdownIsFinal
  <1>8. CASE DisconnectTake
    <2>1. app = "disconnecting" /\ app' = "closing" /\ connection' = 0 /\ shutting' = shutting
      BY <1>8, Zenon DEF DisconnectTake
    <2>2. StopWaitsLongEnough /\ PastStop' => Quiet
      BY <2>1 DEF LifeInv, DownInv, PastStop
    <2> QED BY <1>0, <1>1, <2>1, <2>2, AppKeeps DEF ShutdownIsFinal
  <1>9. CASE DisconnectEnd
    <2>1. /\ app = "closing" /\ app' = IF shutting THEN "down" ELSE "idle"
          /\ UNCHANGED <<connection, shutting>> /\ state' = "Disconnected"
      BY <1>9, Zenon DEF DisconnectEnd, StateBecomes
    <2>2. StopWaitsLongEnough /\ shutting => Quiet /\ connection = 0
      BY <2>1 DEF LifeInv, DownInv, PastStop
    <2> QED BY <1>0, <1>1, <2>1, <2>2, AppKeeps DEF PastStop, ShutdownIsFinal
  <1> QED BY <1>3, <1>4, <1>5, <1>6, <1>7, <1>8, <1>9

(* start() hands the control receiver over, which it can do once. *)
LEMMA StartStep ==
  ASSUME LifeInv, use' = use, StartOk
  PROVE  LifeInv'
  <1>1. /\ app = "idle" /\ app' = app /\ shutting' = shutting /\ control_rx
        /\ control_rx' = FALSE /\ control' = [pc |-> "select", conn |-> connection]
        /\ UNCHANGED <<connection, reconnect, reconnect_task>>
    BY Zenon DEF StartOk, Calls, connVars
  <1>2. \A r \in Reconnectors : ~Running(r) /\ ~Running(r)'
    BY <1>1 DEF LifeInv, SlotInv, Running
  <1>3. TasksTyped' /\ control'.pc = "select"
    BY <1>1 DEF LifeInv, TasksTyped, ControlTasks
  <1>4. SlotInv'
    BY <1>1, <1>2, <1>3 DEF SlotInv, OneReconnector, Running
  <1>5. DownInv'
    BY <1>1 DEF DownInv, PastStop, ShutdownIsFinal
  <1> QED BY <1>3, <1>4, <1>5 DEF LifeInv

(* stop() empties the slot. *)
LEMMA StopReconnectStep ==
  ASSUME LifeInv, use' = use, StopReconnect
  PROVE  LifeInv'
  <1>1. /\ app = "stop reconnect" /\ app' = "stop refresh"
        /\ reconnect_task # 0 => Waited("reconnect", reconnect[reconnect_task].pc)
        /\ reconnect_task' = 0
        /\ UNCHANGED <<connection, control, control_rx, reconnect>>
    BY Zenon DEF StopReconnect, connVars, flagVars
  <1>2. TasksTyped'
    BY <1>1 DEF LifeInv, TasksTyped
  <1>3. 0 \notin Reconnectors
    BY DEF Reconnectors
  <1>4. ASSUME NEW r \in Reconnectors, Running(r), ~({"control", "reconnect"} \subseteq use.slow)
        PROVE  "reconnect" \in use.slow /\ control.pc = "ended"
    <2>1. CASE "reconnect" \in use.slow
      BY <1>1, <1>4, <2>1 DEF LifeInv, SlotInv, Gone
    <2>2. CASE "reconnect" \notin use.slow
      <3>1. reconnect_task = r
        BY <1>4, <2>2 DEF LifeInv, SlotInv
      <3>2. Gone(reconnect[r].pc)
        BY <1>1, <1>3, <2>2, <3>1 DEF Waited
      <3> QED BY <1>4, <3>2 DEF Running
    <2> QED BY <2>1, <2>2
  <1>5. SlotInv'
    BY <1>1, <1>4 DEF LifeInv, SlotInv, OneReconnector, Running
  <1>6. StopWaitsLongEnough => Quiet
    <2>1. ASSUME StopWaitsLongEnough, NEW r \in Reconnectors, Running(r) PROVE FALSE
      BY <1>4, <2>1 DEF StopWaitsLongEnough
    <2> QED BY <1>1, <2>1 DEF LifeInv, SlotInv, Quiet, StopWaitsLongEnough
  <1>7. DownInv'
    BY <1>1, <1>6 DEF DownInv, Quiet, Running, ShutdownIsFinal, StopWaitsLongEnough
  <1> QED BY <1>2, <1>5, <1>7 DEF LifeInv

(* The control task. *)
LEMMA ControlStep ==
  ASSUME LifeInv, use' = use, ControlSteps
  PROVE  LifeInv'
  <1>1. CASE ControlRespond \/ ControlLost \/ ControlTake \/ ControlClosed \/ ControlEnds
    <2>1. UNCHANGED <<app, shutting, control_rx, reconnect, reconnect_task>>
      BY <1>1, Zenon DEF ControlRespond, ControlLost, ControlTake, ControlClosed, ControlEnds,
                         ControlTo, appVars
    <2>2. connection' \in {connection, 0}
      BY <1>1, Zenon DEF ControlRespond, ControlLost, ControlTake, ControlClosed, ControlEnds,
                         connVars
    <2>3. ~Gone(control.pc)
      BY <1>1 DEF ControlRespond, ControlLost, ControlTake, ControlClosed, ControlEnds, Gone
    <2>4. \E pc \in {"select", "lost", "closing", "reconnect", "ended"} :
             control' = [control EXCEPT !.pc = pc]
      BY <1>1, Zenon DEF ControlRespond, ControlLost, ControlTake, ControlClosed, ControlEnds,
                         ControlTo
    <2> QED BY <2>1, <2>2, <2>3, <2>4, ControlKeeps
  <1>2. CASE ControlReconnect
    <2>1. /\ control.pc = "reconnect" /\ control' = [control EXCEPT !.pc = "select"]
          /\ UNCHANGED <<app, shutting, control_rx, connection>>
      BY <1>2, Zenon DEF ControlReconnect, ControlTo, appVars, connVars
    <2>2. CASE UNCHANGED <<reconnect, reconnect_task>>
      BY <2>1, <2>2, ControlKeeps DEF Gone
    <2>3. ASSUME ~SlotTaken, NEW r \in Reconnectors,
                 reconnect' = [reconnect EXCEPT ![r] =
                                 [pc |-> "check", attempt |-> 1, conn |-> 0]],
                 reconnect_task' = r
          PROVE  LifeInv'
      <3> DEFINE task == [pc |-> "check", attempt |-> 1, conn |-> 0]
      <3>1. task \in ReconnectTasks /\ ~Gone(task.pc)
        BY LifecycleAssumption DEF ReconnectTasks, Gone
      <3> HIDE DEF task
      <3>2. /\ TasksTyped' /\ control'.pc = "select"
            /\ \A q \in Reconnectors : q # r => reconnect'[q] = reconnect[q]
        BY <2>1, <2>3, <3>1 DEF LifeInv, TasksTyped, ControlTasks, task
      <3>3. ASSUME ~({"control", "reconnect"} \subseteq use.slow), NEW q \in Reconnectors
            PROVE  ~Running(q)
        <4>1. reconnect_task = 0 /\ q # 0
          BY <2>3 DEF SlotTaken, Reconnectors
        <4> QED BY <2>1, <3>3, <4>1 DEF LifeInv, SlotInv
      <3>4. ~control_rx /\ ("control" \notin use.slow => app # "stop reconnect")
        BY <2>1 DEF LifeInv, SlotInv, Gone
      <3>5. SlotInv'
        BY <2>1, <2>3, <3>2, <3>3, <3>4 DEF SlotInv, OneReconnector, Running
      <3>6. StopWaitsLongEnough => ~PastStop
        BY <2>1 DEF LifeInv, DownInv, Quiet, Gone
      <3>7. DownInv'
        BY <2>1, <3>6 DEF DownInv, PastStop, StopWaitsLongEnough, ShutdownIsFinal
      <3> QED BY <3>2, <3>5, <3>7 DEF LifeInv
    <2> QED BY <1>2, <2>2, <2>3, Zenon DEF ControlReconnect
  <1>3. CASE Tell("control")
    <2>1. UNCHANGED <<app, shutting, state, connection, control, control_rx, reconnect,
                      reconnect_task>>
      BY <1>3, Zenon DEF Tell, flagVars, appVars, taskVars
    <2> QED BY <2>1, IdleKeeps
  <1> QED BY <1>1, <1>2, <1>3, Zenon DEF ControlSteps

(* A reconnection task. *)
LEMMA ReconnectStep ==
  ASSUME LifeInv, use' = use, NEW r \in Reconnectors, ReconnectSteps(r) \/ ReconnectErr(r)
  PROVE  LifeInv'
  <1>0. /\ reconnect[r].attempt \in Nat /\ reconnect[r].conn \in 0 .. MaxConnections
        /\ connection \in 0 .. MaxConnections /\ 0 \in 0 .. MaxConnections
        /\ Connections \subseteq 0 .. MaxConnections
    BY LifecycleAssumption DEF LifeInv, TasksTyped, ReconnectTasks, Connections
  <1>1. ASSUME NEW pc, NEW n, NEW c, ReconnectTo(r, pc, n, c), Running(r),
               pc \in {"check", "trying", "made", "announced", "telling", "ended"},
               n \in Nat, c \in 0 .. MaxConnections, connection' \in {connection, c}
        PROVE  LifeInv'
    <2> DEFINE task == [pc |-> pc, attempt |-> n, conn |-> c]
    <2>1. task \in ReconnectTasks
      BY <1>1 DEF ReconnectTasks
    <2>2. /\ reconnect' = [reconnect EXCEPT ![r] = task]
          /\ UNCHANGED <<app, shutting, control, control_rx, reconnect_task>>
      BY <1>1, Zenon DEF ReconnectTo, flagVars, appVars
    <2> HIDE DEF task
    <2> QED BY Zenon, <1>0, <1>1, <2>1, <2>2, ReconnectKeeps
  <1>2. CASE ReconnectCheck(r)
    <2>1. /\ reconnect[r].pc = "check" /\ connection' = connection
          /\ \E pc \in {"ended", "trying"} : ReconnectTo(r, pc, reconnect[r].attempt, 0)
      BY <1>2, Zenon DEF ReconnectCheck
    <2> QED BY <1>0, <1>1, <2>1 DEF Running, Gone
  <1>3. CASE ReconnectOk(r)
    <2>1. /\ reconnect[r].pc = "trying"
          /\ \E c \in Connections : /\ connection' = c
                                    /\ ReconnectTo(r, "made", reconnect[r].attempt, c)
      BY <1>3, Zenon DEF ReconnectOk
    <2> QED BY <1>0, <1>1, <2>1 DEF Running, Gone
  <1>4. CASE ReconnectAnnounce(r) \/ ReconnectTell(r) \/ ReconnectEnd(r)
    <2>1. /\ reconnect[r].pc \in {"made", "announced", "telling"} /\ connection' = connection
          /\ \E pc \in {"announced", "telling", "ended"} :
                ReconnectTo(r, pc, reconnect[r].attempt, reconnect[r].conn)
      BY <1>4, Zenon DEF ReconnectAnnounce, ReconnectTell, ReconnectEnd
    <2> QED BY <1>0, <1>1, <2>1 DEF Running, Gone
  <1>5. CASE ReconnectErr(r)
    <2>1. /\ reconnect[r].pc = "trying" /\ connection' = connection
          /\ ReconnectTo(r, "check", reconnect[r].attempt + 1, 0)
      BY <1>5, Zenon DEF ReconnectErr
    <2> QED BY <1>0, <1>1, <2>1 DEF Running, Gone
  <1>6. CASE Tell("reconnect")
    <2>1. UNCHANGED <<app, shutting, state, connection, control, control_rx, reconnect,
                      reconnect_task>>
      BY <1>6, Zenon DEF Tell, flagVars, appVars, taskVars
    <2> QED BY <2>1, IdleKeeps
  <1> QED BY <1>2, <1>3, <1>4, <1>5, <1>6, Zenon DEF ReconnectSteps

(* Everything else: the receiving task, the workers, the network. *)
LEMMA OtherStep ==
  ASSUME LifeInv, use' = use,
         \/ StartErr \/ Tell("app") \/ ReceivingSteps \/ ReceiveErr
         \/ \E w \in Workers : WorkerEnds(w)
         \/ RunWait \/ CleanupEnds \/ CloseDiscards
         \/ \E c \in Connections : GatewayDisconnects(c)
  PROVE  LifeInv'
  <1>1. UNCHANGED <<app, shutting, state, connection, control, control_rx, reconnect,
                    reconnect_task>>
    BY Zenon DEF StartErr, Tell, ReceivingSteps, HandleDisconnectRequest, ReceiveShutdown,
                 ReceiveErr, ReceiveEnds, WorkerEnds, RunWait, CleanupEnds, CloseDiscards,
                 GatewayDisconnects, connVars, stateVars, flagVars, appVars, taskVars, others
  <1> QED BY <1>1, IdleKeeps

LEMMA LifeStep == LifeInv /\ [Next]_vars => LifeInv'
  <1> SUFFICES ASSUME LifeInv, [Next]_vars PROVE LifeInv'
    OBVIOUS
  <1>1. CASE UNCHANGED vars
    <2>1. UNCHANGED <<use, app, shutting, state, connection, control, control_rx, reconnect,
                      reconnect_task>>
      BY <1>1, Zenon DEF vars, system, connVars, stateVars, flagVars, appVars, taskVars
    <2> QED BY <2>1, IdleKeeps
  <1>2. CASE Next
    BY <1>2, CallSteps, StartStep, StopReconnectStep, ControlStep, ReconnectStep, OtherStep,
       Zenon DEF Next, Steps, AppSteps
  <1> QED BY <1>1, <1>2

-----------------------------------------------------------------------------
(* Types, variable by variable. *)

StateTyped == state \in KnxState /\ told \in KnxState /\ telling \in [Tellers -> KnxState \cup {"nothing"}]
AppTyped ==
    /\ app \in {"idle", "connecting", "connected", "stop receiving",
                "stop control", "stop reconnect", "stop refresh",
                "disconnecting", "closing", "down"}
    /\ script \in Seq(ApiCalls)
    /\ started \in {"never", "ok", "not connected", "receiver taken"}
    /\ shutting \in BOOLEAN
    /\ runner \in {"running", "waiting", "returned"}
FlagsTyped ==
    /\ shutdown_flag \in BOOLEAN /\ queue_closed \in BOOLEAN /\ control_rx \in BOOLEAN
    /\ events \in Seq({"respond", "lost"})
    /\ workers \in [Workers -> {"none", "running", "ended"}]
    /\ cleanup \in {"running", "ended"}

LEMMA StateTypes == ASSUME StateTyped, Steps PROVE StateTyped'
  <1>1. ASSUME NEW t \in Tellers, NEW s \in KnxState, StateBecomes(t, s) PROVE StateTyped'
    BY <1>1 DEF StateTyped, StateBecomes
  <1>2. ASSUME UNCHANGED stateVars PROVE StateTyped'
    BY <1>2 DEF StateTyped, stateVars
  <1>3. KnxState = {"Disconnected", "Connecting", "Connected", "Disconnecting", "Error"}
        /\ Tellers = {"app", "control", "reconnect"}
    BY DEF KnxState, Tellers
  <1>4. CASE ConnectStart \/ ConnectAnnounce \/ ConnectErr \/ StopEnd \/ DisconnectStart
             \/ DisconnectEnd \/ ControlLost
    BY <1>1, <1>2, <1>3, <1>4, Zenon
       DEF ConnectStart, ConnectAnnounce, ConnectErr, StopEnd, DisconnectStart, DisconnectEnd,
           ControlLost
  <1>5. ASSUME NEW t \in Tellers, Tell(t) PROVE StateTyped'
    BY <1>5 DEF StateTyped, Tell, Free
  <1>6. ASSUME NEW r \in Reconnectors, ReconnectAnnounce(r) \/ ReconnectTell(r) PROVE StateTyped'
    <2>1. CASE ReconnectAnnounce(r)
      BY <1>3, <2>1 DEF StateTyped, ReconnectAnnounce
    <2>2. CASE ReconnectTell(r)
      BY <1>3, <2>2 DEF StateTyped, ReconnectTell
    <2> QED BY <1>6, <2>1, <2>2
  <1>7. ASSUME NEW r \in Reconnectors,
               ReconnectCheck(r) \/ ReconnectOk(r) \/ ReconnectEnd(r) \/ ReconnectErr(r)
        PROVE  StateTyped'
    BY <1>2, <1>7, Zenon DEF ReconnectCheck, ReconnectOk, ReconnectEnd, ReconnectErr
  <1>8. CASE \/ ConnectOk \/ StartOk \/ StartErr \/ StopStart \/ StopReceiving \/ StopControl
             \/ StopReconnect \/ DisconnectTake \/ DisconnectErr \/ RunWait \/ CleanupEnds
             \/ CloseDiscards
    BY <1>2, <1>8, Zenon
       DEF ConnectOk, StartOk, StartErr, StopStart, StopReceiving, StopControl, StopReconnect,
           DisconnectTake, DisconnectErr, RunWait, CleanupEnds, CloseDiscards, connVars
  <1>9. CASE \/ ReceivingSteps \/ ReceiveErr \/ ControlRespond \/ ControlTake \/ ControlClosed
             \/ ControlReconnect \/ ControlEnds \/ \E w \in Workers : WorkerEnds(w)
             \/ \E c \in Connections : GatewayDisconnects(c)
    BY <1>2, <1>9, Zenon
       DEF ReceivingSteps, HandleDisconnectRequest, ReceiveShutdown, ReceiveErr, ReceiveEnds,
           ControlRespond, ControlTake, ControlClosed, ControlReconnect, ControlEnds, WorkerEnds,
           GatewayDisconnects, connVars
  <1> QED
    BY <1>3, <1>4, <1>5, <1>6, <1>7, <1>8, <1>9, Zenon
       DEF Steps, AppSteps, ControlSteps, ReconnectSteps

(* The rest of a sequence. *)
LEMMA TailFacts ==
  ASSUME NEW S, NEW s \in Seq(S), s # <<>>
  PROVE  /\ Tail(s) \in Seq(S) /\ Len(Tail(s)) = Len(s) - 1 /\ Len(s) >= 1 /\ Head(s) = s[1]
         /\ \A i \in 1 .. Len(s) - 1 : Tail(s)[i] = s[i + 1]
  <1>1. Len(s) \in Nat /\ Len(s) # 0 /\ Head(s) = s[1]
    OBVIOUS
  <1>2. Tail(s) \in Seq(S) /\ Len(Tail(s)) = Len(s) - 1
    OBVIOUS
  <1> QED BY <1>1, <1>2

LEMMA AppTypes == ASSUME AppTyped, Steps PROVE AppTyped'
  <1>1. ASSUME UNCHANGED <<appVars, runner>> PROVE AppTyped'
    BY <1>1 DEF AppTyped, appVars
  <1>2. ASSUME NEW name, Calls(name) PROVE script' \in Seq(ApiCalls)
    BY <1>2, TailFacts, Zenon DEF AppTyped, Calls
  <1>3. CASE ConnectStart \/ StopStart \/ DisconnectStart
    <2>1. /\ script' \in Seq(ApiCalls)
          /\ app' \in {"connecting", "stop receiving", "disconnecting"}
          /\ shutting' \in {shutting, FALSE, Head(script) = "shutdown"}
          /\ UNCHANGED <<started, runner>>
      BY <1>2, <1>3, Zenon DEF ConnectStart, StopStart, DisconnectStart, taskVars, others
    <2> QED BY <2>1 DEF AppTyped
  <1>4. CASE StartOk \/ StartErr
    <2>1. /\ script' \in Seq(ApiCalls)
          /\ started' \in {"ok", "not connected", "receiver taken"}
          /\ UNCHANGED <<app, shutting, runner>>
      BY <1>2, <1>4, Zenon DEF StartOk, StartErr, taskVars, others
    <2> QED BY <2>1 DEF AppTyped
  <1>5. CASE \/ ConnectOk \/ ConnectAnnounce \/ ConnectErr \/ StopReceiving \/ StopControl
             \/ StopReconnect \/ DisconnectTake \/ DisconnectEnd \/ DisconnectErr
    <2>1. /\ app' \in {"idle", "connected", "stop control", "stop reconnect", "stop refresh",
                       "closing", "down"}
          /\ UNCHANGED <<script, shutting, started, runner>>
      BY <1>5, Zenon
         DEF ConnectOk, ConnectAnnounce, ConnectErr, StopReceiving, StopControl, StopReconnect,
             DisconnectTake, DisconnectEnd, DisconnectErr, taskVars, others
    <2> QED BY <2>1 DEF AppTyped
  <1>6. CASE StopEnd
    BY <1>6 DEF StopEnd, AppTyped
  <1>7. CASE RunWait
    BY <1>7 DEF RunWait, AppTyped, appVars
  <1>8. CASE \/ CleanupEnds \/ CloseDiscards \/ ReceivingSteps \/ ReceiveErr
             \/ \E w \in Workers : WorkerEnds(w)
             \/ \E c \in Connections : GatewayDisconnects(c)
             \/ \E t \in Tellers : Tell(t)
    BY <1>1, <1>8, Zenon
       DEF CleanupEnds, CloseDiscards, ReceivingSteps, HandleDisconnectRequest, ReceiveShutdown,
           ReceiveErr, ReceiveEnds, WorkerEnds, GatewayDisconnects, Tell, taskVars, others
  <1>9. CASE ControlSteps /\ ~Tell("control")
    BY <1>1, <1>9, Zenon
       DEF ControlSteps, ControlRespond, ControlLost, ControlTake, ControlClosed,
           ControlReconnect, ControlEnds, ControlTo, others
  <1>10. ASSUME NEW r \in Reconnectors, ReconnectSteps(r) \/ ReconnectErr(r), ~Tell("reconnect")
         PROVE  AppTyped'
    BY <1>1, <1>10, Zenon
       DEF ReconnectSteps, ReconnectCheck, ReconnectOk, ReconnectAnnounce, ReconnectTell,
           ReconnectEnd, ReconnectErr, ReconnectTo, others
  <1>11. "app" \in Tellers /\ "control" \in Tellers /\ "reconnect" \in Tellers
    BY DEF Tellers
  <1> QED
    BY <1>3, <1>4, <1>5, <1>6, <1>7, <1>8, <1>9, <1>10, <1>11, Zenon
       DEF Steps, AppSteps, ControlSteps, ReconnectSteps

LEMMA FlagTypes == ASSUME FlagsTyped, Steps PROVE FlagsTyped'
  <1>1. ASSUME UNCHANGED <<flagVars, workers, cleanup>> PROVE FlagsTyped'
    BY <1>1 DEF FlagsTyped, flagVars
  <1>2. CASE StartOk
    BY <1>2, Zenon DEF StartOk, FlagsTyped, others
  <1>3. CASE StopStart
    BY <1>3 DEF StopStart, FlagsTyped, taskVars, others
  <1>4. CASE StopEnd
    BY <1>4 DEF StopEnd, FlagsTyped
  <1>5. CASE HandleDisconnectRequest
    <2>1. /\ events' = events \/ events' = events \o <<"respond", "lost">>
          /\ UNCHANGED <<shutdown_flag, queue_closed, control_rx, workers, cleanup>>
      BY <1>5, Zenon DEF HandleDisconnectRequest, taskVars, others
    <2> QED BY <2>1 DEF FlagsTyped
  <1>6. CASE ReceiveShutdown \/ ReceiveErr
    <2>1. queue_closed' = TRUE /\ UNCHANGED <<shutdown_flag, control_rx, events, workers, cleanup>>
      BY <1>6, Zenon DEF ReceiveShutdown, ReceiveErr, ReceiveEnds, others
    <2> QED BY <2>1 DEF FlagsTyped
  <1>7. ASSUME NEW w \in Workers, WorkerEnds(w) PROVE FlagsTyped'
    BY <1>7 DEF WorkerEnds, FlagsTyped, flagVars, others
  <1>8. CASE CleanupEnds
    BY <1>8 DEF CleanupEnds, FlagsTyped, flagVars
  <1>9. CASE ControlSteps /\ ~Tell("control")
    <2>1. /\ UNCHANGED <<shutdown_flag, queue_closed, control_rx, workers, cleanup>>
      BY <1>9, Zenon
         DEF ControlSteps, ControlRespond, ControlLost, ControlTake, ControlClosed,
             ControlReconnect, ControlEnds, ControlTo, others
    <2>2. events' = events \/ events' = <<>> \/ (events # <<>> /\ events' = Tail(events))
      BY <1>9, Zenon
         DEF ControlSteps, ControlRespond, ControlLost, ControlTake, ControlClosed,
             ControlReconnect, ControlEnds
    <2>3. events' \in Seq({"respond", "lost"})
      <3>1. events # <<>> => Tail(events) \in Seq({"respond", "lost"})
        BY TailFacts, Zenon DEF FlagsTyped
      <3>2. <<>> \in Seq({"respond", "lost"})
        OBVIOUS
      <3> QED BY <2>2, <3>1, <3>2, Zenon DEF FlagsTyped
    <2> QED BY <2>1, <2>3 DEF FlagsTyped
  <1>10. ASSUME NEW r \in Reconnectors, ReconnectSteps(r) \/ ReconnectErr(r), ~Tell("reconnect")
         PROVE  FlagsTyped'
    BY <1>1, <1>10, Zenon
       DEF ReconnectSteps, ReconnectCheck, ReconnectOk, ReconnectAnnounce, ReconnectTell,
           ReconnectEnd, ReconnectErr, ReconnectTo, others
  <1>11. CASE \/ ConnectStart \/ ConnectOk \/ ConnectAnnounce \/ ConnectErr \/ StartErr
              \/ StopReceiving \/ StopControl \/ StopReconnect \/ DisconnectStart
              \/ DisconnectTake \/ DisconnectEnd \/ DisconnectErr
    BY <1>1, <1>11, Zenon
       DEF ConnectStart, ConnectOk, ConnectAnnounce, ConnectErr, StartErr, StopReceiving,
           StopControl, StopReconnect, DisconnectStart, DisconnectTake, DisconnectEnd,
           DisconnectErr, taskVars, others
  <1>12. CASE \/ RunWait \/ CloseDiscards \/ \E c \in Connections : GatewayDisconnects(c)
              \/ \E t \in Tellers : Tell(t)
    BY <1>1, <1>12, Zenon DEF RunWait, CloseDiscards, GatewayDisconnects, Tell, taskVars, others
  <1>13. "app" \in Tellers /\ "control" \in Tellers /\ "reconnect" \in Tellers
    BY DEF Tellers
  <1> QED
    BY <1>2, <1>3, <1>4, <1>5, <1>6, <1>7, <1>8, <1>9, <1>10, <1>11, <1>12, <1>13, Zenon
       DEF Steps, AppSteps, ControlSteps, ReconnectSteps, ReceivingSteps

(* Connections are numbered by the length of chan, which only grows; what a
   reconnection task has made it still knows when it takes the channel id. *)
LinkTyped ==
    /\ chan \in Seq(Channels) /\ Len(chan) <= MaxConnections
    /\ connection \in 0 .. Len(chan) /\ closing \in 0 .. Len(chan)
    /\ channel_id \in Channels \cup {0}
    /\ receiving \in [pc : {"none", "select", "ended"}, conn : 0 .. Len(chan)]
    /\ receiving.pc = "select" => receiving.conn # 0
    /\ control.conn \in 0 .. Len(chan)
    /\ \A r \in Reconnectors :
         /\ reconnect[r].conn \in 0 .. Len(chan)
         /\ reconnect[r].pc \in {"made", "announced"} => reconnect[r].conn # 0

LEMMA Longer ==
  ASSUME LinkTyped, NEW c \in Connections, Made(c)
  PROVE  /\ chan' \in Seq(Channels) /\ Len(chan') = Len(chan) + 1 /\ Len(chan') <= MaxConnections
         /\ chan'[c] \in Channels /\ c = Len(chan')
         /\ \A n \in 0 .. Len(chan) : n \in 0 .. Len(chan')
         /\ Len(chan) \in Nat
  <1>1. PICK id \in Channels : chan' = Append(chan, id)
    BY DEF Made
  <1>2. c = Len(chan) + 1 /\ c <= MaxConnections
    BY LifecycleAssumption DEF Made, Connections
  <1>3. chan \in Seq(Channels) /\ Len(chan) \in Nat
    BY DEF LinkTyped
  <1>4. chan' \in Seq(Channels) /\ Len(chan') = Len(chan) + 1 /\ chan'[Len(chan) + 1] = id
    BY <1>1, <1>3
  <1> QED BY <1>2, <1>3, <1>4

LEMMA LinkTypes ==
  ASSUME TasksTyped, LinkTyped, Steps
  PROVE  LinkTyped'
  <1>0. Len(chan) \in Nat
    BY DEF LinkTyped
  <1>1. ASSUME UNCHANGED <<chan, receiving, reconnect>>, control'.conn = control.conn,
               connection' \in {connection, 0}, closing' \in {closing, connection, 0},
               channel_id' \in {channel_id, 0}
        PROVE  LinkTyped'
    BY <1>0, <1>1 DEF LinkTyped
  <1>2. CASE ConnectOk
    <2>1. PICK c \in Connections : /\ Made(c) /\ connection' = c
                                   /\ channel_id' \in {channel_id, chan'[c]}
      BY <1>2, Zenon DEF ConnectOk
    <2>2. UNCHANGED <<closing, receiving, control, reconnect>>
      BY <1>2, Zenon DEF ConnectOk, taskVars
    <2> QED BY <2>1, <2>2, Longer DEF LinkTyped
  <1>3. CASE StartOk
    <2>1. /\ control' = [pc |-> "select", conn |-> connection] /\ connection # 0
          /\ receiving' = [pc |-> "select", conn |-> connection]
          /\ UNCHANGED <<connection, closing, channel_id, reconnect, chan>>
      BY <1>3, Zenon DEF StartOk, connVars, netVars
    <2> QED BY <2>1 DEF LinkTyped
  <1>4. CASE ReceiveShutdown \/ ReceiveErr
    <2>1. /\ receiving' = [receiving EXCEPT !.pc = "ended"]
          /\ UNCHANGED <<connection, closing, channel_id, control, reconnect, chan>>
      BY <1>4, Zenon DEF ReceiveShutdown, ReceiveErr, ReceiveEnds, connVars
    <2> QED BY <2>1 DEF LinkTyped
  <1>5. ASSUME NEW pc, ControlTo(pc), UNCHANGED reconnect, connection' \in {connection, 0},
               closing' \in {closing, connection, 0}, channel_id' \in {channel_id, 0}
        PROVE  LinkTyped'
    <2>1. control'.conn = control.conn
      BY <1>5 DEF ControlTo, TasksTyped, ControlTasks
    <2>2. UNCHANGED <<chan, receiving>>
      BY <1>5, Zenon DEF ControlTo, netVars
    <2> QED BY <1>1, <1>5, <2>1, <2>2
  <1>6. CASE ControlRespond \/ ControlLost \/ ControlTake \/ ControlClosed \/ ControlEnds
    BY <1>5, <1>6, Zenon
       DEF ControlRespond, ControlLost, ControlTake, ControlClosed, ControlEnds, connVars
  <1>7. CASE ControlReconnect
    <2>1. CASE UNCHANGED reconnect
      BY <1>5, <1>7, <2>1, Zenon DEF ControlReconnect, connVars
    <2>2. ASSUME NEW r \in Reconnectors,
                 reconnect' = [reconnect EXCEPT ![r] =
                                 [pc |-> "check", attempt |-> 1, conn |-> 0]]
          PROVE  LinkTyped'
      <3>1. control'.conn = control.conn
        BY <1>7 DEF ControlReconnect, ControlTo, TasksTyped, ControlTasks
      <3>2. UNCHANGED <<chan, receiving, connection, closing, channel_id>>
        BY <1>7, Zenon DEF ControlReconnect, ControlTo, netVars, connVars
      <3> QED BY <1>0, <2>2, <3>1, <3>2 DEF LinkTyped, TasksTyped
    <2> QED BY <1>7, <2>1, <2>2, Zenon DEF ControlReconnect
  <1>8. ASSUME NEW r \in Reconnectors, ReconnectOk(r) PROVE LinkTyped'
    <2>1. PICK c \in Connections :
              Made(c) /\ connection' = c /\ ReconnectTo(r, "made", reconnect[r].attempt, c)
      BY <1>8, Zenon DEF ReconnectOk
    <2>2. /\ reconnect' = [reconnect EXCEPT ![r] =
                             [pc |-> "made", attempt |-> reconnect[r].attempt, conn |-> c]]
          /\ UNCHANGED <<closing, channel_id, receiving, control>>
      BY <1>8, <2>1, Zenon DEF ReconnectOk, ReconnectTo
    <2>3. /\ c # 0 /\ c \in 0 .. Len(chan')
      BY <2>1, Longer DEF Connections
    <2> QED BY <2>1, <2>2, <2>3, Longer DEF LinkTyped, TasksTyped
  <1>9. ASSUME NEW r \in Reconnectors, NEW pc, NEW n, NEW c, ReconnectTo(r, pc, n, c),
               c \in {0, reconnect[r].conn},
               pc \in {"made", "announced"} => c # 0,
               UNCHANGED <<chan, connection>>, channel_id' \in Channels \cup {0}
        PROVE  LinkTyped'
    <2>1. /\ reconnect' = [reconnect EXCEPT ![r] = [pc |-> pc, attempt |-> n, conn |-> c]]
          /\ UNCHANGED <<closing, receiving, control>>
      BY <1>9, Zenon DEF ReconnectTo
    <2> QED BY <1>0, <1>9, <2>1 DEF LinkTyped, TasksTyped
  <1>10. ASSUME NEW r \in Reconnectors, ReconnectCheck(r) \/ ReconnectEnd(r) \/ ReconnectErr(r)
         PROVE  LinkTyped'
    <2>1. /\ UNCHANGED <<chan, connection, channel_id>>
          /\ \E pc \in {"check", "trying", "ended"} : \E c \in {0, reconnect[r].conn} : \E n :
                ReconnectTo(r, pc, n, c)
      BY <1>10, Zenon DEF ReconnectCheck, ReconnectEnd, ReconnectErr
    <2>2. channel_id' \in Channels \cup {0}
      BY <2>1 DEF LinkTyped
    <2> QED BY <1>9, <2>1, <2>2
  <1>11. ASSUME NEW r \in Reconnectors, ReconnectAnnounce(r) \/ ReconnectTell(r) PROVE LinkTyped'
    <2>1. /\ reconnect[r].pc \in {"made", "announced"} /\ UNCHANGED <<chan, connection>>
          /\ channel_id' \in {channel_id, chan[reconnect[r].conn]}
          /\ \E pc, n : ReconnectTo(r, pc, n, reconnect[r].conn)
      BY <1>11, Zenon DEF ReconnectAnnounce, ReconnectTell, EstablishConnection
    <2>2. reconnect[r].conn \in 1 .. Len(chan)
      BY <1>0, <2>1 DEF LinkTyped
    <2>3. channel_id' \in Channels \cup {0}
      BY <2>1, <2>2 DEF LinkTyped
    <2> QED BY <1>9, <2>1, <2>2, <2>3
  <1>12. CASE \/ ConnectStart \/ ConnectAnnounce \/ ConnectErr \/ StartErr \/ StopStart
              \/ StopReceiving \/ StopControl \/ StopReconnect \/ StopEnd
    BY <1>1, <1>12, Zenon
       DEF ConnectStart, ConnectAnnounce, ConnectErr, StartErr, StopStart, StopReceiving,
           StopControl, StopReconnect, StopEnd, connVars, taskVars, netVars
  <1>13. CASE \/ DisconnectStart \/ DisconnectTake \/ DisconnectEnd \/ DisconnectErr \/ RunWait
              \/ CleanupEnds \/ CloseDiscards \/ HandleDisconnectRequest
    BY <1>1, <1>13, Zenon
       DEF DisconnectStart, DisconnectTake, DisconnectEnd, DisconnectErr, RunWait, CleanupEnds,
           CloseDiscards, HandleDisconnectRequest, connVars, taskVars, netVars
  <1>14. CASE \/ \E w \in Workers : WorkerEnds(w)
              \/ \E c \in Connections : GatewayDisconnects(c)
              \/ \E t \in Tellers : Tell(t)
    BY <1>1, <1>14, Zenon DEF WorkerEnds, GatewayDisconnects, Tell, connVars, taskVars, netVars
  <1>15. "app" \in Tellers /\ "control" \in Tellers /\ "reconnect" \in Tellers
    BY DEF Tellers
  <1> QED
    BY <1>2, <1>3, <1>4, <1>6, <1>7, <1>8, <1>10, <1>11, <1>12, <1>13, <1>14, <1>15, Zenon
       DEF Steps, AppSteps, ReceivingSteps, ControlSteps, ReconnectSteps

(* Attempts and what the network does are counted up to their bounds. *)
RetriesTyped ==
    \A r \in Reconnectors :
       /\ reconnect[r].attempt \in 0 .. use.attempts + 1
       /\ reconnect[r].pc = "trying" => reconnect[r].attempt <= use.attempts
NetTyped ==
    /\ inbox \in [Connections -> Nat] /\ \A c \in Connections : inbox[c] <= requests
    /\ requests \in 0 .. use.requests /\ failures \in 0 .. use.failures

LEMMA RetryTypes ==
  ASSUME use \in Uses, use' = use, TasksTyped, RetriesTyped, Steps
  PROVE  RetriesTyped'
  <1>0. use.attempts \in Nat
    BY LifecycleAssumption DEF Use
  <1>1. ASSUME UNCHANGED reconnect PROVE RetriesTyped'
    BY <1>1 DEF RetriesTyped
  <1>2. ASSUME NEW r \in Reconnectors, NEW pc, NEW n \in 0 .. use.attempts + 1, NEW c,
               pc = "trying" => n <= use.attempts,
               reconnect' = [reconnect EXCEPT ![r] = [pc |-> pc, attempt |-> n, conn |-> c]]
        PROVE  RetriesTyped'
    BY <1>0, <1>2 DEF RetriesTyped, TasksTyped
  <1>3. ASSUME NEW r \in Reconnectors, ReconnectSteps(r) \/ ReconnectErr(r) PROVE RetriesTyped'
    <2>0. reconnect[r].attempt \in 0 .. use.attempts + 1
      BY DEF RetriesTyped
    <2>1. CASE ReconnectCheck(r)
      <3> DEFINE to == IF shutdown_flag \/ GivesUp(reconnect[r].attempt) THEN "ended" ELSE "trying"
      <3>1. reconnect' = [reconnect EXCEPT ![r] =
                            [pc |-> to, attempt |-> reconnect[r].attempt, conn |-> 0]]
        BY <2>1 DEF ReconnectCheck, ReconnectTo
      <3>2. to = "trying" => reconnect[r].attempt <= use.attempts
        BY <1>0, <2>0 DEF GivesUp
      <3> HIDE DEF to
      <3> QED BY <1>2, <2>0, <3>1, <3>2, Zenon
    <2>2. CASE ReconnectErr(r)
      <3>1. /\ reconnect[r].pc = "trying"
            /\ reconnect' = [reconnect EXCEPT ![r] =
                               [pc |-> "check", attempt |-> reconnect[r].attempt + 1, conn |-> 0]]
        BY <2>2, Zenon DEF ReconnectErr, ReconnectTo
      <3> DEFINE n == reconnect[r].attempt + 1
      <3>2. n \in 0 .. use.attempts + 1 /\ ("check" = "trying" => n <= use.attempts)
        BY <1>0, <2>0, <3>1 DEF RetriesTyped
      <3>3. reconnect' = [reconnect EXCEPT ![r] = [pc |-> "check", attempt |-> n, conn |-> 0]]
        BY <3>1
      <3> HIDE DEF n
      <3> QED BY <1>2, <3>2, <3>3, Zenon
    <2>3. CASE ReconnectOk(r) \/ ReconnectAnnounce(r) \/ ReconnectTell(r) \/ ReconnectEnd(r)
      <3>1. \E pc \in {"made", "announced", "telling", "ended"} : \E c :
               reconnect' = [reconnect EXCEPT ![r] =
                               [pc |-> pc, attempt |-> reconnect[r].attempt, conn |-> c]]
        BY <2>3, Zenon DEF ReconnectOk, ReconnectAnnounce, ReconnectTell, ReconnectEnd, ReconnectTo
      <3> QED BY <1>2, <2>0, <3>1, Zenon
    <2>4. CASE Tell("reconnect")
      BY <1>1, <2>4, Zenon DEF Tell, taskVars
    <2> QED BY <1>3, <2>1, <2>2, <2>3, <2>4, Zenon DEF ReconnectSteps
  <1>4. CASE ControlReconnect
    <2>1. 1 \in 0 .. use.attempts + 1 /\ "check" # "trying"
      BY <1>0
    <2>2. ASSUME NEW r \in Reconnectors,
                 reconnect' = [reconnect EXCEPT ![r] =
                                 [pc |-> "check", attempt |-> 1, conn |-> 0]]
          PROVE  RetriesTyped'
      <3> DEFINE n == 1
      <3>1. n \in 0 .. use.attempts + 1 /\ ("check" = "trying" => n <= use.attempts)
        BY <2>1
      <3>2. reconnect' = [reconnect EXCEPT ![r] = [pc |-> "check", attempt |-> n, conn |-> 0]]
        BY <2>2
      <3> HIDE DEF n
      <3> QED BY <1>2, <3>1, <3>2, Zenon
    <2> QED BY <1>1, <1>4, <2>2, Zenon DEF ControlReconnect
  <1>5. CASE \/ ConnectStart \/ ConnectOk \/ ConnectAnnounce \/ ConnectErr \/ StartOk \/ StartErr
             \/ StopStart \/ StopReceiving \/ StopControl \/ StopReconnect \/ StopEnd
    BY <1>1, <1>5, Zenon
       DEF ConnectStart, ConnectOk, ConnectAnnounce, ConnectErr, StartOk, StartErr, StopStart,
           StopReceiving, StopControl, StopReconnect, StopEnd, taskVars
  <1>6. CASE \/ DisconnectStart \/ DisconnectTake \/ DisconnectEnd \/ DisconnectErr \/ RunWait
             \/ CleanupEnds \/ CloseDiscards \/ ReceivingSteps \/ ReceiveErr
             \/ \E w \in Workers : WorkerEnds(w)
             \/ \E c \in Connections : GatewayDisconnects(c)
             \/ Tell("app")
    BY <1>1, <1>6, Zenon
       DEF DisconnectStart, DisconnectTake, DisconnectEnd, DisconnectErr, RunWait, CleanupEnds,
           CloseDiscards, ReceivingSteps, HandleDisconnectRequest, ReceiveShutdown, ReceiveErr,
           ReceiveEnds, WorkerEnds, GatewayDisconnects, Tell, taskVars
  <1>7. CASE \/ ControlRespond \/ ControlLost \/ ControlTake \/ ControlClosed \/ ControlEnds
             \/ Tell("control")
    BY <1>1, <1>7, Zenon
       DEF ControlRespond, ControlLost, ControlTake, ControlClosed, ControlEnds, Tell, taskVars
  <1> QED BY <1>3, <1>4, <1>5, <1>6, <1>7, Zenon DEF Steps, AppSteps, ControlSteps

LEMMA NetTypes ==
  ASSUME use \in Uses, use' = use, NetTyped, Steps
  PROVE  NetTyped'
  <1>0. /\ use.requests \in Nat /\ use.failures \in Nat /\ requests \in Nat /\ failures \in Nat
    BY LifecycleAssumption DEF NetTyped, Use
  <1>1. ASSUME UNCHANGED <<inbox, requests>>, failures' = failures \/ Fails PROVE NetTyped'
    BY <1>0, <1>1 DEF NetTyped, Fails
  <1>2. ASSUME NEW c, inbox[c] > 0, inbox' = [inbox EXCEPT ![c] = @ - 1],
               UNCHANGED <<requests, failures>>
        PROVE  NetTyped'
    <2>1. CASE c \in Connections
      BY <1>0, <1>2, <2>1 DEF NetTyped
    <2>2. CASE c \notin Connections
      <3>1. inbox' = inbox
        BY <1>2, <2>2 DEF NetTyped
      <3> QED BY <1>1, <1>2, <3>1
    <2> QED BY <2>1, <2>2
  <1>3. ASSUME NEW c \in Connections, GatewayDisconnects(c) PROVE NetTyped'
    BY <1>0, <1>3 DEF NetTyped, GatewayDisconnects
  <1>4. CASE CloseDiscards \/ HandleDisconnectRequest
    BY <1>2, <1>4, Zenon DEF CloseDiscards, HandleDisconnectRequest
  <1>5. CASE \/ ConnectStart \/ ConnectOk \/ ConnectAnnounce \/ ConnectErr \/ StartOk \/ StartErr
             \/ StopStart \/ StopReceiving \/ StopControl \/ StopReconnect \/ StopEnd
    BY <1>1, <1>5, Zenon
       DEF ConnectStart, ConnectOk, ConnectAnnounce, ConnectErr, StartOk, StartErr, StopStart,
           StopReceiving, StopControl, StopReconnect, StopEnd, netVars
  <1>6. CASE \/ DisconnectStart \/ DisconnectTake \/ DisconnectEnd \/ DisconnectErr \/ RunWait
             \/ CleanupEnds \/ ReceiveShutdown \/ ReceiveErr
             \/ \E w \in Workers : WorkerEnds(w)
             \/ \E t \in Tellers : Tell(t)
    BY <1>1, <1>6, Zenon
       DEF DisconnectStart, DisconnectTake, DisconnectEnd, DisconnectErr, RunWait, CleanupEnds,
           ReceiveShutdown, ReceiveErr, ReceiveEnds, WorkerEnds, Tell, netVars
  <1>7. CASE ControlSteps /\ ~Tell("control")
    BY <1>1, <1>7, Zenon
       DEF ControlSteps, ControlRespond, ControlLost, ControlTake, ControlClosed,
           ControlReconnect, ControlEnds, ControlTo, netVars
  <1>8. ASSUME NEW r \in Reconnectors, ReconnectSteps(r) \/ ReconnectErr(r), ~Tell("reconnect")
        PROVE  NetTyped'
    BY <1>1, <1>8, Zenon
       DEF ReconnectSteps, ReconnectCheck, ReconnectOk, ReconnectAnnounce, ReconnectTell,
           ReconnectEnd, ReconnectErr, ReconnectTo
  <1>9. "app" \in Tellers /\ "control" \in Tellers /\ "reconnect" \in Tellers
    BY DEF Tellers
  <1> QED
    BY <1>3, <1>4, <1>5, <1>6, <1>7, <1>8, <1>9, Zenon
       DEF Steps, AppSteps, ReceivingSteps, ControlSteps, ReconnectSteps

-----------------------------------------------------------------------------
(* A single loss moves from place to place. *)

LEMMA LossStep ==
  ASSUME LifeInv, FlagsTyped, LinkTyped, NetTyped, LossInv, use \in Uses, use' = use, Steps
  PROVE  LossInv'
  <1> SUFFICES ASSUME use.requests <= 1 PROVE LossInv'
    BY DEF LossInv
  <1>0. /\ requests \in {0, 1} /\ use.requests \in {0, 1} /\ inbox \in [Connections -> Nat]
        /\ Len(chan) \in Nat /\ 1 .. Len(chan) \subseteq Connections
    BY LifecycleAssumption DEF NetTyped, LinkTyped, Use, Connections
  <1>1. ASSUME UNCHANGED <<inbox, requests, events, control, reconnect>> PROVE LossInv'
    BY <1>1 DEF LossInv, InSocket, Busy, Spawned
  <1>2. CASE StartOk
    <2>1. /\ control_rx /\ control'.pc = "select"
          /\ UNCHANGED <<inbox, requests, events, reconnect>>
      BY <1>2 DEF StartOk, netVars
    <2>2. control.pc = "none"
      BY <2>1 DEF LifeInv, SlotInv
    <2> QED BY <2>1, <2>2 DEF LossInv, InSocket, Busy, Spawned, Gone
  <1>3. ASSUME NEW c \in Connections, GatewayDisconnects(c) PROVE LossInv'
    <2>1. /\ requests = 0 /\ requests' = 1 /\ inbox' = [inbox EXCEPT ![c] = @ + 1]
          /\ UNCHANGED <<events, control, reconnect>>
      BY <1>0, <1>3 DEF GatewayDisconnects, flagVars, taskVars
    <2>2. ~InSocket /\ events = <<>> /\ ~Busy /\ ~Spawned
      BY <2>1 DEF LossInv
    <2>3. \A d \in Connections : inbox'[d] = IF d = c THEN 1 ELSE 0
      BY <1>0, <2>1, <2>2 DEF InSocket
    <2> QED BY <2>1, <2>2, <2>3 DEF LossInv, InSocket, Busy, Spawned
  <1>4. ASSUME NEW c \in Connections, inbox[c] > 0, inbox' = [inbox EXCEPT ![c] = @ - 1]
        PROVE  /\ ~InSocket' /\ requests = 1 /\ events = <<>> /\ ~Busy /\ ~Spawned
               /\ \A d, e \in Connections : ~(inbox'[d] > 0)
    <2>1. \A d \in Connections : inbox[d] > 0 => d = c /\ inbox[d] = 1
      BY <1>4 DEF LossInv
    <2>2. \A d \in Connections : ~(inbox'[d] > 0)
      BY <1>0, <1>4, <2>1
    <2> QED BY <1>0, <1>4, <2>2 DEF LossInv, InSocket
  <1>5. CASE CloseDiscards
    <2>1. /\ closing \in Connections /\ inbox[closing] > 0
          /\ inbox' = [inbox EXCEPT ![closing] = @ - 1]
          /\ UNCHANGED <<requests, events, control, reconnect>>
      BY <1>0, <1>5 DEF CloseDiscards, LinkTyped, flagVars, taskVars
    <2> QED BY <1>4, <2>1, Zenon DEF LossInv, Busy, Spawned
  <1>6. CASE HandleDisconnectRequest
    <2>1. /\ receiving.conn \in Connections /\ inbox[receiving.conn] > 0
          /\ inbox' = [inbox EXCEPT ![receiving.conn] = @ - 1]
      BY <1>0, <1>6 DEF HandleDisconnectRequest, LinkTyped
    <2>2. /\ UNCHANGED <<requests, control, reconnect>>
          /\ \/ events' = events
             \/ events' = events \o <<"respond", "lost">> /\ ~Gone(control.pc)
      BY <1>6, Zenon DEF HandleDisconnectRequest, taskVars
    <2>3. ~InSocket' /\ requests = 1 /\ events = <<>> /\ ~Busy /\ ~Spawned
      BY <1>4, <2>1, Zenon
    <2>4. \/ events' = <<>>
          \/ events' = <<"respond", "lost">> /\ ~Gone(control.pc)
      <3>1. events = <<>> => events \o <<"respond", "lost">> = <<"respond", "lost">>
        OBVIOUS
      <3> QED BY <2>2, <2>3, <3>1, Zenon
    <2>5. \A d, e \in Connections : ~(inbox'[d] > 0)
      BY <1>4, <2>1, Zenon
    <2> QED BY <2>2, <2>3, <2>4, <2>5 DEF LossInv, Busy, Spawned
  <1>7. ASSUME NEW pc, ControlTo(pc)
        PROVE  control'.pc = pc /\ UNCHANGED <<inbox, requests>>
    BY <1>7 DEF ControlTo, netVars, LifeInv, TasksTyped, ControlTasks
  <1>8. CASE ControlRespond \/ ControlLost
    <2>1. /\ control.pc = "select" /\ events # <<>> /\ events' = Tail(events)
          /\ control'.pc \in {"select", "lost"} /\ UNCHANGED <<inbox, requests, reconnect>>
      BY <1>7, <1>8, Zenon DEF ControlRespond, ControlLost
    <2>2. /\ ControlRespond => events = <<"respond", "lost">> /\ control'.pc = "select"
          /\ ControlLost => events = <<"lost">>
      <3>1. Head(<<"lost">>) = "lost" /\ Head(<<"respond", "lost">>) = "respond"
        OBVIOUS
      <3>2. events \in {<<"respond", "lost">>, <<"lost">>}
        BY <2>1 DEF LossInv
      <3>3. ControlRespond => Head(events) = "respond" /\ control'.pc = "select"
        BY <1>7, Zenon DEF ControlRespond
      <3>4. ControlLost => Head(events) = "lost"
        BY Zenon DEF ControlLost
      <3> QED BY <3>1, <3>2, <3>3, <3>4
    <2>3. Tail(<<"respond", "lost">>) = <<"lost">> /\ Tail(<<"lost">>) = <<>>
      OBVIOUS
    <2>4. ~InSocket /\ ~Busy /\ ~Spawned /\ requests = 1
      BY <1>0, <2>1 DEF LossInv
    <2> QED BY <1>8, <2>1, <2>2, <2>3, <2>4, Zenon DEF LossInv, InSocket, Busy, Spawned, Gone
  <1>9. CASE ControlTake \/ ControlClosed
    <2>1. /\ Busy /\ control'.pc \in {"closing", "reconnect", "ended"}
          /\ events' \in {events, <<>>} /\ UNCHANGED <<inbox, requests, reconnect>>
      BY <1>7, <1>9, Zenon DEF ControlTake, ControlClosed, Busy
    <2>2. ~InSocket /\ events = <<>> /\ ~Spawned /\ requests = 1
      BY <1>0, <2>1 DEF LossInv
    <2> QED BY <2>1, <2>2 DEF LossInv, InSocket, Busy, Spawned, Gone
  <1>10. CASE ControlReconnect
    <2>1. /\ Busy /\ control'.pc = "select" /\ UNCHANGED <<events, inbox, requests>>
      BY <1>7, <1>10, Zenon DEF ControlReconnect, Busy
    <2>2. ~InSocket /\ events = <<>> /\ ~Spawned /\ requests = 1
      BY <1>0, <2>1 DEF LossInv
    <2> QED BY <2>1, <2>2 DEF LossInv, InSocket, Busy, Spawned, Gone
  <1>11. CASE ControlEnds
    <2>1. /\ control.pc = "select" /\ control'.pc = "ended" /\ events' = <<>>
          /\ UNCHANGED <<inbox, requests, reconnect>>
      BY <1>7, <1>11, Zenon DEF ControlEnds
    <2> QED BY <2>1 DEF LossInv, InSocket, Busy, Spawned, Gone
  <1>12. ASSUME NEW r \in Reconnectors, ReconnectSteps(r) \/ ReconnectErr(r), ~Tell("reconnect")
         PROVE  LossInv'
    <2>1. /\ reconnect[r].pc # "none" /\ UNCHANGED <<events, inbox, requests, control>>
      BY <1>12 DEF ReconnectSteps, ReconnectCheck, ReconnectOk, ReconnectAnnounce, ReconnectTell,
           ReconnectEnd, ReconnectErr, ReconnectTo, flagVars
    <2>2. ~InSocket /\ events = <<>> /\ ~Busy /\ requests = 1
      BY <1>0, <2>1 DEF LossInv, Spawned
    <2> QED BY <2>1, <2>2 DEF LossInv, InSocket, Busy, Gone
  <1>13. CASE \/ ConnectStart \/ ConnectOk \/ ConnectAnnounce \/ ConnectErr \/ StartErr
              \/ StopStart \/ StopReceiving \/ StopControl \/ StopReconnect \/ StopEnd
    BY <1>1, <1>13, Zenon
       DEF ConnectStart, ConnectOk, ConnectAnnounce, ConnectErr, StartErr, StopStart,
           StopReceiving, StopControl, StopReconnect, StopEnd, flagVars, taskVars, netVars
  <1>14. CASE \/ DisconnectStart \/ DisconnectTake \/ DisconnectEnd \/ DisconnectErr \/ RunWait
              \/ CleanupEnds \/ ReceiveShutdown \/ ReceiveErr
              \/ \E w \in Workers : WorkerEnds(w)
              \/ \E t \in Tellers : Tell(t)
    BY <1>1, <1>14, Zenon
       DEF DisconnectStart, DisconnectTake, DisconnectEnd, DisconnectErr, RunWait, CleanupEnds,
           ReceiveShutdown, ReceiveErr, ReceiveEnds, WorkerEnds, Tell, flagVars, taskVars, netVars
  <1>15. "app" \in Tellers /\ "control" \in Tellers /\ "reconnect" \in Tellers
    BY DEF Tellers
  <1> QED
    BY <1>2, <1>3, <1>5, <1>6, <1>8, <1>9, <1>10, <1>11, <1>12, <1>13, <1>14, <1>15, Zenon
       DEF Steps, AppSteps, ReceivingSteps, ControlSteps, ReconnectSteps

-----------------------------------------------------------------------------
(* Who speaks of the state. *)

LEMMA TailStops ==
  ASSUME NEW s \in Seq(ApiCalls), s # <<>>
  PROVE  /\ StopsBetween(s) => StopsBetween(Tail(s))
         /\ StopsBetween(s) /\ Head(s) = "start" => StopsBefore(Tail(s))
         /\ StopsBefore(s) /\ Head(s) # "stop" => StopsBefore(Tail(s))
         /\ StopsBefore(s) => Head(s) \notin {"connect", "disconnect"}
  <1> DEFINE t == Tail(s)
  <1>1. /\ t \in Seq(ApiCalls) /\ Len(t) = Len(s) - 1 /\ Len(s) >= 1 /\ Len(s) \in Nat
        /\ Head(s) = s[1] /\ \A i \in 1 .. Len(s) - 1 : t[i] = s[i + 1]
    BY TailFacts
  <1> HIDE DEF t
  <1>2. DOMAIN s = 1 .. Len(s) /\ DOMAIN t = 1 .. Len(s) - 1
    BY <1>1
  <1>3. ASSUME StopsBetween(s) PROVE StopsBetween(t)
    <2> SUFFICES ASSUME NEW i \in DOMAIN t, NEW j \in DOMAIN t, i < j, t[i] = "start",
                        t[j] \in {"connect", "disconnect"}
                 PROVE  \E k \in i .. j : t[k] = "stop"
      BY DEF StopsBetween
    <2>1. i + 1 \in DOMAIN s /\ j + 1 \in DOMAIN s /\ i + 1 < j + 1
          /\ s[i + 1] = t[i] /\ s[j + 1] = t[j]
      BY <1>1, <1>2
    <2>2. PICK k \in i + 1 .. j + 1 : s[k] = "stop"
      BY <1>3, <2>1 DEF StopsBetween
    <2>3. k - 1 \in i .. j /\ t[k - 1] = s[k]
      BY <1>1, <1>2, <2>2
    <2> QED BY <2>2, <2>3
  <1>4. ASSUME StopsBetween(s), s[1] = "start" PROVE StopsBefore(t)
    <2> SUFFICES ASSUME NEW j \in DOMAIN t, t[j] \in {"connect", "disconnect"}
                 PROVE  \E k \in 1 .. j : t[k] = "stop"
      BY DEF StopsBefore
    <2>1. 1 \in DOMAIN s /\ j + 1 \in DOMAIN s /\ 1 < j + 1 /\ s[j + 1] = t[j]
      BY <1>1, <1>2
    <2>2. PICK k \in 1 .. j + 1 : s[k] = "stop"
      BY <1>4, <2>1 DEF StopsBetween
    <2>3. k - 1 \in 1 .. j /\ t[k - 1] = s[k]
      BY <1>1, <1>2, <1>4, <2>2
    <2> QED BY <2>2, <2>3
  <1>5. ASSUME StopsBefore(s), s[1] # "stop" PROVE StopsBefore(t)
    <2> SUFFICES ASSUME NEW j \in DOMAIN t, t[j] \in {"connect", "disconnect"}
                 PROVE  \E k \in 1 .. j : t[k] = "stop"
      BY DEF StopsBefore
    <2>1. j + 1 \in DOMAIN s /\ s[j + 1] = t[j]
      BY <1>1, <1>2
    <2>2. PICK k \in 1 .. j + 1 : s[k] = "stop"
      BY <1>5, <2>1 DEF StopsBefore
    <2>3. k - 1 \in 1 .. j /\ t[k - 1] = s[k]
      BY <1>1, <1>2, <1>5, <2>2
    <2> QED BY <2>2, <2>3
  <1>6. ASSUME StopsBefore(s), s[1] \in {"connect", "disconnect"} PROVE FALSE
    <2>1. 1 \in DOMAIN s
      BY <1>1, <1>2
    <2>2. PICK k \in 1 .. 1 : s[k] = "stop"
      BY <1>6, <2>1 DEF StopsBefore
    <2> QED BY <1>6, <2>2
  <1> QED BY <1>1, <1>3, <1>4, <1>5, <1>6 DEF t

(* The tasks that change the state, once quiet, are woken by start() alone. *)
LEMMA QuietKept ==
  ASSUME Quiet, Steps, ~StartOk
  PROVE  UNCHANGED <<control, reconnect>>
  <1>1. CASE ControlSteps /\ ~Tell("control")
    <2>1. control.pc \notin {"none", "ended"}
      BY <1>1 DEF ControlSteps, ControlRespond, ControlLost, ControlTake, ControlClosed,
                  ControlReconnect, ControlEnds
    <2> QED BY <2>1 DEF Quiet, Gone
  <1>2. ASSUME NEW r \in Reconnectors, ReconnectSteps(r) \/ ReconnectErr(r), ~Tell("reconnect")
        PROVE  FALSE
    <2>1. reconnect[r].pc \notin {"none", "ended"}
      BY <1>2 DEF ReconnectSteps, ReconnectCheck, ReconnectOk, ReconnectAnnounce, ReconnectTell,
                  ReconnectEnd, ReconnectErr
    <2> QED BY <2>1 DEF Quiet, Running, Gone
  <1>3. CASE \/ ConnectStart \/ ConnectOk \/ ConnectAnnounce \/ ConnectErr \/ StartErr
             \/ StopStart \/ StopReceiving \/ StopControl \/ StopReconnect \/ StopEnd
    BY <1>3, Zenon
       DEF ConnectStart, ConnectOk, ConnectAnnounce, ConnectErr, StartErr, StopStart,
           StopReceiving, StopControl, StopReconnect, StopEnd, taskVars
  <1>4. CASE \/ DisconnectStart \/ DisconnectTake \/ DisconnectEnd \/ DisconnectErr \/ RunWait
             \/ CleanupEnds \/ ReceivingSteps \/ ReceiveErr
             \/ \E w \in Workers : WorkerEnds(w)
             \/ \E t \in Tellers : Tell(t)
             \/ CloseDiscards \/ \E c \in Connections : GatewayDisconnects(c)
    BY <1>4, Zenon
       DEF DisconnectStart, DisconnectTake, DisconnectEnd, DisconnectErr, RunWait, CleanupEnds,
           ReceivingSteps, ReceiveShutdown, ReceiveErr, ReceiveEnds, HandleDisconnectRequest,
           WorkerEnds, Tell, CloseDiscards, GatewayDisconnects, taskVars
  <1>5. "app" \in Tellers /\ "control" \in Tellers /\ "reconnect" \in Tellers
    BY DEF Tellers
  <1> QED
    BY <1>1, <1>2, <1>3, <1>4, <1>5, Zenon DEF Steps, AppSteps, ControlSteps, ReconnectSteps

(* A step of another than the application. *)
NotTheApps ==
    \/ ReceivingSteps \/ ReceiveErr \/ ControlSteps
    \/ \E w \in Workers : WorkerEnds(w)
    \/ \E r \in Reconnectors : ReconnectSteps(r) \/ ReconnectErr(r)
    \/ RunWait \/ CleanupEnds \/ CloseDiscards
    \/ \E c \in Connections : GatewayDisconnects(c)

LEMMA AppUntouched ==
  ASSUME StateTyped, NotTheApps
  PROVE  UNCHANGED <<app, script>> /\ (Free("app") => Free("app")')
  <1>1. UNCHANGED <<app, script>>
    BY Zenon
       DEF NotTheApps, ReceivingSteps, HandleDisconnectRequest, ReceiveShutdown, ReceiveErr,
           ReceiveEnds, ControlSteps, ControlRespond, ControlLost, ControlTake, ControlClosed,
           ControlReconnect, ControlEnds, ControlTo, WorkerEnds, ReconnectSteps, ReconnectCheck,
           ReconnectOk, ReconnectAnnounce, ReconnectTell, ReconnectEnd, ReconnectErr, ReconnectTo,
           RunWait, CleanupEnds, CloseDiscards, GatewayDisconnects, Tell, appVars
  <1>2. \/ telling' = telling
        \/ \E t \in {"control", "reconnect"} : \E s : telling' = [telling EXCEPT ![t] = s]
    BY Zenon
       DEF NotTheApps, ReceivingSteps, HandleDisconnectRequest, ReceiveShutdown, ReceiveErr,
           ReceiveEnds, ControlSteps, ControlRespond, ControlLost, ControlTake, ControlClosed,
           ControlReconnect, ControlEnds, WorkerEnds, ReconnectSteps, ReconnectCheck,
           ReconnectOk, ReconnectAnnounce, ReconnectTell, ReconnectEnd, ReconnectErr,
           RunWait, CleanupEnds, CloseDiscards, GatewayDisconnects, Tell, connVars, stateVars,
           StateBecomes
  <1>3. telling'["app"] = telling["app"]
    BY <1>2 DEF StateTyped, Tellers
  <1> QED BY <1>1, <1>3 DEF Free

LEMMA AsideStep ==
  ASSUME Orderly, LifeInv, LifeInv', StateTyped, AppTyped, StopsBetween(script),
         Quiet \/ AppIsAside, use' = use, Steps
  PROVE  StopsBetween(script)' /\ (Quiet \/ AppIsAside)'
  <1>1. ASSUME NEW name, Calls(name)
        PROVE  /\ app = "idle" /\ Free("app") /\ StopsBetween(script')
               /\ name = "start" => StopsBefore(script')
               /\ StopsBefore(script) /\ name # "stop" => StopsBefore(script')
               /\ StopsBefore(script) => name \notin {"connect", "disconnect"}
    BY <1>1, TailStops, Zenon DEF Calls, AppTyped
  <1>2. CASE StartOk
    <2>1. Calls("start") /\ UNCHANGED <<app, stateVars>>
      BY <1>2, Zenon DEF StartOk, connVars
    <2> QED BY <1>1, <2>1 DEF AppIsAside, Free, stateVars
  <1>3. CASE NotTheApps
    <2>1. UNCHANGED <<app, script>> /\ (Free("app") => Free("app")')
      BY <1>3, AppUntouched
    <2>2. ~StartOk => (Quiet => Quiet')
      BY QuietKept DEF Quiet, Running
    <2> QED BY <1>2, <2>1, <2>2 DEF AppIsAside
  <1>4. ASSUME ~StartOk, Quiet PROVE Quiet'
    BY <1>4, QuietKept DEF Quiet, Running
  <1>5. CASE ConnectStart \/ DisconnectStart
    <2>1. \E name \in {"connect", "disconnect"} : Calls(name)
      BY <1>5, Zenon DEF ConnectStart, DisconnectStart
    <2>2. StopsBetween(script') /\ ~AppIsAside
      BY <1>1, <2>1, Zenon DEF AppIsAside
    <2> QED BY <1>2, <1>4, <2>2
  <1>6. CASE StartErr \/ StopStart
    <2>1. /\ \E name \in {"start", "stop", "shutdown"} : Calls(name)
          /\ StartErr => Calls("start") /\ app' = app
          /\ StopStart => app' = "stop receiving"
          /\ telling' = telling
      BY <1>6, Zenon DEF StartErr, StopStart, connVars, stateVars
    <2>2. StopsBetween(script') /\ (StartErr => StopsBefore(script')) /\ Free("app")
          /\ app = "idle"
      BY <1>1, <2>1, Zenon
    <2> QED BY <1>6, <2>1, <2>2 DEF AppIsAside, Free
  <1>7. CASE StopReceiving \/ StopControl
    <2>1. /\ app' \in {"stop control", "stop reconnect"} /\ UNCHANGED <<script, telling>>
      BY <1>7, Zenon DEF StopReceiving, StopControl, connVars, stateVars
    <2> QED BY <1>2, <1>4, <2>1 DEF AppIsAside, Free
  <1>8. CASE StopReconnect
    <2>1. app' = "stop refresh" /\ script' = script
      BY <1>8, Zenon DEF StopReconnect
    <2>2. StopWaitsLongEnough'
      BY DEF Orderly, StopWaitsLongEnough
    <2> QED BY <2>1, <2>2 DEF LifeInv, DownInv, PastStop
  <1>9. CASE \/ ConnectOk \/ ConnectAnnounce \/ ConnectErr \/ StopEnd \/ DisconnectTake
             \/ DisconnectEnd \/ DisconnectErr \/ Tell("app")
    <2>1. script' = script
      BY <1>9, Zenon
         DEF ConnectOk, ConnectAnnounce, ConnectErr, StopEnd, DisconnectTake, DisconnectEnd,
             DisconnectErr, Tell, appVars
    <2>2. ~AppIsAside
      BY <1>9 DEF ConnectOk, ConnectAnnounce, ConnectErr, StopEnd, DisconnectTake, DisconnectEnd,
                  DisconnectErr, Tell, AppIsAside
    <2> QED BY <1>2, <1>4, <2>1, <2>2
  <1> QED
    BY <1>2, <1>3, <1>5, <1>6, <1>7, <1>8, <1>9, Zenon DEF Steps, AppSteps, NotTheApps

(* While the tasks are quiet only the application has something to tell. *)
LEMMA QuietIsMute ==
  ASSUME Quiet, Claims
  PROVE  /\ Free("control") /\ Free("reconnect") /\ control.pc # "lost"
         /\ \A r \in Reconnectors : reconnect[r].pc \notin {"made", "announced", "telling"}
  BY DEF Quiet, Claims, Running, Gone

LEMMA AppBecomes ==
  ASSUME StateTyped, Claims, Quiet, UNCHANGED <<control, reconnect, connection>>, NEW s \in KnxState,
         StateBecomes("app", s), s = "Connected" => connection # 0,
         app' = "disconnecting" => s = "Disconnecting", app' # "connected"
  PROVE  Claims'
  <1>1. /\ state' = s /\ telling' = [telling EXCEPT !["app"] = s] /\ told' = told
    BY DEF StateBecomes
  <1>2. /\ telling'["app"] = s /\ telling'["control"] = "nothing"
        /\ telling'["reconnect"] = "nothing" /\ s # "nothing"
    BY <1>1, QuietIsMute DEF StateTyped, Free, Tellers, KnxState
  <1>3. \A t \in Tellers : telling'[t] \in {"nothing", s}
    BY <1>2 DEF Tellers
  <1>4. ~Free("app")' /\ "app" \in Tellers
    BY <1>2 DEF Free, Tellers
  <1> QED BY <1>1, <1>2, <1>3, <1>4, QuietIsMute DEF Claims, Free

(* The state stays as it is. *)
LEMMA StateStays ==
  ASSUME Claims, UNCHANGED stateVars, control' = control \/ control'.pc # "lost",
         control'.pc = "lost" \/ control.pc # "lost" \/ Free("control"),
         reconnect' = reconnect,
         app' = "disconnecting" => app = "disconnecting",
         app' = "connected" => connection' # 0,
         \/ connection' = connection \/ connection' # 0
         \/ state # "Connected" /\ \A r \in Reconnectors : reconnect[r].pc # "made"
  PROVE  Claims'
  BY DEF Claims, stateVars, Free

LEMMA ClaimsOfApp ==
  ASSUME Orderly, LifeInv, LinkTyped, StateTyped, AppTyped, Quiet \/ AppIsAside, Claims,
         \/ ConnectStart \/ ConnectOk \/ ConnectAnnounce \/ ConnectErr
         \/ StartOk \/ StartErr \/ StopStart \/ StopReceiving \/ StopControl \/ StopReconnect
         \/ StopEnd \/ DisconnectStart \/ DisconnectTake \/ DisconnectEnd \/ DisconnectErr
         \/ Tell("app")
  PROVE  Claims'
  <1>1. KnxState = {"Disconnected", "Connecting", "Connected", "Disconnecting", "Error"}
    BY DEF KnxState
  <1>2. CASE ConnectStart \/ DisconnectStart
    <2>1. PICK name \in {"connect", "disconnect"} : Calls(name)
      BY <1>2, Zenon DEF ConnectStart, DisconnectStart
    <2>2. Quiet
      BY <2>1, TailStops, Zenon DEF AppIsAside, Calls, AppTyped
    <2>3. /\ UNCHANGED <<control, reconnect, connection>> /\ app' \in {"connecting", "disconnecting"}
          /\ StateBecomes("app", IF app' = "connecting" THEN "Connecting" ELSE "Disconnecting")
      BY <1>2 DEF ConnectStart, DisconnectStart, taskVars
    <2> QED BY <1>1, <2>2, <2>3, AppBecomes
  <1>3. CASE ConnectAnnounce
    <2>1. /\ app = "connected" /\ app' = "idle" /\ StateBecomes("app", "Connected")
          /\ UNCHANGED <<control, reconnect, connection>>
      BY <1>3, Zenon DEF ConnectAnnounce, taskVars
    <2>2. Quiet /\ connection # 0
      BY <2>1 DEF AppIsAside, Claims
    <2> QED BY <1>1, <2>1, <2>2, AppBecomes
  <1>4. CASE ConnectErr
    <2>1. /\ app = "connecting" /\ app' = "idle" /\ UNCHANGED <<control, reconnect, connection>>
          /\ StateBecomes("app", "Error") \/ UNCHANGED stateVars
      BY <1>4, Zenon DEF ConnectErr, taskVars
    <2>2. Quiet
      BY <2>1 DEF AppIsAside
    <2> QED BY <1>1, <2>1, <2>2, AppBecomes, StateStays
  <1>5. CASE StopEnd
    <2>1. /\ app = "stop refresh" /\ UNCHANGED <<control, reconnect, connection>>
          /\ \/ app' = "disconnecting" /\ StateBecomes("app", "Disconnecting")
             \/ app' = "idle" /\ UNCHANGED stateVars
      BY <1>5, Zenon DEF StopEnd
    <2>2. Quiet
      BY <2>1 DEF AppIsAside
    <2> QED BY <1>1, <2>1, <2>2, AppBecomes, StateStays
  <1>6. CASE DisconnectEnd
    <2>1. /\ app = "closing" /\ app' \in {"down", "idle"} /\ StateBecomes("app", "Disconnected")
          /\ UNCHANGED <<control, reconnect, connection>>
      BY <1>6, Zenon DEF DisconnectEnd, taskVars
    <2>2. Quiet
      BY <2>1 DEF AppIsAside
    <2> QED BY <1>1, <2>1, <2>2, AppBecomes
  <1>7. CASE ConnectOk
    <2>1. /\ app' = "connected" /\ connection' \in Connections
          /\ UNCHANGED <<stateVars, control, reconnect>>
      BY <1>7, Zenon DEF ConnectOk, taskVars
    <2>2. connection' # 0
      BY <2>1 DEF Connections
    <2> QED BY <2>1, <2>2, StateStays
  <1>8. CASE DisconnectTake
    <2>1. /\ app = "disconnecting" /\ app' = "closing"
          /\ UNCHANGED <<stateVars, control, reconnect>>
      BY <1>8, Zenon DEF DisconnectTake, taskVars
    <2>2. Quiet /\ state # "Connected"
      BY <2>1 DEF AppIsAside, Claims
    <2> QED BY <2>1, <2>2, QuietIsMute, StateStays
  <1>9. CASE StartOk
    <2>1. /\ control'.pc = "select" /\ app = "idle" /\ control_rx
          /\ UNCHANGED <<stateVars, connection, app, reconnect>>
      BY <1>9 DEF StartOk, connVars, Calls
    <2>2. control.pc = "none"
      BY <2>1 DEF LifeInv, SlotInv
    <2> QED BY <2>1, <2>2, StateStays
  <1>10. CASE \/ StartErr \/ StopStart \/ StopReceiving \/ StopControl \/ StopReconnect
              \/ DisconnectErr
    <2>1. /\ app' \notin {"disconnecting", "connected"}
          /\ UNCHANGED <<stateVars, connection, control, reconnect>>
      BY <1>10, Zenon DEF StartErr, StopStart, StopReceiving, StopControl, StopReconnect, DisconnectErr,
                   Calls, connVars, taskVars
    <2> QED BY <2>1, StateStays
  <1>11. CASE Tell("app")
    <2>1. /\ telling["app"] # "nothing" /\ told' = telling["app"]
          /\ telling' = [telling EXCEPT !["app"] = "nothing"]
          /\ UNCHANGED <<state, connection, app, control, reconnect>>
      BY <1>11, Zenon DEF Tell, Free, appVars, taskVars
    <2>2. told' = state /\ \A t \in Tellers : telling'[t] \in {"nothing", telling[t]}
      BY <2>1 DEF Claims, StateTyped, Tellers
    <2> QED BY <2>1, <2>2 DEF Claims, Free, StateTyped, Tellers
  <1> QED BY <1>2, <1>3, <1>4, <1>5, <1>6, <1>7, <1>8, <1>9, <1>10, <1>11

LEMMA ClaimsOfControl ==
  ASSUME Orderly, LifeInv, LossInv, StateTyped, Quiet \/ AppIsAside, Claims, ControlSteps
  PROVE  Claims'
  <1>0. use.requests <= 1
    BY DEF Orderly
  <1>1. ASSUME NEW pc, ControlTo(pc) PROVE control'.pc = pc /\ app' = app
    BY <1>1 DEF ControlTo, LifeInv, TasksTyped, ControlTasks, appVars
  <1>2. CASE ControlRespond \/ ControlClosed \/ ControlEnds
    <2>1. /\ control.pc # "lost" /\ control'.pc # "lost"
          /\ UNCHANGED <<stateVars, connection, app, reconnect>>
      BY <1>1, <1>2 DEF ControlRespond, ControlClosed, ControlEnds, connVars
    <2> QED BY <2>1, StateStays DEF Claims
  <1>3. CASE ControlLost
    <2>1. /\ control.pc = "select" /\ control'.pc = "lost" /\ events # <<>>
          /\ UNCHANGED <<connection, app, reconnect>>
          /\ StateBecomes("control", "Disconnected")
      BY <1>1, <1>3, Zenon DEF ControlLost
    <2>2. ~Spawned /\ Free("app") /\ app \notin {"disconnecting", "connected"}
      BY <1>0, <2>1 DEF LossInv, Quiet, Gone, AppIsAside
    <2>3. Free("reconnect") /\ \A r \in Reconnectors : reconnect[r].pc = "none"
      BY <2>2 DEF Spawned, Claims
    <2>4. /\ state' = "Disconnected" /\ telling'["app"] = "nothing"
          /\ telling'["reconnect"] = "nothing" /\ telling'["control"] = "Disconnected"
      BY <2>1, <2>2, <2>3 DEF StateBecomes, StateTyped, Free, Tellers
    <2>5. "control" \in Tellers /\ \A t \in Tellers : telling'[t] \in {"nothing", "Disconnected"}
      BY <2>4 DEF Tellers
    <2> QED BY <2>1, <2>2, <2>3, <2>4, <2>5 DEF Claims, Free
  <1>4. CASE ControlTake
    <2>1. /\ control.pc = "lost" /\ control'.pc = "closing" /\ Free("control")
          /\ UNCHANGED <<stateVars, app, reconnect>>
      BY <1>1, <1>4, Zenon DEF ControlTake
    <2>2. ~Spawned /\ state = "Disconnected" /\ app \notin {"disconnecting", "connected"}
      BY <1>0, <2>1 DEF LossInv, Busy, Claims, Quiet, Gone, AppIsAside
    <2> QED BY <2>1, <2>2, StateStays DEF Spawned
  <1>5. CASE ControlReconnect
    <2>1. /\ control.pc = "reconnect" /\ control'.pc = "select"
          /\ UNCHANGED <<stateVars, connection, app>>
      BY <1>1, <1>5, Zenon DEF ControlReconnect, connVars
    <2>2. CASE UNCHANGED reconnect
      BY <2>1, <2>2, StateStays DEF Claims
    <2>3. ASSUME NEW r \in Reconnectors, Fresh(r),
                 reconnect' = [reconnect EXCEPT ![r] =
                                 [pc |-> "check", attempt |-> 1, conn |-> 0]]
          PROVE  Claims'
      <3>1. /\ reconnect[r].pc = "none" /\ reconnect'[r].pc = "check"
            /\ \A q \in Reconnectors : q # r => reconnect'[q] = reconnect[q]
        BY <2>3 DEF Fresh, LifeInv, TasksTyped
      <3>2. \A q \in Reconnectors :
               \A pc \in {"made", "announced", "telling"} :
                  reconnect'[q].pc = pc <=> reconnect[q].pc = pc
        BY <3>1
      <3>3. Free("control")
        BY <2>1 DEF Claims
      <3> QED BY <2>1, <3>2, <3>3 DEF Claims, stateVars, Free
    <2> QED BY <1>5, <2>2, <2>3, Zenon DEF ControlReconnect
  <1>6. CASE Tell("control")
    <2>1. /\ telling["control"] # "nothing" /\ told' = telling["control"]
          /\ telling' = [telling EXCEPT !["control"] = "nothing"]
          /\ UNCHANGED <<state, connection, app, control, reconnect>>
      BY <1>6, Zenon DEF Tell, Free, appVars, taskVars
    <2>2. told' = state /\ \A t \in Tellers : telling'[t] \in {"nothing", telling[t]}
      BY <2>1 DEF Claims, StateTyped, Tellers
    <2> QED BY <2>1, <2>2 DEF Claims, Free, StateTyped, Tellers
  <1> QED BY <1>2, <1>3, <1>4, <1>5, <1>6, Zenon DEF ControlSteps

LEMMA ClaimsOfReconnect ==
  ASSUME Orderly, LifeInv, LossInv, StateTyped, Quiet \/ AppIsAside, Claims,
         NEW r \in Reconnectors, ReconnectSteps(r) \/ ReconnectErr(r)
  PROVE  Claims'
  <1>0. /\ use.requests <= 1 /\ ~({"control", "reconnect"} \subseteq use.slow)
        /\ reconnect \in [Reconnectors -> ReconnectTasks]
    BY DEF Orderly, StopWaitsLongEnough, LifeInv, TasksTyped
  <1>1. CASE Tell("reconnect") /\ reconnect[r].pc = "telling"
    <2>1. /\ telling["reconnect"] # "nothing" /\ told' = telling["reconnect"]
          /\ telling' = [telling EXCEPT !["reconnect"] = "nothing"]
          /\ UNCHANGED <<state, connection, app, control, reconnect>>
      BY <1>1, Zenon DEF Tell, Free, appVars, taskVars
    <2>2. told' = state /\ \A t \in Tellers : telling'[t] \in {"nothing", telling[t]}
      BY <2>1 DEF Claims, StateTyped, Tellers
    <2> QED BY <2>1, <2>2 DEF Claims, Free, StateTyped, Tellers
  <1>2. ASSUME Running(r)
        PROVE  /\ Free("app") /\ Free("control") /\ control.pc # "lost"
               /\ app \notin {"disconnecting", "connected"}
               /\ \A q \in Reconnectors : q # r => Gone(reconnect[q].pc)
    <2>1. Spawned /\ ~Quiet
      BY <1>2 DEF Spawned, Running, Gone, Quiet
    <2>2. ~Busy
      BY <1>0, <2>1 DEF LossInv
    <2>3. \A q \in Reconnectors : q # r => Gone(reconnect[q].pc)
      BY <1>0, <1>2 DEF LifeInv, SlotInv, OneReconnector, Running
    <2> QED BY <2>1, <2>2, <2>3 DEF AppIsAside, Busy, Claims
  <1>3. ASSUME NEW pc, NEW n, NEW c, ReconnectTo(r, pc, n, c)
        PROVE  /\ reconnect'[r].pc = pc /\ UNCHANGED <<app, control>>
               /\ \A q \in Reconnectors : q # r => reconnect'[q] = reconnect[q]
    BY <1>0, <1>3 DEF ReconnectTo, appVars
  <1>4. CASE ReconnectCheck(r) \/ ReconnectErr(r) \/ ReconnectEnd(r)
    <2>1. /\ reconnect[r].pc \in {"check", "trying", "telling"}
          /\ reconnect[r].pc = "telling" => Free("reconnect")
          /\ reconnect'[r].pc \in {"trying", "check", "ended"}
          /\ UNCHANGED <<stateVars, connection, app, control>>
          /\ \A q \in Reconnectors : q # r => reconnect'[q] = reconnect[q]
      BY <1>3, <1>4 DEF ReconnectCheck, ReconnectErr, ReconnectEnd
    <2>2. \A q \in Reconnectors :
             /\ reconnect'[q].pc = "made" => reconnect[q].pc = "made"
             /\ reconnect'[q].pc = "announced" <=> reconnect[q].pc = "announced"
      BY <2>1
    <2>3. Free("reconnect") \/ \E q \in Reconnectors : reconnect'[q].pc = "telling"
      BY <2>1 DEF Claims
    <2> QED BY <2>1, <2>2, <2>3 DEF Claims, stateVars, Free
  <1>5. CASE ReconnectOk(r)
    <2>1. /\ reconnect[r].pc = "trying" /\ reconnect'[r].pc = "made"
          /\ connection' \in Connections /\ UNCHANGED <<stateVars, app, control>>
          /\ \A q \in Reconnectors : q # r => reconnect'[q] = reconnect[q]
      BY <1>3, <1>5, Zenon DEF ReconnectOk
    <2>2. connection' # 0
      BY <2>1 DEF Connections
    <2>3. \A q \in Reconnectors : \A pc \in {"announced", "telling"} :
             reconnect'[q].pc = pc <=> reconnect[q].pc = pc
      BY <2>1
    <2> QED BY <2>1, <2>2, <2>3 DEF Claims, stateVars, Free
  <1>6. CASE ReconnectAnnounce(r)
    <2>1. /\ reconnect[r].pc = "made" /\ reconnect'[r].pc = "announced" /\ state' = "Connected"
          /\ UNCHANGED <<telling, told, connection, app, control>>
          /\ \A q \in Reconnectors : q # r => reconnect'[q] = reconnect[q]
      BY <1>3, <1>6, Zenon DEF ReconnectAnnounce
    <2>2. /\ Free("app") /\ Free("control") /\ control.pc # "lost"
          /\ app \notin {"disconnecting", "connected"}
          /\ \A q \in Reconnectors : q # r => reconnect[q].pc \in {"none", "ended"}
      BY <1>2, <2>1 DEF Running, Gone
    <2>3. Free("reconnect")
      BY <2>1, <2>2 DEF Claims
    <2>4. \A t \in Tellers : Free(t)
      BY <2>2, <2>3 DEF Tellers
    <2> QED BY <2>1, <2>2, <2>4 DEF Claims, Free
  <1>7. CASE ReconnectTell(r)
    <2>1. /\ reconnect[r].pc = "announced" /\ reconnect'[r].pc = "telling"
          /\ telling' = [telling EXCEPT !["reconnect"] = "Connected"]
          /\ UNCHANGED <<state, told, connection, app, control>>
          /\ \A q \in Reconnectors : q # r => reconnect'[q] = reconnect[q]
      BY <1>3, <1>7, Zenon DEF ReconnectTell
    <2>2. /\ state = "Connected" /\ telling'["reconnect"] = "Connected"
          /\ "reconnect" \in Tellers
          /\ \A t \in Tellers : telling'[t] \in {telling[t], "Connected"}
          /\ telling'["control"] = telling["control"]
      BY <2>1 DEF Claims, StateTyped, Tellers
    <2>3. \A q \in Reconnectors : reconnect'[q].pc \in {"made", "announced"} =>
                                     reconnect'[q].pc = reconnect[q].pc
      BY <2>1
    <2> QED BY <2>1, <2>2, <2>3 DEF Claims, Free
  <1> QED BY <1>1, <1>4, <1>5, <1>6, <1>7, Zenon DEF ReconnectSteps

LEMMA TruthStep ==
  ASSUME LifeInv, LifeInv', LossInv, StateTyped, AppTyped, LinkTyped, TruthInv, use' = use, Steps
  PROVE  TruthInv'
  <1> SUFFICES ASSUME Orderly PROVE (StopsBetween(script) /\ (Quiet \/ AppIsAside) /\ Claims)'
    BY DEF TruthInv, Orderly, StopWaitsLongEnough, StopsFirst
  <1>1. StopsBetween(script) /\ (Quiet \/ AppIsAside) /\ Claims
    BY DEF TruthInv
  <1>2. (StopsBetween(script) /\ (Quiet \/ AppIsAside))'
    BY <1>1, AsideStep
  <1>3. ASSUME NotTheApps, ~ControlSteps,
               ~\E r \in Reconnectors : ReconnectSteps(r) \/ ReconnectErr(r)
        PROVE  Claims'
    <2>1. UNCHANGED <<stateVars, connection, app, control, reconnect>>
      BY <1>3, Zenon
         DEF NotTheApps, ReceivingSteps, HandleDisconnectRequest, ReceiveShutdown, ReceiveErr,
             ReceiveEnds, WorkerEnds, RunWait, CleanupEnds, CloseDiscards, GatewayDisconnects,
             connVars, appVars, taskVars
    <2> QED BY <1>1, <2>1, StateStays DEF Claims
  <1>4. Claims'
    BY <1>1, <1>3, ClaimsOfApp, ClaimsOfControl, ClaimsOfReconnect, Zenon
       DEF Steps, AppSteps, NotTheApps
  <1> QED BY <1>2, <1>4

(* connect() sets Connecting, and whichever way it ends on a routing
   connection it sets another state. *)
LEMMA ConnectingStep ==
  ASSUME ConnectingWhileConnecting, use' = use, Steps
  PROVE  ConnectingWhileConnecting'
  <1>1. ASSUME state' # "Connecting" \/ app' \in {"connecting", "connected"} \/ use.kind # "routing"
        PROVE  ConnectingWhileConnecting'
    BY <1>1 DEF ConnectingWhileConnecting
  <1>2. ASSUME state' \in {state, "Disconnecting", "Disconnected", "Connected"},
               app' = app \/ app \notin {"connecting", "connected"}
        PROVE  ConnectingWhileConnecting'
    BY <1>2 DEF ConnectingWhileConnecting
  <1>3. CASE ConnectStart \/ ConnectOk \/ ConnectAnnounce \/ ConnectErr
    <2>1. \/ app' \in {"connecting", "connected"} \/ use.kind # "routing"
          \/ state' \in {"Connected", "Error"}
      BY <1>3, Zenon DEF ConnectStart, ConnectOk, ConnectAnnounce, ConnectErr, StateBecomes
    <2> QED BY <1>1, <2>1
  <1>4. CASE \/ StartOk \/ StartErr \/ StopStart \/ StopReceiving \/ StopControl \/ StopReconnect
             \/ StopEnd \/ DisconnectStart \/ DisconnectTake \/ DisconnectEnd \/ DisconnectErr
    <2>1. state' \in {state, "Disconnecting", "Disconnected"}
      BY <1>4, Zenon
         DEF StartOk, StartErr, StopStart, StopReceiving, StopControl, StopReconnect, StopEnd,
             DisconnectStart, DisconnectTake, DisconnectEnd, DisconnectErr, StateBecomes,
             connVars, stateVars
    <2>2. app \notin {"connecting", "connected"}
      BY <1>4 DEF StartOk, StartErr, StopStart, StopReceiving, StopControl, StopReconnect, StopEnd,
             DisconnectStart, DisconnectTake, DisconnectEnd, DisconnectErr, Calls
    <2> QED BY <1>2, <2>1, <2>2
  <1>5. CASE ControlSteps \/ Tell("app")
    <2>1. app' = app /\ state' \in {state, "Disconnected"}
      BY <1>5, Zenon
         DEF ControlSteps, ControlRespond, ControlLost, ControlTake, ControlClosed,
             ControlReconnect, ControlEnds, ControlTo, Tell, StateBecomes, appVars, connVars,
             stateVars
    <2> QED BY <1>2, <2>1
  <1>6. ASSUME NEW r \in Reconnectors, ReconnectSteps(r) \/ ReconnectErr(r)
        PROVE  ConnectingWhileConnecting'
    <2>1. app' = app /\ state' \in {state, "Connected"}
      BY <1>6, Zenon
         DEF ReconnectSteps, ReconnectCheck, ReconnectOk, ReconnectAnnounce, ReconnectTell,
             ReconnectEnd, ReconnectErr, ReconnectTo, Tell, appVars, stateVars
    <2> QED BY <1>2, <2>1
  <1>7. CASE \/ ReceivingSteps \/ ReceiveErr \/ RunWait \/ CleanupEnds \/ CloseDiscards
             \/ \E w \in Workers : WorkerEnds(w)
             \/ \E c \in Connections : GatewayDisconnects(c)
    <2>1. UNCHANGED <<app, state>>
      BY <1>7, Zenon
         DEF ReceivingSteps, HandleDisconnectRequest, ReceiveShutdown, ReceiveErr, ReceiveEnds,
             RunWait, CleanupEnds, CloseDiscards, WorkerEnds, GatewayDisconnects, connVars,
             stateVars, appVars
    <2> QED BY <1>2, <2>1
  <1> QED BY <1>3, <1>4, <1>5, <1>6, <1>7, Zenon DEF Steps, AppSteps

Typed ==
    /\ use \in Uses /\ StateTyped /\ AppTyped /\ FlagsTyped /\ LinkTyped /\ RetriesTyped /\ NetTyped
IInv == LifeInv /\ Typed /\ LossInv /\ TruthInv /\ ConnectingWhileConnecting

LEMMA AllInitial == Init => IInv
  <1> SUFFICES ASSUME Init PROVE IInv
    OBVIOUS
  <1>1. use \in Uses /\ use \in Use
    BY LifecycleAssumption DEF Init
  <1>2. StateTyped
    BY DEF Init, StateTyped, KnxState
  <1>3. AppTyped
    BY <1>1, Zenon DEF Init, AppTyped, Use
  <1>4. FlagsTyped
    <2>1. <<>> \in Seq({"respond", "lost"}) /\ [w \in Workers |-> "none"] \in [Workers -> {"none"}]
      OBVIOUS
    <2>2. workers \in [Workers -> {"none", "running", "ended"}]
      BY DEF Init
    <2> QED BY <2>1, <2>2, Zenon DEF Init, FlagsTyped
  <1>5. LinkTyped
    BY LifecycleAssumption DEF Init, LinkTyped, NoTask
  <1>6. RetriesTyped
    BY <1>1 DEF Init, RetriesTyped, Use
  <1>7. NetTyped
    BY <1>1 DEF Init, NetTyped, Use
  <1>8. ~InSocket /\ ~Busy /\ ~Spawned /\ events = <<>>
    BY DEF Init, InSocket, Busy, Spawned, NoTask
  <1>9. LossInv
    BY <1>8 DEF LossInv, InSocket
  <1>10. Quiet /\ Claims
    <2>1. control.pc = "none" /\ \A r \in Reconnectors : reconnect[r].pc = "none"
      BY DEF Init, NoTask
    <2>2. \A t \in Tellers : telling[t] = "nothing"
      BY DEF Init
    <2>3. Free("control") /\ Free("reconnect")
      BY <2>2 DEF Free, Tellers
    <2>4. state = "Disconnected" /\ told = "Disconnected" /\ app = "idle"
      BY DEF Init
    <2> QED BY <2>1, <2>2, <2>3, <2>4 DEF Quiet, Running, Gone, Claims
  <1>11. TruthInv
    BY <1>10 DEF TruthInv, Init, Orderly, StopsFirst, StopsBetween
  <1>12. ConnectingWhileConnecting
    BY DEF Init, ConnectingWhileConnecting
  <1> QED
    BY <1>1, <1>2, <1>3, <1>4, <1>5, <1>6, <1>7, <1>9, <1>11, <1>12, LifeInit DEF IInv, Typed

LEMMA AllStep == IInv /\ [Next]_vars => IInv'
  <1> SUFFICES ASSUME IInv, [Next]_vars PROVE IInv'
    OBVIOUS
  <1>1. LifeInv'
    BY LifeStep DEF IInv
  <1>2. CASE Next
    <2>1. Steps /\ use' = use
      BY <1>2 DEF Next
    <2>2. Typed'
      BY <2>1, StateTypes, AppTypes, FlagTypes, LinkTypes, RetryTypes, NetTypes
         DEF IInv, Typed, LifeInv
    <2>3. LossInv' /\ TruthInv' /\ ConnectingWhileConnecting'
      BY <1>1, <2>1, LossStep, TruthStep, ConnectingStep DEF IInv, Typed
    <2> QED BY <1>1, <2>2, <2>3 DEF IInv
  <1>3. CASE UNCHANGED vars
    <2>1. /\ use' = use /\ UNCHANGED <<stateVars, connection, channel_id, closing>>
          /\ UNCHANGED <<flagVars, appVars, taskVars, netVars>>
      BY <1>3, Zenon DEF vars, system, connVars
    <2>2. Typed'
      <3>1. StateTyped'
        BY <2>1, Zenon DEF IInv, Typed, StateTyped, stateVars
      <3>2. AppTyped'
        BY <2>1, Zenon DEF IInv, Typed, AppTyped, appVars, taskVars, others
      <3>3. FlagsTyped'
        BY <2>1, Zenon DEF IInv, Typed, FlagsTyped, flagVars, taskVars, others
      <3>4. LinkTyped' /\ RetriesTyped' /\ NetTyped'
        BY <2>1, Zenon DEF IInv, Typed, LinkTyped, RetriesTyped, NetTyped, taskVars, netVars
      <3> QED BY <2>1, <3>1, <3>2, <3>3, <3>4 DEF IInv, Typed
    <2>3. LossInv' /\ ConnectingWhileConnecting'
      BY <2>1 DEF IInv, LossInv, InSocket, Busy, Spawned, ConnectingWhileConnecting, netVars,
                  flagVars, taskVars, stateVars, appVars
    <2>4. TruthInv'
      <3>1. UNCHANGED <<use, state, telling, told, connection, app, script, control, reconnect>>
        BY <2>1, Zenon DEF stateVars, appVars, taskVars
      <3>2. (Orderly' <=> Orderly) /\ (Quiet' <=> Quiet) /\ StopsBetween(script)' = StopsBetween(script)
        BY <3>1 DEF Orderly, StopWaitsLongEnough, StopsFirst, Quiet, Running
      <3>3. AppIsAside => AppIsAside'
        BY <3>1 DEF AppIsAside, Free
      <3>4. Claims => Claims'
        BY <3>1, Zenon DEF Claims, Free
      <3> QED BY <3>2, <3>3, <3>4 DEF IInv, TruthInv
    <2> QED BY <1>1, <2>2, <2>3, <2>4 DEF IInv
  <1> QED BY <1>2, <1>3

-----------------------------------------------------------------------------
(* However often the tunnel is lost and whatever the application calls, at
   most one reconnection task runs, as long as stop() waits long enough for
   the control task or for the reconnection task (reconnect_task). *)
THEOREM OneReconnectorHolds == Spec => []OneReconnector
  <1>1. LifeInv => OneReconnector
    BY DEF LifeInv, SlotInv
  <1> QED BY LifeInit, LifeStep, <1>1, PTL DEF Spec

(* If it waits long enough for both, nothing brings back a library that has
   been shut down (Knx::shutdown). *)
THEOREM StaysDownHolds == Spec => []StaysDown
  <1>1. LifeInv => StaysDown
    BY DEF LifeInv, DownInv, StaysDown
  <1> QED BY LifeInit, LifeStep, <1>1, PTL DEF Spec

(* What state() and the connection callbacks say of the library is what its
   other fields say, whatever calls it gets and whatever is lost, as far as
   the premises of the three properties go (Knx::state,
   notify_connection_state_changed). *)
THEOREM StateTellsTruthHolds == Spec => []StateTellsTruth
  <1>1. IInv => TypeOK
    <2> SUFFICES ASSUME IInv PROVE TypeOK
      OBVIOUS
    <2>1. use.requests \in Nat /\ use.attempts \in Nat
      BY LifecycleAssumption DEF IInv, Typed, Use
    <2>2. inbox \in [Connections -> 0 .. use.requests]
      BY <2>1 DEF IInv, Typed, NetTyped
    <2>3. /\ control.pc \in {"none", "select", "lost", "closing", "reconnect", "ended"}
          /\ \A r \in Reconnectors :
               reconnect[r].pc \in {"none", "check", "trying", "made", "announced", "telling",
                                    "ended"}
          /\ reconnect_task \in Reconnectors \cup {0}
      BY DEF IInv, LifeInv, TasksTyped, ControlTasks, ReconnectTasks
    <2> QED
      BY <2>2, <2>3 DEF IInv, Typed, StateTyped, AppTyped, FlagsTyped, LinkTyped, RetriesTyped,
                        NetTyped, TypeOK
  <1>2. IInv => ConnectedHasConnection /\ ObserversAgree
    BY DEF IInv, TruthInv, Claims, ConnectedHasConnection, ObserversAgree
  <1>3. IInv => StateTellsTruth
    BY <1>1, <1>2 DEF IInv, StateTellsTruth
  <1> QED BY AllInitial, AllStep, <1>3, PTL DEF Spec
=============================================================================
