---------------------------- MODULE KnxLifecycle ----------------------------
(***************************************************************************)
(* The life of one Knx instance (application/knx.rs).  The application     *)
(* works through a script of API calls; start() spawns the receiving,      *)
(* control, processing, sending and refresh tasks; a lost tunnel makes the *)
(* control task spawn a reconnection task.                                 *)
(*                                                                         *)
(* Connections are numbered as they are made; 0 stands for None.  A task   *)
(* keeps the connection it was started with.  What a task does between two *)
(* awaits that can really wait is one step.                                *)
(***************************************************************************)
EXTENDS Integers, Sequences, FiniteSets

CONSTANTS
    Uses,             \* the circumstances a behaviour may run in
    Channels,         \* channel ids the gateway assigns
    MaxConnections    \* bound: connections made

ApiCalls == {"connect", "start", "stop", "disconnect", "shutdown"}
KnxState == {"Disconnected", "Connecting", "Connected", "Disconnecting", "Error"}
Workers == {"processing", "sending", "refresh"}

(* An application, its configuration, and what its network does to it. *)
Use ==
    [script : Seq(ApiCalls),                  \* the calls it makes, in order
     kind : {"udp", "tcp", "routing"},        \* ConnectionType
     autoReconnect : BOOLEAN,
     runs : BOOLEAN,          \* its first connect and start are those of run(),
                              \* called in a task of its own
     attempts : Nat,                          \* BackoffConfig::max_attempts
     slow : SUBSET (Workers \cup {"receiving", "control", "reconnect"}),
                              \* tasks that outlast the time stop() gives them
     requests : Nat,          \* bound: DisconnectRequests that reach the client
     failures : Nat]          \* bound: connects, receptions, closes that fail

ASSUME LifecycleAssumption ==
    /\ Channels \subseteq Nat \ {0}
    /\ MaxConnections \in Nat
    /\ Uses \subseteq Use

VARIABLES
    use,             \* chosen at the start and never changed
    (* the fields of Knx *)
    state, connection, channel_id, shutdown_flag, queue_closed,
    telling,         \* telling[t]: the state t is about to tell the connection
                     \* callbacks, or "nothing"
    told,            \* the state they were told last
    control_rx,      \* the control receiver is still stored
    reconnect_task,  \* the slot: the number of a reconnection task, or 0
    events,          \* the control channel
    closing,         \* the connection closed under connection's lock, or 0
    (* the application *)
    app, script, shutting, started,
    (* tasks *)
    receiving, control, workers, reconnect, cleanup,
    runner,          \* the task that has called run()
    (* the network *)
    chan,            \* chan[c]: the channel id of connection c
    inbox,           \* inbox[c]: DisconnectRequests waiting in its socket
    requests, failures

stateVars == <<state, telling, told>>
connVars == <<stateVars, connection, channel_id, closing>>
flagVars == <<shutdown_flag, queue_closed, control_rx, events>>
appVars == <<app, script, shutting, started>>
others == <<cleanup, runner>>
taskVars == <<receiving, control, workers, reconnect, reconnect_task, others>>
netVars == <<chan, inbox, requests, failures>>
system == <<connVars, flagVars, appVars, taskVars, netVars>>
vars == <<use, system>>

Connections == 1 .. MaxConnections
Reconnectors == 1 .. 2   \* bound: a third reconnection task is never reached
Tellers == {"app", "control", "reconnect"}
NoTask == [pc |-> "none", conn |-> 0]

Init ==
    /\ use \in Uses
    /\ state = "Disconnected" /\ told = "Disconnected"
    /\ telling = [t \in Tellers |-> "nothing"]
    /\ connection = 0 /\ channel_id = 0 /\ closing = 0
    /\ shutdown_flag = FALSE /\ queue_closed = FALSE
    /\ control_rx = TRUE /\ events = <<>>
    /\ app = "idle" /\ script = use.script /\ shutting = FALSE /\ started = "never"
    /\ receiving = NoTask /\ control = NoTask
    /\ workers = [w \in Workers |-> "none"]
    /\ reconnect = [r \in Reconnectors |-> [pc |-> "none", attempt |-> 0, conn |-> 0]]
    /\ reconnect_task = 0 /\ cleanup = "running" /\ runner = "running"
    /\ chan = <<>> /\ inbox = [c \in Connections |-> 0]
    /\ requests = 0 /\ failures = 0

(* The gateway accepts connection c and gives it a channel id. *)
Made(c) ==
    /\ c = Len(chan) + 1
    /\ \E id \in Channels : chan' = Append(chan, id)

(* One more of the failures the bound admits. *)
Fails == failures < use.failures /\ failures' = failures + 1

(* disconnect() and the control task hold connection's lock while they
   await close(). *)
Unlocked == closing = 0

(* Who changes the state gives up its lock before the callbacks are called
   (notify_connection_state_changed), and goes on when they have returned
   or their five seconds are over. *)
StateBecomes(t, s) ==
    /\ state' = s
    /\ telling' = [telling EXCEPT ![t] = s]
    /\ UNCHANGED told
Free(t) == telling[t] = "nothing"
Tell(t) ==
    /\ ~Free(t)
    /\ told' = telling[t]
    /\ telling' = [telling EXCEPT ![t] = "nothing"]
    /\ UNCHANGED <<state, connection, channel_id, closing, flagVars, appVars,
                   taskVars, netVars>>

-----------------------------------------------------------------------------
(* The application. *)

Calls(name) ==
    /\ app = "idle" /\ Free("app") /\ script # <<>> /\ Head(script) = name
    /\ script' = Tail(script)

ConnectStart ==
    /\ Calls("connect")
    /\ app' = "connecting"
    /\ StateBecomes("app", "Connecting")
    /\ UNCHANGED <<connection, channel_id, closing, flagVars, shutting, started,
                   taskVars, netVars>>

(* Only the UDP branch records the channel id.  A connection stored before
   is replaced without being closed. *)
ConnectOk ==
    /\ app = "connecting" /\ Free("app") /\ Unlocked
    /\ \E c \in Connections :
         /\ Made(c)
         /\ connection' = c
         /\ channel_id' = IF use.kind = "udp" THEN chan'[c] ELSE channel_id
    /\ app' = "connected"
    /\ UNCHANGED <<stateVars, closing, flagVars, script, shutting, started, taskVars,
                   inbox, requests, failures>>

ConnectAnnounce ==
    /\ app = "connected"
    /\ app' = "idle"
    /\ StateBecomes("app", "Connected")
    /\ UNCHANGED <<connection, channel_id, closing, flagVars, script, shutting,
                   started, taskVars, netVars>>

(* A tunnel's error leaves through `?' before the match that sets Error. *)
ConnectErr ==
    /\ app = "connecting" /\ Free("app")
    /\ Fails
    /\ app' = "idle"
    /\ IF use.kind = "routing" THEN StateBecomes("app", "Error") ELSE UNCHANGED stateVars
    /\ UNCHANGED <<connection, channel_id, closing, flagVars, script, shutting,
                   started, taskVars, chan, inbox, requests>>

(* start() fails without a connection, or when an earlier start has taken
   the control receiver; otherwise it hands the connection to the tasks. *)
StartOk ==
    /\ Calls("start") /\ Unlocked
    /\ connection # 0 /\ control_rx
    /\ control_rx' = FALSE
    /\ control' = [pc |-> "select", conn |-> connection]
    /\ receiving' = [pc |-> "select", conn |-> connection]
    /\ workers' = [w \in Workers |-> "running"]
    /\ started' = "ok"
    /\ UNCHANGED <<connVars, shutdown_flag, queue_closed, events, app, shutting,
                   reconnect, reconnect_task, others, netVars>>

StartErr ==
    /\ Calls("start") /\ Unlocked
    /\ connection = 0 \/ ~control_rx
    /\ started' = IF connection = 0 THEN "not connected" ELSE "receiver taken"
    /\ UNCHANGED <<connVars, flagVars, app, shutting, taskVars, netVars>>

(* stop() raises the flag and closes the queue, then waits for the tasks in
   this order; the sending task is nobody's to wait for. *)
StopStart ==
    /\ Calls("stop") \/ Calls("shutdown")
    /\ app' = "stop receiving"
    /\ shutting' = (Head(script) = "shutdown")
    /\ shutdown_flag' = TRUE
    /\ queue_closed' = TRUE
    /\ UNCHANGED <<connVars, control_rx, events, started, taskVars, netVars>>

Gone(pc) == pc \in {"none", "ended"}
WaitedForNone(task, pc) == TRUE
Waited(task, pc) == Gone(pc) \/ task \in use.slow

StopReceiving ==
    /\ app = "stop receiving"
    /\ Waited("receiving", receiving.pc)
    /\ Waited("processing", workers["processing"])
    /\ app' = "stop control"
    /\ UNCHANGED <<connVars, flagVars, script, shutting, started, taskVars, netVars>>

StopControl ==
    /\ app = "stop control"
    /\ Waited("control", control.pc)
    /\ app' = "stop reconnect"
    /\ UNCHANGED <<connVars, flagVars, script, shutting, started, taskVars, netVars>>

(* The handle leaves the slot even when the task has not ended in time. *)
StopReconnect ==
    /\ app = "stop reconnect"
    /\ reconnect_task # 0 => Waited("reconnect", reconnect[reconnect_task].pc)
    /\ reconnect_task' = 0
    /\ app' = "stop refresh"
    /\ UNCHANGED <<connVars, flagVars, script, shutting, started, receiving,
                   control, workers, reconnect, others, netVars>>

(* The cleanup task sleeps five minutes between two looks at the flag, so
   its two seconds are not waited for here.  Last, the flag is lowered and
   notify_waiters wakes a run() that waits by then. *)
StopEnd ==
    /\ app = "stop refresh"
    /\ Waited("refresh", workers["refresh"])
    /\ shutdown_flag' = FALSE
    /\ app' = IF shutting THEN "disconnecting" ELSE "idle"
    /\ IF shutting THEN StateBecomes("app", "Disconnecting") ELSE UNCHANGED stateVars
    /\ runner' = IF runner = "waiting" THEN "returned" ELSE runner
    /\ UNCHANGED <<connection, channel_id, closing, queue_closed, control_rx,
                   events, script, shutting, started, receiving, control, workers,
                   reconnect, reconnect_task, cleanup, netVars>>

(* run() has connected and started, and now waits for notified(). *)
RunWait ==
    /\ use.runs /\ started = "ok" /\ runner = "running"
    /\ runner' = "waiting"
    /\ UNCHANGED <<connVars, flagVars, appVars, receiving, control, workers,
                   reconnect, reconnect_task, cleanup, netVars>>

(* disconnect(), alone or as the second half of shutdown(). *)
DisconnectStart ==
    /\ Calls("disconnect")
    /\ app' = "disconnecting"
    /\ StateBecomes("app", "Disconnecting")
    /\ shutting' = FALSE
    /\ UNCHANGED <<connection, channel_id, closing, flagVars, started, taskVars,
                   netVars>>

DisconnectTake ==
    /\ app = "disconnecting" /\ Free("app") /\ Unlocked
    /\ closing' = connection
    /\ connection' = 0
    /\ app' = "closing"
    /\ UNCHANGED <<stateVars, channel_id, flagVars, script, shutting, started,
                   taskVars, netVars>>

DisconnectEnd ==
    /\ app = "closing"
    /\ closing' = 0
    /\ StateBecomes("app", "Disconnected")
    /\ app' = IF shutting THEN "down" ELSE "idle"
    /\ UNCHANGED <<connection, channel_id, flagVars, script, shutting, started,
                   taskVars, netVars>>

(* close() fails: `?' returns before the state is set. *)
DisconnectErr ==
    /\ app = "closing" /\ closing # 0
    /\ Fails
    /\ closing' = 0
    /\ app' = "idle"
    /\ UNCHANGED <<stateVars, connection, channel_id, flagVars, script, shutting,
                   started, taskVars, chan, inbox, requests>>

-----------------------------------------------------------------------------
(* The network and the receiving task. *)

(* The gateway gives a tunnel up, and may say so more than once. *)
GatewayDisconnects(c) ==
    /\ use.kind # "routing" /\ c <= Len(chan)
    /\ requests < use.requests
    /\ requests' = requests + 1
    /\ inbox' = [inbox EXCEPT ![c] = @ + 1]
    /\ UNCHANGED <<connVars, flagVars, appVars, taskVars, chan, failures>>

(* close() reads the socket for its DisconnectResponse and throws every
   other frame away. *)
CloseDiscards ==
    /\ closing # 0 /\ inbox[closing] > 0
    /\ inbox' = [inbox EXCEPT ![closing] = @ - 1]
    /\ UNCHANGED <<connVars, flagVars, appVars, taskVars, chan, requests, failures>>

(* The request is ours if it names our channel or we know of none.  The
   channel to a control task that has ended is closed. *)
IsOurChannel(id) == channel_id \in {0, id}
HandleDisconnectRequest ==
    /\ receiving.pc = "select" /\ inbox[receiving.conn] > 0
    /\ inbox' = [inbox EXCEPT ![receiving.conn] = @ - 1]
    /\ events' = IF IsOurChannel(chan[receiving.conn]) /\ ~Gone(control.pc)
                 THEN events \o <<"respond", "lost">> ELSE events
    /\ UNCHANGED <<connVars, shutdown_flag, queue_closed, control_rx, appVars,
                   taskVars, chan, requests, failures>>

(* The flag, or an error of recv(), ends the task, which closes the queue. *)
ReceiveEnds ==
    /\ receiving.pc = "select"
    /\ receiving' = [receiving EXCEPT !.pc = "ended"]
    /\ queue_closed' = TRUE
    /\ UNCHANGED <<connVars, shutdown_flag, control_rx, events, appVars, control,
                   workers, reconnect, reconnect_task, others, chan, inbox,
                   requests>>
ReceiveShutdown == shutdown_flag /\ ReceiveEnds /\ UNCHANGED failures
ReceiveErr == Fails /\ ReceiveEnds

(* The processing and sending tasks end with the queue, the refresh task
   with the flag. *)
EndsOn(w) == IF w = "refresh" THEN shutdown_flag ELSE queue_closed
WorkerEnds(w) ==
    /\ workers[w] = "running" /\ EndsOn(w)
    /\ workers' = [workers EXCEPT ![w] = "ended"]
    /\ UNCHANGED <<connVars, flagVars, appVars, receiving, control, reconnect,
                   reconnect_task, others, netVars>>

(* The memory cleanup task looks at the flag every five minutes. *)
CleanupEnds ==
    /\ cleanup = "running" /\ shutdown_flag
    /\ cleanup' = "ended"
    /\ UNCHANGED <<runner, connVars, flagVars, appVars, receiving, control, workers,
                   reconnect, reconnect_task, netVars>>

-----------------------------------------------------------------------------
(* The control task. *)

ControlTo(pc) ==
    /\ control' = [control EXCEPT !.pc = pc]
    /\ UNCHANGED <<appVars, receiving, workers, others, shutdown_flag,
                   queue_closed, control_rx, netVars>>

(* SendDisconnectResponse: sent on the connection the task began with. *)
ControlRespond ==
    /\ control.pc = "select" /\ events # <<>> /\ Head(events) = "respond"
    /\ events' = Tail(events)
    /\ channel_id' = 0
    /\ ControlTo("select")
    /\ UNCHANGED <<stateVars, connection, closing, reconnect, reconnect_task>>

(* TunnelLost: the state, then the callbacks, which are awaited. *)
ControlLost ==
    /\ control.pc = "select" /\ events # <<>> /\ Head(events) = "lost"
    /\ events' = Tail(events)
    /\ StateBecomes("control", "Disconnected")
    /\ ControlTo("lost")
    /\ UNCHANGED <<connection, channel_id, closing, reconnect, reconnect_task>>

(* Whatever connection is stored by then is taken and closed. *)
ControlTake ==
    /\ control.pc = "lost" /\ Free("control") /\ Unlocked
    /\ closing' = connection
    /\ connection' = 0
    /\ ControlTo("closing")
    /\ UNCHANGED <<stateVars, channel_id, events, reconnect, reconnect_task>>

(* An error of close() is only logged. *)
ControlClosed ==
    /\ control.pc = "closing"
    /\ closing' = 0
    /\ ControlTo(IF use.autoReconnect THEN "reconnect" ELSE "ended")
    /\ events' = IF use.autoReconnect THEN events ELSE <<>>
    /\ UNCHANGED <<stateVars, connection, channel_id, reconnect, reconnect_task>>

(* A reconnection task is spawned if the slot is empty; stop() holds the
   slot's lock while it waits for the task. *)
SlotTakenNever == FALSE
SlotTaken == reconnect_task # 0
Fresh(r) ==
    /\ reconnect[r].pc = "none"
    /\ \A q \in Reconnectors : reconnect[q].pc = "none" => r <= q
ControlReconnect ==
    /\ control.pc = "reconnect" /\ app # "stop reconnect"
    /\ \/ SlotTaken /\ UNCHANGED <<reconnect, reconnect_task>>
       \/ /\ ~SlotTaken
          /\ \E r \in Reconnectors :
               /\ Fresh(r)
               /\ reconnect' = [reconnect EXCEPT ![r] =
                                  [pc |-> "check", attempt |-> 1, conn |-> 0]]
               /\ reconnect_task' = r
    /\ ControlTo("select")
    /\ UNCHANGED <<connVars, events>>

(* The select's 100 ms branch; the receiver is dropped with the task. *)
ControlEnds ==
    /\ control.pc = "select" /\ shutdown_flag
    /\ events' = <<>>
    /\ ControlTo("ended")
    /\ UNCHANGED <<connVars, reconnect, reconnect_task>>

-----------------------------------------------------------------------------
(* A reconnection task. *)

ReconnectTo(r, pc, attempt, conn) ==
    /\ reconnect' = [reconnect EXCEPT ![r] =
                       [pc |-> pc, attempt |-> attempt, conn |-> conn]]
    /\ UNCHANGED <<flagVars, appVars, receiving, control, workers,
                   reconnect_task, others, closing, inbox, requests>>

GivesUpEarly(n) == n >= use.attempts
GivesUp(n) == n > use.attempts
ReconnectCheck(r) ==
    /\ reconnect[r].pc = "check"
    /\ LET n == reconnect[r].attempt
       IN  ReconnectTo(r, IF shutdown_flag \/ GivesUp(n) THEN "ended" ELSE "trying",
                       n, 0)
    /\ UNCHANGED <<stateVars, connection, channel_id, chan, failures>>

ReconnectOk(r) ==
    /\ reconnect[r].pc = "trying" /\ Unlocked
    /\ \E c \in Connections :
         /\ Made(c)
         /\ connection' = c
         /\ ReconnectTo(r, "made", reconnect[r].attempt, c)
    /\ UNCHANGED <<stateVars, channel_id, failures>>

ReconnectAnnounce(r) ==
    /\ reconnect[r].pc = "made"
    /\ state' = "Connected"
    /\ ReconnectTo(r, "announced", reconnect[r].attempt, reconnect[r].conn)
    /\ UNCHANGED <<telling, told, connection, channel_id, chan, failures>>

(* Routing has no channel id to record. *)
EstablishConnection(c) == IF use.kind = "routing" THEN channel_id ELSE chan[c]
ReconnectTell(r) ==
    /\ reconnect[r].pc = "announced"
    /\ channel_id' = EstablishConnection(reconnect[r].conn)
    /\ telling' = [telling EXCEPT !["reconnect"] = "Connected"]
    /\ ReconnectTo(r, "telling", reconnect[r].attempt, reconnect[r].conn)
    /\ UNCHANGED <<state, told, connection, chan, failures>>

ReconnectEnd(r) ==
    /\ reconnect[r].pc = "telling" /\ Free("reconnect")
    /\ ReconnectTo(r, "ended", reconnect[r].attempt, reconnect[r].conn)
    /\ UNCHANGED <<stateVars, connection, channel_id, chan, failures>>

(* After a failure the task sleeps for the backoff delay. *)
ReconnectErr(r) ==
    /\ reconnect[r].pc = "trying"
    /\ Fails
    /\ ReconnectTo(r, "check", reconnect[r].attempt + 1, 0)
    /\ UNCHANGED <<stateVars, connection, channel_id, chan>>

-----------------------------------------------------------------------------
AppSteps ==
    \/ ConnectOk \/ ConnectAnnounce
    \/ StopReceiving \/ StopControl \/ StopReconnect \/ StopEnd
    \/ DisconnectTake \/ DisconnectEnd \/ Tell("app")
ReceivingSteps == HandleDisconnectRequest \/ ReceiveShutdown
ControlSteps ==
    \/ ControlRespond \/ ControlLost \/ ControlTake \/ ControlClosed
    \/ ControlReconnect \/ ControlEnds \/ Tell("control")
ReconnectSteps(r) ==
    \/ ReconnectCheck(r) \/ ReconnectOk(r) \/ ReconnectAnnounce(r)
    \/ ReconnectTell(r) \/ ReconnectEnd(r)
    \/ reconnect[r].pc = "telling" /\ Tell("reconnect")

Steps ==
    \/ ConnectStart \/ ConnectErr \/ StartOk \/ StartErr \/ StopStart
    \/ DisconnectStart \/ DisconnectErr
    \/ AppSteps \/ ReceivingSteps \/ ReceiveErr \/ ControlSteps
    \/ \E w \in Workers : WorkerEnds(w)
    \/ \E r \in Reconnectors : ReconnectSteps(r) \/ ReconnectErr(r)
    \/ RunWait \/ CleanupEnds \/ CloseDiscards
    \/ \E c \in Connections : GatewayDisconnects(c)

Next == Steps /\ UNCHANGED use

Spec == Init /\ [][Next]_vars

(* The runtime polls every ready task, close() and every connect attempt
   end, and attempts stop failing before the backoff gives up (a
   use has fewer failures than attempts).  Nothing makes the application call, the
   gateway disconnect or anything fail; and nothing is assumed of the tasks
   that wait for the queue, because close() may fail to wake them
   (TelegramQueue). *)
Fairness ==
    /\ WF_system(AppSteps) /\ WF_system(ReceivingSteps) /\ WF_system(ControlSteps)
    /\ WF_system(WorkerEnds("refresh"))
    /\ \A r \in Reconnectors : WF_system(ReconnectSteps(r))
FairSpec == Spec /\ Fairness

-----------------------------------------------------------------------------
TypeOK ==
    /\ {state, told} \subseteq KnxState /\ telling \in [Tellers -> KnxState \cup {"nothing"}]
    /\ {connection, closing} \subseteq 0 .. Len(chan)
    /\ channel_id \in Channels \cup {0}
    /\ {shutdown_flag, queue_closed, control_rx, shutting} \subseteq BOOLEAN
    /\ events \in Seq({"respond", "lost"})
    /\ app \in {"idle", "connecting", "connected", "stop receiving",
                "stop control", "stop reconnect", "stop refresh",
                "disconnecting", "closing", "down"}
    /\ script \in Seq(ApiCalls)
    /\ started \in {"never", "ok", "not connected", "receiver taken"}
    /\ receiving.pc \in {"none", "select", "ended"}
    /\ control.pc \in {"none", "select", "lost", "closing", "reconnect", "ended"}
    /\ {receiving.conn, control.conn} \subseteq 0 .. Len(chan)
    /\ workers \in [Workers -> {"none", "running", "ended"}]
    /\ \A r \in Reconnectors :
         /\ reconnect[r].pc \in {"none", "check", "trying", "made", "announced",
                                "telling", "ended"}
         /\ reconnect[r].attempt \in 0 .. use.attempts + 1
         /\ reconnect[r].conn \in 0 .. Len(chan)
    /\ reconnect_task \in Reconnectors \cup {0}
    /\ cleanup \in {"running", "ended"} /\ runner \in {"running", "waiting", "returned"}
    /\ chan \in Seq(Channels)
    /\ inbox \in [Connections -> 0 .. use.requests]
    /\ requests \in 0 .. use.requests /\ failures \in 0 .. use.failures

(* stop() gives the control task and the reconnection task two seconds each.
   A connection attempt may take longer, and so may the callbacks that the
   control task awaits when the tunnel is lost. *)
StopWaitsLongEnough == {"control", "reconnect"} \cap use.slow = {}

(* No two tasks have reason to change the state at the same time: the
   gateway repeats no DisconnectRequest, whose second TunnelLost would take
   what the first one's reconnection has stored; stop() waits long enough;
   and the application stops the tasks it has started before it connects or
   disconnects again. *)
StopsFirst ==
    \A i, j \in DOMAIN use.script :
       /\ i < j /\ use.script[i] = "start" /\ use.script[j] \in {"connect", "disconnect"}
       => \E k \in i .. j : use.script[k] = "stop"
Orderly == use.requests <= 1 /\ StopWaitsLongEnough /\ StopsFirst

(* state Connected means that a connection is stored: what a loss takes away
   it takes after the state, and what a reconnection brings it stores before
   the state, so that send paths and start() find one. *)
ConnectedHasConnection == Orderly => (state = "Connected" => connection # 0)

(* After shutdown() has returned, no task brings the library back: the state
   stays Disconnected and no connection is stored ("Gracefully shutdown"). *)
ShutdownIsFinal == app = "down" => state = "Disconnected" /\ connection = 0

(* Shutdown is final as long as both are done by then: a control task that is
   not goes on, when the flag has been lowered, to spawn a reconnection. *)
StaysDown == StopWaitsLongEnough => ShutdownIsFinal

(* The slot keeps two losses from starting two reconnection tasks, which
   would both connect to the gateway and overwrite each other's connection;
   unless stop() waits long enough for neither the control task nor the
   reconnection task, and empties the slot between them. *)
OneReconnector ==
    ~({"control", "reconnect"} \subseteq use.slow) =>
       \A r, q \in Reconnectors :
          ~Gone(reconnect[r].pc) /\ ~Gone(reconnect[q].pc) => r = q

(* While the library says it is connected, the receiving task listens on the
   stored connection ("Reconnection successful, resuming operations"). *)
ResumesOnNewConnection ==
    state = "Connected" /\ receiving.pc = "select" => receiving.conn = connection

(* Connecting is the state of a library that is connecting: with routing a
   failed connect() leaves it.  (With a tunnel the error returns early, and
   the state remains Connecting.) *)
ConnectingWhileConnecting ==
    use.kind = "routing" /\ state = "Connecting" => app \in {"connecting", "connected"}

(* Callbacks are called outside the state's lock, and still, once nobody is
   about to call them, the state they were told last is the state: what one
   task tells late does not cover what another has told since.  (Were they
   not Orderly, a second loss could come, or the application disconnect,
   while a reconnection is telling its success.) *)
ObserversAgree ==
    /\ Orderly
    /\ \A t \in Tellers : Free(t)
    /\ \A r \in Reconnectors : reconnect[r].pc # "announced"
    => told = state

(* What state() and the connection callbacks tell the application is what
   the other fields say. *)
StateTellsTruth ==
    TypeOK /\ ConnectedHasConnection /\ ConnectingWhileConnecting /\ ObserversAgree

(* A call of connect, stop, disconnect or shutdown returns, whatever the
   tasks do. *)
CallsReturn == [](app # "idle" => <>(app \in {"idle", "down"}))

(* Every task that watches the flag ends once stop() has been called: the
   flag is not lowered before they have seen it, unless the control task
   takes longer than it is given. *)
StopEndsTasks ==
    [](app = "stop receiving" /\ "control" \notin use.slow =>
         <>(/\ Gone(receiving.pc) /\ Gone(control.pc) /\ Gone(workers["refresh"])
            /\ \A r \in Reconnectors : Gone(reconnect[r].pc)))

(* run() "blocks until the library is shut down" (knx.rs:2002) and returns
   then, if it waits before stop() has come to its end; a stop() that is
   done between start() and notified() leaves it waiting for the next. *)
RunReturns == [](runner = "waiting" /\ app = "stop receiving" => <>(runner = "returned"))

(* Nothing waits for ever: neither a call of the application for the tasks
   nor a task for a stop that has come (Knx::stop, Knx::run). *)
EverythingEnds == CallsReturn /\ StopEndsTasks /\ RunReturns

(* A tunnel the gateway gives up comes back: the TunnelLost that follows a
   DisconnectRequest ends in Connected, unless the application stops.  One
   loss is repaired; the slot is never cleared, so a second one is not. *)
LossIsRepaired ==
    use.autoReconnect /\ use.requests <= 1 /\ use.failures < use.attempts
        => [](control.pc = "lost" => <>(state = "Connected" \/ app # "idle"))
=============================================================================
