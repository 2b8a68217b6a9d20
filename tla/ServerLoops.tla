---------------------------- MODULE ServerLoops ----------------------------
(***************************************************************************)
(* The tasks of the tunnelling server and their shutdown (server.rs): the  *)
(* UDP dispatch loop, the TCP accept loop, one loop for each TCP stream    *)
(* and the sweep loop are what takes the steps of TunnelServer.            *)
(*                                                                         *)
(* A loop looks at the flag, creates the future of shutdown_notify, waits  *)
(* for an event or for that future, and handles the event.  shutdown()     *)
(* raises the flag and then wakes the futures that exist; it leaves no     *)
(* permit for one that is created later.  Until the flag is raised the     *)
(* place of a loop makes no difference, and all places are "running".      *)
(***************************************************************************)
EXTENDS TunnelServer

CONSTANT
    Usages   \* the uses to consider, one of which holds throughout

(* peers: the clients that are there.  sends, closes: send and shutdown may
   be called.  sessions: bound on the sessions created. *)
Usage == [peers : SUBSET Peers, sends : BOOLEAN, closes : BOOLEAN, sessions : Nat]

ASSUME LoopsAssumption ==
    /\ Usages \subseteq Usage
    /\ {"dispatch", "accept", "sweep"} \cap TcpPeers = {}

VARIABLES
    usage,
    shutdown,  \* "no", "stored" (the flag), "notified" (the waiters)
    at,        \* at[l]: the place of loop l since the flag was raised
    after      \* after[l]: events loop l has handled since then (history)

shut == <<usage, shutdown, at, after>>
loopVars == <<vars, shut>>

Selecting == {"dispatch", "accept", "sweep"}
Loops == Selecting \cup TcpPeers
Places == {"running", "check", "select", "wait", "woken", "body", "ended"}

(* Where a loop can be when the flag is raised.  The loop of a stream waits
   in recv_frame without a future of shutdown_notify; the body of the sweep
   is between its look at the flag and its removals. *)
PlacesOf(l) ==
    CASE l \in {"dispatch", "accept"} -> {"check", "select", "wait"}
      [] l = "sweep" -> IF sweep = {} THEN {"check", "select", "wait", "body"} ELSE {"body"}
      [] OTHER -> IF stream[l] = "open" THEN {"check", "wait"}
                  ELSE IF stream[l] = "new" THEN {"running"} ELSE {"ended"}

LoopsInit ==
    /\ Init
    /\ usage \in Usages
    /\ shutdown = "no"
    /\ at = [l \in Loops |-> "running"]
    /\ after = [l \in Loops |-> 0]

(* shutdown(): the store, and then notify_waiters. *)
ShutdownStore ==
    /\ usage.closes
    /\ shutdown = "no"
    /\ shutdown' = "stored"
    /\ at' \in [Loops -> Places]
    /\ \A l \in Loops : at'[l] \in PlacesOf(l)
    /\ UNCHANGED <<vars, usage, after>>

ShutdownNotify ==
    /\ shutdown = "stored"
    /\ shutdown' = "notified"
    /\ at' = [l \in Loops |-> IF l \in Selecting /\ at[l] = "wait" THEN "woken" ELSE at[l]]
    /\ UNCHANGED <<vars, usage, after>>

-----------------------------------------------------------------------------
(* An event reaches loop l, which handles it and goes on.  select! may take
   the event even though the loop has been woken. *)
Reaches(l) == shutdown = "no" \/ at[l] \in {"wait", "woken"}
GoesOn(l, place) ==
    IF shutdown = "no" THEN UNCHANGED shut
    ELSE /\ at' = [at EXCEPT ![l] = place]
         /\ after' = [after EXCEPT ![l] = @ + 1]
         /\ UNCHANGED <<usage, shutdown>>

(* handle_frame, called by the dispatch loop and by the loop of a stream; a
   frame that is rejected, or cannot be received, changes no session. *)
LoopOf(p) == IF p \in TcpPeers THEN p ELSE "dispatch"
HandleFrame(p) ==
    /\ p \in usage.peers
    /\ Reaches(LoopOf(p))
    /\ p \in TcpPeers => stream[p] = "open"
    /\ \/ SessionRequest(p)
       \/ \E ok \in BOOLEAN : SessionAuthenticate(p, ok)
       \/ serial < usage.sessions /\ \E replied \in BOOLEAN : Connect(p, replied)
       \/ ConnectRefused(p)
       \/ \E t \in told : t.peer = p /\ Heartbeat(p, t.channel)
       \/ \E t \in told : t.peer = p /\ Disconnect(t)
       \/ UNCHANGED vars
    /\ GoesOn(LoopOf(p), "check")

(* The accept loop takes a connection and spawns the loop of its stream. *)
AcceptStream(p) ==
    /\ p \in usage.peers
    /\ Reaches("accept")
    /\ Accept(p)
    /\ IF shutdown = "no" THEN UNCHANGED shut
       ELSE /\ at' = [at EXCEPT !["accept"] = "check", ![p] = "check"]
            /\ after' = [after EXCEPT !["accept"] = @ + 1]
            /\ UNCHANGED <<usage, shutdown>>

(* recv_frame fails, which leaves the loop. *)
StreamFails(p) ==
    /\ Reaches(p)
    /\ StreamEnds(p)
    /\ at' = IF shutdown = "no" THEN at ELSE [at EXCEPT ![p] = "ended"]
    /\ UNCHANGED <<usage, shutdown, after>>

-----------------------------------------------------------------------------
(* A loop at its look at the flag, which is raised. *)
AfterCheckUnread(l) == "select"
AfterCheck(l) == "ended"
Check(l) ==
    /\ at[l] = "check"
    /\ at' = [at EXCEPT ![l] = AfterCheck(l)]
    /\ IF l \in TcpPeers /\ AfterCheck(l) = "ended" THEN StreamEnds(l) ELSE UNCHANGED vars
    /\ UNCHANGED <<usage, shutdown, after>>

(* The future of shutdown_notify is created; one that was woken is ready. *)
Select(l) ==
    /\ at[l] = "select"
    /\ at' = [at EXCEPT ![l] = "wait"]
    /\ UNCHANGED <<vars, usage, shutdown, after>>
Woken(l) ==
    /\ at[l] = "woken"
    /\ at' = [at EXCEPT ![l] = "ended"]
    /\ UNCHANGED <<vars, usage, shutdown, after>>

(* The sweep loop: SWEEP_INTERVAL passes, and the flag is looked at; then the
   stale sessions are collected and removed, if there are any. *)
SweepWakesUnread ==
    /\ at["sweep"] \in {"wait", "woken"}
    /\ at' = [at EXCEPT !["sweep"] = "body"]
    /\ UNCHANGED <<vars, usage, shutdown, after>>
SweepWakes ==
    /\ at["sweep"] \in {"wait", "woken"}
    /\ at' = [at EXCEPT !["sweep"] = "check"]
    /\ UNCHANGED <<vars, usage, shutdown, after>>
Sweeping == shutdown = "no" \/ at["sweep"] = "body"
SweepCollects == Sweeping /\ SweepCollect /\ UNCHANGED shut
SweepRemoves == Sweeping /\ SweepRemove /\ GoesOn("sweep", "select")
SweepFindsNone ==
    /\ at["sweep"] = "body" /\ sweep = {} /\ Stale = {}
    /\ at' = [at EXCEPT !["sweep"] = "select"]
    /\ UNCHANGED <<vars, usage, shutdown, after>>

(* What any task of the application or a timer does. *)
Others ==
    /\ \/ usage.sends /\ SendStart
       \/ \E r \in sends, ok \in BOOLEAN : SendTry(r, ok)
       \/ \E r \in failed : SendRemoveFailed(r)
       \/ \E s \in sessions : GoStale(s)
       \/ \E p \in TcpPeers : StreamCleanUp(p)
    /\ UNCHANGED shut

LoopStep(l) == Check(l) \/ Select(l) \/ Woken(l)
SweepStep == SweepCollects \/ SweepRemoves

LoopsNext ==
    \/ ShutdownStore \/ ShutdownNotify
    \/ \E p \in Peers : HandleFrame(p)
    \/ \E p \in TcpPeers : AcceptStream(p)
    \/ \E p \in TcpPeers : StreamFails(p)
    \/ \E l \in Loops : LoopStep(l)
    \/ SweepWakes \/ SweepFindsNone \/ SweepStep
    \/ Others

(* tokio polls a task that is ready and a timer that has expired.  The steps
   of the loops after a shutdown are few, so it is enough that one of them
   is taken while there is one. *)
WindUp ==
    /\ shutdown # "no"
    /\ \/ ShutdownNotify
       \/ \E l \in Loops : LoopStep(l)
       \/ SweepWakes \/ SweepFindsNone
       \/ UNCHANGED shut /\ \E p \in TcpPeers : StreamCleanUp(p)
LoopsFairness == WF_loopVars(WindUp) /\ WF_loopVars(SweepStep)

-----------------------------------------------------------------------------
LoopsTypeOK ==
    /\ TypeOK
    /\ usage \in Usage
    /\ shutdown \in {"no", "stored", "notified"}
    /\ at \in [Loops -> Places]
    /\ after \in [Loops -> Nat]

(* Once the flag is raised no loop handles more than one event, a stream
   that is still accepted none at all, and the loop of a stream has ended
   before its task cleans up after it (is_shutdown in each loop). *)
ShutdownTakesHold ==
    /\ \A l \in Loops : after[l] <= 1
    /\ \A p \in TcpPeers :
         shutdown # "no" /\ stream[p] \in {"ended", "done"} => at[p] = "ended"

(* After a shutdown everything that can end does: the sweep, because it does
   not wait for ever, every loop that was waiting when the waiters were woken
   and every loop that reaches its look at the flag; and the task of a stream
   that has ended has taken its session and its keys away. *)
Settled ==
    /\ at["sweep"] = "ended"
    /\ \A l \in Loops : at[l] \notin {"check", "select", "woken"}
    /\ \A p \in TcpPeers : stream[p] # "ended"
ShutdownEnds == (shutdown # "no") ~> Settled

(* Sessions whose clients stay silent do not keep their channels for ever: as
   long as the server runs there is always a time when no stale session is
   left (spawn_sweep_loop). *)
Silent == \E s \in sessions : s.serial \in expired
SilentSessionsLeave == Silent ~> (~Silent \/ shutdown # "no")
=============================================================================
