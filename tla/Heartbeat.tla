----------------------------- MODULE Heartbeat -----------------------------
(***************************************************************************)
(* The heartbeat of a connected tunnel (transport/heartbeat.rs and         *)
(* Tunnel::start_heartbeat), and the router that hands a received          *)
(* ConnectionstateResponse to whoever waits for one (transport/router.rs). *)
(*                                                                         *)
(* Responses carry no number.  The router keeps one waiter for each        *)
(* request that has not been answered; the waiter of a request that has    *)
(* timed out stays in the list until the next response passes over it.     *)
(***************************************************************************)
EXTENDS TunnelSetting

MaxFailures == 3   \* HeartbeatConfig::max_failures
Statuses == {"ok", "error"}

VARIABLES
    hb,          \* where the heartbeat task is
    failures,    \* consecutive_failures
    tunnel_lost,
    waiters,     \* the router's list: is the receiver "live" or "dropped"?
    received,    \* the status the live waiter has received, or "none"
    replies,     \* responses under way, by status
    alive,       \* the gateway still answers
    sendErrors   \* heartbeats that could not be sent

hbVars == <<hb, failures, tunnel_lost, waiters, received, replies, alive, sendErrors>>

HbInit ==
    /\ hb = "none" /\ failures = 0 /\ tunnel_lost = FALSE
    /\ waiters = <<>> /\ received = "none"
    /\ replies = [status \in Statuses |-> 0]
    /\ alive = TRUE /\ sendErrors = 0

(* HeartbeatMonitor::record_failure and what the task does about it. *)
RecordFailure ==
    /\ failures' = failures + 1
    /\ tunnel_lost' = (failures + 1 >= MaxFailures)
    /\ hb' = IF failures + 1 >= MaxFailures THEN "ended" ELSE "sleep"

(* HeartbeatMonitor::record_success. *)
RecordSuccess ==
    /\ failures' = 0
    /\ hb' = "sleep"
    /\ UNCHANGED tunnel_lost

(* FrameRouter: which waiters still have a receiver, and what is left of
   the list once waiter i has been served. *)
LiveFirst == {i \in DOMAIN waiters : i = 1 /\ waiters[i] = "live"}
Live == {i \in DOMAIN waiters : waiters[i] = "live"}
After(i) == SubSeq(waiters, i + 1, Len(waiters))

(* The task drops its receiver, and with it what may have been delivered. *)
DropReceiver ==
    /\ waiters' = [i \in DOMAIN waiters |-> "dropped"]
    /\ received' = "none"

-----------------------------------------------------------------------------
HbStart ==
    /\ hb = "none"
    /\ hb' = "sleep"
    /\ UNCHANGED <<failures, tunnel_lost, waiters, received, replies, alive, sendErrors>>

(* The waiter is registered before the request is sent. *)
HbRegister ==
    /\ hb = "sleep"
    /\ waiters' = Append(waiters, "live")
    /\ hb' = "send"
    /\ UNCHANGED <<failures, tunnel_lost, received, replies, alive, sendErrors>>

(* What the gateway makes of a request: an answer with a status, or none. *)
HbSend ==
    /\ hb = "send"
    /\ hb' = "wait"
    /\ \/ /\ alive /\ replies["ok"] < setting.replies
          /\ replies' = [replies EXCEPT !["ok"] = @ + 1]
       \/ /\ alive /\ ~setting.timely /\ replies["error"] < setting.replies
          /\ replies' = [replies EXCEPT !["error"] = @ + 1]
       \/ ~(alive /\ setting.timely) /\ UNCHANGED replies
    /\ UNCHANGED <<failures, tunnel_lost, waiters, received, alive, sendErrors>>

HbSendErr ==
    /\ hb = "send"
    /\ sendErrors < setting.sendErrors
    /\ sendErrors' = sendErrors + 1
    /\ DropReceiver
    /\ RecordFailure
    /\ UNCHANGED <<replies, alive>>

(* FrameRouter::dispatch: to the oldest waiter whose receiver exists; those
   before it are gone, and without one the list goes. *)
Dispatch(status) ==
    /\ replies[status] > 0
    /\ replies' = [replies EXCEPT ![status] = @ - 1]
    /\ \/ Live = {} /\ waiters' = <<>> /\ UNCHANGED received
       \/ \E i \in Live :
            /\ \A j \in Live : i <= j
            /\ waiters' = After(i)
            /\ received' = status
    /\ UNCHANGED <<hb, failures, tunnel_lost, alive, sendErrors>>

(* The task is polled: a response that has been delivered counts, whatever
   the clock says. *)
HbAnswered ==
    /\ hb = "wait" /\ received # "none"
    /\ \/ received = "ok" /\ RecordSuccess
       \/ received = "error" /\ RecordFailure
    /\ received' = "none"
    /\ UNCHANGED <<waiters, replies, alive, sendErrors>>

(* The response is not there in time. *)
HbTimeout ==
    /\ hb = "wait" /\ received = "none"
    /\ setting.timely => replies["ok"] = 0
    /\ DropReceiver
    /\ RecordFailure
    /\ UNCHANGED <<replies, alive, sendErrors>>

(* HeartbeatHandle::stop aborts the task wherever it is. *)
HbStop ==
    /\ hb \notin {"none", "ended"}
    /\ hb' = "ended"
    /\ DropReceiver
    /\ UNCHANGED <<failures, tunnel_lost, replies, alive, sendErrors>>

(* The gateway falls silent for good. *)
GatewayDies ==
    /\ alive /\ ~setting.timely
    /\ alive' = FALSE
    /\ UNCHANGED <<hb, failures, tunnel_lost, waiters, received, replies, sendErrors>>

HbSteps == HbRegister \/ HbSend \/ HbAnswered \/ HbTimeout
HbNext ==
    \/ HbStart \/ HbSteps \/ HbSendErr \/ HbStop \/ GatewayDies
    \/ \E status \in Statuses : Dispatch(status)

(* The interval and the response time-out pass, and the task is polled. *)
HbFairness == WF_hbVars(HbSteps)

-----------------------------------------------------------------------------
HbTypeOK ==
    /\ hb \in {"none", "sleep", "send", "wait", "ended"}
    /\ failures \in 0 .. MaxFailures
    /\ tunnel_lost \in BOOLEAN /\ alive \in BOOLEAN
    /\ waiters \in Seq({"live", "dropped"})
    /\ received \in {"none", "ok", "error"}
    /\ replies \in [Statuses -> 0 .. setting.replies]
    /\ sendErrors \in 0 .. setting.sendErrors

(* Receivers that have been dropped do not pile up in the router: there is
   never more than one waiter for each failure that is still counted, and
   one for the request under way ("if the receiver is dropped (timeout), the
   stale sender is skipped on the next dispatch", router.rs). *)
WaitersBounded == Len(waiters) <= MaxFailures

(* A response never reaches an abandoned request: a gateway that answers
   every heartbeat in time is not declared lost, even if fewer than
   MaxFailures heartbeats could not be sent (router.rs, dispatch). *)
HealthyGatewayKept ==
    setting.timely /\ setting.sendErrors < MaxFailures => ~tunnel_lost

(* A gateway that has fallen silent is noticed, although late responses to
   earlier requests may still be taken for answers (start_heartbeat). *)
DeadGatewayNoticed ==
    setting.beats => [](~alive /\ hb \in {"sleep", "send", "wait"} => <>(hb = "ended"))

(* The heartbeat judges the gateway rightly: one that answers is kept, one
   that does not is noticed, and requests that were given up are forgotten
   (start_heartbeat, FrameRouter::dispatch). *)
GatewayJudged == [](WaitersBounded /\ HealthyGatewayKept) /\ DeadGatewayNoticed
=============================================================================
