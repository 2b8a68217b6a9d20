----------------------------- MODULE Reception -----------------------------
(***************************************************************************)
(* What a Knx instance does with the telegrams it receives: the limiter,   *)
(* the incoming queue, and the processing task, which records the value in *)
(* the registry and then calls the callbacks.                              *)
(***************************************************************************)
EXTENDS RateLimiter, TypedGroupAddress, ConnectionPool

system == <<limiterVars, handlerVars, registryVars, typedVars, poolVars, monitorVars, rateVars>>
vars == <<setting, system>>

Init ==
    /\ setting \in Settings
    /\ LimiterInit /\ HandlerInit /\ RegistryInit /\ TypedInit /\ PoolInit
    /\ MonitorInit /\ RateInit

(* start_telegram_processing_task. *)
Process ==
    /\ notifying = None /\ incoming # <<>>
    /\ incoming' = Tail(incoming)
    /\ entries' = RecordSeen(Head(incoming))
    /\ Notify(Head(incoming))
    /\ UNCHANGED <<now, arrivals, per_address, channel, stats, through, passed, last_tried,
                   refresh, picked, unregistered, refused, typedVars, poolVars, monitorVars, rateVars>>

Next ==
    /\ UNCHANGED setting
    /\ \/ LimiterNext /\ UNCHANGED <<handlerVars, registryVars, typedVars, poolVars, monitorVars, rateVars>>
       \/ HandlerNext /\ UNCHANGED <<limiterVars, registryVars, typedVars, poolVars, monitorVars, rateVars>>
       \/ RegistryNext /\ UNCHANGED <<limiterVars, handlerVars, typedVars, poolVars, monitorVars, rateVars>>
       \/ TypedNext /\ UNCHANGED <<limiterVars, poolVars, monitorVars, rateVars>>
       \/ PoolNext /\ UNCHANGED <<limiterVars, handlerVars, registryVars, typedVars, rateVars>>
       \/ Acquire /\ UNCHANGED <<limiterVars, handlerVars, registryVars, typedVars, poolVars, monitorVars>>
       \/ Process

Spec == Init /\ [][Next]_vars
FairSpec ==
    /\ Spec /\ HandlerFairness /\ RegistryFairness
    /\ WF_limiterVars(Drain) /\ WF_system(Process)

-----------------------------------------------------------------------------
TypeOK ==
    LimiterTypeOK /\ HandlerTypeOK /\ RegistryTypeOK /\ TypedTypeOK

(* A callback that asks the registry finds the value of the very telegram
   it is called for, or that of none if the address was bound meanwhile;
   never an older one (record_group_value_if_present comes first). *)
RegistryAgreesWithCallback ==
    notifying # None /\ notifying.kind # "Read"
       => \A a \in Groups :
            notifying.destination = a /\ Bound(a)
               => entries[a].last_seen_value \in {None, notifying}

(* Limiter, queue, registry and callbacks agree: telegrams keep their order
   on the way, and what the registry knows is what was received. *)
Consistent ==
    /\ TypeOK
    /\ WaitsInOrder /\ TriedAreBound /\ KnownValueIsValue
    /\ RegistryAgreesWithCallback

(* Neither what comes in nor what goes out exceeds its limit by more than the
   windows and the bucket allow (is_throttled, RateLimiter::acquire). *)
RatesBounded == BurstBounded /\ WindowInv /\ SendsBounded /\ BucketInv

(* Every telegram that passes the limiter and finds room is processed. *)
IncomingIsProcessed == [](incoming # <<>> => <>(incoming = <<>>))

(* Telegrams, reads and refreshes all get through, although callbacks and
   readers contend for one lock and stale addresses for one task
   (notify_telegram_received, read_group_value, start_group_refresh_task). *)
ReceptionAdvances == ReadsReturn /\ IncomingIsProcessed /\ NoStaleStarves
=============================================================================
