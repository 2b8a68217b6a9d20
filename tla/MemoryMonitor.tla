---------------------------- MODULE MemoryMonitor ---------------------------
(***************************************************************************)
(* The memory monitor (memory.rs) and those who report to it: the users of *)
(* the connection pool and the receiving task, which accounts for a frame  *)
(* while it handles it.  The total is one atomic, the usage by component   *)
(* is behind a lock, and between the two a call may be interrupted.        *)
(***************************************************************************)
EXTENDS ReceptionSetting

VARIABLES
    current_usage, peak_usage, component_usage,
    call,         \* call[c]: how far the allocation of client c is
    new_usage,    \* the total that its fetch_add gave
    frames,       \* frames received so far
    leaked        \* history: what refused allocations added

monitorVars == <<current_usage, peak_usage, component_usage, call, new_usage, frames, leaked>>

Receiving == "receiving task"
Clients == Users \cup {Receiving}
ASSUME UsersAssumption == IsFiniteSet(Users) /\ Receiving \notin Users

(* The component and the size that a client reports. *)
ComponentOf(c) == IF c = Receiving THEN "protocol" ELSE "transport"
SizeOf(c) == IF c = Receiving THEN 2 ELSE 1

MonitorInit ==
    /\ current_usage = 0 /\ peak_usage = 0
    /\ component_usage = [transport |-> 0, protocol |-> 0]
    /\ call = [c \in Clients |-> "none"] /\ new_usage = [c \in Clients |-> 0]
    /\ frames = 0 /\ leaked = 0

(* allocate. *)
FetchAdd(c) ==
    /\ call[c] = "none"
    /\ current_usage' = current_usage + SizeOf(c)
    /\ new_usage' = [new_usage EXCEPT ![c] = current_usage + SizeOf(c)]
    /\ call' = [call EXCEPT ![c] = "peak"]
    /\ UNCHANGED <<peak_usage, component_usage, leaked>>

(* The compare-and-swap loop, then the look at the limit. *)
UpdatePeak(c) ==
    /\ call[c] = "peak"
    /\ peak_usage' = IF new_usage[c] > peak_usage THEN new_usage[c] ELSE peak_usage
    /\ call' = [call EXCEPT ![c] = IF new_usage[c] > setting.memory_limit
                                   THEN "cleanup" ELSE "account"]
    /\ UNCHANGED <<current_usage, component_usage, new_usage, frames, leaked>>

(* cleanup frees nothing, but others may have; what is refused stays in the
   total. *)
Cleanup(c) ==
    /\ call[c] = "cleanup"
    /\ \/ /\ current_usage > setting.memory_limit
          /\ call' = [call EXCEPT ![c] = "refused"]
          /\ leaked' = leaked + SizeOf(c)
       \/ /\ current_usage <= setting.memory_limit
          /\ call' = [call EXCEPT ![c] = "account"]
          /\ UNCHANGED leaked
    /\ UNCHANGED <<current_usage, peak_usage, component_usage, new_usage, frames>>

Account(c) ==
    /\ call[c] = "account"
    /\ component_usage' = [component_usage EXCEPT ![ComponentOf(c)] = @ + SizeOf(c)]
    /\ call' = [call EXCEPT ![c] = "ok"]
    /\ UNCHANGED <<current_usage, peak_usage, new_usage, frames, leaked>>

(* deallocate, up to the lock and from there. *)
FetchSub(c) ==
    /\ call[c] = "ok"
    /\ current_usage' = current_usage - SizeOf(c)
    /\ call' = [call EXCEPT ![c] = "release"]
    /\ UNCHANGED <<peak_usage, component_usage, new_usage, frames, leaked>>

Release(c) ==
    /\ call[c] = "release"
    /\ component_usage' = [component_usage EXCEPT
                             ![ComponentOf(c)] = IF @ > SizeOf(c) THEN @ - SizeOf(c) ELSE 0]
    /\ call' = [call EXCEPT ![c] = "none"]
    /\ UNCHANGED <<current_usage, peak_usage, new_usage, frames, leaked>>

(* The receiving task: a frame whose allocation is refused is dropped, and
   nothing is given back for it. *)
ReceiveFrame ==
    /\ frames < setting.frames
    /\ frames' = frames + 1
    /\ FetchAdd(Receiving)
DropFrame ==
    /\ call[Receiving] = "refused"
    /\ call' = [call EXCEPT ![Receiving] = "none"]
    /\ UNCHANGED <<current_usage, peak_usage, component_usage, new_usage, frames, leaked>>

MonitorNext ==
    \/ \E c \in Clients : UpdatePeak(c) \/ Cleanup(c) \/ Account(c)
    \/ ReceiveFrame \/ DropFrame
    \/ FetchSub(Receiving) \/ Release(Receiving)

-----------------------------------------------------------------------------
(* What clients report together: each user one, the receiving task two. *)
Sizes(clients) ==
    Cardinality(clients \cap Users) + IF Receiving \in clients THEN SizeOf(Receiving) ELSE 0
At(pcs) == Sizes({c \in Clients : call[c] \in pcs})
Accounted == component_usage.transport + component_usage.protocol

MonitorTypeOK ==
    /\ current_usage \in Nat /\ peak_usage \in Nat /\ leaked \in Nat
    /\ \A c \in Clients :
          call[c] \in {"none", "peak", "cleanup", "account", "ok", "refused", "release"}
    /\ frames \in 0 .. setting.frames

(* The total and the usage by component tell the same, but for the calls
   that are between the two and for what refused calls left behind. *)
UsageAccounted ==
    Accounted + At({"peak", "cleanup", "account"}) + leaked = current_usage + At({"release"})

(* However calls overlap, what was granted and not given back is within the
   limit: allocate adds first and looks afterwards. *)
WithinLimit == Accounted + At({"account"}) <= setting.memory_limit + At({"release"})

(* The peak is below the total only while a call has yet to raise it. *)
PeakKnown == current_usage > peak_usage => \E c \in Clients : call[c] = "peak"

MonitorSound == UsageAccounted /\ WithinLimit /\ PeakKnown
=============================================================================
