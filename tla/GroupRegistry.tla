--------------------------- MODULE GroupRegistry ---------------------------
(***************************************************************************)
(* The registry of group addresses (protocol/dpt/group_registry.rs) and    *)
(* the task that asks for values that have not been seen for too long      *)
(* (Knx::start_group_refresh_task).                                        *)
(*                                                                         *)
(* Of the times a binding keeps, last_seen matters only in that it is or   *)
(* is not within the TTL, and last_tried only in its order.                *)
(***************************************************************************)
EXTENDS ReceptionSetting

Bindings ==
    [dpt : Dpts, ttl : BOOLEAN, fresh : BOOLEAN, last_seen_value : Telegrams \cup {None}]
ASSUME NoneIsNoBinding == None \notin Bindings

VARIABLES
    entries,      \* entries[a]: dpt, ttl (whether there is one), fresh,
                  \* last_seen_value; or None
    last_tried,   \* the bound addresses that have been tried, longest ago first
    refresh,      \* where the refresh task is
    picked,       \* the address it is about to ask for
    unregistered, refused   \* unregister calls, and failed sends, so far

registryVars == <<entries, last_tried, refresh, picked, unregistered, refused>>

RegistryInit ==
    /\ entries = [a \in Groups |-> None] /\ last_tried = <<>>
    /\ refresh = "sleep" /\ picked = None
    /\ unregistered = 0 /\ refused = 0

Bound(a) == entries[a] # None
BoundTo(a, dpt) == Bound(a) /\ entries[a].dpt = dpt

(* register: another DPT is an error, the same one changes nothing. *)
Binding(dpt) == [dpt |-> dpt, ttl |-> FALSE, fresh |-> FALSE, last_seen_value |-> None]
Register(a, dpt) ==
    /\ ~Bound(a)
    /\ entries' = [entries EXCEPT ![a] = Binding(dpt)]
    /\ UNCHANGED <<last_tried, refresh, picked, unregistered, refused>>

Unregister(a) ==
    /\ Bound(a) /\ unregistered < setting.rebinds
    /\ unregistered' = unregistered + 1
    /\ entries' = [entries EXCEPT ![a] = None]
    /\ last_tried' = Without(last_tried, a)
    /\ UNCHANGED <<refresh, picked, refused>>

(* A value that was seen may be within the new TTL or not. *)
SetRefreshTtl(a, ttl) ==
    /\ Bound(a) /\ a \in setting.refreshed
    /\ \E fresh \in {entries[a].last_seen_value # None, FALSE} :
          entries' = [entries EXCEPT ![a].ttl = ttl, ![a].fresh = fresh]
    /\ UNCHANGED <<last_tried, refresh, picked, unregistered, refused>>

(* record_group_value_if_present and record_seen; what is left of entries. *)
RecordSeenOnce(telegram) ==
    IF /\ telegram.destination \in Groups /\ Bound(telegram.destination)
       /\ telegram.kind \in {"Write", "Response"}
       /\ entries[telegram.destination].last_seen_value = None
    THEN [entries EXCEPT ![telegram.destination].fresh = TRUE,
                         ![telegram.destination].last_seen_value = telegram]
    ELSE entries
RecordSeen(telegram) ==
    IF /\ telegram.destination \in Groups /\ Bound(telegram.destination)
       /\ telegram.kind \in {"Write", "Response"}
    THEN [entries EXCEPT ![telegram.destination].fresh = TRUE,
                         ![telegram.destination].last_seen_value = telegram]
    ELSE entries

(* The TTL passes. *)
Expire(a) ==
    /\ Bound(a) /\ entries[a].fresh
    /\ entries' = [entries EXCEPT ![a].fresh = FALSE]
    /\ UNCHANGED <<last_tried, refresh, picked, unregistered, refused>>

-----------------------------------------------------------------------------
(* next_stale: never tried, or else tried longest ago. *)
Stale(a) == Bound(a) /\ entries[a].ttl /\ ~entries[a].fresh
Tried(a) == \E i \in DOMAIN last_tried : last_tried[i] = a
TriedBefore(a, b) ==
    \E i, j \in DOMAIN last_tried : i < j /\ last_tried[i] = a /\ last_tried[j] = b
NextStale ==
    {a \in Groups :
       /\ Stale(a)
       /\ \A b \in Groups \ {a} :
             Stale(b) => IF Tried(b) THEN ~Tried(a) \/ TriedBefore(a, b) ELSE ~Tried(a)}

RefreshPick ==
    /\ refresh = "sleep"
    /\ \E a \in NextStale : picked' = a
    /\ refresh' = "send"
    /\ UNCHANGED <<entries, last_tried, unregistered, refused>>

(* send_telegram, and record_tried when it has succeeded; the address may
   have been unregistered meanwhile. *)
RefreshSend ==
    /\ refresh = "send"
    /\ refresh' = "sleep"
    /\ last_tried' = IF Bound(picked)
                     THEN Append(Without(last_tried, picked), picked)
                     ELSE last_tried
    /\ UNCHANGED <<entries, picked, unregistered, refused>>

RefreshSendErr ==
    /\ refresh = "send" /\ refused < setting.sendErrors
    /\ refused' = refused + 1
    /\ refresh' = "sleep"
    /\ UNCHANGED <<entries, last_tried, picked, unregistered>>

RegistryNext ==
    \/ \E a \in setting.registered, dpt \in setting.dpts : Register(a, dpt)
    \/ \E a \in Groups : Expire(a) \/ \E ttl \in BOOLEAN : SetRefreshTtl(a, ttl)
    \/ RefreshPick \/ RefreshSend \/ RefreshSendErr

(* The refresh task wakes up every second, and a queue that takes telegrams
   again and again takes this one. *)
RegistryFairness == WF_registryVars(RefreshPick) /\ WF_registryVars(RefreshSend)

-----------------------------------------------------------------------------
RegistryTypeOK ==
    /\ refresh \in {"sleep", "send"} /\ picked \in Groups \cup {None}
    /\ unregistered \in 0 .. setting.rebinds /\ refused \in 0 .. setting.sendErrors
    /\ entries \in [Groups -> Bindings \cup {None}]
    /\ \A a \in Groups :
          Bound(a) => (entries[a].fresh => entries[a].last_seen_value # None)

(* Only bound addresses have been tried, none is listed twice, and so an
   address that is bound anew counts as never tried. *)
TriedAreBound ==
    \A i, j \in DOMAIN last_tried :
       Bound(last_tried[i]) /\ (i # j => last_tried[i] # last_tried[j])

(* No stale address waits for ever while others are refreshed again and
   again, even if none of them is ever answered ("it would stay at the front
   forever and starve every other stale address behind it", next_stale). *)
NoStaleStarves ==
    \A a \in Groups : []<>(~Stale(a) \/ (refresh = "send" /\ picked = a))

(* What is known of an address came with a telegram that carried a value:
   a GroupValueRead, a question, is never taken for the answer. *)
KnownValueIsValue ==
    \A a \in Groups :
       Bound(a) /\ entries[a].last_seen_value # None
          => entries[a].last_seen_value.kind # "Read"
=============================================================================
