-------------------------- MODULE ReceptionSetting --------------------------
(***************************************************************************)
(* The circumstances in which a Knx instance receives telegrams.  One      *)
(* setting is chosen at the start of a behaviour and holds throughout.     *)
(***************************************************************************)
EXTENDS Integers, Sequences, FiniteSets

CONSTANTS
    Settings,     \* the circumstances to consider
    Groups,       \* group addresses
    Individual,   \* the destination of a telegram to an individual address
    Dpts,         \* data point types
    Readers,      \* tasks that call read_group_value
    Users,        \* tasks that take connections from a ConnectionPool
    None          \* Option::None

Setting ==
    [telegrams : Nat,       \* bound: telegrams that arrive
     destinations : SUBSET (Groups \cup {Individual}),
     kinds : SUBSET {"Read", "Write", "Response"},
     per_address_max_per_sec : Nat \ {0}, queue_size : Nat,   \* ReceiveLimitConfig
     max_size : Nat,        \* bound of the incoming queue
     max_per_second : Nat \ {0}, burst : Nat,           \* RateLimitConfig
     sends : Nat,           \* bound: telegrams that are sent
     ticks : Nat,           \* bound: the clock
     reads : Nat,           \* bound: calls of read_group_value
     cancels : BOOLEAN,     \* a call may be dropped before it returns
     reentrant : BOOLEAN,   \* the application's callback registers callbacks
     churn : Nat,           \* bound: callbacks of the application
     registered : SUBSET Groups, \* addresses the application registers
     dpts : SUBSET Dpts,         \* and the data point types it binds them to
     refreshed : SUBSET Groups,  \* addresses that are given a refresh TTL
     rebinds : Nat,         \* bound: addresses that are unregistered
     handles : Nat,         \* bound: typed handles the application keeps
     writes : Nat,          \* bound: values written through them
     sendErrors : Nat,      \* bound: telegrams that cannot be queued
     connections : Nat,     \* bound: connections the pool creates
     frames : Nat,          \* bound: frames the memory monitor is told of
     memory_limit : Nat]    \* of the MemoryMonitor, a connection taking one

ASSUME SettingAssumption ==
    /\ Individual \notin Groups /\ None \notin Nat
    /\ Settings \subseteq Setting

(* A telegram that was received: its number in order of arrival, and what of
   it the parts of this system tell apart. *)
Telegrams ==
    [number : Nat, destination : Groups \cup {Individual},
     kind : {"Read", "Write", "Response"}]
ASSUME NoneIsNoTelegram == None \notin Telegrams

(* Sequences: what is in s, s without its i-th element, and without x, which
   is in it once at most. *)
Elements(s) == {s[i] : i \in DOMAIN s}
DropAt(s, i) == [j \in 1 .. Len(s) - 1 |-> IF j < i THEN s[j] ELSE s[j + 1]]
Without(s, x) ==
    IF x \in Elements(s) THEN DropAt(s, CHOOSE i \in DOMAIN s : s[i] = x) ELSE s

VARIABLE setting
=============================================================================
