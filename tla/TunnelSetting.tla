--------------------------- MODULE TunnelSetting ---------------------------
(***************************************************************************)
(* The circumstances a client tunnel works in.  One setting is chosen at   *)
(* the start of a behaviour and holds throughout, so that the modules that *)
(* make up the tunnel can be looked at one at a time and together.         *)
(***************************************************************************)
EXTENDS Integers, Sequences, FiniteSets

CONSTANTS
    Settings,   \* the circumstances to consider
    Tunnels,    \* Tunnel objects that share one AddressRegistry
    Addresses   \* individual addresses; numbers, because selection is ordered

NoAddress == 0

Setting ==
    [users : SUBSET Tunnels,      \* the tunnels the application uses
     secure : BOOLEAN,            \* connect_secure() instead of connect()
     managed : BOOLEAN,           \* address management is enabled
     configured : [Tunnels -> Addresses \cup {NoAddress}],
     assigned : SUBSET (Addresses \cup {NoAddress}),  \* what the gateway assigns
     candidates : SUBSET Addresses,   \* the reserved range x.y.240 .. x.y.254
     occupied : SUBSET Addresses,     \* known_occupied
     devices : SUBSET Addresses,      \* addresses in use on the bus
     strays : Nat,         \* bound: probe signals that come from elsewhere
     connects : Nat,       \* bound: calls of connect
     tidy : BOOLEAN,       \* a connected tunnel is disconnected before it is
                           \* connected again
     drops : BOOLEAN,      \* a tunnel may be closed and dropped
     beats : BOOLEAN,      \* the heartbeat runs
     timely : BOOLEAN,     \* the gateway answers heartbeats, and in time
     sendErrors : Nat,     \* bound: heartbeats that cannot be sent
     replies : Nat,        \* bound: heartbeat answers under way at once
     frames : Nat,         \* bound: frames wrapped in the secure session
     senders : Nat,        \* tasks that send in the secure session at once
     fifo : BOOLEAN,       \* TCP: nothing is reordered, duplicated or lost
     duplicates : Nat,     \* bound: wrapped frames the network duplicates
     repeats : Nat,        \* bound: handshake frames the network duplicates
     issued : Nat,         \* session ids the server has given out before
     device : BOOLEAN,     \* both ends have the same device password
     password : BOOLEAN]   \* and the same user password

ASSUME SettingAssumption ==
    /\ Addresses \subseteq Nat \ {NoAddress}
    /\ Settings \subseteq Setting
    /\ \A s \in Settings : s.secure => \A t, u \in s.users : t = u

VARIABLE setting
=============================================================================
