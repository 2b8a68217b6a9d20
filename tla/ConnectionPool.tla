--------------------------- MODULE ConnectionPool ---------------------------
(***************************************************************************)
(* The connection pool (memory.rs), whose users report to the memory       *)
(* monitor what they create.  Each await in get_connection and in the task *)
(* that a dropped PooledConnection spawns is a step.  A connection is its  *)
(* number.                                                                 *)
(***************************************************************************)
EXTENDS MemoryMonitor

CONSTANT MaxSize   \* max_size of the pool

VARIABLES
    available, active,   \* sequences of connections
    user,                \* user[u]: pc, and the connection it holds or None
    returning,           \* connections that spawned tasks are returning ("no" if
                         \* none is): "active" until they are taken off that list
    created              \* connections created so far

poolVars == <<available, active, user, returning, created>>

PoolInit ==
    /\ available = <<>> /\ active = <<>>
    /\ user = [u \in Users |-> [pc |-> "idle", holds |-> None]]
    /\ returning = [c \in 1 .. setting.connections |-> "no"]
    /\ created = 0

Last(s) == s[Len(s)]

(* Vec::pop, what it leaves. *)
PopNot(s) == s
Pop(s) == SubSeq(s, 1, Len(s) - 1)

(* get_connection: a connection that is available moves to active under
   both locks; otherwise look whether there is room. *)
GetAvailable(u) ==
    /\ user[u].pc = "idle"
    /\ \/ /\ available # <<>>
          /\ available' = Pop(available)
          /\ active' = Append(active, Last(available))
          /\ user' = [user EXCEPT ![u] = [pc |-> "held", holds |-> Last(available)]]
       \/ /\ available = <<>> /\ created < setting.connections
          /\ user' = [user EXCEPT ![u].pc = "check"]
          /\ UNCHANGED <<available, active>>
    /\ UNCHANGED <<returning, created>>

CheckRoom(u) ==
    /\ user[u].pc = "check"
    /\ user' = [user EXCEPT ![u].pc = IF Len(active) >= MaxSize THEN "idle" ELSE "create"]
    /\ UNCHANGED <<available, active, returning, created>>

(* create_fn, then allocate. *)
Create(u) ==
    /\ user[u].pc = "create" /\ created < setting.connections
    /\ created' = created + 1
    /\ user' = [user EXCEPT ![u] = [pc |-> "allocate", holds |-> created + 1]]
    /\ FetchAdd(u)
    /\ UNCHANGED <<available, active, returning, frames>>

(* An allocation that is refused ends the call, and the connection goes. *)
AllocateErr(u) ==
    /\ user[u].pc = "allocate" /\ call[u] = "refused"
    /\ user' = [user EXCEPT ![u] = [pc |-> "idle", holds |-> None]]
    /\ call' = [call EXCEPT ![u] = "none"]
    /\ UNCHANGED <<available, active, returning, created, current_usage, peak_usage,
                   component_usage, new_usage, frames, leaked>>

CreateErr(u) ==
    /\ user[u].pc = "create"
    /\ user' = [user EXCEPT ![u].pc = "idle"]
    /\ UNCHANGED <<available, active, returning, created>>

PushActive(u) ==
    /\ user[u].pc = "allocate" /\ call[u] = "ok"
    /\ active' = Append(active, user[u].holds)
    /\ user' = [user EXCEPT ![u].pc = "held"]
    /\ call' = [call EXCEPT ![u] = "none"]
    /\ UNCHANGED <<available, returning, created, current_usage, peak_usage,
                   component_usage, new_usage, frames, leaked>>

(* Drop: a task is spawned that takes the connection off the active list and
   then makes it available. *)
DropConnection(u) ==
    /\ user[u].pc = "held"
    /\ returning' = [returning EXCEPT ![user[u].holds] = "active"]
    /\ user' = [user EXCEPT ![u] = [pc |-> "idle", holds |-> None]]
    /\ UNCHANGED <<available, active, created>>

ReturnStep(c) ==
    \/ /\ returning[c] = "active"
       /\ active' = Without(active, c)
       /\ returning' = [returning EXCEPT ![c] = "loose"]
       /\ UNCHANGED <<available, user, created>>
    \/ /\ returning[c] = "loose"
       /\ available' = Append(available, c)
       /\ returning' = [returning EXCEPT ![c] = "no"]
       /\ UNCHANGED <<active, user, created>>

(* ConnectionPool::cleanup keeps half, rounded up. *)
PoolCleanup ==
    /\ Len(available) > 1
    /\ available' = SubSeq(available, 1, (Len(available) + 1) \div 2)
    /\ UNCHANGED <<active, user, returning, created>>

PoolNext ==
    \/ \E u \in Users : Create(u) \/ AllocateErr(u) \/ PushActive(u)
    \/ /\ \/ \E u \in Users : \/ GetAvailable(u) \/ CheckRoom(u) \/ CreateErr(u)
                              \/ DropConnection(u)
          \/ \E c \in 1 .. created : ReturnStep(c)
          \/ PoolCleanup
       /\ UNCHANGED monitorVars
    \/ MonitorNext /\ UNCHANGED poolVars

-----------------------------------------------------------------------------
PoolTypeOK ==
    /\ Elements(available) \cup Elements(active) \subseteq 1 .. created
    /\ \A u \in Users : user[u].pc \in {"idle", "check", "create", "allocate", "held"}
    /\ created \in 0 .. setting.connections
    /\ MonitorTypeOK

(* A connection is with one user, or available, or on its way back, never
   two of these: two users never share one, and no list has one twice. *)
Exclusive ==
    /\ \A u, v \in Users :
          u # v /\ user[u].holds # None => user[u].holds # user[v].holds
    /\ \A u \in Users : user[u].holds \notin Elements(available)
    /\ \A i, j \in DOMAIN available : i # j => available[i] # available[j]
    /\ \A i, j \in DOMAIN active : i # j => active[i] # active[j]

(* A connection in use is on the active list, which is what the pool's
   limit is compared with; the list may exceed the limit, but nothing in use
   is missing from it (PooledConnection::drop). *)
HeldIsActive ==
    \A u \in Users : user[u].pc = "held" => user[u].holds \in Elements(active)

(* The lists of the pool say where every connection is, and the monitor what
   it takes. *)
PoolSound == PoolTypeOK /\ Exclusive /\ HeldIsActive /\ MonitorSound
=============================================================================
