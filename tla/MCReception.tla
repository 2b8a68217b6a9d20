---------------------------- MODULE MCReception ----------------------------
(* Settings for model checking Reception. *)
EXTENDS Reception

CONSTANTS g1, g2, g3, d1, d2

Quiet ==
    [telegrams |-> 0, destinations |-> {}, kinds |-> {"Write"},
     per_address_max_per_sec |-> 10, queue_size |-> 2, max_size |-> 2,
     max_per_second |-> 1, burst |-> 0, sends |-> 0, ticks |-> 0,
     reads |-> 0, cancels |-> FALSE, reentrant |-> FALSE, churn |-> 0,
     registered |-> {}, dpts |-> {d1}, refreshed |-> {}, rebinds |-> 0,
     handles |-> 0, writes |-> 0, sendErrors |-> 0, connections |-> 0, frames |-> 0,
     memory_limit |-> 0]

(* More telegrams than the limiter and the queues take. *)
Flood ==
    {[Quiet EXCEPT !.telegrams = 5, !.destinations = {g1},
                   !.per_address_max_per_sec = m, !.ticks = 3] : m \in {1, 2}}
      \cup {[Quiet EXCEPT !.telegrams = 5, !.destinations = {g1, Individual},
                          !.per_address_max_per_sec = 2]}

(* More telegrams than the bucket has tokens for. *)
Sending ==
    {[Quiet EXCEPT !.sends = 7, !.ticks = 5, !.max_per_second = m, !.burst = b] :
       m \in {1, 3}, b \in {0, 2}}

(* Reads, and callbacks that come and go. *)
Asking ==
    [Quiet EXCEPT !.telegrams = 2, !.destinations = {g1}, !.kinds = {"Response"},
                  !.reads = 2]
Reading ==
    {[Asking EXCEPT !.churn = 1, !.reentrant = TRUE],
     [Asking EXCEPT !.cancels = TRUE, !.sendErrors = 1],
     [Asking EXCEPT !.telegrams = 1, !.reads = 1, !.churn = 2],
     [Asking EXCEPT !.reads = 0, !.churn = 2, !.destinations = {g1, g2}]}

(* Values that expire and addresses that are bound anew. *)
Refreshing ==
    {[Quiet EXCEPT !.registered = Groups, !.refreshed = Groups, !.rebinds = 1,
                   !.sendErrors = 1],
     [Quiet EXCEPT !.telegrams = 2, !.destinations = {g1}, !.kinds = {"Read", "Write"},
                   !.registered = {g1, g2}, !.refreshed = {g1, g2}, !.rebinds = 1]}

(* Handles whose addresses are bound to another DPT. *)
Rebinding ==
    [Quiet EXCEPT !.destinations = {g1}, !.kinds = {"Response"}, !.registered = {g1},
                  !.dpts = {d1, d2}, !.rebinds = 2, !.handles = 2]
Typing ==
    {[Rebinding EXCEPT !.telegrams = 1, !.reads = 1],
     [Rebinding EXCEPT !.writes = 2]}

(* A pool for itself, and others that share the monitor with the
   receiving task, whose frames take two. *)
Pooling ==
    {[Quiet EXCEPT !.connections = 4, !.memory_limit = 2],
     [Quiet EXCEPT !.connections = 3, !.memory_limit = 4],
     [Quiet EXCEPT !.connections = 2, !.frames = 1, !.memory_limit = 3],
     [Quiet EXCEPT !.connections = 1, !.frames = 2, !.memory_limit = 2]}

MCSettings == Flood \cup Sending \cup Reading \cup Refreshing \cup Typing \cup Pooling
Overhearing == {[Asking EXCEPT !.kinds = {"Read", "Response"}, !.reads = 1]}
=============================================================================
