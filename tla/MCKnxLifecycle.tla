--------------------------- MODULE MCKnxLifecycle ---------------------------
(* Small instances of KnxLifecycle: the circumstances worth telling apart. *)
EXTENDS KnxLifecycle

RunUntil == <<"connect", "start", "shutdown">>
Restart == <<"connect", "start", "stop", "connect", "start", "shutdown">>

(* close() may fail to wake the processing task, so it may always be slow. *)
With(k, calls, losses, errors) ==
    [script |-> calls, kind |-> k, autoReconnect |-> TRUE, runs |-> FALSE, attempts |-> 2,
     slow |-> {"processing"}, requests |-> losses, failures |-> errors]

(* One loss under every way to use a tunnel. *)
OneLoss == {With("udp", s, 1, 1) :
              s \in {Restart, <<"start", "connect", "shutdown">>,
                     <<"connect", "connect", "disconnect">>}}
           \cup {[With("tcp", RunUntil, 1, 0) EXCEPT !.runs = TRUE]}
(* The gateway repeats its request, or takes two tunnels away. *)
TwoLosses == {With("udp", RunUntil, 2, 0)}
(* Reconnection that gives up, and none at all. *)
GivesUpUses == {[With("tcp", RunUntil, 1, 2) EXCEPT !.attempts = 1]}
NoReconnect == {[With("udp", RunUntil, 1, 1) EXCEPT !.autoReconnect = FALSE]}
(* stop() does not wait long enough, or is not called. *)
Hasty == {[With("udp", RunUntil, 1, 0) EXCEPT !.slow = @ \cup late] :
             late \in {{"control"}, {"reconnect"}}}
         \cup {With("udp", <<"connect", "start", "disconnect">>, 1, 0)}
Routing == {With("routing", Restart, 0, 2)}
EveryUse == OneLoss \cup TwoLosses \cup GivesUpUses \cup NoReconnect \cup Hasty
              \cup Routing

KeepsRunning == {With("udp", <<"connect", "start">>, 1, 0)}
=============================================================================
