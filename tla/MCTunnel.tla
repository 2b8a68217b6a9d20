------------------------------ MODULE MCTunnel ------------------------------
(* Settings for model checking Tunnel. *)
EXTENDS Tunnel, TLC

CONSTANTS t1, t2

Quiet ==
    [users |-> {t1}, secure |-> FALSE, managed |-> FALSE,
     configured |-> [t \in Tunnels |-> NoAddress], assigned |-> {NoAddress},
     candidates |-> {}, occupied |-> {}, devices |-> {}, strays |-> 0,
     connects |-> 1, tidy |-> TRUE, drops |-> FALSE,
     beats |-> FALSE, timely |-> FALSE, sendErrors |-> 0, replies |-> 0,
     frames |-> 0, senders |-> 0, fifo |-> FALSE, duplicates |-> 0,
     repeats |-> 0, issued |-> 0, device |-> TRUE, password |-> TRUE]

Managed == [Quiet EXCEPT !.managed = TRUE, !.connects = 3]

(* Two tunnels want the same address: configured, assigned or probed for. *)
Sharing ==
    {[Managed EXCEPT !.users = {t1, t2}, !.configured = (t1 :> c @@ t2 :> NoAddress),
                     !.assigned = {NoAddress, 1, 2}, !.candidates = {1, 2, 3},
                     !.devices = {1}, !.occupied = {3}, !.strays = 1,
                     !.tidy = careful, !.drops = ~careful] :
        c \in {NoAddress, 2}, careful \in BOOLEAN}

(* One tunnel searches a range that may be full, and may leak what it claims. *)
Searching ==
    {[Managed EXCEPT !.candidates = {1, 2, 3}, !.devices = d, !.occupied = o,
                     !.drops = leaks] :
        d \in SUBSET {1, 2, 3}, o \in SUBSET {2, 3}, leaks \in BOOLEAN}

Beating ==
    {[Quiet EXCEPT !.beats = TRUE, !.timely = t, !.sendErrors = 2, !.replies = 2] :
        t \in BOOLEAN}

Wrapping ==
    {[Quiet EXCEPT !.secure = TRUE, !.frames = 4, !.senders = 2, !.fifo = FALSE,
                   !.duplicates = 2],
     [Quiet EXCEPT !.secure = TRUE, !.frames = 4, !.senders = 1, !.fifo = TRUE,
                   !.connects = 2]}

(* Handshakes, with the passwords of the server and without; the ids are the
   first ones, or pass one whose low byte is 0. *)
Shaking ==
    {[Quiet EXCEPT !.secure = TRUE, !.fifo = f, !.repeats = 2, !.connects = 2,
                   !.issued = i, !.device = d, !.password = p] :
        f \in BOOLEAN, <<i, d, p>> \in {<<0, TRUE, TRUE>>, <<254, TRUE, TRUE>>,
                                       <<254, TRUE, FALSE>>, <<0, FALSE, TRUE>>}}

MCSettings == Sharing \cup Searching \cup Beating \cup Wrapping \cup Shaking
=============================================================================
