-------------------------- MODULE MCTunnelService --------------------------
(* Small instances of TunnelService: a client on each transport, and the
   traffic of one session. *)
EXTENDS TunnelService

CONSTANTS u1, t1

OneUdp == {u1}
OneTcp == {t1}

(* Both clients on a server that runs, each of them with telegrams that are
   sent to it, and each on a server that is shut down. *)
ServerUse(clients, s) ==
    [peers |-> clients, sends |-> s, closes |-> FALSE, sessions |-> 2]
AllUsages ==
    {ServerUse({u1, t1}, FALSE), ServerUse({u1}, TRUE), ServerUse({t1}, TRUE)}
        \cup [peers : {{u1}, {t1}}, sends : {FALSE}, closes : {TRUE}, sessions : {1}]

(* Acks in time, enough telegrams for the counter to come round, enough
   losses to give the session up. *)
InTimeSetting ==
    [timely |-> TRUE, secure |-> FALSE, toClient |-> 5, toServer |-> 1,
     callers |-> 2, lost |-> 3, refused |-> 1, duplicated |-> 0]

(* Acks in time, and a datagram that comes twice. *)
TwiceSetting ==
    [timely |-> TRUE, secure |-> FALSE, toClient |-> 3, toServer |-> 1,
     callers |-> 1, lost |-> 2, refused |-> 0, duplicated |-> 1]

(* Acks may outlive ACK_TIMEOUT, and datagrams come twice. *)
LateSetting ==
    [timely |-> FALSE, secure |-> FALSE, toClient |-> 3, toServer |-> 0,
     callers |-> 1, lost |-> 1, refused |-> 1, duplicated |-> 1]

(* The same against an endpoint that requires KNX IP Secure. *)
SecureSetting ==
    [timely |-> FALSE, secure |-> TRUE, toClient |-> 3, toServer |-> 1,
     callers |-> 2, lost |-> 1, refused |-> 0, duplicated |-> 1]

(* Only the client sends, more than the counter's range. *)
RequestsSetting ==
    [timely |-> FALSE, secure |-> FALSE, toClient |-> 0, toServer |-> 7,
     callers |-> 0, lost |-> 3, refused |-> 0, duplicated |-> 1]

All == {NoTraffic, InTimeSetting, TwiceSetting, LateSetting, SecureSetting, RequestsSetting}
=============================================================================
