--------------------------- MODULE TunnelService ---------------------------
(***************************************************************************)
(* The tunnelling service: the sessions and the loops of the server        *)
(* (ServerLoops), and the traffic of one of its sessions (TunnelLink).     *)
(* A behaviour looks at one of the two: the traffic of a session while the *)
(* table keeps it, or the life of the sessions without traffic.            *)
(***************************************************************************)
EXTENDS ServerLoops, TunnelLink

NoTraffic ==
    [timely |-> TRUE, secure |-> FALSE, toClient |-> 0, toServer |-> 0,
     callers |-> 0, lost |-> 0, refused |-> 0, duplicated |-> 0]

ServiceInit ==
    /\ LoopsInit /\ LinkInit
    /\ setting # NoTraffic => usage = CHOOSE u \in Usages : TRUE

ServiceNext ==
    \/ setting = NoTraffic /\ LoopsNext /\ UNCHANGED linkVars
    \/ setting # NoTraffic /\ LinkNext /\ UNCHANGED loopVars

ServiceSpec == ServiceInit /\ [][ServiceNext]_<<loopVars, linkVars>>
FairService == ServiceSpec /\ LoopsFairness /\ LinkFairness

(* The variables of both parts have their types. *)
ServiceTypeOK == LoopsTypeOK /\ LinkTypeOK
=============================================================================
