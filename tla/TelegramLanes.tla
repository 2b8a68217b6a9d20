--------------------------- MODULE TelegramLanes ---------------------------
(***************************************************************************)
(* What the telegram queue promises, without the mutex, the heap, the      *)
(* waiters and the statistics: one FIFO lane per priority on the way out,  *)
(* one FIFO on the way in.  The most urgent lane that is not empty is      *)
(* served first.  A closed queue accepts nothing and still delivers.       *)
(***************************************************************************)
EXTENDS Integers, Sequences, FiniteSets

CONSTANTS
    Priorities, RankOf,
    Room,   \* telegrams each direction holds
    Tags    \* what tells telegrams apart

VARIABLES lanes, inbox, open

Init ==
    /\ lanes = [p \in Priorities |-> <<>>]
    /\ inbox = <<>>
    /\ open = TRUE

(* The places that are taken on the way out. *)
Taken == UNION {{p} \X DOMAIN lanes[p] : p \in Priorities}

AcceptOut ==
    /\ open
    /\ Cardinality(Taken) < Room
    /\ \E p \in Priorities, n \in Tags : lanes' = [lanes EXCEPT ![p] = Append(@, n)]
    /\ UNCHANGED <<inbox, open>>

AcceptIn ==
    /\ open
    /\ Len(inbox) < Room
    /\ \E n \in Tags : inbox' = Append(inbox, n)
    /\ UNCHANGED <<lanes, open>>

DeliverOut ==
    /\ \E p \in Priorities :
          /\ lanes[p] # <<>>
          /\ \A q \in Priorities : RankOf[q] < RankOf[p] => lanes[q] = <<>>
          /\ lanes' = [lanes EXCEPT ![p] = Tail(@)]
    /\ UNCHANGED <<inbox, open>>

DeliverIn ==
    /\ inbox # <<>>
    /\ inbox' = Tail(inbox)
    /\ UNCHANGED <<lanes, open>>

Close == open' = FALSE /\ UNCHANGED <<lanes, inbox>>

Clear ==
    /\ lanes' = [p \in Priorities |-> <<>>]
    /\ inbox' = <<>>
    /\ UNCHANGED open

Next == AcceptOut \/ AcceptIn \/ DeliverOut \/ DeliverIn \/ Close \/ Clear

vars == <<lanes, inbox, open>>

(* Every waiting telegram's turn comes. *)
Spec == Init /\ [][Next]_vars
FairSpec == Spec /\ WF_vars(DeliverOut) /\ WF_vars(DeliverIn)
=============================================================================
