-------------------------- MODULE MCTelegramQueue --------------------------
(* Instances of TelegramQueue for TLC. *)
EXTENDS TelegramQueue, TLC

CONSTANTS t1, t2, s1, s2, p1

CallersTwo == {t1, t2}
CallersOne == {t1}
SendersTwo == {s1, s2}
SendersOne == {s1}
ProcessorsOne == {p1}

(* Callers are interchangeable, and so are the senders. *)
Symmetry == Permutations(CallersTwo) \cup Permutations(SendersTwo)
=============================================================================
