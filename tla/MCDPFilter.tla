----------------------------- MODULE MCDPFilter -----------------------------
(* A volume of four sectors, in bytes of two bits and regions of one byte:  *)
(* it fills two regions exactly, so the third is the one that a request at  *)
(* the end of the volume reaches.  The IRPs are numbers, for MCInit to take *)
(* one of the assignments of requests that differ in their names only; they *)
(* are still dispatched in any order.                                       *)
EXTENDS DPFilter

MCMenu == <<[op |-> "READ", offset |-> 1, length |-> 2],
            [op |-> "WRITE", offset |-> 0, length |-> 2],
            [op |-> "WRITE", offset |-> 1, length |-> 3]>>

MCRequests == {MCMenu[k] : k \in DOMAIN MCMenu}

MCInit ==
    /\ Init
    /\ \E choice \in [Irps -> DOMAIN MCMenu] :
         /\ request = [i \in Irps |-> MCMenu[choice[i]]]
         /\ \A i, j \in Irps : i < j => choice[i] <= choice[j]

MCSpec == MCInit /\ [][Next]_vars /\ Fairness
=============================================================================
