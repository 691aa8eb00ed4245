------------------------------ MODULE Retention ------------------------------
(***************************************************************************)
(* What a "fifo" collection promises its users, without servers, requests, *)
(* locks or storage: versions are numbered 1, 2, 3 ..., a version is given *)
(* up only when maxBackupsCount newer ones are there, and numbers are      *)
(* never given out twice.                                                  *)
(***************************************************************************)
EXTENDS Naturals, FiniteSets

CONSTANT Limit  \* spec.maxBackupsCount

VARIABLES
    kept,   \* numbers of the versions in the collection
    latest  \* number of the version uploaded last

Init == kept = {} /\ latest = 0

Upload ==
    /\ latest' = latest + 1
    /\ kept' = kept \cup {latest + 1}

GiveUp(n) ==
    /\ n \in kept
    /\ Cardinality({m \in kept : m > n}) >= Limit
    /\ kept' = kept \ {n}
    /\ UNCHANGED latest

Next == Upload \/ \E n \in kept : GiveUp(n)

Spec == Init /\ [][Next]_<<kept, latest>>
=============================================================================
