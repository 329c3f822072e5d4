------------------------------- MODULE MCProjects -------------------------------
(***************************************************************************)
(* A small instance of Projects: one project in one directory, and two     *)
(* requests at a time, of any kind and as often as they please.            *)
(***************************************************************************)
EXTENDS Projects, TLC

CONSTANTS n1, i1, r1, r2, p1, w1, w2

OneName       == {n1}
OneId         == {i1}
TwoRequests   == {r1, r2}
OnePath       == {p1}
OneVersion    == {w1}
TwoVersions   == {w1, w2}
OneOrder      == {1}
TwoOrders     == {1, 2}

(* Registered with the files found in its directory, or started with them  *)
(* and more.                                                               *)
OneList       == {"found"}
TwoLists      == {"found", "given"}

(* Docker reports the one path there is, and what it was started with.     *)
StartedInFirst == [n \in Name |-> p1]
StartedGiven   == [n \in Name |-> "given"]
StartedFound   == [n \in Name |-> "found"]

RequestSymmetry == Permutations(TwoRequests)
=============================================================================
