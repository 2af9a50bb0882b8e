----------------------------- MODULE MCGhPoller -----------------------------
(***************************************************************************)
(* Instances of GhPoller for TLC, and the bounds on their faults.          *)
(***************************************************************************)
EXTENDS GhPoller

(* The key of the newest entity is the smallest string, as "10" < "9".     *)
MCKeyRank == [e \in Entities |-> MaxEntities - e]

MCFaults == [http |-> 1, error |-> 1, reply |-> 1, crash |-> 1]
MCNoFaults == [k \in FaultKinds |-> 0]
=============================================================================
