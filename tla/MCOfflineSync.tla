---------------------------- MODULE MCOfflineSync ----------------------------
(***************************************************************************)
(* Instances of OfflineSync for model checking.                            *)
(***************************************************************************)
EXTENDS OfflineSync

CONSTANTS n1, c1

TypedAndRemote == (-MaxRemote .. MaxTyped) \ {0}

Bounds(typed, remote, actions, faults) ==
  [typed |-> typed, remote |-> remote, actions |-> actions, faults |-> faults]

(* What may happen in one behaviour of the run.                              *)
OfflineBudgets ==
  {Bounds(1, 1, 1, 1), Bounds(2, 1, 0, 2), Bounds(2, 0, 1, 1), Bounds(1, 2, 1, 0), Bounds(1, 0, 1, 2)}

RefusedBudgets == {Bounds(1, 1, 1, 1)}
=============================================================================
