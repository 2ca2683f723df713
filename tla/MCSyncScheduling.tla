-------------------------- MODULE MCSyncScheduling --------------------------
(* Two tabs of one browser. Each behaviour has one of the budgets.           *)
EXTENDS SyncScheduling

CONSTANTS t1, t2

Bounds(tabs, locks, edits, changes, events, faults, sessions) ==
  [tabs |-> tabs, locks |-> locks, edits |-> edits, changes |-> changes, events |-> events, faults |-> faults,
   sessions |-> sessions]

(* One tab with each kind of trouble, and two tabs with little of it.        *)
MCBudgets ==
  {Bounds({t1}, TRUE, 1, 1, 0, 1, 0), Bounds({t1}, TRUE, 1, 1, 1, 0, 0),
   Bounds({t1}, TRUE, 0, 1, 0, 1, 2), Bounds({t1, t2}, TRUE, 0, 1, 0, 0, 0),
   Bounds({t1, t2}, FALSE, 0, 0, 0, 1, 0), Bounds({t1, t2}, FALSE, 1, 0, 1, 0, 0)}
=============================================================================
