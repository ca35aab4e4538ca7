-------------------------- MODULE LifecycleTables ---------------------------
(***************************************************************************)
(* What PositionLifecycle and LifecycleTx are both about: the positions of *)
(* one group and their snapshots, as committed.                            *)
(***************************************************************************)
EXTENDS CloseSnapshot

CONSTANTS
  UserAmount   \* the amounts users record, a part of Amount

ASSUME UserAmountAssumption == UserAmount \subseteq Amount

VARIABLES
  position,   \* the parent rows
  snap        \* the snapshot table

Exists(p) == ~position[p].deleted

\* Month-aware eligibility of the bulk entry.
Eligible(p, m) ==
  /\ Exists(p)
  /\ position[p].terminatedAt # Nil => position[p].terminatedAt >= m

\* A deleted position leaves no live snapshot behind (INV-SOFT-DELETE-05), not
\* even one that was archived when it was deleted and is restored later.
NoLiveOrphan == \A i \in Live(snap) : Exists(snap[i].pos)
=============================================================================
