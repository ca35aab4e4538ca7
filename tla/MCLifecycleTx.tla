--------------------------- MODULE MCLifecycleTx ---------------------------
(* Small instances of LifecycleTx.  Transactions are interchangeable where   *)
(* no liveness is checked; row ids are not, Fresh chooses among them.        *)
EXTENDS LifecycleTx

Symmetric == Permutations(Tx)

\* Liveness is about locks.  The users' own writes hold none when they end, and
\* batches meet most when each takes every cell.
Request(t) ==
  \/ \E p \in Position : BeginDelete(t, p) \/ BeginLifecycle(t, p, Nil) \/ BeginLifecycle(t, p, 1)
  \/ \E batch \in [Position \X Month -> UserAmount] : BeginBatch(t, batch)

\* What is left of FairSpec when clients send those requests only.
RequestsSpec ==
  /\ TxInit
  /\ [][\E t \in Tx : Request(t) \/ Statement(t) \/ Rollback(t) \/ DeadlockVictim(t)]_txVars
  /\ \A t \in Tx : SF_txVars(Statement(t)) /\ WF_txVars(DeadlockVictim(t))
============================================================================
