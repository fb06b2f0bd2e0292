----------------------------- MODULE WorkerTree -----------------------------
(***************************************************************************)
(* The tree of workers, src/src/worker_tree.h.  Workers 0 .. num_workers-1 *)
(* form a complete binary tree rooted at the master.  A worker that backs  *)
(* off hands its last steal request to its parent, so the shape of the     *)
(* tree decides who keeps whose lifeline and who answers for whom.         *)
(***************************************************************************)
EXTENDS Integers

CONSTANT N  \* num_workers

ASSUME NAssumption == N \in Nat \ {0}

Workers == 0 .. N - 1

MASTER_ID == 0

\* "-1" in the source: no such worker.
NoWorker == -1

left_child(w) == IF 2 * w + 1 <= N - 1 THEN 2 * w + 1 ELSE NoWorker

right_child(w) == IF 2 * w + 2 <= N - 1 THEN 2 * w + 2 ELSE NoWorker

\* C division truncates towards zero; ID % 2 # 0 selects (ID-1)/2, and the
\* quotient (0-2)/2 is -1 for the root.
parent(w) == IF w % 2 # 0 THEN (w - 1) \div 2
             ELSE IF w = 0 THEN NoWorker ELSE (w - 2) \div 2

Children(w) == {left_child(w), right_child(w)} \ {NoWorker}

ClosedUnderChildren(S) == \A v \in S : Children(v) \subseteq S

\* The workers that mark_as_idle(victims, w) clears from the victim set and
\* that RECV_REQ, COUNT_REQ and PEEK_REQ visit: the least set that contains w
\* and is closed under children.  A function, so that TLC evaluates it once.
Subtree ==
    [w \in Workers |->
        {v \in Workers : \A S \in SUBSET Workers :
                            (w \in S /\ ClosedUnderChildren(S)) => v \in S}]
=============================================================================
