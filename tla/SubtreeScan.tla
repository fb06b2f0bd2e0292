---------------------------- MODULE SubtreeScan -----------------------------
(***************************************************************************)
(* The four walks over a subtree of workers in src/src/runtime.c.          *)
(* mark_as_idle recurses into both children.  RECV_REQ(req, worker, lvl),  *)
(* PEEK_REQ and COUNT_REQ go level by level instead: from the leftmost     *)
(* worker of a level they visit 1 << lvl workers, as far as there are any, *)
(* and continue with the left child of the leftmost one.                   *)
(*                                                                         *)
(* Runtime takes them to cover the workers of WorkerTree!Subtree; here the *)
(* loops are run, for every number of workers up to a bound, every worker  *)
(* to start from and every set of workers that have a request waiting.     *)
(***************************************************************************)
EXTENDS Integers, Sequences, FiniteSets

CONSTANT MaxWorkers   \* bound on num_workers

ASSUME MaxWorkersAssumption == MaxWorkers \in Nat \ {0}

Tree(N) == INSTANCE WorkerTree

VARIABLES
    num_workers,
    start,      \* the worker whose subtree is walked
    walk,       \* "recv", "peek" or "count"
    pending,    \* the workers whose channel holds one request
    worker, lvl, i,
    ret,        \* what the current call has found, or counted
    visited,    \* the workers looked at so far, in order of the walk
    pc

vars == <<num_workers, start, walk, pending, worker, lvl, i, ret, visited, pc>>

-----------------------------------------------------------------------------
left_child(w)  == Tree(num_workers)!left_child(w)
right_child(w) == Tree(num_workers)!right_child(w)

\* Variant: the children are not searched for children of their own.
mark_as_idle_flat ==
    [w \in -1 .. num_workers - 1 |->
        IF w = -1 THEN {} ELSE {w, left_child(w), right_child(w)} \ {-1}]

\* mark_as_idle(victims, w): the workers it strikes out, for every w.  There
\* is nothing to strike out at or beyond num_workers, or at -1.
mark_as_idle ==
    LET below[w \in -1 .. num_workers - 1] ==
            IF w = -1 THEN {}
            ELSE {w} \cup below[left_child(w)] \cup below[right_child(w)]
    IN  below

\* Variant: the levels are taken to grow by one worker.
Width_linear(l) == l + 1

\* 1 << lvl
Width(l) == LET shifted[k \in 0 .. l] == IF k = 0 THEN 1 ELSE 2 * shifted[k - 1]
            IN  shifted[l]

LevelEnd == LET e == worker + Width(lvl)
            IN  IF e < num_workers THEN e ELSE num_workers

Init ==
    /\ num_workers \in 1 .. MaxWorkers
    /\ start \in 0 .. num_workers - 1
    /\ walk \in {"recv", "peek", "count"}
    /\ pending = {}
    /\ worker = start /\ lvl = 0 /\ i = start
    /\ ret = 0
    /\ visited = <<>>
    /\ pc = "call"

\* Requests are waiting when the walk begins.
Call ==
    /\ pc = "call"
    /\ pending' \in SUBSET (0 .. num_workers - 1)
    /\ pc' = "level"
    /\ UNCHANGED <<num_workers, start, walk, worker, lvl, i, ret, visited>>

\* One iteration of the loop: RECV_REQ and PEEK_REQ return at the first
\* request, COUNT_REQ adds up.
Visit ==
    /\ pc = "level"
    /\ worker # -1
    /\ i < LevelEnd
    /\ visited' = visited \o <<i>>
    /\ ret' = IF i \in pending THEN ret + 1 ELSE ret
    /\ pc' = IF i \in pending /\ walk # "count" THEN "return" ELSE pc
    /\ i' = i + 1
    /\ UNCHANGED <<num_workers, start, walk, pending, worker, lvl>>

\* return RECV_REQ(req, left_child(worker, num_workers-1), lvl+1), and likewise
\* in the other two: the result is that of the call for the next level.
Descend ==
    /\ pc = "level"
    /\ worker # -1
    /\ i >= LevelEnd
    /\ worker' = left_child(worker)
    /\ lvl' = lvl + 1
    /\ i' = left_child(worker)
    /\ ret' = 0
    /\ UNCHANGED <<num_workers, start, walk, pending, visited, pc>>

\* if (worker == -1) return ret;
Leave ==
    /\ pc = "level"
    /\ worker = -1
    /\ pc' = "return"
    /\ UNCHANGED <<num_workers, start, walk, pending, worker, lvl, i, ret, visited>>

Next == Call \/ Visit \/ Descend \/ Leave

Spec == Init /\ [][Next]_vars

-----------------------------------------------------------------------------
Visited == {visited[k] : k \in 1 .. Len(visited)}

\* mark_as_idle strikes out exactly the subtree: the workers that must be in
\* every set which contains the worker and the children of its members.
MarksSubtree ==
    pc = "call" => mark_as_idle[start] = Tree(num_workers)!Subtree[start]

\* A walk that returns without a request has looked at every worker of the
\* subtree once, and at no other, also where the last level is incomplete;
\* RECV_REQ and PEEK_REQ find a request if and only if there is one.
CoversSubtree ==
    /\ Visited \subseteq mark_as_idle[start]
    /\ Cardinality(Visited) = Len(visited)
    /\ pc = "return" /\ (walk = "count" \/ ret = 0) =>
            Visited = mark_as_idle[start]
    /\ pc = "return" /\ walk # "count" =>
            (ret # 0 <=> pending \cap mark_as_idle[start] # {})
=============================================================================
