----------------------------- MODULE DequeSpec ------------------------------
(***************************************************************************)
(* What the deques of src/src/deque.h promise: a sequence of tasks, pushed *)
(* and popped at the front by its owner, stolen from the back, with stolen *)
(* tasks prepended to the thief's deque in the order they had.  Runtime    *)
(* treats deques in this way.                                              *)
(***************************************************************************)
EXTENDS Naturals, Sequences

CONSTANTS Workers, Tasks

VARIABLES
    deque,   \* per worker: its tasks, most recent first
    loot,    \* per worker: the list of tasks on its way to it
    held     \* per worker: the tasks it is running

vars == <<deque, loot, held>>

Init ==
    /\ deque = [w \in Workers |-> <<>>]
    /\ loot = [w \in Workers |-> <<>>]
    /\ held = [w \in Workers |-> {}]

\* The tasks that have not been run to their end
Elements(s) == {s[i] : i \in 1 .. Len(s)}
Known == UNION {Elements(deque[w]) \cup Elements(loot[w]) \cup held[w] : w \in Workers}

Push(w, t) ==
    /\ t \notin Known
    /\ deque' = [deque EXCEPT ![w] = <<t>> \o @]
    /\ UNCHANGED <<loot, held>>

Pop(w) ==
    /\ deque[w] # <<>>
    /\ deque' = [deque EXCEPT ![w] = Tail(@)]
    /\ held' = [held EXCEPT ![w] = @ \cup {Head(deque[w])}]
    /\ UNCHANGED loot

\* The n oldest of v's tasks go to w, at most half of them but at least one.
Steal(v, w, n) ==
    LET k == Len(deque[v]) - n
    IN  /\ deque[v] # <<>> /\ loot[w] = <<>>
        /\ n = 1 \/ 2 * n <= Len(deque[v])
        /\ loot' = [loot EXCEPT ![w] = SubSeq(deque[v], k + 1, Len(deque[v]))]
        /\ deque' = [deque EXCEPT ![v] = SubSeq(@, 1, k)]
        /\ UNCHANGED held

\* A single new task is sent to w: part of a loop that another worker runs.
Split(w, t) ==
    /\ t \notin Known
    /\ loot[w] = <<>>
    /\ loot' = [loot EXCEPT ![w] = <<t>>]
    /\ UNCHANGED <<deque, held>>

Receive(w) ==
    /\ loot[w] # <<>>
    /\ held' = [held EXCEPT ![w] = @ \cup {Head(loot[w])}]
    /\ deque' = [deque EXCEPT ![w] = Tail(loot[w]) \o @]
    /\ loot' = [loot EXCEPT ![w] = <<>>]

Done(w, t) ==
    /\ t \in held[w]
    /\ held' = [held EXCEPT ![w] = @ \ {t}]
    /\ UNCHANGED <<deque, loot>>

\* deque_delete removes what is left, task by task.
Discard(w) ==
    /\ deque[w] # <<>>
    /\ deque' = [deque EXCEPT ![w] = Tail(@)]
    /\ UNCHANGED <<loot, held>>

Next ==
    \E w \in Workers :
        \/ \E t \in Tasks : Push(w, t) \/ Split(w, t) \/ Done(w, t)
        \/ \E v \in Workers : \E n \in 1 .. Len(deque[v]) : Steal(v, w, n)
        \/ Pop(w) \/ Receive(w) \/ Discard(w)

Spec == Init /\ [][Next]_vars
=============================================================================
