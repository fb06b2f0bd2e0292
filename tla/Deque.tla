------------------------------- MODULE Deque --------------------------------
(***************************************************************************)
(* The deques of src/src/deque.c down to their pointers, as the workers of *)
(* runtime.c use them.  A deque is a doubly linked list that ends with a   *)
(* dummy task; the objects of finished tasks go to the free list of the    *)
(* worker that ran them, so that an object wanders from deque to deque and *)
(* is used again and again.                                                *)
(*                                                                         *)
(* Deques are private, but the tasks stolen from one are linked into       *)
(* another: next and prev are one memory for all workers.  The operations  *)
(* of deque.c are operators from memory to memory.                         *)
(***************************************************************************)
EXTENDS Integers, Sequences, FiniteSets

CONSTANTS
    W,          \* number of workers
    MaxTasks    \* bound: task objects that malloc provides

ASSUME DequeAssumption == W \in Nat \ {0} /\ MaxTasks \in Nat

Workers == 1 .. W
Tasks   == 1 .. MaxTasks

NULL == 0

\* The dummy task of w's deque
Dummy(w) == -w

Pointers == {NULL} \cup Tasks \cup {Dummy(w) : w \in Workers}

VARIABLES
    mem,        \* next and prev of all objects, and the deques' fields
    loot,       \* per worker: pointer to the first of the tasks sent to it
    held,       \* per worker: the tasks it is running
    allocated,  \* objects 1 .. allocated have been malloc'ed
    freed,      \* the objects that have been freed
    phase       \* per worker: running, or how far deque_delete has come

vars == <<mem, loot, held, allocated, freed, phase>>

-----------------------------------------------------------------------------
(* Lists *)

Minimum(S) == CHOOSE x \in S : \A y \in S : x <= y

\* The objects from o on, following link, before stop is reached
Path(link, o, stop) ==
    LET at[i \in 0 .. MaxTasks + 1] == IF i = 0 THEN o ELSE link[at[i - 1]]
        n == Minimum({i \in 0 .. MaxTasks + 1 : at[i] = stop} \cup {MaxTasks + 1})
    IN  [i \in 1 .. n |-> at[i - 1]]

\* Variant: the free list keeps the object.
freelist_pop_keep(m, w) == [m EXCEPT !.next[m.freelist[w]] = NULL]

freelist_pop(m, w) ==
    LET t == m.freelist[w]
    IN  [m EXCEPT !.freelist[w] = m.next[t], !.next[t] = NULL]

freelist_push(m, w, t) ==
    [m EXCEPT !.next[t] = m.freelist[w], !.freelist[w] = t]

\* task_zero, then freelist_push
deque_task_cache(m, w, t) ==
    freelist_push([m EXCEPT !.prev[t] = NULL], w, t)

deque_empty(m, w) == m.head[w] = m.tail[w] /\ m.num_tasks[w] = 0

deque_push(m, w, t) ==
    [m EXCEPT !.next[t] = m.head[w], !.prev[m.head[w]] = t,
              !.head[w] = t, !.num_tasks[w] = m.num_tasks[w] + 1]

\* Variant: the new head keeps its pointer to the old one.
deque_pop_stale(m, w) ==
    LET t == m.head[w]
    IN  [m EXCEPT !.head[w] = m.next[t], !.next[t] = NULL,
                  !.num_tasks[w] = m.num_tasks[w] - 1]

deque_pop(m, w) ==
    LET t == m.head[w]
    IN  [m EXCEPT !.head[w] = m.next[t], !.prev[m.next[t]] = NULL,
                  !.next[t] = NULL, !.num_tasks[w] = m.num_tasks[w] - 1]

\* deque_prepend(dq, h): walk to the end of the list, link it with the head.
deque_prepend(m, w, h) ==
    LET list == Path(m.next, h, NULL)
        last == list[Len(list)]
    IN  [m EXCEPT !.next[last] = m.head[w], !.prev[m.head[w]] = last,
                  !.head[w] = h, !.num_tasks[w] = m.num_tasks[w] + Len(list)]

\* From the dummy n steps back; the first of the tasks to steal
Back(m, w, n) ==
    LET at[i \in 0 .. n] == IF i = 0 THEN m.tail[w] ELSE m.prev[at[i - 1]]
    IN  at[n]

\* Variant: the head is not reset when the last task is stolen.
Unlink_keephead(m, w, n) ==
    LET t == Back(m, w, n)
        d == m.tail[w]
    IN  [m EXCEPT !.next[m.prev[d]] = NULL, !.next[m.prev[t]] = d,
                  !.prev[d] = m.prev[t], !.prev[t] = NULL,
                  !.num_tasks[w] = m.num_tasks[w] - n]

\* deque_steal, deque_steal_half and deque_steal_many, once n is known
Unlink(m, w, n) ==
    LET t == Back(m, w, n)
        d == m.tail[w]
        cut == [m EXCEPT !.next[m.prev[d]] = NULL, !.prev[d] = m.prev[t],
                         !.prev[t] = NULL, !.num_tasks[w] = m.num_tasks[w] - n]
    IN  IF m.prev[t] = NULL THEN [cut EXCEPT !.head[w] = d]
        ELSE [cut EXCEPT !.next[m.prev[t]] = d]

\* How many tasks deque_steal_many(dq, max, ..) steals; deque_steal takes one,
\* and deque_steal_half is not limited.
LootSize(m, w, max) ==
    LET half == IF m.num_tasks[w] \div 2 = 0 THEN 1 ELSE m.num_tasks[w] \div 2
    IN  IF half > max THEN max ELSE half

-----------------------------------------------------------------------------
(* What the workers do *)

\* RT_task_alloc: an object of the free list, or a new one
deque_task_new(w) ==
    IF mem.freelist[w] = NULL
    THEN [task |-> allocated + 1, mem |-> mem, allocated |-> allocated + 1]
    ELSE [task |-> mem.freelist[w], mem |-> freelist_pop(mem, w),
          allocated |-> allocated]

\* ASYNC and FUTURE: allocate a task and push it.
Push(w) ==
    LET new == deque_task_new(w)
    IN  /\ phase[w] = "run"
        /\ new.allocated <= MaxTasks
        /\ mem' = deque_push(new.mem, w, new.task)
        /\ allocated' = new.allocated
        /\ UNCHANGED <<loot, held, freed, phase>>

\* RT_pop.  deque_pop(dq, parent) does the same, or nothing.
Pop(w) ==
    /\ phase[w] = "run"
    /\ ~deque_empty(mem, w)
    /\ mem' = deque_pop(mem, w)
    /\ held' = [held EXCEPT ![w] = @ \cup {mem.head[w]}]
    /\ UNCHANGED <<loot, allocated, freed, phase>>

\* v answers a request of w, whose channel is empty.
Steal(v, w) ==
    /\ phase[v] = "run"
    /\ v # w /\ loot[w] = NULL
    /\ ~deque_empty(mem, v)
    /\ \E max \in 1 .. MaxTasks :
        LET n == LootSize(mem, v, max)
        IN  /\ loot' = [loot EXCEPT ![w] = Back(mem, v, n)]
            /\ mem' = Unlink(mem, v, n)
    /\ UNCHANGED <<held, allocated, freed, phase>>

\* split_loop: *dup = *task copies the links of the running task, too.
Split(v, w) ==
    LET new == deque_task_new(v)
        dup == new.task
    IN  /\ v # w /\ loot[w] = NULL
        /\ new.allocated <= MaxTasks
        /\ \E t \in held[v] :
            mem' = [new.mem EXCEPT !.next[dup] = mem.next[t],
                                   !.prev[dup] = mem.prev[t]]
        /\ loot' = [loot EXCEPT ![w] = dup]
        /\ allocated' = new.allocated
        /\ UNCHANGED <<held, freed, phase>>

\* if (task->next != NULL) task = deque_pop(deque_prepend(deque, task));
Receive(w) ==
    LET t == loot[w]
    IN  /\ t # NULL
        /\ mem' = IF mem.next[t] = NULL THEN mem
                  ELSE deque_pop(deque_prepend(mem, w, t), w)
        /\ held' = [held EXCEPT ![w] = @ \cup {t}]
        /\ loot' = [loot EXCEPT ![w] = NULL]
        /\ UNCHANGED <<allocated, freed, phase>>

\* The task has been run.
Done(w) ==
    \E t \in held[w] :
        /\ mem' = deque_task_cache(mem, w, t)
        /\ held' = [held EXCEPT ![w] = @ \ {t}]
        /\ UNCHANGED <<loot, allocated, freed, phase>>

\* All workers have left their scheduling loops (the barrier in tasking_exit).
Exit ==
    /\ \A w \in Workers : phase[w] = "run" /\ loot[w] = NULL /\ held[w] = {}
    /\ phase' = [w \in Workers |-> "delete"]
    /\ UNCHANGED <<mem, loot, held, allocated, freed>>

\* deque_delete: first the tasks that are left ...
DeleteTask(w) ==
    /\ phase[w] = "delete"
    /\ ~deque_empty(mem, w)
    /\ mem' = deque_pop(mem, w)
    /\ freed' = freed \cup {mem.head[w]}
    /\ UNCHANGED <<loot, held, allocated, phase>>

\* ... then the dummy ...
DeleteDummy(w) ==
    /\ phase[w] = "delete"
    /\ deque_empty(mem, w)
    /\ freed' = freed \cup {mem.head[w]}
    /\ phase' = [phase EXCEPT ![w] = "free"]
    /\ UNCHANGED <<mem, loot, held, allocated>>

\* ... then the free list.
DeleteFreelist(w) ==
    /\ phase[w] = "free"
    /\ mem.freelist[w] # NULL
    /\ mem' = freelist_pop(mem, w)
    /\ freed' = freed \cup {mem.freelist[w]}
    /\ UNCHANGED <<loot, held, allocated, phase>>

-----------------------------------------------------------------------------
\* deque_new; objects are zeroed when they are allocated.
Init ==
    /\ mem = [next |-> [o \in Pointers |-> NULL],
              prev |-> [o \in Pointers |-> NULL],
              head |-> [w \in Workers |-> Dummy(w)],
              tail |-> [w \in Workers |-> Dummy(w)],
              num_tasks |-> [w \in Workers |-> 0],
              freelist |-> [w \in Workers |-> NULL]]
    /\ loot = [w \in Workers |-> NULL]
    /\ held = [w \in Workers |-> {}]
    /\ allocated = 0
    /\ freed = {}
    /\ phase = [w \in Workers |-> "run"]

Terminated ==
    /\ \A w \in Workers : phase[w] = "free" /\ mem.freelist[w] = NULL
    /\ UNCHANGED vars

Next ==
    \/ \E w \in Workers : \/ Push(w) \/ Pop(w) \/ Receive(w) \/ Done(w)
                          \/ DeleteTask(w) \/ DeleteDummy(w) \/ DeleteFreelist(w)
    \/ \E v, w \in Workers : Steal(v, w) \/ Split(v, w)
    \/ Exit \/ Terminated

Spec == Init /\ [][Next]_vars

-----------------------------------------------------------------------------
(* Properties *)

\* The tasks in w's deque, in a list on its way, and in w's free list
Contents(w) == Path(mem.next, mem.head[w], mem.tail[w])
InTransit(w) == Path(mem.next, loot[w], NULL)
Free(w) == Path(mem.next, mem.freelist[w], NULL)

Reversed(s) == [i \in 1 .. Len(s) |-> s[Len(s) + 1 - i]]

Elements(s) == {s[i] : i \in 1 .. Len(s)}

\* Both directions of a deque show the same tasks, num_tasks of them, before the
\* dummy; a task that leaves a deque is linked to nothing, except the tasks
\* stolen together to each other; nothing is written through a null pointer.
WellLinked ==
    /\ \A w \in Workers : phase[w] # "free" =>
        /\ mem.num_tasks[w] = Len(Contents(w))
        /\ Path(mem.prev, mem.prev[mem.tail[w]], NULL) = Reversed(Contents(w))
        /\ mem.next[mem.tail[w]] = NULL
    /\ \A w \in Workers : loot[w] # NULL => mem.prev[loot[w]] = NULL
    /\ \A w \in Workers : \A t \in held[w] : mem.next[t] = NULL /\ mem.prev[t] = NULL
    /\ mem.next[NULL] = NULL /\ mem.prev[NULL] = NULL

\* Every task object is in one deque, list, free list or pair of hands: no list
\* runs into another one, no object is used twice, leaked or used when freed.
OneOwner ==
    LET places == [w \in Workers |->
                    Contents(w) \o InTransit(w) \o Free(w)]
        owned(w) == Elements(places[w]) \cup held[w]
    IN  /\ \A w \in Workers :
            /\ Cardinality(Elements(places[w])) = Len(places[w])
            /\ Elements(places[w]) \cap held[w] = {}
            /\ owned(w) \cap freed = {}
            /\ \A v \in Workers \ {w} : owned(v) \cap owned(w) = {}
        /\ (UNION {owned(w) : w \in Workers}) \cup (freed \cap Tasks) = 1 .. allocated

Abstract == INSTANCE DequeSpec WITH
                deque <- [w \in Workers |-> Contents(w)],
                loot <- [w \in Workers |-> InTransit(w)]

\* The linked lists implement sequences: push and pop at the front, steal the
\* oldest, at most half of them, and prepend them in the order they had.
ImplementsSequence == Abstract!Spec
=============================================================================
