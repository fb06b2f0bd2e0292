------------------------------- MODULE Loops --------------------------------
(***************************************************************************)
(* Splittable loops and their futures: ASYNC_FOR (async_internal.h), the   *)
(* splitting strategies and split_loop (runtime.c), lazily allocated       *)
(* futures and REDUCE (future_internal.h).                                 *)
(*                                                                         *)
(* The root task, on worker 1, creates loops with or without a future.  A  *)
(* loop answers a steal request with part of its iterations; if it has a   *)
(* future, the part gets one of its own, which the loop awaits in REDUCE.  *)
(* The result of a loop is taken to be the set of its iterations.          *)
(*                                                                         *)
(* Runtime shows how requests travel.  Here a worker that has asked for    *)
(* tasks is answered by any other at any point where that one handles      *)
(* requests.  Steal-one is modelled.                                       *)
(***************************************************************************)
EXTENDS Integers, Sequences, FiniteSets, Bags, Functions

CONSTANTS
    num_workers, MAXSTEAL,
    Strategies,     \* of "half", "guided", "adaptive": the builds considered
    Programs        \* bound: the sequences of loops <<lo, hi>> that the root
                    \* task creates

ASSUME LoopsAssumption ==
    /\ num_workers \in Nat \ {0, 1}
    /\ MAXSTEAL \in Nat \ {0}
    /\ Strategies \subseteq {"half", "guided", "adaptive"}
    /\ \A p \in Programs :
        /\ p \in Seq(Int \X Int)
        /\ \A l \in DOMAIN p : p[l][1] <= p[l][2]

Workers == 1 .. num_workers
Master  == 1

VARIABLES
    program,    \* the loops of the root task; never changes
    tasks,      \* the loop tasks; tasks[Root] is the root task
    futures,    \* the futures allocated, never removed
    deque,      \* per worker, most recent first
    stack,      \* per worker: the tasks on the C stack and where they are
    asked,      \* per worker: does it have a steal request underway?
    chan,       \* per worker: the task sent to it
    handles,    \* the futures the root task has still to await
    results,    \* per loop created: what AWAIT returned, if it has
    early,      \* the loops that were split before they ran
    executed    \* bag of <<loop, i>>: the iterations run

vars == <<program, tasks, futures, deque, stack, asked, chan, handles, results,
          early, executed>>

Root     == 1
NoTask   == 0
NoFuture == 0

-----------------------------------------------------------------------------
(* Arithmetic *)

labs(n) == IF n < 0 THEN -n ELSE n

AtLeastOne(n) == IF n < 1 THEN 1 ELSE n

\* Division in C truncates.
Quotient(a, b) == IF a < 0 THEN -((-a) \div b) ELSE a \div b

\* Iterations left, besides the one that is next
Left(t) == labs(t.end - t.cur)

\* Loop task with iterations left for splitting?
SPLITTABLE(t) == t.splittable /\ Left(t) > 1

split_half(t) == t.cur + Quotient(t.end - t.cur, 2)

split_guided(t) ==
    LET chunk == AtLeastOne(labs(t.end - t.start) \div num_workers)
    IN  IF Left(t) <= chunk THEN split_half(t) ELSE t.end - chunk

\* num_idle counts the requests in the worker's own channel and the one to be
\* answered; COUNT_REQ, for the idle subtrees, always adds 0.
split_adaptive(t, num_idle) ==
    LET chunk == AtLeastOne(Left(t) \div (num_idle + 1))
    IN  t.end - chunk

\* Where t may be split
SPLIT_FUNC(t) ==
    (IF "half" \in Strategies THEN {split_half(t)} ELSE {})
    \cup (IF "guided" \in Strategies THEN {split_guided(t)} ELSE {})
    \cup (IF "adaptive" \in Strategies
          THEN {split_adaptive(t, n) : n \in 1 .. MAXSTEAL * num_workers} ELSE {})

-----------------------------------------------------------------------------
(* Tasks and frames *)

NewTask(loop, lo, hi, f) ==
    [splittable |-> TRUE, loop |-> loop, start |-> lo, cur |-> lo, end |-> hi,
     i |-> lo, sum |-> {}, future |-> f, futures |-> <<>>, done |-> FALSE]

RootTask == [NewTask(0, 0, 0, NoFuture) EXCEPT !.splittable = FALSE]

\* FUTURE_ALLOC, and the future of a part, which has a channel from the start
FUTURE_ALLOC == [has_channel |-> FALSE, chan |-> <<>>, set |-> FALSE,
                 buf |-> {}, freed |-> FALSE]
PartFuture == [FUTURE_ALLOC EXCEPT !.has_channel = TRUE]

Frame(t, pc) == [task |-> t, pc |-> pc, future |-> NoFuture]

Depth(w) == Len(stack[w])
Top(w)   == stack[w][Depth(w)]
At(w, labels) == Depth(w) > 0 /\ Top(w).pc \in labels
Task(w)  == tasks[Top(w).task]

\* get_current_task() while w is in RT_pop: the task below the one popped
CurrentInPop(w) == stack[w][Depth(w) - 1].task

Goto(w, pc) == stack' = [stack EXCEPT ![w][Depth(w)].pc = pc]
Call(w, t, pc) == stack' = [stack EXCEPT ![w] = Append(@, Frame(t, pc))]

\* deque_pop(dq, get_current_task()): all tasks are children of the root task.
CanPop(w) == deque[w] # <<>> /\ Top(w).task = Root

Idle(w) == Depth(w) = 0

\* w is in a loop on RECV_TASK.
Stealing(w) == Idle(w) \/ (At(w, {"await", "barrier"}) /\ ~CanPop(w))

-----------------------------------------------------------------------------
(* Futures *)

\* Variants: the future of a stolen task stays on the stack of its creator; the
\* channel is not looked at.
FUTURE_CONVERT_none(f) == f

READY_set(f) == f.set

\* The task is about to be sent to another worker.
FUTURE_CONVERT(f) == [f EXCEPT !.has_channel = TRUE]

\* channel_send fails if the channel is full; the result is ignored.
FUTURE_SET(f, v) ==
    IF ~f.has_channel THEN [f EXCEPT !.buf = v, !.set = TRUE]
    ELSE IF f.chan = <<>> THEN [f EXCEPT !.chan = <<v>>] ELSE f

READY(f) == (f.has_channel /\ f.chan # <<>>) \/ f.set

ResultOf(f) == IF f.has_channel THEN f.chan[1] ELSE f.buf

-----------------------------------------------------------------------------
(* The root task's program *)

\* ASYNC with bounds, or FUTURE with bounds
Create(with_future) ==
    LET l == Len(results) + 1
        f == IF with_future THEN Len(futures) + 1 ELSE NoFuture
        t == NewTask(l, program[l][1], program[l][2], f)
    IN  /\ At(Master, {"user"})
        /\ l \in DOMAIN program
        /\ results' = Append(results, <<>>)
        /\ tasks' = Append(tasks, t)
        /\ deque' = [deque EXCEPT ![Master] = <<Len(tasks) + 1>> \o @]
        /\ IF with_future
           THEN /\ futures' = Append(futures, FUTURE_ALLOC)
                /\ handles' = handles \cup {f}
           ELSE UNCHANGED <<futures, handles>>
        /\ UNCHANGED <<program, stack, asked, chan, early, executed>>

\* AWAIT
Await(f) ==
    /\ At(Master, {"user"})
    /\ f \in handles
    /\ handles' = handles \ {f}
    /\ stack' = [stack EXCEPT ![Master][Depth(Master)] =
                    [@ EXCEPT !.pc = "await", !.future = f]]
    /\ UNCHANGED <<program, tasks, futures, deque, asked, chan, results, early,
                   executed>>

\* TASKING_BARRIER; see Runtime for how termination is detected.
EnterBarrier ==
    /\ At(Master, {"user"})
    /\ \E t \in 2 .. Len(tasks) : ~tasks[t].done
    /\ Goto(Master, "barrier")
    /\ UNCHANGED <<program, tasks, futures, deque, asked, chan, handles,
                   results,
                   early, executed>>

LeaveBarrier ==
    /\ At(Master, {"barrier"})
    /\ \A t \in 2 .. Len(tasks) : tasks[t].done
    /\ Goto(Master, "user")
    /\ UNCHANGED <<program, tasks, futures, deque, asked, chan, handles,
                   results,
                   early, executed>>

-----------------------------------------------------------------------------
(* Scheduling *)

\* RT_pop, in RT_force_future and RT_barrier; a future set by the worker itself
\* is noticed before the next pop.
Pop(w) ==
    /\ At(w, {"await", "barrier"})
    /\ Top(w).pc = "await" => ~futures[Top(w).future].set
    /\ CanPop(w)
    /\ Call(w, Head(deque[w]), "popped")
    /\ deque' = [deque EXCEPT ![w] = Tail(@)]
    /\ UNCHANGED <<program, tasks, futures, asked, chan, handles, results,
                   early, executed>>

\* try_send_steal_request
Ask(w) ==
    /\ Stealing(w)
    /\ ~asked[w]
    /\ asked' = [asked EXCEPT ![w] = TRUE]
    /\ UNCHANGED <<program, tasks, futures, deque, stack, chan, handles,
                   results,
                   early, executed>>

\* RECV_TASK, then run_task
Receive(w) ==
    /\ Stealing(w)
    /\ chan[w] # NoTask
    /\ Call(w, chan[w], "received")
    /\ chan' = [chan EXCEPT ![w] = NoTask]
    /\ asked' = [asked EXCEPT ![w] = FALSE]
    /\ UNCHANGED <<program, tasks, futures, deque, handles, results, early,
                   executed>>

\* v may answer a request of w.
MayAnswer(v, w) == v # w /\ asked[w] /\ chan[w] = NoTask

\* handle_steal_request, called from RT_push, RT_pop, RT_poll and
\* RT_force_future: send the oldest task.
handle_steal_request(v, w) ==
    LET t == deque[v][Len(deque[v])]
        f == tasks[t].future
    IN  /\ MayAnswer(v, w)
        /\ At(v, {"user", "popped", "test", "poll", "await"})
        /\ Top(v).pc = "test" => Task(v).i < Task(v).end
        /\ deque[v] # <<>>
        /\ deque' = [deque EXCEPT ![v] = SubSeq(@, 1, Len(@) - 1)]
        /\ chan' = [chan EXCEPT ![w] = t]
        /\ futures' = IF f = NoFuture THEN futures
                      ELSE [futures EXCEPT ![f] = FUTURE_CONVERT(@)]
        /\ UNCHANGED <<program, tasks, stack, asked, handles, results, early,
                       executed>>

\* Variant: the task keeps the iterations it has given away.
Lower_keep(t, split) == t

\* Current task continues with lower half of iterations ...
Lower(t, split) == [t EXCEPT !.end = split]

\* Variant: the part is not given a future of its own.
Upper_shared(t, split, f) ==
    [t EXCEPT !.start = split, !.cur = split, !.futures = <<>>, !.sum = {}]

\* ... and the new task gets the upper half, with a future for its result, which
\* is a local variable of the task's function and not copied.
Upper(t, split, f) ==
    [t EXCEPT !.start = split, !.cur = split, !.future = f, !.futures = <<>>,
              !.sum = {}]

\* Variant: p->next is not set.
AddFuture_only(f, list) == IF f = NoFuture THEN list ELSE <<f>>

\* p->next = futures, futures = p
AddFuture(f, list) == IF f = NoFuture THEN list ELSE <<f>> \o list

\* split_loop(task, req), task being number t: the new future goes to the list
\* of the current task.
split_loop(v, w, task, t, current) ==
    LET part == Len(tasks) + 1
        f    == IF task.future = NoFuture THEN NoFuture ELSE Len(futures) + 1
    IN  \E split \in SPLIT_FUNC(task) :
        /\ tasks' = Append([[tasks EXCEPT ![t] = Lower(task, split)]
                                EXCEPT ![current].futures = AddFuture(f, @)],
                           Upper(task, split, f))
        /\ futures' = IF f = NoFuture THEN futures
                      ELSE Append(futures, PartFuture)
        /\ chan' = [chan EXCEPT ![w] = part]

\* Iterations from t.i to j - 1 have been run: i and cur have been moved.
Ran(t, j) == [t EXCEPT !.i = j, !.cur = @ + (j - t.i),
                       !.sum = @ \cup {<<t.loop, i>> : i \in t.i .. j - 1}]

Iterations(t, j) == SetToBag({<<t.loop, i>> : i \in t.i .. j - 1})

\* The loop runs some iterations, up to a POLL() that finds a request: handle.
\* (At "test" the current iteration is the first since the loop began.)
SplitInPoll(v, w) ==
    LET t == Top(v).task
    IN  /\ MayAnswer(v, w)
        /\ At(v, {"test", "poll"})
        /\ deque[v] = <<>>
        /\ \E j \in tasks[t].i .. tasks[t].end :
            /\ Top(v).pc = "test" => j > tasks[t].i
            /\ SPLITTABLE(Ran(tasks[t], j))
            /\ split_loop(v, w, Ran(tasks[t], j), t, t)
            /\ executed' = executed (+) Iterations(tasks[t], j)
        /\ Goto(v, "poll")
        /\ UNCHANGED <<program, deque, asked, handles, results, early>>

\* "If we just popped a loop task, we may split right here"
SplitInPop(v, w) ==
    /\ MayAnswer(v, w)
    /\ At(v, {"popped"})
    /\ deque[v] = <<>>
    /\ SPLITTABLE(Task(v))
    /\ split_loop(v, w, Task(v), Top(v).task, CurrentInPop(v))
    /\ early' = early \cup {Task(v).loop}
    /\ UNCHANGED <<program, deque, stack, asked, handles, results, executed>>

-----------------------------------------------------------------------------
(* Running a loop *)

\* ASYNC_FOR: i = start, cur++
Start(w) ==
    LET t == Top(w).task
    IN  /\ At(w, {"popped", "received"})
        /\ tasks[t].start = tasks[t].cur
        /\ tasks' = [tasks EXCEPT ![t].i = tasks[t].start, ![t].cur = @ + 1]
        /\ Goto(w, "test")
        /\ UNCHANGED <<program, futures, deque, asked, chan, handles, results,
                       early, executed>>

\* The remaining iterations: the body, then i++, cur++, POLL()
Leave(w) ==
    LET t == Top(w).task
        j == IF tasks[t].i < tasks[t].end THEN tasks[t].end ELSE tasks[t].i
    IN  /\ At(w, {"test", "poll"})
        /\ tasks' = [tasks EXCEPT ![t] = Ran(@, j)]
        /\ executed' = executed (+) Iterations(tasks[t], j)
        /\ Goto(w, "reduce")
        /\ UNCHANGED <<program, futures, deque, asked, chan, handles, results,
                       early>>

\* REDUCE: take the first future off the list and await it ...
REDUCE(w) ==
    LET t == Top(w).task
    IN  /\ At(w, {"reduce"})
        /\ tasks[t].futures # <<>>
        /\ tasks' = [tasks EXCEPT ![t].futures = Tail(@)]
        /\ stack' = [stack EXCEPT ![w][Depth(w)] =
                        [@ EXCEPT !.pc = "await",
                                  !.future = Head(tasks[t].futures)]]
        /\ UNCHANGED <<program, futures, deque, asked, chan, handles, results,
                       early, executed>>

\* ... RT_force_future returns; the channel is freed, and a part's future, too.
AwaitReturn(w) ==
    LET f == Top(w).future
        v == ResultOf(futures[f])
        l == CHOOSE k \in 1 .. Len(results) :
                \E t \in DOMAIN tasks : tasks[t].loop = k /\ tasks[t].future = f
    IN  /\ At(w, {"await"})
        /\ READY(futures[f])
        /\ futures' = [futures EXCEPT ![f].freed = TRUE, ![f].chan = <<>>]
        /\ IF Top(w).task = Root
           THEN /\ results' = [results EXCEPT ![l] = <<v>>]
                /\ UNCHANGED tasks
           ELSE /\ tasks' = [tasks EXCEPT ![Top(w).task].sum = @ \cup v]
                /\ UNCHANGED results
        /\ stack' = [stack EXCEPT ![w][Depth(w)] =
                        Frame(@.task, IF @.task = Root THEN "user" ELSE "reduce")]
        /\ UNCHANGED <<program, deque, asked, chan, handles, early, executed>>

\* The task's function returns: FUTURE_SET, deque_task_cache.
Return(w) ==
    LET t == Top(w).task
        f == tasks[t].future
    IN  /\ At(w, {"reduce"})
        /\ tasks[t].futures = <<>>
        /\ futures' = IF f = NoFuture THEN futures
                      ELSE [futures EXCEPT ![f] = FUTURE_SET(@, tasks[t].sum)]
        /\ tasks' = [tasks EXCEPT ![t].done = TRUE]
        /\ stack' = [stack EXCEPT ![w] = SubSeq(@, 1, Len(@) - 1)]
        /\ UNCHANGED <<program, deque, asked, chan, handles, results, early,
                       executed>>

-----------------------------------------------------------------------------
Init ==
    /\ program \in Programs
    /\ tasks = <<RootTask>>
    /\ futures = <<>>
    /\ deque = [w \in Workers |-> <<>>]
    /\ stack = [w \in Workers |->
                    IF w = Master THEN <<Frame(Root, "user")>> ELSE <<>>]
    /\ asked = [w \in Workers |-> FALSE]
    /\ chan = [w \in Workers |-> NoTask]
    /\ handles = {}
    /\ results = <<>>
    /\ early = {}
    /\ executed = EmptyBag

Finished ==
    /\ At(Master, {"user"})
    /\ Len(results) = Len(program) /\ handles = {}
    /\ \A t \in 2 .. Len(tasks) : tasks[t].done

Terminated == Finished /\ UNCHANGED vars

Run(w) ==
    \/ Pop(w) \/ Ask(w) \/ Receive(w) \/ Start(w) \/ Leave(w)
    \/ REDUCE(w) \/ AwaitReturn(w) \/ Return(w)

Next ==
    \/ \E with_future \in BOOLEAN : Create(with_future)
    \/ \E f \in handles : Await(f)
    \/ EnterBarrier \/ LeaveBarrier
    \/ \E w \in Workers : Run(w)
    \/ \E v, w \in Workers : \/ handle_steal_request(v, w)
                             \/ SplitInPoll(v, w) \/ SplitInPop(v, w)
    \/ Terminated

Spec == Init /\ [][Next]_vars

\* Threads keep running.
FairSpec == Spec /\ \A w \in Workers : WF_vars(Run(w))

-----------------------------------------------------------------------------
(* Properties *)

LoopRange(l) == {<<l, i>> : i \in program[l][1] .. program[l][2] - 1}

\* The iterations that t has still to run
Rest(t) ==
    LET r == tasks[t]
        from == IF \E w \in Workers : \E d \in 1 .. Depth(w) :
                    /\ stack[w][d].task = t
                    /\ stack[w][d].pc \notin {"popped", "received"}
                THEN r.i ELSE r.start
    IN  IF r.done THEN {} ELSE {<<r.loop, i>> : i \in from .. r.end - 1}

\* Whatever the strategy and however often parts are split again: an iteration
\* of a loop has been run once, or it is left to exactly one part, and nothing
\* else is ever run.
IterationsOnce ==
    LET parts == 2 .. Len(tasks)
        range == UNION {LoopRange(l) : l \in 1 .. Len(results)}
        left  == UNION {Rest(t) : t \in parts}
    IN  /\ \A it \in DOMAIN executed : executed[it] = 1
        /\ \A t, u \in parts : t # u => Rest(t) \cap Rest(u) = {}
        /\ DOMAIN executed \cap left = {}
        /\ DOMAIN executed \cup left = range

\* What AWAIT has returned for loop l, if it has, is the result of all of its
\* iterations.
Complete(l) == results[l] \in {<<>>, <<LoopRange(l)>>}

\* AWAIT of a loop returns the result of all of its iterations, REDUCE having
\* collected those of the parts, unless the loop was split before it ran: then
\* the future of the part is on the list of the task that popped the loop.
ResultComplete == \A l \in 1 .. Len(results) : l \in early \/ Complete(l)

\* Without exception, as the test suite has it: assert(AWAIT(f5, long) == N)
ResultAlwaysComplete == \A l \in 1 .. Len(results) : Complete(l)

\* The futures on the root task's list: only loops reduce their lists, so that
\* nobody awaits them.
Orphans == Range(tasks[Root].futures)

\* Who will await f: the root task, REDUCE in a loop with f on its list, or a
\* frame that does
Awaiters(f) ==
    {<<"handle", 0>> : h \in handles \cap {f}}
    \cup {<<"list", t>> : t \in {u \in DOMAIN tasks \ {Root} :
                            f \in Range(tasks[u].futures)}}
    \cup {<<"frame", w>> : w \in {u \in Workers : \E d \in 1 .. Depth(u) :
                            stack[u][d].pc = "await" /\ stack[u][d].future = f}}

\* A future has one task that sets it and one place where it is awaited, until
\* the result has been taken: no result is overwritten or dropped by an
\* unchecked channel_send, and no future is used when it has been freed.  Only
\* parts of loops that were split before they ran have futures that nobody
\* awaits.
FutureProtocol ==
    \A f \in 1 .. Len(futures) :
        LET setters == {t \in 2 .. Len(tasks) : tasks[t].future = f}
        IN  /\ Cardinality(setters) = 1
            /\ Cardinality(Awaiters(f)) =
                IF futures[f].freed \/ f \in Orphans THEN 0 ELSE 1
            /\ \A t \in setters :
                /\ tasks[t].done <=> futures[f].freed \/ READY(futures[f])
                /\ f \in Orphans => tasks[t].loop \in early

\* A future without a channel lives on the stack of the task that awaits it:
\* whoever sets it without synchronisation is the same thread.
SetAtHome ==
    \A t \in 2 .. Len(tasks) :
        LET f == tasks[t].future
        IN  f # NoFuture /\ ~tasks[t].done =>
            \/ futures[f].has_channel
            \/ t \in Range(deque[Master])
            \/ \E d \in 1 .. Depth(Master) : stack[Master][d].task = t

\* AWAIT of a loop returns, although REDUCE waits for parts that other workers
\* run on top of loops they have not finished either.
LoopEnds == At(Master, {"await", "popped", "received", "test", "poll", "reduce"})
                ~> At(Master, {"user", "barrier"})
=============================================================================
