# Verification of the tasking-2.0 runtime

A TLA+ development of the task-parallel runtime in `src/`: a work-stealing
scheduler whose threads share nothing but channels. The modules model the
scheduler's protocol, the channels, the task deques, splittable loops and their
futures, the start and shutdown of threads with the life of their channels, and
the bit operations and walks by which requests find their way; TLC checks them
on small instances, and TLAPS proves nearly all of the safety properties for every
instance.

Contents: [the system](#the-system), [the modules](#the-modules),
[runs](#runs), [bounds](#bounds), [fairness](#fairness), [proofs](#proofs),
[findings](#findings), [what is left out](#what-is-left-out), [plan](#plan).

## The system

| Component | State | Operations |
|---|---|---|
| **Scheduler** (`src/src/runtime.c`, `tasking.c`) | per worker: deque, `requested`, `channel_stack`, `dropped_steal_requests`, the queue of work-sharing requests, `tree` flags, `tasking_finished`; master: `quiescent` | `RT_push`, `RT_pop`, `RT_poll`, `RT_force_future`, `RT_barrier`, `schedule`, `try_send_steal_request`, `decline_steal_request`, `handle_steal_request`, `split_loop`, `share_work`, `WAIT`/`SIGNAL`, `RT_EXIT_FN` |
| **Worker tree** (`worker_tree.h`) | children, parent, idle flags | `left_child`, `right_child`, `parent`; the walks `mark_as_idle`, `RECV_REQ`, `PEEK_REQ`, `COUNT_REQ` |
| **Channels** (`channel_shm/channel.c`) | ring buffer, `head`, `tail`, `closed`, two locks | `channel_send`, `channel_receive`, `channel_peek`, `channel_close`, `channel_open`, `channel_range` for MPMC, MPSC, SPSC, buffered or not |
| **Task deque** (`deque.c`) | doubly linked list with a dummy, free list | push, pop, steal, steal half, steal many, prepend, cache, delete |
| **Bounded stack and queue** (`bounded_stack.h`, `bounded_queue.h`) | array with an index; ring | push, pop; enqueue, dequeue, head |
| **Asyncs and loops** (`async_internal.h`) | a task's `start`, `cur`, `end` | `ASYNC`, `ASYNC_FOR`, three splitting strategies |
| **Futures** (`future_internal.h`) | a channel per future, or a lazily allocated one; lists of futures of split loops | `FUTURE`, `AWAIT`, `REDUCE` |
| **Victims** (`bit.h`, `runtime.c`) | a request's set of victims, one bit per worker | `BIT_MASK_32`, `count_one_bits`, ...; `random_victim`, `next_victim` |
| **Threads** (`tasking.c`) | the global barrier, pointers to every worker's channels | `tasking_init`, `worker_entry_fn`, `RT_init`, `RT_exit`, `tasking_exit` |
| **Channel cache** (`channel.c`, `-DCHANNEL_CACHE`) | per thread, a free list for every type of channel | `channel_alloc`, `channel_free`, `channel_cache_alloc`, `channel_cache_free` |

**How they interact.** Every worker has one MPSC channel for steal requests and
`MAXSTEAL` SPSC channels for tasks. A worker without tasks sends a steal
request, which carries the worker's identity and one of its task channels. The
receiver answers with tasks from its deque, or part of the loop it is running,
or passes the request on to a worker that has not seen it. After `n - 1`
attempts the request returns. If the thief's subtree is idle as well, it changes
the request to `STATE_FAILED`, sends it to its parent and waits on a condition
variable. The parent keeps the request as a *lifeline* until it has tasks to
share; meanwhile it answers requests sent to the workers of that subtree in
their stead. When the master gets its own request back and both subtrees are
idle, the computation has terminated. At shutdown a pseudo-task `RT_EXIT_FN`
travels down the tree, unasked.

A loop is a task that gives away part of its iterations when it polls and finds
a request and its worker has no other task. If it has a future, the part gets
one, too, and the loop awaits it in `REDUCE`. A future is a flag and a buffer on
its creator's stack until its task is sent to another worker; then it is
converted to a channel, which its creator allocates and frees, perhaps from its
cache, and the other worker sends the result over it.

**What is hard.** Termination is inferred from private flags and requests while
tasks are underway. The right to write to a task channel is passed around as
part of a request, and the result of `channel_send` is ignored when it is used.
The counters of requests are adjusted in six places. A parent reads its idle
children's channels without a lock while these may wake up. A worker goes to
sleep while tasks are being sent to it. `AWAIT` runs other tasks on top of the
awaiting one, and nests the loops of the scheduler. Channels are checked without
a lock, with two reads of two indices. Task objects wander from deque to deque
and are recycled; so are channels, through caches, without being reset. The
bounds of a loop change while it runs, and with them the parts that may be given
away. Threads use each other's channels without asking whether they exist yet,
or still. `PROJECT.json` lists these as hazards with the lines where
they bite and the properties that catch them.

**What makes each part correct.** Scheduler: no task is lost, duplicated or run
twice; termination is detected only when all work is done, and then it is; a
task channel is free when it is written; every assertion about requests and
flags holds; barriers and `AWAIT` end, unless a worker relays requests for ever
(finding 2); shutdown ends; no wakeup is lost. Tree: the loops over a subtree and
the recursion over it agree. Channel: it is a bounded FIFO queue, whatever the
interleaving; `channel_range` drains it. Deque: it is a sequence; objects have
one owner. Loops: every iteration is run once, and a loop's result is that of all
its parts, unless `RT_pop` split it before it ran (finding 3). Futures: set once,
awaited at most once, without a race. Threads: channels are used while they
exist, and freed once, except for those of futures that nobody awaits (finding
5), which are not freed.

## The modules

| Module | Models |
|---|---|
| `WorkerTree` | the binary tree of workers |
| `Runtime` | the scheduler |
| `RuntimeProperties` | the properties of `Runtime` |
| `MCRuntime` | constants for TLC |
| `RuntimeProofs` | theorems about `Runtime`: types and control flow; idle workers have no tasks |
| `RuntimeTaskProofs` | theorems about `Runtime`: one right per task channel, the counters of requests, where tasks wait and where they run |
| `RuntimeTerminationProofs` | theorems about `Runtime`: who backs off and who answers for whom, termination, shutdown, and what follows from all of these |
| `ChannelSpec` | what a channel promises: a bounded FIFO queue |
| `Channel`, `MCChannel` | the implementations, shown to refine `ChannelSpec` |
| `ChannelProofs` | theorems about `Channel`: exclusive copies, the refinement |
| `DequeSpec` | deques as sequences, as `Runtime` uses them |
| `Deque` | the linked lists and free lists, shown to refine `DequeSpec` |
| `DequeProofs` | theorems about `Deque`: lists, owners, the refinement |
| `SubtreeScan` | the walks over subtrees, iteration by iteration |
| `SubtreeScanProofs` | theorems about `SubtreeScan`: the walks cover the subtree |
| `Victims` | sets of victims as bit masks, and the choice of the next one |
| `Loops`, `MCLoops` | loops, splitting, lazily allocated futures, `REDUCE` |
| `LoopsProofs` | theorems about `Loops`: iterations, futures, results |
| `Lifecycle` | start and shutdown, allocation, caching and release of channels |
| `LifecycleProofs` | theorems about `Lifecycle`: channels are used while they exist, and freed once |

Operators whose comment begins with *Variant* are plausible mistakes. Nothing
uses them; each property is known to fail when the definition after a variant is
replaced by it (`mutants` in `PROJECT.json`).

### Runtime

The build modelled is the default one: `BACKOFF=wait_cond`, `STEAL_EARLY` with
threshold 0. `MAXSTEAL`, steal-one, steal-half and adaptive stealing are
parameters.

*State.* The private variables of `runtime.c` have their names and a worker
index. `deque` and the contents of task channels are sequences of task numbers,
most recent first. `tasks` records, for every task created, its parent, the
iterations left (`end - cur`) and whether it has been run. A frame of `stack` is
a task on the C stack and where its function is: in the user's code, in a
barrier, or in the first (pop children) or second (steal) loop of
`RT_force_future`. `pc` is the position in the runtime's code and `op` the
routine it belongs to, because `share_work` and the loop
`while (RECV_REQ(&req)) ...` occur in several. `idle[w]` is the set of children
whose flag is set; a missing child counts as idle, as in `worker_tree_init`. A
worker holds its backoff lock exactly while `pc` is `waitpeek` or `presleep`.

| `pc` | Where the worker is |
|---|---|
| `body` | in the user's code |
| `pop` | about to call `RT_pop` |
| `share`, `signal` | in `share_work`, before a send and before a `SIGNAL` |
| `serve`, `behalf` | in `RECV_REQ`: own channel; channels of idle subtrees |
| `idle` | out of tasks, before `try_send_steal_request` |
| `recv`, `resend` | in the loop on `RECV_TASK` |
| `ready` | testing `READY` in `RT_force_future` |
| `waitpeek`, `presleep`, `asleep`, `woken` | in `WAIT` |
| `leave` | returning from a barrier |
| `exit`, `exitsignal`, `finished` | in and after `RT_EXIT_FN` |

*Steps.* A step does at most one thing that another worker can see. The
exception is the receipt of a request followed by one send: only one worker at a
time receives from a channel (`SingleConsumer`, checked), so the receipt
commutes with other workers' steps until the send. The channels are atomic
queues here; `Channel` justifies that. Reading several channels in one step is
allowed where the order cannot matter: `RECV_TASK` looks at its `MAXSTEAL`
channels one after the other, and the model takes any one that holds tasks;
`PEEK_REQ` decides only whether `RT_poll` enters a loop that looks again.

*Choices.* Random victims are any victims (this covers `STEAL_LASTVICTIM` and
`STEAL_LASTTHIEF`, too); a split leaves any number of iterations on both sides;
the adaptive choice between steal-one and steal-half is free. `pthread_cond_wait`
may return spuriously. The sets of victims are sets, not the 32-bit masks of the
code. Assertions of the bounded stack and queue are guards, so that a violated
one shows up as a deadlock.

*The program.* A running task may spawn tasks and loops, await a child, poll and
return; the root task may enter barriers and shut down after one. `Strict`
restricts it to fork-join programs: a task awaits its children before it
returns, and loops, which have no future to await, are created by the root task.

### Channel

Threads run the whole of `channel_send`, and receivers `channel_range` around
`channel_receive`. The unlocked check reads `head` and `tail` in two steps, in
either order, because the compiler may choose. Taking a lock and checking again
is one step: the lock excludes the same end of the channel, and the other end
can only make the check succeed. Copying an item is a step of its own between
lock and index update, so that overlapping copies are visible. The variable
`use` holds the fields fixed by `channel_alloc` and what the program promises:
one producer or consumer at a time for MPSC and SPSC, and, for `credits`, no
more items underway than there are slots. Items are numbered, so that the queue
refined is one of distinct items: a lost, duplicated or reordered one is seen.
The state, buffered or not, refines `ChannelSpec` with `queue` read off the ring.
`MCChannel` lists the six uses that one run goes through, those of the runtime
among them.

### Deque

Operations of `deque.c` are operators from memory to memory; `next` and `prev`
are shared by all workers, as tasks are linked into another worker's list after
they are stolen. Object 0 is the null pointer, and what is written through it is
checked to stay null. `deque_delete` goes step by step. The field `parent`, used
by `deque_pop(dq, parent)`, is left out; `CanPop` in `Runtime` has the condition.

### SubtreeScan

Runs the loops of `RECV_REQ(req, worker, lvl)`, `PEEK_REQ` and `COUNT_REQ` for
every number of workers, start and set of waiting requests. `Runtime` relies on
the result: it uses `Subtree` of `WorkerTree`.

### Victims

Extends `SubtreeScan` by the operations of `bit.h` on words whose width is the
greatest number of workers, as in the code (`MAXWORKERS` is 32, the width of
`unsigned int`), and by `random_victim` and `next_victim` on words. A shift by
the width of the word is undefined in C; `BIT` does what x86-64 does and takes the
count modulo the width, so that the full word depends on the guard in
`BIT_MASK_32`. Its
properties compare them with sets, in the states that `SubtreeScan` starts from:
all numbers of workers, workers and sets. They justify the sets of `Runtime`.

### Loops

The root task, on worker 1, runs one of the given sequences of loops: it creates
them with `ASYNC` or `FUTURE`, and awaits futures and enters barriers in any
order. A task has the fields `start`, `cur` and `end` of the code, the loop
variable `i`, the list of futures of its parts, and its result so far, which is
the set of its iterations: the finest result a reduction could have. `executed`
counts iterations. A frame of `stack` is a task on a worker's C stack; `await`
frames run other tasks on top of them, as `RT_force_future` does.

Between two points where something can be observed a loop is sequential, so that
iterations up to a `POLL()` that finds a request are run in the step that
handles it (`SplitInPoll`), and the rest in the step that leaves the loop
(`Leave`). `cur` is one ahead of `i`, since `POLL()` comes before the body. Where
a loop is split is the arithmetic of `split_half`, `split_guided` and
`split_adaptive`, the last for every number of idle workers that it may be given:
the requests in the worker's own channel and the one being answered, at most
`MAXSTEAL * num_workers` (`COUNT_REQ` adds 0, see finding 6). How a request
travels is left to `Runtime`: any worker that handles requests may answer any
that has asked. `split_loop` puts the future of the part on the list of the
*current* task, which is the loop in `RT_poll` and the task below it in `RT_pop`;
`early` records the loops split there. If that task is the root task, nobody
reads its list: the futures on it (`Orphans`) are set and not awaited (see
[findings](#findings)). Futures are the lazily allocated ones of the default
build; steal-one is modelled.

### Lifecycle

The threads from `tasking_init` to `tasking_exit`, twice in a row. A thread is
created while the earlier ones run already; it allocates its channels, comes to
the global barrier and runs until `RT_EXIT_FN` reaches it; two more barriers
(the first one of them in `worker_entry_fn`, the second one in
`tasking_statistics`) separate that from `RT_exit`. The barrier, which is
external, has the usual implementation with a sense that flips, so that a fast
thread may arrive at the next barrier before a slow one has left the last.

Channels are identified by the thread that allocated them and a number. What
`channel_alloc` and `channel_free` do, with a cache (capacity 1) and without
(0), are operators on a thread's view of the memory. While all workers run,
futures are converted, set in two steps and forced; a channel from a cache keeps
the index and the buffer it had. Nothing makes a program await its futures: the
master shuts down when all tasks are done, that is when all futures are set. One
that is not awaited keeps its channel, and may be awaited in a later run, or
never. There is one kind of futures here. In the code, those of tasks and those
of parts of loops may differ in the size of an item; the cache then has a free
list for each size, and no operation touches two of them, so that the module
describes the life of either. `malloc` succeeds.

## Runs

Distinct states and times are those of one machine with two workers.

| Run | Shows | States |
|---|---|---|
| `runtime_tree` | three workers, one task besides the root, where requests are passed on, children sleep and are woken by tasks, and lifelines may be served late: idle subtrees have backed off, parent and child never read one channel at the same time, assertions hold, termination is sound, and detected unless somebody relays requests for ever; clean exit | 299,200; 90 s |
| `runtime_loops` | two workers, `MAXSTEAL` 2, steal-half, polling, loops of three iterations: one token per channel, the books on requests, termination, no task lost or run twice | 1,380,951; 70 s |
| `runtime_live` | two workers, fork-join programs with three tasks besides the root: `AWAIT` returns and every task runs, unless somebody relays requests for ever; no lost wakeup, shutdown ends | 117,271; 70 s |
| `runtime_await` | *violation*, see finding 1 | |
| `runtime_relay` | *violation*, see finding 2 | |
| `channels` | six uses of channels: MPMC with two receivers, the runtime's, unbuffered ones; safety and liveness | 210,506; 50 s |
| `channel_blocked` | *violation*, see finding 4 | |
| `deque_lists` | two workers, four task objects | 9,823; 20 s |
| `subtree_scan` | trees of up to nine workers, words of nine bits | 106,175; 12 s |
| `loops` | three workers, three programs of loops, all three strategies; safety and liveness | 412,000; 105 s |
| `loops_partial` | *violation*, see finding 3 | |
| `lifecycle` | three workers started and shut down twice, two futures, awaited or not, with and without caches; safety and liveness | 68,227; 120 s |

What the main properties say:

* `TerminationSound`: when `quiescent` is set, every task is done and every
  other worker has backed off (waits, with empty deque, hands and channels).
* `IdleSubtreesBackedOff`: a child flagged idle has its lifeline here, and its
  whole subtree has backed off. This makes it safe to skip it as a victim and to
  answer for it.
* `OneTokenPerChannel`: the right to use a task channel is in exactly one place:
  on its owner's stack of free channels, in a request, in a lifeline, or spent
  for the tasks in the channel. Unchecked sends rely on it.
* `RequestsAccounted`: `requested` equals channels in use plus dropped requests.
* `RequestAssertions`, `SingleConsumer`, `CleanExit`, `IdleWorkersHaveNoTasks`:
  what the code asserts or takes for granted.
* `NoTaskLost`, `ExecutedOnce`: a task not yet run is in exactly one place.
* `BarrierReturnsUnlessFlooded`, `AwaitReturns`, `EveryTaskRuns`: progress, except
  in behaviours where some worker is `Flooded`, that is comes to
  `while (RECV_REQ(&req)) ...` again and again and, from some time on, finds a
  request in its own channel each time it looks. Without the exception,
  `BarrierReturns` is violated (`runtime_relay`). `NoLostWakeup` and
  `ExitReachesAll` need none.
* `SlotsExclusive`, `ImplementsFifo`, `RangeDrains`, `RangeEnds`, `SendEnds`:
  channels.
* `WellLinked`, `OneOwner`, `ImplementsSequence`: deques.
* `MarksSubtree`, `CoversSubtree`: walks. `WordsAreSets`,
  `SentToPotentialVictims`: bit operations do what `Runtime` does with sets, and
  a request is sent to a worker that is neither struck out nor idle as long as
  there is one.
* `IterationsOnce`: an iteration has been run once, or is left to exactly one
  part, at any time, whatever the strategy and the estimate of idle workers.
* `ResultComplete`: `AWAIT` of a loop returns the result of all its iterations,
  unless the loop was split before it ran. `ResultAlwaysComplete` is the same
  without the exception, as `test/test_async.c:214` has it, and is violated
  (`loops_partial`).
* `FutureProtocol`: every future has one task that sets it and one place where
  it is awaited, or it is on the root task's list and belongs to a loop that was
  split before it ran; `SetAtHome`: a future without a channel is set by the thread
  whose stack it is on. Both are what lets `FUTURE_SET` do without a check and a
  lock. `LoopEnds`: nested `REDUCE`s get their results.
* `UsesAlive`: while any worker runs, the channels of all exist.
  `ChannelsOwned`: a channel has one owner and is freed once, and when
  `tasking_exit` has returned, only those of futures that nobody has awaited are
  left. `ResultsArrive`: a future's channel, reused or not, is
  empty until its own result is sent. `ExitReturns`: the barriers let all
  threads through.

Deadlock is checked in all runs but `subtree_scan`, whose walks simply end.

## Bounds

| Bound | Why it is enough for the questions asked |
|---|---|
| `N` = 2, 3 | 2: a thief and a victim; 3: two subtrees, requests that are passed on. A worker that is both parent and child (4) is left to the proofs |
| `MAXSTEAL` = 1, 2 | 2: requests are dropped before the last one backs off |
| `MaxTasks` (created by the program, with the root; splits come on top) | 2: a task is stolen, shared or run locally; 3: nested or sibling tasks; 4: a task that is left behind on top of the awaited one |
| `StealHalf` = {FALSE}, {TRUE} in `runtime_loops` | deques are too short here for steal-half to send two tasks at once; lists of two are cut and prepended in `deque_lists`, and the theorems about `Runtime` hold for all lists |
| `LoopSizes` = {3} | split, and one part split again |
| `MaxSends` = 4 (5 for `channel_blocked`), slots | indices wrap around; a torn check needs a receive and a send in between; a use sends 3 or 4 items |
| Deque `MaxTasks` = 4 | lists of two are cut from both the middle and the whole of a deque, and objects are recycled |
| `MaxWorkers` = 9 | complete and incomplete last levels, four levels; the width of a word, so that the full word occurs |
| `Programs` | an empty loop and one that cannot be split; one of eight iterations, whose parts are split again by other workers; two loops, of which one may be run while the other one is awaited |
| `Capacities` = {0, 1} | no cache; a free list that is full with one channel |
| `MaxFutures` = 2, `MaxRuns` = 2 | a channel is cached and used again, or one future is left without being awaited while another one comes and goes; a second run starts from what the first one leaves |

The bounds cap `Len(tasks)`, `sent`, `created` and `runs` in the guards, and
`Programs` the loops; nothing else grows.

## Fairness

* `ThreadsRun`: a thread that can take a step of the runtime or of its program
  eventually does. The operating system schedules every thread; a worker that
  waits on a condition variable can only step when signalled.
  Nothing else is assumed of the scheduler. In particular,
  `while (RECV_REQ(&req)) ...` need not end: idle workers send a declined request
  on at once, and a worker might find one at every look. `runtime_relay` shows
  this livelock, and the properties that it breaks except it explicitly
  (`SomeoneFlooded`).
* `TasksEnd` (only in `runtime_await`): user functions return although they
  poll; so that the violation is not one of a program that polls forever.
* Channels: threads inside an operation keep running. Which waiting thread gets
  a lock is not assumed to be fair; `SendEnds` holds since sends are bounded.
* `Loops` and `Lifecycle`: threads keep running. Nothing is assumed about whether
  requests are answered, or when the user's program does its next step, ends, or
  calls `tasking_exit`.

## Proofs

Every invariant, action property and refinement that the runs check is proved,
except for those of `Victims`: for any number of workers, threads and requests
per worker, any capacity of channels and of caches, any number of task objects,
any mix of stealing and splitting strategies, any program of finitely many tasks
and any sequences of ascending loops.

| Property | Theorem | Module |
|---|---|---|
| `TypeOK` | `TypeCorrectness` | `RuntimeProofs` |
| `IdleWorkersHaveNoTasks` | `IdleWorkers` | `RuntimeProofs` |
| `OneTokenPerChannel` | `TokensUnique` | `RuntimeTaskProofs` |
| `RequestsAccounted` | `CountersRight` | `RuntimeTaskProofs` |
| `IdleSubtreesBackedOff` | `SubtreesAsleep` | `RuntimeTerminationProofs` |
| `TerminationSound` | `TerminationDetected` | `RuntimeTerminationProofs` |
| `CleanExit` | `ExitIsClean` | `RuntimeTerminationProofs` |
| `SingleConsumer` | `OneConsumer` | `RuntimeTerminationProofs` |
| `NoTaskLost` | `TasksKept` | `RuntimeTerminationProofs` |
| `ExecutedOnce` | `TasksRunOnce` | `RuntimeTerminationProofs` |
| `RequestAssertions` | `RequestsRight` | `RuntimeTerminationProofs` |
| `Channel!TypeOK` | `ChannelTypes` | `ChannelProofs` |
| `SlotsExclusive` | `CopiesExclusive` | `ChannelProofs` |
| `RangeDrains` | `RangesDrain` | `ChannelProofs` |
| `ImplementsFifo` | `ChannelIsQueue` | `ChannelProofs` |
| `IterationsOnce` | `IterationsOnceHolds` | `LoopsProofs` |
| `SetAtHome` | `SetAtHomeHolds` | `LoopsProofs` |
| `FutureProtocol` | `FutureProtocolHolds` | `LoopsProofs` |
| `ResultComplete` | `ResultCompleteHolds` | `LoopsProofs` |
| `WellLinked` | `Links` | `DequeProofs` |
| `OneOwner` | `Ownership` | `DequeProofs` |
| `ImplementsSequence` | `DequeIsSequence` | `DequeProofs` |
| `MarksSubtree` | `MarksRight` | `SubtreeScanProofs` |
| `CoversSubtree` | `WalkCovers` | `SubtreeScanProofs` |
| `UsesAlive` | `ChannelsAlive` | `LifecycleProofs` |
| `ResultsArrive` | `FuturesGetResults` | `LifecycleProofs` |
| `ChannelsOwned` | `ChannelsFreedOnce` | `LifecycleProofs` |

### The scheduler

The argument is a tower of invariants. Each has a theorem `Spec => []I`, whose
step uses the invariants below it (`I /\ J /\ [Next]_vars => I'`), and PTL
combines them. Most hold until shutdown begins (`~Exiting => ...`), when task
channels start to carry `RT_EXIT_FN` unasked; `ExitInv` takes over from there.

1. `Inv` (`InvHolds`): types and control. `TypeOK` is not inductive: that `hand`
   and the frames name existing tasks depends on where control is. `run_task`
   must not be called with `RT_EXIT_FN` (`HandInv`), `get_current_task()` is
   dereferenced only while a task runs (`StackInv`), the master's stack never
   becomes empty, since its root task cannot return (`RootInv`), and `SIGNAL` is
   sent to the owner of a lifeline that is still in the queue (`SignalInv`).
   There are lemmas for the operators (what a request becomes when it is renewed
   or declined, what a steal or a split sends), then one per action;
   `OthersKeepLocalInv` disposes of the other workers in each of them.
2. `AllIdleInv` (`IdleInvHolds`): a worker that looks for tasks has none, also
   while it sleeps (`LookingInv`); an `RT_pop` about to return NULL leaves an
   empty deque, except in the first loop of `RT_force_future`, which pops
   children only (`PopInv`); and which routine the shared loops belong to, so
   that a worker relaying requests for an `AWAIT`, whose deque need not be empty,
   is not taken for an idle one (`ForceInv`, `ShareInv`).
3. `TokenInv` (`TokenInvHolds`): for each task channel, `OneHolder`, which says
   in first-order terms that the right to send to it is in one place and one
   only. `Outcome` lists what may happen to a request that has been taken out of
   a channel: returned to its owner, forwarded, or used up by sending tasks.
   `OneHolderOneToken` turns this into the cardinality of `Tokens`.
4. `AccountInv` (`AccountInvHolds`): `requested` counts the channels not free and
   the requests dropped. A worker that takes itself off the waiting state when it
   receives tasks resets its counters on the assumption that one request was
   left, so `Account` adds that a waiting worker has exactly one channel in use,
   and that outside of `WAIT` an answer for it is there.
5. `HandsInv` and `TaskInv` (`HandsFree`, `TaskInvHolds`): a task is ready exactly
   when it is somewhere, then it is in one place (`Placed`), and it is running
   only if on a stack (`Ran`). The tokens are needed here: tasks sent to a
   channel that is not empty would be lost. `StepTask` also says what a step does
   to statuses, from which `ExecutedOnce` follows.
6. `FrameInv` (`FrameInvHolds`): a barrier is the root task's, at the bottom of the
   master's stack, and a worker that steals in `schedule` or `RT_barrier` is not
   in a task's body.
7. `BusyInv` (`BusyInvHolds`): a worker that is *not* looking for tasks has a request
   in state `WORKING` under way, or an answer to receive, or fewer than
   `MAXSTEAL` requests. This is why state `WORKING` exists: a worker that gets
   all its requests back marked idle has really been idle since it sent them
   (`LastIdle`), and may back off or conclude that all work is done.
8. `SettledInv` (`SettledInvHolds`): a failed request is the one of a settled child
   (in `WAIT`, with nothing in its channels) and any other request is not a
   settled worker's; flags, lifelines and settled children agree; a settled
   worker's own children are settled. By the definition of `Subtree` as the least
   closed set, a child marked idle has a settled subtree (`IdleSettled`), and the
   worker scanning it finds only requests of others (`FoundRequest`).
   `IdleSubtreesBackedOff` and `SingleConsumer` follow.
9. `SoloInv` (`SoloInvHolds`): with one worker there is no protocol, but `AWAIT`
   still sends requests, which come back to the sender. It does so only when it
   is stuck for good (`Trapped`), so it never gets as far as a barrier.
10. `QuietInv` (`QuietInvHolds`): when the master sets `quiescent`, all others are
    settled, so no task is in a deque, hand or channel (1, 2, 8), none is ready
    (5), and none is on a stack but the root (6): all are done
    (`ConclusionRight`). And it stays so: until shutdown the root task can only
    poll, await futures that are ready, and enter barriers that return at once
    (`MasterStaysQuiet`); a task it spawns makes `RT_push` reset `quiescent`.
11. `NoticeInv`, `ExitInv` (`ExitInvHolds`): the stages of a worker on its way out,
    `Resting` until its parent has sent `RT_EXIT_FN`, then `Reached`, `Leaving`,
    `Left`. Nothing else can happen (`ExitSteps`).
12. `RouteInv` (`RouteInvHolds`): a request has made at most `MAX_STEAL_ATTEMPTS`
    stops, is back with its thief when it has made them all, and never has its
    thief among its victims. A worker scanning an idle subtree counts a stop for
    requests out of others' channels; that these are never the channel owner's
    own comes from 8. That a request channel has room for all requests is a
    pigeon-hole argument on 3 (`RoomForAll`).

### The channel

`Inv` has, besides `TypeOK`: whoever copies owns the lock of its end if there is
one (`LockInv`) and is alone if not (`SoleInv`); there is room for the item being
sent and an item to receive (`RoomInv`), which the single-ended implementations
know only from what their unlocked check has read, so `CheckInv` bounds how far
`head` and `tail` can be from the values read; the slots between `head` and `tail`
hold items (`DataInv`); and where threads can be (`ThreadInv`). The lemmas on
`Ahead`, the distance from one index to another going round the buffer, replace
all arithmetic modulo the size. With `Inv`, `Contents` is the abstract queue, and
only the steps that advance an index change it: `SendAdvance` is the abstract
send, `RecvAdvance` the abstract receive (`NextImplements`).

### Loops

`ControlOK` and `FuturesOK` are inductive together (`ControlStep`,
`ControlHolds`). `ControlOK` has types; what a frame looks like at each label,
and that no task has two (`StackOK`); that a task which waits does so in one
place, worker 1's deque or a channel (`PlacesOK`); and how `start`, `cur`, `i` and
`end` relate before and after `ASYNC_FOR` has started (`RangesOK`). The last is
what makes a split right: `SPLITTABLE` looks at `cur`, which is one ahead of `i`
in a loop that runs and equal to `start` in one that does not, so both sides of
a split have iterations for each strategy, truncating division included
(`SplitInside`). `FuturesOK`: a future has one task that sets it, and is set when
that task has returned. It is needed for control, since the root task stores a
result by the loop that its future belongs to (`LoopOfFuture`).

On top of these, each by itself: `OnceOK`, which is `IterationsOnce` element by
element, where an action moves a block of iterations from the rest of a task to
`executed`, or from a task to its new part (`OnceStep`); `SetAtHome`, which is
inductive given `ControlOK`; and `AwaitsOK`, which says that a future is in
`handles`, or in one list, at one position, or in one frame, at one depth, and
nowhere once it is freed (`AwaitStep`). `FutureProtocol`, which counts, follows
from the last and `FuturesOK` (`AwaiterSet`, `ProtocolFollows`); that a future
nobody awaits is of a loop in `early` comes from `ResultsOK` (`OrphansEarly`).

`ResultsOK` needs `AwaitsOK` as well and gives `ResultComplete`. A part holds the
iterations it has summed up or has still to run or, when it has returned, those
in its future until they are taken from there (`Held`). The parts of a loop hold
nothing but its iterations (`HeldOK`), and all of them as long as the root task
has not taken the loop's result (`CompleteOK`); the result of a part is awaited
by an earlier part of the same loop if not by the root task, or the loop is in
`early` (`OwedOK`); the root task takes one result per loop (`FinalOK`). A step
passes iterations from part to part of one loop and loses none (`ResultsStep`):
a split divides them, `REDUCE` joins them. When `AWAIT` returns, the part that
the root task awaits has returned. Suppose that another part's result has not
been taken, and let it be the first such part. The one that awaits it is
earlier; it has not returned, since its list or its frame is in use; so its own
result has not been taken either, which contradicts the choice (`FinalHasAll`,
with the least element from `LeastNumber`). So all iterations are in the result.

Actions are first shown to have a shape (`StartShape`, `SplitTasksEffect`, ...):
which task, future and frame change and into what, as plain equations. Each
invariant is then a matter of shapes, several actions sharing one.

### The deque

The contents of a deque are found by following pointers, and nothing in the state
says how far. `Inv` (`Representation`) therefore asserts that there *are* sequences
`D`, `L` and `F`, a deque, a list under way and a free list for each worker, which
`next` and `prev` represent (`DequeAt`, `ListAt`, `FreeAt`), and a function `place`
that gives every task object one place. All other objects that a worker may get
have no links (`Loose`), and so does the null pointer, through which the code
writes. `PathIs` says that following `next`, and `prev` backwards, from a
represented list yields its sequence; it rests on `WalkExists`, that a walk of `n`
steps along a link exists. Since the prover has no induction, this is shown by
looking at the least `n` for which there is none (`LeastNumber`), as is every
other statement of this kind.

For each operation of `deque.c` a lemma says what it represents afterwards
(`PushAt`, `PopAt`, `UnlinkAt`, `PrependAt`, `FreePopAt`, `FreePushAt`, `BackIs`) and
which objects it has written (`Frame`). Every action moves a set of objects from
one place to another (`DequeToHands`, `DequeToLoot`, `LootToDeque`, ...): what is
in the frame belongs to these two places, so that all other lists are still there
(`Transfer`). `WellLinked` and `OneOwner` follow from `Inv`, the second by
counting. With `Inv`, `Contents` and `InTransit` are `D` and `L`, and each action
does to them what `DequeSpec` does (`NextImplements`).

### Walks over subtrees

`mark_as_idle` is a recursive function, so first there must be one: the last `k`
workers have one, for every `k` (`MarkedExists`), as children come after their
parents. From the last worker to the first (`FromTheLast`), what it strikes out is
closed under children, and in every closed set that has the worker (`MarkedClosed`,
`MarkedLeast`); so it is `Subtree`.

`Inv` (`WalkHolds`) says of a walk by levels that the current level, an interval
that starts at `worker` and is `1 << lvl` wide, is in the subtree, that every
worker visited above it has its children among those visited or on this level,
and that `1 << lvl` is at most `worker + 1`. The last is why no worker is visited
twice: the next level starts at `2 * worker + 1`, behind the end of this one. The
children of an interval are an interval of twice the width (`DescendInv`), cut off
where the workers end; when its first worker does not exist none does, and what
has been visited is closed, hence the subtree. Powers of two are not needed, only
that widths double (`WidthDoubles`).

### Start and shutdown

`Invariance` has two parts. `Together`: a thread has *passed* a barrier when the
last thread has arrived, which flips `sense`, though it may leave much later. Then
all threads have passed equally many, whoever is still in the last barrier or
already in the next one (`PassTogether`), and `arrived` are exactly those that wait
(`LastArrives`). Hence if one worker runs, all have passed the first barrier
and none the second; if there is a future that is not set, the master runs, so
nobody has got to `RT_exit`.

`Kept`: a worker before `RT_init` or after `RT_exit` has no cache and has freed
every channel once, but for those of futures not awaited (`OutOfUse`, `Remain`).
In between (`InUse`), a channel it has allocated is either held, by its request
channel, one of its task channels, a future or a slot of its free list for
futures, and not freed; or not held, and freed once (`FreedOnce`). Holders do not
share channels, because of their types and for being distinct in each group
(`Own`, `OfFutures`, `OnList`); a channel on the free list is empty, which is why
it need not be reset. `CacheIs` says that the free
lists for requests and tasks stay empty until `RT_exit`. `RT_init` and `RT_exit`
call `channel_alloc` and `channel_free` `MAXSTEAL` times; `AllocsAre` and `FreesAre`
describe the memory after `k` calls, and hold for all `k` because there is no least
one for which they do not (`UpTo`). In `RT_exit` the order matters: the request
channel goes first into the cache, the cache is freed and with it that channel
and those of futures, and then the task channels are freed without a cache.

### Assumptions

`NAssumption`, `RuntimeAssumption`, `ChannelAssumption`, `LoopsAssumption`,
`DequeAssumption`, `LifecycleAssumption` and `MaxWorkersAssumption`, which TLC
evaluates in every run of these modules. Nothing is assumed but the types of the
constants, that there is a worker and a request per worker (two workers in
`Loops`), that senders are not receivers, that "nobody", the owner of a free lock,
is not the name of a thread, and that loops are ascending (see finding 7).

### Only model-checked

* Liveness (`BarrierReturnsUnlessFlooded`, `EveryTaskRuns`, `AwaitReturns`,
  `NoLostWakeup`, `RangeEnds`, `SendEnds` and those of the other modules): fairness
  and `ENABLED` are out of the prover's reach.
* `WordsAreSets` and `SentToPotentialVictims` (`Victims`): what bit operations and
  the loops over bits compute. They take recursive operators and bitwise
  arithmetic, for neither of which the prover has a backend.

## Findings

1. **`AWAIT` may hang** (`runtime_await`; `src/src/runtime.c:1302`). In the
   second loop of `RT_force_future` a worker accepts `STATE_FAILED` requests but
   shares work only after it has received some. If the tasks that are left are
   in its own deque and are not children of the awaiting task, it does not pop
   them, its child sleeps on an unanswered lifeline, and nobody proceeds. It
   needs a task that returns without awaiting its children (`Strict` = FALSE);
   for fork-join programs of the same size `AwaitReturns` holds (`runtime_live`).
2. **A barrier need not return when threads are merely fair** (`runtime_relay`;
   `src/src/runtime.c:1418`). Nothing bounds `while (RECV_REQ(&req)) ...`. All
   tasks are done; worker 1 has popped NULL and is in that loop. It returns the
   idle master's request, the master sends it again before worker 1 looks once
   more, and so on: worker 1 never becomes idle itself. With three workers it may
   also be the master that finds its own returned request at every look, and
   never gets to look on behalf of its idle child. Two threads must stay in step
   for this, which a real schedule ends sooner or later.
3. **`AWAIT` of a loop may return a partial result** (`loops_partial`;
   `src/src/runtime.c:1554`). When a loop with a future is split right after it
   was popped (`RT_pop`, `runtime.c:1396-1433`, "If we just popped a loop task, we
   may split right here"), `split_loop` puts the part's future on the list of
   the current task, which is the one that awaits, not the loop. `REDUCE` in the
   loop does not see it, and `AWAIT` returns without the part;
   `test/test_async.c:214` asserts `AWAIT(f5, long) == N`.
4. **`SEND_REQ` may abort although there is room** (`channel_blocked`;
   `src/src/runtime.c:510`). The unlocked `IS_FULL` may combine an old `head`
   with a new `tail` and report a full channel that never was; three times in a
   row trips `assert(false && "Check channel capacities!")`.

Seen while modelling, without a run of their own:

5. The channel of a future that nobody awaits is never freed, and after a split
   in `RT_pop` (finding 3) on top of the root task the program has no way to
   await it (`runtime.c:1546-1555`). `ChannelsOwned` says that no other channel
   is left.
6. `COUNT_REQ` (`runtime.c:544-561`) discards the count of every level but the
   last, which is 0. It is used only by adaptive splitting to estimate the
   number of idle workers; splits are sound whatever it returns
   (`IterationsOnce`).
7. Loops are ascending, and `SPLITTABLE` takes the absolute value of what is
   left: a loop with `lo > hi + 1` has no iterations but is split when it is
   popped, and the guided and adaptive strategies then give away iterations that
   do not exist. `LoopsAssumption` has loops with `lo <= hi`.
8. `RT_init` resets neither `quiescent` nor `dropped_steal_requests`. In a
   program that starts the runtime a second time, a `TASKING_BARRIER` before the
   first task returns at once, and `tasking_exit` trips the assertion that
   every worker has backed off (`runtime.c:744`).
9. `MAXWORKERS` limits `NUM_THREADS`, but not the number of processors used when
   it is not set (`tasking.c:70`); sets of victims have 32 bits.

## What is left out

`PROJECT.json` gives the status of every component. Not modelled: exponential
backoff (off, real time), profiling, affinity, `list.h` and the macros of
`bit.h` that no file uses, the benchmarks (instances of the arbitrary program of
`Runtime`), failures of `malloc`. Partly: futures (`AWAIT_ALL` is a sequence of
awaits and left out; regular futures only in `Lifecycle`), start and shutdown
(no statistics), the ring of `bounded_queue.h`, which is a sequence in `Runtime`,
bounded by a guard. Channels are modelled for sequentially consistent memory,
except for the order of the unlocked reads. `Runtime`, `Loops` and `Lifecycle`
are views of one system and are not composed: `Runtime` has the protocol of
requests with loops as a number of iterations, `Loops` the loops with requests
answered by anybody, `Lifecycle` the channels with everything else left open.

## Plan

Done, in order of importance: `Runtime` with its properties, `Channel`,
`SubtreeScan`, `Deque`; `Loops`, `Lifecycle`, `Victims`; the proofs of all safety
properties of `Runtime`, `Channel`, `Loops`, `Deque`, `Lifecycle` and `SubtreeScan`,
and of both refinements.

Next modules: `BoundedQueue`, the ring refined to the sequence in `Runtime`; the
counters that switch between steal-one and steal-half, for liveness of adaptive
stealing.
