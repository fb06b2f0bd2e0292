------------------------- MODULE RuntimeProperties --------------------------
(***************************************************************************)
(* What makes the scheduler of Runtime correct: no task is lost, run twice *)
(* or forgotten; termination is detected when, and only when, all work is  *)
(* done; the channels are used within their contracts; nobody sleeps on.   *)
(***************************************************************************)
EXTENDS Runtime

Labels == {"body", "pop", "share", "signal", "serve", "behalf", "idle", "recv",
           "resend", "ready", "waitpeek", "presleep", "asleep", "woken",
           "leave", "exit", "exitsignal", "finished"}

TaskIds == 1 .. Len(tasks)

\* Every variable keeps the type of its C counterpart: the request channels
\* hold steal requests; deques, task channels and stacks hold tasks that exist
\* (no dangling Task pointer), and only the exit pseudo-task travels otherwise.
TypeOK ==
    /\ chan_requests \in [Workers -> Seq(Request)]
    /\ chan_tasks \in [Workers -> [Chans -> Seq(TaskIds) \cup {<<ExitFn>>}]]
    /\ channel_stack \in [Workers -> Seq(Chans)]
    /\ requested \in [Workers -> Int]
    /\ dropped \in [Workers -> Nat]
    /\ waiting \in [Workers -> BOOLEAN]
    /\ idle \in [Workers -> SUBSET Workers]
    /\ work_sharing_requests \in [Workers -> Seq(Request)]
    /\ quiescent \in BOOLEAN
    /\ deque \in [Workers -> Seq(TaskIds)]
    /\ tasks \in Seq(TaskRecord)
    /\ hand \in [Workers -> TaskIds \cup {NoTask, ExitFn}]
    /\ stack \in [Workers -> Seq(Frame)]
    /\ \A w \in Workers : \A i \in DOMAIN stack[w] : stack[w][i].task \in TaskIds
    /\ pc \in [Workers -> Labels]
    /\ op \in [Workers -> {"push", "pop", "poll", "idle", "force", "loot"}]
    /\ todo \in [Workers -> SUBSET Workers]

\* RT_EXIT_FN has begun; task channels now carry it unasked.
Exiting == \E w \in Workers : pc[w] \in {"exit", "exitsignal", "finished"}

Waiting == {"waitpeek", "presleep", "asleep", "woken"}

\* Worker v has backed off: it is inside WAIT and has nothing to do.
BackedOff(v) ==
    /\ waiting[v]
    /\ pc[v] \in Waiting
    /\ deque[v] = <<>> /\ hand[v] = NoTask /\ stack[v] = <<>>
    /\ \A c \in Chans : chan_tasks[v][c] = <<>>

\* The lifelines w holds; while it signals, the first one is already answered.
Lifelines(w) == IF pc[w] = "signal" THEN Tail(work_sharing_requests[w])
                ELSE work_sharing_requests[w]

\* When the master believes that the computation has terminated, it has: no
\* task is left anywhere, and every other worker has backed off.
TerminationSound ==
    quiescent /\ ~Exiting =>
        /\ \A t \in 1 .. Len(tasks) : t # Root => tasks[t].status = "done"
        /\ \A w \in Workers \ {MASTER_ID} : BackedOff(w)

\* A worker that considers a child's subtree idle holds that child's lifeline,
\* and the whole subtree has backed off: mark_as_idle strikes out only workers
\* that have nothing to give, and answering requests in their stead is safe.
IdleSubtreesBackedOff ==
    ~Exiting => \A w \in Workers :
        /\ idle[w] = {Lifelines(w)[i].id : i \in 1 .. Len(Lifelines(w))}
        /\ idle[w] \subseteq Children(w)
        /\ \A v \in IdleSubtrees(w) : BackedOff(v)

\* The request channels have a single consumer at any time, although a parent
\* receives on behalf of its idle subtrees (channel_receive_mpsc takes no lock).
SingleConsumer ==
    \A w \in Workers : pc[w] = "behalf" =>
        \A c \in todo[w] : pc[c] \in Waiting

Indices(s, P(_)) == {i \in 1 .. Len(s) : P(s[i])}

\* The places where the right to send tasks to channel c of worker w resides:
\* the channel is free, or a request for it is under way, or it holds tasks.
Tokens(w, c) ==
    LET mine(r) == r.id = w /\ r.chan = c
        free(d) == d = c
    IN  ({"free"} \X {w} \X Indices(channel_stack[w], free))
        \cup ({"tasks"} \X {w} \X (IF chan_tasks[w][c] = <<>> THEN {} ELSE {1}))
        \cup UNION {({"request"} \X {v} \X Indices(chan_requests[v], mine))
                     \cup ({"lifeline"} \X {v} \X Indices(Lifelines(v), mine)) :
                    v \in Workers}

\* There is exactly one such right per channel, so a task channel is empty when
\* tasks are sent to it (the result of channel_send is not checked), has one
\* producer at a time, and no request channel ever exceeds its capacity.
OneTokenPerChannel ==
    ~Exiting => \A w \in Workers, c \in Chans : Cardinality(Tokens(w, c)) = 1

\* requested counts the requests under way, the answers not yet received and
\* the requests dropped; every assertion on requested, channel_stack->top and
\* dropped_steal_requests follows from this and OneTokenPerChannel.
RequestsAccounted ==
    ~Exiting => \A w \in Workers :
        /\ requested[w] = MAXSTEAL - Len(channel_stack[w]) + dropped[w]
        /\ requested[w] \in 0 .. MAXSTEAL
        /\ waiting[w] => dropped[w] = MAXSTEAL - 1

\* The assertions on requests: SEND_REQ finds room for one; a failed one reaches the sender's parent, which
\* does not hold another one; a request that has made MAX_STEAL_ATTEMPTS stops
\* is back with its thief; the thief is never among the victims.
RequestAssertions ==
    \A w \in Workers : Len(chan_requests[w]) <= Capacity /\ \A i \in 1 .. Len(chan_requests[w]) :
        LET r == chan_requests[w][i]
        IN  IF r.state = FAILED
            THEN r.id \in Children(w) \ idle[w]
            ELSE /\ r.try \in 0 .. MAX_STEAL_ATTEMPTS
                 /\ r.try = MAX_STEAL_ATTEMPTS => r.id = w
                 /\ r.id \notin r.victims

\* A worker that looks for tasks to steal in schedule or RT_barrier has an
\* empty deque and no task in hand.
IdleWorkersHaveNoTasks ==
    \A w \in Workers : op[w] = "idle" /\ pc[w] \in {"serve", "behalf", "recv"} =>
        deque[w] = <<>> /\ hand[w] = NoTask

\* The places where task t waits to be run
Places(t) ==
    LET is(u) == u = t
    IN  UNION {({"deque"} \X {w} \X Indices(deque[w], is))
                \cup ({"hand"} \X {w} \X (IF hand[w] = t THEN {1} ELSE {}))
                \cup UNION {{"channel"} \X {w} \X Indices(chan_tasks[w][c], is) :
                            c \in Chans} : w \in Workers}

\* A task that has not been run yet is in exactly one deque, task channel or
\* pair of hands; once it runs it is in none.  No task is lost or duplicated.
NoTaskLost ==
    \A t \in 1 .. Len(tasks) :
        Cardinality(Places(t)) = IF tasks[t].status = "ready" THEN 1 ELSE 0

\* When a worker has left its scheduling loop, its task channels are empty
\* (RT_exit asserts it), as are all request channels: nobody is left to answer.
CleanExit ==
    /\ \A w \in Workers : pc[w] = "finished" =>
            \A c \in Chans : chan_tasks[w][c] = <<>>
    /\ Exiting => \A w \in Workers : chan_requests[w] = <<>>
    /\ Exiting => \A w \in Workers : BothSubtreesIdle(w) /\ deque[w] = <<>>

\* A task is run once: it never becomes ready again, and is not run after it
\* is done.
ExecutedOnce ==
    [][\A t \in 1 .. Len(tasks) :
        /\ tasks[t].status = "running" => tasks'[t].status # "ready"
        /\ tasks[t].status = "done" => tasks'[t].status = "done"]_vars

\* From some time on, worker w finds a steal request in its channel each time
\* it looks: nothing bounds while (RECV_REQ(&req)), and requests that others
\* decline or send for themselves may keep coming.
Flooded(w) ==
    /\ []<>(pc[w] = "serve")
    /\ <>[][pc[w] = "serve" /\ pc'[w] # "serve" => chan_requests[w] # <<>>]_vars

SomeoneFlooded == \E w \in Workers : Flooded(w)

\* TASKING_BARRIER returns: "Termination occurs once worker 0 detects that both
\* left and right subtrees of workers are idle and worker 0 is itself idle".
BarrierReturns == (At(MASTER_ID) = "barrier") ~> (At(MASTER_ID) # "barrier")

\* Nothing but a flood of steal requests keeps TASKING_BARRIER from returning:
\* no request is left with a sleeping worker, no idle flag is missed, no wakeup
\* lost.
BarrierReturnsUnlessFlooded == BarrierReturns \/ SomeoneFlooded

\* Every task that is created is eventually run to its end, unless some worker
\* relays requests for ever: no task stays behind in a deque or a channel, or
\* in the hands of a worker that sleeps.
EveryTaskRuns ==
    \/ \A t \in 2 .. MaxTasks :
            (t <= Len(tasks)) ~> (t <= Len(tasks) /\ tasks[t].status = "done")
    \/ SomeoneFlooded

\* The root task is in AWAIT.
RootAwaits == stack[MASTER_ID][Len(stack[MASTER_ID])].at \in {"force1", "force2"}

\* AWAIT "returns the result of evaluating future fut": RT_force_future ends,
\* unless some worker relays requests for ever.
AwaitReturns == (RootAwaits ~> ~RootAwaits) \/ SomeoneFlooded

\* A worker that sleeps while there are tasks in its channels is woken.
NoLostWakeup ==
    \A w \in Workers :
        (pc[w] = "asleep" /\ \E c \in Chans : chan_tasks[w][c] # <<>>)
            ~> (pc[w] # "asleep")

\* Once the master runs RT_EXIT_FN, every worker leaves its scheduling loop.
ExitReachesAll == (pc[MASTER_ID] = "exit") ~> Finished
=============================================================================
