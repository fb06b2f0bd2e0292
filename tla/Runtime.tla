------------------------------ MODULE Runtime -------------------------------
(***************************************************************************)
(* The work-stealing scheduler of src/src/runtime.c in its default build:  *)
(* STEAL_EARLY with threshold 0, BACKOFF=wait_cond, and any of the         *)
(* steal-one, steal-half and adaptive strategies.                          *)
(*                                                                         *)
(* Workers share nothing but channels.  An idle worker sends a steal       *)
(* request, which other workers answer with tasks or pass on; a request    *)
(* that comes back unanswered to a worker whose whole subtree is idle is   *)
(* handed to the parent (STATE_FAILED), and the worker sleeps on its       *)
(* condition variable.  When the master gets its own request back while    *)
(* both its subtrees are idle, the computation has terminated.             *)
(*                                                                         *)
(* Granularity.  A step of a worker performs at most one operation that    *)
(* another worker can observe (a send, a receive, a signal), with the      *)
(* worker's private computation around it; the one exception is a receive  *)
(* from a request channel that is followed by one send.  Only one worker   *)
(* at a time receives from a channel, so such a receive commutes with the  *)
(* steps of the others in between.  The channels themselves are atomic     *)
(* FIFO queues here; their implementation is the subject of Channel.       *)
(*                                                                         *)
(* The user's program is arbitrary: a running task may spawn children,     *)
(* await a child, poll, finish; the root task may also enter a barrier     *)
(* and, after a barrier, shut the runtime down.                            *)
(***************************************************************************)
EXTENDS WorkerTree, Sequences, FiniteSets

CONSTANTS
    MAXSTEAL,     \* pending steal requests per worker
    StealHalf,    \* {FALSE}: steal-one, {TRUE}: steal-half, BOOLEAN: adaptive
    LoopSizes,    \* iteration counts of the loop tasks the program creates
    Strict,       \* TRUE: a task awaits all its children before it finishes
    UserPolls,    \* TRUE: tasks call RT_poll
    MaxTasks      \* bound: no task is spawned once this many exist

ASSUME RuntimeAssumption ==
    /\ MAXSTEAL \in Nat \ {0}
    /\ StealHalf \in (SUBSET BOOLEAN) \ {{}}
    /\ LoopSizes \subseteq Nat
    /\ Strict \in BOOLEAN
    /\ UserPolls \in BOOLEAN
    /\ MaxTasks \in Nat

VARIABLES
    chan_requests,  \* per worker: its MPSC channel of steal requests
    chan_tasks,     \* per worker and channel: the list of tasks sent, or <<>>
    channel_stack,  \* per worker: the channels free for new requests
    requested,      \* per worker: pending steal requests
    dropped,        \* per worker: dropped_steal_requests
    waiting,        \* per worker: tree.waiting_for_tasks
    idle,           \* per worker: the children whose subtree is idle
    work_sharing_requests,  \* per worker: queue of its children's requests
    quiescent,      \* the master's flag: all work is done
    deque,          \* per worker: its tasks, most recent first
    tasks,          \* all tasks created so far
    hand,           \* per worker: the task popped or received, to be run
    stack,          \* per worker: the tasks being run, innermost first
    pc,             \* per worker: where it is
    op,             \* per worker: the routine whose loop it is in
    todo            \* per worker: subtree channels left to look at,
                    \* or children left to notify

protocol == <<chan_requests, requested, channel_stack, dropped, waiting, quiescent>>
work     == <<deque, chan_tasks, tasks>>
lifeline == <<idle, work_sharing_requests>>
control  == <<hand, stack, op, todo>>

vars == <<protocol, work, lifeline, control, pc>>

-----------------------------------------------------------------------------
NoTask == 0
Root   == 1
ExitFn == -1     \* the pseudo-task RT_EXIT_FN

WORKING == "working"
IDLE    == "idle"
FAILED  == "failed"

Chans == 1 .. MAXSTEAL

\* struct steal_request
Request == [chan : Chans, id : Workers, try : Nat, victims : SUBSET Workers,
            state : {WORKING, IDLE, FAILED}, stealhalf : BOOLEAN]

MAX_STEAL_ATTEMPTS == N - 1

\* RT_init allocates chan_requests with this capacity.
Capacity == MAXSTEAL * N

\* struct task; left is end - cur, the iterations not yet begun.
TaskRecord == [parent : Nat, splittable : BOOLEAN, left : Int,
               status : {"ready", "running", "done"}, joined : BOOLEAN]

Frame == [task : Nat, at : {"body", "barrier", "force1", "force2"}, fut : Nat]

NewTask(p, loop, n) == [parent |-> p, splittable |-> loop, left |-> n,
                        status |-> "ready", joined |-> FALSE]

\* get_current_task
Current(w) == IF stack[w] = <<>> THEN NoTask ELSE Head(stack[w]).task

At(w) == IF stack[w] = <<>> THEN "schedule" ELSE Head(stack[w]).at

Forcing(w) == At(w) \in {"force1", "force2"}

Abs(n) == IF n < 0 THEN -n ELSE n

IterationsLeft(t) ==
    IF t # NoTask /\ tasks[t].splittable THEN Abs(tasks[t].left) ELSE 0

SPLITTABLE(t) == IterationsLeft(t) > 1

\* Variant: one idle subtree is taken for both.
BothSubtreesIdle_either(w) == idle[w] # {} \/ Children(w) = {}

BothSubtreesIdle(w) == idle[w] = Children(w)

\* Variant: answers for all children, whether they have backed off or not.
IdleSubtrees_all(w) == UNION {Subtree[c] : c \in Children(w)}

IdleSubtrees(w) == UNION {Subtree[c] : c \in idle[w]}

Minimum(S) == CHOOSE x \in S : \A y \in S : x <= y

Deliver(q, v, r) == [q EXCEPT ![v] = Append(@, r)]

Goto(w, label) == pc' = [pc EXCEPT ![w] = label]

\* CHANNEL_PUSH and CHANNEL_POP: bounded_stack asserts that it does not
\* overflow or underflow, and a failed assertion ends the program.
ChannelPush(w, c) ==
    /\ Len(channel_stack[w]) < MAXSTEAL
    /\ channel_stack' = [channel_stack EXCEPT ![w] = Append(@, c)]

ChannelPop(w) ==
    /\ channel_stack[w] # <<>>
    /\ channel_stack' = [channel_stack EXCEPT
                            ![w] = SubSeq(@, 1, Len(@) - 1)]

-----------------------------------------------------------------------------
(* Sending and passing on steal requests *)

\* next_victim, first half: strike out this worker and, if the request is to
\* travel on, the subtrees known to be idle (mark_as_idle).
next_victim(w, r) ==
    [r EXCEPT !.victims = @ \ ({w} \cup IF r.try = MAX_STEAL_ATTEMPTS
                                        THEN {} ELSE IdleSubtrees(w))]

\* next_victim, second half: a random victim, or back to the thief.
Victims(r) ==
    IF r.try = MAX_STEAL_ATTEMPTS \/ r.victims = {} THEN {r.id}
    ELSE r.victims

\* STEAL_REQUEST_INIT
NewRequest(w, s, half) ==
    [chan |-> channel_stack[w][Len(channel_stack[w])], id |-> w, try |-> 0,
     victims |-> Workers, state |-> s, stealhalf |-> half]

try_send_steal_request(w, s) ==
    \/ /\ requested[w] >= MAXSTEAL
       /\ UNCHANGED <<chan_requests, requested, channel_stack>>
    \/ /\ requested[w] < MAXSTEAL
       /\ ChannelPop(w)
       /\ \E half \in StealHalf :
            LET r == next_victim(w, NewRequest(w, s, half))
            IN  \E v \in Victims(r) :
                    chan_requests' = Deliver(chan_requests, v, r)
       /\ requested' = [requested EXCEPT ![w] = @ + 1]

(* The operators below handle request r.  q is chan_requests without r, and *)
(* next the label where the worker continues.                               *)

FORGET_REQ(w, r, q, next) ==
    /\ chan_requests' = q
    /\ requested' = [requested EXCEPT ![w] = @ - 1]
    /\ ChannelPush(w, r.chan)
    /\ Goto(w, next)
    /\ UNCHANGED <<work, dropped, waiting, quiescent>>

\* Variant: forgets to remove the request from the channel.
SendOn_copy(q, v, r) == Deliver(chan_requests, v, r)

\* SEND_REQ_WORKER(victim, req), for a request that was received before
SendOn(q, v, r) == Deliver(q, v, r)

\* SEND_REQ_WORKER(next_victim(req), req)
PassOn(w, r, q, next) ==
    /\ LET s == next_victim(w, r)
       IN  \E v \in Victims(s) : chan_requests' = SendOn(q, v, s)
    /\ Goto(w, next)
    /\ UNCHANGED <<work, requested, channel_stack, dropped, waiting, quiescent>>

\* Variant: the attempts are not counted from zero again.
Renewed_keeptry(r) == [r EXCEPT !.victims = Workers]

Renewed(r) == [r EXCEPT !.try = 0, !.victims = Workers]

\* The thief's own request starts another round, unless every other worker is
\* known to be idle.
Recirculate(w, r, q, next) ==
    LET s == Renewed(r)
    IN  IF Victims(next_victim(w, s)) = {w}
        THEN FORGET_REQ(w, r, q, next)
        ELSE PassOn(w, s, q, next)

detect_termination(w, r, q, next) ==
    /\ quiescent' = TRUE
    /\ chan_requests' = q
    /\ requested' = [requested EXCEPT ![w] = @ - 1]
    /\ ChannelPush(w, r.chan)
    /\ Goto(w, IF op[w] = "idle" THEN "leave" ELSE next)
    /\ UNCHANGED <<work, dropped, waiting>>

\* The last request goes to the parent, and the worker, holding its backoff
\* lock, is about to wait for tasks.
BackOff(w, r, q) ==
    /\ chan_requests' = SendOn(q, parent(w), [r EXCEPT !.state = FAILED])
    /\ waiting' = [waiting EXCEPT ![w] = TRUE]
    /\ Goto(w, "waitpeek")
    /\ UNCHANGED <<work, requested, channel_stack, dropped, quiescent>>

Drop(w, r, q, next) ==
    /\ chan_requests' = q
    /\ ChannelPush(w, r.chan)
    /\ dropped' = [dropped EXCEPT ![w] = @ + 1]
    /\ Goto(w, next)
    /\ UNCHANGED <<work, requested, waiting, quiescent>>

\* Variant: does not wait for the other requests to be dropped.
LastRequest_any(w) == TRUE

\* Have all but this one of the worker's MAXSTEAL requests been dropped?
LastRequest(w) ==
    \/ MAXSTEAL = 1
    \/ /\ requested[w] = MAXSTEAL
       /\ Len(channel_stack[w]) = MAXSTEAL - 1

decline_steal_request(w, req, q, next) ==
    LET r == [req EXCEPT !.try = @ + 1]
    IN  \/ r.id # w /\ PassOn(w, r, q, next)
        \/ /\ r.id = w
           /\ r.state = IDLE /\ BothSubtreesIdle(w)
           /\ \/ /\ LastRequest(w) /\ w = MASTER_ID
                 /\ detect_termination(w, r, q, next)
              \/ /\ LastRequest(w) /\ w # MASTER_ID
                 /\ BackOff(w, r, q)
              \/ ~LastRequest(w) /\ Drop(w, r, q, next)
        \/ /\ r.id = w
           /\ ~(r.state = IDLE /\ BothSubtreesIdle(w))
           /\ Recirculate(w, r, q, next)

-----------------------------------------------------------------------------
(* Answering steal requests with tasks *)

\* The result of channel_send is ignored: tasks sent to a channel that is
\* not empty are lost.
SendTasks(r, list) ==
    chan_tasks' = [chan_tasks EXCEPT
                    ![r.id][r.chan] = IF @ = <<>> THEN list ELSE @]

\* deque_steal takes the oldest task, deque_steal_half the older half.
LootSize(w, r) ==
    IF r.stealhalf /\ Len(deque[w]) >= 2 THEN Len(deque[w]) \div 2 ELSE 1

\* Variants: the tasks sent are not unlinked from the deque; the list of
\* tasks ends with the deque's dummy task.
Rest_keep(d, k) == d

Loot_dummy(d, k) == SubSeq(d, k + 1, Len(d)) \o <<NoTask>>

Rest(d, k) == SubSeq(d, 1, k)

Loot(d, k) == SubSeq(d, k + 1, Len(d))

SendLoot(w, r) ==
    LET d == deque[w]
        k == Len(d) - LootSize(w, r)
    IN  /\ SendTasks(r, Loot(d, k))
        /\ deque' = [deque EXCEPT ![w] = Rest(d, k)]
        /\ UNCHANGED tasks

\* The thief gets the upper part of loop t's iterations.  Every splitting
\* strategy leaves at least one iteration to each side.
split_loop(w, t, r) ==
    /\ \E chunk \in 1 .. tasks[t].left - 1 :
        tasks' = Append([tasks EXCEPT ![t].left = @ - chunk],
                        [tasks[t] EXCEPT !.left = chunk, !.status = "ready"])
    /\ SendTasks(r, <<Len(tasks) + 1>>)
    /\ UNCHANGED deque

\* Request r has been taken out of the channels and answered.
Answered(w, q, next) ==
    /\ chan_requests' = q
    /\ Goto(w, next)
    /\ UNCHANGED <<requested, channel_stack, dropped, waiting, quiescent>>

handle_steal_request(w, r, q, next) ==
    \/ /\ r.id = w
       /\ \/ /\ deque[w] # <<>> \/ IterationsLeft(Current(w)) > 0
             /\ FORGET_REQ(w, r, q, next)
          \/ /\ deque[w] = <<>> /\ IterationsLeft(Current(w)) = 0
             /\ decline_steal_request(w, r, q, next)
    \/ /\ r.id # w
       /\ \/ /\ deque[w] # <<>>
             /\ SendLoot(w, r)
             /\ Answered(w, q, next)
          \/ /\ deque[w] = <<>>
             /\ decline_steal_request(w, r, q, next)

\* Loop t can be split: the answer to another worker's request.
SplitOrForget(w, t, r, q, next) ==
    \/ r.id # w /\ split_loop(w, t, r) /\ Answered(w, q, next)
    \/ r.id = w /\ FORGET_REQ(w, r, q, next)

\* handle, for a request that is not a work-sharing request
handle(w, r, q, next) ==
    \/ /\ deque[w] # <<>>
       /\ handle_steal_request(w, r, q, next)
    \/ /\ deque[w] = <<>> /\ SPLITTABLE(Current(w))
       /\ SplitOrForget(w, Current(w), r, q, next)
    \/ /\ deque[w] = <<>> /\ ~SPLITTABLE(Current(w))
       /\ decline_steal_request(w, r, q, next)

\* The body of the loop that received r: RT_pop, RT_push, RT_force_future,
\* RT_poll or decline_all_steal_requests.
Dispatch(w, r, q) ==
    \/ /\ op[w] = "pop"
       /\ \/ /\ deque[w] = <<>> /\ SPLITTABLE(hand[w])
             /\ SplitOrForget(w, hand[w], r, q, "serve")
          \/ /\ ~(deque[w] = <<>> /\ SPLITTABLE(hand[w]))
             /\ handle_steal_request(w, r, q, "serve")
    \/ /\ op[w] \in {"push", "force"}
       /\ handle_steal_request(w, r, q, "serve")
    \/ /\ op[w] = "poll"
       /\ handle(w, r, q, "serve")
    \/ /\ op[w] = "idle"
       /\ LET s == IF r.id = w /\ r.state = WORKING
                   THEN [r EXCEPT !.state = IDLE] ELSE r
          IN  decline_steal_request(w, s, q, "recv")

-----------------------------------------------------------------------------
(* RECV_REQ *)

\* Variants: one of the two flags is not maintained.
MarkIdle_never(S, c) == S

MarkBusy_never(S, c) == S

\* tree.left_subtree_is_idle or tree.right_subtree_is_idle of child c
MarkIdle(S, c) == S \cup {c}

MarkBusy(S, c) == S \ {c}

\* A child's failed request is kept as a lifeline.
RecvFailed(w) ==
    /\ pc[w] = "serve"
    /\ chan_requests[w] # <<>>
    /\ LET r == Head(chan_requests[w])
       IN  /\ r.state = FAILED
           /\ Len(work_sharing_requests[w]) < 2
           /\ idle' = [idle EXCEPT ![w] = MarkIdle(@, r.id)]
           /\ work_sharing_requests' =
                [work_sharing_requests EXCEPT ![w] = Append(@, r)]
    /\ chan_requests' = [chan_requests EXCEPT ![w] = Tail(@)]
    /\ UNCHANGED <<requested, channel_stack, dropped, waiting, quiescent,
                   work, control, pc>>

RecvOwn(w) ==
    /\ pc[w] = "serve"
    /\ chan_requests[w] # <<>>
    /\ Head(chan_requests[w]).state # FAILED
    /\ Dispatch(w, Head(chan_requests[w]),
                [chan_requests EXCEPT ![w] = Tail(@)])
    /\ UNCHANGED <<lifeline, control>>

\* The own channel is empty; look into those of the idle subtrees.
StartBehalf(w) ==
    /\ pc[w] = "serve"
    /\ chan_requests[w] = <<>>
    /\ idle[w] # {}
    /\ todo' = [todo EXCEPT ![w] = IdleSubtrees(w)]
    /\ Goto(w, "behalf")
    /\ UNCHANGED <<protocol, work, lifeline, hand, stack, op>>

\* Left subtree first, then right, each level by level.
NextInScan(w) ==
    LET left == IF left_child(w) \in idle[w]
                THEN todo[w] \cap Subtree[left_child(w)] ELSE {}
    IN  Minimum(IF left # {} THEN left ELSE todo[w])

RecvBehalf(w) ==
    /\ pc[w] = "behalf"
    /\ todo[w] # {}
    /\ LET c == NextInScan(w)
       IN  \/ /\ chan_requests[c] = <<>>
              /\ todo' = [todo EXCEPT ![w] = @ \ {c}]
              /\ UNCHANGED <<protocol, work, pc>>
           \/ /\ chan_requests[c] # <<>>
              /\ Dispatch(w, Head(chan_requests[c]),
                          [chan_requests EXCEPT ![c] = Tail(@)])
              /\ todo' = [todo EXCEPT ![w] = {}]
    /\ UNCHANGED <<lifeline, hand, stack, op>>

\* RECV_REQ returns false.
NoRequest(w) ==
    \/ pc[w] = "serve" /\ chan_requests[w] = <<>> /\ idle[w] = {}
    \/ pc[w] = "behalf" /\ todo[w] = {}

-----------------------------------------------------------------------------
(* share_work *)

\* handle, for the work-sharing request at the head of the queue
CanShare(w) ==
    /\ work_sharing_requests[w] # <<>>
    /\ deque[w] # <<>> \/ SPLITTABLE(Current(w))

ShareSend(w) ==
    /\ pc[w] = "share"
    /\ CanShare(w)
    /\ LET r == Head(work_sharing_requests[w])
       IN  /\ \/ deque[w] # <<>> /\ SendLoot(w, r)
              \/ deque[w] = <<>> /\ split_loop(w, Current(w), r)
           /\ idle' = [idle EXCEPT ![w] = MarkBusy(@, r.id)]
    /\ Goto(w, "signal")
    /\ UNCHANGED <<protocol, work_sharing_requests, control>>

\* The backoff lock of c is held by c itself from before it sends its failed
\* request until pthread_cond_wait releases it.
Locked(c) == pc[c] \in {"waitpeek", "presleep"}

\* pthread_cond_signal
Woken(c) == [pc EXCEPT ![c] = IF @ = "asleep" THEN "woken" ELSE @]

\* Variant: signals without taking the lock.
SIGNAL_nolock(w, c, next) ==
    pc' = [Woken(c) EXCEPT ![w] = next]

\* SIGNAL(c), after which worker w goes on at next: wakes c if it sleeps.
SIGNAL(w, c, next) ==
    /\ ~Locked(c)
    /\ pc' = [Woken(c) EXCEPT ![w] = next]

\* Variant: the answered request stays in the queue.
DEQUEUE_WORK_SHARING_REQUEST_keep(w) == UNCHANGED work_sharing_requests

DEQUEUE_WORK_SHARING_REQUEST(w) ==
    work_sharing_requests' = [work_sharing_requests EXCEPT ![w] = Tail(@)]

ShareSignal(w) ==
    /\ pc[w] = "signal"
    /\ SIGNAL(w, Head(work_sharing_requests[w]).id, "share")
    /\ DEQUEUE_WORK_SHARING_REQUEST(w)
    /\ UNCHANGED <<protocol, work, idle, control>>

\* run_task; ASYNC_FOR begins with cur++.
Start(w) ==
    /\ stack' = [stack EXCEPT ![w] =
                    <<[task |-> hand[w], at |-> "body", fut |-> NoTask]>> \o @]
    /\ tasks' = [tasks EXCEPT
                    ![hand[w]].status = "running",
                    ![hand[w]].left = IF tasks[hand[w]].splittable
                                      THEN @ - 1 ELSE @]
    /\ hand' = [hand EXCEPT ![w] = NoTask]

\* share_work returns to RT_push or RT_pop, which look for requests, or to
\* RT_poll, which peeks (PEEK_REQ) at the channels of the whole subtree first.
ShareDone(w) ==
    /\ pc[w] = "share"
    /\ ~CanShare(w)
    /\ op[w] # "loot"
    /\ Goto(w, IF op[w] = "poll"
                  /\ \A c \in Subtree[w] : chan_requests[c] = <<>>
               THEN "body" ELSE "serve")
    /\ UNCHANGED <<protocol, work, lifeline, control>>

\* share_work returns after tasks have been received, and one is run.
ShareDoneRun(w) ==
    /\ pc[w] = "share"
    /\ ~CanShare(w)
    /\ op[w] = "loot"
    /\ hand[w] # ExitFn
    /\ Start(w)
    /\ Goto(w, "body")
    /\ UNCHANGED <<protocol, deque, chan_tasks, lifeline, op, todo>>

-----------------------------------------------------------------------------
(* RT_pop and what follows it *)

\* Variant: pops only children, also in a barrier.
CanPop_child(w) ==
    /\ deque[w] # <<>>
    /\ stack[w] # <<>> => tasks[Head(deque[w])].parent = Current(w)

\* deque_pop, or deque_pop of a child in the first loop of RT_force_future
CanPop(w) ==
    /\ deque[w] # <<>>
    /\ At(w) = "force1" => tasks[Head(deque[w])].parent = Current(w)

RT_pop(w) ==
    LET d  == deque[w]
        ok == CanPop(w)
        rest == IF ok THEN Tail(d) ELSE d
    IN  /\ pc[w] = "pop"
        /\ deque' = [deque EXCEPT ![w] = rest]
        /\ hand' = [hand EXCEPT ![w] = IF ok THEN Head(d) ELSE NoTask]
        \* try_steal
        /\ IF ok /\ ~tasks[Head(d)].splittable /\ N > 1 /\ rest = <<>>
           THEN try_send_steal_request(w, WORKING)
           ELSE UNCHANGED <<chan_requests, requested, channel_stack>>
        /\ op' = [op EXCEPT ![w] = "pop"]
        /\ Goto(w, "share")
        /\ UNCHANGED <<dropped, waiting, quiescent, chan_tasks, tasks,
                       lifeline, stack, todo>>

\* RT_pop returned a task, which is run.
RunPopped(w) ==
    /\ NoRequest(w)
    /\ op[w] = "pop"
    /\ hand[w] # NoTask
    /\ Start(w)
    /\ Goto(w, "body")
    /\ UNCHANGED <<protocol, deque, chan_tasks, lifeline, op, todo>>

\* Variant: a barrier ends as soon as the master runs out of tasks.
NothingLeft_local(w) == At(w) = "barrier"

\* The barrier has nothing to wait for.
NothingLeft(w) == At(w) = "barrier" /\ (N = 1 \/ quiescent)

\* RT_pop returned NULL: schedule and RT_barrier turn to stealing, unless the
\* barrier has nothing to wait for; RT_force_future enters its second loop.
PopFailed(w) ==
    /\ NoRequest(w)
    /\ op[w] = "pop"
    /\ hand[w] = NoTask
    /\ quiescent' = (quiescent \/ NothingLeft(w))
    /\ Goto(w, IF NothingLeft(w) THEN "leave"
               ELSE IF Forcing(w) THEN "ready" ELSE "idle")
    /\ stack' = IF Forcing(w)
                THEN [stack EXCEPT ![w][1].at = "force2"] ELSE stack
    /\ UNCHANGED <<chan_requests, requested, channel_stack, dropped, waiting,
                   work, lifeline, hand, op, todo>>

\* RT_push or RT_poll returns to the task that called it.
ReturnToBody(w) ==
    /\ NoRequest(w)
    /\ op[w] \in {"push", "poll"}
    /\ Goto(w, "body")
    /\ UNCHANGED <<protocol, work, lifeline, control>>

-----------------------------------------------------------------------------
(* Stealing: the loops of schedule, RT_barrier and RT_force_future *)

\* try_send_steal_request before the loop on RECV_TASK
BeginSteal(w) ==
    /\ pc[w] = "idle"
    /\ try_send_steal_request(w, IDLE)
    /\ Goto(w, "recv")
    /\ UNCHANGED <<dropped, waiting, quiescent, work, lifeline, control>>

\* Variant: the dropped requests are not discounted.
StillRequested_all(w) == (IF waiting[w] THEN 1 ELSE requested[w]) - 1

\* The pending requests once one has been answered
StillRequested(w) ==
    (IF waiting[w] THEN 1 ELSE requested[w] - dropped[w]) - 1

\* RECV_TASK succeeds.  A worker looks at its channels in turn, so that a
\* task arriving behind its back may be left for the next call.
RecvTask(w) ==
    /\ pc[w] = "recv"
    /\ \E c \in Chans :
        /\ chan_tasks[w][c] # <<>>
        /\ hand' = [hand EXCEPT ![w] = Head(chan_tasks[w][c])]
        /\ deque' = [deque EXCEPT ![w] = Tail(chan_tasks[w][c]) \o @]
        /\ chan_tasks' = [chan_tasks EXCEPT ![w][c] = <<>>]
        /\ ChannelPush(w, c)
    /\ requested' = [requested EXCEPT ![w] = StillRequested(w)]
    /\ waiting' = [waiting EXCEPT ![w] = FALSE]
    /\ dropped' = [dropped EXCEPT ![w] = 0]
    /\ op' = [op EXCEPT ![w] = "loot"]
    /\ Goto(w, "share")
    /\ UNCHANGED <<chan_requests, quiescent, tasks, lifeline, stack, todo>>

\* RECV_TASK fails and tries to send another request.
RecvNoTask(w) ==
    /\ pc[w] = "recv"
    /\ \A c \in Chans : chan_tasks[w][c] = <<>>
    /\ try_send_steal_request(w, IF Forcing(w) THEN WORKING ELSE IDLE)
    /\ op' = [op EXCEPT ![w] = IF Forcing(w) THEN "force" ELSE "idle"]
    /\ Goto(w, IF Forcing(w) THEN "resend" ELSE "serve")
    /\ UNCHANGED <<dropped, waiting, quiescent, work, lifeline,
                   hand, stack, todo>>

\* "We might inadvertently remove our own steal request"
Resend(w) ==
    /\ pc[w] = "resend"
    /\ try_send_steal_request(w, WORKING)
    /\ Goto(w, "serve")
    /\ UNCHANGED <<dropped, waiting, quiescent, work, lifeline, control>>

\* Nothing to relay: back to RECV_TASK, in RT_force_future by way of READY.
NothingToRelay(w) ==
    /\ NoRequest(w)
    /\ op[w] \in {"idle", "force"}
    /\ Goto(w, IF op[w] = "idle" THEN "recv" ELSE "ready")
    /\ UNCHANGED <<protocol, work, lifeline, control>>

\* READY in RT_force_future
Ready(w) == tasks[Head(stack[w]).fut].status = "done"

ForceReady(w) ==
    /\ pc[w] = "ready"
    /\ Ready(w)
    /\ tasks' = [tasks EXCEPT ![Head(stack[w]).fut].joined = TRUE]
    /\ stack' = [stack EXCEPT ![w][1].at = "body", ![w][1].fut = NoTask]
    /\ Goto(w, "body")
    /\ UNCHANGED <<protocol, deque, chan_tasks, lifeline, hand, op, todo>>

\* Not READY: the first loop pops children, the second one steals; its inner
\* loop (op = "force") goes straight back to RECV_TASK.
ForceNotReady(w) ==
    /\ pc[w] = "ready"
    /\ ~Ready(w)
    /\ IF At(w) = "force2" /\ op[w] # "force"
       THEN try_send_steal_request(w, WORKING)
       ELSE UNCHANGED <<chan_requests, requested, channel_stack>>
    /\ Goto(w, IF At(w) = "force1" THEN "pop" ELSE "recv")
    /\ UNCHANGED <<dropped, waiting, quiescent, work, lifeline, control>>

-----------------------------------------------------------------------------
(* WAIT: while (!peek(chan_tasks[ID])) pthread_cond_wait(...) *)

WaitPeek(w) ==
    /\ pc[w] = "waitpeek"
    /\ Goto(w, IF \A c \in Chans : chan_tasks[w][c] = <<>> THEN "presleep"
               ELSE IF op[w] = "idle" THEN "recv" ELSE "serve")
    /\ UNCHANGED <<protocol, work, lifeline, control>>

\* pthread_cond_wait releases the lock and sleeps in one step ...
Sleep(w) ==
    /\ pc[w] = "presleep"
    /\ Goto(w, "asleep")
    /\ UNCHANGED <<protocol, work, lifeline, control>>

\* ... may return without a signal ...
SpuriousWakeup(w) ==
    /\ pc[w] = "asleep"
    /\ Goto(w, "woken")
    /\ UNCHANGED <<protocol, work, lifeline, control>>

\* ... and takes the lock again before it returns.
Wake(w) ==
    /\ pc[w] = "woken"
    /\ Goto(w, "waitpeek")
    /\ UNCHANGED <<protocol, work, lifeline, control>>

-----------------------------------------------------------------------------
(* The user's program *)

\* The futures that task t has created and not yet awaited; loops are
\* asynchronous tasks without a future.
Unjoined(t) == {f \in 1 .. Len(tasks) : /\ tasks[f].parent = t
                                        /\ ~tasks[f].splittable
                                        /\ ~tasks[f].joined}

\* ASYNC or FUTURE: RT_push(task), n iterations if it is a loop
RT_push(w) ==
    /\ pc[w] = "body"
    /\ Len(tasks) < MaxTasks
    /\ \/ tasks' = Append(tasks, NewTask(Current(w), FALSE, 0))
       \/ \E n \in LoopSizes :
            /\ Strict => Current(w) = Root
            /\ tasks' = Append(tasks, NewTask(Current(w), TRUE, n))
    /\ deque' = [deque EXCEPT ![w] = <<Len(tasks) + 1>> \o @]
    /\ quiescent' = (quiescent /\ w # MASTER_ID)   \* private to the master
    /\ op' = [op EXCEPT ![w] = "push"]
    /\ Goto(w, "share")
    /\ UNCHANGED <<chan_requests, requested, channel_stack, dropped, waiting,
                   chan_tasks, lifeline, hand, stack, todo>>

\* AWAIT: RT_force_future
RT_force_future(w) ==
    /\ pc[w] = "body"
    /\ \E f \in Unjoined(Current(w)) :
        stack' = [stack EXCEPT ![w][1].at = "force1", ![w][1].fut = f]
    /\ Goto(w, "ready")
    /\ UNCHANGED <<protocol, work, lifeline, hand, op, todo>>

\* TASKING_POLL, called by the user
RT_poll(w) ==
    /\ pc[w] = "body"
    /\ UserPolls
    /\ op' = [op EXCEPT ![w] = "poll"]
    /\ Goto(w, "share")
    /\ UNCHANGED <<protocol, work, lifeline, hand, stack, todo>>

\* ASYNC_FOR: the end of an iteration, with the poll that follows it
EndIteration(w) ==
    /\ pc[w] = "body"
    /\ tasks[Current(w)].splittable
    /\ tasks[Current(w)].left >= 0
    /\ tasks' = [tasks EXCEPT ![Current(w)].left = @ - 1]
    /\ op' = [op EXCEPT ![w] = "poll"]
    /\ Goto(w, "share")
    /\ UNCHANGED <<protocol, deque, chan_tasks, lifeline, hand, stack, todo>>

\* The task's function returns to run_task.
TaskReturn(w) ==
    /\ pc[w] = "body"
    /\ Current(w) # Root
    /\ tasks[Current(w)].splittable => tasks[Current(w)].left = -1
    /\ Strict => Unjoined(Current(w)) = {}
    /\ tasks' = [tasks EXCEPT ![Current(w)].status = "done"]
    /\ stack' = [stack EXCEPT ![w] = Tail(@)]
    /\ Goto(w, IF Len(stack[w]) > 1 /\ stack[w][2].at \in {"force1", "force2"}
               THEN "ready" ELSE "pop")
    /\ op' = [op EXCEPT ![w] = "loot"]
    /\ UNCHANGED <<protocol, deque, chan_tasks, lifeline, hand, todo>>

\* TASKING_BARRIER, called by the root task
RT_barrier(w) ==
    /\ pc[w] = "body"
    /\ Current(w) = Root
    /\ stack' = [stack EXCEPT ![w][1].at = "barrier"]
    /\ Goto(w, "pop")
    /\ UNCHANGED <<protocol, work, lifeline, hand, op, todo>>

\* The barrier returns; TASKING_EXIT is a barrier followed by tasking_exit.
BarrierReturn(w) ==
    /\ pc[w] = "leave"
    /\ stack' = [stack EXCEPT ![w][1].at = "body"]
    /\ \/ Goto(w, "body") /\ UNCHANGED todo
       \/ Goto(w, "exit") /\ todo' = [todo EXCEPT ![w] = Children(w)]
    /\ UNCHANGED <<protocol, work, lifeline, hand, op>>

-----------------------------------------------------------------------------
(* RT_EXIT_FN: run by the master, and by the others as a task they receive *)

\* share_work returns after the exit pseudo-task has been received.
ShareDoneExit(w) ==
    /\ pc[w] = "share"
    /\ ~CanShare(w)
    /\ op[w] = "loot"
    /\ hand[w] = ExitFn
    /\ hand' = [hand EXCEPT ![w] = NoTask]
    /\ todo' = [todo EXCEPT ![w] = Children(w)]
    /\ Goto(w, "exit")
    /\ UNCHANGED <<protocol, work, lifeline, stack, op>>

\* async_action(RT_EXIT_FN, chan_tasks[child][0])
NotifyExit(w) ==
    /\ pc[w] = "exit"
    /\ todo[w] # {}
    /\ chan_tasks' = [chan_tasks EXCEPT ![Minimum(todo[w])][1] =
                        IF @ = <<>> THEN <<ExitFn>> ELSE @]
    /\ Goto(w, "exitsignal")
    /\ UNCHANGED <<protocol, deque, tasks, lifeline, control>>

SignalExit(w) ==
    /\ pc[w] = "exitsignal"
    /\ SIGNAL(w, Minimum(todo[w]), "exit")
    /\ todo' = [todo EXCEPT ![w] = @ \ {Minimum(@)}]
    /\ UNCHANGED <<protocol, work, lifeline, hand, stack, op>>

\* tasking_finished = true
ExitDone(w) ==
    /\ pc[w] = "exit"
    /\ todo[w] = {}
    /\ Goto(w, "finished")
    /\ UNCHANGED <<protocol, work, lifeline, control>>

-----------------------------------------------------------------------------
Init ==
    /\ chan_requests = [w \in Workers |-> <<>>]
    /\ chan_tasks = [w \in Workers |-> [c \in Chans |-> <<>>]]
    /\ channel_stack = [w \in Workers |-> [c \in Chans |-> c]]
    /\ requested = [w \in Workers |-> 0]
    /\ dropped = [w \in Workers |-> 0]
    /\ waiting = [w \in Workers |-> FALSE]
    /\ idle = [w \in Workers |-> {}]
    /\ work_sharing_requests = [w \in Workers |-> <<>>]
    /\ quiescent = FALSE
    /\ deque = [w \in Workers |-> <<>>]
    /\ tasks = <<[NewTask(NoTask, FALSE, 0) EXCEPT !.status = "running"]>>
    /\ hand = [w \in Workers |-> NoTask]
    /\ stack = [w \in Workers |->
                    IF w = MASTER_ID
                    THEN <<[task |-> Root, at |-> "body", fut |-> NoTask]>>
                    ELSE <<>>]
    /\ pc = [w \in Workers |-> IF w = MASTER_ID THEN "body" ELSE "pop"]
    /\ op = [w \in Workers |-> "pop"]
    /\ todo = [w \in Workers |-> {}]

\* The steps of the runtime itself
Scheduler(w) ==
    \/ RecvFailed(w) \/ RecvOwn(w) \/ StartBehalf(w) \/ RecvBehalf(w)
    \/ ShareSend(w) \/ ShareSignal(w) \/ ShareDone(w) \/ ShareDoneRun(w)
    \/ RT_pop(w) \/ RunPopped(w) \/ PopFailed(w) \/ ReturnToBody(w)
    \/ BeginSteal(w) \/ RecvTask(w) \/ RecvNoTask(w) \/ Resend(w)
    \/ NothingToRelay(w) \/ ForceReady(w) \/ ForceNotReady(w)
    \/ WaitPeek(w) \/ Sleep(w) \/ Wake(w) \/ BarrierReturn(w)
    \/ ShareDoneExit(w) \/ NotifyExit(w) \/ SignalExit(w) \/ ExitDone(w)

\* The steps of the user's program
User(w) ==
    \/ RT_push(w) \/ RT_force_future(w) \/ RT_poll(w) \/ EndIteration(w)
    \/ TaskReturn(w) \/ RT_barrier(w)

Finished == \A w \in Workers : pc[w] = "finished"

\* All threads have been joined.
Terminated == Finished /\ UNCHANGED vars

Next ==
    \/ \E w \in Workers : Scheduler(w) \/ User(w) \/ SpuriousWakeup(w)
    \/ Terminated

Spec == Init /\ [][Next]_vars

\* Every thread keeps running: the operating system schedules all of them.
ThreadsRun == \A w \in Workers : WF_vars(Scheduler(w) \/ User(w))

\* The functions of the user's tasks end, however often they poll.
TasksEnd == \A w \in Workers : SF_vars(TaskReturn(w))

FairSpec == Spec /\ ThreadsRun

PollingFairSpec == FairSpec /\ TasksEnd
=============================================================================
