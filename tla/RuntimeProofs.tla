--------------------------- MODULE RuntimeProofs ----------------------------
(***************************************************************************)
(* Proofs about Runtime, for any number of workers, any MAXSTEAL, and any  *)
(* program: the scheduler keeps its types, with the facts about its        *)
(* control flow that this rests on, and a worker that looks for tasks      *)
(* elsewhere has none itself.                                              *)
(***************************************************************************)
EXTENDS RuntimeProperties, SequenceTheorems, WellFoundedInduction, TLAPS

-----------------------------------------------------------------------------
(* The inductive invariant *)

ProtocolOK ==
    /\ chan_requests \in [Workers -> Seq(Request)]
    /\ requested \in [Workers -> Int]
    /\ channel_stack \in [Workers -> Seq(Chans)]
    /\ dropped \in [Workers -> Nat]
    /\ waiting \in [Workers -> BOOLEAN]
    /\ quiescent \in BOOLEAN

WorkOK ==
    /\ chan_tasks \in [Workers -> [Chans -> Seq(TaskIds) \cup {<<ExitFn>>}]]
    /\ deque \in [Workers -> Seq(TaskIds)]
    /\ tasks \in Seq(TaskRecord)

LifelineOK ==
    /\ idle \in [Workers -> SUBSET Workers]
    /\ work_sharing_requests \in [Workers -> Seq(Request)]

RunOK ==
    /\ hand \in [Workers -> TaskIds \cup {NoTask, ExitFn}]
    /\ stack \in [Workers -> Seq(Frame)]
    /\ \A w \in Workers : \A i \in DOMAIN stack[w] : stack[w][i].task \in TaskIds

ControlOK ==
    /\ pc \in [Workers -> Labels]
    /\ op \in [Workers -> {"push", "pop", "poll", "idle", "force", "loot"}]
    /\ todo \in [Workers -> SUBSET Workers]

\* RT_EXIT_FN is in worker w's hand only while it shares its loot, and while it
\* does, something is.
HandInv(w) ==
    /\ hand[w] = ExitFn => op[w] = "loot" /\ pc[w] \in {"share", "signal"}
    /\ op[w] = "loot" /\ pc[w] \in {"share", "signal"} => hand[w] # NoTask

\* Inside a task's function, and in the runtime routines called from one,
\* get_current_task() is not NULL.
StackInv(w) ==
    (pc[w] \in {"body", "ready", "leave"} \/ op[w] \in {"push", "poll", "force"})
        => stack[w] # <<>>

\* The master never leaves its root task.
RootInv(w) ==
    w = MASTER_ID => /\ stack[w] # <<>>
                     /\ stack[w][Len(stack[w])].task = Root

\* A worker signals a child whose request it has just answered.
SignalInv(w) == pc[w] = "signal" => work_sharing_requests[w] # <<>>

LocalInv(w) == HandInv(w) /\ StackInv(w) /\ RootInv(w) /\ SignalInv(w)

Inv ==
    /\ ProtocolOK /\ WorkOK /\ LifelineOK /\ RunOK /\ ControlOK
    /\ \A w \in Workers : LocalInv(w)

-----------------------------------------------------------------------------
(* Operators *)

\* A nonempty set of natural numbers has a minimum.
LEMMA MinimumIsElement ==
    ASSUME NEW S \in SUBSET Nat, S # {}
    PROVE  Minimum(S) \in S /\ \A y \in S : Minimum(S) <= y
<1> DEFINE R == {ss \in Nat \X Nat : ss[1] < ss[2]}
<1>1. IsWellFoundedOn(R, Nat)
  BY NatLessThanWellFounded, Zenon DEF OpToRel
<1>2. \E x \in S : \A y \in S : <<y, x>> \notin R
  <2> HIDE DEF R
  <2> QED BY <1>1, WFMin, Zenon
<1>3. PICK x \in S : \A y \in S : <<y, x>> \notin R
  BY <1>2
<1>4. ASSUME NEW y \in S
      PROVE  x <= y
  <2>1. <<y, x>> \in Nat \X Nat /\ <<y, x>>[1] = y /\ <<y, x>>[2] = x
    OBVIOUS
  <2> QED BY <1>3, <2>1
<1> QED BY <1>4 DEF Minimum

\* The children and the subtree of a worker are workers.
LEMMA TreeType ==
    /\ \A w \in Workers : Children(w) \subseteq Workers
    /\ Subtree \in [Workers -> SUBSET Workers]
<1>1. ASSUME NEW w \in Workers
      PROVE  Children(w) \subseteq Workers
  BY NAssumption DEF Children, left_child, right_child, NoWorker, Workers
<1>2. Subtree \in [Workers -> SUBSET Workers]
  BY DEF Subtree
<1> QED BY <1>1, <1>2

\* A worker answers for workers of the tree only.
LEMMA IdleSubtreesType ==
    ASSUME LifelineOK, NEW w \in Workers
    PROVE  IdleSubtrees(w) \subseteq Workers
BY TreeType DEF IdleSubtrees, LifelineOK

\* The worker whose channel RECV_REQ looks at next is one of those left.
LEMMA NextInScanType ==
    ASSUME ControlOK, NEW w \in Workers, todo[w] # {}
    PROVE  NextInScan(w) \in Workers
<1> DEFINE left == IF left_child(w) \in idle[w]
                   THEN todo[w] \cap Subtree[left_child(w)] ELSE {}
           S == IF left # {} THEN left ELSE todo[w]
<1>1. S # {} /\ S \subseteq Workers
  BY DEF ControlOK
<1>2. S \in SUBSET Nat
  BY <1>1, NAssumption DEF Workers
<1>3. Minimum(S) \in S
  BY <1>1, <1>2, MinimumIsElement
<1> QED BY <1>1, <1>3 DEF NextInScan

\* Passing a request on changes none of its fields but the victims.
LEMMA NextVictimType ==
    ASSUME NEW w \in Workers, NEW r \in Request
    PROVE  next_victim(w, r) \in Request
BY DEF next_victim, Request

\* Removing a request from a channel yields a request and leaves requests.
LEMMA TakeType ==
    ASSUME ProtocolOK, NEW c \in Workers, chan_requests[c] # <<>>
    PROVE  /\ Head(chan_requests[c]) \in Request
           /\ [chan_requests EXCEPT ![c] = Tail(@)] \in [Workers -> Seq(Request)]
<1>1. chan_requests[c] \in Seq(Request)
  BY DEF ProtocolOK
<1>2. Head(chan_requests[c]) \in Request /\ Tail(chan_requests[c]) \in Seq(Request)
  BY <1>1, HeadTailProperties
<1> QED BY <1>2 DEF ProtocolOK

\* Sending a request keeps the type of the request channels.
LEMMA DeliverType ==
    ASSUME NEW q \in [Workers -> Seq(Request)], NEW v, NEW r \in Request
    PROVE  Deliver(q, v, r) \in [Workers -> Seq(Request)]
<1>1. \A x \in Workers : Append(q[x], r) \in Seq(Request)
  BY AppendProperties
<1> QED BY <1>1 DEF Deliver

\* CHANNEL_PUSH keeps the type of the stack of free channels.
LEMMA ChannelPushType ==
    ASSUME ProtocolOK, NEW w \in Workers, NEW c \in Chans, ChannelPush(w, c)
    PROVE  channel_stack' \in [Workers -> Seq(Chans)]
<1>1. Append(channel_stack[w], c) \in Seq(Chans)
  BY AppendProperties DEF ProtocolOK
<1> QED BY <1>1 DEF ChannelPush, ProtocolOK

\* STEAL_REQUEST_INIT, next_victim and SEND_REQ_WORKER
LEMMA TrySendType ==
    ASSUME ProtocolOK, NEW w \in Workers, NEW s \in {WORKING, IDLE, FAILED},
           try_send_steal_request(w, s)
    PROVE  /\ chan_requests' \in [Workers -> Seq(Request)]
           /\ requested' \in [Workers -> Int]
           /\ channel_stack' \in [Workers -> Seq(Chans)]
<1>1. CASE requested[w] >= MAXSTEAL
            /\ UNCHANGED <<chan_requests, requested, channel_stack>>
  BY <1>1 DEF ProtocolOK
<1>2. CASE /\ ChannelPop(w)
           /\ \E half \in StealHalf :
                LET r == next_victim(w, NewRequest(w, s, half))
                IN  \E v \in Victims(r) :
                        chan_requests' = Deliver(chan_requests, v, r)
           /\ requested' = [requested EXCEPT ![w] = @ + 1]
  <2> DEFINE cs == channel_stack[w]
  <2>1. cs \in Seq(Chans) /\ cs # <<>> /\ Len(cs) \in Nat \ {0}
    BY <1>2, EmptySeq DEF ProtocolOK, ChannelPop
  <2>2. SubSeq(cs, 1, Len(cs) - 1) \in Seq(Chans)
    BY <2>1, SubSeqProperties, ElementOfSeq
  <2>3. cs[Len(cs)] \in Chans
    BY <2>1, ElementOfSeq
  <2>4. \A half \in StealHalf : NewRequest(w, s, half) \in Request
    BY <2>3, RuntimeAssumption DEF NewRequest, Request
  <2>5. chan_requests' \in [Workers -> Seq(Request)]
    <3>1. PICK half \in StealHalf :
            \E v \in Victims(next_victim(w, NewRequest(w, s, half))) :
                chan_requests' = Deliver(chan_requests, v,
                                         next_victim(w, NewRequest(w, s, half)))
      BY <1>2
    <3>2. next_victim(w, NewRequest(w, s, half)) \in Request
      BY <2>4, NextVictimType
    <3>3. chan_requests \in [Workers -> Seq(Request)]
      BY DEF ProtocolOK
    <3> QED BY <3>1, <3>2, <3>3, DeliverType
  <2>6. requested' \in [Workers -> Int]
    BY <1>2 DEF ProtocolOK
  <2>7. channel_stack' \in [Workers -> Seq(Chans)]
    BY <1>2, <2>2 DEF ProtocolOK, ChannelPop
  <2> QED BY <2>5, <2>6, <2>7
<1> QED BY <1>1, <1>2 DEF try_send_steal_request

-----------------------------------------------------------------------------
(* Handling a request.  Where the worker goes on: at the label it is told, in *)
(* WAIT, or, for the master that has detected termination, out of the barrier. *)

Moves(w, next) ==
    \E l \in Labels :
        /\ pc' = [pc EXCEPT ![w] = l]
        /\ l \in {next, "waitpeek"} \/ (l = "leave" /\ w = MASTER_ID)

\* FORGET_REQ keeps the protocol state well typed and touches no task.
LEMMA ForgetType ==
    ASSUME ProtocolOK, NEW w \in Workers, NEW r \in Request,
           NEW q \in [Workers -> Seq(Request)], NEW next \in Labels,
           FORGET_REQ(w, r, q, next)
    PROVE  ProtocolOK' /\ Moves(w, next) /\ UNCHANGED work
<1>1. r.chan \in Chans
  BY DEF Request
<1>2. channel_stack' \in [Workers -> Seq(Chans)]
  BY <1>1, ChannelPushType DEF FORGET_REQ
<1>3. requested' \in [Workers -> Int]
  BY DEF FORGET_REQ, ProtocolOK
<1>4. Moves(w, next)
  BY DEF FORGET_REQ, Moves, Goto
<1> QED BY <1>2, <1>3, <1>4 DEF FORGET_REQ, ProtocolOK

\* Passing a request on keeps the protocol state well typed and touches no task.
LEMMA PassOnType ==
    ASSUME ProtocolOK, NEW w \in Workers, NEW r \in Request,
           NEW q \in [Workers -> Seq(Request)], NEW next \in Labels,
           PassOn(w, r, q, next)
    PROVE  ProtocolOK' /\ Moves(w, next) /\ UNCHANGED work
<1>1. PICK v : chan_requests' = Deliver(q, v, next_victim(w, r))
  BY DEF PassOn, SendOn
<1>2. chan_requests' \in [Workers -> Seq(Request)]
  BY <1>1, NextVictimType, DeliverType
<1> QED BY <1>2 DEF PassOn, ProtocolOK, Moves, Goto

\* decline_steal_request, whatever it decides, keeps the protocol state well
\* typed, leaves the worker where it may go on, and touches no task.
LEMMA DeclineType ==
    ASSUME ProtocolOK, NEW w \in Workers, NEW req \in Request,
           NEW q \in [Workers -> Seq(Request)], NEW next \in Labels,
           decline_steal_request(w, req, q, next)
    PROVE  ProtocolOK' /\ Moves(w, next) /\ UNCHANGED work
<1> DEFINE r == [req EXCEPT !.try = @ + 1]
<1>1. r \in Request
  <2>1. req.try + 1 \in Nat
    BY DEF Request
  <2> QED BY <2>1, Zenon DEF Request
<1>2. r.chan \in Chans
  BY <1>1 DEF Request
<1> HIDE DEF r
<1>3. CASE PassOn(w, r, q, next)
  BY <1>1, <1>3, PassOnType
<1>4. CASE w = MASTER_ID /\ detect_termination(w, r, q, next)
  <2>1. channel_stack' \in [Workers -> Seq(Chans)]
    BY <1>2, <1>4, ChannelPushType DEF detect_termination
  <2>2. Moves(w, next)
    BY <1>4 DEF detect_termination, Moves, Goto, Labels
  <2>3. requested' \in [Workers -> Int]
    BY <1>4 DEF detect_termination, ProtocolOK
  <2> QED BY <1>4, <2>1, <2>2, <2>3 DEF detect_termination, ProtocolOK
<1>5. CASE BackOff(w, r, q)
  <2>1. [r EXCEPT !.state = FAILED] \in Request
    BY <1>1 DEF Request
  <2>2. chan_requests' \in [Workers -> Seq(Request)]
    BY <1>5, <2>1, DeliverType DEF BackOff, SendOn
  <2>3. Moves(w, next)
    BY <1>5 DEF BackOff, Moves, Goto, Labels
  <2> QED BY <1>5, <2>2, <2>3 DEF BackOff, ProtocolOK
<1>6. CASE Drop(w, r, q, next)
  <2>1. channel_stack' \in [Workers -> Seq(Chans)]
    BY <1>2, <1>6, ChannelPushType DEF Drop
  <2>2. Moves(w, next)
    BY <1>6 DEF Drop, Moves, Goto
  <2>3. dropped' \in [Workers -> Nat]
    BY <1>6 DEF Drop, ProtocolOK
  <2> QED BY <1>6, <2>1, <2>2, <2>3 DEF Drop, ProtocolOK
<1>7. CASE Recirculate(w, r, q, next)
  <2>1. Renewed(r) \in Request
    BY <1>1 DEF Renewed, Request
  <2> QED BY <1>1, <1>7, <2>1, ForgetType, PassOnType DEF Recirculate
<1> QED BY <1>3, <1>4, <1>5, <1>6, <1>7 DEF decline_steal_request, r

-----------------------------------------------------------------------------
(* Answering a request.  Tasks are never forgotten, so that references to   *)
(* them stay valid.                                                         *)

Grown == TaskIds \subseteq TaskIds'

\* channel_send of a list of existing tasks keeps the type of the task channels.
LEMMA SendTasksType ==
    ASSUME WorkOK, Grown, NEW r \in Request, NEW list \in Seq(TaskIds'),
           SendTasks(r, list)
    PROVE  chan_tasks' \in [Workers -> [Chans -> Seq(TaskIds') \cup {<<ExitFn>>}]]
<1> DEFINE T == Seq(TaskIds') \cup {<<ExitFn>>}
<1>1. \A s \in Seq(TaskIds) : s \in Seq(TaskIds')
  BY SeqMonotonic DEF Grown
<1>2. chan_tasks \in [Workers -> [Chans -> T]]
  BY <1>1 DEF WorkOK
<1>3. list \in T
  OBVIOUS
<1> HIDE DEF T
<1>4. chan_tasks' \in [Workers -> [Chans -> T]]
  BY <1>2, <1>3 DEF SendTasks
<1> QED BY <1>4 DEF T

\* A deque of existing tasks remains one when tasks are created.
LEMMA DequesGrow ==
    ASSUME WorkOK, Grown
    PROVE  deque \in [Workers -> Seq(TaskIds')]
<1>1. \A s \in Seq(TaskIds) : s \in Seq(TaskIds')
  BY SeqMonotonic DEF Grown
<1> QED BY <1>1 DEF WorkOK

\* Steps that touch no task keep the work well typed.
LEMMA UnchangedWork ==
    ASSUME WorkOK, UNCHANGED work
    PROVE  WorkOK' /\ Grown
BY DEF WorkOK, Grown, work, TaskIds

\* deque_steal and deque_steal_half send tasks that exist, and leave such.
LEMMA SendLootType ==
    ASSUME WorkOK, NEW w \in Workers, NEW r \in Request, deque[w] # <<>>,
           SendLoot(w, r)
    PROVE  WorkOK' /\ Grown
<1> DEFINE d == deque[w]
           k == Len(d) - LootSize(w, r)
<1>1. d \in Seq(TaskIds) /\ d # <<>> /\ Len(d) \in Nat \ {0}
  BY EmptySeq DEF WorkOK
<1>2. LootSize(w, r) \in 1 .. Len(d)
  <2>1. \A n \in Nat : n >= 2 => n \div 2 \in 1 .. n
    OBVIOUS
  <2>2. LootSize(w, r) = 1 \/ (Len(d) >= 2 /\ LootSize(w, r) = Len(d) \div 2)
    BY Zenon DEF LootSize
  <2> HIDE DEF d
  <2> QED BY <1>1, <2>1, <2>2
<1>3. k \in 0 .. Len(d)
  BY <1>1, <1>2
<1>4. UNCHANGED tasks /\ TaskIds' = TaskIds /\ Grown
  BY DEF SendLoot, TaskIds, Grown
<1> HIDE DEF k
<1>5. Rest(d, k) \in Seq(TaskIds) /\ Loot(d, k) \in Seq(TaskIds)
  <2>1. \A i \in 1 .. Len(d) : d[i] \in TaskIds
    BY <1>1, ElementOfSeq
  <2>2. \A i \in 1 .. k : d[i] \in TaskIds
    BY <2>1, <1>1, <1>3
  <2>3. \A i \in k + 1 .. Len(d) : d[i] \in TaskIds
    BY <2>1, <1>1, <1>3
  <2>4. k \in Int /\ k + 1 \in Int /\ Len(d) \in Int /\ 1 \in Int
    BY <1>1, <1>3
  <2>5. SubSeq(d, 1, k) \in Seq(TaskIds)
    BY <2>2, <2>4, SubSeqProperties
  <2>6. SubSeq(d, k + 1, Len(d)) \in Seq(TaskIds)
    BY <2>3, <2>4, SubSeqProperties
  <2> QED BY <2>5, <2>6 DEF Rest, Loot
<1>6. SendTasks(r, Loot(d, k)) /\ deque' = [deque EXCEPT ![w] = Rest(d, k)]
  BY DEF SendLoot, k
<1>7. deque' \in [Workers -> Seq(TaskIds')]
  BY <1>4, <1>5, <1>6 DEF WorkOK
<1>8. chan_tasks' \in [Workers -> [Chans -> Seq(TaskIds') \cup {<<ExitFn>>}]]
  BY <1>4, <1>5, <1>6, SendTasksType
<1> QED BY <1>4, <1>7, <1>8 DEF WorkOK

\* Splitting loop t adds the task for the iterations given away.
LEMMA SplitLoopType ==
    ASSUME WorkOK, NEW w \in Workers, NEW r \in Request, NEW t \in TaskIds,
           split_loop(w, t, r)
    PROVE  WorkOK' /\ Grown
<1>1. tasks \in Seq(TaskRecord) /\ tasks[t] \in TaskRecord /\ Len(tasks) \in Nat
      /\ t \in 1 .. Len(tasks)
  BY ElementOfSeq, LenProperties DEF WorkOK, TaskIds
<1>2. tasks[t].left \in Int
  BY <1>1 DEF TaskRecord
<1>3. PICK chunk \in 1 .. tasks[t].left - 1 :
        tasks' = Append([tasks EXCEPT ![t].left = @ - chunk],
                        [tasks[t] EXCEPT !.left = chunk, !.status = "ready"])
  BY DEF split_loop
<1>4. chunk \in Int /\ tasks[t].left - chunk \in Int
  BY <1>2, <1>3
<1> DEFINE mine == [tasks[t] EXCEPT !.left = @ - chunk]
           dup  == [tasks[t] EXCEPT !.left = chunk, !.status = "ready"]
           rest == [tasks EXCEPT ![t] = mine]
<1>5. mine \in TaskRecord /\ dup \in TaskRecord
  BY <1>1, <1>4, Zenon DEF TaskRecord
<1>6. tasks' = Append(rest, dup)
  BY <1>3
<1> HIDE DEF mine, dup
<1>7. rest \in Seq(TaskRecord) /\ Len(rest) = Len(tasks)
  BY <1>1, <1>5, ExceptSeq
<1> HIDE DEF rest
<1>8. tasks' \in Seq(TaskRecord) /\ Len(tasks') = Len(tasks) + 1
  BY <1>5, <1>6, <1>7, AppendProperties
<1>9. Grown /\ Len(tasks) + 1 \in TaskIds'
  BY <1>1, <1>8 DEF Grown, TaskIds
<1>10. chan_tasks' \in [Workers -> [Chans -> Seq(TaskIds') \cup {<<ExitFn>>}]]
  <2>1. <<Len(tasks) + 1>> \in Seq(TaskIds')
    BY <1>9
  <2> QED BY <1>9, <2>1, SendTasksType DEF split_loop
<1>11. deque' \in [Workers -> Seq(TaskIds')]
  BY <1>9, DequesGrow DEF split_loop
<1> QED BY <1>8, <1>9, <1>10, <1>11 DEF WorkOK

\* The task being run by a worker exists, if there is one.
LEMMA CurrentType ==
    ASSUME RunOK, NEW w \in Workers
    PROVE  /\ Current(w) \in TaskIds \cup {NoTask}
           /\ stack[w] # <<>> => Current(w) \in TaskIds
<1>1. CASE stack[w] = <<>>
  BY <1>1 DEF Current
<1>2. CASE stack[w] # <<>>
  <2>1. stack[w] \in Seq(Frame) /\ 1 \in DOMAIN stack[w] /\ Head(stack[w]) = stack[w][1]
    BY <1>2, EmptySeq, LenProperties DEF RunOK
  <2> QED BY <1>2, <2>1 DEF Current, RunOK
<1> QED BY <1>1, <1>2

\* What handling a request does to the state
Handled(w, next) == ProtocolOK' /\ WorkOK' /\ Grown /\ Moves(w, next)

\* handle_steal_request keeps protocol and work well typed.
LEMMA HandleStealRequestType ==
    ASSUME ProtocolOK, WorkOK, NEW w \in Workers, NEW r \in Request,
           NEW q \in [Workers -> Seq(Request)], NEW next \in Labels,
           handle_steal_request(w, r, q, next)
    PROVE  Handled(w, next)
<1>1. CASE FORGET_REQ(w, r, q, next)
  BY <1>1, ForgetType, UnchangedWork DEF Handled
<1>2. CASE decline_steal_request(w, r, q, next)
  BY <1>2, DeclineType, UnchangedWork DEF Handled
<1>3. CASE deque[w] # <<>> /\ SendLoot(w, r) /\ Answered(w, q, next)
  <2>1. WorkOK' /\ Grown
    BY <1>3, SendLootType
  <2>2. ProtocolOK' /\ Moves(w, next)
    BY <1>3 DEF Answered, ProtocolOK, Moves, Goto
  <2> QED BY <2>1, <2>2 DEF Handled
<1> QED BY <1>1, <1>2, <1>3 DEF handle_steal_request

\* Splitting a loop, or forgetting the own request, keeps both well typed.
LEMMA SplitOrForgetType ==
    ASSUME ProtocolOK, WorkOK, NEW w \in Workers, NEW r \in Request,
           NEW t \in TaskIds \cup {NoTask}, SPLITTABLE(t),
           NEW q \in [Workers -> Seq(Request)], NEW next \in Labels,
           SplitOrForget(w, t, r, q, next)
    PROVE  Handled(w, next)
<1>1. CASE FORGET_REQ(w, r, q, next)
  BY <1>1, ForgetType, UnchangedWork DEF Handled
<1>2. CASE split_loop(w, t, r) /\ Answered(w, q, next)
  <2>1. t \in TaskIds
    BY DEF SPLITTABLE, IterationsLeft
  <2>2. WorkOK' /\ Grown
    BY <1>2, <2>1, SplitLoopType
  <2>3. ProtocolOK' /\ Moves(w, next)
    BY <1>2 DEF Answered, ProtocolOK, Moves, Goto
  <2> QED BY <2>2, <2>3 DEF Handled
<1> QED BY <1>1, <1>2 DEF SplitOrForget

\* The loop that received a request handles it, then looks for the next one.
LEMMA DispatchType ==
    ASSUME ProtocolOK, WorkOK, RunOK, NEW w \in Workers, NEW r \in Request,
           NEW q \in [Workers -> Seq(Request)], hand[w] # ExitFn,
           Dispatch(w, r, q)
    PROVE  Handled(w, "serve") \/ Handled(w, "recv")
<1>1. "serve" \in Labels /\ "recv" \in Labels
  BY DEF Labels
<1>2. Current(w) \in TaskIds \cup {NoTask} /\ hand[w] \in TaskIds \cup {NoTask}
  BY CurrentType DEF RunOK
<1>3. CASE handle_steal_request(w, r, q, "serve")
  BY <1>1, <1>3, HandleStealRequestType
<1>4. CASE SPLITTABLE(hand[w]) /\ SplitOrForget(w, hand[w], r, q, "serve")
  BY <1>1, <1>2, <1>4, SplitOrForgetType
<1>5. CASE handle(w, r, q, "serve")
  <2>1. CASE SPLITTABLE(Current(w)) /\ SplitOrForget(w, Current(w), r, q, "serve")
    BY <1>1, <1>2, <2>1, SplitOrForgetType
  <2>2. CASE decline_steal_request(w, r, q, "serve")
    BY <1>1, <2>2, DeclineType, UnchangedWork DEF Handled
  <2> QED BY <1>3, <1>5, <2>1, <2>2 DEF handle
<1>6. ASSUME op[w] = "idle", Dispatch(w, r, q)
      PROVE  Handled(w, "recv")
  <2> DEFINE s == IF r.id = w /\ r.state = WORKING
                  THEN [r EXCEPT !.state = IDLE] ELSE r
  <2>1. s \in Request
    BY Zenon DEF Request
  <2>2. decline_steal_request(w, s, q, "recv")
    BY <1>6 DEF Dispatch
  <2> HIDE DEF s
  <2> QED BY <1>1, <2>1, <2>2, DeclineType, UnchangedWork DEF Handled
<1> QED BY <1>3, <1>4, <1>5, <1>6 DEF Dispatch

-----------------------------------------------------------------------------
(* Preservation of the control facts *)

\* A step of worker w leaves the control of the others alone, but may wake
\* one of them.
LEMMA OthersKeepLocalInv ==
    ASSUME \A v \in Workers : LocalInv(v),
           NEW w \in Workers, LocalInv(w)',
           \A v \in Workers \ {w} :
               /\ hand'[v] = hand[v] /\ stack'[v] = stack[v] /\ op'[v] = op[v]
               /\ work_sharing_requests'[v] = work_sharing_requests[v]
               /\ pc'[v] = pc[v] \/ (pc[v] = "asleep" /\ pc'[v] = "woken")
    PROVE  \A v \in Workers : LocalInv(v)'
<1>1. ASSUME NEW v \in Workers \ {w}
      PROVE  LocalInv(v)'
  <2>1. LocalInv(v)
    OBVIOUS
  <2> QED BY <2>1 DEF LocalInv, HandInv, StackInv, RootInv, SignalInv
<1> QED BY <1>1

\* Tasks being run or about to be run stay tasks.
LEMMA RunGrows ==
    ASSUME RunOK, Grown, UNCHANGED <<hand, stack>>
    PROVE  RunOK'
BY DEF RunOK, Grown

\* A step that only moves worker w from one place to another, neither of
\* which obliges it to anything.
LEMMA MoveKeepsLocalInv ==
    ASSUME \A v \in Workers : LocalInv(v), ControlOK, NEW w \in Workers,
           pc[w] \notin {"share", "signal"}, NEW l,
           l \notin {"share", "signal", "body", "ready"},
           l = "leave" => w = MASTER_ID,
           pc' = [pc EXCEPT ![w] = l],
           UNCHANGED <<hand, stack, op, work_sharing_requests>>
    PROVE  \A v \in Workers : LocalInv(v)'
<1>1. LocalInv(w) /\ pc'[w] = l
  BY DEF ControlOK
<1>2. LocalInv(w)'
  BY <1>1 DEF LocalInv, HandInv, StackInv, RootInv, SignalInv
<1>3. \A v \in Workers \ {w} : pc'[v] = pc[v]
  BY DEF ControlOK
<1> QED BY <1>2, <1>3, OthersKeepLocalInv

\* A worker that moves to a label, or into WAIT, is at a label.
LEMMA MovesType ==
    ASSUME ControlOK, NEW w \in Workers, NEW next \in Labels, Moves(w, next)
    PROVE  pc' \in [Workers -> Labels]
BY DEF Moves, ControlOK

\* Handling a request, as far as the worker's private state is concerned, only
\* moves it.
LEMMA ServeAndRecv ==
    ASSUME Inv, NEW w \in Workers, pc[w] \in {"serve", "behalf"},
           Handled(w, "serve") \/ Handled(w, "recv"),
           todo' \in [Workers -> SUBSET Workers],
           UNCHANGED <<lifeline, hand, stack, op>>
    PROVE  Inv'
<1>1. PICK l \in Labels : /\ pc' = [pc EXCEPT ![w] = l]
                          /\ l \notin {"share", "signal", "body", "ready"}
                          /\ l = "leave" => w = MASTER_ID
  BY DEF Handled, Moves
<1>2. ProtocolOK' /\ WorkOK' /\ Grown
  BY DEF Handled
<1>3. LifelineOK' /\ UNCHANGED work_sharing_requests
  BY DEF Inv, LifelineOK, lifeline
<1>4. RunOK'
  BY <1>2, RunGrows DEF Inv
<1>5. ControlOK'
  BY <1>1 DEF Inv, ControlOK
<1>6. \A v \in Workers : LocalInv(v)'
  BY <1>1, <1>3, MoveKeepsLocalInv DEF Inv
<1> QED BY <1>2, <1>3, <1>4, <1>5, <1>6 DEF Inv

-----------------------------------------------------------------------------
(* The actions of RECV_REQ and of stealing *)

\* RECV_REQ, keeping a child's failed request.
LEMMA RecvFailedInv ==
    ASSUME Inv, NEW w \in Workers, RecvFailed(w)
    PROVE  Inv'
<1> DEFINE r == Head(chan_requests[w])
<1>1. r \in Request /\ chan_requests' \in [Workers -> Seq(Request)]
  BY TakeType DEF RecvFailed, Inv
<1>2. r.id \in Workers
  BY <1>1 DEF Request
<1>3. work_sharing_requests[w] \in Seq(Request)
  BY DEF Inv, LifelineOK
<1>4. /\ Append(work_sharing_requests[w], r) \in Seq(Request)
      /\ Append(work_sharing_requests[w], r) # <<>>
  <2> HIDE DEF r
  <2> QED BY <1>1, <1>3, AppendProperties
<1>5. /\ idle' = [idle EXCEPT ![w] = @ \cup {r.id}]
      /\ work_sharing_requests' =
            [work_sharing_requests EXCEPT ![w] = Append(@, r)]
  BY DEF RecvFailed, MarkIdle
<1> HIDE DEF r
<1>6. LifelineOK'
  BY <1>2, <1>4, <1>5 DEF LifelineOK, Inv
<1>7. ProtocolOK'
  BY <1>1 DEF RecvFailed, ProtocolOK, Inv
<1>8. UNCHANGED <<work, hand, stack, op, todo, pc>>
  BY DEF RecvFailed, control
<1>9. WorkOK' /\ Grown
  BY <1>8, UnchangedWork DEF Inv
<1>10. RunOK' /\ ControlOK'
  BY <1>8, <1>9, RunGrows DEF Inv, ControlOK
<1>11. LocalInv(w) /\ work_sharing_requests'[w] # <<>>
  BY <1>4, <1>5 DEF Inv, LifelineOK
<1>12. LocalInv(w)'
  BY <1>8, <1>11 DEF LocalInv, HandInv, StackInv, RootInv, SignalInv
<1>13. \A v \in Workers \ {w} : work_sharing_requests'[v] = work_sharing_requests[v]
  BY <1>5 DEF Inv, LifelineOK
<1>14. \A v \in Workers : LocalInv(v)'
  BY <1>8, <1>12, <1>13, OthersKeepLocalInv DEF Inv
<1> QED BY <1>6, <1>7, <1>9, <1>10, <1>14 DEF Inv

\* RECV_REQ, receiving from the worker's own channel, with what follows.
LEMMA RecvOwnInv ==
    ASSUME Inv, NEW w \in Workers, RecvOwn(w)
    PROVE  Inv'
<1>1. /\ Head(chan_requests[w]) \in Request
      /\ [chan_requests EXCEPT ![w] = Tail(@)] \in [Workers -> Seq(Request)]
  BY TakeType DEF RecvOwn, Inv
<1>2. hand[w] # ExitFn /\ pc[w] = "serve"
  BY DEF RecvOwn, Inv, LocalInv, HandInv
<1>3. Handled(w, "serve") \/ Handled(w, "recv")
  BY <1>1, <1>2, DispatchType DEF RecvOwn, Inv
<1>4. UNCHANGED <<lifeline, hand, stack, op>> /\ todo' = todo
  BY DEF RecvOwn, control
<1> QED BY <1>2, <1>3, <1>4, ServeAndRecv DEF Inv, ControlOK

\* RECV_REQ, turning to the channels of the idle subtrees.
LEMMA StartBehalfInv ==
    ASSUME Inv, NEW w \in Workers, StartBehalf(w)
    PROVE  Inv'
<1>1. pc' = [pc EXCEPT ![w] = "behalf"] /\ "behalf" \in Labels
  BY DEF StartBehalf, Goto, Labels
<1>2. UNCHANGED <<protocol, work, lifeline, hand, stack, op>>
  BY DEF StartBehalf
<1>3. ProtocolOK' /\ WorkOK' /\ LifelineOK' /\ RunOK'
  BY <1>2, UnchangedWork, RunGrows
     DEF Inv, ProtocolOK, LifelineOK, protocol, lifeline
<1>4. ControlOK'
  BY <1>1, <1>2, IdleSubtreesType DEF Inv, ControlOK, StartBehalf
<1>5. \A v \in Workers : LocalInv(v)'
  BY <1>1, <1>2, MoveKeepsLocalInv DEF Inv, StartBehalf, lifeline
<1> QED BY <1>3, <1>4, <1>5 DEF Inv

\* RECV_REQ, receiving on behalf of another worker, with what follows.
LEMMA RecvBehalfInv ==
    ASSUME Inv, NEW w \in Workers, RecvBehalf(w)
    PROVE  Inv'
<1> DEFINE c == NextInScan(w)
<1>1. c \in Workers
  BY NextInScanType DEF RecvBehalf, Inv
<1>2. hand[w] # ExitFn /\ pc[w] = "behalf" /\ UNCHANGED <<lifeline, hand, stack, op>>
  BY DEF RecvBehalf, Inv, LocalInv, HandInv
<1>3. CASE /\ todo' = [todo EXCEPT ![w] = @ \ {c}]
           /\ UNCHANGED <<protocol, work, pc>>
  <2>1. ProtocolOK' /\ WorkOK' /\ LifelineOK' /\ RunOK'
    BY <1>2, <1>3, UnchangedWork, RunGrows
       DEF Inv, ProtocolOK, LifelineOK, protocol, lifeline
  <2>2. ControlOK'
    BY <1>2, <1>3 DEF Inv, ControlOK
  <2>3. \A v \in Workers : LocalInv(v)'
    BY <1>2, <1>3
       DEF Inv, lifeline, LocalInv, HandInv, StackInv, RootInv, SignalInv
  <2> QED BY <2>1, <2>2, <2>3 DEF Inv
<1>4. CASE /\ chan_requests[c] # <<>>
           /\ Dispatch(w, Head(chan_requests[c]),
                       [chan_requests EXCEPT ![c] = Tail(@)])
           /\ todo' = [todo EXCEPT ![w] = {}]
  <2>1. /\ Head(chan_requests[c]) \in Request
        /\ [chan_requests EXCEPT ![c] = Tail(@)] \in [Workers -> Seq(Request)]
    BY <1>1, <1>4, TakeType DEF Inv
  <2>2. Handled(w, "serve") \/ Handled(w, "recv")
    BY <1>2, <1>4, <2>1, DispatchType DEF Inv
  <2> QED BY <1>2, <1>4, <2>2, ServeAndRecv DEF Inv, ControlOK
<1> QED BY <1>3, <1>4 DEF RecvBehalf

\* A step in which a worker sends at most one new steal request
LEMMA TrySendInv ==
    ASSUME Inv, NEW w \in Workers, NEW s \in {WORKING, IDLE, FAILED}, NEW l \in Labels,
           try_send_steal_request(w, s)
            \/ UNCHANGED <<chan_requests, requested, channel_stack>>,
           pc[w] \notin {"share", "signal"},
           l \notin {"share", "signal", "body", "ready", "leave"},
           Goto(w, l),
           UNCHANGED <<dropped, waiting, quiescent, work, lifeline, control>>
    PROVE  Inv'
<1>1. ProtocolOK'
  <2>1. /\ chan_requests' \in [Workers -> Seq(Request)]
        /\ requested' \in [Workers -> Int]
        /\ channel_stack' \in [Workers -> Seq(Chans)]
    BY TrySendType DEF Inv, ProtocolOK
  <2> QED BY <2>1 DEF Inv, ProtocolOK
<1>2. WorkOK' /\ RunOK'
  BY UnchangedWork, RunGrows DEF Inv, control
<1>3. LifelineOK' /\ ControlOK'
  BY DEF Inv, LifelineOK, ControlOK, control, lifeline, Goto
<1>4. \A v \in Workers : LocalInv(v)'
  BY MoveKeepsLocalInv DEF Inv, control, lifeline, Goto
<1> QED BY <1>1, <1>2, <1>3, <1>4 DEF Inv

\* The steps that try to send a steal request and go on.
LEMMA BeginStealInv ==
    ASSUME Inv, NEW w \in Workers, BeginSteal(w) \/ Resend(w) \/ ForceNotReady(w)
    PROVE  Inv'
<1>1. CASE BeginSteal(w)
  BY <1>1, TrySendInv DEF BeginSteal, Labels
<1>2. CASE Resend(w)
  BY <1>2, TrySendInv DEF Resend, Labels
<1>3. CASE ForceNotReady(w)
  <2>1. PICK l \in {"pop", "recv"} : Goto(w, l)
    BY <1>3 DEF ForceNotReady
  <2> QED BY <1>3, <2>1, TrySendInv DEF ForceNotReady, Labels
<1> QED BY <1>1, <1>2, <1>3

\* RECV_TASK fails.
LEMMA RecvNoTaskInv ==
    ASSUME Inv, NEW w \in Workers, RecvNoTask(w)
    PROVE  Inv'
<1>1. PICK s \in {WORKING, IDLE, FAILED} : try_send_steal_request(w, s)
  BY DEF RecvNoTask
<1>2. ProtocolOK'
  BY <1>1, TrySendType DEF Inv, ProtocolOK, RecvNoTask
<1>3. WorkOK' /\ RunOK' /\ LifelineOK'
  BY UnchangedWork, RunGrows DEF RecvNoTask, Inv, LifelineOK, lifeline
<1>4. ControlOK'
  BY DEF RecvNoTask, Inv, ControlOK, Goto, Labels
<1>5. LocalInv(w)'
  <2>1. hand'[w] = hand[w] /\ hand[w] # ExitFn /\ UNCHANGED stack
    BY DEF RecvNoTask, Inv, LocalInv, HandInv
  <2>2. pc'[w] \in {"resend", "serve"} /\ op'[w] \in {"force", "idle"}
    BY DEF RecvNoTask, Inv, ControlOK, Goto
  <2>3. op'[w] = "force" => stack[w] # <<>>
    BY DEF RecvNoTask, Inv, ControlOK, Forcing, At
  <2>4. RootInv(w)
    BY DEF Inv, LocalInv
  <2> QED BY <2>1, <2>2, <2>3, <2>4
          DEF LocalInv, HandInv, StackInv, RootInv, SignalInv
<1>6. \A v \in Workers \ {w} :
        /\ hand'[v] = hand[v] /\ stack'[v] = stack[v] /\ op'[v] = op[v]
        /\ work_sharing_requests'[v] = work_sharing_requests[v]
        /\ pc'[v] = pc[v]
  BY DEF RecvNoTask, Inv, ControlOK, lifeline, Goto
<1>7. \A v \in Workers : LocalInv(v)'
  BY <1>5, <1>6, OthersKeepLocalInv DEF Inv
<1> QED BY <1>2, <1>3, <1>4, <1>7 DEF Inv

\* RECV_TASK succeeds: what it received exists, or is the exit pseudo-task.
LEMMA RecvTaskInv ==
    ASSUME Inv, NEW w \in Workers, RecvTask(w)
    PROVE  Inv'
<1>1. PICK c \in Chans :
        /\ chan_tasks[w][c] # <<>>
        /\ hand' = [hand EXCEPT ![w] = Head(chan_tasks[w][c])]
        /\ deque' = [deque EXCEPT ![w] = Tail(chan_tasks[w][c]) \o @]
        /\ chan_tasks' = [chan_tasks EXCEPT ![w][c] = <<>>]
        /\ ChannelPush(w, c)
  BY DEF RecvTask
<1> DEFINE list == chan_tasks[w][c]
<1>2. list \in Seq(TaskIds) \cup {<<ExitFn>>} /\ list # <<>>
  BY <1>1 DEF Inv, WorkOK
<1>3. Head(list) \in TaskIds \cup {ExitFn} /\ Tail(list) \in Seq(TaskIds)
  <2>1. CASE list \in Seq(TaskIds)
    BY <1>2, <2>1, HeadTailProperties
  <2>2. CASE list = <<ExitFn>>
    BY <2>2
  <2> QED BY <1>2, <2>1, <2>2
<1> HIDE DEF list
<1>4. TaskIds' = TaskIds /\ UNCHANGED tasks /\ Grown
  BY DEF RecvTask, TaskIds, Grown
<1>5. ProtocolOK'
  <2>1. channel_stack' \in [Workers -> Seq(Chans)]
    BY <1>1, ChannelPushType DEF Inv
  <2>2. requested' \in [Workers -> Int]
    BY DEF RecvTask, Inv, ProtocolOK, StillRequested
  <2>3. dropped' \in [Workers -> Nat]
    BY DEF RecvTask, Inv, ProtocolOK
  <2> QED BY <2>1, <2>2, <2>3 DEF RecvTask, Inv, ProtocolOK
<1>6. WorkOK'
  <2>1. deque[w] \in Seq(TaskIds)
    BY DEF Inv, WorkOK
  <2>2. Tail(list) \o deque[w] \in Seq(TaskIds)
    BY <1>3, <2>1, ConcatProperties
  <2>3. deque' \in [Workers -> Seq(TaskIds)]
    BY <1>1, <2>2 DEF Inv, WorkOK, list
  <2>4. chan_tasks' \in [Workers -> [Chans -> Seq(TaskIds) \cup {<<ExitFn>>}]]
    BY <1>1 DEF Inv, WorkOK
  <2> QED BY <1>4, <2>3, <2>4 DEF Inv, WorkOK
<1>7. LifelineOK' /\ UNCHANGED <<stack, work_sharing_requests>>
  BY DEF RecvTask, Inv, LifelineOK, lifeline
<1>8. RunOK'
  BY <1>1, <1>3, <1>4, <1>7 DEF Inv, RunOK, list
<1>9. ControlOK'
  BY DEF RecvTask, Inv, ControlOK, Goto, Labels
<1>10. LocalInv(w)'
  <2>1. hand'[w] # NoTask
    BY <1>1, <1>3 DEF Inv, RunOK, list, NoTask, ExitFn, TaskIds
  <2>2. pc'[w] = "share" /\ op'[w] = "loot"
    BY DEF RecvTask, Inv, ControlOK, Goto
  <2>3. RootInv(w)
    BY DEF Inv, LocalInv
  <2> QED BY <1>7, <2>1, <2>2, <2>3
          DEF LocalInv, HandInv, StackInv, RootInv, SignalInv
<1>11. \A v \in Workers \ {w} :
        /\ hand'[v] = hand[v] /\ stack'[v] = stack[v] /\ op'[v] = op[v]
        /\ pc'[v] = pc[v]
  BY <1>1, <1>7 DEF RecvTask, Inv, ControlOK, RunOK, Goto
<1>12. \A v \in Workers : LocalInv(v)'
  BY <1>7, <1>10, <1>11, OthersKeepLocalInv DEF Inv
<1> QED BY <1>5, <1>6, <1>7, <1>8, <1>9, <1>12 DEF Inv

\* The steps that do nothing but move a worker from one place to another
LEMMA OnlyMovesInv ==
    ASSUME Inv, NEW w \in Workers,
           \/ ShareDone(w) \/ ReturnToBody(w) \/ NothingToRelay(w)
           \/ WaitPeek(w) \/ Sleep(w) \/ SpuriousWakeup(w) \/ Wake(w)
           \/ ExitDone(w)
    PROVE  Inv'
<1>1. /\ UNCHANGED <<protocol, work, lifeline, control>>
      /\ \E l \in Labels : pc' = [pc EXCEPT ![w] = l]
  BY DEF ShareDone, ReturnToBody, NothingToRelay, WaitPeek, Sleep,
         SpuriousWakeup, Wake, ExitDone, Goto, Labels
<1>2. ProtocolOK' /\ WorkOK' /\ RunOK' /\ LifelineOK'
  BY <1>1, UnchangedWork, RunGrows
     DEF Inv, ProtocolOK, LifelineOK, protocol, lifeline, control
<1>3. ControlOK'
  BY <1>1 DEF Inv, ControlOK, control
<1>4. LocalInv(w)'
  <2>1. LocalInv(w)
    BY DEF Inv
  <2>2. UNCHANGED <<hand, stack, op, work_sharing_requests>>
    BY <1>1 DEF control, lifeline
  <2>3. CASE ShareDone(w)
    <3>1. pc[w] = "share" /\ op[w] # "loot"
          /\ (pc'[w] = "serve" \/ (op[w] = "poll" /\ pc'[w] = "body"))
      BY <2>3 DEF ShareDone, Inv, ControlOK, Goto
    <3> QED BY <2>1, <2>2, <3>1 DEF LocalInv, HandInv, StackInv, RootInv, SignalInv
  <2>4. CASE ReturnToBody(w)
    <3>1. /\ pc[w] \in {"serve", "behalf"} /\ op[w] \in {"push", "poll"}
          /\ pc'[w] = "body"
      BY <2>4 DEF ReturnToBody, NoRequest, Inv, ControlOK, Goto
    <3> QED BY <2>1, <2>2, <3>1 DEF LocalInv, HandInv, StackInv, RootInv, SignalInv
  <2>5. CASE NothingToRelay(w)
    <3>1. /\ pc[w] \in {"serve", "behalf"}
          /\ pc'[w] = "recv" \/ (op[w] = "force" /\ pc'[w] = "ready")
      BY <2>5 DEF NothingToRelay, NoRequest, Inv, ControlOK, Goto
    <3> QED BY <2>1, <2>2, <3>1 DEF LocalInv, HandInv, StackInv, RootInv, SignalInv
  <2>6. CASE WaitPeek(w) \/ Sleep(w) \/ SpuriousWakeup(w) \/ Wake(w) \/ ExitDone(w)
    <3>1. /\ pc[w] \in {"waitpeek", "presleep", "asleep", "woken", "exit"}
          /\ pc'[w] \in {"presleep", "recv", "serve", "asleep", "woken",
                         "waitpeek", "finished"}
      BY <2>6 DEF WaitPeek, Sleep, SpuriousWakeup, Wake, ExitDone, Inv,
                  ControlOK, Goto
    <3> QED BY <2>1, <2>2, <3>1 DEF LocalInv, HandInv, StackInv, RootInv, SignalInv
  <2> QED BY <2>3, <2>4, <2>5, <2>6
<1>5. \A v \in Workers : LocalInv(v)'
  <2>1. \A v \in Workers \ {w} : pc'[v] = pc[v]
    BY <1>1 DEF Inv, ControlOK
  <2> QED BY <1>1, <1>4, <2>1, OthersKeepLocalInv DEF Inv, control, lifeline
<1> QED BY <1>2, <1>3, <1>5 DEF Inv

-----------------------------------------------------------------------------
(* share_work and RT_pop *)

\* share_work, sending tasks to a child.
LEMMA ShareSendInv ==
    ASSUME Inv, NEW w \in Workers, ShareSend(w)
    PROVE  Inv'
<1> DEFINE r == Head(work_sharing_requests[w])
<1>1. r \in Request /\ work_sharing_requests[w] # <<>>
  BY HeadTailProperties DEF ShareSend, CanShare, Inv, LifelineOK
<1>2. pc[w] = "share" /\ pc' = [pc EXCEPT ![w] = "signal"]
      /\ UNCHANGED <<protocol, work_sharing_requests, hand, stack, op, todo>>
  BY DEF ShareSend, Goto, control
<1>3. WorkOK' /\ Grown
  <2>1. CASE deque[w] # <<>> /\ SendLoot(w, r)
    BY <1>1, <2>1, SendLootType DEF Inv
  <2>2. CASE SPLITTABLE(Current(w)) /\ split_loop(w, Current(w), r)
    <3>1. Current(w) \in TaskIds
      BY <2>2, CurrentType DEF Inv, SPLITTABLE, IterationsLeft
    <3> QED BY <1>1, <2>2, <3>1, SplitLoopType DEF Inv
  <2> QED BY <2>1, <2>2 DEF ShareSend, CanShare
<1>4. idle' = [idle EXCEPT ![w] = @ \ {r.id}]
  BY DEF ShareSend, MarkBusy
<1>5. LifelineOK'
  BY <1>2, <1>4 DEF Inv, LifelineOK
<1>6. RunOK' /\ ProtocolOK'
  BY <1>2, <1>3, RunGrows DEF Inv, ProtocolOK, protocol
<1>7. ControlOK'
  BY <1>2 DEF Inv, ControlOK, Labels
<1>8. LocalInv(w)'
  <2>1. LocalInv(w) /\ pc'[w] = "signal"
    BY <1>2 DEF Inv, ControlOK
  <2> QED BY <1>1, <1>2, <2>1 DEF LocalInv, HandInv, StackInv, RootInv, SignalInv
<1>9. \A v \in Workers \ {w} : pc'[v] = pc[v]
  BY <1>2 DEF Inv, ControlOK
<1>10. \A v \in Workers : LocalInv(v)'
  BY <1>2, <1>8, <1>9, OthersKeepLocalInv DEF Inv
<1> QED BY <1>3, <1>5, <1>6, <1>7, <1>10 DEF Inv

\* SIGNAL moves worker w to next and wakes at most one other worker.
LEMMA SignalMoves ==
    ASSUME ControlOK, NEW w \in Workers, NEW c, NEW next \in Labels,
           next # "asleep", SIGNAL(w, c, next)
    PROVE  /\ pc' \in [Workers -> Labels]
           /\ pc'[w] = next
           /\ \A v \in Workers \ {w} :
                pc'[v] = pc[v] \/ (pc[v] = "asleep" /\ pc'[v] = "woken")
<1>1. "woken" \in Labels
  BY DEF Labels
<1>2. /\ Woken(c) \in [Workers -> Labels]
      /\ \A v \in Workers : Woken(c)[v] = pc[v]
                            \/ (pc[v] = "asleep" /\ Woken(c)[v] = "woken")
  BY <1>1 DEF ControlOK, Woken
<1> QED BY <1>2 DEF SIGNAL

\* share_work, waking the child up; needs that the answered request is there.
LEMMA ShareSignalInv ==
    ASSUME Inv, NEW w \in Workers, ShareSignal(w)
    PROVE  Inv'
<1>1. work_sharing_requests[w] # <<>> /\ pc[w] = "signal"
  BY DEF ShareSignal, Inv, LocalInv, SignalInv
<1>2. Tail(work_sharing_requests[w]) \in Seq(Request)
  BY <1>1, HeadTailProperties DEF Inv, LifelineOK
<1>3. work_sharing_requests' = [work_sharing_requests EXCEPT ![w] = Tail(@)]
      /\ UNCHANGED <<protocol, work, idle, hand, stack, op, todo>>
  BY DEF ShareSignal, DEQUEUE_WORK_SHARING_REQUEST, control
<1>4. LifelineOK'
  BY <1>2, <1>3 DEF Inv, LifelineOK
<1>5. ProtocolOK' /\ WorkOK' /\ RunOK'
  BY <1>3, UnchangedWork, RunGrows DEF Inv, ProtocolOK, protocol
<1>6. /\ pc' \in [Workers -> Labels]
      /\ pc'[w] = "share"
      /\ \A v \in Workers \ {w} :
            pc'[v] = pc[v] \/ (pc[v] = "asleep" /\ pc'[v] = "woken")
  BY SignalMoves DEF ShareSignal, Inv, Labels
<1>7. ControlOK'
  BY <1>3, <1>6 DEF Inv, ControlOK
<1>8. LocalInv(w)'
  <2>1. LocalInv(w)
    BY DEF Inv
  <2> QED BY <1>1, <1>3, <1>6, <2>1
          DEF LocalInv, HandInv, StackInv, RootInv, SignalInv
<1>9. \A v \in Workers \ {w} : work_sharing_requests'[v] = work_sharing_requests[v]
  BY <1>3 DEF Inv, LifelineOK
<1>10. \A v \in Workers : LocalInv(v)'
  BY <1>3, <1>6, <1>8, <1>9, OthersKeepLocalInv DEF Inv
<1> QED BY <1>4, <1>5, <1>7, <1>10 DEF Inv

\* RT_pop, up to share_work.
LEMMA RTPopInv ==
    ASSUME Inv, NEW w \in Workers, RT_pop(w)
    PROVE  Inv'
<1>1. /\ pc[w] = "pop" /\ pc' = [pc EXCEPT ![w] = "share"]
      /\ op' = [op EXCEPT ![w] = "pop"]
      /\ UNCHANGED <<dropped, waiting, quiescent, chan_tasks, tasks, lifeline,
                     stack, todo>>
  BY DEF RT_pop, Goto
<1>2. TaskIds' = TaskIds /\ Grown
  BY <1>1 DEF TaskIds, Grown
<1>3. PICK h \in TaskIds \cup {NoTask}, rest \in Seq(TaskIds) :
        /\ deque' = [deque EXCEPT ![w] = rest]
        /\ hand' = [hand EXCEPT ![w] = h]
  <2>1. deque[w] \in Seq(TaskIds)
    BY DEF Inv, WorkOK
  <2>2. CASE CanPop(w)
    <3>1. Head(deque[w]) \in TaskIds /\ Tail(deque[w]) \in Seq(TaskIds)
      BY <2>1, <2>2, HeadTailProperties DEF CanPop
    <3>2. /\ deque' = [deque EXCEPT ![w] = Tail(deque[w])]
          /\ hand' = [hand EXCEPT ![w] = Head(deque[w])]
      BY <2>2 DEF RT_pop
    <3> QED BY <3>1, <3>2
  <2>3. CASE ~CanPop(w)
    <3>1. /\ deque' = [deque EXCEPT ![w] = deque[w]]
          /\ hand' = [hand EXCEPT ![w] = NoTask]
      BY <2>3 DEF RT_pop
    <3> QED BY <2>1, <3>1
  <2> QED BY <2>2, <2>3
<1>4. ProtocolOK'
  <2>1. try_send_steal_request(w, WORKING)
        \/ UNCHANGED <<chan_requests, requested, channel_stack>>
    BY DEF RT_pop
  <2>2. /\ chan_requests' \in [Workers -> Seq(Request)]
        /\ requested' \in [Workers -> Int]
        /\ channel_stack' \in [Workers -> Seq(Chans)]
    BY <2>1, TrySendType DEF Inv, ProtocolOK
  <2> QED BY <1>1, <2>2 DEF Inv, ProtocolOK
<1>5. WorkOK'
  BY <1>1, <1>2, <1>3 DEF Inv, WorkOK
<1>6. LifelineOK' /\ UNCHANGED work_sharing_requests
  BY <1>1 DEF Inv, LifelineOK, lifeline
<1>7. RunOK'
  BY <1>1, <1>2, <1>3 DEF Inv, RunOK
<1>8. ControlOK'
  BY <1>1 DEF Inv, ControlOK, Labels
<1>9. LocalInv(w)'
  <2>1. pc'[w] = "share" /\ op'[w] = "pop" /\ hand'[w] = h
    BY <1>1, <1>3 DEF Inv, ControlOK, RunOK
  <2>2. h # ExitFn
    BY <1>3 DEF ExitFn, NoTask, TaskIds
  <2>3. RootInv(w)
    BY DEF Inv, LocalInv
  <2> QED BY <1>1, <2>1, <2>2, <2>3
          DEF LocalInv, HandInv, StackInv, RootInv, SignalInv
<1>10. \A v \in Workers \ {w} :
        /\ hand'[v] = hand[v] /\ stack'[v] = stack[v] /\ op'[v] = op[v]
        /\ pc'[v] = pc[v]
  BY <1>1, <1>3 DEF Inv, ControlOK, RunOK
<1>11. \A v \in Workers : LocalInv(v)'
  BY <1>6, <1>9, <1>10, OthersKeepLocalInv DEF Inv
<1> QED BY <1>4, <1>5, <1>6, <1>7, <1>8, <1>11 DEF Inv

-----------------------------------------------------------------------------
(* Running tasks *)

\* Changing the record of a task
LEMMA UpdateTask ==
    ASSUME WorkOK, NEW t \in TaskIds, NEW rec \in TaskRecord,
           tasks' = [tasks EXCEPT ![t] = rec], UNCHANGED <<deque, chan_tasks>>
    PROVE  WorkOK' /\ Grown /\ TaskIds' = TaskIds
<1>1. tasks' \in Seq(TaskRecord) /\ Len(tasks') = Len(tasks)
  BY ExceptSeq DEF WorkOK, TaskIds
<1>2. TaskIds' = TaskIds
  BY <1>1 DEF TaskIds
<1> QED BY <1>1, <1>2 DEF WorkOK, Grown

\* The record of a task that exists
LEMMA TaskType ==
    ASSUME WorkOK, NEW t \in TaskIds
    PROVE  tasks[t] \in TaskRecord
BY ElementOfSeq DEF WorkOK, TaskIds

\* Changing the frame of the task being run, which goes on being run
LEMMA UpdateTop ==
    ASSUME RunOK, Grown, NEW w \in Workers, stack[w] # <<>>,
           NEW f \in Frame, f.task = stack[w][1].task,
           stack' = [stack EXCEPT ![w] = [stack[w] EXCEPT ![1] = f]],
           UNCHANGED hand
    PROVE  /\ RunOK'
           /\ stack'[w] # <<>>
           /\ RootInv(w) => RootInv(w)'
           /\ \A v \in Workers \ {w} : stack'[v] = stack[v]
<1> DEFINE s == stack[w]
<1>1. s \in Seq(Frame) /\ Len(s) \in Nat \ {0} /\ 1 \in 1 .. Len(s)
      /\ DOMAIN s = 1 .. Len(s)
  BY EmptySeq, LenProperties DEF RunOK
<1> DEFINE t == [s EXCEPT ![1] = f]
<1>2. /\ t \in Seq(Frame) /\ Len(t) = Len(s)
      /\ \A j \in 1 .. Len(s) : t[j] = IF j = 1 THEN f ELSE s[j]
  BY <1>1, ExceptSeq
<1>3. stack'[w] = t /\ \A v \in Workers \ {w} : stack'[v] = stack[v]
  BY DEF RunOK
<1>4. \A j \in 1 .. Len(s) : t[j].task = s[j].task
  BY <1>2
<1>5. DOMAIN t = 1 .. Len(s)
  BY <1>1
<1> HIDE DEF t
<1>6. t # <<>>
  BY <1>1, <1>2, EmptySeq
<1>7. RunOK'
  <2>1. stack' \in [Workers -> Seq(Frame)]
    BY <1>2, <1>3 DEF RunOK, t
  <2>2. \A i \in DOMAIN t : t[i].task \in TaskIds
    BY <1>1, <1>4, <1>5 DEF RunOK
  <2>3. \A v \in Workers : \A i \in DOMAIN stack'[v] : stack'[v][i].task \in TaskIds'
    BY <1>3, <2>2 DEF RunOK, Grown
  <2> QED BY <2>1, <2>3 DEF RunOK, Grown
<1>8. RootInv(w) => RootInv(w)'
  BY <1>1, <1>2, <1>3, <1>4, <1>6 DEF RootInv
<1> QED BY <1>3, <1>6, <1>7, <1>8

\* run_task: the task in a worker's hand becomes the one it runs.
LEMMA StartType ==
    ASSUME Inv, NEW w \in Workers, hand[w] \in TaskIds, Start(w),
           UNCHANGED <<deque, chan_tasks>>
    PROVE  /\ WorkOK' /\ RunOK'
           /\ hand'[w] = NoTask /\ stack'[w] # <<>> /\ RootInv(w)'
           /\ \A v \in Workers \ {w} : hand'[v] = hand[v] /\ stack'[v] = stack[v]
<1> DEFINE h  == hand[w]
           r1 == [tasks[h] EXCEPT !.status = "running"]
           n  == IF tasks[h].splittable THEN r1.left - 1 ELSE r1.left
           r2 == [r1 EXCEPT !.left = n]
<1>1. tasks[h] \in TaskRecord
  BY TaskType DEF Inv
<1>2. r1 \in TaskRecord
  BY <1>1, Zenon DEF TaskRecord
<1>3. n \in Int
  <2> HIDE DEF r1
  <2>1. r1.left \in Int
    BY <1>2 DEF TaskRecord
  <2> QED BY <2>1
<1>4. r2 \in TaskRecord
  <2> HIDE DEF r1, n
  <2> QED BY <1>2, <1>3, Zenon DEF TaskRecord
<1>5. tasks' = [tasks EXCEPT ![h] = r2]
  <2>1. h \in DOMAIN tasks
    BY LenProperties DEF Inv, WorkOK, TaskIds
  <2>2. tasks' = [[tasks EXCEPT ![h] = r1] EXCEPT
                    ![h] = [[tasks EXCEPT ![h] = r1][h] EXCEPT
                        !.left = IF tasks[h].splittable
                                 THEN [tasks EXCEPT ![h] = r1][h].left - 1
                                 ELSE [tasks EXCEPT ![h] = r1][h].left]]
    BY Zenon DEF Start
  <2>3. [tasks EXCEPT ![h] = r1][h] = r1
    BY <2>1, Zenon
  <2>4. tasks' = [[tasks EXCEPT ![h] = r1] EXCEPT ![h] = r2]
    BY <2>2, <2>3, Zenon
  <2> HIDE DEF r1, r2
  <2> QED BY <2>1, <2>4
<1> HIDE DEF r1, n, r2
<1>6. WorkOK' /\ Grown /\ TaskIds' = TaskIds
  BY <1>4, <1>5, UpdateTask DEF Inv
<1> DEFINE f == [task |-> h, at |-> "body", fut |-> NoTask]
           s == stack[w]
           t == <<f>> \o s
<1>7. f \in Frame /\ f.task = h
  BY DEF Frame, NoTask, TaskIds
<1>8. s \in Seq(Frame) /\ DOMAIN s = 1 .. Len(s) /\ Len(s) \in Nat
  BY LenProperties DEF Inv, RunOK
<1> HIDE DEF f
<1>9. <<f>> \in Seq(Frame) /\ Len(<<f>>) = 1 /\ <<f>>[1] = f
  BY <1>7
<1>10. /\ t \in Seq(Frame) /\ Len(t) = Len(s) + 1
       /\ \A i \in 1 .. Len(s) + 1 : t[i] = IF i <= 1 THEN <<f>>[i] ELSE s[i - 1]
  BY <1>8, <1>9, ConcatProperties
<1>11. stack' = [stack EXCEPT ![w] = t] /\ hand' = [hand EXCEPT ![w] = NoTask]
  BY DEF Start, f
<1>12. DOMAIN t = 1 .. Len(s) + 1 /\ t # <<>>
  BY <1>8, <1>10, LenProperties, EmptySeq
<1> HIDE DEF t
<1>13. \A i \in DOMAIN t : t[i].task \in TaskIds
  BY <1>7, <1>8, <1>9, <1>10, <1>12 DEF Inv, RunOK
<1>14. stack' \in [Workers -> Seq(Frame)] /\ stack'[w] = t
       /\ hand' \in [Workers -> TaskIds \cup {NoTask, ExitFn}] /\ hand'[w] = NoTask
       /\ \A v \in Workers \ {w} : hand'[v] = hand[v] /\ stack'[v] = stack[v]
  BY <1>10, <1>11 DEF Inv, RunOK
<1>15. RunOK'
  BY <1>6, <1>13, <1>14 DEF Inv, RunOK
<1>16. RootInv(w)'
  <2>1. RootInv(w)
    BY DEF Inv, LocalInv
  <2>2. w = MASTER_ID => Len(s) \in Nat \ {0} /\ t[Len(t)] = s[Len(s)]
    BY <1>8, <1>10, <2>1, EmptySeq DEF RootInv
  <2> QED BY <1>12, <1>14, <2>1, <2>2 DEF RootInv
<1> QED BY <1>6, <1>12, <1>14, <1>15, <1>16

\* run_task, of a task popped or received.
LEMMA RunInv ==
    ASSUME Inv, NEW w \in Workers, ShareDoneRun(w) \/ RunPopped(w)
    PROVE  Inv'
<1>1. /\ Start(w) /\ pc' = [pc EXCEPT ![w] = "body"]
      /\ UNCHANGED <<protocol, deque, chan_tasks, lifeline, op, todo>>
  BY DEF ShareDoneRun, RunPopped, Goto
<1>2. hand[w] \in TaskIds
  <2>1. hand[w] \in TaskIds \cup {NoTask, ExitFn} /\ LocalInv(w)
    BY DEF Inv, RunOK
  <2> QED BY <2>1 DEF ShareDoneRun, RunPopped, LocalInv, HandInv, NoRequest
<1>3. /\ WorkOK' /\ RunOK'
      /\ hand'[w] = NoTask /\ stack'[w] # <<>> /\ RootInv(w)'
      /\ \A v \in Workers \ {w} : hand'[v] = hand[v] /\ stack'[v] = stack[v]
  BY <1>1, <1>2, StartType
<1>4. ProtocolOK' /\ LifelineOK' /\ UNCHANGED work_sharing_requests
  BY <1>1 DEF Inv, ProtocolOK, LifelineOK, protocol, lifeline
<1>5. ControlOK' /\ pc'[w] = "body" /\ \A v \in Workers \ {w} : pc'[v] = pc[v]
  BY <1>1 DEF Inv, ControlOK, Labels
<1>6. LocalInv(w)'
  BY <1>3, <1>5 DEF LocalInv, HandInv, StackInv, SignalInv, NoTask, ExitFn
<1>7. \A v \in Workers : LocalInv(v)'
  BY <1>1, <1>3, <1>4, <1>5, <1>6, OthersKeepLocalInv DEF Inv
<1> QED BY <1>3, <1>4, <1>5, <1>7 DEF Inv

\* The innermost frame of a worker that runs a task
LEMMA TopType ==
    ASSUME RunOK, NEW w \in Workers, stack[w] # <<>>
    PROVE  stack[w][1] \in Frame /\ 1 \in DOMAIN stack[w]
<1>1. stack[w] \in Seq(Frame) /\ Len(stack[w]) \in Nat \ {0}
      /\ DOMAIN stack[w] = 1 .. Len(stack[w])
  BY EmptySeq, LenProperties DEF RunOK
<1> QED BY <1>1, ElementOfSeq

\* RT_pop returns NULL.
LEMMA PopFailedInv ==
    ASSUME Inv, NEW w \in Workers, PopFailed(w)
    PROVE  Inv'
<1>1. /\ pc[w] \in {"serve", "behalf"} /\ op[w] = "pop" /\ hand[w] = NoTask
      /\ UNCHANGED <<work, lifeline, hand, op, todo>>
  BY DEF PopFailed, NoRequest
<1>2. ProtocolOK'
  BY DEF PopFailed, Inv, ProtocolOK, NothingLeft
<1>3. WorkOK' /\ Grown
  BY <1>1, UnchangedWork DEF Inv
<1>4. LifelineOK' /\ UNCHANGED work_sharing_requests
  BY <1>1 DEF Inv, LifelineOK, lifeline
<1>5. ControlOK' /\ \A v \in Workers \ {w} : pc'[v] = pc[v]
  BY DEF PopFailed, Inv, ControlOK, Goto, Labels
<1>6. /\ RunOK'
      /\ RootInv(w)'
      /\ \A v \in Workers \ {w} : stack'[v] = stack[v]
      /\ stack[w] # <<>> => stack'[w] # <<>>
  <2>1. RootInv(w)
    BY DEF Inv, LocalInv
  <2>2. CASE Forcing(w)
    <3> DEFINE f == [stack[w][1] EXCEPT !.at = "force2"]
    <3>1. stack[w] # <<>>
      BY <2>2 DEF Forcing, At
    <3>2. stack[w][1] \in Frame
      BY <3>1, TopType DEF Inv
    <3>3. f \in Frame /\ f.task = stack[w][1].task
      BY <3>2, Zenon DEF Frame
    <3>4. stack' = [stack EXCEPT ![w] = [stack[w] EXCEPT ![1] = f]]
      BY <2>2 DEF PopFailed
    <3> HIDE DEF f
    <3> QED BY <1>1, <1>3, <2>1, <3>1, <3>3, <3>4, UpdateTop DEF Inv
  <2>3. CASE ~Forcing(w)
    <3>1. UNCHANGED stack
      BY <2>3 DEF PopFailed
    <3> QED BY <1>1, <1>3, <2>1, <3>1, RunGrows DEF Inv, RootInv
  <2> QED BY <2>2, <2>3
<1>7. LocalInv(w)'
  <2>1. pc'[w] \in {"leave", "ready", "idle"}
    BY DEF PopFailed, Inv, ControlOK, Goto
  <2>2. pc'[w] \in {"leave", "ready"} => stack[w] # <<>>
    BY DEF PopFailed, Inv, ControlOK, Goto, NothingLeft, Forcing, At
  <2> QED BY <1>1, <1>6, <2>1, <2>2
          DEF LocalInv, HandInv, StackInv, SignalInv, NoTask, ExitFn
<1>8. \A v \in Workers : LocalInv(v)'
  BY <1>1, <1>4, <1>5, <1>6, <1>7, OthersKeepLocalInv DEF Inv
<1> QED BY <1>2, <1>3, <1>4, <1>5, <1>6, <1>8 DEF Inv

\* A step that changes the frame of a task, in which the worker goes on at l
LEMMA UpdateTopInv ==
    ASSUME Inv, NEW w \in Workers, NEW l \in Labels, NEW f \in Frame,
           pc[w] \in {"body", "ready", "leave"},
           l \in {"body", "ready", "pop", "exit"},
           Goto(w, l),
           f.task = stack[w][1].task,
           stack' = [stack EXCEPT ![w] = [stack[w] EXCEPT ![1] = f]],
           WorkOK', Grown, todo' \in [Workers -> SUBSET Workers],
           UNCHANGED <<protocol, lifeline, hand, op>>
    PROVE  Inv'
<1>1. stack[w] # <<>> /\ RootInv(w) /\ LocalInv(w) /\ hand[w] # ExitFn
  BY DEF Inv, LocalInv, StackInv, HandInv
<1>2. /\ RunOK' /\ stack'[w] # <<>> /\ RootInv(w)'
      /\ \A v \in Workers \ {w} : stack'[v] = stack[v]
  BY <1>1, UpdateTop DEF Inv
<1>3. ProtocolOK' /\ LifelineOK' /\ UNCHANGED work_sharing_requests
  BY DEF Inv, ProtocolOK, LifelineOK, protocol, lifeline
<1>4. ControlOK' /\ pc'[w] = l /\ \A v \in Workers \ {w} : pc'[v] = pc[v]
  BY DEF Inv, ControlOK, Goto
<1>5. LocalInv(w)'
  BY <1>1, <1>2, <1>4 DEF LocalInv, HandInv, StackInv, SignalInv
<1>6. \A v \in Workers : LocalInv(v)'
  BY <1>2, <1>3, <1>4, <1>5, OthersKeepLocalInv DEF Inv
<1> QED BY <1>2, <1>3, <1>4, <1>6 DEF Inv

\* RT_force_future returns.
LEMMA ForceReadyInv ==
    ASSUME Inv, NEW w \in Workers, ForceReady(w)
    PROVE  Inv'
<1>1. pc[w] = "ready" /\ Goto(w, "body")
      /\ UNCHANGED <<protocol, deque, chan_tasks, lifeline, hand, op, todo>>
  BY DEF ForceReady
<1>2. stack[w] # <<>>
  BY <1>1 DEF Inv, LocalInv, StackInv
<1>3. stack[w][1] \in Frame
  BY <1>2, TopType DEF Inv
<1> DEFINE f == [stack[w][1] EXCEPT !.at = "body", !.fut = NoTask]
           t == Head(stack[w]).fut
           rec == [tasks[t] EXCEPT !.joined = TRUE]
<1>4. f \in Frame /\ f.task = stack[w][1].task
  BY <1>3, Zenon DEF Frame, NoTask
<1>5. stack' = [stack EXCEPT ![w] = [stack[w] EXCEPT ![1] = f]]
  <2>1. 1 \in DOMAIN stack[w] /\ w \in DOMAIN stack
    BY <1>2, TopType DEF Inv, RunOK
  <2> QED BY <2>1 DEF ForceReady
<1>6. WorkOK' /\ Grown
  <2>1. tasks' = [tasks EXCEPT ![t] = rec]
    BY DEF ForceReady
  <2>2. CASE t \in TaskIds
    <3>1. rec \in TaskRecord
      BY <2>2, TaskType, Zenon DEF TaskRecord, Inv
    <3> HIDE DEF rec, t
    <3> QED BY <1>1, <2>1, <2>2, <3>1, UpdateTask DEF Inv
  <2>3. CASE t \notin TaskIds
    <3>1. tasks' = tasks
      <4> HIDE DEF rec, t
      <4>1. DOMAIN tasks = TaskIds /\ tasks \in [TaskIds -> TaskRecord]
        BY LenProperties DEF Inv, WorkOK, TaskIds
      <4> QED BY <2>1, <2>3, <4>1
    <3> QED BY <1>1, <3>1, UnchangedWork DEF Inv, work
  <2> QED BY <2>2, <2>3
<1>7. todo' \in [Workers -> SUBSET Workers] /\ "body" \in Labels
  BY <1>1 DEF Inv, ControlOK, Labels
<1> HIDE DEF f
<1> QED BY <1>1, <1>4, <1>5, <1>6, <1>7, UpdateTopInv

\* RT_force_future is called.
LEMMA ForceFutureInv ==
    ASSUME Inv, NEW w \in Workers, RT_force_future(w)
    PROVE  Inv'
<1>1. PICK u \in Unjoined(Current(w)) :
        stack' = [stack EXCEPT ![w][1].at = "force1", ![w][1].fut = u]
  BY DEF RT_force_future
<1>2. pc[w] = "body" /\ Goto(w, "ready")
      /\ UNCHANGED <<protocol, work, lifeline, hand, op, todo>>
  BY DEF RT_force_future
<1>3. stack[w] # <<>>
  BY <1>2 DEF Inv, LocalInv, StackInv
<1>4. stack[w][1] \in Frame /\ 1 \in DOMAIN stack[w] /\ w \in DOMAIN stack
  BY <1>3, TopType DEF Inv, RunOK
<1> DEFINE f == [stack[w][1] EXCEPT !.at = "force1", !.fut = u]
<1>5. f \in Frame /\ f.task = stack[w][1].task
  <2>1. u \in Nat
    BY LenProperties DEF Unjoined, Inv, WorkOK
  <2> QED BY <1>4, <2>1, Zenon DEF Frame
<1>6. stack' = [stack EXCEPT ![w] = [stack[w] EXCEPT ![1] = f]]
  BY <1>1, <1>4
<1>7. WorkOK' /\ Grown
  BY <1>2, UnchangedWork DEF Inv
<1>8. todo' \in [Workers -> SUBSET Workers] /\ "ready" \in Labels
  BY <1>2 DEF Inv, ControlOK, Labels
<1> HIDE DEF f
<1> QED BY <1>2, <1>5, <1>6, <1>7, <1>8, UpdateTopInv

\* RT_barrier is called, or returns.
LEMMA BarrierInv ==
    ASSUME Inv, NEW w \in Workers, RT_barrier(w) \/ BarrierReturn(w)
    PROVE  Inv'
<1>1. PICK l \in {"body", "pop", "exit"}, a \in {"barrier", "body"} :
        Goto(w, l) /\ stack' = [stack EXCEPT ![w][1].at = a]
  BY DEF RT_barrier, BarrierReturn
<1>2. pc[w] \in {"body", "leave"}
      /\ UNCHANGED <<protocol, work, lifeline, hand, op>>
  BY DEF RT_barrier, BarrierReturn
<1>3. stack[w] # <<>>
  BY <1>2 DEF Inv, LocalInv, StackInv
<1>4. stack[w][1] \in Frame
  BY <1>3, TopType DEF Inv
<1> DEFINE f == [stack[w][1] EXCEPT !.at = a]
<1>5. f \in Frame /\ f.task = stack[w][1].task
  BY <1>4, Zenon DEF Frame
<1>6. stack' = [stack EXCEPT ![w] = [stack[w] EXCEPT ![1] = f]]
  BY <1>1
<1>7. WorkOK' /\ Grown
  BY <1>2, UnchangedWork DEF Inv
<1>8. todo' \in [Workers -> SUBSET Workers] /\ l \in Labels
  BY TreeType DEF Inv, ControlOK, RT_barrier, BarrierReturn, Labels
<1> HIDE DEF f
<1> QED BY <1>1, <1>2, <1>5, <1>6, <1>7, <1>8, UpdateTopInv

\* RT_push, RT_poll and the end of an iteration enter the runtime from a task.
LEMMA EnterInv ==
    ASSUME Inv, NEW w \in Workers, NEW o \in {"push", "poll"},
           pc[w] = "body", Goto(w, "share"), op' = [op EXCEPT ![w] = o],
           ProtocolOK', WorkOK', Grown, UNCHANGED <<lifeline, hand, stack, todo>>
    PROVE  Inv'
<1>1. RunOK'
  BY RunGrows DEF Inv
<1>2. LifelineOK' /\ UNCHANGED work_sharing_requests
  BY DEF Inv, LifelineOK, lifeline
<1>3. ControlOK' /\ pc'[w] = "share" /\ op'[w] = o
      /\ \A v \in Workers \ {w} : pc'[v] = pc[v] /\ op'[v] = op[v]
  BY DEF Inv, ControlOK, Goto, Labels
<1>4. LocalInv(w)'
  <2>1. LocalInv(w)
    BY DEF Inv
  <2> QED BY <1>3, <2>1 DEF LocalInv, HandInv, StackInv, RootInv, SignalInv
<1>5. \A v \in Workers : LocalInv(v)'
  BY <1>2, <1>3, <1>4, OthersKeepLocalInv DEF Inv
<1> QED BY <1>1, <1>2, <1>3, <1>5 DEF Inv

\* RT_push of a new task.
LEMMA PushInv ==
    ASSUME Inv, NEW w \in Workers, RT_push(w)
    PROVE  Inv'
<1>1. PICK rec \in TaskRecord : tasks' = Append(tasks, rec)
  <2>1. Current(w) \in Nat
    BY CurrentType DEF Inv, NoTask, TaskIds
  <2>2. NewTask(Current(w), FALSE, 0) \in TaskRecord
    BY <2>1 DEF NewTask, TaskRecord
  <2>3. \A n \in LoopSizes : NewTask(Current(w), TRUE, n) \in TaskRecord
    BY <2>1, RuntimeAssumption DEF NewTask, TaskRecord
  <2> QED BY <2>2, <2>3 DEF RT_push
<1>2. /\ tasks' \in Seq(TaskRecord) /\ Len(tasks') = Len(tasks) + 1
      /\ Len(tasks) \in Nat
  BY <1>1, AppendProperties, LenProperties DEF Inv, WorkOK
<1>3. Grown /\ Len(tasks) + 1 \in TaskIds'
  BY <1>2 DEF Grown, TaskIds
<1>4. deque \in [Workers -> Seq(TaskIds')]
  BY <1>3, DequesGrow DEF Inv
<1>5. deque' \in [Workers -> Seq(TaskIds')]
  <2> DEFINE n == Len(tasks) + 1
  <2>1. <<n>> \in Seq(TaskIds')
    BY <1>3
  <2>2. deque[w] \in Seq(TaskIds')
    BY <1>4
  <2> HIDE DEF n
  <2>3. <<n>> \o deque[w] \in Seq(TaskIds')
    BY <2>1, <2>2, ConcatProperties
  <2>4. deque' = [deque EXCEPT ![w] = <<n>> \o deque[w]]
    BY DEF RT_push, n
  <2> QED BY <1>4, <2>3, <2>4
<1>6. chan_tasks' \in [Workers -> [Chans -> Seq(TaskIds') \cup {<<ExitFn>>}]]
  <2>1. \A s \in Seq(TaskIds) : s \in Seq(TaskIds')
    BY <1>3, SeqMonotonic DEF Grown
  <2> QED BY <2>1 DEF RT_push, Inv, WorkOK
<1>7. WorkOK'
  BY <1>2, <1>5, <1>6 DEF WorkOK
<1>8. ProtocolOK'
  BY DEF RT_push, Inv, ProtocolOK
<1> QED BY <1>3, <1>7, <1>8, EnterInv DEF RT_push

\* RT_poll, called by the user or at the end of an iteration.
LEMMA PollInv ==
    ASSUME Inv, NEW w \in Workers, RT_poll(w) \/ EndIteration(w)
    PROVE  Inv'
<1>1. ProtocolOK'
  BY DEF RT_poll, EndIteration, Inv, ProtocolOK, protocol
<1>2. CASE RT_poll(w)
  <2>1. WorkOK' /\ Grown
    BY <1>2, UnchangedWork DEF RT_poll, Inv
  <2> QED BY <1>1, <1>2, <2>1, EnterInv DEF RT_poll
<1>3. CASE EndIteration(w)
  <2> DEFINE t == Current(w)
             n == tasks[t].left - 1
             rec == [tasks[t] EXCEPT !.left = n]
  <2>1. t \in TaskIds
    BY <1>3, CurrentType DEF EndIteration, Inv, LocalInv, StackInv
  <2>2. tasks[t] \in TaskRecord
    BY <2>1, TaskType DEF Inv
  <2>3. n \in Int
    BY <2>2 DEF TaskRecord
  <2>4. rec \in TaskRecord
    <3> HIDE DEF n, t
    <3> QED BY <2>2, <2>3, Zenon DEF TaskRecord
  <2>5. tasks' = [tasks EXCEPT ![t] = rec] /\ UNCHANGED <<deque, chan_tasks>>
    BY <1>3 DEF EndIteration
  <2> HIDE DEF t, rec
  <2>6. WorkOK' /\ Grown
    BY <2>1, <2>4, <2>5, UpdateTask DEF Inv
  <2> QED BY <1>1, <1>3, <2>6, EnterInv DEF EndIteration
<1> QED BY <1>2, <1>3

\* A task ends; needs that the root task stays at the bottom of the stack.
LEMMA TaskReturnInv ==
    ASSUME Inv, NEW w \in Workers, TaskReturn(w)
    PROVE  Inv'
<1> DEFINE s == stack[w]
           t == Current(w)
           rec == [tasks[t] EXCEPT !.status = "done"]
<1>1. pc[w] = "body" /\ s # <<>> /\ hand[w] # ExitFn /\ RootInv(w)
  BY DEF TaskReturn, Inv, LocalInv, StackInv, HandInv
<1>2. s \in Seq(Frame) /\ Len(s) \in Nat \ {0} /\ DOMAIN s = 1 .. Len(s)
      /\ Head(s) = s[1]
  BY <1>1, EmptySeq, LenProperties DEF Inv, RunOK
<1>3. t \in TaskIds /\ tasks[t] \in TaskRecord
  BY <1>1, CurrentType, TaskType DEF Inv
<1>4. rec \in TaskRecord
  BY <1>3, Zenon DEF TaskRecord
<1>5. tasks' = [tasks EXCEPT ![t] = rec] /\ UNCHANGED <<deque, chan_tasks>>
  BY DEF TaskReturn
<1>6. WorkOK' /\ Grown /\ TaskIds' = TaskIds
  <2> HIDE DEF rec, t
  <2> QED BY <1>3, <1>4, <1>5, UpdateTask DEF Inv
<1>7. /\ Tail(s) \in Seq(Frame) /\ Len(Tail(s)) = Len(s) - 1
      /\ \A i \in 1 .. Len(s) - 1 : Tail(s)[i] = s[i + 1]
  BY <1>1, <1>2, HeadTailProperties
<1>8. stack' = [stack EXCEPT ![w] = Tail(s)] /\ UNCHANGED <<protocol, lifeline, hand, todo>>
  BY DEF TaskReturn
<1>9. DOMAIN Tail(s) = 1 .. Len(s) - 1
  BY <1>7, LenProperties
<1>10. \A i \in DOMAIN Tail(s) : Tail(s)[i].task \in TaskIds
  BY <1>2, <1>7, <1>9 DEF Inv, RunOK
<1>11. stack' \in [Workers -> Seq(Frame)] /\ stack'[w] = Tail(s)
       /\ \A v \in Workers \ {w} : stack'[v] = stack[v]
  BY <1>7, <1>8 DEF Inv, RunOK
<1>12. RunOK'
  BY <1>6, <1>8, <1>10, <1>11 DEF Inv, RunOK
<1>13. ProtocolOK' /\ LifelineOK' /\ UNCHANGED work_sharing_requests
  BY <1>8 DEF Inv, ProtocolOK, LifelineOK, protocol, lifeline
<1>14. ControlOK' /\ op'[w] = "loot" /\ pc'[w] \in {"ready", "pop"}
       /\ \A v \in Workers \ {w} : pc'[v] = pc[v] /\ op'[v] = op[v]
  BY DEF TaskReturn, Inv, ControlOK, Goto, Labels
<1>15. pc'[w] = "ready" => Len(s) > 1
  BY DEF TaskReturn, Inv, ControlOK, Goto
<1>16. Len(s) > 1 => Tail(s) # <<>> /\ Tail(s)[Len(Tail(s))] = s[Len(s)]
  <2> SUFFICES ASSUME Len(s) > 1
               PROVE  Tail(s) # <<>> /\ Tail(s)[Len(Tail(s))] = s[Len(s)]
    OBVIOUS
  <2>1. Len(s) - 1 \in 1 .. Len(s) - 1 /\ Len(s) - 1 + 1 = Len(s)
    BY <1>2
  <2>2. Tail(s) # <<>>
    <3> HIDE DEF s
    <3>1. Len(s) - 1 # 0
      BY <2>1
    <3>2. Len(<<>>) = 0
      BY EmptySeq
    <3> QED BY <1>7, <3>1, <3>2, Zenon
  <2>3. Tail(s)[Len(s) - 1] = s[Len(s)]
    BY <1>7, <2>1
  <2> QED BY <1>7, <2>2, <2>3
<1>17. w = MASTER_ID => Len(s) > 1
  <2>1. s[1].task # Root
    BY <1>1, <1>2 DEF TaskReturn, Current
  <2> QED BY <1>1, <1>2, <2>1 DEF RootInv
<1>18. LocalInv(w)'
  <2>1. RootInv(w)'
    BY <1>1, <1>11, <1>16, <1>17 DEF RootInv
  <2> QED BY <1>1, <1>8, <1>11, <1>14, <1>15, <1>16, <2>1
          DEF LocalInv, HandInv, StackInv, SignalInv
<1>19. \A v \in Workers : LocalInv(v)'
  BY <1>8, <1>11, <1>13, <1>14, <1>18, OthersKeepLocalInv DEF Inv
<1> QED BY <1>6, <1>12, <1>13, <1>14, <1>19 DEF Inv

-----------------------------------------------------------------------------
(* Shutdown *)

\* RT_EXIT_FN begins in a worker that received it.
LEMMA ShareDoneExitInv ==
    ASSUME Inv, NEW w \in Workers, ShareDoneExit(w)
    PROVE  Inv'
<1>1. /\ hand' = [hand EXCEPT ![w] = NoTask] /\ op[w] = "loot"
      /\ UNCHANGED <<protocol, work, lifeline, stack, op>>
  BY DEF ShareDoneExit
<1>2. WorkOK' /\ Grown /\ TaskIds' = TaskIds
  BY <1>1, UnchangedWork DEF Inv, work, TaskIds
<1>3. ProtocolOK' /\ LifelineOK' /\ UNCHANGED work_sharing_requests
  BY <1>1 DEF Inv, ProtocolOK, LifelineOK, protocol, lifeline
<1>4. RunOK' /\ hand'[w] = NoTask /\ \A v \in Workers \ {w} : hand'[v] = hand[v]
  BY <1>1, <1>2 DEF Inv, RunOK
<1>5. ControlOK' /\ pc'[w] = "exit" /\ \A v \in Workers \ {w} : pc'[v] = pc[v]
  BY TreeType DEF ShareDoneExit, Inv, ControlOK, Goto, Labels
<1>6. LocalInv(w)'
  <2>1. RootInv(w)
    BY DEF Inv, LocalInv
  <2> QED BY <1>1, <1>4, <1>5, <2>1
          DEF LocalInv, HandInv, StackInv, RootInv, SignalInv, NoTask, ExitFn
<1>7. \A v \in Workers : LocalInv(v)'
  BY <1>1, <1>3, <1>4, <1>5, <1>6, OthersKeepLocalInv DEF Inv
<1> QED BY <1>2, <1>3, <1>4, <1>5, <1>7 DEF Inv

\* RT_EXIT_FN sends itself to a child.
LEMMA NotifyExitInv ==
    ASSUME Inv, NEW w \in Workers, NotifyExit(w)
    PROVE  Inv'
<1>1. /\ pc[w] = "exit" /\ pc' = [pc EXCEPT ![w] = "exitsignal"]
      /\ UNCHANGED <<protocol, deque, tasks, lifeline, hand, stack, op, todo>>
  BY DEF NotifyExit, Goto, control
<1>2. TaskIds' = TaskIds /\ Grown
  BY <1>1 DEF TaskIds, Grown
<1>3. chan_tasks' \in [Workers -> [Chans -> Seq(TaskIds) \cup {<<ExitFn>>}]]
  <2> DEFINE T == Seq(TaskIds) \cup {<<ExitFn>>}
  <2>1. chan_tasks \in [Workers -> [Chans -> T]] /\ <<ExitFn>> \in T
    BY DEF Inv, WorkOK
  <2> HIDE DEF T
  <2>2. chan_tasks' \in [Workers -> [Chans -> T]]
    BY <2>1 DEF NotifyExit
  <2> QED BY <2>2 DEF T
<1>4. WorkOK' /\ RunOK' /\ ProtocolOK' /\ LifelineOK'
  BY <1>1, <1>2, <1>3, RunGrows
     DEF Inv, WorkOK, ProtocolOK, LifelineOK, protocol, lifeline
<1>5. ControlOK'
  BY <1>1 DEF Inv, ControlOK, Labels
<1>6. \A v \in Workers : LocalInv(v)'
  BY <1>1, MoveKeepsLocalInv DEF Inv, lifeline
<1> QED BY <1>4, <1>5, <1>6 DEF Inv

\* RT_EXIT_FN wakes the child up.
LEMMA SignalExitInv ==
    ASSUME Inv, NEW w \in Workers, SignalExit(w)
    PROVE  Inv'
<1>1. pc[w] = "exitsignal" /\ UNCHANGED <<protocol, work, lifeline, hand, stack, op>>
  BY DEF SignalExit
<1>2. /\ pc' \in [Workers -> Labels] /\ pc'[w] = "exit"
      /\ \A v \in Workers \ {w} :
            pc'[v] = pc[v] \/ (pc[v] = "asleep" /\ pc'[v] = "woken")
  BY SignalMoves DEF SignalExit, Inv, Labels
<1>3. ProtocolOK' /\ WorkOK' /\ LifelineOK' /\ RunOK'
  BY <1>1, UnchangedWork, RunGrows
     DEF Inv, ProtocolOK, LifelineOK, protocol, lifeline
<1>4. ControlOK'
  BY <1>1, <1>2 DEF SignalExit, Inv, ControlOK
<1>5. LocalInv(w)'
  <2>1. LocalInv(w)
    BY DEF Inv
  <2> QED BY <1>1, <1>2, <2>1 DEF LocalInv, HandInv, StackInv, RootInv, SignalInv
<1>6. \A v \in Workers : LocalInv(v)'
  BY <1>1, <1>2, <1>5, OthersKeepLocalInv DEF Inv, lifeline
<1> QED BY <1>3, <1>4, <1>6 DEF Inv

-----------------------------------------------------------------------------
(* The theorems *)

\* What tasking_init and RT_init establish
LEMMA InitInv == Init => Inv
<1> SUFFICES ASSUME Init PROVE Inv
  OBVIOUS
<1> USE DEF Init
<1>1. Len(tasks) = 1 /\ tasks \in Seq(TaskRecord) /\ TaskIds = {1}
  <2> DEFINE rec == [NewTask(NoTask, FALSE, 0) EXCEPT !.status = "running"]
  <2>1. NewTask(NoTask, FALSE, 0) \in TaskRecord
    BY DEF NewTask, TaskRecord, NoTask
  <2>2. rec \in TaskRecord
    BY <2>1, Zenon DEF TaskRecord
  <2>3. tasks = <<rec>>
    OBVIOUS
  <2> HIDE DEF rec
  <2>4. <<rec>> \in Seq(TaskRecord) /\ Len(<<rec>>) = 1
    BY <2>2
  <2>5. 1 .. 1 = {1}
    OBVIOUS
  <2> HIDE DEF Init
  <2> QED BY <2>3, <2>4, <2>5 DEF TaskIds
<1>2. \A S : <<>> \in Seq(S)
  BY EmptySeq
<1>3. ProtocolOK
  <2>1. [c \in Chans |-> c] \in Seq(Chans)
    <3>1. MAXSTEAL \in Nat
      BY RuntimeAssumption
    <3>2. [c \in 1 .. MAXSTEAL |-> c] \in [1 .. MAXSTEAL -> 1 .. MAXSTEAL]
      OBVIOUS
    <3> HIDE DEF Init
    <3> QED BY <3>1, <3>2 DEF Chans
  <2>2. channel_stack \in [Workers -> Seq(Chans)]
    BY <2>1
  <2>3. chan_requests \in [Workers -> Seq(Request)]
    BY <1>2
  <2>4. requested \in [Workers -> Int] /\ dropped \in [Workers -> Nat]
    OBVIOUS
  <2>5. waiting \in [Workers -> BOOLEAN] /\ quiescent \in BOOLEAN
    OBVIOUS
  <2> QED BY <2>2, <2>3, <2>4, <2>5 DEF ProtocolOK
<1>4. WorkOK /\ LifelineOK
  BY <1>1, <1>2 DEF WorkOK, LifelineOK
<1>5. RunOK
  <2> DEFINE f == [task |-> Root, at |-> "body", fut |-> NoTask]
  <2>1. f \in Frame /\ f.task \in TaskIds
    BY <1>1 DEF Frame, NoTask, Root
  <2>2. stack = [w \in Workers |-> IF w = MASTER_ID THEN <<f>> ELSE <<>>]
    OBVIOUS
  <2> HIDE DEF f
  <2>3. <<f>> \in Seq(Frame) /\ DOMAIN <<f>> = {1} /\ <<f>>[1] = f
    BY <2>1
  <2>4. stack \in [Workers -> Seq(Frame)]
    BY <1>2, <2>2, <2>3
  <2>5. \A w \in Workers : \A i \in DOMAIN stack[w] : stack[w][i].task \in TaskIds
    BY <2>1, <2>2, <2>3
  <2> QED BY <2>4, <2>5 DEF RunOK
<1>6. ControlOK
  BY DEF ControlOK, Labels
<1>7. ASSUME NEW w \in Workers PROVE LocalInv(w)
  <2>1. HandInv(w) /\ SignalInv(w)
    BY DEF HandInv, SignalInv, NoTask, ExitFn
  <2>2. StackInv(w)
    BY DEF StackInv
  <2>3. RootInv(w)
    BY DEF RootInv, Root
  <2> QED BY <2>1, <2>2, <2>3 DEF LocalInv
<1> QED BY <1>3, <1>4, <1>5, <1>6, <1>7 DEF Inv

\* Every step preserves the invariant: one lemma per action.
LEMMA NextInv == Inv /\ [Next]_vars => Inv'
<1> SUFFICES ASSUME Inv, [Next]_vars PROVE Inv'
  OBVIOUS
<1>1. ASSUME NEW w \in Workers, Scheduler(w) PROVE Inv'
  BY <1>1, RecvFailedInv, RecvOwnInv, StartBehalfInv, RecvBehalfInv,
     ShareSendInv, ShareSignalInv, OnlyMovesInv, RunInv, RTPopInv, PopFailedInv,
     BeginStealInv, RecvTaskInv, RecvNoTaskInv, ForceReadyInv, BarrierInv,
     ShareDoneExitInv, NotifyExitInv, SignalExitInv DEF Scheduler
<1>2. ASSUME NEW w \in Workers, User(w) PROVE Inv'
  BY <1>2, PushInv, ForceFutureInv, PollInv, TaskReturnInv, BarrierInv DEF User
<1>3. ASSUME NEW w \in Workers, SpuriousWakeup(w) PROVE Inv'
  BY <1>3, OnlyMovesInv
<1>4. CASE UNCHANGED vars
  BY <1>4 DEF vars, protocol, work, lifeline, control, Inv, ProtocolOK, WorkOK,
     LifelineOK, RunOK, ControlOK, TaskIds, LocalInv, HandInv, StackInv,
     RootInv, SignalInv
<1> QED BY <1>1, <1>2, <1>3, <1>4 DEF Next, Terminated

\* The inductive invariant is stronger than type correctness.
LEMMA InvImpliesTypeOK == Inv => TypeOK
BY DEF Inv, TypeOK, ProtocolOK, WorkOK, LifelineOK, RunOK, ControlOK

\* The inductive invariant holds in every behaviour of the scheduler.
THEOREM InvHolds == Spec => []Inv
<1>1. Init => Inv
  BY InitInv
<1>2. Inv /\ [Next]_vars => Inv'
  BY NextInv
<1> QED BY <1>1, <1>2, PTL DEF Spec

\* However many workers there are and whatever the program does, the channels
\* carry steal requests, and every task reference in a deque, a task channel, a
\* hand or a stack refers to a task that exists.
THEOREM TypeCorrectness == Spec => []TypeOK
BY InvHolds, InvImpliesTypeOK, PTL

-----------------------------------------------------------------------------
(***************************************************************************)
(* Idle workers: those that decline steal requests, back off and count as  *)
(* idle have nothing in their deques and hands.                            *)
(***************************************************************************)

-----------------------------------------------------------------------------
(* The inductive invariant, on top of Inv *)

\* At label l, worker w looks for tasks in schedule or RT_barrier, or sleeps
\* meanwhile.
Looking(w, l) ==
    \/ l = "idle"
    \/ l = "recv" /\ ~Forcing(w)
    \/ op[w] = "idle" /\ l \in {"serve", "behalf", "recv"} \cup Waiting

LookingInv(w) == Looking(w, pc[w]) => deque[w] = <<>> /\ hand[w] = NoTask

\* RT_pop is about to return NULL: the deque is empty, except in the first loop
\* of RT_force_future, where its head may be the child of another task.
PopFails(w) ==
    /\ op[w] = "pop" /\ hand[w] = NoTask
    /\ pc[w] \in {"share", "signal", "serve", "behalf"} \cup Waiting
    /\ At(w) # "force1"

PopInv(w) == PopFails(w) => deque[w] = <<>>

\* READY is tested in RT_force_future only, and so is the loop that relays
\* requests for it left; they are not taken for those of schedule.
ForceInv(w) ==
    /\ pc[w] = "ready" => Forcing(w)
    /\ pc[w] = "ready" /\ At(w) = "force2" => op[w] # "idle"
    /\ pc[w] = "resend" => op[w] = "force"
    /\ op[w] = "force" /\ pc[w] \in {"resend", "serve", "behalf"} \cup Waiting
        => Forcing(w)

\* share_work is not called from the loops that relay requests.
ShareInv(w) == pc[w] \in {"share", "signal"} => op[w] \notin {"idle", "force"}

IdleInv(w) == LookingInv(w) /\ PopInv(w) /\ ForceInv(w) /\ ShareInv(w)

AllIdleInv == \A w \in Workers : IdleInv(w)

-----------------------------------------------------------------------------
(* Steps and the workers they concern *)

\* Only worker w's own state changes, but it may wake another one.
Private(w) ==
    \A v \in Workers \ {w} :
        /\ deque'[v] = deque[v] /\ hand'[v] = hand[v]
        /\ stack'[v] = stack[v] /\ op'[v] = op[v]
        /\ pc'[v] = pc[v] \/ (pc[v] = "asleep" /\ pc'[v] = "woken")

\* What a worker does is no business of the others.
LEMMA OthersKeepIdleInv ==
    ASSUME AllIdleInv, NEW w \in Workers, Private(w), IdleInv(w)'
    PROVE  AllIdleInv'
<1>1. ASSUME NEW v \in Workers \ {w}
      PROVE  IdleInv(v)'
  <2>1. IdleInv(v)
    BY DEF AllIdleInv
  <2>2. At(v)' = At(v) /\ (Forcing(v)' <=> Forcing(v))
    BY DEF Private, At, Forcing
  <2>3. LookingInv(v)'
    BY <2>1, <2>2 DEF Private, IdleInv, LookingInv, Looking, Waiting
  <2>4. PopInv(v)'
    BY <2>1, <2>2 DEF Private, IdleInv, PopInv, PopFails, Waiting
  <2>5. ForceInv(v)'
    BY <2>1, <2>2 DEF Private, IdleInv, ForceInv, Waiting
  <2>6. ShareInv(v)'
    BY <2>1 DEF Private, IdleInv, ShareInv
  <2> QED BY <2>3, <2>4, <2>5, <2>6 DEF IdleInv
<1> QED BY <1>1 DEF AllIdleInv

\* At these labels IdleInv says nothing.
LEMMA NothingToSay ==
    ASSUME NEW w, pc'[w] \in {"body", "pop", "leave", "exit", "exitsignal", "finished"}
    PROVE  IdleInv(w)'
BY DEF IdleInv, LookingInv, Looking, PopInv, PopFails, ForceInv, ShareInv,
       Waiting

-----------------------------------------------------------------------------
(* Handling a request *)

\* The worker goes on at next, in WAIT or out of the barrier, and tasks leave
\* its deque, if at all.
Relays(w, next) ==
    /\ \E l \in {next, "waitpeek", "leave"} : pc' = [pc EXCEPT ![w] = l]
    /\ \/ UNCHANGED deque
       \/ deque[w] # <<>> /\ \E d : deque' = [deque EXCEPT ![w] = d]

\* decline_steal_request touches no deque.
LEMMA DeclineRelays ==
    ASSUME NEW w, NEW r, NEW q, NEW next, decline_steal_request(w, r, q, next)
    PROVE  Relays(w, next) /\ UNCHANGED deque
BY DEF decline_steal_request, PassOn, detect_termination, BackOff, Drop,
       Recirculate, FORGET_REQ, Goto, work, Relays

\* FORGET_REQ neither.
LEMMA ForgetRelays ==
    ASSUME NEW w, NEW r, NEW q, NEW next, FORGET_REQ(w, r, q, next)
    PROVE  Relays(w, next)
BY DEF FORGET_REQ, Goto, work, Relays

\* handle_steal_request sends tasks only if there are some.
LEMMA HandleStealRequestRelays ==
    ASSUME NEW w, NEW r, NEW q, NEW next, handle_steal_request(w, r, q, next)
    PROVE  Relays(w, next)
<1>1. CASE FORGET_REQ(w, r, q, next)
  BY <1>1, ForgetRelays
<1>2. CASE decline_steal_request(w, r, q, next)
  BY <1>2, DeclineRelays
<1>3. CASE deque[w] # <<>> /\ SendLoot(w, r) /\ Answered(w, q, next)
  BY <1>3 DEF SendLoot, Answered, Goto, Relays
<1> QED BY <1>1, <1>2, <1>3 DEF handle_steal_request

\* Splitting a loop touches no deque.
LEMMA SplitOrForgetRelays ==
    ASSUME NEW w, NEW t, NEW r, NEW q, NEW next, SplitOrForget(w, t, r, q, next)
    PROVE  Relays(w, next)
<1>1. CASE FORGET_REQ(w, r, q, next)
  BY <1>1, ForgetRelays
<1>2. CASE split_loop(w, t, r) /\ Answered(w, q, next)
  BY <1>2 DEF split_loop, Answered, Goto, Relays
<1> QED BY <1>1, <1>2 DEF SplitOrForget

\* Whatever loop received the request goes on; that of schedule and RT_barrier
\* at RECV_TASK.
LEMMA DispatchRelays ==
    ASSUME NEW w, NEW r, NEW q, Dispatch(w, r, q)
    PROVE  Relays(w, IF op[w] = "idle" THEN "recv" ELSE "serve")
<1>1. CASE op[w] = "idle"
  <2>1. PICK s : decline_steal_request(w, s, q, "recv")
    BY <1>1 DEF Dispatch
  <2> QED BY <1>1, <2>1, DeclineRelays
<1>2. CASE op[w] # "idle"
  <2>1. CASE \E t : SplitOrForget(w, t, r, q, "serve")
    BY <1>2, <2>1, SplitOrForgetRelays
  <2>2. CASE handle_steal_request(w, r, q, "serve")
    BY <1>2, <2>2, HandleStealRequestRelays
  <2>3. CASE decline_steal_request(w, r, q, "serve")
    BY <1>2, <2>3, DeclineRelays
  <2> QED BY <1>2, <2>1, <2>2, <2>3 DEF Dispatch, handle
<1> QED BY <1>1, <1>2

\* Relaying requests gives no tasks to a worker that has none.
LEMMA RelayKeepsIdle ==
    ASSUME Inv, AllIdleInv, NEW w \in Workers, pc[w] \in {"serve", "behalf"},
           Relays(w, IF op[w] = "idle" THEN "recv" ELSE "serve"),
           UNCHANGED <<hand, stack, op>>
    PROVE  AllIdleInv'
<1>1. IdleInv(w)
  BY DEF AllIdleInv
<1>2. PICK l : /\ pc' = [pc EXCEPT ![w] = l]
               /\ l \in {"waitpeek", "leave", IF op[w] = "idle" THEN "recv" ELSE "serve"}
  BY DEF Relays
<1>3. pc'[w] = l /\ \A v \in Workers \ {w} : pc'[v] = pc[v]
  BY <1>2 DEF Inv, ControlOK
<1>4. deque[w] = <<>> => deque'[w] = <<>>
  BY DEF Relays
<1>5. Private(w)
  BY <1>3 DEF Relays, Private, Inv, WorkOK
<1>6. At(w)' = At(w) /\ (Forcing(w)' <=> Forcing(w))
  BY DEF At, Forcing
<1>7. LookingInv(w)'
  BY <1>1, <1>2, <1>3, <1>4, <1>6 DEF IdleInv, LookingInv, Looking, Waiting
<1>8. PopInv(w)'
  BY <1>1, <1>2, <1>3, <1>4, <1>6 DEF IdleInv, PopInv, PopFails, Waiting
<1>9. ForceInv(w)'
  BY <1>1, <1>2, <1>3, <1>6 DEF IdleInv, ForceInv, Waiting
<1>10. ShareInv(w)'
  BY <1>2, <1>3 DEF ShareInv
<1> QED BY <1>5, <1>7, <1>8, <1>9, <1>10, OthersKeepIdleInv DEF IdleInv

\* RECV_REQ from the worker's own channel
LEMMA RecvOwnIdle ==
    ASSUME Inv, AllIdleInv, NEW w \in Workers, RecvOwn(w)
    PROVE  AllIdleInv'
BY DispatchRelays, RelayKeepsIdle DEF RecvOwn, control

\* RECV_REQ on behalf of another worker
LEMMA RecvBehalfIdle ==
    ASSUME Inv, AllIdleInv, NEW w \in Workers, RecvBehalf(w)
    PROVE  AllIdleInv'
<1>1. CASE UNCHANGED <<work, pc>>
  BY <1>1 DEF RecvBehalf, work, AllIdleInv, IdleInv, LookingInv, Looking, PopInv,
              PopFails, ForceInv, ShareInv, At, Forcing
<1>2. CASE \E r, q : Dispatch(w, r, q)
  BY <1>2, DispatchRelays, RelayKeepsIdle DEF RecvBehalf
<1> QED BY <1>1, <1>2 DEF RecvBehalf

-----------------------------------------------------------------------------
(* The other steps *)

\* A worker moves to another place that demands nothing new of it.
LEMMA MoveKeepsIdle ==
    ASSUME Inv, AllIdleInv, NEW w \in Workers, NEW l,
           pc' = [pc EXCEPT ![w] = l],
           UNCHANGED <<deque, hand, stack, op>>,
           Looking(w, l) => Looking(w, pc[w]),
           op[w] = "pop" /\ l \in {"share", "signal", "serve", "behalf"} \cup Waiting
             => pc[w] \in {"share", "signal", "serve", "behalf"} \cup Waiting,
           l = "ready" => Forcing(w) /\ op[w] # "idle",
           op[w] = "force" /\ l \in {"resend", "serve", "behalf"} \cup Waiting
             => Forcing(w),
           l \notin {"share", "signal", "resend"}
    PROVE  AllIdleInv'
<1>1. IdleInv(w)
  BY DEF AllIdleInv
<1>2. pc'[w] = l /\ Private(w)
  BY DEF Inv, ControlOK, Private
<1>3. At(w)' = At(w) /\ (Forcing(w)' <=> Forcing(w))
  BY DEF At, Forcing
<1>4. LookingInv(w)'
  BY <1>1, <1>2, <1>3 DEF IdleInv, LookingInv, Looking
<1>5. PopInv(w)'
  BY <1>1, <1>2, <1>3 DEF IdleInv, PopInv, PopFails
<1>6. ForceInv(w)'
  BY <1>1, <1>2, <1>3 DEF IdleInv, ForceInv
<1>7. ShareInv(w)'
  BY <1>2 DEF ShareInv
<1> QED BY <1>2, <1>4, <1>5, <1>6, <1>7, OthersKeepIdleInv DEF IdleInv

\* RECV_REQ turns to the channels of the idle subtrees.
LEMMA StartBehalfIdle ==
    ASSUME Inv, AllIdleInv, NEW w \in Workers, StartBehalf(w)
    PROVE  AllIdleInv'
<1>1. IdleInv(w)
  BY DEF AllIdleInv
<1>2. /\ pc[w] = "serve" /\ pc' = [pc EXCEPT ![w] = "behalf"]
      /\ UNCHANGED <<deque, hand, stack, op>>
  BY DEF StartBehalf, Goto, work
<1>3. op[w] = "force" => Forcing(w)
  BY <1>1, <1>2 DEF IdleInv, ForceInv
<1>4. Looking(w, "behalf") => Looking(w, pc[w])
  BY <1>2 DEF Looking, Waiting
<1> QED BY <1>2, <1>3, <1>4, MoveKeepsIdle

\* share_work returns to RT_push, RT_pop or RT_poll.
LEMMA ShareDoneIdle ==
    ASSUME Inv, AllIdleInv, NEW w \in Workers, ShareDone(w)
    PROVE  AllIdleInv'
<1>1. IdleInv(w)
  BY DEF AllIdleInv
<1>2. PICK l \in {"body", "serve"} : pc' = [pc EXCEPT ![w] = l]
  BY DEF ShareDone, Goto
<1> QED BY <1>1, <1>2, MoveKeepsIdle
        DEF ShareDone, work, control, Waiting, IdleInv, ShareInv, Looking

\* Back to the loops of schedule, RT_barrier or RT_force_future
LEMMA NothingToRelayIdle ==
    ASSUME Inv, AllIdleInv, NEW w \in Workers, NothingToRelay(w)
    PROVE  AllIdleInv'
<1>1. IdleInv(w) /\ pc[w] \in {"serve", "behalf"}
  BY DEF AllIdleInv, NothingToRelay, NoRequest
<1>2. CASE op[w] = "idle" /\ pc' = [pc EXCEPT ![w] = "recv"]
  BY <1>1, <1>2, MoveKeepsIdle DEF NothingToRelay, work, control, Waiting, Looking
<1>3. CASE op[w] = "force" /\ pc' = [pc EXCEPT ![w] = "ready"]
  BY <1>1, <1>3, MoveKeepsIdle
     DEF NothingToRelay, work, control, Waiting, IdleInv, ForceInv, Looking
<1> QED BY <1>2, <1>3 DEF NothingToRelay, Goto

\* The steps that try to send a steal request and go on
LEMMA BeginStealIdle ==
    ASSUME Inv, AllIdleInv, NEW w \in Workers,
           BeginSteal(w) \/ Resend(w) \/ ForceNotReady(w)
    PROVE  AllIdleInv'
<1>1. IdleInv(w)
  BY DEF AllIdleInv
<1>2. CASE BeginSteal(w)
  BY <1>1, <1>2, MoveKeepsIdle DEF BeginSteal, Goto, work, control, Waiting, Looking
<1>3. CASE Resend(w)
  BY <1>1, <1>3, MoveKeepsIdle
     DEF Resend, Goto, work, control, Waiting, IdleInv, ForceInv, Looking
<1>4. CASE ForceNotReady(w)
  <2>1. Forcing(w) /\ (At(w) # "force1" => op[w] # "idle")
    BY <1>1, <1>4 DEF ForceNotReady, IdleInv, ForceInv, Forcing
  <2>2. UNCHANGED <<deque, hand, stack, op>>
    BY <1>4 DEF ForceNotReady, work, control
  <2>3. CASE pc' = [pc EXCEPT ![w] = "pop"]
    BY <2>2, <2>3, MoveKeepsIdle DEF Waiting, Looking
  <2>4. CASE At(w) # "force1" /\ pc' = [pc EXCEPT ![w] = "recv"]
    BY <2>1, <2>2, <2>4, MoveKeepsIdle DEF Waiting, Looking
  <2> QED BY <1>4, <2>3, <2>4 DEF ForceNotReady, Goto
<1> QED BY <1>2, <1>3, <1>4

\* The steps of WAIT, returns to the user's code and the end of RT_EXIT_FN
LEMMA OnlyMovesIdle ==
    ASSUME Inv, AllIdleInv, NEW w \in Workers,
           \/ WaitPeek(w) \/ Sleep(w) \/ SpuriousWakeup(w) \/ Wake(w)
           \/ ReturnToBody(w) \/ NotifyExit(w) \/ ExitDone(w)
    PROVE  AllIdleInv'
<1>1. IdleInv(w)
  BY DEF AllIdleInv
<1>2. CASE WaitPeek(w)
  <2>1. PICK l \in {"presleep", IF op[w] = "idle" THEN "recv" ELSE "serve"} :
            pc' = [pc EXCEPT ![w] = l]
    BY <1>2 DEF WaitPeek, Goto
  <2> QED BY <1>1, <1>2, <2>1, MoveKeepsIdle
          DEF WaitPeek, work, control, Waiting, Looking, IdleInv, ForceInv
<1>3. CASE Sleep(w)
  BY <1>1, <1>3, MoveKeepsIdle
     DEF Sleep, Goto, work, control, Waiting, Looking, IdleInv, ForceInv
<1>4. CASE SpuriousWakeup(w)
  BY <1>1, <1>4, MoveKeepsIdle
     DEF SpuriousWakeup, Goto, work, control, Waiting, Looking, IdleInv, ForceInv
<1>5. CASE Wake(w)
  BY <1>1, <1>5, MoveKeepsIdle
     DEF Wake, Goto, work, control, Waiting, Looking, IdleInv, ForceInv
<1>6. CASE ReturnToBody(w)
  BY <1>6, MoveKeepsIdle DEF ReturnToBody, Goto, work, control, Waiting, Looking
<1>7. CASE NotifyExit(w)
  BY <1>7, MoveKeepsIdle DEF NotifyExit, Goto, control, Waiting, Looking
<1>8. CASE ExitDone(w)
  BY <1>8, MoveKeepsIdle DEF ExitDone, Goto, work, control, Waiting, Looking
<1> QED BY <1>2, <1>3, <1>4, <1>5, <1>6, <1>7, <1>8

\* RECV_REQ keeps a child's failed request.
LEMMA RecvFailedIdle ==
    ASSUME AllIdleInv, NEW w \in Workers, RecvFailed(w)
    PROVE  AllIdleInv'
BY DEF RecvFailed, work, control, AllIdleInv, IdleInv, LookingInv, Looking, PopInv,
       PopFails, ForceInv, ShareInv, At, Forcing

\* The steps after which the worker is in the user's code, about to pop, or
\* leaving
LEMMA UserIdle ==
    ASSUME Inv, AllIdleInv, NEW w \in Workers,
           \/ ShareDoneRun(w) \/ RunPopped(w) \/ ForceReady(w)
           \/ RT_barrier(w) \/ BarrierReturn(w) \/ ShareDoneExit(w)
    PROVE  AllIdleInv'
<1>1. pc'[w] \in {"body", "pop", "exit"} /\ Private(w)
  <2>1. CASE ShareDoneRun(w) \/ RunPopped(w)
    BY <2>1 DEF ShareDoneRun, RunPopped, Start, Goto, Private, Inv, ControlOK, RunOK
  <2>2. CASE ForceReady(w)
    BY <2>2 DEF ForceReady, Goto, Private, Inv, ControlOK, RunOK
  <2>3. CASE RT_barrier(w) \/ BarrierReturn(w)
    BY <2>3 DEF RT_barrier, BarrierReturn, Goto, Private, Inv, ControlOK, RunOK, work
  <2>4. CASE ShareDoneExit(w)
    BY <2>4 DEF ShareDoneExit, Goto, Private, Inv, ControlOK, RunOK, work
  <2> QED BY <2>1, <2>2, <2>3, <2>4
<1> QED BY <1>1, NothingToSay, OthersKeepIdleInv

\* RT_push and RT_poll begin with share_work.
LEMMA EnterIdle ==
    ASSUME Inv, AllIdleInv, NEW w \in Workers,
           RT_push(w) \/ RT_poll(w) \/ EndIteration(w)
    PROVE  AllIdleInv'
<1>1. pc'[w] = "share" /\ op'[w] \in {"push", "poll"} /\ Private(w)
  <2>1. CASE RT_push(w)
    BY <2>1 DEF RT_push, Goto, Private, Inv, ControlOK, RunOK, WorkOK
  <2>2. CASE RT_poll(w) \/ EndIteration(w)
    BY <2>2 DEF RT_poll, EndIteration, Goto, Private, Inv, ControlOK, RunOK, work
  <2> QED BY <2>1, <2>2
<1>2. IdleInv(w)'
  BY <1>1 DEF IdleInv, LookingInv, Looking, PopInv, PopFails, ForceInv, ShareInv, Waiting
<1> QED BY <1>1, <1>2, OthersKeepIdleInv

\* The top frame of worker w's stack is now at label a.
LEMMA TopMoves ==
    ASSUME Inv, NEW w \in Workers, NEW f, stack[w] # <<>>,
           stack' = [stack EXCEPT ![w] = [stack[w] EXCEPT ![1] = f]]
    PROVE  At(w)' = f.at
<1>1. stack[w] \in Seq(Frame) /\ Len(stack[w]) \in Nat \ {0}
      /\ DOMAIN stack[w] = 1 .. Len(stack[w])
  BY EmptySeq, LenProperties DEF Inv, RunOK
<1>2. stack'[w] = [stack[w] EXCEPT ![1] = f]
  BY DEF Inv, RunOK
<1>3. 1 \in DOMAIN stack'[w] /\ stack'[w][1] = f
  BY <1>1, <1>2
<1>4. stack'[w] # <<>> /\ Head(stack'[w]) = f
  BY <1>3
<1> QED BY <1>4 DEF At

\* AWAIT
LEMMA ForceFutureIdle ==
    ASSUME Inv, AllIdleInv, NEW w \in Workers, RT_force_future(w)
    PROVE  AllIdleInv'
<1>1. pc'[w] = "ready" /\ Private(w)
  BY DEF RT_force_future, Goto, Private, Inv, ControlOK, RunOK, work
<1>2. At(w)' = "force1"
  <2>1. PICK u : stack' = [stack EXCEPT ![w][1].at = "force1", ![w][1].fut = u]
    BY DEF RT_force_future
  <2>2. stack[w] # <<>>
    BY DEF RT_force_future, Inv, LocalInv, StackInv
  <2>3. stack[w][1] \in Frame /\ 1 \in DOMAIN stack[w] /\ w \in DOMAIN stack
    BY <2>2, TopType DEF Inv, RunOK
  <2> DEFINE f == [stack[w][1] EXCEPT !.at = "force1", !.fut = u]
  <2>4. f.at = "force1"
    BY <2>3 DEF Frame
  <2>5. stack' = [stack EXCEPT ![w] = [stack[w] EXCEPT ![1] = f]]
    BY <2>1, <2>3
  <2> HIDE DEF f
  <2> QED BY <2>2, <2>4, <2>5, TopMoves
<1>3. IdleInv(w)'
  BY <1>1, <1>2 DEF IdleInv, LookingInv, Looking, PopInv, PopFails, ForceInv,
     ShareInv, Waiting, Forcing
<1> QED BY <1>1, <1>3, OthersKeepIdleInv

\* A task ends: back to READY or to RT_pop.
LEMMA TaskReturnIdle ==
    ASSUME Inv, AllIdleInv, NEW w \in Workers, TaskReturn(w)
    PROVE  AllIdleInv'
<1>1. /\ pc'[w] \in {"ready", "pop"} /\ op'[w] = "loot" /\ Private(w)
      /\ stack'[w] = Tail(stack[w])
      /\ pc'[w] = "ready" => Len(stack[w]) > 1
                             /\ stack[w][2].at \in {"force1", "force2"}
  BY DEF TaskReturn, Goto, Private, Inv, ControlOK, RunOK
<1>2. pc'[w] = "ready" => Forcing(w)'
  <2> SUFFICES ASSUME Len(stack[w]) > 1, stack[w][2].at \in {"force1", "force2"}
               PROVE  Forcing(w)'
    BY <1>1
  <2>1. stack[w] \in Seq(Frame) /\ Len(stack[w]) \in Nat
    BY LenProperties DEF Inv, RunOK
  <2>2. stack'[w] \in Seq(Frame) /\ Len(stack'[w]) > 0 /\ stack'[w][1] = stack[w][2]
    BY <1>1, <2>1, HeadTailProperties, EmptySeq
  <2>3. stack'[w] # <<>> /\ Head(stack'[w]) = stack[w][2]
    BY <2>2, EmptySeq
  <2> QED BY <2>3 DEF Forcing, At
<1>3. IdleInv(w)'
  BY <1>1, <1>2 DEF IdleInv, LookingInv, Looking, PopInv, PopFails, ForceInv,
     ShareInv, Waiting
<1> QED BY <1>1, <1>3, OthersKeepIdleInv

\* RT_pop takes a task, or finds none.
LEMMA RTPopIdle ==
    ASSUME Inv, AllIdleInv, NEW w \in Workers, RT_pop(w)
    PROVE  AllIdleInv'
<1>1. pc'[w] = "share" /\ op'[w] = "pop" /\ Private(w) /\ UNCHANGED stack
  BY DEF RT_pop, Goto, Private, Inv, ControlOK, RunOK, WorkOK
<1>2. CASE CanPop(w)
  <2>1. hand'[w] = Head(deque[w]) /\ deque[w] # <<>> /\ deque[w] \in Seq(TaskIds)
    BY <1>2 DEF RT_pop, CanPop, Inv, RunOK, WorkOK
  <2>2. Head(deque[w]) \in TaskIds
    BY <2>1, HeadTailProperties
  <2>3. hand'[w] # NoTask
    BY <2>1, <2>2 DEF TaskIds, NoTask
  <2> QED BY <1>1, <2>3, OthersKeepIdleInv
          DEF IdleInv, LookingInv, Looking, PopInv, PopFails, ForceInv, ShareInv, Waiting
<1>3. CASE ~CanPop(w)
  <2>1. At(w)' # "force1" => deque'[w] = <<>>
    BY <1>1, <1>3 DEF RT_pop, CanPop, Inv, WorkOK, At
  <2> QED BY <1>1, <2>1, OthersKeepIdleInv
          DEF IdleInv, LookingInv, Looking, PopInv, PopFails, ForceInv, ShareInv, Waiting
<1> QED BY <1>2, <1>3

\* RT_pop returns NULL: only a worker without tasks turns to stealing in
\* schedule or RT_barrier.
LEMMA PopFailedIdle ==
    ASSUME Inv, AllIdleInv, NEW w \in Workers, PopFailed(w)
    PROVE  AllIdleInv'
<1>1. /\ IdleInv(w) /\ pc[w] \in {"serve", "behalf"} /\ op[w] = "pop"
      /\ hand[w] = NoTask
      /\ UNCHANGED <<deque, hand, op>>
  BY DEF AllIdleInv, PopFailed, NoRequest, work
<1>2. Private(w)
  BY DEF PopFailed, Goto, Private, Inv, ControlOK, RunOK, work
<1>3. CASE Forcing(w)
  <2> DEFINE f == [stack[w][1] EXCEPT !.at = "force2"]
  <2>1. stack[w] # <<>> /\ pc'[w] = "ready"
    BY <1>3 DEF PopFailed, Forcing, At, NothingLeft, Goto, Inv, ControlOK
  <2>2. f.at = "force2"
    BY <2>1, TopType DEF Inv, Frame
  <2>3. stack' = [stack EXCEPT ![w] = [stack[w] EXCEPT ![1] = f]]
    BY <1>3 DEF PopFailed
  <2>4. At(w)' = "force2"
    <3> HIDE DEF f
    <3> QED BY <2>1, <2>2, <2>3, TopMoves
  <2>5. IdleInv(w)'
    BY <1>1, <2>1, <2>4 DEF IdleInv, LookingInv, Looking, PopInv, PopFails, ForceInv,
       ShareInv, Waiting, Forcing
  <2> QED BY <1>2, <2>5, OthersKeepIdleInv
<1>4. CASE ~Forcing(w)
  <2>1. deque[w] = <<>>
    BY <1>1, <1>4 DEF IdleInv, PopInv, PopFails, Forcing
  <2>2. pc'[w] \in {"leave", "idle"}
    BY <1>4 DEF PopFailed, Goto, Inv, ControlOK
  <2>3. IdleInv(w)'
    BY <1>1, <2>1, <2>2 DEF IdleInv, LookingInv, Looking, PopInv, PopFails, ForceInv,
       ShareInv, Waiting
  <2> QED BY <1>2, <2>3, OthersKeepIdleInv
<1> QED BY <1>3, <1>4

\* RECV_TASK, with or without a task
LEMMA RecvTaskIdle ==
    ASSUME Inv, AllIdleInv, NEW w \in Workers, RecvTask(w) \/ RecvNoTask(w)
    PROVE  AllIdleInv'
<1>1. IdleInv(w) /\ pc[w] = "recv"
  BY DEF AllIdleInv, RecvTask, RecvNoTask
<1>2. CASE RecvTask(w)
  <2>1. pc'[w] = "share" /\ op'[w] = "loot" /\ Private(w)
    BY <1>2 DEF RecvTask, Goto, Private, Inv, ControlOK, RunOK, WorkOK
  <2>2. IdleInv(w)'
    BY <2>1 DEF IdleInv, LookingInv, Looking, PopInv, PopFails, ForceInv, ShareInv,
       Waiting
  <2> QED BY <2>1, <2>2, OthersKeepIdleInv
<1>3. CASE RecvNoTask(w)
  <2>1. /\ Forcing(w) => pc'[w] = "resend" /\ op'[w] = "force"
        /\ ~Forcing(w) => pc'[w] = "serve" /\ op'[w] = "idle"
        /\ UNCHANGED <<deque, hand, stack>> /\ Private(w)
    BY <1>3 DEF RecvNoTask, Goto, Private, Inv, ControlOK, work
  <2>2. Forcing(w)' <=> Forcing(w)
    BY <2>1 DEF Forcing, At
  <2>3. LookingInv(w)'
    BY <1>1, <2>1, <2>2 DEF IdleInv, LookingInv, Looking, Waiting
  <2>4. PopInv(w)' /\ ForceInv(w)' /\ ShareInv(w)'
    BY <2>1, <2>2 DEF PopInv, PopFails, ForceInv, ShareInv, Waiting
  <2> QED BY <2>1, <2>3, <2>4, OthersKeepIdleInv DEF IdleInv
<1> QED BY <1>2, <1>3

\* share_work gives tasks away and wakes the child that gets them.
LEMMA ShareIdle ==
    ASSUME Inv, AllIdleInv, NEW w \in Workers, ShareSend(w) \/ ShareSignal(w)
    PROVE  AllIdleInv'
<1>1. IdleInv(w) /\ UNCHANGED <<hand, stack, op>>
  BY DEF AllIdleInv, ShareSend, ShareSignal, control
<1>2. At(w)' = At(w) /\ (Forcing(w)' <=> Forcing(w))
  BY <1>1 DEF At, Forcing
<1>3. /\ pc[w] \in {"share", "signal"} /\ pc'[w] \in {"share", "signal"}
      /\ deque[w] = <<>> => deque'[w] = <<>>
      /\ Private(w)
  <2>1. CASE ShareSend(w)
    <3>1. \/ UNCHANGED deque
          \/ deque[w] # <<>> /\ \E d : deque' = [deque EXCEPT ![w] = d]
      BY <2>1 DEF ShareSend, SendLoot, split_loop
    <3> QED BY <1>1, <2>1, <3>1 DEF ShareSend, Goto, Private, Inv, ControlOK, WorkOK
  <2>2. CASE ShareSignal(w)
    <3>1. /\ pc'[w] = "share"
          /\ \A v \in Workers \ {w} :
                pc'[v] = pc[v] \/ (pc[v] = "asleep" /\ pc'[v] = "woken")
      BY <2>2, SignalMoves DEF ShareSignal, Inv, Labels
    <3> QED BY <1>1, <2>2, <3>1 DEF ShareSignal, Private, work
  <2> QED BY <2>1, <2>2
<1>4. IdleInv(w)'
  BY <1>1, <1>2, <1>3 DEF IdleInv, LookingInv, Looking, PopInv, PopFails, ForceInv,
     ShareInv, Waiting
<1> QED BY <1>3, <1>4, OthersKeepIdleInv

\* RT_EXIT_FN wakes a child up.
LEMMA SignalExitIdle ==
    ASSUME Inv, AllIdleInv, NEW w \in Workers, SignalExit(w)
    PROVE  AllIdleInv'
<1>1. /\ pc'[w] = "exit"
      /\ \A v \in Workers \ {w} :
            pc'[v] = pc[v] \/ (pc[v] = "asleep" /\ pc'[v] = "woken")
  BY SignalMoves DEF SignalExit, Inv, Labels
<1>2. Private(w)
  BY <1>1 DEF SignalExit, Private, work
<1> QED BY <1>1, <1>2, NothingToSay, OthersKeepIdleInv

-----------------------------------------------------------------------------
(* The theorems *)

\* Initially the master runs the root task, and the others are about to pop.
LEMMA InitIdle == Init => AllIdleInv
<1> SUFFICES ASSUME Init, NEW w \in Workers PROVE IdleInv(w)
  BY DEF AllIdleInv
<1>1. pc[w] \in {"body", "pop"}
  BY DEF Init
<1> QED BY <1>1 DEF IdleInv, LookingInv, Looking, PopInv, PopFails, ForceInv,
        ShareInv, Waiting

\* Every step preserves the invariant: one lemma per kind of action.
LEMMA NextIdle == Inv /\ AllIdleInv /\ [Next]_vars => AllIdleInv'
<1> SUFFICES ASSUME Inv, AllIdleInv, [Next]_vars PROVE AllIdleInv'
  OBVIOUS
<1>1. ASSUME NEW w \in Workers, Scheduler(w) PROVE AllIdleInv'
  BY <1>1, RecvFailedIdle, RecvOwnIdle, StartBehalfIdle, RecvBehalfIdle, ShareIdle,
     ShareDoneIdle, UserIdle, RTPopIdle, PopFailedIdle, BeginStealIdle, RecvTaskIdle,
     NothingToRelayIdle, OnlyMovesIdle, SignalExitIdle DEF Scheduler
<1>2. ASSUME NEW w \in Workers, User(w) PROVE AllIdleInv'
  BY <1>2, EnterIdle, ForceFutureIdle, TaskReturnIdle, UserIdle DEF User
<1>3. ASSUME NEW w \in Workers, SpuriousWakeup(w) PROVE AllIdleInv'
  BY <1>3, OnlyMovesIdle
<1>4. CASE UNCHANGED vars
  BY <1>4 DEF vars, work, control, AllIdleInv, IdleInv, LookingInv, Looking, PopInv,
     PopFails, ForceInv, ShareInv, At, Forcing
<1> QED BY <1>1, <1>2, <1>3, <1>4 DEF Next, Terminated

\* A worker that is looking for tasks, asleep or awake, has none.
THEOREM IdleInvHolds == Spec => []AllIdleInv
<1>1. Init => AllIdleInv
  BY InitIdle
<1>2. Inv /\ AllIdleInv /\ [Next]_vars => AllIdleInv'
  BY NextIdle
<1> QED BY <1>1, <1>2, InvHolds, PTL DEF Spec

\* A worker that declines steal requests from the loops of schedule and
\* RT_barrier, and may count as idle, has no task in its deque or in hand.
THEOREM IdleWorkers == Spec => []IdleWorkersHaveNoTasks
<1>1. AllIdleInv => IdleWorkersHaveNoTasks
  BY DEF AllIdleInv, IdleInv, LookingInv, Looking, IdleWorkersHaveNoTasks
<1> QED BY <1>1, IdleInvHolds, PTL

=============================================================================
