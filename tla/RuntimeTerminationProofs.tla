---------------------- MODULE RuntimeTerminationProofs ----------------------
(***************************************************************************)
(* Who backs off, who answers for whom, and when all is over; for any      *)
(* number of workers, any MAXSTEAL and any program.                        *)
(*                                                                         *)
(* A worker backs off only when its whole subtree has: its parent, which   *)
(* then answers and drops requests in its stead, does so for workers that  *)
(* sleep, have no tasks and will not wake up before it sends them some.    *)
(*                                                                         *)
(* When the master believes that the computation has terminated, it has,   *)
(* and it stays so until the master creates another task.  Shutting down   *)
(* from there reaches every worker, and leaves no task and no request      *)
(* behind.                                                                 *)
(***************************************************************************)
EXTENDS RuntimeTaskProofs

-----------------------------------------------------------------------------
(* Where the tasks on a worker's stack are *)

\* A barrier is the root task's, which is at the bottom of the master's stack;
\* a task that has called another one through the runtime is not in its body.
FramesOK(w) ==
    \A i \in 1 .. Len(stack[w]) :
        /\ stack[w][i].at = "barrier" => stack[w][i].task = Root
        /\ stack[w][i].task = Root => w = MASTER_ID /\ i = Len(stack[w])
        /\ i > 1 => stack[w][i].at # "body"

\* Worker w is in a routine of the runtime that may run another task.
InRuntime(w) ==
    \/ pc[w] \in {"pop", "idle", "recv", "resend", "leave", "ready"}
    \/ /\ op[w] \in {"pop", "loot", "idle", "force"}
       /\ pc[w] \in {"share", "signal", "serve", "behalf"} \cup Waiting

AtOK(w) ==
    /\ InRuntime(w) => At(w) # "body"
    /\ Looking(w, pc[w]) => At(w) \in {"schedule", "barrier"}
    /\ pc[w] = "leave" => w = MASTER_ID /\ At(w) = "barrier" /\ quiescent

FrameInv == ~Exiting => \A w \in Workers : FramesOK(w) /\ AtOK(w)

\* Where the innermost task of a worker is
LEMMA AtTop ==
    ASSUME RunOK, NEW w \in Workers
    PROVE  /\ stack[w] = <<>> <=> Len(stack[w]) = 0
           /\ Len(stack[w]) \in Nat
           /\ stack[w] # <<>> => /\ At(w) = stack[w][1].at /\ Current(w) = stack[w][1].task
                                 /\ At(w) \in {"body", "barrier", "force1", "force2"}
           /\ stack[w] = <<>> => At(w) = "schedule"
<1>1. stack[w] \in Seq(Frame) /\ Len(stack[w]) \in Nat
  BY LenProperties DEF RunOK
<1>2. stack[w] = <<>> <=> Len(stack[w]) = 0
  BY <1>1, EmptySeq
<1>3. CASE stack[w] # <<>>
  <2>1. stack[w][1] \in Frame /\ Head(stack[w]) = stack[w][1]
    BY <1>3, TopType
  <2> QED BY <1>1, <1>2, <1>3, <2>1 DEF At, Current, Frame
<1> QED BY <1>1, <1>2, <1>3 DEF At

LEMMA AtMoves ==
    ASSUME Inv, Inv', NEW w \in Workers
    PROVE  /\ \A a : Reframed(w, a) => At(w)' = a
           /\ Called(w) => At(w)' = "body"
           /\ Ended(w) => At(w)' = IF Len(stack[w]) = 1 THEN "schedule" ELSE stack[w][2].at
<1>1. /\ Len(stack'[w]) \in Nat /\ (stack'[w] = <<>> <=> Len(stack'[w]) = 0)
      /\ stack'[w] # <<>> => At(w)' = stack'[w][1].at
      /\ stack'[w] = <<>> => At(w)' = "schedule"
  BY AtTop DEF Inv, At
<1>2. ASSUME NEW a, Reframed(w, a) PROVE At(w)' = a
  BY <1>1, <1>2 DEF Reframed
<1>3. ASSUME Called(w) PROVE At(w)' = "body"
  BY <1>1, <1>3 DEF Called
<1>4. ASSUME Ended(w)
      PROVE  At(w)' = IF Len(stack[w]) = 1 THEN "schedule" ELSE stack[w][2].at
  <2>1. CASE Len(stack[w]) = 1
    BY <1>1, <1>4, <2>1 DEF Ended
  <2>2. CASE Len(stack[w]) # 1
    <3>0. \A n \in Nat \ {0} : n # 1 => 1 \in 1 .. n - 1 /\ n - 1 # 0
      OBVIOUS
    <3>1. 1 \in 1 .. Len(stack[w]) - 1 /\ Len(stack'[w]) # 0
      BY <1>4, <2>2, <3>0 DEF Ended
    <3>2. \A i \in 1 .. Len(stack[w]) - 1 : stack'[w][i] = stack[w][i + 1]
      BY <1>4 DEF Ended
    <3>4. PICK j : j = 1
      OBVIOUS
    <3>5. j \in 1 .. Len(stack[w]) - 1 /\ j + 1 = 2
      BY <3>1, <3>4
    <3>6. stack'[w][j] = stack[w][j + 1]
      BY <3>2, <3>5
    <3>3. stack'[w][1] = stack[w][2]
      BY <3>4, <3>5, <3>6
    <3> QED BY <1>1, <2>2, <3>1, <3>3
  <2> QED BY <2>1, <2>2
<1> QED BY <1>2, <1>3, <1>4

\* The root task runs from the beginning to the end.
LEMMA RootRuns ==
    ASSUME Inv, AllPlaced, AllRan
    PROVE  /\ MASTER_ID \in Workers /\ Root \in TaskIds /\ tasks[Root].status # "ready"
           /\ Len(stack[MASTER_ID]) \in Nat \ {0}
           /\ stack[MASTER_ID][Len(stack[MASTER_ID])].task = Root
           /\ \A w \in Workers : hand[w] # Root
<1>1. MASTER_ID \in Workers
  BY NAssumption DEF Workers, MASTER_ID
<1>2. stack[MASTER_ID] # <<>> /\ stack[MASTER_ID][Len(stack[MASTER_ID])].task = Root
  BY <1>1 DEF Inv, LocalInv, RootInv
<1>3. Len(stack[MASTER_ID]) \in Nat \ {0}
  BY <1>1, <1>2, AtTop DEF Inv
<1>4. Len(stack[MASTER_ID]) \in 1 .. Len(stack[MASTER_ID])
      /\ DOMAIN stack[MASTER_ID] = 1 .. Len(stack[MASTER_ID])
  BY <1>1, <1>3, LenProperties DEF Inv, RunOK
<1>5. Stacked(Root) /\ Root \in TaskIds
  BY <1>1, <1>2, <1>4 DEF Stacked, Inv, RunOK
<1>6. tasks[Root].status # "ready" /\ ~Somewhere(Root)
  BY <1>5 DEF AllPlaced, AllRan, Placed, Ran
<1> QED BY <1>1, <1>2, <1>3, <1>5, <1>6 DEF Somewhere, InHand

\* The frames after a step
LEMMA StepFrames ==
    ASSUME Inv, AllPlaced, AllRan, NEW w \in Workers,
           Scheduler(w) \/ User(w) \/ SpuriousWakeup(w),
           \A v \in Workers : FramesOK(v) /\ AtOK(v)
    PROVE  \A v \in Workers : FramesOK(v)'
<1>1. CASE UNCHANGED stack
  BY <1>1 DEF FramesOK
<1>2. ASSUME OtherStacks(w), FramesOK(w)' PROVE \A v \in Workers : FramesOK(v)'
  BY <1>2 DEF OtherStacks, FramesOK
<1>3. ASSUME NEW a, Reframed(w, a), a = "barrier" => Current(w) = Root PROVE FramesOK(w)'
  <2>1. Current(w) = stack[w][1].task
    BY <1>3, AtTop DEF Reframed, Inv
  <2>2. \A i \in 1 .. Len(stack[w]) : i = 1 \/ i \in 2 .. Len(stack[w])
    BY <1>3 DEF Reframed
  <2>3. FramesOK(w) /\ ~(1 > 1)
    OBVIOUS
  <2> QED BY <1>3, <2>1, <2>2, <2>3 DEF FramesOK, Reframed
<1>4. ASSUME Reframed(w, "force1") \/ Reframed(w, "force2") \/ Reframed(w, "body")
      PROVE  FramesOK(w)' /\ OtherStacks(w)
  BY <1>3, <1>4 DEF Reframed
<1>5. CASE ForceReady(w) \/ RT_force_future(w) \/ BarrierReturn(w) \/ PopFailed(w)
  BY <1>1, <1>2, <1>4, <1>5, Reframes
<1>6. CASE RT_barrier(w)
  <2>1. Reframed(w, "barrier") /\ Current(w) = Root
    BY <1>6, Reframes DEF RT_barrier
  <2> QED BY <1>2, <1>3, <2>1 DEF Reframed
<1>7. CASE ShareDoneRun(w) \/ RunPopped(w)
  <2>1. Called(w) /\ hand[w] # Root
    BY <1>7, Calls, RootRuns DEF ShareDoneRun, RunPopped
  <2>2. At(w) # "body"
    BY <1>7 DEF AtOK, InRuntime, ShareDoneRun, RunPopped, NoRequest
  <2>3. FramesOK(w)'
    <3> SUFFICES ASSUME NEW i \in 1 .. Len(stack'[w])
                 PROVE  /\ stack'[w][i].at = "barrier" => stack'[w][i].task = Root
                        /\ stack'[w][i].task = Root => w = MASTER_ID /\ i = Len(stack'[w])
                        /\ i > 1 => stack'[w][i].at # "body"
      BY DEF FramesOK
    <3>1. CASE i = 1
      BY <2>1, <3>1 DEF Called
    <3>2. CASE i # 1
      <4>1. /\ i \in 2 .. Len(stack[w]) + 1 /\ i - 1 \in 1 .. Len(stack[w])
            /\ (i - 1 = Len(stack[w]) => i = Len(stack'[w]))
            /\ (i - 1 > 1 \/ i - 1 = 1)
        BY <2>1, <3>2 DEF Called
      <4>2. stack'[w][i] = stack[w][i - 1]
        BY <2>1, <4>1 DEF Called
      <4>3. stack[w][1].at # "body"
        BY <2>2, <4>1, AtTop DEF Inv
      <4> QED BY <4>1, <4>2, <4>3 DEF FramesOK
    <3> QED BY <3>1, <3>2
  <2> QED BY <1>2, <2>1, <2>3 DEF Called
<1>8. CASE TaskReturn(w)
  <2>1. Ended(w)
    BY <1>8, Calls
  <2>2. \A i \in 1 .. Len(stack'[w]) :
            /\ i + 1 \in 1 .. Len(stack[w]) /\ stack'[w][i] = stack[w][i + 1]
            /\ (i + 1 = Len(stack[w]) => i = Len(stack'[w])) /\ i + 1 > 1
    BY <2>1 DEF Ended
  <2>3. FramesOK(w)'
    BY <2>2 DEF FramesOK
  <2> QED BY <1>2, <2>1, <2>3 DEF Ended
<1> QED BY <1>1, <1>5, <1>6, <1>7, <1>8, StacksKept

\* A step of worker w leaves the other workers where they are.
LEMMA StepPrivate ==
    ASSUME Inv, NEW w \in Workers, Scheduler(w) \/ User(w) \/ SpuriousWakeup(w)
    PROVE  Private(w) /\ MovesAlone(w)
<1> USE DEF Inv, ControlOK, WorkOK, RunOK
<1>1. ASSUME Goto(w, pc'[w]) \/ UNCHANGED pc PROVE MovesAlone(w)
  BY <1>1 DEF Goto, MovesAlone
<1>2. ASSUME MovesAlone(w), \A v \in Workers \ {w} : /\ deque'[v] = deque[v] /\ hand'[v] = hand[v]
                                                     /\ stack'[v] = stack[v] /\ op'[v] = op[v]
      PROVE  Private(w)
  BY <1>2 DEF MovesAlone, Private
<1>3. CASE Quiet(w)
  <2>1. MovesAlone(w)
    BY <1>3, QuietMoves
  <2>2. CASE \/ StartBehalf(w) \/ ShareSignal(w) \/ ShareDone(w)
             \/ ReturnToBody(w) \/ NothingToRelay(w)
             \/ WaitPeek(w) \/ Sleep(w) \/ SpuriousWakeup(w) \/ Wake(w)
             \/ SignalExit(w) \/ ExitDone(w)
    BY <1>2, <2>1, <2>2 DEF StartBehalf, ShareSignal, ShareDone, ReturnToBody, NothingToRelay,
        WaitPeek, Sleep, SpuriousWakeup, Wake, SignalExit, ExitDone, control, work
  <2>3. CASE ShareDoneRun(w) \/ RunPopped(w)
    BY <1>2, <2>1, <2>3 DEF ShareDoneRun, RunPopped, Start
  <2>4. CASE PopFailed(w) \/ ForceReady(w) \/ BarrierReturn(w) \/ ShareDoneExit(w)
    BY <1>2, <2>1, <2>4 DEF PopFailed, ForceReady, BarrierReturn, ShareDoneExit, work
  <2>5. CASE RT_push(w) \/ RT_force_future(w) \/ RT_poll(w) \/ EndIteration(w)
             \/ TaskReturn(w) \/ RT_barrier(w)
    BY <1>2, <2>1, <2>5 DEF RT_push, RT_force_future, RT_poll, EndIteration, TaskReturn,
        RT_barrier, work
  <2> QED BY <1>3, <2>1, <2>2, <2>3, <2>4, <2>5 DEF Quiet, User
<1>4. CASE Sends(w)
  <2>1. MovesAlone(w)
    BY <1>4, SendsMoves
  <2> QED BY <1>2, <1>4, <2>1 DEF Sends, RT_pop, BeginSteal, RecvNoTask, Resend, ForceNotReady,
        work, control
<1>5. CASE RecvOwn(w) \/ RecvBehalf(w)
  <2>1. MovesAlone(w) /\ UNCHANGED <<hand, stack, op>>
    BY <1>5, RecvGoes DEF Goes, MovesAlone
  <2>2. UNCHANGED deque \/ \E d : deque' = [deque EXCEPT ![w] = d]
    BY <1>5, DispatchRelays DEF RecvOwn, RecvBehalf, Relays, work
  <2> QED BY <1>2, <2>1, <2>2
<1>6. CASE RecvFailed(w) \/ RecvTask(w) \/ NotifyExit(w)
  <2>1. MovesAlone(w)
    BY <1>1, <1>6 DEF RecvFailed, RecvTask, NotifyExit, Goto
  <2> QED BY <1>2, <1>6, <2>1 DEF RecvFailed, RecvTask, NotifyExit, work, control
<1>7. CASE ShareSend(w)
  <2>1. MovesAlone(w)
    BY <1>1, <1>7 DEF ShareSend, Goto
  <2>2. UNCHANGED deque \/ \E d : deque' = [deque EXCEPT ![w] = d]
    BY <1>7 DEF ShareSend, SendLoot, split_loop
  <2> QED BY <1>2, <1>7, <2>1, <2>2 DEF ShareSend, control
<1> QED BY <1>3, <1>4, <1>5, <1>6, <1>7, StepKinds

\* Once the master has detected termination it knows, until it creates a task.
LEMMA StaysQuiescent ==
    ASSUME Inv, NEW w \in Workers, Scheduler(w) \/ User(w) \/ SpuriousWakeup(w), quiescent,
           ~(RT_push(w) /\ w = MASTER_ID)
    PROVE  quiescent'
<1>1. CASE RecvOwn(w) \/ RecvBehalf(w)
  <2>1. \A r, q, next : decline_steal_request(w, r, q, next) => quiescent' = TRUE \/ UNCHANGED quiescent
    BY DEF decline_steal_request, PassOn, detect_termination, BackOff, Drop, Recirculate, FORGET_REQ
  <2>2. \A r, q : Dispatch(w, r, q) => quiescent' = TRUE \/ UNCHANGED quiescent
    BY <2>1 DEF Dispatch, handle_steal_request, handle, SplitOrForget, FORGET_REQ, Answered
  <2> QED BY <1>1, <2>2 DEF RecvOwn, RecvBehalf, protocol
<1>2. CASE \/ RecvFailed(w) \/ StartBehalf(w)
           \/ ShareSend(w) \/ ShareSignal(w) \/ ShareDone(w) \/ ShareDoneRun(w)
           \/ RT_pop(w) \/ RunPopped(w) \/ PopFailed(w) \/ ReturnToBody(w)
           \/ BeginSteal(w) \/ RecvTask(w) \/ RecvNoTask(w) \/ Resend(w)
           \/ NothingToRelay(w) \/ ForceReady(w) \/ ForceNotReady(w)
           \/ WaitPeek(w) \/ Sleep(w) \/ Wake(w) \/ BarrierReturn(w)
           \/ ShareDoneExit(w) \/ NotifyExit(w) \/ SignalExit(w) \/ ExitDone(w)
           \/ SpuriousWakeup(w) \/ RT_force_future(w) \/ RT_poll(w) \/ EndIteration(w)
           \/ TaskReturn(w) \/ RT_barrier(w)
  BY <1>2 DEF protocol, RecvFailed, StartBehalf,
        ShareSend, ShareSignal, ShareDone, ShareDoneRun,
        RT_pop, RunPopped, PopFailed, ReturnToBody,
        BeginSteal, RecvTask, RecvNoTask, Resend,
        NothingToRelay, ForceReady, ForceNotReady,
        WaitPeek, Sleep, Wake, BarrierReturn,
        ShareDoneExit, NotifyExit, SignalExit, ExitDone,
        SpuriousWakeup, RT_force_future, RT_poll, EndIteration,
        TaskReturn, RT_barrier
<1>3. CASE RT_push(w)
  BY <1>3 DEF RT_push
<1> QED BY <1>1, <1>2, <1>3 DEF Scheduler, User

\* The master leaves a barrier from the loop on RECV_TASK when it has detected
\* termination.
LEMMA RecvLeaves ==
    ASSUME Inv, NEW w \in Workers, RecvOwn(w) \/ RecvBehalf(w), pc'[w] = "leave"
    PROVE  w = MASTER_ID /\ quiescent'
<1> USE DEF Inv, ControlOK
<1>1. \A r, q, next : decline_steal_request(w, r, q, next) /\ next # "leave"
                        => w = MASTER_ID /\ quiescent'
  BY DEF decline_steal_request, PassOn, detect_termination, BackOff, Drop, Recirculate,
         FORGET_REQ, Goto
<1>2. \A r, q : Dispatch(w, r, q) => w = MASTER_ID /\ quiescent'
  BY <1>1 DEF Dispatch, handle_steal_request, handle, SplitOrForget, FORGET_REQ, Answered, Goto
<1> QED BY <1>2 DEF RecvOwn, RecvBehalf

LEMMA StepAt ==
    ASSUME Inv, Inv', AllIdleInv, AllPlaced, AllRan, NEW w \in Workers,
           Scheduler(w) \/ User(w) \/ SpuriousWakeup(w),
           \A v \in Workers : FramesOK(v) /\ AtOK(v)
    PROVE  \A v \in Workers : AtOK(v)'
<1> USE DEF Inv, ControlOK
<1>1. ASSUME AtOK(w)' PROVE \A v \in Workers : AtOK(v)'
  <2> SUFFICES ASSUME NEW v \in Workers, v # w PROVE AtOK(v)'
    BY <1>1
  <2>1. /\ pc'[v] = pc[v] \/ (pc[v] = "asleep" /\ pc'[v] = "woken")
        /\ op'[v] = op[v] /\ stack'[v] = stack[v]
    BY StepPrivate DEF Private
  <2>2. At(v)' = At(v) /\ (Forcing(v)' <=> Forcing(v))
    BY <2>1 DEF At, Forcing
  <2>3. quiescent /\ pc[v] = "leave" => quiescent'
    BY StaysQuiescent DEF AtOK
  <2> QED BY <2>1, <2>2, <2>3 DEF AtOK, InRuntime, Looking, Waiting
<1>2. CASE UNCHANGED stack /\ ~(RT_force_future(w) \/ RT_barrier(w) \/ TaskReturn(w))
  <2>1. At(w)' = At(w) /\ (Forcing(w)' <=> Forcing(w))
    BY <1>2 DEF At, Forcing
  <2>2. At(w) = "schedule" => w # MASTER_ID
    BY AtTop DEF LocalInv, RootInv
  <2>3. CASE RecvOwn(w) \/ RecvBehalf(w)
    BY <1>1, <2>1, <2>2, <2>3, RecvGoes, RecvLeaves, StaysQuiescent
        DEF AtOK, InRuntime, Looking, Goes, Waiting
  <2>4. CASE RecvFailed(w)
    BY <1>1, <2>1, <2>4 DEF AtOK, InRuntime, Looking, RecvFailed, control
  <2>5. ASSUME UNCHANGED <<op, quiescent>>, NEW l, Goto(w, l), l # "leave", InRuntime(w)' => InRuntime(w),
               Looking(w, l) => Looking(w, pc[w])
        PROVE  AtOK(w)'
    <3>1. pc'[w] = l /\ (Looking(w, pc[w])' <=> Looking(w, l))
      BY <2>1, <2>5 DEF Goto, Looking
    <3> QED BY <2>1, <2>5, <3>1 DEF AtOK
  <2>11. CASE \/ StartBehalf(w) \/ Sleep(w) \/ SpuriousWakeup(w) \/ Wake(w) \/ WaitPeek(w)
    <3>1. UNCHANGED <<op, quiescent>> /\ Goto(w, pc'[w]) /\ pc'[w] # "leave"
      BY <2>11 DEF StartBehalf, Sleep, SpuriousWakeup, Wake, WaitPeek, Goto, control, protocol
    <3>2. (InRuntime(w)' => InRuntime(w)) /\ (Looking(w, pc'[w]) => Looking(w, pc[w]))
      BY <2>11 DEF StartBehalf, Sleep, SpuriousWakeup, Wake, WaitPeek, Goto, control, InRuntime,
            Looking, Waiting
    <3> QED BY <1>1, <2>5, <3>1, <3>2
  <2>12. CASE ShareSend(w) \/ ShareDone(w) \/ ReturnToBody(w) \/ NothingToRelay(w)
    <3>1. UNCHANGED <<op, quiescent>> /\ Goto(w, pc'[w]) /\ pc'[w] # "leave"
      BY <2>12 DEF ShareSend, ShareDone, ReturnToBody, NothingToRelay, Goto, control, protocol
    <3>2. (InRuntime(w)' => InRuntime(w)) /\ (Looking(w, pc'[w]) => Looking(w, pc[w]))
      BY <2>12 DEF ShareSend, ShareDone, ReturnToBody, NothingToRelay, NoRequest, Goto, control, InRuntime,
            Looking, Waiting, AllIdleInv, IdleInv, ShareInv
    <3> QED BY <1>1, <2>5, <3>1, <3>2
  <2>13. CASE BeginSteal(w) \/ Resend(w) \/ ForceNotReady(w)
    <3>1. UNCHANGED <<op, quiescent>> /\ Goto(w, pc'[w]) /\ pc'[w] # "leave"
      BY <2>13 DEF BeginSteal, Resend, ForceNotReady, Goto, control
    <3>2. (InRuntime(w)' => InRuntime(w)) /\ (Looking(w, pc'[w]) => Looking(w, pc[w]))
      BY <2>13 DEF BeginSteal, Resend, ForceNotReady, Goto, control, InRuntime,
            Looking, Waiting, AllIdleInv, IdleInv, ForceInv, Forcing
    <3> QED BY <1>1, <2>5, <3>1, <3>2
  <2>14. CASE RT_pop(w) \/ RecvTask(w)
    <3>1. pc'[w] = "share" /\ InRuntime(w) /\ op'[w] # "idle"
      BY <2>14 DEF RT_pop, RecvTask, Goto, InRuntime
    <3> QED BY <1>1, <2>1, <3>1 DEF AtOK, Looking, Waiting
  <2>15. CASE RecvNoTask(w)
    <3>1. At(w) # "body"
      BY <2>15 DEF RecvNoTask, AtOK, InRuntime
    <3>2. /\ pc'[w] \in {"resend", "serve"} /\ (pc'[w] = "serve" => ~Forcing(w))
          /\ (pc'[w] = "resend" => op'[w] = "force")
      BY <2>15 DEF RecvNoTask, Goto
    <3> QED BY <1>1, <2>1, <3>1, <3>2, AtTop DEF AtOK, Looking, Waiting, Forcing
  <2>6. CASE ShareSignal(w) \/ SignalExit(w)
    <3>1. pc'[w] \in {"share", "exit"} /\ op'[w] = op[w] /\ (pc'[w] = "share" => pc[w] = "signal")
      BY <2>6 DEF ShareSignal, SignalExit, SIGNAL, Woken, control
    <3> QED BY <1>1, <2>1, <3>1 DEF AtOK, InRuntime, Looking, Waiting
  <2>7. CASE ShareDoneExit(w) \/ NotifyExit(w) \/ ExitDone(w) \/ RT_push(w) \/ RT_poll(w)
             \/ EndIteration(w)
    BY <1>1, <2>1, <2>7 DEF AtOK, InRuntime, Looking, Waiting, ShareDoneExit, NotifyExit, ExitDone,
        RT_push, RT_poll, EndIteration, Goto
  <2>8. CASE PopFailed(w)
    <3>1. At(w) # "body" /\ (At(w) = "barrier" => w = MASTER_ID)
      <4>1. At(w) # "body"
        BY <2>8 DEF AtOK, InRuntime, PopFailed, NoRequest
      <4>2. At(w) = "barrier" => stack[w] # <<>> /\ stack[w][1].at = "barrier"
                                  /\ 1 \in 1 .. Len(stack[w])
        BY AtTop
      <4> QED BY <4>1, <4>2 DEF FramesOK
    <3> QED BY <1>1, <2>1, <2>8, <3>1, AtTop DEF AtOK, InRuntime, Looking, Waiting, PopFailed, Goto,
        NothingLeft, Forcing
  <2>9. CASE ForceReady(w) \/ ShareDoneRun(w) \/ RunPopped(w) \/ BarrierReturn(w)
    BY <1>1, <2>9 DEF AtOK, InRuntime, Looking, ForceReady, ShareDoneRun, RunPopped,
        BarrierReturn, Goto, Waiting
  <2> QED BY <1>2, <2>3, <2>4, <2>6, <2>7, <2>8, <2>9, <2>11, <2>12, <2>13, <2>14, <2>15
            DEF Scheduler, User
<1>3. CASE ForceReady(w) \/ ShareDoneRun(w) \/ RunPopped(w) \/ BarrierReturn(w)
  BY <1>1, <1>3 DEF AtOK, InRuntime, Looking, ForceReady, ShareDoneRun, RunPopped,
        BarrierReturn, Goto, Waiting
<1>4. CASE RT_force_future(w) \/ RT_barrier(w)
  <2>1. At(w)' # "body"
    BY <1>4, Reframes, AtMoves
  <2> QED BY <1>1, <1>4, <2>1 DEF AtOK, Looking, RT_force_future, RT_barrier, Goto, Waiting
<1>5. CASE TaskReturn(w)
  <2>1. Ended(w)
    BY <1>5, Calls
  <2>0. \A n \in Nat \ {0} : n # 1 => 2 \in 1 .. n /\ 2 > 1
    OBVIOUS
  <2>2. Len(stack[w]) # 1 => 2 \in 1 .. Len(stack[w]) /\ 2 > 1
    BY <2>0, <2>1 DEF Ended
  <2>3. At(w)' # "body"
    BY <2>1, <2>2, AtMoves DEF FramesOK
  <2> QED BY <1>1, <1>5, <2>3 DEF AtOK, Looking, TaskReturn, Goto, Waiting
<1>6. CASE PopFailed(w) /\ Forcing(w)
  <2>1. At(w)' = "force2"
    BY <1>6, Reframes, AtMoves
  <2> QED BY <1>1, <1>6, <2>1 DEF AtOK, Looking, PopFailed, NothingLeft, Forcing, Goto, Waiting
<1> QED BY <1>2, <1>3, <1>4, <1>5, <1>6, StacksKept, Reframes

LEMMA InitFrame == Init => FrameInv
<1> SUFFICES ASSUME Init, NEW w \in Workers PROVE FramesOK(w) /\ AtOK(w)
  BY DEF FrameInv
<1>1. CASE w = MASTER_ID
  <2>1. /\ stack[w] = <<[task |-> Root, at |-> "body", fut |-> NoTask]>>
        /\ pc[w] = "body" /\ op[w] = "pop"
    BY <1>1 DEF Init
  <2>2. Len(stack[w]) = 1 /\ stack[w][1].at = "body"
    BY <2>1
  <2>3. FramesOK(w)
    BY <1>1, <2>2 DEF FramesOK
  <2> QED BY <2>1, <2>3 DEF AtOK, InRuntime, Looking, Waiting
<1>2. CASE w # MASTER_ID
  <2>1. stack[w] = <<>> /\ pc[w] = "pop" /\ op[w] = "pop"
    BY <1>2 DEF Init
  <2>2. Len(stack[w]) = 0
    BY <2>1
  <2>3. FramesOK(w)
    BY <2>2 DEF FramesOK
  <2> QED BY <2>1, <2>3 DEF AtOK, InRuntime, Looking, Waiting, At
<1> QED BY <1>1, <1>2

LEMMA NextFrame == Inv /\ Inv' /\ AllIdleInv /\ TaskInv /\ FrameInv /\ [Next]_vars => FrameInv'
<1> SUFFICES ASSUME Inv, Inv', AllIdleInv, TaskInv, FrameInv, [Next]_vars, ~Exiting'
             PROVE  \A v \in Workers : FramesOK(v)' /\ AtOK(v)'
  BY DEF FrameInv
<1>1. ASSUME NEW w \in Workers, Scheduler(w) \/ User(w) \/ SpuriousWakeup(w)
      PROVE  \A v \in Workers : FramesOK(v)' /\ AtOK(v)'
  <2>1. ~Exiting
    BY <1>1, ExitIsFinal
  <2> QED BY <1>1, <2>1, StepFrames, StepAt DEF TaskInv, FrameInv
<1>2. CASE UNCHANGED vars
  <2>1. ~Exiting /\ UNCHANGED <<stack, pc, op, quiescent>>
    BY <1>2 DEF vars, protocol, control, Exiting
  <2> QED BY <2>1 DEF FrameInv, FramesOK, AtOK, InRuntime, Looking, Forcing, At
<1> QED BY <1>1, <1>2 DEF Next, Terminated

\* Only the root task is ever in a barrier, nothing runs below it, and a worker
\* that steals in schedule or RT_barrier is not in a task's body.
THEOREM FrameInvHolds == Spec => []FrameInv
<1>1. Init => FrameInv
  BY InitFrame
<1>2. Inv /\ Inv' /\ AllIdleInv /\ TaskInv /\ FrameInv /\ [Next]_vars => FrameInv'
  BY NextFrame
<1> QED BY <1>1, <1>2, InvHolds, IdleInvHolds, TaskInvHolds, PTL DEF Spec

-----------------------------------------------------------------------------
(* What becomes of a request that worker w has taken out of a channel *)

Unheard == <<chan_tasks, waiting>>

\* A worker that is not looking for tasks knows that it was not its idleness
\* that sent request r.
Admits(w, r) == r.state = IDLE \/ (op[w] = "idle" /\ r.state = WORKING)

Forgotten(w, r, q) ==
    /\ r.id = w
    /\ chan_requests' = q
    /\ requested' = [requested EXCEPT ![w] = @ - 1]
    /\ UNCHANGED Unheard
    /\ pc'[w] \in {"serve", "recv"}

\* It keeps its state, or becomes idle when its sender has.
Passed(w, r, q) ==
    /\ \E v \in Workers, s \in Request :
        /\ s.id = r.id /\ s.chan = r.chan
        /\ s.state = r.state \/ (r.id = w /\ s.state = IDLE /\ op[w] = "idle" /\ r.state # FAILED)
        /\ chan_requests' = Deliver(q, v, s)
    /\ UNCHANGED <<requested, Unheard>>
    /\ pc'[w] \in {"serve", "recv"}

HandedUp(w, r, q) ==
    /\ r.id = w /\ w # MASTER_ID /\ Admits(w, r)
    /\ LastRequest(w) /\ BothSubtreesIdle(w)
    /\ \E s \in Request :
        /\ s.id = w /\ s.chan = r.chan /\ s.state = FAILED
        /\ chan_requests' = Deliver(q, parent(w), s)
    /\ waiting' = [waiting EXCEPT ![w] = TRUE]
    /\ UNCHANGED <<requested, chan_tasks>>
    /\ pc'[w] = "waitpeek"

Discarded(w, r, q) ==
    /\ r.id = w /\ Admits(w, r) /\ ~LastRequest(w)
    /\ chan_requests' = q
    /\ UNCHANGED <<requested, Unheard>>
    /\ pc'[w] \in {"serve", "recv"}

Concluded(w, r, q) ==
    /\ r.id = w /\ w = MASTER_ID /\ Admits(w, r)
    /\ LastRequest(w) /\ BothSubtreesIdle(w)
    /\ chan_requests' = q
    /\ requested' = [requested EXCEPT ![w] = @ - 1]
    /\ UNCHANGED Unheard
    /\ quiescent'
    /\ pc'[w] \in {"serve", "leave"}

Served(w, r, q) ==
    /\ r.id # w /\ Used(r, q)
    /\ UNCHANGED <<requested, waiting>>
    /\ pc'[w] = "serve"
    /\ op[w] # "idle"

\* Termination is detected only by the master, which then has nothing to do.
Fate(w, r, q) ==
    \/ Concluded(w, r, q)
    \/ /\ UNCHANGED quiescent
       /\ \/ Forgotten(w, r, q) \/ Passed(w, r, q) \/ HandedUp(w, r, q)
          \/ Discarded(w, r, q) \/ Served(w, r, q)

LEMMA DeclineFate ==
    ASSUME ControlOK, NEW w \in Workers, NEW r \in Request, NEW q,
           NEW req \in Request, req = r \/ (op[w] = "idle" /\ r.id = w /\ r.state = WORKING
                                            /\ req = [r EXCEPT !.state = IDLE]),
           NEW next, next = (IF op[w] = "idle" THEN "recv" ELSE "serve"),
           decline_steal_request(w, req, q, next)
    PROVE  Fate(w, r, q)
<1> USE DEF ControlOK
<1>1. PICK s : s = [req EXCEPT !.try = @ + 1]
  OBVIOUS
<1>2. /\ s \in Request /\ s.id = r.id /\ s.chan = r.chan /\ s.state = req.state
      /\ s.state = r.state \/ (r.id = w /\ s.state = IDLE /\ op[w] = "idle" /\ r.state = WORKING)
      /\ r.state = WORKING => r.state # FAILED
  BY <1>1 DEF Request, FAILED, WORKING, IDLE
<1>3. ASSUME NEW t \in Request, t.id = r.id, t.chan = r.chan, t.state = s.state,
             PassOn(w, t, q, next)
      PROVE  Passed(w, r, q) /\ UNCHANGED quiescent
  <2>1. PICK u : u = next_victim(w, t)
    OBVIOUS
  <2>2. u \in Request /\ u.id = r.id /\ u.chan = r.chan /\ u.state = s.state
    BY <1>3, <2>1, NextVictimType DEF next_victim, Request
  <2>3. PICK v \in Victims(u) : chan_requests' = Deliver(q, v, u)
    BY <1>3, <2>1 DEF PassOn, SendOn
  <2>4. v \in Workers
    BY <2>2, <2>3, VictimsType
  <2>5. UNCHANGED <<requested, Unheard, quiescent>> /\ pc'[w] \in {"serve", "recv"}
    BY <1>3 DEF PassOn, Unheard, Goto, work
  <2> QED BY <1>2, <2>2, <2>3, <2>4, <2>5 DEF Passed
<1>4. CASE s.id # w /\ PassOn(w, s, q, next)
  BY <1>2, <1>3, <1>4 DEF Fate
<1>5. CASE s.id = w /\ Recirculate(w, s, q, next)
  <2>1. PICK t : t = Renewed(s)
    OBVIOUS
  <2>2. t \in Request /\ t.id = r.id /\ t.chan = r.chan /\ t.state = s.state
    BY <1>2, <2>1 DEF Renewed, Request
  <2>3. CASE PassOn(w, t, q, next)
    BY <1>3, <2>2, <2>3 DEF Fate
  <2>4. CASE FORGET_REQ(w, s, q, next)
    BY <1>2, <1>5, <2>4 DEF Fate, Forgotten, FORGET_REQ, Unheard, work, Goto
  <2> QED BY <1>5, <2>1, <2>3, <2>4 DEF Recirculate
<1>6. CASE s.id = w /\ s.state = IDLE /\ BothSubtreesIdle(w)
  <2>1. Admits(w, r) /\ r.id = w
    BY <1>2, <1>6 DEF Admits
  <2>2. CASE LastRequest(w) /\ w = MASTER_ID /\ detect_termination(w, s, q, next)
    BY <1>6, <2>1, <2>2 DEF Fate, Concluded, detect_termination, Unheard, work, Goto
  <2>3. CASE LastRequest(w) /\ w # MASTER_ID /\ BackOff(w, s, q)
    <3>1. PICK u : u = [s EXCEPT !.state = FAILED]
      OBVIOUS
    <3>2. u \in Request /\ u.id = w /\ u.chan = r.chan /\ u.state = FAILED
      BY <1>2, <1>6, <3>1 DEF Request
    <3>3. chan_requests' = Deliver(q, parent(w), u)
      BY <2>3, <3>1 DEF BackOff, SendOn
    <3> QED BY <1>6, <2>1, <2>3, <3>2, <3>3 DEF Fate, HandedUp, BackOff, work, Goto
  <2>4. CASE ~LastRequest(w) /\ Drop(w, s, q, next)
    BY <2>1, <2>4 DEF Fate, Discarded, Drop, Unheard, work, Goto
  <2>5. s.id = w /\ ~(s.id # w) /\ ~~(s.state = IDLE /\ BothSubtreesIdle(w))
    BY <1>6
  <2> QED BY <1>1, <2>2, <2>3, <2>4, <2>5 DEF decline_steal_request
<1>7. \/ s.id # w /\ PassOn(w, s, q, next)
      \/ s.id = w /\ s.state = IDLE /\ BothSubtreesIdle(w)
      \/ s.id = w /\ Recirculate(w, s, q, next)
  BY <1>1 DEF decline_steal_request
<1> QED BY <1>4, <1>5, <1>6, <1>7

\* Every request that a worker takes out of a channel meets one of these fates.
LEMMA DispatchFate ==
    ASSUME Inv, NEW w \in Workers, NEW r \in Request, NEW q, Dispatch(w, r, q)
    PROVE  Fate(w, r, q)
<1> USE DEF Inv, ControlOK
<1>1. ASSUME r.id = w, FORGET_REQ(w, r, q, "serve") PROVE Fate(w, r, q)
  BY <1>1 DEF Fate, Forgotten, FORGET_REQ, Unheard, work, Goto
<1>2. ASSUME r.id # w, op[w] # "idle", Answered(w, q, "serve"),
             \E list : list # <<>> /\ SendTasks(r, list)
      PROVE  Fate(w, r, q)
  BY <1>2 DEF Fate, Served, Used, Answered, Goto
<1>3. ASSUME op[w] # "idle", decline_steal_request(w, r, q, "serve") PROVE Fate(w, r, q)
  BY <1>3, DeclineFate
<1>4. ASSUME op[w] # "idle", handle_steal_request(w, r, q, "serve") PROVE Fate(w, r, q)
  BY <1>1, <1>2, <1>3, <1>4, SendLootUsed DEF handle_steal_request
<1>5. ASSUME op[w] # "idle", NEW t, SplitOrForget(w, t, r, q, "serve") PROVE Fate(w, r, q)
  BY <1>1, <1>2, <1>5, SplitUsed DEF SplitOrForget
<1>6. CASE op[w] = "idle"
  <2>1. PICK s : /\ s = IF r.id = w /\ r.state = WORKING THEN [r EXCEPT !.state = IDLE] ELSE r
                 /\ decline_steal_request(w, s, q, "recv")
    BY <1>6 DEF Dispatch
  <2>2. s \in Request
    BY <2>1 DEF Request
  <2> QED BY <1>6, <2>1, <2>2, DeclineFate
<1>7. CASE op[w] # "idle"
  BY <1>3, <1>4, <1>5, <1>7 DEF Dispatch, handle
<1> QED BY <1>6, <1>7

-----------------------------------------------------------------------------
(* Requests in the channels *)

LEMMA AppendHas ==
    ASSUME NEW S, NEW s \in Seq(S), NEW r \in S, NEW x
    PROVE  Has(Append(s, r), x) <=> Has(s, x) \/ x = r
<1>1. /\ Len(s) \in Nat /\ Len(Append(s, r)) = Len(s) + 1
      /\ \A i \in 1 .. Len(s) : Append(s, r)[i] = s[i]
      /\ Append(s, r)[Len(s) + 1] = r
  BY LenProperties, AppendProperties
<1>2. \A i \in 1 .. Len(s) + 1 : i \in 1 .. Len(s) \/ i = Len(s) + 1
  BY <1>1
<1>3. Len(s) + 1 \in 1 .. Len(s) + 1 /\ 1 .. Len(s) \subseteq 1 .. Len(s) + 1
  BY <1>1
<1> QED BY <1>1, <1>2, <1>3 DEF Has

Queues(q) == q \in [Workers -> Seq(Request)]

LEMMA DeliveredHas ==
    ASSUME NEW q, Queues(q), NEW u \in Workers, NEW s \in Request,
           chan_requests' = Deliver(q, u, s)
    PROVE  /\ \A v \in Workers : \A x : Has(q[v], x) => Has(chan_requests'[v], x)
           /\ \A v \in Workers : \A x :
                Has(chan_requests'[v], x) => Has(q[v], x) \/ (v = u /\ x = s)
           /\ Has(chan_requests'[u], s)
<1>1. \A v \in Workers : chan_requests'[v] = IF v = u THEN Append(q[v], s) ELSE q[v]
  BY DEF Deliver, Queues
<1>2. \A v \in Workers : \A x : Has(Append(q[v], s), x) <=> Has(q[v], x) \/ x = s
  BY AppendHas DEF Queues
<1> QED BY <1>1, <1>2

LEMMA HasIn ==
    ASSUME NEW s, NEW x, Has(s, x)
    PROVE  In(s, x.id, x.chan)
BY DEF Has, In, Mine

LEMMA TakenHas ==
    ASSUME ProtocolOK, AllHeld, NEW r, NEW q, Taken(r, q)
    PROVE  /\ r \in Request /\ q \in [Workers -> Seq(Request)]
           /\ \A v \in Workers : \A x : Has(q[v], x) =>
                Has(chan_requests[v], x) /\ ~Mine(x, r.id, r.chan)
           /\ \A v \in Workers : \A x : Has(chan_requests[v], x) => Has(q[v], x) \/ x = r
           /\ \E v \in Workers : Has(chan_requests[v], r)
<1>1. r \in Request /\ q \in [Workers -> Seq(Request)]
  BY TakenType
<1>2. PICK u \in Workers : /\ chan_requests[u] # <<>> /\ r = Head(chan_requests[u])
                           /\ q = [chan_requests EXCEPT ![u] = Tail(@)]
  BY DEF Taken
<1>3. chan_requests[u] \in Seq(Request)
  BY DEF ProtocolOK
<1>4. \A x : Has(chan_requests[u], x) <=> r = x \/ Has(Tail(chan_requests[u]), x)
  BY <1>2, <1>3, HeadHas
<1>5. \A v \in Workers : q[v] = IF v = u THEN Tail(chan_requests[u]) ELSE chan_requests[v]
  BY <1>2 DEF ProtocolOK
<1>6. \A v \in Workers : \A x : Has(q[v], x) => ~Mine(x, r.id, r.chan)
  BY TakenHolds, HasIn DEF Mine
<1> QED BY <1>1, <1>2, <1>4, <1>5, <1>6

\* A request under way or kept means that its channel is not free.
LEMMA NotFree ==
    ASSUME AllHeld, NEW v \in Workers, NEW x \in Request,
           Has(chan_requests[v], x) \/ Has(Lifelines(v), x)
    PROVE  x.id \in Workers /\ x.chan \in Chans /\ ~Free(x.id, x.chan) /\ ~Loaded(x.id, x.chan)
<1>1. x.id \in Workers /\ x.chan \in Chans
  BY DEF Request
<1>2. Underway(v, x.id, x.chan) \/ Kept(v, x.id, x.chan)
  BY HasIn DEF Underway, Kept
<1> QED BY <1>1, <1>2 DEF AllHeld, OneHolder

LEMMA LoadedNotFree ==
    ASSUME AllHeld, NEW w \in Workers, NEW c \in Chans, Loaded(w, c)
    PROVE  ~Free(w, c)
BY DEF AllHeld, OneHolder

\* If all of a worker's channels but one are free there is only one that is not.
LEMMA OneOut ==
    ASSUME ProtocolOK, AllHeld, NEW w \in Workers, Len(channel_stack[w]) = MAXSTEAL - 1,
           NEW a \in Chans, NEW b \in Chans, ~Free(w, a), ~Free(w, b)
    PROVE  a = b
<1>1. \A d \in Chans : ~FreeTwice(w, d)
  BY DEF AllHeld, OneHolder
<1>2. ~(MAXSTEAL - 1 <= MAXSTEAL - 2)
  BY RuntimeAssumption
<1> QED BY <1>1, <1>2, FreeChannels

\* The last request is the only one.
LEMMA LastOut ==
    ASSUME ProtocolOK, AllHeld, NEW w \in Workers, Account(w), LastRequest(w),
           NEW a \in Chans, ~Free(w, a)
    PROVE  Len(channel_stack[w]) = MAXSTEAL - 1 /\ requested[w] = MAXSTEAL
<1>1. \A d \in Chans : ~FreeTwice(w, d)
  BY DEF AllHeld, OneHolder
<1>2. Len(channel_stack[w]) <= MAXSTEAL - 1
  BY <1>1, FreeChannels
<1>3. Len(channel_stack[w]) \in Nat /\ dropped[w] \in Nat /\ requested[w] \in Int
  BY LenProperties DEF ProtocolOK
<1>4. CASE MAXSTEAL = 1
  BY <1>2, <1>3, <1>4 DEF Account
<1> QED BY <1>4 DEF LastRequest

-----------------------------------------------------------------------------
(* A worker that is busy does not look idle: an answer awaits it, or one of its *)
(* requests says that it is working, or it may still send one that does.        *)

Works(w, x) == x.id = w /\ x.state = WORKING /\ \E v \in Workers : Has(chan_requests[v], x)

Busy(w) ==
    \/ requested[w] < MAXSTEAL
    \/ \E c \in Chans : Loaded(w, c)
    \/ \E x \in Request : Works(w, x)

AllBusy == \A w \in Workers : Looking(w, pc[w]) \/ Busy(w)

BusyInv == ~Exiting => AllBusy

\* A busy worker's last request is not taken for an idle worker's.
LEMMA LastIdle ==
    ASSUME ProtocolOK, AllHeld, AllAccounts, AllBusy, NEW w \in Workers, NEW r, NEW q,
           Taken(r, q), r.id = w, Admits(w, r), LastRequest(w), pc[w] \in {"serve", "behalf"}
    PROVE  op[w] = "idle" /\ \A c \in Chans : ~Loaded(w, c) /\ (~Free(w, c) => c = r.chan)
<1>1. PICK v \in Workers : Has(chan_requests[v], r)
  BY TakenHas
<1>2. r \in Request
  BY TakenHas
<1>3. r.chan \in Chans /\ ~Free(w, r.chan) /\ ~Loaded(w, r.chan)
  BY <1>1, <1>2, NotFree
<1>4. Len(channel_stack[w]) = MAXSTEAL - 1 /\ requested[w] = MAXSTEAL
  BY <1>3, LastOut DEF AllAccounts
<1>5. \A c \in Chans : ~Free(w, c) => c = r.chan
  BY <1>3, <1>4, OneOut
<1>6. \A c \in Chans : ~Loaded(w, c)
  BY <1>3, <1>5, LoadedNotFree
<1>7. ASSUME NEW x \in Request, Works(w, x) PROVE op[w] = "idle"
  <2>1. PICK u \in Workers : Has(chan_requests[u], x)
    BY <1>7 DEF Works
  <2>2. x.id = w /\ x.state = WORKING /\ x.chan = r.chan
    BY <1>5, <1>7, <2>1, NotFree DEF Works
  <2>3. Has(q[u], x) \/ x = r
    BY <2>1, TakenHas
  <2>4. ~Has(q[u], x)
    BY <2>2, TakenHas DEF Mine
  <2> QED BY <2>2, <2>3, <2>4 DEF Admits, WORKING, IDLE
<1>8. ~(requested[w] < MAXSTEAL)
  BY <1>4, RuntimeAssumption
<1>9. Looking(w, pc[w]) => op[w] = "idle"
  BY DEF Looking
<1> QED BY <1>5, <1>6, <1>7, <1>8, <1>9 DEF AllBusy, Busy

\* A worker that goes on looking for tasks
LEMMA QuietLooks ==
    ASSUME Inv, AllIdleInv, NEW w \in Workers, Quiet(w), Looking(w, pc[w]), AtOK(w)
    PROVE  Looking(w, pc[w])'
<1> USE DEF Inv, ControlOK
<1>1. At(w) \in {"schedule", "barrier"} /\ ~Forcing(w)
  BY DEF AtOK, Forcing
<1>2. pc[w] \in {"idle", "recv", "serve", "behalf"} \cup Waiting
  BY DEF Looking
<1>3. pc[w] \in {"serve", "behalf"} \cup Waiting => op[w] = "idle"
  BY DEF Looking, Waiting
<1>4. CASE \/ StartBehalf(w) \/ NothingToRelay(w)
           \/ WaitPeek(w) \/ Sleep(w) \/ SpuriousWakeup(w) \/ Wake(w)
  <2>1. UNCHANGED op /\ op[w] = "idle"
    BY <1>3, <1>4 DEF StartBehalf, NothingToRelay, NoRequest, WaitPeek, Sleep, SpuriousWakeup, Wake,
        control, Waiting
  <2>2. pc'[w] \in {"serve", "behalf", "recv"} \cup Waiting
    BY <1>4, <2>1 DEF StartBehalf, NothingToRelay, WaitPeek, Sleep, SpuriousWakeup, Wake, Goto, Waiting
  <2> QED BY <2>1, <2>2 DEF Looking
<1>5. CASE \/ ShareSignal(w) \/ ShareDone(w) \/ ShareDoneRun(w)
           \/ ForceReady(w) \/ BarrierReturn(w) \/ ShareDoneExit(w) \/ SignalExit(w) \/ ExitDone(w)
           \/ User(w)
  BY <1>2, <1>5 DEF ShareSignal, ShareDone, ShareDoneRun, ForceReady, BarrierReturn, ShareDoneExit,
        SignalExit, ExitDone, User, RT_push, RT_force_future, RT_poll, EndIteration, TaskReturn,
        RT_barrier, Waiting
<1>6. CASE RunPopped(w) \/ PopFailed(w) \/ ReturnToBody(w)
  BY <1>3, <1>6 DEF RunPopped, PopFailed, ReturnToBody, NoRequest
<1> QED BY <1>4, <1>5, <1>6 DEF Quiet

\* The others' way of looking does not change.
LEMMA OthersLook ==
    ASSUME Inv, NEW w \in Workers, Scheduler(w) \/ User(w) \/ SpuriousWakeup(w),
           NEW v \in Workers, v # w
    PROVE  Looking(v, pc[v])' <=> Looking(v, pc[v])
<1>1. /\ pc'[v] = pc[v] \/ (pc[v] = "asleep" /\ pc'[v] = "woken")
      /\ op'[v] = op[v] /\ stack'[v] = stack[v]
  BY StepPrivate DEF Private
<1>2. At(v)' = At(v) /\ (Forcing(v)' <=> Forcing(v))
  BY <1>1 DEF At, Forcing
<1> QED BY <1>1, <1>2 DEF Looking, Waiting

\* A request sent by a worker that goes on working says so.
LEMMA SendsLook ==
    ASSUME Inv, AllIdleInv, NEW w \in Workers, Sends(w), AtOK(w)
    PROVE  \/ Looking(w, pc[w])'
           \/ /\ ~Looking(w, pc[w])
              /\ \/ UNCHANGED <<chan_requests, requested, channel_stack>>
                 \/ try_send_steal_request(w, WORKING)
<1> USE DEF Inv, ControlOK
<1>1. CASE RT_pop(w)
  <2>1. ~Looking(w, pc[w])
    BY <1>1 DEF RT_pop, Looking, Waiting
  <2> QED BY <1>1, <2>1 DEF RT_pop
<1>2. CASE BeginSteal(w)
  <2>1. At(w) \in {"schedule", "barrier"} /\ UNCHANGED <<stack, op>> /\ pc'[w] = "recv"
    BY <1>2 DEF BeginSteal, AtOK, Looking, control, Goto
  <2> QED BY <2>1 DEF Looking, Forcing, At
<1>3. CASE RecvNoTask(w)
  <2>1. CASE Forcing(w)
    <3>1. ~Looking(w, pc[w])
      BY <2>1 DEF AtOK, Forcing
    <3> QED BY <1>3, <2>1, <3>1 DEF RecvNoTask
  <2>2. CASE ~Forcing(w)
    BY <1>3, <2>2 DEF RecvNoTask, Looking, Goto
  <2> QED BY <2>1, <2>2
<1>4. CASE Resend(w) \/ ForceNotReady(w)
  <2>1. ~Looking(w, pc[w])
    BY <1>4 DEF Resend, ForceNotReady, Looking, Waiting
  <2> QED BY <1>4, <2>1 DEF Resend, ForceNotReady
<1> QED BY <1>1, <1>2, <1>3, <1>4 DEF Sends

LEMMA SameBusy ==
    ASSUME NEW v \in Workers, Busy(v), requested'[v] = requested[v],
           \A c \in Chans : Loaded(v, c) => Loaded(v, c)',
           \A x \in Request : Works(v, x) => Works(v, x)' \/ \E c \in Chans : Loaded(v, c)'
    PROVE  Busy(v)'
BY DEF Busy

\* The request that try_send_steal_request sends
Sent(w, s) ==
    /\ requested' = [requested EXCEPT ![w] = @ + 1]
    /\ \E u \in Workers, r \in Request : /\ r.id = w /\ r.state = s
                                         /\ chan_requests' = Deliver(chan_requests, u, r)

LEMMA SentRequest ==
    ASSUME ProtocolOK, NEW w \in Workers, NEW s \in {WORKING, IDLE}, try_send_steal_request(w, s)
    PROVE  UNCHANGED <<chan_requests, requested>> \/ Sent(w, s)
<1> USE DEF ProtocolOK
<1>1. CASE requested[w] < MAXSTEAL /\ ChannelPop(w)
  <2>1. PICK half \in StealHalf :
          LET r == next_victim(w, NewRequest(w, s, half))
          IN  \E v \in Victims(r) : chan_requests' = Deliver(chan_requests, v, r)
    BY <1>1, RuntimeAssumption DEF try_send_steal_request
  <2>2. PICK r : r = next_victim(w, NewRequest(w, s, half))
    OBVIOUS
  <2>3. NewRequest(w, s, half) \in Request
    <3>1. half \in BOOLEAN
      BY RuntimeAssumption
    <3>2. channel_stack[w] \in Seq(Chans) /\ channel_stack[w] # <<>>
      BY <1>1 DEF ChannelPop
    <3>3. channel_stack[w][Len(channel_stack[w])] \in Chans
      BY <3>2, EmptySeq, ElementOfSeq, LenProperties
    <3> QED BY <3>1, <3>3 DEF NewRequest, Request, WORKING, IDLE
  <2>4. r \in Request /\ r.id = w /\ r.state = s
    BY <2>2, <2>3, NextVictimType DEF next_victim, NewRequest, Request
  <2>5. PICK u \in Victims(r) : chan_requests' = Deliver(chan_requests, u, r)
    BY <2>1, <2>2
  <2>6. u \in Workers
    BY <2>4, <2>5, VictimsType
  <2>7. requested' = [requested EXCEPT ![w] = @ + 1]
    BY <1>1, RuntimeAssumption DEF try_send_steal_request
  <2> QED BY <2>4, <2>5, <2>6, <2>7 DEF Sent
<1> QED BY <1>1 DEF try_send_steal_request

\* A step of a worker that sends a request
LEMMA SendsBusy ==
    ASSUME Inv, AllIdleInv, AllBusy, NEW w \in Workers, Sends(w), AtOK(w)
    PROVE  AllBusy'
<1> USE DEF Inv, ProtocolOK
<1>0. Queues(chan_requests)
  BY DEF Queues
<1>1. UNCHANGED chan_tasks /\ (Scheduler(w) \/ User(w) \/ SpuriousWakeup(w))
  BY SendsMoves DEF Sends, Scheduler
<1>2. \/ UNCHANGED <<chan_requests, requested>>
      \/ \E s \in {WORKING, IDLE} : try_send_steal_request(w, s)
  BY SendsMoves
<1>3. ASSUME NEW s \in {WORKING, IDLE}, try_send_steal_request(w, s)
      PROVE  UNCHANGED <<chan_requests, requested>> \/ Sent(w, s)
  BY <1>3, SentRequest
<1>4. \A v \in Workers, x \in Request : Works(v, x) => Works(v, x)'
  <2>1. CASE UNCHANGED chan_requests
    BY <2>1 DEF Works
  <2>2. ASSUME NEW u \in Workers, NEW r \in Request, chan_requests' = Deliver(chan_requests, u, r)
        PROVE  \A v \in Workers, x \in Request : Works(v, x) => Works(v, x)'
    <3>1. \A v \in Workers : \A x : Has(chan_requests[v], x) => Has(chan_requests'[v], x)
      BY <1>0, <2>2, DeliveredHas
    <3> QED BY <3>1 DEF Works
  <2> QED BY <1>2, <1>3, <2>1, <2>2 DEF Sent
<1>5. ASSUME NEW v \in Workers, v # w PROVE Looking(v, pc[v])' \/ Busy(v)'
  <2>1. requested'[v] = requested[v]
    BY <1>2, <1>3, <1>5 DEF Sent
  <2>2. \A c \in Chans : Loaded(v, c) => Loaded(v, c)'
    BY <1>1 DEF Loaded
  <2> QED BY <1>1, <1>4, <1>5, <2>1, <2>2, SameBusy, OthersLook DEF AllBusy
<1>6. Looking(w, pc[w])' \/ Busy(w)'
  <2>1. SUFFICES ASSUME ~Looking(w, pc[w])' PROVE Busy(w)'
    OBVIOUS
  <2>2. /\ Busy(w)
        /\ UNCHANGED <<chan_requests, requested, channel_stack>> \/ try_send_steal_request(w, WORKING)
    BY <2>1, SendsLook DEF AllBusy
  <2>3. CASE UNCHANGED <<chan_requests, requested>>
    <3>1. requested'[w] = requested[w] /\ \A c \in Chans : Loaded(w, c) => Loaded(w, c)'
      BY <1>1, <2>3 DEF Loaded
    <3> QED BY <1>4, <2>2, <3>1, SameBusy
  <2>4. ASSUME NEW u \in Workers, NEW r \in Request, r.id = w, r.state = WORKING,
               chan_requests' = Deliver(chan_requests, u, r)
        PROVE  Busy(w)'
    <3>1. Has(chan_requests'[u], r)
      BY <1>0, <2>4, DeliveredHas
    <3> QED BY <2>4, <3>1 DEF Busy, Works
  <2> QED BY <1>3, <2>2, <2>3, <2>4 DEF Sent
<1> QED BY <1>5, <1>6 DEF AllBusy

\* A step of a worker that takes a request out of a channel
LEMMA RecvBusy ==
    ASSUME Inv, AllIdleInv, AllHeld, AllAccounts, AllBusy, NEW w \in Workers,
           RecvOwn(w) \/ RecvBehalf(w), AtOK(w)
    PROVE  AllBusy'
<1> USE DEF Inv, ProtocolOK
<1>0. Scheduler(w) /\ pc[w] \in {"serve", "behalf"} /\ UNCHANGED <<hand, stack, op>>
  BY RecvGoes DEF Scheduler
<1>1. CASE UNCHANGED <<protocol, work, pc>>
  <2>1. \A v \in Workers : Looking(v, pc[v])' <=> Looking(v, pc[v])
    BY <1>0, <1>1 DEF Looking, Forcing, At
  <2>2. \A v \in Workers : Busy(v)' <=> Busy(v)
    BY <1>1 DEF Busy, Works, Loaded, protocol, work
  <2> QED BY <2>1, <2>2 DEF AllBusy
<1>2. ASSUME NEW r \in Request, NEW q, Taken(r, q), Dispatch(w, r, q)
      PROVE  AllBusy'
  <2>1. Fate(w, r, q)
    BY <1>2, DispatchFate
  <2>2. q \in [Workers -> Seq(Request)] /\ Queues(q) /\ r.id \in Workers /\ r.chan \in Chans
    BY <1>2, TakenHas DEF Request, Queues
  <2>3. Looking(w, pc[w]) /\ pc'[w] \in {"serve", "recv", "waitpeek"} => Looking(w, pc[w])'
    BY <1>0 DEF Looking, Waiting
  <2>4. \A c \in Chans, v \in Workers : Loaded(v, c) => Loaded(v, c)'
    <3>1. CASE UNCHANGED chan_tasks
      BY <3>1 DEF Loaded
    <3>2. CASE Served(w, r, q)
      BY <2>2, <3>2, SendTasksHolds DEF Served, Used
    <3> QED BY <2>1, <3>1, <3>2 DEF Fate, Forgotten, Passed, HandedUp, Discarded, Concluded, Unheard
  \* the requests that have not been taken are still there
  <2>5. \A v \in Workers, x \in Request : Has(q[v], x) => Has(chan_requests'[v], x)
    <3>1. CASE chan_requests' = q
      BY <3>1
    <3>2. ASSUME NEW u \in Workers, NEW s \in Request, chan_requests' = Deliver(q, u, s)
          PROVE  \A v \in Workers, x \in Request : Has(q[v], x) => Has(chan_requests'[v], x)
      <4>1. \A v \in Workers : \A x : Has(q[v], x) => Has(chan_requests'[v], x)
        BY <2>2, <3>2, DeliveredHas
      <4> QED BY <4>1
    <3>3. ASSUME NEW s \in Request, chan_requests' = Deliver(q, parent(w), s)
          PROVE  \A v \in Workers, x \in Request : Has(q[v], x) => Has(chan_requests'[v], x)
      <4>1. CASE parent(w) \in Workers
        BY <3>2, <3>3, <4>1
      <4>2. CASE parent(w) \notin Workers
        <5>1. chan_requests' = q
          BY <2>2, <3>3, <4>2 DEF Deliver
        <5> QED BY <3>1, <5>1
      <4> QED BY <4>1, <4>2
    <3> QED BY <2>1, <3>1, <3>2, <3>3 DEF Fate, Forgotten, Passed, HandedUp, Discarded, Concluded,
            Served, Used
  <2>6. \A v \in Workers, x \in Request : Works(v, x) => Works(v, x)' \/ x = r
    BY <1>2, <2>5, TakenHas DEF Works
  <2>7. ASSUME NEW v \in Workers, r.id = v, r.state = WORKING, Passed(w, r, q), v = w => op[w] # "idle"
        PROVE  Busy(v)'
    <3>1. PICK u \in Workers, s \in Request : /\ s.id = v /\ s.state = WORKING
                                              /\ chan_requests' = Deliver(q, u, s)
      BY <2>7 DEF Passed
    <3>2. Has(chan_requests'[u], s)
      BY <2>2, <3>1, DeliveredHas
    <3> QED BY <3>1, <3>2 DEF Busy, Works
  <2>8. ASSUME NEW v \in Workers, v # w PROVE Looking(v, pc[v])' \/ Busy(v)'
    <3>1. requested'[v] = requested[v]
      BY <2>1, <2>8 DEF Fate, Forgotten, Passed, HandedUp, Discarded, Concluded, Served
    <3>2. CASE r.id # v
      <4>1. \A x \in Request : Works(v, x) => Works(v, x)'
        BY <2>6, <3>2 DEF Works
      <4> QED BY <1>0, <2>4, <2>8, <3>1, <4>1, SameBusy, OthersLook DEF AllBusy
    <3>3. CASE Served(w, r, q) /\ r.id = v
      <4>1. Loaded(v, r.chan)'
        BY <2>2, <3>3, SendTasksHolds DEF Served, Used, Mine
      <4> QED BY <2>2, <4>1 DEF Busy
    <3>4. CASE Passed(w, r, q) /\ r.id = v
      <4>1. CASE r.state = WORKING
        BY <2>7, <2>8, <3>4, <4>1
      <4>2. CASE r.state # WORKING
        <5>1. \A x \in Request : Works(v, x) => Works(v, x)'
          BY <2>6, <4>2 DEF Works
        <5> QED BY <1>0, <2>4, <2>8, <3>1, <5>1, SameBusy, OthersLook DEF AllBusy
      <4> QED BY <4>1, <4>2
    <3> QED BY <2>1, <2>8, <3>2, <3>3, <3>4 DEF Fate, Forgotten, HandedUp, Discarded, Concluded
  <2>9. Looking(w, pc[w])' \/ Busy(w)'
    <3>1. CASE Concluded(w, r, q) \/ Forgotten(w, r, q)
      <4>1. requested'[w] = requested[w] - 1 /\ requested[w] \in Int /\ requested[w] <= MAXSTEAL
        BY <3>1 DEF Concluded, Forgotten, AllAccounts, Account
      <4> QED BY <4>1, RuntimeAssumption DEF Busy
    <3>2. CASE HandedUp(w, r, q)
      BY <1>0, <1>2, <3>2, LastIdle DEF HandedUp, Looking, Waiting
    <3>3. CASE op[w] = "idle" /\ ~Concluded(w, r, q)
      <4>1. pc'[w] \in {"serve", "recv", "waitpeek"} /\ Looking(w, pc[w])
        BY <1>0, <2>1, <3>3 DEF Fate, Forgotten, Passed, HandedUp, Discarded, Served, Looking
      <4> QED BY <2>3, <4>1
    <3>4. CASE op[w] # "idle" /\ (Passed(w, r, q) \/ Discarded(w, r, q) \/ Served(w, r, q))
      <4>1. requested'[w] = requested[w] /\ Busy(w)
        BY <1>0, <3>4 DEF Passed, Discarded, Served, AllBusy, Looking, Waiting
      <4>2. ASSUME NEW x \in Request, Works(w, x) PROVE Busy(w)' \/ Works(w, x)'
        <5>1. CASE x # r
          BY <2>6, <4>2, <5>1
        <5>2. CASE x = r
          <6>1. r.id = w /\ r.state = WORKING /\ Passed(w, r, q)
            BY <3>4, <4>2, <5>2 DEF Works, Discarded, Served, Admits, WORKING, IDLE
          <6> QED BY <2>7, <3>4, <6>1
        <5> QED BY <5>1, <5>2
      <4> QED BY <2>4, <4>1, <4>2 DEF Busy
    <3> QED BY <2>1, <3>1, <3>2, <3>3, <3>4 DEF Fate
  <2> QED BY <2>8, <2>9 DEF AllBusy
<1> QED BY <1>1, <1>2, RecvTakes

LEMMA StepBusy ==
    ASSUME Inv, AllIdleInv, AllHeld, AllAccounts, AllBusy, NEW w \in Workers, AtOK(w),
           Scheduler(w) \/ User(w) \/ SpuriousWakeup(w), ~NotifyExit(w)
    PROVE  AllBusy'
<1> USE DEF Inv, ProtocolOK
<1>1. ASSUME \A v \in Workers : Busy(v) => Busy(v)', Looking(w, pc[w]) => Looking(w, pc[w])'
      PROVE  AllBusy'
  BY <1>1, OthersLook DEF AllBusy
<1>2. CASE Quiet(w)
  <2>1. \A v \in Workers : Busy(v) => Busy(v)'
    BY <1>2, QuietKeeps DEF Busy, Works, Loaded
  <2> QED BY <1>1, <1>2, <2>1, QuietLooks
<1>3. CASE Sends(w)
  BY <1>3, SendsBusy
<1>4. CASE RecvOwn(w) \/ RecvBehalf(w)
  BY <1>4, RecvBusy
<1>5. CASE RecvFailed(w)
  <2>a. PICK r : r = Head(chan_requests[w])
    OBVIOUS
  <2>b. PICK q : q = [chan_requests EXCEPT ![w] = Tail(@)]
    OBVIOUS
  <2>1. Taken(r, q) /\ r.state = FAILED /\ chan_requests' = q
    <3>1. /\ chan_requests[w] # <<>> /\ r.state = FAILED /\ chan_requests' = q
      BY <1>5, <2>a, <2>b DEF RecvFailed
    <3>2. Taken(r, q)
      BY <2>a, <2>b, <3>1 DEF Taken
    <3> QED BY <3>1, <3>2
  <2>2. \A v \in Workers, x \in Request : Works(v, x) => Works(v, x)'
    <3> SUFFICES ASSUME NEW v \in Workers, NEW x \in Request, Works(v, x) PROVE Works(v, x)'
      OBVIOUS
    <3>1. PICK u \in Workers : Has(chan_requests[u], x)
      BY DEF Works
    <3>2. Has(chan_requests'[u], x) \/ x = r
      BY <2>1, <3>1, TakenHas
    <3>3. x # r
      BY <2>1 DEF Works, WORKING, FAILED
    <3> QED BY <3>2, <3>3 DEF Works
  <2>3. UNCHANGED <<requested, chan_tasks, pc, stack, op>>
    BY <1>5 DEF RecvFailed, work, control
  <2>4. \A v \in Workers : Busy(v) => Busy(v)'
    BY <2>2, <2>3 DEF Busy, Loaded
  <2>5. Looking(w, pc[w]) => Looking(w, pc[w])'
    BY <2>3 DEF Looking, Forcing, At
  <2> QED BY <1>1, <2>4, <2>5
<1>6. CASE ShareSend(w)
  <2>1. PICK r : r = Head(work_sharing_requests[w]) /\ work_sharing_requests[w] # <<>>
    BY <1>6 DEF ShareSend, CanShare
  <2>a. work_sharing_requests[w] \in Seq(Request)
    BY DEF LifelineOK
  <2>b. r \in Request
    BY <2>1, <2>a, HeadTailProperties
  <2>2. r \in Request /\ r.id \in Workers /\ r.chan \in Chans
    BY <2>b DEF Request
  <2>3. \E list : list # <<>> /\ SendTasks(r, list)
    BY <1>6, <2>1, SendLootUsed, SplitUsed DEF ShareSend
  <2>4. UNCHANGED <<requested, chan_requests>> /\ ~Looking(w, pc[w])
    BY <1>6 DEF ShareSend, protocol, Looking, Waiting
  <2>5. \A v \in Workers, c \in Chans : Loaded(v, c) => Loaded(v, c)'
    BY <2>2, <2>3, SendTasksHolds
  <2>6. \A v \in Workers : Busy(v) => Busy(v)'
    BY <2>4, <2>5 DEF Busy, Works
  <2> QED BY <1>1, <2>4, <2>6
<1>7. CASE RecvTask(w)
  <2>1. Busy(w)'
    <3>1. requested'[w] = StillRequested(w)
      BY <1>7 DEF RecvTask
    <3>2. requested[w] \in Int /\ requested[w] <= MAXSTEAL /\ dropped[w] \in Nat
      BY DEF AllAccounts, Account
    <3>3. StillRequested(w) < MAXSTEAL
      BY <3>2, RuntimeAssumption DEF StillRequested
    <3> QED BY <3>1, <3>3 DEF Busy
  <2>2. ASSUME NEW v \in Workers, v # w PROVE Busy(v) => Busy(v)'
    <3>1. requested'[v] = requested[v] /\ UNCHANGED chan_requests
      BY <1>7, <2>2 DEF RecvTask
    <3>2. chan_tasks'[v] = chan_tasks[v]
      BY <1>7, <2>2 DEF RecvTask, WorkOK
    <3> QED BY <3>1, <3>2 DEF Busy, Works, Loaded
  <2> QED BY <2>1, <2>2, OthersLook DEF AllBusy
<1> QED BY <1>2, <1>3, <1>4, <1>5, <1>6, <1>7, StepKinds

LEMMA NextBusy ==
    Inv /\ AllIdleInv /\ TokenInv /\ AccountInv /\ FrameInv /\ BusyInv /\ [Next]_vars => BusyInv'
<1> SUFFICES ASSUME Inv, AllIdleInv, TokenInv, AccountInv, FrameInv, BusyInv, [Next]_vars, ~Exiting'
             PROVE  AllBusy'
  BY DEF BusyInv
<1>1. ASSUME NEW w \in Workers, Scheduler(w) \/ User(w) \/ SpuriousWakeup(w) PROVE AllBusy'
  <2>1. ~Exiting
    BY <1>1, ExitIsFinal
  <2>2. ~NotifyExit(w)
    BY <2>1 DEF NotifyExit, Exiting
  <2> QED BY <1>1, <2>1, <2>2, StepBusy DEF TokenInv, AccountInv, FrameInv, BusyInv
<1>2. CASE UNCHANGED vars
  <2>1. ~Exiting /\ UNCHANGED <<stack, pc, op, chan_requests, chan_tasks, requested>>
    BY <1>2 DEF vars, protocol, control, work, Exiting
  <2> QED BY <2>1 DEF BusyInv, AllBusy, Busy, Works, Loaded, Looking, Forcing, At
<1> QED BY <1>1, <1>2 DEF Next, Terminated

\* A worker that runs tasks is never taken for idle by what its requests say.
THEOREM BusyInvHolds == Spec => []BusyInv
<1>1. Init => BusyInv
  <2> SUFFICES ASSUME Init PROVE \A w \in Workers : requested[w] < MAXSTEAL
    BY DEF BusyInv, AllBusy, Busy
  <2> QED BY RuntimeAssumption DEF Init
<1>2. Inv /\ AllIdleInv /\ TokenInv /\ AccountInv /\ FrameInv /\ BusyInv /\ [Next]_vars => BusyInv'
  BY NextBusy
<1> QED BY <1>1, <1>2, InvHolds, IdleInvHolds, TokenInvHolds, AccountInvHolds, FrameInvHolds, PTL
        DEF Spec

-----------------------------------------------------------------------------
(* The workers that have backed off *)

\* Worker v sleeps, or is about to, and there is nothing for it to wake up to.
Settled(v) == waiting[v] /\ pc[v] \in Waiting /\ \A c \in Chans : ~Loaded(v, c)

\* A failed request is a settled child's; any other is not a settled worker's.
RequestOK(v, x) ==
    IF x.state = FAILED THEN x.id \in Children(v) /\ Settled(x.id) ELSE ~Settled(x.id)

Sleeps(w) == pc[w] \in Waiting => waiting[w] /\ op[w] = "idle" /\ w # MASTER_ID
LastToLeave(w) == Settled(w) => idle[w] = Children(w)
RequestsOK(w) == \A x \in Request : Has(chan_requests[w], x) => RequestOK(w, x)
LifelinesOK(w) ==
    \A x \in Request : Has(Lifelines(w), x) => x.id \in Children(w) /\ Settled(x.id)
FlagsOK(w) ==
    \A c \in Workers : c \in idle[w] <=> \E x \in Request : Has(Lifelines(w), x) /\ x.id = c
ScanOK(w) == pc[w] = "behalf" => todo[w] \subseteq IdleSubtrees(w)

SettledOK(w) ==
    /\ Sleeps(w) /\ LastToLeave(w) /\ RequestsOK(w)
    /\ LifelinesOK(w) /\ FlagsOK(w) /\ ScanOK(w)

AllSettledOK == \A w \in Workers : SettledOK(w)

SettledInv == ~Exiting => AllSettledOK

LEMMA ParentChild ==
    ASSUME NEW w \in Workers, w # MASTER_ID
    PROVE  parent(w) \in Workers /\ w \in Children(parent(w))
<1>1. w \in Nat \ {0} /\ w <= N - 1 /\ N \in Nat
  BY NAssumption DEF Workers, MASTER_ID
<1>2. CASE w % 2 # 0
  <2>1. (w - 1) \div 2 \in Nat /\ 2 * ((w - 1) \div 2) + 1 = w
    BY <1>1, <1>2
  <2>2. parent(w) = (w - 1) \div 2
    BY <1>2 DEF parent
  <2>3. parent(w) \in Workers /\ left_child(parent(w)) = w
    BY <1>1, <2>1, <2>2 DEF left_child, Workers
  <2> QED BY <1>1, <2>3 DEF Children, NoWorker
<1>3. CASE w % 2 = 0
  <2>1. (w - 2) \div 2 \in Nat /\ 2 * ((w - 2) \div 2) + 2 = w
    BY <1>1, <1>3
  <2>2. parent(w) = (w - 2) \div 2
    BY <1>1, <1>3 DEF parent
  <2>3. parent(w) \in Workers /\ right_child(parent(w)) = w
    BY <1>1, <2>1, <2>2 DEF right_child, Workers
  <2> QED BY <1>1, <2>3 DEF Children, NoWorker
<1> QED BY <1>2, <1>3

\* A waiting worker has one request: two of its tokens are the same.
LEMMA SameToken ==
    ASSUME ProtocolOK, AllHeld, AllAccounts, NEW u \in Workers, NEW v \in Workers,
           NEW x \in Request, NEW y \in Request, x.id = y.id, waiting[x.id],
           Has(chan_requests[u], x) \/ Has(Lifelines(u), x),
           Has(chan_requests[v], y) \/ Has(Lifelines(v), y)
    PROVE  x.chan = y.chan
<1>1. Len(channel_stack[x.id]) = MAXSTEAL - 1 /\ x.id \in Workers
  BY DEF AllAccounts, Account, Request
<1>2. ~Free(x.id, x.chan) /\ x.chan \in Chans
  BY NotFree
<1>3. ~Free(x.id, y.chan) /\ y.chan \in Chans
  BY NotFree
<1> QED BY <1>1, <1>2, <1>3, OneOut

\* A settled worker's failed request is either on its way or kept by its parent.
LEMMA NotBoth ==
    ASSUME ProtocolOK, AllHeld, AllAccounts, NEW u \in Workers, NEW v \in Workers,
           NEW x \in Request, NEW y \in Request, x.id = y.id, waiting[x.id],
           Has(chan_requests[u], x), Has(Lifelines(v), y)
    PROVE  FALSE
<1>1. x.chan = y.chan /\ x.id \in Workers /\ x.chan \in Chans
  BY SameToken DEF Request
<1>2. Underway(u, x.id, x.chan) /\ Kept(v, x.id, x.chan)
  BY <1>1, HasIn DEF Underway, Kept
<1> QED BY <1>1, <1>2 DEF AllHeld, OneHolder

\* The flags are right: a subtree that is marked idle is settled.
LEMMA IdleSettled ==
    ASSUME Inv, AllSettledOK, NEW w \in Workers
    PROVE  /\ idle[w] \subseteq Children(w)
           /\ \A c \in idle[w] : Settled(c)
           /\ \A v \in IdleSubtrees(w) : Settled(v)
<1> USE DEF Inv, LifelineOK
<1>1. \A u \in Workers : \A c \in idle[u] : c \in Children(u) /\ Settled(c)
  BY DEF AllSettledOK, SettledOK, FlagsOK, LifelinesOK
<1>2. ASSUME NEW c \in idle[w], NEW v \in Subtree[c] PROVE Settled(v)
  <2>1. PICK S : S = {u \in Workers : Settled(u)}
    OBVIOUS
  <2>2. S \in SUBSET Workers /\ c \in S /\ c \in Workers
    BY <1>1, <1>2, <2>1
  <2>3. ClosedUnderChildren(S)
    <3> SUFFICES ASSUME NEW u \in S, NEW d \in Children(u) PROVE d \in S
      BY DEF ClosedUnderChildren
    <3>1. u \in Workers /\ idle[u] = Children(u)
      BY <2>1 DEF AllSettledOK, SettledOK, LastToLeave
    <3>2. d \in Workers /\ Settled(d)
      BY <1>1, <3>1, TreeType
    <3> QED BY <2>1, <3>2
  <2>4. v \in S
    BY <1>2, <2>2, <2>3 DEF Subtree
  <2> QED BY <2>1, <2>4
<1> QED BY <1>1, <1>2 DEF IdleSubtrees

\* What a worker finds in the channels that it looks into
LEMMA FoundRequest ==
    ASSUME Inv, AllHeld, AllAccounts, AllSettledOK, NEW w \in Workers, pc[w] = "behalf",
           NEW c \in todo[w], NEW x \in Request, Has(chan_requests[c], x)
    PROVE  c \in Workers /\ Settled(c) /\ x.state # FAILED /\ x.id # c
<1> USE DEF Inv, ControlOK
<1>1. c \in Workers /\ Settled(c)
  BY IdleSettled DEF AllSettledOK, SettledOK, ScanOK
<1>2. RequestOK(c, x)
  BY <1>1 DEF AllSettledOK, SettledOK, RequestsOK
<1>3. CASE x.state = FAILED
  <2>1. x.id \in Children(c) /\ Settled(x.id) /\ idle[c] = Children(c) /\ x.id \in Workers
    BY <1>1, <1>2, <1>3 DEF RequestOK, AllSettledOK, SettledOK, LastToLeave, Request
  <2>2. PICK y \in Request : Has(Lifelines(c), y) /\ y.id = x.id
    BY <1>1, <2>1 DEF AllSettledOK, SettledOK, FlagsOK
  <2> QED BY <1>1, <2>1, <2>2, NotBoth DEF Settled
<1> QED BY <1>1, <1>2, <1>3 DEF RequestOK

\* A request that is handled is not a settled worker's.
LEMMA TakenUnsettled ==
    ASSUME Inv, AllHeld, AllAccounts, AllSettledOK, NEW w \in Workers, RecvOwn(w) \/ RecvBehalf(w)
    PROVE  \/ UNCHANGED <<protocol, work, pc>> /\ RecvBehalf(w)
           \/ \E r \in Request : \E q :
                   /\ Taken(r, q) /\ Dispatch(w, r, q) /\ Fate(w, r, q)
                   /\ r.state # FAILED /\ ~Settled(r.id)
                   /\ RecvBehalf(w) => todo'[w] = {}
<1> USE DEF Inv, ControlOK, ProtocolOK
<1>1. ASSUME NEW c \in Workers, chan_requests[c] # <<>>,
             Dispatch(w, Head(chan_requests[c]), [chan_requests EXCEPT ![c] = Tail(@)]),
             Head(chan_requests[c]).state # FAILED, RecvBehalf(w) => todo'[w] = {}
      PROVE  \E r \in Request : \E q :
                  /\ Taken(r, q) /\ Dispatch(w, r, q) /\ Fate(w, r, q)
                  /\ r.state # FAILED /\ ~Settled(r.id)
                  /\ RecvBehalf(w) => todo'[w] = {}
  <2>1. PICK r : r = Head(chan_requests[c])
    OBVIOUS
  <2>2. PICK q : q = [chan_requests EXCEPT ![c] = Tail(@)]
    OBVIOUS
  <2>3. r \in Request
    BY <1>1, <2>1, TakeType
  <2>4. Taken(r, q)
    BY <1>1, <2>1, <2>2 DEF Taken
  <2>5. Dispatch(w, r, q)
    BY <1>1, <2>1, <2>2
  <2>6. Has(chan_requests[c], r)
    BY <1>1, <2>1, HeadHas
  <2>7. r.state # FAILED /\ ~Settled(r.id)
    BY <1>1, <2>1, <2>3, <2>6 DEF AllSettledOK, SettledOK, RequestsOK, RequestOK
  <2> QED BY <1>1, <2>3, <2>4, <2>5, <2>7, DispatchFate
<1>2. CASE RecvOwn(w)
  <2>1. /\ chan_requests[w] # <<>> /\ pc[w] = "serve" /\ Head(chan_requests[w]).state # FAILED
        /\ Dispatch(w, Head(chan_requests[w]), [chan_requests EXCEPT ![w] = Tail(@)])
    BY <1>2 DEF RecvOwn
  <2>2. ~RecvBehalf(w)
    BY <2>1 DEF RecvBehalf
  <2> QED BY <1>1, <2>1, <2>2
<1>3. CASE RecvBehalf(w)
  <2>1. PICK c : c = NextInScan(w)
    OBVIOUS
  <2>2. c \in todo[w] /\ pc[w] = "behalf"
    <3>1. todo[w] # {} /\ todo[w] \subseteq Nat /\ pc[w] = "behalf"
      BY <1>3 DEF RecvBehalf, Workers
    <3>2. Minimum(todo[w]) \in todo[w]
      BY <3>1, MinimumIsElement
    <3>3. \A S : S \subseteq todo[w] /\ S # {} => Minimum(S) \in todo[w]
      BY <3>1, MinimumIsElement
    <3> QED BY <2>1, <3>1, <3>2, <3>3 DEF NextInScan
  <2>3. CASE chan_requests[c] = <<>>
    BY <1>3, <2>1, <2>3 DEF RecvBehalf
  <2>4. CASE chan_requests[c] # <<>>
    <3>1. /\ Dispatch(w, Head(chan_requests[c]), [chan_requests EXCEPT ![c] = Tail(@)])
          /\ todo' = [todo EXCEPT ![w] = {}]
      BY <1>3, <2>1, <2>4 DEF RecvBehalf
    <3>2. c \in Workers
      BY <2>2
    <3>3. Head(chan_requests[c]) \in Request
      BY <2>4, <3>2, TakeType
    <3>4. Has(chan_requests[c], Head(chan_requests[c]))
      BY <2>4, <3>2, HeadHas
    <3>5. Head(chan_requests[c]).state # FAILED
      BY <2>2, <3>3, <3>4, FoundRequest
    <3> QED BY <1>1, <2>4, <3>1, <3>2, <3>5
  <2> QED BY <2>3, <2>4
<1> QED BY <1>2, <1>3

\* Where a step may lead that enters WAIT or scans channels
LEMMA StepScan ==
    ASSUME Inv, NEW w \in Workers, Scheduler(w) \/ User(w) \/ SpuriousWakeup(w),
           ~(RecvOwn(w) \/ RecvBehalf(w))
    PROVE  /\ pc'[w] \in Waiting => pc[w] \in Waiting /\ op'[w] = op[w] /\ waiting'[w] = waiting[w]
           /\ pc'[w] = "behalf" => todo'[w] = IdleSubtrees(w) /\ UNCHANGED idle
           /\ \A v \in Workers \ {w} : todo'[v] = todo[v] /\ waiting'[v] = waiting[v]
<1> USE DEF Inv, ControlOK, ProtocolOK
<1>1. CASE WaitPeek(w) \/ Sleep(w) \/ Wake(w) \/ SpuriousWakeup(w)
  BY <1>1 DEF WaitPeek, Sleep, Wake, SpuriousWakeup, Goto, Waiting, control, protocol
<1>2. CASE StartBehalf(w)
  BY <1>2 DEF StartBehalf, Goto, Waiting, protocol, lifeline
<1>3. CASE ShareSignal(w) \/ SignalExit(w)
  BY <1>3 DEF ShareSignal, SignalExit, SIGNAL, Woken, Waiting, control, protocol
<1>4. CASE \/ ShareSend(w) \/ ShareDone(w) \/ ShareDoneRun(w)
           \/ RT_pop(w) \/ RunPopped(w) \/ PopFailed(w) \/ ReturnToBody(w) \/ RecvFailed(w)
  BY <1>4 DEF ShareSend, ShareDone, ShareDoneRun,
           RT_pop, RunPopped, PopFailed, ReturnToBody, RecvFailed, Goto, Waiting, control, protocol
<1>5. CASE \/ BeginSteal(w) \/ RecvTask(w) \/ RecvNoTask(w) \/ Resend(w)
           \/ NothingToRelay(w) \/ ForceReady(w) \/ ForceNotReady(w)
  BY <1>5 DEF BeginSteal, RecvTask, RecvNoTask, Resend,
           NothingToRelay, ForceReady, ForceNotReady, Goto, Waiting, control, protocol
<1>6. CASE \/ BarrierReturn(w) \/ ShareDoneExit(w) \/ NotifyExit(w) \/ ExitDone(w)
  BY <1>6 DEF BarrierReturn, ShareDoneExit, NotifyExit, ExitDone, Goto, Waiting, control, protocol
<1>7. CASE User(w)
  BY <1>7 DEF User, RT_push, RT_force_future, RT_poll, EndIteration, TaskReturn, RT_barrier, Goto,
           Waiting, control, protocol
<1> QED BY <1>1, <1>2, <1>3, <1>4, <1>5, <1>6, <1>7 DEF Scheduler

\* The state of the channels and who is settled decide the rest.
LEMMA SameSettled ==
    ASSUME AllSettledOK, \A v \in Workers : Settled(v)' <=> Settled(v),
           LifelinesKept, UNCHANGED idle,
           \A v \in Workers : Sleeps(v)' /\ ScanOK(v)',
           \A v \in Workers, x \in Request :
                Has(chan_requests'[v], x) => Has(chan_requests[v], x) \/ RequestOK(v, x)'
    PROVE  AllSettledOK'
<1> SUFFICES ASSUME NEW v \in Workers PROVE SettledOK(v)'
  BY DEF AllSettledOK
<1>1. SettledOK(v) /\ Lifelines(v)' = Lifelines(v) /\ (Settled(v)' <=> Settled(v))
  BY DEF AllSettledOK, LifelinesKept
<1>2. LastToLeave(v)'
  BY <1>1 DEF SettledOK, LastToLeave
<1>3. \A x \in Request : (Settled(x.id)' <=> Settled(x.id))
  BY DEF Request
<1>4. RequestsOK(v)'
  BY <1>1, <1>3 DEF SettledOK, RequestsOK, RequestOK
<1>5. LifelinesOK(v)'
  BY <1>1, <1>3 DEF SettledOK, LifelinesOK
<1>6. FlagsOK(v)'
  BY <1>1 DEF SettledOK, FlagsOK
<1> QED BY <1>2, <1>4, <1>5, <1>6 DEF SettledOK

LEMMA ScanStays ==
    ASSUME NEW w \in Workers, MovesAlone(w), AllSettledOK,
           \A v \in Workers \ {w} : /\ todo'[v] = todo[v] /\ waiting'[v] = waiting[v]
                                    /\ op'[v] = op[v] /\ idle'[v] = idle[v]
    PROVE  \A v \in Workers \ {w} : Sleeps(v)' /\ ScanOK(v)'
<1> SUFFICES ASSUME NEW v \in Workers \ {w} PROVE Sleeps(v)' /\ ScanOK(v)'
  OBVIOUS
<1>1. /\ pc'[v] = pc[v] \/ (pc[v] = "asleep" /\ pc'[v] = "woken")
      /\ todo'[v] = todo[v] /\ waiting'[v] = waiting[v] /\ op'[v] = op[v] /\ idle'[v] = idle[v]
      /\ Sleeps(v) /\ ScanOK(v)
  BY DEF MovesAlone, AllSettledOK, SettledOK
<1>2. IdleSubtrees(v)' = IdleSubtrees(v)
  BY <1>1 DEF IdleSubtrees
<1> QED BY <1>1, <1>2 DEF Sleeps, ScanOK, Waiting

\* A step that leaves the task channels alone leaves alone who is settled.
LEMMA QuietSettled ==
    ASSUME Inv, NEW w \in Workers, Quiet(w) \/ Sends(w) \/ RecvTask(w)
    PROVE  \A v \in Workers : Settled(v)' <=> Settled(v)
<1> USE DEF Inv, ControlOK, ProtocolOK, WorkOK
<1>1. ASSUME NEW v \in Workers, v # w PROVE Settled(v)' <=> Settled(v)
  <2>0. Scheduler(w) \/ User(w) \/ SpuriousWakeup(w)
    BY DEF Quiet, Sends, Scheduler, User
  <2>1. pc'[v] = pc[v] \/ (pc[v] = "asleep" /\ pc'[v] = "woken")
    BY <1>1, <2>0, StepPrivate DEF Private
  <2>2. waiting'[v] = waiting[v] /\ chan_tasks'[v] = chan_tasks[v]
    BY <1>1, QuietKeeps, SendsMoves DEF RecvTask
  <2> QED BY <2>1, <2>2 DEF Settled, Loaded, Waiting
<1>2. Settled(w)' <=> Settled(w)
  <2>1. CASE WaitPeek(w)
    BY <2>1 DEF WaitPeek, Settled, Loaded, Goto, Waiting, protocol, work
  <2>2. CASE Sleep(w) \/ Wake(w) \/ SpuriousWakeup(w)
    BY <2>2 DEF Sleep, Wake, SpuriousWakeup, Settled, Loaded, Goto, Waiting, protocol, work
  <2>3. CASE Sends(w) \/ RecvTask(w)
    BY <2>3 DEF Sends, RT_pop, BeginSteal, RecvNoTask, Resend, ForceNotReady, RecvTask, Goto,
            Settled, Waiting
  <2>4. CASE StartBehalf(w) \/ ShareDone(w) \/ ShareDoneRun(w)
             \/ RunPopped(w) \/ PopFailed(w) \/ ReturnToBody(w) \/ NothingToRelay(w)
             \/ ForceReady(w) \/ BarrierReturn(w) \/ ShareDoneExit(w) \/ ExitDone(w)
    BY <2>4 DEF StartBehalf, ShareDone, ShareDoneRun,
            RunPopped, PopFailed, ReturnToBody, NothingToRelay, NoRequest,
            ForceReady, BarrierReturn, ShareDoneExit, ExitDone, Goto, Settled, Waiting
  <2>5. CASE ShareSignal(w) \/ SignalExit(w)
    BY <2>5 DEF ShareSignal, SignalExit, SIGNAL, Woken, Settled, Waiting
  <2>6. CASE User(w)
    BY <2>6 DEF User, RT_push, RT_force_future, RT_poll, EndIteration, TaskReturn, RT_barrier,
            Goto, Settled, Waiting
  <2> QED BY <2>1, <2>2, <2>3, <2>4, <2>5, <2>6 DEF Quiet
<1> QED BY <1>1, <1>2

LEMMA PlainLifelines ==
    ASSUME Inv, NEW w \in Workers, Quiet(w) \/ Sends(w) \/ RecvTask(w)
    PROVE  LifelinesKept /\ UNCHANGED idle
<1>1. CASE ShareSignal(w)
  <2>1. /\ pc[w] = "signal" /\ pc'[w] = "share"
        /\ \A v \in Workers \ {w} : pc'[v] = pc[v] \/ (pc[v] = "asleep" /\ pc'[v] = "woken")
    BY <1>1, SignalMoves DEF ShareSignal, Inv, Labels
  <2>2. /\ work_sharing_requests'[w] = Tail(work_sharing_requests[w])
        /\ \A v \in Workers \ {w} : work_sharing_requests'[v] = work_sharing_requests[v]
    BY <1>1 DEF ShareSignal, DEQUEUE_WORK_SHARING_REQUEST, Inv, LifelineOK
  <2>3. UNCHANGED idle
    BY <1>1 DEF ShareSignal
  <2> QED BY <2>1, <2>2, <2>3 DEF LifelinesKept, Lifelines
<1>2. CASE Quiet(w) /\ ~ShareSignal(w)
  <2>1. LifelinesKept
    BY <1>2, QuietMoves, KeepLifelines
  <2>2. UNCHANGED idle
    BY <1>2 DEF Quiet, User, StartBehalf, ShareDone, ShareDoneRun,
        RunPopped, PopFailed, ReturnToBody, NothingToRelay,
        ForceReady, WaitPeek, Sleep, SpuriousWakeup, Wake,
        BarrierReturn, ShareDoneExit, SignalExit, ExitDone,
        RT_push, RT_force_future, RT_poll, EndIteration, TaskReturn, RT_barrier, lifeline
  <2> QED BY <2>1, <2>2
<1>3. CASE Sends(w)
  BY <1>3, SendsMoves, KeepLifelines DEF lifeline
<1>4. CASE RecvTask(w)
  <2>1. MovesAlone(w) /\ pc[w] # "signal" /\ pc'[w] # "signal" /\ UNCHANGED lifeline
    BY <1>4 DEF RecvTask, Goto, MovesAlone, Inv, ControlOK
  <2> QED BY <2>1, KeepLifelines DEF lifeline
<1> QED BY <1>1, <1>2, <1>3, <1>4

LEMMA PlainSettled ==
    ASSUME Inv, AllSettledOK, NEW w \in Workers, Quiet(w) \/ Sends(w) \/ RecvTask(w)
    PROVE  AllSettledOK'
<1> USE DEF Inv, ControlOK, ProtocolOK
<1>1. Scheduler(w) \/ User(w) \/ SpuriousWakeup(w)
  BY DEF Quiet, Sends, Scheduler, User
<1>2. LifelinesKept /\ UNCHANGED idle
  BY PlainLifelines
<1>3. \A v \in Workers : Settled(v)' <=> Settled(v)
  BY QuietSettled
<1>4. ~(RecvOwn(w) \/ RecvBehalf(w)) \/ pc[w] \in {"serve", "behalf"}
  BY DEF RecvOwn, RecvBehalf
<1>5. /\ pc'[w] \in Waiting => pc[w] \in Waiting /\ op'[w] = op[w] /\ waiting'[w] = waiting[w]
      /\ pc'[w] = "behalf" => todo'[w] = IdleSubtrees(w)
      /\ \A v \in Workers \ {w} : todo'[v] = todo[v] /\ waiting'[v] = waiting[v]
  <2>1. CASE ~(RecvOwn(w) \/ RecvBehalf(w))
    BY <1>1, <2>1, StepScan
  <2>2. CASE StartBehalf(w)
    BY <2>2 DEF StartBehalf, Goto, Waiting, protocol
  <2>3. CASE RunPopped(w) \/ PopFailed(w) \/ ReturnToBody(w) \/ NothingToRelay(w)
    BY <2>3 DEF RunPopped, PopFailed, ReturnToBody, NothingToRelay, Goto, Waiting, protocol, control
  <2>4. CASE pc[w] \notin {"serve", "behalf"}
    BY <1>4, <2>1, <2>4
  <2>5. pc[w] \in {"serve", "behalf"} => StartBehalf(w) \/ RunPopped(w) \/ PopFailed(w)
            \/ ReturnToBody(w) \/ NothingToRelay(w)
    BY DEF Quiet, Sends, User, ShareSignal, ShareDone, ShareDoneRun,
        ForceReady, WaitPeek, Sleep, SpuriousWakeup, Wake,
        BarrierReturn, ShareDoneExit, SignalExit, ExitDone,
        RT_push, RT_force_future, RT_poll, EndIteration, TaskReturn, RT_barrier,
        RT_pop, BeginSteal, RecvNoTask, Resend, ForceNotReady, RecvTask
  <2> QED BY <2>2, <2>3, <2>4, <2>5
<1>6. \A v \in Workers : Sleeps(v)' /\ ScanOK(v)'
  <2>1. Sleeps(w)' /\ ScanOK(w)'
    BY <1>2, <1>5 DEF AllSettledOK, SettledOK, Sleeps, ScanOK, IdleSubtrees
  <2>2. MovesAlone(w) /\ Private(w)
    BY <1>1, StepPrivate
  <2> QED BY <1>2, <1>5, <2>1, <2>2, ScanStays DEF Private
<1>7. \A v \in Workers, x \in Request :
            Has(chan_requests'[v], x) => Has(chan_requests[v], x) \/ RequestOK(v, x)'
  <2>1. CASE UNCHANGED chan_requests
    BY <2>1
  <2>2. ASSUME Sends(w), NEW s \in {WORKING, IDLE}, try_send_steal_request(w, s), ~UNCHANGED chan_requests
        PROVE  \A v \in Workers, x \in Request :
                    Has(chan_requests'[v], x) => Has(chan_requests[v], x) \/ RequestOK(v, x)'
    <3>1. PICK u \in Workers, r \in Request : /\ r.id = w /\ r.state = s
                                              /\ chan_requests' = Deliver(chan_requests, u, r)
      <4>1. Sent(w, s)
        BY <2>2, SentRequest
      <4> QED BY <4>1 DEF Sent
    <3>2. \A v \in Workers : \A x : Has(chan_requests'[v], x) => Has(chan_requests[v], x) \/ x = r
      BY <3>1, DeliveredHas DEF Queues
    <3>3. ~Settled(w)'
      BY <2>2 DEF Settled, Sends, RT_pop, BeginSteal, RecvNoTask, Resend, ForceNotReady, Goto, Waiting
    <3>4. \A v : RequestOK(v, r)'
      BY <3>1, <3>3 DEF RequestOK, WORKING, IDLE, FAILED
    <3> QED BY <3>2, <3>4
  <2> QED BY <2>1, <2>2, QuietKeeps, SendsMoves DEF RecvTask
<1> QED BY <1>2, <1>3, <1>6, <1>7, SameSettled

\* A child's failed request becomes a lifeline.
LEMMA RecvFailedSettled ==
    ASSUME Inv, AllHeld, AllSettledOK, NEW w \in Workers, RecvFailed(w)
    PROVE  AllSettledOK'
<1> USE DEF Inv, ProtocolOK, ControlOK, LifelineOK
<1>1. PICK r : r = Head(chan_requests[w])
  OBVIOUS
<1>2. PICK q : q = [chan_requests EXCEPT ![w] = Tail(@)]
  OBVIOUS
<1>3. /\ chan_requests[w] # <<>> /\ r.state = FAILED /\ chan_requests' = q /\ pc[w] = "serve"
      /\ work_sharing_requests' = [work_sharing_requests EXCEPT ![w] = Append(@, r)]
      /\ idle' = [idle EXCEPT ![w] = @ \cup {r.id}]
      /\ UNCHANGED <<chan_tasks, waiting, pc, op, todo>>
  BY <1>1, <1>2 DEF RecvFailed, MarkIdle, work, control
<1>4. Taken(r, q)
  BY <1>1, <1>2, <1>3 DEF Taken
<1>5. /\ r \in Request /\ Has(chan_requests[w], r)
      /\ \A v \in Workers : \A x : Has(q[v], x) => Has(chan_requests[v], x)
  BY <1>1, <1>3, <1>4, TakenHas, HeadHas
<1>6. r.id \in Children(w) /\ Settled(r.id)
  BY <1>3, <1>5 DEF AllSettledOK, SettledOK, RequestsOK, RequestOK
<1>7. \A v : Settled(v)' <=> Settled(v)
  BY <1>3 DEF Settled, Loaded
<1>8. /\ Lifelines(w)' = Append(Lifelines(w), r) /\ Lifelines(w) \in Seq(Request)
      /\ \A u \in Workers \ {w} : Lifelines(u)' = Lifelines(u)
  BY <1>3, LifelinesType DEF Lifelines
<1>9. /\ idle'[w] = idle[w] \cup {r.id}
      /\ \A v \in Workers \ {w} : idle'[v] = idle[v]
  BY <1>3
<1>10. ASSUME NEW v \in Workers
       PROVE  Sleeps(v)' /\ LastToLeave(v)' /\ RequestsOK(v)' /\ ScanOK(v)'
  <2>1. SettledOK(v)
    BY DEF AllSettledOK
  <2>2. Sleeps(v)'
    BY <1>3, <2>1 DEF SettledOK, Sleeps
  <2>3. RequestsOK(v)'
    BY <1>3, <1>5, <1>7, <2>1 DEF SettledOK, RequestsOK, RequestOK
  <2>4. ScanOK(v)'
    BY <1>3, <1>9, <2>1 DEF SettledOK, ScanOK, IdleSubtrees
  <2>5. LastToLeave(v)'
    BY <1>3, <1>7, <1>9, <2>1 DEF SettledOK, LastToLeave, Settled, Waiting
  <2> QED BY <2>2, <2>3, <2>4, <2>5
<1>11. ASSUME NEW v \in Workers, v # w PROVE LifelinesOK(v)' /\ FlagsOK(v)'
  BY <1>7, <1>8, <1>9, <1>11 DEF AllSettledOK, SettledOK, LifelinesOK, FlagsOK
<1>12. \A x : Has(Lifelines(w)', x) <=> Has(Lifelines(w), x) \/ x = r
  BY <1>5, <1>8, AppendHas
<1>13. LifelinesOK(w)'
  BY <1>6, <1>7, <1>12 DEF AllSettledOK, SettledOK, LifelinesOK
<1>14. FlagsOK(w)'
  BY <1>5, <1>9, <1>12 DEF AllSettledOK, SettledOK, FlagsOK
<1> QED BY <1>10, <1>11, <1>13, <1>14 DEF AllSettledOK, SettledOK

\* The child at the head of the queue gets tasks, and its subtree is busy again.
LEMMA ShareSettled ==
    ASSUME Inv, AllHeld, AllAccounts, AllSettledOK, NEW w \in Workers, ShareSend(w)
    PROVE  AllSettledOK'
<1> USE DEF Inv, ProtocolOK, ControlOK, LifelineOK
<1>1. PICK r : r = Head(work_sharing_requests[w])
  OBVIOUS
<1>2. /\ work_sharing_requests[w] # <<>> /\ pc[w] = "share" /\ pc' = [pc EXCEPT ![w] = "signal"]
      /\ idle' = [idle EXCEPT ![w] = @ \ {r.id}]
      /\ UNCHANGED <<chan_requests, waiting, work_sharing_requests, op, todo>>
  BY <1>1 DEF ShareSend, CanShare, MarkBusy, Goto, protocol, control
<1>3. r \in Request /\ r.id \in Workers /\ r.chan \in Chans
  <2>1. work_sharing_requests[w] \in Seq(Request)
    OBVIOUS
  <2>2. r \in Request
    BY <1>1, <1>2, <2>1, HeadTailProperties
  <2> QED BY <2>2 DEF Request
<1>4. /\ Lifelines(w) = work_sharing_requests[w] /\ Lifelines(w)' = Tail(Lifelines(w))
      /\ Lifelines(w) \in Seq(Request) /\ r = Head(Lifelines(w)) /\ Lifelines(w) # <<>>
      /\ \A u \in Workers \ {w} : Lifelines(u)' = Lifelines(u)
  BY <1>1, <1>2, LifelinesType DEF Lifelines
<1>5. \A x : Has(Lifelines(w), x) <=> r = x \/ Has(Lifelines(w)', x)
  BY <1>4, HeadHas
<1>6. Settled(r.id) /\ r.id \in Children(w) /\ Has(Lifelines(w), r)
  BY <1>3, <1>5 DEF AllSettledOK, SettledOK, LifelinesOK
<1>7. ASSUME NEW v \in Workers, NEW x \in Request,
             Has(chan_requests[v], x) \/ Has(Lifelines(v)', x)
      PROVE  x.id # r.id
  <2> SUFFICES ASSUME x.id = r.id PROVE FALSE
    OBVIOUS
  <2>1. waiting[r.id] /\ waiting[x.id]
    BY <1>6 DEF Settled
  <2>2. CASE Has(chan_requests[v], x)
    BY <1>3, <1>6, <2>1, <2>2, NotBoth
  <2>3. CASE Has(Lifelines(v)', x)
    <3>1. Has(Lifelines(v), x)
      BY <1>4, <1>5, <2>3
    <3>2. x.chan = r.chan
      BY <1>3, <1>6, <2>1, <3>1, SameToken
    <3>3. Kept(v, r.id, r.chan) /\ Kept(w, r.id, r.chan)
      BY <1>6, <3>1, <3>2, HasIn DEF Kept
    <3>4. v = w
      BY <1>3, <3>3 DEF AllHeld, OneHolder
    <3>5. In(Tail(Lifelines(w)), r.id, r.chan)
      BY <1>4, <2>3, <3>2, <3>4, HasIn
    <3>6. Twice(Lifelines(w), r.id, r.chan)
      BY <1>4, <3>5, TailHolds DEF Mine
    <3> QED BY <1>3, <3>6 DEF AllHeld, OneHolder
  <2> QED BY <1>7, <2>2, <2>3
<1>8. \A v \in Workers : v # r.id => (Settled(v)' <=> Settled(v))
  <2>1. \E list : list # <<>> /\ SendTasks(r, list)
    BY <1>1, <1>2, SendLootUsed, SplitUsed DEF ShareSend
  <2>2. \A v \in Workers, c \in Chans : v # r.id => (Loaded(v, c)' <=> Loaded(v, c))
    BY <1>3, <2>1, SendTasksHolds DEF Mine
  <2> QED BY <1>2, <2>2 DEF Settled, Waiting
<1>9. \A v \in Workers : Settled(v)' => Settled(v)
  BY <1>6, <1>8
<1>10. /\ idle'[w] = idle[w] \ {r.id}
       /\ \A v \in Workers \ {w} : idle'[v] = idle[v]
  BY <1>2
<1>11. ASSUME NEW v \in Workers
       PROVE  Sleeps(v)' /\ LastToLeave(v)' /\ RequestsOK(v)' /\ ScanOK(v)' /\ LifelinesOK(v)'
  <2>1. SettledOK(v)
    BY DEF AllSettledOK
  <2>2. Sleeps(v)'
    BY <1>2, <2>1 DEF SettledOK, Sleeps, Waiting
  <2>3. RequestsOK(v)'
    <3> SUFFICES ASSUME NEW x \in Request, Has(chan_requests'[v], x) PROVE RequestOK(v, x)'
      BY DEF RequestsOK
    <3>1. Has(chan_requests[v], x) /\ x.id # r.id /\ x.id \in Workers
      BY <1>2, <1>7 DEF Request
    <3> QED BY <1>8, <2>1, <3>1 DEF SettledOK, RequestsOK, RequestOK
  <2>4. ScanOK(v)'
    BY <1>2, <1>10, <2>1 DEF SettledOK, ScanOK, IdleSubtrees
  <2>5. LastToLeave(v)'
    BY <1>2, <1>9, <1>10, <2>1 DEF SettledOK, LastToLeave, Settled, Waiting
  <2>6. LifelinesOK(v)'
    <3> SUFFICES ASSUME NEW x \in Request, Has(Lifelines(v)', x)
                 PROVE  x.id \in Children(v) /\ Settled(x.id)'
      BY DEF LifelinesOK
    <3>1. Has(Lifelines(v), x) /\ x.id # r.id /\ x.id \in Workers
      BY <1>4, <1>5, <1>7 DEF Request
    <3> QED BY <1>8, <2>1, <3>1 DEF SettledOK, LifelinesOK
  <2> QED BY <2>2, <2>3, <2>4, <2>5, <2>6
<1>12. ASSUME NEW v \in Workers, v # w PROVE FlagsOK(v)'
  BY <1>4, <1>10, <1>12 DEF AllSettledOK, SettledOK, FlagsOK
<1>13. FlagsOK(w)'
  <2> SUFFICES ASSUME NEW c \in Workers
               PROVE  c \in idle'[w] <=> \E x \in Request : Has(Lifelines(w)', x) /\ x.id = c
    BY DEF FlagsOK
  <2>1. c \in idle[w] <=> \E x \in Request : Has(Lifelines(w), x) /\ x.id = c
    BY DEF AllSettledOK, SettledOK, FlagsOK
  <2> QED BY <1>3, <1>5, <1>7, <1>10, <2>1
<1> QED BY <1>11, <1>12, <1>13 DEF AllSettledOK, SettledOK

\* Worker w hands its last request to its parent.
LEMMA HandedUpSettled ==
    ASSUME Inv, AllHeld, AllAccounts, AllBusy, AllSettledOK, NEW w \in Workers,
           pc[w] \in {"serve", "behalf"}, MovesAlone(w), LifelinesKept, UNCHANGED <<idle, op>>,
           \A v \in Workers : todo'[v] \subseteq todo[v],
           NEW r \in Request, NEW q, Taken(r, q), HandedUp(w, r, q)
    PROVE  AllSettledOK'
<1> USE DEF Inv, ProtocolOK, ControlOK
<1>1. op[w] = "idle" /\ \A c \in Chans : ~Loaded(w, c) /\ (~Free(w, c) => c = r.chan)
  BY LastIdle DEF HandedUp
<1>2. /\ pc'[w] = "waitpeek" /\ waiting' = [waiting EXCEPT ![w] = TRUE] /\ UNCHANGED chan_tasks
      /\ w # MASTER_ID /\ idle[w] = Children(w) /\ r.id = w
  BY DEF HandedUp, BothSubtreesIdle
<1>3. PICK s \in Request : /\ s.id = w /\ s.chan = r.chan /\ s.state = FAILED
                           /\ chan_requests' = Deliver(q, parent(w), s)
  BY DEF HandedUp
<1>4. parent(w) \in Workers /\ w \in Children(parent(w))
  BY <1>2, ParentChild
<1>5. Queues(q)
  BY TakenHas DEF Queues
<1>6. \A v \in Workers : \A x : Has(chan_requests'[v], x) => Has(q[v], x) \/ (v = parent(w) /\ x = s)
  BY <1>3, <1>4, <1>5, DeliveredHas
<1>7. Settled(w)' /\ ~Settled(w)
  BY <1>1, <1>2 DEF Settled, Loaded, Waiting
<1>8. \A v \in Workers : v # w => (Settled(v)' <=> Settled(v))
  BY <1>2 DEF Settled, Loaded, Waiting, MovesAlone
<1>9. ASSUME NEW v \in Workers, NEW x \in Request, Has(q[v], x)
      PROVE  x.id # w /\ x.id \in Workers /\ Has(chan_requests[v], x)
  <2>1. Has(chan_requests[v], x) /\ ~Mine(x, r.id, r.chan)
    BY <1>9, TakenHas
  <2>2. x.id \in Workers /\ x.chan \in Chans /\ ~Free(x.id, x.chan)
    BY <2>1, NotFree
  <2> QED BY <1>1, <1>2, <2>1, <2>2 DEF Mine
<1>10. ASSUME NEW v \in Workers PROVE SettledOK(v)'
  <2>1. SettledOK(v) /\ Lifelines(v)' = Lifelines(v)
    BY DEF AllSettledOK, LifelinesKept
  <2>2. Sleeps(v)'
    BY <1>1, <1>2, <2>1 DEF SettledOK, Sleeps, MovesAlone, Waiting
  <2>3. LastToLeave(v)'
    BY <1>2, <1>8, <2>1 DEF SettledOK, LastToLeave
  <2>4. RequestsOK(v)'
    <3> SUFFICES ASSUME NEW x \in Request, Has(chan_requests'[v], x) PROVE RequestOK(v, x)'
      BY DEF RequestsOK
    <3>1. CASE v = parent(w) /\ x = s
      BY <1>3, <1>4, <1>7, <3>1 DEF RequestOK
    <3>2. CASE Has(q[v], x)
      <4>1. x.id # w /\ x.id \in Workers /\ Has(chan_requests[v], x)
        BY <1>9, <3>2
      <4> QED BY <1>8, <2>1, <4>1 DEF SettledOK, RequestsOK, RequestOK
    <3> QED BY <1>6, <3>1, <3>2
  <2>5. LifelinesOK(v)'
    <3> SUFFICES ASSUME NEW x \in Request, Has(Lifelines(v), x)
                 PROVE  x.id \in Children(v) /\ Settled(x.id)'
      BY <2>1 DEF LifelinesOK
    <3>1. x.id \in Children(v) /\ Settled(x.id) /\ x.id \in Workers
      BY <2>1 DEF SettledOK, LifelinesOK, Request
    <3> QED BY <1>7, <1>8, <3>1
  <2>6. FlagsOK(v)'
    BY <2>1 DEF SettledOK, FlagsOK
  <2>7. ScanOK(v)'
    <3>1. IdleSubtrees(v)' = IdleSubtrees(v) /\ todo'[v] \subseteq todo[v]
      BY DEF IdleSubtrees
    <3> QED BY <1>2, <2>1, <3>1 DEF SettledOK, ScanOK, MovesAlone
  <2> QED BY <2>2, <2>3, <2>4, <2>5, <2>6, <2>7 DEF SettledOK
<1> QED BY <1>10 DEF AllSettledOK

\* A request is answered, passed on, returned or handed up.
LEMMA RecvSettled ==
    ASSUME Inv, AllHeld, AllAccounts, AllBusy, AllSettledOK, NEW w \in Workers,
           RecvOwn(w) \/ RecvBehalf(w)
    PROVE  AllSettledOK'
<1> USE DEF Inv, ProtocolOK, ControlOK
<1>1. /\ MovesAlone(w) /\ UNCHANGED <<idle, op, work_sharing_requests>>
      /\ pc[w] \in {"serve", "behalf"} /\ pc'[w] # "signal"
      /\ \A v \in Workers : todo'[v] \subseteq todo[v]
  <2>1. pc[w] \in {"serve", "behalf"} /\ UNCHANGED <<hand, stack, op, lifeline>>
    BY RecvGoes
  <2>2. MovesAlone(w) /\ pc'[w] # "signal"
    BY <2>1, RecvGoes DEF Goes, MovesAlone
  <2>3. \A v \in Workers : todo'[v] \subseteq todo[v]
    BY DEF RecvOwn, RecvBehalf, control
  <2> QED BY <2>1, <2>2, <2>3 DEF lifeline
<1>2. LifelinesKept
  BY <1>1, KeepLifelines
<1>3. \A v \in Workers : (pc'[v] = "behalf" => pc[v] = "behalf") => ScanOK(v)'
  BY <1>1 DEF AllSettledOK, SettledOK, ScanOK, IdleSubtrees
<1>4. \A v \in Workers \ {w} : pc'[v] = "behalf" => pc[v] = "behalf"
  BY <1>1 DEF MovesAlone
<1>5. CASE UNCHANGED <<protocol, work, pc>>
  <2>1. \A v \in Workers : Settled(v)' <=> Settled(v)
    BY <1>5 DEF Settled, Loaded, protocol, work
  <2>2. \A v \in Workers : Sleeps(v)'
    BY <1>1, <1>5 DEF AllSettledOK, SettledOK, Sleeps, protocol
  <2> QED BY <1>1, <1>2, <1>3, <1>5, <2>1, <2>2, SameSettled DEF protocol
<1>6. ASSUME NEW r \in Request, NEW q, Taken(r, q), Fate(w, r, q),
             r.state # FAILED, ~Settled(r.id)
      PROVE  AllSettledOK'
  <2>1. CASE HandedUp(w, r, q)
    BY <1>1, <1>2, <1>6, <2>1, HandedUpSettled
  <2>2. CASE Concluded(w, r, q) \/ Forgotten(w, r, q) \/ Passed(w, r, q) \/ Discarded(w, r, q)
             \/ Served(w, r, q)
    <3>1. pc'[w] \in {"serve", "recv", "leave"} /\ UNCHANGED waiting
      BY <2>2 DEF Concluded, Forgotten, Passed, Discarded, Served, Unheard
    <3>2. r.id \in Workers /\ r.chan \in Chans
      BY DEF Request
    <3>3. \A v \in Workers : Settled(v)' <=> Settled(v)
      <4>1. CASE UNCHANGED chan_tasks
        BY <1>1, <3>1, <4>1 DEF Settled, Loaded, MovesAlone, Waiting
      <4>2. CASE Served(w, r, q)
        <5>1. \A v \in Workers, c \in Chans : Loaded(v, c)' <=> Loaded(v, c) \/ Mine(r, v, c)
          BY <3>2, <4>2, SendTasksHolds DEF Served, Used
        <5>2. \A v \in Workers : v # r.id => (Settled(v)' <=> Settled(v))
          BY <1>1, <3>1, <5>1 DEF Settled, MovesAlone, Waiting, Mine
        <5>3. Loaded(r.id, r.chan)'
          BY <3>2, <5>1 DEF Mine
        <5> QED BY <1>6, <3>2, <5>2, <5>3 DEF Settled
      <4> QED BY <2>2, <4>1, <4>2 DEF Concluded, Forgotten, Passed, Discarded, Unheard
    <3>4. \A v \in Workers : Sleeps(v)' /\ ScanOK(v)'
      BY <1>1, <1>3, <1>4, <3>1 DEF AllSettledOK, SettledOK, Sleeps, MovesAlone, Waiting
    <3>5. \A v \in Workers, x \in Request :
            Has(chan_requests'[v], x) => Has(chan_requests[v], x) \/ RequestOK(v, x)'
      <4>1. Queues(q) /\ \A v \in Workers : \A x : Has(q[v], x) => Has(chan_requests[v], x)
        BY <1>6, TakenHas DEF Queues
      <4>2. CASE chan_requests' = q
        BY <4>1, <4>2
      <4>3. CASE Passed(w, r, q)
        <5>1. PICK u \in Workers, s \in Request :
                /\ s.id = r.id /\ s.chan = r.chan
                /\ s.state = r.state \/ s.state = IDLE
                /\ chan_requests' = Deliver(q, u, s)
          BY <4>3 DEF Passed
        <5>2. \A v \in Workers : \A x : Has(chan_requests'[v], x) => Has(q[v], x) \/ x = s
          BY <4>1, <5>1, DeliveredHas
        <5>3. s.state # FAILED /\ ~Settled(s.id)'
          BY <1>6, <3>2, <3>3, <5>1 DEF IDLE, FAILED
        <5>4. \A v : RequestOK(v, s)'
          BY <5>3 DEF RequestOK
        <5> QED BY <4>1, <5>2, <5>4
      <4> QED BY <2>2, <4>2, <4>3 DEF Concluded, Forgotten, Discarded, Served, Used
    <3> QED BY <1>1, <1>2, <3>3, <3>4, <3>5, SameSettled
  <2> QED BY <1>6, <2>1, <2>2 DEF Fate
<1> QED BY <1>5, <1>6, TakenUnsettled

LEMMA InitSettled == Init => SettledInv
<1> SUFFICES ASSUME Init, NEW w \in Workers PROVE SettledOK(w)
  BY DEF SettledInv, AllSettledOK
<1>1. /\ pc[w] \in {"body", "pop"} /\ idle[w] = {}
      /\ chan_requests[w] = <<>> /\ work_sharing_requests[w] = <<>>
  BY DEF Init
<1>2. Lifelines(w) = <<>>
  BY <1>1 DEF Lifelines
<1>3. \A x : ~Has(<<>>, x)
  BY EmptyHas
<1> QED BY <1>1, <1>2, <1>3 DEF SettledOK, Sleeps, LastToLeave, Settled, RequestsOK, LifelinesOK,
        FlagsOK, ScanOK, Waiting

LEMMA NextSettled ==
    Inv /\ TokenInv /\ AccountInv /\ BusyInv /\ SettledInv /\ [Next]_vars => SettledInv'
<1> SUFFICES ASSUME Inv, TokenInv, AccountInv, BusyInv, SettledInv, [Next]_vars, ~Exiting'
             PROVE  AllSettledOK'
  BY DEF SettledInv
<1>1. ASSUME NEW w \in Workers, Scheduler(w) \/ User(w) \/ SpuriousWakeup(w) PROVE AllSettledOK'
  <2>1. ~Exiting
    BY <1>1, ExitIsFinal
  <2>2. ~NotifyExit(w)
    BY <2>1 DEF NotifyExit, Exiting
  <2>3. AllHeld /\ AllAccounts /\ AllBusy /\ AllSettledOK
    BY <2>1 DEF TokenInv, AccountInv, BusyInv, SettledInv
  <2> QED BY <1>1, <2>2, <2>3, StepKinds, PlainSettled, RecvFailedSettled, ShareSettled, RecvSettled
<1>2. CASE UNCHANGED vars
  <2>1. AllSettledOK /\ UNCHANGED <<chan_requests, chan_tasks, waiting, idle, work_sharing_requests,
                                    pc, op, todo>>
    BY <1>2 DEF vars, protocol, control, work, lifeline, Exiting, SettledInv
  <2>2. LifelinesKept /\ \A v \in Workers : Settled(v)' <=> Settled(v)
    BY <2>1 DEF LifelinesKept, Lifelines, Settled, Loaded
  <2>3. \A v \in Workers : Sleeps(v)' /\ ScanOK(v)'
    BY <2>1 DEF AllSettledOK, SettledOK, Sleeps, ScanOK, IdleSubtrees
  <2> QED BY <2>1, <2>2, <2>3, SameSettled
<1> QED BY <1>1, <1>2 DEF Next, Terminated

\* A worker backs off only when its subtree has, hands its last request to its
\* parent, and stays away until the parent answers it.
THEOREM SettledInvHolds == Spec => []SettledInv
<1>1. Init => SettledInv
  BY InitSettled
<1>2. Inv /\ TokenInv /\ AccountInv /\ BusyInv /\ SettledInv /\ [Next]_vars => SettledInv'
  BY NextSettled
<1> QED BY <1>1, <1>2, InvHolds, TokenInvHolds, AccountInvHolds, BusyInvHolds, PTL DEF Spec

\* A settled worker has backed off.
LEMMA SettledBackedOff ==
    ASSUME Inv, AllIdleInv, NEW v \in Workers, FramesOK(v), AtOK(v), SettledOK(v), Settled(v)
    PROVE  BackedOff(v)
<1>1. pc[v] \in Waiting /\ op[v] = "idle" /\ v # MASTER_ID /\ waiting[v]
  BY DEF SettledOK, Sleeps, Settled
<1>2. Looking(v, pc[v])
  BY <1>1 DEF Looking
<1>3. deque[v] = <<>> /\ hand[v] = NoTask
  BY <1>2 DEF AllIdleInv, IdleInv, LookingInv
<1>4. At(v) \in {"schedule", "barrier"}
  BY <1>2 DEF AtOK
<1>5. stack[v] # <<>> => stack[v][1].at = "barrier" /\ 1 \in 1 .. Len(stack[v])
  BY <1>4, AtTop DEF Inv
<1>6. stack[v] = <<>>
  BY <1>1, <1>5 DEF FramesOK
<1> QED BY <1>1, <1>3, <1>6 DEF BackedOff, Settled, Loaded

\* The invariant the model checker verifies on small instances: a subtree that a
\* worker considers idle, answers for and strikes out of victim sets has backed
\* off, for every number of workers.
THEOREM SubtreesAsleep == Spec => []IdleSubtreesBackedOff
<1>1. Inv /\ AllIdleInv /\ FrameInv /\ SettledInv => IdleSubtreesBackedOff
  <2> SUFFICES ASSUME Inv, AllIdleInv, FrameInv, SettledInv, ~Exiting, NEW w \in Workers
               PROVE  /\ idle[w] = {Lifelines(w)[i].id : i \in 1 .. Len(Lifelines(w))}
                      /\ idle[w] \subseteq Children(w)
                      /\ \A v \in IdleSubtrees(w) : BackedOff(v)
    BY DEF IdleSubtreesBackedOff
  <2>1. AllSettledOK
    BY DEF SettledInv
  <2>2. Lifelines(w) \in Seq(Request)
    BY LifelinesType
  <2>3. \A i \in 1 .. Len(Lifelines(w)) : Lifelines(w)[i] \in Request /\ Lifelines(w)[i].id \in Workers
    <3> SUFFICES ASSUME NEW i \in 1 .. Len(Lifelines(w))
                 PROVE  Lifelines(w)[i] \in Request /\ Lifelines(w)[i].id \in Workers
      OBVIOUS
    <3>1. Lifelines(w)[i] \in Request
      BY <2>2, ElementOfSeq
    <3> QED BY <3>1 DEF Request
  <2>4. \A c \in Workers : c \in idle[w] <=> \E i \in 1 .. Len(Lifelines(w)) : Lifelines(w)[i].id = c
    BY <2>1, <2>3 DEF AllSettledOK, SettledOK, FlagsOK, Has
  <2>5. idle[w] \subseteq Workers
    BY DEF Inv, LifelineOK
  <2>6. idle[w] = {Lifelines(w)[i].id : i \in 1 .. Len(Lifelines(w))}
    BY <2>3, <2>4, <2>5
  <2>7. idle[w] \subseteq Children(w) /\ \A v \in IdleSubtrees(w) : Settled(v)
    BY <2>1, IdleSettled
  <2>8. IdleSubtrees(w) \subseteq Workers
    BY IdleSubtreesType DEF Inv
  <2> QED BY <2>1, <2>6, <2>7, <2>8, SettledBackedOff DEF FrameInv, AllSettledOK
<1> QED BY <1>1, InvHolds, IdleInvHolds, FrameInvHolds, SettledInvHolds, PTL

-----------------------------------------------------------------------------
(* Facts about the tree and the root task *)

\* The children of a worker have it for a parent.
LEMMA ChildParent ==
    ASSUME NEW w \in Workers, NEW c \in Children(w)
    PROVE  c \in Workers /\ c # MASTER_ID /\ parent(c) = w /\ w < c
<1>1. w \in Nat /\ w <= N - 1 /\ N \in Nat
  BY NAssumption DEF Workers
<1>2. CASE c = 2 * w + 1 /\ 2 * w + 1 <= N - 1
  <2>1. c \in Workers /\ c # 0 /\ w < c
    BY <1>1, <1>2 DEF Workers
  <2>2. c % 2 # 0 /\ (c - 1) \div 2 = w
    BY <1>1, <1>2
  <2> QED BY <2>1, <2>2 DEF parent, MASTER_ID
<1>3. CASE c = 2 * w + 2 /\ 2 * w + 2 <= N - 1
  <2>1. c \in Workers /\ c # 0 /\ w < c
    BY <1>1, <1>3 DEF Workers
  <2>2. c % 2 = 0 /\ (c - 2) \div 2 = w
    BY <1>1, <1>3
  <2> QED BY <2>1, <2>2 DEF parent, MASTER_ID
<1> QED BY <1>2, <1>3 DEF Children, left_child, right_child

LEMMA ParentFirst ==
    ASSUME NEW v \in Workers, v # MASTER_ID
    PROVE  parent(v) \in Workers /\ v \in Children(parent(v)) /\ parent(v) < v
BY ParentChild, ChildParent

LEMMA MasterWorks == MASTER_ID \in Workers
BY NAssumption DEF Workers, MASTER_ID

\* A worker alone has no children.
LEMMA Solo ==
    ASSUME N = 1
    PROVE  Workers = {MASTER_ID} /\ Children(MASTER_ID) = {}
BY DEF Workers, MASTER_ID, Children, left_child, right_child, NoWorker

\* Nobody changes whose child a task is, or whether it is a loop.
KindsKept ==
    \A t \in TaskIds : /\ t \in TaskIds'
                       /\ tasks'[t].parent = tasks[t].parent
                       /\ tasks'[t].splittable = tasks[t].splittable

LEMMA UpdateKinds ==
    ASSUME Inv, NEW t, NEW rec, tasks' = [tasks EXCEPT ![t] = rec],
           t \in TaskIds => rec.parent = tasks[t].parent /\ rec.splittable = tasks[t].splittable
    PROVE  KindsKept
<1>1. CASE t \in TaskIds
  BY <1>1, TaskUpdated DEF Inv, KindsKept
<1>2. CASE t \notin TaskIds
  <2>1. tasks \in [TaskIds -> TaskRecord]
    BY LenProperties DEF Inv, WorkOK, TaskIds
  <2>2. tasks' = tasks
    BY <1>2, <2>1
  <2> QED BY <2>2 DEF KindsKept, TaskIds
<1> QED BY <1>1, <1>2

LEMMA SplitKinds ==
    ASSUME Inv, NEW w \in Workers, NEW r, NEW t \in TaskIds, split_loop(w, t, r)
    PROVE  KindsKept
<1>1. tasks \in Seq(TaskRecord) /\ tasks[t] \in TaskRecord /\ Len(tasks) \in Nat
      /\ t \in 1 .. Len(tasks)
  BY ElementOfSeq, LenProperties DEF Inv, WorkOK, TaskIds
<1>2. tasks[t].left \in Int
  BY <1>1 DEF TaskRecord
<1>3. PICK chunk \in 1 .. tasks[t].left - 1 :
        tasks' = Append([tasks EXCEPT ![t].left = @ - chunk],
                        [tasks[t] EXCEPT !.left = chunk, !.status = "ready"])
  BY DEF split_loop
<1>4. chunk \in Int /\ tasks[t].left - chunk \in Int
  BY <1>2, <1>3
<1> DEFINE mine == [tasks[t] EXCEPT !.left = @ - chunk]
           dup  == [tasks[t] EXCEPT !.left = chunk, !.status = "ready"]
           rest == [tasks EXCEPT ![t] = mine]
<1>5. /\ mine \in TaskRecord /\ dup \in TaskRecord
      /\ mine.parent = tasks[t].parent /\ mine.splittable = tasks[t].splittable
  BY <1>1, <1>4, Zenon DEF TaskRecord
<1>6. tasks' = Append(rest, dup)
  BY <1>3
<1> HIDE DEF mine, dup
<1>7. /\ rest \in Seq(TaskRecord) /\ Len(rest) = Len(tasks)
      /\ \A u \in 1 .. Len(tasks) : rest[u] = IF u = t THEN mine ELSE tasks[u]
  BY <1>1, <1>5, ExceptSeq
<1> HIDE DEF rest
<1>8. /\ Len(tasks') = Len(tasks) + 1
      /\ \A u \in 1 .. Len(tasks) : tasks'[u] = rest[u]
  BY <1>5, <1>6, <1>7, AppendProperties
<1>9. \A u \in 1 .. Len(tasks) : u \in 1 .. Len(tasks')
  BY <1>1, <1>8
<1> QED BY <1>5, <1>7, <1>8, <1>9 DEF KindsKept, TaskIds

LEMMA PushKinds ==
    ASSUME Inv, NEW w \in Workers, RT_push(w)
    PROVE  KindsKept
<1>1. Len(tasks) \in Nat /\ tasks \in Seq(TaskRecord)
  BY LenProperties DEF Inv, WorkOK
<1>2. PICK rec \in TaskRecord : tasks' = Append(tasks, rec)
  <2>1. Current(w) \in Nat
    BY CurrentType DEF NoTask, TaskIds, Inv
  <2>2. NewTask(Current(w), FALSE, 0) \in TaskRecord
    BY <2>1 DEF NewTask, TaskRecord
  <2>3. \A n \in LoopSizes : NewTask(Current(w), TRUE, n) \in TaskRecord
    BY <2>1, RuntimeAssumption DEF NewTask, TaskRecord
  <2> QED BY <2>2, <2>3 DEF RT_push
<1>3. /\ Len(tasks') = Len(tasks) + 1
      /\ \A u \in 1 .. Len(tasks) : tasks'[u] = tasks[u]
  BY <1>1, <1>2, AppendProperties
<1>4. \A u \in 1 .. Len(tasks) : u \in 1 .. Len(tasks')
  BY <1>1, <1>3
<1> QED BY <1>3, <1>4 DEF KindsKept, TaskIds

LEMMA StepKeepsKinds ==
    ASSUME Inv, NEW w \in Workers, Scheduler(w) \/ User(w) \/ SpuriousWakeup(w)
    PROVE  KindsKept
<1>0. \A t \in TaskIds : tasks[t] \in TaskRecord
  BY TaskType DEF Inv
<1>1. CASE UNCHANGED tasks
  BY <1>1 DEF KindsKept, TaskIds
<1>2. CASE RecvOwn(w) \/ RecvBehalf(w)
  <2>1. UNCHANGED tasks \/ \E r \in Request : \E q : Dispatch(w, r, q)
    BY <1>2, RecvTakes DEF work
  <2>2. ASSUME NEW r \in Request, NEW q, Dispatch(w, r, q) PROVE KindsKept
    BY <1>1, <1>2, <2>2, RecvGoes, DispatchWork, SplitKinds DEF WorkOutcome, SendLoot, work
  <2> QED BY <1>1, <2>1, <2>2
<1>3. CASE ShareSend(w)
  <2>1. \/ SendLoot(w, Head(work_sharing_requests[w]))
        \/ deque[w] = <<>> /\ split_loop(w, Current(w), Head(work_sharing_requests[w]))
    BY <1>3 DEF ShareSend
  <2>2. deque[w] = <<>> => Current(w) \in TaskIds
    <3>1. deque[w] = <<>> => SPLITTABLE(Current(w))
      BY <1>3 DEF ShareSend, CanShare
    <3> QED BY <3>1, CurrentType DEF Inv, SPLITTABLE, IterationsLeft
  <2> QED BY <1>1, <2>1, <2>2, SplitKinds DEF SendLoot
<1>4. CASE ShareDoneRun(w) \/ RunPopped(w)
  <2> DEFINE t == hand[w]
             rec == [tasks[t] EXCEPT !.status = "running",
                                     !.left = IF tasks[t].splittable THEN @ - 1 ELSE @]
  <2>1. tasks' = [tasks EXCEPT ![t] = rec]
    BY <1>4 DEF ShareDoneRun, RunPopped, Start
  <2>2. t \in TaskIds => rec.parent = tasks[t].parent /\ rec.splittable = tasks[t].splittable
    BY <1>0 DEF TaskRecord
  <2> HIDE DEF t, rec
  <2> QED BY <2>1, <2>2, UpdateKinds
<1>5. CASE ForceReady(w)
  <2> DEFINE t == Head(stack[w]).fut
             rec == [tasks[t] EXCEPT !.joined = TRUE]
  <2>1. tasks' = [tasks EXCEPT ![t] = rec]
    BY <1>5 DEF ForceReady
  <2>2. t \in TaskIds => rec.parent = tasks[t].parent /\ rec.splittable = tasks[t].splittable
    BY <1>0 DEF TaskRecord
  <2> HIDE DEF t, rec
  <2> QED BY <2>1, <2>2, UpdateKinds
<1>6. CASE EndIteration(w)
  <2> DEFINE t == Current(w)
             rec == [tasks[t] EXCEPT !.left = @ - 1]
  <2>1. tasks' = [tasks EXCEPT ![t] = rec]
    BY <1>6 DEF EndIteration
  <2>2. t \in TaskIds => rec.parent = tasks[t].parent /\ rec.splittable = tasks[t].splittable
    BY <1>0 DEF TaskRecord
  <2> HIDE DEF t, rec
  <2> QED BY <2>1, <2>2, UpdateKinds
<1>7. CASE TaskReturn(w)
  <2> DEFINE t == Current(w)
             rec == [tasks[t] EXCEPT !.status = "done"]
  <2>1. tasks' = [tasks EXCEPT ![t] = rec]
    BY <1>7 DEF TaskReturn
  <2>2. t \in TaskIds => rec.parent = tasks[t].parent /\ rec.splittable = tasks[t].splittable
    BY <1>0 DEF TaskRecord
  <2> HIDE DEF t, rec
  <2> QED BY <2>1, <2>2, UpdateKinds
<1>8. CASE \/ RecvFailed(w) \/ StartBehalf(w) \/ ShareSignal(w) \/ ShareDone(w)
           \/ RT_pop(w) \/ PopFailed(w) \/ ReturnToBody(w)
           \/ BeginSteal(w) \/ RecvTask(w) \/ RecvNoTask(w) \/ Resend(w)
           \/ NothingToRelay(w) \/ ForceNotReady(w)
           \/ WaitPeek(w) \/ Sleep(w) \/ Wake(w) \/ BarrierReturn(w)
           \/ ShareDoneExit(w) \/ NotifyExit(w) \/ SignalExit(w) \/ ExitDone(w)
           \/ SpuriousWakeup(w) \/ RT_force_future(w) \/ RT_poll(w) \/ RT_barrier(w)
  <2>1. UNCHANGED tasks
    BY <1>8 DEF RecvFailed, StartBehalf, ShareSignal, ShareDone,
           RT_pop, PopFailed, ReturnToBody,
           BeginSteal, RecvTask, RecvNoTask, Resend,
           NothingToRelay, ForceNotReady,
           WaitPeek, Sleep, Wake, BarrierReturn,
           ShareDoneExit, NotifyExit, SignalExit, ExitDone,
           SpuriousWakeup, RT_force_future, RT_poll, RT_barrier, work
  <2> QED BY <1>1, <2>1
<1> QED BY <1>2, <1>3, <1>4, <1>5, <1>6, <1>7, <1>8, PushKinds DEF Scheduler, User

\* The root task is nobody's child, and no loop.
RootTask == tasks[Root].parent = NoTask /\ ~tasks[Root].splittable

LEMMA RootExists ==
    ASSUME Inv
    PROVE  Root \in TaskIds
<1>1. Len(stack[MASTER_ID]) \in Nat \ {0} /\ stack[MASTER_ID][Len(stack[MASTER_ID])].task = Root
  BY MasterWorks, AtTop DEF Inv, LocalInv, RootInv
<1>2. Len(stack[MASTER_ID]) \in DOMAIN stack[MASTER_ID]
  BY <1>1, MasterWorks, LenProperties DEF Inv, RunOK
<1> QED BY <1>1, <1>2, MasterWorks DEF Inv, RunOK

LEMMA RootTaskHolds == Spec => []RootTask
<1>1. Init => RootTask
  <2> SUFFICES ASSUME Init PROVE RootTask
    OBVIOUS
  <2>1. tasks[Root] = [NewTask(NoTask, FALSE, 0) EXCEPT !.status = "running"]
    BY DEF Init, Root
  <2>2. tasks[Root].parent = NoTask /\ tasks[Root].splittable = FALSE
    BY <2>1 DEF NewTask
  <2> QED BY <2>2 DEF RootTask
<1>2. Inv /\ RootTask /\ [Next]_vars => RootTask'
  <2> SUFFICES ASSUME Inv, RootTask, [Next]_vars PROVE RootTask'
    OBVIOUS
  <2>1. CASE UNCHANGED vars
    BY <2>1 DEF vars, work, RootTask
  <2>2. ASSUME NEW w \in Workers, Scheduler(w) \/ User(w) \/ SpuriousWakeup(w) PROVE RootTask'
    BY <2>2, StepKeepsKinds, RootExists DEF KindsKept, RootTask
  <2> QED BY <2>1, <2>2 DEF Next, Terminated
<1> QED BY <1>1, <1>2, InvHolds, PTL DEF Spec

-----------------------------------------------------------------------------
(* A worker alone *)

\* The only worker awaits a future that nobody is going to compute: it is the
\* one state in which it sends requests, to itself, and it never leaves it.
Trapped == At(MASTER_ID) = "force2" /\ ~Ready(MASTER_ID)

DeepFrames == \A i \in 2 .. Len(stack[MASTER_ID]) : stack[MASTER_ID][i].at # "force2"

InSecondLoop ==
    \/ pc[MASTER_ID] \in {"recv", "resend", "ready"}
    \/ op[MASTER_ID] = "force" /\ pc[MASTER_ID] \in {"serve", "behalf"}

SoloOK ==
    /\ \A c \in Chans : ~Loaded(MASTER_ID, c)
    /\ pc[MASTER_ID] # "idle" /\ op[MASTER_ID] # "idle"
    /\ \/ pc[MASTER_ID] \in {"recv", "resend"} \/ op[MASTER_ID] = "force"
       \/ chan_requests[MASTER_ID] # <<>>
       => Trapped
    /\ At(MASTER_ID) = "force2" => InSecondLoop
    /\ DeepFrames

SoloInv == N = 1 /\ ~Exiting => SoloOK

\* There is nobody to keep lifelines for, or to answer for.
LEMMA SoloAlone ==
    ASSUME Inv, AllSettledOK, N = 1
    PROVE  /\ idle[MASTER_ID] = {} /\ pc[MASTER_ID] \notin Waiting
           /\ ~CanShare(MASTER_ID) \/ pc[MASTER_ID] = "signal"
           /\ pc[MASTER_ID] = "behalf" => todo[MASTER_ID] = {}
           /\ ~RecvFailed(MASTER_ID)
<1>1. MASTER_ID \in Workers /\ Children(MASTER_ID) = {} /\ SettledOK(MASTER_ID)
  BY Solo, MasterWorks DEF AllSettledOK
<1>2. idle[MASTER_ID] = {}
  BY <1>1, IdleSettled
<1>3. pc[MASTER_ID] \notin Waiting
  BY <1>1 DEF SettledOK, Sleeps
<1>4. ASSUME CanShare(MASTER_ID), pc[MASTER_ID] # "signal" PROVE FALSE
  <2>1. Lifelines(MASTER_ID) \in Seq(Request) /\ Lifelines(MASTER_ID) # <<>>
    BY <1>1, <1>4, LifelinesType DEF CanShare, Lifelines
  <2>2. PICK x : x = Head(Lifelines(MASTER_ID))
    OBVIOUS
  <2>3. x \in Request /\ Has(Lifelines(MASTER_ID), x)
    BY <2>1, <2>2, HeadHas, HeadTailProperties
  <2> QED BY <1>1, <2>3 DEF SettledOK, LifelinesOK
<1>5. pc[MASTER_ID] = "behalf" => todo[MASTER_ID] = {}
  BY <1>1, <1>2 DEF SettledOK, ScanOK, IdleSubtrees
<1>6. ASSUME RecvFailed(MASTER_ID) PROVE FALSE
  <2>1. chan_requests[MASTER_ID] \in Seq(Request) /\ chan_requests[MASTER_ID] # <<>>
    BY <1>1, <1>6 DEF RecvFailed, Inv, ProtocolOK
  <2>2. PICK x : x = Head(chan_requests[MASTER_ID])
    OBVIOUS
  <2>3. x \in Request /\ Has(chan_requests[MASTER_ID], x) /\ x.state = FAILED
    BY <1>6, <2>1, <2>2, HeadHas, HeadTailProperties DEF RecvFailed
  <2> QED BY <1>1, <2>3 DEF SettledOK, RequestsOK, RequestOK
<1> QED BY <1>2, <1>3, <1>4, <1>5, <1>6

\* The only worker handles its own request, and stays where it is.
LEMMA SoloRecv ==
    ASSUME Inv, AllHeld, AllAccounts, AllSettledOK, N = 1, op[MASTER_ID] = "force",
           RecvOwn(MASTER_ID)
    PROVE  UNCHANGED <<work, stack, op>> /\ pc'[MASTER_ID] = "serve"
<1>1. MASTER_ID \in Workers /\ Workers = {MASTER_ID}
  BY Solo
<1>2. PICK r, q : r \in Request /\ Dispatch(MASTER_ID, r, q) /\ Fate(MASTER_ID, r, q)
  <2>1. ~RecvBehalf(MASTER_ID)
    BY DEF RecvOwn, RecvBehalf
  <2> QED BY <1>1, <2>1, TakenUnsettled
<1>3. r.id = MASTER_ID
  BY <1>1, <1>2 DEF Request
<1>4. handle_steal_request(MASTER_ID, r, q, "serve")
  BY <1>2 DEF Dispatch
<1>5. UNCHANGED work
  <2>1. ASSUME decline_steal_request(MASTER_ID, r, q, "serve") PROVE UNCHANGED work
    BY <2>1 DEF decline_steal_request, PassOn, detect_termination, BackOff, Drop,
       Recirculate, FORGET_REQ
  <2> QED BY <1>3, <1>4, <2>1 DEF handle_steal_request, FORGET_REQ
<1>6. UNCHANGED <<stack, op>> /\ (UNCHANGED pc \/ Goes(MASTER_ID, "serve")) /\ pc[MASTER_ID] = "serve"
  <2>1. pc[MASTER_ID] = "serve"
    BY DEF RecvOwn
  <2> QED BY <1>1, <2>1, RecvGoes
<1>7. pc'[MASTER_ID] \in {"serve", "waitpeek"}
  BY <1>1, <1>6 DEF Goes, Inv, ControlOK
<1>8. pc'[MASTER_ID] # "waitpeek"
  BY <1>2, <1>3 DEF Fate, Concluded, Forgotten, Passed, HandedUp, Discarded, Served
<1> QED BY <1>5, <1>6, <1>7, <1>8

LEMMA StepSolo ==
    ASSUME Inv, Inv', AllIdleInv, AllHeld, AllAccounts, AllSettledOK, AtOK(MASTER_ID), N = 1, SoloOK,
           ~Exiting, ~Exiting',
           Scheduler(MASTER_ID) \/ User(MASTER_ID) \/ SpuriousWakeup(MASTER_ID)
    PROVE  SoloOK'
<1> USE MasterWorks
<1> DEFINE M == MASTER_ID
<1>0. /\ idle[M] = {} /\ pc[M] \notin Waiting /\ pc[M] \notin ExitLabels
      /\ pc'[M] \notin ExitLabels
      /\ pc[M] # "signal" => ~CanShare(M)
      /\ pc[M] = "behalf" => todo[M] = {}
      /\ ~RecvFailed(M) /\ IdleInv(M) /\ ControlOK /\ pc \in [Workers -> Labels]
      /\ op \in [Workers -> {"push", "pop", "poll", "idle", "force", "loot"}]
      /\ stack[M] # <<>> /\ At(M) # "schedule"
  BY SoloAlone, AtTop DEF AllIdleInv, Exiting, ExitLabels, Inv, ControlOK, LocalInv, RootInv
<1>1. ASSUME Trapped, UNCHANGED <<chan_tasks, tasks, stack>>, op'[M] # "idle", InSecondLoop'
      PROVE  SoloOK'
  <2>1. Trapped' /\ DeepFrames' /\ pc'[M] # "idle"
    BY <1>1 DEF Trapped, At, Ready, SoloOK, DeepFrames, InSecondLoop
  <2> QED BY <1>1, <2>1 DEF SoloOK, Loaded
<1>2. ASSUME ~Trapped, UNCHANGED <<chan_tasks, chan_requests>>, pc'[M] \notin {"idle", "recv", "resend"},
             op'[M] \notin {"idle", "force"}, DeepFrames', At(M)' = "force2" => pc'[M] = "ready"
      PROVE  SoloOK'
  <2>1. chan_requests'[M] = <<>>
    BY <1>2 DEF SoloOK
  <2> QED BY <1>2, <2>1 DEF SoloOK, Loaded, InSecondLoop
<1>3. ASSUME UNCHANGED stack PROVE DeepFrames' /\ At(M)' = At(M)
  BY <1>3 DEF DeepFrames, At, SoloOK
<1>4. ASSUME NEW a, Reframed(M, a) PROVE DeepFrames' /\ At(M)' = a
  BY <1>4, AtMoves DEF Reframed, DeepFrames, SoloOK
<1>5. CASE Trapped
  <2>1. InSecondLoop /\ At(M) = "force2" /\ ~Ready(M) /\ Forcing(M)
    BY <1>5 DEF Trapped, SoloOK, Forcing
  <2>2. CASE RecvOwn(M)
    <3>1. op[M] = "force"
      BY <2>1, <2>2 DEF InSecondLoop, RecvOwn
    <3>2. UNCHANGED <<work, stack, op>> /\ pc'[M] = "serve"
      BY <2>2, <3>1, SoloRecv
    <3> QED BY <1>1, <1>5, <3>1, <3>2 DEF work, InSecondLoop
  <2>3. CASE NothingToRelay(M) \/ RecvNoTask(M) \/ Resend(M) \/ ForceNotReady(M)
    <3>1. UNCHANGED <<chan_tasks, tasks, stack>>
      BY <2>3 DEF NothingToRelay, RecvNoTask, Resend, ForceNotReady, work, control
    <3>2. op'[M] # "idle" /\ InSecondLoop'
      BY <1>0, <2>1, <2>3 DEF NothingToRelay, RecvNoTask, Resend, ForceNotReady, control, InSecondLoop,
         Goto, SoloOK, IdleInv, ForceInv
    <3> QED BY <1>1, <1>5, <3>1, <3>2
  <2>4. pc[M] \in {"recv", "resend", "ready", "serve", "behalf"}
        /\ (pc[M] \in {"serve", "behalf"} => op[M] = "force")
    BY <2>1 DEF InSecondLoop
  <2>5. ~(RecvTask(M) \/ StartBehalf(M) \/ RecvBehalf(M) \/ ForceReady(M))
    BY <1>0, <2>1 DEF RecvTask, SoloOK, Loaded, StartBehalf, RecvBehalf, ForceReady
  <2>6. ~(RunPopped(M) \/ PopFailed(M) \/ ReturnToBody(M))
    BY <2>4 DEF RunPopped, PopFailed, ReturnToBody, NoRequest
  <2>7. ~(\/ ShareSend(M) \/ ShareSignal(M) \/ ShareDone(M) \/ ShareDoneRun(M)
          \/ RT_pop(M) \/ BeginSteal(M) \/ WaitPeek(M) \/ Sleep(M) \/ Wake(M) \/ BarrierReturn(M)
          \/ ShareDoneExit(M) \/ NotifyExit(M) \/ SignalExit(M) \/ ExitDone(M)
          \/ User(M) \/ SpuriousWakeup(M))
    BY <2>4 DEF ShareSend, ShareSignal, ShareDone, ShareDoneRun,
          RT_pop, BeginSteal, WaitPeek, Sleep, Wake, BarrierReturn,
          ShareDoneExit, NotifyExit, SignalExit, ExitDone, SpuriousWakeup,
          User, RT_push, RT_force_future, RT_poll, EndIteration, TaskReturn, RT_barrier
  <2> QED BY <1>0, <2>2, <2>3, <2>5, <2>6, <2>7 DEF Scheduler
<1>6. CASE ~Trapped
  <2>1. /\ pc[M] \notin {"recv", "resend", "idle"} /\ op[M] \notin {"force", "idle"}
        /\ chan_requests[M] = <<>>
        /\ At(M) = "force2" => pc[M] = "ready" /\ Ready(M)
    BY <1>6 DEF SoloOK, Trapped, InSecondLoop
  <2>2. CASE \/ StartBehalf(M) \/ ShareSignal(M) \/ ShareDone(M) \/ ReturnToBody(M)
             \/ RT_poll(M) \/ EndIteration(M) \/ RT_push(M) \/ RT_pop(M)
    <3>1. UNCHANGED <<chan_tasks, chan_requests, stack>>
      <4>1. CASE RT_pop(M)
        BY <4>1, ~(N > 1) DEF RT_pop
      <4>2. CASE RT_push(M)
        BY <4>2 DEF RT_push
      <4>3. CASE StartBehalf(M) \/ ShareSignal(M) \/ ShareDone(M) \/ ReturnToBody(M)
                 \/ RT_poll(M) \/ EndIteration(M)
        BY <4>3 DEF StartBehalf, ShareSignal, ShareDone, ReturnToBody, RT_poll, EndIteration,
           protocol, work, control
      <4> QED BY <2>2, <4>1, <4>2, <4>3
    <3>2. pc[M] # "ready" /\ pc'[M] \notin {"idle", "recv", "resend"} /\ op'[M] \notin {"idle", "force"}
      BY <1>0, <2>1, <2>2 DEF StartBehalf, ShareSignal, ShareDone, ReturnToBody, RT_poll, EndIteration,
         RT_push, RT_pop, control, NoRequest, Goto, SIGNAL, Woken
    <3> QED BY <1>2, <1>3, <1>6, <2>1, <3>1, <3>2
  <2>3. CASE PopFailed(M)
    <3>1. /\ UNCHANGED <<chan_tasks, chan_requests, op>> /\ pc[M] # "ready" /\ op[M] = "pop"
          /\ pc'[M] = IF NothingLeft(M) THEN "leave" ELSE IF Forcing(M) THEN "ready" ELSE "idle"
      BY <1>0, <2>3 DEF PopFailed, NoRequest, Goto, work
    <3>2. CASE Forcing(M)
      <4>1. ~NothingLeft(M) /\ Reframed(M, "force2")
        BY <2>3, <3>2, Reframes DEF Forcing, NothingLeft
      <4>2. pc'[M] = "ready" /\ DeepFrames'
        BY <1>4, <3>1, <3>2, <4>1
      <4>3. op'[M] = "pop"
        BY <3>1
      <4> QED BY <1>2, <1>6, <3>1, <4>2, <4>3
    <3>3. CASE ~Forcing(M)
      <4>1. At(M) # "body"
        BY <2>3, <3>1 DEF AtOK, InRuntime, PopFailed, NoRequest
      <4>2. At(M) = "barrier"
        BY <1>0, <3>3, <4>1, AtTop DEF Forcing, Inv
      <4>3. pc'[M] = "leave" /\ UNCHANGED stack
        BY <2>3, <3>1, <3>3, <4>2, Reframes DEF NothingLeft
      <4>4. op'[M] = "pop" /\ At(M)' # "force2" /\ DeepFrames'
        BY <1>3, <3>1, <4>2, <4>3
      <4> QED BY <1>2, <1>6, <3>1, <4>3, <4>4
    <3> QED BY <3>2, <3>3
  <2>4. CASE ForceReady(M) \/ RT_force_future(M) \/ RT_barrier(M) \/ BarrierReturn(M)
    <3>1. DeepFrames' /\ At(M)' \in {"body", "force1", "barrier"}
      BY <1>4, <2>4, Reframes
    <3>2. UNCHANGED <<chan_tasks, chan_requests, op>> /\ pc'[M] \notin {"idle", "recv", "resend"}
      BY <1>0, <2>4 DEF ForceReady, RT_force_future, RT_barrier, BarrierReturn, Goto, work, protocol
    <3> QED BY <1>2, <1>6, <2>1, <3>1, <3>2
  <2>5. CASE ShareDoneRun(M) \/ RunPopped(M)
    <3>1. Called(M) /\ pc[M] # "ready"
      BY <2>5, Calls DEF ShareDoneRun, RunPopped, NoRequest
    <3>2. At(M)' = "body"
      BY <3>1, AtMoves
    <3>3. DeepFrames'
      <4> SUFFICES ASSUME NEW i \in 2 .. Len(stack'[M]) PROVE stack'[M][i].at # "force2"
        BY DEF DeepFrames
      <4>1. i \in 2 .. Len(stack[M]) + 1 /\ (i - 1 = 1 \/ i - 1 \in 2 .. Len(stack[M]))
        BY <3>1 DEF Called
      <4>2. stack'[M][i] = stack[M][i - 1]
        BY <3>1, <4>1 DEF Called
      <4>3. stack[M][1].at # "force2"
        BY <1>0, <2>1, <3>1, AtTop DEF Inv
      <4> QED BY <4>1, <4>2, <4>3 DEF SoloOK, DeepFrames
    <3>4. UNCHANGED <<chan_tasks, chan_requests, op>> /\ pc'[M] = "body"
      BY <1>0, <2>5 DEF ShareDoneRun, RunPopped, Goto, protocol
    <3> QED BY <1>2, <1>6, <2>1, <3>2, <3>3, <3>4
  <2>6. CASE TaskReturn(M)
    <3>1. Ended(M)
      BY <2>6, Calls
    <3>2. DeepFrames'
      <4> SUFFICES ASSUME NEW i \in 2 .. Len(stack'[M]) PROVE stack'[M][i].at # "force2"
        BY DEF DeepFrames
      <4>1. i \in 1 .. Len(stack[M]) - 1 /\ i + 1 \in 2 .. Len(stack[M])
        BY <3>1 DEF Ended
      <4>2. stack'[M][i] = stack[M][i + 1]
        BY <3>1, <4>1 DEF Ended
      <4> QED BY <4>1, <4>2 DEF SoloOK, DeepFrames
    <3>3. At(M)' # "force2"
      <4>1. At(M)' = IF Len(stack[M]) = 1 THEN "schedule" ELSE stack[M][2].at
        BY <3>1, AtMoves
      <4>2. \A n \in Nat \ {0} : n # 1 => 2 \in 2 .. n
        OBVIOUS
      <4>3. Len(stack[M]) # 1 => 2 \in 2 .. Len(stack[M])
        BY <3>1, <4>2 DEF Ended
      <4> QED BY <4>1, <4>3 DEF SoloOK, DeepFrames
    <3>4. /\ UNCHANGED <<chan_tasks, chan_requests>> /\ pc'[M] \notin {"idle", "recv", "resend"}
          /\ op'[M] = "loot"
      BY <1>0, <2>6 DEF TaskReturn, Goto, protocol
    <3> QED BY <1>2, <1>6, <3>2, <3>3, <3>4
  <2>7. ~(\/ RecvOwn(M) \/ RecvBehalf(M) \/ ShareSend(M) \/ BeginSteal(M) \/ RecvTask(M)
          \/ RecvNoTask(M) \/ Resend(M) \/ NothingToRelay(M))
    BY <1>0, <2>1 DEF RecvOwn, RecvBehalf, ShareSend, BeginSteal, RecvTask, RecvNoTask, Resend,
       NothingToRelay
  <2>8. CASE ForceNotReady(M)
    <3>1. pc[M] = "ready" /\ ~Ready(M)
      BY <2>8 DEF ForceNotReady
    <3>2. At(M) = "force1"
      BY <1>0, <2>1, <3>1 DEF IdleInv, ForceInv, Forcing
    <3>3. UNCHANGED <<chan_tasks, chan_requests, stack, op>> /\ pc'[M] = "pop"
      BY <1>0, <2>8, <3>2 DEF ForceNotReady, Goto, control, work
    <3> QED BY <1>2, <1>3, <1>6, <2>1, <3>2, <3>3
  <2>9. ~(WaitPeek(M) \/ Sleep(M) \/ Wake(M) \/ SpuriousWakeup(M)
          \/ ShareDoneExit(M) \/ NotifyExit(M) \/ SignalExit(M) \/ ExitDone(M))
    BY <1>0 DEF WaitPeek, Sleep, Wake, SpuriousWakeup, ShareDoneExit, NotifyExit, SignalExit, ExitDone,
       Waiting, ExitLabels, Goto, Inv, ControlOK
  <2> QED BY <1>0, <2>2, <2>3, <2>4, <2>5, <2>6, <2>7, <2>8, <2>9 DEF Scheduler, User
<1> QED BY <1>5, <1>6

LEMMA InitSolo == Init => SoloInv
<1> SUFFICES ASSUME Init, N = 1 PROVE SoloOK
  BY DEF SoloInv
<1>1. /\ MASTER_ID \in Workers /\ pc[MASTER_ID] = "body" /\ op[MASTER_ID] = "pop"
      /\ chan_requests[MASTER_ID] = <<>>
      /\ stack[MASTER_ID] = <<[task |-> Root, at |-> "body", fut |-> NoTask]>>
      /\ \A c \in Chans : ~Loaded(MASTER_ID, c)
  BY MasterWorks DEF Init, Loaded
<1>2. At(MASTER_ID) = "body" /\ DeepFrames
  BY <1>1 DEF At, DeepFrames
<1> QED BY <1>1, <1>2 DEF SoloOK

LEMMA NextSolo ==
    Inv /\ Inv' /\ AllIdleInv /\ TokenInv /\ AccountInv /\ FrameInv /\ SettledInv /\ SoloInv /\ [Next]_vars
        => SoloInv'
<1> SUFFICES ASSUME Inv, Inv', AllIdleInv, TokenInv, AccountInv, FrameInv, SettledInv, SoloInv, [Next]_vars,
                    N = 1, ~Exiting'
             PROVE  SoloOK'
  BY DEF SoloInv
<1>1. ASSUME NEW w \in Workers, Scheduler(w) \/ User(w) \/ SpuriousWakeup(w) PROVE SoloOK'
  <2>1. ~Exiting /\ w = MASTER_ID
    BY <1>1, ExitIsFinal, Solo
  <2> QED BY <1>1, <2>1, StepSolo, MasterWorks DEF TokenInv, AccountInv, FrameInv, SettledInv, SoloInv
<1>2. CASE UNCHANGED vars
  BY <1>2 DEF vars, protocol, control, work, Exiting, SoloInv, SoloOK, Loaded, Trapped, Ready, At,
     InSecondLoop, DeepFrames
<1> QED BY <1>1, <1>2 DEF Next, Terminated

\* A worker that is alone sends requests only once it is stuck in AWAIT.
THEOREM SoloInvHolds == Spec => []SoloInv
<1>1. Init => SoloInv
  BY InitSolo
<1>2. Inv /\ Inv' /\ AllIdleInv /\ TokenInv /\ AccountInv /\ FrameInv /\ SettledInv /\ SoloInv /\ [Next]_vars
        => SoloInv'
  BY NextSolo
<1> QED BY <1>1, <1>2, InvHolds, IdleInvHolds, TokenInvHolds, AccountInvHolds, FrameInvHolds,
           SettledInvHolds, PTL DEF Spec

-----------------------------------------------------------------------------
(* Termination *)

\* Nothing is left to do but for the root task.
AllDone == \A t \in TaskIds : t # Root => tasks[t].status = "done"

\* Worker w has no tasks, and there is no request for it to look at.
Calm(w) ==
    /\ chan_requests[w] = <<>> /\ deque[w] = <<>> /\ hand[w] = NoTask
    /\ \A c \in Chans : ~Loaded(w, c)

\* If the master's children have backed off, everybody has.
LEMMA OthersSettled ==
    ASSUME Inv, AllSettledOK, idle[MASTER_ID] = Children(MASTER_ID)
    PROVE  \A v \in Workers : v # MASTER_ID => Settled(v)
<1>1. PICK S : S = {v \in Workers : v # MASTER_ID /\ ~Settled(v)}
  OBVIOUS
<1>2. CASE S = {}
  BY <1>1, <1>2
<1>3. CASE S # {}
  <2>1. S \in SUBSET Nat
    BY <1>1, NAssumption DEF Workers
  <2>2. PICK v : v = Minimum(S)
    OBVIOUS
  <2>3. v \in S /\ \A y \in S : v <= y
    BY <1>3, <2>1, <2>2, MinimumIsElement
  <2>4. v \in Workers /\ v # MASTER_ID /\ ~Settled(v)
    BY <1>1, <2>3
  <2>5. PICK u \in Workers : u = parent(v) /\ v \in Children(u) /\ u < v
    BY <2>4, ParentFirst
  <2>6. u \notin S
    BY <2>1, <2>3, <2>5 DEF Workers
  <2>7. u = MASTER_ID \/ Settled(u)
    BY <1>1, <2>6
  <2>8. idle[u] = Children(u)
    BY <2>7 DEF AllSettledOK, SettledOK, LastToLeave
  <2> QED BY <2>4, <2>5, <2>8, IdleSettled
<1> QED BY <1>2, <1>3

\* A request under way would be a settled worker's, or the master's.
LEMMA NoneUnderway ==
    ASSUME Inv, AllHeld, AllAccounts, AllSettledOK, idle[MASTER_ID] = Children(MASTER_ID),
           NEW v \in Workers, NEW x \in Request, Has(chan_requests[v], x)
    PROVE  x.id = MASTER_ID
<1> SUFFICES ASSUME x.id # MASTER_ID PROVE FALSE
  OBVIOUS
<1>1. x.id \in Workers /\ Settled(x.id)
  BY OthersSettled DEF Request
<1>2. x.id \in Children(v)
  BY <1>1 DEF AllSettledOK, SettledOK, RequestsOK, RequestOK
<1>3. idle[v] = Children(v)
  BY OthersSettled DEF AllSettledOK, SettledOK, LastToLeave
<1>4. PICK y \in Request : Has(Lifelines(v), y) /\ y.id = x.id
  BY <1>1, <1>2, <1>3 DEF AllSettledOK, SettledOK, FlagsOK
<1> QED BY <1>1, <1>4, NotBoth DEF Settled, Inv

\* Without tasks anywhere, there is only the root task, in its barrier.
LEMMA NothingToDo ==
    ASSUME Inv, AllPlaced, AllRan, FramesOK(MASTER_ID), At(MASTER_ID) = "barrier",
           \A v \in Workers : /\ deque[v] = <<>> /\ hand[v] = NoTask
                              /\ \A c \in Chans : ~Loaded(v, c),
           \A v \in Workers : v # MASTER_ID => stack[v] = <<>>
    PROVE  AllDone /\ Len(stack[MASTER_ID]) = 1
<1> USE MasterWorks
<1>1. stack[MASTER_ID] # <<>> /\ Len(stack[MASTER_ID]) \in Nat \ {0} /\ stack[MASTER_ID][1].at = "barrier"
  BY AtTop DEF Inv
<1>2. 1 \in 1 .. Len(stack[MASTER_ID])
  BY <1>1
<1>3. Len(stack[MASTER_ID]) = 1 /\ stack[MASTER_ID][1].task = Root
  BY <1>1, <1>2 DEF FramesOK
<1>4. \A t \in TaskIds : ~Somewhere(t)
  BY EmptyHas DEF Somewhere, InDeque, InHand, InChannel, Loaded, TaskIds, NoTask
<1>5. \A t : Stacked(t) => t = Root
  <2> SUFFICES ASSUME NEW v \in Workers, NEW i \in 1 .. Len(stack[v]) PROVE stack[v][i].task = Root
    BY DEF Stacked
  <2>1. v = MASTER_ID
    BY AtTop DEF Inv
  <2> QED BY <1>3, <2>1
<1>6. \A t \in TaskIds : tasks[t].status \in {"ready", "running", "done"}
  BY TaskType DEF Inv, TaskRecord
<1> QED BY <1>3, <1>4, <1>5, <1>6 DEF AllDone, AllPlaced, Placed, AllRan, Ran

\* Where the master may be while it knows that there is nothing to do: its root
\* task runs, finds nothing to pop, and need not wait for any future.
MasterQuiet ==
    /\ Len(stack[MASTER_ID]) = 1
    /\ pc[MASTER_ID] \in {"leave", "body", "pop", "share", "serve", "behalf", "ready"}
    /\ pc[MASTER_ID] \in {"share", "serve", "behalf"} => op[MASTER_ID] \in {"pop", "poll"}
    /\ \/ pc[MASTER_ID] = "pop"
       \/ op[MASTER_ID] = "pop" /\ pc[MASTER_ID] \in {"share", "serve", "behalf"}
       => At(MASTER_ID) = "barrier"
    /\ pc[MASTER_ID] = "ready" => Ready(MASTER_ID)

QuietOK ==
    /\ AllDone /\ idle[MASTER_ID] = Children(MASTER_ID)
    /\ \A w \in Workers : Calm(w)
    /\ \A w \in Workers : w # MASTER_ID => Settled(w)
    /\ MasterQuiet

QuietInv == quiescent /\ ~Exiting => QuietOK

\* A worker in WAIT leaves it only by way of its task channels.
LEMMA WaitingSteps ==
    ASSUME NEW w \in Workers, pc[w] \in Waiting, Scheduler(w) \/ User(w) \/ SpuriousWakeup(w)
    PROVE  WaitPeek(w) \/ Sleep(w) \/ Wake(w) \/ SpuriousWakeup(w)
<1>1. pc[w] \in {"waitpeek", "presleep", "asleep", "woken"}
  BY DEF Waiting
<1>2. ~User(w)
  BY <1>1 DEF User, RT_push, RT_force_future, RT_poll, EndIteration, TaskReturn, RT_barrier
<1>3. ~(\/ RecvFailed(w) \/ RecvOwn(w) \/ StartBehalf(w) \/ RecvBehalf(w)
        \/ ShareSend(w) \/ ShareSignal(w) \/ ShareDone(w) \/ ShareDoneRun(w)
        \/ RT_pop(w) \/ RunPopped(w) \/ PopFailed(w) \/ ReturnToBody(w)
        \/ BeginSteal(w) \/ RecvTask(w) \/ RecvNoTask(w) \/ Resend(w)
        \/ NothingToRelay(w) \/ ForceReady(w) \/ ForceNotReady(w)
        \/ BarrierReturn(w)
        \/ ShareDoneExit(w) \/ NotifyExit(w) \/ SignalExit(w) \/ ExitDone(w))
  BY <1>1 DEF RecvFailed, RecvOwn, StartBehalf, RecvBehalf,
        ShareSend, ShareSignal, ShareDone, ShareDoneRun,
        RT_pop, RunPopped, PopFailed, ReturnToBody, NoRequest,
        BeginSteal, RecvTask, RecvNoTask, Resend,
        NothingToRelay, ForceReady, ForceNotReady,
        BarrierReturn,
        ShareDoneExit, NotifyExit, SignalExit, ExitDone
<1> QED BY <1>2, <1>3 DEF Scheduler

LEMMA OthersStayQuiet ==
    ASSUME Inv, QuietOK, NEW w \in Workers, w # MASTER_ID,
           Scheduler(w) \/ User(w) \/ SpuriousWakeup(w)
    PROVE  QuietOK'
<1> USE MasterWorks
<1>1. pc[w] \in Waiting
  BY DEF QuietOK, Settled
<1>2. WaitPeek(w) \/ Sleep(w) \/ Wake(w) \/ SpuriousWakeup(w)
  BY <1>1, WaitingSteps
<1>3. UNCHANGED <<protocol, work, lifeline, control>> /\ pc'[MASTER_ID] = pc[MASTER_ID]
  BY <1>2 DEF WaitPeek, Sleep, Wake, SpuriousWakeup, Goto, Inv, ControlOK
<1>4. \A v \in Workers : Settled(v)' <=> Settled(v)
  BY <1>2, QuietSettled DEF Quiet
<1>5. AllDone' /\ MasterQuiet' /\ \A v \in Workers : Calm(v)'
  BY <1>3 DEF QuietOK, AllDone, TaskIds, MasterQuiet, At, Ready, Calm, Loaded, protocol, work, control
<1> QED BY <1>3, <1>4, <1>5 DEF QuietOK, lifeline

\* The root task is the innermost one, finds no tasks and splits no loop.
LEMMA QuietRoot ==
    ASSUME Inv, RootTask, QuietOK
    PROVE  /\ Current(MASTER_ID) = Root /\ ~SPLITTABLE(Root)
           /\ ~CanShare(MASTER_ID) /\ ~CanPop(MASTER_ID)
           /\ At(MASTER_ID) \in {"body", "barrier", "force1", "force2"}
           /\ \A f \in Unjoined(Root) : tasks[f].status = "done"
<1> USE MasterWorks
<1>1. Len(stack[MASTER_ID]) = 1 /\ stack[MASTER_ID] # <<>> /\ stack[MASTER_ID][1].task = Root
  BY DEF QuietOK, MasterQuiet, Inv, LocalInv, RootInv
<1>2. Current(MASTER_ID) = Root /\ At(MASTER_ID) \in {"body", "barrier", "force1", "force2"}
  BY <1>1, AtTop DEF Inv
<1>3. ~SPLITTABLE(Root)
  BY DEF SPLITTABLE, IterationsLeft, RootTask
<1>4. deque[MASTER_ID] = <<>>
  BY DEF QuietOK, Calm
<1>5. \A f \in Unjoined(Root) : tasks[f].status = "done"
  BY DEF Unjoined, RootTask, QuietOK, AllDone, TaskIds, Root, NoTask
<1> QED BY <1>2, <1>3, <1>4, <1>5 DEF CanShare, CanPop

LEMMA MasterStaysQuiet ==
    ASSUME Inv, Inv', RootTask, AllSettledOK, QuietOK, FramesOK(MASTER_ID), AtOK(MASTER_ID), quiescent,
           Scheduler(MASTER_ID) \/ User(MASTER_ID) \/ SpuriousWakeup(MASTER_ID),
           ~Exiting, ~Exiting', quiescent'
    PROVE  QuietOK'
<1> USE MasterWorks
<1> DEFINE M == MASTER_ID
<1>1. /\ Current(M) = Root /\ ~SPLITTABLE(Root) /\ ~CanShare(M) /\ ~CanPop(M)
      /\ At(M) \in {"body", "barrier", "force1", "force2"}
      /\ \A f \in Unjoined(Root) : tasks[f].status = "done"
      /\ Calm(M) /\ ControlOK /\ pc \in [Workers -> Labels] /\ ~tasks[Root].splittable
      /\ op \in [Workers -> {"push", "pop", "poll", "idle", "force", "loot"}]
      /\ pc'[M] \notin ExitLabels
      /\ pc[M] \in {"leave", "body", "pop", "share", "serve", "behalf", "ready"}
      /\ pc[M] \in {"share", "serve", "behalf"} => op[M] \in {"pop", "poll"}
  BY QuietRoot DEF QuietOK, MasterQuiet, Inv, ControlOK, RootTask, Exiting, ExitLabels
<1>2. ASSUME UNCHANGED <<chan_requests, chan_tasks, waiting, deque, hand, idle>>,
             TaskIds' = TaskIds, \A t \in TaskIds : tasks'[t].status = tasks[t].status,
             MovesAlone(M), MasterQuiet'
      PROVE  QuietOK'
  <2>1. AllDone' /\ \A v \in Workers : Calm(v)'
    BY <1>2 DEF QuietOK, AllDone, Calm, Loaded
  <2>2. \A v \in Workers : v # M => Settled(v)'
    BY <1>2 DEF QuietOK, Settled, Loaded, MovesAlone, Waiting
  <2> QED BY <1>2, <2>1, <2>2 DEF QuietOK
<1>3. MovesAlone(M)
  BY StepPrivate
<1>4. ASSUME UNCHANGED <<stack, tasks>>
      PROVE  /\ TaskIds' = TaskIds /\ \A t \in TaskIds : tasks'[t].status = tasks[t].status
             /\ At(M)' = At(M) /\ (Ready(M)' <=> Ready(M)) /\ Len(stack'[M]) = 1
  BY <1>4 DEF TaskIds, At, Ready, QuietOK, MasterQuiet
<1>5. CASE StartBehalf(M) \/ ShareDone(M) \/ ReturnToBody(M) \/ RT_poll(M) \/ RT_pop(M)
  <2>1. UNCHANGED <<stack, tasks, chan_requests, chan_tasks, waiting, idle>>
    BY <1>1, <1>5 DEF StartBehalf, ShareDone, ReturnToBody, RT_poll, RT_pop, protocol, work, control, lifeline
  <2>2. UNCHANGED <<deque, hand>>
    BY <1>1, <1>5 DEF StartBehalf, ShareDone, ReturnToBody, RT_poll, RT_pop, work, control, Calm, Inv,
       RunOK, WorkOK
  <2>3. MasterQuiet'
    BY <1>1, <1>4, <1>5, <2>1 DEF StartBehalf, ShareDone, ReturnToBody, RT_poll, RT_pop, control,
       NoRequest, Goto, MasterQuiet, QuietOK
  <2> QED BY <1>2, <1>3, <1>4, <2>1, <2>2, <2>3
<1>6. CASE RecvBehalf(M)
  <2>1. UNCHANGED <<protocol, work, pc, lifeline, hand, stack, op>>
    <3>1. PICK c : c = NextInScan(M)
      OBVIOUS
    <3>2. c \in todo[M] /\ todo[M] \subseteq Workers
      <4>1. todo[M] # {} /\ todo[M] \subseteq Nat /\ todo[M] \subseteq Workers
        BY <1>6, NAssumption DEF RecvBehalf, Workers, Inv, ControlOK
      <4>2. \A S : S \subseteq todo[M] /\ S # {} => Minimum(S) \in todo[M]
        BY <4>1, MinimumIsElement
      <4>3. Minimum(todo[M]) \in todo[M]
        BY <4>1, MinimumIsElement
      <4> QED BY <3>1, <4>1, <4>2, <4>3 DEF NextInScan
    <3>3. chan_requests[c] = <<>>
      BY <3>2 DEF QuietOK, Calm
    <3> QED BY <1>6, <3>1, <3>3 DEF RecvBehalf
  <2>2. MasterQuiet'
    BY <2>1, <1>4 DEF MasterQuiet, QuietOK, work
  <2> QED BY <1>2, <1>3, <1>4, <2>1, <2>2 DEF protocol, work, lifeline
<1>7. CASE PopFailed(M)
  <2>1. /\ op[M] = "pop" /\ pc[M] \in {"serve", "behalf"}
        /\ UNCHANGED <<tasks, chan_requests, chan_tasks, waiting, idle, deque, hand>>
    BY <1>7 DEF PopFailed, NoRequest, work, lifeline
  <2>2. At(M) = "barrier" /\ ~Forcing(M) /\ NothingLeft(M)
    BY <2>1 DEF QuietOK, MasterQuiet, Forcing, NothingLeft
  <2>3. UNCHANGED stack /\ pc'[M] = "leave"
    BY <1>1, <1>7, <2>2 DEF PopFailed, Goto
  <2> QED BY <1>2, <1>3, <1>4, <2>1, <2>3 DEF MasterQuiet
<1>8. CASE ForceReady(M) \/ RT_force_future(M) \/ RT_barrier(M) \/ BarrierReturn(M)
  <2>1. UNCHANGED <<chan_requests, chan_tasks, waiting, idle, deque, hand>>
    BY <1>8 DEF ForceReady, RT_force_future, RT_barrier, BarrierReturn, protocol, work, lifeline
  <2>2. TaskIds' = TaskIds /\ \A t \in TaskIds : tasks'[t].status = tasks[t].status
    <3>1. CASE ForceReady(M)
      <4>1. PICK t : t = Head(stack[M]).fut
        OBVIOUS
      <4>2. PICK rec : rec = [tasks[t] EXCEPT !.joined = TRUE]
        OBVIOUS
      <4>3. tasks' = [tasks EXCEPT ![t] = rec]
        BY <3>1, <4>1, <4>2 DEF ForceReady
      <4>4. CASE t \in TaskIds
        <5>1. rec.status = tasks[t].status
          BY <4>2, <4>4, TaskType DEF Inv, TaskRecord
        <5> QED BY <4>3, <4>4, <5>1, TaskUpdated DEF Inv
      <4>5. CASE t \notin TaskIds
        <5>1. tasks \in [TaskIds -> TaskRecord]
          BY LenProperties DEF Inv, WorkOK, TaskIds
        <5>2. tasks' = tasks
          BY <4>3, <4>5, <5>1
        <5> QED BY <5>2 DEF TaskIds
      <4> QED BY <4>4, <4>5
    <3>2. CASE ~ForceReady(M)
      BY <1>8, <3>2 DEF RT_force_future, RT_barrier, BarrierReturn, work, TaskIds
    <3> QED BY <3>1, <3>2
  <2>3. Len(stack'[M]) = 1
    BY <1>8, Reframes DEF Reframed, QuietOK, MasterQuiet
  <2>4. CASE ForceReady(M) \/ BarrierReturn(M)
    <3>1. pc'[M] = "body"
      BY <1>1, <2>4 DEF ForceReady, BarrierReturn, Goto, ExitLabels
    <3> QED BY <1>2, <1>3, <2>1, <2>2, <2>3, <3>1 DEF MasterQuiet
  <2>5. CASE RT_barrier(M)
    <3>1. pc'[M] = "pop" /\ At(M)' = "barrier"
      BY <1>1, <2>5, Reframes, AtMoves DEF RT_barrier, Goto
    <3> QED BY <1>2, <1>3, <2>1, <2>2, <2>3, <3>1 DEF MasterQuiet
  <2>6. CASE RT_force_future(M)
    <3>1. pc'[M] = "ready" /\ UNCHANGED tasks
      BY <1>1, <2>6 DEF RT_force_future, Goto, work
    <3>2. PICK f \in Unjoined(Root) : stack' = [stack EXCEPT ![M][1].at = "force1", ![M][1].fut = f]
      BY <1>1, <2>6 DEF RT_force_future
    <3>3. Head(stack'[M]).fut = f
      <4>1. stack[M] \in Seq(Frame) /\ stack[M] # <<>> /\ Len(stack[M]) = 1
        BY DEF Inv, RunOK, LocalInv, RootInv, QuietOK, MasterQuiet
      <4>2. stack[M][1] \in Frame /\ 1 \in DOMAIN stack[M]
        BY <4>1, TopType DEF Inv
      <4>3. stack'[M][1].fut = f
        BY <3>2, <4>1, <4>2 DEF Inv, RunOK, Frame
      <4>4. stack'[M] \in Seq(Frame)
        BY DEF Inv, RunOK
      <4>5. PICK s : s = stack'[M]
        OBVIOUS
      <4>6. s \in Seq(Frame) /\ Len(s) = 1
        BY <2>3, <4>4, <4>5
      <4>7. s # <<>>
        BY ONLY <4>6, EmptySeq
      <4>8. stack'[M] # <<>>
        BY <4>5, <4>7
      <4> QED BY <4>3, <4>8, <4>4, HeadTailProperties
    <3>4. Ready(M)'
      BY <1>1, <3>1, <3>2, <3>3 DEF Ready
    <3> QED BY <1>2, <1>3, <2>1, <2>2, <2>3, <3>1, <3>4 DEF MasterQuiet
  <2> QED BY <1>8, <2>4, <2>5, <2>6
<1>9. ~(\/ RecvFailed(M) \/ RecvOwn(M) \/ ShareSend(M) \/ ShareSignal(M) \/ ShareDoneRun(M)
        \/ BeginSteal(M) \/ RecvTask(M) \/ RecvNoTask(M) \/ Resend(M)
        \/ ShareDoneExit(M) \/ NotifyExit(M) \/ SignalExit(M) \/ ExitDone(M)
        \/ WaitPeek(M) \/ Sleep(M) \/ Wake(M) \/ SpuriousWakeup(M))
  BY <1>1 DEF RecvFailed, RecvOwn, ShareSend, ShareSignal, ShareDoneRun, Calm,
        BeginSteal, RecvTask, RecvNoTask, Resend,
        ShareDoneExit, NotifyExit, SignalExit, ExitDone, WaitPeek, Sleep, Wake, SpuriousWakeup
<1>10. ~(RunPopped(M) \/ NothingToRelay(M) \/ ForceNotReady(M))
  BY <1>1 DEF RunPopped, NothingToRelay, ForceNotReady, NoRequest, Calm, QuietOK, MasterQuiet
<1>11. ~(RT_push(M) \/ EndIteration(M) \/ TaskReturn(M))
  BY <1>1 DEF RT_push, EndIteration, TaskReturn
<1> QED BY <1>5, <1>6, <1>7, <1>8, <1>9, <1>10, <1>11 DEF Scheduler, User

\* Who may set the flag
LEMMA BecomesQuiescent ==
    ASSUME Inv, NEW w \in Workers, Scheduler(w) \/ User(w) \/ SpuriousWakeup(w),
           ~quiescent, quiescent', ~(RecvOwn(w) \/ RecvBehalf(w))
    PROVE  PopFailed(w) /\ NothingLeft(w) /\ N = 1
<1>1. CASE PopFailed(w)
  BY <1>1 DEF PopFailed, NothingLeft
<1>2. CASE \/ RecvFailed(w) \/ StartBehalf(w)
           \/ ShareSend(w) \/ ShareSignal(w) \/ ShareDone(w) \/ ShareDoneRun(w)
           \/ RT_pop(w) \/ RunPopped(w) \/ ReturnToBody(w)
           \/ BeginSteal(w) \/ RecvTask(w) \/ RecvNoTask(w) \/ Resend(w)
           \/ NothingToRelay(w) \/ ForceReady(w) \/ ForceNotReady(w)
  BY <1>2 DEF RecvFailed, StartBehalf, ShareSend, ShareSignal, ShareDone, ShareDoneRun,
           RT_pop, RunPopped, ReturnToBody, BeginSteal, RecvTask, RecvNoTask, Resend,
           NothingToRelay, ForceReady, ForceNotReady, protocol
<1>3. CASE \/ WaitPeek(w) \/ Sleep(w) \/ Wake(w) \/ SpuriousWakeup(w) \/ BarrierReturn(w)
           \/ ShareDoneExit(w) \/ NotifyExit(w) \/ SignalExit(w) \/ ExitDone(w)
  BY <1>3 DEF WaitPeek, Sleep, Wake, SpuriousWakeup, BarrierReturn,
           ShareDoneExit, NotifyExit, SignalExit, ExitDone, protocol
<1>4. CASE User(w)
  BY <1>4 DEF User, RT_push, RT_force_future, RT_poll, EndIteration, TaskReturn, RT_barrier, protocol
<1> QED BY <1>1, <1>2, <1>3, <1>4 DEF Scheduler

\* Declining a request leaves the tasks where they are.
LEMMA DeclineKeepsWork ==
    ASSUME NEW w, NEW r, NEW q, NEW next, decline_steal_request(w, r, q, next)
    PROVE  UNCHANGED work
BY DEF decline_steal_request, PassOn, detect_termination, BackOff, Drop, Recirculate, FORGET_REQ

\* Everything that has been proved about a running system
Underlying ==
    /\ Inv /\ AllIdleInv /\ AllHeld /\ AllAccounts /\ AllBusy /\ AllSettledOK
    /\ AllPlaced /\ AllRan /\ RootTask
    /\ \A w \in Workers : FramesOK(w) /\ AtOK(w)

\* The master gets its own, last request back when both its subtrees are idle.
LEMMA ConclusionRight ==
    ASSUME Underlying, RecvOwn(MASTER_ID) \/ RecvBehalf(MASTER_ID), NEW r \in Request, NEW q,
           Taken(r, q), Dispatch(MASTER_ID, r, q), Concluded(MASTER_ID, r, q)
    PROVE  QuietOK'
<1> USE MasterWorks DEF Underlying
<1> DEFINE M == MASTER_ID
<1>1. pc[M] \in {"serve", "behalf"} /\ UNCHANGED <<hand, stack, op, lifeline>>
  BY RecvGoes
<1>2. op[M] = "idle" /\ \A c \in Chans : ~Loaded(M, c) /\ (~Free(M, c) => c = r.chan)
  BY <1>1, LastIdle DEF Concluded, Inv
<1>3. /\ idle[M] = Children(M) /\ r.id = M /\ chan_requests' = q /\ UNCHANGED <<chan_tasks, waiting>>
      /\ pc'[M] \in {"serve", "leave"}
  BY DEF Concluded, BothSubtreesIdle, Unheard
<1>4. \A v \in Workers : v # M => Settled(v) /\ BackedOff(v)
  BY <1>3, OthersSettled, SettledBackedOff DEF AllSettledOK
<1>5. Looking(M, pc[M])
  BY <1>1, <1>2 DEF Looking
<1>6. deque[M] = <<>> /\ hand[M] = NoTask
  BY <1>5 DEF AllIdleInv, IdleInv, LookingInv
<1>7. At(M) = "barrier"
  BY <1>5, AtTop DEF AtOK, Inv, LocalInv, RootInv
<1>8. AllDone /\ Len(stack[M]) = 1
  BY <1>2, <1>4, <1>6, <1>7, NothingToDo DEF BackedOff, Loaded
<1>9. UNCHANGED work
  BY <1>2, DeclineKeepsWork DEF Dispatch
<1>10. pc'[M] = "leave"
  BY <1>2, <1>3, DispatchGoes DEF Goes, Inv, ControlOK
<1>11. \A v \in Workers : q[v] = <<>>
  <2> SUFFICES ASSUME NEW v \in Workers, q[v] # <<>> PROVE FALSE
    OBVIOUS
  <2>1. q[v] \in Seq(Request)
    BY TakenHas DEF Inv
  <2>2. PICK x : x = Head(q[v])
    OBVIOUS
  <2>3. x \in Request /\ Has(q[v], x)
    BY <2>1, <2>2, HeadHas, HeadTailProperties
  <2>4. Has(chan_requests[v], x) /\ ~Mine(x, r.id, r.chan)
    BY <2>3, TakenHas DEF Inv
  <2>5. x.id = M
    BY <1>3, <2>3, <2>4, NoneUnderway
  <2>6. x.chan \in Chans /\ ~Free(M, x.chan)
    BY <2>3, <2>4, <2>5, NotFree
  <2> QED BY <1>2, <1>3, <2>4, <2>5, <2>6 DEF Mine
<1>12. \A v \in Workers : v # M => Settled(v)'
  <2>1. MovesAlone(M)
    BY StepPrivate DEF Scheduler
  <2> QED BY <1>3, <1>4, <2>1 DEF Settled, Loaded, Waiting, MovesAlone
<1>13. \A v \in Workers : Calm(v)'
  BY <1>1, <1>2, <1>3, <1>4, <1>6, <1>9, <1>11 DEF Calm, BackedOff, Loaded, work
<1>14. AllDone' /\ Len(stack'[M]) = 1 /\ idle'[M] = Children(M)
  BY <1>1, <1>3, <1>8, <1>9 DEF AllDone, TaskIds, work, lifeline
<1> QED BY <1>10, <1>12, <1>13, <1>14 DEF QuietOK, MasterQuiet

\* The only worker has no tasks left.
LEMMA SoloConclusion ==
    ASSUME Underlying, SoloOK, N = 1, PopFailed(MASTER_ID), NothingLeft(MASTER_ID)
    PROVE  QuietOK'
<1> USE MasterWorks DEF Underlying
<1> DEFINE M == MASTER_ID
<1>1. Workers = {M} /\ idle[M] = Children(M)
  BY Solo, SoloAlone
<1>2. At(M) = "barrier" /\ ~Forcing(M) /\ op[M] = "pop" /\ hand[M] = NoTask
      /\ pc[M] \in {"serve", "behalf"}
  BY DEF NothingLeft, Forcing, PopFailed, NoRequest
<1>3. chan_requests[M] = <<>> /\ \A c \in Chans : ~Loaded(M, c)
  BY <1>2 DEF SoloOK, Trapped
<1>4. deque[M] = <<>>
  BY <1>2 DEF AllIdleInv, IdleInv, PopInv, PopFails
<1>5. AllDone /\ Len(stack[M]) = 1
  BY <1>1, <1>2, <1>3, <1>4, NothingToDo
<1>6. UNCHANGED <<chan_requests, chan_tasks, tasks, deque, hand, stack, idle>> /\ pc'[M] = "leave"
  BY <1>2 DEF PopFailed, Goto, Inv, ControlOK, work, lifeline
<1>7. AllDone' /\ Calm(M)' /\ MasterQuiet'
  BY <1>2, <1>3, <1>4, <1>5, <1>6 DEF AllDone, TaskIds, Calm, Loaded, MasterQuiet
<1> QED BY <1>1, <1>6, <1>7 DEF QuietOK

UnderlyingInv == Inv /\ (~Exiting => Underlying)

LEMMA UnderlyingHolds == Spec => []UnderlyingInv
<1>1. Inv /\ AllIdleInv /\ TokenInv /\ AccountInv /\ BusyInv /\ SettledInv /\ TaskInv /\ FrameInv /\ RootTask
        => UnderlyingInv
  BY DEF TokenInv, AccountInv, BusyInv, SettledInv, TaskInv, FrameInv, Underlying, UnderlyingInv
<1> QED BY <1>1, InvHolds, IdleInvHolds, TokenInvHolds, AccountInvHolds, BusyInvHolds, SettledInvHolds,
           TaskInvHolds, FrameInvHolds, RootTaskHolds, PTL

LEMMA NextQuiet ==
    UnderlyingInv /\ Inv' /\ SoloInv /\ QuietInv /\ [Next]_vars => QuietInv'
<1> SUFFICES ASSUME UnderlyingInv, Inv', SoloInv, QuietInv, [Next]_vars, quiescent', ~Exiting'
             PROVE  QuietOK'
  BY DEF QuietInv
<1>1. ASSUME NEW w \in Workers, Scheduler(w) \/ User(w) \/ SpuriousWakeup(w) PROVE QuietOK'
  <2>1. ~Exiting /\ Underlying /\ Inv
    BY <1>1, ExitIsFinal DEF UnderlyingInv
  <2>2. CASE quiescent
    BY <1>1, <2>1, <2>2, OthersStayQuiet, MasterStaysQuiet, MasterWorks DEF Underlying, QuietInv
  <2>3. CASE ~quiescent /\ (RecvOwn(w) \/ RecvBehalf(w))
    <3>1. ~(UNCHANGED <<protocol, work, pc>>)
      BY <2>3 DEF protocol
    <3>2. PICK r, q : r \in Request /\ Taken(r, q) /\ Dispatch(w, r, q) /\ Fate(w, r, q)
      BY <2>1, <2>3, <3>1, TakenUnsettled DEF Underlying
    <3>3. Concluded(w, r, q)
      BY <2>3, <3>2 DEF Fate
    <3>4. w = MASTER_ID
      BY <3>3 DEF Concluded
    <3> QED BY <2>1, <2>3, <3>2, <3>3, <3>4, ConclusionRight
  <2>4. CASE ~quiescent /\ ~(RecvOwn(w) \/ RecvBehalf(w))
    <3>1. PopFailed(w) /\ NothingLeft(w) /\ N = 1
      BY <1>1, <2>1, <2>4, BecomesQuiescent
    <3>2. w = MASTER_ID /\ SoloOK
      BY <2>1, <3>1, Solo DEF SoloInv
    <3> QED BY <2>1, <3>1, <3>2, SoloConclusion
  <2> QED BY <2>2, <2>3, <2>4
<1>2. CASE UNCHANGED vars
  BY <1>2 DEF vars, protocol, control, work, lifeline, Exiting, QuietInv, QuietOK, AllDone, TaskIds, Calm,
     Loaded, Settled, MasterQuiet, Ready, At
<1> QED BY <1>1, <1>2 DEF Next, Terminated

\* While the master considers the computation terminated, no task is left, no
\* request is under way, and every other worker is asleep.
THEOREM QuietInvHolds == Spec => []QuietInv
<1>1. Init => QuietInv
  BY DEF Init, QuietInv
<1>2. UnderlyingInv /\ Inv' /\ SoloInv /\ QuietInv /\ [Next]_vars => QuietInv'
  BY NextQuiet
<1> QED BY <1>1, <1>2, UnderlyingHolds, InvHolds, SoloInvHolds, PTL DEF Spec

\* The invariant the model checker verifies on small instances, for every number
\* of workers and every program: decline_steal_request detects termination, and
\* RT_barrier returns, only when all tasks are done and everybody else sleeps.
THEOREM TerminationDetected == Spec => []TerminationSound
<1>1. UnderlyingInv /\ QuietInv => TerminationSound
  <2> SUFFICES ASSUME Underlying, QuietOK, ~Exiting PROVE TerminationSound
    BY DEF TerminationSound, UnderlyingInv, QuietInv
  <2>1. \A w \in Workers : w # MASTER_ID => BackedOff(w)
    BY SettledBackedOff DEF Underlying, AllSettledOK, QuietOK
  <2>2. AllDone
    BY DEF QuietOK
  <2> QED BY <2>1, <2>2 DEF TerminationSound, AllDone, TaskIds
<1> QED BY <1>1, UnderlyingHolds, QuietInvHolds, PTL

-----------------------------------------------------------------------------
(* The shutdown *)

\* Nobody has been told to exit.
NoNotice == \A w \in Workers : hand[w] # ExitFn /\ \A c \in Chans : chan_tasks[w][c] # <<ExitFn>>

NoticeInv == ~Exiting => NoNotice

\* RT_EXIT_FN is no task.
LEMMA NoExitTask ==
    ASSUME NEW s \in Seq(TaskIds)
    PROVE  s # <<ExitFn>>
<1> SUFFICES ASSUME s = <<ExitFn>> PROVE FALSE
  OBVIOUS
<1>1. s[1] = ExitFn /\ 1 \in 1 .. Len(s)
  OBVIOUS
<1>2. ExitFn \in TaskIds
  BY <1>1, ElementOfSeq
<1> QED BY <1>2 DEF ExitFn, TaskIds

LEMMA SendNoNotice ==
    ASSUME WorkOK, NEW r \in Request, NEW list, SendTasks(r, list), list # <<ExitFn>>,
           NEW w \in Workers, NEW c \in Chans, chan_tasks[w][c] # <<ExitFn>>
    PROVE  chan_tasks'[w][c] # <<ExitFn>>
BY DEF WorkOK, SendTasks, Request

LEMMA AnswerNoNotice ==
    ASSUME WorkOK, NEW w \in Workers, NEW r \in Request,
           \/ deque[w] # <<>> /\ SendLoot(w, r)
           \/ \E t : split_loop(w, t, r),
           NEW v \in Workers, NEW c \in Chans, chan_tasks[v][c] # <<ExitFn>>
    PROVE  chan_tasks'[v][c] # <<ExitFn>>
<1>1. CASE deque[w] # <<>> /\ SendLoot(w, r)
  <2>1. PICK d : d = deque[w]
    OBVIOUS
  <2>2. PICK k : k = Len(d) - LootSize(w, r)
    OBVIOUS
  <2>3. d \in Seq(TaskIds) /\ Len(d) \in Nat \ {0}
    BY <1>1, <2>1, EmptySeq DEF WorkOK
  <2>4. k \in 0 .. Len(d)
    <3>1. \A n \in Nat \ {0} : n - 1 \in 0 .. n /\ (n >= 2 => n - n \div 2 \in 0 .. n)
      OBVIOUS
    <3>2. LootSize(w, r) = 1 \/ (Len(d) >= 2 /\ LootSize(w, r) = Len(d) \div 2)
      BY <2>1, Zenon DEF LootSize
    <3> QED BY <2>2, <2>3, <3>1, <3>2
  <2>5. Loot(d, k) \in Seq(TaskIds)
    BY <2>3, <2>4, SplitHas
  <2>6. SendTasks(r, Loot(d, k)) /\ Loot(d, k) # <<ExitFn>>
    BY <1>1, <2>1, <2>2, <2>5, NoExitTask DEF SendLoot
  <2> QED BY <2>6, SendNoNotice
<1>2. CASE \E t : split_loop(w, t, r)
  <2>1. PICK n : n = Len(tasks) + 1
    OBVIOUS
  <2>2. n \in Nat
    BY <2>1, LenProperties DEF WorkOK
  <2>3. <<n>> # <<ExitFn>>
    <3>1. n # ExitFn
      BY <2>2 DEF ExitFn
    <3> QED BY <3>1
  <2>4. SendTasks(r, <<n>>)
    BY <1>2, <2>1 DEF split_loop
  <2> QED BY <2>3, <2>4, SendNoNotice
<1> QED BY <1>1, <1>2

LEMMA NextNotice == Inv /\ NoticeInv /\ [Next]_vars => NoticeInv'
<1> SUFFICES ASSUME Inv, NoticeInv, [Next]_vars, ~Exiting' PROVE NoNotice'
  BY DEF NoticeInv
<1> USE DEF Inv, RunOK, WorkOK
<1>1. ASSUME NEW w \in Workers, Scheduler(w) \/ User(w) \/ SpuriousWakeup(w) PROVE NoNotice'
  <2>1. ~Exiting /\ NoNotice
    BY <1>1, ExitIsFinal DEF NoticeInv
  <2>2. \A t \in TaskIds : t # ExitFn
    BY DEF TaskIds, ExitFn
  <2>3. CASE UNCHANGED <<hand, chan_tasks>>
    BY <2>1, <2>3 DEF NoNotice
  <2>4. CASE ShareSend(w)
    <3>1. PICK r : r = Head(work_sharing_requests[w])
      OBVIOUS
    <3>2. r \in Request
      BY <2>4, <3>1, HeadTailProperties DEF ShareSend, CanShare, LifelineOK
    <3>3. /\ \/ deque[w] # <<>> /\ SendLoot(w, r)
             \/ \E t : split_loop(w, t, r)
          /\ UNCHANGED hand
      BY <2>4, <3>1 DEF ShareSend, control
    <3> QED BY <2>1, <3>2, <3>3, AnswerNoNotice DEF NoNotice
  <2>5. CASE RecvOwn(w) \/ RecvBehalf(w)
    <3>1. UNCHANGED hand /\ pc[w] \in {"serve", "behalf"}
      BY <2>5, RecvGoes
    <3>2. UNCHANGED work \/ \E r \in Request : \E q : Dispatch(w, r, q)
      BY <2>5, RecvTakes
    <3>3. ASSUME NEW r \in Request, NEW q, Dispatch(w, r, q)
          PROVE  UNCHANGED work \/ (deque[w] # <<>> /\ SendLoot(w, r)) \/ \E t : split_loop(w, t, r)
      BY <3>1, <3>3, DispatchWork DEF WorkOutcome
    <3>4. CASE UNCHANGED work
      BY <2>3, <3>1, <3>4 DEF work
    <3>5. CASE ~UNCHANGED work
      <4>1. PICK r \in Request : (deque[w] # <<>> /\ SendLoot(w, r)) \/ \E t : split_loop(w, t, r)
        BY <3>2, <3>3, <3>5
      <4> QED BY <2>1, <3>1, <4>1, AnswerNoNotice DEF NoNotice
    <3> QED BY <3>4, <3>5
  <2>6. CASE RT_pop(w)
    <3>1. UNCHANGED chan_tasks /\ \A v \in Workers \ {w} : hand'[v] = hand[v]
      BY <2>6 DEF RT_pop
    <3>2. hand'[w] = NoTask \/ (deque[w] # <<>> /\ hand'[w] = Head(deque[w]))
      BY <2>6 DEF RT_pop, CanPop
    <3>3. hand'[w] # ExitFn
      <4>1. deque[w] # <<>> => Head(deque[w]) \in TaskIds
        BY HeadTailProperties
      <4> QED BY <2>2, <3>2, <4>1 DEF NoTask, ExitFn
    <3> QED BY <2>1, <3>1, <3>3 DEF NoNotice
  <2>7. CASE RecvTask(w)
    <3>1. PICK c \in Chans : /\ chan_tasks[w][c] # <<>>
                             /\ hand' = [hand EXCEPT ![w] = Head(chan_tasks[w][c])]
                             /\ chan_tasks' = [chan_tasks EXCEPT ![w][c] = <<>>]
      BY <2>7 DEF RecvTask
    <3>2. Head(chan_tasks[w][c]) \in TaskIds
      <4>1. chan_tasks[w][c] \in Seq(TaskIds)
        <5>1. chan_tasks[w][c] \in Seq(TaskIds) \cup {<<ExitFn>>}
          BY Zenon
        <5>2. chan_tasks[w][c] # <<ExitFn>>
          BY <2>1, Zenon DEF NoNotice
        <5> QED BY <5>1, <5>2, Zenon
      <4> QED BY <3>1, <4>1, HeadTailProperties
    <3>3. \A v \in Workers : hand'[v] # ExitFn
      BY <2>1, <2>2, <3>1, <3>2 DEF NoNotice
    <3>4. \A v \in Workers, d \in Chans : chan_tasks'[v][d] # <<ExitFn>>
      BY <2>1, <3>1 DEF NoNotice
    <3> QED BY <3>3, <3>4 DEF NoNotice
  <2>8. CASE ShareDoneRun(w) \/ RunPopped(w) \/ ShareDoneExit(w)
    <3>1. UNCHANGED chan_tasks /\ hand' = [hand EXCEPT ![w] = NoTask]
      BY <2>8 DEF ShareDoneRun, RunPopped, ShareDoneExit, Start, work
    <3> QED BY <2>1, <3>1 DEF NoNotice, NoTask, ExitFn
  <2>9. ~NotifyExit(w)
    BY <2>1 DEF NotifyExit, Exiting
  <2>10. CASE \/ RecvFailed(w) \/ StartBehalf(w) \/ ShareSignal(w) \/ ShareDone(w)
              \/ PopFailed(w) \/ ReturnToBody(w)
              \/ BeginSteal(w) \/ RecvNoTask(w) \/ Resend(w)
              \/ NothingToRelay(w) \/ ForceReady(w) \/ ForceNotReady(w)
              \/ WaitPeek(w) \/ Sleep(w) \/ Wake(w) \/ BarrierReturn(w)
              \/ SignalExit(w) \/ ExitDone(w) \/ SpuriousWakeup(w)
    BY <2>3, <2>10 DEF RecvFailed, StartBehalf, ShareSignal, ShareDone,
              PopFailed, ReturnToBody, BeginSteal, RecvNoTask, Resend,
              NothingToRelay, ForceReady, ForceNotReady,
              WaitPeek, Sleep, Wake, BarrierReturn,
              SignalExit, ExitDone, SpuriousWakeup, work, control
  <2>11. CASE User(w)
    BY <2>3, <2>11 DEF User, RT_push, RT_force_future, RT_poll, EndIteration, TaskReturn, RT_barrier,
       work, control
  <2> QED BY <1>1, <2>4, <2>5, <2>6, <2>7, <2>8, <2>9, <2>10, <2>11 DEF Scheduler
<1>2. CASE UNCHANGED vars
  BY <1>2 DEF vars, control, work, Exiting, NoticeInv, NoNotice
<1> QED BY <1>1, <1>2 DEF Next, Terminated

LEMMA NoticeInvHolds == Spec => []NoticeInv
<1>1. Init => NoticeInv
  BY DEF Init, NoticeInv, NoNotice, NoTask, ExitFn
<1>2. Inv /\ NoticeInv /\ [Next]_vars => NoticeInv'
  BY NextNotice
<1> QED BY <1>1, <1>2, InvHolds, PTL DEF Spec

Unloaded(v) == \A c \in Chans : ~Loaded(v, c)

\* The parent of worker v has sent it RT_EXIT_FN.
Notified(v) ==
    \/ pc[parent(v)] = "finished"
    \/ pc[parent(v)] \in {"exit", "exitsignal"} /\ v \notin todo[parent(v)]
    \/ pc[parent(v)] = "exitsignal" /\ v = Minimum(todo[parent(v)])

\* The stages of a worker on its way out: asleep, notified, with RT_EXIT_FN in
\* hand, and running it or done with it.
Resting(v) == /\ pc[v] \in Waiting /\ op[v] = "idle" /\ hand[v] = NoTask
              /\ Unloaded(v)
Reached(v) == /\ pc[v] \in Waiting \cup {"recv"} /\ op[v] = "idle" /\ hand[v] = NoTask
              /\ chan_tasks[v][1] = <<ExitFn>> /\ \A c \in Chans : c # 1 => ~Loaded(v, c)
Leaving(v) == /\ pc[v] = "share" /\ op[v] = "loot" /\ hand[v] = ExitFn
              /\ Unloaded(v)
Left(v)    == pc[v] \in ExitLabels /\ hand[v] = NoTask /\ Unloaded(v)

Stage(v) == IF Notified(v) THEN Reached(v) \/ Leaving(v) \/ Left(v) ELSE Resting(v)

\* Worker w has nothing to do, and nothing to answer.
Drained(w) == chan_requests[w] = <<>> /\ idle[w] = Children(w) /\ deque[w] = <<>>

Notifying(w) ==
    /\ pc[w] \in {"exit", "exitsignal"} => todo[w] \subseteq Children(w)
    /\ pc[w] = "exitsignal" => todo[w] # {}

ExitOK ==
    /\ \A t \in TaskIds : tasks[t].status # "ready"
    /\ \A w \in Workers : Drained(w) /\ Notifying(w)
    /\ Left(MASTER_ID)
    /\ \A v \in Workers : v # MASTER_ID => stack[v] = <<>> /\ Stage(v)

ExitInv == Exiting => ExitOK

\* The only ways to begin
LEMMA EntersExit ==
    ASSUME Inv, NEW w \in Workers, Scheduler(w) \/ User(w) \/ SpuriousWakeup(w),
           pc[w] \notin ExitLabels, pc'[w] \in ExitLabels
    PROVE  ShareDoneExit(w) \/ (BarrierReturn(w) /\ pc' = [pc EXCEPT ![w] = "exit"]
                                /\ todo' = [todo EXCEPT ![w] = Children(w)])
<1> USE DEF Inv, ControlOK, ExitLabels
<1>1. CASE RecvOwn(w) \/ RecvBehalf(w)
  <2>1. UNCHANGED pc \/ pc'[w] \in {"recv", "serve", "waitpeek", "leave"}
    BY <1>1, RecvGoes DEF Goes
  <2> QED BY <2>1
<1>2. CASE \/ RecvFailed(w) \/ StartBehalf(w)
           \/ ShareSend(w) \/ ShareSignal(w) \/ ShareDone(w) \/ ShareDoneRun(w)
           \/ RT_pop(w) \/ RunPopped(w) \/ PopFailed(w) \/ ReturnToBody(w)
           \/ BeginSteal(w) \/ RecvTask(w) \/ RecvNoTask(w) \/ Resend(w)
           \/ NothingToRelay(w) \/ ForceReady(w) \/ ForceNotReady(w)
  BY <1>2 DEF RecvFailed, StartBehalf, ShareSend, ShareSignal, ShareDone, ShareDoneRun,
           RT_pop, RunPopped, PopFailed, ReturnToBody, BeginSteal, RecvTask, RecvNoTask, Resend,
           NothingToRelay, ForceReady, ForceNotReady, Goto, SIGNAL, Woken
<1>3. CASE \/ WaitPeek(w) \/ Sleep(w) \/ Wake(w) \/ SpuriousWakeup(w)
           \/ NotifyExit(w) \/ SignalExit(w) \/ ExitDone(w)
  BY <1>3 DEF WaitPeek, Sleep, Wake, SpuriousWakeup, NotifyExit, SignalExit, ExitDone, Goto
<1>4. CASE User(w)
  BY <1>4 DEF User, RT_push, RT_force_future, RT_poll, EndIteration, TaskReturn, RT_barrier, Goto
<1>5. CASE BarrierReturn(w)
  BY <1>5 DEF BarrierReturn, Goto
<1> QED BY <1>1, <1>2, <1>3, <1>4, <1>5 DEF Scheduler

\* TASKING_EXIT begins after a barrier, when everybody else is asleep.
LEMMA ExitBegins ==
    ASSUME Underlying, QuietOK, ~Exiting, BarrierReturn(MASTER_ID),
           pc' = [pc EXCEPT ![MASTER_ID] = "exit"],
           todo' = [todo EXCEPT ![MASTER_ID] = Children(MASTER_ID)]
    PROVE  ExitOK'
<1> USE MasterWorks DEF Underlying
<1> DEFINE M == MASTER_ID
<1>1. /\ UNCHANGED <<protocol, work, lifeline, hand, op>>
      /\ \A v \in Workers : v # M => stack'[v] = stack[v]
  BY DEF BarrierReturn, Inv, RunOK
<1>2. /\ pc'[M] = "exit" /\ todo'[M] = Children(M)
      /\ \A v \in Workers : v # M => pc'[v] = pc[v] /\ todo'[v] = todo[v]
  BY DEF Inv, ControlOK
<1>3. \A v \in Workers : v # M => Settled(v) /\ BackedOff(v) /\ SettledOK(v)
  BY SettledBackedOff DEF AllSettledOK, QuietOK
<1>4. \A t \in TaskIds' : tasks'[t].status # "ready"
  <2>1. tasks[Root].status # "ready"
    BY RootRuns
  <2>2. AllDone /\ UNCHANGED tasks
    BY <1>1 DEF QuietOK, work
  <2> QED BY <2>1, <2>2 DEF AllDone, TaskIds
<1>5. \A w \in Workers : Drained(w)'
  <2>1. \A w \in Workers : idle[w] = Children(w)
    BY <1>3 DEF QuietOK, SettledOK, LastToLeave
  <2> QED BY <1>1, <2>1 DEF QuietOK, Calm, Drained, protocol, work, lifeline
<1>6. \A w \in Workers : Notifying(w)'
  <2>1. \A v \in Workers : v # M => pc[v] \in Waiting
    BY <1>3 DEF Settled
  <2> QED BY <1>2, <2>1 DEF Notifying, Waiting
<1>7. Left(M)'
  BY <1>1, <1>2 DEF QuietOK, Calm, Left, Unloaded, Loaded, ExitLabels, work
<1>8. ASSUME NEW v \in Workers, v # M PROVE stack'[v] = <<>> /\ Stage(v)'
  <2>1. stack'[v] = <<>>
    BY <1>1, <1>3, <1>8 DEF BackedOff
  <2>2. Resting(v)'
    BY <1>1, <1>2, <1>3, <1>8 DEF Resting, Unloaded, Loaded, BackedOff, SettledOK, Sleeps, work
  <2>3. PICK p : p = parent(v)
    OBVIOUS
  <2>4. p \in Workers /\ v \in Children(p)
    BY <1>8, <2>3, ParentChild
  <2>5. p # M => pc'[p] \in Waiting
    BY <1>2, <1>3, <2>4 DEF Settled
  <2>6. ~Notified(v)'
    BY <1>2, <2>3, <2>4, <2>5 DEF Notified, Waiting
  <2> QED BY <2>1, <2>2, <2>6 DEF Stage
<1> QED BY <1>4, <1>5, <1>6, <1>7, <1>8 DEF ExitOK

\* What is left to do
LEMMA ExitSteps ==
    ASSUME Inv, ExitOK, NEW w \in Workers, Scheduler(w) \/ User(w) \/ SpuriousWakeup(w)
    PROVE  \/ /\ WaitPeek(w) \/ Sleep(w) \/ Wake(w) \/ SpuriousWakeup(w)
              /\ w # MASTER_ID /\ (Resting(w) \/ Reached(w)) /\ pc[w] \in Waiting
           \/ w # MASTER_ID /\ Reached(w) /\ RecvTask(w) /\ pc[w] = "recv"
           \/ w # MASTER_ID /\ Leaving(w) /\ ShareDoneExit(w)
           \/ Left(w) /\ (NotifyExit(w) \/ SignalExit(w) \/ ExitDone(w))
<1>1. Left(w) \/ (w # MASTER_ID /\ stack[w] = <<>> /\ (Resting(w) \/ Reached(w) \/ Leaving(w)))
  BY DEF ExitOK, Stage
<1>2. CASE w # MASTER_ID /\ (Resting(w) \/ Reached(w)) /\ pc[w] \in Waiting
  BY <1>2, WaitingSteps
<1>3. CASE w # MASTER_ID /\ Reached(w) /\ pc[w] = "recv"
  <2>1. 1 \in Chans
    BY RuntimeAssumption DEF Chans
  <2>2. ~RecvNoTask(w)
    <3>1. RecvNoTask(w) => chan_tasks[w][1] = <<>>
      BY <2>1 DEF RecvNoTask
    <3>2. chan_tasks[w][1] = <<ExitFn>> /\ <<ExitFn>> # <<>>
      BY <1>3 DEF Reached
    <3> QED BY <3>1, <3>2
  <2>3. RecvTask(w)
    BY <1>3, <2>2 DEF Scheduler, User, RecvFailed, RecvOwn, StartBehalf, RecvBehalf,
        ShareSend, ShareSignal, ShareDone, ShareDoneRun, RT_pop, RunPopped, PopFailed, ReturnToBody,
        BeginSteal, Resend, NothingToRelay, NoRequest, ForceReady, ForceNotReady,
        WaitPeek, Sleep, Wake, SpuriousWakeup, BarrierReturn,
        ShareDoneExit, NotifyExit, SignalExit, ExitDone,
        RT_push, RT_force_future, RT_poll, EndIteration, TaskReturn, RT_barrier
  <2> QED BY <1>3, <2>3
<1>4. CASE w # MASTER_ID /\ Leaving(w) /\ stack[w] = <<>>
  <2>1. ~CanShare(w)
    <3>1. IterationsLeft(Current(w)) = 0 /\ ~(0 > 1)
      BY <1>4 DEF Current, IterationsLeft
    <3> QED BY <3>1 DEF CanShare, SPLITTABLE, ExitOK, Drained
  <2>2. ShareDoneExit(w)
    BY <1>4, <2>1 DEF Leaving, Scheduler, User, RecvFailed, RecvOwn, StartBehalf, RecvBehalf,
        ShareSend, ShareSignal, ShareDone, ShareDoneRun, RT_pop, RunPopped, PopFailed, ReturnToBody,
        BeginSteal, RecvTask, RecvNoTask, Resend, NothingToRelay, NoRequest, ForceReady, ForceNotReady,
        WaitPeek, Sleep, Wake, SpuriousWakeup, BarrierReturn,
        NotifyExit, SignalExit, ExitDone,
        RT_push, RT_force_future, RT_poll, EndIteration, TaskReturn, RT_barrier
  <2> QED BY <1>4, <2>2
<1>5. CASE Left(w)
  <2>1. NotifyExit(w) \/ SignalExit(w) \/ ExitDone(w)
    BY <1>5 DEF Left, ExitLabels, Scheduler, User, RecvFailed, RecvOwn, StartBehalf, RecvBehalf,
        ShareSend, ShareSignal, ShareDone, ShareDoneRun, RT_pop, RunPopped, PopFailed, ReturnToBody,
        BeginSteal, RecvTask, RecvNoTask, Resend, NothingToRelay, NoRequest, ForceReady, ForceNotReady,
        WaitPeek, Sleep, Wake, SpuriousWakeup, BarrierReturn, ShareDoneExit,
        RT_push, RT_force_future, RT_poll, EndIteration, TaskReturn, RT_barrier
  <2> QED BY <1>5, <2>1
<1> QED BY <1>1, <1>2, <1>3, <1>4, <1>5 DEF Resting, Reached

LEMMA SameNotified ==
    ASSUME NEW v,
           \/ pc'[parent(v)] = pc[parent(v)] /\ todo'[parent(v)] = todo[parent(v)]
           \/ pc[parent(v)] \notin ExitLabels /\ pc'[parent(v)] \notin ExitLabels
    PROVE  Notified(v)' <=> Notified(v)
<1>1. PICK p : p = parent(v)
  OBVIOUS
<1> QED BY <1>1 DEF Notified, ExitLabels

\* A worker that is not concerned stays where it is, or is woken.
LEMMA SameStage ==
    ASSUME NEW v, Stage(v), stack[v] = <<>>,
           pc'[v] = pc[v] \/ (pc[v] = "asleep" /\ pc'[v] = "woken"),
           op'[v] = op[v], hand'[v] = hand[v], stack'[v] = stack[v], chan_tasks'[v] = chan_tasks[v],
           Notified(v)' <=> Notified(v)
    PROVE  stack'[v] = <<>> /\ Stage(v)'
<1>1. pc[v] = "asleep" => pc[v] \in Waiting /\ pc[v] \notin ExitLabels /\ pc[v] # "share"
  BY DEF Waiting, ExitLabels
<1>2. pc'[v] = "woken" => pc'[v] \in Waiting
  BY DEF Waiting
<1>3. Unloaded(v)' <=> Unloaded(v)
  BY DEF Unloaded, Loaded
<1>4. (Resting(v) => Resting(v)') /\ (Reached(v) => Reached(v)')
  BY <1>1, <1>2, <1>3 DEF Resting, Reached, Loaded
<1>5. (Leaving(v) => Leaving(v)') /\ (Left(v) => Left(v)')
  BY <1>1, <1>3 DEF Leaving, Left
<1> QED BY <1>4, <1>5 DEF Stage

\* A worker waits for RT_EXIT_FN, or takes it out of its channel.
LEMMA WaitsForExit ==
    ASSUME Inv, ExitOK, NEW w \in Workers, w # MASTER_ID,
           \/ /\ WaitPeek(w) \/ Sleep(w) \/ Wake(w) \/ SpuriousWakeup(w)
              /\ Resting(w) \/ Reached(w)
              /\ pc[w] \in Waiting
           \/ Reached(w) /\ RecvTask(w) /\ pc[w] = "recv"
    PROVE  ExitOK'
<1> USE MasterWorks DEF Inv, ControlOK, WorkOK, RunOK
<1>1. 1 \in Chans
  BY RuntimeAssumption DEF Chans
<1>2. CASE /\ WaitPeek(w) \/ Sleep(w) \/ Wake(w) \/ SpuriousWakeup(w)
           /\ Resting(w) \/ Reached(w)
           /\ pc[w] \in Waiting
  <2>1. /\ UNCHANGED <<protocol, work, lifeline, control>>
        /\ \A v \in Workers \ {w} : pc'[v] = pc[v]
        /\ pc'[w] \in Waiting \cup {"recv"} /\ pc'[w] \notin ExitLabels /\ pc[w] \notin ExitLabels
        /\ Resting(w) => pc'[w] \in Waiting
    BY <1>2 DEF WaitPeek, Sleep, Wake, SpuriousWakeup, Goto, Waiting, ExitLabels, Resting, Reached,
       Unloaded, Loaded
  <2>2. \A t \in TaskIds' : tasks'[t].status # "ready"
    BY <2>1 DEF ExitOK, TaskIds, work
  <2>3. \A v \in Workers : Drained(v)' /\ Notifying(v)'
    BY <2>1 DEF ExitOK, Drained, Notifying, protocol, work, lifeline, control, ExitLabels
  <2>4. Left(MASTER_ID)'
    BY <2>1 DEF ExitOK, Left, Unloaded, Loaded, work, control
  <2>5. ASSUME NEW v \in Workers, v # MASTER_ID PROVE stack'[v] = <<>> /\ Stage(v)'
    <3>1. Notified(v)' <=> Notified(v)
      <4>1. parent(v) \in Workers
        BY <2>5, ParentChild
      <4> QED BY <2>1, <4>1, SameNotified DEF control
    <3>2. CASE v # w
      BY <2>1, <2>5, <3>1, <3>2, SameStage DEF ExitOK, work, control
    <3>3. CASE v = w
      <4>1. (Resting(w) => Resting(w)') /\ (Reached(w) => Reached(w)')
        BY <2>1 DEF Resting, Reached, Unloaded, Loaded, work, control
      <4>2. Stage(w) /\ stack[w] = <<>> /\ ~Leaving(w) /\ ~Left(w)
        BY <1>2 DEF ExitOK, Leaving, Left, Waiting, ExitLabels
      <4> QED BY <2>1, <3>1, <3>3, <4>1, <4>2 DEF Stage, control
    <3> QED BY <3>2, <3>3
  <2> QED BY <2>2, <2>3, <2>4, <2>5 DEF ExitOK
<1>3. CASE Reached(w) /\ RecvTask(w) /\ pc[w] = "recv"
  <2>1. PICK c \in Chans : /\ chan_tasks[w][c] # <<>>
                           /\ hand' = [hand EXCEPT ![w] = Head(chan_tasks[w][c])]
                           /\ deque' = [deque EXCEPT ![w] = Tail(chan_tasks[w][c]) \o @]
                           /\ chan_tasks' = [chan_tasks EXCEPT ![w][c] = <<>>]
    BY <1>3 DEF RecvTask
  <2>2. chan_tasks[w][c] = <<ExitFn>> /\ c = 1
    BY <1>3, <2>1 DEF Reached, Loaded
  <2>3. Head(<<ExitFn>>) = ExitFn /\ Tail(<<ExitFn>>) \o <<>> = <<>>
    OBVIOUS
  <2>4. /\ hand'[w] = ExitFn /\ deque'[w] = <<>> /\ \A d \in Chans : chan_tasks'[w][d] = <<>>
        /\ \A v \in Workers \ {w} : /\ hand'[v] = hand[v] /\ deque'[v] = deque[v]
                                    /\ chan_tasks'[v] = chan_tasks[v]
    <3>1. deque[w] = <<>>
      BY DEF ExitOK, Drained
    <3>2. \A d \in Chans : d # 1 => chan_tasks[w][d] = <<>>
      BY <1>3 DEF Reached, Loaded
    <3> QED BY <2>1, <2>2, <2>3, <3>1, <3>2
  <2>5. /\ UNCHANGED <<chan_requests, tasks, lifeline, stack, todo>>
        /\ pc'[w] = "share" /\ op'[w] = "loot"
        /\ \A v \in Workers \ {w} : pc'[v] = pc[v] /\ op'[v] = op[v]
    BY <1>3 DEF RecvTask, Goto
  <2>6. \A t \in TaskIds' : tasks'[t].status # "ready"
    BY <2>5 DEF ExitOK, TaskIds
  <2>7. \A v \in Workers : Drained(v)' /\ Notifying(v)'
    BY <2>4, <2>5 DEF ExitOK, Drained, Notifying, lifeline
  <2>8. Left(MASTER_ID)'
    BY <2>4, <2>5 DEF ExitOK, Left, Unloaded, Loaded
  <2>9. ASSUME NEW v \in Workers, v # MASTER_ID PROVE stack'[v] = <<>> /\ Stage(v)'
    <3>1. Notified(v)' <=> Notified(v)
      <4>1. parent(v) \in Workers
        BY <2>9, ParentChild
      <4>2. pc[w] \notin ExitLabels /\ pc'[w] \notin ExitLabels
        BY <1>3, <2>5 DEF ExitLabels
      <4> QED BY <2>5, <4>1, <4>2, SameNotified
    <3>2. CASE v # w
      BY <2>4, <2>5, <2>9, <3>1, <3>2, SameStage DEF ExitOK
    <3>3. CASE v = w
      <4>1. Leaving(w)'
        BY <2>4, <2>5 DEF Leaving, Unloaded, Loaded
      <4>2. Stage(w) /\ stack[w] = <<>> /\ ~Resting(w)
        BY <1>3 DEF ExitOK, Resting, Waiting
      <4> QED BY <2>5, <3>1, <3>3, <4>1, <4>2 DEF Stage
    <3> QED BY <3>2, <3>3
  <2> QED BY <2>6, <2>7, <2>8, <2>9 DEF ExitOK
<1> QED BY <1>2, <1>3

\* A worker begins to run RT_EXIT_FN.
LEMMA BeginsExit ==
    ASSUME Inv, ExitOK, NEW w \in Workers, w # MASTER_ID, Leaving(w), ShareDoneExit(w)
    PROVE  ExitOK'
<1> USE MasterWorks DEF Inv, ControlOK, WorkOK, RunOK
<1>1. /\ UNCHANGED <<protocol, work, lifeline, stack, op>>
      /\ pc[w] = "share" /\ pc'[w] = "exit" /\ hand'[w] = NoTask /\ todo'[w] = Children(w)
      /\ \A v \in Workers \ {w} : pc'[v] = pc[v] /\ hand'[v] = hand[v] /\ todo'[v] = todo[v]
  BY DEF ShareDoneExit, Goto
<1>2. \A t \in TaskIds' : tasks'[t].status # "ready"
  BY <1>1 DEF ExitOK, TaskIds, work
<1>3. \A v \in Workers : Drained(v)' /\ Notifying(v)'
  BY <1>1 DEF ExitOK, Drained, Notifying, protocol, work, lifeline
<1>4. Left(MASTER_ID)'
  BY <1>1 DEF ExitOK, Left, Unloaded, Loaded, work
<1>5. ASSUME NEW v \in Workers, v # MASTER_ID PROVE stack'[v] = <<>> /\ Stage(v)'
  <2>1. PICK p : p = parent(v)
    OBVIOUS
  <2>2. p \in Workers /\ v \in Children(p)
    BY <1>5, <2>1, ParentChild
  <2>3. Notified(v)' <=> Notified(v)
    <3>1. CASE p = w
      BY <1>1, <2>1, <2>2, <3>1 DEF Notified
    <3>2. CASE p # w
      BY <1>1, <2>1, <2>2, <3>2, SameNotified
    <3> QED BY <3>1, <3>2
  <2>4. CASE v # w
    BY <1>1, <1>5, <2>3, <2>4, SameStage DEF ExitOK, work
  <2>5. CASE v = w
    <3>1. Left(w)'
      BY <1>1 DEF Leaving, Left, Unloaded, Loaded, work, ExitLabels
    <3>2. Stage(w) /\ stack[w] = <<>> /\ ~Resting(w)
      BY <1>1 DEF ExitOK, Resting, Waiting
    <3> QED BY <1>1, <2>3, <2>5, <3>1, <3>2 DEF Stage
  <2> QED BY <2>4, <2>5
<1> QED BY <1>2, <1>3, <1>4, <1>5 DEF ExitOK

\* A worker that runs RT_EXIT_FN notifies its children, one after the other.
LEMMA Notifies ==
    ASSUME Inv, ExitOK, NEW w \in Workers, Left(w), NotifyExit(w) \/ SignalExit(w) \/ ExitDone(w)
    PROVE  ExitOK'
<1> USE MasterWorks DEF Inv, ControlOK, WorkOK, RunOK
<1>1. PICK c : c = Minimum(todo[w])
  OBVIOUS
<1>2. todo[w] # {} => c \in todo[w]
  <2>1. todo[w] \subseteq Nat
    BY NAssumption DEF Workers
  <2> QED BY <1>1, <2>1, MinimumIsElement
<1>3. 1 \in Chans
  BY RuntimeAssumption DEF Chans
<1>4. \A t \in TaskIds' : tasks'[t].status # "ready"
  BY DEF ExitOK, TaskIds, work, NotifyExit, SignalExit, ExitDone
<1>5. CASE NotifyExit(w)
  <2>1. /\ pc[w] = "exit" /\ pc'[w] = "exitsignal" /\ todo[w] # {}
        /\ chan_tasks' = [chan_tasks EXCEPT ![c][1] = IF @ = <<>> THEN <<ExitFn>> ELSE @]
        /\ UNCHANGED <<protocol, deque, tasks, lifeline, control>>
        /\ \A v \in Workers \ {w} : pc'[v] = pc[v]
    BY <1>1, <1>5 DEF NotifyExit, Goto
  <2>2. c \in todo[w] /\ c \in Children(w)
    BY <1>2, <2>1 DEF ExitOK, Notifying
  <2>3. c \in Workers /\ c # MASTER_ID /\ parent(c) = w /\ c # w
    <3>1. c \in Workers /\ c # MASTER_ID /\ parent(c) = w /\ w < c
      BY <2>2, ChildParent
    <3> QED BY <3>1, NAssumption DEF Workers
  <2>4. ~Notified(c) /\ Resting(c)
    <3>1. ~Notified(c)
      BY <2>1, <2>2, <2>3 DEF Notified
    <3> QED BY <2>3, <3>1 DEF ExitOK, Stage
  <2>5. /\ chan_tasks'[c][1] = <<ExitFn>> /\ \A d \in Chans : d # 1 => chan_tasks'[c][d] = chan_tasks[c][d]
        /\ \A v \in Workers \ {c} : chan_tasks'[v] = chan_tasks[v]
    <3>1. chan_tasks[c][1] = <<>>
      BY <1>3, <2>4 DEF Resting, Unloaded, Loaded
    <3> QED BY <1>3, <2>1, <2>3, <3>1
  <2>6. \A v \in Workers : Drained(v)' /\ Notifying(v)'
    BY <2>1 DEF ExitOK, Drained, Notifying, protocol, lifeline, control
  <2>7. Left(MASTER_ID)'
    BY <2>1, <2>3, <2>5 DEF ExitOK, Left, Unloaded, Loaded, control, ExitLabels
  <2>8. ASSUME NEW v \in Workers, v # MASTER_ID PROVE stack'[v] = <<>> /\ Stage(v)'
    <3>1. PICK p : p = parent(v)
      OBVIOUS
    <3>2. p \in Workers
      BY <2>8, <3>1, ParentChild
    <3>3. CASE v = c
      <4>1. Reached(c)'
        BY <2>1, <2>3, <2>4, <2>5 DEF Resting, Reached, Unloaded, Loaded, control
      <4>2. Notified(c)'
        BY <1>1, <2>1, <2>3 DEF Notified, control
      <4> QED BY <2>1, <2>8, <3>3, <4>1, <4>2 DEF Stage, ExitOK, control
    <3>4. CASE v # c
      <4>1. Notified(v)' <=> Notified(v)
        <5>1. CASE p = w
          BY <1>1, <2>1, <3>1, <3>4, <5>1 DEF Notified, control
        <5>2. CASE p # w
          BY <2>1, <3>1, <3>2, <5>2, SameNotified DEF control
        <5> QED BY <5>1, <5>2
      <4>2. CASE v # w
        BY <2>1, <2>5, <2>8, <3>4, <4>1, <4>2, SameStage DEF ExitOK, control
      <4>3. CASE v = w
        <5>1. Left(w)'
          BY <2>1, <2>3, <2>5 DEF Left, Unloaded, Loaded, control, ExitLabels
        <5>2. Stage(w) /\ stack[w] = <<>> /\ ~Resting(w)
          BY <2>1, <2>8, <4>3 DEF ExitOK, Resting, Waiting
        <5> QED BY <2>1, <4>1, <4>3, <5>1, <5>2 DEF Stage, control
      <4> QED BY <4>2, <4>3
    <3> QED BY <3>3, <3>4
  <2> QED BY <1>4, <2>6, <2>7, <2>8 DEF ExitOK
<1>6. CASE SignalExit(w) \/ ExitDone(w)
  <2>1. /\ UNCHANGED <<protocol, work, lifeline, hand, stack, op>>
        /\ pc[w] \in {"exit", "exitsignal"} /\ pc'[w] \in {"exit", "finished"}
        /\ \A v \in Workers \ {w} : /\ pc'[v] = pc[v] \/ (pc[v] = "asleep" /\ pc'[v] = "woken")
                                    /\ todo'[v] = todo[v]
    BY <1>6 DEF SignalExit, SIGNAL, Woken, ExitDone, Goto, control
  <2>2. \/ pc[w] = "exitsignal" /\ pc'[w] = "exit" /\ todo'[w] = todo[w] \ {c}
        \/ pc[w] = "exit" /\ pc'[w] = "finished" /\ todo[w] = {} /\ todo'[w] = {}
    BY <1>1, <1>6 DEF SignalExit, SIGNAL, Woken, ExitDone, Goto, control
  <2>3. todo[w] \subseteq Children(w)
    BY <2>1 DEF ExitOK, Notifying
  <2>4. \A v \in Workers : Drained(v)'
    BY <2>1 DEF ExitOK, Drained, protocol, work, lifeline
  <2>5. \A v \in Workers : Notifying(v)'
    BY <2>1, <2>2, <2>3 DEF ExitOK, Notifying
  <2>6. Left(w)'
    BY <2>1 DEF Left, Unloaded, Loaded, work, ExitLabels
  <2>7. Left(MASTER_ID)'
    BY <2>1, <2>6 DEF ExitOK, Left, Unloaded, Loaded, work, ExitLabels
  <2>8. ASSUME NEW v \in Workers, v # MASTER_ID PROVE stack'[v] = <<>> /\ Stage(v)'
    <3>1. PICK p : p = parent(v)
      OBVIOUS
    <3>2. p \in Workers
      BY <2>8, <3>1, ParentChild
    <3>3. Notified(v)' <=> Notified(v)
      <4>1. CASE p = w
        BY <1>1, <2>2, <3>1, <4>1 DEF Notified
      <4>2. CASE p # w /\ pc'[p] = pc[p]
        BY <2>1, <3>1, <3>2, <4>2, SameNotified
      <4>3. CASE p # w /\ pc[p] = "asleep" /\ pc'[p] = "woken"
        BY <3>1, <4>3, SameNotified DEF ExitLabels
      <4> QED BY <2>1, <3>2, <4>1, <4>2, <4>3
    <3>4. CASE v # w
      BY <2>1, <2>8, <3>3, <3>4, SameStage DEF ExitOK, work
    <3>5. CASE v = w
      <4>1. Stage(w) /\ stack[w] = <<>> /\ ~Resting(w)
        BY <2>1, <2>8, <3>5 DEF ExitOK, Resting, Waiting
      <4> QED BY <2>1, <2>6, <3>3, <3>5, <4>1 DEF Stage
    <3> QED BY <3>4, <3>5
  <2> QED BY <1>4, <2>4, <2>5, <2>7, <2>8 DEF ExitOK
<1> QED BY <1>5, <1>6

LEMMA NextExit ==
    UnderlyingInv /\ QuietInv /\ NoticeInv /\ ExitInv /\ [Next]_vars => ExitInv'
<1> SUFFICES ASSUME UnderlyingInv, QuietInv, NoticeInv, ExitInv, [Next]_vars, Exiting' PROVE ExitOK'
  BY DEF ExitInv
<1>1. ASSUME NEW w \in Workers, Scheduler(w) \/ User(w) \/ SpuriousWakeup(w) PROVE ExitOK'
  <2>1. CASE Exiting
    <3>1. Inv /\ ExitOK
      BY <2>1 DEF UnderlyingInv, ExitInv
    <3> QED BY <1>1, <3>1, ExitSteps, WaitsForExit, BeginsExit, Notifies
  <2>2. CASE ~Exiting
    <3>1. Underlying /\ Inv
      BY <2>2 DEF UnderlyingInv
    <3>2. MovesAlone(w)
      BY <1>1, <3>1, StepPrivate
    <3>3. pc[w] \notin ExitLabels /\ pc'[w] \in ExitLabels
      BY <2>2, <3>2 DEF Exiting, ExitLabels, MovesAlone
    <3>4. ~ShareDoneExit(w)
      BY <2>2 DEF NoticeInv, NoNotice, ShareDoneExit
    <3>5. BarrierReturn(w) /\ pc' = [pc EXCEPT ![w] = "exit"] /\ todo' = [todo EXCEPT ![w] = Children(w)]
      BY <1>1, <3>1, <3>3, <3>4, EntersExit
    <3>6. w = MASTER_ID /\ quiescent
      BY <3>1, <3>5 DEF BarrierReturn, Underlying, AtOK
    <3>7. QuietOK
      BY <2>2, <3>6 DEF QuietInv
    <3> QED BY <2>2, <3>1, <3>5, <3>6, <3>7, ExitBegins
  <2> QED BY <2>1, <2>2
<1>2. CASE UNCHANGED vars
  BY <1>2 DEF vars, protocol, control, work, lifeline, Exiting, ExitInv, ExitOK, TaskIds, Drained, Notifying,
     Left, Stage, Notified, Resting, Reached, Leaving, Unloaded, Loaded
<1> QED BY <1>1, <1>2 DEF Next, Terminated

\* A shutdown goes down the tree: a worker is asleep until its parent notifies
\* it, and then does nothing but notify its own children.
THEOREM ExitInvHolds == Spec => []ExitInv
<1>1. Init => ExitInv
  BY DEF Init, ExitInv, Exiting
<1>2. UnderlyingInv /\ QuietInv /\ NoticeInv /\ ExitInv /\ [Next]_vars => ExitInv'
  BY NextExit
<1> QED BY <1>1, <1>2, UnderlyingHolds, QuietInvHolds, NoticeInvHolds, PTL DEF Spec

\* The invariant the model checker verifies on small instances, for every number
\* of workers: the assertions of RT_exit hold, no request is left over and no
\* task is in any deque once the shutdown has begun.
THEOREM ExitIsClean == Spec => []CleanExit
<1>1. ExitInv => CleanExit
  <2> SUFFICES ASSUME ExitInv PROVE CleanExit
    OBVIOUS
  <2>1. ASSUME NEW w \in Workers, pc[w] = "finished", NEW c \in Chans PROVE chan_tasks[w][c] = <<>>
    <3>1. Exiting /\ ExitOK
      BY <2>1 DEF Exiting, ExitInv
    <3>2. Left(w)
      BY <2>1, <3>1 DEF ExitOK, Stage, Resting, Reached, Leaving, Waiting
    <3> QED BY <3>2 DEF Left, Unloaded, Loaded
  <2>2. Exiting => \A w \in Workers : Drained(w)
    BY DEF ExitInv, ExitOK
  <2> QED BY <2>1, <2>2 DEF CleanExit, Drained, BothSubtreesIdle
<1> QED BY <1>1, ExitInvHolds, PTL

\* The invariant the model checker verifies on small instances, for every number
\* of workers: a parent that receives requests on behalf of a worker is the only
\* consumer of that worker's channel, for the worker itself is in WAIT.
THEOREM OneConsumer == Spec => []SingleConsumer
<1>1. UnderlyingInv /\ ExitInv => SingleConsumer
  <2> SUFFICES ASSUME UnderlyingInv, ExitInv, NEW w \in Workers, pc[w] = "behalf", NEW c \in todo[w]
               PROVE  pc[c] \in Waiting
    BY DEF SingleConsumer
  <2>1. CASE Exiting
    <3>1. w # MASTER_ID /\ Stage(w)
      BY <2>1 DEF ExitInv, ExitOK, Left, ExitLabels
    <3> QED BY <3>1 DEF Stage, Resting, Reached, Leaving, Left, Waiting, ExitLabels
  <2>2. CASE ~Exiting
    <3>1. Underlying
      BY <2>2 DEF UnderlyingInv
    <3>2. Settled(c)
      BY <3>1, IdleSettled DEF Underlying, AllSettledOK, SettledOK, ScanOK
    <3> QED BY <3>2 DEF Settled
  <2> QED BY <2>1, <2>2
<1> QED BY <1>1, UnderlyingHolds, ExitInvHolds, PTL

\* No task waits anywhere while the workers shut down: a hand or a channel holds
\* nothing but RT_EXIT_FN.
LEMMA ExitPlaced ==
    ASSUME Inv, ExitOK, NEW t \in TaskIds
    PROVE  Placed(t)
<1>1. t # NoTask /\ t # ExitFn
  BY DEF TaskIds, NoTask, ExitFn
<1>2. ASSUME NEW w \in Workers
      PROVE  /\ ~InDeque(w, t) /\ ~Repeats(deque[w], t) /\ ~InHand(w, t)
             /\ \A c \in Chans : ~InChannel(w, c, t) /\ ~Repeats(chan_tasks[w][c], t)
  <2>1. deque[w] = <<>>
    BY DEF ExitOK, Drained
  <2>2. Resting(w) \/ Reached(w) \/ Leaving(w) \/ Left(w)
    BY DEF ExitOK, Stage
  <2>3. /\ hand[w] \in {NoTask, ExitFn}
        /\ \A c \in Chans : chan_tasks[w][c] = <<>> \/ chan_tasks[w][c] = <<ExitFn>>
    BY <2>2 DEF Resting, Reached, Leaving, Left, Unloaded, Loaded
  <2>4. ~Has(<<>>, t) /\ ~Repeats(<<>>, t) /\ ~Has(<<ExitFn>>, t) /\ ~Repeats(<<ExitFn>>, t)
    BY <1>1, EmptyHas, SingleHas
  <2>5. ~InDeque(w, t) /\ ~Repeats(deque[w], t)
    BY <2>1, <2>4 DEF InDeque
  <2>6. ~InHand(w, t)
    BY <1>1, <2>3 DEF InHand
  <2>7. ASSUME NEW c \in Chans PROVE ~InChannel(w, c, t) /\ ~Repeats(chan_tasks[w][c], t)
    BY <2>3, <2>4 DEF InChannel
  <2> QED BY <2>5, <2>6, <2>7
<1>3. tasks[t].status # "ready"
  BY DEF ExitOK
<1> QED BY <1>2, <1>3 DEF Placed, Alone, Somewhere

\* The invariant the model checker verifies on small instances, for every number
\* of workers and every program: pushing, popping, stealing, splitting and
\* sharing neither lose a task nor duplicate one, to the end of the shutdown.
THEOREM TasksKept == Spec => []NoTaskLost
<1>1. UnderlyingInv /\ ExitInv => NoTaskLost
  <2> SUFFICES ASSUME UnderlyingInv, ExitInv, NEW t \in TaskIds PROVE Placed(t)
    BY PlacedCount DEF NoTaskLost, TaskIds
  <2>1. CASE Exiting
    BY <2>1, ExitPlaced DEF UnderlyingInv, ExitInv
  <2>2. CASE ~Exiting
    BY <2>2 DEF UnderlyingInv, Underlying, AllPlaced
  <2> QED BY <2>1, <2>2
<1> QED BY <1>1, UnderlyingHolds, ExitInvHolds, PTL

\* The action property the model checker verifies on small instances, for every
\* number of workers and every program: no step of any worker makes a task ready
\* again that is running or done, and none leads away from done.
THEOREM TasksRunOnce == Spec => ExecutedOnce
<1>1. UnderlyingInv /\ HandsInv /\ ExitInv /\ [Next]_vars =>
        [\A t \in 1 .. Len(tasks) :
            /\ tasks[t].status = "running" => tasks'[t].status # "ready"
            /\ tasks[t].status = "done" => tasks'[t].status = "done"]_vars
  <2> SUFFICES ASSUME UnderlyingInv, HandsInv, ExitInv, Next, NEW t \in TaskIds
               PROVE  \/ tasks'[t].status = tasks[t].status
                      \/ tasks[t].status = "ready"
                      \/ tasks'[t].status = "done"
    BY DEF TaskIds
  <2>1. ASSUME NEW w \in Workers, Scheduler(w) \/ User(w) \/ SpuriousWakeup(w)
        PROVE  \/ tasks'[t].status = tasks[t].status
               \/ tasks[t].status = "ready"
               \/ tasks'[t].status = "done"
    <3>1. CASE Exiting
      <4>1. Inv /\ ExitOK
        BY <3>1 DEF UnderlyingInv, ExitInv
      <4>2. UNCHANGED tasks
        BY <2>1, <4>1, ExitSteps DEF WaitPeek, Sleep, Wake, SpuriousWakeup, RecvTask, ShareDoneExit,
           NotifyExit, SignalExit, ExitDone, work
      <4> QED BY <4>2
    <3>2. CASE ~Exiting
      <4>1. Underlying /\ ~NotifyExit(w)
        BY <3>2 DEF UnderlyingInv, NotifyExit, Exiting
      <4>2. \/ StatusKept \/ Spawned
            \/ \E u \in TaskIds :
                    /\ \A x \in TaskIds : x # u => tasks'[x].status = tasks[x].status
                    /\ \/ tasks[u].status = "ready"
                       \/ tasks[u].status # "ready" /\ tasks'[u].status = "done"
        BY <2>1, <4>1, StepTask DEF Underlying
      <4> QED BY <4>2 DEF StatusKept, Spawned
    <3> QED BY <3>1, <3>2
  <2>2. CASE Terminated
    BY <2>2 DEF Terminated, vars, work
  <2> QED BY <2>1, <2>2 DEF Next
<1> QED BY <1>1, UnderlyingHolds, HandsFree, ExitInvHolds, PTL DEF Spec, ExecutedOnce

-----------------------------------------------------------------------------
(* The way of a steal request *)

\* Where a request may be that has not failed: the thief is not among its
\* victims, and after MAX_STEAL_ATTEMPTS stops it is back with the thief.
Routed(v, x) ==
    x.state # FAILED => /\ x.try <= MAX_STEAL_ATTEMPTS
                        /\ x.try = MAX_STEAL_ATTEMPTS => x.id = v
                        /\ x.id \notin x.victims

AllRouted == \A v \in Workers, x \in Request : Has(chan_requests[v], x) => Routed(v, x)

RouteInv == ~Exiting => AllRouted

\* Worker w has received request r, and may count one more stop.
Passable(w, r) ==
    /\ r.id # w => r.try < MAX_STEAL_ATTEMPTS
    /\ r.id \notin r.victims

\* At most one request is put into the channels q, and it is well on its way.
Routes(q) ==
    \/ chan_requests' = q
    \/ \E v \in Workers, x \in Request : Routed(v, x) /\ chan_requests' = Deliver(q, v, x)

\* next_victim sends a request to a potential victim, or back to its thief.
LEMMA VictimRouted ==
    ASSUME NEW w \in Workers, NEW r \in Request, r.try <= MAX_STEAL_ATTEMPTS,
           r.id = w \/ r.id \notin r.victims,
           NEW x, x = next_victim(w, r), NEW v \in Victims(x)
    PROVE  x \in Request /\ v \in Workers /\ Routed(v, x)
<1>1. x \in Request /\ v \in Workers
  BY NextVictimType, VictimsType
<1>2. x.id = r.id /\ x.try = r.try /\ x.id \notin x.victims
  BY DEF next_victim, Request
<1>3. x.try = MAX_STEAL_ATTEMPTS => v = x.id
  BY DEF Victims
<1> QED BY <1>1, <1>2, <1>3 DEF Routed

LEMMA PassRoutes ==
    ASSUME NEW w \in Workers, NEW r \in Request, NEW q, NEW next, PassOn(w, r, q, next),
           r.try <= MAX_STEAL_ATTEMPTS, r.id = w \/ r.id \notin r.victims
    PROVE  Routes(q)
<1>1. PICK x : x = next_victim(w, r)
  OBVIOUS
<1>2. PICK v \in Victims(x) : chan_requests' = Deliver(q, v, x)
  BY <1>1 DEF PassOn, SendOn
<1>3. x \in Request /\ v \in Workers /\ Routed(v, x)
  BY <1>1, VictimRouted
<1> QED BY <1>2, <1>3 DEF Routes

\* A request that is declined travels on, or begins another round.
LEMMA DeclineRoutes ==
    ASSUME NEW w \in Workers, NEW r \in Request, NEW q, NEW next, Passable(w, r),
           decline_steal_request(w, r, q, next)
    PROVE  Routes(q)
<1>1. PICK s : s = [r EXCEPT !.try = @ + 1]
  OBVIOUS
<1>2. s \in Request /\ s.id = r.id /\ s.try = r.try + 1 /\ s.victims = r.victims
  BY <1>1 DEF Request
<1>3. CASE s.id # w /\ PassOn(w, s, q, next)
  <2>1. s.try <= MAX_STEAL_ATTEMPTS /\ s.id \notin s.victims
    <3>1. \A m, n \in Int : m < n => m + 1 <= n
      OBVIOUS
    <3>2. r.try \in Int /\ MAX_STEAL_ATTEMPTS \in Int
      BY NAssumption DEF Request, MAX_STEAL_ATTEMPTS
    <3> QED BY <1>2, <1>3, <3>1, <3>2 DEF Passable
  <2> QED BY <1>2, <1>3, <2>1, PassRoutes
<1>4. CASE s.id = w /\ Recirculate(w, s, q, next)
  <2>1. PICK t : t = Renewed(s)
    OBVIOUS
  <2>2. t \in Request /\ t.id = w /\ t.try = 0
    BY <1>2, <1>4, <2>1 DEF Renewed, Request
  <2>3. 0 <= MAX_STEAL_ATTEMPTS
    BY NAssumption DEF MAX_STEAL_ATTEMPTS
  <2>4. CASE PassOn(w, t, q, next)
    BY <2>2, <2>3, <2>4, PassRoutes
  <2>5. CASE FORGET_REQ(w, s, q, next)
    BY <2>5 DEF FORGET_REQ, Routes
  <2> QED BY <1>4, <2>1, <2>4, <2>5 DEF Recirculate
<1>5. CASE detect_termination(w, s, q, next) \/ Drop(w, s, q, next)
  BY <1>5 DEF detect_termination, Drop, Routes
<1>6. CASE BackOff(w, s, q) /\ w # MASTER_ID
  <2>1. PICK u : u = [s EXCEPT !.state = FAILED]
    OBVIOUS
  <2>2. u \in Request /\ u.state = FAILED
    BY <1>2, <2>1 DEF Request
  <2>3. chan_requests' = Deliver(q, parent(w), u)
    BY <1>6, <2>1 DEF BackOff, SendOn
  <2>4. parent(w) \in Workers
    BY <1>6, ParentChild
  <2> QED BY <2>2, <2>3, <2>4 DEF Routes, Routed
<1>7. \/ s.id # w /\ PassOn(w, s, q, next)
      \/ detect_termination(w, s, q, next) \/ Drop(w, s, q, next)
      \/ BackOff(w, s, q) /\ w # MASTER_ID
      \/ s.id = w /\ Recirculate(w, s, q, next)
  BY <1>1 DEF decline_steal_request
<1> QED BY <1>3, <1>4, <1>5, <1>6, <1>7

LEMMA DispatchRoutes ==
    ASSUME NEW w \in Workers, NEW r \in Request, NEW q, Passable(w, r), Dispatch(w, r, q)
    PROVE  Routes(q)
<1>1. ASSUME NEW next, FORGET_REQ(w, r, q, next) \/ Answered(w, q, next) PROVE Routes(q)
  BY <1>1 DEF FORGET_REQ, Answered, Routes
<1>2. ASSUME NEW next, handle_steal_request(w, r, q, next) PROVE Routes(q)
  BY <1>1, <1>2, DeclineRoutes DEF handle_steal_request
<1>3. ASSUME NEW next, NEW t, SplitOrForget(w, t, r, q, next) PROVE Routes(q)
  BY <1>1, <1>3 DEF SplitOrForget
<1>4. CASE op[w] = "idle"
  <2>1. PICK s : /\ s = IF r.id = w /\ r.state = WORKING THEN [r EXCEPT !.state = IDLE] ELSE r
                 /\ decline_steal_request(w, s, q, "recv")
    BY <1>4 DEF Dispatch
  <2>2. s \in Request /\ Passable(w, s)
    BY <2>1 DEF Request, Passable
  <2> QED BY <2>1, <2>2, DeclineRoutes
<1>5. CASE op[w] # "idle"
  BY <1>2, <1>3, <1>5, DeclineRoutes DEF Dispatch, handle
<1> QED BY <1>4, <1>5

\* A new request goes to any worker but its thief.
LEMMA NewRoutes ==
    ASSUME ProtocolOK, NEW w \in Workers, NEW s \in {WORKING, IDLE}, try_send_steal_request(w, s)
    PROVE  Routes(chan_requests)
<1> USE DEF ProtocolOK
<1>1. CASE requested[w] < MAXSTEAL /\ ChannelPop(w)
  <2>1. PICK half \in StealHalf :
          LET r == next_victim(w, NewRequest(w, s, half))
          IN  \E v \in Victims(r) : chan_requests' = Deliver(chan_requests, v, r)
    BY <1>1, RuntimeAssumption DEF try_send_steal_request
  <2>2. PICK t : t = NewRequest(w, s, half)
    OBVIOUS
  <2>3. t \in Request /\ t.id = w /\ t.try = 0
    <3>1. half \in BOOLEAN
      BY RuntimeAssumption
    <3>2. channel_stack[w] \in Seq(Chans) /\ channel_stack[w] # <<>>
      BY <1>1 DEF ChannelPop
    <3>3. channel_stack[w][Len(channel_stack[w])] \in Chans
      BY <3>2, EmptySeq, ElementOfSeq, LenProperties
    <3> QED BY <2>2, <3>1, <3>3 DEF NewRequest, Request, WORKING, IDLE
  <2>4. PICK x : x = next_victim(w, t)
    OBVIOUS
  <2>5. PICK v \in Victims(x) : chan_requests' = Deliver(chan_requests, v, x)
    BY <2>1, <2>2, <2>4
  <2>6. 0 <= MAX_STEAL_ATTEMPTS
    BY NAssumption DEF MAX_STEAL_ATTEMPTS
  <2>7. x \in Request /\ v \in Workers /\ Routed(v, x)
    BY <2>3, <2>4, <2>6, VictimRouted
  <2> QED BY <2>5, <2>7 DEF Routes
<1> QED BY <1>1 DEF try_send_steal_request, Routes

\* What was in the channels before, and what has been added
LEMMA RoutesKeep ==
    ASSUME NEW q, Queues(q), Routes(q),
           \A v \in Workers, x \in Request : Has(q[v], x) => Routed(v, x)
    PROVE  AllRouted'
<1>1. CASE chan_requests' = q
  BY <1>1 DEF AllRouted, Routed
<1>2. ASSUME NEW u \in Workers, NEW s \in Request, Routed(u, s), chan_requests' = Deliver(q, u, s)
      PROVE  AllRouted'
  <2>1. \A v \in Workers : \A x : Has(chan_requests'[v], x) => Has(q[v], x) \/ (v = u /\ x = s)
    BY <1>2, DeliveredHas
  <2> QED BY <1>2, <2>1 DEF AllRouted, Routed
<1> QED BY <1>1, <1>2 DEF Routes

\* A worker that receives a request out of its own channel or on behalf of a
\* subtree that has backed off may pass it on.
LEMMA RecvRouted ==
    ASSUME Inv, AllHeld, AllAccounts, AllSettledOK, AllRouted, NEW w \in Workers,
           RecvOwn(w) \/ RecvBehalf(w)
    PROVE  AllRouted'
<1> USE DEF Inv, ControlOK, ProtocolOK
<1>1. ASSUME NEW c \in Workers, chan_requests[c] # <<>>,
             Dispatch(w, Head(chan_requests[c]), [chan_requests EXCEPT ![c] = Tail(@)]),
             Head(chan_requests[c]).state # FAILED,
             c = w \/ Head(chan_requests[c]).id # c
      PROVE  AllRouted'
  <2>1. PICK r : r = Head(chan_requests[c])
    OBVIOUS
  <2>2. PICK q : q = [chan_requests EXCEPT ![c] = Tail(@)]
    OBVIOUS
  <2>3. Taken(r, q) /\ Dispatch(w, r, q)
    BY <1>1, <2>1, <2>2 DEF Taken
  <2>4. r \in Request /\ Has(chan_requests[c], r)
    BY <1>1, <2>1, TakeType, HeadHas
  <2>5. Routed(c, r) /\ r.state # FAILED /\ (c = w \/ r.id # c)
    BY <1>1, <2>1, <2>4 DEF AllRouted
  <2>6. r.try \in Int /\ MAX_STEAL_ATTEMPTS \in Int
    BY <2>4, NAssumption DEF Request, MAX_STEAL_ATTEMPTS
  <2>7. Passable(w, r)
    BY <2>5, <2>6 DEF Routed, Passable
  <2>8. Queues(q) /\ \A v \in Workers : \A x : Has(q[v], x) => Has(chan_requests[v], x)
    BY <2>3, TakenHas DEF Queues
  <2>9. Routes(q)
    BY <2>3, <2>4, <2>7, DispatchRoutes
  <2> QED BY <2>8, <2>9, RoutesKeep DEF AllRouted
<1>2. CASE RecvOwn(w)
  BY <1>1, <1>2 DEF RecvOwn
<1>3. CASE RecvBehalf(w)
  <2>1. PICK c : c = NextInScan(w)
    OBVIOUS
  <2>2. c \in todo[w] /\ pc[w] = "behalf" /\ c \in Workers
    <3>1. todo[w] # {} /\ todo[w] \subseteq Nat /\ pc[w] = "behalf" /\ todo[w] \subseteq Workers
      BY <1>3 DEF RecvBehalf, Workers
    <3>2. Minimum(todo[w]) \in todo[w]
      BY <3>1, MinimumIsElement
    <3>3. \A S : S \subseteq todo[w] /\ S # {} => Minimum(S) \in todo[w]
      BY <3>1, MinimumIsElement
    <3> QED BY <2>1, <3>1, <3>2, <3>3 DEF NextInScan
  <2>3. CASE chan_requests[c] = <<>>
    BY <1>3, <2>1, <2>3 DEF RecvBehalf, protocol, AllRouted, Routed
  <2>4. CASE chan_requests[c] # <<>>
    <3>1. Dispatch(w, Head(chan_requests[c]), [chan_requests EXCEPT ![c] = Tail(@)])
      BY <1>3, <2>1, <2>4 DEF RecvBehalf
    <3>2. Head(chan_requests[c]) \in Request /\ Has(chan_requests[c], Head(chan_requests[c]))
      BY <2>2, <2>4, TakeType, HeadHas
    <3>3. Head(chan_requests[c]).state # FAILED /\ Head(chan_requests[c]).id # c
      BY <2>2, <3>2, FoundRequest
    <3> QED BY <1>1, <2>2, <2>4, <3>1, <3>3
  <2> QED BY <2>3, <2>4
<1> QED BY <1>2, <1>3

LEMMA StepRouted ==
    ASSUME Underlying, AllRouted, NEW w \in Workers,
           Scheduler(w) \/ User(w) \/ SpuriousWakeup(w), ~NotifyExit(w)
    PROVE  AllRouted'
<1> USE DEF Underlying, Inv, ProtocolOK
<1>1. ASSUME UNCHANGED chan_requests PROVE AllRouted'
  BY <1>1 DEF AllRouted, Routed
<1>2. CASE Quiet(w) \/ ShareSend(w) \/ RecvTask(w)
  BY <1>1, <1>2, QuietKeeps DEF ShareSend, RecvTask, protocol
<1>3. CASE Sends(w)
  <2>1. \/ UNCHANGED chan_requests
        \/ \E s \in {WORKING, IDLE} : try_send_steal_request(w, s)
    BY <1>3, SendsMoves
  <2>2. Queues(chan_requests)
    BY DEF Queues
  <2> QED BY <1>1, <2>1, <2>2, NewRoutes, RoutesKeep DEF AllRouted
<1>4. CASE RecvOwn(w) \/ RecvBehalf(w)
  BY <1>4, RecvRouted
<1>5. CASE RecvFailed(w)
  <2>1. PICK q : q = [chan_requests EXCEPT ![w] = Tail(@)]
    OBVIOUS
  <2>2. chan_requests[w] # <<>> /\ chan_requests' = q
    BY <1>5, <2>1 DEF RecvFailed
  <2>3. Taken(Head(chan_requests[w]), q)
    BY <2>1, <2>2 DEF Taken
  <2>4. Queues(q) /\ \A v \in Workers : \A x : Has(q[v], x) => Has(chan_requests[v], x)
    BY <2>3, TakenHas DEF Queues
  <2> QED BY <2>2, <2>4, RoutesKeep DEF AllRouted, Routes
<1> QED BY <1>2, <1>3, <1>4, <1>5, StepKinds

\* Until shutdown, every request is where next_victim may have sent it.
THEOREM RouteInvHolds == Spec => []RouteInv
<1>1. Init => RouteInv
  <2> SUFFICES ASSUME Init PROVE AllRouted
    BY DEF RouteInv
  <2>1. \A v \in Workers : chan_requests[v] = <<>>
    BY DEF Init
  <2> QED BY <2>1, EmptyHas DEF AllRouted
<1>2. UnderlyingInv /\ RouteInv /\ [Next]_vars => RouteInv'
  <2> SUFFICES ASSUME UnderlyingInv, RouteInv, [Next]_vars, ~Exiting' PROVE AllRouted'
    BY DEF RouteInv
  <2>1. ASSUME NEW w \in Workers, Scheduler(w) \/ User(w) \/ SpuriousWakeup(w) PROVE AllRouted'
    <3>1. ~Exiting
      BY <2>1, ExitIsFinal DEF UnderlyingInv
    <3>2. ~NotifyExit(w)
      BY <3>1 DEF NotifyExit, Exiting
    <3> QED BY <2>1, <3>1, <3>2, StepRouted DEF UnderlyingInv, RouteInv
  <2>2. CASE UNCHANGED vars
    BY <2>2 DEF vars, protocol, Exiting, RouteInv, AllRouted, Routed
  <2> QED BY <2>1, <2>2 DEF Next, Terminated
<1> QED BY <1>1, <1>2, UnderlyingHolds, PTL DEF Spec

\* One request per channel of a worker: there is room for them all.
LEMMA RoomForAll ==
    ASSUME ProtocolOK, AllHeld, NEW w \in Workers
    PROVE  Len(chan_requests[w]) <= Capacity
<1>1. PICK s : s = chan_requests[w]
  OBVIOUS
<1>2. s \in Seq(Request)
  BY <1>1 DEF ProtocolOK
<1>3. Len(s) \in Nat /\ \A i \in 1 .. Len(s) : s[i] \in Request
  BY <1>2, LenProperties, ElementOfSeq
<1>4. PICK S : S = Workers \X Chans
  OBVIOUS
<1>5. IsFiniteSet(S) /\ Cardinality(S) = N * MAXSTEAL
  <2>1. IsFiniteSet(Workers) /\ Cardinality(Workers) = N
    <3>1. N \in Nat \ {0} /\ 0 \in Int /\ N - 1 \in Int /\ ~(0 > N - 1) /\ (N - 1) - 0 + 1 = N
      BY NAssumption
    <3> QED BY <3>1, FS_Interval DEF Workers
  <2>2. IsFiniteSet(Chans) /\ Cardinality(Chans) = MAXSTEAL
    <3>1. 1 \in Int /\ MAXSTEAL \in Int /\ ~(1 > MAXSTEAL) /\ MAXSTEAL - 1 + 1 = MAXSTEAL
      BY RuntimeAssumption
    <3> QED BY <3>1, FS_Interval DEF Chans
  <2> QED BY <1>4, <2>1, <2>2, FS_Product
<1>6. PICK D : D = 1 .. Len(s)
  OBVIOUS
<1>7. IsFiniteSet(D) /\ Cardinality(D) = Len(s)
  <2>1. 1 \in Int /\ Len(s) \in Int /\ (IF 1 > Len(s) THEN 0 ELSE Len(s) - 1 + 1) = Len(s)
    BY <1>3
  <2> QED BY <1>6, <2>1, FS_Interval
<1>8. PICK f : f = [i \in D |-> <<s[i].id, s[i].chan>>]
  OBVIOUS
<1>9. f \in [D -> S]
  BY <1>3, <1>4, <1>6, <1>8 DEF Request
<1>10. ~(Cardinality(S) < Cardinality(D))
  <2> SUFFICES ASSUME Cardinality(S) < Cardinality(D) PROVE FALSE
    OBVIOUS
  <2>1. PICK i \in D, j \in D : i # j /\ f[i] = f[j]
    BY <1>5, <1>7, <1>9, FS_PigeonHole
  <2>2. PICK v : v = s[i].id
    OBVIOUS
  <2>3. PICK c : c = s[i].chan
    OBVIOUS
  <2>4. Mine(s[i], v, c) /\ Mine(s[j], v, c) /\ v \in Workers /\ c \in Chans
    BY <1>3, <1>6, <1>8, <2>1, <2>2, <2>3 DEF Mine, Request
  <2>5. Twice(chan_requests[w], v, c)
    BY <1>1, <1>6, <2>1, <2>4 DEF Twice
  <2> QED BY <2>4, <2>5 DEF AllHeld, OneHolder
<1>11. \A a, b \in Int : ~(a < b) => b <= a
  OBVIOUS
<1>12. N * MAXSTEAL \in Int /\ MAXSTEAL * N = N * MAXSTEAL
  BY NAssumption, RuntimeAssumption
<1> QED BY <1>1, <1>3, <1>5, <1>7, <1>10, <1>11, <1>12 DEF Capacity

\* The invariant the model checker verifies on small instances, for every number
\* of workers and of requests per worker: the assertions of SEND_REQ, RECV_REQ,
\* decline_steal_request and next_victim on the requests they handle.
THEOREM RequestsRight == Spec => []RequestAssertions
<1>1. UnderlyingInv /\ RouteInv /\ ExitInv => RequestAssertions
  <2> SUFFICES ASSUME UnderlyingInv, RouteInv, ExitInv, NEW w \in Workers
               PROVE  /\ Len(chan_requests[w]) <= Capacity
                      /\ \A i \in 1 .. Len(chan_requests[w]) :
                            IF chan_requests[w][i].state = FAILED
                            THEN chan_requests[w][i].id \in Children(w) \ idle[w]
                            ELSE /\ chan_requests[w][i].try \in 0 .. MAX_STEAL_ATTEMPTS
                                 /\ chan_requests[w][i].try = MAX_STEAL_ATTEMPTS => chan_requests[w][i].id = w
                                 /\ chan_requests[w][i].id \notin chan_requests[w][i].victims
    BY DEF RequestAssertions
  <2>1. CASE Exiting
    <3>1. chan_requests[w] = <<>>
      BY <2>1 DEF ExitInv, ExitOK, Drained
    <3>2. 0 <= Capacity
      <4>1. \A m, n \in Nat : 0 <= m * n
        OBVIOUS
      <4> QED BY <4>1, NAssumption, RuntimeAssumption DEF Capacity
    <3> QED BY <3>1, <3>2
  <2>2. CASE ~Exiting
    <3>1. Underlying /\ AllRouted
      BY <2>2 DEF UnderlyingInv, RouteInv
    <3>2. Len(chan_requests[w]) <= Capacity
      BY <3>1, RoomForAll DEF Underlying, Inv
    <3>3. ASSUME NEW i \in 1 .. Len(chan_requests[w]), NEW x, x = chan_requests[w][i]
          PROVE  IF x.state = FAILED THEN x.id \in Children(w) \ idle[w]
                 ELSE /\ x.try \in 0 .. MAX_STEAL_ATTEMPTS
                      /\ x.try = MAX_STEAL_ATTEMPTS => x.id = w
                      /\ x.id \notin x.victims
      <4>1. x \in Request /\ Has(chan_requests[w], x)
        <5>1. chan_requests[w] \in Seq(Request)
          BY <3>1 DEF Underlying, Inv, ProtocolOK
        <5> QED BY <3>3, <5>1, ElementOfSeq DEF Has
      <4>2. CASE x.state = FAILED
        <5>1. x.id \in Children(w) /\ Settled(x.id) /\ x.id \in Workers
          BY <3>1, <4>1, <4>2 DEF Underlying, AllSettledOK, SettledOK, RequestsOK, RequestOK, Request
        <5>2. ASSUME x.id \in idle[w] PROVE FALSE
          <6>1. PICK y \in Request : Has(Lifelines(w), y) /\ y.id = x.id
            BY <3>1, <5>1, <5>2 DEF Underlying, AllSettledOK, SettledOK, FlagsOK
          <6> QED BY <3>1, <4>1, <5>1, <6>1, NotBoth DEF Underlying, Settled, Inv
        <5> QED BY <4>2, <5>1, <5>2
      <4>3. CASE x.state # FAILED
        <5>1. Routed(w, x) /\ x.try \in Nat /\ MAX_STEAL_ATTEMPTS \in Int
          BY <3>1, <4>1, NAssumption DEF AllRouted, Request, MAX_STEAL_ATTEMPTS
        <5> QED BY <4>3, <5>1 DEF Routed
      <4> QED BY <4>2, <4>3
    <3> QED BY <3>2, <3>3
  <2> QED BY <2>1, <2>2
<1> QED BY <1>1, UnderlyingHolds, RouteInvHolds, ExitInvHolds, PTL
=============================================================================
