---------------------------- MODULE LoopsProofs -----------------------------
(***************************************************************************)
(* Theorems about Loops, for any number of workers, any strategies and any *)
(* sequences of loops.                                                     *)
(*                                                                         *)
(* ControlOK says where tasks are (one deque, channel or frame), how far   *)
(* each has come, and what a frame looks like at each label.  FuturesOK    *)
(* says that a future has one task that sets it, and that its result is    *)
(* there from then on.  They are inductive together; the other invariants  *)
(* are, given these two: AwaitsOK (a future is awaited in one place), and  *)
(* given that as well, ResultsOK (which part holds the result of which     *)
(* iterations, and who awaits it).                                         *)
(*                                                                         *)
(* An action is first shown to have a shape (Shape lemmas: which task,     *)
(* future and frame change, and into what), and each invariant is then     *)
(* shown to be kept by what has that shape.                                *)
(***************************************************************************)
EXTENDS Loops, FiniteSetTheorems, WellFoundedInduction, TLAPS

-----------------------------------------------------------------------------
(* The inductive invariants *)

Parts == 2 .. Len(tasks)
Pairs == Nat \X Int

TaskRecord ==
    [splittable : BOOLEAN, loop : Nat, start : Int, cur : Int, end : Int, i : Int,
     sum : SUBSET Pairs, future : Nat, futures : Seq(Nat), done : BOOLEAN]
FutureRecord ==
    [has_channel : BOOLEAN, chan : Seq(SUBSET Pairs), set : BOOLEAN,
     buf : SUBSET Pairs, freed : BOOLEAN]
Labels == {"user", "await", "barrier", "popped", "received", "test", "poll", "reduce"}
FrameRecord == [task : Nat, pc : Labels, future : Nat]

TypeOK ==
    /\ program \in Seq(Int \X Int)
    /\ \A l \in DOMAIN program : program[l][1] <= program[l][2]
    /\ tasks \in Seq(TaskRecord) /\ Len(tasks) >= 1
    /\ futures \in Seq(FutureRecord)
    /\ deque \in [Workers -> Seq(Nat)]
    /\ stack \in [Workers -> Seq(FrameRecord)]
    /\ asked \in [Workers -> BOOLEAN]
    /\ chan \in [Workers -> Nat]
    /\ handles \in SUBSET Nat
    /\ results \in Seq(Seq(SUBSET Pairs)) /\ Len(results) <= Len(program)

\* Some worker has a frame for t; and t's function has been entered.
OnStack(t) == \E w \in Workers : \E d \in 1 .. Depth(w) : stack[w][d].task = t
Started(t) == \E w \in Workers : \E d \in 1 .. Depth(w) :
                /\ stack[w][d].task = t
                /\ stack[w][d].pc \notin {"popped", "received"}

\* A frame by itself
FrameOK(w, d) ==
    LET fr == stack[w][d]
    IN  /\ fr.task \in 1 .. Len(tasks) /\ ~tasks[fr.task].done
        /\ fr.task = Root <=> w = Master /\ d = 1
        /\ fr.task = Root => fr.pc \in {"user", "barrier", "await"}
        /\ fr.pc \in {"user", "barrier"} => fr.task = Root
        /\ d < Depth(w) => fr.pc \in {"await", "barrier"}
        /\ fr.pc = "popped" => w = Master /\ d = 2
        /\ IF fr.pc = "await" THEN fr.future \in 1 .. Len(futures)
           ELSE fr.future = NoFuture
        /\ fr.pc \in {"reduce", "await"} /\ fr.task # Root =>
                tasks[fr.task].i = tasks[fr.task].end

StackOK ==
    /\ Depth(Master) >= 1
    /\ \A w \in Workers : \A d \in 1 .. Depth(w) : FrameOK(w, d)
    /\ \A v, w \in Workers : \A e \in 1 .. Depth(v), d \in 1 .. Depth(w) :
            stack[v][e].task = stack[w][d].task => v = w /\ e = d

\* Tasks that wait do so in one place, in the deque of worker 1 or in a channel.
Waiting(t) == t \in Parts /\ ~tasks[t].done /\ ~OnStack(t)

PlacesOK ==
    /\ \A w \in Workers \ {Master} : deque[w] = <<>>
    /\ \A k \in 1 .. Len(deque[Master]) :
        /\ Waiting(deque[Master][k])
        /\ \A w \in Workers : chan[w] # deque[Master][k]
    /\ \A j, k \in 1 .. Len(deque[Master]) :
            deque[Master][j] = deque[Master][k] => j = k
    /\ \A w \in Workers : chan[w] # NoTask =>
        /\ Waiting(chan[w])
        /\ \A v \in Workers : chan[v] = chan[w] => v = w

\* The iterations of a task: before ASYNC_FOR has set i, and after
RangeOK(t) ==
    LET r == tasks[t]
    IN  /\ r.loop \in 1 .. Len(results)
        /\ r.done \/ IF Started(t) THEN r.i <= r.end /\ r.cur = r.i + 1
                     ELSE r.start <= r.end /\ r.cur = r.start

RangesOK == \A t \in Parts : RangeOK(t)

\* References to futures
RefsOK ==
    /\ handles \subseteq 1 .. Len(futures)
    /\ \A u \in 1 .. Len(tasks) :
        /\ tasks[u].future \in 0 .. Len(futures)
        /\ \A k \in 1 .. Len(tasks[u].futures) : tasks[u].futures[k] \in 1 .. Len(futures)

ControlOK == TypeOK /\ StackOK /\ PlacesOK /\ RangesOK /\ RefsOK

-----------------------------------------------------------------------------
(* Futures *)

\* A result is in the channel, if there is one; otherwise in the future.
FutureOK(f) ==
    /\ futures[f].has_channel => ~futures[f].set
    /\ ~futures[f].has_channel => futures[f].chan = <<>>
    /\ \E t \in Parts : tasks[t].future = f

\* t alone sets its future, when it returns.
SetOnce(t) ==
    LET f == tasks[t].future
    IN  /\ \A u \in Parts : tasks[u].future = f /\ f # NoFuture => u = t
        /\ f # NoFuture => (tasks[t].done <=> futures[f].freed \/ READY(futures[f]))

FuturesOK ==
    /\ tasks[Root].future = NoFuture
    /\ \A t \in Parts : SetOnce(t)
    /\ \A f \in 1 .. Len(futures) : FutureOK(f)

\* Where a future is awaited, now or later
InList(f, u) == \E k \in 1 .. Len(tasks[u].futures) : tasks[u].futures[k] = f
FrameAt(f, w, d) == d \in 1 .. Depth(w) /\ stack[w][d].future = f
InFrame(f, w) == \E d : FrameAt(f, w, d)

ListOK(u) ==
    LET s == tasks[u].futures
    IN  /\ tasks[u].done => s = <<>>
        /\ \A j, k \in 1 .. Len(s) : s[j] = s[k] => j = k

AwaitedOnce(f) ==
    /\ futures[f].freed =>
        /\ f \notin handles
        /\ \A u \in 1 .. Len(tasks) : ~InList(f, u)
        /\ \A w \in Workers : ~InFrame(f, w)
    /\ ~futures[f].freed =>
        \/ f \in handles
        \/ \E u \in 1 .. Len(tasks) : InList(f, u)
        \/ \E w \in Workers : InFrame(f, w)
    /\ f \in handles => \A u \in 1 .. Len(tasks) : ~InList(f, u)
    /\ f \in handles => \A w \in Workers : ~InFrame(f, w)
    /\ \A u \in 1 .. Len(tasks), w \in Workers : ~(InList(f, u) /\ InFrame(f, w))
    /\ \A u, v \in 1 .. Len(tasks) : InList(f, u) /\ InList(f, v) => u = v
    /\ \A v, w \in Workers : \A e, d : FrameAt(f, v, e) /\ FrameAt(f, w, d) => v = w /\ e = d

AwaitsOK ==
    /\ \A u \in 1 .. Len(tasks) : ListOK(u)
    /\ \A f \in 1 .. Len(futures) : AwaitedOnce(f)

-----------------------------------------------------------------------------
(* Results *)

\* Task u has a frame in which it awaits f.
FrameOf(f, u) == \E w \in Workers : \E d : FrameAt(f, w, d) /\ stack[w][d].task = u

\* u awaits f, now or later; so does the root task, in AWAIT.
AwaitedBy(f, u) == InList(f, u) \/ FrameOf(f, u)
ByRoot(f) == f \in handles \/ FrameOf(f, Root)

HasFuture(t) == t \in Parts /\ tasks[t].future # NoFuture
Sibling(t, u) == tasks[u].loop = tasks[t].loop

\* The iterations whose result t has, will have, or has put into its future,
\* until it is taken from there
Held(t) ==
    IF ~tasks[t].done THEN tasks[t].sum \cup Rest(t)
    ELSE IF futures[tasks[t].future].freed THEN {}
    ELSE ResultOf(futures[tasks[t].future])

\* The result of t is awaited by an earlier part of the same loop, if not by the
\* root task; or it is lost, the loop having been split before it ran.
Owed(t) ==
    LET f == tasks[t].future
    IN  \/ futures[f].freed
        \/ ByRoot(f)
        \/ tasks[t].loop \in early /\ InList(f, Root)
        \/ \E u \in Parts : u < t /\ Sibling(t, u) /\ AwaitedBy(f, u)

\* The part whose result the root task takes; all iterations of the loop
Final(t) == HasFuture(t) /\ ByRoot(tasks[t].future)
Whole(t) == LoopRange(tasks[t].loop)

SiblingsOK == \A t, u \in Parts : Sibling(t, u) => (HasFuture(t) <=> HasFuture(u))
OwedOK == \A t : HasFuture(t) => Owed(t)
FinalOK == \A t, u : Final(t) /\ Final(u) /\ Sibling(t, u) => t = u
HeldOK == \A t : HasFuture(t) => Held(t) \subseteq Whole(t)
CompleteOK == \A t : Final(t) => \A it \in Whole(t) :
                \E u : HasFuture(u) /\ Sibling(t, u) /\ it \in Held(u)

ResultsOK ==
    SiblingsOK /\ OwedOK /\ FinalOK /\ HeldOK /\ CompleteOK /\ ResultComplete

-----------------------------------------------------------------------------
(* How an action changes the stacks *)

Retopped(w, fr) ==
    /\ Depth(w) > 0 /\ fr \in FrameRecord
    /\ stack' \in [Workers -> Seq(FrameRecord)]
    /\ \A v \in Workers : Len(stack'[v]) = Len(stack[v])
    /\ \A v \in Workers : \A d \in 1 .. Len(stack[v]) :
            stack'[v][d] = IF v = w /\ d = Depth(w) THEN fr ELSE stack[v][d]

Called(w, fr) ==
    /\ fr \in FrameRecord
    /\ stack' \in [Workers -> Seq(FrameRecord)]
    /\ \A v \in Workers : Len(stack'[v]) = IF v = w THEN Depth(w) + 1 ELSE Len(stack[v])
    /\ \A v \in Workers : \A d \in 1 .. Len(stack[v]) : stack'[v][d] = stack[v][d]
    /\ stack'[w][Depth(w) + 1] = fr

Returned(w) ==
    /\ Depth(w) > 0
    /\ stack' \in [Workers -> Seq(FrameRecord)]
    /\ \A v \in Workers : Len(stack'[v]) = IF v = w THEN Depth(w) - 1 ELSE Len(stack[v])
    /\ \A v \in Workers : \A d \in 1 .. Len(stack'[v]) : stack'[v][d] = stack[v][d]

LEMMA TopFrame ==
    ASSUME TypeOK, NEW w \in Workers, Depth(w) > 0
    PROVE  /\ Depth(w) \in 1 .. Len(stack[w]) /\ Top(w) \in FrameRecord
           /\ Top(w) = stack[w][Depth(w)]
BY DEF TypeOK, Depth, Top

LEMMA Retop ==
    ASSUME TypeOK, NEW w \in Workers, Depth(w) > 0, NEW fr \in FrameRecord,
           stack' = [stack EXCEPT ![w] = [stack[w] EXCEPT ![Depth(w)] = fr]]
    PROVE  Retopped(w, fr)
BY TopFrame DEF TypeOK, Retopped, Depth

LEMMA GotoRetops ==
    ASSUME TypeOK, NEW w \in Workers, NEW L, At(w, L), NEW l \in Labels, Goto(w, l)
    PROVE  /\ Retopped(w, [Top(w) EXCEPT !.pc = l])
           /\ Top(w).pc \in L
<1>1. [Top(w) EXCEPT !.pc = l] \in FrameRecord
  BY TopFrame DEF At, FrameRecord
<1>2. stack' = [stack EXCEPT ![w] = [stack[w] EXCEPT ![Depth(w)] = [Top(w) EXCEPT !.pc = l]]]
  BY TopFrame DEF At, Goto, TypeOK, Top, Depth
<1> QED BY <1>1, <1>2, Retop DEF At

LEMMA CallCalls ==
    ASSUME TypeOK, NEW w \in Workers, NEW t \in Nat, NEW l \in Labels, Call(w, t, l)
    PROVE  Called(w, Frame(t, l))
<1>1. Frame(t, l) \in FrameRecord
  BY DEF Frame, FrameRecord, NoFuture
<1>2. stack' = [stack EXCEPT ![w] = Append(stack[w], Frame(t, l))]
  BY DEF Call, TypeOK
<1> QED BY <1>1, <1>2 DEF TypeOK, Called, Depth

LEMMA PopReturns ==
    ASSUME TypeOK, NEW w \in Workers, Depth(w) > 0,
           stack' = [stack EXCEPT ![w] = SubSeq(@, 1, Len(@) - 1)]
    PROVE  Returned(w)
BY DEF TypeOK, Returned, Depth

-----------------------------------------------------------------------------
(* Where a loop is split *)

LEMMA DivisionShrinks ==
    ASSUME NEW x \in Nat, NEW k \in Nat, x > 1, k > 1
    PROVE  x \div k \in Nat /\ x \div k < x
<1> DEFINE q == x \div k
           m == x % k
<1>1. q \in Int /\ m \in 0 .. k - 1 /\ x = q * k + m
  OBVIOUS
<1> HIDE DEF q, m
<1>2. q >= 0
  <2>1. CASE q < 0
    <3>1. q * k <= -k
      BY <1>1, <2>1
    <3> QED BY <1>1, <3>1
  <2> QED BY <1>1, <2>1
<1>3. q = 0 \/ q * k >= q + q
  BY <1>1, <1>2
<1>4. q < x
  BY <1>1, <1>2, <1>3
<1> QED BY <1>1, <1>2, <1>4 DEF q

\* Whatever the strategy, both parts of a split have iterations.
LEMMA SplitInside ==
    ASSUME NEW r \in TaskRecord, r.cur <= r.end, SPLITTABLE(r), NEW s \in SPLIT_FUNC(r)
    PROVE  s \in Int /\ r.cur < s /\ s < r.end
<1> DEFINE n == r.end - r.cur
<1>1. n \in Nat /\ n > 1 /\ Left(r) = n /\ r.cur \in Int /\ r.end \in Int /\ r.start \in Int
  BY DEF SPLITTABLE, Left, labs, TaskRecord
<1> DEFINE h == n \div 2
<1>h. h \in Nat /\ h >= 1 /\ h < n
  BY <1>1
<1>2. split_half(r) = r.cur + h
  BY <1>1 DEF split_half, Quotient
<1> HIDE DEF n, h
<1>3. num_workers \in Nat /\ num_workers > 1
  BY LoopsAssumption
<1>4. CASE s = split_half(r)
  BY <1>1, <1>h, <1>2, <1>4 DEF n
<1>5. CASE s = split_guided(r)
  <2> DEFINE c == AtLeastOne(labs(r.end - r.start) \div num_workers)
  <2>1. labs(r.end - r.start) \in Nat
    BY <1>1 DEF labs
  <2>2. labs(r.end - r.start) \div num_workers \in Int
    BY <1>3, <2>1
  <2>3. c \in Int /\ c >= 1
    BY <2>2 DEF AtLeastOne
  <2>4. s = IF n <= c THEN split_half(r) ELSE r.end - c
    BY <1>1, <1>5 DEF split_guided
  <2> HIDE DEF c
  <2> QED BY <1>1, <1>h, <1>2, <2>3, <2>4 DEF n
<1>7. MAXSTEAL * num_workers \in Int
  BY LoopsAssumption
<1>6. ASSUME NEW k \in 1 .. MAXSTEAL * num_workers, s = split_adaptive(r, k)
      PROVE  s \in Int /\ r.cur < s /\ s < r.end
  <2>0. k \in Nat /\ k >= 1
    BY <1>7
  <2> DEFINE c == AtLeastOne(n \div (k + 1))
  <2>1. n \div (k + 1) \in Nat /\ n \div (k + 1) < n
    BY <1>1, <2>0, DivisionShrinks
  <2>2. c \in Int /\ c >= 1 /\ c < n
    BY <1>1, <2>1 DEF AtLeastOne
  <2>3. s = r.end - c
    BY <1>1, <1>6 DEF split_adaptive
  <2> HIDE DEF c
  <2> QED BY <1>1, <2>2, <2>3 DEF n
<1> QED BY <1>4, <1>5, <1>6 DEF SPLIT_FUNC

-----------------------------------------------------------------------------
(* How a split changes the tasks *)

\* Task t, which is r by now, is split at s; the new future f goes to the list
\* of task c.
SplitTasks(t, c, r, s, f) ==
    tasks' = Append([[tasks EXCEPT ![t] = Lower(r, s)]
                        EXCEPT ![c].futures = AddFuture(f, @)],
                    Upper(r, s, f))

Given(u, t, r, s) == IF u = t THEN Lower(r, s) ELSE tasks[u]

LEMMA SplitShape ==
    ASSUME TypeOK, NEW t \in Parts, NEW c \in 1 .. Len(tasks), NEW r \in TaskRecord,
           NEW s \in Int, NEW f \in Nat, SplitTasks(t, c, r, s, f)
    PROVE  /\ tasks' \in Seq(TaskRecord) /\ Len(tasks') = Len(tasks) + 1
           /\ \A u \in 1 .. Len(tasks) : tasks'[u] =
                IF u = c THEN [Given(u, t, r, s) EXCEPT
                                    !.futures = AddFuture(f, Given(u, t, r, s).futures)]
                ELSE Given(u, t, r, s)
           /\ tasks'[Len(tasks) + 1] = Upper(r, s, f)
<1> DEFINE low == Lower(r, s)
           one == [tasks EXCEPT ![t] = low]
           two == [one EXCEPT ![c].futures = AddFuture(f, @)]
           up  == Upper(r, s, f)
<1>1. low \in TaskRecord
  BY DEF Lower, TaskRecord
<1>2. up \in TaskRecord
  <2>1. <<>> \in Seq(Nat) /\ {} \in SUBSET Pairs
    OBVIOUS
  <2> QED BY <2>1 DEF Upper, TaskRecord
<1>3. one \in Seq(TaskRecord) /\ Len(one) = Len(tasks)
  BY <1>1 DEF TypeOK, Parts
<1>4. \A u \in 1 .. Len(tasks) : one[u] = Given(u, t, r, s)
  BY DEF Given, TypeOK, Parts
<1> HIDE DEF one, low
<1>5. one[c] \in TaskRecord /\ one[c].futures \in Seq(Nat)
  <2>1. one[c] \in TaskRecord
    BY <1>3 DEF TypeOK
  <2> QED BY <2>1 DEF TaskRecord
<1>6. AddFuture(f, one[c].futures) \in Seq(Nat)
  BY <1>5 DEF AddFuture
<1> DEFINE new == [one[c] EXCEPT !.futures = AddFuture(f, one[c].futures)]
<1>7. new \in TaskRecord
  BY <1>5, <1>6 DEF TaskRecord
<1>8. two = [one EXCEPT ![c] = new]
  BY <1>3
<1> HIDE DEF two, new
<1>81. /\ two \in Seq(TaskRecord) /\ Len(two) = Len(tasks)
       /\ \A u \in 1 .. Len(tasks) : two[u] = IF u = c THEN new ELSE one[u]
  BY <1>3, <1>7, <1>8
<1> HIDE DEF two, up
<1>9. tasks' = Append(two, up)
  BY DEF SplitTasks, two, one, low, up
<1>10. tasks' \in Seq(TaskRecord) /\ Len(tasks') = Len(tasks) + 1
       /\ (\A u \in 1 .. Len(tasks) : tasks'[u] = two[u]) /\ tasks'[Len(tasks) + 1] = up
  BY <1>2, <1>81, <1>9, SMTT(30)
<1> QED BY <1>4, <1>81, <1>10 DEF up, new

LEMMA RanType ==
    ASSUME NEW r \in TaskRecord, NEW j \in Int
    PROVE  Ran(r, j) \in TaskRecord
<1>1. r.loop \in Nat /\ r.i \in Int
  BY DEF TaskRecord
<1>2. {<<r.loop, i>> : i \in r.i .. j - 1} \in SUBSET Pairs
  BY <1>1 DEF Pairs
<1>3. r.sum \cup {<<r.loop, i>> : i \in r.i .. j - 1} \in SUBSET Pairs
  BY <1>2 DEF TaskRecord
<1>4. r.cur + (j - r.i) \in Int
  BY DEF TaskRecord
<1> QED BY <1>3, <1>4 DEF Ran, TaskRecord

-----------------------------------------------------------------------------
(* Initial states *)

LEMMA NewTaskType ==
    ASSUME NEW l \in Nat, NEW lo \in Int, NEW hi \in Int, NEW f \in Nat
    PROVE  NewTask(l, lo, hi, f) \in TaskRecord
<1>1. <<>> \in Seq(Nat) /\ {} \in SUBSET Pairs
  OBVIOUS
<1> QED BY <1>1 DEF NewTask, TaskRecord

LEMMA InitControl ==
    ASSUME Init
    PROVE  ControlOK
<1>1. Master \in Workers
  BY LoopsAssumption DEF Workers, Master
<1>2. RootTask \in TaskRecord
  <2>1. NewTask(0, 0, 0, NoFuture) \in TaskRecord
    BY NewTaskType DEF NoFuture
  <2> QED BY <2>1 DEF RootTask, TaskRecord
<1>3. Frame(Root, "user") \in FrameRecord
  BY DEF Frame, FrameRecord, Labels, NoFuture, Root
<1>4. TypeOK
  BY <1>1, <1>2, <1>3, LoopsAssumption DEF Init, TypeOK, NoTask
<1>5. /\ Len(stack[Master]) = 1 /\ stack[Master][1] = Frame(Root, "user")
      /\ \A w \in Workers \ {Master} : Len(stack[w]) = 0
      /\ Len(tasks) = 1 /\ tasks[1] = RootTask
  BY <1>1, <1>3 DEF Init
<1>6. StackOK
  <2>1. ~RootTask.done /\ Frame(Root, "user").task = 1 /\ Frame(Root, "user").pc = "user"
        /\ Frame(Root, "user").future = 0
    BY DEF RootTask, NewTask, Frame, Root, NoFuture
  <2>2. \A w \in Workers : \A d \in 1 .. Depth(w) : w = Master /\ d = 1
    <3> SUFFICES ASSUME NEW w \in Workers, NEW d \in 1 .. Len(stack[w])
                 PROVE  w = Master /\ d = 1
      BY DEF Depth
    <3>1. w = Master
      BY <1>5
    <3>2. Len(stack[w]) = 1
      BY <1>5, <3>1
    <3>3. d \in 1 .. 1
      BY <3>2
    <3> QED BY <3>1, <3>3
  <2>3. FrameOK(Master, 1)
    BY <1>5, <2>1 DEF FrameOK, Depth, Root, NoFuture
  <2> QED BY <1>1, <1>5, <2>2, <2>3 DEF StackOK, Depth
<1>7. PlacesOK
  BY <1>1, <1>5 DEF PlacesOK, Init, NoTask
<1>8. RangesOK
  BY <1>5 DEF RangesOK, Parts
<1>9. RefsOK
  <2>1. RootTask.future = 0 /\ Len(RootTask.futures) = 0 /\ Len(futures) = 0 /\ handles = {}
    BY DEF Init, RootTask, NewTask, NoFuture
  <2> QED BY <1>5, <2>1 DEF RefsOK
<1> QED BY <1>4, <1>6, <1>7, <1>8, <1>9 DEF ControlOK

-----------------------------------------------------------------------------
(* Frames *)

\* Tasks and futures are added, and no task that w does not run moves.
Others(w) ==
    /\ Len(tasks') \in Nat /\ Len(tasks) <= Len(tasks')
    /\ Len(futures') \in Nat /\ Len(futures) <= Len(futures')
    /\ \A u \in 1 .. Len(tasks) : (Depth(w) > 0 => u # Top(w).task) =>
        /\ tasks'[u].done = tasks[u].done
        /\ tasks'[u].i = tasks[u].i /\ tasks'[u].end = tasks[u].end

\* The new top frame
TopOK(fr) ==
    /\ ~tasks'[fr.task].done
    /\ fr.task = Root => fr.pc \in {"user", "barrier", "await"}
    /\ fr.pc \in {"user", "barrier"} => fr.task = Root
    /\ IF fr.pc = "await" THEN fr.future \in 1 .. Len(futures') ELSE fr.future = NoFuture
    /\ fr.pc \in {"reduce", "await"} /\ fr.task # Root =>
            tasks'[fr.task].i = tasks'[fr.task].end

\* The frame of a task
LEMMA OneFrame ==
    ASSUME TypeOK, StackOK, NEW w \in Workers, NEW d \in 1 .. Depth(w),
           NEW v \in Workers, Depth(v) > 0, stack[w][d].task = Top(v).task
    PROVE  w = v /\ d = Depth(v)
BY TopFrame DEF StackOK

LEMMA RetopStack ==
    ASSUME TypeOK, StackOK, NEW w \in Workers, NEW fr, Retopped(w, fr),
           fr.task = Top(w).task, Others(w), TopOK(fr),
           fr.pc = "popped" => Top(w).pc = "popped"
    PROVE  StackOK'
<1> USE DEF Depth
<1>1. Len(stack'[Master]) >= 1
  BY LoopsAssumption DEF Retopped, StackOK, Workers, Master
<1>2. ASSUME NEW v \in Workers, NEW d \in 1 .. Len(stack'[v])
      PROVE  FrameOK(v, d)'
  <2>1. d \in 1 .. Len(stack[v]) /\ FrameOK(v, d)
    BY <1>2 DEF Retopped, StackOK
  <2>2. CASE v = w /\ d = Depth(w)
    <3>1. stack'[v][d] = fr /\ stack[v][d] = Top(w) /\ Len(stack'[v]) = Len(stack[v])
      BY <2>1, <2>2, TopFrame DEF Retopped
    <3>2. /\ fr.task \in 1 .. Len(tasks)
          /\ fr.task = Root <=> v = Master /\ d = 1
          /\ fr.pc = "popped" => v = Master /\ d = 2
      BY <2>1, <3>1 DEF FrameOK
    <3>3. fr.task \in 1 .. Len(tasks') /\ ~(d < Len(stack'[v]))
      <4>1. Len(tasks) \in Nat /\ Len(tasks') \in Nat /\ Len(tasks) <= Len(tasks')
        BY DEF Others, TypeOK
      <4>2. Len(stack[v]) \in Nat /\ d = Len(stack[v])
        BY <2>2 DEF TypeOK
      <4> QED BY <3>1, <3>2, <4>1, <4>2
    <3> QED BY <3>1, <3>2, <3>3 DEF FrameOK, TopOK
  <2>3. CASE ~(v = w /\ d = Depth(w))
    <3>1. stack'[v][d] = stack[v][d] /\ Len(stack'[v]) = Len(stack[v])
      BY <2>1, <2>3 DEF Retopped
    <3>2. stack[v][d].task # Top(w).task
      BY <2>1, <2>3, OneFrame DEF Retopped
    <3> DEFINE u == stack[v][d].task
    <3>3. /\ u \in 1 .. Len(tasks) /\ tasks'[u].done = tasks[u].done
          /\ tasks'[u].i = tasks[u].i /\ tasks'[u].end = tasks[u].end
      BY <2>1, <3>2 DEF FrameOK, Others
    <3>4. Len(tasks) \in Nat /\ Len(futures) \in Nat
      BY DEF TypeOK
    <3> QED BY <2>1, <3>1, <3>3, <3>4 DEF FrameOK, Others
  <2> QED BY <2>2, <2>3
<1>3. ASSUME NEW v \in Workers, NEW d \in 1 .. Len(stack'[v])
      PROVE  d \in 1 .. Len(stack[v]) /\ stack'[v][d].task = stack[v][d].task
  BY <1>3, TopFrame DEF Retopped
<1>4. \A v, u \in Workers : \A e \in 1 .. Len(stack'[v]), d \in 1 .. Len(stack'[u]) :
            stack'[v][e].task = stack'[u][d].task => v = u /\ e = d
  <2>1. \A v, u \in Workers : \A e \in 1 .. Len(stack[v]), d \in 1 .. Len(stack[u]) :
            stack[v][e].task = stack[u][d].task => v = u /\ e = d
    BY DEF StackOK
  <2> SUFFICES ASSUME NEW v \in Workers, NEW u \in Workers, NEW e \in 1 .. Len(stack'[v]),
                      NEW d \in 1 .. Len(stack'[u]), stack'[v][e].task = stack'[u][d].task
               PROVE  v = u /\ e = d
    OBVIOUS
  <2>2. /\ e \in 1 .. Len(stack[v]) /\ d \in 1 .. Len(stack[u])
        /\ stack[v][e].task = stack[u][d].task
    BY <1>3
  <2> QED BY <2>1, <2>2
<1> QED BY <1>1, <1>2, <1>4 DEF StackOK

LEMMA RetopPlaces ==
    ASSUME TypeOK, StackOK, NEW w \in Workers, NEW fr, Retopped(w, fr),
           fr.task = Top(w).task
    PROVE  /\ \A u : OnStack(u)' <=> OnStack(u)
           /\ \A u : u # fr.task => (Started(u)' <=> Started(u))
           /\ Started(fr.task)' <=> fr.pc \notin {"popped", "received"}
           /\ Started(fr.task) <=> Top(w).pc \notin {"popped", "received"}
<1> USE DEF Depth
<1>1. ASSUME NEW v \in Workers
      PROVE  Len(stack'[v]) = Len(stack[v])
  BY DEF Retopped
<1>2. ASSUME NEW v \in Workers, NEW d \in 1 .. Len(stack[v])
      PROVE  /\ stack'[v][d].task = stack[v][d].task
             /\ stack[v][d].task # fr.task => stack'[v][d] = stack[v][d]
             /\ stack[v][d].task = fr.task => stack'[v][d] = fr /\ stack[v][d] = Top(w)
  BY <1>2, TopFrame, OneFrame DEF Retopped
<1>3. Depth(w) \in 1 .. Len(stack[w]) /\ stack'[w][Depth(w)] = fr /\ stack[w][Depth(w)] = Top(w)
  BY TopFrame DEF Retopped
<1>4. \A u : OnStack(u)' <=> OnStack(u)
  BY <1>1, <1>2 DEF OnStack
<1>5. \A u : u # fr.task => (Started(u)' <=> Started(u))
  BY <1>1, <1>2 DEF Started
<1>6. Started(fr.task)' <=> fr.pc \notin {"popped", "received"}
  <2>1. \A v \in Workers : \A d \in 1 .. Len(stack'[v]) : stack'[v][d].task = fr.task
            => stack'[v][d] = fr
    BY <1>1, <1>2
  <2> QED BY <1>1, <1>3, <2>1 DEF Started
<1>7. Started(fr.task) <=> Top(w).pc \notin {"popped", "received"}
  <2>1. \A v \in Workers : \A d \in 1 .. Len(stack[v]) : stack[v][d].task = fr.task
            => stack[v][d] = Top(w)
    BY <1>2
  <2> QED BY <1>3, <2>1 DEF Started
<1> QED BY <1>4, <1>5, <1>6, <1>7

LEMMA CallStack ==
    ASSUME TypeOK, StackOK, NEW w \in Workers, NEW t \in Parts, NEW l \in {"popped", "received"},
           Called(w, Frame(t, l)), ~OnStack(t), ~tasks[t].done, UNCHANGED <<tasks, futures>>,
           IF Depth(w) = 0 THEN w # Master ELSE Top(w).pc \in {"await", "barrier"},
           l = "popped" => w = Master /\ Depth(w) = 1
    PROVE  /\ StackOK'
           /\ \A u : OnStack(u)' <=> OnStack(u) \/ u = t
           /\ \A u : Started(u)' <=> Started(u)
<1> USE DEF Depth
<1>1. Len(stack'[Master]) >= 1
  BY LoopsAssumption DEF Called, StackOK, Workers, Master
<1>2. /\ Frame(t, l).task = t /\ Frame(t, l).pc = l /\ Frame(t, l).future = NoFuture
      /\ t # Root /\ t \in 1 .. Len(tasks)
  BY DEF Frame, Parts, Root
<1>3. Len(stack[w]) \in Nat /\ Len(stack'[w]) = Len(stack[w]) + 1
  BY DEF Called, TypeOK
<1>4. stack'[w][Len(stack'[w])] = Frame(t, l)
  BY <1>3 DEF Called
<1>5. ASSUME NEW v \in Workers, NEW d \in 1 .. Len(stack'[v])
      PROVE  \/ v = w /\ d = Len(stack'[w]) /\ stack'[v][d] = Frame(t, l)
             \/ d \in 1 .. Len(stack[v]) /\ stack'[v][d] = stack[v][d]
  BY <1>3, <1>4, <1>5 DEF Called
<1>6. ASSUME NEW v \in Workers, NEW d \in 1 .. Len(stack[v])
      PROVE  d \in 1 .. Len(stack'[v]) /\ stack'[v][d] = stack[v][d]
  BY <1>3, <1>6, SMTT(30) DEF Called, TypeOK
<1>7. ASSUME NEW v \in Workers, NEW d \in 1 .. Len(stack'[v])
      PROVE  FrameOK(v, d)'
  <2>1. CASE v = w /\ d = Len(stack'[w]) /\ stack'[v][d] = Frame(t, l)
    <3>1. ~(w = Master /\ d = 1)
      BY <1>3, <2>1 DEF StackOK
    <3>2. ASSUME l = "popped"
          PROVE  w = Master /\ d = 2
      <4>1. w = Master /\ Len(stack[w]) = 1
        BY <3>2
      <4> QED BY <1>3, <2>1, <4>1
    <3> QED BY <1>2, <2>1, <3>1, <3>2 DEF FrameOK
  <2>2. CASE d \in 1 .. Len(stack[v]) /\ stack'[v][d] = stack[v][d]
    <3>1. FrameOK(v, d)
      BY <2>2 DEF StackOK
    <3>2. CASE v = w /\ d = Len(stack[w])
      <4>1. stack[v][d].pc \in {"await", "barrier"}
        BY <1>3, <2>2, <3>2, TopFrame
      <4> QED BY <2>2, <3>1, <4>1 DEF FrameOK
    <3>3. CASE ~(v = w /\ d = Len(stack[w]))
      <4>1. d < Len(stack'[v]) => d < Len(stack[v])
        BY <2>2, <3>3 DEF Called, TypeOK
      <4> QED BY <2>2, <3>1, <4>1 DEF FrameOK
    <3> QED BY <3>2, <3>3
  <2> QED BY <1>5, <2>1, <2>2
<1>8. \A v, u \in Workers : \A e \in 1 .. Len(stack'[v]), d \in 1 .. Len(stack'[u]) :
            stack'[v][e].task = stack'[u][d].task => v = u /\ e = d
  <2> SUFFICES ASSUME NEW v \in Workers, NEW u \in Workers, NEW e \in 1 .. Len(stack'[v]),
                      NEW d \in 1 .. Len(stack'[u]), stack'[v][e].task = stack'[u][d].task
               PROVE  v = u /\ e = d
    OBVIOUS
  <2>1. CASE d \in 1 .. Len(stack[u]) /\ stack'[u][d] = stack[u][d]
             /\ e \in 1 .. Len(stack[v]) /\ stack'[v][e] = stack[v][e]
    BY <2>1 DEF StackOK
  <2>2. \A x \in Workers : \A k \in 1 .. Len(stack[x]) : stack[x][k].task # t
    BY DEF OnStack
  <2> QED BY <1>2, <1>5, <2>1, <2>2, SMTT(30)
<1>9. Len(stack'[w]) \in 1 .. Len(stack'[w])
  BY <1>3
<1>10. \A u : OnStack(u)' <=> OnStack(u) \/ u = t
  <2>1. ASSUME NEW u, OnStack(u)'
        PROVE  OnStack(u) \/ u = t
    <3>1. PICK v \in Workers : \E d \in 1 .. Len(stack'[v]) : stack'[v][d].task = u
      BY <2>1 DEF OnStack
    <3> QED BY <1>2, <1>5, <3>1 DEF OnStack
  <2>2. ASSUME NEW u, OnStack(u)
        PROVE  OnStack(u)'
    <3>1. PICK v \in Workers : \E d \in 1 .. Len(stack[v]) : stack[v][d].task = u
      BY <2>2 DEF OnStack
    <3> QED BY <1>6, <3>1 DEF OnStack
  <2>3. OnStack(t)'
    BY <1>2, <1>4, <1>9 DEF OnStack
  <2> QED BY <2>1, <2>2, <2>3
<1>11. \A u : Started(u)' <=> Started(u)
  BY <1>2, <1>5, <1>6 DEF Started
<1> QED BY <1>1, <1>7, <1>8, <1>10, <1>11 DEF StackOK

LEMMA ReturnStack ==
    ASSUME TypeOK, StackOK, NEW w \in Workers, NEW t, Returned(w), t = Top(w).task, t # Root,
           Others(w)
    PROVE  /\ StackOK'
           /\ \A u : OnStack(u)' <=> OnStack(u) /\ u # t
           /\ \A u : u # t => (Started(u)' <=> Started(u))
<1> USE DEF Depth
<1>1. ~(w = Master /\ Len(stack[w]) = 1)
  BY TopFrame DEF StackOK, FrameOK, Returned
<1>2. Len(stack'[Master]) >= 1
  <2>1. Master \in Workers /\ Len(stack[Master]) \in Nat /\ Len(stack[Master]) >= 1
    BY LoopsAssumption DEF StackOK, Workers, Master, TypeOK
  <2>2. CASE w = Master
    <3>1. Len(stack'[Master]) = Len(stack[Master]) - 1
      BY <2>1, <2>2 DEF Returned
    <3>2. Len(stack[Master]) # 1
      BY <1>1, <2>2
    <3>3. \A n \in Nat : n >= 1 /\ n # 1 => n - 1 >= 1
      OBVIOUS
    <3>4. Len(stack[Master]) - 1 >= 1
      BY <2>1, <3>2, <3>3
    <3> QED BY <3>1, <3>4
  <2>3. CASE w # Master
    BY <2>1, <2>3 DEF Returned
  <2> QED BY <2>2, <2>3
<1>3. ASSUME NEW v \in Workers, NEW d \in 1 .. Len(stack'[v])
      PROVE  /\ d \in 1 .. Len(stack[v]) /\ stack'[v][d] = stack[v][d]
             /\ stack[v][d].task # t
  <2>1. d \in 1 .. Len(stack[v]) /\ stack'[v][d] = stack[v][d] /\ ~(v = w /\ d = Len(stack[w]))
    BY <1>3 DEF Returned, TypeOK
  <2> QED BY <2>1, OneFrame DEF Returned
<1>4. ASSUME NEW v \in Workers, NEW d \in 1 .. Len(stack[v]), stack[v][d].task # t
      PROVE  d \in 1 .. Len(stack'[v]) /\ stack'[v][d] = stack[v][d]
  <2>1. ~(v = w /\ d = Len(stack[w]))
    BY <1>4, TopFrame DEF Returned
  <2>2. d \in 1 .. Len(stack'[v])
    BY <2>1 DEF Returned, TypeOK
  <2> QED BY <2>2 DEF Returned
<1>5. ASSUME NEW v \in Workers, NEW d \in 1 .. Len(stack'[v])
      PROVE  FrameOK(v, d)'
  <2> DEFINE u == stack[v][d].task
  <2>1. FrameOK(v, d) /\ stack'[v][d] = stack[v][d] /\ u # t
    BY <1>3, <1>5 DEF StackOK
  <2>2. /\ u \in 1 .. Len(tasks) /\ tasks'[u].done = tasks[u].done
        /\ tasks'[u].i = tasks[u].i /\ tasks'[u].end = tasks[u].end
    BY <2>1 DEF FrameOK, Others
  <2>3. Len(tasks) \in Nat /\ Len(futures) \in Nat
    BY DEF TypeOK
  <2>4. d < Len(stack'[v]) => d < Len(stack[v])
    <3>1. Len(stack[v]) \in Nat /\ Len(stack'[v]) \in {Len(stack[v]), Len(stack[v]) - 1}
      BY DEF Returned, TypeOK
    <3> QED BY <3>1
  <2> QED BY <2>1, <2>2, <2>3, <2>4 DEF FrameOK, Others
<1>6. \A v, u \in Workers : \A e \in 1 .. Len(stack'[v]), d \in 1 .. Len(stack'[u]) :
            stack'[v][e].task = stack'[u][d].task => v = u /\ e = d
  <2> SUFFICES ASSUME NEW v \in Workers, NEW u \in Workers, NEW e \in 1 .. Len(stack'[v]),
                      NEW d \in 1 .. Len(stack'[u]), stack'[v][e].task = stack'[u][d].task
               PROVE  v = u /\ e = d
    OBVIOUS
  <2>1. e \in 1 .. Len(stack[v]) /\ stack'[v][e] = stack[v][e]
    BY <1>3
  <2>2. d \in 1 .. Len(stack[u]) /\ stack'[u][d] = stack[u][d]
    BY <1>3
  <2> QED BY <2>1, <2>2 DEF StackOK
<1>7. \A u : OnStack(u)' <=> OnStack(u) /\ u # t
  <2>1. \A v \in Workers : \A d \in 1 .. Len(stack'[v]) :
            /\ d \in 1 .. Len(stack[v]) /\ stack'[v][d] = stack[v][d]
            /\ stack[v][d].task # t
    BY <1>3
  <2>2. \A v \in Workers : \A d \in 1 .. Len(stack[v]) : stack[v][d].task # t =>
            d \in 1 .. Len(stack'[v]) /\ stack'[v][d] = stack[v][d]
    BY <1>4
  <2> QED BY <2>1, <2>2 DEF OnStack
<1>8. \A u : u # t => (Started(u)' <=> Started(u))
  BY <1>3, <1>4 DEF Started
<1> QED BY <1>2, <1>5, <1>6, <1>7, <1>8 DEF StackOK

\* The stacks are left alone.
LEMMA KeptStack ==
    ASSUME TypeOK, StackOK, UNCHANGED stack,
           Len(tasks') \in Nat, Len(tasks) <= Len(tasks'),
           Len(futures') \in Nat, Len(futures) <= Len(futures'),
           \A w \in Workers : \A d \in 1 .. Len(stack[w]) :
                LET u == stack[w][d].task
                IN  u \in 1 .. Len(tasks) =>
                    /\ tasks'[u].done = tasks[u].done
                    /\ stack[w][d].pc \in {"reduce", "await"} =>
                        tasks'[u].i = tasks[u].i /\ tasks'[u].end = tasks[u].end
    PROVE  /\ StackOK'
           /\ \A u : OnStack(u)' <=> OnStack(u)
           /\ \A u : Started(u)' <=> Started(u)
<1>1. ASSUME NEW w \in Workers, NEW d \in 1 .. Depth(w)
      PROVE  FrameOK(w, d)'
  <2>1. FrameOK(w, d)
    BY DEF StackOK
  <2>2. Len(tasks) \in Nat /\ Len(futures) \in Nat
    BY DEF TypeOK
  <2> DEFINE u == stack[w][d].task
  <2>3. /\ u \in 1 .. Len(tasks) /\ tasks'[u].done = tasks[u].done
        /\ stack[w][d].pc \in {"reduce", "await"} =>
                tasks'[u].i = tasks[u].i /\ tasks'[u].end = tasks[u].end
    BY <2>1 DEF FrameOK, Depth
  <2> QED BY <2>1, <2>2, <2>3 DEF FrameOK, Depth
<1> QED BY <1>1 DEF StackOK, Depth, OnStack, Started

-----------------------------------------------------------------------------
(* Every action keeps the control state well-formed *)

LEMMA MasterWorks == Master \in Workers
BY LoopsAssumption DEF Master, Workers

LEMMA CreateControl ==
    ASSUME ControlOK, NEW b \in BOOLEAN, Create(b)
    PROVE  ControlOK'
<1> USE MasterWorks DEF ControlOK
<1> DEFINE l == Len(results) + 1
           f == IF b THEN Len(futures) + 1 ELSE NoFuture
           t == NewTask(l, program[l][1], program[l][2], f)
<1>n. PICK n : n = Len(tasks) + 1
  OBVIOUS
<1>1. l \in DOMAIN program /\ l \in Nat /\ program[l] \in Int \X Int /\ program[l][1] <= program[l][2]
      /\ l <= Len(program)
  BY SMTT(30) DEF Create, TypeOK
<1>2. f \in Nat /\ Len(futures) \in Nat
  BY DEF TypeOK, NoFuture
<1>3. t \in TaskRecord
  BY <1>1, <1>2, NewTaskType
<1>4. /\ t.start = program[l][1] /\ t.cur = program[l][1] /\ t.end = program[l][2]
      /\ t.loop = l /\ t.done = FALSE /\ t.future = f /\ t.futures = <<>>
  BY DEF NewTask
<1>5. /\ results' = Append(results, <<>>) /\ tasks' = Append(tasks, t)
      /\ deque' = [deque EXCEPT ![Master] = <<n>> \o @]
      /\ IF b THEN futures' = Append(futures, FUTURE_ALLOC) /\ handles' = handles \cup {f}
         ELSE UNCHANGED <<futures, handles>>
      /\ UNCHANGED <<program, stack, asked, chan, early, executed>>
  BY <1>n DEF Create
<1> HIDE DEF t
<1>6. FUTURE_ALLOC \in FutureRecord
  <2>1. <<>> \in Seq(SUBSET Pairs) /\ {} \in SUBSET Pairs
    OBVIOUS
  <2> QED BY <2>1 DEF FUTURE_ALLOC, FutureRecord
<1>7. /\ futures' \in Seq(FutureRecord) /\ Len(futures') >= Len(futures) /\ f \in 0 .. Len(futures')
      /\ handles' \subseteq handles \cup {Len(futures) + 1} /\ (b => Len(futures') = Len(futures) + 1)
      /\ (~b => handles' = handles)
  <2>1. CASE b
    <3>1. f = Len(futures) + 1
      BY <2>1
    <3> HIDE DEF f
    <3>2. futures' = Append(futures, FUTURE_ALLOC) /\ handles' = handles \cup {f}
      BY <1>5, <2>1
    <3>3. futures' \in Seq(FutureRecord) /\ Len(futures') = Len(futures) + 1
      BY <1>6, <3>2 DEF TypeOK
    <3> QED BY <1>2, <2>1, <3>1, <3>2, <3>3
  <2>2. CASE ~b
    BY <1>2, <1>5, <2>2 DEF TypeOK, NoFuture
  <2> QED BY <2>1, <2>2
<1>8. /\ tasks' \in Seq(TaskRecord) /\ Len(tasks') = n /\ n \in Nat /\ tasks'[n] = t
      /\ \A u \in 1 .. Len(tasks) : tasks'[u] = tasks[u]
  BY <1>n, <1>3, <1>5 DEF TypeOK
<1>9. /\ deque' \in [Workers -> Seq(Nat)]
      /\ \A w \in Workers \ {Master} : deque'[w] = deque[w]
      /\ Len(deque'[Master]) = Len(deque[Master]) + 1
      /\ deque'[Master][1] = n
      /\ \A k \in 1 .. Len(deque[Master]) : deque'[Master][k + 1] = deque[Master][k]
  BY <1>5, <1>8 DEF TypeOK
<1>10. results' \in Seq(Seq(SUBSET Pairs)) /\ Len(results') = l
  <2>1. <<>> \in Seq(SUBSET Pairs)
    OBVIOUS
  <2> QED BY <1>5, <2>1 DEF TypeOK
<1>11. TypeOK'
  <2>1. handles' \in SUBSET Nat
    BY <1>2, <1>7 DEF TypeOK
  <2>2. Len(tasks') >= 1
    BY <1>8, <1>n DEF TypeOK
  <2> QED BY <1>1, <1>5, <1>7, <1>8, <1>9, <1>10, <2>1, <2>2 DEF TypeOK
<1>12. /\ StackOK'
       /\ \A u : OnStack(u)' <=> OnStack(u)
       /\ \A u : Started(u)' <=> Started(u)
  <2>1. ASSUME NEW w \in Workers, NEW d \in 1 .. Len(stack[w])
        PROVE  LET u == stack[w][d].task
               IN  u \in 1 .. Len(tasks) =>
                   /\ tasks'[u].done = tasks[u].done
                   /\ stack[w][d].pc \in {"reduce", "await"} =>
                        tasks'[u].i = tasks[u].i /\ tasks'[u].end = tasks[u].end
    BY <1>8
  <2>2. Len(tasks') \in Nat /\ Len(tasks) <= Len(tasks') /\ Len(futures') \in Nat
    BY <1>n, <1>8, <1>7 DEF TypeOK
  <2> QED BY <1>5, <1>7, <2>1, <2>2, KeptStack
<1>13. ~OnStack(n)
  BY <1>n DEF StackOK, FrameOK, OnStack, TypeOK
<1>14. \A u : Waiting(u) => Waiting(u)'
  <2>1. \A u \in Parts : u \in Parts' /\ tasks'[u] = tasks[u]
    BY <1>n, <1>8 DEF Parts, TypeOK
  <2> QED BY <1>12, <2>1 DEF Waiting
<1>15. Waiting(n)'
  <2>1. n \in 2 .. Len(tasks')
    BY <1>n, <1>8 DEF TypeOK
  <2> QED BY <1>4, <1>8, <1>12, <1>13, <2>1 DEF Waiting, Parts
<1>16. \A u : Waiting(u) => u # n
  BY <1>n DEF Waiting, Parts, TypeOK
<1>17. \A k \in 1 .. Len(deque'[Master]) :
            \/ k = 1 /\ deque'[Master][k] = n
            \/ \E j \in 1 .. Len(deque[Master]) : k = j + 1 /\ deque'[Master][k] = deque[Master][j]
  <2> SUFFICES ASSUME NEW k \in 1 .. Len(deque'[Master]), k # 1
               PROVE  \E j \in 1 .. Len(deque[Master]) : k = j + 1 /\ deque'[Master][k] = deque[Master][j]
    BY <1>9
  <2>1. k - 1 \in 1 .. Len(deque[Master]) /\ k = (k - 1) + 1
    BY <1>9 DEF TypeOK
  <2> QED BY <1>9, <2>1
<1>18. PlacesOK'
  <2>0. n # 0 /\ Len(tasks) \in Nat
    BY <1>n DEF TypeOK
  <2>1. \A w \in Workers : chan[w] # n
    BY <1>16, <2>0 DEF PlacesOK, NoTask
  <2>2. \A k \in 1 .. Len(deque'[Master]) :
            Waiting(deque[Master][k])' /\ \A w \in Workers : chan'[w] # deque'[Master][k]
    BY <1>5, <1>14, <1>15, <1>17, <2>1 DEF PlacesOK
  <2>3. \A j, k \in 1 .. Len(deque'[Master]) : deque'[Master][j] = deque'[Master][k] => j = k
    BY <1>16, <1>17 DEF PlacesOK
  <2>4. \A w \in Workers : chan'[w] # NoTask =>
            Waiting(chan[w])' /\ \A v \in Workers : chan'[v] = chan'[w] => v = w
    BY <1>5, <1>14 DEF PlacesOK
  <2>5. \A w \in Workers \ {Master} : deque'[w] = <<>>
    BY <1>9 DEF PlacesOK
  <2> QED BY <2>2, <2>3, <2>4, <2>5 DEF PlacesOK
<1>19. RangesOK'
  <2> SUFFICES ASSUME NEW u \in 2 .. n
               PROVE  RangeOK(u)'
    BY <1>8 DEF RangesOK, Parts
  <2>1. CASE u = n
    <3>1. ~Started(n)
      BY <1>13 DEF Started, OnStack
    <3> QED BY <1>1, <1>4, <1>8, <1>10, <1>12, <2>1, <3>1 DEF RangeOK
  <2>2. CASE u # n
    <3>1. u \in Parts /\ tasks'[u] = tasks[u]
      BY <1>n, <1>8, <2>2 DEF Parts, TypeOK
    <3>2. Len(results) \in Nat
      BY DEF TypeOK
    <3> QED BY <1>10, <1>12, <3>1, <3>2 DEF RangesOK, RangeOK
  <2> QED BY <2>1, <2>2
<1>20. RefsOK'
  <2>1. handles' \subseteq 1 .. Len(futures')
    BY <1>2, <1>7 DEF RefsOK
  <2>2. ASSUME NEW u \in 1 .. n
        PROVE  /\ tasks'[u].future \in 0 .. Len(futures')
               /\ \A k \in 1 .. Len(tasks'[u].futures) : tasks'[u].futures[k] \in 1 .. Len(futures')
    <3>1. CASE u = n
      BY <1>4, <1>7, <1>8, <3>1
    <3>2. CASE u # n
      <4>1. u \in 1 .. Len(tasks) /\ tasks'[u] = tasks[u]
        BY <1>n, <1>8, <3>2 DEF TypeOK
      <4> QED BY <1>2, <1>7, <4>1, SMTT(30) DEF RefsOK, TypeOK
    <3> QED BY <3>1, <3>2
  <2> QED BY <1>8, <2>1, <2>2 DEF RefsOK
<1> QED BY <1>11, <1>12, <1>18, <1>19, <1>20

\* A worker goes on in the task it runs.
LEMMA RetopControl ==
    ASSUME ControlOK, NEW w \in Workers, NEW fr, Retopped(w, fr), fr.task = Top(w).task,
           fr.pc = "popped" => Top(w).pc = "popped", TopOK(fr),
           UNCHANGED <<program, deque, asked, chan>>,
           tasks' \in Seq(TaskRecord), Len(tasks') = Len(tasks),
           futures' \in Seq(FutureRecord), Len(futures') = Len(futures),
           \A u \in 1 .. Len(tasks) : u # fr.task => tasks'[u] = tasks[u],
           fr.task # Root => RangeOK(fr.task)',
           tasks'[fr.task].future = tasks[fr.task].future,
           \A k \in 1 .. Len(tasks'[fr.task].futures) :
                tasks'[fr.task].futures[k] \in 1 .. Len(futures),
           handles' \subseteq handles,
           results' \in Seq(Seq(SUBSET Pairs)), Len(results') = Len(results)
    PROVE  ControlOK'
<1> USE DEF ControlOK
<1>1. TypeOK'
  BY DEF TypeOK, Retopped
<1>2. Others(w)
  <2>1. Depth(w) > 0 /\ Len(tasks) \in Nat /\ Len(futures) \in Nat
    BY DEF Retopped, TypeOK
  <2> QED BY <2>1 DEF Others
<1>3. StackOK'
  BY <1>2, RetopStack
<1>4. /\ \A u : OnStack(u)' <=> OnStack(u)
      /\ \A u : u # fr.task => (Started(u)' <=> Started(u))
  BY RetopPlaces
<1>5. OnStack(fr.task)
  <2>1. Depth(w) \in 1 .. Depth(w) /\ stack[w][Depth(w)] = Top(w)
    BY TopFrame DEF Retopped, Depth
  <2> QED BY <2>1 DEF OnStack
<1>6. \A u : Waiting(u) => Waiting(u)'
  BY <1>4, <1>5 DEF Waiting, Parts
<1>7. PlacesOK'
  BY <1>6 DEF PlacesOK
<1>8. RangesOK'
  <2> SUFFICES ASSUME NEW u \in Parts
               PROVE  RangeOK(u)'
    BY DEF RangesOK, Parts
  <2>1. CASE u = fr.task
    BY <2>1 DEF Parts, Root
  <2>2. CASE u # fr.task
    <3>1. tasks'[u] = tasks[u]
      BY <2>2 DEF Parts
    <3> QED BY <1>4, <2>2, <3>1 DEF RangesOK, RangeOK
  <2> QED BY <2>1, <2>2
<1>9. RefsOK'
  <2>1. ASSUME NEW u \in 1 .. Len(tasks)
        PROVE  /\ tasks'[u].future \in 0 .. Len(futures')
               /\ \A k \in 1 .. Len(tasks'[u].futures) : tasks'[u].futures[k] \in 1 .. Len(futures')
    <3>1. CASE u = fr.task
      BY <3>1 DEF RefsOK
    <3>2. CASE u # fr.task
      BY <3>2 DEF RefsOK
    <3> QED BY <3>1, <3>2
  <2> QED BY <2>1 DEF RefsOK
<1> QED BY <1>1, <1>3, <1>7, <1>8, <1>9

LEMMA RangeOf ==
    ASSUME ControlOK, NEW w \in Workers, Depth(w) > 0, Top(w).task # Root
    PROVE  /\ Top(w).task \in Parts /\ tasks[Top(w).task] \in TaskRecord
           /\ ~tasks[Top(w).task].done
           /\ tasks[Top(w).task].loop \in 1 .. Len(results)
           /\ IF Top(w).pc \in {"popped", "received"}
              THEN /\ tasks[Top(w).task].start <= tasks[Top(w).task].end
                   /\ tasks[Top(w).task].cur = tasks[Top(w).task].start
              ELSE /\ tasks[Top(w).task].i <= tasks[Top(w).task].end
                   /\ tasks[Top(w).task].cur = tasks[Top(w).task].i + 1
           /\ Top(w).pc \in {"reduce", "await"} =>
                tasks[Top(w).task].i = tasks[Top(w).task].end
<1> USE DEF ControlOK
<1> DEFINE t == Top(w).task
           d == Depth(w)
<1>1. d \in 1 .. Depth(w) /\ stack[w][d] = Top(w)
  BY TopFrame DEF Depth
<1>2. FrameOK(w, d)
  BY <1>1 DEF StackOK
<1>3. t \in Parts /\ ~tasks[t].done /\ tasks[t] \in TaskRecord
  BY <1>1, <1>2 DEF FrameOK, Parts, TypeOK, Root
<1>4. RangeOK(t)
  BY <1>3 DEF RangesOK
<1>5. Started(t) <=> Top(w).pc \notin {"popped", "received"}
  <2>1. \A v \in Workers : \A e \in 1 .. Depth(v) : stack[v][e].task = t => stack[v][e] = Top(w)
    BY <1>1, OneFrame
  <2> QED BY <1>1, <2>1 DEF Started
<1> QED BY <1>1, <1>2, <1>3, <1>4, <1>5 DEF FrameOK, RangeOK

LEMMA RootFrame ==
    ASSUME ControlOK, NEW w \in Workers, Depth(w) > 0
    PROVE  /\ Top(w).task = Root <=> w = Master /\ Depth(w) = 1
           /\ Top(w).pc \in {"user", "barrier"} => Top(w).task = Root
           /\ Top(w).pc \in {"popped", "received", "test", "poll", "reduce"} => Top(w).task # Root
           /\ Top(w).task \in 1 .. Len(tasks) /\ ~tasks[Top(w).task].done
           /\ Top(w).pc = "popped" => w = Master /\ Depth(w) = 2
           /\ IF Top(w).pc = "await" THEN Top(w).future \in 1 .. Len(futures)
              ELSE Top(w).future = NoFuture
<1>1. Depth(w) \in 1 .. Depth(w) /\ stack[w][Depth(w)] = Top(w)
  BY TopFrame DEF Depth, ControlOK
<1>2. FrameOK(w, Depth(w))
  BY <1>1 DEF StackOK, ControlOK
<1> QED BY <1>1, <1>2 DEF FrameOK

LEMMA RootControl ==
    ASSUME ControlOK, \/ EnterBarrier \/ LeaveBarrier \/ \E f \in handles : Await(f)
    PROVE  ControlOK'
<1> USE MasterWorks
<1>1. Depth(Master) > 0 /\ Top(Master).task = Root /\ Root \in 1 .. Len(tasks) /\ ~tasks[Root].done
  BY RootFrame DEF EnterBarrier, LeaveBarrier, Await, At
<1>2. /\ UNCHANGED <<program, deque, asked, chan, tasks, futures, results>>
      /\ handles' \subseteq handles
  BY DEF EnterBarrier, LeaveBarrier, Await
<1>3. \E fr : /\ Retopped(Master, fr) /\ fr.task = Top(Master).task /\ TopOK(fr)
              /\ fr.pc # "popped"
  <2>1. CASE EnterBarrier \/ LeaveBarrier
    <3>1. PICK l \in {"user", "barrier"} :
            At(Master, {"user", "barrier"}) /\ Goto(Master, l)
      BY <2>1 DEF EnterBarrier, LeaveBarrier, At
    <3>2. Retopped(Master, [Top(Master) EXCEPT !.pc = l]) /\ Top(Master).pc \in {"user", "barrier"}
      BY <3>1, GotoRetops DEF ControlOK, Labels
    <3>3. Top(Master) \in FrameRecord /\ Top(Master).future = NoFuture
      BY <1>1, <3>2, TopFrame, RootFrame DEF ControlOK
    <3> DEFINE fr == [Top(Master) EXCEPT !.pc = l]
    <3>4. fr.task = Root /\ fr.pc = l /\ fr.future = NoFuture
      BY <1>1, <3>3 DEF FrameRecord
    <3> HIDE DEF fr
    <3>5. TopOK(fr)
      BY <1>1, <1>2, <3>1, <3>4 DEF TopOK
    <3> QED BY <1>1, <3>1, <3>2, <3>4, <3>5 DEF fr
  <2>2. CASE \E f \in handles : Await(f)
    <3>1. PICK f \in handles : Await(f)
      BY <2>2
    <3> DEFINE fr == [Top(Master) EXCEPT !.pc = "await", !.future = f]
    <3>2. f \in 1 .. Len(futures) /\ f \in Nat
      BY DEF RefsOK, ControlOK
    <3>3. Top(Master) \in FrameRecord
      BY <1>1, TopFrame DEF ControlOK
    <3>4. fr \in FrameRecord /\ fr.task = Root /\ fr.pc = "await" /\ fr.future = f
      BY <1>1, <3>2, <3>3 DEF FrameRecord, Labels
    <3>5. stack' = [stack EXCEPT ![Master] = [stack[Master] EXCEPT ![Depth(Master)] = fr]]
      BY <3>1 DEF Await, Top
    <3> HIDE DEF fr
    <3>6. Retopped(Master, fr)
      BY <1>1, <3>4, <3>5, Retop DEF ControlOK
    <3>7. TopOK(fr)
      BY <1>1, <1>2, <3>2, <3>4 DEF TopOK
    <3> QED BY <1>1, <3>4, <3>6, <3>7
  <2> QED BY <2>1, <2>2
<1>4. PICK fr : /\ Retopped(Master, fr) /\ fr.task = Top(Master).task /\ TopOK(fr)
                /\ fr.pc # "popped"
  BY <1>3
<1>5. /\ \A k \in 1 .. Len(tasks'[fr.task].futures) :
                tasks'[fr.task].futures[k] \in 1 .. Len(futures)
  BY <1>1, <1>2, <1>4 DEF ControlOK, RefsOK
<1> QED BY <1>1, <1>2, <1>4, <1>5, RetopControl DEF ControlOK, TypeOK

-----------------------------------------------------------------------------
(* What an action of a worker does to the task it runs *)

\* Task t becomes r.
Updated(t, r) ==
    /\ t \in 1 .. Len(tasks) /\ r \in TaskRecord
    /\ tasks' \in Seq(TaskRecord) /\ Len(tasks') = Len(tasks)
    /\ tasks'[t] = r
    /\ \A u \in 1 .. Len(tasks) : u # t => tasks'[u] = tasks[u]

\* w goes on in task t, which becomes r, with frame fr.
Moved(w, t, r, fr) ==
    /\ Depth(w) > 0 /\ t = Top(w).task
    /\ Updated(t, r)
    /\ Retopped(w, fr) /\ fr.task = t

LEMMA Update ==
    ASSUME TypeOK, NEW t \in 1 .. Len(tasks), NEW r \in TaskRecord,
           tasks' = [tasks EXCEPT ![t] = r]
    PROVE  Updated(t, r)
BY DEF TypeOK, Updated

LEMMA NoUpdate ==
    ASSUME TypeOK, NEW t \in 1 .. Len(tasks), UNCHANGED tasks
    PROVE  Updated(t, tasks[t])
BY DEF TypeOK, Updated

StartMoves(w, t, r, fr) ==
    /\ Moved(w, t, r, fr) /\ t \in Parts
    /\ Top(w).pc \in {"popped", "received"} /\ fr.pc = "test" /\ fr.future = NoFuture
    /\ r = [tasks[t] EXCEPT !.i = tasks[t].start, !.cur = tasks[t].cur + 1]

LEMMA StartShape ==
    ASSUME ControlOK, NEW w \in Workers, Start(w)
    PROVE  \E t, r, fr : StartMoves(w, t, r, fr)
<1> USE DEF ControlOK
<1> DEFINE t == Top(w).task
           r == [tasks[t] EXCEPT !.i = tasks[t].start, !.cur = tasks[t].cur + 1]
           fr == [Top(w) EXCEPT !.pc = "test"]
<1>1. At(w, {"popped", "received"}) /\ Depth(w) > 0 /\ Top(w).pc \in {"popped", "received"}
  BY DEF Start, At
<1>2. t # Root /\ t \in Parts /\ tasks[t] \in TaskRecord /\ t \in 1 .. Len(tasks)
      /\ Top(w).future = NoFuture
  BY <1>1, RootFrame, RangeOf
<1>3. r \in TaskRecord
  <2>1. tasks[t].start \in Int /\ tasks[t].cur + 1 \in Int
    BY <1>2 DEF TaskRecord
  <2> QED BY <1>2, <2>1 DEF TaskRecord
<1>4. tasks' = [tasks EXCEPT ![t] = r]
  BY <1>2 DEF Start, TypeOK
<1>5. Retopped(w, fr)
  BY <1>1, GotoRetops DEF Start, Labels
<1>6. fr.task = t /\ fr.pc = "test" /\ fr.future = NoFuture
  BY <1>1, <1>2, TopFrame DEF FrameRecord
<1> HIDE DEF r, fr, t
<1>7. Updated(t, r)
  BY <1>2, <1>3, <1>4, Update
<1>8. Moved(w, t, r, fr)
  BY <1>1, <1>5, <1>6, <1>7 DEF Moved, t
<1>9. r = [tasks[t] EXCEPT !.i = tasks[t].start, !.cur = tasks[t].cur + 1]
  BY DEF r
<1> QED BY <1>1, <1>2, <1>6, <1>8, <1>9 DEF StartMoves

LeaveMoves(w, t, r, fr) ==
    /\ Moved(w, t, r, fr) /\ t \in Parts
    /\ Top(w).pc \in {"test", "poll"} /\ fr.pc = "reduce" /\ fr.future = NoFuture
    /\ r = Ran(tasks[t], tasks[t].end)
    /\ executed' = executed (+) Iterations(tasks[t], tasks[t].end)

LEMMA LeaveShape ==
    ASSUME ControlOK, NEW w \in Workers, Leave(w)
    PROVE  \E t, r, fr : LeaveMoves(w, t, r, fr)
<1> USE DEF ControlOK
<1> DEFINE t == Top(w).task
           j == IF tasks[t].i < tasks[t].end THEN tasks[t].end ELSE tasks[t].i
           r == Ran(tasks[t], tasks[t].end)
           fr == [Top(w) EXCEPT !.pc = "reduce"]
<1>1. At(w, {"test", "poll"}) /\ Depth(w) > 0 /\ Top(w).pc \in {"test", "poll"}
  BY DEF Leave, At
<1>2. t # Root /\ t \in Parts /\ tasks[t] \in TaskRecord /\ t \in 1 .. Len(tasks)
      /\ Top(w).future = NoFuture /\ tasks[t].i <= tasks[t].end
  BY <1>1, RootFrame, RangeOf
<1>3. tasks[t].end \in Int /\ tasks[t].i \in Int
  BY <1>2 DEF TaskRecord
<1>4. j = tasks[t].end
  BY <1>2, <1>3
<1>5. r \in TaskRecord
  BY <1>2, <1>3, RanType
<1>6. tasks' = [tasks EXCEPT ![t] = r] /\ executed' = executed (+) Iterations(tasks[t], tasks[t].end)
  BY <1>2, <1>4 DEF Leave
<1>7. Retopped(w, fr)
  BY <1>1, GotoRetops DEF Leave, Labels
<1>8. fr.task = t /\ fr.pc = "reduce" /\ fr.future = NoFuture
  BY <1>1, <1>2, TopFrame DEF FrameRecord
<1> HIDE DEF r, fr, t, j
<1>9. Updated(t, r)
  BY <1>2, <1>5, <1>6, Update
<1>10. Moved(w, t, r, fr)
  BY <1>1, <1>7, <1>8, <1>9 DEF Moved, t
<1> QED BY <1>1, <1>2, <1>6, <1>8, <1>10 DEF LeaveMoves, r

ReduceMoves(w, t, r, fr) ==
    /\ Moved(w, t, r, fr) /\ t \in Parts
    /\ Top(w).pc = "reduce" /\ fr.pc = "await" /\ tasks[t].futures # <<>>
    /\ fr.future = Head(tasks[t].futures)
    /\ r = [tasks[t] EXCEPT !.futures = Tail(tasks[t].futures)]

LEMMA ReduceShape ==
    ASSUME ControlOK, NEW w \in Workers, REDUCE(w)
    PROVE  \E t, r, fr : ReduceMoves(w, t, r, fr)
<1> USE DEF ControlOK
<1> DEFINE t == Top(w).task
           r == [tasks[t] EXCEPT !.futures = Tail(tasks[t].futures)]
           fr == [Top(w) EXCEPT !.pc = "await", !.future = Head(tasks[t].futures)]
<1>1. Depth(w) > 0 /\ Top(w).pc = "reduce" /\ tasks[t].futures # <<>>
  BY DEF REDUCE, At
<1>2. t # Root /\ t \in Parts /\ tasks[t] \in TaskRecord /\ t \in 1 .. Len(tasks)
  BY <1>1, RootFrame, RangeOf
<1>3. tasks[t].futures \in Seq(Nat)
  BY <1>2 DEF TaskRecord
<1>4. Tail(tasks[t].futures) \in Seq(Nat) /\ Head(tasks[t].futures) \in Nat
  BY <1>1, <1>3
<1>5. r \in TaskRecord
  BY <1>2, <1>4 DEF TaskRecord
<1>6. tasks' = [tasks EXCEPT ![t] = r]
  BY <1>2 DEF REDUCE, TypeOK
<1>7. Top(w) \in FrameRecord
  BY <1>1, TopFrame
<1>8. fr \in FrameRecord /\ fr.task = t /\ fr.pc = "await" /\ fr.future = Head(tasks[t].futures)
  BY <1>4, <1>7 DEF FrameRecord, Labels
<1>9. stack' = [stack EXCEPT ![w] = [stack[w] EXCEPT ![Depth(w)] = fr]]
  BY DEF REDUCE, Top
<1> HIDE DEF r, fr, t
<1>10. Retopped(w, fr)
  BY <1>1, <1>8, <1>9, Retop
<1>11. Updated(t, r)
  BY <1>2, <1>5, <1>6, Update
<1>12. Moved(w, t, r, fr)
  BY <1>1, <1>8, <1>10, <1>11 DEF Moved, t
<1> QED BY <1>1, <1>2, <1>8, <1>12 DEF ReduceMoves, r

\* Future f becomes g.
FutureUpdated(f, g) ==
    /\ f \in 1 .. Len(futures) /\ g \in FutureRecord
    /\ futures' \in Seq(FutureRecord) /\ Len(futures') = Len(futures)
    /\ futures'[f] = g
    /\ \A x \in 1 .. Len(futures) : x # f => futures'[x] = futures[x]

LEMMA FutureUpdate ==
    ASSUME TypeOK, NEW f \in 1 .. Len(futures), NEW g \in FutureRecord,
           futures' = [futures EXCEPT ![f] = g]
    PROVE  FutureUpdated(f, g)
BY DEF TypeOK, FutureUpdated

\* The loop that a future of the root task belongs to
LoopOf(f) == CHOOSE k \in 1 .. Len(results) :
                \E t \in DOMAIN tasks : tasks[t].loop = k /\ tasks[t].future = f

AwaitMoves(w, t, r, fr, f) ==
    /\ Moved(w, t, r, fr)
    /\ Top(w).pc = "await" /\ f = Top(w).future /\ READY(futures[f])
    /\ fr = Frame(t, IF t = Root THEN "user" ELSE "reduce")
    /\ FutureUpdated(f, [futures[f] EXCEPT !.freed = TRUE, !.chan = <<>>])
    /\ IF t = Root
       THEN /\ r = tasks[t]
            /\ results' = [results EXCEPT ![LoopOf(f)] = <<ResultOf(futures[f])>>]
       ELSE /\ r = [tasks[t] EXCEPT !.sum = tasks[t].sum \cup ResultOf(futures[f])]
            /\ t \in Parts /\ results' = results

\* A result that has arrived is a set of iterations.
LEMMA ResultType ==
    ASSUME NEW g \in FutureRecord, READY(g), g.has_channel => ~g.set
    PROVE  ResultOf(g) \in SUBSET Pairs
<1>1. CASE g.has_channel
  <2>1. g.chan \in Seq(SUBSET Pairs) /\ g.chan # <<>>
    BY <1>1 DEF READY, FutureRecord
  <2>2. g.chan[1] \in SUBSET Pairs
    BY <2>1
  <2> QED BY <1>1, <2>2 DEF ResultOf
<1>2. CASE ~g.has_channel
  BY <1>2 DEF ResultOf, FutureRecord
<1> QED BY <1>1, <1>2

LEMMA AwaitShape ==
    ASSUME ControlOK, FuturesOK, NEW w \in Workers, AwaitReturn(w)
    PROVE  \E t, r, fr, f : AwaitMoves(w, t, r, fr, f)
<1> USE DEF ControlOK
<1> DEFINE t == Top(w).task
           f == Top(w).future
           v == ResultOf(futures[f])
           g == [futures[f] EXCEPT !.freed = TRUE, !.chan = <<>>]
           r == IF t = Root THEN tasks[t] ELSE [tasks[t] EXCEPT !.sum = tasks[t].sum \cup v]
           fr == Frame(t, IF t = Root THEN "user" ELSE "reduce")
<1>1. Depth(w) > 0 /\ Top(w).pc = "await" /\ READY(futures[f])
  BY DEF AwaitReturn, At
<1>2. t \in 1 .. Len(tasks) /\ f \in 1 .. Len(futures) /\ tasks[t] \in TaskRecord
      /\ futures[f] \in FutureRecord
  BY <1>1, RootFrame, SMTT(30) DEF TypeOK
<1>3. v \in SUBSET Pairs
  BY <1>1, <1>2, ResultType DEF FuturesOK, FutureOK
<1>4. r \in TaskRecord
  BY <1>2, <1>3 DEF TaskRecord
<1>5. g \in FutureRecord
  <2>1. <<>> \in Seq(SUBSET Pairs)
    OBVIOUS
  <2> QED BY <1>2, <2>1 DEF FutureRecord
<1>6. futures' = [futures EXCEPT ![f] = g]
  BY <1>2 DEF AwaitReturn, TypeOK
<1>7. Top(w) \in FrameRecord
  BY <1>1, TopFrame
<1>8. fr \in FrameRecord /\ fr.task = t
  BY <1>7 DEF FrameRecord, Labels, Frame, NoFuture
<1>9. stack' = [stack EXCEPT ![w] = [stack[w] EXCEPT ![Depth(w)] = fr]]
  BY DEF AwaitReturn, Top
<1>10. IF t = Root
       THEN tasks' = tasks /\ results' = [results EXCEPT ![LoopOf(f)] = <<v>>]
       ELSE tasks' = [tasks EXCEPT ![t] = r] /\ results' = results
  BY <1>2 DEF AwaitReturn, LoopOf, TypeOK
<1>11. t # Root => t \in Parts
  BY <1>2 DEF Parts, Root, TypeOK
<1>12. r = IF t = Root THEN tasks[t] ELSE [tasks[t] EXCEPT !.sum = tasks[t].sum \cup ResultOf(futures[f])]
  OBVIOUS
<1> HIDE DEF r, fr, t, f, g
<1>13. Retopped(w, fr)
  BY <1>1, <1>8, <1>9, Retop
<1>14. Updated(t, r)
  <2>1. CASE t = Root
    BY <1>2, <1>10, <2>1, NoUpdate DEF r
  <2>2. CASE t # Root
    BY <1>2, <1>4, <1>10, <2>2, Update
  <2> QED BY <2>1, <2>2
<1>15. FutureUpdated(f, g)
  BY <1>2, <1>5, <1>6, FutureUpdate
<1>16. Moved(w, t, r, fr)
  BY <1>1, <1>8, <1>13, <1>14 DEF Moved, t
<1>17. AwaitMoves(w, t, r, fr, f)
  BY <1>1, <1>10, <1>11, <1>12, <1>15, <1>16 DEF AwaitMoves, fr, g, f
<1> QED BY <1>17

\* The task that w runs returns.
ReturnMoves(w, t, r) ==
    /\ Depth(w) > 0 /\ t = Top(w).task /\ t \in Parts /\ Top(w).pc = "reduce"
    /\ tasks[t].futures = <<>>
    /\ Updated(t, r) /\ r = [tasks[t] EXCEPT !.done = TRUE]
    /\ Returned(w)
    /\ IF tasks[t].future = NoFuture THEN futures' = futures
       ELSE FutureUpdated(tasks[t].future, FUTURE_SET(futures[tasks[t].future], tasks[t].sum))

LEMMA SetType ==
    ASSUME NEW g \in FutureRecord, NEW v \in SUBSET Pairs
    PROVE  FUTURE_SET(g, v) \in FutureRecord
<1>1. <<v>> \in Seq(SUBSET Pairs)
  OBVIOUS
<1> QED BY <1>1 DEF FUTURE_SET, FutureRecord

LEMMA ReturnShape ==
    ASSUME ControlOK, NEW w \in Workers, Return(w)
    PROVE  \E t, r : ReturnMoves(w, t, r)
<1> USE DEF ControlOK
<1> DEFINE t == Top(w).task
           f == tasks[t].future
           g == FUTURE_SET(futures[f], tasks[t].sum)
           r == [tasks[t] EXCEPT !.done = TRUE]
<1>1. Depth(w) > 0 /\ Top(w).pc = "reduce" /\ tasks[t].futures = <<>>
  BY DEF Return, At
<1>2. t # Root /\ t \in Parts /\ tasks[t] \in TaskRecord /\ t \in 1 .. Len(tasks)
  BY <1>1, RootFrame, RangeOf
<1>3. r \in TaskRecord
  BY <1>2 DEF TaskRecord
<1>4. tasks' = [tasks EXCEPT ![t] = r]
  BY <1>2 DEF Return, TypeOK
<1>5. Returned(w)
  BY <1>1, PopReturns DEF Return
<1>6. f \in 0 .. Len(futures) /\ tasks[t].sum \in SUBSET Pairs
  BY <1>2 DEF RefsOK, TaskRecord
<1>7. IF f = NoFuture THEN futures' = futures ELSE FutureUpdated(f, g)
  <2>1. CASE f = NoFuture
    BY <2>1 DEF Return
  <2>2. CASE f # NoFuture
    <3>1. f \in 1 .. Len(futures) /\ futures[f] \in FutureRecord
      BY <1>6, <2>2 DEF NoFuture, TypeOK
    <3>2. g \in FutureRecord
      BY <1>6, <3>1, SetType
    <3>3. futures' = [futures EXCEPT ![f] = g]
      BY <2>2, <3>1 DEF Return, TypeOK
    <3> HIDE DEF g, f
    <3>4. FutureUpdated(f, g)
      BY <3>1, <3>2, <3>3, FutureUpdate
    <3> QED BY <2>2, <3>4
  <2> QED BY <2>1, <2>2
<1> HIDE DEF r, t
<1>8. Updated(t, r)
  BY <1>2, <1>3, <1>4, Update
<1>9. ReturnMoves(w, t, r)
  BY <1>1, <1>2, <1>5, <1>7, <1>8 DEF ReturnMoves, r, t
<1> QED BY <1>9

\* The numbers of a task after an action
StartEffect(t, r) ==
    /\ r.loop = tasks[t].loop /\ r.done = FALSE /\ r.start = tasks[t].start
    /\ r.end = tasks[t].end /\ r.i = tasks[t].start /\ r.cur = r.i + 1 /\ r.i <= r.end
    /\ r.sum = tasks[t].sum /\ r.future = tasks[t].future
    /\ r.futures = tasks[t].futures
    /\ tasks[t].loop \in 1 .. Len(results)

LEMMA StartRange ==
    ASSUME ControlOK, NEW w \in Workers, NEW t, NEW r, NEW fr, StartMoves(w, t, r, fr)
    PROVE  StartEffect(t, r)
<1>1. /\ tasks[t] \in TaskRecord /\ ~tasks[t].done /\ tasks[t].start <= tasks[t].end
      /\ tasks[t].cur = tasks[t].start /\ tasks[t].loop \in 1 .. Len(results)
  BY RangeOf, RootFrame DEF StartMoves, Moved
<1> QED BY <1>1 DEF StartMoves, TaskRecord, StartEffect

LeaveEffect(t, r) ==
    /\ r.loop = tasks[t].loop /\ r.done = FALSE /\ r.start = tasks[t].start
    /\ r.end = tasks[t].end /\ r.i = r.end /\ r.cur = r.i + 1
    /\ r.sum = tasks[t].sum \cup {<<tasks[t].loop, i>> : i \in tasks[t].i .. tasks[t].end - 1}
    /\ r.future = tasks[t].future /\ r.futures = tasks[t].futures
    /\ tasks[t].loop \in 1 .. Len(results)

LEMMA LeaveRange ==
    ASSUME ControlOK, NEW w \in Workers, NEW t, NEW r, NEW fr, LeaveMoves(w, t, r, fr)
    PROVE  LeaveEffect(t, r)
<1>1. /\ tasks[t] \in TaskRecord /\ ~tasks[t].done /\ tasks[t].i <= tasks[t].end
      /\ tasks[t].cur = tasks[t].i + 1 /\ tasks[t].loop \in 1 .. Len(results)
  BY RangeOf, RootFrame DEF LeaveMoves, Moved
<1>2. tasks[t].i \in Int /\ tasks[t].end \in Int /\ tasks[t].cur \in Int
  BY <1>1 DEF TaskRecord
<1>3. tasks[t].cur + (tasks[t].end - tasks[t].i) = tasks[t].end + 1
  BY <1>1, <1>2
<1> QED BY <1>1, <1>2, <1>3 DEF LeaveMoves, Ran, TaskRecord, LeaveEffect

ReduceEffect(t, r) ==
    /\ r.loop = tasks[t].loop /\ r.done = FALSE /\ r.start = tasks[t].start
    /\ r.end = tasks[t].end /\ r.i = tasks[t].i /\ r.i = r.end /\ r.cur = r.i + 1
    /\ r.sum = tasks[t].sum /\ r.future = tasks[t].future
    /\ r.futures = Tail(tasks[t].futures)
    /\ tasks[t].loop \in 1 .. Len(results)

LEMMA ReduceRange ==
    ASSUME ControlOK, NEW w \in Workers, NEW t, NEW r, NEW fr, ReduceMoves(w, t, r, fr)
    PROVE  ReduceEffect(t, r)
<1>1. /\ tasks[t] \in TaskRecord /\ ~tasks[t].done /\ tasks[t].i = tasks[t].end
      /\ tasks[t].cur = tasks[t].i + 1 /\ tasks[t].loop \in 1 .. Len(results)
  BY RangeOf, RootFrame DEF ReduceMoves, Moved
<1> QED BY <1>1 DEF ReduceMoves, TaskRecord, ReduceEffect

AwaitEffect(t, r) ==
    /\ r.loop = tasks[t].loop /\ r.done = FALSE /\ r.start = tasks[t].start
    /\ r.end = tasks[t].end /\ r.i = tasks[t].i /\ r.cur = tasks[t].cur
    /\ r.future = tasks[t].future /\ r.futures = tasks[t].futures
    /\ t # Root => r.i = r.end /\ r.cur = r.i + 1 /\ tasks[t].loop \in 1 .. Len(results)

LEMMA AwaitRange ==
    ASSUME ControlOK, NEW w \in Workers, NEW t, NEW r, NEW fr, NEW f,
           AwaitMoves(w, t, r, fr, f)
    PROVE  AwaitEffect(t, r)
<1>1. tasks[t] \in TaskRecord /\ tasks[t].done = FALSE
  <2>1. Depth(w) > 0 /\ t = Top(w).task
    BY DEF AwaitMoves, Moved
  <2>2. t \in 1 .. Len(tasks) /\ ~tasks[t].done
    BY <2>1, RootFrame
  <2>3. tasks[t] \in TaskRecord
    BY <2>2 DEF ControlOK, TypeOK
  <2> QED BY <2>2, <2>3 DEF TaskRecord
<1>2. t # Root => /\ tasks[t].i = tasks[t].end /\ tasks[t].cur = tasks[t].i + 1
                  /\ tasks[t].loop \in 1 .. Len(results)
  BY RangeOf DEF AwaitMoves, Moved
<1>3. CASE t = Root
  BY <1>1, <1>3 DEF AwaitMoves, TaskRecord, AwaitEffect
<1>4. CASE t # Root
  BY <1>1, <1>2, <1>4 DEF AwaitMoves, TaskRecord, AwaitEffect
<1> QED BY <1>3, <1>4

\* RetopControl for a task
LEMMA MoveControl ==
    ASSUME ControlOK, NEW w \in Workers, NEW t \in Parts, NEW r, NEW fr, Moved(w, t, r, fr),
           fr.pc \in {"test", "reduce", "await"}, TopOK(fr),
           UNCHANGED <<program, deque, asked, chan, handles, results>>,
           futures' \in Seq(FutureRecord), Len(futures') = Len(futures),
           r.loop = tasks[t].loop, r.i <= r.end, r.cur = r.i + 1,
           r.future = tasks[t].future,
           \A k \in 1 .. Len(r.futures) : r.futures[k] \in 1 .. Len(futures)
    PROVE  ControlOK'
<1>1. t = fr.task /\ Retopped(w, fr) /\ fr.task = Top(w).task
  BY DEF Moved
<1>2. Started(fr.task)'
  BY <1>1, RetopPlaces DEF ControlOK
<1>3. tasks[t].loop \in 1 .. Len(results)
  BY DEF ControlOK, RangesOK, RangeOK
<1>4. RangeOK(fr.task)'
  BY <1>1, <1>2, <1>3 DEF RangeOK, Moved, Updated
<1> QED BY <1>1, <1>4, RetopControl DEF Moved, Updated, ControlOK, TypeOK

LEMMA StartControl ==
    ASSUME ControlOK, NEW w \in Workers, Start(w)
    PROVE  ControlOK'
<1>1. PICK t, r, fr : StartMoves(w, t, r, fr)
  BY StartShape
<1>2. UNCHANGED <<program, deque, asked, chan, handles, results, futures>>
  BY DEF Start
<1>3. /\ Moved(w, t, r, fr) /\ t \in Parts /\ fr.task = t /\ tasks'[t] = r
      /\ fr.pc = "test" /\ fr.future = NoFuture
  BY <1>1 DEF StartMoves, Moved, Updated
<1>4. /\ r.loop = tasks[t].loop /\ r.done = FALSE /\ r.cur = r.i + 1 /\ r.i <= r.end
      /\ r.future = tasks[t].future /\ r.futures = tasks[t].futures
  <2>1. StartEffect(t, r)
    BY <1>1, StartRange
  <2> QED BY <2>1 DEF StartEffect
<1>5. TopOK(fr)
  BY <1>3, <1>4 DEF TopOK, Parts, Root
<1>6. \A k \in 1 .. Len(r.futures) : r.futures[k] \in 1 .. Len(futures)
  BY <1>3, <1>4 DEF ControlOK, RefsOK, Parts
<1>7. futures' \in Seq(FutureRecord) /\ Len(futures') = Len(futures)
  BY <1>2 DEF ControlOK, TypeOK
<1> QED BY <1>2, <1>3, <1>4, <1>5, <1>6, <1>7, MoveControl

LEMMA LeaveControl ==
    ASSUME ControlOK, NEW w \in Workers, Leave(w)
    PROVE  ControlOK'
<1>1. PICK t, r, fr : LeaveMoves(w, t, r, fr)
  BY LeaveShape
<1>2. UNCHANGED <<program, deque, asked, chan, handles, results, futures>>
  BY DEF Leave
<1>3. /\ Moved(w, t, r, fr) /\ t \in Parts /\ fr.task = t /\ tasks'[t] = r /\ r \in TaskRecord
      /\ fr.pc = "reduce" /\ fr.future = NoFuture
  BY <1>1 DEF LeaveMoves, Moved, Updated
<1>4. /\ r.loop = tasks[t].loop /\ r.done = FALSE /\ r.cur = r.i + 1 /\ r.i = r.end
      /\ r.future = tasks[t].future /\ r.futures = tasks[t].futures
  <2>1. LeaveEffect(t, r)
    BY <1>1, LeaveRange
  <2> QED BY <2>1 DEF LeaveEffect
<1>5. TopOK(fr)
  BY <1>3, <1>4 DEF TopOK, Parts, Root
<1>6. \A k \in 1 .. Len(r.futures) : r.futures[k] \in 1 .. Len(futures)
  BY <1>3, <1>4 DEF ControlOK, RefsOK, Parts
<1>7. futures' \in Seq(FutureRecord) /\ Len(futures') = Len(futures)
  BY <1>2 DEF ControlOK, TypeOK
<1>8. r.i <= r.end
  BY <1>3, <1>4 DEF TaskRecord
<1> QED BY <1>2, <1>3, <1>4, <1>5, <1>6, <1>7, <1>8, MoveControl

LEMMA ReduceControl ==
    ASSUME ControlOK, NEW w \in Workers, REDUCE(w)
    PROVE  ControlOK'
<1>1. PICK t, r, fr : ReduceMoves(w, t, r, fr)
  BY ReduceShape
<1>2. UNCHANGED <<program, deque, asked, chan, handles, results, futures>>
  BY DEF REDUCE
<1>3. /\ Moved(w, t, r, fr) /\ t \in Parts /\ fr.task = t /\ tasks'[t] = r /\ r \in TaskRecord
      /\ fr.pc = "await" /\ fr.future = Head(tasks[t].futures) /\ tasks[t].futures # <<>>
  BY <1>1 DEF ReduceMoves, Moved, Updated
<1>4. /\ r.loop = tasks[t].loop /\ r.done = FALSE /\ r.cur = r.i + 1 /\ r.i = r.end
      /\ r.future = tasks[t].future /\ r.futures = Tail(tasks[t].futures)
  <2>1. ReduceEffect(t, r)
    BY <1>1, ReduceRange
  <2> QED BY <2>1 DEF ReduceEffect
<1>5. /\ tasks[t] \in TaskRecord
      /\ \A k \in 1 .. Len(tasks[t].futures) : tasks[t].futures[k] \in 1 .. Len(futures)
  BY <1>3 DEF ControlOK, TypeOK, RefsOK, Parts
<1>6. tasks[t].futures \in Seq(Nat)
  BY <1>5 DEF TaskRecord
<1>7. /\ Head(tasks[t].futures) \in 1 .. Len(futures)
      /\ \A k \in 1 .. Len(Tail(tasks[t].futures)) : Tail(tasks[t].futures)[k] \in 1 .. Len(futures)
  BY <1>3, <1>5, <1>6
<1>8. TopOK(fr)
  BY <1>2, <1>3, <1>4, <1>7 DEF TopOK, Parts, Root
<1>9. futures' \in Seq(FutureRecord) /\ Len(futures') = Len(futures)
  BY <1>2 DEF ControlOK, TypeOK
<1>10. r.i <= r.end
  BY <1>3, <1>4 DEF TaskRecord
<1> QED BY <1>2, <1>3, <1>4, <1>7, <1>8, <1>9, <1>10, MoveControl

\* A future belongs to the loop of the one task that sets it.
LEMMA LoopOfFuture ==
    ASSUME ControlOK, FuturesOK, NEW f \in 1 .. Len(futures), NEW t \in Parts,
           tasks[t].future = f
    PROVE  LoopOf(f) = tasks[t].loop /\ LoopOf(f) \in 1 .. Len(results)
<1>1. f # NoFuture /\ DOMAIN tasks = 1 .. Len(tasks) /\ t \in DOMAIN tasks
  BY DEF NoFuture, ControlOK, TypeOK, Parts
<1>2. \A u \in DOMAIN tasks : tasks[u].future = f => u = t
  <2> SUFFICES ASSUME NEW u \in DOMAIN tasks, tasks[u].future = f
               PROVE  u = t
    OBVIOUS
  <2>1. u # Root
    BY <1>1 DEF FuturesOK
  <2>2. u \in Parts
    BY <1>1, <2>1 DEF Parts, Root, ControlOK, TypeOK
  <2> QED BY <1>1, <2>2 DEF FuturesOK, SetOnce
<1>3. tasks[t].loop \in 1 .. Len(results)
  BY DEF ControlOK, RangesOK, RangeOK
<1>4. \A k \in 1 .. Len(results) :
        (\E u \in DOMAIN tasks : tasks[u].loop = k /\ tasks[u].future = f) <=> k = tasks[t].loop
  BY <1>1, <1>2, <1>3
<1> QED BY <1>3, <1>4 DEF LoopOf

LEMMA AwaitControl ==
    ASSUME ControlOK, FuturesOK, NEW w \in Workers, AwaitReturn(w)
    PROVE  ControlOK'
<1>1. PICK t, r, fr, f : AwaitMoves(w, t, r, fr, f)
  BY AwaitShape
<1>2. UNCHANGED <<program, deque, asked, chan, handles>>
  BY DEF AwaitReturn
<1>3. /\ Moved(w, t, r, fr) /\ t \in 1 .. Len(tasks) /\ tasks'[t] = r /\ r \in TaskRecord
      /\ t # Root => t \in Parts /\ results' = results
      /\ fr.task = t /\ fr.future = NoFuture
      /\ fr.pc = IF t = Root THEN "user" ELSE "reduce"
      /\ f \in 1 .. Len(futures) /\ READY(futures[f])
      /\ futures' \in Seq(FutureRecord) /\ Len(futures') = Len(futures)
  BY <1>1 DEF AwaitMoves, Frame, Moved, Updated, FutureUpdated
<1>4. /\ r.loop = tasks[t].loop /\ r.done = FALSE
      /\ r.future = tasks[t].future /\ r.futures = tasks[t].futures
      /\ t # Root => r.cur = r.i + 1 /\ r.i = r.end
  <2>1. AwaitEffect(t, r)
    BY <1>1, AwaitRange
  <2> QED BY <2>1 DEF AwaitEffect
<1>5. TopOK(fr)
  BY <1>3, <1>4 DEF TopOK
<1>6. \A k \in 1 .. Len(r.futures) : r.futures[k] \in 1 .. Len(futures)
  BY <1>3, <1>4 DEF ControlOK, RefsOK
<1>7. CASE t # Root
  <2>1. r.i <= r.end
    BY <1>3, <1>4, <1>7 DEF TaskRecord
  <2> QED BY <1>2, <1>3, <1>4, <1>5, <1>6, <1>7, <2>1, MoveControl
<1>8. CASE t = Root
  <2>1. futures[f] \in FutureRecord /\ (futures[f].has_channel => ~futures[f].set)
    BY <1>3 DEF FuturesOK, FutureOK, ControlOK, TypeOK
  <2>2. ResultOf(futures[f]) \in SUBSET Pairs
    BY <1>3, <2>1, ResultType
  <2>3. <<ResultOf(futures[f])>> \in Seq(SUBSET Pairs)
    BY <2>2
  <2>4. results' = [results EXCEPT ![LoopOf(f)] = <<ResultOf(futures[f])>>]
    BY <1>1, <1>8 DEF AwaitMoves
  <2>5. results' \in Seq(Seq(SUBSET Pairs)) /\ Len(results') = Len(results)
    <3>1. results \in Seq(Seq(SUBSET Pairs))
      BY DEF ControlOK, TypeOK
    <3> DEFINE x == <<ResultOf(futures[f])>>
               S == Seq(SUBSET Pairs)
    <3> HIDE DEF x, S
    <3>2. results \in Seq(S) /\ x \in S /\ results' = [results EXCEPT ![LoopOf(f)] = x]
      BY <2>3, <2>4, <3>1 DEF x, S
    <3>4. LoopOf(f) \in 1 .. Len(results)
      BY <1>3, LoopOfFuture DEF FuturesOK, FutureOK
    <3>3. results' \in Seq(S) /\ Len(results') = Len(results)
      BY <3>2, <3>4
    <3> QED BY <3>3 DEF S
  <2>6. /\ Retopped(w, fr) /\ fr.task = Top(w).task /\ tasks' \in Seq(TaskRecord)
        /\ Len(tasks') = Len(tasks)
        /\ \A u \in 1 .. Len(tasks) : u # fr.task => tasks'[u] = tasks[u]
    BY <1>3 DEF Moved, Updated
  <2> QED BY <1>2, <1>3, <1>4, <1>5, <1>6, <1>8, <2>5, <2>6, RetopControl
<1> QED BY <1>7, <1>8

LEMMA ReturnControl ==
    ASSUME ControlOK, NEW w \in Workers, Return(w)
    PROVE  ControlOK'
<1>1. PICK t, r : ReturnMoves(w, t, r)
  BY ReturnShape
<1>2. UNCHANGED <<program, deque, asked, chan, handles, results>>
  BY DEF Return
<1>3. /\ Depth(w) > 0 /\ t = Top(w).task /\ t \in Parts /\ Updated(t, r) /\ Returned(w)
      /\ r = [tasks[t] EXCEPT !.done = TRUE]
      /\ futures' = futures \/ (futures' \in Seq(FutureRecord) /\ Len(futures') = Len(futures))
  BY <1>1 DEF ReturnMoves, FutureUpdated
<1>4. /\ futures' \in Seq(FutureRecord) /\ Len(futures') = Len(futures)
      /\ tasks' \in Seq(TaskRecord) /\ Len(tasks') = Len(tasks) /\ tasks'[t] = r
      /\ \A u \in 1 .. Len(tasks) : u # t => tasks'[u] = tasks[u]
  BY <1>3 DEF Updated, ControlOK, TypeOK
<1>5. Len(tasks) \in Nat /\ Len(futures) \in Nat /\ t # Root /\ t \in 1 .. Len(tasks)
      /\ tasks[t] \in TaskRecord
  BY <1>3 DEF ControlOK, TypeOK, Parts, Root
<1>6. /\ r.done /\ r.loop = tasks[t].loop /\ r.future = tasks[t].future
      /\ r.futures = tasks[t].futures
  BY <1>3, <1>5 DEF TaskRecord
<1>7. TypeOK'
  BY <1>2, <1>3, <1>4 DEF ControlOK, TypeOK, Returned
<1>8. Others(w)
  BY <1>3, <1>4, <1>5 DEF Others
<1>9. /\ StackOK'
      /\ \A u : OnStack(u)' <=> OnStack(u) /\ u # t
      /\ \A u : u # t => (Started(u)' <=> Started(u))
  BY <1>3, <1>5, <1>8, ReturnStack DEF ControlOK
<1>10. OnStack(t)
  <2>1. Depth(w) \in 1 .. Depth(w) /\ stack[w][Depth(w)] = Top(w)
    BY <1>3, TopFrame DEF Depth, ControlOK
  <2> QED BY <1>3, <2>1 DEF OnStack
<1>11. \A u : Waiting(u) => Waiting(u)'
  BY <1>4, <1>9, <1>10 DEF Waiting, Parts
<1>12. PlacesOK'
  BY <1>2, <1>11 DEF ControlOK, PlacesOK
<1>13. RangesOK'
  <2> SUFFICES ASSUME NEW u \in Parts
               PROVE  RangeOK(u)'
    BY <1>4 DEF RangesOK, Parts
  <2>1. RangeOK(u)
    BY DEF ControlOK, RangesOK
  <2>2. CASE u = t
    BY <1>2, <1>4, <1>6, <2>1, <2>2 DEF RangeOK
  <2>3. CASE u # t
    <3>1. tasks'[u] = tasks[u]
      BY <1>4, <2>3 DEF Parts
    <3> QED BY <1>2, <1>9, <2>1, <2>3, <3>1 DEF RangeOK
  <2> QED BY <2>2, <2>3
<1>14. RefsOK'
  <2>1. ASSUME NEW u \in 1 .. Len(tasks)
        PROVE  /\ tasks'[u].future = tasks[u].future /\ tasks'[u].futures = tasks[u].futures
    BY <1>4, <1>6
  <2> QED BY <1>2, <1>4, <2>1 DEF ControlOK, RefsOK
<1> QED BY <1>7, <1>9, <1>12, <1>13, <1>14 DEF ControlOK

LEMMA AskControl ==
    ASSUME ControlOK, NEW w \in Workers, Ask(w)
    PROVE  ControlOK'
<1>1. UNCHANGED <<program, tasks, futures, deque, stack, chan, handles, results>>
      /\ asked' \in [Workers -> BOOLEAN]
  BY DEF Ask, ControlOK, TypeOK
<1>2. TypeOK'
  BY <1>1 DEF ControlOK, TypeOK
<1>3. StackOK'
  BY <1>1, SMTT(30) DEF ControlOK, StackOK, FrameOK, Depth
<1>4. PlacesOK'
  BY <1>1 DEF ControlOK, PlacesOK, Waiting, Parts, OnStack, Depth
<1>5. RangesOK'
  BY <1>1 DEF ControlOK, RangesOK, RangeOK, Started, Depth, Parts
<1>6. RefsOK'
  BY <1>1 DEF ControlOK, RefsOK
<1> QED BY <1>2, <1>3, <1>4, <1>5, <1>6 DEF ControlOK

\* A waiting task is put on the stack of w.
LEMMA CallControl ==
    ASSUME ControlOK, NEW w \in Workers, NEW t, NEW l \in {"popped", "received"},
           Waiting(t), Called(w, Frame(t, l)),
           IF Depth(w) = 0 THEN w # Master ELSE Top(w).pc \in {"await", "barrier"},
           l = "popped" => w = Master /\ Depth(w) = 1,
           UNCHANGED <<program, tasks, futures, handles, results>>,
           deque' \in [Workers -> Seq(Nat)], chan' \in [Workers -> Nat],
           asked' \in [Workers -> BOOLEAN],
           \A v \in Workers \ {Master} : deque'[v] = <<>>,
           \A k \in 1 .. Len(deque'[Master]) : deque'[Master][k] # t /\
                \E j \in 1 .. Len(deque[Master]) : deque'[Master][k] = deque[Master][j],
           \A j, k \in 1 .. Len(deque'[Master]) : deque'[Master][j] = deque'[Master][k] => j = k,
           \A v \in Workers : chan'[v] = NoTask \/ (chan'[v] = chan[v] /\ chan[v] # t)
    PROVE  ControlOK'
<1>1. t \in Parts /\ ~OnStack(t) /\ ~tasks[t].done
  BY DEF Waiting
<1>2. /\ StackOK'
      /\ \A u : OnStack(u)' <=> OnStack(u) \/ u = t
      /\ \A u : Started(u)' <=> Started(u)
  BY <1>1, CallStack DEF ControlOK
<1>3. TypeOK'
  BY DEF ControlOK, TypeOK, Called
<1>4. \A u : Waiting(u) /\ u # t => Waiting(u)'
  BY <1>2 DEF Waiting, Parts
<1>5. PlacesOK'
  <2>1. ASSUME NEW k \in 1 .. Len(deque'[Master])
        PROVE  Waiting(deque[Master][k])' /\ \A v \in Workers : chan'[v] # deque'[Master][k]
    <3>1. PICK j \in 1 .. Len(deque[Master]) : deque'[Master][k] = deque[Master][j]
      OBVIOUS
    <3>2. Waiting(deque[Master][j]) /\ \A v \in Workers : chan[v] # deque[Master][j]
      BY DEF ControlOK, PlacesOK
    <3>3. deque[Master][j] # NoTask
      BY <3>2 DEF Waiting, Parts, NoTask
    <3> QED BY <1>4, <3>1, <3>2, <3>3
  <2>2. ASSUME NEW v \in Workers, chan'[v] # NoTask
        PROVE  Waiting(chan[v])' /\ \A u \in Workers : chan'[u] = chan'[v] => u = v
    <3>1. chan'[v] = chan[v] /\ chan[v] # t /\ chan[v] # NoTask
      BY <2>2
    <3>2. Waiting(chan[v]) /\ \A u \in Workers : chan[u] = chan[v] => u = v
      BY <3>1 DEF ControlOK, PlacesOK
    <3>3. Waiting(chan[v])'
      BY <1>4, <3>1, <3>2
    <3>4. \A u \in Workers : chan'[u] = chan'[v] => u = v
      BY <2>2, <3>1, <3>2
    <3> QED BY <3>3, <3>4
  <2> QED BY <2>1, <2>2 DEF PlacesOK
<1>6. RangesOK'
  BY <1>2 DEF ControlOK, RangesOK, RangeOK, Parts
<1>7. RefsOK'
  BY DEF ControlOK, RefsOK
<1> QED BY <1>2, <1>3, <1>5, <1>6, <1>7 DEF ControlOK

PopMoves(w, t) ==
    /\ w = Master /\ Depth(w) = 1 /\ Top(w).pc \in {"await", "barrier"} /\ Top(w).task = Root
    /\ deque[Master] # <<>> /\ t = Head(deque[Master]) /\ Waiting(t)
    /\ Called(w, Frame(t, "popped"))
    /\ deque' \in [Workers -> Seq(Nat)]
    /\ deque'[Master] = Tail(deque[Master])
    /\ \A v \in Workers \ {Master} : deque'[v] = <<>>

LEMMA PopShape ==
    ASSUME ControlOK, NEW w \in Workers, Pop(w)
    PROVE  \E t : PopMoves(w, t)
<1> USE MasterWorks
<1>1. Depth(w) > 0 /\ Top(w).pc \in {"await", "barrier"} /\ Top(w).task = Root /\ deque[w] # <<>>
  BY DEF Pop, At, CanPop
<1>2. w = Master /\ Depth(w) = 1
  BY <1>1, RootFrame
<1>3. deque[Master] \in Seq(Nat) /\ 1 \in 1 .. Len(deque[Master])
      /\ Head(deque[Master]) = deque[Master][1]
  BY <1>1, <1>2 DEF ControlOK, TypeOK
<1>4. Waiting(Head(deque[Master])) /\ Head(deque[Master]) \in Nat
  BY <1>3 DEF ControlOK, PlacesOK
<1>5. Called(w, Frame(Head(deque[Master]), "popped"))
  BY <1>2, <1>4, CallCalls DEF Pop, ControlOK, Labels
<1>6. /\ deque' \in [Workers -> Seq(Nat)] /\ deque'[Master] = Tail(deque[Master])
      /\ \A v \in Workers \ {Master} : deque'[v] = <<>>
  BY <1>1, <1>2 DEF Pop, ControlOK, TypeOK, PlacesOK
<1> QED BY <1>1, <1>2, <1>4, <1>5, <1>6 DEF PopMoves

LEMMA PopControl ==
    ASSUME ControlOK, NEW w \in Workers, Pop(w)
    PROVE  ControlOK'
<1> USE MasterWorks
<1>1. PICK t : PopMoves(w, t)
  BY PopShape
<1>2. UNCHANGED <<program, tasks, futures, asked, chan, handles, results>>
  BY DEF Pop
<1>3. deque[Master] \in Seq(Nat) /\ deque[Master] # <<>> /\ t = deque[Master][1]
      /\ deque'[Master] = Tail(deque[Master])
  BY <1>1 DEF PopMoves, ControlOK, TypeOK
<1>4. /\ Len(deque'[Master]) = Len(deque[Master]) - 1 /\ Len(deque[Master]) \in Nat
      /\ 1 \in 1 .. Len(deque[Master])
      /\ \A k \in 1 .. Len(deque'[Master]) : /\ deque'[Master][k] = deque[Master][k + 1]
                                             /\ k + 1 \in 1 .. Len(deque[Master]) /\ k + 1 # 1
  BY <1>3
<1>5. \A j, k \in 1 .. Len(deque[Master]) : deque[Master][j] = deque[Master][k] => j = k
  BY DEF ControlOK, PlacesOK
<1>6. \A k \in 1 .. Len(deque'[Master]) : deque'[Master][k] # t /\
                \E j \in 1 .. Len(deque[Master]) : deque'[Master][k] = deque[Master][j]
  BY <1>3, <1>4, <1>5
<1>7. \A j, k \in 1 .. Len(deque'[Master]) : deque'[Master][j] = deque'[Master][k] => j = k
  <2> SUFFICES ASSUME NEW j \in 1 .. Len(deque'[Master]), NEW k \in 1 .. Len(deque'[Master]),
                      deque'[Master][j] = deque'[Master][k]
               PROVE  j = k
    OBVIOUS
  <2>1. j + 1 = k + 1
    BY <1>4, <1>5
  <2> QED BY <2>1
<1>8. \A v \in Workers : chan'[v] = chan[v] /\ chan[v] # t
  BY <1>2, <1>3, <1>4 DEF ControlOK, PlacesOK
<1>9. /\ w = Master /\ Depth(w) = 1 /\ Top(w).pc \in {"await", "barrier"} /\ Waiting(t)
      /\ Called(w, Frame(t, "popped")) /\ deque' \in [Workers -> Seq(Nat)]
      /\ \A v \in Workers \ {Master} : deque'[v] = <<>>
  BY <1>1 DEF PopMoves
<1>10. chan' \in [Workers -> Nat] /\ asked' \in [Workers -> BOOLEAN]
  BY <1>2 DEF ControlOK, TypeOK
<1>11. IF Depth(w) = 0 THEN w # Master ELSE Top(w).pc \in {"await", "barrier"}
  BY <1>9
<1> QED BY <1>2, <1>6, <1>7, <1>8, <1>9, <1>10, <1>11, CallControl

ReceiveMoves(w, t) ==
    /\ IF Depth(w) = 0 THEN w # Master ELSE Top(w).pc \in {"await", "barrier"}
    /\ t = chan[w] /\ t # NoTask /\ Waiting(t)
    /\ Called(w, Frame(t, "received"))
    /\ chan' \in [Workers -> Nat]
    /\ \A v \in Workers : chan'[v] = IF v = w THEN NoTask ELSE chan[v]

LEMMA ReceiveShape ==
    ASSUME ControlOK, NEW w \in Workers, Receive(w)
    PROVE  \E t : ReceiveMoves(w, t)
<1>1. IF Depth(w) = 0 THEN w # Master ELSE Top(w).pc \in {"await", "barrier"}
  BY DEF Receive, Stealing, Idle, At, ControlOK, StackOK
<1>2. chan[w] \in Nat /\ chan[w] # NoTask /\ Waiting(chan[w])
  BY DEF Receive, ControlOK, TypeOK, PlacesOK
<1>3. Called(w, Frame(chan[w], "received"))
  BY <1>2, CallCalls DEF Receive, ControlOK, Labels
<1>4. /\ chan' \in [Workers -> Nat]
      /\ \A v \in Workers : chan'[v] = IF v = w THEN NoTask ELSE chan[v]
  BY DEF Receive, ControlOK, TypeOK, NoTask
<1> QED BY <1>1, <1>2, <1>3, <1>4 DEF ReceiveMoves

LEMMA ReceiveControl ==
    ASSUME ControlOK, NEW w \in Workers, Receive(w)
    PROVE  ControlOK'
<1> USE MasterWorks
<1>1. PICK t : ReceiveMoves(w, t)
  BY ReceiveShape
<1>2. UNCHANGED <<program, tasks, futures, deque, handles, results>>
  BY DEF Receive
<1>3. /\ IF Depth(w) = 0 THEN w # Master ELSE Top(w).pc \in {"await", "barrier"}
      /\ t = chan[w] /\ t # NoTask /\ Waiting(t) /\ Called(w, Frame(t, "received"))
      /\ chan' \in [Workers -> Nat]
      /\ \A v \in Workers : chan'[v] = IF v = w THEN NoTask ELSE chan[v]
  BY <1>1 DEF ReceiveMoves
<1>4. /\ deque' \in [Workers -> Seq(Nat)] /\ asked' \in [Workers -> BOOLEAN]
      /\ \A v \in Workers \ {Master} : deque'[v] = <<>>
      /\ \A j, k \in 1 .. Len(deque'[Master]) : deque'[Master][j] = deque'[Master][k] => j = k
  BY <1>2 DEF Receive, ControlOK, TypeOK, PlacesOK
<1>5. \A v \in Workers : chan'[v] = NoTask \/ (chan'[v] = chan[v] /\ chan[v] # t)
  BY <1>3 DEF ControlOK, PlacesOK
<1>6. \A k \in 1 .. Len(deque'[Master]) : deque'[Master][k] # t /\
                \E j \in 1 .. Len(deque[Master]) : deque'[Master][k] = deque[Master][j]
  BY <1>2, <1>3 DEF ControlOK, PlacesOK
<1> QED BY <1>2, <1>3, <1>4, <1>5, <1>6, CallControl

-----------------------------------------------------------------------------
(* Answers to steal requests *)

StealMoves(v, w, t) ==
    /\ v = Master /\ w \in Workers /\ chan[w] = NoTask
    /\ deque[Master] # <<>> /\ t = deque[Master][Len(deque[Master])] /\ Waiting(t)
    /\ deque' \in [Workers -> Seq(Nat)]
    /\ deque'[Master] = SubSeq(deque[Master], 1, Len(deque[Master]) - 1)
    /\ \A u \in Workers \ {Master} : deque'[u] = <<>>
    /\ chan' \in [Workers -> Nat]
    /\ \A u \in Workers : chan'[u] = IF u = w THEN t ELSE chan[u]
    /\ IF tasks[t].future = NoFuture THEN futures' = futures
       ELSE FutureUpdated(tasks[t].future, FUTURE_CONVERT(futures[tasks[t].future]))

LEMMA StealShape ==
    ASSUME ControlOK, NEW v \in Workers, NEW w \in Workers, handle_steal_request(v, w)
    PROVE  \E t : StealMoves(v, w, t)
<1> USE MasterWorks
<1> DEFINE t == deque[v][Len(deque[v])]
           f == tasks[t].future
           g == FUTURE_CONVERT(futures[f])
<1>1. deque[v] # <<>> /\ chan[w] = NoTask
  BY DEF handle_steal_request, MayAnswer
<1>2. v = Master
  BY <1>1 DEF ControlOK, PlacesOK
<1>3. deque[Master] \in Seq(Nat) /\ Len(deque[Master]) \in 1 .. Len(deque[Master])
  BY <1>1, <1>2 DEF ControlOK, TypeOK
<1>4. Waiting(t) /\ t \in Nat
  BY <1>2, <1>3 DEF ControlOK, PlacesOK
<1>5. /\ deque' \in [Workers -> Seq(Nat)]
      /\ deque'[Master] = SubSeq(deque[Master], 1, Len(deque[Master]) - 1)
      /\ \A u \in Workers \ {Master} : deque'[u] = <<>>
  <2> DEFINE q == SubSeq(deque[Master], 1, Len(deque[Master]) - 1)
  <2>1. q \in Seq(Nat)
    BY <1>3
  <2>2. deque' = [deque EXCEPT ![Master] = q]
    BY <1>2 DEF handle_steal_request
  <2> HIDE DEF q
  <2>3. /\ deque' \in [Workers -> Seq(Nat)] /\ deque'[Master] = q
        /\ \A u \in Workers \ {Master} : deque'[u] = deque[u]
    BY <2>1, <2>2 DEF ControlOK, TypeOK
  <2> QED BY <2>3 DEF q, ControlOK, PlacesOK
<1>6. /\ chan' \in [Workers -> Nat]
      /\ \A u \in Workers : chan'[u] = IF u = w THEN t ELSE chan[u]
  BY <1>4 DEF handle_steal_request, ControlOK, TypeOK
<1>7. IF f = NoFuture THEN futures' = futures ELSE FutureUpdated(f, g)
  <2>1. CASE f = NoFuture
    BY <2>1 DEF handle_steal_request
  <2>2. CASE f # NoFuture
    <3>1. t \in 1 .. Len(tasks)
      BY <1>4 DEF Waiting, Parts
    <3>2. f \in 1 .. Len(futures)
      BY <2>2, <3>1 DEF ControlOK, RefsOK, NoFuture
    <3>3. futures[f] \in FutureRecord
      <4> HIDE DEF f
      <4> QED BY <3>2 DEF ControlOK, TypeOK
    <3>4. g \in FutureRecord
      BY <3>3 DEF FUTURE_CONVERT, FutureRecord
    <3>5. futures' = [futures EXCEPT ![f] = g]
      BY <2>2 DEF handle_steal_request
    <3> HIDE DEF g, f, t
    <3>6. FutureUpdated(f, g)
      BY <3>2, <3>4, <3>5, FutureUpdate DEF ControlOK
    <3> QED BY <2>2, <3>6
  <2> QED BY <2>1, <2>2
<1> QED BY <1>1, <1>2, <1>4, <1>5, <1>6, <1>7 DEF StealMoves

LEMMA StealControl ==
    ASSUME ControlOK, NEW v \in Workers, NEW w \in Workers, handle_steal_request(v, w)
    PROVE  ControlOK'
<1> USE MasterWorks
<1>1. PICK t : StealMoves(v, w, t)
  BY StealShape
<1>2. UNCHANGED <<program, tasks, stack, asked, handles, results>>
  BY DEF handle_steal_request
<1>3. /\ chan[w] = NoTask /\ t = deque[Master][Len(deque[Master])] /\ Waiting(t)
      /\ deque[Master] \in Seq(Nat) /\ deque[Master] # <<>>
      /\ deque' \in [Workers -> Seq(Nat)]
      /\ deque'[Master] = SubSeq(deque[Master], 1, Len(deque[Master]) - 1)
      /\ \A u \in Workers \ {Master} : deque'[u] = <<>>
      /\ chan' \in [Workers -> Nat]
      /\ \A u \in Workers : chan'[u] = IF u = w THEN t ELSE chan[u]
  BY <1>1 DEF StealMoves, ControlOK, TypeOK
<1>4. futures' \in Seq(FutureRecord) /\ Len(futures') = Len(futures)
  BY <1>1 DEF StealMoves, FutureUpdated, ControlOK, TypeOK
<1>5. TypeOK'
  BY <1>2, <1>3, <1>4 DEF ControlOK, TypeOK
<1>6. /\ StackOK'
      /\ \A u : OnStack(u)' <=> OnStack(u)
      /\ \A u : Started(u)' <=> Started(u)
  <2>1. Len(tasks) \in Nat /\ Len(futures) \in Nat
    BY DEF ControlOK, TypeOK
  <2> QED BY <1>2, <1>4, <2>1, KeptStack DEF ControlOK
<1>7. \A u : Waiting(u) => Waiting(u)'
  BY <1>2, <1>6 DEF Waiting, Parts
<1>8. /\ Len(deque[Master]) \in Nat /\ Len(deque[Master]) \in 1 .. Len(deque[Master])
      /\ Len(deque'[Master]) = Len(deque[Master]) - 1
      /\ \A k \in 1 .. Len(deque'[Master]) : /\ deque'[Master][k] = deque[Master][k]
                                             /\ k \in 1 .. Len(deque[Master])
                                             /\ k # Len(deque[Master])
  <2> DEFINE q == deque[Master]
             p == deque'[Master]
  <2>1. q \in Seq(Nat) /\ q # <<>> /\ p = SubSeq(q, 1, Len(q) - 1)
    BY <1>3
  <2> HIDE DEF q, p
  <2>2. Len(q) \in Nat /\ Len(q) >= 1 /\ Len(q) - 1 \in Nat
    BY <2>1
  <2>3. Len(p) = Len(q) - 1 /\ \A k \in 1 .. Len(q) - 1 : p[k] = q[k]
    <3>1. \A n \in 0 .. Len(q) : /\ Len(SubSeq(q, 1, n)) = n
                                /\ \A k \in 1 .. n : SubSeq(q, 1, n)[k] = q[k]
      BY <2>1
    <3>2. Len(q) - 1 \in 0 .. Len(q)
      BY <2>2
    <3> QED BY <2>1, <3>1, <3>2
  <2>4. \A k \in 1 .. Len(q) - 1 : k \in 1 .. Len(q) /\ k # Len(q)
    BY <2>2
  <2>5. Len(q) \in 1 .. Len(q)
    BY <2>2
  <2> QED BY <2>2, <2>3, <2>4, <2>5 DEF q, p
<1>9. \A j, k \in 1 .. Len(deque[Master]) : deque[Master][j] = deque[Master][k] => j = k
  BY DEF ControlOK, PlacesOK
<1>10. PlacesOK'
  <2>1. ASSUME NEW k \in 1 .. Len(deque'[Master])
        PROVE  Waiting(deque[Master][k])' /\ \A u \in Workers : chan'[u] # deque'[Master][k]
    <3>1. /\ deque'[Master][k] = deque[Master][k] /\ deque[Master][k] # t
          /\ Waiting(deque[Master][k]) /\ \A u \in Workers : chan[u] # deque[Master][k]
      BY <1>3, <1>8, <1>9 DEF ControlOK, PlacesOK
    <3> QED BY <1>3, <1>7, <3>1
  <2>2. ASSUME NEW x \in Workers, chan'[x] # NoTask
        PROVE  Waiting(chan[x])' /\ \A u \in Workers : chan'[u] = chan'[x] => u = x
    <3>1. \A u \in Workers : chan[u] # t
      BY <1>3, <1>8 DEF ControlOK, PlacesOK
    <3>2. CASE x = w
      <4>1. chan'[x] = t
        BY <1>3, <3>2
      <4> QED BY <1>3, <1>7, <3>1, <3>2, <4>1
    <3>3. CASE x # w
      <4>1. chan'[x] = chan[x] /\ chan[x] # NoTask /\ chan[x] # t
        BY <1>3, <2>2, <3>1, <3>3
      <4>2. Waiting(chan[x]) /\ \A u \in Workers : chan[u] = chan[x] => u = x
        BY <4>1 DEF ControlOK, PlacesOK
      <4> QED BY <1>3, <1>7, <4>1, <4>2
    <3> QED BY <3>2, <3>3
  <2>3. \A j, k \in 1 .. Len(deque'[Master]) : deque'[Master][j] = deque'[Master][k] => j = k
    BY <1>8, <1>9
  <2> QED BY <1>3, <2>1, <2>2, <2>3 DEF PlacesOK
<1>11. RangesOK'
  BY <1>2, <1>6 DEF ControlOK, RangesOK, RangeOK, Parts
<1>12. RefsOK'
  BY <1>2, <1>4 DEF ControlOK, RefsOK
<1> QED BY <1>5, <1>6, <1>10, <1>11, <1>12 DEF ControlOK

\* v splits the task t that it runs, which is r by then, at s, and sends the new
\* task to w; its future f goes to the list of task c.
SplitMoves(v, w, t, c, r, s, f, fr) ==
    /\ Depth(v) > 0 /\ t = Top(v).task /\ t \in Parts /\ c \in {t, Root}
    /\ w \in Workers /\ chan[w] = NoTask
    /\ r \in TaskRecord /\ s \in Int /\ r.cur < s /\ s < r.end
    /\ r.loop = tasks[t].loop /\ r.done = FALSE /\ r.start = tasks[t].start
    /\ r.end = tasks[t].end /\ r.future = tasks[t].future /\ r.futures = tasks[t].futures
    /\ f = IF tasks[t].future = NoFuture THEN NoFuture ELSE Len(futures) + 1
    /\ futures' = IF f = NoFuture THEN futures ELSE Append(futures, PartFuture)
    /\ SplitTasks(t, c, r, s, f)
    /\ chan' = [chan EXCEPT ![w] = Len(tasks) + 1]
    /\ Retopped(v, fr) /\ fr.task = t /\ fr.future = NoFuture
    /\ UNCHANGED <<program, deque, asked, handles, results>>

PollMoves(v, w, t, r, s, f, fr, j) ==
    /\ SplitMoves(v, w, t, t, r, s, f, fr)
    /\ Top(v).pc \in {"test", "poll"} /\ fr.pc = "poll"
    /\ j \in Int /\ tasks[t].i <= j /\ j < s /\ r = Ran(tasks[t], j) /\ r.i = j /\ r.cur = j + 1
    /\ executed' = executed (+) Iterations(tasks[t], j) /\ early' = early

PopSplitMoves(v, w, t, s, f, fr) ==
    /\ SplitMoves(v, w, t, Root, tasks[t], s, f, fr)
    /\ Top(v).pc = "popped" /\ fr.pc = "popped"
    /\ tasks[t].cur = tasks[t].start
    /\ executed' = executed /\ early' = early \cup {tasks[t].loop}

LEMMA PollShape ==
    ASSUME ControlOK, NEW v \in Workers, NEW w \in Workers, SplitInPoll(v, w)
    PROVE  \E t, r, s, f, fr, j : PollMoves(v, w, t, r, s, f, fr, j)
<1> DEFINE t == Top(v).task
           fr == [Top(v) EXCEPT !.pc = "poll"]
<1>1. /\ At(v, {"test", "poll"}) /\ Depth(v) > 0 /\ Top(v).pc \in {"test", "poll"}
      /\ chan[w] = NoTask /\ UNCHANGED <<program, deque, asked, handles, results, early>>
  BY DEF SplitInPoll, At, MayAnswer
<1>2. t # Root /\ Top(v).future = NoFuture
  BY <1>1, RootFrame
<1>3. t \in Parts /\ tasks[t] \in TaskRecord /\ ~tasks[t].done /\ tasks[t].i <= tasks[t].end
      /\ tasks[t].cur = tasks[t].i + 1
  BY <1>1, <1>2, RangeOf
<1>4. Retopped(v, fr)
  BY <1>1, GotoRetops DEF SplitInPoll, Labels, ControlOK
<1>5. fr.task = t /\ fr.pc = "poll" /\ fr.future = NoFuture
  BY <1>1, <1>2, TopFrame DEF FrameRecord, ControlOK
<1> HIDE DEF t, fr
<1>6. PICK j \in tasks[t].i .. tasks[t].end :
            /\ SPLITTABLE(Ran(tasks[t], j))
            /\ split_loop(v, w, Ran(tasks[t], j), t, t)
            /\ executed' = executed (+) Iterations(tasks[t], j)
  BY DEF SplitInPoll, t
<1> DEFINE r == Ran(tasks[t], j)
           f == IF tasks[t].future = NoFuture THEN NoFuture ELSE Len(futures) + 1
<1>7. /\ tasks[t].i \in Int /\ tasks[t].end \in Int /\ tasks[t].cur \in Int
      /\ tasks[t].done = FALSE
  BY <1>3 DEF TaskRecord
<1>8. j \in Int /\ tasks[t].i <= j /\ j <= tasks[t].end
  BY <1>6, <1>7
<1>9. r \in TaskRecord
  BY <1>3, <1>8, RanType
<1>10. tasks[t].cur + (j - tasks[t].i) = j + 1
  BY <1>3, <1>7, <1>8
<1>11. /\ r.loop = tasks[t].loop /\ r.done = FALSE /\ r.start = tasks[t].start
       /\ r.end = tasks[t].end /\ r.future = tasks[t].future /\ r.futures = tasks[t].futures
       /\ r.i = j /\ r.cur = j + 1
  BY <1>3, <1>7, <1>10 DEF Ran, TaskRecord
<1> HIDE DEF r
<1>12. SPLITTABLE(r) /\ split_loop(v, w, r, t, t)
  BY <1>6 DEF r
<1>13. r.cur <= r.end
  BY <1>7, <1>8, <1>11, <1>12 DEF SPLITTABLE, Left, labs
<1>14. PICK s \in SPLIT_FUNC(r) :
            /\ SplitTasks(t, t, r, s, f)
            /\ futures' = IF f = NoFuture THEN futures ELSE Append(futures, PartFuture)
            /\ chan' = [chan EXCEPT ![w] = Len(tasks) + 1]
  BY <1>11, <1>12 DEF split_loop, SplitTasks
<1>15. s \in Int /\ r.cur < s /\ s < r.end
  BY <1>9, <1>12, <1>13, SplitInside
<1>16. j < s
  BY <1>8, <1>11, <1>15
<1> HIDE DEF f
<1>17. SplitMoves(v, w, t, t, r, s, f, fr)
  BY <1>1, <1>3, <1>4, <1>5, <1>9, <1>11, <1>14, <1>15 DEF SplitMoves, f, t
<1>18. executed' = executed (+) Iterations(tasks[t], j) /\ r = Ran(tasks[t], j)
  BY <1>6 DEF r
<1>19. PollMoves(v, w, t, r, s, f, fr, j)
  BY <1>1, <1>5, <1>8, <1>11, <1>16, <1>17, <1>18 DEF PollMoves
<1> QED BY <1>19

LEMMA PopSplitShape ==
    ASSUME ControlOK, NEW v \in Workers, NEW w \in Workers, SplitInPop(v, w)
    PROVE  \E t, s, f, fr : PopSplitMoves(v, w, t, s, f, fr)
<1> DEFINE t == Top(v).task
           f == IF tasks[t].future = NoFuture THEN NoFuture ELSE Len(futures) + 1
           fr == Top(v)
<1>1. /\ Depth(v) > 0 /\ Top(v).pc = "popped" /\ chan[w] = NoTask
      /\ UNCHANGED <<program, deque, stack, asked, handles, results, executed>>
      /\ early' = early \cup {tasks[t].loop}
  BY DEF SplitInPop, At, MayAnswer, Task
<1>2. t # Root /\ Top(v).future = NoFuture /\ v = Master /\ Depth(v) = 2
  BY <1>1, RootFrame
<1>3. t \in Parts /\ tasks[t] \in TaskRecord /\ ~tasks[t].done
      /\ tasks[t].start <= tasks[t].end /\ tasks[t].cur = tasks[t].start
  BY <1>1, <1>2, RangeOf
<1>4. CurrentInPop(v) = Root
  <2>1. 1 \in 1 .. Depth(Master)
    BY <1>2
  <2>2. FrameOK(Master, 1)
    BY <2>1, MasterWorks DEF ControlOK, StackOK
  <2> QED BY <1>2, <2>2 DEF CurrentInPop, FrameOK
<1>5. tasks[t].done = FALSE /\ tasks[t].cur <= tasks[t].end
  BY <1>3 DEF TaskRecord
<1>6. SPLITTABLE(tasks[t]) /\ split_loop(v, w, tasks[t], t, Root)
  BY <1>4 DEF SplitInPop, Task
<1>7. Retopped(v, fr) /\ fr.task = t /\ fr.pc = "popped" /\ fr.future = NoFuture
  <2>1. fr \in FrameRecord /\ fr = stack[v][Depth(v)]
    BY <1>1, TopFrame DEF ControlOK
  <2> QED BY <1>1, <1>2, <2>1 DEF Retopped, ControlOK, TypeOK
<1>8. PICK s \in SPLIT_FUNC(tasks[t]) :
            /\ SplitTasks(t, Root, tasks[t], s, f)
            /\ futures' = IF f = NoFuture THEN futures ELSE Append(futures, PartFuture)
            /\ chan' = [chan EXCEPT ![w] = Len(tasks) + 1]
  BY <1>6 DEF split_loop, SplitTasks
<1>9. s \in Int /\ tasks[t].cur < s /\ s < tasks[t].end
  BY <1>3, <1>5, <1>6, SplitInside
<1> HIDE DEF f, t, fr
<1>10. SplitMoves(v, w, t, Root, tasks[t], s, f, fr)
  BY <1>1, <1>3, <1>5, <1>7, <1>8, <1>9 DEF SplitMoves, f, t
<1>11. PopSplitMoves(v, w, t, s, f, fr)
  BY <1>1, <1>3, <1>7, <1>10 DEF PopSplitMoves
<1> QED BY <1>11

\* The tasks after a split; n is the new one.
SplitEffect(t, c, r, s, f, n) ==
    /\ n = Len(tasks) + 1 /\ n \in Nat /\ Len(tasks') = n /\ tasks' \in Seq(TaskRecord)
    /\ t \in 2 .. n - 1 /\ c \in 1 .. n - 1
    /\ \A u \in 1 .. n - 1 : u # t =>
        /\ tasks'[u].loop = tasks[u].loop /\ tasks'[u].done = tasks[u].done
        /\ tasks'[u].start = tasks[u].start /\ tasks'[u].end = tasks[u].end
        /\ tasks'[u].i = tasks[u].i /\ tasks'[u].cur = tasks[u].cur
        /\ tasks'[u].sum = tasks[u].sum
    /\ \A u \in 1 .. n - 1 :
        /\ tasks'[u].future = tasks[u].future
        /\ tasks'[u].futures = IF u = c THEN AddFuture(f, tasks[u].futures) ELSE tasks[u].futures
    /\ tasks'[t].loop = tasks[t].loop /\ tasks'[t].done = FALSE
    /\ tasks'[t].start = tasks[t].start /\ tasks'[t].end = s
    /\ tasks'[t].i = r.i /\ tasks'[t].cur = r.cur /\ tasks'[t].sum = r.sum
    /\ tasks'[n].loop = tasks[t].loop /\ tasks'[n].done = FALSE
    /\ tasks'[n].start = s /\ tasks'[n].cur = s /\ tasks'[n].end = tasks[t].end
    /\ tasks'[n].sum = {} /\ tasks'[n].future = f /\ tasks'[n].futures = <<>>

LEMMA SplitTasksEffect ==
    ASSUME ControlOK, NEW v \in Workers, NEW w \in Workers, NEW t, NEW c, NEW r, NEW s, NEW f,
           NEW fr, SplitMoves(v, w, t, c, r, s, f, fr), NEW n, n = Len(tasks) + 1
    PROVE  SplitEffect(t, c, r, s, f, n)
<1>1. /\ t \in Parts /\ c \in {t, Root} /\ r \in TaskRecord /\ s \in Int
      /\ r.loop = tasks[t].loop /\ r.done = FALSE /\ r.start = tasks[t].start
      /\ r.end = tasks[t].end /\ r.future = tasks[t].future /\ r.futures = tasks[t].futures
      /\ f = IF tasks[t].future = NoFuture THEN NoFuture ELSE Len(futures) + 1
      /\ SplitTasks(t, c, r, s, f)
  BY DEF SplitMoves
<1>2. Len(tasks) \in Nat /\ Len(futures) \in Nat /\ Len(tasks) >= 1
  BY DEF ControlOK, TypeOK
<1>3. f \in Nat /\ c \in 1 .. Len(tasks) /\ t \in 1 .. Len(tasks)
  BY <1>1, <1>2 DEF NoFuture, Root, Parts
<1>4. /\ tasks' \in Seq(TaskRecord) /\ Len(tasks') = Len(tasks) + 1
      /\ \A u \in 1 .. Len(tasks) : tasks'[u] =
            IF u = c THEN [Given(u, t, r, s) EXCEPT
                                !.futures = AddFuture(f, Given(u, t, r, s).futures)]
            ELSE Given(u, t, r, s)
      /\ tasks'[Len(tasks) + 1] = Upper(r, s, f)
  BY <1>1, <1>3, SplitShape DEF ControlOK
<1>5. ASSUME NEW u \in 1 .. Len(tasks)
      PROVE  Given(u, t, r, s) \in TaskRecord
  <2>1. Lower(r, s) \in TaskRecord
    BY <1>1 DEF Lower, TaskRecord
  <2>2. tasks[u] \in TaskRecord
    BY DEF ControlOK, TypeOK
  <2> QED BY <2>1, <2>2 DEF Given
<1>6. ASSUME NEW u \in 1 .. Len(tasks)
      PROVE  LET g == Given(u, t, r, s)
             IN  /\ tasks'[u].loop = g.loop /\ tasks'[u].done = g.done
                 /\ tasks'[u].start = g.start /\ tasks'[u].end = g.end
                 /\ tasks'[u].i = g.i /\ tasks'[u].cur = g.cur
                 /\ tasks'[u].sum = g.sum /\ tasks'[u].future = g.future
                 /\ tasks'[u].futures = IF u = c THEN AddFuture(f, g.futures) ELSE g.futures
  <2> DEFINE g == Given(u, t, r, s)
  <2>1. g \in TaskRecord
    BY <1>5
  <2>2. tasks'[u] = IF u = c THEN [g EXCEPT !.futures = AddFuture(f, g.futures)] ELSE g
    BY <1>4
  <2> HIDE DEF g
  <2>3. CASE u = c
    BY <2>1, <2>2, <2>3 DEF TaskRecord, g
  <2>4. CASE u # c
    BY <2>2, <2>4 DEF g
  <2> QED BY <2>3, <2>4
<1>7. /\ Lower(r, s).loop = r.loop /\ Lower(r, s).done = r.done /\ Lower(r, s).start = r.start
      /\ Lower(r, s).end = s /\ Lower(r, s).i = r.i /\ Lower(r, s).cur = r.cur
      /\ Lower(r, s).sum = r.sum /\ Lower(r, s).future = r.future
      /\ Lower(r, s).futures = r.futures
  BY <1>1 DEF Lower, TaskRecord
<1>8. /\ Upper(r, s, f).loop = r.loop /\ Upper(r, s, f).done = r.done
      /\ Upper(r, s, f).start = s /\ Upper(r, s, f).cur = s /\ Upper(r, s, f).end = r.end
      /\ Upper(r, s, f).sum = {} /\ Upper(r, s, f).future = f /\ Upper(r, s, f).futures = <<>>
  BY <1>1 DEF Upper, TaskRecord
<1>9. n - 1 = Len(tasks) /\ n \in Nat /\ t \in 2 .. n - 1 /\ c \in 1 .. n - 1
  BY <1>1, <1>2, <1>3 DEF Parts
<1>10. \A u \in 1 .. Len(tasks) : u # t =>
        /\ tasks'[u].loop = tasks[u].loop /\ tasks'[u].done = tasks[u].done
        /\ tasks'[u].start = tasks[u].start /\ tasks'[u].end = tasks[u].end
        /\ tasks'[u].i = tasks[u].i /\ tasks'[u].cur = tasks[u].cur
        /\ tasks'[u].sum = tasks[u].sum
  BY <1>6 DEF Given
<1>11. ASSUME NEW u \in 1 .. Len(tasks)
       PROVE  /\ tasks'[u].future = tasks[u].future
              /\ tasks'[u].futures = IF u = c THEN AddFuture(f, tasks[u].futures) ELSE tasks[u].futures
  <2>1. Given(u, t, r, s).future = tasks[u].future /\ Given(u, t, r, s).futures = tasks[u].futures
    BY <1>1, <1>7 DEF Given
  <2> QED BY <1>6, <2>1
<1>12. /\ tasks'[t].loop = tasks[t].loop /\ tasks'[t].done = FALSE
       /\ tasks'[t].start = tasks[t].start /\ tasks'[t].end = s
       /\ tasks'[t].i = r.i /\ tasks'[t].cur = r.cur /\ tasks'[t].sum = r.sum
  <2>1. Given(t, t, r, s) = Lower(r, s)
    BY DEF Given
  <2> QED BY <1>1, <1>3, <1>6, <1>7, <2>1
<1> QED BY <1>1, <1>4, <1>8, <1>9, <1>10, <1>11, <1>12 DEF SplitEffect

LEMMA SplitFutures ==
    ASSUME ControlOK, NEW v \in Workers, NEW w \in Workers, NEW t, NEW c, NEW r, NEW s, NEW f,
           NEW fr, SplitMoves(v, w, t, c, r, s, f, fr)
    PROVE  /\ futures' \in Seq(FutureRecord) /\ Len(futures) \in Nat
           /\ Len(futures') = IF f = NoFuture THEN Len(futures) ELSE Len(futures) + 1
           /\ f = NoFuture \/ (f = Len(futures) + 1 /\ futures'[f] = PartFuture)
           /\ f = NoFuture <=> tasks[t].future = NoFuture
           /\ \A x \in 1 .. Len(futures) : futures'[x] = futures[x]
<1>1. futures \in Seq(FutureRecord) /\ Len(futures) \in Nat
  BY DEF ControlOK, TypeOK
<1>2. PartFuture \in FutureRecord
  <2>1. <<>> \in Seq(SUBSET Pairs) /\ {} \in SUBSET Pairs
    OBVIOUS
  <2>2. FUTURE_ALLOC \in FutureRecord
    BY <2>1 DEF FUTURE_ALLOC, FutureRecord
  <2> QED BY <2>2 DEF PartFuture, FutureRecord
<1>3. /\ f = IF tasks[t].future = NoFuture THEN NoFuture ELSE Len(futures) + 1
      /\ futures' = IF f = NoFuture THEN futures ELSE Append(futures, PartFuture)
  BY DEF SplitMoves
<1>4. f = NoFuture <=> tasks[t].future = NoFuture
  BY <1>1, <1>3 DEF NoFuture
<1>5. CASE f = NoFuture
  BY <1>1, <1>3, <1>4, <1>5
<1>6. CASE f # NoFuture
  <2>1. f = Len(futures) + 1 /\ futures' = Append(futures, PartFuture)
    BY <1>3, <1>6
  <2> QED BY <1>1, <1>2, <1>4, <1>6, <2>1
<1> QED BY <1>5, <1>6

LEMMA SplitControl ==
    ASSUME ControlOK, NEW v \in Workers, NEW w \in Workers, NEW t, NEW c, NEW r, NEW s, NEW f,
           NEW fr, SplitMoves(v, w, t, c, r, s, f, fr),
           \/ fr.pc = "poll" /\ r.i <= s /\ r.cur = r.i + 1
           \/ fr.pc = "popped" /\ Top(v).pc = "popped" /\ r.cur = r.start
    PROVE  ControlOK'
<1>n. PICK n : n = Len(tasks) + 1
  OBVIOUS
<1>1. SplitEffect(t, c, r, s, f, n)
  BY <1>n, SplitTasksEffect
<1>2. /\ Depth(v) > 0 /\ t = Top(v).task /\ t \in Parts /\ chan[w] = NoTask
      /\ r \in TaskRecord /\ s \in Int /\ r.cur < s /\ s < r.end /\ r.end = tasks[t].end
      /\ r.start = tasks[t].start
      /\ chan' = [chan EXCEPT ![w] = n]
      /\ Retopped(v, fr) /\ fr.task = t /\ fr.future = NoFuture
      /\ UNCHANGED <<program, deque, asked, handles, results>>
  BY <1>n DEF SplitMoves
<1>3. /\ futures' \in Seq(FutureRecord) /\ Len(futures) \in Nat
      /\ Len(futures') = IF f = NoFuture THEN Len(futures) ELSE Len(futures) + 1
      /\ f = NoFuture \/ f = Len(futures) + 1
  BY SplitFutures
<1>4. /\ n - 1 = Len(tasks) /\ n \in Nat /\ t \in 2 .. n - 1 /\ Len(tasks') = n
      /\ tasks' \in Seq(TaskRecord) /\ n # 0
  BY <1>1, <1>2 DEF SplitEffect, Parts, ControlOK, TypeOK
<1>5. /\ chan' \in [Workers -> Nat]
      /\ \A u \in Workers : chan'[u] = IF u = w THEN n ELSE chan[u]
  BY <1>2, <1>4 DEF ControlOK, TypeOK
<1>6. TypeOK'
  <2>1. Len(tasks') >= 1
    BY <1>4
  <2> QED BY <1>2, <1>3, <1>4, <1>5, <2>1 DEF ControlOK, TypeOK, Retopped
<1>7. Others(v)
  <2>1. Len(tasks') \in Nat /\ Len(tasks) <= Len(tasks') /\ Len(futures') \in Nat
        /\ Len(futures) <= Len(futures')
    BY <1>3, <1>4
  <2>2. \A u \in 1 .. Len(tasks) : u # t =>
            /\ tasks'[u].done = tasks[u].done /\ tasks'[u].i = tasks[u].i
            /\ tasks'[u].end = tasks[u].end
    BY <1>1, <1>4 DEF SplitEffect
  <2> QED BY <1>2, <2>1, <2>2 DEF Others
<1>8. TopOK(fr)
  <2>1. ~tasks'[t].done
    BY <1>1 DEF SplitEffect
  <2>2. t # Root
    BY <1>4 DEF Root
  <2>3. fr.pc \in {"poll", "popped"}
    OBVIOUS
  <2> QED BY <1>2, <2>1, <2>2, <2>3 DEF TopOK
<1>9. StackOK'
  BY <1>2, <1>7, <1>8, RetopStack DEF ControlOK
<1>10. /\ \A u : OnStack(u)' <=> OnStack(u)
       /\ \A u : u # fr.task => (Started(u)' <=> Started(u))
       /\ Started(fr.task)' <=> fr.pc \notin {"popped", "received"}
  BY <1>2, RetopPlaces DEF ControlOK
<1>11. OnStack(t) /\ ~OnStack(n)
  <2>1. Depth(v) \in 1 .. Depth(v) /\ stack[v][Depth(v)] = Top(v)
    BY <1>2, TopFrame DEF Depth, ControlOK
  <2>2. OnStack(t)
    BY <1>2, <2>1 DEF OnStack
  <2>3. ~OnStack(n)
    BY <1>4 DEF OnStack, ControlOK, StackOK, FrameOK
  <2> QED BY <2>2, <2>3
<1>12. \A u : Waiting(u) => Waiting(u)' /\ u # n
  <2> SUFFICES ASSUME NEW u, Waiting(u)
               PROVE  Waiting(u)' /\ u # n
    OBVIOUS
  <2>1. u \in 2 .. n - 1 /\ ~tasks[u].done /\ ~OnStack(u) /\ u # t
    BY <1>4, <1>11 DEF Waiting, Parts
  <2>2. u \in 1 .. n - 1 /\ u \in 2 .. n
    BY <1>4, <2>1
  <2>3. ~tasks'[u].done
    BY <1>1, <2>1, <2>2 DEF SplitEffect
  <2>4. ~OnStack(u)' /\ u \in Parts'
    BY <1>4, <1>10, <2>1, <2>2 DEF Parts
  <2>5. Waiting(u)'
    BY <2>3, <2>4 DEF Waiting
  <2> QED BY <1>4, <2>1, <2>5
<1>13. Waiting(n)'
  <2>1. n \in 2 .. n
    BY <1>4
  <2>2. n \in Parts' /\ ~OnStack(n)'
    BY <1>4, <1>10, <1>11, <2>1 DEF Parts
  <2>3. ~tasks'[n].done
    BY <1>1 DEF SplitEffect
  <2> QED BY <2>2, <2>3 DEF Waiting
<1>14. PlacesOK'
  <2>1. ASSUME NEW k \in 1 .. Len(deque'[Master])
        PROVE  Waiting(deque[Master][k])' /\ \A u \in Workers : chan'[u] # deque'[Master][k]
    <3>1. /\ deque'[Master][k] = deque[Master][k]
          /\ Waiting(deque[Master][k]) /\ \A u \in Workers : chan[u] # deque[Master][k]
      BY <1>2 DEF ControlOK, PlacesOK
    <3> QED BY <1>5, <1>12, <3>1
  <2>2. ASSUME NEW x \in Workers, chan'[x] # NoTask
        PROVE  Waiting(chan[x])' /\ \A u \in Workers : chan'[u] = chan'[x] => u = x
    <3>1. \A u \in Workers : chan[u] # n
      BY <1>4, <1>12 DEF ControlOK, PlacesOK, NoTask
    <3>2. CASE x = w
      <4>1. chan'[x] = n
        BY <1>5, <3>2
      <4> QED BY <1>5, <1>13, <3>1, <3>2, <4>1
    <3>3. CASE x # w
      <4>1. chan'[x] = chan[x] /\ chan[x] # NoTask /\ chan[x] # n
        BY <1>5, <2>2, <3>1, <3>3
      <4>2. Waiting(chan[x]) /\ \A u \in Workers : chan[u] = chan[x] => u = x
        BY <4>1 DEF ControlOK, PlacesOK
      <4> QED BY <1>5, <1>12, <4>1, <4>2
    <3> QED BY <3>2, <3>3
  <2>3. \A j, k \in 1 .. Len(deque'[Master]) : deque'[Master][j] = deque'[Master][k] => j = k
    BY <1>2 DEF ControlOK, PlacesOK
  <2>4. \A u \in Workers \ {Master} : deque'[u] = <<>>
    BY <1>2 DEF ControlOK, PlacesOK
  <2> QED BY <2>1, <2>2, <2>3, <2>4 DEF PlacesOK
<1>15. RangesOK'
  <2> SUFFICES ASSUME NEW u \in 2 .. n
               PROVE  RangeOK(u)'
    BY <1>4 DEF RangesOK, Parts
  <2>0. tasks[t].loop \in 1 .. Len(results)
    BY <1>2 DEF ControlOK, RangesOK, RangeOK
  <2>1. CASE u = n
    <3>1. ~Started(n)'
      <4>1. ~OnStack(n)'
        BY <1>10, <1>11
      <4>2. Started(n)' => OnStack(n)'
        BY DEF Started, OnStack
      <4> QED BY <4>1, <4>2
    <3>2. /\ tasks'[n].loop = tasks[t].loop /\ tasks'[n].start = s /\ tasks'[n].cur = s
          /\ tasks'[n].end = tasks[t].end
      BY <1>1 DEF SplitEffect
    <3>3. s <= tasks[t].end
      BY <1>2 DEF TaskRecord
    <3> QED BY <1>2, <2>0, <2>1, <3>1, <3>2, <3>3 DEF RangeOK
  <2>2. CASE u = t
    <3>1. /\ tasks'[t].loop = tasks[t].loop /\ tasks'[t].start = tasks[t].start
          /\ tasks'[t].end = s /\ tasks'[t].i = r.i /\ tasks'[t].cur = r.cur
      BY <1>1 DEF SplitEffect
    <3>2. CASE fr.pc = "poll" /\ r.i <= s /\ r.cur = r.i + 1
      <4>1. Started(t)'
        BY <1>2, <1>10, <3>2
      <4> QED BY <1>2, <2>0, <2>2, <3>1, <3>2, <4>1 DEF RangeOK
    <3>3. CASE fr.pc = "popped" /\ r.cur = r.start
      <4>1. ~Started(t)'
        BY <1>2, <1>10, <3>3
      <4>2. r.start <= s
        BY <1>2, <3>3 DEF TaskRecord
      <4> QED BY <1>2, <2>0, <2>2, <3>1, <3>3, <4>1, <4>2 DEF RangeOK
    <3> QED BY <3>2, <3>3
  <2>3. CASE u # n /\ u # t
    <3>1. u \in 1 .. n - 1 /\ u \in Parts
      BY <1>4, <2>3 DEF Parts
    <3>2. /\ tasks'[u].loop = tasks[u].loop /\ tasks'[u].done = tasks[u].done
          /\ tasks'[u].start = tasks[u].start /\ tasks'[u].end = tasks[u].end
          /\ tasks'[u].i = tasks[u].i /\ tasks'[u].cur = tasks[u].cur
      BY <1>1, <2>3, <3>1 DEF SplitEffect
    <3>3. Started(u)' <=> Started(u)
      BY <1>2, <1>10, <2>3
    <3>4. RangeOK(u)
      BY <3>1 DEF ControlOK, RangesOK
    <3> QED BY <1>2, <3>2, <3>3, <3>4 DEF RangeOK
  <2> QED BY <2>1, <2>2, <2>3
<1>16. RefsOK'
  <2>0. \A x : (x \in 0 .. Len(futures) => x \in 0 .. Len(futures'))
            /\ (x \in 1 .. Len(futures) => x \in 1 .. Len(futures'))
    BY <1>3
  <2>1. handles' \subseteq 1 .. Len(futures')
    BY <1>2, <2>0 DEF ControlOK, RefsOK
  <2>2. ASSUME NEW u \in 1 .. n
        PROVE  /\ tasks'[u].future \in 0 .. Len(futures')
               /\ \A k \in 1 .. Len(tasks'[u].futures) : tasks'[u].futures[k] \in 1 .. Len(futures')
    <3>1. CASE u = n
      <4>1. tasks'[n].future = f /\ tasks'[n].futures = <<>>
        BY <1>1 DEF SplitEffect
      <4>2. f \in 0 .. Len(futures')
        BY <1>3 DEF NoFuture
      <4> QED BY <3>1, <4>1, <4>2
    <3>2. CASE u # n
      <4>1. u \in 1 .. n - 1 /\ u \in 1 .. Len(tasks)
        BY <1>4, <3>2
      <4>2. /\ tasks'[u].future = tasks[u].future
            /\ tasks'[u].futures = IF u = c THEN AddFuture(f, tasks[u].futures) ELSE tasks[u].futures
        BY <1>1, <4>1 DEF SplitEffect
      <4>3. /\ tasks[u].future \in 0 .. Len(futures)
            /\ \A k \in 1 .. Len(tasks[u].futures) : tasks[u].futures[k] \in 1 .. Len(futures)
        BY <4>1 DEF ControlOK, RefsOK
      <4>4. \A k \in 1 .. Len(tasks[u].futures) : tasks[u].futures[k] \in 1 .. Len(futures')
        BY <2>0, <4>3
      <4>5. CASE f = NoFuture \/ u # c
        BY <2>0, <4>2, <4>3, <4>4, <4>5 DEF AddFuture
      <4>6. CASE f # NoFuture /\ u = c
        <5>1. tasks'[u].futures = <<f>> \o tasks[u].futures
          BY <4>2, <4>6 DEF AddFuture
        <5>2. tasks[u] \in TaskRecord
          BY <4>1 DEF ControlOK, TypeOK
        <5>3. tasks[u].futures \in Seq(Nat)
          BY <5>2 DEF TaskRecord
        <5>4. f \in 1 .. Len(futures') /\ f \in Nat
          BY <1>3, <4>6
        <5>5. \A k \in 1 .. Len(<<f>> \o tasks[u].futures) :
                (<<f>> \o tasks[u].futures)[k] \in 1 .. Len(futures')
          <6> DEFINE q == tasks[u].futures
                     S == 1 .. Len(futures')
          <6> HIDE DEF q, S
          <6>1. q \in Seq(Nat) /\ f \in Nat /\ f \in S /\ \A k \in 1 .. Len(q) : q[k] \in S
            BY <4>4, <5>3, <5>4 DEF q, S
          <6>2. q \in Seq(S)
            BY <6>1
          <6>3. <<f>> \o q \in Seq(S)
            BY <6>1, <6>2
          <6>4. \A k \in 1 .. Len(<<f>> \o q) : (<<f>> \o q)[k] \in S
            BY <6>3
          <6> QED BY <6>4 DEF q, S
        <5> QED BY <2>0, <4>2, <4>3, <5>1, <5>5
      <4> QED BY <4>5, <4>6
    <3> QED BY <3>1, <3>2
  <2> QED BY <1>4, <2>1, <2>2 DEF RefsOK
<1> QED BY <1>6, <1>9, <1>14, <1>15, <1>16 DEF ControlOK

\* The root task creates loop l as task n, with future f.
CreateMoves(n, l, f) ==
    /\ n = Len(tasks) + 1 /\ n \in Nat /\ Len(tasks') = n /\ tasks' \in Seq(TaskRecord)
    /\ \A u \in 1 .. n - 1 : tasks'[u] = tasks[u]
    /\ l = Len(results) + 1 /\ l \in 1 .. Len(program) /\ program[l][1] <= program[l][2]
    /\ program[l] \in Int \X Int
    /\ tasks'[n] = NewTask(l, program[l][1], program[l][2], f)
    /\ Len(futures) \in Nat
    /\ \/ f = NoFuture /\ futures' = futures /\ handles' = handles
       \/ /\ f = Len(futures) + 1 /\ f # NoFuture /\ handles' = handles \cup {f}
          /\ futures' \in Seq(FutureRecord) /\ Len(futures') = f /\ futures'[f] = FUTURE_ALLOC
          /\ \A x \in 1 .. Len(futures) : futures'[x] = futures[x]
    /\ Len(results') = l /\ results'[l] = <<>>
    /\ \A k \in 1 .. l - 1 : results'[k] = results[k]
    /\ deque'[Master] = <<n>> \o deque[Master]
    /\ UNCHANGED <<program, stack, asked, chan, early, executed>>

LEMMA CreateShape ==
    ASSUME ControlOK, NEW b \in BOOLEAN, Create(b)
    PROVE  \E n, l, f : CreateMoves(n, l, f)
<1> USE MasterWorks DEF ControlOK
<1> DEFINE l == Len(results) + 1
           f == IF b THEN Len(futures) + 1 ELSE NoFuture
           n == Len(tasks) + 1
           t == NewTask(l, program[l][1], program[l][2], f)
<1>1. l \in DOMAIN program /\ l \in Nat /\ program[l] \in Int \X Int /\ program[l][1] <= program[l][2]
      /\ l \in 1 .. Len(program)
  BY SMTT(30) DEF Create, TypeOK
<1>2. f \in Nat /\ Len(futures) \in Nat /\ Len(results) \in Nat
  BY DEF TypeOK, NoFuture
<1>3. t \in TaskRecord
  BY <1>1, <1>2, NewTaskType
<1>5. /\ results' = Append(results, <<>>) /\ tasks' = Append(tasks, t)
      /\ deque' = [deque EXCEPT ![Master] = <<n>> \o @]
      /\ IF b THEN futures' = Append(futures, FUTURE_ALLOC) /\ handles' = handles \cup {f}
         ELSE UNCHANGED <<futures, handles>>
      /\ UNCHANGED <<program, stack, asked, chan, early, executed>>
  BY DEF Create
<1> HIDE DEF t
<1>6. FUTURE_ALLOC \in FutureRecord
  <2>1. <<>> \in Seq(SUBSET Pairs) /\ {} \in SUBSET Pairs
    OBVIOUS
  <2> QED BY <2>1 DEF FUTURE_ALLOC, FutureRecord
<1>7. \/ f = NoFuture /\ futures' = futures /\ handles' = handles
      \/ /\ f = Len(futures) + 1 /\ f # NoFuture /\ handles' = handles \cup {f}
         /\ futures' \in Seq(FutureRecord) /\ Len(futures') = f /\ futures'[f] = FUTURE_ALLOC
         /\ \A x \in 1 .. Len(futures) : futures'[x] = futures[x]
  <2>1. CASE b
    <3>1. f = Len(futures) + 1 /\ f # NoFuture
      BY <1>2, <2>1 DEF NoFuture
    <3> HIDE DEF f
    <3>2. futures' = Append(futures, FUTURE_ALLOC) /\ handles' = handles \cup {f}
      BY <1>5, <2>1
    <3>3. futures \in Seq(FutureRecord)
      BY DEF TypeOK
    <3>4. futures' \in Seq(FutureRecord) /\ Len(futures') = f /\ futures'[f] = FUTURE_ALLOC
         /\ \A x \in 1 .. Len(futures) : futures'[x] = futures[x]
      BY <1>6, <3>1, <3>2, <3>3
    <3> QED BY <3>1, <3>2, <3>4
  <2>2. CASE ~b
    BY <1>5, <2>2
  <2> QED BY <2>1, <2>2
<1>8. /\ tasks' \in Seq(TaskRecord) /\ Len(tasks') = n /\ n \in Nat /\ tasks'[n] = t
      /\ \A u \in 1 .. n - 1 : tasks'[u] = tasks[u]
  BY <1>3, <1>5 DEF TypeOK
<1>9. deque'[Master] = <<n>> \o deque[Master]
  BY <1>5 DEF TypeOK
<1>10. Len(results') = l /\ results'[l] = <<>> /\ \A k \in 1 .. l - 1 : results'[k] = results[k]
  BY <1>5 DEF TypeOK
<1>11. CreateMoves(n, l, f)
  BY <1>1, <1>2, <1>5, <1>7, <1>8, <1>9, <1>10 DEF CreateMoves, t
<1> QED BY <1>11

-----------------------------------------------------------------------------
(* Every future has one task that sets it. *)

LEMMA InitFutures ==
    ASSUME Init
    PROVE  FuturesOK
<1>1. Len(tasks) = 1 /\ tasks[1] = RootTask /\ Len(futures) = 0
  BY DEF Init
<1>2. RootTask.future = NoFuture
  BY DEF RootTask, NewTask
<1> QED BY <1>1, <1>2 DEF FuturesOK, Parts, Root

\* An action that creates no task
LEMMA FuturesKeep ==
    ASSUME FuturesOK, ControlOK, Len(tasks') = Len(tasks), Len(futures') = Len(futures),
           \A u \in 1 .. Len(tasks) : tasks'[u].future = tasks[u].future,
           \A t \in Parts : tasks[t].future # NoFuture =>
                (tasks'[t].done <=> \/ futures'[tasks[t].future].freed
                                    \/ READY(futures'[tasks[t].future])),
           \A f \in 1 .. Len(futures) :
                /\ futures'[f].has_channel => ~futures'[f].set
                /\ ~futures'[f].has_channel => futures'[f].chan = <<>>
    PROVE  FuturesOK'
<1>1. \A t \in Parts : t \in 1 .. Len(tasks)
  BY DEF Parts
<1>2. tasks'[Root].future = NoFuture
  BY DEF FuturesOK, Root, ControlOK, TypeOK
<1>3. Parts' = Parts
  BY DEF Parts
<1>4. ASSUME NEW t \in Parts
      PROVE  SetOnce(t)'
  BY <1>1, <1>3 DEF FuturesOK, SetOnce
<1>5. ASSUME NEW f \in 1 .. Len(futures)
      PROVE  FutureOK(f)'
  BY <1>1, <1>3 DEF FuturesOK, FutureOK
<1> QED BY <1>2, <1>3, <1>4, <1>5 DEF FuturesOK

\* An action that creates task n, with a future of its own if any
LEMMA FuturesAdd ==
    ASSUME FuturesOK, ControlOK, NEW n, n = Len(tasks) + 1, Len(tasks') = n,
           \A u \in 1 .. n - 1 : tasks'[u].future = tasks[u].future /\ tasks'[u].done = tasks[u].done,
           \A x \in 1 .. Len(futures) : futures'[x] = futures[x],
           NEW f, tasks'[n].future = f, ~tasks'[n].done,
           \/ f = NoFuture /\ Len(futures') = Len(futures)
           \/ /\ f = Len(futures) + 1 /\ Len(futures') = f
              /\ ~futures'[f].freed /\ ~futures'[f].set /\ futures'[f].chan = <<>>
    PROVE  FuturesOK'
<1>1. Len(tasks) \in Nat /\ Len(futures) \in Nat /\ n \in Nat /\ Len(tasks) >= 1
  BY DEF ControlOK, TypeOK
<1>2. \A t \in 2 .. n : t = n \/ (t \in Parts /\ t \in 1 .. n - 1)
  BY <1>1 DEF Parts
<1>3. \A t \in Parts : t \in 2 .. n /\ t \in 1 .. n - 1
  BY <1>1 DEF Parts
<1>4. Parts' = 2 .. n /\ n \in 2 .. n
  BY <1>1 DEF Parts
<1>5. \A t \in Parts : tasks[t].future \in 0 .. Len(futures) /\ tasks'[t].future = tasks[t].future
                       /\ tasks'[t].done = tasks[t].done
  BY <1>3 DEF ControlOK, RefsOK, Parts
<1>51. \A t \in Parts : tasks[t].future # NoFuture => tasks[t].future \in 1 .. Len(futures)
  BY <1>1, <1>5 DEF NoFuture
<1>6. f # NoFuture => \A t \in Parts : tasks[t].future # f
  BY <1>1, <1>5
<1>7. tasks'[Root].future = NoFuture
  <2>1. Root \in 1 .. n - 1
    BY <1>1 DEF Root
  <2> QED BY <2>1 DEF FuturesOK
<1>8. ASSUME NEW t \in Parts
      PROVE  SetOnce(t)'
  <2>1. \A u \in 2 .. n : tasks'[u].future = tasks'[t].future /\ tasks'[t].future # NoFuture => u = t
    BY <1>2, <1>5, <1>6 DEF FuturesOK, SetOnce
  <2>2. tasks'[t].future # NoFuture =>
            (tasks'[t].done <=> futures'[tasks'[t].future].freed \/ READY(futures'[tasks'[t].future]))
    BY <1>5, <1>51 DEF FuturesOK, SetOnce
  <2> QED BY <1>4, <2>1, <2>2 DEF SetOnce
<1>9. SetOnce(n)'
  <2>1. f # NoFuture => \A u \in 2 .. n : tasks'[u].future = f => u = n
    BY <1>2, <1>5, <1>6
  <2>2. f # NoFuture => ~(futures'[f].freed \/ READY(futures'[f]))
    BY DEF READY
  <2> QED BY <1>4, <2>1, <2>2 DEF SetOnce
<1>10. ASSUME NEW x \in 1 .. Len(futures')
       PROVE  FutureOK(x)'
  <2>1. CASE x \in 1 .. Len(futures)
    <3>1. FutureOK(x) /\ futures'[x] = futures[x]
      BY <2>1 DEF FuturesOK
    <3> QED BY <1>3, <1>4, <1>5, <3>1 DEF FutureOK
  <2>2. CASE x \notin 1 .. Len(futures)
    <3>1. x = f /\ f = Len(futures) + 1 /\ ~futures'[f].set /\ futures'[f].chan = <<>>
      BY <1>1, <2>2
    <3> QED BY <1>4, <3>1 DEF FutureOK
  <2> QED BY <2>1, <2>2
<1> QED BY <1>2, <1>4, <1>7, <1>8, <1>9, <1>10 DEF FuturesOK

\* An action that does not touch futures
LEMMA FuturesSame ==
    ASSUME FuturesOK, ControlOK, Len(tasks') = Len(tasks), UNCHANGED futures,
           \A u \in 1 .. Len(tasks) : tasks'[u].future = tasks[u].future
                                      /\ (tasks'[u].done <=> tasks[u].done)
    PROVE  FuturesOK'
<1>1. \A t \in Parts : t \in 1 .. Len(tasks)
  BY DEF Parts
<1>2. \A t \in Parts : tasks[t].future # NoFuture =>
            (tasks'[t].done <=> futures'[tasks[t].future].freed \/ READY(futures'[tasks[t].future]))
  BY <1>1 DEF FuturesOK, SetOnce
<1>3. \A f \in 1 .. Len(futures) : /\ futures'[f].has_channel => ~futures'[f].set
                                   /\ ~futures'[f].has_channel => futures'[f].chan = <<>>
  BY DEF FuturesOK, FutureOK
<1> QED BY <1>2, <1>3, FuturesKeep

LEMMA CreateFutures ==
    ASSUME ControlOK, FuturesOK, NEW b \in BOOLEAN, Create(b)
    PROVE  FuturesOK'
<1>1. PICK n, l, f : CreateMoves(n, l, f)
  BY CreateShape
<1>2. tasks'[n].future = f /\ ~tasks'[n].done
  BY <1>1 DEF CreateMoves, NewTask
<1>3. ~FUTURE_ALLOC.freed /\ ~FUTURE_ALLOC.set /\ FUTURE_ALLOC.chan = <<>>
  BY DEF FUTURE_ALLOC
<1>4. /\ n = Len(tasks) + 1 /\ Len(tasks') = n
      /\ \A u \in 1 .. n - 1 : tasks'[u] = tasks[u]
      /\ \A x \in 1 .. Len(futures) : futures'[x] = futures[x]
      /\ \/ f = NoFuture /\ Len(futures') = Len(futures)
         \/ /\ f = Len(futures) + 1 /\ Len(futures') = f
            /\ ~futures'[f].freed /\ ~futures'[f].set /\ futures'[f].chan = <<>>
  BY <1>1, <1>3 DEF CreateMoves
<1> QED BY <1>2, <1>4, FuturesAdd

LEMMA SplitFuturesOK ==
    ASSUME ControlOK, FuturesOK, NEW v \in Workers, NEW w \in Workers, NEW t, NEW c, NEW r, NEW s,
           NEW f, NEW fr, SplitMoves(v, w, t, c, r, s, f, fr)
    PROVE  FuturesOK'
<1>n. PICK n : n = Len(tasks) + 1
  OBVIOUS
<1>1. SplitEffect(t, c, r, s, f, n)
  BY <1>n, SplitTasksEffect
<1>2. /\ Len(futures) \in Nat
      /\ Len(futures') = IF f = NoFuture THEN Len(futures) ELSE Len(futures) + 1
      /\ f = NoFuture \/ (f = Len(futures) + 1 /\ futures'[f] = PartFuture)
      /\ \A x \in 1 .. Len(futures) : futures'[x] = futures[x]
  BY SplitFutures
<1>3. ~PartFuture.freed /\ ~PartFuture.set /\ PartFuture.chan = <<>>
  BY DEF PartFuture, FUTURE_ALLOC
<1>4. \/ f = NoFuture /\ Len(futures') = Len(futures)
      \/ /\ f = Len(futures) + 1 /\ Len(futures') = f
         /\ ~futures'[f].freed /\ ~futures'[f].set /\ futures'[f].chan = <<>>
  BY <1>2, <1>3
<1>5. tasks[t].done = FALSE
  <2>1. Depth(v) > 0 /\ t = Top(v).task
    BY DEF SplitMoves
  <2>2. ~tasks[t].done /\ t \in 1 .. Len(tasks)
    BY <2>1, RootFrame
  <2>3. tasks[t] \in TaskRecord
    BY <2>2 DEF ControlOK, TypeOK
  <2> QED BY <2>2, <2>3 DEF TaskRecord
<1>6. /\ Len(tasks') = n /\ tasks'[n].future = f /\ ~tasks'[n].done
      /\ \A u \in 1 .. n - 1 : tasks'[u].future = tasks[u].future /\ tasks'[u].done = tasks[u].done
  BY <1>1, <1>5 DEF SplitEffect
<1> QED BY <1>n, <1>2, <1>4, <1>6, FuturesAdd

\* The task that sets a future
LEMMA OneSetter ==
    ASSUME ControlOK, FuturesOK, NEW t \in Parts, NEW u \in Parts, tasks[u].future # NoFuture,
           tasks[u].future = tasks[t].future
    PROVE  u = t
BY DEF FuturesOK, SetOnce

\* A task that is set up again, but for its future
LEMMA MovedFutures ==
    ASSUME ControlOK, FuturesOK, NEW t, NEW r, Updated(t, r), r.future = tasks[t].future,
           r.done <=> tasks[t].done, UNCHANGED futures
    PROVE  FuturesOK'
<1>1. \A u \in 1 .. Len(tasks) : tasks'[u].future = tasks[u].future
                                 /\ (tasks'[u].done <=> tasks[u].done)
  BY DEF Updated
<1> QED BY <1>1, FuturesSame DEF Updated

LEMMA AwaitFutures ==
    ASSUME ControlOK, FuturesOK, NEW w \in Workers, AwaitReturn(w)
    PROVE  FuturesOK'
<1>1. PICK t, r, fr, f : AwaitMoves(w, t, r, fr, f)
  BY AwaitShape
<1>2. AwaitEffect(t, r)
  BY <1>1, AwaitRange
<1>3. /\ Updated(t, r) /\ READY(futures[f])
      /\ FutureUpdated(f, [futures[f] EXCEPT !.freed = TRUE, !.chan = <<>>])
      /\ Depth(w) > 0 /\ t = Top(w).task
  BY <1>1 DEF AwaitMoves, Moved
<1>4. ~tasks[t].done
  BY <1>3, RootFrame
<1>5. \A u \in 1 .. Len(tasks) : tasks'[u].future = tasks[u].future
                                 /\ (tasks'[u].done <=> tasks[u].done)
  BY <1>2, <1>3, <1>4 DEF Updated, AwaitEffect
<1>6. /\ f \in 1 .. Len(futures) /\ Len(futures') = Len(futures)
      /\ \A x \in 1 .. Len(futures) : x # f => futures'[x] = futures[x]
      /\ futures'[f] = [futures[f] EXCEPT !.freed = TRUE, !.chan = <<>>]
      /\ futures[f] \in FutureRecord
  BY <1>3 DEF FutureUpdated, ControlOK, TypeOK
<1>7. /\ futures'[f].freed /\ futures'[f].chan = <<>>
      /\ futures'[f].has_channel = futures[f].has_channel /\ futures'[f].set = futures[f].set
  BY <1>6 DEF FutureRecord
<1>8. ASSUME NEW u \in Parts, tasks[u].future # NoFuture
      PROVE  tasks'[u].done <=> futures'[tasks[u].future].freed \/ READY(futures'[tasks[u].future])
  <2>0. u \in 1 .. Len(tasks) /\ tasks[u].future \in 1 .. Len(futures)
    BY <1>8 DEF Parts, ControlOK, RefsOK, NoFuture
  <2>1. tasks[u].done <=> futures[tasks[u].future].freed \/ READY(futures[tasks[u].future])
    BY <1>8 DEF FuturesOK, SetOnce
  <2>2. CASE tasks[u].future = f
    BY <1>3, <1>5, <1>7, <2>0, <2>1, <2>2
  <2>3. CASE tasks[u].future # f
    BY <1>5, <1>6, <2>0, <2>1, <2>3
  <2> QED BY <2>2, <2>3
<1>9. \A x \in 1 .. Len(futures) :
            /\ futures'[x].has_channel => ~futures'[x].set
            /\ ~futures'[x].has_channel => futures'[x].chan = <<>>
  BY <1>6, <1>7 DEF FuturesOK, FutureOK
<1> QED BY <1>3, <1>5, <1>6, <1>8, <1>9, FuturesKeep DEF Updated

\* FUTURE_SET makes the result available, whether the future has a channel or not.
LEMMA SetReady ==
    ASSUME NEW g \in FutureRecord, NEW v, ~READY(g), ~g.freed, g.has_channel => ~g.set,
           ~g.has_channel => g.chan = <<>>
    PROVE  LET h == FUTURE_SET(g, v)
           IN  /\ READY(h) /\ ResultOf(h) = v /\ ~h.freed
               /\ h.has_channel => ~h.set
               /\ ~h.has_channel => h.chan = <<>>
<1>1. CASE g.has_channel
  <2>1. g.chan = <<>>
    BY <1>1 DEF READY
  <2>2. FUTURE_SET(g, v) = [g EXCEPT !.chan = <<v>>]
    BY <1>1, <2>1 DEF FUTURE_SET
  <2>3. <<v>> # <<>> /\ <<v>>[1] = v
    OBVIOUS
  <2> QED BY <1>1, <2>2, <2>3 DEF READY, ResultOf, FutureRecord
<1>2. CASE ~g.has_channel
  BY <1>2 DEF FUTURE_SET, READY, ResultOf, FutureRecord
<1> QED BY <1>1, <1>2

LEMMA ReturnFutures ==
    ASSUME ControlOK, FuturesOK, NEW w \in Workers, Return(w)
    PROVE  FuturesOK'
<1>1. PICK t, r : ReturnMoves(w, t, r)
  BY ReturnShape
<1>2. /\ Depth(w) > 0 /\ t = Top(w).task /\ t \in Parts /\ Updated(t, r)
      /\ r = [tasks[t] EXCEPT !.done = TRUE]
      /\ IF tasks[t].future = NoFuture THEN futures' = futures
         ELSE FutureUpdated(tasks[t].future, FUTURE_SET(futures[tasks[t].future], tasks[t].sum))
  BY <1>1 DEF ReturnMoves
<1>3. ~tasks[t].done /\ t \in 1 .. Len(tasks) /\ tasks[t] \in TaskRecord
  BY <1>2, RootFrame DEF ControlOK, TypeOK
<1>4. r.done /\ r.future = tasks[t].future
  BY <1>2, <1>3 DEF TaskRecord
<1>5. /\ Len(tasks') = Len(tasks)
      /\ \A u \in 1 .. Len(tasks) : tasks'[u].future = tasks[u].future
                                    /\ (tasks'[u].done <=> tasks[u].done \/ u = t)
  BY <1>2, <1>3, <1>4 DEF Updated
<1>6. CASE tasks[t].future = NoFuture
  <2>1. \A u \in Parts : tasks[u].future # NoFuture =>
            (tasks'[u].done <=> futures'[tasks[u].future].freed \/ READY(futures'[tasks[u].future]))
    BY <1>2, <1>5, <1>6 DEF Parts, FuturesOK, SetOnce
  <2>2. \A x \in 1 .. Len(futures) :
            /\ futures'[x].has_channel => ~futures'[x].set
            /\ ~futures'[x].has_channel => futures'[x].chan = <<>>
    BY <1>2, <1>6 DEF FuturesOK, FutureOK
  <2> QED BY <1>2, <1>5, <1>6, <2>1, <2>2, FuturesKeep
<1>7. CASE tasks[t].future # NoFuture
  <2> DEFINE f == tasks[t].future
             g == futures[f]
             h == FUTURE_SET(g, tasks[t].sum)
  <2>1. FutureUpdated(f, h)
    BY <1>2, <1>7
  <2>2. g \in FutureRecord /\ f \in 1 .. Len(futures)
    BY <2>1 DEF FutureUpdated, ControlOK, TypeOK
  <2>3. ~READY(g) /\ ~g.freed
    BY <1>2, <1>3, <1>7 DEF FuturesOK, SetOnce
  <2>4. (g.has_channel => ~g.set) /\ (~g.has_channel => g.chan = <<>>)
    BY <2>2 DEF FuturesOK, FutureOK
  <2>5. READY(h) /\ (h.has_channel => ~h.set) /\ (~h.has_channel => h.chan = <<>>)
    BY <2>2, <2>3, <2>4, SetReady
  <2> HIDE DEF f, g, h
  <2>6. Len(futures') = Len(futures) /\ futures'[f] = h
        /\ \A x \in 1 .. Len(futures) : x # f => futures'[x] = futures[x]
    BY <2>1 DEF FutureUpdated
  <2>7. ASSUME NEW u \in Parts, tasks[u].future # NoFuture
        PROVE  tasks'[u].done <=> futures'[tasks[u].future].freed \/ READY(futures'[tasks[u].future])
    <3>0. u \in 1 .. Len(tasks) /\ tasks[u].future \in 1 .. Len(futures)
      BY <2>7 DEF Parts, ControlOK, RefsOK, NoFuture
    <3>1. CASE u = t
      BY <1>5, <2>5, <2>6, <3>0, <3>1 DEF f
    <3>2. CASE u # t
      <4>1. tasks[u].future # f
        BY <1>2, <2>7, <3>2, OneSetter DEF f
      <4>2. tasks[u].done <=> futures[tasks[u].future].freed \/ READY(futures[tasks[u].future])
        BY <2>7 DEF FuturesOK, SetOnce
      <4> QED BY <1>5, <2>6, <3>0, <3>2, <4>1, <4>2
    <3> QED BY <3>1, <3>2
  <2>8. \A x \in 1 .. Len(futures) :
            /\ futures'[x].has_channel => ~futures'[x].set
            /\ ~futures'[x].has_channel => futures'[x].chan = <<>>
    BY <2>5, <2>6 DEF FuturesOK, FutureOK
  <2> QED BY <1>5, <2>6, <2>7, <2>8, FuturesKeep
<1> QED BY <1>6, <1>7

LEMMA StealFutures ==
    ASSUME ControlOK, FuturesOK, NEW v \in Workers, NEW w \in Workers, handle_steal_request(v, w)
    PROVE  FuturesOK'
<1>1. PICK t : StealMoves(v, w, t)
  BY StealShape
<1>2. UNCHANGED tasks
  BY DEF handle_steal_request
<1>3. /\ Waiting(t)
      /\ IF tasks[t].future = NoFuture THEN futures' = futures
         ELSE FutureUpdated(tasks[t].future, FUTURE_CONVERT(futures[tasks[t].future]))
  BY <1>1 DEF StealMoves
<1>4. CASE tasks[t].future = NoFuture
  BY <1>2, <1>3, <1>4, FuturesSame
<1>5. CASE tasks[t].future # NoFuture
  <2> DEFINE f == tasks[t].future
             g == futures[f]
             h == FUTURE_CONVERT(g)
  <2>1. FutureUpdated(f, h)
    BY <1>3, <1>5
  <2>2. g \in FutureRecord /\ f \in 1 .. Len(futures)
    BY <2>1 DEF FutureUpdated, ControlOK, TypeOK
  <2>3. ~READY(g) /\ ~g.freed
    BY <1>3, <1>5 DEF FuturesOK, SetOnce, Waiting
  <2>4. (g.has_channel => ~g.set) /\ (~g.has_channel => g.chan = <<>>)
    BY <2>2 DEF FuturesOK, FutureOK
  <2>5. ~READY(h) /\ ~h.freed /\ h.has_channel /\ ~h.set
    BY <2>2, <2>3, <2>4 DEF FUTURE_CONVERT, READY, FutureRecord
  <2> HIDE DEF f, g, h
  <2>6. Len(futures') = Len(futures) /\ futures'[f] = h
        /\ \A x \in 1 .. Len(futures) : x # f => futures'[x] = futures[x]
    BY <2>1 DEF FutureUpdated
  <2>7. ASSUME NEW u \in Parts, tasks[u].future # NoFuture
        PROVE  tasks'[u].done <=> futures'[tasks[u].future].freed \/ READY(futures'[tasks[u].future])
    <3>0. u \in 1 .. Len(tasks) /\ tasks[u].future \in 1 .. Len(futures)
      BY <2>7 DEF Parts, ControlOK, RefsOK, NoFuture
    <3>2. tasks[u].done <=> futures[tasks[u].future].freed \/ READY(futures[tasks[u].future])
      BY <2>7 DEF FuturesOK, SetOnce
    <3>3. CASE tasks[u].future = f
      BY <1>2, <2>3, <2>5, <2>6, <3>2, <3>3 DEF g
    <3>4. CASE tasks[u].future # f
      BY <1>2, <2>6, <3>0, <3>2, <3>4
    <3> QED BY <3>3, <3>4
  <2>8. \A x \in 1 .. Len(futures) :
            /\ futures'[x].has_channel => ~futures'[x].set
            /\ ~futures'[x].has_channel => futures'[x].chan = <<>>
    BY <2>5, <2>6 DEF FuturesOK, FutureOK
  <2> QED BY <1>2, <2>6, <2>7, <2>8, FuturesKeep
<1> QED BY <1>4, <1>5

\* The worker goes on in its task, whose future stays.
LEMMA RunShape ==
    ASSUME ControlOK, NEW w \in Workers, Start(w) \/ Leave(w) \/ REDUCE(w)
    PROVE  \E t, r, fr : Moved(w, t, r, fr) /\ r.future = tasks[t].future /\ r.done = FALSE
<1>1. CASE Start(w)
  <2>1. PICK t, r, fr : StartMoves(w, t, r, fr)
    BY <1>1, StartShape
  <2>2. StartEffect(t, r)
    BY <2>1, StartRange
  <2> QED BY <2>1, <2>2 DEF StartMoves, StartEffect
<1>2. CASE Leave(w)
  <2>1. PICK t, r, fr : LeaveMoves(w, t, r, fr)
    BY <1>2, LeaveShape
  <2>2. LeaveEffect(t, r)
    BY <2>1, LeaveRange
  <2> QED BY <2>1, <2>2 DEF LeaveMoves, LeaveEffect
<1>3. CASE REDUCE(w)
  <2>1. PICK t, r, fr : ReduceMoves(w, t, r, fr)
    BY <1>3, ReduceShape
  <2>2. ReduceEffect(t, r)
    BY <2>1, ReduceRange
  <2> QED BY <2>1, <2>2 DEF ReduceMoves, ReduceEffect
<1> QED BY <1>1, <1>2, <1>3

LEMMA PollControl ==
    ASSUME ControlOK, FuturesOK, NEW v \in Workers, NEW w \in Workers, SplitInPoll(v, w)
    PROVE  ControlOK' /\ FuturesOK'
<1>1. PICK t, r, s, f, fr, j : PollMoves(v, w, t, r, s, f, fr, j)
  BY PollShape
<1>2. /\ SplitMoves(v, w, t, t, r, s, f, fr) /\ fr.pc = "poll"
      /\ j \in Int /\ j < s /\ r.i = j /\ r.cur = j + 1
  BY <1>1 DEF PollMoves
<1>3. s \in Int
  BY <1>2 DEF SplitMoves
<1>4. r.i <= s /\ r.cur = r.i + 1
  BY <1>2, <1>3
<1>5. ControlOK'
  BY <1>2, <1>4, SplitControl
<1>6. FuturesOK'
  BY <1>2, SplitFuturesOK
<1> QED BY <1>5, <1>6

LEMMA PopSplitControl ==
    ASSUME ControlOK, FuturesOK, NEW v \in Workers, NEW w \in Workers, SplitInPop(v, w)
    PROVE  ControlOK' /\ FuturesOK'
<1>1. PICK t, s, f, fr : PopSplitMoves(v, w, t, s, f, fr)
  BY PopSplitShape
<1>2. /\ SplitMoves(v, w, t, Root, tasks[t], s, f, fr) /\ fr.pc = "popped" /\ Top(v).pc = "popped"
      /\ tasks[t].cur = tasks[t].start
  BY <1>1 DEF PopSplitMoves
<1>3. ControlOK'
  BY <1>2, SplitControl
<1>4. FuturesOK'
  BY <1>2, SplitFuturesOK
<1> QED BY <1>3, <1>4

LEMMA StutterControl ==
    ASSUME ControlOK, FuturesOK, UNCHANGED vars
    PROVE  ControlOK' /\ FuturesOK'
<1>1. UNCHANGED <<program, tasks, futures, deque, stack, asked, chan, handles, results>>
  BY DEF vars
<1>2. ControlOK'
  BY <1>1 DEF ControlOK, TypeOK, StackOK, FrameOK, Depth, PlacesOK, Waiting, Parts, OnStack,
              RangesOK, RangeOK, Started, RefsOK
<1>3. FuturesOK'
  BY <1>1, FuturesSame
<1> QED BY <1>2, <1>3

\* The two invariants on control and on futures are inductive together.
LEMMA ControlStep ==
    ASSUME ControlOK, FuturesOK, [Next]_vars
    PROVE  ControlOK' /\ FuturesOK'
<1>1. ASSUME NEW b \in BOOLEAN, Create(b)
      PROVE  ControlOK' /\ FuturesOK'
  BY <1>1, CreateControl, CreateFutures
<1>2. CASE EnterBarrier \/ LeaveBarrier \/ \E f \in handles : Await(f)
  <2>1. UNCHANGED <<tasks, futures>>
    BY <1>2 DEF EnterBarrier, LeaveBarrier, Await
  <2>2. FuturesOK'
    BY <2>1, FuturesSame
  <2> QED BY <1>2, <2>2, RootControl
<1>3. ASSUME NEW w \in Workers, Pop(w) \/ Ask(w) \/ Receive(w)
      PROVE  ControlOK' /\ FuturesOK'
  <2>1. UNCHANGED <<tasks, futures>>
    BY <1>3 DEF Pop, Ask, Receive
  <2>2. FuturesOK'
    BY <2>1, FuturesSame
  <2> QED BY <1>3, <2>2, PopControl, AskControl, ReceiveControl
<1>4. ASSUME NEW w \in Workers, Start(w) \/ Leave(w) \/ REDUCE(w)
      PROVE  ControlOK' /\ FuturesOK'
  <2>1. futures' = futures
    BY <1>4 DEF Start, Leave, REDUCE
  <2>2. PICK t, r, fr : Moved(w, t, r, fr) /\ r.future = tasks[t].future /\ r.done = FALSE
    BY <1>4, RunShape
  <2>3. Depth(w) > 0 /\ t = Top(w).task /\ Updated(t, r)
    BY <2>2 DEF Moved
  <2>4. ~tasks[t].done
    BY <2>3, RootFrame
  <2>5. FuturesOK'
    BY <2>1, <2>2, <2>3, <2>4, MovedFutures
  <2> QED BY <1>4, <2>5, StartControl, LeaveControl, ReduceControl
<1>5. ASSUME NEW w \in Workers, AwaitReturn(w)
      PROVE  ControlOK' /\ FuturesOK'
  BY <1>5, AwaitControl, AwaitFutures
<1>6. ASSUME NEW w \in Workers, Return(w)
      PROVE  ControlOK' /\ FuturesOK'
  BY <1>6, ReturnControl, ReturnFutures
<1>7. ASSUME NEW v \in Workers, NEW w \in Workers, handle_steal_request(v, w)
      PROVE  ControlOK' /\ FuturesOK'
  BY <1>7, StealControl, StealFutures
<1>8. ASSUME NEW v \in Workers, NEW w \in Workers, SplitInPoll(v, w) \/ SplitInPop(v, w)
      PROVE  ControlOK' /\ FuturesOK'
  BY <1>8, PollControl, PopSplitControl
<1>9. CASE UNCHANGED vars
  BY <1>9, StutterControl
<1> QED BY <1>1, <1>2, <1>3, <1>4, <1>5, <1>6, <1>7, <1>8, <1>9 DEF Next, Run, Terminated

\* The root task enters or leaves a barrier (f is NoFuture) or awaits f.
RootMoves(fr, f) ==
    /\ Depth(Master) = 1 /\ Top(Master).task = Root /\ Top(Master).future = NoFuture
    /\ Retopped(Master, fr) /\ fr.task = Root /\ fr.future = f
    /\ \/ f = NoFuture /\ handles' = handles
       \/ f \in handles /\ f \in 1 .. Len(futures) /\ handles' = handles \ {f}
    /\ UNCHANGED <<program, tasks, futures, deque, asked, chan, results, early, executed>>

LEMMA RootShape ==
    ASSUME ControlOK, \/ EnterBarrier \/ LeaveBarrier \/ \E f \in handles : Await(f)
    PROVE  \E fr, f : RootMoves(fr, f)
<1> USE MasterWorks
<1>1. Depth(Master) > 0 /\ Top(Master).pc \in {"user", "barrier"}
  BY DEF EnterBarrier, LeaveBarrier, Await, At
<1>2. Top(Master).task = Root /\ Depth(Master) = 1
  BY <1>1, RootFrame
<1>3. Top(Master) \in FrameRecord /\ Top(Master) = stack[Master][Depth(Master)]
      /\ Depth(Master) \in 1 .. Depth(Master)
  BY <1>1, TopFrame DEF ControlOK, Depth
<1>4. Top(Master).future = NoFuture
  BY <1>1, <1>3 DEF ControlOK, StackOK, FrameOK
<1>5. UNCHANGED <<program, tasks, futures, deque, asked, chan, results, early, executed>>
  BY DEF EnterBarrier, LeaveBarrier, Await
<1>6. CASE EnterBarrier \/ LeaveBarrier
  <2>1. PICK l \in {"user", "barrier"} : Goto(Master, l)
    BY <1>6 DEF EnterBarrier, LeaveBarrier
  <2>2. At(Master, {"user", "barrier"}) /\ handles' = handles
    BY <1>6 DEF EnterBarrier, LeaveBarrier, At
  <2> DEFINE fr == [Top(Master) EXCEPT !.pc = l]
  <2>3. Retopped(Master, fr)
    BY <2>1, <2>2, GotoRetops DEF ControlOK, Labels
  <2>4. fr.task = Root /\ fr.future = NoFuture
    BY <1>2, <1>3, <1>4 DEF FrameRecord
  <2>5. RootMoves(fr, NoFuture)
    BY <1>2, <1>4, <1>5, <2>2, <2>3, <2>4 DEF RootMoves
  <2> QED BY <2>5
<1>7. CASE \E f \in handles : Await(f)
  <2>1. PICK f \in handles : Await(f)
    BY <1>7
  <2> DEFINE fr == [Top(Master) EXCEPT !.pc = "await", !.future = f]
  <2>2. f \in 1 .. Len(futures) /\ f \in Nat
    BY DEF RefsOK, ControlOK
  <2>3. fr \in FrameRecord /\ fr.task = Root /\ fr.future = f
    BY <1>2, <1>3, <2>2 DEF FrameRecord, Labels
  <2>4. stack' = [stack EXCEPT ![Master] = [stack[Master] EXCEPT ![Depth(Master)] = fr]]
    BY <2>1 DEF Await, Top
  <2>5. handles' = handles \ {f}
    BY <2>1 DEF Await
  <2> HIDE DEF fr
  <2>6. Retopped(Master, fr)
    BY <1>1, <2>3, <2>4, Retop DEF ControlOK
  <2>7. RootMoves(fr, f)
    BY <1>2, <1>4, <1>5, <2>2, <2>3, <2>5, <2>6 DEF RootMoves
  <2> QED BY <2>7
<1> QED BY <1>6, <1>7

-----------------------------------------------------------------------------
(* A future without a channel is set by the thread that awaits it. *)

InDeque(t) == \E k \in 1 .. Len(deque[Master]) : deque[Master][k] = t
OnMaster(t) == \E d \in 1 .. Depth(Master) : stack[Master][d].task = t

\* SetAtHome for one task
AtHome(t) ==
    tasks[t].future # NoFuture /\ ~tasks[t].done =>
        futures[tasks[t].future].has_channel \/ InDeque(t) \/ OnMaster(t)

AllAtHome == \A t \in Parts : AtHome(t)

LEMMA HomeIs == ControlOK => (SetAtHome <=> AllAtHome)
<1> SUFFICES ASSUME ControlOK
             PROVE  SetAtHome <=> AllAtHome
  OBVIOUS
<1>1. deque[Master] \in Seq(Nat)
  BY MasterWorks DEF ControlOK, TypeOK
<1>2. DOMAIN deque[Master] = 1 .. Len(deque[Master])
  BY <1>1
<1>3. \A t : t \in Range(deque[Master]) <=> InDeque(t)
  BY <1>2 DEF Range, InDeque
<1> QED BY <1>3 DEF SetAtHome, AllAtHome, AtHome, Parts, OnMaster

LEMMA MasterKeeps ==
    ASSUME ControlOK, NEW w \in Workers, NEW t, OnMaster(t),
           \/ UNCHANGED stack
           \/ \E fr : Retopped(w, fr) /\ fr.task = Top(w).task
           \/ \E fr : Called(w, fr)
           \/ Returned(w) /\ t # Top(w).task
    PROVE  OnMaster(t)'
<1> USE MasterWorks DEF Depth
<1>1. PICK d \in 1 .. Len(stack[Master]) : stack[Master][d].task = t
  BY DEF OnMaster
<1>2. CASE UNCHANGED stack
  BY <1>1, <1>2 DEF OnMaster
<1>3. CASE \E fr : Retopped(w, fr) /\ fr.task = Top(w).task
  <2>1. PICK fr : Retopped(w, fr) /\ fr.task = Top(w).task
    BY <1>3
  <2>2. d \in 1 .. Len(stack'[Master]) /\ stack'[Master][d].task = t
    BY <1>1, <2>1, TopFrame DEF Retopped, ControlOK
  <2> QED BY <2>2 DEF OnMaster
<1>4. CASE \E fr : Called(w, fr)
  <2>1. PICK fr : Called(w, fr)
    BY <1>4
  <2>2. Len(stack[Master]) \in Nat
    BY DEF ControlOK, TypeOK
  <2>3. Len(stack'[Master]) >= Len(stack[Master]) /\ Len(stack'[Master]) \in Nat
    BY <2>1, <2>2 DEF Called
  <2>4. d \in 1 .. Len(stack'[Master]) /\ stack'[Master][d].task = t
    BY <1>1, <2>1, <2>2, <2>3 DEF Called
  <2> QED BY <2>4 DEF OnMaster
<1>5. CASE Returned(w) /\ t # Top(w).task
  <2>1. ~(w = Master /\ d = Len(stack[Master]))
    BY <1>1, <1>5, TopFrame DEF ControlOK, Returned
  <2>2. Len(stack[Master]) \in Nat
    BY DEF ControlOK, TypeOK
  <2>3. d \in 1 .. Len(stack'[Master]) /\ stack'[Master][d].task = t
    BY <1>1, <1>5, <2>1, <2>2 DEF Returned
  <2> QED BY <2>3 DEF OnMaster
<1> QED BY <1>2, <1>3, <1>4, <1>5

\* An action that creates no task
LEMMA HomeKeep ==
    ASSUME ControlOK, SetAtHome, ControlOK', Len(tasks') = Len(tasks),
           \A u \in Parts : tasks'[u].future = tasks[u].future
                            /\ (tasks[u].done => tasks'[u].done),
           \A x \in 1 .. Len(futures) : futures[x].has_channel => futures'[x].has_channel,
           \A u \in Parts : InDeque(u) => \/ InDeque(u)' \/ OnMaster(u)'
                                          \/ tasks[u].future = NoFuture
                                          \/ futures'[tasks[u].future].has_channel,
           \A u \in Parts : OnMaster(u) => OnMaster(u)' \/ tasks'[u].done
    PROVE  SetAtHome'
<1>1. Parts' = Parts
  BY DEF Parts
<1>2. ASSUME NEW u \in Parts
      PROVE  AtHome(u)'
  <2>1. AtHome(u)
    BY HomeIs DEF AllAtHome
  <2>2. tasks[u].future # NoFuture => tasks[u].future \in 1 .. Len(futures)
    BY DEF ControlOK, RefsOK, NoFuture, Parts
  <2> QED BY <2>1, <2>2 DEF AtHome
<1>3. SetAtHome' <=> AllAtHome'
  BY HomeIs, PTL
<1> QED BY <1>1, <1>2, <1>3 DEF AllAtHome

\* An action that creates task n
LEMMA HomeAdd ==
    ASSUME ControlOK, SetAtHome, ControlOK', NEW n, n = Len(tasks) + 1, Len(tasks') = n,
           \A u \in Parts : tasks'[u].future = tasks[u].future
                            /\ (tasks[u].done => tasks'[u].done),
           \A x \in 1 .. Len(futures) : futures'[x] = futures[x],
           \A u \in Parts : InDeque(u) => InDeque(u)',
           \A u \in Parts : OnMaster(u) => OnMaster(u)',
           \/ tasks'[n].future = NoFuture \/ futures'[tasks'[n].future].has_channel
           \/ InDeque(n)'
    PROVE  SetAtHome'
<1>1. Parts' = Parts \cup {n}
  <2>1. Len(tasks) \in Nat /\ Len(tasks) >= 1
    BY DEF ControlOK, TypeOK
  <2> QED BY <2>1 DEF Parts
<1>2. ASSUME NEW u \in Parts
      PROVE  AtHome(u)'
  <2>1. AtHome(u)
    BY HomeIs DEF AllAtHome
  <2>2. tasks[u].future # NoFuture => tasks[u].future \in 1 .. Len(futures)
    BY DEF ControlOK, RefsOK, NoFuture, Parts
  <2> QED BY <2>1, <2>2 DEF AtHome
<1>3. AtHome(n)'
  BY DEF AtHome
<1>4. SetAtHome' <=> AllAtHome'
  BY HomeIs, PTL
<1> QED BY <1>1, <1>2, <1>3, <1>4 DEF AllAtHome

\* The worker goes on in the task that it runs.
LEMMA MovedHome ==
    ASSUME ControlOK, SetAtHome, ControlOK', NEW w \in Workers, NEW t, NEW r, NEW fr,
           Moved(w, t, r, fr), r.future = tasks[t].future, UNCHANGED deque,
           Len(futures') = Len(futures),
           \A x \in 1 .. Len(futures) : futures[x].has_channel => futures'[x].has_channel
    PROVE  SetAtHome'
<1>1. /\ Updated(t, r) /\ Retopped(w, fr) /\ fr.task = Top(w).task /\ Depth(w) > 0
      /\ t = Top(w).task
  BY DEF Moved
<1>2. ~tasks[t].done
  BY <1>1, RootFrame
<1>3. \A u \in Parts : tasks'[u].future = tasks[u].future /\ (tasks[u].done => tasks'[u].done)
  BY <1>1, <1>2 DEF Updated, Parts
<1>4. \A u : OnMaster(u) => OnMaster(u)'
  BY <1>1, MasterKeeps
<1>5. \A u : InDeque(u) => InDeque(u)'
  BY DEF InDeque
<1> QED BY <1>1, <1>3, <1>4, <1>5, HomeKeep DEF Updated

LEMMA Cons ==
    ASSUME NEW q \in Seq(Nat), NEW n \in Nat
    PROVE  /\ Len(<<n>> \o q) = Len(q) + 1 /\ (<<n>> \o q)[1] = n /\ Len(q) \in Nat
           /\ \A k \in 1 .. Len(q) : (<<n>> \o q)[k + 1] = q[k]
OBVIOUS

LEMMA CreateHome ==
    ASSUME ControlOK, SetAtHome, ControlOK', NEW b \in BOOLEAN, Create(b)
    PROVE  SetAtHome'
<1> USE MasterWorks
<1>1. PICK n, l, f : CreateMoves(n, l, f)
  BY CreateShape
<1>2. /\ n = Len(tasks) + 1 /\ n \in Nat /\ Len(tasks') = n
      /\ \A u \in 1 .. n - 1 : tasks'[u] = tasks[u]
      /\ \A x \in 1 .. Len(futures) : futures'[x] = futures[x]
      /\ stack' = stack /\ deque'[Master] = <<n>> \o deque[Master]
      /\ deque[Master] \in Seq(Nat)
  BY <1>1 DEF CreateMoves, ControlOK, TypeOK
<1>3. \A u \in Parts : tasks'[u] = tasks[u]
  BY <1>2, SMTT(30) DEF Parts, ControlOK, TypeOK
<1>4. /\ Len(deque'[Master]) = Len(deque[Master]) + 1 /\ deque'[Master][1] = n
      /\ Len(deque[Master]) \in Nat
      /\ \A k \in 1 .. Len(deque[Master]) : deque'[Master][k + 1] = deque[Master][k]
  BY <1>2, Cons, SMTT(30)
<1>5. InDeque(n)'
  <2>1. 1 \in 1 .. Len(deque'[Master])
    BY <1>4
  <2> QED BY <1>4, <2>1 DEF InDeque
<1>6. ASSUME NEW u, InDeque(u)
      PROVE  InDeque(u)'
  <2>1. PICK k \in 1 .. Len(deque[Master]) : deque[Master][k] = u
    BY <1>6 DEF InDeque
  <2>2. k + 1 \in 1 .. Len(deque'[Master])
    BY <1>4
  <2> QED BY <1>4, <2>1, <2>2 DEF InDeque
<1>7. \A u : OnMaster(u) => OnMaster(u)'
  BY <1>2, MasterKeeps
<1> QED BY <1>2, <1>3, <1>5, <1>6, <1>7, HomeAdd

LEMMA SplitHome ==
    ASSUME ControlOK, SetAtHome, ControlOK', NEW v \in Workers, NEW w \in Workers, NEW t, NEW c,
           NEW r, NEW s, NEW f, NEW fr, SplitMoves(v, w, t, c, r, s, f, fr)
    PROVE  SetAtHome'
<1>n. PICK n : n = Len(tasks) + 1
  OBVIOUS
<1>1. SplitEffect(t, c, r, s, f, n)
  BY <1>n, SplitTasksEffect
<1>2. /\ f = NoFuture \/ futures'[f] = PartFuture
      /\ \A x \in 1 .. Len(futures) : futures'[x] = futures[x]
  BY SplitFutures
<1>3. PartFuture.has_channel
  BY DEF PartFuture, FUTURE_ALLOC
<1>4. /\ Len(tasks') = n /\ tasks'[n].future = f /\ t \in 2 .. n - 1
      /\ \A u \in 1 .. n - 1 : tasks'[u].future = tasks[u].future
      /\ \A u \in 1 .. n - 1 : u # t => tasks'[u].done = tasks[u].done
  BY <1>1 DEF SplitEffect
<1>5. ~tasks[t].done /\ Retopped(v, fr) /\ fr.task = Top(v).task /\ deque' = deque
  BY RootFrame DEF SplitMoves
<1>6. \A u \in Parts : tasks'[u].future = tasks[u].future /\ (tasks[u].done => tasks'[u].done)
  <2>1. \A u \in Parts : u \in 1 .. n - 1
    BY <1>n DEF Parts, ControlOK, TypeOK
  <2> QED BY <1>4, <1>5, <2>1
<1>7. \A u : OnMaster(u) => OnMaster(u)'
  BY <1>5, MasterKeeps
<1>8. \A u : InDeque(u) => InDeque(u)'
  BY <1>5 DEF InDeque
<1>9. tasks'[n].future = NoFuture \/ futures'[tasks'[n].future].has_channel
  BY <1>2, <1>3, <1>4
<1> QED BY <1>n, <1>2, <1>4, <1>6, <1>7, <1>8, <1>9, HomeAdd

LEMMA PopHome ==
    ASSUME ControlOK, SetAtHome, ControlOK', NEW w \in Workers, Pop(w)
    PROVE  SetAtHome'
<1> USE MasterWorks
<1>1. PICK t : PopMoves(w, t)
  BY PopShape
<1>2. UNCHANGED <<tasks, futures>>
  BY DEF Pop
<1>3. /\ Called(w, Frame(t, "popped")) /\ w = Master
      /\ deque[Master] # <<>> /\ t = Head(deque[Master]) /\ deque'[Master] = Tail(deque[Master])
      /\ deque[Master] \in Seq(Nat)
  BY <1>1 DEF PopMoves, ControlOK, TypeOK
<1>4. \A u : OnMaster(u) => OnMaster(u)'
  BY <1>3, MasterKeeps
<1>5. OnMaster(t)'
  <2>1. /\ Len(stack'[Master]) = Len(stack[Master]) + 1 /\ Len(stack[Master]) \in Nat
        /\ stack'[Master][Len(stack[Master]) + 1].task = t
    BY <1>3, SMTT(30) DEF Called, Depth, Frame, ControlOK, TypeOK
  <2>2. Len(stack[Master]) + 1 \in 1 .. Len(stack'[Master])
    BY <2>1
  <2> QED BY <2>1, <2>2 DEF OnMaster, Depth
<1>6. ASSUME NEW u, InDeque(u)
      PROVE  InDeque(u)' \/ OnMaster(u)'
  <2>1. PICK k \in 1 .. Len(deque[Master]) : deque[Master][k] = u
    BY <1>6 DEF InDeque
  <2>2. CASE k = 1
    BY <1>3, <1>5, <2>1, <2>2
  <2>3. CASE k # 1
    <3>1. k - 1 \in 1 .. Len(deque'[Master]) /\ deque'[Master][k - 1] = u
      BY <1>3, <2>1, <2>3
    <3> QED BY <3>1 DEF InDeque
  <2> QED BY <2>2, <2>3
<1>7. \A u \in Parts : tasks'[u].future = tasks[u].future /\ (tasks[u].done => tasks'[u].done)
  BY <1>2
<1>8. \A x \in 1 .. Len(futures) : futures[x].has_channel => futures'[x].has_channel
  BY <1>2
<1> QED BY <1>2, <1>4, <1>6, <1>7, <1>8, HomeKeep

LEMMA StealHome ==
    ASSUME ControlOK, SetAtHome, ControlOK', NEW v \in Workers, NEW w \in Workers,
           handle_steal_request(v, w)
    PROVE  SetAtHome'
<1> USE MasterWorks
<1>1. PICK t : StealMoves(v, w, t)
  BY StealShape
<1>2. UNCHANGED <<tasks, stack>>
  BY DEF handle_steal_request
<1>3. /\ deque[Master] # <<>> /\ t = deque[Master][Len(deque[Master])] /\ Waiting(t)
      /\ deque'[Master] = SubSeq(deque[Master], 1, Len(deque[Master]) - 1)
      /\ deque[Master] \in Seq(Nat)
      /\ IF tasks[t].future = NoFuture THEN futures' = futures
         ELSE FutureUpdated(tasks[t].future, FUTURE_CONVERT(futures[tasks[t].future]))
  BY <1>1 DEF StealMoves, ControlOK, TypeOK
<1>4. \A x \in 1 .. Len(futures) : futures[x] \in FutureRecord
  <2>1. futures \in Seq(FutureRecord)
    BY DEF ControlOK, TypeOK
  <2> QED BY <2>1
<1>5. /\ tasks[t].future = NoFuture \/ futures'[tasks[t].future].has_channel
      /\ \A x \in 1 .. Len(futures) : futures[x].has_channel => futures'[x].has_channel
  <2>1. CASE tasks[t].future = NoFuture
    BY <1>3, <2>1
  <2>2. CASE tasks[t].future # NoFuture
    <3> DEFINE f == tasks[t].future
               h == FUTURE_CONVERT(futures[f])
    <3>1. FutureUpdated(f, h)
      BY <1>3, <2>2
    <3>2. futures[f] \in FutureRecord
      BY <1>4, <3>1 DEF FutureUpdated
    <3>3. h.has_channel
      BY <3>2 DEF FUTURE_CONVERT, FutureRecord
    <3> HIDE DEF f, h
    <3>4. futures'[f].has_channel /\ \A x \in 1 .. Len(futures) : x # f => futures'[x] = futures[x]
      BY <3>1, <3>3 DEF FutureUpdated
    <3> QED BY <3>4 DEF f
  <2> QED BY <2>1, <2>2
<1>6. ASSUME NEW u, InDeque(u), u # t
      PROVE  InDeque(u)'
  <2>1. PICK k \in 1 .. Len(deque[Master]) : deque[Master][k] = u
    BY <1>6 DEF InDeque
  <2>2. k # Len(deque[Master])
    BY <1>3, <1>6, <2>1
  <2> DEFINE q == deque[Master]
             p == deque'[Master]
  <2>3. q \in Seq(Nat) /\ p = SubSeq(q, 1, Len(q) - 1) /\ k \in 1 .. Len(q) /\ k # Len(q)
    BY <1>3, <2>2
  <2> HIDE DEF q, p
  <2>4. \A n \in 0 .. Len(q) : /\ Len(SubSeq(q, 1, n)) = n
                               /\ \A j \in 1 .. n : SubSeq(q, 1, n)[j] = q[j]
    BY <2>3
  <2>5. Len(q) - 1 \in 0 .. Len(q) /\ k \in 1 .. Len(q) - 1
    BY <2>3
  <2>6. k \in 1 .. Len(p) /\ p[k] = q[k]
    BY <2>3, <2>4, <2>5
  <2> QED BY <2>1, <2>6 DEF InDeque, q, p
<1>7. \A u : OnMaster(u) => OnMaster(u)'
  BY <1>2, MasterKeeps
<1>8. Len(tasks') = Len(tasks)
      /\ \A u \in Parts : tasks'[u].future = tasks[u].future /\ (tasks[u].done => tasks'[u].done)
  BY <1>2
<1>9. \A u \in Parts : InDeque(u) => \/ InDeque(u)' \/ OnMaster(u)'
                                     \/ tasks[u].future = NoFuture
                                     \/ futures'[tasks[u].future].has_channel
  BY <1>5, <1>6
<1> QED BY <1>5, <1>7, <1>8, <1>9, HomeKeep

LEMMA ReturnHome ==
    ASSUME ControlOK, SetAtHome, ControlOK', NEW w \in Workers, Return(w)
    PROVE  SetAtHome'
<1>1. PICK t, r : ReturnMoves(w, t, r)
  BY ReturnShape
<1>2. /\ t = Top(w).task /\ t \in Parts /\ Updated(t, r) /\ Returned(w)
      /\ r = [tasks[t] EXCEPT !.done = TRUE]
      /\ IF tasks[t].future = NoFuture THEN futures' = futures
         ELSE FutureUpdated(tasks[t].future, FUTURE_SET(futures[tasks[t].future], tasks[t].sum))
  BY <1>1 DEF ReturnMoves
<1>3. tasks[t] \in TaskRecord
  BY <1>2 DEF ControlOK, TypeOK, Parts
<1>4. r.done /\ r.future = tasks[t].future
  BY <1>2, <1>3 DEF TaskRecord
<1>5. \A u \in Parts : tasks'[u].future = tasks[u].future /\ (tasks[u].done => tasks'[u].done)
  <2>1. \A u \in Parts : u \in 1 .. Len(tasks)
    BY DEF Parts
  <2>2. tasks'[t] = r /\ \A u \in 1 .. Len(tasks) : u # t => tasks'[u] = tasks[u]
    BY <1>2 DEF Updated
  <2> QED BY <1>4, <2>1, <2>2
<1>6. \A u : OnMaster(u) => OnMaster(u)' \/ u = t
  BY <1>2, MasterKeeps
<1>7. \A u \in Parts : OnMaster(u) => OnMaster(u)' \/ tasks'[u].done
  BY <1>2, <1>4, <1>6 DEF Updated
<1>8. \A u : InDeque(u) => InDeque(u)'
  BY DEF InDeque, Return
<1>9. \A x \in 1 .. Len(futures) : futures[x].has_channel => futures'[x].has_channel
  <2>1. CASE tasks[t].future = NoFuture
    BY <1>2, <2>1
  <2>2. CASE tasks[t].future # NoFuture
    <3> DEFINE f == tasks[t].future
               h == FUTURE_SET(futures[f], tasks[t].sum)
    <3>1. FutureUpdated(f, h)
      BY <1>2, <2>2
    <3>2. futures[f] \in FutureRecord
      BY <3>1, SMTT(30) DEF FutureUpdated, ControlOK, TypeOK
    <3>3. h.has_channel = futures[f].has_channel
      BY <3>2 DEF FUTURE_SET, FutureRecord
    <3> HIDE DEF f, h
    <3> QED BY <3>1, <3>3 DEF FutureUpdated
  <2> QED BY <2>1, <2>2
<1> QED BY <1>2, <1>5, <1>7, <1>8, <1>9, HomeKeep DEF Updated

LEMMA HomeStep ==
    ASSUME ControlOK, FuturesOK, SetAtHome, [Next]_vars
    PROVE  SetAtHome'
<1>0. ControlOK'
  BY ControlStep
<1>1. ASSUME NEW b \in BOOLEAN, Create(b)
      PROVE  SetAtHome'
  BY <1>0, <1>1, CreateHome
<1>2. CASE EnterBarrier \/ LeaveBarrier \/ \E f \in handles : Await(f)
  <2>1. PICK fr, f : RootMoves(fr, f)
    BY <1>2, RootShape
  <2>2. /\ Depth(Master) = 1 /\ Top(Master).task = Root /\ Retopped(Master, fr) /\ fr.task = Root
        /\ UNCHANGED <<tasks, futures, deque>>
    BY <2>1 DEF RootMoves
  <2>3. Updated(Root, tasks[Root])
    BY <2>2, NoUpdate DEF ControlOK, TypeOK, Root
  <2>4. Moved(Master, Root, tasks[Root], fr)
    BY <2>2, <2>3 DEF Moved
  <2> QED BY <1>0, <2>2, <2>4, MasterWorks, MovedHome
<1>3. ASSUME NEW w \in Workers, Ask(w) \/ Receive(w)
      PROVE  SetAtHome'
  <2>1. UNCHANGED <<tasks, futures, deque>> /\ (stack' = stack \/ \E fr : Called(w, fr))
    <3>1. CASE Ask(w)
      BY <3>1 DEF Ask
    <3>2. CASE Receive(w)
      BY <3>2, ReceiveShape DEF Receive, ReceiveMoves
    <3> QED BY <1>3, <3>1, <3>2
  <2>2. \A u : OnMaster(u) => OnMaster(u)'
    BY <2>1, MasterKeeps
  <2>3. \A u : InDeque(u) => InDeque(u)'
    BY <2>1 DEF InDeque
  <2> QED BY <1>0, <2>1, <2>2, <2>3, HomeKeep
<1>4. ASSUME NEW w \in Workers, Start(w) \/ Leave(w) \/ REDUCE(w)
      PROVE  SetAtHome'
  <2>1. UNCHANGED <<futures, deque>>
    BY <1>4 DEF Start, Leave, REDUCE
  <2>2. PICK t, r, fr : Moved(w, t, r, fr) /\ r.future = tasks[t].future
    BY <1>4, RunShape
  <2> QED BY <1>0, <2>1, <2>2, MovedHome
<1>5. ASSUME NEW w \in Workers, AwaitReturn(w)
      PROVE  SetAtHome'
  <2>1. PICK t, r, fr, f : AwaitMoves(w, t, r, fr, f)
    BY <1>5, AwaitShape
  <2>2. AwaitEffect(t, r)
    BY <2>1, AwaitRange
  <2>3. Moved(w, t, r, fr) /\ FutureUpdated(f, [futures[f] EXCEPT !.freed = TRUE, !.chan = <<>>])
    BY <2>1 DEF AwaitMoves
  <2>4. Len(futures') = Len(futures) /\ futures[f] \in FutureRecord /\ f \in 1 .. Len(futures)
    BY <2>3 DEF FutureUpdated, ControlOK, TypeOK
  <2>5. \A x \in 1 .. Len(futures) : futures[x].has_channel => futures'[x].has_channel
    BY <2>3, <2>4 DEF FutureUpdated, FutureRecord
  <2>6. deque' = deque
    BY <1>5 DEF AwaitReturn
  <2>7. r.future = tasks[t].future
    BY <2>2 DEF AwaitEffect
  <2> QED BY <1>0, <2>3, <2>4, <2>5, <2>6, <2>7, MovedHome
<1>6. ASSUME NEW w \in Workers, Return(w) \/ Pop(w)
      PROVE  SetAtHome'
  BY <1>0, <1>6, ReturnHome, PopHome
<1>7. ASSUME NEW v \in Workers, NEW w \in Workers, handle_steal_request(v, w)
      PROVE  SetAtHome'
  BY <1>0, <1>7, StealHome
<1>8. ASSUME NEW v \in Workers, NEW w \in Workers, SplitInPoll(v, w) \/ SplitInPop(v, w)
      PROVE  SetAtHome'
  <2>1. PICK t, c, r, s, f, fr : SplitMoves(v, w, t, c, r, s, f, fr)
    BY <1>8, PollShape, PopSplitShape DEF PollMoves, PopSplitMoves
  <2> QED BY <1>0, <2>1, SplitHome
<1>9. CASE UNCHANGED vars
  BY <1>9 DEF vars, SetAtHome, Depth
<1> QED BY <1>1, <1>2, <1>3, <1>4, <1>5, <1>6, <1>7, <1>8, <1>9 DEF Next, Run, Terminated

-----------------------------------------------------------------------------
(* Every iteration is run once. *)

Block(l, a, b) == {<<l, i>> : i \in a .. b - 1}

From(t) == IF Started(t) THEN tasks[t].i ELSE tasks[t].start

LEMMA RestIs ==
    ASSUME NEW t
    PROVE  Rest(t) = IF tasks[t].done THEN {} ELSE Block(tasks[t].loop, From(t), tasks[t].end)
BY DEF Rest, Block, From, Started

LEMMA RangeIs ==
    ASSUME NEW l
    PROVE  LoopRange(l) = Block(l, program[l][1], program[l][2])
BY DEF LoopRange, Block

\* IterationsOnce, element by element
OnceOK ==
    /\ \A it \in DOMAIN executed : executed[it] = 1
    /\ \A it \in DOMAIN executed : \A t \in Parts : it \notin Rest(t)
    /\ \A it \in DOMAIN executed : \E l \in 1 .. Len(results) : it \in LoopRange(l)
    /\ \A t \in Parts : \A it \in Rest(t) : \E l \in 1 .. Len(results) : it \in LoopRange(l)
    /\ \A t, u \in Parts : t # u => Rest(t) \cap Rest(u) = {}
    /\ \A l \in 1 .. Len(results) : \A it \in LoopRange(l) :
            it \in DOMAIN executed \/ \E t \in Parts : it \in Rest(t)

LEMMA OnceIs == IterationsOnce <=> OnceOK
<1> DEFINE range == UNION {LoopRange(l) : l \in 1 .. Len(results)}
           left  == UNION {Rest(t) : t \in Parts}
<1>1. IterationsOnce <=> /\ \A it \in DOMAIN executed : executed[it] = 1
                         /\ \A t, u \in Parts : t # u => Rest(t) \cap Rest(u) = {}
                         /\ DOMAIN executed \cap left = {}
                         /\ DOMAIN executed \cup left = range
  BY DEF IterationsOnce, Parts
<1>2. \A it : it \in range <=> \E l \in 1 .. Len(results) : it \in LoopRange(l)
  OBVIOUS
<1>3. \A it : it \in left <=> \E t \in Parts : it \in Rest(t)
  OBVIOUS
<1> HIDE DEF range, left
<1>4. ASSUME OnceOK
      PROVE  IterationsOnce
  <2>1. DOMAIN executed \cap left = {}
    BY <1>3, <1>4 DEF OnceOK
  <2>2. DOMAIN executed \cup left = range
    BY <1>2, <1>3, <1>4 DEF OnceOK
  <2> QED BY <1>1, <1>4, <2>1, <2>2 DEF OnceOK
<1>5. ASSUME IterationsOnce
      PROVE  OnceOK
  <2>1. /\ \A it \in DOMAIN executed : it \notin left /\ it \in range
        /\ \A it \in left : it \in range
        /\ \A it \in range : it \in DOMAIN executed \/ it \in left
    BY <1>1, <1>5
  <2> QED BY <1>1, <1>2, <1>3, <1>5, <2>1 DEF OnceOK
<1> QED BY <1>4, <1>5

LEMMA AddToBag ==
    ASSUME NEW B, NEW S, \A e \in DOMAIN B : B[e] = 1, DOMAIN B \cap S = {}
    PROVE  /\ DOMAIN (B (+) SetToBag(S)) = DOMAIN B \cup S
           /\ \A e \in DOMAIN B \cup S : (B (+) SetToBag(S))[e] = 1
<1>1. DOMAIN SetToBag(S) = S /\ \A e \in S : SetToBag(S)[e] = 1
  BY DEF SetToBag
<1>2. \A C : B (+) C = [e \in DOMAIN B \cup DOMAIN C |->
                            (IF e \in DOMAIN B THEN B[e] ELSE 0)
                            + (IF e \in DOMAIN C THEN C[e] ELSE 0)]
  BY DEF (+)
<1> DEFINE C == SetToBag(S)
<1>3. B (+) C = [e \in DOMAIN B \cup DOMAIN C |->
                            (IF e \in DOMAIN B THEN B[e] ELSE 0)
                            + (IF e \in DOMAIN C THEN C[e] ELSE 0)]
  BY <1>2
<1> QED BY <1>1, <1>3

\* The iterations It of task t are run, and the rest of t is shared with n.
LEMMA OnceStep ==
    ASSUME OnceOK, NEW t \in Parts, NEW n, Parts' = Parts \cup {n}, n = t \/ n \notin Parts,
           NEW It, It \subseteq Rest(t),
           executed' = executed (+) SetToBag(It) \/ (It = {} /\ executed' = executed),
           \A u \in Parts : u # t => Rest(u)' = Rest(u),
           Rest(t)' \cup Rest(n)' = Rest(t) \ It,
           n # t => Rest(t)' \cap Rest(n)' = {},
           UNCHANGED program, Len(results') = Len(results)
    PROVE  OnceOK'
<1>1. DOMAIN executed \cap It = {}
  BY DEF OnceOK
<1>2. /\ DOMAIN executed' = DOMAIN executed \cup It
      /\ \A e \in DOMAIN executed \cup It : executed'[e] = 1
  <2>1. CASE executed' = executed (+) SetToBag(It)
    BY <1>1, <2>1, AddToBag DEF OnceOK
  <2>2. CASE It = {} /\ executed' = executed
    BY <2>2 DEF OnceOK
  <2> QED BY <2>1, <2>2
<1>3. \A l : LoopRange(l)' = LoopRange(l)
  BY DEF LoopRange
<1>4. \A u \in Parts' : (u \in Parts /\ u # t) \/ u = t \/ u = n
  OBVIOUS
<1>5. \A u \in Parts' : \A it \in Rest(u)' : \E x \in Parts : it \in Rest(x)
  BY <1>4
<1>6. \A it \in DOMAIN executed' : \A u \in Parts' : it \notin Rest(u)'
  <2> SUFFICES ASSUME NEW it \in DOMAIN executed', NEW u \in Parts', it \in Rest(u)'
               PROVE  FALSE
    OBVIOUS
  <2>1. it \notin DOMAIN executed
    BY <1>5 DEF OnceOK
  <2>2. it \in It /\ it \in Rest(t)
    BY <1>2, <2>1
  <2>3. u \in Parts /\ u # t
    BY <1>4, <2>2
  <2>4. it \in Rest(u)
    BY <2>3
  <2> QED BY <2>2, <2>3, <2>4 DEF OnceOK
<1>7. ASSUME NEW u \in Parts', NEW x \in Parts', u # x, NEW it, it \in Rest(u)', it \in Rest(x)'
      PROVE  FALSE
  <2>1. \A y \in Parts' : it \in Rest(y)' => IF y \in Parts /\ y # t THEN it \in Rest(y)
                                             ELSE it \in Rest(t)
    BY <1>4
  <2>2. CASE u \in Parts /\ u # t
    BY <1>4, <1>7, <2>1, <2>2 DEF OnceOK
  <2>3. CASE x \in Parts /\ x # t
    BY <1>4, <1>7, <2>1, <2>3 DEF OnceOK
  <2>4. CASE u \in {t, n} /\ x \in {t, n}
    BY <1>7, <2>4
  <2> QED BY <1>4, <2>2, <2>3, <2>4
<1>8. ASSUME NEW l \in 1 .. Len(results), NEW it \in LoopRange(l), it \notin DOMAIN executed'
      PROVE  \E u \in Parts' : it \in Rest(u)'
  <2>1. it \notin DOMAIN executed /\ it \notin It
    BY <1>2, <1>8
  <2>2. PICK u \in Parts : it \in Rest(u)
    BY <2>1 DEF OnceOK
  <2>3. CASE u = t
    BY <2>1, <2>2, <2>3
  <2>4. CASE u # t
    BY <2>2, <2>4
  <2> QED BY <2>3, <2>4
<1>9. \A it \in DOMAIN executed' : \E l \in 1 .. Len(results') : it \in LoopRange(l)'
  BY <1>2, <1>3 DEF OnceOK
<1>10. \A u \in Parts' : \A it \in Rest(u)' : \E l \in 1 .. Len(results') : it \in LoopRange(l)'
  BY <1>3, <1>5 DEF OnceOK
<1>11. \A u, x \in Parts' : u # x => Rest(u)' \cap Rest(x)' = {}
  BY <1>7
<1>12. \A l \in 1 .. Len(results') : \A it \in LoopRange(l)' :
            it \in DOMAIN executed' \/ \E u \in Parts' : it \in Rest(u)'
  BY <1>3, <1>8
<1> QED BY <1>2, <1>6, <1>9, <1>10, <1>11, <1>12 DEF OnceOK

LEMMA OnceSame ==
    ASSUME OnceOK, Len(tasks') = Len(tasks), UNCHANGED <<program, executed>>,
           \A u \in Parts : Rest(u)' = Rest(u), Len(results') = Len(results)
    PROVE  OnceOK'
<1>1. \A l : LoopRange(l)' = LoopRange(l)
  BY DEF LoopRange
<1>2. Parts' = Parts
  BY DEF Parts
<1> QED BY <1>1, <1>2 DEF OnceOK

LEMMA RestSame ==
    ASSUME NEW u, Started(u)' <=> Started(u),
           tasks'[u].loop = tasks[u].loop, tasks'[u].start = tasks[u].start,
           tasks'[u].i = tasks[u].i, tasks'[u].end = tasks[u].end, tasks'[u].done = tasks[u].done
    PROVE  Rest(u)' = Rest(u)
<1>1. Rest(u)' = IF tasks'[u].done THEN {} ELSE Block(tasks'[u].loop, From(u)', tasks'[u].end)
  BY DEF Rest, Block, From, Started
<1>2. From(u)' = From(u)
  BY DEF From
<1> QED BY <1>1, <1>2, RestIs

\* The other tasks, when w goes on in t
LEMMA MovedRest ==
    ASSUME ControlOK, NEW w \in Workers, NEW t, NEW r, NEW fr, Moved(w, t, r, fr)
    PROVE  /\ \A u \in Parts : u # t => Rest(u)' = Rest(u)
           /\ Started(t) <=> Top(w).pc \notin {"popped", "received"}
           /\ Started(t)' <=> fr.pc \notin {"popped", "received"}
           /\ tasks'[t] = r /\ Len(tasks') = Len(tasks)
<1>1. Retopped(w, fr) /\ fr.task = Top(w).task /\ fr.task = t /\ Updated(t, r)
  BY DEF Moved
<1>2. /\ \A u : u # fr.task => (Started(u)' <=> Started(u))
      /\ Started(fr.task)' <=> fr.pc \notin {"popped", "received"}
      /\ Started(fr.task) <=> Top(w).pc \notin {"popped", "received"}
  BY <1>1, RetopPlaces DEF ControlOK
<1>3. ASSUME NEW u \in Parts, u # t
      PROVE  Rest(u)' = Rest(u)
  <2>1. tasks'[u] = tasks[u]
    BY <1>1, <1>3 DEF Updated, Parts
  <2> QED BY <1>1, <1>2, <1>3, <2>1, RestSame
<1> QED BY <1>1, <1>2, <1>3 DEF Updated

LEMMA RestNext ==
    ASSUME NEW u
    PROVE  Rest(u)' = IF tasks'[u].done THEN {} ELSE Block(tasks'[u].loop, From(u)', tasks'[u].end)
BY DEF Rest, Block, From, Started

LEMMA CreateRest ==
    ASSUME ControlOK, NEW n, NEW l, NEW f, CreateMoves(n, l, f)
    PROVE  /\ Parts' = Parts \cup {n} /\ n \notin Parts /\ \A u \in Parts : u \in 1 .. n - 1
           /\ \A u \in Parts : Rest(u)' = Rest(u)
           /\ Rest(n)' = LoopRange(l)
<1>2. /\ n = Len(tasks) + 1 /\ n \in Nat /\ Len(tasks') = n
      /\ \A u \in 1 .. n - 1 : tasks'[u] = tasks[u]
      /\ l = Len(results) + 1 /\ Len(results') = l
      /\ tasks'[n] = NewTask(l, program[l][1], program[l][2], f)
      /\ UNCHANGED <<program, stack, executed>>
  BY DEF CreateMoves
<1>3. Len(tasks) \in Nat /\ Len(tasks) >= 1 /\ Len(results) \in Nat
  BY DEF ControlOK, TypeOK
<1>4. Parts' = Parts \cup {n} /\ n \notin Parts /\ \A u \in Parts : u \in 1 .. n - 1
  BY <1>2, <1>3 DEF Parts
<1>5. \A u : Started(u)' <=> Started(u)
  BY <1>2 DEF Started, Depth
<1>6. \A u \in Parts : Rest(u)' = Rest(u)
  BY <1>2, <1>4, <1>5, RestSame
<1>7. ~Started(n)
  BY <1>2, <1>3 DEF ControlOK, StackOK, FrameOK, Started
<1>8. Rest(n)' = LoopRange(l)
  <2>1. From(n)' = program[l][1] /\ tasks'[n].end = program[l][2] /\ tasks'[n].loop = l
        /\ ~tasks'[n].done
    BY <1>2, <1>5, <1>7 DEF From, NewTask
  <2> QED BY <2>1, RestNext, RangeIs
<1> QED BY <1>4, <1>6, <1>8

LEMMA CreateOnce ==
    ASSUME ControlOK, OnceOK, NEW b \in BOOLEAN, Create(b)
    PROVE  OnceOK'
<1>1. PICK n, l, f : CreateMoves(n, l, f)
  BY CreateShape
<1>2. /\ n = Len(tasks) + 1 /\ n \in Nat /\ Len(tasks') = n
      /\ \A u \in 1 .. n - 1 : tasks'[u] = tasks[u]
      /\ l = Len(results) + 1 /\ Len(results') = l
      /\ tasks'[n] = NewTask(l, program[l][1], program[l][2], f)
      /\ UNCHANGED <<program, stack, executed>>
  BY <1>1 DEF CreateMoves
<1>3. Len(tasks) \in Nat /\ Len(tasks) >= 1 /\ Len(results) \in Nat
  BY DEF ControlOK, TypeOK
<1>4. Parts' = Parts \cup {n} /\ \A u \in Parts : Rest(u)' = Rest(u)
  BY <1>1, CreateRest
<1>8. Rest(n)' = LoopRange(l)
  BY <1>1, CreateRest
<1>9. \A k : LoopRange(k)' = LoopRange(k)
  BY <1>2 DEF LoopRange
<1>10. \A k \in 1 .. Len(results) : LoopRange(k) \cap LoopRange(l) = {}
  <2>1. \A k \in 1 .. Len(results) : k # l
    BY <1>2, <1>3
  <2> QED BY <2>1 DEF LoopRange
<1>11. \A k \in 1 .. l : k \in 1 .. Len(results) \/ k = l
  BY <1>2, <1>3
<1>12. \A k \in 1 .. Len(results) : k \in 1 .. Len(results')
  BY <1>2, <1>3
<1>13. l \in 1 .. Len(results')
  BY <1>2, <1>3
<1>14. \A it \in DOMAIN executed' : executed'[it] = 1
  BY <1>2 DEF OnceOK
<1>15. \A it \in DOMAIN executed' : \A u \in Parts' : it \notin Rest(u)'
  BY <1>2, <1>4, <1>8, <1>10 DEF OnceOK
<1>16. \A it \in DOMAIN executed' : \E k \in 1 .. Len(results') : it \in LoopRange(k)'
  BY <1>2, <1>9, <1>12 DEF OnceOK
<1>17. \A u \in Parts' : \A it \in Rest(u)' : \E k \in 1 .. Len(results') : it \in LoopRange(k)'
  BY <1>4, <1>8, <1>9, <1>12, <1>13 DEF OnceOK
<1>18. \A u \in Parts : Rest(u) \cap LoopRange(l) = {}
  BY <1>10 DEF OnceOK
<1>19. \A u, x \in Parts' : u # x => Rest(u)' \cap Rest(x)' = {}
  BY <1>4, <1>8, <1>18 DEF OnceOK
<1>20. \A k \in 1 .. Len(results') : \A it \in LoopRange(k)' :
            it \in DOMAIN executed' \/ \E u \in Parts' : it \in Rest(u)'
  <2> SUFFICES ASSUME NEW k \in 1 .. l, NEW it \in LoopRange(k)
               PROVE  it \in DOMAIN executed \/ \E u \in Parts' : it \in Rest(u)'
    BY <1>2, <1>9
  <2>1. CASE k = l
    BY <1>4, <1>8, <2>1
  <2>2. CASE k \in 1 .. Len(results)
    BY <1>4, <2>2 DEF OnceOK
  <2> QED BY <1>11, <2>1, <2>2
<1> QED BY <1>14, <1>15, <1>16, <1>17, <1>19, <1>20 DEF OnceOK

LEMMA StartRest ==
    ASSUME ControlOK, NEW w \in Workers, NEW t, NEW r, NEW fr, StartMoves(w, t, r, fr)
    PROVE  /\ \A u \in Parts : Rest(u)' = Rest(u)
           /\ Len(tasks') = Len(tasks)
<1>1. StartEffect(t, r)
  BY StartRange
<1>2. Moved(w, t, r, fr) /\ Top(w).pc \in {"popped", "received"} /\ fr.pc = "test"
      /\ t = Top(w).task /\ Depth(w) > 0
  BY DEF StartMoves, Moved
<1>3. /\ \A u \in Parts : u # t => Rest(u)' = Rest(u)
      /\ ~Started(t) /\ Started(t)' /\ tasks'[t] = r /\ Len(tasks') = Len(tasks)
  BY <1>2, MovedRest
<1>4. ~tasks[t].done
  BY <1>2, RootFrame
<1>5. From(t)' = From(t) /\ r.end = tasks[t].end /\ r.loop = tasks[t].loop /\ ~r.done
  BY <1>1, <1>3 DEF From, StartEffect
<1>6. Rest(t)' = Rest(t)
  BY <1>3, <1>4, <1>5, RestIs, RestNext
<1> QED BY <1>3, <1>6

LEMMA StartOnce ==
    ASSUME ControlOK, OnceOK, NEW w \in Workers, Start(w)
    PROVE  OnceOK'
<1>1. PICK t, r, fr : StartMoves(w, t, r, fr)
  BY StartShape
<1> QED BY <1>1, StartRest, OnceSame DEF Start

\* The rest of a task whose iterations are all run
LEMMA RestDone ==
    ASSUME ControlOK, NEW w \in Workers, Depth(w) > 0, Top(w).pc \in {"reduce", "await"},
           Top(w).task # Root
    PROVE  Rest(Top(w).task) = {}
<1> DEFINE t == Top(w).task
<1>1. /\ tasks[t] \in TaskRecord /\ tasks[t].i = tasks[t].end
  BY RangeOf
<1>2. Depth(w) \in 1 .. Depth(w) /\ stack[w][Depth(w)] = Top(w)
  BY TopFrame DEF ControlOK, Depth
<1>3. Started(t)
  BY <1>2 DEF Started
<1>4. From(t) = tasks[t].end
  BY <1>1, <1>3 DEF From
<1>5. tasks[t].end .. tasks[t].end - 1 = {}
  BY <1>1 DEF TaskRecord
<1>6. Block(tasks[t].loop, tasks[t].end, tasks[t].end) = {}
  BY <1>5 DEF Block
<1> QED BY <1>4, <1>6, RestIs

\* REDUCE, and what follows it
LEMMA ReduceRest ==
    ASSUME ControlOK, NEW w \in Workers, NEW t, NEW r, NEW fr, Moved(w, t, r, fr),
           Top(w).pc \in {"reduce", "await"}, fr.pc \notin {"popped", "received"},
           r.loop = tasks[t].loop, r.start = tasks[t].start, r.end = tasks[t].end,
           r.i = tasks[t].i, r.done = FALSE
    PROVE  /\ \A u \in Parts : Rest(u)' = Rest(u)
           /\ Len(tasks') = Len(tasks)
<1>1. /\ \A u \in Parts : u # t => Rest(u)' = Rest(u)
      /\ Started(t) /\ Started(t)' /\ tasks'[t] = r /\ Len(tasks') = Len(tasks)
  BY MovedRest
<1>2. ~tasks[t].done
  BY RootFrame DEF Moved
<1>3. From(t)' = From(t)
  BY <1>1 DEF From
<1>4. Rest(t)' = Rest(t)
  BY <1>1, <1>2, <1>3, RestIs, RestNext
<1> QED BY <1>1, <1>4

LEMMA ReduceOnce ==
    ASSUME ControlOK, FuturesOK, OnceOK, NEW w \in Workers, REDUCE(w) \/ AwaitReturn(w)
    PROVE  OnceOK'
<1>1. PICK t, r, fr : /\ Moved(w, t, r, fr) /\ Top(w).pc \in {"reduce", "await"}
                      /\ fr.pc \notin {"popped", "received"}
                      /\ r.loop = tasks[t].loop /\ r.start = tasks[t].start /\ r.end = tasks[t].end
                      /\ r.i = tasks[t].i /\ r.done = FALSE
  <2>1. CASE REDUCE(w)
    <3>1. PICK t, r, fr : ReduceMoves(w, t, r, fr)
      BY <2>1, ReduceShape
    <3>2. ReduceEffect(t, r)
      BY <3>1, ReduceRange
    <3> QED BY <3>1, <3>2 DEF ReduceMoves, ReduceEffect
  <2>2. CASE AwaitReturn(w)
    <3>1. PICK t, r, fr, f : AwaitMoves(w, t, r, fr, f)
      BY <2>2, AwaitShape
    <3>2. AwaitEffect(t, r)
      BY <3>1, AwaitRange
    <3>3. fr.pc \notin {"popped", "received"}
      BY <3>1 DEF AwaitMoves, Frame
    <3> QED BY <3>1, <3>2, <3>3 DEF AwaitMoves, AwaitEffect
  <2> QED BY <2>1, <2>2
<1>2. (\A u \in Parts : Rest(u)' = Rest(u)) /\ Len(tasks') = Len(tasks)
  BY <1>1, ReduceRest
<1>3. Len(results') = Len(results) /\ UNCHANGED <<program, executed>>
  BY DEF REDUCE, AwaitReturn
<1> QED BY <1>2, <1>3, OnceSame

LEMMA LeaveRest ==
    ASSUME ControlOK, NEW w \in Workers, NEW t, NEW r, NEW fr, LeaveMoves(w, t, r, fr)
    PROVE  /\ \A u \in Parts : u # t => Rest(u)' = Rest(u)
           /\ Rest(t) = Block(tasks[t].loop, tasks[t].i, tasks[t].end) /\ Rest(t)' = {}
           /\ tasks'[t] = r /\ Len(tasks') = Len(tasks)
<1>1. LeaveEffect(t, r)
  BY LeaveRange
<1>2. Moved(w, t, r, fr) /\ Top(w).pc \in {"test", "poll"} /\ fr.pc = "reduce"
      /\ t = Top(w).task /\ Depth(w) > 0 /\ r \in TaskRecord
  BY DEF LeaveMoves, Moved, Updated
<1>3. /\ \A u \in Parts : u # t => Rest(u)' = Rest(u)
      /\ Started(t) /\ Started(t)' /\ tasks'[t] = r /\ Len(tasks') = Len(tasks)
  BY <1>2, MovedRest
<1>4. ~tasks[t].done
  BY <1>2, RootFrame
<1>5. Rest(t) = Block(tasks[t].loop, tasks[t].i, tasks[t].end)
  BY <1>3, <1>4, RestIs DEF From
<1>6. Rest(t)' = {}
  <2>1. From(t)' = r.end
    BY <1>1, <1>3 DEF From, LeaveEffect
  <2>2. r.end .. r.end - 1 = {}
    BY <1>2 DEF TaskRecord
  <2>3. Block(r.loop, r.end, r.end) = {}
    BY <2>2 DEF Block
  <2> QED BY <1>3, <2>1, <2>3, RestNext
<1> QED BY <1>3, <1>5, <1>6

LEMMA LeaveOnce ==
    ASSUME ControlOK, OnceOK, NEW w \in Workers, Leave(w)
    PROVE  OnceOK'
<1>1. PICK t, r, fr : LeaveMoves(w, t, r, fr)
  BY LeaveShape
<1>2. /\ \A u \in Parts : u # t => Rest(u)' = Rest(u)
      /\ Rest(t) = Block(tasks[t].loop, tasks[t].i, tasks[t].end) /\ Rest(t)' = {}
      /\ Len(tasks') = Len(tasks)
  BY <1>1, LeaveRest
<1>3. t \in Parts /\ executed' = executed (+) Iterations(tasks[t], tasks[t].end)
  BY <1>1 DEF LeaveMoves
<1>4. executed' = executed (+) SetToBag(Rest(t))
  BY <1>2, <1>3 DEF Iterations, Block
<1>5. Parts' = Parts \cup {t}
  BY <1>2, <1>3 DEF Parts
<1>6. Len(results') = Len(results) /\ UNCHANGED program
  BY DEF Leave
<1> DEFINE It == Rest(t)
<1>7. /\ executed' = executed (+) SetToBag(It) \/ (It = {} /\ executed' = executed)
      /\ It \subseteq Rest(t) /\ Rest(t)' \cup Rest(t)' = Rest(t) \ It
  BY <1>2, <1>4
<1> HIDE DEF It
<1> QED BY <1>2, <1>3, <1>5, <1>6, <1>7, OnceStep

LEMMA ReturnRest ==
    ASSUME ControlOK, NEW w \in Workers, NEW t, NEW r, ReturnMoves(w, t, r)
    PROVE  (\A u \in Parts : Rest(u)' = Rest(u)) /\ Rest(t) = {}
<1>2. /\ Depth(w) > 0 /\ t = Top(w).task /\ t \in Parts /\ Updated(t, r) /\ Returned(w)
      /\ r = [tasks[t] EXCEPT !.done = TRUE] /\ Top(w).pc = "reduce"
  BY DEF ReturnMoves
<1>3. t # Root /\ tasks[t] \in TaskRecord
  BY <1>2, RootFrame DEF ControlOK, TypeOK, Parts
<1>4. Rest(t) = {}
  BY <1>2, <1>3, RestDone
<1>5. Rest(t)' = {}
  <2>1. r.done
    BY <1>2, <1>3 DEF TaskRecord
  <2> QED BY <1>2, <2>1, RestNext DEF Updated
<1>6. \A u : u # t => (Started(u)' <=> Started(u))
  <2>1. Len(tasks) \in Nat /\ Len(futures) \in Nat
    BY DEF ControlOK, TypeOK
  <2>2. Len(futures') = Len(futures)
    BY DEF ReturnMoves, FutureUpdated
  <2>3. Others(w)
    BY <1>2, <2>1, <2>2 DEF Others, Updated
  <2> QED BY <1>2, <1>3, <2>3, ReturnStack DEF ControlOK
<1>7. ASSUME NEW u \in Parts, u # t
      PROVE  Rest(u)' = Rest(u)
  <2>1. tasks'[u] = tasks[u]
    BY <1>2, <1>7 DEF Updated, Parts
  <2> QED BY <1>6, <1>7, <2>1, RestSame
<1> QED BY <1>4, <1>5, <1>7

LEMMA ReturnOnce ==
    ASSUME ControlOK, OnceOK, NEW w \in Workers, Return(w)
    PROVE  OnceOK'
<1>1. PICK t, r : ReturnMoves(w, t, r)
  BY ReturnShape
<1>2. Len(tasks') = Len(tasks)
  BY <1>1 DEF ReturnMoves, Updated
<1> QED BY <1>1, <1>2, ReturnRest, OnceSame DEF Return

\* t is split while or before it runs the iterations It: n gets some of the rest.
SplitRests(t, n, It) ==
    /\ n = Len(tasks) + 1 /\ Parts' = Parts \cup {n} /\ n \notin Parts
    /\ Rest(t)' \cup Rest(n)' = Rest(t) \ It /\ Rest(t)' \cap Rest(n)' = {} /\ It \subseteq Rest(t)
    /\ \A u \in Parts : u # t => Rest(u)' = Rest(u)

LEMMA SplitRest ==
    ASSUME ControlOK, NEW v \in Workers, NEW w \in Workers, NEW t, NEW c, NEW r, NEW s,
           NEW f, NEW fr, SplitMoves(v, w, t, c, r, s, f, fr),
           NEW a \in Int, NEW j \in Int, a <= j, j <= s, From(t) = a,
           j = IF fr.pc = "poll" THEN r.i ELSE r.start, fr.pc \in {"poll", "popped"}
    PROVE  \E n : SplitRests(t, n, Block(tasks[t].loop, a, j))
<1>n. PICK n : n = Len(tasks) + 1
  OBVIOUS
<1>1. SplitEffect(t, c, r, s, f, n)
  BY <1>n, SplitTasksEffect
<1>2. /\ Depth(v) > 0 /\ t = Top(v).task /\ t \in Parts
      /\ r \in TaskRecord /\ s \in Int /\ s < r.end /\ r.end = tasks[t].end
      /\ r.start = tasks[t].start
      /\ Retopped(v, fr) /\ fr.task = t
      /\ UNCHANGED <<program, results>>
  BY <1>n DEF SplitMoves
<1>3. /\ n - 1 = Len(tasks) /\ n \in Nat /\ t \in 2 .. n - 1 /\ Len(tasks') = n /\ Len(tasks) >= 1
  BY <1>1, <1>2 DEF SplitEffect, ControlOK, TypeOK
<1>4. /\ \A u : OnStack(u)' <=> OnStack(u)
      /\ \A u : u # fr.task => (Started(u)' <=> Started(u))
      /\ Started(fr.task)' <=> fr.pc \notin {"popped", "received"}
  BY <1>2, RetopPlaces DEF ControlOK
<1>5. ~Started(n)'
  <2>1. ~OnStack(n)
    BY <1>3 DEF OnStack, ControlOK, StackOK, FrameOK
  <2>2. Started(n)' => OnStack(n)'
    BY DEF Started, OnStack
  <2> QED BY <1>4, <2>1, <2>2
<1>6. ~tasks[t].done
  BY <1>2, RootFrame
<1> DEFINE l == tasks[t].loop
           e == tasks[t].end
<1>7. e \in Int /\ s < e
  BY <1>2 DEF TaskRecord
<1>8. Rest(t) = Block(l, a, e)
  BY <1>6, RestIs
<1>9. Rest(t)' = Block(l, j, s)
  <2>1. /\ tasks'[t].loop = l /\ ~tasks'[t].done /\ tasks'[t].end = s
        /\ tasks'[t].i = r.i /\ tasks'[t].start = r.start
    BY <1>1, <1>2 DEF SplitEffect
  <2>2. From(t)' = j
    BY <1>2, <1>4, <2>1 DEF From
  <2> QED BY <2>1, <2>2, RestNext
<1>10. Rest(n)' = Block(l, s, e)
  <2>1. tasks'[n].loop = l /\ ~tasks'[n].done /\ tasks'[n].end = e /\ tasks'[n].start = s
    BY <1>1 DEF SplitEffect
  <2>2. From(n)' = s
    BY <1>5, <2>1 DEF From
  <2> QED BY <2>1, <2>2, RestNext
<1>11. ASSUME NEW u \in Parts, u # t
       PROVE  Rest(u)' = Rest(u)
  <2>1. u \in 1 .. n - 1
    BY <1>3 DEF Parts
  <2>2. /\ tasks'[u].loop = tasks[u].loop /\ tasks'[u].start = tasks[u].start
        /\ tasks'[u].i = tasks[u].i /\ tasks'[u].end = tasks[u].end
        /\ tasks'[u].done = tasks[u].done
    BY <1>1, <1>11, <2>1 DEF SplitEffect
  <2> QED BY <1>2, <1>4, <1>11, <2>2, RestSame
<1>12. Parts' = Parts \cup {n} /\ n \notin Parts
  BY <1>3 DEF Parts
<1> DEFINE It == Block(l, a, j)
<1> HIDE DEF l, e
<1>13. /\ It \subseteq Block(l, a, e)
       /\ Block(l, j, s) \cup Block(l, s, e) = Block(l, a, e) \ It
       /\ Block(l, j, s) \cap Block(l, s, e) = {}
  <2>1. \A i : i \in a .. j - 1 => i \in a .. e - 1
    BY <1>2, <1>7
  <2>2. \A i : i \in a .. e - 1 <=> i \in a .. j - 1 \/ i \in j .. s - 1 \/ i \in s .. e - 1
    BY <1>2, <1>7
  <2>3. \A i : ~(i \in a .. j - 1 /\ i \in j .. s - 1) /\ ~(i \in a .. j - 1 /\ i \in s .. e - 1)
               /\ ~(i \in j .. s - 1 /\ i \in s .. e - 1)
    BY <1>2, <1>7
  <2>4. \A x, y, z : z \in Block(l, x, y) <=> \E i \in x .. y - 1 : z = <<l, i>>
    BY DEF Block
  <2>5. \A i, k : <<l, i>> = <<l, k>> => i = k
    OBVIOUS
  <2>6. It \subseteq Block(l, a, e)
    BY <2>1, <2>4
  <2>7. Block(l, j, s) \cup Block(l, s, e) = Block(l, a, e) \ It
    BY <2>2, <2>3, <2>4, <2>5
  <2>8. Block(l, j, s) \cap Block(l, s, e) = {}
    BY <2>3, <2>4, <2>5
  <2> QED BY <2>6, <2>7, <2>8
<1> HIDE DEF It
<1>15. Rest(t)' \cup Rest(n)' = Rest(t) \ It /\ Rest(t)' \cap Rest(n)' = {} /\ It \subseteq Rest(t)
  BY <1>8, <1>9, <1>10, <1>13
<1>16. It = Block(tasks[t].loop, a, j)
  BY DEF It, l
<1>17. SplitRests(t, n, It)
  BY <1>n, <1>11, <1>12, <1>15 DEF SplitRests
<1> QED BY <1>16, <1>17

LEMMA PollRest ==
    ASSUME ControlOK, NEW v \in Workers, NEW w \in Workers, NEW t, NEW r, NEW s, NEW f, NEW fr,
           NEW j, PollMoves(v, w, t, r, s, f, fr, j)
    PROVE  \E n : SplitRests(t, n, Block(tasks[t].loop, tasks[t].i, j))
<1>2. /\ SplitMoves(v, w, t, t, r, s, f, fr) /\ Top(v).pc \in {"test", "poll"} /\ fr.pc = "poll"
      /\ j \in Int /\ tasks[t].i <= j /\ j < s /\ r.i = j
  BY DEF PollMoves
<1>3. s \in Int /\ t = Top(v).task /\ Depth(v) > 0 /\ t \in Parts
  BY <1>2 DEF SplitMoves
<1>4. Started(t)
  <2>1. Depth(v) \in 1 .. Depth(v) /\ stack[v][Depth(v)] = Top(v)
    BY <1>3, TopFrame DEF ControlOK, Depth
  <2> QED BY <1>2, <1>3, <2>1 DEF Started
<1>5. From(t) = tasks[t].i /\ tasks[t].i \in Int
  <2>1. tasks[t] \in TaskRecord
    BY <1>3 DEF ControlOK, TypeOK, Parts
  <2> QED BY <1>4, <2>1 DEF From, TaskRecord
<1>7. j <= s /\ j = IF fr.pc = "poll" THEN r.i ELSE r.start
  BY <1>2, <1>3
<1> QED BY <1>2, <1>5, <1>7, SplitRest

LEMMA PopSplitRest ==
    ASSUME ControlOK, NEW v \in Workers, NEW w \in Workers, NEW t, NEW s, NEW f, NEW fr,
           PopSplitMoves(v, w, t, s, f, fr)
    PROVE  \E n : SplitRests(t, n, {})
<1>2. /\ SplitMoves(v, w, t, Root, tasks[t], s, f, fr) /\ Top(v).pc = "popped" /\ fr.pc = "popped"
      /\ tasks[t].cur = tasks[t].start
  BY DEF PopSplitMoves
<1>3. /\ s \in Int /\ t = Top(v).task /\ Depth(v) > 0 /\ tasks[t].cur < s
      /\ Retopped(v, fr) /\ fr.task = Top(v).task /\ tasks[t] \in TaskRecord
  BY <1>2 DEF SplitMoves
<1>4. ~Started(t)
  <2>1. Started(fr.task) <=> Top(v).pc \notin {"popped", "received"}
    BY <1>3, RetopPlaces DEF ControlOK
  <2> QED BY <1>2, <1>3, <2>1
<1>5. From(t) = tasks[t].start /\ tasks[t].start \in Int /\ tasks[t].start <= tasks[t].start
      /\ tasks[t].start <= s
  BY <1>2, <1>3, <1>4 DEF From, TaskRecord
<1>6. tasks[t].start = IF fr.pc = "poll" THEN tasks[t].i ELSE tasks[t].start
  BY <1>2
<1>7. PICK n : SplitRests(t, n, Block(tasks[t].loop, tasks[t].start, tasks[t].start))
  BY <1>2, <1>5, <1>6, SplitRest
<1>8. Block(tasks[t].loop, tasks[t].start, tasks[t].start) = {}
  <2>1. \A i \in Int : i .. i - 1 = {}
    OBVIOUS
  <2> QED BY <1>5, <2>1 DEF Block
<1> QED BY <1>7, <1>8

LEMMA SplitOnce ==
    ASSUME OnceOK, NEW t \in Parts, NEW n, NEW It, SplitRests(t, n, It),
           UNCHANGED <<program, results>>,
           executed' = executed (+) SetToBag(It) \/ (It = {} /\ executed' = executed)
    PROVE  OnceOK'
<1>1. /\ Parts' = Parts \cup {n} /\ n \notin Parts
      /\ Rest(t)' \cup Rest(n)' = Rest(t) \ It /\ Rest(t)' \cap Rest(n)' = {} /\ It \subseteq Rest(t)
      /\ \A u \in Parts : u # t => Rest(u)' = Rest(u)
  BY DEF SplitRests
<1> QED BY <1>1, OnceStep

LEMMA PollOnce ==
    ASSUME ControlOK, OnceOK, NEW v \in Workers, NEW w \in Workers, SplitInPoll(v, w)
    PROVE  OnceOK'
<1>1. PICK t, r, s, f, fr, j : PollMoves(v, w, t, r, s, f, fr, j)
  BY PollShape
<1>2. PICK n : SplitRests(t, n, Block(tasks[t].loop, tasks[t].i, j))
  BY <1>1, PollRest
<1>3. /\ SplitMoves(v, w, t, t, r, s, f, fr)
      /\ executed' = executed (+) SetToBag(Block(tasks[t].loop, tasks[t].i, j))
  BY <1>1 DEF PollMoves, Iterations, Block
<1>4. t \in Parts /\ UNCHANGED <<program, results>>
  BY <1>3 DEF SplitMoves
<1> QED BY <1>2, <1>3, <1>4, SplitOnce

LEMMA PopSplitOnce ==
    ASSUME ControlOK, OnceOK, NEW v \in Workers, NEW w \in Workers, SplitInPop(v, w)
    PROVE  OnceOK'
<1>1. PICK t, s, f, fr : PopSplitMoves(v, w, t, s, f, fr)
  BY PopSplitShape
<1>2. PICK n : SplitRests(t, n, {})
  BY <1>1, PopSplitRest
<1>3. SplitMoves(v, w, t, Root, tasks[t], s, f, fr) /\ executed' = executed
  BY <1>1 DEF PopSplitMoves
<1>4. t \in Parts /\ UNCHANGED <<program, results>>
  BY <1>3 DEF SplitMoves
<1> QED BY <1>2, <1>3, <1>4, SplitOnce

LEMMA OnceNext ==
    ASSUME ControlOK, FuturesOK, OnceOK, [Next]_vars
    PROVE  OnceOK'
<1>1. ASSUME NEW b \in BOOLEAN, Create(b)
      PROVE  OnceOK'
  BY <1>1, CreateOnce
<1>2. CASE EnterBarrier \/ LeaveBarrier \/ \E f \in handles : Await(f)
  <2>1. PICK fr, f : RootMoves(fr, f)
    BY <1>2, RootShape
  <2>2. /\ Top(Master).task = Root /\ Retopped(Master, fr) /\ fr.task = Root
        /\ UNCHANGED <<program, tasks, executed, results>>
    BY <2>1 DEF RootMoves
  <2>3. \A u : u # Root => (Started(u)' <=> Started(u))
    BY <2>2, MasterWorks, RetopPlaces DEF ControlOK
  <2>4. \A u \in Parts : Rest(u)' = Rest(u)
    BY <2>2, <2>3, RestSame DEF Parts, Root
  <2> QED BY <2>2, <2>4, OnceSame
<1>3. ASSUME NEW w \in Workers, Pop(w) \/ Ask(w) \/ Receive(w)
      PROVE  OnceOK'
  <2>1. UNCHANGED <<program, tasks, futures, executed, results>>
    BY <1>3 DEF Pop, Ask, Receive
  <2>2. \A u : Started(u)' <=> Started(u)
    <3>1. CASE Ask(w)
      BY <3>1 DEF Ask, Started, Depth
    <3>2. CASE Pop(w)
      <4>1. PICK t : PopMoves(w, t)
        BY <3>2, PopShape
      <4>2. /\ t \in Parts /\ ~OnStack(t) /\ ~tasks[t].done /\ Called(w, Frame(t, "popped"))
            /\ w = Master /\ Depth(w) = 1 /\ Top(w).pc \in {"await", "barrier"}
        BY <4>1 DEF PopMoves, Waiting
      <4> QED BY <2>1, <4>2, CallStack DEF ControlOK
    <3>3. CASE Receive(w)
      <4>1. PICK t : ReceiveMoves(w, t)
        BY <3>3, ReceiveShape
      <4>2. /\ t \in Parts /\ ~OnStack(t) /\ ~tasks[t].done /\ Called(w, Frame(t, "received"))
            /\ IF Depth(w) = 0 THEN w # Master ELSE Top(w).pc \in {"await", "barrier"}
        BY <4>1 DEF ReceiveMoves, Waiting
      <4> QED BY <2>1, <4>2, CallStack DEF ControlOK
    <3> QED BY <1>3, <3>1, <3>2, <3>3
  <2>3. \A u \in Parts : Rest(u)' = Rest(u)
    BY <2>1, <2>2, RestSame
  <2> QED BY <2>1, <2>3, OnceSame
<1>4. ASSUME NEW w \in Workers, Start(w) \/ Leave(w) \/ REDUCE(w)
      PROVE  OnceOK'
  BY <1>4, StartOnce, LeaveOnce, ReduceOnce
<1>5. ASSUME NEW w \in Workers, AwaitReturn(w) \/ Return(w)
      PROVE  OnceOK'
  BY <1>5, ReduceOnce, ReturnOnce
<1>7. ASSUME NEW v \in Workers, NEW w \in Workers, handle_steal_request(v, w)
      PROVE  OnceOK'
  <2>1. UNCHANGED <<program, tasks, stack, executed, results>>
    BY <1>7 DEF handle_steal_request
  <2>2. \A u \in Parts : Rest(u)' = Rest(u)
    BY <2>1, RestSame DEF Started, Depth
  <2> QED BY <2>1, <2>2, OnceSame
<1>8. ASSUME NEW v \in Workers, NEW w \in Workers, SplitInPoll(v, w) \/ SplitInPop(v, w)
      PROVE  OnceOK'
  BY <1>8, PollOnce, PopSplitOnce
<1>9. CASE UNCHANGED vars
  <2>1. UNCHANGED <<program, tasks, stack, executed, results>>
    BY <1>9 DEF vars
  <2>2. \A u \in Parts : Rest(u)' = Rest(u)
    BY <2>1, RestSame DEF Started, Depth
  <2> QED BY <2>1, <2>2, OnceSame
<1> QED BY <1>1, <1>2, <1>3, <1>4, <1>5, <1>7, <1>8, <1>9 DEF Next, Run, Terminated

LEMMA InitOnce ==
    ASSUME Init
    PROVE  OnceOK
<1>1. Len(tasks) = 1 /\ Len(results) = 0 /\ DOMAIN executed = {}
  BY DEF Init, EmptyBag, SetToBag
<1>2. Parts = {} /\ 1 .. Len(results) = {}
  BY <1>1 DEF Parts
<1> QED BY <1>1, <1>2 DEF OnceOK

LEMMA InitHome ==
    ASSUME Init
    PROVE  SetAtHome
<1>1. Len(tasks) = 1
  BY DEF Init
<1> QED BY <1>1 DEF SetAtHome

-----------------------------------------------------------------------------
(* A future is awaited in one place. *)

\* An action that moves future f only, if any
LEMMA AwaitStep ==
    ASSUME ControlOK, AwaitsOK, Len(tasks') \in Nat, Len(futures') \in Nat,
           Len(tasks) <= Len(tasks'), Len(futures) <= Len(futures'), NEW f,
           \A u \in 1 .. Len(tasks') : ListOK(u)',
           \A x \in 1 .. Len(futures') : x # f =>
                /\ x \in 1 .. Len(futures) /\ (futures'[x].freed <=> futures[x].freed)
                /\ (x \in handles' <=> x \in handles)
                /\ \A u \in 1 .. Len(tasks) : InList(x, u)' <=> InList(x, u)
                /\ \A u \in 1 .. Len(tasks') : u \notin 1 .. Len(tasks) => ~InList(x, u)'
                /\ \A w \in Workers : \A d : FrameAt(x, w, d)' <=> FrameAt(x, w, d),
           f \in 1 .. Len(futures') => AwaitedOnce(f)'
    PROVE  AwaitsOK'
<1>1. ASSUME NEW x \in 1 .. Len(futures'), x # f
      PROVE  AwaitedOnce(x)'
  <2>1. /\ x \in 1 .. Len(futures) /\ AwaitedOnce(x)
        /\ (futures'[x].freed <=> futures[x].freed)
        /\ (x \in handles' <=> x \in handles)
        /\ \A u \in 1 .. Len(tasks) : InList(x, u)' <=> InList(x, u)
        /\ \A u \in 1 .. Len(tasks') : u \notin 1 .. Len(tasks) => ~InList(x, u)'
        /\ \A w \in Workers : \A d : FrameAt(x, w, d)' <=> FrameAt(x, w, d)
    BY <1>1 DEF AwaitsOK
  <2>2. \A w \in Workers : InFrame(x, w)' <=> InFrame(x, w)
    BY <2>1 DEF InFrame
  <2>3. Len(tasks) \in Nat
    BY DEF ControlOK, TypeOK
  <2>4. \A u \in 1 .. Len(tasks) : u \in 1 .. Len(tasks')
    BY <2>3
  <2>5. \A u \in 1 .. Len(tasks') : InList(x, u)' => u \in 1 .. Len(tasks) /\ InList(x, u)
    BY <2>1
  <2> QED BY <2>1, <2>2, <2>4, <2>5 DEF AwaitedOnce
<1> QED BY <1>1 DEF AwaitsOK

LEMMA RetopFrames ==
    ASSUME ControlOK, NEW w \in Workers, NEW fr, Retopped(w, fr)
    PROVE  /\ \A v \in Workers : \A x, d : (v # w \/ d # Depth(w)) =>
                (FrameAt(x, v, d)' <=> FrameAt(x, v, d))
           /\ \A x : FrameAt(x, w, Depth(w)) <=> Top(w).future = x
           /\ \A x, d : d = Depth(w) => (FrameAt(x, w, d)' <=> fr.future = x)
<1> USE DEF Depth
<1>0. Depth(w) > 0
  BY DEF Retopped
<1>1. Len(stack[w]) \in 1 .. Len(stack[w]) /\ Top(w) = stack[w][Len(stack[w])]
  BY <1>0, TopFrame DEF ControlOK
<1>2. ASSUME NEW v \in Workers, NEW x, NEW d, v # w \/ d # Depth(w)
      PROVE  FrameAt(x, v, d)' <=> FrameAt(x, v, d)
  BY <1>2 DEF FrameAt, Retopped
<1>3. \A x : FrameAt(x, w, Depth(w)) <=> Top(w).future = x
  BY <1>1 DEF FrameAt
<1>4. \A x, d : d = Depth(w) => (FrameAt(x, w, d)' <=> fr.future = x)
  BY <1>1 DEF FrameAt, Retopped
<1> QED BY <1>2, <1>3, <1>4

LEMMA CallFrames ==
    ASSUME ControlOK, NEW w \in Workers, NEW fr, Called(w, fr), fr.future = NoFuture
    PROVE  \A x : x # NoFuture =>
                \A v \in Workers : \A d : FrameAt(x, v, d)' <=> FrameAt(x, v, d)
<1> USE DEF Depth
<1> SUFFICES ASSUME NEW x, x # NoFuture, NEW v \in Workers, NEW d
             PROVE  FrameAt(x, v, d)' <=> FrameAt(x, v, d)
  OBVIOUS
<1>1. Len(stack[v]) \in Nat /\ Len(stack[w]) \in Nat
  BY DEF ControlOK, TypeOK
<1>2. CASE v = w
  <2>1. /\ Len(stack'[w]) = Len(stack[w]) + 1 /\ stack'[w][Len(stack[w]) + 1].future = NoFuture
        /\ \A e \in 1 .. Len(stack[w]) : stack'[w][e] = stack[w][e]
    BY DEF Called
  <2>2. d \in 1 .. Len(stack'[w]) <=> d \in 1 .. Len(stack[w]) \/ d = Len(stack[w]) + 1
    BY <1>1, <2>1
  <2> QED BY <1>2, <2>1, <2>2 DEF FrameAt
<1>3. CASE v # w
  BY <1>3 DEF Called, FrameAt
<1> QED BY <1>2, <1>3

LEMMA ReturnFrames ==
    ASSUME ControlOK, NEW w \in Workers, Returned(w), Top(w).future = NoFuture
    PROVE  \A x : x # NoFuture =>
                \A v \in Workers : \A d : FrameAt(x, v, d)' <=> FrameAt(x, v, d)
<1> USE DEF Depth
<1> SUFFICES ASSUME NEW x, x # NoFuture, NEW v \in Workers, NEW d
             PROVE  FrameAt(x, v, d)' <=> FrameAt(x, v, d)
  OBVIOUS
<1>1. Len(stack[v]) \in Nat /\ Len(stack[w]) \in Nat
  BY DEF ControlOK, TypeOK
<1>2. CASE v = w
  <2>1. /\ Len(stack'[w]) = Len(stack[w]) - 1 /\ stack[w][Len(stack[w])].future = NoFuture
        /\ Len(stack[w]) > 0
        /\ \A e \in 1 .. Len(stack'[w]) : stack'[w][e] = stack[w][e]
    BY TopFrame DEF Returned, ControlOK
  <2>2. d \in 1 .. Len(stack[w]) <=> d \in 1 .. Len(stack'[w]) \/ d = Len(stack[w])
    BY <1>1, <2>1
  <2> QED BY <1>2, <2>1, <2>2 DEF FrameAt
<1>3. CASE v # w
  BY <1>3 DEF Returned, FrameAt
<1> QED BY <1>2, <1>3

\* An action that moves no future
LEMMA AwaitsSame ==
    ASSUME ControlOK, AwaitsOK, Len(tasks') = Len(tasks), Len(futures') = Len(futures),
           UNCHANGED handles,
           \A u \in 1 .. Len(tasks) : /\ tasks'[u].futures = tasks[u].futures
                                      /\ tasks'[u].done => tasks[u].done \/ tasks[u].futures = <<>>,
           \A x \in 1 .. Len(futures) : futures'[x].freed <=> futures[x].freed,
           \A x : x # NoFuture => \A v \in Workers : \A d : FrameAt(x, v, d)' <=> FrameAt(x, v, d)
    PROVE  AwaitsOK'
<1>1. Len(tasks) \in Nat /\ Len(futures) \in Nat
  BY DEF ControlOK, TypeOK
<1>2. \A u \in 1 .. Len(tasks) : \A x : InList(x, u)' <=> InList(x, u)
  BY DEF InList
<1>3. \A u \in 1 .. Len(tasks) : ListOK(u)'
  BY DEF AwaitsOK, ListOK
<1>4. \A x \in 1 .. Len(futures) : x # NoFuture
  BY DEF NoFuture
<1>5. NoFuture \notin 1 .. Len(futures)
  BY DEF NoFuture
<1> QED BY <1>1, <1>2, <1>3, <1>4, <1>5, AwaitStep

\* w goes on, with future y in its frame instead of x.
LEMMA FramesBut ==
    ASSUME ControlOK, NEW w \in Workers, NEW fr, Retopped(w, fr)
    PROVE  \A x : x # Top(w).future /\ x # fr.future =>
                \A v \in Workers : \A d : FrameAt(x, v, d)' <=> FrameAt(x, v, d)
BY RetopFrames

\* A frame that waits for nothing has no future.
LEMMA TopFuture ==
    ASSUME ControlOK, NEW w \in Workers, Depth(w) > 0
    PROVE  /\ Top(w).pc # "await" => Top(w).future = NoFuture
           /\ Top(w).pc = "await" => Top(w).future \in 1 .. Len(futures)
<1>1. Depth(w) \in 1 .. Depth(w) /\ Top(w) = stack[w][Depth(w)]
  BY TopFrame DEF ControlOK, Depth
<1>2. FrameOK(w, Depth(w))
  BY <1>1 DEF ControlOK, StackOK
<1> QED BY <1>1, <1>2 DEF FrameOK

LEMMA MovedAwaits ==
    ASSUME ControlOK, AwaitsOK, NEW w \in Workers, NEW t, NEW r, NEW fr, Moved(w, t, r, fr),
           r.futures = tasks[t].futures, r.done = FALSE, fr.future = NoFuture,
           Top(w).pc # "await", UNCHANGED <<futures, handles>>
    PROVE  AwaitsOK'
<1>1. Depth(w) > 0 /\ Retopped(w, fr) /\ Updated(t, r)
  BY DEF Moved
<1>2. Top(w).future = NoFuture
  BY <1>1, TopFuture
<1>3. \A x : x # NoFuture => \A v \in Workers : \A d : FrameAt(x, v, d)' <=> FrameAt(x, v, d)
  BY <1>1, <1>2, FramesBut
<1>4. \A u \in 1 .. Len(tasks) : /\ tasks'[u].futures = tasks[u].futures
                                 /\ tasks'[u].done => tasks[u].done \/ tasks[u].futures = <<>>
  BY <1>1 DEF Updated
<1> QED BY <1>1, <1>3, <1>4, AwaitsSame DEF Updated

LEMMA CalledAwaits ==
    ASSUME ControlOK, AwaitsOK, NEW w \in Workers, NEW t, NEW l, Called(w, Frame(t, l)),
           UNCHANGED <<tasks, futures, handles>>
    PROVE  AwaitsOK'
<1>1. Frame(t, l).future = NoFuture
  BY DEF Frame
<1>2. \A x : x # NoFuture => \A v \in Workers : \A d : FrameAt(x, v, d)' <=> FrameAt(x, v, d)
  BY <1>1, CallFrames
<1> QED BY <1>2, AwaitsSame

LEMMA ReturnAwaits ==
    ASSUME ControlOK, AwaitsOK, NEW w \in Workers, Return(w)
    PROVE  AwaitsOK'
<1>1. PICK t, r : ReturnMoves(w, t, r)
  BY ReturnShape
<1>2. /\ Depth(w) > 0 /\ t = Top(w).task /\ t \in Parts /\ Updated(t, r) /\ Returned(w)
      /\ r = [tasks[t] EXCEPT !.done = TRUE] /\ Top(w).pc = "reduce" /\ tasks[t].futures = <<>>
      /\ IF tasks[t].future = NoFuture THEN futures' = futures
         ELSE FutureUpdated(tasks[t].future, FUTURE_SET(futures[tasks[t].future], tasks[t].sum))
  BY <1>1 DEF ReturnMoves
<1>3. tasks[t] \in TaskRecord
  BY <1>2 DEF ControlOK, TypeOK, Parts
<1>4. r.futures = tasks[t].futures
  BY <1>2, <1>3 DEF TaskRecord
<1>5. Top(w).future = NoFuture
  BY <1>2, TopFuture
<1>6. \A x : x # NoFuture => \A v \in Workers : \A d : FrameAt(x, v, d)' <=> FrameAt(x, v, d)
  BY <1>2, <1>5, ReturnFrames
<1>7. \A u \in 1 .. Len(tasks) : /\ tasks'[u].futures = tasks[u].futures
                                 /\ tasks'[u].done => tasks[u].done \/ tasks[u].futures = <<>>
  BY <1>2, <1>4 DEF Updated
<1>8. Len(futures') = Len(futures)
      /\ \A x \in 1 .. Len(futures) : futures'[x].freed <=> futures[x].freed
  <2>1. CASE tasks[t].future = NoFuture
    BY <1>2, <2>1
  <2>2. CASE tasks[t].future # NoFuture
    <3> DEFINE f == tasks[t].future
               h == FUTURE_SET(futures[f], tasks[t].sum)
    <3>1. FutureUpdated(f, h)
      BY <1>2, <2>2
    <3>2. futures[f] \in FutureRecord
      BY <3>1 DEF FutureUpdated, ControlOK, TypeOK
    <3>3. h.freed = futures[f].freed
      BY <3>2 DEF FUTURE_SET, FutureRecord
    <3> HIDE DEF f, h
    <3> QED BY <3>1, <3>3 DEF FutureUpdated
  <2> QED BY <2>1, <2>2
<1>9. handles' = handles /\ Len(tasks') = Len(tasks)
  BY <1>2 DEF Return, Updated
<1> QED BY <1>6, <1>7, <1>8, <1>9, AwaitsSame

LEMMA StealAwaits ==
    ASSUME ControlOK, AwaitsOK, NEW v \in Workers, NEW w \in Workers, handle_steal_request(v, w)
    PROVE  AwaitsOK'
<1>1. PICK t : StealMoves(v, w, t)
  BY StealShape
<1>2. UNCHANGED <<tasks, stack, handles>>
  BY DEF handle_steal_request
<1>3. IF tasks[t].future = NoFuture THEN futures' = futures
      ELSE FutureUpdated(tasks[t].future, FUTURE_CONVERT(futures[tasks[t].future]))
  BY <1>1 DEF StealMoves
<1>4. Len(futures') = Len(futures)
      /\ \A x \in 1 .. Len(futures) : futures'[x].freed <=> futures[x].freed
  <2>1. CASE tasks[t].future = NoFuture
    BY <1>3, <2>1
  <2>2. CASE tasks[t].future # NoFuture
    <3> DEFINE f == tasks[t].future
               h == FUTURE_CONVERT(futures[f])
    <3>1. FutureUpdated(f, h)
      BY <1>3, <2>2
    <3>2. futures[f] \in FutureRecord
      BY <3>1 DEF FutureUpdated, ControlOK, TypeOK
    <3>3. h.freed = futures[f].freed
      BY <3>2 DEF FUTURE_CONVERT, FutureRecord
    <3> HIDE DEF f, h
    <3> QED BY <3>1, <3>3 DEF FutureUpdated
  <2> QED BY <2>1, <2>2
<1>5. \A x, d : \A u \in Workers : FrameAt(x, u, d)' <=> FrameAt(x, u, d)
  BY <1>2 DEF FrameAt, Depth
<1> QED BY <1>2, <1>4, <1>5, AwaitsSame

LEMMA CreateAwaits ==
    ASSUME ControlOK, AwaitsOK, NEW b \in BOOLEAN, Create(b)
    PROVE  AwaitsOK'
<1>1. PICK n, l, f : CreateMoves(n, l, f)
  BY CreateShape
<1>2. /\ n = Len(tasks) + 1 /\ n \in Nat /\ Len(tasks') = n /\ Len(futures) \in Nat
      /\ \A u \in 1 .. n - 1 : tasks'[u] = tasks[u]
      /\ tasks'[n] = NewTask(l, program[l][1], program[l][2], f)
      /\ UNCHANGED stack
      /\ \/ f = NoFuture /\ futures' = futures /\ handles' = handles
         \/ /\ f = Len(futures) + 1 /\ f # NoFuture /\ handles' = handles \cup {f}
            /\ Len(futures') = f /\ futures'[f] = FUTURE_ALLOC
            /\ \A x \in 1 .. Len(futures) : futures'[x] = futures[x]
  BY <1>1 DEF CreateMoves
<1>3. Len(tasks) \in Nat /\ n - 1 = Len(tasks)
  BY <1>2 DEF ControlOK, TypeOK
<1>4. tasks'[n].futures = <<>> /\ tasks'[n].done = FALSE
  BY <1>2 DEF NewTask
<1>5. \A u \in 1 .. n : u \in 1 .. Len(tasks) \/ u = n
  BY <1>2, <1>3
<1>6. \A u \in 1 .. Len(tasks) : \A x : InList(x, u)' <=> InList(x, u)
  BY <1>2, <1>3 DEF InList
<1>7. \A x : ~InList(x, n)'
  BY <1>4 DEF InList
<1>8. \A u \in 1 .. Len(tasks') : ListOK(u)'
  <2>1. \A u \in 1 .. Len(tasks) : ListOK(u)'
    BY <1>2, <1>3 DEF AwaitsOK, ListOK
  <2>2. ListOK(n)'
    BY <1>4 DEF ListOK
  <2> QED BY <1>2, <1>5, <2>1, <2>2
<1>9. \A x, d : \A u \in Workers : FrameAt(x, u, d)' <=> FrameAt(x, u, d)
  BY <1>2 DEF FrameAt, Depth
<1>10. Len(futures') \in Nat /\ Len(futures) <= Len(futures') /\ Len(tasks') \in Nat
       /\ Len(tasks) <= Len(tasks')
  BY <1>2, <1>3
<1>11. \A x \in 1 .. Len(futures') : x # f =>
            /\ x \in 1 .. Len(futures) /\ (futures'[x].freed <=> futures[x].freed)
            /\ (x \in handles' <=> x \in handles)
  BY <1>2
<1>12. ASSUME f \in 1 .. Len(futures')
       PROVE  AwaitedOnce(f)'
  <2>1. f = Len(futures) + 1 /\ f \in handles' /\ futures'[f] = FUTURE_ALLOC
    BY <1>2, <1>12 DEF NoFuture
  <2>2. ~futures'[f].freed
    BY <2>1 DEF FUTURE_ALLOC
  <2>3. f \notin 1 .. Len(futures) /\ f # NoFuture
    BY <1>2, <2>1 DEF NoFuture
  <2>4. \A u \in 1 .. Len(tasks) : ~InList(f, u)
    BY <2>3 DEF InList, ControlOK, RefsOK
  <2>5. \A u \in 1 .. Len(tasks') : ~InList(f, u)'
    BY <1>2, <1>5, <1>6, <1>7, <2>4
  <2>6. \A w \in Workers : \A d : ~FrameAt(f, w, d)
    BY <2>3 DEF FrameAt, ControlOK, StackOK, FrameOK
  <2>7. \A w \in Workers : ~InFrame(f, w)'
    BY <1>9, <2>6 DEF InFrame
  <2>8. \A w \in Workers : \A d : ~FrameAt(f, w, d)'
    BY <1>9, <2>6
  <2> QED BY <2>1, <2>2, <2>5, <2>7, <2>8 DEF AwaitedOnce
<1>13. \A x \in 1 .. Len(futures') : x # f =>
                /\ x \in 1 .. Len(futures) /\ (futures'[x].freed <=> futures[x].freed)
                /\ (x \in handles' <=> x \in handles)
                /\ \A u \in 1 .. Len(tasks) : InList(x, u)' <=> InList(x, u)
                /\ \A u \in 1 .. Len(tasks') : u \notin 1 .. Len(tasks) => ~InList(x, u)'
                /\ \A w \in Workers : \A d : FrameAt(x, w, d)' <=> FrameAt(x, w, d)
  BY <1>2, <1>5, <1>6, <1>7, <1>9, <1>11
<1> QED BY <1>8, <1>10, <1>12, <1>13, AwaitStep

\* AWAIT, and the barrier
LEMMA RootAwaits ==
    ASSUME ControlOK, AwaitsOK, EnterBarrier \/ LeaveBarrier \/ \E f \in handles : Await(f)
    PROVE  AwaitsOK'
<1> USE MasterWorks
<1>1. PICK fr, f : RootMoves(fr, f)
  BY RootShape
<1>2. /\ Top(Master).future = NoFuture /\ Retopped(Master, fr) /\ fr.future = f
      /\ \/ f = NoFuture /\ handles' = handles
         \/ f \in handles /\ f \in 1 .. Len(futures) /\ handles' = handles \ {f}
      /\ UNCHANGED <<tasks, futures>>
  BY <1>1 DEF RootMoves
<1>3. \A x : x # NoFuture /\ x # f =>
            \A v \in Workers : \A d : FrameAt(x, v, d)' <=> FrameAt(x, v, d)
  BY <1>2, FramesBut
<1>4. \A u \in 1 .. Len(tasks) : \A x : InList(x, u)' <=> InList(x, u)
  BY <1>2 DEF InList
<1>5. \A u \in 1 .. Len(tasks) : ListOK(u)'
  BY <1>2 DEF AwaitsOK, ListOK
<1>6. Len(tasks) \in Nat /\ Len(futures) \in Nat /\ \A x \in 1 .. Len(futures) : x # NoFuture
  BY DEF ControlOK, TypeOK, NoFuture
<1>7. ASSUME f \in 1 .. Len(futures)
      PROVE  AwaitedOnce(f)'
  <2>1. f \in handles /\ f \notin handles' /\ f # NoFuture
    BY <1>2, <1>6, <1>7
  <2>2. AwaitedOnce(f)
    BY <1>7 DEF AwaitsOK
  <2>3. \A w \in Workers : \A d : ~FrameAt(f, w, d)
    BY <2>1, <2>2 DEF AwaitedOnce, InFrame
  <2>4. \A w \in Workers : \A d : FrameAt(f, w, d)' <=> w = Master /\ d = Depth(Master)
    BY <1>2, <2>3, RetopFrames
  <2>5. InFrame(f, Master)'
    BY <2>4 DEF InFrame
  <2>6. \A u \in 1 .. Len(tasks) : ~InList(f, u)'
    BY <1>4, <2>1, <2>2 DEF AwaitedOnce
  <2>7. ~futures'[f].freed
    BY <1>2, <2>1, <2>2 DEF AwaitedOnce
  <2> QED BY <1>2, <2>1, <2>4, <2>5, <2>6, <2>7 DEF AwaitedOnce
<1>8. \A x \in 1 .. Len(futures) : x # f => (x \in handles' <=> x \in handles)
  BY <1>2
<1>9. Len(tasks') = Len(tasks) /\ Len(futures') = Len(futures) /\ futures' = futures
  BY <1>2
<1> QED BY <1>3, <1>4, <1>5, <1>6, <1>7, <1>8, <1>9, AwaitStep

\* Taking the first future off a list
LEMMA TailList ==
    ASSUME NEW q \in Seq(Nat), q # <<>>, \A j, k \in 1 .. Len(q) : q[j] = q[k] => j = k
    PROVE  /\ \A j, k \in 1 .. Len(Tail(q)) : Tail(q)[j] = Tail(q)[k] => j = k
           /\ \A k \in 1 .. Len(Tail(q)) : Tail(q)[k] # Head(q)
           /\ \A x : x # Head(q) => ((\E k \in 1 .. Len(Tail(q)) : Tail(q)[k] = x)
                                        <=> (\E k \in 1 .. Len(q) : q[k] = x))
           /\ \E k \in 1 .. Len(q) : q[k] = Head(q)
<1>1. /\ Len(q) \in Nat /\ Len(q) >= 1 /\ Len(Tail(q)) = Len(q) - 1 /\ Head(q) = q[1]
      /\ \A k \in 1 .. Len(q) - 1 : Tail(q)[k] = q[k + 1]
  OBVIOUS
<1>2. \A k \in 1 .. Len(q) - 1 : k + 1 \in 1 .. Len(q) /\ k + 1 # 1
  BY <1>1
<1>3. \A k \in 1 .. Len(q) : k = 1 \/ (k - 1 \in 1 .. Len(q) - 1 /\ (k - 1) + 1 = k)
  BY <1>1
<1>4. 1 \in 1 .. Len(q)
  BY <1>1
<1>5. ASSUME NEW j \in 1 .. Len(Tail(q)), NEW k \in 1 .. Len(Tail(q)), Tail(q)[j] = Tail(q)[k]
      PROVE  j = k
  <2>1. j + 1 = k + 1
    BY <1>1, <1>2, <1>5
  <2> QED BY <2>1
<1>6. \A k \in 1 .. Len(Tail(q)) : Tail(q)[k] # Head(q)
  BY <1>1, <1>2, <1>4
<1>7. ASSUME NEW x, x # Head(q), NEW k \in 1 .. Len(q), q[k] = x
      PROVE  \E j \in 1 .. Len(Tail(q)) : Tail(q)[j] = x
  <2>1. k # 1
    BY <1>1, <1>7
  <2> QED BY <1>1, <1>3, <1>7, <2>1
<1>8. ASSUME NEW x, NEW k \in 1 .. Len(Tail(q)), Tail(q)[k] = x
      PROVE  \E j \in 1 .. Len(q) : q[j] = x
  BY <1>1, <1>2, <1>8
<1> QED BY <1>1, <1>4, <1>5, <1>6, <1>7, <1>8

LEMMA ReduceAwaits ==
    ASSUME ControlOK, AwaitsOK, NEW w \in Workers, REDUCE(w)
    PROVE  AwaitsOK'
<1>1. PICK t, r, fr : ReduceMoves(w, t, r, fr)
  BY ReduceShape
<1>2. ReduceEffect(t, r)
  BY <1>1, ReduceRange
<1>3. /\ Depth(w) > 0 /\ Retopped(w, fr) /\ Updated(t, r) /\ t \in Parts
      /\ Top(w).pc = "reduce" /\ fr.future = Head(tasks[t].futures) /\ tasks[t].futures # <<>>
      /\ r.futures = Tail(tasks[t].futures) /\ r.done = FALSE
  BY <1>1, <1>2 DEF ReduceMoves, Moved, ReduceEffect
<1>4. UNCHANGED <<futures, handles>>
  BY DEF REDUCE
<1>5. Top(w).future = NoFuture
  BY <1>3, TopFuture
<1>q. PICK q, f : q = tasks[t].futures /\ f = Head(q)
  OBVIOUS
<1>6. q \in Seq(Nat) /\ q # <<>> /\ (\A j, k \in 1 .. Len(q) : q[j] = q[k] => j = k)
      /\ \A k \in 1 .. Len(q) : q[k] \in 1 .. Len(futures)
  <2>1. tasks[t] \in TaskRecord /\ t \in 1 .. Len(tasks)
    BY <1>3 DEF ControlOK, TypeOK, Parts
  <2>2. ListOK(t)
    BY <2>1 DEF AwaitsOK
  <2>3. \A k \in 1 .. Len(q) : q[k] \in 1 .. Len(futures)
    BY <1>q, <2>1 DEF ControlOK, RefsOK
  <2> QED BY <1>3, <1>q, <2>1, <2>2, <2>3 DEF ListOK, TaskRecord
<1>7. /\ tasks'[t].futures = Tail(q) /\ tasks'[t].done = FALSE /\ Len(tasks') = Len(tasks)
      /\ \A u \in 1 .. Len(tasks) : u # t => tasks'[u] = tasks[u]
      /\ t \in 1 .. Len(tasks)
  BY <1>3, <1>q DEF Updated
<1>8. /\ \A j, k \in 1 .. Len(Tail(q)) : Tail(q)[j] = Tail(q)[k] => j = k
      /\ \A k \in 1 .. Len(Tail(q)) : Tail(q)[k] # f
      /\ \A x : x # f => ((\E k \in 1 .. Len(Tail(q)) : Tail(q)[k] = x)
                                        <=> (\E k \in 1 .. Len(q) : q[k] = x))
      /\ \E k \in 1 .. Len(q) : q[k] = f
  BY <1>6, <1>q, TailList, ZenonT(30)
<1>9. fr.future = f /\ f \in 1 .. Len(futures)
  BY <1>3, <1>6, <1>8, <1>q
<1>10. /\ \A x : x # f => (InList(x, t)' <=> InList(x, t))
       /\ ~InList(f, t)' /\ InList(f, t)
       /\ \A x : \A u \in 1 .. Len(tasks) : u # t => (InList(x, u)' <=> InList(x, u))
  <2>1. \A x : InList(x, t)' <=> \E k \in 1 .. Len(Tail(q)) : Tail(q)[k] = x
    BY <1>7 DEF InList
  <2>2. \A x : InList(x, t) <=> \E k \in 1 .. Len(q) : q[k] = x
    BY <1>q DEF InList
  <2>3. \A x : \A u \in 1 .. Len(tasks) : u # t => (InList(x, u)' <=> InList(x, u))
    BY <1>7 DEF InList
  <2> QED BY <1>8, <2>1, <2>2, <2>3
<1>11. ASSUME NEW u \in 1 .. Len(tasks)
       PROVE  ListOK(u)'
  <2>1. CASE u = t
    <3>1. PICK p : p = Tail(q)
      OBVIOUS
    <3>2. \A j, k \in 1 .. Len(p) : p[j] = p[k] => j = k
      BY <1>8, <3>1
    <3>3. tasks'[u].futures = p /\ tasks'[u].done = FALSE
      BY <1>7, <2>1, <3>1
    <3> QED BY <3>2, <3>3 DEF ListOK
  <2>2. CASE u # t
    BY <1>7, <2>2 DEF ListOK, AwaitsOK
  <2> QED BY <2>1, <2>2
<1>12. Len(tasks) \in Nat /\ Len(futures) \in Nat /\ \A x \in 1 .. Len(futures) : x # NoFuture
  BY DEF ControlOK, TypeOK, NoFuture
<1>13. \A x : x # NoFuture /\ x # f =>
            \A v \in Workers : \A d : FrameAt(x, v, d)' <=> FrameAt(x, v, d)
  BY <1>3, <1>5, <1>9, FramesBut
<1>14. AwaitedOnce(f)'
  <2>1. AwaitedOnce(f)
    BY <1>9 DEF AwaitsOK
  <2>2. f \notin handles /\ ~futures[f].freed /\ (\A u \in 1 .. Len(tasks) : InList(f, u) => u = t)
        /\ \A v \in Workers : ~InFrame(f, v)
    BY <1>7, <1>10, <2>1 DEF AwaitedOnce
  <2>3. \A v \in Workers : \A d : FrameAt(f, v, d)' <=> v = w /\ d = Depth(w)
    BY <1>3, <1>9, <2>2, RetopFrames DEF InFrame
  <2>4. InFrame(f, w)'
    BY <2>3 DEF InFrame
  <2>5. \A u \in 1 .. Len(tasks) : ~InList(f, u)'
    BY <1>10, <2>2
  <2> QED BY <1>4, <1>7, <2>2, <2>3, <2>4, <2>5 DEF AwaitedOnce
<1>15. \A x \in 1 .. Len(futures') : x # f =>
                /\ x \in 1 .. Len(futures) /\ (futures'[x].freed <=> futures[x].freed)
                /\ (x \in handles' <=> x \in handles)
                /\ \A u \in 1 .. Len(tasks) : InList(x, u)' <=> InList(x, u)
                /\ \A u \in 1 .. Len(tasks') : u \notin 1 .. Len(tasks) => ~InList(x, u)'
                /\ \A v \in Workers : \A d : FrameAt(x, v, d)' <=> FrameAt(x, v, d)
  BY <1>4, <1>7, <1>10, <1>12, <1>13
<1>16. Len(tasks') \in Nat /\ Len(futures') \in Nat /\ Len(tasks) <= Len(tasks')
       /\ Len(futures) <= Len(futures')
  BY <1>4, <1>7, <1>12
<1> QED BY <1>7, <1>11, <1>14, <1>15, <1>16, AwaitStep

LEMMA AwaitAwaits ==
    ASSUME ControlOK, FuturesOK, AwaitsOK, NEW w \in Workers, AwaitReturn(w)
    PROVE  AwaitsOK'
<1>1. PICK t, r, fr, f : AwaitMoves(w, t, r, fr, f)
  BY AwaitShape
<1>2. AwaitEffect(t, r)
  BY <1>1, AwaitRange
<1>3. /\ Depth(w) > 0 /\ Retopped(w, fr) /\ Updated(t, r)
      /\ Top(w).pc = "await" /\ f = Top(w).future
      /\ FutureUpdated(f, [futures[f] EXCEPT !.freed = TRUE, !.chan = <<>>])
      /\ fr.future = NoFuture
      /\ r.futures = tasks[t].futures /\ r.done = FALSE
  BY <1>1, <1>2 DEF AwaitMoves, Moved, AwaitEffect, Frame
<1>4. handles' = handles
  BY DEF AwaitReturn
<1>5. /\ f \in 1 .. Len(futures) /\ Len(futures') = Len(futures)
      /\ \A x \in 1 .. Len(futures) : x # f => futures'[x] = futures[x]
      /\ futures'[f] = [futures[f] EXCEPT !.freed = TRUE, !.chan = <<>>]
      /\ futures[f] \in FutureRecord
  BY <1>3 DEF FutureUpdated, ControlOK, TypeOK
<1>6. futures'[f].freed
  BY <1>5 DEF FutureRecord
<1>7. Len(tasks) \in Nat /\ Len(futures) \in Nat /\ \A x \in 1 .. Len(futures) : x # NoFuture
  BY DEF ControlOK, TypeOK, NoFuture
<1>8. /\ Len(tasks') = Len(tasks)
      /\ \A u \in 1 .. Len(tasks) : /\ tasks'[u].futures = tasks[u].futures
                                    /\ tasks'[u].done => tasks[u].done
  BY <1>3 DEF Updated
<1>9. \A u \in 1 .. Len(tasks) : \A x : InList(x, u)' <=> InList(x, u)
  BY <1>8 DEF InList
<1>10. \A u \in 1 .. Len(tasks) : ListOK(u)'
  BY <1>8 DEF ListOK, AwaitsOK
<1>11. \A x : x # NoFuture /\ x # f =>
            \A v \in Workers : \A d : FrameAt(x, v, d)' <=> FrameAt(x, v, d)
  BY <1>3, FramesBut
<1>12. AwaitedOnce(f)'
  <2>1. AwaitedOnce(f)
    BY <1>5 DEF AwaitsOK
  <2>2. FrameAt(f, w, Depth(w)) /\ f # NoFuture
    BY <1>3, <1>5, <1>7, RetopFrames
  <2>3. InFrame(f, w)
    BY <2>2 DEF InFrame
  <2>4. f \notin handles /\ \A u \in 1 .. Len(tasks) : ~InList(f, u)
    BY <2>1, <2>3 DEF AwaitedOnce
  <2>5. \A v \in Workers : \A d : FrameAt(f, v, d) => v = w /\ d = Depth(w)
    BY <2>1, <2>2 DEF AwaitedOnce
  <2>6. \A v \in Workers : \A d : ~FrameAt(f, v, d)'
    BY <1>3, <2>2, <2>5, RetopFrames
  <2>7. \A v \in Workers : ~InFrame(f, v)'
    BY <2>6 DEF InFrame
  <2>8. \A u \in 1 .. Len(tasks') : ~InList(f, u)'
    BY <1>8, <1>9, <2>4
  <2> QED BY <1>4, <1>6, <2>4, <2>6, <2>7, <2>8 DEF AwaitedOnce
<1>13. \A x \in 1 .. Len(futures') : x # f =>
                /\ x \in 1 .. Len(futures) /\ (futures'[x].freed <=> futures[x].freed)
                /\ (x \in handles' <=> x \in handles)
                /\ \A u \in 1 .. Len(tasks) : InList(x, u)' <=> InList(x, u)
                /\ \A u \in 1 .. Len(tasks') : u \notin 1 .. Len(tasks) => ~InList(x, u)'
                /\ \A v \in Workers : \A d : FrameAt(x, v, d)' <=> FrameAt(x, v, d)
  BY <1>4, <1>5, <1>7, <1>8, <1>9, <1>11
<1>14. Len(tasks') \in Nat /\ Len(futures') \in Nat /\ Len(tasks) <= Len(tasks')
       /\ Len(futures) <= Len(futures')
  BY <1>5, <1>7, <1>8
<1> QED BY <1>8, <1>10, <1>12, <1>13, <1>14, AwaitStep

\* Adding a future to a list that does not have it
LEMMA ConsList ==
    ASSUME NEW q \in Seq(Nat), NEW f \in Nat, \A k \in 1 .. Len(q) : q[k] # f,
           \A j, k \in 1 .. Len(q) : q[j] = q[k] => j = k, NEW p, p = <<f>> \o q
    PROVE  /\ \A j, k \in 1 .. Len(p) : p[j] = p[k] => j = k
           /\ \A x : x # f => ((\E k \in 1 .. Len(p) : p[k] = x)
                                    <=> (\E k \in 1 .. Len(q) : q[k] = x))
           /\ \E k \in 1 .. Len(p) : p[k] = f
<1>1. /\ Len(q) \in Nat /\ Len(p) = Len(q) + 1 /\ p[1] = f
      /\ \A k \in 1 .. Len(q) : p[k + 1] = q[k]
      /\ \A k \in 2 .. Len(q) + 1 : p[k] = q[k - 1]
  OBVIOUS
<1>2. \A k \in 1 .. Len(q) : k + 1 \in 1 .. Len(p)
  BY <1>1
<1>3. \A k \in 1 .. Len(p) : k = 1 \/ (k - 1 \in 1 .. Len(q) /\ p[k] = q[k - 1])
  BY <1>1
<1>4. 1 \in 1 .. Len(p)
  BY <1>1
<1>5. ASSUME NEW j \in 1 .. Len(p), NEW k \in 1 .. Len(p), p[j] = p[k]
      PROVE  j = k
  <2>1. CASE j = 1 \/ k = 1
    <3>1. ASSUME NEW i \in 1 .. Len(p), i # 1
          PROVE  p[i] # f
      <4>1. PICK m \in 1 .. Len(q) : p[i] = q[m]
        BY <1>3, <3>1
      <4> QED BY <4>1
    <3> QED BY <1>1, <1>5, <2>1, <3>1
  <2>2. CASE j # 1 /\ k # 1
    <3>1. q[j - 1] = q[k - 1] /\ j - 1 \in 1 .. Len(q) /\ k - 1 \in 1 .. Len(q)
      BY <1>1, <1>3, <1>5, <2>2
    <3>2. j - 1 = k - 1
      BY <3>1
    <3> QED BY <3>2
  <2> QED BY <2>1, <2>2
<1>6. ASSUME NEW x, x # f, NEW k \in 1 .. Len(p), p[k] = x
      PROVE  \E j \in 1 .. Len(q) : q[j] = x
  BY <1>1, <1>3, <1>6
<1>7. ASSUME NEW x, NEW k \in 1 .. Len(q), q[k] = x
      PROVE  \E j \in 1 .. Len(p) : p[j] = x
  BY <1>1, <1>2, <1>7
<1>8. \A j, k \in 1 .. Len(p) : p[j] = p[k] => j = k
  BY <1>5
<1>9. \A x : x # f => ((\E k \in 1 .. Len(p) : p[k] = x) <=> (\E k \in 1 .. Len(q) : q[k] = x))
  BY <1>6, <1>7
<1>10. \E k \in 1 .. Len(p) : p[k] = f
  BY <1>1, <1>4
<1> QED BY <1>8, <1>9, <1>10

\* The lists of futures after a split
LEMMA SplitLists ==
    ASSUME ControlOK, AwaitsOK, NEW v \in Workers, NEW w \in Workers, NEW t, NEW c, NEW r, NEW s,
           NEW f, NEW fr, SplitMoves(v, w, t, c, r, s, f, fr), NEW n, n = Len(tasks) + 1
    PROVE  /\ \A x : x # f => \A u \in 1 .. Len(tasks) : InList(x, u)' <=> InList(x, u)
           /\ \A x : ~InList(x, n)'
           /\ f # NoFuture => InList(f, c)'
           /\ \A u \in 1 .. Len(tasks) : u # c => tasks'[u].futures = tasks[u].futures
           /\ \A j, k \in 1 .. Len(tasks'[c].futures) :
                    tasks'[c].futures[j] = tasks'[c].futures[k] => j = k
<1>1. SplitEffect(t, c, r, s, f, n)
  BY SplitTasksEffect
<1>2. Len(futures) \in Nat /\ (f = NoFuture \/ f = Len(futures) + 1)
  BY SplitFutures
<1>4. /\ n - 1 = Len(tasks) /\ c \in 1 .. Len(tasks)
  BY <1>1 DEF SplitEffect, ControlOK, TypeOK
<1>6. /\ \A u \in 1 .. Len(tasks) : tasks'[u].futures =
                IF u = c THEN AddFuture(f, tasks[u].futures) ELSE tasks[u].futures
      /\ tasks'[n].futures = <<>>
  BY <1>1, <1>4 DEF SplitEffect
<1>10. PICK q : q = tasks[c].futures
  OBVIOUS
<1>11. q \in Seq(Nat) /\ (\A j, k \in 1 .. Len(q) : q[j] = q[k] => j = k)
      /\ \A k \in 1 .. Len(q) : q[k] \in 1 .. Len(futures)
  <2>1. tasks[c] \in TaskRecord
    BY <1>4 DEF ControlOK, TypeOK
  <2>2. ListOK(c)
    BY <1>4 DEF AwaitsOK
  <2>3. \A k \in 1 .. Len(q) : q[k] \in 1 .. Len(futures)
    BY <1>4, <1>10 DEF ControlOK, RefsOK
  <2> QED BY <1>10, <2>1, <2>2, <2>3 DEF ListOK, TaskRecord
<1>12. PICK p : p = AddFuture(f, q)
  OBVIOUS
<1>13. /\ \A j, k \in 1 .. Len(p) : p[j] = p[k] => j = k
       /\ \A x : x # f => ((\E k \in 1 .. Len(p) : p[k] = x) <=> (\E k \in 1 .. Len(q) : q[k] = x))
       /\ f # NoFuture => \E k \in 1 .. Len(p) : p[k] = f
  <2>1. CASE f = NoFuture
    BY <1>11, <1>12, <2>1 DEF AddFuture
  <2>2. CASE f # NoFuture
    <3>1. f \in Nat /\ p = <<f>> \o q
      BY <1>2, <1>12, <2>2 DEF AddFuture
    <3>2. \A k \in 1 .. Len(q) : q[k] # f
      BY <1>2, <1>11, <2>2
    <3> QED BY <1>11, <3>1, <3>2, ConsList
  <2> QED BY <2>1, <2>2
<1>14. tasks'[c].futures = p /\ \A u \in 1 .. Len(tasks) : u # c => tasks'[u].futures = tasks[u].futures
  BY <1>4, <1>6, <1>10, <1>12
<1>15. \A x : x # f => \A u \in 1 .. Len(tasks) : InList(x, u)' <=> InList(x, u)
  <2> SUFFICES ASSUME NEW x, x # f, NEW u \in 1 .. Len(tasks)
               PROVE  InList(x, u)' <=> InList(x, u)
    OBVIOUS
  <2>1. CASE u = c
    <3>1. InList(x, c) <=> \E k \in 1 .. Len(q) : q[k] = x
      BY <1>10 DEF InList
    <3>2. InList(x, c)' <=> \E k \in 1 .. Len(p) : p[k] = x
      BY <1>14 DEF InList
    <3> QED BY <1>13, <2>1, <3>1, <3>2
  <2>2. CASE u # c
    BY <1>14, <2>2 DEF InList
  <2> QED BY <2>1, <2>2
<1>16. \A x : ~InList(x, n)'
  BY <1>6 DEF InList
<1>17. f # NoFuture => InList(f, c)'
  BY <1>13, <1>14 DEF InList
<1>18. \A j, k \in 1 .. Len(tasks'[c].futures) :
            tasks'[c].futures[j] = tasks'[c].futures[k] => j = k
  BY <1>13, <1>14
<1> QED BY <1>14, <1>15, <1>16, <1>17, <1>18

LEMMA SplitAwaits ==
    ASSUME ControlOK, AwaitsOK, NEW v \in Workers, NEW w \in Workers, NEW t, NEW c, NEW r, NEW s,
           NEW f, NEW fr, SplitMoves(v, w, t, c, r, s, f, fr), Top(v).pc # "await"
    PROVE  AwaitsOK'
<1>n. PICK n : n = Len(tasks) + 1
  OBVIOUS
<1>1. SplitEffect(t, c, r, s, f, n)
  BY <1>n, SplitTasksEffect
<1>2. /\ Len(futures) \in Nat
      /\ Len(futures') = IF f = NoFuture THEN Len(futures) ELSE Len(futures) + 1
      /\ f = NoFuture \/ (f = Len(futures) + 1 /\ futures'[f] = PartFuture)
      /\ \A x \in 1 .. Len(futures) : futures'[x] = futures[x]
  BY SplitFutures
<1>3. /\ Depth(v) > 0 /\ t = Top(v).task /\ Retopped(v, fr) /\ fr.future = NoFuture
      /\ handles' = handles /\ c \in {t, Root}
  BY DEF SplitMoves
<1>4. /\ n - 1 = Len(tasks) /\ n \in Nat /\ Len(tasks') = n /\ Len(tasks) \in Nat
      /\ c \in 1 .. Len(tasks) /\ t \in 1 .. Len(tasks)
  BY <1>1, <1>3, RootFrame DEF SplitEffect, ControlOK, TypeOK
<1>5. \A u \in 1 .. n : u \in 1 .. Len(tasks) \/ u = n
  BY <1>4
<1>6. /\ \A u \in 1 .. Len(tasks) : tasks'[u].futures =
                IF u = c THEN AddFuture(f, tasks[u].futures) ELSE tasks[u].futures
      /\ \A u \in 1 .. Len(tasks) : tasks'[u].done => tasks[u].done
      /\ tasks'[n].futures = <<>> /\ tasks'[n].done = FALSE
  BY <1>1, <1>4 DEF SplitEffect
<1>7. ~tasks[c].done
  <2>1. 1 \in 1 .. Depth(Master) /\ FrameOK(Master, 1)
    <3>1. Depth(Master) \in Nat /\ Depth(Master) >= 1
      BY MasterWorks DEF ControlOK, TypeOK, StackOK, Depth
    <3>2. 1 \in 1 .. Depth(Master)
      BY <3>1
    <3> QED BY <3>2, MasterWorks DEF ControlOK, StackOK
  <2>2. ~tasks[Root].done
    BY <2>1 DEF FrameOK
  <2> QED BY <1>3, <2>2, RootFrame
<1>8. Top(v).future = NoFuture
  BY <1>3, TopFuture
<1>9. \A x : x # NoFuture => \A y \in Workers : \A d : FrameAt(x, y, d)' <=> FrameAt(x, y, d)
  BY <1>3, <1>8, FramesBut
<1>10. /\ \A x : x # f => \A u \in 1 .. Len(tasks) : InList(x, u)' <=> InList(x, u)
       /\ \A x : ~InList(x, n)'
       /\ f # NoFuture => InList(f, c)'
       /\ \A u \in 1 .. Len(tasks) : u # c => tasks'[u].futures = tasks[u].futures
       /\ \A j, k \in 1 .. Len(tasks'[c].futures) :
                tasks'[c].futures[j] = tasks'[c].futures[k] => j = k
  BY <1>n, SplitLists
<1>17. ASSUME NEW u \in 1 .. n
       PROVE  ListOK(u)'
  <2>1. CASE u = n
    BY <1>6, <2>1 DEF ListOK
  <2>2. CASE u = c
    <3>1. ~tasks'[c].done
      BY <1>4, <1>6, <1>7
    <3> QED BY <1>10, <2>2, <3>1 DEF ListOK
  <2>3. CASE u # n /\ u # c
    <3>1. u \in 1 .. Len(tasks) /\ ListOK(u)
      BY <1>5, <2>3 DEF AwaitsOK
    <3> QED BY <1>6, <1>10, <2>3, <3>1 DEF ListOK
  <2> QED BY <2>1, <2>2, <2>3
<1>18. ASSUME f \in 1 .. Len(futures')
       PROVE  AwaitedOnce(f)'
  <2>1. f = Len(futures) + 1 /\ futures'[f] = PartFuture /\ f # NoFuture
    BY <1>2, <1>18 DEF NoFuture
  <2>2. ~futures'[f].freed
    BY <2>1 DEF PartFuture, FUTURE_ALLOC
  <2>3. f \notin 1 .. Len(futures)
    BY <1>2, <2>1
  <2>4. f \notin handles' /\ \A u \in 1 .. Len(tasks) : ~InList(f, u)
    BY <1>3, <2>3 DEF InList, ControlOK, RefsOK
  <2>5. \A u \in 1 .. Len(tasks) : u # c => ~InList(f, u)'
    BY <1>10, <2>4 DEF InList
  <2>6. \A u \in 1 .. Len(tasks') : InList(f, u)' <=> u = c
    <3>1. InList(f, c)'
      BY <1>10, <2>1
    <3>2. c \in 1 .. n
      BY <1>4
    <3> QED BY <1>4, <1>5, <1>10, <2>5, <3>1, <3>2
  <2>7. \A y \in Workers : \A d : ~FrameAt(f, y, d)
    BY <2>1, <2>3 DEF FrameAt, ControlOK, StackOK, FrameOK
  <2>8. \A y \in Workers : \A d : ~FrameAt(f, y, d)'
    BY <1>9, <2>1, <2>7
  <2>9. \A y \in Workers : ~InFrame(f, y)'
    BY <2>8 DEF InFrame
  <2>10. c \in 1 .. Len(tasks')
    BY <1>4
  <2> QED BY <2>2, <2>4, <2>6, <2>8, <2>9, <2>10 DEF AwaitedOnce
<1>19. \A x \in 1 .. Len(futures') : x # f => x \in 1 .. Len(futures) /\ x # NoFuture
  BY <1>2 DEF NoFuture
<1>20. \A x \in 1 .. Len(futures') : x # f =>
                /\ x \in 1 .. Len(futures) /\ (futures'[x].freed <=> futures[x].freed)
                /\ (x \in handles' <=> x \in handles)
                /\ \A u \in 1 .. Len(tasks) : InList(x, u)' <=> InList(x, u)
                /\ \A u \in 1 .. Len(tasks') : u \notin 1 .. Len(tasks) => ~InList(x, u)'
                /\ \A y \in Workers : \A d : FrameAt(x, y, d)' <=> FrameAt(x, y, d)
  BY <1>2, <1>3, <1>4, <1>5, <1>9, <1>10, <1>19
<1>21. Len(tasks') \in Nat /\ Len(futures') \in Nat /\ Len(tasks) <= Len(tasks')
       /\ Len(futures) <= Len(futures')
  BY <1>2, <1>4
<1>22. \A u \in 1 .. Len(tasks') : ListOK(u)'
  BY <1>4, <1>17
<1> QED BY <1>18, <1>20, <1>21, <1>22, AwaitStep

LEMMA AwaitsNext ==
    ASSUME ControlOK, FuturesOK, AwaitsOK, [Next]_vars
    PROVE  AwaitsOK'
<1>1. ASSUME NEW b \in BOOLEAN, Create(b)
      PROVE  AwaitsOK'
  BY <1>1, CreateAwaits
<1>2. CASE EnterBarrier \/ LeaveBarrier \/ \E f \in handles : Await(f)
  BY <1>2, RootAwaits
<1>3. ASSUME NEW w \in Workers, Pop(w) \/ Receive(w)
      PROVE  AwaitsOK'
  <2>1. UNCHANGED <<tasks, futures, handles>>
    BY <1>3 DEF Pop, Receive
  <2>2. PICK t, l : Called(w, Frame(t, l))
    BY <1>3, PopShape, ReceiveShape DEF PopMoves, ReceiveMoves
  <2> QED BY <2>1, <2>2, CalledAwaits
<1>4. ASSUME NEW w \in Workers, Start(w) \/ Leave(w)
      PROVE  AwaitsOK'
  <2>1. UNCHANGED <<futures, handles>>
    BY <1>4 DEF Start, Leave
  <2>2. PICK t, r, fr : /\ Moved(w, t, r, fr) /\ r.futures = tasks[t].futures /\ r.done = FALSE
                        /\ fr.future = NoFuture /\ Top(w).pc # "await"
    <3>1. CASE Start(w)
      <4>1. PICK t, r, fr : StartMoves(w, t, r, fr)
        BY <3>1, StartShape
      <4>2. StartEffect(t, r)
        BY <4>1, StartRange
      <4> QED BY <4>1, <4>2 DEF StartMoves, StartEffect
    <3>2. CASE Leave(w)
      <4>1. PICK t, r, fr : LeaveMoves(w, t, r, fr)
        BY <3>2, LeaveShape
      <4>2. LeaveEffect(t, r)
        BY <4>1, LeaveRange
      <4> QED BY <4>1, <4>2 DEF LeaveMoves, LeaveEffect
    <3> QED BY <1>4, <3>1, <3>2
  <2> QED BY <2>1, <2>2, MovedAwaits
<1>5. ASSUME NEW w \in Workers, REDUCE(w) \/ AwaitReturn(w) \/ Return(w)
      PROVE  AwaitsOK'
  BY <1>5, ReduceAwaits, AwaitAwaits, ReturnAwaits
<1>6. ASSUME NEW v \in Workers, NEW w \in Workers, handle_steal_request(v, w)
      PROVE  AwaitsOK'
  BY <1>6, StealAwaits
<1>7. ASSUME NEW v \in Workers, NEW w \in Workers, SplitInPoll(v, w) \/ SplitInPop(v, w)
      PROVE  AwaitsOK'
  <2>1. PICK t, c, r, s, f, fr : SplitMoves(v, w, t, c, r, s, f, fr) /\ Top(v).pc # "await"
    BY <1>7, PollShape, PopSplitShape DEF PollMoves, PopSplitMoves
  <2> QED BY <2>1, SplitAwaits
<1>8. CASE UNCHANGED vars \/ \E w \in Workers : Ask(w)
  <2>1. UNCHANGED <<tasks, futures, handles, stack>>
    BY <1>8 DEF vars, Ask
  <2>2. \A x, d : \A u \in Workers : FrameAt(x, u, d)' <=> FrameAt(x, u, d)
    BY <2>1 DEF FrameAt, Depth
  <2> QED BY <2>1, <2>2, AwaitsSame
<1> QED BY <1>1, <1>2, <1>3, <1>4, <1>5, <1>6, <1>7, <1>8 DEF Next, Run, Terminated

LEMMA InitAwaits ==
    ASSUME Init
    PROVE  AwaitsOK
<1>1. Len(tasks) = 1 /\ tasks[1] = RootTask /\ Len(futures) = 0
  BY DEF Init
<1>2. RootTask.futures = <<>>
  BY DEF RootTask, NewTask
<1>3. \A u \in 1 .. Len(tasks) : tasks[u].futures = <<>>
  BY <1>1, <1>2
<1> QED BY <1>1, <1>3 DEF AwaitsOK, ListOK

\* The set of awaiters in terms of the invariant
LEMMA AwaiterSet ==
    ASSUME ControlOK, FuturesOK, NEW f \in 1 .. Len(futures)
    PROVE  \A a : a \in Awaiters(f) <=>
                \/ a = <<"handle", 0>> /\ f \in handles
                \/ \E u \in 2 .. Len(tasks) : a = <<"list", u>> /\ InList(f, u)
                \/ \E w \in Workers : a = <<"frame", w>> /\ InFrame(f, w)
<1>0. Len(tasks) \in Nat /\ 1 .. Len(tasks) \ {Root} = 2 .. Len(tasks)
  BY DEF ControlOK, TypeOK, Root
<1>1. DOMAIN tasks = 1 .. Len(tasks)
  BY DEF ControlOK, TypeOK
<1>2. ASSUME NEW u \in 1 .. Len(tasks)
      PROVE  f \in Range(tasks[u].futures) <=> InList(f, u)
  <2>1. tasks[u] \in TaskRecord
    BY DEF ControlOK, TypeOK
  <2>2. DOMAIN tasks[u].futures = 1 .. Len(tasks[u].futures)
    BY <2>1 DEF TaskRecord
  <2> QED BY <2>2 DEF Range, InList
<1>3. ASSUME NEW w \in Workers
      PROVE  (\E d \in 1 .. Depth(w) : stack[w][d].pc = "await" /\ stack[w][d].future = f)
                <=> InFrame(f, w)
  <2>1. f # NoFuture
    BY DEF NoFuture
  <2>2. \A d \in 1 .. Depth(w) : stack[w][d].future = f => stack[w][d].pc = "await"
    BY <2>1 DEF ControlOK, StackOK, FrameOK
  <2> QED BY <2>2 DEF InFrame, FrameAt
<1>4. \A a : a \in {<<"handle", 0>> : h \in handles \cap {f}} <=> a = <<"handle", 0>> /\ f \in handles
  OBVIOUS
<1>5. \A a : a \in {<<"list", t>> : t \in {u \in DOMAIN tasks \ {Root} : f \in Range(tasks[u].futures)}}
                <=> \E u \in 2 .. Len(tasks) : a = <<"list", u>> /\ InList(f, u)
  BY <1>0, <1>1, <1>2
<1>6. \A a : a \in {<<"frame", w>> : w \in {u \in Workers : \E d \in 1 .. Depth(u) :
                            stack[u][d].pc = "await" /\ stack[u][d].future = f}}
                <=> \E w \in Workers : a = <<"frame", w>> /\ InFrame(f, w)
  BY <1>3
<1> QED BY <1>4, <1>5, <1>6 DEF Awaiters

\* The futures on the root task's list are those of parts of loops split in RT_pop.
LEMMA OrphansEarly ==
    ASSUME ControlOK, AwaitsOK, ResultsOK, NEW f \in 1 .. Len(futures), InList(f, Root),
           NEW t \in Parts, tasks[t].future = f
    PROVE  tasks[t].loop \in early
<1>1. f # NoFuture
  BY DEF NoFuture
<1>2. Owed(t)
  BY <1>1 DEF ResultsOK, OwedOK, HasFuture
<1>3. AwaitedOnce(f)
  BY DEF AwaitsOK
<1>4. Len(tasks) \in Nat /\ Root \in 1 .. Len(tasks)
  BY DEF ControlOK, TypeOK, Parts, Root
<1>5. f \notin handles /\ ~futures[f].freed /\ (\A w \in Workers : ~InFrame(f, w))
  BY <1>3, <1>4 DEF AwaitedOnce
<1>6. \A u : ~FrameOf(f, u)
  BY <1>5 DEF FrameOf, InFrame
<1>7. \A u \in Parts : ~InList(f, u)
  <2>1. \A u \in Parts : u \in 1 .. Len(tasks) /\ u # Root
    BY <1>4 DEF Parts, Root
  <2> QED BY <1>3, <1>4, <2>1 DEF AwaitedOnce
<1> QED BY <1>2, <1>5, <1>6, <1>7 DEF Owed, ByRoot, AwaitedBy

LEMMA ProtocolFollows ==
    ControlOK /\ FuturesOK /\ AwaitsOK /\ ResultsOK => FutureProtocol
<1> SUFFICES ASSUME ControlOK, FuturesOK, AwaitsOK, ResultsOK, NEW f \in 1 .. Len(futures)
             PROVE  LET setters == {t \in 2 .. Len(tasks) : tasks[t].future = f}
                    IN  /\ Cardinality(setters) = 1
                        /\ Cardinality(Awaiters(f)) =
                                IF futures[f].freed \/ f \in Orphans THEN 0 ELSE 1
                        /\ \A t \in setters :
                                /\ tasks[t].done <=> futures[f].freed \/ READY(futures[f])
                                /\ f \in Orphans => tasks[t].loop \in early
  BY DEF FutureProtocol
<1> DEFINE setters == {t \in 2 .. Len(tasks) : tasks[t].future = f}
<1>0. Len(tasks) \in Nat /\ Root = 1 /\ Root \in 1 .. Len(tasks) /\ Root \in DOMAIN tasks
  BY DEF ControlOK, TypeOK, Root
<1>o. f \in Orphans <=> InList(f, Root)
  <2>1. tasks[Root] \in TaskRecord
    BY <1>0 DEF ControlOK, TypeOK
  <2>2. DOMAIN tasks[Root].futures = 1 .. Len(tasks[Root].futures)
    BY <2>1 DEF TaskRecord
  <2> QED BY <2>2 DEF Orphans, Range, InList
<1>1. PICK s \in Parts : tasks[s].future = f
  BY DEF FuturesOK, FutureOK
<1>2. f # NoFuture
  BY DEF NoFuture
<1>3. setters = {s}
  BY <1>1, <1>2, OneSetter DEF Parts
<1>4. Cardinality(setters) = 1
  BY <1>3, FS_Singleton
<1>5. \A t \in setters : tasks[t].done <=> futures[f].freed \/ READY(futures[f])
  BY <1>2 DEF FuturesOK, SetOnce, Parts
<1>6. AwaitedOnce(f)
  BY DEF AwaitsOK
<1>9. f \in Orphans => tasks[s].loop \in early
  BY <1>1, <1>o, OrphansEarly
<1>10. Cardinality(Awaiters(f)) = IF futures[f].freed \/ f \in Orphans THEN 0 ELSE 1
  <2>1. \A u \in 2 .. Len(tasks) : u \in 1 .. Len(tasks) /\ u # Root
    BY <1>0
  <2>2. CASE futures[f].freed \/ f \in Orphans
    <3>1. /\ f \notin handles /\ (\A w \in Workers : ~InFrame(f, w))
          /\ \A u \in 2 .. Len(tasks) : ~InList(f, u)
      BY <1>0, <1>o, <1>6, <2>1, <2>2 DEF AwaitedOnce
    <3>2. \A a : a \notin Awaiters(f)
      BY <3>1, AwaiterSet
    <3>3. Awaiters(f) = {}
      BY <3>2
    <3> QED BY <2>2, <3>3, FS_EmptySet
  <2>3. CASE ~(futures[f].freed \/ f \in Orphans)
    <3>1. \E a : Awaiters(f) = {a}
      <4>1. CASE f \in handles
        <5>1. \A a : a \in Awaiters(f) <=> a = <<"handle", 0>>
          BY <1>6, <2>1, <4>1, AwaiterSet DEF AwaitedOnce
        <5>2. Awaiters(f) = {<<"handle", 0>>}
          BY <5>1
        <5> QED BY <5>2
      <4>2. ASSUME NEW u \in 2 .. Len(tasks), InList(f, u)
            PROVE  \E a : Awaiters(f) = {a}
        <5>1. /\ f \notin handles /\ (\A w \in Workers : ~InFrame(f, w))
              /\ \A v \in 2 .. Len(tasks) : InList(f, v) <=> v = u
          BY <1>6, <2>1, <4>2 DEF AwaitedOnce
        <5>2. \A a : a \in Awaiters(f) <=> a = <<"list", u>>
          BY <5>1, AwaiterSet
        <5>3. Awaiters(f) = {<<"list", u>>}
          BY <5>2
        <5> QED BY <5>3
      <4>3. ASSUME NEW w \in Workers, InFrame(f, w)
            PROVE  \E a : Awaiters(f) = {a}
        <5>1. /\ f \notin handles /\ (\A u \in 2 .. Len(tasks) : ~InList(f, u))
          BY <1>6, <2>1, <4>3 DEF AwaitedOnce
        <5>2. \A v \in Workers : InFrame(f, v) <=> v = w
          BY <1>6, <4>3 DEF AwaitedOnce, InFrame
        <5>3. \A a : a \in Awaiters(f) <=> a = <<"frame", w>>
          BY <5>1, <5>2, AwaiterSet
        <5>4. Awaiters(f) = {<<"frame", w>>}
          BY <5>3
        <5> QED BY <5>4
      <4>4. \A u \in 1 .. Len(tasks) : InList(f, u) => u \in 2 .. Len(tasks)
        BY <1>0, <1>o, <2>3
      <4> QED BY <1>6, <2>3, <4>1, <4>2, <4>3, <4>4 DEF AwaitedOnce
    <3>2. Cardinality(Awaiters(f)) = 1
      BY <3>1, FS_Singleton
    <3> QED BY <2>3, <3>2
  <2> QED BY <2>2, <2>3
<1>11. \A t \in setters : f \in Orphans => tasks[t].loop \in early
  BY <1>3, <1>9
<1> QED BY <1>4, <1>5, <1>10, <1>11

-----------------------------------------------------------------------------
(* The result of a loop *)

\* An action that creates no loop: whatever was held by a part still is, by some
\* part of the same loop.
LEMMA ResultsStep ==
    ASSUME ResultsOK, Parts \subseteq Parts', UNCHANGED program,
           \A u \in Parts : tasks'[u].loop = tasks[u].loop /\ tasks'[u].future = tasks[u].future,
           \A u \in Parts' : u \notin Parts =>
                \E t \in Parts : /\ tasks'[u].loop = tasks[t].loop
                                 /\ tasks'[u].future = NoFuture <=> tasks[t].future = NoFuture,
           OwedOK', ResultComplete',
           \A u : Final(u)' => Final(u),
           \A u : HasFuture(u)' => \A it \in Held(u)' :
                \E x : HasFuture(x) /\ tasks[x].loop = tasks'[u].loop /\ it \in Held(x),
           \A t : Final(t)' => \A u : HasFuture(u) /\ Sibling(t, u) => \A it \in Held(u) :
                \E x : HasFuture(x)' /\ tasks'[x].loop = tasks[u].loop /\ it \in Held(x)'
    PROVE  ResultsOK'
<1>1. \A u \in Parts : HasFuture(u)' <=> HasFuture(u)
  BY DEF HasFuture
<1>2. \A u, x : tasks'[u].loop = tasks[x].loop => Whole(u)' = Whole(x)
  BY DEF Whole, LoopRange
<1>3. SiblingsOK'
  <2>1. \A u \in Parts' : \E t \in Parts : /\ tasks'[u].loop = tasks[t].loop
                                           /\ HasFuture(u)' <=> HasFuture(t)
    <3> SUFFICES ASSUME NEW u \in Parts'
                 PROVE  \E t \in Parts : /\ tasks'[u].loop = tasks[t].loop
                                         /\ HasFuture(u)' <=> HasFuture(t)
      OBVIOUS
    <3>1. CASE u \in Parts
      BY <1>1, <3>1
    <3>2. CASE u \notin Parts
      BY <3>2 DEF HasFuture
    <3> QED BY <3>1, <3>2
  <2>2. \A t, u \in Parts : tasks[t].loop = tasks[u].loop => (HasFuture(t) <=> HasFuture(u))
    BY DEF ResultsOK, SiblingsOK, Sibling
  <2>3. \A t, u \in Parts' : tasks'[t].loop = tasks'[u].loop => (HasFuture(t)' <=> HasFuture(u)')
    BY <2>1, <2>2
  <2> QED BY <2>3 DEF SiblingsOK, Sibling
<1>4. \A u : Final(u)' => u \in Parts /\ HasFuture(u) /\ tasks'[u].loop = tasks[u].loop
  BY DEF Final, HasFuture
<1>5. FinalOK'
  BY <1>4 DEF FinalOK, ResultsOK, Sibling
<1>6. HeldOK'
  <2> SUFFICES ASSUME NEW u, HasFuture(u)', NEW it \in Held(u)'
               PROVE  it \in Whole(u)'
    BY DEF HeldOK
  <2>1. PICK x : HasFuture(x) /\ tasks[x].loop = tasks'[u].loop /\ it \in Held(x)
    OBVIOUS
  <2>2. it \in Whole(x)
    BY <2>1 DEF ResultsOK, HeldOK
  <2> QED BY <1>2, <2>1, <2>2
<1>7. CompleteOK'
  <2> SUFFICES ASSUME NEW t, Final(t)', NEW it \in Whole(t)'
               PROVE  \E u : HasFuture(u)' /\ Sibling(t, u)' /\ it \in Held(u)'
    BY DEF CompleteOK
  <2>1. Final(t) /\ tasks'[t].loop = tasks[t].loop
    BY <1>4
  <2>2. it \in Whole(t)
    BY <1>2, <2>1
  <2>3. PICK u : HasFuture(u) /\ Sibling(t, u) /\ it \in Held(u)
    BY <2>1, <2>2 DEF ResultsOK, CompleteOK
  <2>4. PICK x : HasFuture(x)' /\ tasks'[x].loop = tasks[u].loop /\ it \in Held(x)'
    BY <2>3
  <2>5. Sibling(t, x)'
    BY <2>1, <2>3, <2>4 DEF Sibling
  <2> QED BY <2>4, <2>5
<1> QED BY <1>3, <1>5, <1>6, <1>7 DEF ResultsOK

LEMMA FinalNext ==
    ASSUME NEW t
    PROVE  Final(t)' <=> HasFuture(t)' /\ \E f : f = tasks'[t].future /\ ByRoot(f)'
<1>1. Final(t)' <=> HasFuture(t)' /\ ByRoot(tasks[t].future)'
  BY DEF Final
<1>2. \A f : f = tasks'[t].future => (ByRoot(f)' <=> ByRoot(tasks[t].future)')
  BY DEF ByRoot, FrameOf, FrameAt
<1> QED BY <1>1, <1>2

\* Owed in terms of t's future
OwedFor(t, f) ==
    \/ futures[f].freed
    \/ ByRoot(f)
    \/ tasks[t].loop \in early /\ InList(f, Root)
    \/ \E u \in Parts : u < t /\ tasks[u].loop = tasks[t].loop /\ AwaitedBy(f, u)

LEMMA OwedIs ==
    ASSUME NEW t
    PROVE  /\ Owed(t) <=> \E f : f = tasks[t].future /\ OwedFor(t, f)
           /\ Owed(t)' <=> \E f : f = tasks'[t].future /\ OwedFor(t, f)'
<1>1. Owed(t) <=> \E f : f = tasks[t].future /\ OwedFor(t, f)
  BY DEF Owed, OwedFor, Sibling
<1>2. \A f : f = tasks'[t].future => (OwedFor(t, f)' <=> Owed(t)')
  BY DEF Owed, OwedFor, Sibling, ByRoot, FrameOf, FrameAt, AwaitedBy, InList
<1> QED BY <1>1, <1>2

\* No frame begins or ceases to await a future.
FramesStay ==
    /\ \A x : x # NoFuture => \A v \in Workers : \A d : FrameAt(x, v, d)' <=> FrameAt(x, v, d)
    /\ \A v \in Workers : \A d \in 1 .. Len(stack[v]) :
            d \in 1 .. Len(stack'[v]) => stack'[v][d].task = stack[v][d].task

LEMMA FrameOfSame ==
    ASSUME FramesStay
    PROVE  \A x : x # NoFuture => \A u : FrameOf(x, u)' <=> FrameOf(x, u)
<1>1. ASSUME NEW x, x # NoFuture, NEW v \in Workers, NEW d, FrameAt(x, v, d) \/ FrameAt(x, v, d)'
      PROVE  /\ FrameAt(x, v, d) /\ FrameAt(x, v, d)'
             /\ stack'[v][d].task = stack[v][d].task
  <2>1. FrameAt(x, v, d) /\ FrameAt(x, v, d)'
    BY <1>1 DEF FramesStay
  <2>2. d \in 1 .. Len(stack[v]) /\ d \in 1 .. Len(stack'[v])
    BY <2>1 DEF FrameAt, Depth
  <2> QED BY <2>1, <2>2 DEF FramesStay
<1> QED BY <1>1 DEF FrameOf

\* An action that leaves the results with the tasks that have them, and the
\* futures with those that await them
LEMMA ResultsQuiet ==
    ASSUME ControlOK, ResultsOK, Len(tasks') = Len(tasks), UNCHANGED <<program, results, early>>,
           \A u \in Parts : tasks'[u].loop = tasks[u].loop /\ tasks'[u].future = tasks[u].future,
           \A x \in 1 .. Len(futures) : futures'[x].freed <=> futures[x].freed,
           \A u : HasFuture(u) => Held(u)' = Held(u),
           \A x \in 1 .. Len(futures) : ByRoot(x)' <=> ByRoot(x),
           \A x \in 1 .. Len(futures) : \A u \in Parts : AwaitedBy(x, u)' <=> AwaitedBy(x, u),
           \A x \in 1 .. Len(futures) : InList(x, Root)' <=> InList(x, Root)
    PROVE  ResultsOK'
<1>1. Parts' = Parts /\ Parts \subseteq 1 .. Len(tasks)
  BY DEF Parts
<1>2. \A u : HasFuture(u)' <=> HasFuture(u)
  BY <1>1 DEF HasFuture
<1>3. \A u : HasFuture(u) => /\ u \in Parts /\ tasks[u].future \in 1 .. Len(futures)
                             /\ tasks'[u].future = tasks[u].future /\ tasks'[u].loop = tasks[u].loop
  <2>1. \A u \in Parts : tasks[u].future \in 0 .. Len(futures)
    BY <1>1 DEF ControlOK, RefsOK
  <2>2. Len(futures) \in Nat
    BY DEF ControlOK, TypeOK
  <2>3. \A u \in Parts : tasks[u].future # NoFuture => tasks[u].future \in 1 .. Len(futures)
    BY <2>1, <2>2 DEF NoFuture
  <2> QED BY <2>3 DEF HasFuture
<1>4. ASSUME NEW u, HasFuture(u)'
      PROVE  Owed(u)'
  <2>1. PICK f : f = tasks[u].future
    OBVIOUS
  <2>2. HasFuture(u) /\ u \in Parts /\ f \in 1 .. Len(futures) /\ f = tasks'[u].future
    BY <1>2, <1>3, <1>4, <2>1
  <2>3. OwedFor(u, f)
    BY <2>1, <2>2, OwedIs DEF ResultsOK, OwedOK
  <2>4. OwedFor(u, f)'
    BY <1>1, <2>2, <2>3 DEF OwedFor
  <2> QED BY <2>2, <2>4, OwedIs
<1>5. ASSUME NEW u, Final(u)'
      PROVE  Final(u)
  <2>1. PICK f : f = tasks'[u].future /\ ByRoot(f)' /\ HasFuture(u)'
    BY <1>5, FinalNext
  <2>2. HasFuture(u) /\ f \in 1 .. Len(futures) /\ f = tasks[u].future
    BY <1>2, <1>3, <2>1
  <2> QED BY <2>1, <2>2 DEF Final
<1>6. OwedOK'
  BY <1>4 DEF OwedOK
<1>7. ResultComplete'
  BY DEF ResultsOK, ResultComplete, Complete, LoopRange
<1>8. \A u : HasFuture(u)' => \A it \in Held(u)' :
                \E x : HasFuture(x) /\ tasks[x].loop = tasks'[u].loop /\ it \in Held(x)
  BY <1>2, <1>3
<1>9. \A t : Final(t)' => \A u : HasFuture(u) /\ Sibling(t, u) => \A it \in Held(u) :
                \E x : HasFuture(x)' /\ tasks'[x].loop = tasks[u].loop /\ it \in Held(x)'
  BY <1>2, <1>3
<1> QED BY <1>1, <1>5, <1>6, <1>7, <1>8, <1>9, ResultsStep

\* When nobody starts or ceases to await anything, who awaits what is the same.
LEMMA AwaitersSame ==
    ASSUME FramesStay, UNCHANGED handles, NEW n,
           \A u \in 1 .. n : tasks'[u].futures = tasks[u].futures
    PROVE  /\ \A x : x # NoFuture => (ByRoot(x)' <=> ByRoot(x))
           /\ \A x : x # NoFuture => \A u \in 1 .. n : AwaitedBy(x, u)' <=> AwaitedBy(x, u)
           /\ \A x : \A u \in 1 .. n : InList(x, u)' <=> InList(x, u)
<1>1. \A x : \A u \in 1 .. n : InList(x, u)' <=> InList(x, u)
  BY DEF InList
<1>2. \A x : x # NoFuture => \A u : FrameOf(x, u)' <=> FrameOf(x, u)
  BY FrameOfSame
<1> QED BY <1>1, <1>2 DEF ByRoot, AwaitedBy

LEMMA HeldNext ==
    ASSUME NEW t
    PROVE  Held(t)' = IF ~tasks'[t].done THEN tasks'[t].sum \cup Rest(t)'
                      ELSE IF futures'[tasks'[t].future].freed THEN {}
                      ELSE ResultOf(futures'[tasks'[t].future])
BY DEF Held, ResultOf

LEMMA HeldSame ==
    ASSUME NEW u, tasks'[u].done = tasks[u].done, tasks'[u].sum = tasks[u].sum,
           tasks'[u].future = tasks[u].future, Rest(u)' = Rest(u),
           tasks[u].done => futures'[tasks[u].future] = futures[tasks[u].future]
    PROVE  Held(u)' = Held(u)
BY HeldNext DEF Held

\* The future of a part, and the one task that has it
LEMMA FutureOf ==
    ASSUME ControlOK, FuturesOK, NEW u, HasFuture(u)
    PROVE  /\ u \in Parts /\ u \in 1 .. Len(tasks) /\ tasks[u].future # NoFuture
           /\ tasks[u].future \in 1 .. Len(futures) /\ tasks[u] \in TaskRecord
           /\ futures[tasks[u].future] \in FutureRecord
           /\ \A x \in Parts : tasks[x].future = tasks[u].future => x = u
           /\ tasks[u].done <=> futures[tasks[u].future].freed \/ READY(futures[tasks[u].future])
<1>1. u \in Parts /\ u \in 1 .. Len(tasks) /\ tasks[u].future # NoFuture
  BY DEF HasFuture, Parts
<1>2. tasks[u].future \in 0 .. Len(futures)
  BY <1>1 DEF ControlOK, RefsOK
<1>3. Len(futures) \in Nat /\ futures \in Seq(FutureRecord) /\ tasks[u] \in TaskRecord
  BY <1>1 DEF ControlOK, TypeOK
<1>4. tasks[u].future \in 1 .. Len(futures)
  BY <1>1, <1>2, <1>3 DEF NoFuture
<1>5. futures[tasks[u].future] \in FutureRecord
  BY <1>3, <1>4
<1>6. SetOnce(u)
  BY <1>1 DEF FuturesOK
<1> QED BY <1>1, <1>3, <1>4, <1>5, <1>6 DEF SetOnce

LEMMA RetopStays ==
    ASSUME ControlOK, NEW w \in Workers, NEW fr, Retopped(w, fr), fr.task = Top(w).task,
           fr.future = NoFuture, Top(w).future = NoFuture
    PROVE  FramesStay
<1>1. \A x : x # NoFuture => \A v \in Workers : \A d : FrameAt(x, v, d)' <=> FrameAt(x, v, d)
  BY FramesBut
<1>2. ASSUME NEW v \in Workers, NEW d \in 1 .. Len(stack[v])
      PROVE  stack'[v][d].task = stack[v][d].task
  <2>1. stack[w][Depth(w)] = Top(w)
    BY DEF Top
  <2> QED BY <2>1 DEF Retopped
<1> QED BY <1>1, <1>2 DEF FramesStay

LEMMA CallStays ==
    ASSUME ControlOK, NEW w \in Workers, NEW fr, Called(w, fr), fr.future = NoFuture
    PROVE  FramesStay
<1>1. \A x : x # NoFuture => \A v \in Workers : \A d : FrameAt(x, v, d)' <=> FrameAt(x, v, d)
  BY CallFrames
<1> QED BY <1>1 DEF FramesStay, Called

LEMMA ReturnStays ==
    ASSUME ControlOK, NEW w \in Workers, Returned(w), Top(w).future = NoFuture
    PROVE  FramesStay
<1>1. \A x : x # NoFuture => \A v \in Workers : \A d : FrameAt(x, v, d)' <=> FrameAt(x, v, d)
  BY ReturnFrames
<1> QED BY <1>1 DEF FramesStay, Returned

\* Tasks and futures are left alone, and nobody awaits anything else.
LEMMA StillResults ==
    ASSUME ControlOK, ResultsOK, UNCHANGED <<program, tasks, futures, handles, results, early>>,
           FramesStay, \A u \in Parts : Started(u)' <=> Started(u)
    PROVE  ResultsOK'
<1>1. \A u \in Parts : Rest(u)' = Rest(u)
  BY RestSame
<1>2. \A u : HasFuture(u) => Held(u)' = Held(u)
  BY <1>1, HeldSame DEF HasFuture
<1>n. PICK n : n = Len(tasks)
  OBVIOUS
<1>3. /\ \A x : x # NoFuture => (ByRoot(x)' <=> ByRoot(x))
      /\ \A x : x # NoFuture => \A u \in 1 .. n : AwaitedBy(x, u)' <=> AwaitedBy(x, u)
      /\ \A x : \A u \in 1 .. n : InList(x, u)' <=> InList(x, u)
  BY AwaitersSame
<1>4. Root \in 1 .. n /\ Parts \subseteq 1 .. n /\ \A x \in 1 .. Len(futures) : x # NoFuture
  BY <1>n DEF ControlOK, TypeOK, Parts, Root, NoFuture
<1> QED BY <1>2, <1>3, <1>4, <1>n, ResultsQuiet

\* The worker goes on in its task; what it gains in sum it loses in iterations.
LEMMA MovedResults ==
    ASSUME ControlOK, ResultsOK, NEW w \in Workers, NEW t \in Parts, NEW r, NEW fr,
           Moved(w, t, r, fr), r.loop = tasks[t].loop, r.future = tasks[t].future,
           r.done = FALSE, r.futures = tasks[t].futures, fr.future = NoFuture,
           Top(w).pc # "await", UNCHANGED <<program, futures, handles, results, early>>,
           r.sum \cup Rest(t)' = tasks[t].sum \cup Rest(t)
    PROVE  ResultsOK'
<1>1. /\ Depth(w) > 0 /\ t = Top(w).task /\ Updated(t, r) /\ Retopped(w, fr) /\ fr.task = t
  BY DEF Moved
<1>2. Top(w).future = NoFuture /\ ~tasks[t].done
  BY <1>1, TopFuture, RootFrame
<1>3. FramesStay
  BY <1>1, <1>2, RetopStays
<1>4. \A u \in Parts : u # t => Rest(u)' = Rest(u)
  BY MovedRest
<1>n. PICK n : n = Len(tasks)
  OBVIOUS
<1>5. /\ tasks'[t] = r /\ Len(tasks') = n /\ Parts \subseteq 1 .. n
      /\ \A u \in 1 .. n : u # t => tasks'[u] = tasks[u]
  BY <1>1, <1>n DEF Updated, Parts
<1>6. Held(t)' = Held(t)
  BY <1>2, <1>5, HeldNext DEF Held
<1>7. \A u \in Parts : u # t => Held(u)' = Held(u)
  BY <1>4, <1>5, HeldSame
<1>8. \A u \in 1 .. n : /\ tasks'[u].loop = tasks[u].loop /\ tasks'[u].future = tasks[u].future
                        /\ tasks'[u].futures = tasks[u].futures
  BY <1>5
<1>9. /\ \A x : x # NoFuture => (ByRoot(x)' <=> ByRoot(x))
      /\ \A x : x # NoFuture => \A u \in 1 .. n : AwaitedBy(x, u)' <=> AwaitedBy(x, u)
      /\ \A x : \A u \in 1 .. n : InList(x, u)' <=> InList(x, u)
  BY <1>3, <1>8, AwaitersSame
<1>10. Root \in 1 .. n /\ \A x \in 1 .. Len(futures) : x # NoFuture
  BY <1>n DEF ControlOK, TypeOK, Root, NoFuture
<1>11. \A u : HasFuture(u) => Held(u)' = Held(u)
  BY <1>6, <1>7 DEF HasFuture
<1> QED BY <1>n, <1>5, <1>8, <1>9, <1>10, <1>11, ResultsQuiet

LEMMA RunResults ==
    ASSUME ControlOK, ResultsOK, NEW w \in Workers, Start(w) \/ Leave(w)
    PROVE  ResultsOK'
<1>1. UNCHANGED <<program, futures, handles, results, early>>
  BY DEF Start, Leave
<1>2. CASE Start(w)
  <2>1. PICK t, r, fr : StartMoves(w, t, r, fr)
    BY <1>2, StartShape
  <2>2. StartEffect(t, r) /\ \A u \in Parts : Rest(u)' = Rest(u)
    BY <2>1, StartRange, StartRest
  <2>3. Moved(w, t, r, fr) /\ t \in Parts /\ Top(w).pc # "await" /\ fr.future = NoFuture
    BY <2>1 DEF StartMoves
  <2>4. /\ r.loop = tasks[t].loop /\ r.future = tasks[t].future /\ r.done = FALSE
        /\ r.futures = tasks[t].futures /\ r.sum = tasks[t].sum
    BY <2>2 DEF StartEffect
  <2>5. r.sum \cup Rest(t)' = tasks[t].sum \cup Rest(t)
    BY <2>2, <2>3, <2>4
  <2> QED BY <1>1, <2>3, <2>4, <2>5, MovedResults
<1>3. CASE Leave(w)
  <2>1. PICK t, r, fr : LeaveMoves(w, t, r, fr)
    BY <1>3, LeaveShape
  <2>2. /\ LeaveEffect(t, r) /\ Rest(t)' = {}
        /\ Rest(t) = Block(tasks[t].loop, tasks[t].i, tasks[t].end)
    BY <2>1, LeaveRange, LeaveRest
  <2>3. Moved(w, t, r, fr) /\ t \in Parts /\ Top(w).pc # "await" /\ fr.future = NoFuture
    BY <2>1 DEF LeaveMoves
  <2>4. /\ r.loop = tasks[t].loop /\ r.future = tasks[t].future /\ r.done = FALSE
        /\ r.futures = tasks[t].futures
        /\ r.sum = tasks[t].sum \cup Block(tasks[t].loop, tasks[t].i, tasks[t].end)
    BY <2>2 DEF LeaveEffect, Block
  <2>5. r.sum \cup Rest(t)' = tasks[t].sum \cup Rest(t)
    BY <2>2, <2>4
  <2> QED BY <1>1, <2>3, <2>4, <2>5, MovedResults
<1> QED BY <1>2, <1>3

LEMMA CallResults ==
    ASSUME ControlOK, ResultsOK, NEW w \in Workers, Pop(w) \/ Receive(w)
    PROVE  ResultsOK'
<1>1. UNCHANGED <<program, tasks, futures, handles, results, early>>
  BY DEF Pop, Receive
<1>2. PICK t, l : /\ Called(w, Frame(t, l)) /\ \A u : Started(u)' <=> Started(u)
  <2>1. CASE Pop(w)
    <3>1. PICK t : PopMoves(w, t)
      BY <2>1, PopShape
    <3>2. /\ t \in Parts /\ ~OnStack(t) /\ ~tasks[t].done /\ Called(w, Frame(t, "popped"))
          /\ w = Master /\ Depth(w) = 1 /\ Top(w).pc \in {"await", "barrier"}
      BY <3>1 DEF PopMoves, Waiting
    <3>3. \A u : Started(u)' <=> Started(u)
      BY <1>1, <3>2, CallStack DEF ControlOK
    <3> QED BY <3>2, <3>3
  <2>2. CASE Receive(w)
    <3>1. PICK t : ReceiveMoves(w, t)
      BY <2>2, ReceiveShape
    <3>2. /\ t \in Parts /\ ~OnStack(t) /\ ~tasks[t].done /\ Called(w, Frame(t, "received"))
          /\ IF Depth(w) = 0 THEN w # Master ELSE Top(w).pc \in {"await", "barrier"}
      BY <3>1 DEF ReceiveMoves, Waiting
    <3>3. \A u : Started(u)' <=> Started(u)
      BY <1>1, <3>2, CallStack DEF ControlOK
    <3> QED BY <3>2, <3>3
  <2> QED BY <2>1, <2>2
<1>3. Frame(t, l).future = NoFuture
  BY DEF Frame
<1>4. FramesStay
  BY <1>2, <1>3, CallStays
<1> QED BY <1>1, <1>2, <1>4, StillResults

\* A future that w has not awaited so far is awaited by its task now.
LEMMA RetopOf ==
    ASSUME ControlOK, NEW w \in Workers, NEW fr, Retopped(w, fr), fr.task = Top(w).task,
           Top(w).future = NoFuture, fr.future # NoFuture
    PROVE  /\ \A x : x # NoFuture /\ x # fr.future => \A u : FrameOf(x, u)' <=> FrameOf(x, u)
           /\ \A u : FrameOf(fr.future, u) => FrameOf(fr.future, u)'
           /\ \A x : x = fr.future => FrameOf(x, fr.task)'
<1>1. /\ \A v \in Workers : \A x, d : (v # w \/ d # Depth(w)) =>
                (FrameAt(x, v, d)' <=> FrameAt(x, v, d))
      /\ \A x : FrameAt(x, w, Depth(w)) <=> Top(w).future = x
      /\ \A x, d : d = Depth(w) => (FrameAt(x, w, d)' <=> fr.future = x)
  BY RetopFrames
<1>2. ASSUME NEW v \in Workers, NEW d \in 1 .. Len(stack[v])
      PROVE  stack'[v][d].task = stack[v][d].task /\ Len(stack'[v]) = Len(stack[v])
  <2>1. stack[w][Depth(w)] = Top(w)
    BY DEF Top
  <2> QED BY <2>1 DEF Retopped
<1>3. ASSUME NEW x, NEW v \in Workers, NEW d, FrameAt(x, v, d) \/ FrameAt(x, v, d)'
      PROVE  stack'[v][d].task = stack[v][d].task
  <2>1. d \in 1 .. Len(stack[v]) \/ d \in 1 .. Len(stack'[v])
    BY <1>3 DEF FrameAt, Depth
  <2>2. Len(stack'[v]) = Len(stack[v])
    BY DEF Retopped
  <2> QED BY <1>2, <2>1, <2>2
<1>4. ASSUME NEW x, x # NoFuture, x # fr.future, NEW u
      PROVE  FrameOf(x, u)' <=> FrameOf(x, u)
  <2>1. \A v \in Workers : \A d : FrameAt(x, v, d)' <=> FrameAt(x, v, d)
    BY <1>4, FramesBut
  <2> QED BY <1>3, <2>1 DEF FrameOf
<1>5. ASSUME NEW x, x # NoFuture, NEW u, FrameOf(x, u)
      PROVE  FrameOf(x, u)'
  <2>0. PICK v \in Workers : \E d : FrameAt(x, v, d) /\ stack[v][d].task = u
    BY <1>5 DEF FrameOf
  <2>1. PICK d : FrameAt(x, v, d) /\ stack[v][d].task = u
    BY <2>0
  <2>2. v # w \/ d # Depth(w)
    BY <1>1, <1>5, <2>1
  <2>3. FrameAt(x, v, d)' /\ stack'[v][d].task = u
    BY <1>1, <1>3, <2>1, <2>2
  <2> QED BY <2>3 DEF FrameOf
<1>6. ASSUME NEW x, x = fr.future
      PROVE  FrameOf(x, fr.task)'
  <2>1. PICK d : d = Depth(w)
    OBVIOUS
  <2>2. FrameAt(x, w, d)'
    BY <1>1, <1>6, <2>1
  <2>3. stack[w][d] = Top(w)
    BY <2>1 DEF Top
  <2>4. stack'[w][d].task = fr.task
    BY <1>3, <2>2, <2>3
  <2> QED BY <2>2, <2>4 DEF FrameOf
<1>7. \A u : FrameOf(fr.future, u) => FrameOf(fr.future, u)'
  <2>1. \A x : x = fr.future => \A u : FrameOf(x, u) => FrameOf(x, u)'
    BY <1>5
  <2>2. PICK x : x = fr.future
    OBVIOUS
  <2> QED BY <2>1, <2>2 DEF FrameOf, FrameAt
<1> QED BY <1>4, <1>6, <1>7

\* Nobody but one awaits a future, and that one runs.
OneAwaits ==
    \A f \in 1 .. Len(futures) :
        /\ \A u, v \in 1 .. Len(tasks) : AwaitedBy(f, u) /\ AwaitedBy(f, v) => u = v
        /\ \A u \in 1 .. Len(tasks) : AwaitedBy(f, u) =>
                f \notin handles /\ ~futures[f].freed /\ ~tasks[u].done
        /\ f \in handles => ~futures[f].freed

LEMMA OneAwaitsHolds ==
    ControlOK /\ AwaitsOK => OneAwaits
<1> SUFFICES ASSUME ControlOK, AwaitsOK, NEW f \in 1 .. Len(futures)
             PROVE  /\ \A u, v \in 1 .. Len(tasks) : AwaitedBy(f, u) /\ AwaitedBy(f, v) => u = v
                    /\ \A u \in 1 .. Len(tasks) : AwaitedBy(f, u) =>
                            f \notin handles /\ ~futures[f].freed /\ ~tasks[u].done
                    /\ f \in handles => ~futures[f].freed
  BY DEF OneAwaits
<1>1. AwaitedOnce(f)
  BY DEF AwaitsOK
<1>2. \A u : FrameOf(f, u) => \E w \in Workers : InFrame(f, w)
  BY DEF FrameOf, InFrame
<1>3. \A u, v : FrameOf(f, u) /\ FrameOf(f, v) => u = v
  BY <1>1 DEF FrameOf, AwaitedOnce
<1>4. \A u \in 1 .. Len(tasks) : FrameOf(f, u) => ~tasks[u].done
  BY DEF FrameOf, FrameAt, ControlOK, StackOK, FrameOK
<1>5. \A u \in 1 .. Len(tasks) : InList(f, u) => ~tasks[u].done
  BY DEF InList, AwaitsOK, ListOK
<1>6. \A u, v \in 1 .. Len(tasks) : AwaitedBy(f, u) /\ AwaitedBy(f, v) => u = v
  BY <1>1, <1>2, <1>3 DEF AwaitedBy, AwaitedOnce
<1>7. \A u \in 1 .. Len(tasks) : AwaitedBy(f, u) => f \notin handles /\ ~futures[f].freed
  BY <1>1, <1>2 DEF AwaitedBy, AwaitedOnce
<1>8. f \in handles => ~futures[f].freed
  BY <1>1 DEF AwaitedOnce
<1> QED BY <1>4, <1>5, <1>6, <1>7, <1>8 DEF AwaitedBy

LEMMA RootResults ==
    ASSUME ControlOK, AwaitsOK, ResultsOK,
           EnterBarrier \/ LeaveBarrier \/ \E f \in handles : Await(f)
    PROVE  ResultsOK'
<1> USE MasterWorks
<1>1. PICK fr, f : RootMoves(fr, f)
  BY RootShape
<1>2. /\ Top(Master).future = NoFuture /\ Retopped(Master, fr) /\ fr.future = f
      /\ fr.task = Root /\ Top(Master).task = Root
      /\ \/ f = NoFuture /\ handles' = handles
         \/ f \in handles /\ f \in 1 .. Len(futures) /\ handles' = handles \ {f}
      /\ UNCHANGED <<program, tasks, futures, results, early>>
  BY <1>1 DEF RootMoves
<1>3. \A u \in Parts : Started(u)' <=> Started(u)
  BY <1>2, RetopPlaces DEF ControlOK, Parts, Root
<1>4. CASE f = NoFuture
  <2>1. FramesStay /\ handles' = handles
    BY <1>2, <1>4, RetopStays DEF NoFuture
  <2> QED BY <1>2, <1>3, <2>1, StillResults
<1>5. CASE f # NoFuture
  <2>1. f \in handles /\ f \in 1 .. Len(futures) /\ handles' = handles \ {f}
    BY <1>2, <1>5
  <2>2. /\ \A x : x # NoFuture /\ x # f => \A u : FrameOf(x, u)' <=> FrameOf(x, u)
        /\ FrameOf(f, Root)'
    BY <1>2, <1>5, RetopOf
  <2>3. \A x, u : InList(x, u)' <=> InList(x, u)
    BY <1>2 DEF InList
  <2>4. OneAwaits /\ OneAwaits'
    <3>1. ControlOK' /\ AwaitsOK'
      BY RootControl, RootAwaits
    <3> QED BY <3>1, OneAwaitsHolds, PTL
  <2>5. \A x \in 1 .. Len(futures) : ByRoot(x)' <=> ByRoot(x)
    BY <2>1, <2>2 DEF ByRoot, NoFuture
  <2>6. Parts \subseteq 1 .. Len(tasks) /\ Root \in 1 .. Len(tasks) /\ Root \notin Parts
    BY DEF Parts, Root, ControlOK, TypeOK
  <2>7. ASSUME NEW x \in 1 .. Len(futures), NEW u \in Parts
        PROVE  AwaitedBy(x, u)' <=> AwaitedBy(x, u)
    <3>1. CASE x = f
      <4>1. ~AwaitedBy(f, u)
        BY <2>1, <2>4, <2>6 DEF OneAwaits
      <4>2. AwaitedBy(f, Root)'
        BY <2>2 DEF AwaitedBy
      <4>3. ~AwaitedBy(f, u)'
        BY <1>2, <2>1, <2>4, <2>6, <4>2 DEF OneAwaits
      <4> QED BY <3>1, <4>1, <4>3
    <3>2. CASE x # f
      BY <2>2, <2>3, <3>2 DEF AwaitedBy, NoFuture
    <3> QED BY <3>1, <3>2
  <2>8. \A u : HasFuture(u) => Held(u)' = Held(u)
    <3>1. \A u \in Parts : Rest(u)' = Rest(u)
      BY <1>2, <1>3, RestSame
    <3> QED BY <1>2, <3>1, HeldSame DEF HasFuture
  <2> QED BY <1>2, <2>3, <2>5, <2>7, <2>8, ResultsQuiet
<1> QED BY <1>4, <1>5

LEMMA ReduceResults ==
    ASSUME ControlOK, AwaitsOK, ResultsOK, NEW w \in Workers, REDUCE(w)
    PROVE  ResultsOK'
<1>1. PICK t, r, fr : ReduceMoves(w, t, r, fr)
  BY ReduceShape
<1>2. ReduceEffect(t, r)
  BY <1>1, ReduceRange
<1>3. /\ Moved(w, t, r, fr) /\ Depth(w) > 0 /\ Retopped(w, fr) /\ Updated(t, r) /\ t \in Parts
      /\ t = Top(w).task /\ fr.task = t /\ fr.pc = "await"
      /\ Top(w).pc = "reduce" /\ fr.future = Head(tasks[t].futures) /\ tasks[t].futures # <<>>
  BY <1>1 DEF ReduceMoves, Moved
<1>4. /\ r.loop = tasks[t].loop /\ r.start = tasks[t].start /\ r.end = tasks[t].end
      /\ r.i = tasks[t].i /\ r.done = FALSE /\ r.sum = tasks[t].sum
      /\ r.future = tasks[t].future /\ r.futures = Tail(tasks[t].futures)
  BY <1>2 DEF ReduceEffect
<1>5. UNCHANGED <<program, futures, handles, results, early>>
  BY DEF REDUCE
<1>6. OneAwaits /\ OneAwaits'
  <2>1. ControlOK' /\ AwaitsOK'
    BY ReduceControl, ReduceAwaits
  <2> QED BY <2>1, OneAwaitsHolds, PTL
<1>q. PICK q, f, n : q = tasks[t].futures /\ f = Head(q) /\ n = Len(tasks)
  OBVIOUS
<1>7. /\ q \in Seq(Nat) /\ q # <<>> /\ (\A j, k \in 1 .. Len(q) : q[j] = q[k] => j = k)
      /\ \A k \in 1 .. Len(q) : q[k] \in 1 .. Len(futures)
  <2>1. tasks[t] \in TaskRecord /\ t \in 1 .. Len(tasks)
    BY <1>3 DEF ControlOK, TypeOK, Parts
  <2>2. ListOK(t)
    BY <2>1 DEF AwaitsOK
  <2>3. \A k \in 1 .. Len(q) : q[k] \in 1 .. Len(futures)
    BY <1>q, <2>1 DEF ControlOK, RefsOK
  <2> QED BY <1>3, <1>q, <2>1, <2>2, <2>3 DEF ListOK, TaskRecord
<1>8. /\ tasks'[t] = r /\ Len(tasks') = n /\ Parts \subseteq 1 .. n /\ Root \in 1 .. n
      /\ Root \notin Parts /\ t \in 1 .. n
      /\ \A u \in 1 .. n : u # t => tasks'[u] = tasks[u]
  BY <1>3, <1>q DEF Updated, Parts, Root, ControlOK, TypeOK
<1>9. /\ \A x : x # f => ((\E k \in 1 .. Len(Tail(q)) : Tail(q)[k] = x)
                                <=> (\E k \in 1 .. Len(q) : q[k] = x))
      /\ \E k \in 1 .. Len(q) : q[k] = f
  BY <1>7, <1>q, TailList, ZenonT(30)
<1>10. f \in 1 .. Len(futures) /\ fr.future = f /\ \A x \in 1 .. Len(futures) : x # NoFuture
  BY <1>3, <1>7, <1>9, <1>q DEF NoFuture
<1>11. /\ \A x : x # f => (InList(x, t)' <=> InList(x, t))
       /\ InList(f, t)
       /\ \A x : \A u \in 1 .. n : u # t => (InList(x, u)' <=> InList(x, u))
  <2>1. tasks'[t].futures = Tail(q)
    BY <1>4, <1>8, <1>q
  <2>2. \A x : \A u \in 1 .. n : u # t => (InList(x, u)' <=> InList(x, u))
    BY <1>8 DEF InList
  <2>3. InList(f, t)
    BY <1>9, <1>q DEF InList
  <2>4. \A x : InList(x, t)' <=> \E k \in 1 .. Len(Tail(q)) : Tail(q)[k] = x
    BY <2>1 DEF InList
  <2>5. \A x : InList(x, t) <=> \E k \in 1 .. Len(q) : q[k] = x
    BY <1>q DEF InList
  <2> QED BY <1>9, <2>2, <2>3, <2>4, <2>5
<1>12. Top(w).future = NoFuture
  BY <1>3, TopFuture
<1>13. /\ \A x : x # NoFuture /\ x # f => \A u : FrameOf(x, u)' <=> FrameOf(x, u)
       /\ FrameOf(f, t)'
  BY <1>3, <1>10, <1>12, RetopOf
<1>14. AwaitedBy(f, t) /\ AwaitedBy(f, t)'
  BY <1>11, <1>13 DEF AwaitedBy
<1>15. \A u \in 1 .. n : (AwaitedBy(f, u) <=> u = t) /\ (AwaitedBy(f, u)' <=> u = t)
  <2>1. \A u \in 1 .. n : AwaitedBy(f, u) => u = t
    BY <1>6, <1>8, <1>10, <1>14, <1>q DEF OneAwaits
  <2>2. \A u \in 1 .. n : AwaitedBy(f, u)' => u = t
    BY <1>5, <1>6, <1>8, <1>10, <1>14 DEF OneAwaits
  <2> QED BY <1>14, <2>1, <2>2
<1>16. ~ByRoot(f) /\ ~ByRoot(f)'
  <2>1. f \notin handles
    BY <1>6, <1>8, <1>10, <1>14, <1>q DEF OneAwaits
  <2>2. t # Root /\ ~AwaitedBy(f, Root) /\ ~AwaitedBy(f, Root)'
    BY <1>3, <1>8, <1>15
  <2> QED BY <1>5, <2>1, <2>2 DEF ByRoot, AwaitedBy
<1>17. \A x \in 1 .. Len(futures) : ByRoot(x)' <=> ByRoot(x)
  <2>1. \A x \in 1 .. Len(futures) : x # f => (ByRoot(x)' <=> ByRoot(x))
    BY <1>5, <1>10, <1>13 DEF ByRoot
  <2> QED BY <1>16, <2>1
<1>18. \A x \in 1 .. Len(futures) : \A u \in Parts : AwaitedBy(x, u)' <=> AwaitedBy(x, u)
  <2>1. \A x \in 1 .. Len(futures) : x # f =>
            \A u \in 1 .. n : AwaitedBy(x, u)' <=> AwaitedBy(x, u)
    BY <1>10, <1>11, <1>13 DEF AwaitedBy
  <2> QED BY <1>8, <1>15, <2>1
<1>19. \A x \in 1 .. Len(futures) : InList(x, Root)' <=> InList(x, Root)
  BY <1>3, <1>8, <1>11
<1>20. \A u \in Parts : Rest(u)' = Rest(u)
  BY <1>3, <1>4, ReduceRest
<1>21. \A u \in Parts : /\ tasks'[u].loop = tasks[u].loop /\ tasks'[u].future = tasks[u].future
                        /\ tasks'[u].done = tasks[u].done /\ tasks'[u].sum = tasks[u].sum
  <2>1. tasks[t].done = FALSE
    <3>1. tasks[t] \in TaskRecord /\ ~tasks[t].done
      BY <1>3, <1>8, <1>q, RootFrame DEF ControlOK, TypeOK
    <3> QED BY <3>1 DEF TaskRecord
  <2> QED BY <1>4, <1>8, <2>1
<1>22. \A u : HasFuture(u) => Held(u)' = Held(u)
  BY <1>5, <1>20, <1>21, HeldSame DEF HasFuture
<1>23. Len(tasks') = Len(tasks)
  BY <1>8, <1>q
<1> QED BY <1>5, <1>17, <1>18, <1>19, <1>21, <1>22, <1>23, ResultsQuiet

LEMMA ReturnResults ==
    ASSUME ControlOK, FuturesOK, ResultsOK, NEW w \in Workers, Return(w)
    PROVE  ResultsOK'
<1>1. PICK t, r : ReturnMoves(w, t, r)
  BY ReturnShape
<1>2. /\ Depth(w) > 0 /\ t = Top(w).task /\ t \in Parts /\ Updated(t, r) /\ Returned(w)
      /\ r = [tasks[t] EXCEPT !.done = TRUE] /\ Top(w).pc = "reduce" /\ tasks[t].futures = <<>>
      /\ IF tasks[t].future = NoFuture THEN futures' = futures
         ELSE FutureUpdated(tasks[t].future, FUTURE_SET(futures[tasks[t].future], tasks[t].sum))
  BY <1>1 DEF ReturnMoves
<1>3. tasks[t] \in TaskRecord /\ ~tasks[t].done
  BY <1>2, RootFrame DEF ControlOK, TypeOK, Parts
<1>4. /\ r.loop = tasks[t].loop /\ r.future = tasks[t].future /\ r.futures = tasks[t].futures
      /\ r.done = TRUE
  BY <1>2, <1>3 DEF TaskRecord
<1>5. UNCHANGED <<program, handles, results, early>>
  BY DEF Return
<1>6. (\A u \in Parts : Rest(u)' = Rest(u)) /\ Rest(t) = {}
  BY <1>1, ReturnRest
<1>n. PICK n, f : n = Len(tasks) /\ f = tasks[t].future
  OBVIOUS
<1>7. /\ tasks'[t] = r /\ Len(tasks') = n /\ Parts \subseteq 1 .. n /\ Root \in 1 .. n
      /\ \A u \in 1 .. n : u # t => tasks'[u] = tasks[u]
  BY <1>2, <1>n DEF Updated, Parts, Root, ControlOK, TypeOK
<1>8. Top(w).future = NoFuture
  BY <1>2, TopFuture
<1>9. FramesStay
  BY <1>2, <1>8, ReturnStays
<1>10. \A u \in 1 .. n : /\ tasks'[u].loop = tasks[u].loop /\ tasks'[u].future = tasks[u].future
                         /\ tasks'[u].futures = tasks[u].futures
  BY <1>4, <1>7
<1>11. /\ \A x : x # NoFuture => (ByRoot(x)' <=> ByRoot(x))
       /\ \A x : x # NoFuture => \A u \in 1 .. n : AwaitedBy(x, u)' <=> AwaitedBy(x, u)
       /\ \A x : \A u \in 1 .. n : InList(x, u)' <=> InList(x, u)
  BY <1>5, <1>9, <1>10, AwaitersSame
<1>12. \A x \in 1 .. Len(futures) : x # NoFuture
  BY DEF NoFuture
<1>13. ASSUME HasFuture(t)
       PROVE  /\ futures'[f].freed <=> futures[f].freed
              /\ Held(t)' = Held(t) /\ \A x \in 1 .. Len(futures) : x # f => futures'[x] = futures[x]
  <2>g. PICK g : g = futures[f]
    OBVIOUS
  <2>1. /\ f \in 1 .. Len(futures) /\ f # NoFuture /\ g \in FutureRecord
        /\ ~g.freed /\ ~READY(g)
    BY <1>3, <1>13, <1>n, <2>g, FutureOf
  <2>2. (g.has_channel => ~g.set) /\ (~g.has_channel => g.chan = <<>>)
    BY <2>1, <2>g DEF FuturesOK, FutureOK
  <2>v. PICK v, h : v = tasks[t].sum /\ h = FUTURE_SET(g, v)
    OBVIOUS
  <2>3. READY(h) /\ ResultOf(h) = v /\ ~h.freed
    BY <2>1, <2>2, <2>v, SetReady
  <2>4. FutureUpdated(f, h)
    BY <1>2, <1>n, <2>1, <2>g, <2>v
  <2>5. futures'[f] = h /\ \A x \in 1 .. Len(futures) : x # f => futures'[x] = futures[x]
    BY <2>4 DEF FutureUpdated
  <2>6. Held(t) = v
    BY <1>3, <1>6, <2>v DEF Held
  <2>7. Held(t)' = v
    BY <1>4, <1>7, <1>n, <2>3, <2>5, HeldNext
  <2> QED BY <2>1, <2>3, <2>5, <2>6, <2>7, <2>g
<1>14. ~HasFuture(t) => futures' = futures
  BY <1>2 DEF HasFuture
<1>15. ASSUME NEW u, HasFuture(u)
       PROVE  Held(u)' = Held(u)
  <2>1. CASE u = t
    BY <1>13, <1>15, <2>1
  <2>2. CASE u # t
    <3>1. /\ u \in Parts /\ tasks[u].future \in 1 .. Len(futures) /\ tasks[u].future # NoFuture
          /\ \A x \in Parts : tasks[x].future = tasks[u].future => x = u
      BY <1>15, FutureOf
    <3>2. tasks[u].future # f
      BY <1>2, <1>n, <2>2, <3>1
    <3>3. futures'[tasks[u].future] = futures[tasks[u].future]
      BY <1>13, <1>14, <3>1, <3>2
    <3>4. tasks'[u] = tasks[u] /\ Rest(u)' = Rest(u)
      BY <1>6, <1>7, <2>2, <3>1
    <3> QED BY <3>3, <3>4, HeldSame
  <2> QED BY <2>1, <2>2
<1>16. \A x \in 1 .. Len(futures) : futures'[x].freed <=> futures[x].freed
  BY <1>13, <1>14
<1>17. Len(tasks') = Len(tasks)
  BY <1>7, <1>n
<1> QED BY <1>5, <1>7, <1>10, <1>11, <1>12, <1>15, <1>16, <1>17, ResultsQuiet

LEMMA StealResults ==
    ASSUME ControlOK, FuturesOK, ResultsOK, NEW v \in Workers, NEW w \in Workers,
           handle_steal_request(v, w)
    PROVE  ResultsOK'
<1>1. PICK t : StealMoves(v, w, t)
  BY StealShape
<1>2. UNCHANGED <<program, tasks, stack, handles, results, early>>
  BY DEF handle_steal_request
<1>3. /\ IF tasks[t].future = NoFuture THEN futures' = futures
         ELSE FutureUpdated(tasks[t].future, FUTURE_CONVERT(futures[tasks[t].future]))
      /\ t \in Parts /\ ~tasks[t].done
  BY <1>1 DEF StealMoves, Waiting
<1>4. /\ \A x \in 1 .. Len(futures) : futures'[x].freed <=> futures[x].freed
      /\ \A x \in 1 .. Len(futures) : x # tasks[t].future => futures'[x] = futures[x]
  <2>1. CASE tasks[t].future = NoFuture
    BY <1>3, <2>1
  <2>2. CASE tasks[t].future # NoFuture
    <3> DEFINE f == tasks[t].future
               h == FUTURE_CONVERT(futures[f])
    <3>1. FutureUpdated(f, h)
      BY <1>3, <2>2
    <3>2. futures[f] \in FutureRecord
      BY <3>1 DEF FutureUpdated, ControlOK, TypeOK
    <3>3. h.freed = futures[f].freed
      BY <3>2 DEF FUTURE_CONVERT, FutureRecord
    <3>4. f = tasks[t].future
      OBVIOUS
    <3> HIDE DEF f, h
    <3> QED BY <3>1, <3>3, <3>4 DEF FutureUpdated
  <2> QED BY <2>1, <2>2
<1>5. FramesStay
  BY <1>2 DEF FramesStay, FrameAt, Depth
<1>n. PICK n : n = Len(tasks)
  OBVIOUS
<1>6. /\ \A x : x # NoFuture => (ByRoot(x)' <=> ByRoot(x))
      /\ \A x : x # NoFuture => \A u \in 1 .. n : AwaitedBy(x, u)' <=> AwaitedBy(x, u)
      /\ \A x : \A u \in 1 .. n : InList(x, u)' <=> InList(x, u)
  BY <1>2, <1>5, AwaitersSame
<1>7. Root \in 1 .. n /\ Parts \subseteq 1 .. n /\ \A x \in 1 .. Len(futures) : x # NoFuture
  BY <1>n DEF ControlOK, TypeOK, Parts, Root, NoFuture
<1>8. \A u \in Parts : Rest(u)' = Rest(u)
  BY <1>2, RestSame DEF Started, Depth
<1>9. ASSUME NEW u, HasFuture(u)
      PROVE  Held(u)' = Held(u)
  <2>1. /\ u \in Parts /\ tasks[u].future \in 1 .. Len(futures)
        /\ \A x \in Parts : tasks[x].future = tasks[u].future => x = u
    BY <1>9, FutureOf
  <2>2. tasks[u].done => futures'[tasks[u].future] = futures[tasks[u].future]
    BY <1>3, <1>4, <2>1
  <2> QED BY <1>2, <1>8, <2>1, <2>2, HeldSame
<1> QED BY <1>2, <1>4, <1>6, <1>7, <1>9, <1>n, ResultsQuiet

LEMMA LeastNumber ==
    ASSUME NEW S, S \subseteq Nat, S # {}
    PROVE  \E n \in S : \A m \in S : ~(m < n)
<1>1. PICK n \in S : \A m \in S : ~(<<m, n>> \in OpToRel(<, Nat))
  BY NatLessThanWellFounded, WFMin, Zenon
<1>2. \A m \in Nat : m < n => <<m, n>> \in OpToRel(<, Nat)
  BY DEF OpToRel
<1> QED BY <1>1, <1>2, Zenon

\* When the part that the root task awaits has returned, REDUCE has collected the
\* results of all the others: the first one left would be awaited by a part that
\* has not returned, and is left as well.
LEMMA FinalHasAll ==
    ASSUME ControlOK, FuturesOK, OneAwaits, ResultsOK, NEW x, Final(x), tasks[x].done,
           tasks[x].loop \notin early
    PROVE  Held(x) = Whole(x)
<1> DEFINE S == {u \in Parts : /\ HasFuture(u) /\ Sibling(x, u) /\ u # x
                               /\ ~futures[tasks[u].future].freed}
<1>1. HasFuture(x) /\ x \in Parts
  BY DEF Final, HasFuture
<1>2. ASSUME NEW u \in S
      PROVE  \E y \in S : y < u
  <2>1. HasFuture(u) /\ Sibling(x, u) /\ u # x /\ ~futures[tasks[u].future].freed /\ u \in Parts
    OBVIOUS
  <2>2. PICK f : f = tasks[u].future
    OBVIOUS
  <2>3. f \in 1 .. Len(futures)
    BY <2>1, <2>2, FutureOf
  <2>4. OwedFor(u, f)
    BY <2>1, <2>2, OwedIs DEF ResultsOK, OwedOK
  <2>5. ~ByRoot(f)
    <3>1. ~Final(u)
      BY <2>1 DEF ResultsOK, FinalOK
    <3> QED BY <2>1, <2>2, <3>1 DEF Final
  <2>6. PICK y \in Parts : y < u /\ tasks[y].loop = tasks[u].loop /\ AwaitedBy(f, y)
    BY <2>1, <2>2, <2>4, <2>5 DEF OwedFor, Sibling
  <2>7. ~tasks[y].done
    BY <2>3, <2>6 DEF OneAwaits, Parts
  <2>8. HasFuture(y)
    BY <2>1, <2>6 DEF ResultsOK, SiblingsOK, Sibling
  <2>9. ~futures[tasks[y].future].freed
    BY <2>7, <2>8, FutureOf
  <2>10. Sibling(x, y) /\ y # x
    BY <2>1, <2>6, <2>7 DEF Sibling
  <2> QED BY <2>6, <2>8, <2>9, <2>10
<1>3. S = {}
  <2>1. S \subseteq Nat
    BY DEF Parts
  <2>2. S # {} => \E n \in S : \A m \in S : ~(m < n)
    BY <2>1, LeastNumber
  <2> HIDE DEF S
  <2> QED BY <1>2, <2>2
<1>4. ASSUME NEW u, HasFuture(u), Sibling(x, u), u # x
      PROVE  Held(u) = {}
  <2>1. u \in Parts
    BY <1>4 DEF HasFuture
  <2>2. futures[tasks[u].future].freed
    BY <1>3, <1>4, <2>1
  <2>3. tasks[u].done
    BY <1>4, <2>2, FutureOf
  <2> QED BY <2>2, <2>3 DEF Held
<1>5. Held(x) \subseteq Whole(x)
  BY <1>1 DEF ResultsOK, HeldOK
<1>6. \A it \in Whole(x) : \E u : HasFuture(u) /\ Sibling(x, u) /\ it \in Held(u)
  BY DEF ResultsOK, CompleteOK
<1>7. Whole(x) \subseteq Held(x)
  BY <1>4, <1>6
<1> QED BY <1>5, <1>7

\* RT_force_future returns to t the result of x, in future f.
Taken(t, x, f) ==
    /\ f \in 1 .. Len(futures) /\ HasFuture(x) /\ tasks[x].future = f /\ tasks[x].done
    /\ t \in 1 .. Len(tasks) /\ ~tasks[t].done
    /\ FrameOf(f, t) /\ ~futures[f].freed /\ futures'[f].freed
    /\ Held(x) = ResultOf(futures[f]) /\ Held(x)' = {}
    /\ \A u : HasFuture(u)' <=> HasFuture(u)
    /\ \A u : HasFuture(u) => tasks'[u].future = tasks[u].future /\ tasks'[u].loop = tasks[u].loop
    /\ \A u : HasFuture(u) /\ u # x /\ u # t => Held(u)' = Held(u)
    /\ \A u : Final(u)' => Final(u) /\ u # x
    /\ OwedOK' /\ Parts' = Parts
    /\ \A u \in Parts : tasks'[u].future = tasks[u].future /\ tasks'[u].loop = tasks[u].loop

LEMMA AwaitTakes ==
    ASSUME ControlOK, FuturesOK, AwaitsOK, ResultsOK, NEW w \in Workers, AwaitReturn(w),
           NEW t, NEW r, NEW fr, NEW f, AwaitMoves(w, t, r, fr, f)
    PROVE  \E x : Taken(t, x, f)
<1>1. AwaitEffect(t, r)
  BY AwaitRange
<1>2. /\ Moved(w, t, r, fr) /\ Depth(w) > 0 /\ Retopped(w, fr) /\ Updated(t, r)
      /\ t = Top(w).task /\ fr.task = t
      /\ Top(w).pc = "await" /\ f = Top(w).future /\ READY(futures[f])
      /\ FutureUpdated(f, [futures[f] EXCEPT !.freed = TRUE, !.chan = <<>>])
      /\ fr.future = NoFuture /\ fr.pc \notin {"popped", "received"}
  BY DEF AwaitMoves, Moved, Frame
<1>3. /\ r.loop = tasks[t].loop /\ r.start = tasks[t].start /\ r.end = tasks[t].end
      /\ r.i = tasks[t].i /\ r.done = FALSE
      /\ r.future = tasks[t].future /\ r.futures = tasks[t].futures
  BY <1>1 DEF AwaitEffect
<1>4. UNCHANGED <<program, handles, early>>
  BY DEF AwaitReturn
<1>5. /\ f \in 1 .. Len(futures) /\ Len(futures') = Len(futures)
      /\ \A y \in 1 .. Len(futures) : y # f => futures'[y] = futures[y]
      /\ futures'[f] = [futures[f] EXCEPT !.freed = TRUE, !.chan = <<>>]
      /\ futures[f] \in FutureRecord
  BY <1>2 DEF FutureUpdated, ControlOK, TypeOK
<1>6. futures'[f].freed /\ f # NoFuture
  BY <1>5 DEF FutureRecord, NoFuture
<1>7. OneAwaits /\ OneAwaits'
  <2>1. ControlOK' /\ AwaitsOK'
    BY AwaitControl, AwaitAwaits
  <2> QED BY <2>1, OneAwaitsHolds, PTL
<1>n. PICK n : n = Len(tasks)
  OBVIOUS
<1>8. /\ tasks'[t] = r /\ Len(tasks') = n /\ Parts \subseteq 1 .. n /\ Root \in 1 .. n
      /\ Root \notin Parts /\ t \in 1 .. n /\ Parts' = Parts
      /\ \A u \in 1 .. n : u # t => tasks'[u] = tasks[u]
  BY <1>2, <1>n DEF Updated, Parts, Root, ControlOK, TypeOK
<1>9. \A u \in 1 .. n : /\ tasks'[u].loop = tasks[u].loop /\ tasks'[u].future = tasks[u].future
                        /\ tasks'[u].futures = tasks[u].futures
  BY <1>3, <1>8
<1>10. \A u : HasFuture(u)' <=> HasFuture(u)
  BY <1>8, <1>9 DEF HasFuture
<1>11. PICK x \in Parts : tasks[x].future = f
  BY <1>5 DEF FuturesOK, FutureOK
<1>12. HasFuture(x) /\ tasks[x].done
  <2>1. HasFuture(x)
    BY <1>6, <1>11 DEF HasFuture
  <2> QED BY <1>2, <1>11, <2>1, FutureOf
<1>13. ~tasks[t].done
  BY <1>2, RootFrame
<1>14. FrameOf(f, t)
  <2>1. FrameAt(f, w, Depth(w))
    BY <1>2, RetopFrames
  <2>2. stack[w][Depth(w)].task = t
    BY <1>2 DEF Top
  <2> QED BY <2>1, <2>2 DEF FrameOf
<1>15. ~futures[f].freed /\ AwaitedBy(f, t)
  BY <1>5, <1>7, <1>8, <1>14, <1>n DEF OneAwaits, AwaitedBy
<1>16. Held(x) = ResultOf(futures[f])
  BY <1>11, <1>12, <1>15 DEF Held
<1>17. t # x
  BY <1>12, <1>13
<1>18. tasks'[x] = tasks[x] /\ x \in 1 .. n
  BY <1>8, <1>11, <1>17
<1>19. Held(x)' = {}
  BY <1>6, <1>11, <1>12, <1>18, HeldNext
<1>20. \A u \in Parts : Rest(u)' = Rest(u)
  BY <1>2, <1>3, ReduceRest
<1>21. \A u : HasFuture(u) /\ u # x => /\ tasks[u].future \in 1 .. Len(futures) /\ u \in Parts
                                      /\ tasks[u].future # f /\ tasks[u].future # NoFuture
                                      /\ futures'[tasks[u].future] = futures[tasks[u].future]
  BY <1>5, <1>11, FutureOf
<1>22. \A u : HasFuture(u) /\ u # x /\ u # t => Held(u)' = Held(u)
  BY <1>8, <1>20, <1>21, HeldSame
<1>23. \A y, u : y # NoFuture /\ y # f => (FrameOf(y, u)' <=> FrameOf(y, u))
  <2>1. \A y : y # NoFuture /\ y # f => \A v \in Workers : \A d : FrameAt(y, v, d)' <=> FrameAt(y, v, d)
    BY <1>2, FramesBut
  <2>2. ASSUME NEW v \in Workers, NEW d, d \in 1 .. Len(stack[v])
        PROVE  stack'[v][d].task = stack[v][d].task
    <3>1. stack[w][Depth(w)] = Top(w)
      BY DEF Top
    <3> QED BY <1>2, <2>2, <3>1 DEF Retopped
  <2>3. \A y, d : \A v \in Workers : FrameAt(y, v, d) => d \in 1 .. Len(stack[v])
    BY DEF FrameAt, Depth
  <2> QED BY <2>1, <2>2, <2>3 DEF FrameOf
<1>24. \A y : \A u \in 1 .. n : InList(y, u)' <=> InList(y, u)
  BY <1>9 DEF InList
<1>25. \A y : y # NoFuture /\ y # f =>
            /\ ByRoot(y)' <=> ByRoot(y)
            /\ \A u \in 1 .. n : AwaitedBy(y, u)' <=> AwaitedBy(y, u)
  BY <1>4, <1>23, <1>24 DEF ByRoot, AwaitedBy
<1>26. ~ByRoot(f)'
  <2>1. f \notin handles' /\ ~AwaitedBy(f, Root)'
    BY <1>5, <1>6, <1>7, <1>8 DEF OneAwaits
  <2> QED BY <2>1 DEF ByRoot, AwaitedBy
<1>27. ASSUME NEW u, Final(u)'
       PROVE  Final(u) /\ u # x
  <2>1. PICK y : y = tasks'[u].future /\ ByRoot(y)' /\ HasFuture(u)'
    BY <1>27, FinalNext
  <2>2. HasFuture(u) /\ u \in Parts
    BY <1>10, <2>1 DEF HasFuture
  <2>3. y = tasks[u].future
    BY <1>8, <1>9, <2>1, <2>2
  <2>4. u # x
    BY <1>11, <1>26, <2>1, <2>3
  <2>5. ByRoot(y)
    BY <1>21, <1>25, <2>1, <2>2, <2>3, <2>4
  <2> QED BY <2>2, <2>3, <2>4, <2>5 DEF Final
<1>28. ASSUME NEW u, HasFuture(u)
       PROVE  Owed(u)'
  <2>1. PICK y : y = tasks[u].future
    OBVIOUS
  <2>2. u \in Parts /\ y = tasks'[u].future /\ u \in 1 .. n
    BY <1>8, <1>9, <1>28, <2>1 DEF HasFuture
  <2>3. CASE u = x
    <3>1. OwedFor(u, y)'
      BY <1>6, <1>11, <2>1, <2>3 DEF OwedFor
    <3> QED BY <2>2, <3>1, OwedIs
  <2>4. CASE u # x
    <3>1. y # f /\ y # NoFuture /\ futures'[y] = futures[y]
      BY <1>21, <1>28, <2>1, <2>4
    <3>2. OwedFor(u, y)
      BY <1>28, <2>1, OwedIs DEF ResultsOK, OwedOK
    <3>3. /\ ByRoot(y)' <=> ByRoot(y)
          /\ \A v \in Parts : AwaitedBy(y, v)' <=> AwaitedBy(y, v)
          /\ InList(y, Root)' <=> InList(y, Root)
      BY <1>8, <1>24, <1>25, <3>1
    <3>4. OwedFor(u, y)'
      BY <1>4, <1>8, <1>9, <2>2, <3>1, <3>2, <3>3 DEF OwedFor
    <3> QED BY <2>2, <3>4, OwedIs
  <2> QED BY <2>3, <2>4
<1>29. OwedOK'
  BY <1>10, <1>28 DEF OwedOK
<1>30. \A u \in Parts : tasks'[u].future = tasks[u].future /\ tasks'[u].loop = tasks[u].loop
  BY <1>8, <1>9
<1>31. t \in 1 .. Len(tasks)
  BY <1>8, <1>n
<1>32. \A u : HasFuture(u) => tasks'[u].future = tasks[u].future /\ tasks'[u].loop = tasks[u].loop
  BY <1>30 DEF HasFuture
<1>33. Taken(t, x, f)
  BY <1>5, <1>6, <1>8, <1>10, <1>11, <1>12, <1>13, <1>14, <1>15, <1>16, <1>19, <1>22, <1>27, <1>29,
     <1>30, <1>31, <1>32 DEF Taken
<1> QED BY <1>33

LEMMA AwaitResults ==
    ASSUME ControlOK, FuturesOK, AwaitsOK, ResultsOK, NEW w \in Workers, AwaitReturn(w)
    PROVE  ResultsOK'
<1>1. PICK t, r, fr, f : AwaitMoves(w, t, r, fr, f)
  BY AwaitShape
<1>2. PICK x : Taken(t, x, f)
  BY <1>1, AwaitTakes
<1>3. /\ f \in 1 .. Len(futures) /\ HasFuture(x) /\ tasks[x].future = f /\ tasks[x].done
      /\ t \in 1 .. Len(tasks) /\ ~tasks[t].done
      /\ FrameOf(f, t) /\ ~futures[f].freed
      /\ Held(x) = ResultOf(futures[f]) /\ Held(x)' = {}
      /\ \A u : HasFuture(u)' <=> HasFuture(u)
      /\ \A u : HasFuture(u) /\ u # x /\ u # t => Held(u)' = Held(u)
      /\ \A u : Final(u)' => Final(u) /\ u # x
      /\ OwedOK' /\ Parts' = Parts
      /\ \A u \in Parts : tasks'[u].future = tasks[u].future /\ tasks'[u].loop = tasks[u].loop
  BY <1>2 DEF Taken
<1>4. OneAwaits
  BY OneAwaitsHolds
<1>5. UNCHANGED <<program, early>>
  BY DEF AwaitReturn
<1>6. AwaitedBy(f, t) /\ Root \in 1 .. Len(tasks) /\ Root \notin Parts /\ x \in Parts
  BY <1>3 DEF AwaitedBy, Root, Parts, ControlOK, TypeOK, HasFuture
<1>7. \A u : HasFuture(u) => u \in Parts
  BY DEF HasFuture
<1>8. CASE t = Root
  <2>1. Final(x)
    BY <1>3, <1>8 DEF Final, ByRoot
  <2>2. \A u : HasFuture(u) /\ u # x => Held(u)' = Held(u)
    BY <1>3, <1>6, <1>7, <1>8
  <2>3. \A u : HasFuture(u)' => \A it \in Held(u)' :
            \E y : HasFuture(y) /\ tasks[y].loop = tasks'[u].loop /\ it \in Held(y)
    BY <1>3, <1>7, <2>2
  <2>4. ASSUME NEW z, Final(z)', NEW u, HasFuture(u), Sibling(z, u), NEW it \in Held(u)
        PROVE  \E y : HasFuture(y)' /\ tasks'[y].loop = tasks[u].loop /\ it \in Held(y)'
    <3>1. Final(z) /\ z # x
      BY <1>3, <2>4
    <3>2. u # x
      BY <2>1, <2>4, <3>1 DEF ResultsOK, FinalOK
    <3> QED BY <1>3, <1>7, <2>2, <2>4, <3>2
  <2>5. ResultComplete'
    <3>l. PICK l : l = tasks[x].loop
      OBVIOUS
    <3>1. LoopOf(f) = l /\ l \in 1 .. Len(results)
      BY <1>3, <1>6, <3>l, LoopOfFuture
    <3>2. results' = [results EXCEPT ![l] = <<Held(x)>>]
      BY <1>1, <1>3, <1>8, <3>1 DEF AwaitMoves
    <3>3. results \in Seq(Seq(SUBSET Pairs))
      BY DEF ControlOK, TypeOK
    <3>4. /\ Len(results') = Len(results) /\ results'[l] = <<Held(x)>>
          /\ \A k \in 1 .. Len(results) : k # l => results'[k] = results[k]
      BY <3>1, <3>2, <3>3
    <3>5. l \notin early => Held(x) = LoopRange(l)
      <4>1. ASSUME l \notin early
            PROVE  Held(x) = Whole(x)
        BY <1>3, <1>4, <2>1, <3>l, <4>1, FinalHasAll
      <4> QED BY <3>l, <4>1 DEF Whole
    <3>6. \A k : LoopRange(k)' = LoopRange(k)
      BY <1>5 DEF LoopRange
    <3>7. \A k \in 1 .. Len(results) : k \in early \/ results[k] \in {<<>>, <<LoopRange(k)>>}
      BY DEF ResultsOK, ResultComplete, Complete
    <3>8. \A k \in 1 .. Len(results') : k \in early' \/ results'[k] \in {<<>>, <<LoopRange(k)'>>}
      BY <1>5, <3>4, <3>5, <3>6, <3>7
    <3> QED BY <3>8 DEF ResultComplete, Complete
  <2>6. \A z : Final(z)' => \A u : HasFuture(u) /\ Sibling(z, u) => \A it \in Held(u) :
            \E y : HasFuture(y)' /\ tasks'[y].loop = tasks[u].loop /\ it \in Held(y)'
    BY <2>4
  <2> QED BY <1>3, <1>5, <2>3, <2>5, <2>6, ResultsStep
<1>9. CASE t # Root
  <2>1. tasks[t].loop = tasks[x].loop /\ t \in Parts
    <3>1. OwedFor(x, f)
      BY <1>3, OwedIs DEF ResultsOK, OwedOK
    <3>2. \A u \in 1 .. Len(tasks) : AwaitedBy(f, u) => u = t
      BY <1>3, <1>4, <1>6 DEF OneAwaits
    <3>3. f \notin handles
      BY <1>3, <1>4, <1>6 DEF OneAwaits
    <3>4. ~AwaitedBy(f, Root)
      BY <1>6, <1>9, <3>2
    <3>5. ~ByRoot(f) /\ ~InList(f, Root)
      BY <3>3, <3>4 DEF ByRoot, AwaitedBy
    <3>6. PICK u \in Parts : tasks[u].loop = tasks[x].loop /\ AwaitedBy(f, u)
      BY <1>3, <3>1, <3>5 DEF OwedFor
    <3>7. u \in 1 .. Len(tasks)
      BY DEF Parts
    <3> QED BY <3>2, <3>6, <3>7
  <2>2. HasFuture(t)
    BY <1>3, <1>6, <2>1 DEF ResultsOK, SiblingsOK, Sibling
  <2>3. Held(t)' = Held(t) \cup Held(x)
    <3>1. /\ Moved(w, t, r, fr) /\ Updated(t, r)
          /\ Top(w).pc = "await" /\ fr.pc \notin {"popped", "received"}
          /\ r = [tasks[t] EXCEPT !.sum = tasks[t].sum \cup Held(x)]
      BY <1>1, <1>3, <1>9 DEF AwaitMoves, Moved, Frame
    <3>2. AwaitEffect(t, r)
      BY <1>1, AwaitRange
    <3>3. Rest(t)' = Rest(t)
      BY <2>1, <3>1, <3>2, ReduceRest DEF AwaitEffect
    <3>4. tasks[t] \in TaskRecord
      BY <1>3 DEF ControlOK, TypeOK
    <3>5. r.sum = tasks[t].sum \cup Held(x) /\ ~r.done
      BY <3>1, <3>2, <3>4 DEF TaskRecord, AwaitEffect
    <3>6. tasks'[t] = r
      BY <3>1 DEF Updated
    <3>7. Held(t)' = r.sum \cup Rest(t)
      BY <3>3, <3>5, <3>6, HeldNext
    <3>8. Held(t) = tasks[t].sum \cup Rest(t)
      BY <1>3 DEF Held
    <3> QED BY <3>5, <3>7, <3>8
  <2>4. ASSUME NEW u, HasFuture(u)', NEW it \in Held(u)'
        PROVE  \E y : HasFuture(y) /\ tasks[y].loop = tasks'[u].loop /\ it \in Held(y)
    <3>1. HasFuture(u) /\ tasks'[u].loop = tasks[u].loop
      BY <1>3, <1>7, <2>4
    <3> QED BY <1>3, <2>1, <2>2, <2>3, <2>4, <3>1
  <2>5. ASSUME NEW u, HasFuture(u), NEW it \in Held(u)
        PROVE  \E y : HasFuture(y)' /\ tasks'[y].loop = tasks[u].loop /\ it \in Held(y)'
    <3>1. HasFuture(u)' /\ tasks'[u].loop = tasks[u].loop
      BY <1>3, <1>7, <2>5
    <3>2. HasFuture(t)' /\ tasks'[t].loop = tasks[t].loop
      BY <1>3, <2>1, <2>2
    <3> QED BY <1>3, <2>1, <2>3, <2>5, <3>1, <3>2
  <2>6. ResultComplete'
    <3>1. results' = results
      BY <1>1, <1>9 DEF AwaitMoves
    <3> QED BY <1>5, <3>1 DEF ResultsOK, ResultComplete, Complete, LoopRange
  <2>7. \A u : HasFuture(u)' => \A it \in Held(u)' :
            \E y : HasFuture(y) /\ tasks[y].loop = tasks'[u].loop /\ it \in Held(y)
    BY <2>4
  <2>8. \A z : Final(z)' => \A u : HasFuture(u) /\ Sibling(z, u) => \A it \in Held(u) :
            \E y : HasFuture(y)' /\ tasks'[y].loop = tasks[u].loop /\ it \in Held(y)'
    BY <2>5
  <2> QED BY <1>3, <1>5, <2>6, <2>7, <2>8, ResultsStep
<1> QED BY <1>8, <1>9

\* A part has been split off: the two hold what the one did.
LEMMA SplitResults ==
    ASSUME ControlOK, FuturesOK, AwaitsOK, ResultsOK, NEW v \in Workers, NEW w \in Workers,
           NEW t, NEW c, NEW r, NEW s, NEW f, NEW fr, SplitMoves(v, w, t, c, r, s, f, fr),
           Top(v).pc # "await", NEW n, NEW It, SplitRests(t, n, It),
           r.sum = tasks[t].sum \cup It,
           \/ c = t /\ early' = early
           \/ c = Root /\ early' = early \cup {tasks[t].loop}
    PROVE  ResultsOK'
<1>1. /\ n = Len(tasks) + 1 /\ Parts' = Parts \cup {n} /\ n \notin Parts
      /\ Rest(t)' \cup Rest(n)' = Rest(t) \ It /\ It \subseteq Rest(t)
      /\ \A u \in Parts : u # t => Rest(u)' = Rest(u)
  BY DEF SplitRests
<1>2. SplitEffect(t, c, r, s, f, n)
  BY <1>1, SplitTasksEffect
<1>3. /\ Len(futures) \in Nat
      /\ f = NoFuture \/ f = Len(futures) + 1
      /\ f = NoFuture <=> tasks[t].future = NoFuture
      /\ \A x \in 1 .. Len(futures) : futures'[x] = futures[x]
  BY SplitFutures
<1>4. /\ Depth(v) > 0 /\ t = Top(v).task /\ Retopped(v, fr) /\ fr.task = t /\ fr.future = NoFuture
      /\ t \in Parts /\ UNCHANGED <<program, handles, results>>
  BY DEF SplitMoves
<1>5. FramesStay
  <2>1. Top(v).future = NoFuture
    BY <1>4, TopFuture
  <2> QED BY <1>4, <2>1, RetopStays
<1>6. \A x : x # NoFuture => \A u : FrameOf(x, u)' <=> FrameOf(x, u)
  BY <1>5, FrameOfSame
<1>7. /\ \A x : x # f => \A u \in 1 .. Len(tasks) : InList(x, u)' <=> InList(x, u)
      /\ f # NoFuture => InList(f, c)'
  BY <1>1, SplitLists
<1>8. /\ n - 1 = Len(tasks) /\ n \in Nat /\ Len(tasks) \in Nat /\ Root \in 1 .. Len(tasks)
      /\ Parts \subseteq 1 .. Len(tasks) /\ t < n
  BY <1>1, <1>4, SMTT(30) DEF ControlOK, TypeOK, Parts, Root
<1>9. /\ \A u \in Parts : tasks'[u].loop = tasks[u].loop /\ tasks'[u].future = tasks[u].future
      /\ \A u \in Parts : u # t => tasks'[u].done = tasks[u].done /\ tasks'[u].sum = tasks[u].sum
      /\ tasks'[t].done = FALSE /\ tasks'[t].sum = r.sum
      /\ tasks'[n].loop = tasks[t].loop /\ tasks'[n].future = f
      /\ tasks'[n].done = FALSE /\ tasks'[n].sum = {}
  BY <1>2, <1>8 DEF SplitEffect
<1>10. /\ \A u \in Parts : HasFuture(u)' <=> HasFuture(u)
       /\ HasFuture(n)' <=> HasFuture(t)
       /\ \A u : HasFuture(u)' => u \in Parts \/ u = n
       /\ \A u : HasFuture(u) => u \in Parts
  BY <1>1, <1>3, <1>4, <1>9 DEF HasFuture
<1>11. ASSUME NEW u, HasFuture(u)
       PROVE  /\ tasks[u].future \in 1 .. Len(futures) /\ tasks[u].future # NoFuture
              /\ tasks[u].future # f /\ futures'[tasks[u].future] = futures[tasks[u].future]
  <2>1. tasks[u].future \in 1 .. Len(futures) /\ tasks[u].future # NoFuture
    BY <1>11, FutureOf
  <2> QED BY <1>3, <2>1
<1>12. \A x : x # NoFuture => (ByRoot(x)' <=> ByRoot(x))
  BY <1>4, <1>6 DEF ByRoot
<1>13. \A x : x # NoFuture /\ x # f => \A u \in Parts : AwaitedBy(x, u)' <=> AwaitedBy(x, u)
  BY <1>6, <1>7, <1>8 DEF AwaitedBy
<1>14. f # NoFuture => ~ByRoot(f)'
  <2> SUFFICES ASSUME f # NoFuture
               PROVE  ~ByRoot(f)
    BY <1>12
  <2>1. f \notin 1 .. Len(futures)
    BY <1>3
  <2>2. f \notin handles
    BY <2>1 DEF ControlOK, RefsOK
  <2>3. \A y \in Workers : \A d : ~FrameAt(f, y, d)
    BY <2>1 DEF FrameAt, ControlOK, StackOK, FrameOK
  <2> QED BY <2>2, <2>3 DEF ByRoot, FrameOf
<1>15. ASSUME NEW u, Final(u)'
       PROVE  Final(u)
  <2>1. PICK y : y = tasks'[u].future /\ ByRoot(y)' /\ HasFuture(u)'
    BY <1>15, FinalNext
  <2>2. u # n
    <3>1. CASE u = n
      <4>1. f # NoFuture /\ y = f
        BY <1>3, <1>9, <1>10, <2>1, <3>1 DEF HasFuture
      <4> QED BY <1>14, <2>1, <4>1
    <3> QED BY <3>1
  <2>3. u \in Parts /\ HasFuture(u) /\ y = tasks[u].future
    BY <1>9, <1>10, <2>1, <2>2
  <2>4. ByRoot(y)
    BY <1>11, <1>12, <2>1, <2>3
  <2> QED BY <2>3, <2>4 DEF Final
<1>16. ASSUME NEW u, HasFuture(u)'
       PROVE  Owed(u)'
  <2>1. CASE u = n
    <3>1. f # NoFuture /\ InList(f, c)'
      BY <1>3, <1>7, <1>10, <1>16, <2>1 DEF HasFuture
    <3>2. OwedFor(n, f)'
      <4>1. CASE c = t /\ early' = early
        <5>1. AwaitedBy(f, t)'
          BY <3>1, <4>1 DEF AwaitedBy
        <5>2. t \in Parts' /\ t < n /\ tasks'[t].loop = tasks'[n].loop
          BY <1>1, <1>4, <1>8, <1>9
        <5> QED BY <5>1, <5>2 DEF OwedFor
      <4>2. CASE c = Root /\ early' = early \cup {tasks[t].loop}
        <5>1. tasks'[n].loop \in early' /\ InList(f, Root)'
          BY <1>9, <3>1, <4>2
        <5> QED BY <5>1 DEF OwedFor
      <4> QED BY <4>1, <4>2
    <3> QED BY <1>9, <2>1, <3>2, OwedIs
  <2>2. CASE u # n
    <3>1. PICK y : y = tasks[u].future
      OBVIOUS
    <3>2. HasFuture(u) /\ u \in Parts /\ y = tasks'[u].future
      BY <1>9, <1>10, <1>16, <2>2, <3>1
    <3>3. OwedFor(u, y)
      BY <3>1, <3>2, OwedIs DEF ResultsOK, OwedOK
    <3>4. y # NoFuture /\ y # f /\ futures'[y] = futures[y]
      BY <1>11, <3>1, <3>2
    <3>5. early \subseteq early' /\ tasks'[u].loop = tasks[u].loop
      BY <1>9, <3>2
    <3>6. /\ ByRoot(y)' <=> ByRoot(y)
          /\ \A x \in Parts : AwaitedBy(y, x)' <=> AwaitedBy(y, x)
          /\ InList(y, Root)' <=> InList(y, Root)
      BY <1>7, <1>8, <1>12, <1>13, <3>4
    <3>7. OwedFor(u, y)'
      BY <1>1, <1>9, <3>3, <3>4, <3>5, <3>6 DEF OwedFor
    <3> QED BY <3>2, <3>7, OwedIs
  <2> QED BY <2>1, <2>2
<1>17. ResultComplete'
  <2>1. early \subseteq early' /\ \A k : LoopRange(k)' = LoopRange(k)
    BY <1>4 DEF LoopRange
  <2>2. \A k \in 1 .. Len(results) : k \in early \/ results[k] \in {<<>>, <<LoopRange(k)>>}
    BY DEF ResultsOK, ResultComplete, Complete
  <2>3. \A k \in 1 .. Len(results') : k \in early' \/ results'[k] \in {<<>>, <<LoopRange(k)'>>}
    BY <1>4, <2>1, <2>2
  <2> QED BY <2>3 DEF ResultComplete, Complete
<1>18. \A u : HasFuture(u) /\ u # t => Held(u)' = Held(u)
  BY <1>1, <1>9, <1>10, <1>11, HeldSame
<1>19. Held(t) = Held(t)' \cup Held(n)'
  <2>1. Held(t)' = r.sum \cup Rest(t)' /\ Held(n)' = Rest(n)'
    BY <1>9, HeldNext
  <2>2. Held(t) = tasks[t].sum \cup Rest(t)
    BY <1>4, RootFrame DEF Held
  <2> QED BY <1>1, <2>1, <2>2
<1>20. ASSUME NEW u, HasFuture(u)', NEW it \in Held(u)'
       PROVE  \E y : HasFuture(y) /\ tasks[y].loop = tasks'[u].loop /\ it \in Held(y)
  <2>1. CASE u = n
    BY <1>9, <1>10, <1>19, <1>20, <2>1
  <2>2. CASE u # n
    <3>1. HasFuture(u) /\ u \in Parts /\ tasks'[u].loop = tasks[u].loop
      BY <1>9, <1>10, <1>20, <2>2
    <3> QED BY <1>18, <1>19, <1>20, <3>1
  <2> QED BY <2>1, <2>2
<1>21. ASSUME NEW u, HasFuture(u), NEW it \in Held(u)
       PROVE  \E y : HasFuture(y)' /\ tasks'[y].loop = tasks[u].loop /\ it \in Held(y)'
  <2>1. HasFuture(u)' /\ u \in Parts /\ tasks'[u].loop = tasks[u].loop
    BY <1>9, <1>10, <1>21
  <2>2. u = t => HasFuture(n)' /\ tasks'[n].loop = tasks[u].loop
    BY <1>9, <1>10, <1>21
  <2> QED BY <1>18, <1>19, <1>21, <2>1, <2>2
<1>22. \A u \in Parts' : u \notin Parts =>
            \E x \in Parts : /\ tasks'[u].loop = tasks[x].loop
                             /\ tasks'[u].future = NoFuture <=> tasks[x].future = NoFuture
  BY <1>1, <1>3, <1>4, <1>9
<1>23. OwedOK'
  BY <1>16 DEF OwedOK
<1>24. Parts \subseteq Parts' /\ UNCHANGED program
  BY <1>1, <1>4
<1>25. \A u : Final(u)' => Final(u)
  BY <1>15
<1>26. \A u : HasFuture(u)' => \A it \in Held(u)' :
            \E y : HasFuture(y) /\ tasks[y].loop = tasks'[u].loop /\ it \in Held(y)
  BY <1>20
<1>27. \A z : Final(z)' => \A u : HasFuture(u) /\ Sibling(z, u) => \A it \in Held(u) :
            \E y : HasFuture(y)' /\ tasks'[y].loop = tasks[u].loop /\ it \in Held(y)'
  BY <1>21
<1> QED BY <1>9, <1>17, <1>22, <1>23, <1>24, <1>25, <1>26, <1>27, ResultsStep

LEMMA SplitsResults ==
    ASSUME ControlOK, FuturesOK, AwaitsOK, ResultsOK, NEW v \in Workers, NEW w \in Workers,
           SplitInPoll(v, w) \/ SplitInPop(v, w)
    PROVE  ResultsOK'
<1>1. CASE SplitInPoll(v, w)
  <2>1. PICK t, r, s, f, fr, j : PollMoves(v, w, t, r, s, f, fr, j)
    BY <1>1, PollShape
  <2>2. PICK n : SplitRests(t, n, Block(tasks[t].loop, tasks[t].i, j))
    BY <2>1, PollRest
  <2>3. /\ SplitMoves(v, w, t, t, r, s, f, fr) /\ Top(v).pc # "await" /\ early' = early
        /\ r = Ran(tasks[t], j)
    BY <2>1 DEF PollMoves
  <2>4. tasks[t] \in TaskRecord
    <3>1. t \in 1 .. Len(tasks)
      BY <2>3 DEF SplitMoves, Parts
    <3> QED BY <3>1 DEF ControlOK, TypeOK
  <2>5. r.sum = tasks[t].sum \cup Block(tasks[t].loop, tasks[t].i, j)
    BY <2>3, <2>4 DEF Ran, Block, TaskRecord
  <2> QED BY <2>2, <2>3, <2>5, SplitResults
<1>2. CASE SplitInPop(v, w)
  <2>1. PICK t, s, f, fr : PopSplitMoves(v, w, t, s, f, fr)
    BY <1>2, PopSplitShape
  <2>2. PICK n : SplitRests(t, n, {})
    BY <2>1, PopSplitRest
  <2>3. /\ SplitMoves(v, w, t, Root, tasks[t], s, f, fr) /\ Top(v).pc # "await"
        /\ early' = early \cup {tasks[t].loop}
    BY <2>1 DEF PopSplitMoves
  <2>4. tasks[t].sum = tasks[t].sum \cup {}
    OBVIOUS
  <2> QED BY <2>2, <2>3, <2>4, SplitResults
<1> QED BY <1>1, <1>2

LEMMA CreateResults ==
    ASSUME ControlOK, FuturesOK, ResultsOK, NEW b \in BOOLEAN, Create(b)
    PROVE  ResultsOK'
<1>1. PICK n, l, f : CreateMoves(n, l, f)
  BY CreateShape
<1>2. /\ n = Len(tasks) + 1 /\ n \in Nat
      /\ \A u \in 1 .. n - 1 : tasks'[u] = tasks[u]
      /\ l = Len(results) + 1 /\ Len(results') = l /\ results'[l] = <<>>
      /\ \A k \in 1 .. l - 1 : results'[k] = results[k]
      /\ tasks'[n] = NewTask(l, program[l][1], program[l][2], f)
      /\ UNCHANGED <<program, stack, early>>
  BY <1>1 DEF CreateMoves
<1>3. /\ Len(futures) \in Nat
      /\ \/ f = NoFuture /\ handles' = handles
         \/ f = Len(futures) + 1 /\ f # NoFuture /\ handles' = handles \cup {f}
      /\ \A x \in 1 .. Len(futures) : futures'[x] = futures[x]
  BY <1>1 DEF CreateMoves
<1>4. /\ Parts' = Parts \cup {n} /\ n \notin Parts /\ \A u \in Parts : u \in 1 .. n - 1
      /\ \A u \in Parts : Rest(u)' = Rest(u)
      /\ Rest(n)' = LoopRange(l)
  BY <1>1, CreateRest
<1>5. /\ tasks'[n].loop = l /\ tasks'[n].done = FALSE /\ tasks'[n].sum = {}
      /\ tasks'[n].future = f
  BY <1>2 DEF NewTask
<1>6. \A u \in Parts : tasks'[u] = tasks[u]
  BY <1>2, <1>4
<1>7. \A u \in Parts : tasks[u].loop # l
  <2>1. Len(results) \in Nat
    BY DEF ControlOK, TypeOK
  <2>2. \A u \in Parts : tasks[u].loop \in 1 .. Len(results)
    BY DEF ControlOK, RangesOK, RangeOK
  <2> QED BY <1>2, <2>1, <2>2
<1>8. /\ \A u \in Parts : HasFuture(u)' <=> HasFuture(u)
      /\ HasFuture(n)' <=> f # NoFuture
      /\ \A u : HasFuture(u)' => u \in Parts \/ u = n
      /\ \A u : HasFuture(u) => u \in Parts
  BY <1>4, <1>5, <1>6 DEF HasFuture
<1>9. ASSUME NEW u, HasFuture(u)
      PROVE  /\ tasks[u].future \in 1 .. Len(futures) /\ tasks[u].future # NoFuture
             /\ tasks[u].future # f /\ futures'[tasks[u].future] = futures[tasks[u].future]
  <2>1. tasks[u].future \in 1 .. Len(futures) /\ tasks[u].future # NoFuture
    BY <1>9, FutureOf
  <2> QED BY <1>3, <2>1
<1>10. \A u : HasFuture(u) => Held(u)' = Held(u)
  BY <1>4, <1>6, <1>8, <1>9, HeldSame
<1>11. Held(n)' = LoopRange(l)
  BY <1>4, <1>5, HeldNext
<1>12. \A k : LoopRange(k)' = LoopRange(k)
  BY <1>2 DEF LoopRange
<1>13. Whole(n)' = LoopRange(l) /\ \A u \in Parts : Whole(u)' = Whole(u)
  <2>1. \A u : Whole(u)' = LoopRange(tasks'[u].loop)
    BY <1>2 DEF Whole, LoopRange
  <2> QED BY <1>5, <1>6, <2>1 DEF Whole
<1>14. FramesStay
  BY <1>2 DEF FramesStay, FrameAt, Depth
<1>15. \A x : x # NoFuture => \A u : FrameOf(x, u)' <=> FrameOf(x, u)
  BY <1>14, FrameOfSame
<1>16. \A x : x # NoFuture /\ x # f => (ByRoot(x)' <=> ByRoot(x))
  BY <1>3, <1>15 DEF ByRoot
<1>17. \A x : \A u \in 1 .. n - 1 : InList(x, u)' <=> InList(x, u)
  BY <1>2 DEF InList
<1>18. \A x : x # NoFuture => \A u \in Parts : AwaitedBy(x, u)' <=> AwaitedBy(x, u)
  BY <1>4, <1>15, <1>17 DEF AwaitedBy
<1>19. Root \in 1 .. n - 1
  BY <1>2 DEF ControlOK, TypeOK, Root
<1>20. ASSUME NEW u \in Parts, Final(u)'
       PROVE  Final(u)
  <2>1. PICK y : y = tasks'[u].future /\ ByRoot(y)' /\ HasFuture(u)'
    BY <1>20, FinalNext
  <2>2. HasFuture(u) /\ y = tasks[u].future
    BY <1>6, <1>8, <2>1
  <2>3. ByRoot(y)
    BY <1>9, <1>16, <2>1, <2>2
  <2> QED BY <2>2, <2>3 DEF Final
<1>21. \A u : Final(u)' => HasFuture(u)'
  BY DEF Final
<1>22. SiblingsOK'
  <2>1. \A t, u \in Parts : tasks[t].loop = tasks[u].loop => (HasFuture(t) <=> HasFuture(u))
    BY DEF ResultsOK, SiblingsOK, Sibling
  <2>2. \A t, u \in Parts' : tasks'[t].loop = tasks'[u].loop => (HasFuture(t)' <=> HasFuture(u)')
    BY <1>4, <1>5, <1>6, <1>7, <1>8, <2>1
  <2> QED BY <2>2 DEF SiblingsOK, Sibling
<1>23. ASSUME NEW u, HasFuture(u)'
       PROVE  Owed(u)'
  <2>1. CASE u = n
    <3>1. f # NoFuture
      BY <1>8, <1>23, <2>1
    <3>2. ByRoot(f)'
      BY <1>3, <3>1 DEF ByRoot
    <3>3. OwedFor(n, f)'
      BY <3>2 DEF OwedFor
    <3> QED BY <1>5, <2>1, <3>3, OwedIs
  <2>2. CASE u # n
    <3>1. PICK y : y = tasks[u].future
      OBVIOUS
    <3>2. HasFuture(u) /\ u \in Parts /\ y = tasks'[u].future
      BY <1>6, <1>8, <1>23, <2>2, <3>1
    <3>3. OwedFor(u, y)
      BY <3>1, <3>2, OwedIs DEF ResultsOK, OwedOK
    <3>4. y # NoFuture /\ y # f /\ futures'[y] = futures[y]
      BY <1>9, <3>1, <3>2
    <3>5. /\ ByRoot(y)' <=> ByRoot(y)
          /\ \A x \in Parts : AwaitedBy(y, x)' <=> AwaitedBy(y, x)
          /\ InList(y, Root)' <=> InList(y, Root)
      BY <1>16, <1>17, <1>18, <1>19, <3>4
    <3>6. early' = early
      BY <1>2
    <3>7. OwedFor(u, y)'
      BY <1>4, <1>6, <3>2, <3>3, <3>4, <3>5, <3>6 DEF OwedFor
    <3> QED BY <3>2, <3>7, OwedIs
  <2> QED BY <2>1, <2>2
<1>24. FinalOK'
  <2>1. ASSUME NEW t, NEW u, Final(t)', Final(u)', tasks'[t].loop = tasks'[u].loop
        PROVE  t = u
    <3>1. (t \in Parts \/ t = n) /\ (u \in Parts \/ u = n)
      BY <1>8, <1>21, <2>1
    <3>2. CASE t = n \/ u = n
      BY <1>5, <1>6, <1>7, <2>1, <3>1, <3>2
    <3>3. CASE t # n /\ u # n
      <4>1. Final(t) /\ Final(u) /\ Sibling(t, u)
        BY <1>6, <1>20, <2>1, <3>1, <3>3 DEF Sibling
      <4> QED BY <4>1 DEF ResultsOK, FinalOK
    <3> QED BY <3>2, <3>3
  <2> QED BY <2>1 DEF FinalOK, Sibling
<1>25. HeldOK'
  <2>1. \A u : HasFuture(u) => Held(u) \subseteq Whole(u)
    BY DEF ResultsOK, HeldOK
  <2>2. \A u : HasFuture(u)' => Held(u)' \subseteq Whole(u)'
    BY <1>8, <1>10, <1>11, <1>13, <2>1
  <2> QED BY <2>2 DEF HeldOK
<1>26. CompleteOK'
  <2>1. ASSUME NEW t, Final(t)', NEW it \in Whole(t)'
        PROVE  \E u : HasFuture(u)' /\ tasks'[u].loop = tasks'[t].loop /\ it \in Held(u)'
    <3>1. CASE t = n
      BY <1>11, <1>13, <1>21, <2>1, <3>1
    <3>2. CASE t # n
      <4>1. t \in Parts /\ Final(t)
        BY <1>8, <1>20, <1>21, <2>1, <3>2
      <4>2. PICK u : HasFuture(u) /\ Sibling(t, u) /\ it \in Held(u)
        BY <1>13, <2>1, <4>1 DEF ResultsOK, CompleteOK
      <4>3. u \in Parts /\ HasFuture(u)' /\ Held(u)' = Held(u)
        BY <1>8, <1>10, <4>2
      <4>4. tasks'[u].loop = tasks'[t].loop
        BY <1>6, <4>1, <4>2, <4>3 DEF Sibling
      <4> QED BY <4>2, <4>3, <4>4
    <3> QED BY <3>1, <3>2
  <2> QED BY <2>1 DEF CompleteOK, Sibling
<1>27. ResultComplete'
  <2>1. \A k \in 1 .. Len(results) : k \in early \/ results[k] \in {<<>>, <<LoopRange(k)>>}
    BY DEF ResultsOK, ResultComplete, Complete
  <2>2. \A k \in 1 .. l : k = l \/ (k \in 1 .. Len(results) /\ k \in 1 .. l - 1)
    <3>1. Len(results) \in Nat
      BY DEF ControlOK, TypeOK
    <3> QED BY <1>2, <3>1
  <2>3. \A k \in 1 .. Len(results') : k \in early' \/ results'[k] \in {<<>>, <<LoopRange(k)'>>}
    BY <1>2, <1>12, <2>1, <2>2
  <2> QED BY <2>3 DEF ResultComplete, Complete
<1>28. OwedOK'
  BY <1>23 DEF OwedOK
<1> QED BY <1>22, <1>24, <1>25, <1>26, <1>27, <1>28 DEF ResultsOK

LEMMA InitResults ==
    ASSUME Init
    PROVE  ResultsOK
<1>1. Parts = {}
  BY DEF Init, Parts
<1>2. \A u : ~HasFuture(u)
  BY <1>1 DEF HasFuture
<1>3. Len(results) = 0
  BY DEF Init
<1>4. ResultComplete
  BY <1>3 DEF ResultComplete, Complete
<1> QED BY <1>1, <1>2, <1>4 DEF ResultsOK, SiblingsOK, OwedOK, FinalOK, HeldOK, CompleteOK, Final

LEMMA ResultsNext ==
    ASSUME ControlOK, FuturesOK, AwaitsOK, ResultsOK, [Next]_vars
    PROVE  ResultsOK'
<1>1. ASSUME NEW b \in BOOLEAN, Create(b)
      PROVE  ResultsOK'
  BY <1>1, CreateResults
<1>2. CASE EnterBarrier \/ LeaveBarrier \/ \E f \in handles : Await(f)
  BY <1>2, RootResults
<1>3. ASSUME NEW w \in Workers, Pop(w) \/ Receive(w)
      PROVE  ResultsOK'
  BY <1>3, CallResults
<1>4. ASSUME NEW w \in Workers, Start(w) \/ Leave(w)
      PROVE  ResultsOK'
  BY <1>4, RunResults
<1>5. ASSUME NEW w \in Workers, REDUCE(w)
      PROVE  ResultsOK'
  BY <1>5, ReduceResults
<1>6. ASSUME NEW w \in Workers, AwaitReturn(w)
      PROVE  ResultsOK'
  BY <1>6, AwaitResults
<1>7. ASSUME NEW w \in Workers, Return(w)
      PROVE  ResultsOK'
  BY <1>7, ReturnResults
<1>8. ASSUME NEW v \in Workers, NEW w \in Workers, handle_steal_request(v, w)
      PROVE  ResultsOK'
  BY <1>8, StealResults
<1>9. ASSUME NEW v \in Workers, NEW w \in Workers, SplitInPoll(v, w) \/ SplitInPop(v, w)
      PROVE  ResultsOK'
  BY <1>9, SplitsResults
<1>10. CASE UNCHANGED vars \/ \E w \in Workers : Ask(w)
  <2>1. UNCHANGED <<program, tasks, futures, handles, stack, results, early>>
    BY <1>10 DEF vars, Ask
  <2>2. FramesStay /\ \A u \in Parts : Started(u)' <=> Started(u)
    BY <2>1 DEF FramesStay, FrameAt, Started, Depth
  <2> QED BY <2>1, <2>2, StillResults
<1> QED BY <1>1, <1>2, <1>3, <1>4, <1>5, <1>6, <1>7, <1>8, <1>9, <1>10 DEF Next, Run, Terminated

-----------------------------------------------------------------------------
(* Theorems *)

\* Where a task is, how far it has come, and which task sets a future: what
\* every other theorem of this module rests on.
THEOREM ControlHolds == Spec => [](ControlOK /\ FuturesOK)
<1>1. Init => ControlOK /\ FuturesOK
  BY InitControl, InitFutures
<1>2. ControlOK /\ FuturesOK /\ [Next]_vars => (ControlOK /\ FuturesOK)'
  BY ControlStep
<1> QED BY <1>1, <1>2, PTL DEF Spec

\* Whatever the strategy, the bounds of the loops and the number of workers, and
\* however often parts are split again: an iteration has been run once, or it is
\* left to exactly one part, and nothing else is run (split_loop and the three
\* strategies; ASYNC_FOR).
THEOREM IterationsOnceHolds == Spec => []IterationsOnce
<1>1. Init => OnceOK
  BY InitOnce
<1>2. ControlOK /\ FuturesOK /\ OnceOK /\ [Next]_vars => OnceOK'
  BY OnceNext
<1>3. OnceOK => IterationsOnce
  BY OnceIs
<1> QED BY <1>1, <1>2, <1>3, ControlHolds, PTL DEF Spec

\* A future that is allocated on the stack of its creator, without a channel, is
\* set by the same thread, unsynchronized: FUTURE_CONVERT runs before the task
\* leaves the worker, and a part has a channel from the start.
THEOREM SetAtHomeHolds == Spec => []SetAtHome
<1>1. Init => SetAtHome
  BY InitHome
<1>2. ControlOK /\ FuturesOK /\ SetAtHome /\ [Next]_vars => SetAtHome'
  BY HomeStep
<1> QED BY <1>1, <1>2, ControlHolds, PTL DEF Spec

\* A future has one task that sets it and one place where it is awaited, until
\* the result has been taken, but for those of parts of loops split in RT_pop, which
\* nobody awaits: FUTURE_SET never finds the channel full, and REDUCE and AWAIT never
\* use a future that has been freed (split_loop, REDUCE, AWAIT).
THEOREM FutureProtocolHolds == Spec => []FutureProtocol
<1>1. Init => AwaitsOK /\ ResultsOK
  BY InitAwaits, InitResults
<1>2. ControlOK /\ FuturesOK /\ AwaitsOK /\ ResultsOK /\ [Next]_vars => AwaitsOK' /\ ResultsOK'
  BY AwaitsNext, ResultsNext
<1>3. ControlOK /\ FuturesOK /\ AwaitsOK /\ ResultsOK => FutureProtocol
  BY ProtocolFollows
<1> QED BY <1>1, <1>2, <1>3, ControlHolds, PTL DEF Spec

\* Result completeness: whatever AWAIT of a loop returns is the result of all its
\* iterations, REDUCE having collected those of the parts, unless the loop was split
\* in RT_pop.
THEOREM ResultCompleteHolds == Spec => []ResultComplete
<1>1. Init => AwaitsOK /\ ResultsOK
  BY InitAwaits, InitResults
<1>2. ControlOK /\ FuturesOK /\ AwaitsOK /\ ResultsOK /\ [Next]_vars => AwaitsOK' /\ ResultsOK'
  BY AwaitsNext, ResultsNext
<1>3. ResultsOK => ResultComplete
  BY DEF ResultsOK
<1> QED BY <1>1, <1>2, <1>3, ControlHolds, PTL DEF Spec
=============================================================================
