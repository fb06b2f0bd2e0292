-------------------------- MODULE LifecycleProofs ---------------------------
(***************************************************************************)
(* Theorems about Lifecycle, for any number of workers, MAXSTEAL and size  *)
(* of the channel caches.                                                  *)
(*                                                                         *)
(* Together: the barriers keep the workers together; all have passed the   *)
(* same number of them, so that nobody runs before the last one has been   *)
(* through RT_init, or after the first one has begun RT_exit.              *)
(*                                                                         *)
(* Kept: exactly those channels of a worker are not freed that belong to a *)
(* future not awaited yet and, from RT_init until RT_exit, those that the  *)
(* worker keeps for itself or has put on its free list for futures.        *)
(* Their types tell these apart; the other free lists stay empty.          *)
(***************************************************************************)
EXTENDS Lifecycle, SequenceTheorems, FiniteSetTheorems, WellFoundedInduction, TLAPS

-----------------------------------------------------------------------------
(* Barriers *)

Labels == {"outside", "create", "begin", "barrier 1", "in 1", "running", "barrier 2",
           "in 2", "barrier 3", "in 3", "exit", "join", "ended"}

\* The number of barriers a thread at label l has passed; one that waits in a
\* barrier came there in the phase s that has not ended yet: j = s.
Level(l, j, s) ==
    IF l \in {"outside", "create", "begin", "barrier 1"} \/ (l = "in 1" /\ j = s) THEN 0
    ELSE IF l \in {"in 1", "running", "barrier 2"} \/ (l = "in 2" /\ j = s) THEN 1
    ELSE IF l \in {"in 2", "barrier 3"} \/ (l = "in 3" /\ j = s) THEN 2
    ELSE 3

Passed(w) == Level(pc[w], joined_at[w], sense)

Waiting == {w \in Workers : pc[w] \in {"in 1", "in 2", "in 3"} /\ joined_at[w] = sense}

\* All have passed as many barriers as the master; those who wait have been
\* counted; tasks that have to set a future exist only while the master runs.
Open == {f \in futures : f.pc # "set"}

Together ==
    /\ pc \in [Workers -> Labels]
    /\ joined_at \in [Workers -> BOOLEAN] /\ sense \in BOOLEAN
    /\ arrived = Waiting
    /\ \A w \in Workers : Passed(w) = Passed(MASTER_ID)
    /\ pc[MASTER_ID] \notin {"begin", "ended"}
    /\ \A w \in Workers \ {MASTER_ID} : pc[w] \notin {"create", "join"}
    /\ pc[MASTER_ID] = "outside" => \A w \in Workers : pc[w] = "outside"
    /\ Open # {} => pc[MASTER_ID] = "running"

LEMMA Master == MASTER_ID \in Workers
BY NAssumption DEF MASTER_ID, Workers

LEMMA InitTogether == Init => Together
<1> SUFFICES ASSUME Init PROVE Together
  OBVIOUS
<1>1. \A w \in Workers : pc[w] = "outside" /\ joined_at[w] = FALSE
  BY DEF Init
<1>2. pc \in [Workers -> Labels] /\ joined_at \in [Workers -> BOOLEAN] /\ sense \in BOOLEAN
  BY DEF Init, Labels
<1>3. arrived = Waiting /\ Open = {}
  BY <1>1 DEF Init, Waiting, Open
<1>4. \A w \in Workers : Passed(w) = 0
  BY <1>1 DEF Passed, Level
<1> QED BY <1>1, <1>2, <1>3, <1>4, Master DEF Together

\* Nobody else is on the way when the last one arrives.
LEMMA LastArrives ==
    ASSUME NEW S, S \subseteq Workers, NEW w \in Workers, w \notin S,
           ~(Cardinality(S) + 1 < N)
    PROVE  S = Workers \ {w}
<1>1. IsFiniteSet(Workers) /\ Cardinality(Workers) = N /\ N \in Nat
  <2>1. N \in Nat /\ N # 0 /\ 0 \in Int /\ N - 1 \in Int
    BY NAssumption
  <2>2. /\ IsFiniteSet(0 .. N - 1)
        /\ Cardinality(0 .. N - 1) = IF 0 > N - 1 THEN 0 ELSE N - 1 - 0 + 1
    BY <2>1, FS_Interval
  <2> QED BY <2>1, <2>2 DEF Workers
<1>2. IsFiniteSet(Workers \ {w}) /\ Cardinality(Workers \ {w}) = N - 1
  BY <1>1, FS_RemoveElement
<1>3. IsFiniteSet(S) /\ Cardinality(S) <= N - 1 /\ Cardinality(S) \in Nat
  BY <1>1, <1>2, FS_Subset, FS_CardinalityType
<1>4. Cardinality(S) = Cardinality(Workers \ {w})
  BY <1>1, <1>2, <1>3
<1> QED BY <1>2, <1>4, FS_Subset

\* A thread goes from one label to another one on the same level; the barrier
\* stays as it is.
LEMMA MoveTogether ==
    ASSUME Together, NEW w \in Workers, NEW l \in Labels, pc' = [pc EXCEPT ![w] = l],
           UNCHANGED <<arrived, sense, joined_at, futures>>,
           Level(l, joined_at[w], sense) = Passed(w),
           (l \in {"in 1", "in 2", "in 3"} /\ joined_at[w] = sense) <=> w \in Waiting,
           l # "outside", pc[MASTER_ID] = "outside" => w = MASTER_ID,
           IF w = MASTER_ID THEN l \notin {"begin", "ended"} /\ (l # "running" => Open = {})
           ELSE l \notin {"create", "join"}
    PROVE  Together'
<1>1. pc' \in [Workers -> Labels] /\ pc'[w] = l /\ \A v \in Workers \ {w} : pc'[v] = pc[v]
  BY DEF Together
<1>2. joined_at' \in [Workers -> BOOLEAN] /\ sense' \in BOOLEAN
  BY DEF Together
<1>3. Waiting' = Waiting
  BY <1>1 DEF Waiting
<1>4. \A v \in Workers : Passed(v)' = Passed(v)
  BY <1>1 DEF Passed
<1>5. /\ arrived' = Waiting'
      /\ \A v \in Workers : Passed(v)' = Passed(MASTER_ID)'
  BY <1>3, <1>4, Master DEF Together
<1>6. /\ pc'[MASTER_ID] \notin {"begin", "ended"}
      /\ \A v \in Workers \ {MASTER_ID} : pc'[v] \notin {"create", "join"}
      /\ pc'[MASTER_ID] # "outside"
      /\ Open' # {} => pc'[MASTER_ID] = "running"
  <2>1. Open' = Open
    BY DEF Open
  <2> QED BY <1>1, <2>1, Master DEF Together
<1> QED BY <1>1, <1>2, <1>5, <1>6 DEF Together

\* The first threads to come to a barrier wait there.
LEMMA WaitTogether ==
    ASSUME Together, NEW w \in Workers, Arrive(w), Cardinality(arrived) + 1 < BarrierCount
    PROVE  Together'
<1>1. /\ pc[w] \in Barriers /\ arrived' = arrived \cup {w} /\ sense' = sense
      /\ joined_at' = [joined_at EXCEPT ![w] = sense] /\ pc' = [pc EXCEPT ![w] = In(pc[w])]
      /\ Open' = Open
  BY DEF Arrive, Goto, Open
<1>2. /\ In(pc[w]) \in {"in 1", "in 2", "in 3"}
      /\ Level(In(pc[w]), sense, sense) = Level(pc[w], joined_at[w], sense)
  BY <1>1 DEF Barriers, In, Level
<1>3. /\ pc' \in [Workers -> Labels] /\ pc'[w] = In(pc[w])
      /\ \A v \in Workers \ {w} : pc'[v] = pc[v]
  BY <1>1, <1>2 DEF Together, Labels
<1>4. /\ joined_at' \in [Workers -> BOOLEAN] /\ joined_at'[w] = sense
      /\ \A v \in Workers \ {w} : joined_at'[v] = joined_at[v]
  BY <1>1 DEF Together
<1>5. Waiting' = Waiting \cup {w}
  BY <1>1, <1>2, <1>3, <1>4 DEF Waiting
<1>6. \A v \in Workers : Passed(v)' = Passed(v)
  BY <1>1, <1>2, <1>3, <1>4 DEF Passed
<1>7. /\ arrived' = Waiting'
      /\ \A v \in Workers : Passed(v)' = Passed(MASTER_ID)'
  BY <1>1, <1>5, <1>6, Master DEF Together
<1>8. /\ pc'[MASTER_ID] \notin {"begin", "ended"}
      /\ \A v \in Workers \ {MASTER_ID} : pc'[v] \notin {"create", "join"}
      /\ pc'[MASTER_ID] # "outside"
      /\ Open' # {} => pc'[MASTER_ID] = "running"
  <2>1. pc[MASTER_ID] # "outside"
    BY <1>1 DEF Together, Barriers
  <2>2. w = MASTER_ID => Open = {}
    BY <1>1 DEF Together, Barriers
  <2> QED BY <1>1, <1>2, <1>3, <2>1, <2>2, Master DEF Together
<1>9. sense' \in BOOLEAN
  BY <1>1 DEF Together
<1> QED BY <1>3, <1>4, <1>7, <1>8, <1>9 DEF Together

\* The last one lets all of them pass.
LEMMA PassTogether ==
    ASSUME Together, NEW w \in Workers, Arrive(w), ~(Cardinality(arrived) + 1 < BarrierCount)
    PROVE  Together'
<1>1. /\ pc[w] \in Barriers /\ arrived' = {} /\ sense' = ~sense
      /\ joined_at' = [joined_at EXCEPT ![w] = sense] /\ pc' = [pc EXCEPT ![w] = In(pc[w])]
      /\ Open' = Open
  BY DEF Arrive, Goto, Open
<1>2. In(pc[w]) \in {"in 1", "in 2", "in 3"}
  BY <1>1 DEF Barriers, In
<1>3. /\ pc' \in [Workers -> Labels] /\ pc'[w] = In(pc[w])
      /\ \A v \in Workers \ {w} : pc'[v] = pc[v]
  BY <1>1, <1>2 DEF Together, Labels
<1>4. /\ joined_at' \in [Workers -> BOOLEAN] /\ joined_at'[w] = sense
      /\ \A v \in Workers \ {w} : joined_at'[v] = joined_at[v]
  BY <1>1 DEF Together
<1>5. sense' \in BOOLEAN /\ sense' # sense
  BY <1>1 DEF Together
<1>6. arrived = Workers \ {w}
  <2>1. arrived \subseteq Workers /\ w \notin arrived
    BY <1>1 DEF Together, Waiting, Barriers
  <2> QED BY <2>1, LastArrives DEF BarrierCount
<1>7. \A v \in Workers : pc'[v] \in {"in 1", "in 2", "in 3"} /\ joined_at'[v] = sense
  BY <1>2, <1>3, <1>4, <1>6 DEF Together, Waiting
<1>8. Waiting' = {}
  BY <1>5, <1>7 DEF Waiting
<1>9. \A v \in Workers : Level(pc'[v], sense, sense) = Level(pc'[MASTER_ID], sense, sense)
  <2>1. Level(In(pc[w]), sense, sense) = Passed(w)
    BY <1>1 DEF Barriers, In, Level, Passed
  <2>2. \A v \in Workers : Level(pc'[v], sense, sense) = Passed(v)
    <3>1. \A v \in Workers \ {w} : joined_at[v] = sense
      BY <1>6 DEF Together, Waiting
    <3> QED BY <1>3, <2>1, <3>1 DEF Passed
  <2> QED BY <2>2, Master DEF Together
<1>10. \A v \in Workers : Passed(v)' = Passed(MASTER_ID)'
  <2>1. \A l1, l2 \in {"in 1", "in 2", "in 3"} :
          Level(l1, sense, sense) = Level(l2, sense, sense) => l1 = l2
    <3>1. /\ Level("in 1", sense, sense) = 0
          /\ Level("in 2", sense, sense) = 1
          /\ Level("in 3", sense, sense) = 2
      BY DEF Level
    <3>2. 0 # 1 /\ 0 # 2 /\ 1 # 2
      OBVIOUS
    <3> QED BY <3>1, <3>2, Zenon
  <2>2. \A v \in Workers : pc'[v] = pc'[MASTER_ID]
    BY <1>7, <1>9, <2>1, Master
  <2> QED BY <1>7, <2>2, Master DEF Passed
<1>11. /\ pc'[MASTER_ID] \notin {"begin", "ended", "outside"}
       /\ \A v \in Workers \ {MASTER_ID} : pc'[v] \notin {"create", "join"}
  BY <1>7, Master
<1>12. Open' = {}
  <2>1. CASE w = MASTER_ID
    BY <1>1, <2>1 DEF Together, Barriers
  <2>2. CASE w # MASTER_ID
    <3>1. pc[MASTER_ID] \in {"in 1", "in 2", "in 3"}
      BY <1>3, <1>7, <2>2, Master
    <3> QED BY <1>1, <3>1 DEF Together
  <2> QED BY <2>1, <2>2
<1> QED BY <1>1, <1>3, <1>4, <1>5, <1>8, <1>10, <1>11, <1>12 DEF Together


\* A thread starts, leaves a barrier, is told to exit, or exits.
LEMMA StepsTogether ==
    ASSUME Together, NEW w \in Workers,
           \/ CreateThread(w) \/ RT_init(w) \/ Depart(w) \/ RT_EXIT_FN(w) \/ RT_exit(w)
    PROVE  Together'
<1>1. CASE CreateThread(w)
  <2>1. /\ pc[MASTER_ID] = "create" /\ pc[w] = "outside" /\ pc' = [pc EXCEPT ![w] = "begin"]
        /\ UNCHANGED <<arrived, sense, joined_at, futures>>
    BY <1>1 DEF CreateThread, Goto, barrier
  <2>2. "begin" \in Labels /\ w # MASTER_ID /\ w \notin Waiting
    BY <2>1 DEF Labels, Waiting
  <2>3. Level("begin", joined_at[w], sense) = Passed(w)
    BY <2>1 DEF Level, Passed
  <2> QED BY <2>1, <2>2, <2>3, MoveTogether
<1>2. CASE RT_init(w)
  <2>1. /\ IF w = MASTER_ID THEN pc[w] = "create" ELSE pc[w] = "begin"
        /\ pc' = [pc EXCEPT ![w] = "barrier 1"]
        /\ UNCHANGED <<arrived, sense, joined_at, futures>>
    BY <1>2 DEF RT_init, Goto, barrier
  <2>2. "barrier 1" \in Labels /\ w \notin Waiting /\ pc[w] \in {"create", "begin"}
    BY <2>1 DEF Labels, Waiting
  <2>3. Level("barrier 1", joined_at[w], sense) = Passed(w)
    BY <2>2 DEF Level, Passed
  <2>4. pc[MASTER_ID] # "outside" /\ (w = MASTER_ID => Open = {})
    BY <2>2, Master DEF Together
  <2> QED BY <2>1, <2>2, <2>3, <2>4, MoveTogether
<1>3. CASE Depart(w)
  <2>1. /\ pc[w] \in {"in 1", "in 2", "in 3"} /\ joined_at[w] # sense
        /\ pc' = [pc EXCEPT ![w] = After(pc[w])]
        /\ UNCHANGED <<arrived, sense, joined_at, futures>>
    BY <1>3 DEF Depart, Goto, barrier
  <2>2. After(pc[w]) \in {"running", "barrier 3", "exit"} /\ w \notin Waiting
    BY <2>1 DEF After, Waiting
  <2>3. Level(After(pc[w]), joined_at[w], sense) = Passed(w)
    BY <2>1 DEF Level, Passed, After
  <2>4. pc[MASTER_ID] # "outside" /\ (w = MASTER_ID => Open = {})
    BY <2>1, Master DEF Together
  <2>5. After(pc[w]) \in Labels
    BY <2>2 DEF Labels
  <2> QED BY <2>1, <2>2, <2>3, <2>4, <2>5, MoveTogether
<1>4. CASE RT_EXIT_FN(w)
  <2>1. /\ pc[w] = "running" /\ (w = MASTER_ID => Open = {})
        /\ pc' = [pc EXCEPT ![w] = "barrier 2"]
        /\ UNCHANGED <<arrived, sense, joined_at, futures>>
    BY <1>4 DEF RT_EXIT_FN, Goto, barrier, Open
  <2>2. "barrier 2" \in Labels /\ w \notin Waiting
    BY <2>1 DEF Labels, Waiting
  <2>3. Level("barrier 2", joined_at[w], sense) = Passed(w)
    BY <2>1 DEF Level, Passed
  <2>4. pc[MASTER_ID] # "outside"
    BY <2>1, Master DEF Together
  <2> QED BY <2>1, <2>2, <2>3, <2>4, MoveTogether
<1>5. CASE RT_exit(w)
  <2> DEFINE l == IF w = MASTER_ID THEN "join" ELSE "ended"
  <2>1. /\ pc[w] = "exit" /\ pc' = [pc EXCEPT ![w] = l]
        /\ UNCHANGED <<arrived, sense, joined_at, futures>>
    BY <1>5 DEF RT_exit, Goto, barrier
  <2>2. l \in Labels /\ w \notin Waiting /\ l \in {"join", "ended"}
    BY <2>1 DEF Labels, Waiting
  <2>3. Level(l, joined_at[w], sense) = Passed(w)
    BY <2>1, <2>2 DEF Level, Passed
  <2>4. pc[MASTER_ID] # "outside" /\ (w = MASTER_ID => Open = {})
    BY <2>1, Master DEF Together
  <2>5. IF w = MASTER_ID THEN l = "join" ELSE l = "ended"
    OBVIOUS
  <2> HIDE DEF l
  <2> QED BY <2>1, <2>2, <2>3, <2>4, <2>5, MoveTogether
<1> QED BY <1>1, <1>2, <1>3, <1>4, <1>5

LEMMA JoinTogether == Together /\ Join => Together'
<1> SUFFICES ASSUME Together, Join PROVE Together'
  OBVIOUS
<1>1. /\ pc[MASTER_ID] = "join" /\ \A v \in Workers \ {MASTER_ID} : pc[v] = "ended"
      /\ pc' = [v \in Workers |-> "outside"]
      /\ UNCHANGED <<arrived, sense, joined_at, futures>>
  BY DEF Join, barrier
<1>2. pc' \in [Workers -> Labels] /\ \A v \in Workers : pc'[v] = "outside"
  BY <1>1 DEF Labels
<1>3. Open' = {}
  BY <1>1 DEF Together, Open
<1>4. Waiting = {} /\ Waiting' = {}
  BY <1>1, <1>2 DEF Waiting
<1>5. \A v \in Workers : Passed(v)' = 0
  BY <1>2 DEF Passed, Level
<1>6. /\ joined_at' \in [Workers -> BOOLEAN] /\ sense' \in BOOLEAN
      /\ arrived' = Waiting'
  BY <1>1, <1>4 DEF Together
<1> QED BY <1>2, <1>3, <1>5, <1>6, Master DEF Together

LEMMA StartTogether == Together /\ tasking_init => Together'
<1> SUFFICES ASSUME Together, tasking_init PROVE Together'
  OBVIOUS
<1>1. /\ pc[MASTER_ID] = "outside" /\ arrived' = {} /\ pc' = [pc EXCEPT ![MASTER_ID] = "create"]
      /\ UNCHANGED <<sense, joined_at, futures>>
  BY DEF tasking_init, Goto
<1>2. Waiting = {} /\ Open = {} /\ "create" \in Labels
  BY <1>1 DEF Together, Waiting, Labels
<1>3. arrived' = arrived
  BY <1>1, <1>2 DEF Together
<1>4. Level("create", joined_at[MASTER_ID], sense) = Passed(MASTER_ID)
  BY <1>1 DEF Level, Passed
<1> QED BY <1>1, <1>2, <1>3, <1>4, Master, MoveTogether

\* Futures come and go while the master runs.
LEMMA FuturesTogether ==
    ASSUME Together, UNCHANGED <<pc, barrier>>,
           Open' # {} => pc[MASTER_ID] = "running"
    PROVE  Together'
<1>1. \A w \in Workers : Passed(w)' = Passed(w)
  BY DEF Passed, barrier
<1>2. Waiting' = Waiting
  BY DEF Waiting, barrier
<1>3. UNCHANGED <<arrived, sense, joined_at, pc>>
  BY DEF barrier
<1> QED BY <1>1, <1>2, <1>3, Master DEF Together

LEMMA NextTogether == Together /\ [Next]_vars => Together'
<1> SUFFICES ASSUME Together, [Next]_vars PROVE Together'
  OBVIOUS
<1>1. ASSUME NEW w \in Workers, Arrive(w) PROVE Together'
  BY <1>1, WaitTogether, PassTogether
<1>2. ASSUME NEW w \in Workers, NEW v \in Workers, Convert(w, v) PROVE Together'
  BY <1>2, FuturesTogether DEF Convert
<1>3. ASSUME NEW f \in futures, SetCopy(f) \/ SetAdvance(f) \/ RT_force_future(f) PROVE Together'
  <2>1. UNCHANGED <<pc, barrier>>
    BY <1>3 DEF SetCopy, SetAdvance, RT_force_future
  <2>2. pc[MASTER_ID] = "running"
    BY <1>3 DEF Together, SetCopy, SetAdvance, RT_force_future, Open
  <2> QED BY <2>1, <2>2, FuturesTogether
<1>4. CASE UNCHANGED vars
  BY <1>4, FuturesTogether DEF vars, Together, Open
<1> QED BY <1>1, <1>2, <1>3, <1>4, StepsTogether, JoinTogether, StartTogether DEF Next, Thread

-----------------------------------------------------------------------------
(* What a worker's channels are used for.  In the following operators, c are *)
(* the channels of worker w, s the ones on its free list for futures, R and  *)
(* T its channels for requests and tasks, and F the futures it has made.     *)

Types == {"requests", "tasks", "future"}
Chans == [type : Types, head : {0, 1}, buffer : Nat, freed : Nat]
Pointers == Workers \X Nat
Futures == [id : Nat, chan : Pointers, home : Workers, setter : Workers,
            pc : {"unset", "copied", "set"}]

\* p points to one of the channels c of worker w.
Points(p, w, c, type) ==
    p \in Pointers /\ p[1] = w /\ p[2] \in 1 .. Len(c) /\ c[p[2]].type = type

\* The channel of future f holds its result once it is set, and nothing before.
Result(f, c) ==
    /\ c[f.chan[2]].head = IF f.pc = "set" THEN 1 ELSE 0
    /\ f.pc # "unset" => c[f.chan[2]].buffer = f.id

\* p is the channel R for requests, a channel T[i] for tasks, the channel of one
\* of the futures F, or on the free list s.
Held(p, s, R, T, F) ==
    \/ p = R
    \/ \E i \in 1 .. MAXSTEAL : p = T[i]
    \/ \E f \in F : p = f.chan
    \/ \E i \in 1 .. Len(s) : p = s[i]

Own(w, c, R, T) ==
    /\ Points(R, w, c, "requests")
    /\ \A i \in 1 .. MAXSTEAL : Points(T[i], w, c, "tasks")
    /\ \A i, j \in 1 .. MAXSTEAL : T[i] = T[j] => i = j

OfFutures(w, c, F) ==
    /\ \A f \in F : Points(f.chan, w, c, "future") /\ Result(f, c)
    /\ \A f, g \in F : f.chan = g.chan => f = g

OnList(w, c, s, F) ==
    /\ \A i \in 1 .. Len(s) : Points(s[i], w, c, "future") /\ c[s[i][2]].head = 0
    /\ \A i, j \in 1 .. Len(s) : s[i] = s[j] => i = j
    /\ \A i \in 1 .. Len(s) : \A f \in F : s[i] # f.chan

\* The channels that nobody keeps have been freed.
FreedOnce(w, c, s, R, T, F) ==
    \A k \in 1 .. Len(c) :
        /\ Held(<<w, k>>, s, R, T, F) => c[k].freed = 0
        /\ ~Held(<<w, k>>, s, R, T, F) => c[k].freed = 1

Owned(w, c, s, R, T, F) ==
    /\ Own(w, c, R, T) /\ OfFutures(w, c, F) /\ OnList(w, c, s, F)
    /\ FreedOnce(w, c, s, R, T, F)

\* The channels of a worker before RT_init and after RT_exit
Remain(w, c, F) ==
    /\ OfFutures(w, c, F)
    /\ \A k \in 1 .. Len(c) :
        /\ (\E f \in F : <<w, k>> = f.chan) => c[k].freed = 0
        /\ ~(\E f \in F : <<w, k>> = f.chan) => c[k].freed = 1

LEMMA SamePointer ==
    ASSUME NEW p \in Pointers, NEW q \in Pointers, p[1] = q[1], p[2] = q[2]
    PROVE  p = q
BY DEF Pointers

LEMMA FrontIs ==
    ASSUME NEW S, NEW s \in Seq(S), s # <<>>
    PROVE  /\ Front(s) \in Seq(S) /\ Len(Front(s)) = Len(s) - 1
           /\ \A i \in 1 .. Len(s) - 1 : Front(s)[i] = s[i]
<1> DEFINE n == Len(s) - 1
<1>1. Len(s) \in Nat /\ Len(s) # 0 /\ n \in Nat /\ n <= Len(s)
  OBVIOUS
<1>2. /\ SubSeq(s, 1, n) \in Seq(S) /\ Len(SubSeq(s, 1, n)) = IF 1 <= n THEN n - 1 + 1 ELSE 0
      /\ \A i \in 1 .. n - 1 + 1 : SubSeq(s, 1, n)[i] = s[1 + i - 1]
  <2>1. 1 \in 1 .. Len(s) + 1 /\ n \in 1 - 1 .. Len(s)
    BY <1>1
  <2> HIDE DEF n
  <2> QED BY <2>1, SubSeqProperties
<1> HIDE DEF n
<1>3. n - 1 + 1 = n /\ \A i \in 1 .. n : 1 + i - 1 = i
  BY <1>1
<1>4. Len(SubSeq(s, 1, n)) = n
  BY <1>1, <1>2
<1>5. \A i \in 1 .. n : SubSeq(s, 1, n)[i] = s[i]
  BY <1>2, <1>3
<1> QED BY <1>2, <1>4, <1>5, Zenon DEF Front, n

\* A new channel for a new future
LEMMA OwnedNew ==
    ASSUME NEW w \in Workers, NEW c \in Seq(Chans), NEW s \in Seq(Pointers), NEW R, NEW T,
           NEW F \in SUBSET Futures, Owned(w, c, s, R, T, F),
           NEW f \in Futures, f.chan = <<w, Len(c) + 1>>, f.pc = "unset"
    PROVE  Owned(w, Append(c, NewChannel("future")), s, R, T, F \cup {f})
<1> DEFINE d == Append(c, NewChannel("future"))
<1> DEFINE n == Len(c) + 1
<1>1. /\ Len(c) \in Nat /\ Len(d) = n /\ \A k \in 1 .. Len(c) : d[k] = c[k]
      /\ d[n] = [type |-> "future", head |-> 0, buffer |-> 0, freed |-> 0]
      /\ n \in 1 .. n /\ n \in Nat /\ n \notin 1 .. Len(c) /\ 1 .. n = (1 .. Len(c)) \cup {n}
  BY DEF NewChannel
<1> HIDE DEF d
<1>2. \A p, type : Points(p, w, c, type) => Points(p, w, d, type) /\ d[p[2]] = c[p[2]] /\ p # f.chan
  BY <1>1 DEF Points
<1>3. Own(w, d, R, T)
  BY <1>2 DEF Owned, Own
<1>4. f.chan \in Pointers /\ f.chan[1] = w /\ f.chan[2] = n
  BY <1>1 DEF Pointers
<1> HIDE DEF n
<1>5. OfFutures(w, d, F \cup {f})
  <2>1. Points(f.chan, w, d, "future") /\ Result(f, d)
    BY <1>1, <1>4 DEF Points, Result
  <2>2. \A g \in F : Points(g.chan, w, d, "future") /\ Result(g, d) /\ g.chan # f.chan
    <3>1. \A g \in F : Points(g.chan, w, c, "future") /\ Result(g, c)
      BY DEF Owned, OfFutures
    <3>2. \A g \in F : d[g.chan[2]] = c[g.chan[2]]
      BY <1>2, <3>1
    <3>3. \A g \in F : Result(g, d)
      BY <3>1, <3>2 DEF Result
    <3> QED BY <1>2, <3>1, <3>3
  <2> QED BY <2>1, <2>2 DEF Owned, OfFutures
<1>6. OnList(w, d, s, F \cup {f})
  BY <1>2 DEF Owned, OnList
<1>7. FreedOnce(w, d, s, R, T, F \cup {f})
  <2>1. \A p : Held(p, s, R, T, F \cup {f}) <=> Held(p, s, R, T, F) \/ p = f.chan
    BY DEF Held
  <2>2. <<w, n>> = f.chan /\ d[n].freed = 0
    BY <1>1, <1>4 DEF n
  <2>3. \A k \in 1 .. Len(c) : <<w, k>> # f.chan
    BY <1>1, <1>4
  <2>4. \A k \in 1 .. Len(d) : k \in 1 .. Len(c) \/ k = n
    BY <1>1
  <2>5. Held(f.chan, s, R, T, F \cup {f})
    BY <2>1
  <2>6. \A k \in 1 .. Len(c) :
          /\ Held(<<w, k>>, s, R, T, F \cup {f}) => c[k].freed = 0
          /\ ~Held(<<w, k>>, s, R, T, F \cup {f}) => c[k].freed = 1
    BY <2>1, <2>3 DEF Owned, FreedOnce
  <2> SUFFICES ASSUME NEW k \in 1 .. Len(d)
               PROVE  /\ Held(<<w, k>>, s, R, T, F \cup {f}) => d[k].freed = 0
                      /\ ~Held(<<w, k>>, s, R, T, F \cup {f}) => d[k].freed = 1
    BY DEF FreedOnce
  <2>7. CASE k = n
    <3>1. <<w, k>> = f.chan /\ d[k].freed = 0
      BY <2>2, <2>7, Zenon
    <3> QED BY <2>5, <3>1, Zenon
  <2>8. CASE k \in 1 .. Len(c)
    <3>1. d[k] = c[k]
      BY <1>1, <2>8
    <3>2. d[k].freed = c[k].freed
      BY <3>1
    <3> QED BY <2>6, <2>8, <3>2, Zenon
  <2> QED BY <2>4, <2>7, <2>8
<1> QED BY <1>3, <1>5, <1>6, <1>7 DEF Owned, d

\* A cached channel for a new future
LEMMA OwnedTake ==
    ASSUME NEW w \in Workers, NEW c \in Seq(Chans), NEW s \in Seq(Pointers), NEW R, NEW T,
           NEW F \in SUBSET Futures, Owned(w, c, s, R, T, F),
           s # <<>>, NEW f \in Futures, f.chan = Last(s), f.pc = "unset"
    PROVE  Owned(w, c, Front(s), R, T, F \cup {f})
<1> DEFINE t == Front(s)
<1> DEFINE n == Len(s)
<1>1. /\ n \in Nat /\ n # 0 /\ Len(t) = n - 1 /\ \A i \in 1 .. n - 1 : t[i] = s[i]
      /\ n \in 1 .. n /\ n \notin 1 .. n - 1 /\ 1 .. n = (1 .. n - 1) \cup {n}
      /\ f.chan = s[n]
  <2>1. n \in Nat /\ n # 0
    OBVIOUS
  <2>2. f.chan = s[n] /\ t = SubSeq(s, 1, n - 1)
    BY DEF Front, Last
  <2>3. Len(t) = n - 1 /\ \A i \in 1 .. n - 1 : t[i] = s[i]
    BY <2>1, FrontIs
  <2> HIDE DEF n, t
  <2>4. n \in 1 .. n /\ n \notin 1 .. n - 1 /\ 1 .. n = (1 .. n - 1) \cup {n}
    BY <2>1
  <2> QED BY <2>1, <2>2, <2>3, <2>4
<1> HIDE DEF t, n
<1>2. OfFutures(w, c, F \cup {f})
  <2>1. Points(f.chan, w, c, "future") /\ Result(f, c)
    BY <1>1 DEF Owned, OnList, Result, n
  <2>2. \A g \in F : g.chan # f.chan
    BY <1>1 DEF Owned, OnList, n
  <2> QED BY <2>1, <2>2 DEF Owned, OfFutures
<1>3. OnList(w, c, t, F \cup {f})
  <2>1. \A i \in 1 .. n - 1 : t[i] # f.chan
    BY <1>1 DEF Owned, OnList, n
  <2> QED BY <1>1, <2>1 DEF Owned, OnList, n
<1>4. FreedOnce(w, c, t, R, T, F \cup {f})
  <2>1. \A p : (\E i \in 1 .. Len(s) : p = s[i]) <=> (\E i \in 1 .. Len(t) : p = t[i]) \/ p = f.chan
    BY <1>1 DEF n
  <2>2. \A p : Held(p, t, R, T, F \cup {f}) <=> Held(p, s, R, T, F)
    BY <2>1 DEF Held
  <2> QED BY <2>2 DEF Owned, FreedOnce
<1> QED BY <1>2, <1>3, <1>4 DEF Owned, t

\* The task of future f sets the channel's buffer, or its head.
LEMMA OwnedSet ==
    ASSUME NEW w \in Workers, NEW c \in Seq(Chans), NEW s \in Seq(Pointers), NEW R, NEW T,
           NEW F \in SUBSET Futures, Owned(w, c, s, R, T, F),
           NEW f \in F, NEW g \in Futures, g.chan = f.chan,
           NEW x \in Chans, x.type = c[f.chan[2]].type, x.freed = c[f.chan[2]].freed,
           x.head = IF g.pc = "set" THEN 1 ELSE 0, g.pc # "unset" => x.buffer = g.id
    PROVE  Owned(w, [c EXCEPT ![f.chan[2]] = x], s, R, T, (F \ {f}) \cup {g})
<1> DEFINE n == f.chan[2]
<1> DEFINE d == [c EXCEPT ![n] = x]
<1> DEFINE G == (F \ {f}) \cup {g}
<1>1. Points(f.chan, w, c, "future")
  BY DEF Owned, OfFutures
<1>2. n \in 1 .. Len(c) /\ Len(d) = Len(c) /\ d[n] = x /\ \A k \in 1 .. Len(c) : k # n => d[k] = c[k]
  BY <1>1 DEF Points
<1>3. \A k \in 1 .. Len(c) : d[k].type = c[k].type /\ d[k].freed = c[k].freed
  BY <1>2
<1> HIDE DEF d
<1>4. \A p, type : Points(p, w, c, type) => Points(p, w, d, type) /\ p[2] \in 1 .. Len(c)
  BY <1>2, <1>3 DEF Points
<1>5. \A p, type : Points(p, w, c, type) /\ p # f.chan => p[2] # n
  BY <1>1, SamePointer DEF Points
<1>6. Own(w, d, R, T)
  BY <1>4 DEF Owned, Own
<1> HIDE DEF n
<1>7. OfFutures(w, d, G)
  <2>1. Points(g.chan, w, d, "future") /\ Result(g, d)
    <3>1. g.chan[2] = n /\ d[g.chan[2]] = x
      BY <1>2 DEF n
    <3> QED BY <1>1, <1>4, <3>1 DEF Result
  <2>2. \A h \in F \ {f} : Points(h.chan, w, c, "future") /\ Result(h, c) /\ h.chan # f.chan
    BY DEF Owned, OfFutures
  <2>3. \A h \in F \ {f} : d[h.chan[2]] = c[h.chan[2]]
    BY <1>2, <1>4, <1>5, <2>2
  <2>4. \A h \in F \ {f} : Points(h.chan, w, d, "future") /\ Result(h, d)
    BY <1>4, <2>2, <2>3 DEF Result
  <2>5. \A h1, h2 \in G : h1.chan = h2.chan => h1 = h2
    BY <2>2 DEF Owned, OfFutures
  <2> QED BY <2>1, <2>4, <2>5 DEF OfFutures
<1>8. OnList(w, d, s, G)
  <2>1. \A i \in 1 .. Len(s) : Points(s[i], w, c, "future") /\ c[s[i][2]].head = 0 /\ s[i] # f.chan
    BY DEF Owned, OnList
  <2>2. \A i \in 1 .. Len(s) : d[s[i][2]] = c[s[i][2]]
    BY <1>2, <1>4, <1>5, <2>1
  <2>3. \A i \in 1 .. Len(s) : Points(s[i], w, d, "future") /\ d[s[i][2]].head = 0
    BY <1>4, <2>1, <2>2
  <2>4. \A i \in 1 .. Len(s) : \A h \in G : s[i] # h.chan
    BY <2>1 DEF Owned, OnList
  <2> QED BY <2>3, <2>4 DEF Owned, OnList
<1>9. FreedOnce(w, d, s, R, T, G)
  <2>1. \A p : (\E h \in F : p = h.chan) <=> (\E h \in G : p = h.chan)
    OBVIOUS
  <2>2. \A p : Held(p, s, R, T, G) <=> Held(p, s, R, T, F)
    BY <2>1 DEF Held
  <2> HIDE DEF G
  <2> QED BY <1>2, <1>3, <2>2 DEF Owned, FreedOnce
<1> QED BY <1>6, <1>7, <1>8, <1>9 DEF Owned, d, n

\* A future is awaited, and its channel put on the free list ...
LEMMA OwnedCache ==
    ASSUME NEW w \in Workers, NEW c \in Seq(Chans), NEW s \in Seq(Pointers), NEW R, NEW T,
           NEW F \in SUBSET Futures, Owned(w, c, s, R, T, F),
           NEW f \in F, NEW x \in Chans, x.type = c[f.chan[2]].type,
           x.freed = c[f.chan[2]].freed, x.head = 0
    PROVE  Owned(w, [c EXCEPT ![f.chan[2]] = x], Append(s, f.chan), R, T, F \ {f})
<1> DEFINE n == f.chan[2]
<1> DEFINE d == [c EXCEPT ![n] = x]
<1> DEFINE G == F \ {f}
<1> DEFINE t == Append(s, f.chan)
<1>1. Points(f.chan, w, c, "future")
  BY DEF Owned, OfFutures
<1>2. n \in 1 .. Len(c) /\ Len(d) = Len(c) /\ d[n] = x /\ \A k \in 1 .. Len(c) : k # n => d[k] = c[k]
  BY <1>1 DEF Points
<1>3. \A k \in 1 .. Len(c) : d[k].type = c[k].type /\ d[k].freed = c[k].freed
  BY <1>2
<1> HIDE DEF d
<1>4. \A p, type : Points(p, w, c, type) => Points(p, w, d, type) /\ p[2] \in 1 .. Len(c)
  BY <1>2, <1>3 DEF Points
<1>5. \A p, type : Points(p, w, c, type) /\ p # f.chan => p[2] # n
  BY <1>1, SamePointer DEF Points
<1>6. Own(w, d, R, T)
  BY <1>4 DEF Owned, Own
<1>7. OfFutures(w, d, G)
  <2> HIDE DEF n
  <2>2. \A h \in F \ {f} : Points(h.chan, w, c, "future") /\ Result(h, c) /\ h.chan # f.chan
    BY DEF Owned, OfFutures
  <2>3. \A h \in F \ {f} : d[h.chan[2]] = c[h.chan[2]]
    BY <1>2, <1>4, <1>5, <2>2
  <2>4. \A h \in F \ {f} : Points(h.chan, w, d, "future") /\ Result(h, d)
    BY <1>4, <2>2, <2>3 DEF Result
  <2> QED BY <2>4 DEF Owned, OfFutures
<1>8. /\ Len(s) \in Nat /\ Len(t) = Len(s) + 1 /\ t[Len(s) + 1] = f.chan
      /\ \A i \in 1 .. Len(s) : t[i] = s[i]
  BY DEF Futures
<1>9. 1 .. Len(t) = (1 .. Len(s)) \cup {Len(s) + 1} /\ Len(s) + 1 \notin 1 .. Len(s)
  BY <1>8
<1> HIDE DEF t
<1>10. OnList(w, d, t, G)
  <2> HIDE DEF n
  <2>1. \A i \in 1 .. Len(s) : Points(s[i], w, c, "future") /\ c[s[i][2]].head = 0 /\ s[i] # f.chan
    BY DEF Owned, OnList
  <2>2. \A i \in 1 .. Len(s) : d[s[i][2]] = c[s[i][2]]
    BY <1>2, <1>4, <1>5, <2>1
  <2>3. \A i \in 1 .. Len(s) : Points(s[i], w, d, "future") /\ d[s[i][2]].head = 0
    BY <1>4, <2>1, <2>2
  <2>4. Points(f.chan, w, d, "future") /\ d[f.chan[2]].head = 0
    BY <1>1, <1>2, <1>4 DEF n
  <2>5. \A i \in 1 .. Len(t) : Points(t[i], w, d, "future") /\ d[t[i][2]].head = 0
    BY <1>8, <1>9, <2>3, <2>4
  <2>6. \A i, j \in 1 .. Len(t) : t[i] = t[j] => i = j
    BY <1>8, <1>9, <2>1 DEF Owned, OnList
  <2>7. \A h \in G : h.chan # f.chan
    BY DEF Owned, OfFutures
  <2>8. \A i \in 1 .. Len(t) : \A h \in G : t[i] # h.chan
    BY <1>8, <1>9, <2>7 DEF Owned, OnList
  <2> QED BY <2>5, <2>6, <2>8 DEF OnList
<1>11. FreedOnce(w, d, t, R, T, G)
  <2>1. \A p : (\E h \in F : p = h.chan) <=> (\E h \in G : p = h.chan) \/ p = f.chan
    OBVIOUS
  <2>2. \A p : (\E i \in 1 .. Len(t) : p = t[i]) <=> (\E i \in 1 .. Len(s) : p = s[i]) \/ p = f.chan
    BY <1>8, <1>9
  <2> HIDE DEF G
  <2>3. \A p : Held(p, t, R, T, G) <=> Held(p, s, R, T, F)
    BY <2>1, <2>2, Zenon DEF Held
  <2> QED BY <1>2, <1>3, <2>3 DEF Owned, FreedOnce
<1> QED BY <1>6, <1>7, <1>10, <1>11 DEF Owned, d, n, t

\* ... or freed.
LEMMA OwnedFree ==
    ASSUME NEW w \in Workers, NEW c \in Seq(Chans), NEW s \in Seq(Pointers), NEW R, NEW T,
           NEW F \in SUBSET Futures, Owned(w, c, s, R, T, F),
           NEW f \in F, NEW x \in Chans, x.type = c[f.chan[2]].type,
           x.freed = c[f.chan[2]].freed + 1
    PROVE  Owned(w, [c EXCEPT ![f.chan[2]] = x], s, R, T, F \ {f})
<1> DEFINE n == f.chan[2]
<1> DEFINE d == [c EXCEPT ![n] = x]
<1> DEFINE G == F \ {f}
<1>1. Points(f.chan, w, c, "future") /\ f.chan = <<w, n>>
  BY DEF Owned, OfFutures, Points, Pointers
<1>2. n \in 1 .. Len(c) /\ Len(d) = Len(c) /\ d[n] = x /\ \A k \in 1 .. Len(c) : k # n => d[k] = c[k]
  BY <1>1 DEF Points
<1>3. \A k \in 1 .. Len(c) : d[k].type = c[k].type
  BY <1>2
<1> HIDE DEF d
<1>4. \A p, type : Points(p, w, c, type) => Points(p, w, d, type) /\ p[2] \in 1 .. Len(c)
  BY <1>2, <1>3 DEF Points
<1>5. \A p, type : Points(p, w, c, type) /\ p # f.chan => p[2] # n
  BY <1>1, SamePointer DEF Points
<1>6. Own(w, d, R, T)
  BY <1>4 DEF Owned, Own
<1> HIDE DEF n
<1>7. OfFutures(w, d, G)
  <2>2. \A h \in F \ {f} : Points(h.chan, w, c, "future") /\ Result(h, c) /\ h.chan # f.chan
    BY DEF Owned, OfFutures
  <2>3. \A h \in F \ {f} : d[h.chan[2]] = c[h.chan[2]]
    BY <1>2, <1>4, <1>5, <2>2
  <2>4. \A h \in F \ {f} : Points(h.chan, w, d, "future") /\ Result(h, d)
    BY <1>4, <2>2, <2>3 DEF Result
  <2> QED BY <2>4 DEF Owned, OfFutures
<1>8. OnList(w, d, s, G)
  <2>1. \A i \in 1 .. Len(s) : Points(s[i], w, c, "future") /\ c[s[i][2]].head = 0 /\ s[i] # f.chan
    BY DEF Owned, OnList
  <2>2. \A i \in 1 .. Len(s) : d[s[i][2]] = c[s[i][2]]
    BY <1>2, <1>4, <1>5, <2>1
  <2>3. \A i \in 1 .. Len(s) : Points(s[i], w, d, "future") /\ d[s[i][2]].head = 0
    BY <1>4, <2>1, <2>2
  <2> QED BY <2>3 DEF Owned, OnList
<1>9. FreedOnce(w, d, s, R, T, G)
  <2>1. \A h \in G : h.chan # f.chan
    BY DEF Owned, OfFutures
  <2>2. \A i \in 1 .. Len(s) : s[i] # f.chan
    BY DEF Owned, OnList
  <2>3. f.chan # R /\ \A i \in 1 .. MAXSTEAL : f.chan # T[i]
    BY <1>1 DEF Owned, Own, Points
  <2>4. ~Held(f.chan, s, R, T, G)
    BY <2>1, <2>2, <2>3 DEF Held
  <2>5. \A p : p # f.chan => (Held(p, s, R, T, G) <=> Held(p, s, R, T, F))
    BY DEF Held
  <2>6. Held(f.chan, s, R, T, F)
    BY DEF Held
  <2>7. c[n].freed = 0 /\ x.freed = 1
    <3>1. Held(<<w, n>>, s, R, T, F)
      BY <1>1, <2>6, Zenon
    <3>2. c[n].freed = 0
      BY <1>2, <3>1 DEF Owned, FreedOnce
    <3> QED BY <3>2 DEF n
  <2>8. \A k \in 1 .. Len(c) : k # n => <<w, k>> # f.chan
    BY <1>1
  <2> SUFFICES ASSUME NEW k \in 1 .. Len(c)
               PROVE  /\ Held(<<w, k>>, s, R, T, G) => d[k].freed = 0
                      /\ ~Held(<<w, k>>, s, R, T, G) => d[k].freed = 1
    BY <1>2 DEF FreedOnce
  <2>9. CASE k = n
    <3>1. <<w, k>> = f.chan /\ d[k].freed = 1
      BY <1>1, <1>2, <2>7, <2>9
    <3> QED BY <2>4, <3>1, Zenon
  <2>10. CASE k # n
    <3>1. <<w, k>> # f.chan /\ d[k].freed = c[k].freed
      BY <1>2, <2>8, <2>10
    <3>2. /\ Held(<<w, k>>, s, R, T, F) => c[k].freed = 0
          /\ ~Held(<<w, k>>, s, R, T, F) => c[k].freed = 1
      BY DEF Owned, FreedOnce
    <3> QED BY <2>5, <3>1, <3>2, Zenon
  <2> QED BY <2>9, <2>10
<1> QED BY <1>6, <1>7, <1>8, <1>9 DEF Owned, d, n

-----------------------------------------------------------------------------
(* The caches *)

List(type, s) == [type |-> type, cached |-> s]

\* RT_init makes the free lists for requests and tasks, which stay empty; the
\* list for futures, s, is added when the first one is made.
CacheIs(q, s) ==
    \/ CHANNEL_CACHE_CAPACITY = 0 /\ s = <<>> /\ q = <<>>
    \/ CHANNEL_CACHE_CAPACITY # 0 /\ s = <<>> /\ q = <<List("tasks", <<>>), List("requests", <<>>)>>
    \/ /\ CHANNEL_CACHE_CAPACITY # 0 /\ Len(s) <= CHANNEL_CACHE_CAPACITY
       /\ q = <<List("future", s), List("tasks", <<>>), List("requests", <<>>)>>

Mem(c, q, r) == [channels |-> c, cache |-> q, ret |-> r]

\* One more channel of worker w, and the pointer to it
More(c, w, type) == [c EXCEPT ![w] = Append(c[w], NewChannel(type))]
Pointer(c, w) == <<w, Len(c[w]) + 1>>

LEMMA MallocIs ==
    ASSUME NEW c, NEW q, NEW r, NEW w \in Workers, NEW type, DOMAIN c = Workers
    PROVE  Malloc(Mem(c, q, r), w, type) = Mem(More(c, w, type), q, Pointer(c, w))
<1>1. PICK a : a = Append(c[w], NewChannel(type))
  OBVIOUS
<1>2. Malloc(Mem(c, q, r), w, type)
        = [Mem(c, q, r) EXCEPT !.channels[w] = Append(c[w], NewChannel(type)),
                               !.ret = <<w, Len(c[w]) + 1>>]
  <2>1. Mem(c, q, r).channels = c
    BY DEF Mem
  <2> QED BY <2>1 DEF Malloc
<1>3. PICK p : p = <<w, Len(c[w]) + 1>>
  OBVIOUS
<1>4. [Mem(c, q, r) EXCEPT !.channels[w] = a, !.ret = p] = Mem([c EXCEPT ![w] = a], q, p)
  <2>1. PICK d : d = [c EXCEPT ![w] = a]
    OBVIOUS
  <2>2. [Mem(c, q, r) EXCEPT !.channels = d, !.ret = p] = Mem(d, q, p)
    <3>1. [Mem(c, q, r) EXCEPT !.channels = d] = Mem(d, q, r)
      BY DEF Mem
    <3>2. [Mem(d, q, r) EXCEPT !.ret = p] = Mem(d, q, p)
      BY DEF Mem
    <3>3. [Mem(c, q, r) EXCEPT !.channels = d, !.ret = p]
             = [[Mem(c, q, r) EXCEPT !.channels = d] EXCEPT !.ret = p]
      OBVIOUS
    <3> QED BY <3>1, <3>2, <3>3
  <2>3. Mem(c, q, r).channels = c
    BY DEF Mem
  <2>4. [Mem(c, q, r) EXCEPT !.channels[w] = a, !.ret = p]
           = [Mem(c, q, r) EXCEPT !.channels = d, !.ret = p]
    BY <2>1, <2>3
  <2> QED BY <2>1, <2>2, <2>4
<1> QED BY <1>1, <1>2, <1>3, <1>4 DEF More, Pointer

\* Channel x, freed n times more
Plus(x, n) == [x EXCEPT !.freed = @ + n]

LEMMA PlusIs ==
    ASSUME NEW x \in Chans, NEW n \in Nat
    PROVE  /\ Plus(x, n) \in Chans /\ Plus(x, n).type = x.type
           /\ Plus(x, n).freed = x.freed + n /\ (n = 0 => Plus(x, n) = x)
BY DEF Plus, Chans

Freed(c, p) == [c EXCEPT ![p[1]] = [c[p[1]] EXCEPT ![p[2]] = Plus(c[p[1]][p[2]], 1)]]

LEMMA FreeIs ==
    ASSUME NEW c, NEW q, NEW r, NEW p, p[1] \in Workers, DOMAIN c = Workers
    PROVE  Free(Mem(c, q, r), p) = Mem(Freed(c, p), q, r)
BY DEF Free, Mem, Freed, Plus

\* Which free list is used.
LEMMA FreeListsIs ==
    ASSUME NEW c, NEW r, NEW s
    PROVE  /\ \A type : FreeLists(Mem(c, <<>>, r), type) = {}
           /\ FreeLists(Mem(c, <<List("tasks", <<>>), List("requests", <<>>)>>, r), "future") = {}
           /\ FreeLists(Mem(c, <<List("future", s), List("tasks", <<>>), List("requests", <<>>)>>, r),
                        "future") = {1}
           /\ FreeLists(Mem(c, <<List("tasks", <<>>), List("requests", <<>>)>>, r), "requests") = {2}
           /\ FreeLists(Mem(c, <<List("future", s), List("tasks", <<>>), List("requests", <<>>)>>, r),
                        "requests") = {3}
<1> DEFINE q2 == <<List("tasks", <<>>), List("requests", <<>>)>>
<1> DEFINE q3 == <<List("future", s), List("tasks", <<>>), List("requests", <<>>)>>
<1>1. \A type : FreeLists(Mem(c, <<>>, r), type) = {}
  BY DEF FreeLists, Mem
<1>2. DOMAIN q2 = {1, 2} /\ q2[1].type = "tasks" /\ q2[2].type = "requests"
  BY DEF List
<1>3. DOMAIN q3 = {1, 2, 3} /\ q3[1].type = "future" /\ q3[2].type = "tasks" /\ q3[3].type = "requests"
  BY DEF List
<1> HIDE DEF q2, q3
<1>4. FreeLists(Mem(c, q2, r), "future") = {} /\ FreeLists(Mem(c, q2, r), "requests") = {2}
  BY <1>2 DEF FreeLists, Mem
<1>5. FreeLists(Mem(c, q3, r), "future") = {1} /\ FreeLists(Mem(c, q3, r), "requests") = {3}
  BY <1>3 DEF FreeLists, Mem
<1> QED BY <1>1, <1>4, <1>5 DEF q2, q3

\* The channel of a new future is new, or the last one on the free list.
LEMMA AllocFuture ==
    ASSUME CHANNEL_CACHE_CAPACITY \in Nat,
           NEW c, DOMAIN c = Workers, NEW q, NEW s \in Seq(Pointers), NEW r, CacheIs(q, s),
           NEW w \in Workers, NEW m, m = channel_alloc(Mem(c, q, r), w, "future")
    PROVE  \/ /\ m.channels = More(c, w, "future") /\ m.ret = Pointer(c, w) /\ CacheIs(m.cache, s)
           \/ /\ m.channels = c /\ s # <<>> /\ m.ret = Last(s) /\ CacheIs(m.cache, Front(s))
<1> DEFINE q2 == <<List("tasks", <<>>), List("requests", <<>>)>>
<1> DEFINE q3 == <<List("future", s), List("tasks", <<>>), List("requests", <<>>)>>
<1> DEFINE c2 == More(c, w, "future")
<1> DEFINE p2 == Pointer(c, w)
<1>0. \A x : Malloc(Mem(c, x, r), w, "future") = Mem(c2, x, p2)
  BY MallocIs
<1>1. CASE CHANNEL_CACHE_CAPACITY = 0 /\ s = <<>> /\ q = <<>>
  <2>1. m = Malloc(Mem(c, q, r), w, "future")
    BY <1>1, FreeListsIs DEF channel_alloc
  <2>2. m = Mem(c2, q, p2)
    BY <1>0, <2>1
  <2>3. m.channels = c2 /\ m.ret = p2 /\ m.cache = q
    BY <2>2 DEF Mem
  <2> QED BY <2>3
<1>2. CASE CHANNEL_CACHE_CAPACITY # 0 /\ s = <<>> /\ q = q2
  <2>1. FreeLists(Mem(c, q, r), "future") = {} /\ FreeLists(Mem(c2, q, p2), "future") = {}
    BY <1>2, FreeListsIs
  <2>2. m = channel_cache_alloc(Mem(c2, q, p2), "future")
    BY <1>0, <1>2, <2>1 DEF channel_alloc
  <2>3. m = [Mem(c2, q, p2) EXCEPT !.cache = <<[type |-> "future", cached |-> <<>>]>> \o @]
    BY <2>1, <2>2 DEF channel_cache_alloc
  <2>4. m.channels = c2 /\ m.ret = p2 /\ m.cache = <<[type |-> "future", cached |-> <<>>]>> \o q
    BY <2>3 DEF Mem
  <2>5. m.cache = q3
    BY <1>2, <2>4 DEF List
  <2>6. CacheIs(m.cache, s)
    BY <1>2, <2>5 DEF CacheIs
  <2> QED BY <2>4, <2>6
<1>3. CASE CHANNEL_CACHE_CAPACITY # 0 /\ Len(s) <= CHANNEL_CACHE_CAPACITY /\ q = q3
  <2>1. FreeLists(Mem(c, q, r), "future") = {1} /\ FreeLists(Mem(c2, q, p2), "future") = {1}
    BY <1>3, FreeListsIs
  <2>2. Mem(c, q, r).cache[1].cached = s
    BY <1>3 DEF Mem, List
  <2>3. CASE s = <<>>
    <3>1. {i \in FreeLists(Mem(c, q, r), "future") : Mem(c, q, r).cache[i].cached # <<>>} = {}
      BY <2>1, <2>2, <2>3
    <3>2. m = channel_cache_alloc(Mem(c2, q, p2), "future")
      BY <1>0, <1>3, <3>1 DEF channel_alloc
    <3>3. m = Mem(c2, q, p2)
      BY <2>1, <3>2 DEF channel_cache_alloc
    <3>4. m.channels = c2 /\ m.ret = p2 /\ m.cache = q
      BY <3>3 DEF Mem
    <3> QED BY <3>4
  <2>4. CASE s # <<>>
    <3> DEFINE U == {i \in FreeLists(Mem(c, q, r), "future") : Mem(c, q, r).cache[i].cached # <<>>}
    <3>1. U = {1} /\ (CHOOSE i \in U : TRUE) = 1
      BY <2>1, <2>2, <2>4
    <3>2. m = TakeCached(Mem(c, q, r), 1)
      BY <3>1 DEF channel_alloc
    <3>3. m = [Mem(c, q, r) EXCEPT !.cache[1].cached = Front(@), !.ret = Last(s)]
      BY <2>2, <3>2 DEF TakeCached
    <3>4. m.channels = c /\ m.ret = Last(s) /\ m.cache = [q EXCEPT ![1].cached = Front(@)]
      BY <3>3 DEF Mem
    <3>5. m.cache = <<List("future", Front(s)), List("tasks", <<>>), List("requests", <<>>)>>
      BY <1>3, <3>4 DEF List
    <3>6. Len(Front(s)) <= CHANNEL_CACHE_CAPACITY
      <4>1. Len(Front(s)) = Len(s) - 1 /\ Len(s) \in Nat
        BY <2>4, FrontIs
      <4> QED BY <1>3, <4>1
    <3> QED BY <1>3, <2>4, <3>4, <3>5, <3>6 DEF CacheIs
  <2> QED BY <2>3, <2>4
<1> QED BY <1>1, <1>2, <1>3 DEF CacheIs

\* The channel of a future is put on the free list, or freed.
LEMMA FreeFuture ==
    ASSUME CHANNEL_CACHE_CAPACITY \in Nat,
           NEW c, DOMAIN c = Workers, NEW q, NEW s \in Seq(Pointers), NEW r, CacheIs(q, s),
           NEW p \in Pointers, c[p[1]][p[2]].type = "future",
           NEW m, m = channel_free(Mem(c, q, r), p)
    PROVE  \/ m.channels = c /\ CacheIs(m.cache, Append(s, p))
           \/ m = Free(Mem(c, q, r), p)
<1> DEFINE q3 == <<List("future", s), List("tasks", <<>>), List("requests", <<>>)>>
<1> DEFINE U == {i \in FreeLists(Mem(c, q, r), "future") :
                    Len(Mem(c, q, r).cache[i].cached) < CHANNEL_CACHE_CAPACITY}
<1>1. m = IF U = {} THEN Free(Mem(c, q, r), p)
          ELSE [Mem(c, q, r) EXCEPT !.cache[CHOOSE i \in U : TRUE].cached = Append(@, p)]
  <2>1. Mem(c, q, r).channels[p[1]][p[2]].type = "future"
    BY DEF Mem
  <2> QED BY <2>1 DEF channel_free
<1>2. CASE U # {}
  <2>1. FreeLists(Mem(c, q, r), "future") # {}
    BY <1>2
  <2>2. CHANNEL_CACHE_CAPACITY # 0 /\ Len(s) <= CHANNEL_CACHE_CAPACITY /\ q = q3
    BY <2>1, FreeListsIs DEF CacheIs
  <2>3. FreeLists(Mem(c, q, r), "future") = {1}
    BY <2>2, FreeListsIs
  <2>4. Mem(c, q, r).cache[1].cached = s
    BY <2>2 DEF Mem, List
  <2>5. U = {1} /\ (CHOOSE i \in U : TRUE) = 1 /\ Len(s) < CHANNEL_CACHE_CAPACITY
    BY <1>2, <2>3, <2>4
  <2>6. m = [Mem(c, q, r) EXCEPT !.cache[1].cached = Append(@, p)]
    BY <1>1, <2>5
  <2>7. m.channels = c /\ m.cache = [q EXCEPT ![1].cached = Append(@, p)]
    BY <2>6 DEF Mem
  <2>8. m.cache = <<List("future", Append(s, p)), List("tasks", <<>>), List("requests", <<>>)>>
    <3>1. PICK t : t = Append(s, p)
      OBVIOUS
    <3>2. m.cache = [q EXCEPT ![1].cached = t]
      <4>1. q[1].cached = s
        BY <2>2 DEF List
      <4> QED BY <2>7, <3>1, <4>1
    <3>3. [q3 EXCEPT ![1].cached = t]
             = <<List("future", t), List("tasks", <<>>), List("requests", <<>>)>>
      BY DEF List
    <3> QED BY <2>2, <3>1, <3>2, <3>3
  <2>9. Len(Append(s, p)) <= CHANNEL_CACHE_CAPACITY
    <3>1. Len(Append(s, p)) = Len(s) + 1 /\ Len(s) \in Nat
      OBVIOUS
    <3> QED BY <2>5, <3>1
  <2> QED BY <2>2, <2>7, <2>8, <2>9 DEF CacheIs
<1> QED BY <1>1, <1>2

-----------------------------------------------------------------------------
(* RT_init *)

LEMMA LeastNumber ==
    ASSUME NEW S, S \subseteq Nat, S # {}
    PROVE  \E n \in S : \A m \in S : ~(m < n)
<1>1. PICK n \in S : \A m \in S : ~(<<m, n>> \in OpToRel(<, Nat))
  BY NatLessThanWellFounded, WFMin, Zenon
<1>2. \A m \in Nat : m < n => <<m, n>> \in OpToRel(<, Nat)
  BY DEF OpToRel
<1> QED BY <1>1, <1>2, Zenon

\* Every number up to n is in a set that has 0 and the successor of each of them.
LEMMA UpTo ==
    ASSUME NEW n \in Nat, NEW G, 0 \in G, \A k \in 0 .. n - 1 : k \in G => k + 1 \in G
    PROVE  \A k \in 0 .. n : k \in G
<1> DEFINE S == {k \in 0 .. n : k \notin G}
<1>1. ASSUME NEW k \in S, \A j \in S : ~(j < k) PROVE FALSE
  <2>1. k # 0
    OBVIOUS
  <2>2. k - 1 \in 0 .. n - 1 /\ k - 1 \in 0 .. n /\ k - 1 < k /\ k - 1 + 1 = k
    BY <2>1
  <2>3. k - 1 \in G
    BY <1>1, <2>2
  <2> QED BY <2>2, <2>3
<1>2. S \subseteq Nat
  OBVIOUS
<1>3. S = {}
  <2> HIDE DEF S
  <2> QED BY <1>1, <1>2, LeastNumber
<1> QED BY <1>3

Allocs(m, w, n) ==
    m = [k \in 0 .. n |-> IF k = 0 THEN channel_alloc(Memory(w), w, "requests")
                          ELSE channel_alloc(m[k - 1], w, "tasks")]

LEMMA AllocsExists ==
    ASSUME NEW w, NEW n \in Nat
    PROVE  \E m : Allocs(m, w, n)
<1> DEFINE G == {k \in Nat : \E m : Allocs(m, w, k)}
<1>1. 0 \in G
  <2>1. Allocs([k \in 0 .. 0 |-> channel_alloc(Memory(w), w, "requests")], w, 0)
    BY DEF Allocs
  <2> QED BY <2>1
<1>2. ASSUME NEW k \in 0 .. n - 1, k \in G PROVE k + 1 \in G
  <2>1. PICK m : Allocs(m, w, k)
    BY <1>2
  <2> DEFINE g == [i \in 0 .. k + 1 |-> IF i = 0 THEN channel_alloc(Memory(w), w, "requests")
                                         ELSE channel_alloc(m[i - 1], w, "tasks")]
  <2>2. k \in Nat /\ k + 1 \in Nat
    OBVIOUS
  <2>3. \A i \in 0 .. k : g[i] = m[i]
    BY <2>1, <2>2 DEF Allocs
  <2>4. \A i \in 0 .. k + 1 : i # 0 => i - 1 \in 0 .. k
    BY <2>2
  <2>5. Allocs(g, w, k + 1)
    BY <2>3, <2>4 DEF Allocs
  <2> HIDE DEF g
  <2> QED BY <2>2, <2>5
<1> HIDE DEF G
<1>3. \A k \in 0 .. n : k \in G
  BY <1>1, <1>2, UpTo
<1> QED BY <1>3 DEF G

\* The free lists, none with a channel on it, and the channels after k of the
\* channels for tasks have been allocated
Empty(k) ==
    IF CHANNEL_CACHE_CAPACITY = 0 THEN <<>>
    ELSE IF k = 0 THEN <<List("requests", <<>>)>>
    ELSE <<List("tasks", <<>>), List("requests", <<>>)>>

Fresh(c, d, k) ==
    /\ d \in Seq(Chans) /\ Len(d) = Len(c) + 1 + k
    /\ \A j \in 1 .. Len(c) : d[j] = c[j]
    /\ d[Len(c) + 1] = NewChannel("requests")
    /\ \A j \in 1 .. k : d[Len(c) + 1 + j] = NewChannel("tasks")

Allocated(c, q, r, w, k) ==
    /\ c \in [Workers -> Seq(Chans)] /\ \A v \in Workers \ {w} : c[v] = channels[v]
    /\ Fresh(channels[w], c[w], k)
    /\ q = Empty(k) /\ r = <<w, Len(channels[w]) + 1 + k>>

LEMMA AllocEmpty ==
    ASSUME NEW c, DOMAIN c = Workers, NEW q, NEW r, NEW w \in Workers, NEW type,
           \A i \in DOMAIN q : q[i].cached = <<>>
    PROVE  channel_alloc(Mem(c, q, r), w, type)
             = IF CHANNEL_CACHE_CAPACITY = 0 THEN Mem(More(c, w, type), q, Pointer(c, w))
               ELSE channel_cache_alloc(Mem(More(c, w, type), q, Pointer(c, w)), type)
<1>1. {i \in FreeLists(Mem(c, q, r), type) : Mem(c, q, r).cache[i].cached # <<>>} = {}
  BY DEF FreeLists, Mem
<1>2. Malloc(Mem(c, q, r), w, type) = Mem(More(c, w, type), q, Pointer(c, w))
  BY MallocIs
<1> QED BY <1>1, <1>2 DEF channel_alloc

LEMMA NewIsChan ==
    ASSUME NEW type \in Types
    PROVE  NewChannel(type) \in Chans
BY DEF NewChannel, Chans

LEMMA MoreIs ==
    ASSUME NEW c \in [Workers -> Seq(Chans)], NEW w \in Workers, NEW type \in Types
    PROVE  /\ More(c, w, type) \in [Workers -> Seq(Chans)]
           /\ \A v \in Workers \ {w} : More(c, w, type)[v] = c[v]
           /\ More(c, w, type)[w] = Append(c[w], NewChannel(type))
<1>1. Append(c[w], NewChannel(type)) \in Seq(Chans)
  BY NewIsChan
<1>2. PICK a : a = Append(c[w], NewChannel(type))
  OBVIOUS
<1>3. /\ [c EXCEPT ![w] = a] \in [Workers -> Seq(Chans)] /\ [c EXCEPT ![w] = a][w] = a
      /\ \A v \in Workers \ {w} : [c EXCEPT ![w] = a][v] = c[v]
  BY <1>1, <1>2
<1> QED BY <1>2, <1>3 DEF More

\* What channel_cache_alloc does to the free lists.
LEMMA EmptyIs ==
    ASSUME NEW c, NEW r
    PROVE  /\ \A i \in DOMAIN Empty(0) : Empty(0)[i].cached = <<>>
           /\ \A k : k # 0 => /\ Empty(k) = Empty(1)
                              /\ \A i \in DOMAIN Empty(k) : Empty(k)[i].cached = <<>>
           /\ CHANNEL_CACHE_CAPACITY # 0 =>
                /\ channel_cache_alloc(Mem(c, <<>>, r), "requests") = Mem(c, Empty(0), r)
                /\ channel_cache_alloc(Mem(c, Empty(0), r), "tasks") = Mem(c, Empty(1), r)
                /\ channel_cache_alloc(Mem(c, Empty(1), r), "tasks") = Mem(c, Empty(1), r)
<1> DEFINE q1 == <<List("requests", <<>>)>>
<1> DEFINE q2 == <<List("tasks", <<>>), List("requests", <<>>)>>
<1>1. DOMAIN q2 = {1, 2} /\ q2[1] = List("tasks", <<>>) /\ q2[2] = List("requests", <<>>)
  OBVIOUS
<1>2. DOMAIN q1 = {1} /\ q1[1] = List("requests", <<>>)
  OBVIOUS
<1>3. q2 = <<List("tasks", <<>>)>> \o q1 /\ q1 = <<List("requests", <<>>)>> \o <<>>
  OBVIOUS
<1> HIDE DEF q1, q2
<1>4. \A type, s : List(type, s).type = type /\ List(type, s).cached = s
  BY DEF List
<1>5. (\A i \in DOMAIN q1 : q1[i].cached = <<>>) /\ \A i \in DOMAIN q2 : q2[i].cached = <<>>
  BY <1>1, <1>2, <1>4
<1>6. /\ FreeLists(Mem(c, <<>>, r), "requests") = {} /\ FreeLists(Mem(c, q1, r), "tasks") = {}
      /\ FreeLists(Mem(c, q2, r), "tasks") # {}
  <2>1. FreeLists(Mem(c, <<>>, r), "requests") = {}
    BY FreeListsIs
  <2>2. FreeLists(Mem(c, q1, r), "tasks") = {}
    BY <1>2, <1>4 DEF FreeLists, Mem
  <2>3. 1 \in FreeLists(Mem(c, q2, r), "tasks")
    BY <1>1, <1>4 DEF FreeLists, Mem
  <2> QED BY <2>1, <2>2, <2>3
<1>7. \A q, x : [Mem(c, q, r) EXCEPT !.cache = <<x>> \o @] = Mem(c, <<x>> \o q, r)
  <2> TAKE q, x
  <2>1. PICK y : y = <<x>> \o q
    OBVIOUS
  <2>2. [Mem(c, q, r) EXCEPT !.cache = y] = Mem(c, y, r) /\ Mem(c, q, r).cache = q
    BY DEF Mem
  <2> QED BY <2>1, <2>2
<1>8. /\ channel_cache_alloc(Mem(c, <<>>, r), "requests") = Mem(c, q1, r)
      /\ channel_cache_alloc(Mem(c, q1, r), "tasks") = Mem(c, q2, r)
      /\ channel_cache_alloc(Mem(c, q2, r), "tasks") = Mem(c, q2, r)
  <2>1. channel_cache_alloc(Mem(c, <<>>, r), "requests")
           = [Mem(c, <<>>, r) EXCEPT !.cache = <<List("requests", <<>>)>> \o @]
    BY <1>6 DEF channel_cache_alloc, List
  <2>2. channel_cache_alloc(Mem(c, q1, r), "tasks")
           = [Mem(c, q1, r) EXCEPT !.cache = <<List("tasks", <<>>)>> \o @]
    BY <1>6 DEF channel_cache_alloc, List
  <2>3. channel_cache_alloc(Mem(c, q2, r), "tasks") = Mem(c, q2, r)
    BY <1>6 DEF channel_cache_alloc
  <2> QED BY <1>3, <1>7, <2>1, <2>2, <2>3
<1>9. CASE CHANNEL_CACHE_CAPACITY = 0
  BY <1>9 DEF Empty
<1>10. CASE CHANNEL_CACHE_CAPACITY # 0
  <2>1. Empty(0) = q1 /\ Empty(1) = q2 /\ \A k : k # 0 => Empty(k) = q2
    BY <1>10 DEF Empty, q1, q2
  <2> QED BY <1>5, <1>8, <2>1
<1> QED BY <1>9, <1>10

LEMMA AllocStart ==
    ASSUME channels \in [Workers -> Seq(Chans)], NEW w \in Workers, channel_cache[w] = <<>>
    PROVE  \E c, q, r : /\ channel_alloc(Memory(w), w, "requests") = Mem(c, q, r)
                        /\ Allocated(c, q, r, w, 0)
<1> DEFINE c == More(channels, w, "requests")
<1> DEFINE r == Pointer(channels, w)
<1>1. Memory(w) = Mem(channels, <<>>, NULL)
  BY DEF Memory, Mem
<1>2. "requests" \in Types
  BY DEF Types
<1>3. /\ c \in [Workers -> Seq(Chans)] /\ \A v \in Workers \ {w} : c[v] = channels[v]
      /\ c[w] = Append(channels[w], NewChannel("requests"))
  BY <1>2, MoreIs
<1>4. DOMAIN channels = Workers /\ \A i \in DOMAIN <<>> : <<>>[i].cached = <<>>
  OBVIOUS
<1>5. channel_alloc(Memory(w), w, "requests")
        = IF CHANNEL_CACHE_CAPACITY = 0 THEN Mem(c, <<>>, r)
          ELSE channel_cache_alloc(Mem(c, <<>>, r), "requests")
  BY <1>1, <1>4, AllocEmpty
<1> HIDE DEF c
<1>6. Fresh(channels[w], c[w], 0)
  <2>1. c[w] \in Seq(Chans) /\ channels[w] \in Seq(Chans)
    BY <1>3
  <2> QED BY <1>3, <2>1 DEF Fresh
<1>7. r = <<w, Len(channels[w]) + 1 + 0>>
  <2>1. Len(channels[w]) \in Nat
    OBVIOUS
  <2>2. Len(channels[w]) + 1 + 0 = Len(channels[w]) + 1
    BY <2>1
  <2> QED BY <2>2 DEF Pointer
<1> HIDE DEF r
<1>8. channel_alloc(Memory(w), w, "requests") = Mem(c, Empty(0), r)
  <2>1. CASE CHANNEL_CACHE_CAPACITY = 0
    <3>1. Empty(0) = <<>>
      BY <2>1 DEF Empty
    <3> QED BY <1>5, <2>1, <3>1
  <2>2. CASE CHANNEL_CACHE_CAPACITY # 0
    BY <1>5, <2>2, EmptyIs
  <2> QED BY <2>1, <2>2
<1>9. Allocated(c, Empty(0), r, w, 0)
  BY <1>3, <1>6, <1>7 DEF Allocated
<1> QED BY <1>8, <1>9

LEMMA AllocNext ==
    ASSUME channels \in [Workers -> Seq(Chans)], NEW w \in Workers, NEW k \in Nat,
           NEW c, NEW q, NEW r, Allocated(c, q, r, w, k)
    PROVE  \E d, p, t : /\ channel_alloc(Mem(c, q, r), w, "tasks") = Mem(d, p, t)
                        /\ Allocated(d, p, t, w, k + 1)
<1> DEFINE d == More(c, w, "tasks")
<1> DEFINE t == Pointer(c, w)
<1>1. "tasks" \in Types /\ c \in [Workers -> Seq(Chans)] /\ q = Empty(k)
  BY DEF Types, Allocated
<1>2. /\ d \in [Workers -> Seq(Chans)] /\ \A v \in Workers \ {w} : d[v] = c[v]
      /\ d[w] = Append(c[w], NewChannel("tasks"))
  BY <1>1, MoreIs
<1>3. DOMAIN c = Workers /\ \A i \in DOMAIN q : q[i].cached = <<>>
  <2>1. \A i \in DOMAIN Empty(k) : Empty(k)[i].cached = <<>>
    BY EmptyIs
  <2> QED BY <1>1, <2>1
<1>4. channel_alloc(Mem(c, q, r), w, "tasks")
        = IF CHANNEL_CACHE_CAPACITY = 0 THEN Mem(d, q, t) ELSE channel_cache_alloc(Mem(d, q, t), "tasks")
  BY <1>3, AllocEmpty
<1> HIDE DEF d
<1> DEFINE L == Len(channels[w])
<1>5. L \in Nat /\ Len(c[w]) = L + 1 + k /\ c[w] \in Seq(Chans)
  BY DEF Allocated, Fresh
<1>6. t = <<w, L + 1 + (k + 1)>>
  <2>1. Len(c[w]) + 1 = L + 1 + (k + 1)
    BY <1>5
  <2> HIDE DEF L
  <2> QED BY <2>1 DEF Pointer
<1>7. Fresh(channels[w], d[w], k + 1)
  <2>1. /\ d[w] \in Seq(Chans) /\ Len(d[w]) = Len(c[w]) + 1 /\ d[w][Len(c[w]) + 1] = NewChannel("tasks")
        /\ \A j \in 1 .. Len(c[w]) : d[w][j] = c[w][j]
    <3>1. PICK e, a : e = c[w] /\ a = NewChannel("tasks")
      OBVIOUS
    <3>2. e \in Seq(Chans) /\ a \in Chans
      BY <1>1, <1>5, <3>1, NewIsChan
    <3>3. /\ Append(e, a) \in Seq(Chans) /\ Len(Append(e, a)) = Len(e) + 1
          /\ Append(e, a)[Len(e) + 1] = a /\ \A j \in 1 .. Len(e) : Append(e, a)[j] = e[j]
      BY <3>2
    <3> QED BY <1>2, <3>1, <3>3
  <2>2. Fresh(channels[w], c[w], k)
    BY DEF Allocated
  <2>3. Len(d[w]) = L + 1 + (k + 1) /\ d[w][L + 1 + (k + 1)] = NewChannel("tasks")
    <3>1. Len(c[w]) + 1 = L + 1 + (k + 1)
      BY <1>5
    <3> HIDE DEF L
    <3> QED BY <2>1, <3>1
  <2>4. \A j \in 1 .. L : j \in 1 .. Len(c[w])
    BY <1>5
  <2>5. L + 1 \in 1 .. Len(c[w]) /\ \A j \in 1 .. k : L + 1 + j \in 1 .. Len(c[w])
    BY <1>5
  <2>6. \A j \in 1 .. L : d[w][j] = channels[w][j]
    BY <2>1, <2>2, <2>4 DEF Fresh
  <2>7. d[w][L + 1] = NewChannel("requests")
    BY <2>1, <2>2, <2>5 DEF Fresh
  <2>8. \A j \in 1 .. k + 1 : d[w][L + 1 + j] = NewChannel("tasks")
    <3>1. \A j \in 1 .. k : d[w][L + 1 + j] = NewChannel("tasks")
      BY <2>1, <2>2, <2>5 DEF Fresh
    <3>2. \A j \in 1 .. k + 1 : j \in 1 .. k \/ j = k + 1
      OBVIOUS
    <3> HIDE DEF L
    <3> QED BY <2>3, <3>1, <3>2
  <2> QED BY <2>1, <2>3, <2>6, <2>7, <2>8 DEF Fresh
<1> HIDE DEF t
<1>8. channel_alloc(Mem(c, q, r), w, "tasks") = Mem(d, Empty(k + 1), t)
  <2>1. k + 1 # 0
    OBVIOUS
  <2>2. Empty(k + 1) = Empty(1)
    BY <2>1, EmptyIs
  <2>3. CASE CHANNEL_CACHE_CAPACITY = 0
    <3>1. Empty(k) = <<>> /\ Empty(k + 1) = <<>>
      BY <2>3 DEF Empty
    <3> QED BY <1>1, <1>4, <2>3, <3>1
  <2>4. CASE CHANNEL_CACHE_CAPACITY # 0
    <3>1. channel_cache_alloc(Mem(d, Empty(0), t), "tasks") = Mem(d, Empty(1), t)
      BY <2>4, EmptyIs
    <3>2. channel_cache_alloc(Mem(d, Empty(1), t), "tasks") = Mem(d, Empty(1), t)
      BY <2>4, EmptyIs
    <3>3. q = Empty(0) \/ q = Empty(1)
      BY <1>1, EmptyIs
    <3> QED BY <1>4, <2>2, <2>4, <3>1, <3>2, <3>3
  <2> QED BY <2>3, <2>4
<1>9. \A v \in Workers \ {w} : d[v] = channels[v]
  BY <1>2 DEF Allocated
<1>10. Allocated(d, Empty(k + 1), t, w, k + 1)
  BY <1>2, <1>6, <1>7, <1>9 DEF Allocated
<1> QED BY <1>8, <1>10

\* The channels after RT_init
LEMMA AllocsAre ==
    ASSUME channels \in [Workers -> Seq(Chans)], NEW w \in Workers, channel_cache[w] = <<>>,
           NEW n \in Nat, NEW m, Allocs(m, w, n)
    PROVE  \A k \in 0 .. n : \E c, q, r : m[k] = Mem(c, q, r) /\ Allocated(c, q, r, w, k)
<1> DEFINE G == {k \in 0 .. n : \E c, q, r : m[k] = Mem(c, q, r) /\ Allocated(c, q, r, w, k)}
<1>1. /\ m[0] = channel_alloc(Memory(w), w, "requests")
      /\ \A k \in 0 .. n : k # 0 => m[k] = channel_alloc(m[k - 1], w, "tasks")
  BY DEF Allocs
<1>2. 0 \in G
  BY <1>1, AllocStart
<1>3. ASSUME NEW k \in 0 .. n - 1, k \in G PROVE k + 1 \in G
  <2>1. PICK c, q, r : m[k] = Mem(c, q, r) /\ Allocated(c, q, r, w, k)
    BY <1>3
  <2>2. k \in Nat /\ k + 1 \in 0 .. n /\ k + 1 # 0 /\ k + 1 - 1 = k
    OBVIOUS
  <2>3. m[k + 1] = channel_alloc(Mem(c, q, r), w, "tasks")
    BY <1>1, <2>1, <2>2
  <2>4. \E d, p, t : /\ channel_alloc(Mem(c, q, r), w, "tasks") = Mem(d, p, t)
                     /\ Allocated(d, p, t, w, k + 1)
    BY <2>1, <2>2, AllocNext
  <2> QED BY <2>2, <2>3, <2>4
<1> HIDE DEF G
<1>4. \A k \in 0 .. n : k \in G
  BY <1>2, <1>3, UpTo
<1> QED BY <1>4 DEF G

\* After RT_init, a worker has its own channels besides those of its futures.
LEMMA OwnedStart ==
    ASSUME NEW w \in Workers, NEW c \in Seq(Chans), NEW d, Fresh(c, d, MAXSTEAL),
           NEW F, Remain(w, c, F),
           NEW R, R = <<w, Len(c) + 1>>,
           NEW T, \A i \in 1 .. MAXSTEAL : T[i] = <<w, Len(c) + 1 + i>>
    PROVE  Owned(w, d, <<>>, R, T, F)
<1> DEFINE L == Len(c)
<1>1. MAXSTEAL \in Nat /\ L \in Nat /\ Len(d) = L + 1 + MAXSTEAL
  BY LifecycleAssumption DEF Fresh
<1>2. /\ \A j \in 1 .. L : d[j] = c[j]
      /\ d[L + 1].type = "requests" /\ d[L + 1].freed = 0
      /\ \A j \in 1 .. MAXSTEAL : d[L + 1 + j].type = "tasks" /\ d[L + 1 + j].freed = 0
  BY DEF Fresh, NewChannel
<1>3. R \in Pointers /\ R[1] = w /\ R[2] = L + 1
  BY <1>1 DEF Pointers
<1>4. \A i \in 1 .. MAXSTEAL : T[i] \in Pointers /\ T[i][1] = w /\ T[i][2] = L + 1 + i
  BY <1>1 DEF Pointers
<1>0. \A f \in F : /\ f.chan \in Pointers /\ f.chan[1] = w /\ f.chan[2] \in 1 .. L
                   /\ c[f.chan[2]].type = "future" /\ Result(f, c)
  BY DEF Remain, OfFutures, Points
<1> HIDE DEF L
<1>5. Own(w, d, R, T)
  <2>1. Points(R, w, d, "requests")
    BY <1>1, <1>2, <1>3 DEF Points
  <2>2. \A i \in 1 .. MAXSTEAL : Points(T[i], w, d, "tasks")
    BY <1>1, <1>2, <1>4 DEF Points
  <2>3. \A i, j \in 1 .. MAXSTEAL : T[i] = T[j] => i = j
    BY <1>1, <1>4
  <2> QED BY <2>1, <2>2, <2>3 DEF Own
<1>6. OfFutures(w, d, F) /\ OnList(w, d, <<>>, F)
  <2>1. \A f \in F : Points(f.chan, w, d, "future")
    BY <1>0, <1>1, <1>2 DEF Points
  <2>2. \A f \in F : Result(f, d)
    <3>1. \A f \in F : d[f.chan[2]] = c[f.chan[2]]
      BY <1>0, <1>2
    <3> QED BY <1>0, <3>1 DEF Result
  <2>3. \A f, g \in F : f.chan = g.chan => f = g
    BY DEF Remain, OfFutures
  <2>4. OnList(w, d, <<>>, F)
    BY DEF OnList
  <2> QED BY <2>1, <2>2, <2>3, <2>4 DEF OfFutures
<1>7. FreedOnce(w, d, <<>>, R, T, F)
  <2>1. \A p : Held(p, <<>>, R, T, F) <=>
                  p = R \/ (\E i \in 1 .. MAXSTEAL : p = T[i]) \/ \E f \in F : p = f.chan
    BY DEF Held
  <2>2. ASSUME NEW k \in 1 .. Len(d), Held(<<w, k>>, <<>>, R, T, F) PROVE d[k].freed = 0
    <3>1. CASE <<w, k>> = R
      <4>1. k = L + 1
        BY <1>3, <3>1
      <4> QED BY <1>2, <4>1
    <3>2. ASSUME NEW i \in 1 .. MAXSTEAL, <<w, k>> = T[i] PROVE d[k].freed = 0
      <4>1. k = L + 1 + i
        BY <1>4, <3>2
      <4> QED BY <1>2, <4>1
    <3>3. ASSUME NEW f \in F, <<w, k>> = f.chan PROVE d[k].freed = 0
      <4>1. k \in 1 .. L
        BY <1>0, <3>3
      <4>2. c[k].freed = 0
        BY <3>3, <4>1 DEF Remain, L
      <4> QED BY <1>2, <4>1, <4>2
    <3> QED BY <2>1, <2>2, <3>1, <3>2, <3>3
  <2>3. ASSUME NEW k \in 1 .. Len(d), ~Held(<<w, k>>, <<>>, R, T, F) PROVE d[k].freed = 1
    <3>1. k \in Nat /\ k # L + 1
      <4>1. <<w, k>> # R
        BY <2>1, <2>3
      <4> QED BY <4>1 DEF L
    <3>2. \A i \in 1 .. MAXSTEAL : k # L + 1 + i
      <4>1. \A i \in 1 .. MAXSTEAL : <<w, k>> # T[i]
        BY <2>1, <2>3
      <4> QED BY <4>1 DEF L
    <3>3. k \in 1 .. L
      <4>1. k <= L + 1 + MAXSTEAL /\ k >= 1
        BY <1>1
      <4>2. k > L + 1 => k - (L + 1) \in 1 .. MAXSTEAL /\ k = L + 1 + (k - (L + 1))
        BY <1>1, <4>1, <3>1
      <4>3. ~(k > L + 1)
        BY <3>2, <4>2
      <4> QED BY <1>1, <3>1, <4>1, <4>3
    <3>4. ~\E f \in F : <<w, k>> = f.chan
      BY <2>1, <2>3
    <3>5. c[k].freed = 1
      BY <3>3, <3>4 DEF Remain, L
    <3> QED BY <1>2, <3>3, <3>5
  <2> QED BY <2>2, <2>3 DEF FreedOnce
<1> QED BY <1>5, <1>6, <1>7 DEF Owned

-----------------------------------------------------------------------------
(* RT_exit *)

\* Before the loop over the channels for tasks
Begun(w) ==
    LET m == channel_free(Memory(w), chan_requests[w])
    IN  IF CHANNEL_CACHE_CAPACITY = 0 THEN m ELSE channel_cache_free(m)

Frees(c, w, n) ==
    c = [k \in 0 .. n |-> IF k # 0 THEN channel_free(c[k - 1], chan_tasks[w][k]) ELSE Begun(w)]

LEMMA FreesExists ==
    ASSUME NEW w, NEW n \in Nat
    PROVE  \E c : Frees(c, w, n)
<1> DEFINE G == {k \in Nat : \E c : Frees(c, w, k)}
<1>1. 0 \in G
  <2>1. Frees([k \in 0 .. 0 |-> Begun(w)], w, 0)
    BY DEF Frees
  <2> QED BY <2>1
<1>2. ASSUME NEW k \in 0 .. n - 1, k \in G PROVE k + 1 \in G
  <2>1. PICK c : Frees(c, w, k)
    BY <1>2
  <2> DEFINE g == [i \in 0 .. k + 1 |-> IF i # 0 THEN channel_free(c[i - 1], chan_tasks[w][i])
                                         ELSE Begun(w)]
  <2>2. k \in Nat /\ k + 1 \in Nat
    OBVIOUS
  <2>3. \A i \in 0 .. k : g[i] = c[i]
    BY <2>1, <2>2 DEF Frees
  <2>4. \A i \in 0 .. k + 1 : i # 0 => i - 1 \in 0 .. k
    BY <2>2
  <2>5. Frees(g, w, k + 1)
    BY <2>3, <2>4 DEF Frees
  <2> HIDE DEF g
  <2> QED BY <2>2, <2>5
<1> HIDE DEF G
<1>3. \A k \in 0 .. n : k \in G
  BY <1>1, <1>2, UpTo
<1> QED BY <1>3 DEF G

\* The slots of a cache, and what is in them
Slot(q, x) == q[x[1]].cached[x[2]]

\* A cache that holds requests channel R in its n-th free list, besides s
Holds(q, n, R, s) ==
    /\ n # 1 /\ Slots(q) = {<<n, 1>>} \cup ({1} \X (1 .. Len(s)))
    /\ Slot(q, <<n, 1>>) = R /\ \A i \in 1 .. Len(s) : Slot(q, <<1, i>>) = s[i]

\* The channel for requests is put on its free list, if there is one.
LEMMA FreeRequests ==
    ASSUME CHANNEL_CACHE_CAPACITY \in Nat, CHANNEL_CACHE_CAPACITY # 0, NEW s \in Seq(Pointers),
           NEW w \in Workers, NEW R, channels[R[1]][R[2]].type = "requests",
           CacheIs(channel_cache[w], s)
    PROVE  \E q, n : channel_free(Memory(w), R) = Mem(channels, q, NULL) /\ Holds(q, n, R, s)
<1> DEFINE q == channel_cache[w]
<1> DEFINE m == Mem(channels, q, NULL)
<1> DEFINE U == {i \in FreeLists(m, "requests") : Len(m.cache[i].cached) < CHANNEL_CACHE_CAPACITY}
<1>1. Memory(w) = m /\ m.channels = channels /\ m.cache = q
  BY DEF Memory, Mem
<1>2. channel_free(Memory(w), R)
        = IF U = {} THEN Free(m, R)
          ELSE [m EXCEPT !.cache[CHOOSE i \in U : TRUE].cached = Append(@, R)]
  <2>1. m.channels[R[1]][R[2]].type = "requests"
    BY <1>1
  <2> HIDE DEF m
  <2> QED BY <1>1, <2>1 DEF channel_free
<1>3. 0 < CHANNEL_CACHE_CAPACITY /\ Len(<<>>) = 0 /\ Append(<<>>, R) = <<R>>
  OBVIOUS
<1>4. CASE s = <<>> /\ q = <<List("tasks", <<>>), List("requests", <<>>)>>
  <2>1. FreeLists(m, "requests") = {2} /\ q[2].cached = <<>>
    <3>1. FreeLists(m, "requests") = {2}
      <4>1. FreeLists(Mem(channels, <<List("tasks", <<>>), List("requests", <<>>)>>, NULL),
                      "requests") = {2}
        BY FreeListsIs, Zenon
      <4> QED BY <1>4, <4>1
    <3>2. q[2].cached = <<>>
      BY <1>4 DEF List
    <3> QED BY <3>1, <3>2
  <2>2. U = {2} /\ (CHOOSE i \in U : TRUE) = 2
    <3>1. Len(m.cache[2].cached) < CHANNEL_CACHE_CAPACITY
      BY <1>1, <1>3, <2>1
    <3> HIDE DEF m
    <3> QED BY <2>1, <3>1
  <2> DEFINE q2 == <<List("tasks", <<>>), List("requests", <<R>>)>>
  <2>3. [q EXCEPT ![2].cached = <<R>>] = q2
    BY <1>4 DEF List
  <2>4. channel_free(Memory(w), R) = [m EXCEPT !.cache[2].cached = Append(@, R)]
    <3> HIDE DEF m, U
    <3> QED BY <1>2, <2>2
  <2>5. [m EXCEPT !.cache[2].cached = Append(@, R)] = [m EXCEPT !.cache = q2]
    <3> HIDE DEF m, q2
    <3> QED BY <1>1, <1>3, <2>1, <2>3
  <2>6. channel_free(Memory(w), R) = Mem(channels, q2, NULL)
    <3>1. [m EXCEPT !.cache = q2] = Mem(channels, q2, NULL)
      <4> HIDE DEF q2
      <4> QED BY DEF Mem
    <3> QED BY <2>4, <2>5, <3>1
  <2>7. DOMAIN q2 = {1, 2} /\ DOMAIN q2[1].cached = {} /\ DOMAIN q2[2].cached = {1}
    BY DEF List
  <2>8. Slots(q2) = {<<2, 1>>}
    <3> HIDE DEF q2
    <3>1. Slots(q2) = ({1} \X DOMAIN q2[1].cached) \cup ({2} \X DOMAIN q2[2].cached)
      BY <2>7 DEF Slots
    <3> QED BY <2>7, <3>1
  <2>9. Slot(q2, <<2, 1>>) = R
    BY DEF Slot, List
  <2>10. Len(s) = 0 /\ 1 .. Len(s) = {}
    BY <1>4
  <2>11. Holds(q2, 2, R, s)
    <3> HIDE DEF q2
    <3> QED BY <2>8, <2>9, <2>10 DEF Holds
  <2> HIDE DEF q2
  <2> QED BY <2>6, <2>11
<1>5. CASE q = <<List("future", s), List("tasks", <<>>), List("requests", <<>>)>>
  <2>1. FreeLists(m, "requests") = {3} /\ q[3].cached = <<>>
    <3>1. FreeLists(m, "requests") = {3}
      <4>1. FreeLists(Mem(channels, <<List("future", s), List("tasks", <<>>), List("requests", <<>>)>>,
                          NULL), "requests") = {3}
        BY FreeListsIs
      <4> QED BY <1>5, <4>1
    <3>2. q[3].cached = <<>>
      BY <1>5 DEF List
    <3> QED BY <3>1, <3>2
  <2>2. U = {3} /\ (CHOOSE i \in U : TRUE) = 3
    <3>1. Len(m.cache[3].cached) < CHANNEL_CACHE_CAPACITY
      BY <1>1, <1>3, <2>1
    <3> HIDE DEF m
    <3> QED BY <2>1, <3>1
  <2> DEFINE q2 == <<List("future", s), List("tasks", <<>>), List("requests", <<R>>)>>
  <2>3. [q EXCEPT ![3].cached = <<R>>] = q2
    BY <1>5 DEF List
  <2>4. channel_free(Memory(w), R) = [m EXCEPT !.cache[3].cached = Append(@, R)]
    <3> HIDE DEF m, U
    <3> QED BY <1>2, <2>2
  <2>5. [m EXCEPT !.cache[3].cached = Append(@, R)] = [m EXCEPT !.cache = q2]
    <3> HIDE DEF m, q2
    <3> QED BY <1>1, <1>3, <2>1, <2>3
  <2>6. channel_free(Memory(w), R) = Mem(channels, q2, NULL)
    <3>1. [m EXCEPT !.cache = q2] = Mem(channels, q2, NULL)
      <4> HIDE DEF q2
      <4> QED BY DEF Mem
    <3> QED BY <2>4, <2>5, <3>1
  <2>7. /\ DOMAIN q2 = {1, 2, 3} /\ DOMAIN q2[1].cached = 1 .. Len(s)
        /\ DOMAIN q2[2].cached = {} /\ DOMAIN q2[3].cached = {1}
    BY DEF List
  <2>8. Slots(q2) = {<<3, 1>>} \cup ({1} \X (1 .. Len(s)))
    <3> HIDE DEF q2
    <3>1. Slots(q2) = ({1} \X DOMAIN q2[1].cached) \cup ({2} \X DOMAIN q2[2].cached)
                        \cup ({3} \X DOMAIN q2[3].cached)
      BY <2>7 DEF Slots
    <3> QED BY <2>7, <3>1
  <2>9. Slot(q2, <<3, 1>>) = R /\ \A i \in 1 .. Len(s) : Slot(q2, <<1, i>>) = s[i]
    BY DEF Slot, List
  <2>10. Holds(q2, 3, R, s)
    <3> HIDE DEF q2
    <3> QED BY <2>8, <2>9 DEF Holds
  <2> HIDE DEF q2
  <2> QED BY <2>6, <2>10
<1> QED BY <1>4, <1>5 DEF CacheIs

Cases(q, p) == {x \in Slots(q) : Slot(q, x) = p}

\* channel_cache_free frees what is in the cache, once.
LEMMA CacheFreeIs ==
    ASSUME NEW c \in [Workers -> Seq(Chans)], NEW q, NEW r
    PROVE  /\ channel_cache_free(Mem(c, q, r))
                = Mem([v \in Workers |-> [k \in DOMAIN c[v] |->
                            Plus(c[v][k], Cardinality(Cases(q, <<v, k>>)))]], <<>>, r)
<1>1. Mem(c, q, r).channels = c /\ Mem(c, q, r).cache = q /\ Mem(c, q, r).ret = r
  BY DEF Mem
<1> QED BY <1>1, Zenon DEF channel_cache_free, Mem, Plus, Cases, Slot

\* How often a channel is in the cache
LEMMA CasesAre ==
    ASSUME NEW q, NEW n, NEW R, NEW s, Holds(q, n, R, s),
           \A i, j \in 1 .. Len(s) : s[i] = s[j] => i = j,
           \A i \in 1 .. Len(s) : s[i] # R, NEW p
    PROVE  Cardinality(Cases(q, p)) = IF p = R \/ \E i \in 1 .. Len(s) : p = s[i] THEN 1 ELSE 0
<1>1. \A x : Cardinality({x}) = 1 /\ Cardinality({}) = 0
  BY FS_Singleton, FS_EmptySet
<1>2. \A x : x \in Slots(q) => x = <<n, 1>> \/ \E i \in 1 .. Len(s) : x = <<1, i>>
  BY DEF Holds
<1>3. <<n, 1>> \in Slots(q) /\ \A i \in 1 .. Len(s) : <<1, i>> \in Slots(q)
  BY DEF Holds
<1>4. Slot(q, <<n, 1>>) = R /\ \A i \in 1 .. Len(s) : Slot(q, <<1, i>>) = s[i]
  BY DEF Holds
<1>5. CASE p = R
  <2>1. Cases(q, p) = {<<n, 1>>}
    BY <1>2, <1>3, <1>4, <1>5 DEF Cases
  <2> QED BY <1>1, <1>5, <2>1
<1>6. ASSUME NEW i \in 1 .. Len(s), p = s[i] PROVE Cardinality(Cases(q, p)) = 1
  <2>1. Cases(q, p) = {<<1, i>>}
    BY <1>2, <1>3, <1>4, <1>6 DEF Cases
  <2> QED BY <1>1, <2>1
<1>7. CASE ~(p = R \/ \E i \in 1 .. Len(s) : p = s[i])
  <2>1. Cases(q, p) = {}
    BY <1>2, <1>4, <1>7 DEF Cases
  <2> QED BY <1>1, <1>7, <2>1
<1> QED BY <1>5, <1>6, <1>7

\* The channels that have been freed before the k-th channel for tasks
Gone(p, s, R, T, k) ==
    \/ p = R \/ \E i \in 1 .. Len(s) : p = s[i]
    \/ \E i \in 1 .. k : p = T[i]

Released(d, w, s, k) ==
    /\ d \in [Workers -> Seq(Chans)] /\ \A v \in Workers \ {w} : d[v] = channels[v]
    /\ Len(d[w]) = Len(channels[w])
    /\ \A j \in 1 .. Len(channels[w]) :
        /\ Gone(<<w, j>>, s, chan_requests[w], chan_tasks[w], k) => d[w][j].freed = 1
        /\ ~Gone(<<w, j>>, s, chan_requests[w], chan_tasks[w], k) => d[w][j] = channels[w][j]

\* channel_free frees the channel when there is no free list.
LEMMA FreeWithout ==
    ASSUME NEW c, NEW r, NEW p
    PROVE  channel_free(Mem(c, <<>>, r), p) = Free(Mem(c, <<>>, r), p)
<1>1. \A type : FreeLists(Mem(c, <<>>, r), type) = {}
  BY FreeListsIs
<1> QED BY <1>1 DEF channel_free

\* One channel of worker w is freed.
OneFreed(d, c, w, k) ==
    /\ d \in [Workers -> Seq(Chans)] /\ \A v \in Workers \ {w} : d[v] = c[v]
    /\ Len(d[w]) = Len(c[w]) /\ d[w][k].freed = c[w][k].freed + 1
    /\ \A j \in 1 .. Len(c[w]) : j # k => d[w][j] = c[w][j]

\* The pointer p is to a channel of worker w.
MayFree(c, w, p) ==
    /\ c \in [Workers -> Seq(Chans)] /\ w \in Workers
    /\ p \in Pointers /\ p[1] = w /\ p[2] \in 1 .. Len(c[w])

LEMMA FreeOne ==
    ASSUME NEW c, NEW q, NEW r, NEW w, NEW p, MayFree(c, w, p)
    PROVE  \E d : Free(Mem(c, q, r), p) = Mem(d, q, r) /\ OneFreed(d, c, w, p[2])
<1> /\ c \in [Workers -> Seq(Chans)] /\ w \in Workers
    /\ p \in Pointers /\ p[1] = w /\ p[2] \in 1 .. Len(c[w])
  BY DEF MayFree
<1> DEFINE x == Plus(c[w][p[2]], 1)
<1> DEFINE e == [c[w] EXCEPT ![p[2]] = x]
<1> DEFINE d == [c EXCEPT ![w] = e]
<1>1. c[w] \in Seq(Chans) /\ c[w][p[2]] \in Chans
  OBVIOUS
<1>2. x \in Chans /\ x.freed = c[w][p[2]].freed + 1
  BY <1>1, PlusIs
<1>3. Free(Mem(c, q, r), p) = Mem(d, q, r)
  <2>1. DOMAIN c = Workers
    OBVIOUS
  <2>2. Free(Mem(c, q, r), p) = Mem(Freed(c, p), q, r)
    BY <2>1, FreeIs
  <2> QED BY <2>2 DEF Freed
<1> HIDE DEF x
<1>4. /\ e \in Seq(Chans) /\ Len(e) = Len(c[w]) /\ e[p[2]] = x
      /\ \A j \in 1 .. Len(c[w]) : j # p[2] => e[j] = c[w][j]
  BY <1>1, <1>2
<1> HIDE DEF e
<1>5. d \in [Workers -> Seq(Chans)] /\ d[w] = e /\ \A v \in Workers \ {w} : d[v] = c[v]
  BY <1>4
<1> HIDE DEF d
<1>6. OneFreed(d, c, w, p[2])
  BY <1>2, <1>4, <1>5 DEF OneFreed
<1> QED BY <1>3, <1>6

LEMMA FreeStart ==
    ASSUME CHANNEL_CACHE_CAPACITY \in Nat, channels \in [Workers -> Seq(Chans)],
           NEW w \in Workers, NEW s \in Seq(Pointers), NEW F, CacheIs(channel_cache[w], s),
           Owned(w, channels[w], s, chan_requests[w], chan_tasks[w], F)
    PROVE  \E d, r : Begun(w) = Mem(d, <<>>, r) /\ Released(d, w, s, 0)
<1> DEFINE c == channels[w]
<1> DEFINE R == chan_requests[w]
<1> DEFINE T == chan_tasks[w]
<1>1. Points(R, w, c, "requests")
  BY DEF Owned, Own
<1>2. R \in Pointers /\ R[1] = w /\ R[2] \in 1 .. Len(c) /\ c[R[2]].type = "requests" /\ R = <<w, R[2]>>
  BY <1>1 DEF Points, Pointers
<1>3. \A p : Gone(p, s, R, T, 0) <=> p = R \/ \E i \in 1 .. Len(s) : p = s[i]
  BY DEF Gone
<1>4. \A j \in 1 .. Len(c) : Gone(<<w, j>>, s, R, T, 0) => c[j].freed = 0
  <2>1. \A p : Gone(p, s, R, T, 0) => Held(p, s, R, T, F)
    BY <1>3 DEF Held
  <2> QED BY <2>1 DEF Owned, FreedOnce
<1>5. \A j \in 1 .. Len(c) : c[j] \in Chans
  <2>1. c \in Seq(Chans)
    OBVIOUS
  <2> HIDE DEF c
  <2> QED BY <2>1
<1>6. CASE CHANNEL_CACHE_CAPACITY = 0
  <2>1. channel_cache[w] = <<>> /\ s = <<>>
    BY <1>6 DEF CacheIs
  <2>2. Memory(w) = Mem(channels, <<>>, NULL)
    BY <2>1 DEF Memory, Mem
  <2>3. channel_free(Memory(w), R) = Free(Mem(channels, <<>>, NULL), R)
    BY <2>2, FreeWithout
  <2>41. PICK d : /\ Free(Mem(channels, <<>>, NULL), R) = Mem(d, <<>>, NULL)
                  /\ OneFreed(d, channels, w, R[2])
    <3>1. R \in Pointers /\ R[1] = w /\ R[2] \in 1 .. Len(channels[w])
      BY <1>2
    <3> HIDE DEF R
    <3>2. MayFree(channels, w, R)
      BY <3>1 DEF MayFree
    <3> QED BY <3>2, FreeOne
  <2>4. /\ Free(Mem(channels, <<>>, NULL), R) = Mem(d, <<>>, NULL)
        /\ d \in [Workers -> Seq(Chans)]
        /\ \A v \in Workers \ {w} : d[v] = channels[v]
        /\ Len(d[w]) = Len(c) /\ d[w][R[2]].freed = c[R[2]].freed + 1
        /\ \A j \in 1 .. Len(c) : j # R[2] => d[w][j] = c[j]
    BY <2>41 DEF OneFreed
  <2>5. ASSUME NEW j \in 1 .. Len(c)
        PROVE  /\ Gone(<<w, j>>, s, R, T, 0) => d[w][j].freed = 1
               /\ ~Gone(<<w, j>>, s, R, T, 0) => d[w][j] = c[j]
    <3>1. CASE j = R[2]
      <4>1. <<w, j>> = R
        BY <1>2, <3>1
      <4>2. Gone(<<w, j>>, s, R, T, 0)
        BY <1>3, <4>1
      <4>3. c[j].freed = 0 /\ c[j] \in Chans
        BY <1>4, <1>5, <4>2
      <4>4. d[w][j].freed = 1
        BY <2>4, <3>1, <4>3
      <4> QED BY <4>2, <4>4
    <3>2. CASE j # R[2]
      <4>1. <<w, j>> # R
        BY <1>2, <3>2
      <4>2. ~Gone(<<w, j>>, s, R, T, 0)
        BY <1>3, <2>1, <4>1
      <4>3. d[w][j] = c[j]
        BY <2>4, <3>2
      <4> QED BY <4>2, <4>3
    <3> QED BY <3>1, <3>2
  <2>6. Released(d, w, s, 0)
    BY <2>4, <2>5 DEF Released
  <2>7. Begun(w) = Mem(d, <<>>, NULL)
    BY <1>6, <2>3, <2>4 DEF Begun
  <2> QED BY <2>6, <2>7
<1>7. CASE CHANNEL_CACHE_CAPACITY # 0
  <2>1. channels[R[1]][R[2]].type = "requests"
    BY <1>2
  <2>2. PICK q, n : channel_free(Memory(w), R) = Mem(channels, q, NULL) /\ Holds(q, n, R, s)
    <3> HIDE DEF R
    <3> QED BY <1>7, <2>1, FreeRequests
  <2> DEFINE d == [v \in Workers |-> [k \in DOMAIN channels[v] |->
                        Plus(channels[v][k], Cardinality(Cases(q, <<v, k>>)))]]
  <2>3. channel_cache_free(channel_free(Memory(w), R)) = Mem(d, <<>>, NULL)
    BY <2>2, CacheFreeIs
  <2>4. /\ \A i, j \in 1 .. Len(s) : s[i] = s[j] => i = j
        /\ \A i \in 1 .. Len(s) : Points(s[i], w, c, "future")
    BY DEF Owned, OnList
  <2>5. \A i \in 1 .. Len(s) : s[i] # R
    BY <1>2, <2>4 DEF Points
  <2>6. \A p : Cardinality(Cases(q, p)) = IF p = R \/ \E i \in 1 .. Len(s) : p = s[i] THEN 1 ELSE 0
    <3> HIDE DEF R, c
    <3> QED BY <2>2, <2>4, <2>5, CasesAre
  <2>7. \A p : /\ Gone(p, s, R, T, 0) => Cardinality(Cases(q, p)) = 1
               /\ ~Gone(p, s, R, T, 0) => Cardinality(Cases(q, p)) = 0
    BY <1>3, <2>6
  <2>8. \A v \in Workers : \A k \in 1 .. Len(channels[v]) :
            Plus(channels[v][k], Cardinality(Cases(q, <<v, k>>))) \in Chans
    <3> TAKE v \in Workers
    <3> TAKE k \in 1 .. Len(channels[v])
    <3>1. Cardinality(Cases(q, <<v, k>>)) \in Nat
      BY <2>7
    <3>2. channels[v][k] \in Chans
      OBVIOUS
    <3> QED BY <3>1, <3>2, PlusIs
  <2>9. \A v \in Workers : /\ d[v] \in Seq(Chans) /\ Len(d[v]) = Len(channels[v])
                           /\ \A k \in 1 .. Len(channels[v]) :
                                d[v][k] = Plus(channels[v][k], Cardinality(Cases(q, <<v, k>>)))
    <3> TAKE v \in Workers
    <3>1. PICK e : e = [k \in 1 .. Len(channels[v]) |->
                            Plus(channels[v][k], Cardinality(Cases(q, <<v, k>>)))]
      OBVIOUS
    <3>2. /\ channels[v] \in Seq(Chans) /\ Len(channels[v]) \in Nat
          /\ DOMAIN channels[v] = 1 .. Len(channels[v])
      OBVIOUS
    <3>3. d[v] = e
      BY <3>1, <3>2
    <3>4. /\ e \in [1 .. Len(channels[v]) -> Chans]
          /\ \A k \in 1 .. Len(channels[v]) :
                e[k] = Plus(channels[v][k], Cardinality(Cases(q, <<v, k>>)))
      BY <2>8, <3>1
    <3>5. e \in Seq(Chans) /\ Len(e) = Len(channels[v])
      BY <3>2, <3>4
    <3> HIDE DEF d
    <3> QED BY <3>3, <3>4, <3>5
  <2>10. DOMAIN d = Workers /\ d = [v \in Workers |-> d[v]]
    OBVIOUS
  <2> HIDE DEF d
  <2>11. d \in [Workers -> Seq(Chans)]
    BY <2>9, <2>10
  <2>12. ASSUME NEW v \in Workers \ {w} PROVE d[v] = channels[v]
    <3>1. \A k \in 1 .. Len(channels[v]) : ~Gone(<<v, k>>, s, R, T, 0)
      <4>1. \A i \in 1 .. Len(s) : s[i][1] = w
        BY <2>4 DEF Points
      <4>2. \A k : <<v, k>>[1] = v
        OBVIOUS
      <4> QED BY <1>2, <1>3, <4>1, <4>2
    <3>2. \A k \in 1 .. Len(channels[v]) : d[v][k] = channels[v][k]
      <4> TAKE k \in 1 .. Len(channels[v])
      <4>1. Cardinality(Cases(q, <<v, k>>)) = 0
        BY <2>7, <3>1
      <4>2. channels[v][k] \in Chans /\ 0 \in Nat
        OBVIOUS
      <4>3. d[v][k] = Plus(channels[v][k], 0)
        BY <2>9, <4>1
      <4> QED BY <4>2, <4>3, PlusIs
    <3>3. d[v] \in Seq(Chans) /\ channels[v] \in Seq(Chans) /\ Len(d[v]) = Len(channels[v])
      BY <2>9
    <3> QED BY <3>2, <3>3, SeqEqual
  <2>13. ASSUME NEW j \in 1 .. Len(c)
         PROVE  /\ Gone(<<w, j>>, s, R, T, 0) => d[w][j].freed = 1
                /\ ~Gone(<<w, j>>, s, R, T, 0) => d[w][j] = c[j]
    <3>1. d[w][j] = Plus(c[j], Cardinality(Cases(q, <<w, j>>))) /\ c[j] \in Chans
      BY <1>5, <2>9
    <3>2. CASE Gone(<<w, j>>, s, R, T, 0)
      <4>1. Cardinality(Cases(q, <<w, j>>)) = 1 /\ c[j].freed = 0
        BY <1>4, <2>7, <3>2
      <4>2. d[w][j] = Plus(c[j], 1) /\ 1 \in Nat
        BY <3>1, <4>1
      <4>3. d[w][j].freed = c[j].freed + 1
        <5>1. \A x \in Chans : Plus(x, 1).freed = x.freed + 1
          BY PlusIs
        <5> HIDE DEF c
        <5> QED BY <3>1, <4>2, <5>1
      <4> QED BY <3>2, <4>1, <4>3
    <3>3. CASE ~Gone(<<w, j>>, s, R, T, 0)
      <4>1. Cardinality(Cases(q, <<w, j>>)) = 0
        BY <2>7, <3>3
      <4>2. d[w][j] = Plus(c[j], 0) /\ 0 \in Nat
        BY <3>1, <4>1
      <4>3. d[w][j] = c[j]
        BY <3>1, <4>2, PlusIs
      <4> QED BY <3>3, <4>3
    <3> QED BY <3>2, <3>3
  <2>14. Released(d, w, s, 0)
    BY <2>9, <2>11, <2>12, <2>13 DEF Released
  <2>15. Begun(w) = Mem(d, <<>>, NULL)
    BY <1>7, <2>3 DEF Begun
  <2> QED BY <2>14, <2>15
<1> QED BY <1>6, <1>7

LEMMA FreeNext ==
    ASSUME channels \in [Workers -> Seq(Chans)],
           NEW w \in Workers, NEW s \in Seq(Pointers), NEW F,
           Owned(w, channels[w], s, chan_requests[w], chan_tasks[w], F),
           NEW k \in 0 .. MAXSTEAL - 1, NEW d, NEW r, Released(d, w, s, k)
    PROVE  \E e : /\ channel_free(Mem(d, <<>>, r), chan_tasks[w][k + 1]) = Mem(e, <<>>, r)
                  /\ Released(e, w, s, k + 1)
<1> DEFINE c == channels[w]
<1> DEFINE R == chan_requests[w]
<1> DEFINE T == chan_tasks[w]
<1> DEFINE p == T[k + 1]
<1>1. /\ MAXSTEAL \in Nat /\ k + 1 \in 1 .. MAXSTEAL /\ 1 .. k \subseteq 1 .. MAXSTEAL
      /\ 1 .. k + 1 = (1 .. k) \cup {k + 1} /\ k + 1 \notin 1 .. k
  BY LifecycleAssumption
<1>2. Points(p, w, c, "tasks")
  BY <1>1 DEF Owned, Own
<1>3. p \in Pointers /\ p[1] = w /\ p[2] \in 1 .. Len(c) /\ c[p[2]].type = "tasks" /\ p = <<w, p[2]>>
  BY <1>2 DEF Points, Pointers
<1>4. ~Gone(p, s, R, T, k)
  <2>1. p # R
    BY <1>3 DEF Owned, Own, Points
  <2>2. \A i \in 1 .. Len(s) : p # s[i]
    BY <1>3 DEF Owned, OnList, Points
  <2>3. \A i \in 1 .. k : p # T[i]
    BY <1>1 DEF Owned, Own
  <2> QED BY <2>1, <2>2, <2>3 DEF Gone
<1>5. \A x : Gone(x, s, R, T, k + 1) <=> Gone(x, s, R, T, k) \/ x = p
  BY <1>1 DEF Gone
<1>6. c[p[2]].freed = 0
  <2>1. Held(p, s, R, T, F)
    BY <1>1 DEF Held
  <2>2. Held(<<w, p[2]>>, s, R, T, F)
    BY <1>3, <2>1
  <2> QED BY <1>3, <2>2 DEF Owned, FreedOnce
<1> HIDE DEF p
<1>7. channel_free(Mem(d, <<>>, r), p) = Free(Mem(d, <<>>, r), p)
  BY FreeWithout
<1>8. /\ d \in [Workers -> Seq(Chans)] /\ \A v \in Workers \ {w} : d[v] = channels[v]
      /\ Len(d[w]) = Len(c)
      /\ \A j \in 1 .. Len(c) : /\ Gone(<<w, j>>, s, R, T, k) => d[w][j].freed = 1
                                /\ ~Gone(<<w, j>>, s, R, T, k) => d[w][j] = c[j]
  BY DEF Released
<1>91. PICK e : Free(Mem(d, <<>>, r), p) = Mem(e, <<>>, r) /\ OneFreed(e, d, w, p[2])
  <2>1. p[2] \in 1 .. Len(d[w])
    BY <1>3, <1>8
  <2>2. p \in Pointers /\ p[1] = w /\ d \in [Workers -> Seq(Chans)]
    BY <1>3, <1>8
  <2>3. MayFree(d, w, p)
    BY <2>1, <2>2 DEF MayFree
  <2> QED BY <2>3, FreeOne
<1>9. /\ Free(Mem(d, <<>>, r), p) = Mem(e, <<>>, r) /\ e \in [Workers -> Seq(Chans)]
      /\ \A v \in Workers \ {w} : e[v] = d[v]
      /\ Len(e[w]) = Len(d[w]) /\ e[w][p[2]].freed = d[w][p[2]].freed + 1
      /\ \A j \in 1 .. Len(d[w]) : j # p[2] => e[w][j] = d[w][j]
  BY <1>91 DEF OneFreed
<1>10. ASSUME NEW j \in 1 .. Len(c)
       PROVE  /\ Gone(<<w, j>>, s, R, T, k + 1) => e[w][j].freed = 1
              /\ ~Gone(<<w, j>>, s, R, T, k + 1) => e[w][j] = c[j]
  <2>1. CASE j = p[2]
    <3>1. <<w, j>> = p
      BY <1>3, <2>1
    <3>2. Gone(<<w, j>>, s, R, T, k + 1) /\ ~Gone(<<w, j>>, s, R, T, k)
      BY <1>4, <1>5, <3>1
    <3>3. d[w][j].freed = 0 /\ d[w][j] \in Chans
      BY <1>6, <1>8, <2>1, <3>2
    <3>4. e[w][j].freed = 1
      BY <1>9, <2>1, <3>3
    <3> QED BY <3>2, <3>4
  <2>2. CASE j # p[2]
    <3>1. <<w, j>> # p
      BY <1>3, <2>2
    <3>2. Gone(<<w, j>>, s, R, T, k + 1) <=> Gone(<<w, j>>, s, R, T, k)
      BY <1>5, <3>1
    <3>3. e[w][j] = d[w][j]
      BY <1>8, <1>9, <2>2
    <3>4. /\ Gone(<<w, j>>, s, R, T, k) => d[w][j].freed = 1
          /\ ~Gone(<<w, j>>, s, R, T, k) => d[w][j] = c[j]
      BY <1>8
    <3> QED BY <3>2, <3>3, <3>4, Zenon
  <2> QED BY <2>1, <2>2
<1>11. Released(e, w, s, k + 1)
  BY <1>8, <1>9, <1>10 DEF Released
<1> QED BY <1>7, <1>9, <1>11 DEF p

\* The channels after RT_exit
LEMMA FreesAre ==
    ASSUME CHANNEL_CACHE_CAPACITY \in Nat, channels \in [Workers -> Seq(Chans)],
           NEW w \in Workers, NEW s \in Seq(Pointers), NEW F, CacheIs(channel_cache[w], s),
           Owned(w, channels[w], s, chan_requests[w], chan_tasks[w], F),
           NEW c, Frees(c, w, MAXSTEAL)
    PROVE  \E d, r : c[MAXSTEAL] = Mem(d, <<>>, r) /\ Released(d, w, s, MAXSTEAL)
<1> DEFINE G == {k \in 0 .. MAXSTEAL : \E d, r : c[k] = Mem(d, <<>>, r) /\ Released(d, w, s, k)}
<1>1. MAXSTEAL \in Nat /\ 0 \in 0 .. MAXSTEAL /\ MAXSTEAL \in 0 .. MAXSTEAL
  BY LifecycleAssumption
<1>2. /\ c[0] = Begun(w)
      /\ \A k \in 0 .. MAXSTEAL : k # 0 => c[k] = channel_free(c[k - 1], chan_tasks[w][k])
  BY <1>1 DEF Frees
<1>3. 0 \in G
  BY <1>1, <1>2, FreeStart
<1>4. ASSUME NEW k \in 0 .. MAXSTEAL - 1, k \in G PROVE k + 1 \in G
  <2>1. PICK d, r : c[k] = Mem(d, <<>>, r) /\ Released(d, w, s, k)
    BY <1>4
  <2>2. k + 1 \in 0 .. MAXSTEAL /\ k + 1 # 0 /\ k + 1 - 1 = k
    BY <1>1
  <2>3. c[k + 1] = channel_free(Mem(d, <<>>, r), chan_tasks[w][k + 1])
    BY <1>2, <2>1, <2>2
  <2>4. \E e : /\ channel_free(Mem(d, <<>>, r), chan_tasks[w][k + 1]) = Mem(e, <<>>, r)
               /\ Released(e, w, s, k + 1)
    BY <2>1, FreeNext
  <2> QED BY <2>2, <2>3, <2>4
<1> HIDE DEF G
<1>5. \A k \in 0 .. MAXSTEAL : k \in G
  BY <1>1, <1>3, <1>4, UpTo
<1> QED BY <1>1, <1>5 DEF G

\* Only channels of futures are left then.
LEMMA ReleasedAll ==
    ASSUME NEW w \in Workers, NEW s \in Seq(Pointers), NEW F, NEW d, Released(d, w, s, MAXSTEAL),
           Owned(w, channels[w], s, chan_requests[w], chan_tasks[w], F)
    PROVE  Remain(w, d[w], F)
<1> DEFINE c == channels[w]
<1> DEFINE R == chan_requests[w]
<1> DEFINE T == chan_tasks[w]
<1>1. \A p : Held(p, s, R, T, F) <=> Gone(p, s, R, T, MAXSTEAL) \/ \E f \in F : p = f.chan
  BY DEF Held, Gone
<1>2. /\ Len(d[w]) = Len(c)
      /\ \A j \in 1 .. Len(c) : /\ Gone(<<w, j>>, s, R, T, MAXSTEAL) => d[w][j].freed = 1
                                /\ ~Gone(<<w, j>>, s, R, T, MAXSTEAL) => d[w][j] = c[j]
  BY DEF Released
<1>3. Own(w, c, R, T) /\ OfFutures(w, c, F) /\ OnList(w, c, s, F) /\ FreedOnce(w, c, s, R, T, F)
  BY DEF Owned
<1> HIDE DEF c, R, T
<1>4. ASSUME NEW f \in F
      PROVE  /\ f.chan \in Pointers /\ f.chan[1] = w /\ f.chan[2] \in 1 .. Len(c)
             /\ c[f.chan[2]].type = "future" /\ Result(f, c)
             /\ f.chan = <<w, f.chan[2]>> /\ ~Gone(f.chan, s, R, T, MAXSTEAL)
  <2>1. /\ f.chan \in Pointers /\ f.chan[1] = w /\ f.chan[2] \in 1 .. Len(c)
        /\ c[f.chan[2]].type = "future" /\ Result(f, c)
    BY <1>3 DEF OfFutures, Points
  <2>2. f.chan = <<w, f.chan[2]>>
    BY <2>1 DEF Pointers
  <2>3. f.chan # R /\ \A i \in 1 .. MAXSTEAL : f.chan # T[i]
    BY <1>3, <2>1 DEF Own, Points
  <2>4. \A i \in 1 .. Len(s) : f.chan # s[i]
    BY <1>3 DEF OnList
  <2>5. ~Gone(f.chan, s, R, T, MAXSTEAL)
    BY <2>3, <2>4 DEF Gone
  <2> QED BY <2>1, <2>2, <2>5
<1>5. \A f \in F : f.chan[2] \in 1 .. Len(c) /\ d[w][f.chan[2]] = c[f.chan[2]]
  <2> TAKE f \in F
  <2>1. f.chan[2] \in 1 .. Len(c) /\ ~Gone(<<w, f.chan[2]>>, s, R, T, MAXSTEAL)
    BY <1>4
  <2> QED BY <1>2, <2>1
<1>6. OfFutures(w, d[w], F)
  <2>1. \A f \in F : Points(f.chan, w, d[w], "future")
    BY <1>2, <1>4, <1>5 DEF Points
  <2>2. \A f \in F : Result(f, d[w])
    BY <1>4, <1>5 DEF Result
  <2>3. \A f, g \in F : f.chan = g.chan => f = g
    BY <1>3 DEF OfFutures
  <2> QED BY <2>1, <2>2, <2>3 DEF OfFutures
<1>7. ASSUME NEW k \in 1 .. Len(d[w]), NEW f \in F, <<w, k>> = f.chan PROVE d[w][k].freed = 0
  <2>1. Held(<<w, k>>, s, R, T, F) /\ ~Gone(<<w, k>>, s, R, T, MAXSTEAL)
    BY <1>1, <1>4, <1>7
  <2>2. c[k].freed = 0
    BY <1>2, <1>3, <2>1 DEF FreedOnce
  <2> QED BY <1>2, <2>1, <2>2
<1>8. ASSUME NEW k \in 1 .. Len(d[w]), ~\E f \in F : <<w, k>> = f.chan PROVE d[w][k].freed = 1
  <2>1. CASE Gone(<<w, k>>, s, R, T, MAXSTEAL)
    BY <1>2, <2>1
  <2>2. CASE ~Gone(<<w, k>>, s, R, T, MAXSTEAL)
    <3>1. c[k].freed = 1
      BY <1>1, <1>2, <1>3, <1>8, <2>2 DEF FreedOnce
    <3> QED BY <1>2, <2>2, <3>1
  <2> QED BY <2>1, <2>2
<1> QED BY <1>6, <1>7, <1>8 DEF Remain

-----------------------------------------------------------------------------
(* The invariant *)

Outside == {"outside", "create", "begin", "join", "ended"}

Home(w) == {f \in futures : f.home = w}

InUse(w) ==
    \E s \in Seq(Pointers) :
        /\ CacheIs(channel_cache[w], s)
        /\ Owned(w, channels[w], s, chan_requests[w], chan_tasks[w], Home(w))

OutOfUse(w) == channel_cache[w] = <<>> /\ Remain(w, channels[w], Home(w))

\* The channels of a worker before RT_init and after RT_exit, and in between
Keeps(w) ==
    /\ pc[w] \in Outside => OutOfUse(w)
    /\ pc[w] \notin Outside => InUse(w)

MemoryTypes ==
    /\ CHANNEL_CACHE_CAPACITY \in Nat /\ created \in Nat /\ futures \in SUBSET Futures
    /\ channels \in [Workers -> Seq(Chans)] /\ DOMAIN channel_cache = Workers
    /\ DOMAIN chan_requests = Workers /\ DOMAIN chan_tasks = Workers

Kept == MemoryTypes /\ \A w \in Workers : Keeps(w)

LEMMA InitKept == Init => Kept
<1> SUFFICES ASSUME Init PROVE Kept
  OBVIOUS
<1>1. MemoryTypes
  BY LifecycleAssumption DEF Init, MemoryTypes
<1>2. ASSUME NEW w \in Workers PROVE pc[w] \in Outside /\ OutOfUse(w)
  <2>1. Home(w) = {} /\ channels[w] = <<>> /\ channel_cache[w] = <<>> /\ pc[w] \in Outside
    BY DEF Init, Outside, Home
  <2>2. Remain(w, <<>>, {})
    BY DEF Remain, OfFutures
  <2> QED BY <2>1, <2>2 DEF OutOfUse
<1> QED BY <1>1, <1>2 DEF Kept, Keeps

\* A worker's channels stay as they are.
LEMMA KeepsSame ==
    ASSUME NEW w \in Workers, Keeps(w), CHANNEL_CACHE_CAPACITY' = CHANNEL_CACHE_CAPACITY,
           channels'[w] = channels[w], channel_cache'[w] = channel_cache[w],
           chan_requests'[w] = chan_requests[w], chan_tasks'[w] = chan_tasks[w],
           Home(w)' = Home(w), pc'[w] \in Outside <=> pc[w] \in Outside
    PROVE  Keeps(w)'
<1>1. OutOfUse(w) => OutOfUse(w)'
  BY DEF OutOfUse
<1>2. \A q, s : CacheIs(q, s) => CacheIs(q, s)'
  BY DEF CacheIs
<1>3. InUse(w) => InUse(w)'
  BY <1>2 DEF InUse
<1> QED BY <1>1, <1>3 DEF Keeps

\* Threads that go on without using channels
LEMMA StayKept ==
    ASSUME Kept,
           UNCHANGED <<CHANNEL_CACHE_CAPACITY, memory, chan_requests, chan_tasks, futures, created>>,
           \A w \in Workers : pc'[w] \in Outside <=> pc[w] \in Outside
    PROVE  Kept'
<1>1. UNCHANGED <<CHANNEL_CACHE_CAPACITY, channels, channel_cache, chan_requests, chan_tasks, futures,
                  created>>
  BY DEF memory
<1>2. MemoryTypes'
  BY <1>1 DEF Kept, MemoryTypes
<1>3. ASSUME NEW w \in Workers PROVE Keeps(w)'
  <2>1. Home(w)' = Home(w) /\ Keeps(w)
    BY <1>1 DEF Home, Kept
  <2> QED BY <1>1, <2>1, KeepsSame
<1> QED BY <1>2, <1>3 DEF Kept

LEMMA MoveKept ==
    ASSUME Together, Kept, NEW w \in Workers,
           tasking_init \/ CreateThread(w) \/ Arrive(w) \/ Depart(w) \/ RT_EXIT_FN(w) \/ Join
    PROVE  Kept'
<1>0. UNCHANGED <<CHANNEL_CACHE_CAPACITY, memory, chan_requests, chan_tasks, futures, created>>
  BY DEF tasking_init, CreateThread, Arrive, Depart, RT_EXIT_FN, Join
<1>1. DOMAIN pc = Workers
  BY DEF Together
<1>2. ASSUME NEW v \in Workers, NEW l, pc' = [pc EXCEPT ![v] = l],
             pc[v] \in Outside <=> l \in Outside
      PROVE  Kept'
  <2>1. \A u \in Workers : pc'[u] \in Outside <=> pc[u] \in Outside
    BY <1>1, <1>2
  <2> QED BY <1>0, <2>1, StayKept
<1>3. CASE tasking_init
  <2>1. pc[MASTER_ID] = "outside" /\ pc' = [pc EXCEPT ![MASTER_ID] = "create"]
    BY <1>3 DEF tasking_init, Goto
  <2>2. pc[MASTER_ID] \in Outside <=> "create" \in Outside
    BY <2>1 DEF Outside
  <2> QED BY <1>2, <2>1, <2>2, Master
<1>4. CASE CreateThread(w)
  <2>1. pc[w] = "outside" /\ pc' = [pc EXCEPT ![w] = "begin"]
    BY <1>4 DEF CreateThread, Goto
  <2>2. pc[w] \in Outside <=> "begin" \in Outside
    BY <2>1 DEF Outside
  <2> QED BY <1>2, <2>1, <2>2
<1>5. CASE Arrive(w)
  <2>1. pc[w] \in Barriers /\ pc' = [pc EXCEPT ![w] = In(pc[w])]
    BY <1>5 DEF Arrive, Goto
  <2>2. pc[w] \in Outside <=> In(pc[w]) \in Outside
    BY <2>1 DEF Outside, Barriers, In
  <2> QED BY <1>2, <2>1, <2>2
<1>6. CASE Depart(w)
  <2>1. pc[w] \in {"in 1", "in 2", "in 3"} /\ pc' = [pc EXCEPT ![w] = After(pc[w])]
    BY <1>6 DEF Depart, Goto
  <2>2. pc[w] \in Outside <=> After(pc[w]) \in Outside
    BY <2>1 DEF Outside, After
  <2> QED BY <1>2, <2>1, <2>2
<1>7. CASE RT_EXIT_FN(w)
  <2>1. pc[w] = "running" /\ pc' = [pc EXCEPT ![w] = "barrier 2"]
    BY <1>7 DEF RT_EXIT_FN, Goto
  <2>2. pc[w] \in Outside <=> "barrier 2" \in Outside
    BY <2>1 DEF Outside
  <2> QED BY <1>2, <2>1, <2>2
<1>8. CASE Join
  <2>1. \A u \in Workers : pc'[u] = "outside" /\ pc[u] \in {"join", "ended"}
    BY <1>8 DEF Join
  <2>2. \A u \in Workers : pc'[u] \in Outside <=> pc[u] \in Outside
    BY <2>1 DEF Outside
  <2> QED BY <1>0, <2>2, StayKept
<1> QED BY <1>3, <1>4, <1>5, <1>6, <1>7, <1>8

\* Worker w changes its channels, and the others do not.
LEMMA OneKept ==
    ASSUME Kept, NEW w \in Workers, CHANNEL_CACHE_CAPACITY' = CHANNEL_CACHE_CAPACITY,
           created' \in Nat, futures' \in SUBSET Futures,
           channels' \in [Workers -> Seq(Chans)], DOMAIN channel_cache' = Workers,
           DOMAIN chan_requests' = Workers, DOMAIN chan_tasks' = Workers,
           \A v \in Workers \ {w} :
              /\ channels'[v] = channels[v] /\ channel_cache'[v] = channel_cache[v]
              /\ chan_requests'[v] = chan_requests[v] /\ chan_tasks'[v] = chan_tasks[v]
              /\ Home(v)' = Home(v) /\ pc'[v] = pc[v],
           Keeps(w)'
    PROVE  Kept'
<1>1. MemoryTypes'
  BY DEF Kept, MemoryTypes
<1>2. ASSUME NEW v \in Workers \ {w} PROVE Keeps(v)'
  <2>1. Keeps(v)
    BY DEF Kept
  <2> QED BY <2>1, KeepsSame
<1> QED BY <1>1, <1>2 DEF Kept

\* All workers are past RT_init, and none is at RT_exit, while somebody runs.
LEMMA RunningTogether ==
    ASSUME Together, NEW w \in Workers, pc[w] = "running", NEW v \in Workers
    PROVE  pc[v] \notin Outside
<1>1. Passed(w) = 1
  BY DEF Passed, Level
<1>2. Passed(v) = 1
  BY <1>1, Master DEF Together
<1>3. pc[v] \in Labels
  BY DEF Together
<1>4. ASSUME pc[v] \in Outside PROVE FALSE
  <2>1. pc[v] \in {"outside", "create", "begin"} \/ pc[v] \in {"join", "ended"}
    BY <1>4 DEF Outside
  <2>2. CASE pc[v] \in {"outside", "create", "begin"}
    <3>1. Passed(v) = 0
      BY <2>2 DEF Passed, Level
    <3> QED BY <1>2, <3>1
  <2>3. CASE pc[v] \in {"join", "ended"}
    <3>1. Passed(v) = 3
      BY <2>3 DEF Passed, Level
    <3> QED BY <1>2, <3>1
  <2> QED BY <2>1, <2>2, <2>3
<1> QED BY <1>4

\* What worker w gets from, and gives to, channel_alloc and channel_free.
LEMMA StoreIs ==
    ASSUME MemoryTypes, NEW w \in Workers, NEW m, Store(w, m)
    PROVE  /\ channels' = m.channels /\ DOMAIN channel_cache' = Workers /\ channel_cache'[w] = m.cache
           /\ \A v \in Workers \ {w} : channel_cache'[v] = channel_cache[v]
BY DEF Store, MemoryTypes

LEMMA ConvertKept ==
    ASSUME Kept, NEW w \in Workers, NEW u \in Workers, Convert(w, u)
    PROVE  Kept'
<1>1. PICK m : m = channel_alloc(Mem(channels, channel_cache[w], NULL), w, "future")
  OBVIOUS
<1>2. Memory(w) = Mem(channels, channel_cache[w], NULL)
  BY DEF Memory, Mem
<1>3. PICK f : f = [id |-> created + 1, chan |-> m.ret, home |-> w, setter |-> u, pc |-> "unset"]
  OBVIOUS
<1>4. /\ pc[w] = "running" /\ Store(w, m) /\ created' = created + 1 /\ futures' = futures \cup {f}
      /\ UNCHANGED <<CHANNEL_CACHE_CAPACITY, chan_requests, chan_tasks, pc>>
  BY <1>1, <1>2, <1>3 DEF Convert
<1>5. MemoryTypes /\ Keeps(w)
  BY DEF Kept
<1>6. pc[w] \notin Outside /\ pc'[w] \notin Outside
  BY <1>4 DEF Outside
<1>7. PICK s \in Seq(Pointers) : /\ CacheIs(channel_cache[w], s)
                                 /\ Owned(w, channels[w], s, chan_requests[w], chan_tasks[w], Home(w))
  BY <1>5, <1>6 DEF Keeps, InUse
<1>8. CHANNEL_CACHE_CAPACITY \in Nat /\ DOMAIN channels = Workers /\ channels \in [Workers -> Seq(Chans)]
  BY <1>5 DEF MemoryTypes
<1>9. \/ m.channels = More(channels, w, "future") /\ m.ret = Pointer(channels, w) /\ CacheIs(m.cache, s)
      \/ m.channels = channels /\ s # <<>> /\ m.ret = Last(s) /\ CacheIs(m.cache, Front(s))
  BY <1>1, <1>7, <1>8, AllocFuture
<1>10. /\ channels' = m.channels /\ DOMAIN channel_cache' = Workers /\ channel_cache'[w] = m.cache
       /\ \A v \in Workers \ {w} : channel_cache'[v] = channel_cache[v]
  BY <1>4, <1>5, StoreIs
<1>11. f.home = w /\ f.pc = "unset" /\ f.chan = m.ret
  BY <1>3
<1>12. Home(w)' = Home(w) \cup {f} /\ \A v \in Workers \ {w} : Home(v)' = Home(v)
  BY <1>4, <1>11 DEF Home
<1>13. m.ret \in Pointers => f \in Futures /\ created' \in Nat /\ futures' \in SUBSET Futures
  BY <1>3, <1>4, <1>5 DEF MemoryTypes, Futures
<1>14. \A q, t : CacheIs(q, t) => CacheIs(q, t)'
  BY <1>4 DEF CacheIs
<1>15. Home(w) \in SUBSET Futures /\ channels[w] \in Seq(Chans)
  BY <1>5 DEF MemoryTypes, Home
<1>16. ASSUME m.ret \in Pointers, channels' \in [Workers -> Seq(Chans)],
              \A v \in Workers \ {w} : channels'[v] = channels[v],
              NEW t \in Seq(Pointers), CacheIs(m.cache, t),
              Owned(w, channels'[w], t, chan_requests[w], chan_tasks[w], Home(w) \cup {f})
       PROVE  Kept'
  <2>1. CacheIs(channel_cache[w], t)'
    BY <1>10, <1>14, <1>16
  <2>2. InUse(w)'
    BY <1>4, <1>12, <1>16, <2>1 DEF InUse
  <2>3. Keeps(w)'
    BY <1>6, <2>2 DEF Keeps
  <2>4. DOMAIN chan_requests' = Workers /\ DOMAIN chan_tasks' = Workers
    BY <1>4, <1>5 DEF MemoryTypes
  <2>5. created' \in Nat /\ futures' \in SUBSET Futures
    BY <1>13, <1>16
  <2> QED BY <1>4, <1>10, <1>12, <1>16, <2>3, <2>4, <2>5, OneKept
<1>17. CASE /\ m.channels = More(channels, w, "future") /\ m.ret = Pointer(channels, w)
            /\ CacheIs(m.cache, s)
  <2>1. "future" \in Types
    BY DEF Types
  <2>2. /\ channels' \in [Workers -> Seq(Chans)] /\ \A v \in Workers \ {w} : channels'[v] = channels[v]
        /\ channels'[w] = Append(channels[w], NewChannel("future"))
    BY <1>8, <1>10, <1>17, <2>1, MoreIs
  <2>3. f.chan = <<w, Len(channels[w]) + 1>> /\ m.ret \in Pointers
    BY <1>11, <1>15, <1>17 DEF Pointer, Pointers
  <2>4. f \in Futures
    BY <1>13, <2>3
  <2>5. Owned(w, Append(channels[w], NewChannel("future")), s, chan_requests[w], chan_tasks[w],
              Home(w) \cup {f})
    BY <1>7, <1>11, <1>15, <2>3, <2>4, OwnedNew
  <2> QED BY <1>16, <1>17, <2>2, <2>3, <2>5
<1>18. CASE m.channels = channels /\ s # <<>> /\ m.ret = Last(s) /\ CacheIs(m.cache, Front(s))
  <2>1. Last(s) \in Pointers
    <3>1. Len(s) \in 1 .. Len(s)
      BY <1>18
    <3> QED BY <3>1 DEF Last
  <2>2. f \in Futures /\ f.chan = Last(s)
    BY <1>11, <1>13, <1>18, <2>1
  <2>3. Owned(w, channels[w], Front(s), chan_requests[w], chan_tasks[w], Home(w) \cup {f})
    BY <1>7, <1>11, <1>15, <1>18, <2>2, OwnedTake
  <2>4. Front(s) \in Seq(Pointers)
    BY <1>18, FrontIs
  <2>5. channels' = channels
    BY <1>10, <1>18
  <2> QED BY <1>8, <1>16, <1>18, <2>1, <2>3, <2>4, <2>5
<1> QED BY <1>9, <1>17, <1>18

\* The channel of a future belongs to the worker that made it.
LEMMA FutureOf ==
    ASSUME Together, Kept, NEW f \in futures, pc[MASTER_ID] = "running"
    PROVE  /\ f \in Futures /\ f.home \in Workers /\ pc[f.home] \notin Outside /\ f \in Home(f.home)
           /\ \E s \in Seq(Pointers) :
                /\ CacheIs(channel_cache[f.home], s)
                /\ Owned(f.home, channels[f.home], s, chan_requests[f.home], chan_tasks[f.home],
                         Home(f.home))
<1>1. f \in Futures /\ f.home \in Workers
  BY DEF Kept, MemoryTypes, Futures
<1>2. pc[f.home] \notin Outside
  BY <1>1, Master, RunningTogether
<1>3. f \in Home(f.home)
  BY DEF Home
<1>4. InUse(f.home)
  BY <1>1, <1>2 DEF Kept, Keeps
<1> QED BY <1>1, <1>2, <1>3, <1>4 DEF InUse

\* It holds the result, and is not freed, before RT_init and after RT_exit, too.
LEMMA FutureAlways ==
    ASSUME Together, Kept, NEW f \in futures, NEW w, w = f.home
    PROVE  /\ w \in Workers /\ f \in Home(w) /\ Points(f.chan, w, channels[w], "future")
           /\ Result(f, channels[w]) /\ channels[w][f.chan[2]].freed = 0
<1>1. w \in Workers /\ f \in Home(w)
  BY DEF Kept, MemoryTypes, Futures, Home
<1>2. CASE pc[w] \in Outside
  <2>1. Remain(w, channels[w], Home(w))
    BY <1>1, <1>2 DEF Kept, Keeps, OutOfUse
  <2>2. Points(f.chan, w, channels[w], "future") /\ Result(f, channels[w])
    BY <1>1, <2>1 DEF Remain, OfFutures
  <2>3. f.chan[2] \in 1 .. Len(channels[w]) /\ <<w, f.chan[2]>> = f.chan
    BY <2>2 DEF Points, Pointers
  <2>4. channels[w][f.chan[2]].freed = 0
    BY <1>1, <2>1, <2>3 DEF Remain
  <2> QED BY <1>1, <2>2, <2>4
<1>3. CASE pc[w] \notin Outside
  <2>1. PICK s \in Seq(Pointers) :
            Owned(w, channels[w], s, chan_requests[w], chan_tasks[w], Home(w))
    BY <1>1, <1>3 DEF Kept, Keeps, InUse
  <2>2. Points(f.chan, w, channels[w], "future") /\ Result(f, channels[w])
    BY <1>1, <2>1 DEF Owned, OfFutures
  <2>3. f.chan[2] \in 1 .. Len(channels[w]) /\ <<w, f.chan[2]>> = f.chan
    BY <2>2 DEF Points, Pointers
  <2>4. Held(<<w, f.chan[2]>>, s, chan_requests[w], chan_tasks[w], Home(w))
    BY <1>1, <2>3 DEF Held
  <2>5. channels[w][f.chan[2]].freed = 0
    BY <2>1, <2>3, <2>4 DEF Owned, FreedOnce
  <2> QED BY <1>1, <2>2, <2>5
<1> QED BY <1>2, <1>3

LEMMA FutureChan ==
    ASSUME NEW w, NEW c, NEW s, NEW R, NEW T, NEW F, Owned(w, c, s, R, T, F), NEW f \in F
    PROVE  /\ f.chan \in Pointers /\ f.chan[1] = w /\ f.chan[2] \in 1 .. Len(c)
           /\ c[f.chan[2]].type = "future" /\ Result(f, c)
BY DEF Owned, OfFutures, Points

\* The task of a future changes a field of its channel.
LEMMA SetKept ==
    ASSUME Together, Kept, NEW f \in futures, pc[MASTER_ID] = "running",
           NEW g \in Futures, g.chan = f.chan, g.home = f.home,
           NEW c, c = channels[f.home], NEW x \in Chans,
           x.type = c[f.chan[2]].type, x.freed = c[f.chan[2]].freed,
           x.head = IF g.pc = "set" THEN 1 ELSE 0, g.pc # "unset" => x.buffer = g.id,
           channels' = [channels EXCEPT ![f.home] = [c EXCEPT ![f.chan[2]] = x]],
           futures' = (futures \ {f}) \cup {g},
           UNCHANGED <<CHANNEL_CACHE_CAPACITY, channel_cache, chan_requests, chan_tasks, created, pc>>
    PROVE  Kept'
<1> DEFINE w == f.home
<1>1. /\ f \in Futures /\ w \in Workers /\ pc[w] \notin Outside /\ f \in Home(w)
      /\ \E s \in Seq(Pointers) :
            /\ CacheIs(channel_cache[w], s)
            /\ Owned(w, channels[w], s, chan_requests[w], chan_tasks[w], Home(w))
  BY FutureOf
<1>2. PICK s \in Seq(Pointers) : /\ CacheIs(channel_cache[w], s)
                                 /\ Owned(w, c, s, chan_requests[w], chan_tasks[w], Home(w))
  BY <1>1
<1> HIDE DEF w
<1>3. MemoryTypes /\ c \in Seq(Chans) /\ Home(w) \in SUBSET Futures
  BY <1>1 DEF Kept, MemoryTypes, Home, w
<1>4. Home(w)' = (Home(w) \ {f}) \cup {g} /\ \A v \in Workers \ {w} : Home(v)' = Home(v)
  BY DEF Home, w
<1>5. Owned(w, [c EXCEPT ![f.chan[2]] = x], s, chan_requests[w], chan_tasks[w], (Home(w) \ {f}) \cup {g})
  BY <1>1, <1>2, <1>3, OwnedSet
<1>6. [c EXCEPT ![f.chan[2]] = x] \in Seq(Chans)
  <2>1. f.chan[2] \in 1 .. Len(c)
    BY <1>1, <1>2, FutureChan
  <2>2. PICK n \in 1 .. Len(c) : n = f.chan[2]
    BY <2>1
  <2>3. [c EXCEPT ![n] = x] \in Seq(Chans)
    BY <1>3
  <2> QED BY <2>2, <2>3
<1>7. PICK d : d = [c EXCEPT ![f.chan[2]] = x]
  OBVIOUS
<1>8. /\ channels' \in [Workers -> Seq(Chans)] /\ channels'[w] = d
      /\ \A v \in Workers \ {w} : channels'[v] = channels[v]
  <2>1. channels' = [channels EXCEPT ![w] = d] /\ d \in Seq(Chans)
    BY <1>6, <1>7 DEF w
  <2>2. channels \in [Workers -> Seq(Chans)] /\ w \in Workers
    BY <1>1, <1>3 DEF MemoryTypes
  <2>3. PICK e : e = [channels EXCEPT ![w] = d]
    OBVIOUS
  <2>4. e \in [Workers -> Seq(Chans)] /\ e[w] = d /\ \A v \in Workers \ {w} : e[v] = channels[v]
    BY <2>1, <2>2, <2>3
  <2> QED BY <2>1, <2>3, <2>4
<1>9. Owned(w, channels'[w], s, chan_requests[w], chan_tasks[w], Home(w)')
  BY <1>4, <1>5, <1>7, <1>8
<1>10. CacheIs(channel_cache[w], s)'
  BY <1>2 DEF CacheIs
<1>11. InUse(w)' /\ pc'[w] \notin Outside
  BY <1>1, <1>9, <1>10 DEF InUse
<1>12. Keeps(w)'
  BY <1>11 DEF Keeps
<1>13. /\ created' \in Nat /\ futures' \in SUBSET Futures /\ DOMAIN channel_cache' = Workers
       /\ DOMAIN chan_requests' = Workers /\ DOMAIN chan_tasks' = Workers
  BY <1>3 DEF MemoryTypes
<1> QED BY <1>1, <1>4, <1>8, <1>12, <1>13, OneKept

LEMMA CopyKept ==
    ASSUME Together, Kept, NEW f \in futures, SetCopy(f)
    PROVE  Kept'
<1> DEFINE w == f.home
<1> DEFINE n == f.chan[2]
<1>0. pc[MASTER_ID] = "running"
  BY DEF SetCopy, Together, Open
<1>1. /\ f \in Futures /\ w \in Workers /\ pc[w] \notin Outside /\ f \in Home(w)
      /\ \E s \in Seq(Pointers) :
            /\ CacheIs(channel_cache[w], s)
            /\ Owned(w, channels[w], s, chan_requests[w], chan_tasks[w], Home(w))
  BY <1>0, FutureOf
<1>2. PICK c : c = channels[w]
  OBVIOUS
<1>3. f.chan[1] = w /\ n \in 1 .. Len(c) /\ Result(f, c)
  BY <1>1, <1>2, FutureChan
<1>4. /\ f.pc = "unset"
      /\ UNCHANGED <<CHANNEL_CACHE_CAPACITY, channel_cache, chan_requests, chan_tasks, created, pc>>
  BY DEF SetCopy
<1>5. Channel(f.chan).head = 0
  BY <1>2, <1>3, <1>4 DEF Channel, Result
<1>6. PICK x : x = [c[n] EXCEPT !.buffer = f.id]
  OBVIOUS
<1>7. PICK g : g = [f EXCEPT !.pc = "copied"]
  OBVIOUS
<1>8. futures' = (futures \ {f}) \cup {g}
  BY <1>5, <1>7 DEF SetCopy
<1>9. channels' = [channels EXCEPT ![w] = [c EXCEPT ![n] = x]]
  <2>1. channels' = [channels EXCEPT ![f.chan[1]][f.chan[2]].buffer = f.id]
    BY <1>5 DEF SetCopy
  <2> QED BY <1>2, <1>3, <1>6, <2>1
<1>10. c \in Seq(Chans) /\ c[n] \in Chans
  BY <1>1, <1>2, <1>3 DEF Kept, MemoryTypes
<1>11. /\ g \in Futures /\ g.chan = f.chan /\ g.home = f.home
       /\ g.pc = "copied" /\ g.id = f.id /\ f.id \in Nat
  BY <1>1, <1>7 DEF Futures
<1>12. x \in Chans /\ x.type = c[n].type /\ x.freed = c[n].freed /\ x.head = c[n].head /\ x.buffer = f.id
  BY <1>6, <1>10, <1>11 DEF Chans
<1>13. x.head = 0
  BY <1>3, <1>4, <1>12 DEF Result
<1>14. /\ x.type = c[f.chan[2]].type /\ x.freed = c[f.chan[2]].freed
       /\ x.head = IF g.pc = "set" THEN 1 ELSE 0
       /\ g.pc # "unset" => x.buffer = g.id
  BY <1>11, <1>12, <1>13
<1>15. g \in Futures /\ x \in Chans /\ g.chan = f.chan /\ g.home = f.home
  BY <1>11, <1>12
<1> QED BY <1>0, <1>2, <1>4, <1>8, <1>9, <1>14, <1>15, SetKept

LEMMA AdvanceKept ==
    ASSUME Together, Kept, NEW f \in futures, SetAdvance(f)
    PROVE  Kept'
<1> DEFINE w == f.home
<1> DEFINE n == f.chan[2]
<1>0. pc[MASTER_ID] = "running"
  BY DEF SetAdvance, Together, Open
<1>1. /\ f \in Futures /\ w \in Workers /\ pc[w] \notin Outside /\ f \in Home(w)
      /\ \E s \in Seq(Pointers) :
            /\ CacheIs(channel_cache[w], s)
            /\ Owned(w, channels[w], s, chan_requests[w], chan_tasks[w], Home(w))
  BY <1>0, FutureOf
<1>2. PICK c : c = channels[w]
  OBVIOUS
<1>3. f.chan[1] = w /\ n \in 1 .. Len(c) /\ Result(f, c)
  BY <1>1, <1>2, FutureChan
<1>4. /\ f.pc = "copied"
      /\ UNCHANGED <<CHANNEL_CACHE_CAPACITY, channel_cache, chan_requests, chan_tasks, created, pc>>
  BY DEF SetAdvance
<1>5. PICK x : x = [c[n] EXCEPT !.head = 1]
  OBVIOUS
<1>6. PICK g : g = [f EXCEPT !.pc = "set"]
  OBVIOUS
<1>7. futures' = (futures \ {f}) \cup {g}
  BY <1>6 DEF SetAdvance
<1>8. channels' = [channels EXCEPT ![w] = [c EXCEPT ![n] = x]]
  <2>1. channels' = [channels EXCEPT ![f.chan[1]][f.chan[2]].head = 1]
    BY DEF SetAdvance
  <2> QED BY <1>2, <1>3, <1>5, <2>1
<1>9. c \in Seq(Chans) /\ c[n] \in Chans
  BY <1>1, <1>2, <1>3 DEF Kept, MemoryTypes
<1>10. g \in Futures /\ g.chan = f.chan /\ g.home = f.home /\ g.pc = "set" /\ g.id = f.id
  BY <1>1, <1>6 DEF Futures
<1>11. x \in Chans /\ x.type = c[n].type /\ x.freed = c[n].freed /\ x.buffer = c[n].buffer /\ x.head = 1
  BY <1>5, <1>9 DEF Chans
<1>12. x.buffer = f.id
  BY <1>3, <1>4, <1>11 DEF Result
<1>13. /\ x.type = c[f.chan[2]].type /\ x.freed = c[f.chan[2]].freed
       /\ x.head = IF g.pc = "set" THEN 1 ELSE 0
       /\ g.pc # "unset" => x.buffer = g.id
  BY <1>10, <1>11, <1>12
<1>14. g \in Futures /\ x \in Chans /\ g.chan = f.chan /\ g.home = f.home
  BY <1>10, <1>11
<1> QED BY <1>0, <1>2, <1>4, <1>7, <1>8, <1>13, <1>14, SetKept

LEMMA ForceKept ==
    ASSUME Together, Kept, NEW f \in futures, RT_force_future(f)
    PROVE  Kept'
<1> DEFINE w == f.home
<1> DEFINE n == f.chan[2]
<1>0. pc[MASTER_ID] = "running"
  BY DEF RT_force_future
<1>1. /\ f \in Futures /\ w \in Workers /\ pc[w] \notin Outside /\ f \in Home(w)
      /\ \E s \in Seq(Pointers) :
            /\ CacheIs(channel_cache[w], s)
            /\ Owned(w, channels[w], s, chan_requests[w], chan_tasks[w], Home(w))
  BY <1>0, FutureOf
<1>2. PICK c : c = channels[w]
  OBVIOUS
<1>3. PICK s \in Seq(Pointers) : /\ CacheIs(channel_cache[w], s)
                                 /\ Owned(w, c, s, chan_requests[w], chan_tasks[w], Home(w))
  BY <1>1, <1>2
<1>4. /\ f.chan \in Pointers /\ f.chan[1] = w /\ n \in 1 .. Len(c) /\ c[n].type = "future"
  BY <1>1, <1>3, FutureChan
<1>5. MemoryTypes /\ c \in Seq(Chans) /\ c[n] \in Chans /\ channels \in [Workers -> Seq(Chans)]
  BY <1>1, <1>2, <1>4 DEF Kept, MemoryTypes
<1>6. PICK x : x = [c[n] EXCEPT !.head = 0]
  OBVIOUS
<1>7. x \in Chans /\ x.type = "future" /\ x.freed = c[n].freed /\ x.head = 0
  BY <1>4, <1>5, <1>6 DEF Chans
<1>8. PICK e : e = [c EXCEPT ![n] = x]
  OBVIOUS
<1>9. e \in Seq(Chans) /\ Len(e) = Len(c) /\ e[n] = x
  BY <1>4, <1>5, <1>7, <1>8
<1>10. PICK d : d = [channels EXCEPT ![w] = e]
  OBVIOUS
<1>11. /\ d \in [Workers -> Seq(Chans)] /\ DOMAIN d = Workers /\ d[w] = e
       /\ \A v \in Workers \ {w} : d[v] = channels[v]
  BY <1>1, <1>5, <1>9, <1>10
<1>12. PICK m : m = channel_free(Mem(d, channel_cache[w], NULL), f.chan)
  OBVIOUS
<1>13. /\ Store(w, m) /\ futures' = futures \ {f}
       /\ UNCHANGED <<CHANNEL_CACHE_CAPACITY, chan_requests, chan_tasks, created, pc>>
  <2>1. [Memory(w) EXCEPT !.channels[f.chan[1]][f.chan[2]].head = 0] = Mem(d, channel_cache[w], NULL)
    <3>1. Memory(w) = Mem(channels, channel_cache[w], NULL)
      BY DEF Memory, Mem
    <3>2. [Mem(channels, channel_cache[w], NULL) EXCEPT !.channels = d] = Mem(d, channel_cache[w], NULL)
      BY DEF Mem
    <3>3. Mem(channels, channel_cache[w], NULL).channels = channels
      BY DEF Mem
    <3>4. [Mem(channels, channel_cache[w], NULL) EXCEPT !.channels[f.chan[1]][f.chan[2]].head = 0]
             = [Mem(channels, channel_cache[w], NULL) EXCEPT !.channels = d]
      <4>1. [channels EXCEPT ![f.chan[1]][f.chan[2]].head = 0] = d
        BY <1>2, <1>4, <1>6, <1>8, <1>10
      <4> QED BY <3>3, <4>1
    <3> QED BY <3>1, <3>2, <3>4
  <2> QED BY <1>12, <2>1 DEF RT_force_future
<1>14. /\ channels' = m.channels /\ DOMAIN channel_cache' = Workers /\ channel_cache'[w] = m.cache
       /\ \A v \in Workers \ {w} : channel_cache'[v] = channel_cache[v]
  BY <1>1, <1>5, <1>13, StoreIs
<1>15. CHANNEL_CACHE_CAPACITY \in Nat /\ d[f.chan[1]][f.chan[2]].type = "future"
  BY <1>4, <1>5, <1>7, <1>9, <1>11 DEF MemoryTypes
<1>16. \/ m.channels = d /\ CacheIs(m.cache, Append(s, f.chan))
       \/ m = Free(Mem(d, channel_cache[w], NULL), f.chan)
  <2>1. DOMAIN d = Workers /\ f.chan \in Pointers /\ CacheIs(channel_cache[w], s)
    BY <1>3, <1>4, <1>11
  <2> HIDE DEF w, n
  <2> QED BY <1>12, <1>15, <2>1, FreeFuture
<1>17. Home(w)' = Home(w) \ {f} /\ \A v \in Workers \ {w} : Home(v)' = Home(v)
  BY <1>13 DEF Home
<1>18. Home(w) \in SUBSET Futures /\ f \in Home(w)
  BY <1>1, <1>5 DEF MemoryTypes, Home
<1>19. \A q, t : CacheIs(q, t) => CacheIs(q, t)'
  BY <1>13 DEF CacheIs
<1>20. ASSUME channels' \in [Workers -> Seq(Chans)], \A v \in Workers \ {w} : channels'[v] = channels[v],
              NEW t \in Seq(Pointers), CacheIs(m.cache, t),
              Owned(w, channels'[w], t, chan_requests[w], chan_tasks[w], Home(w) \ {f})
       PROVE  Kept'
  <2>1. CacheIs(channel_cache[w], t)'
    <3>1. CacheIs(channel_cache'[w], t)
      BY <1>14, <1>20
    <3> QED BY <1>13, <3>1 DEF CacheIs
  <2>2. InUse(w)'
    BY <1>13, <1>17, <1>20, <2>1 DEF InUse
  <2>3. pc'[w] \notin Outside
    BY <1>1, <1>13
  <2>4. Keeps(w)'
    BY <2>2, <2>3 DEF Keeps
  <2>5. /\ DOMAIN chan_requests' = Workers /\ DOMAIN chan_tasks' = Workers
        /\ created' \in Nat /\ futures' \in SUBSET Futures
    BY <1>5, <1>13 DEF MemoryTypes
  <2> HIDE DEF w
  <2>6. w \in Workers
    BY <1>1 DEF w
  <2> QED BY <1>13, <1>14, <1>17, <1>20, <2>4, <2>5, <2>6, OneKept DEF w
<1>21. CASE m.channels = d /\ CacheIs(m.cache, Append(s, f.chan))
  <2>1. Append(s, f.chan) \in Seq(Pointers)
    BY <1>4
  <2>2. x.type = c[f.chan[2]].type /\ x.freed = c[f.chan[2]].freed /\ x.head = 0
    BY <1>4, <1>7
  <2>3. Owned(w, [c EXCEPT ![f.chan[2]] = x], Append(s, f.chan), chan_requests[w], chan_tasks[w],
              Home(w) \ {f})
    <3> HIDE DEF w
    <3>1. w \in Workers /\ Owned(w, c, s, chan_requests[w], chan_tasks[w], Home(w))
      BY <1>1, <1>3 DEF w
    <3> QED BY <1>5, <1>7, <1>18, <2>2, <3>1, OwnedCache DEF w
  <2>4. channels'[w] = [c EXCEPT ![f.chan[2]] = x]
    BY <1>8, <1>11, <1>14, <1>21
  <2>5. channels' = d
    BY <1>14, <1>21
  <2> QED BY <1>11, <1>20, <1>21, <2>1, <2>3, <2>4, <2>5
<1>22. CASE m = Free(Mem(d, channel_cache[w], NULL), f.chan)
  <2>1. PICK h : Free(Mem(d, channel_cache[w], NULL), f.chan) = Mem(h, channel_cache[w], NULL)
                   /\ h = Freed(d, f.chan)
    <3>1. f.chan[1] \in Workers /\ DOMAIN d = Workers
      BY <1>1, <1>4, <1>11
    <3> QED BY <3>1, FreeIs
  <2>2. channels' = h /\ channel_cache'[w] = channel_cache[w] /\ m.cache = channel_cache[w]
    BY <1>14, <1>22, <2>1 DEF Mem
  <2>3. PICK y : y = Plus(x, 1)
    OBVIOUS
  <2>4. y \in Chans /\ y.type = x.type /\ y.freed = x.freed + 1
    BY <1>7, <2>3, PlusIs
  <2>5. h = [d EXCEPT ![w] = [e EXCEPT ![n] = y]]
    BY <1>4, <1>9, <1>11, <2>1, <2>3 DEF Freed
  <2>6. [e EXCEPT ![n] = y] = [c EXCEPT ![n] = y]
    BY <1>4, <1>5, <1>8
  <2>7. [c EXCEPT ![n] = y] \in Seq(Chans)
    BY <1>4, <1>5, <2>4
  <2>8. /\ h \in [Workers -> Seq(Chans)] /\ h[w] = [c EXCEPT ![n] = y]
        /\ \A v \in Workers \ {w} : h[v] = channels[v]
    <3>1. PICK b : b = [c EXCEPT ![n] = y]
      OBVIOUS
    <3>2. b \in Seq(Chans) /\ h = [d EXCEPT ![w] = b]
      BY <2>5, <2>6, <2>7, <3>1
    <3>3. h \in [Workers -> Seq(Chans)] /\ h[w] = b /\ \A v \in Workers \ {w} : h[v] = d[v]
      BY <1>1, <1>11, <3>2
    <3> QED BY <1>11, <3>1, <3>3
  <2>9. Owned(w, [c EXCEPT ![f.chan[2]] = y], s, chan_requests[w], chan_tasks[w], Home(w) \ {f})
    <3>1. y.type = c[f.chan[2]].type /\ y.freed = c[f.chan[2]].freed + 1
      BY <1>4, <1>7, <2>4
    <3>2. w \in Workers /\ Owned(w, c, s, chan_requests[w], chan_tasks[w], Home(w))
      BY <1>1, <1>3
    <3> HIDE DEF w
    <3> QED BY <1>5, <1>18, <2>4, <3>1, <3>2, OwnedFree DEF w
  <2>10. CacheIs(m.cache, s)
    BY <1>3, <2>2
  <2> QED BY <1>20, <2>2, <2>8, <2>9, <2>10
<1> QED BY <1>16, <1>21, <1>22

LEMMA StartKept ==
    ASSUME Together, Kept, NEW w \in Workers, RT_init(w)
    PROVE  Kept'
<1> DEFINE A == CHOOSE m : m = [k \in 0 .. MAXSTEAL |->
                    IF k = 0 THEN channel_alloc(Memory(w), w, "requests")
                    ELSE channel_alloc(m[k - 1], w, "tasks")]
<1>1. MAXSTEAL \in Nat /\ MAXSTEAL # 0 /\ 0 \in 0 .. MAXSTEAL /\ MAXSTEAL \in 0 .. MAXSTEAL
  BY LifecycleAssumption
<1>2. Allocs(A, w, MAXSTEAL)
  <2>1. \E m : Allocs(m, w, MAXSTEAL)
    BY <1>1, AllocsExists
  <2> QED BY <2>1, Zenon DEF Allocs
<1>3. /\ pc[w] \in {"create", "begin"} /\ Store(w, A[MAXSTEAL])
      /\ chan_requests' = [chan_requests EXCEPT ![w] = A[0].ret]
      /\ chan_tasks' = [chan_tasks EXCEPT ![w] = [i \in 1 .. MAXSTEAL |-> A[i].ret]]
      /\ pc' = [pc EXCEPT ![w] = "barrier 1"]
      /\ UNCHANGED <<CHANNEL_CACHE_CAPACITY, futures, created>>
  <2>1. pc[w] \in {"create", "begin"}
    BY DEF RT_init
  <2> QED BY <2>1, Zenon DEF RT_init, Goto
<1> HIDE DEF A
<1>4. MemoryTypes /\ Keeps(w) /\ DOMAIN pc = Workers
  BY DEF Kept, Together
<1>5. channels \in [Workers -> Seq(Chans)] /\ channels[w] \in Seq(Chans)
  BY <1>4 DEF MemoryTypes
<1>6. pc[w] \in Outside /\ OutOfUse(w)
  BY <1>3, <1>4 DEF Keeps, Outside
<1>7. channel_cache[w] = <<>> /\ Remain(w, channels[w], Home(w))
  BY <1>6 DEF OutOfUse
<1>8. \A k \in 0 .. MAXSTEAL : \E c, q, r : A[k] = Mem(c, q, r) /\ Allocated(c, q, r, w, k)
  BY <1>1, <1>2, <1>5, <1>7, AllocsAre
<1>9. \A k \in 0 .. MAXSTEAL : A[k].ret = <<w, Len(channels[w]) + 1 + k>>
  <2> TAKE k \in 0 .. MAXSTEAL
  <2>1. PICK c, q, r : A[k] = Mem(c, q, r) /\ Allocated(c, q, r, w, k)
    BY <1>8
  <2>2. A[k].ret = r
    BY <2>1 DEF Mem
  <2> QED BY <2>1, <2>2 DEF Allocated
<1>10. PICK c, q, r : A[MAXSTEAL] = Mem(c, q, r) /\ Allocated(c, q, r, w, MAXSTEAL)
  BY <1>1, <1>8
<1>11. /\ channels' = c /\ DOMAIN channel_cache' = Workers /\ channel_cache'[w] = q
       /\ \A v \in Workers \ {w} : channel_cache'[v] = channel_cache[v]
  <2>1. A[MAXSTEAL].channels = c /\ A[MAXSTEAL].cache = q
    BY <1>10 DEF Mem
  <2>2. /\ channels' = A[MAXSTEAL].channels /\ DOMAIN channel_cache' = Workers
        /\ channel_cache'[w] = A[MAXSTEAL].cache
        /\ \A v \in Workers \ {w} : channel_cache'[v] = channel_cache[v]
    BY <1>3, <1>4, StoreIs
  <2> QED BY <2>1, <2>2
<1>12. /\ c \in [Workers -> Seq(Chans)] /\ \A v \in Workers \ {w} : c[v] = channels[v]
       /\ Fresh(channels[w], c[w], MAXSTEAL) /\ q = Empty(MAXSTEAL)
  BY <1>10 DEF Allocated
<1>13. DOMAIN chan_requests = Workers /\ DOMAIN chan_tasks = Workers
  BY <1>4 DEF MemoryTypes
<1>14. /\ DOMAIN chan_requests' = Workers /\ chan_requests'[w] = <<w, Len(channels[w]) + 1>>
       /\ \A v \in Workers \ {w} : chan_requests'[v] = chan_requests[v]
  <2>1. A[0].ret = <<w, Len(channels[w]) + 1>>
    <3>1. Len(channels[w]) + 1 + 0 = Len(channels[w]) + 1
      BY <1>5
    <3> QED BY <1>1, <1>9, <3>1
  <2> QED BY <1>3, <1>13, <2>1
<1>15. /\ DOMAIN chan_tasks' = Workers
       /\ \A i \in 1 .. MAXSTEAL : chan_tasks'[w][i] = <<w, Len(channels[w]) + 1 + i>>
       /\ \A v \in Workers \ {w} : chan_tasks'[v] = chan_tasks[v]
  <2>1. PICK t : t = [i \in 1 .. MAXSTEAL |-> A[i].ret]
    OBVIOUS
  <2>2. \A i \in 1 .. MAXSTEAL : i \in 0 .. MAXSTEAL
    OBVIOUS
  <2>3. \A i \in 1 .. MAXSTEAL : t[i] = <<w, Len(channels[w]) + 1 + i>>
    BY <1>9, <2>1, <2>2
  <2>4. /\ DOMAIN chan_tasks' = Workers /\ chan_tasks'[w] = t
        /\ \A v \in Workers \ {w} : chan_tasks'[v] = chan_tasks[v]
    BY <1>3, <1>13, <2>1
  <2> QED BY <2>3, <2>4
<1>16. PICK R, T : R = chan_requests'[w] /\ T = chan_tasks'[w]
  OBVIOUS
<1>17. Owned(w, c[w], <<>>, R, T, Home(w))
  <2>1. R = <<w, Len(channels[w]) + 1>> /\ \A i \in 1 .. MAXSTEAL : T[i] = <<w, Len(channels[w]) + 1 + i>>
    BY <1>14, <1>15, <1>16
  <2>2. PICK b : b = channels[w]
    OBVIOUS
  <2>3. /\ b \in Seq(Chans) /\ Fresh(b, c[w], MAXSTEAL) /\ Remain(w, b, Home(w))
        /\ R = <<w, Len(b) + 1>> /\ \A i \in 1 .. MAXSTEAL : T[i] = <<w, Len(b) + 1 + i>>
    BY <1>5, <1>7, <1>12, <2>1, <2>2
  <2> QED BY <2>3, OwnedStart
<1>19. \A v \in Workers : Home(v)' = Home(v)
  BY <1>3 DEF Home
<1>20. CacheIs(channel_cache[w], <<>>)'
  <2>1. CHANNEL_CACHE_CAPACITY' = CHANNEL_CACHE_CAPACITY /\ channel_cache'[w] = Empty(MAXSTEAL)
    BY <1>3, <1>11, <1>12
  <2> QED BY <1>1, <2>1 DEF CacheIs, Empty
<1>21. <<>> \in Seq(Pointers)
  OBVIOUS
<1>22. Owned(w, channels'[w], <<>>, chan_requests'[w], chan_tasks'[w], Home(w)')
  BY <1>11, <1>16, <1>17, <1>19
<1>23. InUse(w)'
  BY <1>20, <1>21, <1>22 DEF InUse
<1>24. pc'[w] = "barrier 1" /\ \A v \in Workers \ {w} : pc'[v] = pc[v]
  BY <1>3, <1>4
<1>25. Keeps(w)'
  BY <1>23, <1>24 DEF Keeps, Outside
<1>26. created' \in Nat /\ futures' \in SUBSET Futures
  BY <1>3, <1>4 DEF MemoryTypes
<1>27. channels' \in [Workers -> Seq(Chans)] /\ \A v \in Workers \ {w} : channels'[v] = channels[v]
  BY <1>11, <1>12
<1>28. CHANNEL_CACHE_CAPACITY' = CHANNEL_CACHE_CAPACITY
  BY <1>3
<1> QED BY <1>11, <1>14, <1>15, <1>19, <1>24, <1>25, <1>26, <1>27, <1>28, OneKept

LEMMA ExitKept ==
    ASSUME Together, Kept, NEW w \in Workers, RT_exit(w)
    PROVE  Kept'
<1> DEFINE A == CHOOSE c : c = [k \in 0 .. MAXSTEAL |->
                    IF k # 0 THEN channel_free(c[k - 1], chan_tasks[w][k]) ELSE Begun(w)]
<1>1. MAXSTEAL \in Nat
  BY LifecycleAssumption
<1>2. Frees(A, w, MAXSTEAL)
  <2>1. \E c : Frees(c, w, MAXSTEAL)
    BY <1>1, FreesExists
  <2> QED BY <2>1, Zenon DEF Frees
<1>3. /\ pc[w] = "exit" /\ Store(w, A[MAXSTEAL])
      /\ pc' = [pc EXCEPT ![w] = IF w = MASTER_ID THEN "join" ELSE "ended"]
      /\ UNCHANGED <<CHANNEL_CACHE_CAPACITY, chan_requests, chan_tasks, futures, created>>
  BY Zenon DEF RT_exit, Goto, Begun
<1> HIDE DEF A
<1>4. MemoryTypes /\ Keeps(w) /\ DOMAIN pc = Workers
  BY DEF Kept, Together
<1>5. channels \in [Workers -> Seq(Chans)] /\ CHANNEL_CACHE_CAPACITY \in Nat
  BY <1>4 DEF MemoryTypes
<1>7. \A v \in Workers : Home(v)' = Home(v)
  BY <1>3 DEF Home
<1>8. InUse(w)
  BY <1>3, <1>4 DEF Keeps, Outside
<1>9. PICK s \in Seq(Pointers) : /\ CacheIs(channel_cache[w], s)
                                 /\ Owned(w, channels[w], s, chan_requests[w], chan_tasks[w], Home(w))
  BY <1>8 DEF InUse
<1>10. PICK d, r : A[MAXSTEAL] = Mem(d, <<>>, r) /\ Released(d, w, s, MAXSTEAL)
  BY <1>2, <1>5, <1>9, FreesAre
<1>11. Remain(w, d[w], Home(w))
  BY <1>9, <1>10, ReleasedAll
<1>12. /\ channels' = d /\ DOMAIN channel_cache' = Workers /\ channel_cache'[w] = <<>>
       /\ \A v \in Workers \ {w} : channel_cache'[v] = channel_cache[v]
  <2>1. A[MAXSTEAL].channels = d /\ A[MAXSTEAL].cache = <<>>
    BY <1>10 DEF Mem
  <2>2. /\ channels' = A[MAXSTEAL].channels /\ DOMAIN channel_cache' = Workers
        /\ channel_cache'[w] = A[MAXSTEAL].cache
        /\ \A v \in Workers \ {w} : channel_cache'[v] = channel_cache[v]
    BY <1>3, <1>4, StoreIs
  <2> QED BY <2>1, <2>2
<1>13. OutOfUse(w)'
  BY <1>7, <1>11, <1>12 DEF OutOfUse
<1>14. pc'[w] \in {"join", "ended"} /\ \A v \in Workers \ {w} : pc'[v] = pc[v]
  BY <1>3, <1>4
<1>15. Keeps(w)'
  BY <1>13, <1>14 DEF Keeps, Outside
<1>16. /\ created' \in Nat /\ futures' \in SUBSET Futures /\ DOMAIN chan_requests' = Workers
       /\ DOMAIN chan_tasks' = Workers
  BY <1>3, <1>4 DEF MemoryTypes
<1>17. channels' \in [Workers -> Seq(Chans)] /\ \A v \in Workers \ {w} : channels'[v] = channels[v]
  BY <1>10, <1>12 DEF Released
<1> QED BY <1>3, <1>7, <1>12, <1>14, <1>15, <1>16, <1>17, OneKept

LEMMA NextKept == Together /\ Kept /\ [Next]_vars => Kept'
<1> SUFFICES ASSUME Together, Kept, [Next]_vars PROVE Kept'
  OBVIOUS
<1>1. ASSUME NEW w \in Workers, CreateThread(w) \/ Thread(w) PROVE Kept'
  BY <1>1, MoveKept, StartKept, ExitKept DEF Thread
<1>2. CASE tasking_init \/ Join
  BY <1>2, MoveKept, Master
<1>3. ASSUME NEW w \in Workers, NEW v \in Workers, Convert(w, v) PROVE Kept'
  BY <1>3, ConvertKept
<1>4. ASSUME NEW f \in futures, SetCopy(f) \/ SetAdvance(f) \/ RT_force_future(f) PROVE Kept'
  BY <1>4, CopyKept, AdvanceKept, ForceKept
<1>5. CASE UNCHANGED vars
  <2>1. UNCHANGED <<CHANNEL_CACHE_CAPACITY, memory, chan_requests, chan_tasks, futures, created, pc>>
    BY <1>5 DEF vars
  <2> QED BY <2>1, StayKept
<1> QED BY <1>1, <1>2, <1>3, <1>4, <1>5 DEF Next

\* The barriers keep the workers together, and a worker keeps exactly those of
\* its channels that it has not freed.
THEOREM Invariance == Spec => [](Together /\ Kept)
<1>1. Init => Together /\ Kept
  BY InitTogether, InitKept
<1>2. (Together /\ Kept) /\ [Next]_vars => (Together /\ Kept)'
  BY NextTogether, NextKept
<1> QED BY <1>1, <1>2, PTL DEF Spec

-----------------------------------------------------------------------------
(* Theorems *)

LEMMA HeldLive ==
    ASSUME NEW w \in Workers, NEW s, NEW p, NEW type, Points(p, w, channels[w], type),
           Owned(w, channels[w], s, chan_requests[w], chan_tasks[w], Home(w)),
           Held(p, s, chan_requests[w], chan_tasks[w], Home(w))
    PROVE  Live(p)
<1>1. p \in Pointers /\ p[1] = w /\ p[2] \in 1 .. Len(channels[w]) /\ p = <<w, p[2]>>
  BY DEF Points, Pointers
<1>2. Held(<<w, p[2]>>, s, chan_requests[w], chan_tasks[w], Home(w))
  BY <1>1
<1>3. channels[w][p[2]].freed = 0
  BY <1>1, <1>2 DEF Owned, FreedOnce
<1>4. p # <<>>
  <2>1. PICK k : p = <<w, k>>
    BY <1>1
  <2>2. 1 \in DOMAIN <<w, k>> /\ DOMAIN <<>> = {}
    OBVIOUS
  <2> QED BY <2>1, <2>2
<1> QED BY <1>1, <1>3, <1>4 DEF Live, NULL

LEMMA ImpliesUsesAlive == Together /\ Kept => UsesAlive
<1> SUFFICES ASSUME Together, Kept, NEW w \in Workers, NEW v \in Workers, pc[w] = "running"
             PROVE  /\ Live(chan_requests[v])
                    /\ \A i \in 1 .. MAXSTEAL : Live(chan_tasks[v][i])
  BY DEF UsesAlive
<1>1. pc[v] \notin Outside
  BY RunningTogether
<1>2. InUse(v)
  BY <1>1 DEF Kept, Keeps
<1>3. PICK s \in Seq(Pointers) :
          Owned(v, channels[v], s, chan_requests[v], chan_tasks[v], Home(v))
  BY <1>2 DEF InUse
<1>4. /\ Points(chan_requests[v], v, channels[v], "requests")
      /\ \A i \in 1 .. MAXSTEAL : Points(chan_tasks[v][i], v, channels[v], "tasks")
  BY <1>3 DEF Owned, Own
<1>5. /\ Held(chan_requests[v], s, chan_requests[v], chan_tasks[v], Home(v))
      /\ \A i \in 1 .. MAXSTEAL : Held(chan_tasks[v][i], s, chan_requests[v], chan_tasks[v], Home(v))
  BY DEF Held
<1> QED BY <1>3, <1>4, <1>5, HeldLive

\* While a worker runs, the channels of every worker, to which it may send at
\* any time, are allocated and not freed: the barriers order RT_init before, and
\* RT_exit after, everything that the workers do in between.
THEOREM ChannelsAlive == Spec => []UsesAlive
<1>1. Together /\ Kept => UsesAlive
  BY ImpliesUsesAlive
<1> QED BY <1>1, Invariance, PTL

LEMMA ImpliesResultsArrive == Together /\ Kept => ResultsArrive
<1> SUFFICES ASSUME Together, Kept, NEW f \in futures
             PROVE  /\ Live(f.chan)
                    /\ Channel(f.chan).head = IF f.pc = "set" THEN 1 ELSE 0
                    /\ f.pc # "unset" => Channel(f.chan).buffer = f.id
  BY DEF ResultsArrive
<1>1. PICK w : w = f.home
  OBVIOUS
<1>2. /\ w \in Workers /\ f \in Home(w) /\ Points(f.chan, w, channels[w], "future")
      /\ Result(f, channels[w]) /\ channels[w][f.chan[2]].freed = 0
  BY <1>1, FutureAlways
<1>3. f.chan \in Pointers /\ f.chan[1] = w
  BY <1>2 DEF Points
<1>4. f.chan # <<>>
  <2>1. 1 \in DOMAIN f.chan /\ DOMAIN <<>> = {}
    BY <1>3 DEF Pointers
  <2> QED BY <2>1
<1> QED BY <1>2, <1>3, <1>4 DEF Channel, Result, Live, NULL

\* A future's channel, new or from the cache, belongs to it alone until it is
\* awaited: it is empty until the task sets it, then it holds the task's result.
THEOREM FuturesGetResults == Spec => []ResultsArrive
<1>1. Together /\ Kept => ResultsArrive
  BY ImpliesResultsArrive
<1> QED BY <1>1, Invariance, PTL

\* The slots in use of a worker's cache
LEMMA CachedAre ==
    ASSUME NEW w \in Workers, NEW s \in Seq(Pointers), CacheIs(channel_cache[w], s)
    PROVE  /\ Cached(w) = {1} \X (1 .. Len(s))
           /\ \A i \in 1 .. Len(s) : channel_cache[w][1].cached[i] = s[i]
<1> DEFINE q == channel_cache[w]
<1>1. CASE s = <<>> /\ q = <<>>
  <2>1. Slots(<<>>) = {}
    BY DEF Slots
  <2>2. 1 .. Len(s) = {}
    BY <1>1
  <2> QED BY <1>1, <2>1, <2>2 DEF Cached
<1>2. CASE s = <<>> /\ q = <<List("tasks", <<>>), List("requests", <<>>)>>
  <2>1. DOMAIN q = {1, 2} /\ DOMAIN q[1].cached = {} /\ DOMAIN q[2].cached = {}
    BY <1>2 DEF List
  <2>2. 1 .. Len(s) = {}
    BY <1>2
  <2> HIDE DEF q
  <2>3. Slots(q) = {}
    BY <2>1 DEF Slots
  <2> QED BY <2>2, <2>3 DEF Cached, q
<1>3. CASE q = <<List("future", s), List("tasks", <<>>), List("requests", <<>>)>>
  <2>1. /\ DOMAIN q = {1, 2, 3} /\ DOMAIN q[1].cached = 1 .. Len(s) /\ q[1].cached = s
        /\ DOMAIN q[2].cached = {} /\ DOMAIN q[3].cached = {}
    BY <1>3 DEF List
  <2>2. Slots(q) = {1} \X (1 .. Len(s))
    <3> HIDE DEF q
    <3>1. Slots(q) = ({1} \X DOMAIN q[1].cached) \cup ({2} \X DOMAIN q[2].cached)
                        \cup ({3} \X DOMAIN q[3].cached)
      BY <2>1 DEF Slots
    <3> QED BY <2>1, <3>1
  <2> QED BY <2>1, <2>2 DEF Cached
<1> QED BY <1>1, <1>2, <1>3 DEF CacheIs

On == {w \in Workers : pc[w] \notin Outside}

\* The four kinds of places in Holders
ForRequests(p) == {<<"requests", w>> : w \in {v \in On : chan_requests[v] = p}}
ForTasks(p) == {<<"tasks", x>> : x \in {y \in On \X (1 .. MAXSTEAL) : chan_tasks[y[1]][y[2]] = p}}
ForFutures(p) == {<<"future", f.id>> : f \in {g \in futures : g.chan = p}}
ForCache(p, w) == {<<"cache", w, x>> : x \in {y \in Cached(w) : channel_cache[w][y[1]].cached[y[2]] = p}}

LEMMA HoldersAre ==
    ASSUME NEW p
    PROVE  Holders(p) = ForRequests(p) \cup ForTasks(p) \cup ForFutures(p)
                          \cup UNION {ForCache(p, w) : w \in Workers}
<1>1. On = {w \in Workers : pc[w] \notin {"outside", "begin", "create", "join", "ended"}}
  BY DEF On, Outside
<1> QED BY <1>1, Zenon DEF Holders, ForRequests, ForTasks, ForFutures, ForCache

\* Nobody keeps pointers to the channels of another worker.
LEMMA HoldersOf ==
    ASSUME Together, Kept, NEW w \in Workers, NEW p, p[1] = w
    PROVE  /\ \A v \in On : chan_requests[v] = p => v = w
           /\ \A v \in On : \A i \in 1 .. MAXSTEAL : chan_tasks[v][i] = p => v = w
           /\ \A f \in futures : f.chan = p => f \in Home(w)
           /\ \A v \in Workers \ {w} : ForCache(p, v) = {}
<1>1. ASSUME NEW v \in On
      PROVE  /\ chan_requests[v] = p => v = w
             /\ \A i \in 1 .. MAXSTEAL : chan_tasks[v][i] = p => v = w
  <2>1. InUse(v) /\ v \in Workers
    BY DEF On, Kept, Keeps
  <2>2. Own(v, channels[v], chan_requests[v], chan_tasks[v])
    BY <2>1 DEF InUse, Owned
  <2> QED BY <2>2 DEF Own, Points
<1>2. ASSUME NEW f \in futures, f.chan = p PROVE f \in Home(w)
  <2>1. f \in Home(f.home) /\ Points(f.chan, f.home, channels[f.home], "future")
    BY FutureAlways
  <2>2. f.chan[1] = f.home
    BY <2>1 DEF Points
  <2> QED BY <1>2, <2>1, <2>2
<1>3. ASSUME NEW v \in Workers \ {w} PROVE ForCache(p, v) = {}
  <2>1. CASE pc[v] \in Outside
    <3>1. channel_cache[v] = <<>>
      BY <2>1 DEF Kept, Keeps, OutOfUse
    <3>2. Slots(<<>>) = {}
      BY DEF Slots
    <3>3. Cached(v) = {}
      BY <3>1, <3>2 DEF Cached
    <3> QED BY <3>3 DEF ForCache
  <2>2. CASE pc[v] \notin Outside
    <3>1. InUse(v)
      BY <2>2 DEF Kept, Keeps
    <3>2. PICK s \in Seq(Pointers) :
              /\ CacheIs(channel_cache[v], s)
              /\ Owned(v, channels[v], s, chan_requests[v], chan_tasks[v], Home(v))
      BY <3>1 DEF InUse
    <3>3. /\ Cached(v) = {1} \X (1 .. Len(s))
          /\ \A i \in 1 .. Len(s) : channel_cache[v][1].cached[i] = s[i]
      BY <3>2, CachedAre
    <3>4. \A i \in 1 .. Len(s) : s[i] # p
      BY <3>2 DEF Owned, OnList, Points
    <3>5. \A y \in Cached(v) : channel_cache[v][y[1]].cached[y[2]] # p
      BY <3>3, <3>4
    <3> QED BY <3>5 DEF ForCache
  <2> QED BY <2>1, <2>2
<1> QED BY <1>1, <1>2, <1>3

\* Before RT_init and after RT_exit, only futures hold a worker's channels.
LEMMA HoldersOutside ==
    ASSUME Together, Kept, NEW w \in Workers, pc[w] \in Outside, NEW p, p[1] = w
    PROVE  Holders(p) = ForFutures(p)
<1>1. w \notin On
  BY DEF On
<1>2. ForRequests(p) = {} /\ ForTasks(p) = {}
  <2>1. \A v \in On : chan_requests[v] # p /\ \A i \in 1 .. MAXSTEAL : chan_tasks[v][i] # p
    BY <1>1, HoldersOf
  <2>2. {v \in On : chan_requests[v] = p} = {}
    BY <2>1
  <2>3. {y \in On \X (1 .. MAXSTEAL) : chan_tasks[y[1]][y[2]] = p} = {}
    BY <2>1
  <2> QED BY <2>2, <2>3 DEF ForRequests, ForTasks
<1>4. \A v \in Workers : ForCache(p, v) = {}
  <2>1. channel_cache[w] = <<>>
    BY DEF Kept, Keeps, OutOfUse
  <2>2. Slots(<<>>) = {}
    BY DEF Slots
  <2>3. Cached(w) = {}
    BY <2>1, <2>2 DEF Cached
  <2>4. ForCache(p, w) = {}
    BY <2>3 DEF ForCache
  <2> QED BY <2>4, HoldersOf
<1>5. UNION {ForCache(p, v) : v \in Workers} = {}
  BY <1>4
<1> QED BY <1>2, <1>5, HoldersAre

LEMMA OneFuture ==
    ASSUME Together, Kept, NEW w \in Workers, pc[w] \in Outside, NEW p, p[1] = w
    PROVE  /\ (\E f \in Home(w) : p = f.chan) => Cardinality(Holders(p)) = 1
           /\ ~(\E f \in Home(w) : p = f.chan) => Cardinality(Holders(p)) = 0
<1>1. Holders(p) = ForFutures(p)
  BY HoldersOutside
<1>2. \A x : x \in ForFutures(p) <=> \E f \in Home(w) : x = <<"future", f.id>> /\ p = f.chan
  <2>1. \A f \in futures : f.chan = p => f \in Home(w)
    BY HoldersOf
  <2> QED BY <2>1 DEF ForFutures, Home
<1>3. \A f, g \in Home(w) : f.chan = g.chan => f = g
  BY DEF Kept, Keeps, OutOfUse, Remain, OfFutures
<1>4. \A x : Cardinality({x}) = 1 /\ Cardinality({}) = 0
  BY FS_Singleton, FS_EmptySet
<1>5. ASSUME NEW f \in Home(w), p = f.chan PROVE Cardinality(Holders(p)) = 1
  <2>1. Holders(p) = {<<"future", f.id>>}
    BY <1>1, <1>2, <1>3, <1>5
  <2> QED BY <1>4, <2>1
<1>6. ASSUME ~\E f \in Home(w) : p = f.chan PROVE Cardinality(Holders(p)) = 0
  <2>1. Holders(p) = {}
    BY <1>1, <1>2, <1>6
  <2> QED BY <1>4, <2>1
<1> QED BY <1>5, <1>6

\* The places that hold a channel of a worker in use
LEMMA HoldersIn ==
    ASSUME Together, Kept, NEW w \in Workers, pc[w] \notin Outside, NEW p, p[1] = w,
           NEW s \in Seq(Pointers), CacheIs(channel_cache[w], s)
    PROVE  \A x : x \in Holders(p) <=>
              \/ x = <<"requests", w>> /\ p = chan_requests[w]
              \/ \E i \in 1 .. MAXSTEAL : x = <<"tasks", <<w, i>>>> /\ p = chan_tasks[w][i]
              \/ \E f \in Home(w) : x = <<"future", f.id>> /\ p = f.chan
              \/ \E i \in 1 .. Len(s) : x = <<"cache", w, <<1, i>>>> /\ p = s[i]
<1> TAKE x
<1>1. w \in On
  BY DEF On
<1>2. x \in ForRequests(p) <=> x = <<"requests", w>> /\ p = chan_requests[w]
  <2>1. \A v \in On : chan_requests[v] = p => v = w
    BY HoldersOf
  <2> QED BY <1>1, <2>1 DEF ForRequests
<1>3. x \in ForTasks(p) <=> \E i \in 1 .. MAXSTEAL : x = <<"tasks", <<w, i>>>> /\ p = chan_tasks[w][i]
  <2>1. \A v \in On : \A i \in 1 .. MAXSTEAL : chan_tasks[v][i] = p => v = w
    BY HoldersOf
  <2>2. {y \in On \X (1 .. MAXSTEAL) : chan_tasks[y[1]][y[2]] = p}
          = {y \in {w} \X (1 .. MAXSTEAL) : chan_tasks[w][y[2]] = p}
    BY <1>1, <2>1
  <2>3. x \in ForTasks(p) <=>
          \E y \in {w} \X (1 .. MAXSTEAL) : x = <<"tasks", y>> /\ p = chan_tasks[w][y[2]]
    BY <2>2 DEF ForTasks
  <2> QED BY <2>3
<1>4. x \in ForFutures(p) <=> \E f \in Home(w) : x = <<"future", f.id>> /\ p = f.chan
  <2>1. \A f \in futures : f.chan = p => f \in Home(w)
    BY HoldersOf
  <2> QED BY <2>1 DEF ForFutures, Home
<1>5. x \in ForCache(p, w) <=> \E i \in 1 .. Len(s) : x = <<"cache", w, <<1, i>>>> /\ p = s[i]
  <2>1. /\ Cached(w) = {1} \X (1 .. Len(s))
        /\ \A i \in 1 .. Len(s) : channel_cache[w][1].cached[i] = s[i]
    BY CachedAre
  <2>2. {y \in Cached(w) : channel_cache[w][y[1]].cached[y[2]] = p}
          = {y \in {1} \X (1 .. Len(s)) : s[y[2]] = p}
    BY <2>1
  <2>3. x \in ForCache(p, w) <=> \E y \in {1} \X (1 .. Len(s)) : x = <<"cache", w, y>> /\ p = s[y[2]]
    BY <2>2 DEF ForCache
  <2> QED BY <2>3
<1>6. x \in UNION {ForCache(p, v) : v \in Workers} <=> x \in ForCache(p, w)
  <2>1. \A v \in Workers \ {w} : ForCache(p, v) = {}
    BY HoldersOf
  <2> QED BY <2>1
<1>7. x \in Holders(p) <=> \/ x \in ForRequests(p) \/ x \in ForTasks(p) \/ x \in ForFutures(p)
                           \/ x \in UNION {ForCache(p, v) : v \in Workers}
  BY HoldersAre
<1> QED BY <1>2, <1>3, <1>4, <1>5, <1>6, <1>7

\* It is one place.
LEMMA OneHolder ==
    ASSUME Together, Kept, NEW w \in Workers, pc[w] \notin Outside, NEW p, p[1] = w,
           NEW s \in Seq(Pointers), CacheIs(channel_cache[w], s),
           Owned(w, channels[w], s, chan_requests[w], chan_tasks[w], Home(w))
    PROVE  /\ Held(p, s, chan_requests[w], chan_tasks[w], Home(w)) => Cardinality(Holders(p)) = 1
           /\ ~Held(p, s, chan_requests[w], chan_tasks[w], Home(w)) => Cardinality(Holders(p)) = 0
<1> DEFINE c == channels[w]
<1> DEFINE R == chan_requests[w]
<1> DEFINE T == chan_tasks[w]
<1> DEFINE F == Home(w)
<1>1. \A x : x \in Holders(p) <=>
              \/ x = <<"requests", w>> /\ p = R
              \/ \E i \in 1 .. MAXSTEAL : x = <<"tasks", <<w, i>>>> /\ p = T[i]
              \/ \E f \in F : x = <<"future", f.id>> /\ p = f.chan
              \/ \E i \in 1 .. Len(s) : x = <<"cache", w, <<1, i>>>> /\ p = s[i]
  BY HoldersIn
<1>2. \A x : Cardinality({x}) = 1 /\ Cardinality({}) = 0
  BY FS_Singleton, FS_EmptySet
<1>3. Own(w, c, R, T) /\ OfFutures(w, c, F) /\ OnList(w, c, s, F)
  BY DEF Owned
<1> HIDE DEF c, R, T, F
<1>4. /\ p = R => c[p[2]].type = "requests"
      /\ \A i \in 1 .. MAXSTEAL : p = T[i] => c[p[2]].type = "tasks"
      /\ \A f \in F : p = f.chan => c[p[2]].type = "future"
      /\ \A i \in 1 .. Len(s) : p = s[i] => c[p[2]].type = "future"
  BY <1>3 DEF Own, OfFutures, OnList, Points
<1>5. ASSUME p = R PROVE Cardinality(Holders(p)) = 1
  <2>1. Holders(p) = {<<"requests", w>>}
    BY <1>1, <1>4, <1>5
  <2> QED BY <1>2, <2>1
<1>6. ASSUME NEW i \in 1 .. MAXSTEAL, p = T[i] PROVE Cardinality(Holders(p)) = 1
  <2>1. \A j \in 1 .. MAXSTEAL : p = T[j] => j = i
    BY <1>3, <1>6 DEF Own
  <2>2. Holders(p) = {<<"tasks", <<w, i>>>>}
    BY <1>1, <1>4, <1>6, <2>1
  <2> QED BY <1>2, <2>2
<1>7. ASSUME NEW f \in F, p = f.chan PROVE Cardinality(Holders(p)) = 1
  <2>1. /\ \A g \in F : p = g.chan => g = f
        /\ \A i \in 1 .. Len(s) : p # s[i]
    BY <1>3, <1>7 DEF OfFutures, OnList
  <2>2. Holders(p) = {<<"future", f.id>>}
    BY <1>1, <1>4, <1>7, <2>1
  <2> QED BY <1>2, <2>2
<1>8. ASSUME NEW i \in 1 .. Len(s), p = s[i] PROVE Cardinality(Holders(p)) = 1
  <2>1. /\ \A f \in F : p # f.chan
        /\ \A j \in 1 .. Len(s) : p = s[j] => j = i
    BY <1>3, <1>8 DEF OnList
  <2>2. Holders(p) = {<<"cache", w, <<1, i>>>>}
    BY <1>1, <1>4, <1>8, <2>1
  <2> QED BY <1>2, <2>2
<1>9. ASSUME ~Held(p, s, R, T, F) PROVE Cardinality(Holders(p)) = 0
  <2>1. Holders(p) = {}
    BY <1>1, <1>9 DEF Held
  <2> QED BY <1>2, <2>1
<1>10. Held(p, s, R, T, F) => Cardinality(Holders(p)) = 1
  BY <1>5, <1>6, <1>7, <1>8 DEF Held
<1> QED BY <1>9, <1>10 DEF R, T, F

LEMMA ImpliesChannelsOwned == Together /\ Kept => ChannelsOwned
<1> SUFFICES ASSUME Together, Kept, NEW w \in Workers
             PROVE  /\ \A x \in Cached(w) : x[2] <= CHANNEL_CACHE_CAPACITY
                    /\ \A k \in DOMAIN channels[w] :
                        /\ Cardinality(Holders(<<w, k>>)) = 1 - channels[w][k].freed
                        /\ pc[MASTER_ID] = "outside" /\ channels[w][k].freed = 0
                                => \E f \in futures : f.chan = <<w, k>>
  BY DEF ChannelsOwned
<1>1. DOMAIN channels[w] = 1 .. Len(channels[w]) /\ CHANNEL_CACHE_CAPACITY \in Nat
  <2>1. channels[w] \in Seq(Chans)
    BY DEF Kept, MemoryTypes
  <2> QED BY <2>1 DEF Kept, MemoryTypes
<1>2. \A k : <<w, k>>[1] = w
  OBVIOUS
<1>3. CASE pc[w] \in Outside
  <2>1. channel_cache[w] = <<>> /\ Remain(w, channels[w], Home(w))
    BY <1>3 DEF Kept, Keeps, OutOfUse
  <2>2. Slots(<<>>) = {}
    BY DEF Slots
  <2>3. Cached(w) = {}
    BY <2>1, <2>2 DEF Cached
  <2>4. ASSUME NEW k \in 1 .. Len(channels[w])
        PROVE  /\ Cardinality(Holders(<<w, k>>)) = 1 - channels[w][k].freed
               /\ channels[w][k].freed = 0 => \E f \in futures : f.chan = <<w, k>>
    <3>1. PICK p : p = <<w, k>>
      OBVIOUS
    <3>2. /\ (\E f \in Home(w) : p = f.chan) => Cardinality(Holders(p)) = 1
          /\ ~(\E f \in Home(w) : p = f.chan) => Cardinality(Holders(p)) = 0
      BY <1>2, <1>3, <3>1, OneFuture
    <3>3. /\ (\E f \in Home(w) : p = f.chan) => channels[w][k].freed = 0
          /\ ~(\E f \in Home(w) : p = f.chan) => channels[w][k].freed = 1
      BY <2>1, <3>1 DEF Remain
    <3>4. (\E f \in Home(w) : p = f.chan) => \E f \in futures : f.chan = p
      BY DEF Home
    <3> QED BY <3>1, <3>2, <3>3, <3>4
  <2> QED BY <1>1, <2>3, <2>4
<1>4. CASE pc[w] \notin Outside
  <2>1. PICK s \in Seq(Pointers) :
            /\ CacheIs(channel_cache[w], s)
            /\ Owned(w, channels[w], s, chan_requests[w], chan_tasks[w], Home(w))
    BY <1>4 DEF Kept, Keeps, InUse
  <2>2. Cached(w) = {1} \X (1 .. Len(s))
    BY <2>1, CachedAre
  <2>3. Len(s) <= CHANNEL_CACHE_CAPACITY
    <3>1. s = <<>> => Len(s) = 0
      OBVIOUS
    <3> QED BY <1>1, <2>1, <3>1 DEF CacheIs
  <2>4. \A x \in Cached(w) : x[2] <= CHANNEL_CACHE_CAPACITY
    BY <1>1, <2>2, <2>3
  <2>5. pc[MASTER_ID] # "outside"
    BY <1>4 DEF Together, Outside
  <2>6. ASSUME NEW k \in 1 .. Len(channels[w])
        PROVE  Cardinality(Holders(<<w, k>>)) = 1 - channels[w][k].freed
    <3>1. PICK p : p = <<w, k>>
      OBVIOUS
    <3>2. p[1] = w
      BY <3>1
    <3>3. /\ Held(p, s, chan_requests[w], chan_tasks[w], Home(w)) => Cardinality(Holders(p)) = 1
          /\ ~Held(p, s, chan_requests[w], chan_tasks[w], Home(w)) => Cardinality(Holders(p)) = 0
      BY <1>4, <2>1, <3>2, OneHolder
    <3>4. /\ Held(p, s, chan_requests[w], chan_tasks[w], Home(w)) => channels[w][k].freed = 0
          /\ ~Held(p, s, chan_requests[w], chan_tasks[w], Home(w)) => channels[w][k].freed = 1
      BY <2>1, <3>1 DEF Owned, FreedOnce
    <3> QED BY <3>1, <3>3, <3>4
  <2> QED BY <1>1, <2>4, <2>5, <2>6
<1> QED BY <1>3, <1>4

\* A channel is in one place, a worker's own, a future or a free list, until it
\* is freed, once; no free list overflows; after tasking_exit the only channels
\* left are those of futures that nobody has awaited.
THEOREM ChannelsFreedOnce == Spec => []ChannelsOwned
<1>1. Together /\ Kept => ChannelsOwned
  BY ImpliesChannelsOwned
<1> QED BY <1>1, Invariance, PTL

=============================================================================
