----------------------------- MODULE Lifecycle ------------------------------
(***************************************************************************)
(* Start and shutdown of the workers (tasking.c, RT_init and RT_exit in    *)
(* runtime.c), and the life of their channels: channel_alloc, channel_free *)
(* and the per-thread channel caches of channel.c (-DCHANNEL_CACHE=n).     *)
(*                                                                         *)
(* Between tasking_init and tasking_exit workers use each other's channels *)
(* and condition variables without asking whether they exist; two barriers *)
(* have to see to it.  Meanwhile, futures come and go: the worker that     *)
(* awaits one allocates and frees its channel, another one sends the       *)
(* result over it.  What workers do otherwise is the subject of Runtime.   *)
(*                                                                         *)
(* malloc succeeds.  The program may start the runtime again after a       *)
(* tasking_exit, as long as it creates tasks before its first barrier (the *)
(* master's quiescent flag is not reset).                                  *)
(***************************************************************************)
EXTENDS WorkerTree, Sequences, SequencesExt, FiniteSets

CONSTANTS
    MAXSTEAL,
    Capacities,   \* the values of CHANNEL_CACHE considered, 0 if undefined
    MaxFutures,   \* bound: futures with a channel
    MaxRuns       \* bound: calls of tasking_init

ASSUME LifecycleAssumption ==
    /\ MAXSTEAL \in Nat \ {0}
    /\ Capacities \subseteq Nat
    /\ MaxFutures \in Nat
    /\ MaxRuns \in Nat

VARIABLES
    CHANNEL_CACHE_CAPACITY,  \* never changes
    channels,       \* per worker: the channels its thread has malloc'ed
    channel_cache,  \* per worker: the list of its free lists
    chan_requests,  \* per worker: pointer to a channel, or NULL
    chan_tasks,     \* per worker: pointers to MAXSTEAL channels
    futures,        \* the futures with a channel that have not been awaited (yet)
    created,        \* number of futures so far
    arrived, sense, \* the global barrier
    joined_at,      \* per worker: sense when it came to the barrier
    told,           \* the workers that have been sent RT_EXIT_FN
    pc,             \* per worker: where its thread is
    runs            \* calls of tasking_init

memory  == <<channels, channel_cache>>
barrier == <<arrived, sense, joined_at>>
vars == <<CHANNEL_CACHE_CAPACITY, memory, chan_requests, chan_tasks, futures,
          created, barrier, told, pc, runs>>

\* A pointer is <<w, k>>: the k-th channel allocated by thread w.
NULL == <<>>

Live(p) == p # NULL /\ channels[p[1]][p[2]].freed = 0

-----------------------------------------------------------------------------
(* channel_alloc and channel_free; m is the thread's view of the memory: all *)
(* channels and its own free lists.                                          *)

Memory(w) == [channels |-> channels, cache |-> channel_cache[w], ret |-> NULL]

NewChannel(type) ==
    [type |-> type, head |-> 0, buffer |-> 0, freed |-> 0]

FreeLists(m, type) == {i \in DOMAIN m.cache : m.cache[i].type = type}

\* Avoid multiple free lists for the exact same type of channel
channel_cache_alloc(m, type) ==
    IF FreeLists(m, type) # {} THEN m
    ELSE [m EXCEPT !.cache = <<[type |-> type, cached |-> <<>>]>> \o @]

\* Variant: num_cached is not decremented.
TakeCached_keep(m, i) == [m EXCEPT !.ret = Last(m.cache[i].cached)]

\* chan = p->cache[--p->num_cached]
TakeCached(m, i) ==
    [m EXCEPT !.cache[i].cached = Front(@), !.ret = Last(m.cache[i].cached)]

Malloc(m, w, type) ==
    [m EXCEPT !.channels[w] = Append(@, NewChannel(type)),
              !.ret = <<w, Len(m.channels[w]) + 1>>]

\* A cached channel is returned as it is.
channel_alloc(m, w, type) ==
    LET usable == {i \in FreeLists(m, type) : m.cache[i].cached # <<>>}
    IN  IF usable # {} THEN TakeCached(m, CHOOSE i \in usable : TRUE)
        ELSE IF CHANNEL_CACHE_CAPACITY = 0 THEN Malloc(m, w, type)
        ELSE channel_cache_alloc(Malloc(m, w, type), type)

Free(m, p) == [m EXCEPT !.channels[p[1]][p[2]].freed = @ + 1]

\* Variant: the channel is freed although it has been cached.
channel_free_both(m, p) ==
    LET usable == {i \in FreeLists(m, m.channels[p[1]][p[2]].type) :
                    Len(m.cache[i].cached) < CHANNEL_CACHE_CAPACITY}
    IN  IF usable = {} THEN Free(m, p)
        ELSE Free([m EXCEPT !.cache[CHOOSE i \in usable : TRUE].cached =
                        Append(@, p)], p)

channel_free(m, p) ==
    LET usable == {i \in FreeLists(m, m.channels[p[1]][p[2]].type) :
                    Len(m.cache[i].cached) < CHANNEL_CACHE_CAPACITY}
    IN  IF usable = {} THEN Free(m, p)
        ELSE [m EXCEPT !.cache[CHOOSE i \in usable : TRUE].cached = Append(@, p)]

\* The slots of a cache that are in use: free list and position
Slots(cache) == UNION {{i} \X DOMAIN cache[i].cached : i \in DOMAIN cache}

\* Free every cached channel, then the free lists.
channel_cache_free(m) ==
    LET slots == Slots(m.cache)
        times(p) == Cardinality({x \in slots : m.cache[x[1]].cached[x[2]] = p})
    IN  [channels |-> [w \in Workers |-> [k \in DOMAIN m.channels[w] |->
                        [m.channels[w][k] EXCEPT !.freed = @ + times(<<w, k>>)]]],
         cache |-> <<>>, ret |-> m.ret]

Store(w, m) ==
    /\ channels' = m.channels
    /\ channel_cache' = [channel_cache EXCEPT ![w] = m.cache]

Goto(w, label) == pc' = [pc EXCEPT ![w] = label]

-----------------------------------------------------------------------------
(* tasking_init *)

\* The master sets up the barrier ...
tasking_init ==
    /\ pc[MASTER_ID] = "outside" /\ runs < MaxRuns
    /\ arrived' = {}
    /\ runs' = runs + 1
    /\ Goto(MASTER_ID, "create")
    /\ UNCHANGED <<CHANNEL_CACHE_CAPACITY, memory, chan_requests, chan_tasks,
                   futures, created, sense, joined_at, told>>

\* ... and creates the threads one by one, while the first ones run already.
CreateThread(w) ==
    /\ pc[MASTER_ID] = "create"
    /\ pc[w] = "outside"
    /\ \A v \in 1 .. w - 1 : pc[v] # "outside"
    /\ Goto(w, "begin")
    /\ UNCHANGED <<CHANNEL_CACHE_CAPACITY, memory, chan_requests, chan_tasks,
                   futures, created, barrier, told, runs>>

\* worker_entry_fn, and the rest of tasking_init: RT_init
RT_init(w) ==
    LET m[k \in 0 .. MAXSTEAL] ==
            IF k = 0 THEN channel_alloc(Memory(w), w, "requests")
            ELSE channel_alloc(m[k - 1], w, "tasks")
    IN  /\ IF w = MASTER_ID
           THEN pc[w] = "create" /\ \A v \in Workers : pc[v] # "outside"
           ELSE pc[w] = "begin"
        /\ Store(w, m[MAXSTEAL])
        /\ chan_requests' = [chan_requests EXCEPT ![w] = m[0].ret]
        /\ chan_tasks' = [chan_tasks EXCEPT
                            ![w] = [i \in 1 .. MAXSTEAL |-> m[i].ret]]
        /\ Goto(w, "barrier 1")
        /\ UNCHANGED <<CHANNEL_CACHE_CAPACITY, futures, created, barrier, told,
                       runs>>

-----------------------------------------------------------------------------
(* pthread_barrier_wait(&global_barrier) *)

\* Variant: the barrier is made for the worker threads, without the master.
BarrierCount_threads == N - 1

\* pthread_barrier_init(&global_barrier, NULL, num_workers)
BarrierCount == N

Barriers == {"barrier 1", "barrier 2", "barrier 3"}

\* What follows: RT_schedule or the user's program, tasking_statistics with its
\* own barrier, RT_exit.  A thread that waits is "in" a barrier.
In(label) == CASE label = "barrier 1" -> "in 1"
               [] label = "barrier 2" -> "in 2"
               [] label = "barrier 3" -> "in 3"

After(label) == CASE label = "in 1" -> "running"
                  [] label = "in 2" -> "barrier 3"
                  [] label = "in 3" -> "exit"

Arrive(w) ==
    /\ pc[w] \in Barriers
    /\ IF Cardinality(arrived) + 1 < BarrierCount
       THEN arrived' = arrived \cup {w} /\ UNCHANGED sense
       ELSE arrived' = {} /\ sense' = ~sense
    /\ joined_at' = [joined_at EXCEPT ![w] = sense]
    /\ Goto(w, In(pc[w]))
    /\ UNCHANGED <<CHANNEL_CACHE_CAPACITY, memory, chan_requests, chan_tasks,
                   futures, created, told, runs>>

Depart(w) ==
    /\ pc[w] \in {"in 1", "in 2", "in 3"}
    /\ joined_at[w] # sense
    /\ Goto(w, After(pc[w]))
    /\ UNCHANGED <<CHANNEL_CACHE_CAPACITY, memory, chan_requests, chan_tasks,
                   futures, created, barrier, told, runs>>

-----------------------------------------------------------------------------
(* Futures: FUTURE_CONVERT or split_loop on worker w gives a channel to a task *)
(* that is sent to worker v; RT_force_future on w awaits the result.  Nothing  *)
(* makes the program await a future: that of a loop's part split off in RT_pop *)
(* is on a list that nobody reads.                                             *)

\* A future's channel is of one of two sizes, hence types: that of a lazy future
\* (FUTURE_CONVERT, 8 bytes) or that of a part of a loop (split_loop, 32 bytes).
\* Each type has free lists of its own, so that the two never meet; this module
\* follows one of them.
Convert(w, v) ==
    LET m == channel_alloc(Memory(w), w, "future")
    IN  /\ w # v /\ pc[w] = "running" /\ pc[v] = "running"
        /\ pc[MASTER_ID] = "running"
        /\ created < MaxFutures
        /\ Store(w, m)
        /\ created' = created + 1
        /\ futures' = futures \cup {[id |-> created + 1, chan |-> m.ret,
                                     home |-> w, setter |-> v, pc |-> "unset"]}
        /\ UNCHANGED <<CHANNEL_CACHE_CAPACITY, chan_requests, chan_tasks, barrier,
                       told, pc, runs>>

Channel(p) == channels[p[1]][p[2]]

\* channel_send_unbuffered_spsc: copy the item, if there is room (the result is
\* ignored, so that otherwise the item is lost) ...
SetCopy(f) ==
    LET room == Channel(f.chan).head = 0
    IN  /\ f.pc = "unset"
        /\ channels' = IF room
                       THEN [channels EXCEPT
                                ![f.chan[1]][f.chan[2]].buffer = f.id]
                       ELSE channels
        /\ futures' = (futures \ {f})
                        \cup {[f EXCEPT !.pc = IF room THEN "copied" ELSE "set"]}
        /\ UNCHANGED <<CHANNEL_CACHE_CAPACITY, channel_cache, chan_requests,
                       chan_tasks, created, barrier, told, pc, runs>>

\* ... and set head, the last access to the channel.
SetAdvance(f) ==
    /\ f.pc = "copied"
    /\ channels' = [channels EXCEPT ![f.chan[1]][f.chan[2]].head = 1]
    /\ futures' = (futures \ {f}) \cup {[f EXCEPT !.pc = "set"]}
    /\ UNCHANGED <<CHANNEL_CACHE_CAPACITY, channel_cache, chan_requests,
                   chan_tasks, created, barrier, told, pc, runs>>

\* channel_receive, then channel_free; AWAIT is called from tasks and from the
\* program between tasking_init and tasking_exit.
RT_force_future(f) ==
    LET m == [Memory(f.home) EXCEPT !.channels[f.chan[1]][f.chan[2]].head = 0]
    IN  /\ pc[f.home] = "running" /\ pc[MASTER_ID] = "running"
        /\ Channel(f.chan).head = 1
        /\ Store(f.home, channel_free(m, f.chan))
        /\ futures' = futures \ {f}
        /\ UNCHANGED <<CHANNEL_CACHE_CAPACITY, chan_requests, chan_tasks, created,
                       barrier, told, pc, runs>>

-----------------------------------------------------------------------------
(* tasking_exit *)

\* Variant: only the left child is told.
Notified_left(w) == {left_child(w)} \ {NoWorker}

Notified(w) == Children(w)

\* RT_EXIT_FN: the master calls it after a barrier, when all tasks are done and
\* have set their futures, awaited or not; a worker receives it.  It sends to,
\* and signals, the children.
RT_EXIT_FN(w) ==
    /\ pc[w] = "running"
    /\ IF w = MASTER_ID THEN \A f \in futures : f.pc = "set" ELSE w \in told
    /\ told' = (told \ {w}) \cup Notified(w)
    /\ Goto(w, "barrier 2")
    /\ UNCHANGED <<CHANNEL_CACHE_CAPACITY, memory, chan_requests, chan_tasks,
                   futures, created, barrier, runs>>

\* The worker thread ends after RT_exit; the master waits for the others.
RT_exit(w) ==
    LET m == channel_free(Memory(w), chan_requests[w])
        c[k \in 0 .. MAXSTEAL] ==
            IF k # 0 THEN channel_free(c[k - 1], chan_tasks[w][k])
            ELSE IF CHANNEL_CACHE_CAPACITY = 0 THEN m ELSE channel_cache_free(m)
    IN  /\ pc[w] = "exit"
        /\ Store(w, c[MAXSTEAL])
        /\ Goto(w, IF w = MASTER_ID THEN "join" ELSE "ended")
        /\ UNCHANGED <<CHANNEL_CACHE_CAPACITY, chan_requests, chan_tasks, futures,
                       created, barrier, told, runs>>

\* pthread_join, one by one; pthread_barrier_destroy; return
Join ==
    /\ pc[MASTER_ID] = "join"
    /\ \A v \in Workers \ {MASTER_ID} : pc[v] = "ended"
    /\ pc' = [v \in Workers |-> "outside"]
    /\ UNCHANGED <<CHANNEL_CACHE_CAPACITY, memory, chan_requests, chan_tasks,
                   futures, created, barrier, told, runs>>

-----------------------------------------------------------------------------
Init ==
    /\ CHANNEL_CACHE_CAPACITY \in Capacities
    /\ channels = [w \in Workers |-> <<>>]
    /\ channel_cache = [w \in Workers |-> <<>>]
    /\ chan_requests = [w \in Workers |-> NULL]
    /\ chan_tasks = [w \in Workers |-> [i \in 1 .. MAXSTEAL |-> NULL]]
    /\ futures = {}
    /\ created = 0
    /\ arrived = {} /\ sense = FALSE
    /\ joined_at = [w \in Workers |-> FALSE]
    /\ told = {}
    /\ pc = [w \in Workers |-> "outside"]
    /\ runs = 0

Thread(w) == RT_init(w) \/ Arrive(w) \/ Depart(w) \/ RT_EXIT_FN(w) \/ RT_exit(w)

Finished == pc[MASTER_ID] = "outside" /\ runs = MaxRuns

Next ==
    \/ tasking_init \/ Join
    \/ \E w \in Workers : CreateThread(w) \/ Thread(w)
    \/ \E w, v \in Workers : Convert(w, v)
    \/ \E f \in futures : SetCopy(f) \/ SetAdvance(f) \/ RT_force_future(f)
    \/ Finished /\ UNCHANGED vars

Spec == Init /\ [][Next]_vars

\* Threads keep running.
FairSpec ==
    /\ Spec
    /\ WF_vars(Join)
    /\ \A w \in Workers : WF_vars(Thread(w)) /\ WF_vars(CreateThread(w))

-----------------------------------------------------------------------------
(* Properties *)

\* While a worker runs it sends requests, tasks and signals to any other: then
\* every worker has been through RT_init, and none has begun RT_exit.
UsesAlive ==
    \A w, v \in Workers : pc[w] = "running" =>
        /\ Live(chan_requests[v])
        /\ \A i \in 1 .. MAXSTEAL : Live(chan_tasks[v][i])

Cached(w) == Slots(channel_cache[w])

\* The places where pointer p is kept: a channel of a running worker, a future,
\* or a slot of a cache
Holders(p) ==
    LET initialized == {w \in Workers : pc[w] \notin
                            {"outside", "begin", "create", "join", "ended"}}
    IN  {<<"requests", w>> : w \in {v \in initialized : chan_requests[v] = p}}
        \cup {<<"tasks", x>> : x \in {y \in initialized \X (1 .. MAXSTEAL) :
                                        chan_tasks[y[1]][y[2]] = p}}
        \cup {<<"future", f.id>> : f \in {g \in futures : g.chan = p}}
        \cup UNION {{<<"cache", w, x>> : x \in
                {y \in Cached(w) : channel_cache[w][y[1]].cached[y[2]] = p}} :
                w \in Workers}

\* A channel has one owner until it is freed, and is freed once; no free list
\* overflows; when tasking_exit returns, the only channels left, in a cache or
\* not, are those of futures that nobody has awaited.
ChannelsOwned ==
    \A w \in Workers :
        /\ \A x \in Cached(w) : x[2] <= CHANNEL_CACHE_CAPACITY
        /\ \A k \in DOMAIN channels[w] :
            LET freed == channels[w][k].freed
            IN  /\ Cardinality(Holders(<<w, k>>)) = 1 - freed
                /\ pc[MASTER_ID] = "outside" /\ freed = 0 =>
                        \E f \in futures : f.chan = <<w, k>>

\* A future's channel, new or from the cache, is its own: it is empty until the
\* task sets it, and then holds the result of this task.
ResultsArrive ==
    \A f \in futures :
        LET c == Channel(f.chan)
        IN  /\ Live(f.chan)
            /\ c.head = IF f.pc = "set" THEN 1 ELSE 0
            /\ f.pc # "unset" => c.buffer = f.id

\* tasking_exit returns: RT_EXIT_FN reaches every worker, and the barriers,
\* which some enter while others are still in the last one, let all through.
ExitReturns == (pc[MASTER_ID] = "barrier 2") ~> (pc[MASTER_ID] = "outside")
=============================================================================
