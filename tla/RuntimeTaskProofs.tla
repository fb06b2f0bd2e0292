------------------------- MODULE RuntimeTaskProofs --------------------------
(***************************************************************************)
(* Nothing is lost or duplicated before shutdown, neither the right to     *)
(* send tasks to a channel, of which the counters of pending steal         *)
(* requests keep track, nor a task.  For any number of workers, any        *)
(* MAXSTEAL and any program.                                               *)
(***************************************************************************)
EXTENDS RuntimeProofs, FiniteSetTheorems

-----------------------------------------------------------------------------
(* Requests in a sequence of requests *)

\* Request r gives the right to send tasks to channel c of worker w.
Mine(r, w, c) == r.id = w /\ r.chan = c

In(s, w, c) == \E i \in 1 .. Len(s) : Mine(s[i], w, c)

Twice(s, w, c) ==
    \E i, j \in 1 .. Len(s) : i # j /\ Mine(s[i], w, c) /\ Mine(s[j], w, c)

LEMMA EmptyHolds ==
    ASSUME NEW w, NEW c
    PROVE  ~In(<<>>, w, c) /\ ~Twice(<<>>, w, c)
BY DEF In, Twice

\* A request added at the end is there, the others still are.
LEMMA AppendHolds ==
    ASSUME NEW s \in Seq(Request), NEW r \in Request, NEW w, NEW c
    PROVE  /\ In(Append(s, r), w, c) <=> In(s, w, c) \/ Mine(r, w, c)
           /\ Twice(Append(s, r), w, c) <=>
                Twice(s, w, c) \/ (Mine(r, w, c) /\ In(s, w, c))
<1> DEFINE t == Append(s, r)
<1>1. /\ t \in Seq(Request) /\ Len(t) = Len(s) + 1 /\ t[Len(s) + 1] = r
      /\ \A i \in 1 .. Len(s) : t[i] = s[i]
      /\ Len(s) \in Nat
  BY AppendProperties, LenProperties
<1>2. \A i \in 1 .. Len(s) + 1 : i \in 1 .. Len(s) \/ i = Len(s) + 1
  BY <1>1
<1>3. Len(s) + 1 \in 1 .. Len(t) /\ 1 .. Len(s) \subseteq 1 .. Len(t)
      /\ Len(s) + 1 \notin 1 .. Len(s)
  BY <1>1
<1> HIDE DEF t
<1>4. In(t, w, c) <=> In(s, w, c) \/ Mine(r, w, c)
  BY <1>1, <1>2, <1>3 DEF In
<1>5. Twice(t, w, c) <=> Twice(s, w, c) \/ (Mine(r, w, c) /\ In(s, w, c))
  BY <1>1, <1>2, <1>3 DEF In, Twice
<1> QED BY <1>4, <1>5 DEF t

\* The head of a sequence apart, the rest is in its tail.
LEMMA TailHolds ==
    ASSUME NEW s \in Seq(Request), s # <<>>, NEW w, NEW c
    PROVE  /\ In(s, w, c) <=> In(Tail(s), w, c) \/ Mine(Head(s), w, c)
           /\ Twice(s, w, c) <=>
                Twice(Tail(s), w, c) \/ (Mine(Head(s), w, c) /\ In(Tail(s), w, c))
<1> DEFINE t == Tail(s)
<1>1. /\ Len(s) \in Nat \ {0} /\ Len(t) = Len(s) - 1 /\ Head(s) = s[1]
      /\ \A i \in 1 .. Len(t) : t[i] = s[i + 1]
  BY HeadTailProperties, EmptySeq
<1>2. \A i \in 1 .. Len(s) : i = 1 \/ (i - 1 \in 1 .. Len(t) /\ t[i - 1] = s[i])
  <2>1. ASSUME NEW i \in 1 .. Len(s), i # 1
        PROVE  i - 1 \in 1 .. Len(t) /\ (i - 1) + 1 = i
    BY <1>1, <2>1
  <2> QED BY <1>1, <2>1
<1>3. /\ 1 \in 1 .. Len(s)
      /\ \A i \in 1 .. Len(t) : i + 1 \in 1 .. Len(s) /\ i + 1 # 1 /\ i \in Int
  BY <1>1
<1>4. \A i \in 1 .. Len(s) : i \in Int
  OBVIOUS
<1> HIDE DEF t
<1>5. In(s, w, c) <=> In(t, w, c) \/ Mine(Head(s), w, c)
  BY <1>1, <1>2, <1>3 DEF In
<1>6. ASSUME Twice(s, w, c)
      PROVE  Twice(t, w, c) \/ (Mine(Head(s), w, c) /\ In(t, w, c))
  <2>1. PICK i \in 1 .. Len(s), j \in 1 .. Len(s) :
                i # j /\ Mine(s[i], w, c) /\ Mine(s[j], w, c)
    BY <1>6 DEF Twice
  <2>2. i - 1 # j - 1
    BY <1>4, <2>1
  <2> QED BY <1>1, <1>2, <2>1, <2>2 DEF In, Twice
<1>7. ASSUME Twice(t, w, c)
      PROVE  Twice(s, w, c)
  <2>1. PICK i \in 1 .. Len(t), j \in 1 .. Len(t) :
                i # j /\ Mine(t[i], w, c) /\ Mine(t[j], w, c)
    BY <1>7 DEF Twice
  <2>2. i + 1 # j + 1
    BY <1>3, <2>1
  <2> QED BY <1>1, <1>3, <2>1, <2>2 DEF Twice
<1>8. ASSUME Mine(Head(s), w, c), In(t, w, c)
      PROVE  Twice(s, w, c)
  BY <1>1, <1>3, <1>8 DEF In, Twice
<1> QED BY <1>5, <1>6, <1>7, <1>8 DEF t

-----------------------------------------------------------------------------
(* Channels in a stack of channels *)

Free(w, c) == \E i \in 1 .. Len(channel_stack[w]) : channel_stack[w][i] = c

FreeTwice(w, c) ==
    \E i, j \in 1 .. Len(channel_stack[w]) :
        i # j /\ channel_stack[w][i] = c /\ channel_stack[w][j] = c

\* CHANNEL_PUSH(c)
LEMMA PushHolds ==
    ASSUME ProtocolOK, NEW w \in Workers, NEW c \in Chans,
           channel_stack' = [channel_stack EXCEPT ![w] = Append(@, c)],
           NEW v \in Workers, NEW d \in Chans
    PROVE  /\ Free(v, d)' <=> Free(v, d) \/ (v = w /\ d = c)
           /\ FreeTwice(v, d)' <=>
                FreeTwice(v, d) \/ (v = w /\ d = c /\ Free(v, d))
           /\ Len(channel_stack'[v]) =
                IF v = w THEN Len(channel_stack[v]) + 1 ELSE Len(channel_stack[v])
<1> DEFINE s == channel_stack[w]
<1>1. s \in Seq(Chans) /\ channel_stack \in [Workers -> Seq(Chans)]
  BY DEF ProtocolOK
<1>2. /\ channel_stack'[w] = Append(s, c) /\ Len(Append(s, c)) = Len(s) + 1
      /\ Append(s, c)[Len(s) + 1] = c
      /\ \A i \in 1 .. Len(s) : Append(s, c)[i] = s[i]
      /\ Len(s) \in Nat
  BY <1>1, AppendProperties, LenProperties
<1>3. CASE v # w
  BY <1>1, <1>3 DEF Free, FreeTwice
<1>4. CASE v = w
  <2>1. \A i \in 1 .. Len(s) + 1 : i \in 1 .. Len(s) \/ i = Len(s) + 1
    BY <1>2
  <2>2. /\ Len(s) + 1 \in 1 .. Len(s) + 1 /\ 1 .. Len(s) \subseteq 1 .. Len(s) + 1
        /\ Len(s) + 1 \notin 1 .. Len(s)
    BY <1>2
  <2> HIDE DEF s
  <2>3. /\ Free(v, d)' <=> \E i \in 1 .. Len(s) + 1 : Append(s, c)[i] = d
        /\ FreeTwice(v, d)' <=> \E i, j \in 1 .. Len(s) + 1 :
                i # j /\ Append(s, c)[i] = d /\ Append(s, c)[j] = d
        /\ Free(v, d) <=> \E i \in 1 .. Len(s) : s[i] = d
        /\ FreeTwice(v, d) <=> \E i, j \in 1 .. Len(s) : i # j /\ s[i] = d /\ s[j] = d
    BY <1>2, <1>4 DEF Free, FreeTwice, s
  <2> QED BY <1>2, <1>4, <2>1, <2>2, <2>3 DEF s
<1> QED BY <1>3, <1>4

\* CHANNEL_POP returns the last element.
LEMMA PopHolds ==
    ASSUME ProtocolOK, NEW w \in Workers, ChannelPop(w),
           NEW c, c = channel_stack[w][Len(channel_stack[w])],
           NEW v \in Workers, NEW d \in Chans
    PROVE  /\ Free(v, d) <=> Free(v, d)' \/ (v = w /\ d = c)
           /\ FreeTwice(v, d) <=>
                FreeTwice(v, d)' \/ (v = w /\ d = c /\ Free(v, d)')
           /\ Len(channel_stack'[v]) =
                IF v = w THEN Len(channel_stack[v]) - 1 ELSE Len(channel_stack[v])
<1> DEFINE s == channel_stack[w]
           t == SubSeq(s, 1, Len(s) - 1)
<1>1. s \in Seq(Chans) /\ channel_stack \in [Workers -> Seq(Chans)] /\ s # <<>>
  BY DEF ProtocolOK, ChannelPop
<1>2. Len(s) \in Nat \ {0}
  BY <1>1, EmptySeq
<1>3. \A i \in 1 .. Len(s) - 1 : s[i] \in Chans
  BY <1>1, <1>2, ElementOfSeq
<1>4. t \in Seq(Chans) /\ Len(t) = Len(s) - 1 /\ \A i \in 1 .. Len(s) - 1 : t[i] = s[i]
  <2>1. 1 \in Int /\ Len(s) - 1 \in Int /\ \A i \in 1 .. Len(s) - 1 : 1 + i - 1 = i
    BY <1>2
  <2>2. /\ t \in Seq(Chans)
        /\ Len(t) = IF 1 <= Len(s) - 1 THEN (Len(s) - 1) - 1 + 1 ELSE 0
        /\ \A i \in 1 .. (Len(s) - 1) - 1 + 1 : t[i] = s[1 + i - 1]
    BY <1>1, <1>3, <2>1, SubSeqProperties
  <2> QED BY <1>2, <2>1, <2>2
<1>5. channel_stack' = [channel_stack EXCEPT ![w] = t] /\ channel_stack'[w] = t
  BY <1>1 DEF ChannelPop
<1>6. CASE v # w
  BY <1>1, <1>5, <1>6 DEF Free, FreeTwice
<1>7. CASE v = w
  <2>1. \A i \in 1 .. Len(s) : i \in 1 .. Len(s) - 1 \/ i = Len(s)
    BY <1>2
  <2>2. /\ Len(s) \in 1 .. Len(s) /\ 1 .. Len(s) - 1 \subseteq 1 .. Len(s)
        /\ Len(s) \notin 1 .. Len(s) - 1
    BY <1>2
  <2> HIDE DEF s, t
  <2>3. /\ Free(v, d)' <=> \E i \in 1 .. Len(s) - 1 : s[i] = d
        /\ FreeTwice(v, d)' <=> \E i, j \in 1 .. Len(s) - 1 : i # j /\ s[i] = d /\ s[j] = d
        /\ Free(v, d) <=> \E i \in 1 .. Len(s) : s[i] = d
        /\ FreeTwice(v, d) <=> \E i, j \in 1 .. Len(s) : i # j /\ s[i] = d /\ s[j] = d
    BY <1>4, <1>5, <1>7 DEF Free, FreeTwice, s
  <2> QED BY <1>4, <1>5, <1>7, <2>1, <2>2, <2>3 DEF s
<1> QED BY <1>6, <1>7

-----------------------------------------------------------------------------
(* The right to send tasks to a channel: one holder *)

\* The channel holds tasks; ...
Loaded(w, c) == chan_tasks[w][c] # <<>>

\* ... a request for it is in the channel of worker v; ...
Underway(v, w, c) == In(chan_requests[v], w, c)

\* ... worker v keeps it as a lifeline.
Kept(v, w, c) == In(Lifelines(v), w, c)

OneHolder(w, c) ==
    /\ \/ Free(w, c) \/ Loaded(w, c)
       \/ \E v \in Workers : Underway(v, w, c) \/ Kept(v, w, c)
    /\ ~FreeTwice(w, c)
    /\ \A v \in Workers : ~Twice(chan_requests[v], w, c) /\ ~Twice(Lifelines(v), w, c)
    /\ ~(Free(w, c) /\ Loaded(w, c))
    /\ \A v \in Workers : Underway(v, w, c) \/ Kept(v, w, c) =>
            ~Free(w, c) /\ ~Loaded(w, c)
    /\ \A u, v \in Workers : ~(Underway(u, w, c) /\ Kept(v, w, c))
    /\ \A u, v \in Workers : Underway(u, w, c) /\ Underway(v, w, c) => u = v
    /\ \A u, v \in Workers : Kept(u, w, c) /\ Kept(v, w, c) => u = v

AllHeld == \A w \in Workers, c \in Chans : OneHolder(w, c)

\* The lifelines of the workers are left alone.
LifelinesKept == \A v \in Workers : Lifelines(v)' = Lifelines(v)

LEMMA LifelinesType ==
    ASSUME Inv, NEW v \in Workers
    PROVE  Lifelines(v) \in Seq(Request)
<1>1. work_sharing_requests[v] \in Seq(Request) /\ SignalInv(v)
  BY DEF Inv, LifelineOK, LocalInv
<1> QED BY <1>1, HeadTailProperties DEF Lifelines, SignalInv

LEMMA SameHolders ==
    ASSUME AllHeld, LifelinesKept, UNCHANGED <<chan_requests, channel_stack, chan_tasks>>
    PROVE  AllHeld'
BY DEF AllHeld, LifelinesKept, OneHolder, Free, FreeTwice, Loaded, Underway, Kept

\* Request r, at the head of a channel, has been received; q are the channels
\* without it.
Taken(r, q) ==
    \E v \in Workers : /\ chan_requests[v] # <<>>
                       /\ r = Head(chan_requests[v])
                       /\ q = [chan_requests EXCEPT ![v] = Tail(@)]

LEMMA TakenType ==
    ASSUME ProtocolOK, NEW r, NEW q, Taken(r, q)
    PROVE  r \in Request /\ q \in [Workers -> Seq(Request)]
<1>1. PICK v \in Workers : /\ chan_requests[v] # <<>>
                           /\ r = Head(chan_requests[v])
                           /\ q = [chan_requests EXCEPT ![v] = Tail(@)]
  BY DEF Taken
<1>2. chan_requests[v] \in Seq(Request)
  BY DEF ProtocolOK
<1>3. Head(chan_requests[v]) \in Request /\ Tail(chan_requests[v]) \in Seq(Request)
  BY <1>1, <1>2, HeadTailProperties
<1> QED BY <1>1, <1>3 DEF ProtocolOK

\* With r, its right leaves the channels; the others stay.
LEMMA TakenHolds ==
    ASSUME ProtocolOK, AllHeld, NEW r, NEW q, Taken(r, q)
    PROVE  /\ \A v \in Workers : /\ ~In(q[v], r.id, r.chan)
                                 /\ ~Twice(q[v], r.id, r.chan)
           /\ \A w, c : ~Mine(r, w, c) =>
                \A v \in Workers :
                    /\ In(q[v], w, c) <=> Underway(v, w, c)
                    /\ Twice(q[v], w, c) <=> Twice(chan_requests[v], w, c)
           /\ \E v \in Workers : Underway(v, r.id, r.chan)
           /\ r.id \in Workers /\ r.chan \in Chans
           /\ ~Free(r.id, r.chan) /\ ~FreeTwice(r.id, r.chan) /\ ~Loaded(r.id, r.chan)
           /\ \A v \in Workers : /\ ~Kept(v, r.id, r.chan)
                                 /\ ~Twice(Lifelines(v), r.id, r.chan)
<1>1. PICK u \in Workers : /\ chan_requests[u] # <<>>
                           /\ r = Head(chan_requests[u])
                           /\ q = [chan_requests EXCEPT ![u] = Tail(@)]
  BY DEF Taken
<1>2. chan_requests \in [Workers -> Seq(Request)] /\ chan_requests[u] \in Seq(Request)
  BY DEF ProtocolOK
<1>3. q[u] = Tail(chan_requests[u]) /\ \A v \in Workers \ {u} : q[v] = chan_requests[v]
  BY <1>1, <1>2
<1>4. \A w, c :
        /\ In(chan_requests[u], w, c) <=> In(q[u], w, c) \/ Mine(r, w, c)
        /\ Twice(chan_requests[u], w, c) <=>
                Twice(q[u], w, c) \/ (Mine(r, w, c) /\ In(q[u], w, c))
  BY <1>1, <1>2, <1>3, TailHolds
<1>5. r \in Request /\ r.id \in Workers /\ r.chan \in Chans /\ Mine(r, r.id, r.chan)
  BY TakenType DEF Request, Mine
<1>6. OneHolder(r.id, r.chan) /\ Underway(u, r.id, r.chan)
  BY <1>4, <1>5 DEF AllHeld, Underway
<1>7. \A v \in Workers : ~In(q[v], r.id, r.chan) /\ ~Twice(q[v], r.id, r.chan)
  BY <1>3, <1>4, <1>5, <1>6 DEF OneHolder, Underway
<1>8. ASSUME NEW w, NEW c, ~Mine(r, w, c), NEW v \in Workers
      PROVE  /\ In(q[v], w, c) <=> Underway(v, w, c)
             /\ Twice(q[v], w, c) <=> Twice(chan_requests[v], w, c)
  BY <1>3, <1>4, <1>8 DEF Underway
<1>9. /\ ~Free(r.id, r.chan) /\ ~FreeTwice(r.id, r.chan) /\ ~Loaded(r.id, r.chan)
      /\ \A v \in Workers : /\ ~Kept(v, r.id, r.chan)
                            /\ ~Twice(Lifelines(v), r.id, r.chan)
  BY <1>6 DEF OneHolder
<1> QED BY <1>5, <1>6, <1>7, <1>8, <1>9

\* The thief gets its right back: FORGET_REQ, and dropped requests.
Returned(w, r, q) ==
    /\ r.id = w
    /\ chan_requests' = q
    /\ ChannelPush(w, r.chan)
    /\ UNCHANGED chan_tasks

\* The right travels on: SEND_REQ_WORKER.
Forwarded(r, q) ==
    /\ \E v \in Workers, s \in Request : /\ s.id = r.id /\ s.chan = r.chan
                                         /\ chan_requests' = Deliver(q, v, s)
    /\ UNCHANGED <<channel_stack, chan_tasks>>

\* The right is used up.
Used(r, q) ==
    /\ chan_requests' = q
    /\ \E list : list # <<>> /\ SendTasks(r, list)
    /\ UNCHANGED channel_stack

LEMMA ReturnedHolds ==
    ASSUME ProtocolOK, AllHeld, NEW r, NEW q, NEW w \in Workers, Taken(r, q),
           Returned(w, r, q), LifelinesKept
    PROVE  AllHeld'
<1> SUFFICES ASSUME NEW v \in Workers, NEW c \in Chans
             PROVE  OneHolder(v, c)'
  BY DEF AllHeld
<1>1. OneHolder(v, c) /\ r.chan \in Chans
  BY TakenHolds DEF AllHeld
<1>2. /\ Free(v, c)' <=> Free(v, c) \/ (v = w /\ c = r.chan)
      /\ FreeTwice(v, c)' <=> FreeTwice(v, c) \/ (v = w /\ c = r.chan /\ Free(v, c))
  BY <1>1, PushHolds DEF Returned, ChannelPush
<1>3. /\ Loaded(v, c)' <=> Loaded(v, c)
      /\ \A u \in Workers : /\ Kept(u, v, c)' <=> Kept(u, v, c)
                            /\ Twice(Lifelines(u), v, c)' <=> Twice(Lifelines(u), v, c)
                            /\ Underway(u, v, c)' <=> In(q[u], v, c)
                            /\ Twice(chan_requests[u], v, c)' <=> Twice(q[u], v, c)
  BY DEF Returned, LifelinesKept, Loaded, Kept, Underway
<1>4. Mine(r, v, c) <=> v = w /\ c = r.chan
  BY DEF Returned, Mine
<1>5. CASE Mine(r, v, c)
  <2>1. /\ ~Free(v, c) /\ ~FreeTwice(v, c) /\ ~Loaded(v, c)
        /\ \A u \in Workers : /\ ~Kept(u, v, c) /\ ~Twice(Lifelines(u), v, c)
                              /\ ~In(q[u], v, c) /\ ~Twice(q[u], v, c)
    BY <1>5, TakenHolds DEF Mine
  <2> QED BY <1>2, <1>3, <1>4, <1>5, <2>1 DEF OneHolder
<1>6. CASE ~Mine(r, v, c)
  <2>1. \A u \in Workers : /\ In(q[u], v, c) <=> Underway(u, v, c)
                           /\ Twice(q[u], v, c) <=> Twice(chan_requests[u], v, c)
    BY <1>6, TakenHolds
  <2> QED BY <1>1, <1>2, <1>3, <1>4, <1>6, <2>1 DEF OneHolder
<1> QED BY <1>5, <1>6

LEMMA DeliverHolds ==
    ASSUME NEW q \in [Workers -> Seq(Request)], NEW u \in Workers, NEW r \in Request,
           NEW v \in Workers, NEW w, NEW c
    PROVE  /\ In(Deliver(q, u, r)[v], w, c) <=>
                In(q[v], w, c) \/ (v = u /\ Mine(r, w, c))
           /\ Twice(Deliver(q, u, r)[v], w, c) <=>
                Twice(q[v], w, c) \/ (v = u /\ Mine(r, w, c) /\ In(q[v], w, c))
<1>1. Deliver(q, u, r)[v] = IF v = u THEN Append(q[v], r) ELSE q[v]
  BY DEF Deliver
<1>2. q[v] \in Seq(Request)
  OBVIOUS
<1> QED BY <1>1, <1>2, AppendHolds

LEMMA ForwardedHolds ==
    ASSUME ProtocolOK, AllHeld, NEW r, NEW q, Taken(r, q),
           Forwarded(r, q), LifelinesKept
    PROVE  AllHeld'
<1> SUFFICES ASSUME NEW v \in Workers, NEW c \in Chans
             PROVE  OneHolder(v, c)'
  BY DEF AllHeld
<1>1. OneHolder(v, c) /\ q \in [Workers -> Seq(Request)]
  BY TakenType DEF AllHeld
<1>2. PICK x \in Workers, s \in Request : /\ s.id = r.id /\ s.chan = r.chan
                                          /\ chan_requests' = Deliver(q, x, s)
  BY DEF Forwarded
<1>3. Mine(s, v, c) <=> Mine(r, v, c)
  BY <1>2 DEF Mine
<1>4. /\ Free(v, c)' <=> Free(v, c)
      /\ FreeTwice(v, c)' <=> FreeTwice(v, c)
      /\ Loaded(v, c)' <=> Loaded(v, c)
      /\ \A u \in Workers : /\ Kept(u, v, c)' <=> Kept(u, v, c)
                            /\ Twice(Lifelines(u), v, c)' <=> Twice(Lifelines(u), v, c)
  BY DEF Forwarded, LifelinesKept, Loaded, Kept, Free, FreeTwice
<1>5. \A u \in Workers :
        /\ Underway(u, v, c)' <=> In(q[u], v, c) \/ (u = x /\ Mine(r, v, c))
        /\ Twice(chan_requests[u], v, c)' <=>
                Twice(q[u], v, c) \/ (u = x /\ Mine(r, v, c) /\ In(q[u], v, c))
  BY <1>1, <1>2, <1>3, DeliverHolds DEF Underway
<1>6. CASE Mine(r, v, c)
  <2>1. /\ ~Free(v, c) /\ ~FreeTwice(v, c) /\ ~Loaded(v, c)
        /\ \A u \in Workers : /\ ~Kept(u, v, c) /\ ~Twice(Lifelines(u), v, c)
                              /\ ~In(q[u], v, c) /\ ~Twice(q[u], v, c)
    BY <1>6, TakenHolds DEF Mine
  <2> QED BY <1>2, <1>4, <1>5, <1>6, <2>1 DEF OneHolder
<1>7. CASE ~Mine(r, v, c)
  <2>1. \A u \in Workers : /\ In(q[u], v, c) <=> Underway(u, v, c)
                           /\ Twice(q[u], v, c) <=> Twice(chan_requests[u], v, c)
    BY <1>7, TakenHolds
  <2> QED BY <1>1, <1>4, <1>5, <1>7, <2>1 DEF OneHolder
<1> QED BY <1>6, <1>7

\* Tasks sent to a channel load it, and no other one.
LEMMA SendTasksHolds ==
    ASSUME WorkOK, NEW r, r.id \in Workers, r.chan \in Chans, NEW list, list # <<>>,
           SendTasks(r, list), NEW w \in Workers, NEW c \in Chans
    PROVE  Loaded(w, c)' <=> Loaded(w, c) \/ Mine(r, w, c)
BY DEF WorkOK, SendTasks, Loaded, Mine

LEMMA UsedHolds ==
    ASSUME ProtocolOK, WorkOK, AllHeld, NEW r, NEW q, Taken(r, q), Used(r, q),
           LifelinesKept
    PROVE  AllHeld'
<1> SUFFICES ASSUME NEW v \in Workers, NEW c \in Chans
             PROVE  OneHolder(v, c)'
  BY DEF AllHeld
<1>1. OneHolder(v, c) /\ r.chan \in Chans /\ r.id \in Workers
  BY TakenHolds DEF AllHeld
<1>2. Loaded(v, c)' <=> Loaded(v, c) \/ Mine(r, v, c)
  BY <1>1, SendTasksHolds DEF Used
<1>3. /\ Free(v, c)' <=> Free(v, c)
      /\ FreeTwice(v, c)' <=> FreeTwice(v, c)
      /\ \A u \in Workers : /\ Kept(u, v, c)' <=> Kept(u, v, c)
                            /\ Twice(Lifelines(u), v, c)' <=> Twice(Lifelines(u), v, c)
                            /\ Underway(u, v, c)' <=> In(q[u], v, c)
                            /\ Twice(chan_requests[u], v, c)' <=> Twice(q[u], v, c)
  BY DEF Used, LifelinesKept, Free, FreeTwice, Kept, Underway
<1>4. CASE Mine(r, v, c)
  <2>1. /\ ~Free(v, c) /\ ~FreeTwice(v, c) /\ ~Loaded(v, c)
        /\ \A u \in Workers : /\ ~Kept(u, v, c) /\ ~Twice(Lifelines(u), v, c)
                              /\ ~In(q[u], v, c) /\ ~Twice(q[u], v, c)
    BY <1>4, TakenHolds DEF Mine
  <2> QED BY <1>2, <1>3, <1>4, <2>1 DEF OneHolder
<1>5. CASE ~Mine(r, v, c)
  <2>1. \A u \in Workers : /\ In(q[u], v, c) <=> Underway(u, v, c)
                           /\ Twice(q[u], v, c) <=> Twice(chan_requests[u], v, c)
    BY <1>5, TakenHolds
  <2> QED BY <1>1, <1>2, <1>3, <1>5, <2>1 DEF OneHolder
<1> QED BY <1>4, <1>5

-----------------------------------------------------------------------------
(* What becomes of a request that a worker has received, and of the counters *)

\* One pending request less, or one more that is dropped
Counted(w) ==
    /\ UNCHANGED waiting
    /\ \/ requested' = [requested EXCEPT ![w] = @ - 1] /\ UNCHANGED dropped
       \/ dropped' = [dropped EXCEPT ![w] = @ + 1] /\ UNCHANGED requested

\* The worker backs off with its last request.
Withdraws(w, r) ==
    /\ r.id = w /\ w # MASTER_ID /\ LastRequest(w)
    /\ waiting' = [waiting EXCEPT ![w] = TRUE]
    /\ Goto(w, "waitpeek")

Outcome(w, r, q) ==
    \/ Returned(w, r, q) /\ Counted(w)
    \/ Forwarded(r, q) /\ UNCHANGED <<requested, dropped>>
        /\ (UNCHANGED waiting \/ Withdraws(w, r))
    \/ Used(r, q) /\ UNCHANGED <<requested, dropped, waiting>>

\* A victim is a worker.
LEMMA VictimsType ==
    ASSUME NEW r \in Request
    PROVE  Victims(r) \subseteq Workers
BY DEF Victims, Request

LEMMA ForgetOutcome ==
    ASSUME NEW w, NEW r, NEW q, NEW next, r.id = w, FORGET_REQ(w, r, q, next)
    PROVE  Returned(w, r, q) /\ Counted(w)
BY DEF FORGET_REQ, Returned, Counted, work

LEMMA PassOnOutcome ==
    ASSUME NEW w \in Workers, NEW r \in Request, NEW q, NEW next, PassOn(w, r, q, next)
    PROVE  Forwarded(r, q) /\ UNCHANGED <<requested, dropped, waiting>>
<1>1. PICK v \in Victims(next_victim(w, r)) :
            chan_requests' = Deliver(q, v, next_victim(w, r))
  BY DEF PassOn, SendOn
<1>2. next_victim(w, r) \in Request
  BY NextVictimType
<1>3. v \in Workers
  BY <1>2, VictimsType
<1>4. next_victim(w, r).id = r.id /\ next_victim(w, r).chan = r.chan
  BY DEF next_victim, Request
<1> QED BY <1>1, <1>2, <1>3, <1>4 DEF PassOn, Forwarded, work

\* Only the right that a request gives matters.
LEMMA OutcomeOfField ==
    ASSUME NEW w, NEW r, NEW s, NEW q, Outcome(w, s, q), s.id = r.id, s.chan = r.chan
    PROVE  Outcome(w, r, q)
<1>1. Returned(w, s, q) => Returned(w, r, q)
  BY DEF Returned
<1>2. Forwarded(s, q) => Forwarded(r, q)
  BY DEF Forwarded
<1>3. Used(s, q) => Used(r, q)
  BY DEF Used, SendTasks
<1>4. Withdraws(w, s) => Withdraws(w, r)
  BY DEF Withdraws
<1> QED BY <1>1, <1>2, <1>3, <1>4 DEF Outcome

\* decline_steal_request
LEMMA DeclineOutcome ==
    ASSUME NEW w \in Workers, NEW req \in Request, NEW q, NEW next,
           decline_steal_request(w, req, q, next)
    PROVE  Outcome(w, req, q)
<1> DEFINE r == [req EXCEPT !.try = @ + 1]
<1>1. r \in Request /\ r.id = req.id /\ r.chan = req.chan
  <2>1. req.try + 1 \in Nat
    BY DEF Request
  <2> QED BY <2>1, Zenon DEF Request
<1> HIDE DEF r
<1>2. ASSUME Outcome(w, r, q)
      PROVE  Outcome(w, req, q)
  BY <1>1, <1>2, OutcomeOfField
<1>3. CASE PassOn(w, r, q, next)
  BY <1>1, <1>2, <1>3, PassOnOutcome DEF Outcome
<1>4. CASE r.id = w /\ detect_termination(w, r, q, next)
  BY <1>2, <1>4 DEF detect_termination, Outcome, Returned, Counted, work
<1>5. CASE r.id = w /\ w # MASTER_ID /\ LastRequest(w) /\ BackOff(w, r, q)
  <2>1. [r EXCEPT !.state = FAILED] \in Request
    BY <1>1 DEF Request
  <2>2. [r EXCEPT !.state = FAILED].id = r.id /\ [r EXCEPT !.state = FAILED].chan = r.chan
    BY <1>1 DEF Request
  <2>3. parent(w) \in Workers
    BY <1>5, NAssumption DEF parent, Workers, MASTER_ID
  <2>4. Forwarded(r, q)
    BY <1>5, <2>1, <2>2, <2>3 DEF BackOff, SendOn, Forwarded, work
  <2> QED BY <1>2, <1>5, <2>4 DEF BackOff, Outcome, Withdraws
<1>6. CASE r.id = w /\ Drop(w, r, q, next)
  BY <1>2, <1>6 DEF Drop, Outcome, Returned, Counted, work
<1>7. CASE r.id = w /\ Recirculate(w, r, q, next)
  <2>1. /\ Renewed(r) \in Request /\ Renewed(r).id = r.id /\ Renewed(r).chan = r.chan
    BY <1>1 DEF Renewed, Request
  <2>2. CASE FORGET_REQ(w, r, q, next)
    BY <1>2, <1>7, <2>2, ForgetOutcome DEF Outcome
  <2>3. CASE PassOn(w, Renewed(r), q, next)
    <3>1. Forwarded(Renewed(r), q) /\ UNCHANGED <<requested, dropped, waiting>>
      BY <2>1, <2>3, PassOnOutcome
    <3>2. Forwarded(r, q)
      BY <2>1, <3>1 DEF Forwarded
    <3> QED BY <1>2, <3>1, <3>2 DEF Outcome
  <2> QED BY <1>7, <2>2, <2>3 DEF Recirculate
<1> QED BY <1>3, <1>4, <1>5, <1>6, <1>7 DEF decline_steal_request, r

\* deque_steal and deque_steal_half take at least one task.
LEMMA SendLootUsed ==
    ASSUME WorkOK, NEW w \in Workers, NEW r, deque[w] # <<>>, SendLoot(w, r)
    PROVE  \E list : list # <<>> /\ SendTasks(r, list)
<1> DEFINE d == deque[w]
           k == Len(d) - LootSize(w, r)
<1>1. d \in Seq(TaskIds) /\ d # <<>> /\ Len(d) \in Nat \ {0}
  BY EmptySeq DEF WorkOK
<1>2. LootSize(w, r) \in 1 .. Len(d)
  <2>1. \A n \in Nat : n >= 2 => n \div 2 \in 1 .. n
    OBVIOUS
  <2>2. LootSize(w, r) = 1 \/ (Len(d) >= 2 /\ LootSize(w, r) = Len(d) \div 2)
    BY Zenon DEF LootSize
  <2> HIDE DEF d
  <2> QED BY <1>1, <2>1, <2>2
<1>3. k \in 0 .. Len(d) - 1
  BY <1>1, <1>2
<1> HIDE DEF k
<1>4. \A i \in k + 1 .. Len(d) : d[i] \in TaskIds
  <2>1. \A i \in 1 .. Len(d) : d[i] \in TaskIds
    BY <1>1, ElementOfSeq
  <2> QED BY <1>1, <1>3, <2>1
<1>5. k + 1 \in Int /\ Len(d) \in Int /\ k + 1 <= Len(d)
  BY <1>1, <1>3
<1>6. Len(Loot(d, k)) = Len(d) - (k + 1) + 1
  BY <1>4, <1>5, SubSeqProperties DEF Loot
<1>7. Loot(d, k) # <<>>
  BY <1>5, <1>6
<1>8. SendTasks(r, Loot(d, k))
  BY DEF SendLoot, k
<1> QED BY <1>7, <1>8

\* split_loop sends the new task.
LEMMA SplitUsed ==
    ASSUME NEW w, NEW t, NEW r, split_loop(w, t, r)
    PROVE  \E list : list # <<>> /\ SendTasks(r, list)
<1>1. <<Len(tasks) + 1>> # <<>>
  OBVIOUS
<1> QED BY <1>1 DEF split_loop

LEMMA HandleStealRequestOutcome ==
    ASSUME WorkOK, NEW w \in Workers, NEW r \in Request, NEW q, NEW next,
           handle_steal_request(w, r, q, next)
    PROVE  Outcome(w, r, q)
<1>1. CASE r.id = w /\ FORGET_REQ(w, r, q, next)
  BY <1>1, ForgetOutcome DEF Outcome
<1>2. CASE decline_steal_request(w, r, q, next)
  BY <1>2, DeclineOutcome
<1>3. CASE deque[w] # <<>> /\ SendLoot(w, r) /\ Answered(w, q, next)
  <2>1. Used(r, q)
    BY <1>3, SendLootUsed DEF Answered, Used
  <2> QED BY <1>3, <2>1 DEF Answered, Outcome
<1> QED BY <1>1, <1>2, <1>3 DEF handle_steal_request

LEMMA SplitOrForgetOutcome ==
    ASSUME NEW w \in Workers, NEW t, NEW r \in Request, NEW q, NEW next,
           SplitOrForget(w, t, r, q, next)
    PROVE  Outcome(w, r, q)
<1>1. CASE r.id = w /\ FORGET_REQ(w, r, q, next)
  BY <1>1, ForgetOutcome DEF Outcome
<1>2. CASE split_loop(w, t, r) /\ Answered(w, q, next)
  <2>1. Used(r, q)
    BY <1>2, SplitUsed DEF Answered, Used
  <2> QED BY <1>2, <2>1 DEF Answered, Outcome
<1> QED BY <1>1, <1>2 DEF SplitOrForget

\* Whichever loop received the request, its right is returned, travels on or
\* is used.
LEMMA DispatchOutcome ==
    ASSUME WorkOK, NEW w \in Workers, NEW r \in Request, NEW q, Dispatch(w, r, q)
    PROVE  Outcome(w, r, q)
<1>1. CASE \E t : SplitOrForget(w, t, r, q, "serve")
  BY <1>1, SplitOrForgetOutcome
<1>2. CASE handle_steal_request(w, r, q, "serve")
  BY <1>2, HandleStealRequestOutcome
<1>3. CASE decline_steal_request(w, r, q, "serve")
  BY <1>3, DeclineOutcome
<1>4. ASSUME op[w] = "idle"
      PROVE  Outcome(w, r, q)
  <2> DEFINE s == IF r.id = w /\ r.state = WORKING
                  THEN [r EXCEPT !.state = IDLE] ELSE r
  <2>1. s \in Request /\ s.id = r.id /\ s.chan = r.chan
    BY Zenon DEF Request
  <2>2. decline_steal_request(w, s, q, "recv")
    BY <1>4 DEF Dispatch
  <2> HIDE DEF s
  <2>3. Outcome(w, s, q)
    BY <2>1, <2>2, DeclineOutcome
  <2> QED BY <2>1, <2>3, OutcomeOfField
<1> QED BY <1>1, <1>2, <1>3, <1>4 DEF Dispatch, handle

-----------------------------------------------------------------------------
(* Where the workers are: shutdown is final, and who signals keeps at it *)

ExitLabels == {"exit", "exitsignal", "finished"}

\* Worker w moves, and wakes at most one other worker.
MovesAlone(w) ==
    \A v \in Workers \ {w} : pc'[v] = pc[v] \/ (pc[v] = "asleep" /\ pc'[v] = "woken")

\* A received request comes from some channel, and the worker that handles it
\* does not leave RECV_REQ for share_work.
LEMMA RecvTakes ==
    ASSUME Inv, NEW w \in Workers, RecvOwn(w) \/ RecvBehalf(w)
    PROVE  /\ \/ UNCHANGED <<protocol, work, pc>>
              \/ \E r \in Request : \E q : Taken(r, q) /\ Dispatch(w, r, q)
           /\ pc[w] \in {"serve", "behalf"}
           /\ \E l \in {"serve", "behalf", "recv", "waitpeek", "leave"} :
                    pc' = [pc EXCEPT ![w] = l]
           /\ UNCHANGED lifeline
<1>1. pc[w] \in {"serve", "behalf"} /\ hand[w] # ExitFn
  BY DEF RecvOwn, RecvBehalf, Inv, LocalInv, HandInv
<1>2. ASSUME NEW r, NEW q, Taken(r, q), Dispatch(w, r, q)
      PROVE  /\ r \in Request
             /\ \E l \in {"serve", "behalf", "recv", "waitpeek", "leave"} :
                    pc' = [pc EXCEPT ![w] = l]
  <2>1. r \in Request /\ q \in [Workers -> Seq(Request)]
    BY <1>2, TakenType DEF Inv
  <2>2. Moves(w, "serve") \/ Moves(w, "recv")
    BY <1>1, <1>2, <2>1, DispatchType DEF Inv, Handled
  <2> QED BY <2>1, <2>2 DEF Moves
<1>3. CASE RecvOwn(w)
  <2> DEFINE r == Head(chan_requests[w])
             q == [chan_requests EXCEPT ![w] = Tail(@)]
  <2>1. Taken(r, q) /\ Dispatch(w, r, q)
    BY <1>3 DEF RecvOwn, Taken
  <2> HIDE DEF r, q
  <2> QED BY <1>1, <1>2, <1>3, <2>1 DEF RecvOwn
<1>4. CASE RecvBehalf(w)
  <2> DEFINE c == NextInScan(w)
             r == Head(chan_requests[c])
             q == [chan_requests EXCEPT ![c] = Tail(@)]
  <2>1. c \in Workers
    BY <1>4, NextInScanType DEF RecvBehalf, Inv
  <2>2. CASE UNCHANGED <<protocol, work, pc>>
    <3>1. pc' = [pc EXCEPT ![w] = pc[w]]
      BY <2>2 DEF Inv, ControlOK
    <3> QED BY <1>1, <1>4, <2>2, <3>1 DEF RecvBehalf
  <2>3. CASE chan_requests[c] # <<>> /\ Dispatch(w, r, q)
    <3>1. Taken(r, q)
      BY <2>1, <2>3 DEF Taken
    <3> HIDE DEF r, q
    <3> QED BY <1>1, <1>2, <1>4, <2>3, <3>1 DEF RecvBehalf
  <2> QED BY <1>4, <2>2, <2>3 DEF RecvBehalf
<1> QED BY <1>3, <1>4

\* The steps that touch neither the protocol nor the task channels
Quiet(w) ==
    \/ StartBehalf(w) \/ ShareSignal(w) \/ ShareDone(w) \/ ShareDoneRun(w)
    \/ RunPopped(w) \/ PopFailed(w) \/ ReturnToBody(w) \/ NothingToRelay(w)
    \/ ForceReady(w) \/ WaitPeek(w) \/ Sleep(w) \/ SpuriousWakeup(w) \/ Wake(w)
    \/ BarrierReturn(w) \/ ShareDoneExit(w) \/ SignalExit(w) \/ ExitDone(w)
    \/ User(w)

\* The steps that may send a steal request
Sends(w) ==
    RT_pop(w) \/ BeginSteal(w) \/ RecvNoTask(w) \/ Resend(w) \/ ForceNotReady(w)

LEMMA StepKinds ==
    ASSUME NEW w, Scheduler(w) \/ User(w) \/ SpuriousWakeup(w)
    PROVE  \/ Quiet(w) \/ Sends(w) \/ RecvFailed(w) \/ RecvOwn(w) \/ RecvBehalf(w)
           \/ ShareSend(w) \/ RecvTask(w) \/ NotifyExit(w)
BY DEF Scheduler, Quiet, Sends

LEMMA QuietKeeps ==
    ASSUME NEW w, Quiet(w)
    PROVE  UNCHANGED <<chan_requests, requested, channel_stack, dropped, waiting, chan_tasks>>
<1>1. CASE \/ StartBehalf(w) \/ ShareSignal(w) \/ ShareDone(w) \/ ShareDoneRun(w)
           \/ RunPopped(w) \/ PopFailed(w) \/ ReturnToBody(w) \/ NothingToRelay(w)
           \/ ForceReady(w)
  BY <1>1 DEF StartBehalf, ShareSignal, ShareDone, ShareDoneRun, RunPopped, PopFailed,
     ReturnToBody, NothingToRelay, ForceReady, protocol, work
<1>2. CASE \/ WaitPeek(w) \/ Sleep(w) \/ SpuriousWakeup(w) \/ Wake(w)
           \/ BarrierReturn(w) \/ ShareDoneExit(w) \/ SignalExit(w) \/ ExitDone(w)
  BY <1>2 DEF WaitPeek, Sleep, SpuriousWakeup, Wake, BarrierReturn, ShareDoneExit,
     SignalExit, ExitDone, protocol, work
<1>3. CASE User(w)
  BY <1>3 DEF User, RT_push, RT_force_future, RT_poll, EndIteration, TaskReturn,
     RT_barrier, protocol, work
<1> QED BY <1>1, <1>2, <1>3 DEF Quiet

\* Only ShareSend and ShareSignal enter and leave SIGNAL, and no worker comes
\* back from shutdown.
LEMMA QuietMoves ==
    ASSUME Inv, NEW w \in Workers, Quiet(w)
    PROVE  /\ MovesAlone(w)
           /\ pc[w] \in ExitLabels => pc'[w] \in ExitLabels
           /\ ShareSignal(w) \/ (UNCHANGED work_sharing_requests
                                    /\ pc[w] # "signal" /\ pc'[w] # "signal")
<1>1. CASE ShareSignal(w)
  BY <1>1, SignalMoves DEF ShareSignal, Inv, Labels, MovesAlone, ExitLabels
<1>2. CASE SignalExit(w)
  BY <1>2, SignalMoves DEF SignalExit, Inv, Labels, MovesAlone, ExitLabels, lifeline
<1>3. CASE \/ StartBehalf(w) \/ ShareDone(w) \/ ShareDoneRun(w)
           \/ RunPopped(w) \/ PopFailed(w) \/ ReturnToBody(w) \/ NothingToRelay(w)
           \/ ForceReady(w)
  BY <1>3 DEF StartBehalf, ShareDone, ShareDoneRun, RunPopped, PopFailed, NoRequest,
     ReturnToBody, NothingToRelay, ForceReady, lifeline, Goto, MovesAlone, ExitLabels,
     Inv, ControlOK
<1>4. CASE \/ WaitPeek(w) \/ Sleep(w) \/ SpuriousWakeup(w) \/ Wake(w)
           \/ BarrierReturn(w) \/ ShareDoneExit(w) \/ ExitDone(w)
  BY <1>4 DEF WaitPeek, Sleep, SpuriousWakeup, Wake, BarrierReturn, ShareDoneExit,
     ExitDone, lifeline, Goto, MovesAlone, ExitLabels, Inv, ControlOK
<1>5. CASE User(w)
  BY <1>5 DEF User, RT_push, RT_force_future, RT_poll, EndIteration, TaskReturn,
     RT_barrier, lifeline, Goto, MovesAlone, ExitLabels, Inv, ControlOK
<1> QED BY <1>1, <1>2, <1>3, <1>4, <1>5 DEF Quiet

LEMMA SendsMoves ==
    ASSUME Inv, NEW w \in Workers, Sends(w)
    PROVE  /\ MovesAlone(w) /\ UNCHANGED <<chan_tasks, dropped, waiting, lifeline>>
           /\ pc[w] \notin ExitLabels /\ pc[w] # "signal" /\ pc'[w] # "signal"
           /\ \/ UNCHANGED <<chan_requests, requested, channel_stack>>
              \/ \E s \in {WORKING, IDLE} : try_send_steal_request(w, s)
BY DEF Sends, RT_pop, BeginSteal, RecvNoTask, Resend, ForceNotReady, Goto, MovesAlone,
   ExitLabels, Inv, ControlOK, work

LEMMA ExitIsFinal ==
    ASSUME Inv, NEW w \in Workers, Scheduler(w) \/ User(w) \/ SpuriousWakeup(w), Exiting
    PROVE  Exiting'
<1>1. MovesAlone(w) /\ (pc[w] \in ExitLabels => pc'[w] \in ExitLabels)
  <2>1. CASE Quiet(w)
    BY <2>1, QuietMoves
  <2>2. CASE Sends(w)
    BY <2>2, SendsMoves
  <2>3. CASE RecvOwn(w) \/ RecvBehalf(w)
    BY <2>3, RecvTakes DEF MovesAlone, ExitLabels, Inv, ControlOK
  <2>4. CASE RecvFailed(w) \/ ShareSend(w) \/ RecvTask(w) \/ NotifyExit(w)
    BY <2>4 DEF RecvFailed, ShareSend, RecvTask, NotifyExit, Goto, MovesAlone,
       ExitLabels, Inv, ControlOK
  <2> QED BY <2>1, <2>2, <2>3, <2>4, StepKinds
<1> QED BY <1>1 DEF MovesAlone, Exiting, ExitLabels

-----------------------------------------------------------------------------
(* Every step keeps one holder per channel *)

\* A worker that neither enters nor leaves SIGNAL keeps its lifelines.
LEMMA KeepLifelines ==
    ASSUME NEW w \in Workers, MovesAlone(w), pc[w] # "signal", pc'[w] # "signal",
           UNCHANGED work_sharing_requests
    PROVE  LifelinesKept
BY DEF MovesAlone, LifelinesKept, Lifelines

\* try_send_steal_request turns a free channel into a request.
LEMMA TrySendHolds ==
    ASSUME ProtocolOK, AllHeld, NEW w \in Workers, NEW st \in {WORKING, IDLE},
           try_send_steal_request(w, st), LifelinesKept, UNCHANGED chan_tasks
    PROVE  AllHeld'
<1>1. CASE UNCHANGED <<chan_requests, requested, channel_stack>>
  BY <1>1, SameHolders
<1>2. CASE ~UNCHANGED <<chan_requests, requested, channel_stack>>
  <2> DEFINE cs == channel_stack[w]
             c  == cs[Len(cs)]
  <2>1. ChannelPop(w)
    BY <1>2 DEF try_send_steal_request
  <2>2. PICK half \in StealHalf :
            \E v \in Victims(next_victim(w, NewRequest(w, st, half))) :
                chan_requests' = Deliver(chan_requests, v,
                                         next_victim(w, NewRequest(w, st, half)))
    BY <1>2 DEF try_send_steal_request
  <2> DEFINE r == next_victim(w, NewRequest(w, st, half))
  <2>3. cs \in Seq(Chans) /\ Len(cs) \in Nat \ {0}
    BY <2>1, EmptySeq DEF ProtocolOK, ChannelPop
  <2>4. c \in Chans
    BY <2>3, ElementOfSeq
  <2>5. NewRequest(w, st, half) \in Request
    BY <2>4, RuntimeAssumption DEF NewRequest, Request
  <2>6. r \in Request /\ r.id = w /\ r.chan = c
    BY <2>5, NextVictimType DEF next_victim, NewRequest
  <2>7. PICK x \in Workers : chan_requests' = Deliver(chan_requests, x, r)
    BY <2>2, <2>6, VictimsType
  <2>8. chan_requests \in [Workers -> Seq(Request)]
    BY DEF ProtocolOK
  <2> SUFFICES ASSUME NEW v \in Workers, NEW d \in Chans
               PROVE  OneHolder(v, d)'
    BY DEF AllHeld
  <2> HIDE DEF r
  <2>9. /\ Free(v, d) <=> Free(v, d)' \/ (v = w /\ d = c)
        /\ FreeTwice(v, d) <=> FreeTwice(v, d)' \/ (v = w /\ d = c /\ Free(v, d)')
    BY <2>1, PopHolds
  <2>10. \A u \in Workers :
        /\ Underway(u, v, d)' <=> Underway(u, v, d) \/ (u = x /\ Mine(r, v, d))
        /\ Twice(chan_requests[u], v, d)' <=> Twice(chan_requests[u], v, d)
                \/ (u = x /\ Mine(r, v, d) /\ Underway(u, v, d))
    BY <2>6, <2>7, <2>8, DeliverHolds DEF Underway
  <2>11. /\ Loaded(v, d)' <=> Loaded(v, d)
         /\ \A u \in Workers : /\ Kept(u, v, d)' <=> Kept(u, v, d)
                               /\ Twice(Lifelines(u), v, d)' <=> Twice(Lifelines(u), v, d)
    BY DEF LifelinesKept, Loaded, Kept
  <2>12. Mine(r, v, d) <=> v = w /\ d = c
    BY <2>6 DEF Mine
  <2>13. OneHolder(v, d)
    BY DEF AllHeld
  <2> HIDE DEF c, cs
  <2>14. CASE v = w /\ d = c
    BY <2>9, <2>10, <2>11, <2>12, <2>13, <2>14 DEF OneHolder
  <2>15. CASE ~(v = w /\ d = c)
    BY <2>9, <2>10, <2>11, <2>12, <2>13, <2>15 DEF OneHolder
  <2> QED BY <2>14, <2>15
<1> QED BY <1>1, <1>2

\* RECV_REQ returned a request.
LEMMA RecvHolds ==
    ASSUME Inv, AllHeld, NEW w \in Workers, RecvOwn(w) \/ RecvBehalf(w)
    PROVE  AllHeld'
<1>1. LifelinesKept
  <2>1. /\ MovesAlone(w) /\ pc[w] # "signal" /\ pc'[w] # "signal"
        /\ UNCHANGED work_sharing_requests
    BY RecvTakes DEF MovesAlone, Inv, ControlOK, lifeline
  <2> QED BY <2>1, KeepLifelines
<1>2. CASE UNCHANGED <<protocol, work, pc>>
  BY <1>1, <1>2, SameHolders DEF protocol, work
<1>3. CASE \E r \in Request : \E q : Taken(r, q) /\ Dispatch(w, r, q)
  <2>1. PICK r, q : r \in Request /\ Taken(r, q) /\ Dispatch(w, r, q)
    BY <1>3
  <2>2. Outcome(w, r, q)
    BY <2>1, DispatchOutcome DEF Inv
  <2> QED BY <1>1, <2>1, <2>2, ReturnedHolds, ForwardedHolds, UsedHolds
          DEF Outcome, Inv
<1> QED BY <1>2, <1>3, RecvTakes

\* A failed request becomes a lifeline.
LEMMA RecvFailedHolds ==
    ASSUME Inv, AllHeld, NEW w \in Workers, RecvFailed(w)
    PROVE  AllHeld'
<1> DEFINE r == Head(chan_requests[w])
           q == [chan_requests EXCEPT ![w] = Tail(@)]
<1>1. Taken(r, q)
  BY DEF RecvFailed, Taken
<1>2. r \in Request
  BY <1>1, TakenType DEF Inv
<1>3. /\ chan_requests' = q /\ pc[w] = "serve"
      /\ work_sharing_requests' = [work_sharing_requests EXCEPT ![w] = Append(@, r)]
      /\ UNCHANGED <<channel_stack, chan_tasks, pc>>
  BY DEF RecvFailed, work
<1> HIDE DEF r, q
<1>4. /\ Lifelines(w)' = Append(Lifelines(w), r) /\ Lifelines(w) \in Seq(Request)
      /\ \A u \in Workers \ {w} : Lifelines(u)' = Lifelines(u)
  BY <1>3, LifelinesType DEF Lifelines, Inv, LifelineOK
<1> SUFFICES ASSUME NEW v \in Workers, NEW c \in Chans
             PROVE  OneHolder(v, c)'
  BY DEF AllHeld
<1>5. OneHolder(v, c)
  BY DEF AllHeld
<1>6. \A u \in Workers :
        /\ Kept(u, v, c)' <=> Kept(u, v, c) \/ (u = w /\ Mine(r, v, c))
        /\ Twice(Lifelines(u), v, c)' <=> Twice(Lifelines(u), v, c)
                \/ (u = w /\ Mine(r, v, c) /\ Kept(u, v, c))
  BY <1>2, <1>4, AppendHolds DEF Kept
<1>7. /\ Free(v, c)' <=> Free(v, c)
      /\ FreeTwice(v, c)' <=> FreeTwice(v, c)
      /\ Loaded(v, c)' <=> Loaded(v, c)
      /\ \A u \in Workers : /\ Underway(u, v, c)' <=> In(q[u], v, c)
                            /\ Twice(chan_requests[u], v, c)' <=> Twice(q[u], v, c)
  BY <1>3 DEF Loaded, Underway, Free, FreeTwice
<1>8. CASE Mine(r, v, c)
  <2>1. /\ ~Free(v, c) /\ ~FreeTwice(v, c) /\ ~Loaded(v, c)
        /\ \A u \in Workers : /\ ~Kept(u, v, c) /\ ~Twice(Lifelines(u), v, c)
                              /\ ~In(q[u], v, c) /\ ~Twice(q[u], v, c)
    BY <1>1, <1>8, TakenHolds DEF Mine, Inv
  <2> QED BY <1>6, <1>7, <1>8, <2>1 DEF OneHolder
<1>9. CASE ~Mine(r, v, c)
  <2>1. \A u \in Workers : /\ In(q[u], v, c) <=> Underway(u, v, c)
                           /\ Twice(q[u], v, c) <=> Twice(chan_requests[u], v, c)
    BY <1>1, <1>9, TakenHolds DEF Inv
  <2> QED BY <1>5, <1>6, <1>7, <1>9, <2>1 DEF OneHolder
<1> QED BY <1>8, <1>9

\* share_work answers a lifeline.
LEMMA ShareSendHolds ==
    ASSUME Inv, AllHeld, NEW w \in Workers, ShareSend(w)
    PROVE  AllHeld'
<1> DEFINE s == work_sharing_requests[w]
           r == Head(s)
<1>1. /\ s \in Seq(Request) /\ s # <<>> /\ r \in Request
      /\ r.id \in Workers /\ r.chan \in Chans
  <2>1. s \in Seq(Request) /\ s # <<>>
    BY DEF ShareSend, CanShare, Inv, LifelineOK
  <2>2. r \in Request
    BY <2>1, HeadTailProperties
  <2> QED BY <2>1, <2>2 DEF Request
<1>2. /\ pc[w] = "share" /\ pc' = [pc EXCEPT ![w] = "signal"]
      /\ UNCHANGED <<chan_requests, channel_stack, work_sharing_requests>>
  BY DEF ShareSend, Goto, protocol
<1>3. PICK list : list # <<>> /\ SendTasks(r, list)
  BY SendLootUsed, SplitUsed DEF ShareSend, Inv
<1> HIDE DEF r
<1>4. /\ Lifelines(w) = s /\ Lifelines(w)' = Tail(s)
      /\ \A u \in Workers \ {w} : Lifelines(u)' = Lifelines(u)
  BY <1>2 DEF Lifelines, Inv, ControlOK
<1> SUFFICES ASSUME NEW v \in Workers, NEW c \in Chans
             PROVE  OneHolder(v, c)'
  BY DEF AllHeld
<1>5. OneHolder(v, c)
  BY DEF AllHeld
<1>6. \A u \in Workers :
        /\ Kept(u, v, c) <=> Kept(u, v, c)' \/ (u = w /\ Mine(r, v, c))
        /\ Twice(Lifelines(u), v, c) <=> Twice(Lifelines(u), v, c)'
                \/ (u = w /\ Mine(r, v, c) /\ Kept(u, v, c)')
  <2>1. /\ In(s, v, c) <=> In(Tail(s), v, c) \/ Mine(r, v, c)
        /\ Twice(s, v, c) <=> Twice(Tail(s), v, c) \/ (Mine(r, v, c) /\ In(Tail(s), v, c))
    BY <1>1, TailHolds DEF r
  <2> HIDE DEF s
  <2> QED BY <1>4, <2>1 DEF Kept
<1>7. Loaded(v, c)' <=> Loaded(v, c) \/ Mine(r, v, c)
  BY <1>1, <1>3, SendTasksHolds DEF Inv
<1>8. /\ Free(v, c)' <=> Free(v, c)
      /\ FreeTwice(v, c)' <=> FreeTwice(v, c)
      /\ \A u \in Workers : /\ Underway(u, v, c)' <=> Underway(u, v, c)
                            /\ Twice(chan_requests[u], v, c)' <=> Twice(chan_requests[u], v, c)
  BY <1>2 DEF Underway, Free, FreeTwice
<1> QED BY <1>5, <1>6, <1>7, <1>8 DEF OneHolder

\* RECV_TASK frees the channel it received from.
LEMMA RecvTaskHolds ==
    ASSUME Inv, AllHeld, NEW w \in Workers, RecvTask(w)
    PROVE  AllHeld'
<1>1. PICK c \in Chans : /\ chan_tasks[w][c] # <<>>
                         /\ chan_tasks' = [chan_tasks EXCEPT ![w][c] = <<>>]
                         /\ ChannelPush(w, c)
  BY DEF RecvTask
<1>2. LifelinesKept
  BY KeepLifelines DEF RecvTask, Goto, MovesAlone, Inv, ControlOK, lifeline
<1> SUFFICES ASSUME NEW v \in Workers, NEW d \in Chans
             PROVE  OneHolder(v, d)'
  BY DEF AllHeld
<1>3. OneHolder(v, d)
  BY DEF AllHeld
<1>4. /\ Free(v, d)' <=> Free(v, d) \/ (v = w /\ d = c)
      /\ FreeTwice(v, d)' <=> FreeTwice(v, d) \/ (v = w /\ d = c /\ Free(v, d))
  BY <1>1, PushHolds DEF ChannelPush, Inv
<1>5. /\ Loaded(v, d)' <=> Loaded(v, d) /\ ~(v = w /\ d = c)
      /\ v = w /\ d = c => Loaded(v, d)
  BY <1>1 DEF Loaded, Inv, WorkOK
<1>6. \A u \in Workers : /\ Kept(u, v, d)' <=> Kept(u, v, d)
                         /\ Twice(Lifelines(u), v, d)' <=> Twice(Lifelines(u), v, d)
                         /\ Underway(u, v, d)' <=> Underway(u, v, d)
                         /\ Twice(chan_requests[u], v, d)' <=> Twice(chan_requests[u], v, d)
  BY <1>2 DEF RecvTask, LifelinesKept, Kept, Underway
<1> QED BY <1>3, <1>4, <1>5, <1>6 DEF OneHolder

-----------------------------------------------------------------------------
(* The first theorem *)

\* Until shutdown
TokenInv == ~Exiting => AllHeld

\* At first, every channel is free.
LEMMA InitToken == Init => TokenInv
<1> SUFFICES ASSUME Init, NEW w \in Workers, NEW c \in Chans
             PROVE  OneHolder(w, c)
  BY DEF TokenInv, AllHeld
<1>1. MAXSTEAL \in Nat /\ Chans = 1 .. MAXSTEAL
  BY RuntimeAssumption DEF Chans
<1>2. channel_stack[w] = [d \in Chans |-> d]
  BY DEF Init
<1>3. Len(channel_stack[w]) = MAXSTEAL
  BY <1>1, <1>2
<1>4. Free(w, c) /\ ~FreeTwice(w, c)
  BY <1>1, <1>2, <1>3 DEF Free, FreeTwice
<1>5. ~Loaded(w, c)
  BY DEF Init, Loaded
<1>6. \A v \in Workers : Lifelines(v) = <<>> /\ chan_requests[v] = <<>>
  BY DEF Init, Lifelines
<1> QED BY <1>4, <1>5, <1>6, EmptyHolds DEF OneHolder, Underway, Kept

LEMMA NextToken == Inv /\ TokenInv /\ [Next]_vars => TokenInv'
<1> SUFFICES ASSUME Inv, TokenInv, [Next]_vars, ~Exiting'
             PROVE  AllHeld'
  BY DEF TokenInv
<1>1. ASSUME NEW w \in Workers, Scheduler(w) \/ User(w) \/ SpuriousWakeup(w)
      PROVE  AllHeld'
  <2>1. ~Exiting /\ AllHeld
    BY <1>1, ExitIsFinal DEF TokenInv
  <2>2. CASE Quiet(w)
    <3>1. LifelinesKept
      <4>1. CASE ShareSignal(w)
        <5>1. /\ pc[w] = "signal" /\ pc'[w] = "share"
              /\ \A v \in Workers \ {w} :
                    pc'[v] = pc[v] \/ (pc[v] = "asleep" /\ pc'[v] = "woken")
          BY <4>1, SignalMoves DEF ShareSignal, Inv, Labels
        <5>2. /\ work_sharing_requests'[w] = Tail(work_sharing_requests[w])
              /\ \A v \in Workers \ {w} :
                    work_sharing_requests'[v] = work_sharing_requests[v]
          BY <4>1 DEF ShareSignal, DEQUEUE_WORK_SHARING_REQUEST, Inv, LifelineOK
        <5> QED BY <5>1, <5>2 DEF LifelinesKept, Lifelines
      <4>2. CASE ~ShareSignal(w)
        BY <2>2, <4>2, QuietMoves, KeepLifelines
      <4> QED BY <4>1, <4>2
    <3> QED BY <2>1, <2>2, <3>1, QuietKeeps, SameHolders
  <2>3. CASE Sends(w)
    <3>1. LifelinesKept
      BY <2>3, SendsMoves, KeepLifelines DEF lifeline
    <3> QED BY <2>1, <2>3, <3>1, SendsMoves, TrySendHolds, SameHolders DEF Inv
  <2>4. CASE RecvOwn(w) \/ RecvBehalf(w)
    BY <2>1, <2>4, RecvHolds
  <2>5. CASE RecvFailed(w) \/ ShareSend(w) \/ RecvTask(w)
    BY <2>1, <2>5, RecvFailedHolds, ShareSendHolds, RecvTaskHolds
  <2>6. CASE NotifyExit(w)
    BY <2>1, <2>6 DEF NotifyExit, Exiting
  <2> QED BY <1>1, <2>2, <2>3, <2>4, <2>5, <2>6, StepKinds
<1>2. CASE UNCHANGED vars
  <2>1. ~Exiting /\ LifelinesKept /\ UNCHANGED <<chan_requests, channel_stack, chan_tasks>>
    BY <1>2 DEF vars, protocol, work, lifeline, Exiting, LifelinesKept, Lifelines
  <2> QED BY <2>1, SameHolders DEF TokenInv
<1> QED BY <1>1, <1>2 DEF Next, Terminated

\* The right to send tasks to a channel has one holder, until shutdown.
THEOREM TokenInvHolds == Spec => []TokenInv
<1>1. Init => TokenInv
  BY InitToken
<1>2. Inv /\ TokenInv /\ [Next]_vars => TokenInv'
  BY NextToken
<1> QED BY <1>1, <1>2, InvHolds, PTL DEF Spec

LEMMA TokenForm ==
    ASSUME NEW w, NEW c, NEW x
    PROVE  x \in Tokens(w, c) <=>
            \/ \E i \in 1 .. Len(channel_stack[w]) :
                    channel_stack[w][i] = c /\ x = <<"free", w, i>>
            \/ Loaded(w, c) /\ x = <<"tasks", w, 1>>
            \/ \E v \in Workers :
                \/ \E i \in 1 .. Len(chan_requests[v]) :
                        Mine(chan_requests[v][i], w, c) /\ x = <<"request", v, i>>
                \/ \E i \in 1 .. Len(Lifelines(v)) :
                        Mine(Lifelines(v)[i], w, c) /\ x = <<"lifeline", v, i>>
BY DEF Tokens, Indices, Mine, Loaded

LEMMA OneHolderOneToken ==
    ASSUME NEW w \in Workers, NEW c \in Chans, OneHolder(w, c)
    PROVE  Cardinality(Tokens(w, c)) = 1
<1>1. PICK x : x \in Tokens(w, c)
  <2>1. CASE Free(w, c)
    <3>1. PICK i \in 1 .. Len(channel_stack[w]) : channel_stack[w][i] = c
      BY <2>1 DEF Free
    <3> QED BY <3>1, TokenForm
  <2>2. CASE Loaded(w, c)
    BY <2>2, TokenForm
  <2>3. CASE \E v \in Workers : Underway(v, w, c)
    <3>1. PICK v \in Workers : Underway(v, w, c)
      BY <2>3
    <3>2. PICK i \in 1 .. Len(chan_requests[v]) : Mine(chan_requests[v][i], w, c)
      BY <3>1 DEF Underway, In
    <3>3. <<"request", v, i>> \in Tokens(w, c)
      BY <3>2, TokenForm
    <3> QED BY <3>3
  <2>4. CASE \E v \in Workers : Kept(v, w, c)
    <3>1. PICK v \in Workers : Kept(v, w, c)
      BY <2>4
    <3>2. PICK i \in 1 .. Len(Lifelines(v)) : Mine(Lifelines(v)[i], w, c)
      BY <3>1 DEF Kept, In
    <3>3. <<"lifeline", v, i>> \in Tokens(w, c)
      BY <3>2, TokenForm
    <3> QED BY <3>3
  <2> QED BY <2>1, <2>2, <2>3, <2>4 DEF OneHolder
<1>2. ASSUME NEW y \in Tokens(w, c)
      PROVE  y = x
  <2>1. CASE \E i \in 1 .. Len(channel_stack[w]) :
                    channel_stack[w][i] = c /\ x = <<"free", w, i>>
    <3>1. Free(w, c)
      BY <2>1 DEF Free
    <3>2. \E i \in 1 .. Len(channel_stack[w]) :
                    channel_stack[w][i] = c /\ y = <<"free", w, i>>
      BY <1>2, <3>1, TokenForm DEF OneHolder, Underway, Kept, In
    <3> QED BY <2>1, <3>2 DEF OneHolder, FreeTwice
  <2>2. CASE Loaded(w, c) /\ x = <<"tasks", w, 1>>
    BY <1>2, <2>2, TokenForm DEF OneHolder, Free, Underway, Kept, In
  <2>3. ASSUME NEW v \in Workers, NEW i \in 1 .. Len(chan_requests[v]),
               Mine(chan_requests[v][i], w, c), x = <<"request", v, i>>
        PROVE  y = x
    <3>1. Underway(v, w, c)
      BY <2>3 DEF Underway, In
    <3>2. PICK u \in Workers : \E j \in 1 .. Len(chan_requests[u]) :
                Mine(chan_requests[u][j], w, c) /\ y = <<"request", u, j>>
      BY <1>2, <3>1, TokenForm DEF OneHolder, Free, Kept, In
    <3>3. u = v
      BY <3>1, <3>2 DEF OneHolder, Underway, In
    <3> QED BY <2>3, <3>2, <3>3 DEF OneHolder, Twice
  <2>4. ASSUME NEW v \in Workers, NEW i \in 1 .. Len(Lifelines(v)),
               Mine(Lifelines(v)[i], w, c), x = <<"lifeline", v, i>>
        PROVE  y = x
    <3>1. Kept(v, w, c)
      BY <2>4 DEF Kept, In
    <3>2. PICK u \in Workers : \E j \in 1 .. Len(Lifelines(u)) :
                Mine(Lifelines(u)[j], w, c) /\ y = <<"lifeline", u, j>>
      BY <1>2, <3>1, TokenForm DEF OneHolder, Free, Underway, In
    <3>3. u = v
      BY <3>1, <3>2 DEF OneHolder, Kept, In
    <3> QED BY <2>4, <3>2, <3>3 DEF OneHolder, Twice
  <2> QED BY <1>1, <2>1, <2>2, <2>3, <2>4, TokenForm
<1>3. Tokens(w, c) = {x}
  BY <1>1, <1>2
<1> QED BY <1>3, FS_Singleton

\* A task channel is free, or requested once, or holds one answer: whoever sends
\* tasks finds it empty and has no rival, although nobody checks the result of
\* channel_send.
THEOREM TokensUnique == Spec => []OneTokenPerChannel
<1>1. TokenInv => OneTokenPerChannel
  BY OneHolderOneToken DEF TokenInv, AllHeld, OneTokenPerChannel
<1> QED BY <1>1, TokenInvHolds, PTL

-----------------------------------------------------------------------------
(* The counters of steal requests *)

\* A stack without duplicates has no more elements than there are channels to
\* choose from.
LEMMA FreeChannels ==
    ASSUME ProtocolOK, NEW w \in Workers, \A d \in Chans : ~FreeTwice(w, d),
           NEW a \in Chans, ~Free(w, a)
    PROVE  /\ Len(channel_stack[w]) <= MAXSTEAL - 1
           /\ \A b \in Chans \ {a} :
                ~Free(w, b) => Len(channel_stack[w]) <= MAXSTEAL - 2
<1> DEFINE s == channel_stack[w]
<1>1. s \in [1 .. Len(s) -> Chans] /\ Len(s) \in Nat
  BY LenProperties DEF ProtocolOK
<1>2. IsFiniteSet(1 .. Len(s)) /\ Cardinality(1 .. Len(s)) = Len(s)
  <2> HIDE DEF s
  <2>1. \A n \in Nat : IsFiniteSet(1 .. n) /\ Cardinality(1 .. n) = n
    BY FS_Interval
  <2> QED BY <1>1, <2>1
<1>3. IsFiniteSet(Chans) /\ Cardinality(Chans) = MAXSTEAL /\ MAXSTEAL \in Nat
  BY FS_Interval, RuntimeAssumption DEF Chans
<1>4. \A i, j \in 1 .. Len(s) : s[i] = s[j] => i = j
  BY <1>1 DEF FreeTwice
<1>5. \A d \in Chans : ~Free(w, d) => \A i \in 1 .. Len(s) : s[i] # d
  BY DEF Free
<1> HIDE DEF s
<1>6. ASSUME NEW T \in SUBSET Chans, \A i \in 1 .. Len(s) : s[i] \in T
      PROVE  Len(s) <= Cardinality(T) /\ Cardinality(T) \in Nat /\ IsFiniteSet(T)
  <2>1. IsFiniteSet(T) /\ Cardinality(T) \in Nat
    BY <1>3, FS_Subset, FS_CardinalityType
  <2>2. s \in [1 .. Len(s) -> T]
    BY <1>1, <1>6
  <2>3. ~(Cardinality(T) < Len(s))
    BY <1>2, <1>4, <2>1, <2>2, FS_PigeonHole
  <2> QED BY <1>1, <2>1, <2>3
<1>7. Len(s) <= MAXSTEAL - 1
  <2>1. Cardinality(Chans \ {a}) = MAXSTEAL - 1
    BY <1>3, FS_RemoveElement
  <2>2. \A i \in 1 .. Len(s) : s[i] \in Chans \ {a}
    BY <1>1, <1>5
  <2> QED BY <1>6, <2>1, <2>2
<1>8. ASSUME NEW b \in Chans \ {a}, ~Free(w, b)
      PROVE  Len(s) <= MAXSTEAL - 2
  <2>1. Cardinality(Chans \ {a}) = MAXSTEAL - 1 /\ IsFiniteSet(Chans \ {a})
    BY <1>3, FS_RemoveElement
  <2>2. Cardinality((Chans \ {a}) \ {b}) = (MAXSTEAL - 1) - 1
    BY <2>1, FS_RemoveElement
  <2>3. \A i \in 1 .. Len(s) : s[i] \in (Chans \ {a}) \ {b}
    BY <1>1, <1>5, <1>8
  <2>4. (Chans \ {a}) \ {b} \in SUBSET Chans
    OBVIOUS
  <2>5. Len(s) <= Cardinality((Chans \ {a}) \ {b})
    BY <1>6, <2>3, <2>4
  <2> QED BY <1>1, <1>3, <2>2, <2>5
<1> QED BY <1>7, <1>8 DEF s

\* requested counts the channels that are not free and the dropped requests; a
\* worker that has backed off has dropped all its requests but one, which
\* travels as its lifeline until it is answered.
Account(w) ==
    /\ requested[w] = MAXSTEAL - Len(channel_stack[w]) + dropped[w]
    /\ requested[w] <= MAXSTEAL
    /\ Len(channel_stack[w]) <= MAXSTEAL
    /\ waiting[w] => /\ Len(channel_stack[w]) = MAXSTEAL - 1
                     /\ dropped[w] = MAXSTEAL - 1
    /\ waiting[w] /\ pc[w] \notin Waiting => \E c \in Chans : Loaded(w, c)

AllAccounts == \A w \in Workers : Account(w)

AccountInv == ~Exiting => AllAccounts

\* The counters stay, tasks are not withdrawn, and whoever leaves WAIT has
\* some.
LEMMA SameAccount ==
    ASSUME NEW v \in Workers, Account(v),
           requested'[v] = requested[v], dropped'[v] = dropped[v],
           waiting'[v] = waiting[v], channel_stack'[v] = channel_stack[v],
           \A c \in Chans : Loaded(v, c) => Loaded(v, c)',
           \/ pc[v] \in Waiting => pc'[v] \in Waiting
           \/ \E c \in Chans : Loaded(v, c)'
    PROVE  Account(v)'
BY DEF Account

\* A worker that handles its own request is not one that has backed off.
LEMMA OwnRequestNotWaiting ==
    ASSUME ProtocolOK, AllHeld, NEW w \in Workers, Account(w), pc[w] \notin Waiting,
           NEW r, NEW q, Taken(r, q), r.id = w
    PROVE  ~waiting[w] /\ Len(channel_stack[w]) <= MAXSTEAL - 1
<1>1. /\ r.chan \in Chans /\ ~Free(w, r.chan) /\ ~Loaded(w, r.chan)
      /\ \A d \in Chans : ~FreeTwice(w, d)
  BY TakenHolds DEF AllHeld, OneHolder
<1>2. Len(channel_stack[w]) <= MAXSTEAL - 1
  BY <1>1, FreeChannels
<1>3. ASSUME waiting[w] PROVE FALSE
  <2>1. PICK c \in Chans : Loaded(w, c)
    BY <1>3 DEF Account
  <2>2. ~Free(w, c) /\ c # r.chan
    BY <1>1, <2>1 DEF AllHeld, OneHolder
  <2>3. Len(channel_stack[w]) <= MAXSTEAL - 2
    BY <1>1, <2>2, FreeChannels
  <2>4. Len(channel_stack[w]) = MAXSTEAL - 1
    BY <1>3 DEF Account
  <2> QED BY <2>3, <2>4, RuntimeAssumption
<1> QED BY <1>2, <1>3

LEMMA RecvAccount ==
    ASSUME Inv, AllHeld, AllAccounts, NEW w \in Workers, RecvOwn(w) \/ RecvBehalf(w)
    PROVE  AllAccounts'
<1> SUFFICES ASSUME NEW v \in Workers PROVE Account(v)'
  BY DEF AllAccounts
<1>1. /\ pc[w] \notin Waiting
      /\ \A u \in Workers \ {w} : pc'[u] = pc[u]
      /\ Account(v) /\ Account(w)
  BY RecvTakes DEF Inv, ControlOK, Waiting, AllAccounts
<1>2. CASE UNCHANGED <<protocol, work, pc>>
  BY <1>1, <1>2, SameAccount DEF protocol, work, Loaded
<1>3. ASSUME NEW r \in Request, NEW q, Taken(r, q), Dispatch(w, r, q)
      PROVE  Account(v)'
  <2>1. Outcome(w, r, q)
    BY <1>3, DispatchOutcome DEF Inv
  <2>2. /\ requested \in [Workers -> Int] /\ dropped \in [Workers -> Nat]
        /\ channel_stack \in [Workers -> Seq(Chans)] /\ waiting \in [Workers -> BOOLEAN]
        /\ Len(channel_stack[w]) \in Nat /\ MAXSTEAL \in Nat \ {0}
    BY RuntimeAssumption, LenProperties DEF Inv, ProtocolOK
  <2>3. CASE Returned(w, r, q) /\ Counted(w)
    <3>1. r.chan \in Chans /\ ChannelPush(w, r.chan) /\ r.id = w /\ UNCHANGED chan_tasks
      BY <1>3, <2>3 DEF Returned, Request
    <3>2. ~waiting[w] /\ Len(channel_stack[w]) <= MAXSTEAL - 1
      BY <1>1, <1>3, <3>1, OwnRequestNotWaiting DEF Inv
    <3>3. Len(channel_stack'[w]) = Len(channel_stack[w]) + 1
          /\ (v # w => channel_stack'[v] = channel_stack[v])
      BY <2>2, <3>1, PushHolds DEF ChannelPush, Inv
    <3>4. CASE v # w
      BY <1>1, <2>2, <2>3, <3>1, <3>3, <3>4, SameAccount DEF Counted, Loaded
    <3>5. CASE v = w
      <4>1. /\ waiting'[w] = waiting[w]
            /\ \/ requested'[w] = requested[w] - 1 /\ dropped'[w] = dropped[w]
               \/ requested'[w] = requested[w] /\ dropped'[w] = dropped[w] + 1
        BY <2>2, <2>3 DEF Counted
      <4>2. requested[w] \in Int /\ dropped[w] \in Nat
        BY <2>2
      <4>3. ~waiting'[w]
        BY <3>2, <4>1, Zenon
      <4>4. /\ requested[w] = MAXSTEAL - Len(channel_stack[w]) + dropped[w]
            /\ requested[w] <= MAXSTEAL
        BY <1>1 DEF Account
      <4>5. /\ requested'[w] = MAXSTEAL - Len(channel_stack'[w]) + dropped'[w]
            /\ requested'[w] <= MAXSTEAL
            /\ Len(channel_stack'[w]) <= MAXSTEAL
        BY <2>2, <3>2, <3>3, <4>1, <4>2, <4>4
      <4> QED BY <3>5, <4>3, <4>5 DEF Account
    <3> QED BY <3>4, <3>5
  <2>4. CASE Forwarded(r, q) /\ UNCHANGED <<requested, dropped, waiting>>
    BY <1>1, <2>4, SameAccount DEF Forwarded, Loaded
  <2>5. CASE Forwarded(r, q) /\ UNCHANGED <<requested, dropped>> /\ Withdraws(w, r)
    <3>1. CASE v # w
      BY <1>1, <2>2, <2>5, <3>1, SameAccount DEF Forwarded, Withdraws, Loaded
    <3>2. CASE v = w
      <4>1. Len(channel_stack[w]) <= MAXSTEAL - 1
        BY <1>1, <1>3, <2>5, OwnRequestNotWaiting DEF Inv, Withdraws
      <4>2. /\ Len(channel_stack[w]) = MAXSTEAL - 1 /\ dropped[w] = MAXSTEAL - 1
        BY <1>1, <2>2, <2>5, <4>1 DEF Withdraws, LastRequest, Account
      <4>3. pc'[w] \in Waiting
        BY <2>5 DEF Withdraws, Goto, Inv, ControlOK, Waiting
      <4>4. UNCHANGED channel_stack
        BY <2>5 DEF Forwarded
      <4> QED BY <1>1, <2>5, <3>2, <4>2, <4>3, <4>4 DEF Account
    <3> QED BY <3>1, <3>2
  <2>6. CASE Used(r, q) /\ UNCHANGED <<requested, dropped, waiting>>
    <3>1. PICK list : list # <<>> /\ SendTasks(r, list)
      BY <2>6 DEF Used
    <3>2. \A c \in Chans : Loaded(v, c) => Loaded(v, c)'
      BY <3>1, SendTasksHolds DEF Inv, Request
    <3> QED BY <1>1, <2>6, <3>2, SameAccount DEF Used
  <2> QED BY <2>1, <2>3, <2>4, <2>5, <2>6 DEF Outcome
<1> QED BY <1>2, <1>3, RecvTakes

LEMMA Sums ==
    /\ \A m, l, d \in Nat : \A r \in Int :
        r = m - l + d /\ r < m /\ l <= m =>
            /\ r + 1 = m - (l - 1) + d
            /\ r + 1 <= m
            /\ l - 1 <= m
    /\ \A m, l \in Nat :
        l < m => /\ m - (l + 1) = m - (l + 1) + 0
                 /\ m - (l + 1) <= m
                 /\ l + 1 <= m
OBVIOUS

\* A new request takes a free channel; a worker that has backed off sends none.
LEMMA SendsAccount ==
    ASSUME Inv, AllAccounts, NEW w \in Workers, Sends(w)
    PROVE  AllAccounts'
<1> SUFFICES ASSUME NEW v \in Workers PROVE Account(v)'
  BY DEF AllAccounts
<1>1. /\ MovesAlone(w) /\ UNCHANGED <<chan_tasks, dropped, waiting>>
      /\ Account(v) /\ pc[w] \notin Waiting
  BY SendsMoves DEF AllAccounts, Sends, RT_pop, BeginSteal, RecvNoTask, Resend,
     ForceNotReady, Waiting
<1>2. (pc[v] \in Waiting => pc'[v] \in Waiting)
      /\ \A c \in Chans : Loaded(v, c) => Loaded(v, c)'
  BY <1>1 DEF MovesAlone, Waiting, Loaded
<1>3. CASE UNCHANGED <<requested, channel_stack>>
  BY <1>1, <1>2, <1>3, SameAccount
<1>4. CASE /\ requested[w] < MAXSTEAL /\ ChannelPop(w)
           /\ requested' = [requested EXCEPT ![w] = @ + 1]
  <2>1. /\ requested[w] \in Int /\ dropped[w] \in Nat /\ Len(channel_stack[w]) \in Nat
        /\ MAXSTEAL \in Nat
    BY RuntimeAssumption, LenProperties DEF Inv, ProtocolOK
  <2>2. CASE v # w
    <3>1. channel_stack'[v] = channel_stack[v] /\ requested'[v] = requested[v]
      BY <1>4, <2>2 DEF ChannelPop, Inv, ProtocolOK
    <3> QED BY <1>1, <1>2, <3>1, SameAccount
  <2>3. CASE v = w
    <3>1. 1 \in Chans
      BY RuntimeAssumption DEF Chans
    <3>2. Len(channel_stack'[w]) = Len(channel_stack[w]) - 1
      BY <1>4, <3>1, PopHolds DEF Inv
    <3>3. requested'[w] = requested[w] + 1 /\ dropped'[w] = dropped[w]
      BY <1>1, <1>4 DEF Inv, ProtocolOK
    <3>4. /\ requested[w] = MAXSTEAL - Len(channel_stack[w]) + dropped[w]
          /\ Len(channel_stack[w]) <= MAXSTEAL
          /\ waiting[w] => dropped[w] = MAXSTEAL - 1 /\ Len(channel_stack[w]) = MAXSTEAL - 1
      BY <1>1, <2>3 DEF Account
    <3>5. ~waiting[w]
      BY <1>4, <2>1, <3>4
    <3>6. ~waiting'[w]
      BY <1>1, <3>5, Zenon
    <3>7. /\ requested'[w] = MAXSTEAL - Len(channel_stack'[w]) + dropped'[w]
          /\ requested'[w] <= MAXSTEAL
          /\ Len(channel_stack'[w]) <= MAXSTEAL
      <4>1. requested[w] < MAXSTEAL
        BY <1>4
      <4>2. requested[w] = MAXSTEAL - Len(channel_stack[w]) + dropped[w]
            /\ Len(channel_stack[w]) <= MAXSTEAL
        BY <3>4
      <4>3. /\ requested[w] + 1 = MAXSTEAL - (Len(channel_stack[w]) - 1) + dropped[w]
            /\ requested[w] + 1 <= MAXSTEAL
            /\ Len(channel_stack[w]) - 1 <= MAXSTEAL
        BY <2>1, <4>1, <4>2, Sums
      <4> QED BY <3>2, <3>3, <4>3
    <3> QED BY <2>3, <3>6, <3>7 DEF Account
  <2> QED BY <2>2, <2>3
<1> QED BY <1>3, <1>4, SendsMoves DEF try_send_steal_request

\* An answer settles one request, and with it all those that were dropped.
LEMMA RecvTaskAccount ==
    ASSUME Inv, AllAccounts, NEW w \in Workers, RecvTask(w)
    PROVE  AllAccounts'
<1> SUFFICES ASSUME NEW v \in Workers PROVE Account(v)'
  BY DEF AllAccounts
<1>1. PICK c \in Chans : /\ chan_tasks' = [chan_tasks EXCEPT ![w][c] = <<>>]
                         /\ ChannelPush(w, c)
  BY DEF RecvTask
<1>2. /\ requested' = [requested EXCEPT ![w] = StillRequested(w)]
      /\ waiting' = [waiting EXCEPT ![w] = FALSE]
      /\ dropped' = [dropped EXCEPT ![w] = 0]
      /\ pc' = [pc EXCEPT ![w] = "share"]
  BY DEF RecvTask, Goto
<1>3. /\ requested \in [Workers -> Int] /\ dropped \in [Workers -> Nat]
      /\ channel_stack \in [Workers -> Seq(Chans)] /\ waiting \in [Workers -> BOOLEAN]
      /\ chan_tasks \in [Workers -> [Chans -> Seq(TaskIds) \cup {<<ExitFn>>}]]
      /\ pc \in [Workers -> Labels]
  BY DEF Inv, ProtocolOK, WorkOK, ControlOK
<1>4. Account(v)
  BY DEF AllAccounts
<1>5. CASE v # w
  BY <1>1, <1>2, <1>3, <1>4, <1>5, SameAccount DEF ChannelPush, Loaded
<1>6. CASE v = w
  <2>1. /\ requested[w] \in Int /\ dropped[w] \in Nat /\ Len(channel_stack[w]) \in Nat
        /\ MAXSTEAL \in Nat
    BY <1>3, RuntimeAssumption, LenProperties
  <2>2. /\ Len(channel_stack'[w]) = Len(channel_stack[w]) + 1
        /\ Len(channel_stack[w]) < MAXSTEAL
    BY <1>1, PushHolds DEF ChannelPush, Inv
  <2>3. /\ requested'[w] = StillRequested(w) /\ dropped'[w] = 0 /\ ~waiting'[w]
    BY <1>2, <1>3
  <2>4. /\ requested[w] = MAXSTEAL - Len(channel_stack[w]) + dropped[w]
        /\ waiting[w] => Len(channel_stack[w]) = MAXSTEAL - 1
    BY <1>4, <1>6 DEF Account
  <2>5. StillRequested(w) = MAXSTEAL - (Len(channel_stack[w]) + 1)
    <3>1. CASE waiting[w]
      <4>1. StillRequested(w) = 1 - 1
        BY <3>1 DEF StillRequested
      <4> QED BY <2>1, <2>4, <3>1, <4>1
    <3>2. CASE ~waiting[w]
      <4>1. StillRequested(w) = requested[w] - dropped[w] - 1
        BY <3>2 DEF StillRequested
      <4> QED BY <2>1, <2>4, <4>1
    <3> QED BY <3>1, <3>2
  <2>6. /\ requested'[w] = MAXSTEAL - Len(channel_stack'[w]) + dropped'[w]
        /\ requested'[w] <= MAXSTEAL
        /\ Len(channel_stack'[w]) <= MAXSTEAL
    <3>1. /\ requested'[w] = MAXSTEAL - (Len(channel_stack[w]) + 1)
          /\ dropped'[w] = 0
      BY <2>3, <2>5
    <3>2. /\ MAXSTEAL - (Len(channel_stack[w]) + 1) = MAXSTEAL - (Len(channel_stack[w]) + 1) + 0
          /\ MAXSTEAL - (Len(channel_stack[w]) + 1) <= MAXSTEAL
          /\ Len(channel_stack[w]) + 1 <= MAXSTEAL
      BY <2>1, <2>2, Sums
    <3> QED BY <2>2, <3>1, <3>2
  <2> QED BY <1>6, <2>3, <2>6 DEF Account
<1> QED BY <1>5, <1>6

\* Nobody leaves WAIT without tasks.
LEMMA QuietAccount ==
    ASSUME Inv, AllAccounts, NEW w \in Workers, Quiet(w)
    PROVE  AllAccounts'
<1> SUFFICES ASSUME NEW v \in Workers PROVE Account(v)'
  BY DEF AllAccounts
<1>1. /\ UNCHANGED <<requested, channel_stack, dropped, waiting, chan_tasks>>
      /\ MovesAlone(w) /\ Account(v)
  BY QuietKeeps, QuietMoves DEF AllAccounts
<1>2. \A c \in Chans : Loaded(v, c) <=> Loaded(v, c)'
  BY <1>1 DEF Loaded
<1>3. CASE v # w \/ pc[w] \notin Waiting
  <2>1. pc[v] \in Waiting => pc'[v] \in Waiting
    BY <1>1, <1>3 DEF MovesAlone, Waiting
  <2> QED BY <1>1, <1>2, <2>1, SameAccount
<1>4. CASE v = w /\ pc[w] \in Waiting
  <2>1. WaitPeek(w) \/ Sleep(w) \/ SpuriousWakeup(w) \/ Wake(w)
    <3>1. pc[w] \notin {"serve", "behalf", "signal", "share", "ready", "leave", "exit",
                        "exitsignal", "body"}
      BY <1>4 DEF Waiting
    <3> QED BY <3>1 DEF Quiet, StartBehalf, ShareSignal, ShareDone, ShareDoneRun,
            RunPopped, PopFailed, ReturnToBody, NothingToRelay, NoRequest, ForceReady,
            BarrierReturn, ShareDoneExit, SignalExit, ExitDone, User, RT_push,
            RT_force_future, RT_poll, EndIteration, TaskReturn, RT_barrier
  <2>2. pc'[w] \in Waiting \/ \E c \in Chans : Loaded(w, c)
    BY <2>1 DEF WaitPeek, Sleep, SpuriousWakeup, Wake, Goto, Inv, ControlOK, Waiting, Loaded
  <2> QED BY <1>1, <1>2, <1>4, <2>2, SameAccount
<1> QED BY <1>3, <1>4

\* Tasks are sent, or a lifeline is taken.
LEMMA ShareAccount ==
    ASSUME Inv, AllAccounts, NEW w \in Workers, ShareSend(w) \/ RecvFailed(w)
    PROVE  AllAccounts'
<1> SUFFICES ASSUME NEW v \in Workers PROVE Account(v)'
  BY DEF AllAccounts
<1>1. /\ UNCHANGED <<requested, channel_stack, dropped, waiting>>
      /\ pc[v] \in Waiting => pc'[v] \in Waiting
      /\ Account(v)
  BY DEF ShareSend, RecvFailed, protocol, Goto, Inv, ControlOK, AllAccounts, Waiting
<1>2. CASE RecvFailed(w)
  BY <1>1, <1>2, SameAccount DEF RecvFailed, work, Loaded
<1>3. CASE ShareSend(w)
  <2> DEFINE r == Head(work_sharing_requests[w])
  <2>1. work_sharing_requests[w] \in Seq(Request) /\ work_sharing_requests[w] # <<>>
    BY <1>3 DEF ShareSend, CanShare, Inv, LifelineOK
  <2>2. r \in Request
    BY <2>1, HeadTailProperties
  <2>3. PICK list : list # <<>> /\ SendTasks(r, list)
    BY <1>3, SendLootUsed, SplitUsed DEF ShareSend, Inv
  <2>4. \A c \in Chans : Loaded(v, c) => Loaded(v, c)'
    BY <2>2, <2>3, SendTasksHolds DEF Inv, Request
  <2> QED BY <1>1, <2>4, SameAccount
<1> QED BY <1>2, <1>3

LEMMA InitAccount == Init => AccountInv
<1> SUFFICES ASSUME Init, NEW w \in Workers PROVE Account(w)
  BY DEF AccountInv, AllAccounts
<1>1. Len(channel_stack[w]) = MAXSTEAL /\ MAXSTEAL \in Nat
  BY RuntimeAssumption DEF Init, Chans
<1> QED BY <1>1 DEF Init, Account

LEMMA NextAccount == Inv /\ TokenInv /\ AccountInv /\ [Next]_vars => AccountInv'
<1> SUFFICES ASSUME Inv, TokenInv, AccountInv, [Next]_vars, ~Exiting'
             PROVE  AllAccounts'
  BY DEF AccountInv
<1>1. ASSUME NEW w \in Workers, Scheduler(w) \/ User(w) \/ SpuriousWakeup(w)
      PROVE  AllAccounts'
  <2>1. ~Exiting /\ AllHeld /\ AllAccounts
    BY <1>1, ExitIsFinal DEF TokenInv, AccountInv
  <2>2. ~NotifyExit(w)
    BY <2>1 DEF NotifyExit, Exiting
  <2> QED BY <1>1, <2>1, <2>2, StepKinds, QuietAccount, SendsAccount, RecvAccount,
          ShareAccount, RecvTaskAccount
<1>2. CASE UNCHANGED vars
  BY <1>2 DEF vars, protocol, work, AccountInv, AllAccounts, Account, Loaded, Exiting
<1> QED BY <1>1, <1>2 DEF Next, Terminated

\* Until shutdown, requested counts the channels of a worker that are not free
\* and its dropped requests, and a worker that waits has one request left.
THEOREM AccountInvHolds == Spec => []AccountInv
<1>1. Init => AccountInv
  BY InitAccount
<1>2. Inv /\ TokenInv /\ AccountInv /\ [Next]_vars => AccountInv'
  BY NextAccount
<1> QED BY <1>1, <1>2, InvHolds, TokenInvHolds, PTL DEF Spec

\* requested is the number of requests under way, answers not yet received and
\* requests dropped, never negative and never more than MAXSTEAL; so the
\* assertions on requested, channel_stack->top and dropped_steal_requests hold.
THEOREM CountersRight == Spec => []RequestsAccounted
<1>1. Inv /\ AccountInv => RequestsAccounted
  <2> SUFFICES ASSUME Inv, AccountInv, ~Exiting, NEW w \in Workers
               PROVE  /\ requested[w] = MAXSTEAL - Len(channel_stack[w]) + dropped[w]
                      /\ requested[w] \in 0 .. MAXSTEAL
                      /\ waiting[w] => dropped[w] = MAXSTEAL - 1
    BY DEF RequestsAccounted
  <2>1. Account(w)
    BY DEF AccountInv, AllAccounts
  <2>2. /\ requested[w] \in Int /\ dropped[w] \in Nat /\ Len(channel_stack[w]) \in Nat
        /\ MAXSTEAL \in Nat
    BY RuntimeAssumption, LenProperties DEF Inv, ProtocolOK
  <2> QED BY <2>1, <2>2 DEF Account
<1> QED BY <1>1, InvHolds, AccountInvHolds, PTL

-----------------------------------------------------------------------------
(***************************************************************************)
(* Tasks: one that has not been run is in exactly one deque, task channel  *)
(* or pair of hands, and one that is being run is on a stack.              *)
(***************************************************************************)

-----------------------------------------------------------------------------
(* Tasks in a sequence of tasks *)

Has(s, t) == \E i \in 1 .. Len(s) : s[i] = t

Repeats(s, t) == \E i, j \in 1 .. Len(s) : i # j /\ s[i] = t /\ s[j] = t

LEMMA EmptyHas ==
    ASSUME NEW t
    PROVE  ~Has(<<>>, t) /\ ~Repeats(<<>>, t)
BY DEF Has, Repeats

LEMMA SingleHas ==
    ASSUME NEW x, NEW t
    PROVE  (Has(<<x>>, t) <=> x = t) /\ ~Repeats(<<x>>, t)
BY DEF Has, Repeats

\* What two lists have in common occurs twice in their concatenation.
LEMMA ConcatHas ==
    ASSUME NEW S, NEW a \in Seq(S), NEW b \in Seq(S), NEW t
    PROVE  /\ Has(a \o b, t) <=> Has(a, t) \/ Has(b, t)
           /\ Repeats(a \o b, t) <=>
                Repeats(a, t) \/ Repeats(b, t) \/ (Has(a, t) /\ Has(b, t))
<1> DEFINE m == Len(a)
           n == Len(b)
           s == a \o b
<1>1. /\ m \in Nat /\ n \in Nat /\ Len(s) = m + n
      /\ \A i \in 1 .. m + n : s[i] = IF i <= m THEN a[i] ELSE b[i - m]
  BY LenProperties, ConcatProperties
<1> HIDE DEF m, n, s
<1>2. /\ \A i \in 1 .. m : i \in 1 .. m + n /\ s[i] = a[i]
      /\ \A i \in 1 .. n : i + m \in 1 .. m + n /\ i + m \notin 1 .. m /\ s[i + m] = b[i]
  <2>1. \A i \in 1 .. m : i \in 1 .. m + n /\ i <= m
    BY <1>1
  <2>2. \A i \in 1 .. n : i + m \in 1 .. m + n /\ ~(i + m <= m) /\ (i + m) - m = i
    BY <1>1
  <2> QED BY <1>1, <2>1, <2>2
<1>3. \A i \in 1 .. m + n : \/ i \in 1 .. m /\ s[i] = a[i]
                            \/ i - m \in 1 .. n /\ s[i] = b[i - m]
  <2>1. \A i \in 1 .. m + n : (i <= m /\ i \in 1 .. m) \/ (~(i <= m) /\ i - m \in 1 .. n)
    BY <1>1
  <2> QED BY <1>1, <2>1
<1>4. Has(s, t) <=> Has(a, t) \/ Has(b, t)
  <2>1. ASSUME Has(s, t) PROVE Has(a, t) \/ Has(b, t)
    BY <1>1, <1>3, <2>1 DEF Has, m, n
  <2>2. ASSUME Has(a, t) \/ Has(b, t) PROVE Has(s, t)
    BY <1>1, <1>2, <2>2 DEF Has, m, n
  <2> QED BY <2>1, <2>2
<1>5. ASSUME Repeats(s, t)
      PROVE  Repeats(a, t) \/ Repeats(b, t) \/ (Has(a, t) /\ Has(b, t))
  <2>1. PICK i \in 1 .. m + n, j \in 1 .. m + n : i # j /\ s[i] = t /\ s[j] = t
    BY <1>1, <1>5 DEF Repeats
  <2>2. i - m # j - m
    BY <1>1, <2>1
  <2>3. CASE i \in 1 .. m /\ s[i] = a[i] /\ j \in 1 .. m /\ s[j] = a[j]
    BY <2>1, <2>3 DEF Repeats, m
  <2>4. CASE i - m \in 1 .. n /\ s[i] = b[i - m] /\ j - m \in 1 .. n /\ s[j] = b[j - m]
    BY <2>1, <2>2, <2>4 DEF Repeats, n
  <2>5. CASE i \in 1 .. m /\ s[i] = a[i] /\ j - m \in 1 .. n /\ s[j] = b[j - m]
    BY <2>1, <2>5 DEF Has, m, n
  <2>6. CASE j \in 1 .. m /\ s[j] = a[j] /\ i - m \in 1 .. n /\ s[i] = b[i - m]
    BY <2>1, <2>6 DEF Has, m, n
  <2> QED BY <1>3, <2>1, <2>3, <2>4, <2>5, <2>6
<1>6. ASSUME Repeats(a, t) PROVE Repeats(s, t)
  BY <1>1, <1>2, <1>6 DEF Repeats, m
<1>7. ASSUME Repeats(b, t) PROVE Repeats(s, t)
  <2>1. PICK i \in 1 .. n, j \in 1 .. n : i # j /\ b[i] = t /\ b[j] = t
    BY <1>7 DEF Repeats, n
  <2>2. i + m # j + m
    BY <1>1, <2>1
  <2> QED BY <1>1, <1>2, <2>1, <2>2 DEF Repeats
<1>8. ASSUME Has(a, t), Has(b, t) PROVE Repeats(s, t)
  <2>1. PICK i \in 1 .. m : a[i] = t
    BY <1>8 DEF Has, m
  <2>2. PICK j \in 1 .. n : b[j] = t
    BY <1>8 DEF Has, n
  <2> QED BY <1>1, <1>2, <2>1, <2>2 DEF Repeats
<1> QED BY <1>4, <1>5, <1>6, <1>7, <1>8 DEF s

\* A list is its head and its tail.
LEMMA HeadHas ==
    ASSUME NEW S, NEW s \in Seq(S), s # <<>>, NEW t
    PROVE  /\ Has(s, t) <=> Head(s) = t \/ Has(Tail(s), t)
           /\ Repeats(s, t) <=> Repeats(Tail(s), t) \/ (Head(s) = t /\ Has(Tail(s), t))
<1>1. /\ Head(s) \in S /\ Tail(s) \in Seq(S) /\ <<Head(s)>> \in Seq(S)
      /\ Len(s) \in Nat \ {0}
  BY HeadTailProperties, EmptySeq
<1>2. s = <<Head(s)>> \o Tail(s)
  <2>1. 1 \in 1 .. Len(s) /\ Len(s) \in 1 .. Len(s) /\ 1 + 1 = 2
    BY <1>1
  <2>2. SubSeq(s, 1, Len(s)) = <<s[1]>> \o SubSeq(s, 1 + 1, Len(s))
    BY <2>1, SubSeqRecursiveFirst
  <2>3. SubSeq(s, 1, Len(s)) = s
    BY SubSeqFull
  <2>4. Tail(s) = SubSeq(s, 2, Len(s))
    BY TailIsSubSeq
  <2>5. Head(s) = s[1]
    OBVIOUS
  <2> QED BY <2>1, <2>2, <2>3, <2>4, <2>5
<1>3. /\ Has(<<Head(s)>> \o Tail(s), t) <=> Has(<<Head(s)>>, t) \/ Has(Tail(s), t)
      /\ Repeats(<<Head(s)>> \o Tail(s), t) <=>
            \/ Repeats(<<Head(s)>>, t) \/ Repeats(Tail(s), t)
            \/ (Has(<<Head(s)>>, t) /\ Has(Tail(s), t))
  BY <1>1, ConcatHas
<1> QED BY <1>2, <1>3, SingleHas

\* deque_steal and deque_steal_half cut a deque in two.
LEMMA SplitHas ==
    ASSUME NEW S, NEW s \in Seq(S), NEW k \in 0 .. Len(s), NEW t
    PROVE  /\ Has(s, t) <=> Has(Rest(s, k), t) \/ Has(Loot(s, k), t)
           /\ Repeats(s, t) <=>
                \/ Repeats(Rest(s, k), t) \/ Repeats(Loot(s, k), t)
                \/ (Has(Rest(s, k), t) /\ Has(Loot(s, k), t))
           /\ Rest(s, k) \in Seq(S) /\ Loot(s, k) \in Seq(S)
<1>1. Len(s) \in Nat
  BY LenProperties
<1>2. Rest(s, k) \o Loot(s, k) = s
  <2>1. 1 \in 1 .. Len(s) + 1 /\ k \in 1 - 1 .. Len(s) /\ Len(s) \in k .. Len(s)
    BY <1>1
  <2>2. SubSeq(s, 1, k) \o SubSeq(s, k + 1, Len(s)) = SubSeq(s, 1, Len(s))
    BY <2>1, ConcatAdjacentSubSeq
  <2> QED BY <2>2, SubSeqFull DEF Rest, Loot
<1>3. Rest(s, k) \in Seq(S) /\ Loot(s, k) \in Seq(S)
  <2>1. \A i \in 1 .. Len(s) : s[i] \in S
    BY ElementOfSeq
  <2>2. (\A i \in 1 .. k : s[i] \in S) /\ (\A i \in k + 1 .. Len(s) : s[i] \in S)
    BY <1>1, <2>1
  <2>3. k \in Int /\ k + 1 \in Int /\ Len(s) \in Int /\ 1 \in Int
    BY <1>1
  <2> QED BY <2>2, <2>3, SubSeqProperties DEF Rest, Loot
<1>4. /\ Has(Rest(s, k) \o Loot(s, k), t) <=> Has(Rest(s, k), t) \/ Has(Loot(s, k), t)
      /\ Repeats(Rest(s, k) \o Loot(s, k), t) <=>
                \/ Repeats(Rest(s, k), t) \/ Repeats(Loot(s, k), t)
                \/ (Has(Rest(s, k), t) /\ Has(Loot(s, k), t))
  BY <1>3, ConcatHas
<1> QED BY <1>2, <1>3, <1>4

-----------------------------------------------------------------------------
(* Where a worker goes on after handling a request *)

Goes(w, next) ==
    \E l : /\ pc' = [pc EXCEPT ![w] = l]
           /\ l \in {next, "waitpeek"} \/ (l = "leave" /\ op[w] = "idle")

LEMMA DeclineGoes ==
    ASSUME NEW w, NEW r, NEW q, NEW next, decline_steal_request(w, r, q, next)
    PROVE  Goes(w, next)
BY DEF decline_steal_request, PassOn, detect_termination, BackOff, Drop,
       Recirculate, FORGET_REQ, Goto, Goes

LEMMA DispatchGoes ==
    ASSUME NEW w, NEW r, NEW q, Dispatch(w, r, q)
    PROVE  Goes(w, IF op[w] = "idle" THEN "recv" ELSE "serve")
<1>1. CASE op[w] = "idle"
  <2>1. PICK s : decline_steal_request(w, s, q, "recv")
    BY <1>1 DEF Dispatch
  <2> QED BY <1>1, <2>1, DeclineGoes
<1>2. CASE op[w] # "idle"
  <2>1. CASE FORGET_REQ(w, r, q, "serve") \/ Answered(w, q, "serve")
    BY <1>2, <2>1 DEF FORGET_REQ, Answered, Goto, Goes
  <2>2. CASE decline_steal_request(w, r, q, "serve")
    BY <1>2, <2>2, DeclineGoes
  <2> QED BY <1>2, <2>1, <2>2 DEF Dispatch, handle, handle_steal_request, SplitOrForget
<1> QED BY <1>1, <1>2

\* ... or after looking in vain into a channel of an idle subtree.
LEMMA RecvGoes ==
    ASSUME Inv, NEW w \in Workers, RecvOwn(w) \/ RecvBehalf(w)
    PROVE  /\ UNCHANGED pc \/ Goes(w, IF op[w] = "idle" THEN "recv" ELSE "serve")
           /\ pc[w] \in {"serve", "behalf"} /\ UNCHANGED <<hand, stack, op, lifeline>>
<1>1. UNCHANGED pc \/ \E r, q : Dispatch(w, r, q)
  BY DEF RecvOwn, RecvBehalf
<1>2. pc[w] \in {"serve", "behalf"} /\ UNCHANGED <<hand, stack, op, lifeline>>
  BY DEF RecvOwn, RecvBehalf, control
<1> QED BY <1>1, <1>2, DispatchGoes

-----------------------------------------------------------------------------
(* Tasks in hand *)

\* A worker holds a task only between RT_pop or RECV_TASK and run_task.
HandUsed(w) ==
    hand[w] # NoTask =>
        \/ op[w] = "pop" /\ pc[w] \in {"share", "signal", "serve", "behalf"} \cup Waiting
        \/ op[w] = "loot" /\ pc[w] \in {"share", "signal"}

HandsInv == \A w \in Workers : HandUsed(w)

\* Only worker w's hand and routine change; it may wake another worker.
LEMMA OthersKeepHands ==
    ASSUME HandsInv, NEW w \in Workers, MovesAlone(w), HandUsed(w)',
           \A v \in Workers \ {w} : hand'[v] = hand[v] /\ op'[v] = op[v]
    PROVE  HandsInv'
<1> SUFFICES ASSUME NEW v \in Workers \ {w} PROVE HandUsed(v)'
  BY DEF HandsInv
<1>1. HandUsed(v) /\ hand'[v] = hand[v] /\ op'[v] = op[v]
      /\ (pc'[v] = pc[v] \/ (pc[v] = "asleep" /\ pc'[v] = "woken"))
  BY DEF HandsInv, MovesAlone
<1> QED BY <1>1 DEF HandUsed, Waiting

LEMMA NextHands ==
    ASSUME Inv, HandsInv, NEW w \in Workers, Scheduler(w) \/ User(w) \/ SpuriousWakeup(w)
    PROVE  HandsInv'
<1>1. HandUsed(w)
  BY DEF HandsInv
<1>2. /\ hand \in [Workers -> TaskIds \cup {NoTask, ExitFn}]
      /\ op \in [Workers -> {"push", "pop", "poll", "idle", "force", "loot"}]
      /\ pc \in [Workers -> Labels]
  BY DEF Inv, RunOK, ControlOK
<1>3. CASE RecvOwn(w) \/ RecvBehalf(w)
  <2>1. /\ UNCHANGED <<hand, op>> /\ pc[w] \in {"serve", "behalf"} /\ MovesAlone(w)
        /\ pc'[w] = pc[w] \/ pc'[w] \in {"serve", "waitpeek"} \/ op[w] = "idle"
    BY <1>2, <1>3, RecvGoes DEF Goes, MovesAlone
  <2>2. HandUsed(w)'
    BY <1>1, <2>1 DEF HandUsed, Waiting
  <2> QED BY <2>1, <2>2, OthersKeepHands
<1>4. CASE Quiet(w)
  <2>1. MovesAlone(w)
    BY <1>4, QuietMoves
  <2>2. CASE ShareSignal(w)
    <3>1. pc[w] = "signal" /\ pc'[w] = "share" /\ UNCHANGED <<hand, op>>
      BY <2>2, SignalMoves DEF ShareSignal, Inv, Labels, control
    <3>2. HandUsed(w)'
      BY <1>1, <3>1 DEF HandUsed
    <3> QED BY <2>1, <3>1, <3>2, OthersKeepHands
  <2>3. CASE SignalExit(w)
    <3>1. pc[w] = "exitsignal" /\ UNCHANGED <<hand, op>>
      BY <2>3 DEF SignalExit
    <3>2. HandUsed(w)'
      BY <1>1, <3>1 DEF HandUsed, Waiting
    <3> QED BY <2>1, <3>1, <3>2, OthersKeepHands
  <2>4. CASE ShareDoneRun(w) \/ RunPopped(w) \/ ShareDoneExit(w)
    <3>1. hand' = [hand EXCEPT ![w] = NoTask] /\ UNCHANGED op
      BY <2>4 DEF ShareDoneRun, RunPopped, ShareDoneExit, Start
    <3>2. HandUsed(w)'
      BY <1>2, <3>1 DEF HandUsed
    <3> QED BY <1>2, <2>1, <3>1, <3>2, OthersKeepHands
  <2>5. CASE StartBehalf(w) \/ ShareDone(w) \/ PopFailed(w) \/ ReturnToBody(w)
             \/ NothingToRelay(w) \/ ForceReady(w)
    <3>1. UNCHANGED <<hand, op>>
      BY <2>5 DEF StartBehalf, ShareDone, PopFailed, ReturnToBody, NothingToRelay,
         ForceReady, control
    <3>2. HandUsed(w)'
      BY <1>1, <1>2, <2>5, <3>1 DEF StartBehalf, ShareDone, PopFailed, ReturnToBody,
         NothingToRelay, ForceReady, NoRequest, Goto, HandUsed, Waiting
    <3> QED BY <2>1, <3>1, <3>2, OthersKeepHands
  <2>6. CASE WaitPeek(w) \/ Sleep(w) \/ SpuriousWakeup(w) \/ Wake(w) \/ BarrierReturn(w)
             \/ ExitDone(w)
    <3>1. UNCHANGED <<hand, op>>
      BY <2>6 DEF WaitPeek, Sleep, SpuriousWakeup, Wake, BarrierReturn, ExitDone, control
    <3>2. HandUsed(w)'
      BY <1>1, <1>2, <2>6, <3>1 DEF WaitPeek, Sleep, SpuriousWakeup, Wake,
         BarrierReturn, ExitDone, Goto, HandUsed, Waiting
    <3> QED BY <2>1, <3>1, <3>2, OthersKeepHands
  <2>7. CASE User(w)
    <3>1. UNCHANGED hand /\ pc[w] = "body" /\ \A v \in Workers \ {w} : op'[v] = op[v]
      BY <1>2, <2>7 DEF User, RT_push, RT_force_future, RT_poll, EndIteration,
         TaskReturn, RT_barrier
    <3>2. HandUsed(w)'
      BY <1>1, <3>1 DEF HandUsed, Waiting
    <3> QED BY <2>1, <3>1, <3>2, OthersKeepHands
  <2> QED BY <1>4, <2>2, <2>3, <2>4, <2>5, <2>6, <2>7 DEF Quiet
<1>5. CASE Sends(w)
  <2>1. MovesAlone(w)
    BY <1>5, SendsMoves
  <2>2. CASE RT_pop(w)
    <3>1. op'[w] = "pop" /\ pc'[w] = "share"
          /\ \A v \in Workers \ {w} : hand'[v] = hand[v] /\ op'[v] = op[v]
      BY <1>2, <2>2 DEF RT_pop, Goto
    <3>2. HandUsed(w)'
      BY <3>1 DEF HandUsed
    <3> QED BY <2>1, <3>1, <3>2, OthersKeepHands
  <2>3. CASE BeginSteal(w) \/ RecvNoTask(w) \/ Resend(w) \/ ForceNotReady(w)
    <3>1. /\ UNCHANGED hand /\ pc[w] \in {"idle", "recv", "resend", "ready"}
          /\ \A v \in Workers \ {w} : op'[v] = op[v]
      BY <1>2, <2>3 DEF BeginSteal, RecvNoTask, Resend, ForceNotReady, control
    <3>2. HandUsed(w)'
      BY <1>1, <3>1 DEF HandUsed, Waiting
    <3> QED BY <2>1, <3>1, <3>2, OthersKeepHands
  <2> QED BY <1>5, <2>2, <2>3 DEF Sends
<1>6. CASE RecvFailed(w) \/ ShareSend(w) \/ NotifyExit(w)
  <2>1. UNCHANGED <<hand, op>> /\ MovesAlone(w)
    BY <1>2, <1>6 DEF RecvFailed, ShareSend, NotifyExit, control, MovesAlone, Goto
  <2>2. HandUsed(w)'
    BY <1>1, <1>2, <1>6, <2>1 DEF RecvFailed, ShareSend, NotifyExit, Goto, HandUsed, Waiting
  <2> QED BY <2>1, <2>2, OthersKeepHands
<1>7. CASE RecvTask(w)
  <2>1. /\ MovesAlone(w) /\ op'[w] = "loot" /\ pc'[w] = "share"
        /\ \A v \in Workers \ {w} : hand'[v] = hand[v] /\ op'[v] = op[v]
    BY <1>2, <1>7 DEF RecvTask, Goto, MovesAlone
  <2>2. HandUsed(w)'
    BY <2>1 DEF HandUsed
  <2> QED BY <2>1, <2>2, OthersKeepHands
<1> QED BY <1>3, <1>4, <1>5, <1>6, <1>7, StepKinds

\* RT_pop and RECV_TASK find the hands of the worker empty.
THEOREM HandsFree == Spec => []HandsInv
<1>1. Init => HandsInv
  BY DEF Init, HandsInv, HandUsed
<1>2. Inv /\ HandsInv /\ [Next]_vars => HandsInv'
  <2> SUFFICES ASSUME Inv, HandsInv, [Next]_vars PROVE HandsInv'
    OBVIOUS
  <2>1. CASE UNCHANGED vars
    BY <2>1 DEF vars, control, HandsInv, HandUsed
  <2> QED BY <2>1, NextHands DEF Next, Terminated
<1> QED BY <1>1, <1>2, InvHolds, PTL DEF Spec

-----------------------------------------------------------------------------
(* Tasks waiting to be run: one place for each *)

InDeque(w, t) == Has(deque[w], t)

InHand(w, t) == hand[w] = t

InChannel(w, c, t) == Has(chan_tasks[w][c], t)

Somewhere(t) ==
    \E w \in Workers : InDeque(w, t) \/ InHand(w, t) \/ \E c \in Chans : InChannel(w, c, t)

Alone(t) ==
    /\ \A w \in Workers : /\ ~Repeats(deque[w], t)
                          /\ \A c \in Chans : ~Repeats(chan_tasks[w][c], t)
    /\ \A u, v \in Workers : InDeque(u, t) /\ InDeque(v, t) => u = v
    /\ \A u, v \in Workers : InHand(u, t) /\ InHand(v, t) => u = v
    /\ \A u, v \in Workers, c, d \in Chans :
            InChannel(u, c, t) /\ InChannel(v, d, t) => u = v /\ c = d
    /\ \A u, v \in Workers : ~(InDeque(u, t) /\ InHand(v, t))
    /\ \A u, v \in Workers, c \in Chans :
            InChannel(u, c, t) => ~InDeque(v, t) /\ ~InHand(v, t)

Placed(t) == Alone(t) /\ (tasks[t].status = "ready" <=> Somewhere(t))

AllPlaced == \A t \in TaskIds : Placed(t)

\* Task t stays where it is.
LEMMA SamePlace ==
    ASSUME NEW t, Placed(t), tasks'[t].status = tasks[t].status,
           UNCHANGED <<deque, hand, chan_tasks>>
    PROVE  Placed(t)'
BY DEF Placed, Alone, Somewhere, InDeque, InHand, InChannel

\* SendTasks, to a channel that is empty.
LEMMA SendTasksPlaced ==
    ASSUME WorkOK, NEW r \in Request, NEW list, ~Loaded(r.id, r.chan), SendTasks(r, list)
    PROVE  /\ chan_tasks'[r.id][r.chan] = list
           /\ \A w \in Workers, c \in Chans :
                ~Mine(r, w, c) => chan_tasks'[w][c] = chan_tasks[w][c]
           /\ r.id \in Workers /\ r.chan \in Chans
<1>1. r.id \in Workers /\ r.chan \in Chans
  BY DEF Request
<1> QED BY <1>1 DEF WorkOK, Loaded, SendTasks, Mine

\* The loot moves from the deque to the channel.
LEMMA SendLootPlaced ==
    ASSUME WorkOK, NEW w \in Workers, NEW r \in Request, ~Loaded(r.id, r.chan),
           deque[w] # <<>>, SendLoot(w, r), UNCHANGED hand,
           NEW t \in TaskIds, Placed(t)
    PROVE  Placed(t)'
<1> DEFINE d == deque[w]
           k == Len(d) - LootSize(w, r)
<1>1. d \in Seq(TaskIds) /\ Len(d) \in Nat \ {0}
  BY EmptySeq DEF WorkOK
<1>2. LootSize(w, r) \in 1 .. Len(d)
  <2>1. \A n \in Nat : n >= 2 => n \div 2 \in 1 .. n
    OBVIOUS
  <2>2. LootSize(w, r) = 1 \/ (Len(d) >= 2 /\ LootSize(w, r) = Len(d) \div 2)
    BY Zenon DEF LootSize
  <2> HIDE DEF d
  <2> QED BY <1>1, <2>1, <2>2
<1>3. k \in 0 .. Len(d)
  BY <1>1, <1>2
<1>4. SendTasks(r, Loot(d, k)) /\ deque' = [deque EXCEPT ![w] = Rest(d, k)] /\ UNCHANGED tasks
  BY DEF SendLoot
<1> HIDE DEF k
<1>5. /\ Has(d, t) <=> Has(Rest(d, k), t) \/ Has(Loot(d, k), t)
      /\ Repeats(d, t) <=> \/ Repeats(Rest(d, k), t) \/ Repeats(Loot(d, k), t)
                           \/ (Has(Rest(d, k), t) /\ Has(Loot(d, k), t))
  BY <1>1, <1>3, SplitHas
<1>6. /\ chan_tasks'[r.id][r.chan] = Loot(d, k)
      /\ \A v \in Workers, c \in Chans :
            ~Mine(r, v, c) => chan_tasks'[v][c] = chan_tasks[v][c]
      /\ r.id \in Workers /\ r.chan \in Chans
  BY <1>4, SendTasksPlaced
<1>7. deque'[w] = Rest(d, k) /\ \A v \in Workers \ {w} : deque'[v] = deque[v]
  BY <1>4 DEF WorkOK
<1>8. ~InChannel(r.id, r.chan, t)
  BY EmptyHas DEF Loaded, InChannel
<1> HIDE DEF d
<1> DEFINE rest == Has(Rest(d, k), t)
           loot == Has(Loot(d, k), t)
<1>9. /\ InDeque(w, t)' <=> rest
      /\ InDeque(w, t) <=> rest \/ loot
      /\ Repeats(deque[w], t) <=> \/ Repeats(deque'[w], t) \/ Repeats(Loot(d, k), t)
                                  \/ (rest /\ loot)
      /\ \A v \in Workers \ {w} : /\ InDeque(v, t)' <=> InDeque(v, t)
                                  /\ Repeats(deque'[v], t) <=> Repeats(deque[v], t)
  BY <1>5, <1>7 DEF InDeque, d
<1>10. /\ InChannel(r.id, r.chan, t)' <=> loot
       /\ Repeats(chan_tasks'[r.id][r.chan], t) <=> Repeats(Loot(d, k), t)
       /\ \A v \in Workers, c \in Chans : ~Mine(r, v, c) =>
            /\ InChannel(v, c, t)' <=> InChannel(v, c, t)
            /\ Repeats(chan_tasks'[v][c], t) <=> Repeats(chan_tasks[v][c], t)
  BY <1>6 DEF InChannel
<1>11. /\ \A v \in Workers : InHand(v, t)' <=> InHand(v, t)
       /\ tasks'[t].status = tasks[t].status
  BY <1>4 DEF InHand
<1> HIDE DEF rest, loot
<1>12. Alone(t)
  BY DEF Placed
<1>13. Alone(t)'
  BY <1>6, <1>8, <1>9, <1>10, <1>11, <1>12 DEF Alone, Mine
<1>14. Somewhere(t)' <=> Somewhere(t)
  BY <1>6, <1>8, <1>9, <1>10, <1>11 DEF Somewhere, Mine
<1> QED BY <1>11, <1>13, <1>14 DEF Placed

\* A task that does not exist is nowhere.
LEMMA NewTaskNowhere ==
    ASSUME Inv
    PROVE  /\ ~Somewhere(Len(tasks) + 1) /\ Alone(Len(tasks) + 1)
           /\ Len(tasks) \in Nat /\ Len(tasks) + 1 \notin TaskIds
           /\ Len(tasks) + 1 # NoTask /\ Len(tasks) + 1 # ExitFn
<1> DEFINE n == Len(tasks) + 1
<1>1. Len(tasks) \in Nat
  BY LenProperties DEF Inv, WorkOK
<1>2. n \notin TaskIds /\ n # NoTask /\ n # ExitFn
  BY <1>1 DEF TaskIds, NoTask, ExitFn
<1> HIDE DEF n
<1>3. ASSUME NEW s \in Seq(TaskIds) PROVE ~Has(s, n) /\ ~Repeats(s, n)
  <2>1. \A i \in 1 .. Len(s) : s[i] \in TaskIds
    BY ElementOfSeq
  <2> QED BY <1>2, <2>1 DEF Has, Repeats
<1>4. ~Has(<<ExitFn>>, n) /\ ~Repeats(<<ExitFn>>, n)
  BY <1>2, SingleHas
<1>5. /\ deque \in [Workers -> Seq(TaskIds)]
      /\ hand \in [Workers -> TaskIds \cup {NoTask, ExitFn}]
      /\ chan_tasks \in [Workers -> [Chans -> Seq(TaskIds) \cup {<<ExitFn>>}]]
  BY DEF Inv, WorkOK, RunOK
<1>6. \A w \in Workers : /\ ~InDeque(w, n) /\ ~InHand(w, n) /\ ~Repeats(deque[w], n)
                         /\ \A c \in Chans : /\ ~InChannel(w, c, n)
                                             /\ ~Repeats(chan_tasks[w][c], n)
  BY <1>2, <1>3, <1>4, <1>5 DEF InDeque, InHand, InChannel
<1>7. ~Somewhere(n) /\ Alone(n)
  BY <1>6 DEF Somewhere, Alone
<1> QED BY <1>1, <1>2, <1>7 DEF n

\* One more task
Spawned ==
    /\ TaskIds' = TaskIds \cup {Len(tasks) + 1}
    /\ tasks'[Len(tasks) + 1].status = "ready"
    /\ \A t \in TaskIds : tasks'[t].status = tasks[t].status

\* split_loop adds a task; the loop keeps its status.
LEMMA SplitSpawns ==
    ASSUME WorkOK, NEW w \in Workers, NEW r, NEW t \in TaskIds, split_loop(w, t, r)
    PROVE  Spawned
<1>1. tasks \in Seq(TaskRecord) /\ tasks[t] \in TaskRecord /\ Len(tasks) \in Nat
      /\ t \in 1 .. Len(tasks)
  BY ElementOfSeq, LenProperties DEF WorkOK, TaskIds
<1>2. tasks[t].left \in Int
  BY <1>1 DEF TaskRecord
<1>3. PICK chunk \in 1 .. tasks[t].left - 1 :
        tasks' = Append([tasks EXCEPT ![t].left = @ - chunk],
                        [tasks[t] EXCEPT !.left = chunk, !.status = "ready"])
  BY DEF split_loop
<1>4. chunk \in Int /\ tasks[t].left - chunk \in Int
  BY <1>2, <1>3
<1> DEFINE mine == [tasks[t] EXCEPT !.left = @ - chunk]
           dup  == [tasks[t] EXCEPT !.left = chunk, !.status = "ready"]
           rest == [tasks EXCEPT ![t] = mine]
<1>5. /\ mine \in TaskRecord /\ dup \in TaskRecord
      /\ mine.status = tasks[t].status /\ dup.status = "ready"
  BY <1>1, <1>4, Zenon DEF TaskRecord
<1>6. tasks' = Append(rest, dup)
  BY <1>3
<1> HIDE DEF mine, dup
<1>7. /\ rest \in Seq(TaskRecord) /\ Len(rest) = Len(tasks)
      /\ \A u \in 1 .. Len(tasks) : rest[u] = IF u = t THEN mine ELSE tasks[u]
  BY <1>1, <1>5, ExceptSeq
<1> HIDE DEF rest
<1>8. /\ Len(tasks') = Len(tasks) + 1 /\ tasks'[Len(tasks) + 1] = dup
      /\ \A u \in 1 .. Len(tasks) : tasks'[u] = rest[u]
  BY <1>5, <1>6, <1>7, AppendProperties
<1>9. TaskIds' = TaskIds \cup {Len(tasks) + 1}
  BY <1>1, <1>8 DEF TaskIds
<1> QED BY <1>5, <1>7, <1>8, <1>9 DEF Spawned, TaskIds

\* RT_push adds a task.
LEMMA PushSpawns ==
    ASSUME WorkOK, RunOK, NEW w \in Workers, RT_push(w)
    PROVE  Spawned
<1>1. Len(tasks) \in Nat /\ tasks \in Seq(TaskRecord)
  BY LenProperties DEF WorkOK
<1>2. PICK rec \in TaskRecord : tasks' = Append(tasks, rec) /\ rec.status = "ready"
  <2>1. Current(w) \in Nat
    BY CurrentType DEF NoTask, TaskIds
  <2>2. /\ NewTask(Current(w), FALSE, 0) \in TaskRecord
        /\ NewTask(Current(w), FALSE, 0).status = "ready"
    BY <2>1 DEF NewTask, TaskRecord
  <2>3. \A n \in LoopSizes : /\ NewTask(Current(w), TRUE, n) \in TaskRecord
                             /\ NewTask(Current(w), TRUE, n).status = "ready"
    BY <2>1, RuntimeAssumption DEF NewTask, TaskRecord
  <2> QED BY <2>2, <2>3 DEF RT_push
<1>3. /\ Len(tasks') = Len(tasks) + 1 /\ tasks'[Len(tasks) + 1] = rec
      /\ \A u \in 1 .. Len(tasks) : tasks'[u] = tasks[u]
  BY <1>1, <1>2, AppendProperties
<1>4. TaskIds' = TaskIds \cup {Len(tasks) + 1}
  BY <1>1, <1>3 DEF TaskIds
<1> QED BY <1>2, <1>3, <1>4 DEF Spawned, TaskIds

\* The new task is in the channel, the others stay where they are.
LEMMA SplitPlaced ==
    ASSUME Inv, NEW w \in Workers, NEW r \in Request, ~Loaded(r.id, r.chan),
           NEW l \in TaskIds, split_loop(w, l, r), UNCHANGED hand, AllPlaced
    PROVE  AllPlaced'
<1>0. PICK n : n = Len(tasks) + 1
  OBVIOUS
<1>1. Spawned
  BY SplitSpawns DEF Inv
<1>2. ~Somewhere(n) /\ Alone(n) /\ n \notin TaskIds
  BY <1>0, NewTaskNowhere
<1>3. /\ chan_tasks'[r.id][r.chan] = <<n>>
      /\ \A v \in Workers, c \in Chans :
            ~Mine(r, v, c) => chan_tasks'[v][c] = chan_tasks[v][c]
      /\ r.id \in Workers /\ r.chan \in Chans /\ UNCHANGED deque
  BY <1>0, SendTasksPlaced DEF Inv, split_loop
<1>4. ASSUME NEW t
      PROVE  /\ InChannel(r.id, r.chan, t)' <=> t = n
             /\ ~InChannel(r.id, r.chan, t) /\ ~Repeats(chan_tasks'[r.id][r.chan], t)
             /\ \A v \in Workers, c \in Chans : ~Mine(r, v, c) =>
                    /\ InChannel(v, c, t)' <=> InChannel(v, c, t)
                    /\ Repeats(chan_tasks'[v][c], t) <=> Repeats(chan_tasks[v][c], t)
             /\ \A v \in Workers : /\ InHand(v, t)' <=> InHand(v, t)
                                   /\ InDeque(v, t)' <=> InDeque(v, t)
                                   /\ Repeats(deque'[v], t) <=> Repeats(deque[v], t)
  BY <1>3, SingleHas, EmptyHas DEF Loaded, InChannel, InHand, InDeque
<1>5. ASSUME NEW t \in TaskIds PROVE Placed(t)'
  <2>1. Alone(t) /\ (tasks[t].status = "ready" <=> Somewhere(t)) /\ t # n
    BY <1>2 DEF AllPlaced, Placed
  <2>2. Alone(t)'
    BY <1>3, <1>4, <2>1 DEF Alone, Mine
  <2>3. Somewhere(t)' <=> Somewhere(t)
    BY <1>3, <1>4, <2>1 DEF Somewhere, Mine
  <2> QED BY <1>1, <2>1, <2>2, <2>3 DEF Placed, Spawned
<1>6. Placed(n)'
  <2>1. Alone(n)'
    BY <1>2, <1>3, <1>4 DEF Alone, Somewhere, Mine
  <2>2. Somewhere(n)'
    BY <1>3, <1>4 DEF Somewhere
  <2> QED BY <1>0, <1>1, <2>1, <2>2 DEF Placed, Spawned
<1> QED BY <1>0, <1>1, <1>5, <1>6 DEF AllPlaced, Spawned

\* RT_push: the new task is in the deque.
LEMMA PushPlaced ==
    ASSUME Inv, NEW w \in Workers, RT_push(w), AllPlaced
    PROVE  AllPlaced'
<1>0. PICK n : n = Len(tasks) + 1
  OBVIOUS
<1>1. Spawned
  BY PushSpawns DEF Inv
<1>2. ~Somewhere(n) /\ Alone(n) /\ n \notin TaskIds
  BY <1>0, NewTaskNowhere
<1>3. /\ deque'[w] = <<n>> \o deque[w]
      /\ \A v \in Workers \ {w} : deque'[v] = deque[v]
      /\ UNCHANGED <<hand, chan_tasks>>
  BY <1>0 DEF Inv, WorkOK, RT_push
<1>4. ASSUME NEW t
      PROVE  /\ InDeque(w, t)' <=> t = n \/ InDeque(w, t)
             /\ Repeats(deque'[w], t) <=> Repeats(deque[w], t) \/ (t = n /\ InDeque(w, t))
             /\ \A v \in Workers \ {w} : /\ InDeque(v, t)' <=> InDeque(v, t)
                                         /\ Repeats(deque'[v], t) <=> Repeats(deque[v], t)
             /\ \A v \in Workers, c \in Chans :
                    /\ InChannel(v, c, t)' <=> InChannel(v, c, t)
                    /\ Repeats(chan_tasks'[v][c], t) <=> Repeats(chan_tasks[v][c], t)
             /\ \A v \in Workers : InHand(v, t)' <=> InHand(v, t)
  <2>1. <<n>> \in Seq(TaskIds \cup {n}) /\ deque[w] \in Seq(TaskIds \cup {n})
    <3>1. deque[w] \in Seq(TaskIds)
      BY DEF Inv, WorkOK
    <3> QED BY <3>1, SeqMonotonic
  <2>2. /\ Has(<<n>> \o deque[w], t) <=> Has(<<n>>, t) \/ Has(deque[w], t)
        /\ Repeats(<<n>> \o deque[w], t) <=> \/ Repeats(<<n>>, t) \/ Repeats(deque[w], t)
                                             \/ (Has(<<n>>, t) /\ Has(deque[w], t))
    BY <2>1, ConcatHas
  <2> QED BY <1>3, <2>2, SingleHas DEF InDeque, InHand, InChannel
<1>5. ASSUME NEW t \in TaskIds PROVE Placed(t)'
  <2>1. Alone(t) /\ (tasks[t].status = "ready" <=> Somewhere(t)) /\ t # n
    BY <1>2 DEF AllPlaced, Placed
  <2>2. Alone(t)'
    BY <1>4, <2>1 DEF Alone
  <2>3. Somewhere(t)' <=> Somewhere(t)
    BY <1>4, <2>1 DEF Somewhere
  <2> QED BY <1>1, <2>1, <2>2, <2>3 DEF Placed, Spawned
<1>6. Placed(n)'
  <2>1. Alone(n)'
    BY <1>2, <1>4 DEF Alone, Somewhere
  <2>2. Somewhere(n)'
    BY <1>4 DEF Somewhere
  <2> QED BY <1>0, <1>1, <2>1, <2>2 DEF Placed, Spawned
<1> QED BY <1>0, <1>1, <1>5, <1>6 DEF AllPlaced, Spawned

\* RT_pop: the first task moves from the deque to the hand, which is free.
LEMMA RTPopPlaced ==
    ASSUME Inv, NEW w \in Workers, hand[w] = NoTask, RT_pop(w), AllPlaced
    PROVE  AllPlaced'
<1>1. UNCHANGED <<tasks, chan_tasks>>
  BY DEF RT_pop
<1>2. CASE ~CanPop(w)
  <2>1. UNCHANGED deque /\ UNCHANGED hand
    BY <1>2 DEF RT_pop, Inv, WorkOK, RunOK
  <2> QED BY <1>1, <2>1, SamePlace DEF AllPlaced, TaskIds
<1>3. CASE CanPop(w)
  <2> DEFINE d == deque[w]
  <2>1. d \in Seq(TaskIds) /\ d # <<>>
    BY <1>3 DEF Inv, WorkOK, CanPop
  <2>2. /\ deque'[w] = Tail(d) /\ hand'[w] = Head(d)
        /\ \A v \in Workers \ {w} : deque'[v] = deque[v] /\ hand'[v] = hand[v]
    BY <1>3 DEF RT_pop, Inv, WorkOK, RunOK
  <2> SUFFICES ASSUME NEW t \in TaskIds PROVE Placed(t)'
    BY <1>1 DEF AllPlaced, TaskIds
  <2>3. ~InHand(w, t)
    BY DEF InHand, NoTask, TaskIds
  <2>4. /\ Has(d, t) <=> Head(d) = t \/ Has(Tail(d), t)
        /\ Repeats(d, t) <=> Repeats(Tail(d), t) \/ (Head(d) = t /\ Has(Tail(d), t))
    BY <2>1, HeadHas
  <2> HIDE DEF d
  <2>5. /\ InDeque(w, t) <=> InHand(w, t)' \/ InDeque(w, t)'
        /\ Repeats(deque[w], t) <=> Repeats(deque'[w], t) \/ (InHand(w, t)' /\ InDeque(w, t)')
        /\ \A v \in Workers \ {w} : /\ InDeque(v, t)' <=> InDeque(v, t)
                                    /\ Repeats(deque'[v], t) <=> Repeats(deque[v], t)
                                    /\ InHand(v, t)' <=> InHand(v, t)
        /\ \A v \in Workers, c \in Chans :
                    /\ InChannel(v, c, t)' <=> InChannel(v, c, t)
                    /\ Repeats(chan_tasks'[v][c], t) <=> Repeats(chan_tasks[v][c], t)
    BY <1>1, <2>2, <2>4 DEF InDeque, InHand, InChannel, d
  <2>6. Alone(t) /\ (tasks[t].status = "ready" <=> Somewhere(t))
    BY DEF AllPlaced, Placed
  <2>7. Alone(t)'
    BY <2>3, <2>5, <2>6 DEF Alone
  <2>8. Somewhere(t)' <=> Somewhere(t)
    BY <2>3, <2>5 DEF Somewhere
  <2> QED BY <1>1, <2>6, <2>7, <2>8 DEF Placed
<1> QED BY <1>2, <1>3

\* RECV_TASK: the first task goes to the hand, the others to the deque.
LEMMA RecvTaskPlaced ==
    ASSUME Inv, NEW w \in Workers, hand[w] = NoTask, RecvTask(w), AllPlaced
    PROVE  AllPlaced'
<1>1. UNCHANGED tasks
  BY DEF RecvTask
<1>2. PICK c \in Chans :
        /\ chan_tasks[w][c] # <<>>
        /\ hand' = [hand EXCEPT ![w] = Head(chan_tasks[w][c])]
        /\ deque' = [deque EXCEPT ![w] = Tail(chan_tasks[w][c]) \o @]
        /\ chan_tasks' = [chan_tasks EXCEPT ![w][c] = <<>>]
  BY DEF RecvTask
<1> DEFINE s == chan_tasks[w][c]
           S == TaskIds \cup {ExitFn}
<1>3. s \in Seq(S) /\ s # <<>> /\ deque[w] \in Seq(S)
  <2>1. s \in Seq(TaskIds) \cup {<<ExitFn>>} /\ deque[w] \in Seq(TaskIds)
    BY DEF Inv, WorkOK
  <2>2. <<ExitFn>> \in Seq(S)
    OBVIOUS
  <2>3. \A x \in Seq(TaskIds) : x \in Seq(S)
    BY SeqMonotonic
  <2> QED BY <1>2, <2>1, <2>2, <2>3
<1>4. /\ deque'[w] = Tail(s) \o deque[w] /\ hand'[w] = Head(s) /\ chan_tasks'[w][c] = <<>>
      /\ \A v \in Workers \ {w} : deque'[v] = deque[v] /\ hand'[v] = hand[v]
      /\ \A v \in Workers, d \in Chans : ~(v = w /\ d = c) => chan_tasks'[v][d] = chan_tasks[v][d]
  BY <1>2 DEF Inv, WorkOK, RunOK
<1> SUFFICES ASSUME NEW t \in TaskIds PROVE Placed(t)'
  BY <1>1 DEF AllPlaced, TaskIds
<1>5. ~InHand(w, t)
  BY DEF InHand, NoTask, TaskIds
<1> HIDE DEF S, s
<1>6. /\ Has(s, t) <=> Head(s) = t \/ Has(Tail(s), t)
      /\ Repeats(s, t) <=> Repeats(Tail(s), t) \/ (Head(s) = t /\ Has(Tail(s), t))
      /\ Tail(s) \in Seq(S)
  BY <1>3, HeadHas, HeadTailProperties
<1>7. /\ Has(Tail(s) \o deque[w], t) <=> Has(Tail(s), t) \/ Has(deque[w], t)
      /\ Repeats(Tail(s) \o deque[w], t) <=>
            Repeats(Tail(s), t) \/ Repeats(deque[w], t) \/ (Has(Tail(s), t) /\ Has(deque[w], t))
  BY <1>3, <1>6, ConcatHas
<1> DEFINE rest == Has(Tail(s), t)
           twice == Repeats(Tail(s), t)
<1>8. /\ InDeque(w, t)' <=> rest \/ InDeque(w, t)
      /\ InChannel(w, c, t) <=> InHand(w, t)' \/ rest
      /\ ~InChannel(w, c, t)' /\ ~Repeats(chan_tasks'[w][c], t)
      /\ Repeats(chan_tasks[w][c], t) <=> twice \/ (InHand(w, t)' /\ rest)
      /\ Repeats(deque'[w], t) <=> twice \/ Repeats(deque[w], t) \/ (rest /\ InDeque(w, t))
      /\ \A v \in Workers \ {w} : /\ InDeque(v, t)' <=> InDeque(v, t)
                                  /\ Repeats(deque'[v], t) <=> Repeats(deque[v], t)
                                  /\ InHand(v, t)' <=> InHand(v, t)
      /\ \A v \in Workers, d \in Chans : ~(v = w /\ d = c) =>
                  /\ InChannel(v, d, t)' <=> InChannel(v, d, t)
                  /\ Repeats(chan_tasks'[v][d], t) <=> Repeats(chan_tasks[v][d], t)
  BY <1>4, <1>6, <1>7, EmptyHas DEF InDeque, InHand, InChannel, s
<1> HIDE DEF rest, twice
<1>9. Alone(t) /\ (tasks[t].status = "ready" <=> Somewhere(t))
  BY DEF AllPlaced, Placed
<1>10. Alone(t)'
  BY <1>5, <1>8, <1>9 DEF Alone
<1>11. Somewhere(t)' <=> Somewhere(t)
  BY <1>5, <1>8 DEF Somewhere
<1> QED BY <1>1, <1>9, <1>10, <1>11 DEF Placed

-----------------------------------------------------------------------------
(* What the steps do to the stacks *)

OtherStacks(w) == \A v \in Workers \ {w} : stack'[v] = stack[v]

\* The innermost frame, of the same task, is now at a.
Reframed(w, a) ==
    /\ Len(stack[w]) \in Nat \ {0} /\ Len(stack'[w]) = Len(stack[w])
    /\ stack'[w][1].at = a /\ stack'[w][1].task = stack[w][1].task
    /\ \A i \in 2 .. Len(stack[w]) : stack'[w][i] = stack[w][i]
    /\ OtherStacks(w)

\* The task in hand is run.
Called(w) ==
    /\ Len(stack[w]) \in Nat /\ Len(stack'[w]) = Len(stack[w]) + 1
    /\ stack'[w][1].at = "body" /\ stack'[w][1].task = hand[w]
    /\ \A i \in 2 .. Len(stack[w]) + 1 : stack'[w][i] = stack[w][i - 1]
    /\ OtherStacks(w)

\* The innermost task returns.
Ended(w) ==
    /\ Len(stack[w]) \in Nat \ {0} /\ Len(stack'[w]) = Len(stack[w]) - 1
    /\ \A i \in 1 .. Len(stack[w]) - 1 : stack'[w][i] = stack[w][i + 1]
    /\ OtherStacks(w)

LEMMA TopReframed ==
    ASSUME RunOK, NEW w \in Workers, stack[w] # <<>>,
           NEW f \in Frame, f.task = stack[w][1].task,
           stack' = [stack EXCEPT ![w] = [stack[w] EXCEPT ![1] = f]]
    PROVE  Reframed(w, f.at)
<1> DEFINE s == stack[w]
           t == [s EXCEPT ![1] = f]
<1>1. s \in Seq(Frame) /\ Len(s) \in Nat \ {0} /\ 1 \in 1 .. Len(s)
  BY EmptySeq, LenProperties DEF RunOK
<1>2. /\ t \in Seq(Frame) /\ Len(t) = Len(s)
      /\ \A j \in 1 .. Len(s) : t[j] = IF j = 1 THEN f ELSE s[j]
  BY <1>1, ExceptSeq
<1>3. stack'[w] = t /\ OtherStacks(w)
  BY DEF RunOK, OtherStacks
<1> HIDE DEF t, s
<1>4. t[1] = f /\ \A j \in 2 .. Len(s) : t[j] = s[j]
  BY <1>1, <1>2
<1> QED BY <1>1, <1>2, <1>3, <1>4 DEF Reframed, s

\* RT_force_future and RT_barrier leave the stack as deep as it is.
LEMMA Reframes ==
    ASSUME Inv, NEW w \in Workers
    PROVE  /\ PopFailed(w) /\ Forcing(w) => Reframed(w, "force2")
           /\ PopFailed(w) /\ ~Forcing(w) => UNCHANGED stack
           /\ ForceReady(w) => Reframed(w, "body")
           /\ RT_force_future(w) => Reframed(w, "force1")
           /\ RT_barrier(w) => Reframed(w, "barrier")
           /\ BarrierReturn(w) => Reframed(w, "body")
<1>1. ASSUME stack[w] # <<>>, NEW a \in {"body", "barrier", "force1", "force2"},
             stack' = [stack EXCEPT ![w][1].at = a]
      PROVE  Reframed(w, a)
  <2> DEFINE f == [stack[w][1] EXCEPT !.at = a]
  <2>1. stack[w][1] \in Frame
    BY <1>1, TopType DEF Inv
  <2>2. f \in Frame /\ f.task = stack[w][1].task /\ f.at = a
    BY <2>1, Zenon DEF Frame
  <2>3. stack' = [stack EXCEPT ![w] = [stack[w] EXCEPT ![1] = f]]
    BY <1>1
  <2> HIDE DEF f
  <2> QED BY <1>1, <2>2, <2>3, TopReframed DEF Inv
<1>2. ASSUME stack[w] # <<>>, NEW a \in {"body", "barrier", "force1", "force2"}, NEW u \in Nat,
             stack' = [stack EXCEPT ![w][1].at = a, ![w][1].fut = u]
      PROVE  Reframed(w, a)
  <2> DEFINE f == [stack[w][1] EXCEPT !.at = a, !.fut = u]
  <2>1. stack[w][1] \in Frame /\ 1 \in DOMAIN stack[w] /\ w \in DOMAIN stack
    BY <1>2, TopType DEF Inv, RunOK
  <2>2. f \in Frame /\ f.task = stack[w][1].task /\ f.at = a
    BY <2>1, Zenon DEF Frame
  <2>3. stack' = [stack EXCEPT ![w] = [stack[w] EXCEPT ![1] = f]]
    BY <1>2, <2>1
  <2> HIDE DEF f
  <2> QED BY <1>2, <2>2, <2>3, TopReframed DEF Inv
<1>3. pc[w] \in {"body", "ready", "leave"} \/ Forcing(w) => stack[w] # <<>>
  BY DEF Inv, LocalInv, StackInv, Forcing, At
<1>4. PopFailed(w) /\ Forcing(w) => Reframed(w, "force2")
  BY <1>1, <1>3 DEF PopFailed
<1>5. ForceReady(w) => Reframed(w, "body")
  BY <1>2, <1>3 DEF ForceReady, NoTask
<1>6. RT_force_future(w) => Reframed(w, "force1")
  <2>1. \A u \in Unjoined(Current(w)) : u \in Nat
    BY LenProperties DEF Unjoined, Inv, WorkOK
  <2> QED BY <1>2, <1>3, <2>1 DEF RT_force_future
<1>7. (RT_barrier(w) => Reframed(w, "barrier")) /\ (BarrierReturn(w) => Reframed(w, "body"))
  BY <1>1, <1>3 DEF RT_barrier, BarrierReturn
<1> QED BY <1>4, <1>5, <1>6, <1>7 DEF PopFailed

\* run_task and its end
LEMMA Calls ==
    ASSUME Inv, NEW w \in Workers
    PROVE  /\ Start(w) => Called(w)
           /\ TaskReturn(w) => Ended(w)
<1> DEFINE s == stack[w]
<1>1. s \in Seq(Frame) /\ Len(s) \in Nat
  BY LenProperties DEF Inv, RunOK
<1>2. ASSUME Start(w) PROVE Called(w)
  <2> DEFINE f == [task |-> hand[w], at |-> "body", fut |-> NoTask]
             t == <<f>> \o s
  <2>1. stack'[w] = t /\ OtherStacks(w)
    BY <1>2 DEF Start, OtherStacks, Inv, RunOK
  <2>2. f.at = "body" /\ f.task = hand[w]
    OBVIOUS
  <2> HIDE DEF f, s
  <2>3. <<f>> \in Seq(Frame \cup {f}) /\ s \in Seq(Frame \cup {f})
    BY <1>1, SeqMonotonic
  <2>4. Len(t) = 1 + Len(s) /\ t[1] = f /\ \A i \in 2 .. Len(s) + 1 : t[i] = s[i - 1]
    BY <1>1, <2>3, ConcatProperties
  <2> HIDE DEF t
  <2> QED BY <1>1, <2>1, <2>2, <2>4 DEF Called, s
<1>3. ASSUME TaskReturn(w) PROVE Ended(w)
  <2>1. s # <<>> /\ stack'[w] = Tail(s) /\ OtherStacks(w)
    BY <1>3 DEF TaskReturn, OtherStacks, Inv, RunOK, LocalInv, StackInv
  <2> HIDE DEF s
  <2>2. Len(s) \in Nat \ {0} /\ Len(Tail(s)) = Len(s) - 1
        /\ \A i \in 1 .. Len(s) - 1 : Tail(s)[i] = s[i + 1]
    BY <1>1, <2>1, HeadTailProperties, EmptySeq
  <2> QED BY <2>1, <2>2 DEF Ended, s
<1> QED BY <1>2, <1>3

\* Every other step leaves the stacks alone.
LEMMA StacksKept ==
    ASSUME NEW w, Scheduler(w) \/ User(w) \/ SpuriousWakeup(w)
    PROVE  \/ UNCHANGED stack
           \/ PopFailed(w) \/ ForceReady(w) \/ RT_force_future(w) \/ RT_barrier(w)
           \/ BarrierReturn(w) \/ TaskReturn(w) \/ ShareDoneRun(w) \/ RunPopped(w)
<1>1. CASE User(w) \/ SpuriousWakeup(w)
  BY <1>1 DEF User, SpuriousWakeup, RT_push, RT_poll, EndIteration, control
<1>2. CASE \/ RecvFailed(w) \/ RecvOwn(w) \/ StartBehalf(w) \/ RecvBehalf(w)
           \/ ShareSend(w) \/ ShareSignal(w) \/ ShareDone(w)
           \/ RT_pop(w) \/ ReturnToBody(w)
  BY <1>2 DEF RecvFailed, RecvOwn, StartBehalf, RecvBehalf, ShareSend, ShareSignal,
     ShareDone, RT_pop, ReturnToBody, control
<1>3. CASE \/ BeginSteal(w) \/ RecvTask(w) \/ RecvNoTask(w) \/ Resend(w)
           \/ NothingToRelay(w) \/ ForceNotReady(w) \/ WaitPeek(w) \/ Sleep(w)
           \/ Wake(w) \/ ShareDoneExit(w) \/ NotifyExit(w) \/ SignalExit(w) \/ ExitDone(w)
  BY <1>3 DEF BeginSteal, RecvTask, RecvNoTask, Resend, NothingToRelay, ForceNotReady,
     WaitPeek, Sleep, Wake, ShareDoneExit, NotifyExit, SignalExit, ExitDone, control
<1> QED BY <1>1, <1>2, <1>3 DEF Scheduler

-----------------------------------------------------------------------------
(* Tasks being run *)

Stacked(t) == \E w \in Workers : \E i \in 1 .. Len(stack[w]) : stack[w][i].task = t

Ran(t) ==
    /\ Stacked(t) => tasks[t].status # "ready"
    /\ tasks[t].status = "running" => Stacked(t)

AllRan == \A t \in TaskIds : Ran(t)

\* No task begins or ends.
StatusKept ==
    /\ TaskIds' = TaskIds
    /\ \A t \in TaskIds : tasks'[t].status = tasks[t].status

\* Changing the record of a task
LEMMA TaskUpdated ==
    ASSUME WorkOK, NEW t \in TaskIds, NEW rec, tasks' = [tasks EXCEPT ![t] = rec]
    PROVE  /\ TaskIds' = TaskIds /\ tasks'[t] = rec
           /\ \A u \in TaskIds \ {t} : tasks'[u] = tasks[u]
<1>1. tasks \in Seq(TaskRecord \cup {rec}) /\ t \in 1 .. Len(tasks)
  BY SeqMonotonic DEF WorkOK, TaskIds
<1>2. /\ Len(tasks') = Len(tasks)
      /\ \A u \in 1 .. Len(tasks) : tasks'[u] = IF u = t THEN rec ELSE tasks[u]
  BY <1>1, ExceptSeq
<1> QED BY <1>1, <1>2 DEF TaskIds

\* The frames of a worker hold the same tasks when the innermost one moves.
LEMMA ReframedStacks ==
    ASSUME NEW w \in Workers, NEW a, Reframed(w, a)
    PROVE  \A t : Stacked(t)' <=> Stacked(t)
<1> SUFFICES ASSUME NEW t PROVE Stacked(t)' <=> Stacked(t)
  OBVIOUS
<1>1. \A i \in 1 .. Len(stack[w]) : stack'[w][i].task = stack[w][i].task
  <2>1. \A i \in 1 .. Len(stack[w]) : i = 1 \/ i \in 2 .. Len(stack[w])
    BY DEF Reframed
  <2> QED BY <2>1 DEF Reframed
<1>2. \A v \in Workers : /\ Len(stack'[v]) = Len(stack[v])
                         /\ \A i \in 1 .. Len(stack[v]) : stack'[v][i].task = stack[v][i].task
  BY <1>1 DEF Reframed, OtherStacks
<1> QED BY <1>2 DEF Stacked

\* A task that does not exist is not being run.
LEMMA NewTaskNotStacked ==
    ASSUME Inv
    PROVE  ~Stacked(Len(tasks) + 1)
<1>1. \A w \in Workers : \A i \in 1 .. Len(stack[w]) : stack[w][i].task \in TaskIds
  <2>1. \A w \in Workers : DOMAIN stack[w] = 1 .. Len(stack[w])
    BY LenProperties DEF Inv, RunOK
  <2> QED BY <2>1 DEF Inv, RunOK
<1> QED BY <1>1, NewTaskNowhere DEF Stacked

LEMMA RanKept ==
    ASSUME Inv, AllRan, StatusKept \/ Spawned, \A t : Stacked(t)' <=> Stacked(t)
    PROVE  AllRan'
<1>1. \A t \in TaskIds : Ran(t)'
  BY DEF AllRan, Ran, StatusKept, Spawned
<1>2. ASSUME Spawned PROVE \A t \in TaskIds' : Ran(t)'
  <2>1. PICK n : n = Len(tasks) + 1
    OBVIOUS
  <2>2. ~Stacked(n) /\ tasks'[n].status = "ready" /\ TaskIds' = TaskIds \cup {n}
    BY <1>2, <2>1, NewTaskNotStacked DEF Spawned
  <2>3. Ran(n)'
    BY <2>2 DEF Ran
  <2> QED BY <1>1, <2>2, <2>3
<1> QED BY <1>1, <1>2 DEF AllRan, StatusKept

\* Handling a request answers it with loot, splits a loop, or touches no task.
WorkOutcome(w, r) ==
    \/ UNCHANGED work
    \/ deque[w] # <<>> /\ SendLoot(w, r)
    \/ \E t \in TaskIds : split_loop(w, t, r)

LEMMA DispatchWork ==
    ASSUME Inv, NEW w \in Workers, pc[w] \in {"serve", "behalf"}, NEW r \in Request, NEW q,
           Dispatch(w, r, q)
    PROVE  WorkOutcome(w, r)
<1>1. ASSUME NEW s, NEW next, decline_steal_request(w, s, q, next) PROVE UNCHANGED work
  BY <1>1 DEF decline_steal_request, PassOn, detect_termination, BackOff, Drop,
     Recirculate, FORGET_REQ
<1>2. ASSUME NEW next, handle_steal_request(w, r, q, next) PROVE WorkOutcome(w, r)
  BY <1>1, <1>2 DEF handle_steal_request, FORGET_REQ, WorkOutcome
<1>3. ASSUME NEW t \in TaskIds, SplitOrForget(w, t, r, q, "serve") PROVE WorkOutcome(w, r)
  BY <1>3 DEF SplitOrForget, FORGET_REQ, WorkOutcome
<1>4. SPLITTABLE(Current(w)) => Current(w) \in TaskIds
  BY CurrentType DEF Inv, SPLITTABLE, IterationsLeft
<1>5. SPLITTABLE(hand[w]) => hand[w] \in TaskIds
  <2>1. hand[w] \in TaskIds \cup {NoTask, ExitFn} /\ hand[w] # ExitFn
    BY DEF Inv, RunOK, LocalInv, HandInv
  <2> QED BY <2>1 DEF SPLITTABLE, IterationsLeft
<1>6. CASE op[w] = "idle"
  BY <1>1, <1>6 DEF Dispatch, WorkOutcome
<1>7. CASE op[w] = "poll"
  <2>1. handle(w, r, q, "serve")
    BY <1>7 DEF Dispatch
  <2> QED BY <1>1, <1>2, <1>3, <1>4, <2>1 DEF handle, WorkOutcome
<1>8. CASE op[w] = "pop"
  BY <1>2, <1>3, <1>5, <1>8 DEF Dispatch
<1> QED BY <1>2, <1>6, <1>7, <1>8 DEF Dispatch

\* Tasks are sent only where the channel is empty.
LEMMA AnswerPlaced ==
    ASSUME Inv, NEW w \in Workers, NEW r \in Request, ~Loaded(r.id, r.chan),
           WorkOutcome(w, r), UNCHANGED hand, AllPlaced
    PROVE  AllPlaced' /\ (StatusKept \/ Spawned)
<1>1. CASE UNCHANGED work
  <2>1. StatusKept /\ UNCHANGED <<deque, chan_tasks, tasks>>
    BY <1>1 DEF StatusKept, work, TaskIds
  <2> QED BY <2>1, SamePlace DEF AllPlaced, StatusKept
<1>2. CASE deque[w] # <<>> /\ SendLoot(w, r)
  <2>1. StatusKept
    BY <1>2 DEF StatusKept, SendLoot, TaskIds
  <2> QED BY <1>2, <2>1, SendLootPlaced DEF AllPlaced, StatusKept, Inv
<1>3. CASE \E t \in TaskIds : split_loop(w, t, r)
  BY <1>3, SplitPlaced, SplitSpawns DEF Inv
<1> QED BY <1>1, <1>2, <1>3 DEF WorkOutcome

LEMMA RecvPlaced ==
    ASSUME Inv, AllHeld, NEW w \in Workers, RecvOwn(w) \/ RecvBehalf(w), AllPlaced
    PROVE  AllPlaced' /\ (StatusKept \/ Spawned)
<1>1. UNCHANGED hand
  BY RecvGoes
<1>2. CASE UNCHANGED <<protocol, work, pc>>
  <2>1. StatusKept /\ UNCHANGED <<deque, chan_tasks, tasks>>
    BY <1>2 DEF StatusKept, work, TaskIds
  <2> QED BY <1>1, <2>1, SamePlace DEF AllPlaced, StatusKept
<1>3. CASE \E r \in Request : \E q : Taken(r, q) /\ Dispatch(w, r, q)
  <2>1. PICK r, q : r \in Request /\ Taken(r, q) /\ Dispatch(w, r, q)
    BY <1>3
  <2>2. ~Loaded(r.id, r.chan)
    BY <2>1, TakenHolds DEF Inv
  <2>3. WorkOutcome(w, r)
    BY <2>1, DispatchWork, RecvTakes
  <2> QED BY <1>1, <2>1, <2>2, <2>3, AnswerPlaced
<1> QED BY <1>2, <1>3, RecvTakes

\* share_work
LEMMA ShareSendPlaced ==
    ASSUME Inv, AllHeld, NEW w \in Workers, ShareSend(w), AllPlaced
    PROVE  AllPlaced' /\ (StatusKept \/ Spawned)
<1> DEFINE s == work_sharing_requests[w]
           r == Head(s)
<1>1. /\ s \in Seq(Request) /\ s # <<>> /\ r \in Request /\ r.id \in Workers /\ r.chan \in Chans
  <2>1. s \in Seq(Request) /\ s # <<>>
    BY DEF ShareSend, CanShare, Inv, LifelineOK
  <2>2. r \in Request
    BY <2>1, HeadTailProperties
  <2> QED BY <2>1, <2>2 DEF Request
<1>2. Kept(w, r.id, r.chan)
  <2>1. 1 \in 1 .. Len(s) /\ s[1] = r
    BY <1>1, EmptySeq
  <2>2. In(s, r.id, r.chan)
    BY <2>1 DEF In, Mine
  <2> QED BY <2>2 DEF Kept, Lifelines, ShareSend
<1>3. ~Loaded(r.id, r.chan)
  BY <1>1, <1>2 DEF AllHeld, OneHolder
<1>4. WorkOutcome(w, r)
  <2>1. deque[w] = <<>> => Current(w) \in TaskIds
    BY CurrentType DEF Inv, ShareSend, CanShare, SPLITTABLE, IterationsLeft
  <2> QED BY <2>1 DEF ShareSend, WorkOutcome
<1>5. UNCHANGED hand
  BY DEF ShareSend, control
<1> HIDE DEF r
<1> QED BY <1>1, <1>3, <1>4, <1>5, AnswerPlaced

\* run_task: a task that waited in the worker's hand, and only there.
LEMMA StartPlaced ==
    ASSUME Inv, NEW w \in Workers, hand[w] \in TaskIds, Start(w), UNCHANGED <<deque, chan_tasks>>,
           AllPlaced, AllRan
    PROVE  /\ AllPlaced' /\ AllRan' /\ TaskIds' = TaskIds
           /\ tasks[hand[w]].status = "ready"
           /\ \A t \in TaskIds : t # hand[w] => tasks'[t].status = tasks[t].status
<1>0. PICK h \in TaskIds : h = hand[w]
  OBVIOUS
<1>1. PICK rec : tasks' = [tasks EXCEPT ![h] = rec] /\ rec.status = "running"
  <2> DEFINE r1 == [tasks[h] EXCEPT !.status = "running"]
             r2 == [r1 EXCEPT !.left = IF tasks[h].splittable THEN r1.left - 1 ELSE r1.left]
  <2>1. tasks[h] \in TaskRecord
    BY TaskType DEF Inv
  <2>2. r1.status = "running" /\ r1 \in TaskRecord
    BY <2>1, Zenon DEF TaskRecord
  <2>3. r2.status = "running"
    BY <2>2, Zenon DEF TaskRecord
  <2>4. h \in DOMAIN tasks
    BY LenProperties DEF Inv, WorkOK, TaskIds
  <2>5. tasks' = [[tasks EXCEPT ![h] = r1] EXCEPT
                    ![h] = [[tasks EXCEPT ![h] = r1][h] EXCEPT
                        !.left = IF tasks[h].splittable
                                 THEN [tasks EXCEPT ![h] = r1][h].left - 1
                                 ELSE [tasks EXCEPT ![h] = r1][h].left]]
    BY <1>0, Zenon DEF Start
  <2>6. [tasks EXCEPT ![h] = r1][h] = r1
    BY <2>4, Zenon
  <2>7. tasks' = [[tasks EXCEPT ![h] = r1] EXCEPT ![h] = r2]
    BY <2>5, <2>6, Zenon
  <2> HIDE DEF r1, r2
  <2>8. tasks' = [tasks EXCEPT ![h] = r2]
    BY <2>4, <2>7
  <2> QED BY <2>3, <2>8
<1>2. TaskIds' = TaskIds /\ tasks'[h] = rec /\ \A u \in TaskIds \ {h} : tasks'[u] = tasks[u]
  BY <1>1, TaskUpdated DEF Inv
<1>3. hand'[w] = NoTask /\ \A v \in Workers \ {w} : hand'[v] = hand[v]
  BY DEF Start, Inv, RunOK
<1>4. Alone(h) /\ InHand(w, h) /\ tasks[h].status = "ready" /\ h # NoTask
  BY <1>0 DEF AllPlaced, Placed, Somewhere, InHand, NoTask, TaskIds
<1>5. \A t : /\ \A v \in Workers : /\ InDeque(v, t)' <=> InDeque(v, t)
                                   /\ Repeats(deque'[v], t) <=> Repeats(deque[v], t)
             /\ \A v \in Workers, c \in Chans :
                    /\ InChannel(v, c, t)' <=> InChannel(v, c, t)
                    /\ Repeats(chan_tasks'[v][c], t) <=> Repeats(chan_tasks[v][c], t)
  BY DEF InDeque, InChannel
<1>6. ASSUME NEW t \in TaskIds PROVE Placed(t)'
  <2>1. CASE t = h
    <3>1. \A v \in Workers : /\ ~InHand(v, t)' /\ ~InDeque(v, t)
                             /\ \A c \in Chans : ~InChannel(v, c, t)
      <4>1. \A v \in Workers : InHand(v, t) => v = w
        BY <1>4, <2>1 DEF Alone
      <4>2. ~InHand(w, t)'
        BY <1>3, <1>4, <2>1 DEF InHand
      <4>3. \A v \in Workers \ {w} : ~InHand(v, t)'
        BY <1>3, <4>1 DEF InHand
      <4> QED BY <1>4, <2>1, <4>2, <4>3 DEF Alone
    <3>2. Alone(t)'
      BY <1>4, <1>5, <2>1, <3>1 DEF Alone
    <3>3. ~Somewhere(t)'
      BY <1>5, <3>1 DEF Somewhere
    <3> QED BY <1>1, <1>2, <2>1, <3>2, <3>3 DEF Placed
  <2>2. CASE t # h
    <3>1. \A v \in Workers : InHand(v, t)' <=> InHand(v, t)
      BY <1>0, <1>3, <2>2 DEF InHand, NoTask, TaskIds
    <3>2. Alone(t) /\ (tasks[t].status = "ready" <=> Somewhere(t))
      BY DEF AllPlaced, Placed
    <3>3. Alone(t)'
      BY <1>5, <3>1, <3>2 DEF Alone
    <3>4. Somewhere(t)' <=> Somewhere(t)
      BY <1>5, <3>1 DEF Somewhere
    <3> QED BY <1>2, <2>2, <3>2, <3>3, <3>4 DEF Placed
  <2> QED BY <2>1, <2>2
<1>7. Called(w)
  BY Calls
<1>8. Stacked(h)'
  <2>1. 1 \in 1 .. Len(stack'[w]) /\ stack'[w][1].task = h
    BY <1>0, <1>7 DEF Called
  <2> QED BY <2>1 DEF Stacked
<1>9. ASSUME NEW t \in TaskIds, t # h PROVE Stacked(t)' <=> Stacked(t)
  <2>1. \A i \in 1 .. Len(stack[w]) : i + 1 \in 1 .. Len(stack'[w])
                                      /\ stack'[w][i + 1] = stack[w][i]
    <3>1. \A i \in 1 .. Len(stack[w]) : i + 1 \in 2 .. Len(stack[w]) + 1 /\ (i + 1) - 1 = i
      BY <1>7 DEF Called
    <3>2. \A i \in 2 .. Len(stack[w]) + 1 : i \in 1 .. Len(stack'[w])
      BY <1>7 DEF Called
    <3> QED BY <1>7, <3>1, <3>2 DEF Called
  <2>2. \A i \in 1 .. Len(stack'[w]) :
            \/ i = 1 /\ stack'[w][i].task = h
            \/ i - 1 \in 1 .. Len(stack[w]) /\ stack'[w][i] = stack[w][i - 1]
    <3>1. \A i \in 1 .. Len(stack'[w]) :
            i = 1 \/ (i \in 2 .. Len(stack[w]) + 1 /\ i - 1 \in 1 .. Len(stack[w]))
      BY <1>7 DEF Called
    <3> QED BY <1>0, <1>7, <3>1 DEF Called
  <2>3. ASSUME Stacked(t) PROVE Stacked(t)'
    <3>1. PICK v \in Workers : \E i \in 1 .. Len(stack[v]) : stack[v][i].task = t
      BY <2>3 DEF Stacked
    <3>2. CASE v = w
      BY <2>1, <3>1, <3>2 DEF Stacked
    <3>3. CASE v # w
      BY <1>7, <3>1, <3>3 DEF Stacked, Called, OtherStacks
    <3> QED BY <3>2, <3>3
  <2>4. ASSUME Stacked(t)' PROVE Stacked(t)
    BY <1>7, <1>9, <2>2, <2>4 DEF Stacked, Called, OtherStacks
  <2> QED BY <2>3, <2>4
<1>10. AllRan'
  <2>1. Ran(h)'
    BY <1>1, <1>2, <1>8 DEF Ran
  <2>2. \A t \in TaskIds : t # h => Ran(t)'
    BY <1>2, <1>9 DEF AllRan, Ran
  <2> QED BY <1>2, <2>1, <2>2 DEF AllRan
<1> QED BY <1>0, <1>2, <1>4, <1>6, <1>10 DEF AllPlaced

\* A task ends.
LEMMA TaskReturnPlaced ==
    ASSUME Inv, NEW w \in Workers, TaskReturn(w), AllPlaced, AllRan
    PROVE  /\ AllPlaced' /\ AllRan' /\ TaskIds' = TaskIds
           /\ tasks'[Current(w)].status = "done" /\ tasks[Current(w)].status # "ready"
           /\ \A t \in TaskIds : t # Current(w) => tasks'[t].status = tasks[t].status
<1>1. Ended(w) /\ stack[w] # <<>> /\ UNCHANGED <<deque, chan_tasks, hand>>
  BY Calls DEF TaskReturn, Inv, LocalInv, StackInv
<1>2. PICK h \in TaskIds : h = Current(w)
  BY <1>1, CurrentType DEF Inv
<1>3. 1 \in 1 .. Len(stack[w]) /\ stack[w][1].task = h
  BY <1>1, <1>2 DEF Ended, Current
<1>4. tasks[h].status # "ready"
  BY <1>3 DEF AllRan, Ran, Stacked
<1>5. PICK rec : tasks' = [tasks EXCEPT ![h] = rec] /\ rec.status = "done"
  <2>1. tasks[h] \in TaskRecord
    BY TaskType DEF Inv
  <2>2. [tasks[h] EXCEPT !.status = "done"].status = "done"
    BY <2>1 DEF TaskRecord
  <2> QED BY <1>2, <2>2 DEF TaskReturn
<1>6. TaskIds' = TaskIds /\ tasks'[h] = rec /\ \A u \in TaskIds \ {h} : tasks'[u] = tasks[u]
  BY <1>5, TaskUpdated DEF Inv
<1>7. \A t : (Alone(t)' <=> Alone(t)) /\ (Somewhere(t)' <=> Somewhere(t))
  BY <1>1 DEF Alone, Somewhere, InDeque, InHand, InChannel
<1>8. AllPlaced'
  <2>1. Placed(h)'
    BY <1>4, <1>5, <1>6, <1>7 DEF AllPlaced, Placed
  <2>2. \A t \in TaskIds \ {h} : Placed(t)'
    BY <1>6, <1>7 DEF AllPlaced, Placed
  <2> QED BY <1>6, <2>1, <2>2 DEF AllPlaced
<1>9. ASSUME NEW t, t # h PROVE Stacked(t)' <=> Stacked(t)
  <2>1. \A i \in 1 .. Len(stack'[w]) : i + 1 \in 1 .. Len(stack[w])
                                       /\ stack'[w][i] = stack[w][i + 1]
    BY <1>1 DEF Ended
  <2>2. \A i \in 1 .. Len(stack[w]) :
            \/ i = 1
            \/ i - 1 \in 1 .. Len(stack'[w]) /\ stack'[w][i - 1] = stack[w][i]
    <3>1. \A i \in 1 .. Len(stack[w]) : i = 1 \/ (/\ i - 1 \in 1 .. Len(stack[w]) - 1
                                                 /\ i - 1 \in 1 .. Len(stack'[w])
                                                 /\ (i - 1) + 1 = i)
      BY <1>1 DEF Ended
    <3> QED BY <1>1, <3>1 DEF Ended
  <2>3. ASSUME Stacked(t)' PROVE Stacked(t)
    BY <1>1, <2>1, <2>3 DEF Stacked, Ended, OtherStacks
  <2>4. ASSUME Stacked(t) PROVE Stacked(t)'
    <3>1. PICK v \in Workers : \E i \in 1 .. Len(stack[v]) : stack[v][i].task = t
      BY <2>4 DEF Stacked
    <3>2. CASE v = w
      <4>1. PICK i \in 1 .. Len(stack[w]) : stack[w][i].task = t
        BY <3>1, <3>2
      <4>2. i # 1
        BY <1>3, <1>9, <4>1
      <4> QED BY <2>2, <4>1, <4>2 DEF Stacked
    <3>3. CASE v # w
      BY <1>1, <3>1, <3>3 DEF Stacked, Ended, OtherStacks
    <3> QED BY <3>2, <3>3
  <2> QED BY <2>3, <2>4
<1>10. AllRan'
  <2>1. Ran(h)'
    BY <1>5, <1>6 DEF Ran
  <2>2. \A t \in TaskIds \ {h} : Ran(t)'
    BY <1>6, <1>9 DEF AllRan, Ran
  <2> QED BY <1>6, <2>1, <2>2 DEF AllRan
<1> QED BY <1>2, <1>4, <1>5, <1>6, <1>8, <1>10

\* Iterations end and futures are joined without a task beginning or ending.
LEMMA UpdatePlaced ==
    ASSUME Inv, NEW w \in Workers, ForceReady(w) \/ EndIteration(w), AllPlaced
    PROVE  AllPlaced' /\ StatusKept
<1>1. UNCHANGED <<deque, chan_tasks, hand>>
  BY DEF ForceReady, EndIteration
<1>2. StatusKept
  <2>1. PICK t, rec : tasks' = [tasks EXCEPT ![t] = rec]
                      /\ (t \in TaskIds => rec.status = tasks[t].status)
    <3>1. \A t \in TaskIds : tasks[t] \in TaskRecord
      BY TaskType DEF Inv
    <3>2. CASE ForceReady(w)
      <4> DEFINE t == Head(stack[w]).fut
                 rec == [tasks[t] EXCEPT !.joined = TRUE]
      <4>1. tasks' = [tasks EXCEPT ![t] = rec]
        BY <3>2 DEF ForceReady
      <4>2. t \in TaskIds => rec.status = tasks[t].status
        BY <3>1 DEF TaskRecord
      <4> QED BY <4>1, <4>2
    <3>3. CASE EndIteration(w)
      <4> DEFINE t == Current(w)
                 rec == [tasks[t] EXCEPT !.left = @ - 1]
      <4>1. tasks' = [tasks EXCEPT ![t] = rec]
        BY <3>3 DEF EndIteration
      <4>2. t \in TaskIds => rec.status = tasks[t].status
        BY <3>1 DEF TaskRecord
      <4> QED BY <4>1, <4>2
    <3> QED BY <3>2, <3>3
  <2>2. CASE t \in TaskIds
    BY <2>1, <2>2, TaskUpdated DEF Inv, StatusKept
  <2>3. CASE t \notin TaskIds
    <3>1. tasks \in [TaskIds -> TaskRecord]
      BY LenProperties DEF Inv, WorkOK, TaskIds
    <3>2. tasks' = tasks
      BY <2>1, <2>3, <3>1
    <3> QED BY <3>2 DEF StatusKept, TaskIds
  <2> QED BY <2>2, <2>3
<1> QED BY <1>1, <1>2, SamePlace DEF AllPlaced, StatusKept

-----------------------------------------------------------------------------
(* The invariant *)

TaskInv == ~Exiting => AllPlaced /\ AllRan

LEMMA InitTask == Init => TaskInv
<1> SUFFICES ASSUME Init PROVE AllPlaced /\ AllRan
  BY DEF TaskInv
<1>1. TaskIds = {Root} /\ tasks[Root].status = "running"
  BY DEF Init, TaskIds, NewTask, Root
<1>2. \A w \in Workers : /\ deque[w] = <<>> /\ hand[w] = NoTask
                         /\ \A c \in Chans : chan_tasks[w][c] = <<>>
  BY DEF Init
<1>3. \A w \in Workers : /\ ~InDeque(w, Root) /\ ~Repeats(deque[w], Root) /\ ~InHand(w, Root)
                         /\ \A c \in Chans : /\ ~InChannel(w, c, Root)
                                             /\ ~Repeats(chan_tasks[w][c], Root)
  BY <1>2, EmptyHas DEF InDeque, InHand, InChannel, Root, NoTask
<1>4. Placed(Root)
  BY <1>1, <1>3 DEF Placed, Alone, Somewhere
<1>5. MASTER_ID \in Workers
  BY NAssumption DEF Workers, MASTER_ID
<1>6. Stacked(Root)
  <2>1. stack[MASTER_ID] = <<[task |-> Root, at |-> "body", fut |-> NoTask]>>
    BY <1>5 DEF Init
  <2>2. 1 \in 1 .. Len(stack[MASTER_ID]) /\ stack[MASTER_ID][1].task = Root
    BY <2>1
  <2> QED BY <1>5, <2>2 DEF Stacked
<1> QED BY <1>1, <1>4, <1>6 DEF AllPlaced, AllRan, Ran

\* What a step does to a task's status
LEMMA StepTask ==
    ASSUME Inv, HandsInv, AllHeld, AllPlaced, AllRan, NEW w \in Workers,
           Scheduler(w) \/ User(w) \/ SpuriousWakeup(w), ~NotifyExit(w)
    PROVE  /\ AllPlaced' /\ AllRan'
           /\ \/ StatusKept \/ Spawned
              \/ TaskIds' = TaskIds /\ \E t \in TaskIds :
                    /\ \A u \in TaskIds : u # t => tasks'[u].status = tasks[u].status
                    /\ \/ tasks[t].status = "ready"
                       \/ tasks[t].status # "ready" /\ tasks'[t].status = "done"
<1>1. ASSUME UNCHANGED <<deque, chan_tasks, hand, tasks>> PROVE AllPlaced' /\ StatusKept
  <2>1. StatusKept
    BY <1>1 DEF StatusKept, TaskIds
  <2> QED BY <1>1, <2>1, SamePlace DEF AllPlaced, StatusKept
<1>2. ASSUME UNCHANGED stack, StatusKept \/ Spawned PROVE AllRan'
  <2>1. \A t : Stacked(t)' <=> Stacked(t)
    BY <1>2 DEF Stacked
  <2> QED BY <1>2, <2>1, RanKept
<1>3. ASSUME NEW a, Reframed(w, a), StatusKept PROVE AllRan'
  BY <1>3, ReframedStacks, RanKept
<1>4. CASE ShareDoneRun(w) \/ RunPopped(w)
  <2>1. Start(w) /\ UNCHANGED <<deque, chan_tasks>>
    BY <1>4 DEF ShareDoneRun, RunPopped
  <2>2. hand[w] \in TaskIds
    <3>1. hand[w] \in TaskIds \cup {NoTask, ExitFn} /\ LocalInv(w)
      BY DEF Inv, RunOK
    <3> QED BY <1>4, <3>1 DEF ShareDoneRun, RunPopped, LocalInv, HandInv, NoRequest
  <2> QED BY <2>1, <2>2, StartPlaced
<1>5. CASE TaskReturn(w)
  <2>1. Current(w) \in TaskIds
    BY <1>5, CurrentType DEF TaskReturn, Inv, LocalInv, StackInv
  <2> QED BY <1>5, <2>1, TaskReturnPlaced
<1>6. CASE ForceReady(w)
  BY <1>3, <1>6, UpdatePlaced, Reframes
<1>7. CASE PopFailed(w) \/ RT_force_future(w) \/ RT_barrier(w) \/ BarrierReturn(w)
  <2>1. UNCHANGED <<deque, chan_tasks, hand, tasks>>
    BY <1>7 DEF PopFailed, RT_force_future, RT_barrier, BarrierReturn, work
  <2>2. AllPlaced' /\ StatusKept
    BY <1>1, <2>1
  <2> QED BY <1>2, <1>3, <1>7, <2>2, Reframes
<1> DEFINE stacking == \/ PopFailed(w) \/ ForceReady(w) \/ RT_force_future(w)
                       \/ RT_barrier(w) \/ BarrierReturn(w) \/ TaskReturn(w)
                       \/ ShareDoneRun(w) \/ RunPopped(w)
<1>8. CASE UNCHANGED stack /\ ~stacking
  <2> SUFFICES AllPlaced' /\ (StatusKept \/ Spawned)
    BY <1>2, <1>8
  <2>1. CASE RecvOwn(w) \/ RecvBehalf(w)
    BY <2>1, RecvPlaced
  <2>2. CASE ShareSend(w)
    BY <2>2, ShareSendPlaced
  <2>3. CASE RT_pop(w) \/ RecvTask(w)
    <3>1. hand[w] = NoTask /\ StatusKept
      BY <2>3 DEF HandsInv, HandUsed, RT_pop, RecvTask, Waiting, StatusKept, TaskIds
    <3> QED BY <2>3, <3>1, RTPopPlaced, RecvTaskPlaced
  <2>4. CASE EndIteration(w)
    BY <2>4, UpdatePlaced
  <2>5. CASE RT_push(w)
    BY <2>5, PushPlaced, PushSpawns DEF Inv
  <2>6. CASE ShareDoneExit(w)
    <3>1. hand[w] = ExitFn /\ hand' = [hand EXCEPT ![w] = NoTask]
          /\ UNCHANGED <<deque, chan_tasks, tasks>>
      BY <2>6 DEF ShareDoneExit, work
    <3>2. StatusKept
      BY <3>1 DEF StatusKept, TaskIds
    <3>3. \A t \in TaskIds, v \in Workers : InHand(v, t)' <=> InHand(v, t)
      BY <3>1 DEF InHand, Inv, RunOK, TaskIds, NoTask, ExitFn
    <3>4. \A t \in TaskIds : Placed(t)'
      BY <3>1, <3>3 DEF AllPlaced, Placed, Alone, Somewhere, InDeque, InChannel
    <3> QED BY <3>2, <3>4 DEF AllPlaced, StatusKept
  <2>7. CASE \/ RecvFailed(w) \/ StartBehalf(w) \/ ShareSignal(w) \/ ShareDone(w)
             \/ ReturnToBody(w) \/ BeginSteal(w) \/ RecvNoTask(w) \/ Resend(w)
             \/ NothingToRelay(w) \/ ForceNotReady(w) \/ WaitPeek(w) \/ Sleep(w) \/ Wake(w)
             \/ SignalExit(w) \/ ExitDone(w) \/ SpuriousWakeup(w) \/ RT_poll(w)
    <3>1. UNCHANGED <<deque, chan_tasks, hand, tasks>>
      BY <2>7 DEF RecvFailed, StartBehalf, ShareSignal, ShareDone, ReturnToBody,
         BeginSteal, RecvNoTask, Resend, NothingToRelay, ForceNotReady, WaitPeek, Sleep,
         Wake, SignalExit, ExitDone, SpuriousWakeup, RT_poll, work, control
    <3> QED BY <1>1, <3>1
  <2> QED BY <1>8, <2>1, <2>2, <2>3, <2>4, <2>5, <2>6, <2>7 DEF Scheduler, User
<1> QED BY <1>4, <1>5, <1>6, <1>7, <1>8, StacksKept

LEMMA NextTask == Inv /\ HandsInv /\ TokenInv /\ TaskInv /\ [Next]_vars => TaskInv'
<1> SUFFICES ASSUME Inv, HandsInv, TokenInv, TaskInv, [Next]_vars, ~Exiting'
             PROVE  AllPlaced' /\ AllRan'
  BY DEF TaskInv
<1>1. ASSUME NEW w \in Workers, Scheduler(w) \/ User(w) \/ SpuriousWakeup(w)
      PROVE  AllPlaced' /\ AllRan'
  <2>1. ~Exiting
    BY <1>1, ExitIsFinal
  <2>2. ~NotifyExit(w)
    BY <2>1 DEF NotifyExit, Exiting
  <2> QED BY <1>1, <2>1, <2>2, StepTask DEF TokenInv, TaskInv
<1>2. CASE UNCHANGED vars
  <2>1. ~Exiting /\ StatusKept /\ UNCHANGED <<deque, hand, chan_tasks, stack>>
    BY <1>2 DEF vars, work, control, Exiting, StatusKept, TaskIds
  <2>2. AllPlaced /\ AllRan /\ \A t : Stacked(t)' <=> Stacked(t)
    BY <2>1 DEF TaskInv, Stacked
  <2> QED BY <2>1, <2>2, SamePlace, RanKept DEF AllPlaced, StatusKept
<1> QED BY <1>1, <1>2 DEF Next, Terminated

\* Until shutdown, a task that has not been run waits in one place, and one that
\* is being run is on a stack.
THEOREM TaskInvHolds == Spec => []TaskInv
<1>1. Init => TaskInv
  BY InitTask
<1>2. Inv /\ HandsInv /\ TokenInv /\ TaskInv /\ [Next]_vars => TaskInv'
  BY NextTask
<1> QED BY <1>1, <1>2, InvHolds, HandsFree, TokenInvHolds, PTL DEF Spec

LEMMA PlaceForm ==
    ASSUME NEW t, NEW x
    PROVE  x \in Places(t) <=>
            \E w \in Workers :
                \/ \E i \in 1 .. Len(deque[w]) : deque[w][i] = t /\ x = <<"deque", w, i>>
                \/ hand[w] = t /\ x = <<"hand", w, 1>>
                \/ \E c \in Chans : \E i \in 1 .. Len(chan_tasks[w][c]) :
                        chan_tasks[w][c][i] = t /\ x = <<"channel", w, i>>
BY DEF Places, Indices

LEMMA PlacedCount ==
    ASSUME NEW t, Placed(t)
    PROVE  Cardinality(Places(t)) = IF tasks[t].status = "ready" THEN 1 ELSE 0
<1>1. Alone(t) /\ (tasks[t].status = "ready" <=> Somewhere(t))
  BY DEF Placed
<1>2. CASE ~Somewhere(t)
  <2>1. \A x : x \notin Places(t)
    BY <1>2, PlaceForm DEF Somewhere, InDeque, InHand, InChannel, Has
  <2>2. Places(t) = {}
    BY <2>1
  <2> QED BY <1>1, <1>2, <2>2, FS_EmptySet
<1>3. CASE Somewhere(t)
  <2>1. PICK x : x \in Places(t)
    <3>1. PICK w \in Workers : InDeque(w, t) \/ InHand(w, t) \/ \E c \in Chans : InChannel(w, c, t)
      BY <1>3 DEF Somewhere
    <3>2. CASE InDeque(w, t)
      <4>1. PICK i \in 1 .. Len(deque[w]) : deque[w][i] = t
        BY <3>2 DEF InDeque, Has
      <4>2. <<"deque", w, i>> \in Places(t)
        BY <4>1, PlaceForm
      <4> QED BY <4>2
    <3>3. CASE InHand(w, t)
      <4>1. <<"hand", w, 1>> \in Places(t)
        BY <3>3, PlaceForm DEF InHand
      <4> QED BY <4>1
    <3>4. CASE \E c \in Chans : InChannel(w, c, t)
      <4>1. PICK c \in Chans : InChannel(w, c, t)
        BY <3>4
      <4>2. PICK i \in 1 .. Len(chan_tasks[w][c]) : chan_tasks[w][c][i] = t
        BY <4>1 DEF InChannel, Has
      <4>3. <<"channel", w, i>> \in Places(t)
        BY <4>1, <4>2, PlaceForm
      <4> QED BY <4>3
    <3> QED BY <3>1, <3>2, <3>3, <3>4
  <2>2. ASSUME NEW y \in Places(t) PROVE y = x
    <3>1. ASSUME NEW w \in Workers, NEW i \in 1 .. Len(deque[w]), deque[w][i] = t,
                 x = <<"deque", w, i>>
          PROVE  y = x
      <4>1. InDeque(w, t)
        BY <3>1 DEF InDeque, Has
      <4>2. /\ \A v \in Workers : ~InHand(v, t) /\ \A c \in Chans : ~InChannel(v, c, t)
            /\ \A v \in Workers : InDeque(v, t) => v = w
        BY <1>1, <4>1 DEF Alone
      <4>3. PICK v \in Workers : \E j \in 1 .. Len(deque[v]) :
                deque[v][j] = t /\ y = <<"deque", v, j>>
        BY <2>2, <4>2, PlaceForm DEF InHand, InChannel, Has
      <4>4. v = w
        BY <4>2, <4>3 DEF InDeque, Has
      <4> QED BY <1>1, <3>1, <4>3, <4>4 DEF Alone, Repeats
    <3>2. ASSUME NEW w \in Workers, hand[w] = t, x = <<"hand", w, 1>> PROVE y = x
      <4>1. /\ \A v \in Workers : ~InDeque(v, t) /\ \A c \in Chans : ~InChannel(v, c, t)
            /\ \A v \in Workers : InHand(v, t) => v = w
        BY <1>1, <3>2 DEF Alone, InHand
      <4> QED BY <2>2, <3>2, <4>1, PlaceForm DEF InDeque, InHand, InChannel, Has
    <3>3. ASSUME NEW w \in Workers, NEW c \in Chans, NEW i \in 1 .. Len(chan_tasks[w][c]),
                 chan_tasks[w][c][i] = t, x = <<"channel", w, i>>
          PROVE  y = x
      <4>1. InChannel(w, c, t)
        BY <3>3 DEF InChannel, Has
      <4>2. /\ \A v \in Workers : ~InHand(v, t) /\ ~InDeque(v, t)
            /\ \A v \in Workers, d \in Chans : InChannel(v, d, t) => v = w /\ d = c
        BY <1>1, <4>1 DEF Alone
      <4>3. PICK v \in Workers, d \in Chans : \E j \in 1 .. Len(chan_tasks[v][d]) :
                chan_tasks[v][d][j] = t /\ y = <<"channel", v, j>>
        BY <2>2, <4>2, PlaceForm DEF InHand, InDeque, Has
      <4>4. v = w /\ d = c
        BY <4>2, <4>3 DEF InChannel, Has
      <4> QED BY <1>1, <3>3, <4>3, <4>4 DEF Alone, Repeats
    <3> QED BY <2>1, <3>1, <3>2, <3>3, PlaceForm
  <2>3. Places(t) = {x}
    BY <2>1, <2>2
  <2> QED BY <1>1, <1>3, <2>3, FS_Singleton
<1> QED BY <1>2, <1>3

=============================================================================
