--------------------------- MODULE ChannelProofs ----------------------------
(***************************************************************************)
(* Proofs about Channel, for any number of senders and receivers, any      *)
(* capacity and any of the implementations: no two copies meet in a slot   *)
(* of the buffer, and the channel is a bounded FIFO queue.                 *)
(***************************************************************************)
EXTENDS Channel, SequenceTheorems, TLAPS

-----------------------------------------------------------------------------
(* The inductive invariant *)

\* The number of slots from index h on to index i, going round the buffer
Ahead(h, i) == IF i >= h THEN i - h ELSE size + i - h

\* The number of items between h and t, what NUM_ITEMS computes
Count(h, t) == IF Unbuffered THEN h ELSE Ahead(h, t)

Items == Count(head, tail)

Room == IF Unbuffered THEN 1 ELSE n

\* Slot i holds an item that is in the channel.
Filled(i) == IF Unbuffered THEN head = 1 ELSE Ahead(head, i) < Items

Front == IF Unbuffered THEN 0 ELSE head

\* Every thread runs the code of its end of the channel, and takes a lock only
\* if there is one; what a check has read is forgotten when it is over.
ThreadInv(t) ==
    /\ t \in Senders => pc[t] \in {"user", "check", "lock", "copy", "advance"}
    /\ t \in Senders /\ pc[t] = "lock" => SendLock # Nobody
    /\ t \in Receivers => pc[t] # "user"
    /\ t \in Receivers /\ pc[t] = "lock" => RecvLock # Nobody
    /\ pc[t] \notin {"check", "peek"} => obs[t] = Nothing
    /\ obs[t].head <= IF Unbuffered THEN 1 ELSE n

\* Whoever copies owns the lock of its end, if that has one; ...
LockInv ==
    /\ \A s \in Senders : Copying(s) /\ SendLock # Nobody => lock[SendLock] = s
    /\ \A r \in Receivers : Copying(r) /\ RecvLock # Nobody => lock[RecvLock] = r

\* ... if not, it is alone at its end.
SoleInv ==
    /\ Impl = "SPSC" => \A s, t \in Senders : Busy(s) /\ Busy(t) => s = t
    /\ Impl # "MPMC" => \A r, t \in Receivers : Busy(r) /\ Busy(t) => r = t

\* There is room for the item being sent, and an item to be received.
RoomInv ==
    /\ \A s \in Senders : Copying(s) => Items < Room
    /\ \A r \in Receivers : Copying(r) => Items > 0

\* The check of a single sender, or of a receiver that finds the channel closed,
\* sees at least as many items as there are: tail stands still, ...
SeesEnough(t) ==
    /\ obs[t].tail \in {NotRead, tail}
    /\ obs[t].head # NotRead => Items <= Count(obs[t].head, tail)

\* ... that of a single receiver no more than there are: head does.
SeesAtMost(r) ==
    /\ obs[r].head # NotRead =>
            IF Unbuffered THEN obs[r].head <= head ELSE obs[r].head = head
    /\ obs[r].tail # NotRead => Ahead(head, obs[r].tail) <= Items

CheckInv ==
    /\ Impl = "SPSC" => \A s \in Senders : pc[s] = "check" => SeesEnough(s)
    /\ Impl # "MPMC" => \A r \in Receivers : pc[r] = "check" => SeesAtMost(r)
    /\ ~use.reopened => \A r \in Receivers : pc[r] = "peek" => closed /\ SeesEnough(r)
    /\ closed => \A s \in Senders : pc[s] = "user"

\* The slots in use hold items, copied from the sender and to the receiver.
DataInv ==
    /\ \A i \in 0 .. n : Filled(i) => buffer[i] \in Values
    /\ \A s \in Senders : Busy(s) => item[s] \in Values
    /\ \A s \in Senders : pc[s] = "advance" => buffer[tail] = item[s]
    /\ \A r \in Receivers : pc[r] = "advance" => item[r] = buffer[Front]

Inv ==
    /\ TypeOK /\ LockInv /\ SoleInv /\ RoomInv /\ CheckInv /\ DataInv
    /\ \A t \in Threads : ThreadInv(t)

-----------------------------------------------------------------------------
(* Arithmetic modulo the size of the buffer *)

LEMMA UseType ==
    ASSUME use \in Uses
    PROVE  /\ n \in Nat /\ size \in Nat /\ size = n + 1
           /\ Impl \in {"MPMC", "MPSC", "SPSC"}
           /\ use.reopened \in BOOLEAN
           /\ use.receivers \subseteq Receivers
           /\ use.sends \in 0 .. MaxSends
BY ChannelAssumption DEF Use, n, size, Impl

\* A step changes nothing about the kind of channel.
LEMMA SameUse ==
    ASSUME use' = use
    PROVE  /\ n' = n /\ size' = size /\ Impl' = Impl /\ Unbuffered' = Unbuffered
           /\ SendLock' = SendLock /\ RecvLock' = RecvLock /\ Room' = Room
BY DEF n, size, Impl, Unbuffered, SendLock, RecvLock, Room

LEMMA AheadType ==
    ASSUME use \in Uses, NEW h \in 0 .. n, NEW i \in 0 .. n
    PROVE  /\ Ahead(h, i) \in 0 .. n
           /\ Ahead(h, i) = 0 <=> h = i
BY UseType DEF Ahead

LEMMA AheadModulo ==
    ASSUME use \in Uses, NEW h \in 0 .. n, NEW i \in 0 .. n
    PROVE  (size + i - h) % size = Ahead(h, i)
<1>1. ASSUME NEW a \in 0 .. n
      PROVE  a % size = a /\ (a + size) % size = a
  BY UseType
<1>2. CASE i >= h
  <2>1. i - h \in 0 .. n /\ size + i - h = (i - h) + size
    BY <1>2, UseType
  <2> QED
    BY <1>1, <1>2, <2>1 DEF Ahead
<1>3. CASE ~(i >= h)
  <2>1. size + i - h \in 0 .. n
    BY <1>3, UseType
  <2> QED
    BY <1>1, <1>3, <2>1 DEF Ahead
<1> QED
  BY <1>2, <1>3

\* Slots equally far ahead are the same.
LEMMA AheadInjective ==
    ASSUME use \in Uses, NEW h \in 0 .. n, NEW i \in 0 .. n, NEW j \in 0 .. n,
           Ahead(h, i) = Ahead(h, j)
    PROVE  i = j
BY UseType DEF Ahead

\* Moving the farther index on by one slot, ...
LEMMA AheadIncrement ==
    ASSUME use \in Uses, ~Unbuffered,
           NEW h \in 0 .. n, NEW i \in 0 .. n, Ahead(h, i) < n
    PROVE  INC(i) \in 0 .. n /\ Ahead(h, INC(i)) = Ahead(h, i) + 1
<1>1. INC(i) = IF i = n THEN 0 ELSE i + 1
  BY UseType DEF INC, Unbuffered
<1> QED
  BY <1>1, UseType DEF Ahead, Unbuffered

\* ... and the nearer one.
LEMMA AheadDecrement ==
    ASSUME use \in Uses, ~Unbuffered,
           NEW h \in 0 .. n, NEW i \in 0 .. n, Ahead(h, i) > 0
    PROVE  INC(h) \in 0 .. n /\ Ahead(INC(h), i) = Ahead(h, i) - 1
<1>1. INC(h) = IF h = n THEN 0 ELSE h + 1
  BY UseType DEF INC, Unbuffered
<1> QED
  BY <1>1, UseType DEF Ahead, Unbuffered

\* NUM_ITEMS, IS_FULL and IS_EMPTY in terms of the distance between the indices
LEMMA NumItems ==
    ASSUME use \in Uses, NEW o,
           Unbuffered => o.head \in 0 .. 1,
           ~Unbuffered => o.head \in 0 .. n /\ o.tail \in 0 .. n
    PROVE  /\ NUM_ITEMS(o) = Count(o.head, o.tail)
           /\ Count(o.head, o.tail) \in 0 .. Room
           /\ IS_FULL(o) <=> Count(o.head, o.tail) = Room
           /\ IS_EMPTY(o) <=> Count(o.head, o.tail) = 0
<1>1. CASE Unbuffered
  BY <1>1 DEF NUM_ITEMS, IS_FULL, IS_EMPTY, Count, Room
<1>2. CASE ~Unbuffered
  <2>1. (size + o.tail - o.head) % size = Ahead(o.head, o.tail)
    BY <1>2, AheadModulo
  <2>2. /\ Ahead(o.head, o.tail) \in 0 .. n
        /\ Ahead(o.head, o.tail) = 0 <=> o.head = o.tail
    BY <1>2, AheadType
  <2> QED
    BY <1>2, <2>1, <2>2, UseType DEF NUM_ITEMS, IS_FULL, IS_EMPTY, Count, Room
<1> QED
  BY <1>1, <1>2

\* The indices themselves
LEMMA ItemsNow ==
    ASSUME TypeOK
    PROVE  /\ Items \in 0 .. Room
           /\ NUM_ITEMS(Now) = Items
           /\ IS_FULL(Now) <=> Items = Room
           /\ IS_EMPTY(Now) <=> Items = 0
<1>1. Now.head = head /\ Now.tail = tail
  BY DEF Now
<1> QED
  BY <1>1, NumItems DEF TypeOK, Items

-----------------------------------------------------------------------------
(* The invariant is preserved *)

\* As long as the indices and the buffer are left alone
LEMMA SameContents ==
    ASSUME UNCHANGED <<use, indices, buffer>>
    PROVE  /\ Items' = Items /\ Front' = Front
           /\ \A i : Filled(i)' <=> Filled(i)
           /\ \A h, i : Count(h, i)' = Count(h, i) /\ Ahead(h, i)' = Ahead(h, i)
BY SameUse DEF indices, Items, Count, Ahead, Filled, Front

LEMMA ObserveInv ==
    ASSUME Inv, NEW t \in Threads, Observe(t)
    PROVE  Inv'
<1> USE DEF Inv
<1>0. /\ UNCHANGED <<use, indices, buffer, closed, lock, item, pc>>
      /\ use \in Uses
      /\ \A u \in Threads \ {t} : obs'[u] = obs[u]
  BY DEF Observe, TypeOK
<1>1. \/ obs'[t].head = head /\ obs'[t].tail = obs[t].tail
      \/ ~Unbuffered /\ obs'[t].head = obs[t].head /\ obs'[t].tail = tail
  <2>1. PICK x \in Needed : obs' = [obs EXCEPT ![t][x] = Now[x]]
    BY DEF Observe
  <2>2. obs[t] \in [head : Int, tail : Int]
    BY UseType, <1>0 DEF TypeOK
  <2>3. CASE x = "head"
    BY <2>1, <2>2, <2>3 DEF TypeOK, Now
  <2>4. CASE x = "tail"
    BY <2>1, <2>2, <2>4 DEF TypeOK, Now, Needed
  <2> QED
    BY <2>3, <2>4 DEF Needed
<1>2. obs' \in [Threads -> [head : -1 .. n + 1, tail : -1 .. n]]
  <2>1. head \in -1 .. n + 1 /\ tail \in -1 .. n
    BY UseType, <1>0 DEF TypeOK, Unbuffered
  <2> QED
    BY <2>1 DEF Observe, TypeOK, Now, Needed
<1>3. TypeOK'
  BY <1>0, <1>2, SameUse DEF Observe, TypeOK, indices
<1>4. ASSUME NEW u \in Threads
      PROVE  ThreadInv(u)'
  BY <1>0, <1>1, SameUse, UseType DEF Observe, TypeOK, indices, ThreadInv
<1>5. LockInv' /\ SoleInv' /\ RoomInv' /\ DataInv'
  BY <1>0, SameUse, SameContents
  DEF LockInv, SoleInv, RoomInv, DataInv, Copying, Busy, indices
<1>6. SeesEnough(t) => SeesEnough(t)'
  BY <1>0, <1>1, SameContents, ItemsNow, UseType
  DEF TypeOK, SeesEnough, Items, indices, Room
<1>7. SeesAtMost(t) => SeesAtMost(t)'
  BY <1>0, <1>1, SameUse, SameContents, ItemsNow, UseType
  DEF TypeOK, SeesAtMost, Items, Count, indices, Room
<1>8. ASSUME NEW u \in Threads, u # t
      PROVE  /\ SeesEnough(u)' <=> SeesEnough(u)
             /\ SeesAtMost(u)' <=> SeesAtMost(u)
  BY <1>0, <1>8, SameUse, SameContents DEF SeesEnough, SeesAtMost, indices
<1>9. CheckInv'
  BY <1>0, <1>6, <1>7, <1>8, SameUse DEF CheckInv, Threads
<1> QED
  BY <1>3, <1>4, <1>5, <1>9

\* A step of thread t that moves no index and does not touch the buffer
PrivateStep(t) ==
    /\ UNCHANGED <<use, indices, buffer, closed>>
    /\ \A u \in Threads \ {t} : /\ pc'[u] = pc[u]
                                /\ obs'[u] = obs[u]
                                /\ item'[u] = item[u]
                                /\ \A l \in DOMAIN lock : lock[l] = u => lock'[l] = u

\* What thread t has to see to in such a step, a check that goes on aside
SenderDuty(s) ==
    /\ Busy(s)' => ~closed /\ item'[s] \in Values /\ SendAllowed(s)
    /\ Copying(s)' => Items < Room
    /\ Copying(s)' /\ SendLock # Nobody => lock'[SendLock] = s
    /\ pc'[s] # "advance"

ReceiverDuty(r) ==
    /\ Busy(r)' => RecvAllowed(r)
    /\ Copying(r)' => Items > 0
    /\ Copying(r)' /\ RecvLock # Nobody => lock'[RecvLock] = r
    /\ pc'[r] = "advance" => item'[r] = buffer[Front]
    /\ pc'[r] = "peek" /\ ~use.reopened => closed

LEMMA PrivateStepInv ==
    ASSUME Inv, NEW t \in Threads, PrivateStep(t),
           TypeOK', ThreadInv(t)', obs'[t] = Nothing,
           t \in Senders => SenderDuty(t),
           t \in Receivers => ReceiverDuty(t)
    PROVE  Inv'
<1> USE DEF Inv
<1>0. /\ UNCHANGED <<use, indices, buffer, closed>> /\ use \in Uses
      /\ Senders \cap Receivers = {}
      /\ Senders \subseteq Threads /\ Receivers \subseteq Threads
  BY ChannelAssumption DEF PrivateStep, TypeOK, Threads
<1>1. ASSUME NEW u \in Threads, u # t
      PROVE  /\ pc'[u] = pc[u] /\ obs'[u] = obs[u] /\ item'[u] = item[u]
             /\ ThreadInv(u)'
             /\ Busy(u)' <=> Busy(u)
             /\ Copying(u)' <=> Copying(u)
             /\ SeesEnough(u)' <=> SeesEnough(u)
             /\ SeesAtMost(u)' <=> SeesAtMost(u)
  BY <1>0, <1>1, SameUse, SameContents
  DEF PrivateStep, ThreadInv, Busy, Copying, SeesEnough, SeesAtMost, indices
<1>2. ASSUME NEW u \in Threads, u # t
      PROVE  /\ u \in Senders /\ Copying(u) /\ SendLock # Nobody => lock'[SendLock] = u
             /\ u \in Receivers /\ Copying(u) /\ RecvLock # Nobody => lock'[RecvLock] = u
  BY <1>2 DEF PrivateStep, LockInv, SendLock, RecvLock, TypeOK
<1>3. LockInv'
  BY <1>0, <1>1, <1>2, SameUse DEF LockInv, SenderDuty, ReceiverDuty
<1>4. SoleInv'
  BY <1>0, <1>1, SameUse
  DEF SoleInv, SenderDuty, ReceiverDuty, SendAllowed, RecvAllowed
<1>5. RoomInv'
  BY <1>0, <1>1, SameUse, SameContents DEF RoomInv, SenderDuty, ReceiverDuty
<1>6. SeesEnough(t)' /\ SeesAtMost(t)'
  BY <1>0 DEF SeesEnough, SeesAtMost, Nothing
<1>7. CheckInv'
  BY <1>0, <1>1, <1>6, SameUse
  DEF CheckInv, SenderDuty, ReceiverDuty, Busy, ThreadInv
<1>8. DataInv'
  BY <1>0, <1>1, SameUse, SameContents
  DEF DataInv, SenderDuty, ReceiverDuty, indices
<1> QED
  BY <1>1, <1>3, <1>4, <1>5, <1>7, <1>8

LEMMA StartSendInv ==
    ASSUME Inv, NEW s \in Senders, StartSend(s)
    PROVE  Inv'
<1> USE DEF Inv, StartSend, Goto
<1>0. /\ s \in Threads /\ s \notin Receivers /\ use' = use /\ use \in Uses
      /\ ThreadInv(s) /\ obs[s] = Nothing
  BY ChannelAssumption DEF Threads, TypeOK, ThreadInv
<1>1. sent + 1 \in Values
  BY <1>0, UseType, ChannelAssumption DEF TypeOK, Values
<1>2. TypeOK'
  BY <1>0, <1>1, SameUse DEF TypeOK, Values, Labels, indices
<1>3. pc'[s] = "check" /\ item'[s] \in Values
  BY <1>0, <1>1 DEF TypeOK
<1>4. PrivateStep(s)
  BY <1>0 DEF PrivateStep, TypeOK
<1>5. ThreadInv(s)' /\ obs'[s] = Nothing
  BY <1>0, <1>3, SameUse DEF ThreadInv
<1>6. SenderDuty(s)
  BY <1>3 DEF SenderDuty, Busy, Copying
<1> QED
  BY <1>0, <1>2, <1>4, <1>5, <1>6, PrivateStepInv

\* A sender that fails keeps its item and tries again, or is done with it.
LEMMA SendFailsInv ==
    ASSUME Inv, NEW s \in Senders, Busy(s), ~Copying(s), SendFails(s),
           UNCHANGED <<use, indices, buffer, closed, lock, got, sent>>
    PROVE  Inv'
<1> USE DEF Inv, SendFails, Goto
<1>0. /\ s \in Threads /\ s \notin Receivers /\ use' = use /\ use \in Uses
      /\ ThreadInv(s)
  BY ChannelAssumption DEF Threads, TypeOK
<1>1. \/ pc'[s] = "check" /\ item'[s] = item[s]
      \/ pc'[s] = "user"
  BY <1>0 DEF TypeOK
<1>2. /\ nfail' \in [Senders -> 0 .. 3]
      /\ item' \in [Threads -> Values \cup {NoItem}]
      /\ pc' \in [Threads -> Labels]
  <2>1. /\ nfail[s] \in 0 .. 3 /\ nfail \in [Senders -> 0 .. 3]
        /\ item \in [Threads -> Values \cup {NoItem}]
        /\ pc \in [Threads -> Labels]
    BY DEF TypeOK
  <2>2. CASE /\ Goto(s, "check")
             /\ nfail' = [nfail EXCEPT ![s] = IF use.credits /\ @ < 3
                                              THEN @ + 1 ELSE @]
             /\ UNCHANGED item
    BY <1>0, <2>1, <2>2 DEF Labels
  <2>3. CASE /\ Goto(s, "user")
             /\ item' = [item EXCEPT ![s] = NoItem]
             /\ nfail' = [nfail EXCEPT ![s] = 0]
    BY <1>0, <2>1, <2>3 DEF Labels
  <2> QED
    BY <2>2, <2>3
<1>3. obs' \in [Threads -> [head : -1 .. n + 1, tail : -1 .. n]] /\ obs'[s] = Nothing
  BY <1>0, UseType DEF TypeOK, Nothing, NotRead
<1>4. TypeOK'
  BY <1>0, <1>2, <1>3, SameUse DEF TypeOK, indices
<1>5. PrivateStep(s)
  BY <1>0 DEF PrivateStep, TypeOK
<1>6. ThreadInv(s)'
  BY <1>0, <1>1, <1>3, SameUse, UseType DEF ThreadInv, Nothing, NotRead
<1>7. SenderDuty(s)
  BY <1>0, <1>1 DEF SenderDuty, Busy, Copying, CheckInv, DataInv, SendAllowed, SoleInv
<1> QED
  BY <1>0, <1>3, <1>4, <1>5, <1>6, <1>7, PrivateStepInv

\* What a completed check of thread t says about the indices it has read
LEMMA ChecksRead ==
    ASSUME Inv, NEW t \in Threads, Read(t)
    PROVE  LET c == Count(obs[t].head, obs[t].tail)
           IN  /\ obs[t].head # NotRead
               /\ ~Unbuffered => obs[t].head \in 0 .. n /\ obs[t].tail \in 0 .. n
               /\ c \in 0 .. Room
               /\ NUM_ITEMS(obs[t]) = c
               /\ IS_FULL(obs[t]) <=> c = Room
               /\ IS_EMPTY(obs[t]) <=> c = 0
<1>1. obs[t].head # NotRead /\ (~Unbuffered => obs[t].tail # NotRead)
  BY DEF Read, Needed
<1>2. /\ obs[t].head \in -1 .. n + 1 /\ obs[t].tail \in -1 .. n
      /\ obs[t].head <= IF Unbuffered THEN 1 ELSE n
      /\ use \in Uses
  BY DEF Inv, TypeOK, ThreadInv
<1>3. /\ Unbuffered => obs[t].head \in 0 .. 1
      /\ ~Unbuffered => obs[t].head \in 0 .. n /\ obs[t].tail \in 0 .. n
  BY <1>1, <1>2, UseType DEF NotRead
<1> QED
  BY <1>1, <1>2, <1>3, NumItems

\* There is room when a single sender's check has found some, ...
LEMMA RoomSeen ==
    ASSUME Inv, NEW s \in Senders, Impl = "SPSC", pc[s] = "check", Read(s),
           ~IS_FULL(obs[s])
    PROVE  Items < Room
<1>1. /\ SeesEnough(s) /\ s \in Threads /\ Items \in 0 .. Room /\ Room \in Nat
      /\ use \in Uses
  BY ItemsNow, UseType DEF Inv, CheckInv, Threads, Room, TypeOK
<1>2. Count(obs[s].head, tail) = Count(obs[s].head, obs[s].tail)
  BY <1>1, ChecksRead DEF SeesEnough, Count, NotRead
<1> QED
  BY <1>1, <1>2, ChecksRead DEF SeesEnough

\* ... an item when a single receiver's check has found one, ...
LEMMA ItemSeen ==
    ASSUME Inv, NEW r \in Receivers, Impl # "MPMC", pc[r] = "check", Read(r),
           ~IS_EMPTY(obs[r])
    PROVE  Items > 0
<1>1. /\ SeesAtMost(r) /\ r \in Threads /\ Items \in 0 .. Room /\ Room \in Nat
      /\ use \in Uses /\ head \in Int
  BY ItemsNow, UseType DEF Inv, CheckInv, Threads, Room, TypeOK
<1>2. CASE Unbuffered
  BY <1>1, <1>2, ChecksRead DEF SeesAtMost, Count, Items, Room
<1>3. CASE ~Unbuffered
  BY <1>1, <1>3, ChecksRead, UseType DEF SeesAtMost, Count, NotRead, Room
<1> QED
  BY <1>2, <1>3

\* ... and none is left when channel_peek finds none in a channel closed for good.
LEMMA DrainedSeen ==
    ASSUME Inv, NEW r \in Receivers, ~use.reopened, pc[r] = "peek", Read(r),
           Drained(obs[r])
    PROVE  Items = 0
<1>1. /\ SeesEnough(r) /\ r \in Threads /\ Items \in 0 .. Room /\ Room \in Nat
      /\ use \in Uses
  BY ItemsNow, UseType DEF Inv, CheckInv, Threads, Room, TypeOK
<1>2. Count(obs[r].head, tail) = Count(obs[r].head, obs[r].tail)
  BY <1>1, ChecksRead DEF SeesEnough, Count, NotRead
<1> QED
  BY <1>1, <1>2, ChecksRead DEF SeesEnough, Drained

LEMMA SendCheckInv ==
    ASSUME Inv, NEW s \in Senders, SendCheck(s)
    PROVE  Inv'
<1> USE DEF Inv, SendCheck
<1>0. /\ s \in Threads /\ s \notin Receivers /\ use' = use /\ use \in Uses
      /\ ThreadInv(s) /\ Busy(s) /\ ~Copying(s)
  BY ChannelAssumption DEF Threads, TypeOK, Busy, Copying
<1>1. CASE SendFails(s)
  BY <1>0, <1>1, SendFailsInv
<1>2. CASE ~IS_FULL(obs[s]) /\ ~SendFails(s)
  <2>1. obs' \in [Threads -> [head : -1 .. n + 1, tail : -1 .. n]] /\ obs'[s] = Nothing
    BY <1>0, <1>2, UseType DEF TypeOK, Nothing, NotRead
  <2>2. /\ pc' \in [Threads -> Labels]
        /\ pc'[s] = IF SendLock = Nobody THEN "copy" ELSE "lock"
        /\ item' = item
    BY <1>0, <1>2 DEF TypeOK, Goto, Labels
  <2>3. TypeOK'
    BY <1>0, <1>2, <2>1, <2>2, SameUse DEF TypeOK, indices
  <2>4. PrivateStep(s)
    BY <1>0, <1>2 DEF PrivateStep, TypeOK, Goto
  <2>5. ThreadInv(s)'
    BY <1>0, <2>1, <2>2, SameUse, UseType DEF ThreadInv, Nothing, NotRead
  <2>6. SenderDuty(s)
    BY <1>0, <1>2, <2>2, RoomSeen
    DEF SenderDuty, Busy, Copying, CheckInv, DataInv, SendAllowed, SoleInv, SendLock,
        Nobody
  <2> QED
    BY <1>0, <2>1, <2>3, <2>4, <2>5, <2>6, PrivateStepInv
<1> QED
  BY <1>1, <1>2

LEMMA SendLockedInv ==
    ASSUME Inv, NEW s \in Senders, SendLocked(s)
    PROVE  Inv'
<1> USE DEF Inv, SendLocked
<1>0. /\ s \in Threads /\ s \notin Receivers /\ use' = use /\ use \in Uses
      /\ ThreadInv(s) /\ Busy(s) /\ ~Copying(s)
      /\ SendLock \in {"head_lock", "tail_lock"}
  BY ChannelAssumption DEF Threads, TypeOK, Busy, Copying, ThreadInv, SendLock
<1>1. CASE lock[SendLock] = Nobody /\ SendRefused(s)
  BY <1>0, <1>1, SendFailsInv DEF SendRefused
<1>2. CASE Acquire(s, SendLock) /\ SendRecheck(s)
  <2>0. obs'[s] = Nothing /\ obs' = obs
    BY <1>0, <1>2 DEF ThreadInv, SendRecheck
  <2>1. lock' \in [{"head_lock", "tail_lock"} -> Threads \cup {Nobody}]
    BY <1>0, <1>2 DEF TypeOK, Acquire
  <2>2. /\ pc' \in [Threads -> Labels] /\ pc'[s] = "copy" /\ item' = item
    BY <1>0, <1>2 DEF TypeOK, Goto, Labels, SendRecheck
  <2>3. TypeOK'
    BY <1>0, <1>2, <2>1, <2>2, SameUse DEF TypeOK, indices, SendRecheck
  <2>4. PrivateStep(s)
    BY <1>0, <1>2, ChannelAssumption
    DEF PrivateStep, TypeOK, Goto, SendRecheck, Acquire, Threads
  <2>5. ThreadInv(s)'
    BY <1>0, <2>0, <2>2, SameUse DEF ThreadInv
  <2>6. Items < Room /\ lock'[SendLock] = s
    BY <1>0, <1>2, ItemsNow, UseType DEF SendRecheck, Acquire, TypeOK, Room
  <2>7. SenderDuty(s)
    BY <1>0, <2>2, <2>6
    DEF SenderDuty, Busy, CheckInv, DataInv, SendAllowed, SoleInv
  <2> QED
    BY <1>0, <2>0, <2>3, <2>4, <2>5, <2>7, PrivateStepInv
<1> QED
  BY <1>1, <1>2

LEMMA RangeClosedInv ==
    ASSUME Inv, NEW r \in Receivers, RangeClosed(r)
    PROVE  Inv'
<1> USE DEF Inv, RangeClosed, Goto
<1>0. /\ r \in Threads /\ r \notin Senders /\ use' = use /\ use \in Uses
      /\ ThreadInv(r) /\ obs'[r] = Nothing
  BY ChannelAssumption DEF Threads, TypeOK, ThreadInv
<1>1. /\ pc' \in [Threads -> Labels]
      /\ pc'[r] = IF closed THEN "peek" ELSE "check"
  BY <1>0 DEF TypeOK, Labels
<1>2. TypeOK'
  BY <1>0, <1>1, SameUse DEF TypeOK, indices
<1>3. PrivateStep(r)
  BY <1>0 DEF PrivateStep, TypeOK
<1>4. ThreadInv(r)'
  BY <1>0, <1>1, SameUse DEF ThreadInv
<1>5. ReceiverDuty(r)
  BY <1>1 DEF ReceiverDuty, Busy, Copying
<1> QED
  BY <1>0, <1>2, <1>3, <1>4, <1>5, PrivateStepInv

LEMMA RangePeekInv ==
    ASSUME Inv, NEW r \in Receivers, RangePeek(r)
    PROVE  Inv'
<1> USE DEF Inv, RangePeek, Goto
<1>0. /\ r \in Threads /\ r \notin Senders /\ use' = use /\ use \in Uses
      /\ ThreadInv(r)
  BY ChannelAssumption DEF Threads, TypeOK
<1>1. /\ pc' \in [Threads -> Labels]
      /\ pc'[r] = IF Drained(obs[r]) THEN "done" ELSE "check"
  BY <1>0 DEF TypeOK, Labels
<1>2. obs' \in [Threads -> [head : -1 .. n + 1, tail : -1 .. n]] /\ obs'[r] = Nothing
  BY <1>0, UseType DEF TypeOK, Nothing, NotRead
<1>3. TypeOK'
  BY <1>0, <1>1, <1>2, SameUse DEF TypeOK, indices
<1>4. PrivateStep(r)
  BY <1>0 DEF PrivateStep, TypeOK
<1>5. ThreadInv(r)'
  BY <1>0, <1>1, <1>2, SameUse, UseType DEF ThreadInv, Nothing, NotRead
<1>6. ReceiverDuty(r)
  BY <1>1 DEF ReceiverDuty, Busy, Copying
<1> QED
  BY <1>0, <1>2, <1>3, <1>4, <1>5, <1>6, PrivateStepInv

LEMMA RecvCheckInv ==
    ASSUME Inv, NEW r \in Receivers, RecvCheck(r)
    PROVE  Inv'
<1> USE DEF Inv, RecvCheck, Goto
<1>0. /\ r \in Threads /\ r \notin Senders /\ use' = use /\ use \in Uses
      /\ ThreadInv(r) /\ Busy(r)
  BY ChannelAssumption DEF Threads, TypeOK, Busy
<1>1. /\ pc' \in [Threads -> Labels]
      /\ pc'[r] = IF IS_EMPTY(obs[r]) THEN "range"
                  ELSE IF RecvLock = Nobody THEN "copy" ELSE "lock"
  BY <1>0 DEF TypeOK, Labels
<1>2. obs' \in [Threads -> [head : -1 .. n + 1, tail : -1 .. n]] /\ obs'[r] = Nothing
  BY <1>0, UseType DEF TypeOK, Nothing, NotRead
<1>3. TypeOK'
  BY <1>0, <1>1, <1>2, SameUse DEF TypeOK, indices
<1>4. PrivateStep(r)
  BY <1>0 DEF PrivateStep, TypeOK
<1>5. ThreadInv(r)'
  BY <1>0, <1>1, <1>2, SameUse, UseType DEF ThreadInv, Nothing, NotRead
<1>6. ReceiverDuty(r)
  BY <1>0, <1>1, ItemSeen
  DEF ReceiverDuty, Busy, Copying, RecvAllowed, SoleInv, RecvLock, Nobody
<1> QED
  BY <1>0, <1>2, <1>3, <1>4, <1>5, <1>6, PrivateStepInv

LEMMA RecvLockedInv ==
    ASSUME Inv, NEW r \in Receivers, RecvLocked(r)
    PROVE  Inv'
<1> USE DEF Inv, RecvLocked, Goto
<1>0. /\ r \in Threads /\ r \notin Senders /\ use' = use /\ use \in Uses
      /\ ThreadInv(r) /\ Busy(r) /\ obs'[r] = Nothing
      /\ RecvLock \in {"head_lock", "tail_lock"}
  BY ChannelAssumption DEF Threads, TypeOK, Busy, ThreadInv, RecvLock
<1>1. /\ pc' \in [Threads -> Labels]
      /\ lock' \in [{"head_lock", "tail_lock"} -> Threads \cup {Nobody}]
      /\ \/ pc'[r] = "copy" /\ Items > 0 /\ lock'[RecvLock] = r
         \/ pc'[r] = "range"
  <2>0. ~IS_EMPTY(Now) => Items > 0
    BY <1>0, ItemsNow, UseType DEF Room
  <2>1. CASE ~IS_EMPTY(Now) /\ Acquire(r, RecvLock) /\ Goto(r, "copy")
    BY <1>0, <2>0, <2>1 DEF TypeOK, Labels, Acquire
  <2>2. CASE UNCHANGED lock /\ Goto(r, "range")
    BY <1>0, <2>2 DEF TypeOK, Labels
  <2> QED
    BY <2>1, <2>2
<1>2. TypeOK'
  BY <1>0, <1>1, SameUse DEF TypeOK, indices
<1>3. PrivateStep(r)
  <2>1. CASE Acquire(r, RecvLock) /\ Goto(r, "copy")
    BY <1>0, <2>1, ChannelAssumption DEF PrivateStep, TypeOK, Acquire, Threads
  <2>2. CASE UNCHANGED lock /\ Goto(r, "range")
    BY <1>0, <2>2 DEF PrivateStep, TypeOK
  <2> QED
    BY <2>1, <2>2
<1>4. ThreadInv(r)'
  BY <1>0, <1>1, SameUse DEF ThreadInv
<1>5. ReceiverDuty(r)
  BY <1>0, <1>1 DEF ReceiverDuty, Busy, Copying, RecvAllowed, SoleInv
<1> QED
  BY <1>0, <1>2, <1>3, <1>4, <1>5, PrivateStepInv

LEMMA RecvCopyInv ==
    ASSUME Inv, NEW r \in Receivers, RecvCopy(r)
    PROVE  Inv'
<1> USE DEF Inv, RecvCopy, Goto
<1>0. /\ r \in Threads /\ r \notin Senders /\ use' = use /\ use \in Uses
      /\ ThreadInv(r) /\ Busy(r) /\ Copying(r) /\ obs'[r] = Nothing
      /\ Front \in 0 .. n
  <2>1. Front \in 0 .. n
    BY UseType DEF TypeOK, Front
  <2> QED
    BY <2>1, ChannelAssumption DEF Threads, TypeOK, Busy, Copying, ThreadInv
<1>1. /\ pc' \in [Threads -> Labels] /\ pc'[r] = "advance"
      /\ item' \in [Threads -> Values \cup {NoItem}] /\ item'[r] = buffer[Front]
  <2>1. buffer[Front] \in Values \cup {NoItem}
    BY <1>0 DEF TypeOK
  <2>2. item' = [item EXCEPT ![r] = buffer[Front]]
    BY DEF Front
  <2> QED
    BY <1>0, <2>1, <2>2 DEF TypeOK, Labels
<1>2. TypeOK'
  BY <1>0, <1>1, SameUse DEF TypeOK, indices
<1>3. PrivateStep(r)
  BY <1>0 DEF PrivateStep, TypeOK
<1>4. ThreadInv(r)'
  BY <1>0, <1>1, SameUse DEF ThreadInv
<1>5. ReceiverDuty(r)
  BY <1>0, <1>1 DEF ReceiverDuty, Busy, RecvAllowed, SoleInv, RoomInv, LockInv
<1> QED
  BY <1>0, <1>2, <1>3, <1>4, <1>5, PrivateStepInv

LEMMA CloseOpenInv ==
    ASSUME Inv, Close \/ Open
    PROVE  Inv'
<1> USE DEF Inv, Close, Open
<1>1. TypeOK'
  <2>1. closed' \in BOOLEAN
    OBVIOUS
  <2> QED
    BY <2>1, SameUse DEF TypeOK, indices
<1>2. \A t \in Threads : ThreadInv(t)'
  BY SameUse DEF ThreadInv
<1>3. LockInv' /\ SoleInv' /\ RoomInv' /\ DataInv'
  BY SameUse, SameContents
  DEF LockInv, SoleInv, RoomInv, DataInv, Copying, Busy, indices
<1>4. CheckInv'
  <2>1. ASSUME NEW t \in Threads
        PROVE  /\ SeesEnough(t)' <=> SeesEnough(t)
               /\ SeesAtMost(t)' <=> SeesAtMost(t)
    BY SameUse, SameContents DEF SeesEnough, SeesAtMost, indices
  <2> QED
    BY <2>1, SameUse DEF CheckInv, Threads
<1> QED
  BY <1>1, <1>2, <1>3, <1>4

\* One sender and one receiver at a time copy, ...
LEMMA CopiesAlone ==
    ASSUME Inv
    PROVE  /\ \A s, t \in Senders : Copying(s) /\ Copying(t) => s = t
           /\ \A r, t \in Receivers : Copying(r) /\ Copying(t) => r = t
<1>1. (SendLock = Nobody => Impl = "SPSC") /\ (RecvLock = Nobody => Impl # "MPMC")
  BY DEF SendLock, RecvLock, Nobody
<1> QED
  BY <1>1 DEF Inv, LockInv, SoleInv, Busy, Copying

\* ... not both unless they are at different slots.
LEMMA CopiesApart ==
    ASSUME Inv, NEW s \in Senders, Copying(s), NEW r \in Receivers, Copying(r)
    PROVE  ~Unbuffered /\ head # tail
<1>1. use \in Uses /\ head \in Int /\ tail \in 0 .. n
      /\ (~Unbuffered => head \in 0 .. n)
  BY UseType DEF Inv, TypeOK
<1>2. Items > 0 /\ Items < Room
  BY DEF Inv, RoomInv
<1> QED
  BY <1>1, <1>2, AheadType DEF Items, Count, Room

LEMMA SendCopyInv ==
    ASSUME Inv, NEW s \in Senders, SendCopy(s)
    PROVE  Inv'
<1> USE DEF Inv, SendCopy, Goto
<1>0. /\ s \in Threads /\ s \notin Receivers /\ use' = use /\ use \in Uses
      /\ UNCHANGED indices
      /\ ThreadInv(s) /\ Busy(s) /\ Copying(s) /\ item[s] \in Values
      /\ Senders \cap Receivers = {}
      /\ Senders \subseteq Threads /\ Receivers \subseteq Threads
  BY ChannelAssumption DEF Threads, TypeOK, Busy, Copying, DataInv
<1>1. /\ pc' \in [Threads -> Labels] /\ pc'[s] = "advance"
      /\ \A u \in Threads \ {s} : pc'[u] = pc[u]
  BY <1>0 DEF TypeOK, Labels
<1>2. /\ tail \in 0 .. n /\ buffer \in [0 .. n -> Values \cup {NoItem}]
      /\ buffer' \in [0 .. n -> Values \cup {NoItem}]
      /\ buffer'[tail] = item[s]
      /\ \A i \in 0 .. n : buffer'[i] \in {buffer[i], item[s]}
      /\ \A i \in 0 .. n : i # tail => buffer'[i] = buffer[i]
  BY <1>0 DEF TypeOK
<1>3. TypeOK'
  BY <1>0, <1>1, <1>2, SameUse DEF TypeOK, indices
<1>4. \A t \in Threads : ThreadInv(t)'
  BY <1>0, <1>1, SameUse DEF ThreadInv
<1>5. \A t \in Threads : (Busy(t)' <=> Busy(t)) /\ (Copying(t)' <=> Copying(t))
  BY <1>0, <1>1 DEF Busy, Copying
<1>6. /\ Items' = Items /\ Front' = Front
      /\ \A i : Filled(i)' <=> Filled(i)
      /\ \A t \in Threads : /\ SeesEnough(t)' <=> SeesEnough(t)
                            /\ SeesAtMost(t)' <=> SeesAtMost(t)
  BY <1>0, SameUse
  DEF indices, Items, Count, Ahead, Filled, Front, SeesEnough, SeesAtMost
<1>7. LockInv' /\ SoleInv' /\ RoomInv'
  BY <1>0, <1>5, <1>6, SameUse DEF LockInv, SoleInv, RoomInv
<1>8. CheckInv'
  BY <1>0, <1>1, <1>6, SameUse DEF CheckInv, Busy
<1>9. DataInv'
  <2>1. ASSUME NEW r \in Receivers, pc'[r] = "advance"
        PROVE  item'[r] = buffer'[Front']
    <3>1. Copying(r) /\ item[r] = buffer[Front]
      BY <1>0, <1>1, <2>1 DEF DataInv, Copying
    <3>2. Front \in 0 .. n /\ Front # tail
      BY <1>0, <3>1, CopiesApart, UseType DEF Front, TypeOK
    <3> QED
      BY <1>2, <1>6, <3>1, <3>2
  <2>2. ASSUME NEW t \in Senders, pc'[t] = "advance"
        PROVE  t = s
    BY <1>0, <1>1, <2>2, CopiesAlone DEF Copying
  <2> QED
    BY <1>0, <1>2, <1>5, <1>6, <2>1, <2>2, SameUse DEF DataInv, indices
<1> QED
  BY <1>3, <1>4, <1>7, <1>8, <1>9

\* Which lock is released matters to nobody else who copies.
LEMMA SendReleases ==
    ASSUME Inv, NEW s \in Senders, Copying(s), Release(SendLock)
    PROVE  /\ lock' \in [{"head_lock", "tail_lock"} -> Threads \cup {Nobody}]
           /\ \A r \in Receivers : Copying(r) /\ RecvLock # Nobody => lock'[RecvLock] = r
<1>1. lock' \in [{"head_lock", "tail_lock"} -> Threads \cup {Nobody}]
  BY DEF Inv, TypeOK, Release
<1>2. ASSUME NEW r \in Receivers, Copying(r), RecvLock # Nobody
      PROVE  lock'[RecvLock] = r
  <2>1. SendLock # RecvLock
    BY <1>2, CopiesApart DEF SendLock, RecvLock, Nobody
  <2> QED
    BY <1>2, <2>1 DEF Inv, TypeOK, LockInv, Release, RecvLock
<1> QED
  BY <1>1, <1>2

LEMMA RecvReleases ==
    ASSUME Inv, NEW r \in Receivers, Copying(r), Release(RecvLock)
    PROVE  /\ lock' \in [{"head_lock", "tail_lock"} -> Threads \cup {Nobody}]
           /\ \A s \in Senders : Copying(s) /\ SendLock # Nobody => lock'[SendLock] = s
<1>1. lock' \in [{"head_lock", "tail_lock"} -> Threads \cup {Nobody}]
  BY DEF Inv, TypeOK, Release
<1>2. ASSUME NEW s \in Senders, Copying(s), SendLock # Nobody
      PROVE  lock'[SendLock] = s
  <2>1. SendLock # RecvLock
    BY <1>2, CopiesApart DEF SendLock, RecvLock, Nobody
  <2> QED
    BY <1>2, <2>1 DEF Inv, TypeOK, LockInv, Release, SendLock
<1> QED
  BY <1>1, <1>2

\* Sending adds the slot at tail to those in use, ...
LEMMA SendMoves ==
    ASSUME Inv, NEW s \in Senders, SendAdvance(s)
    PROVE  /\ use' = use /\ use \in Uses /\ Copying(s)
           /\ Items' = Items + 1 /\ Front' = Front
           /\ head' \in 0 .. (IF Unbuffered THEN 1 ELSE n) /\ tail' \in 0 .. n
           /\ ~Unbuffered => head' = head /\ Ahead(head, tail) < n
           /\ Unbuffered => head = 0 /\ head' = 1
           /\ \A i \in 0 .. n : Filled(i)' => Filled(i) \/ i = tail
<1>1. use' = use /\ use \in Uses /\ Copying(s) /\ Items < Room /\ Items \in 0 .. Room
  BY ItemsNow DEF SendAdvance, Inv, TypeOK, Copying, RoomInv
<1>2. CASE Unbuffered
  <2>1. head = 0 /\ head' = 1 /\ tail' = tail /\ tail = 0 /\ n = 0
    BY <1>1, <1>2, UseType DEF SendAdvance, Items, Count, Room, Inv, TypeOK, Unbuffered
  <2> QED
    BY <1>1, <1>2, <2>1, SameUse DEF Items, Count, Front, Filled
<1>3. CASE ~Unbuffered
  <2>1. /\ head \in 0 .. n /\ tail \in 0 .. n
        /\ head' = head /\ tail' = INC(tail) /\ Ahead(head, tail) < n
    BY <1>1, <1>3 DEF SendAdvance, Items, Count, Room, Inv, TypeOK
  <2>2. INC(tail) \in 0 .. n /\ Ahead(head, INC(tail)) = Ahead(head, tail) + 1
    BY <1>1, <1>3, <2>1, AheadIncrement
  <2>3. Items' = Items + 1 /\ Items = Ahead(head, tail)
    BY <1>1, <1>3, <2>1, <2>2, SameUse DEF Items, Count, Ahead
  <2>4. ASSUME NEW i \in 0 .. n, Filled(i)'
        PROVE  Filled(i) \/ i = tail
    <3>1. Ahead(head, i) < Items + 1
      BY <1>1, <1>3, <2>1, <2>3, <2>4, SameUse DEF Filled, Ahead
    <3>2. Ahead(head, i) \in 0 .. n /\ Ahead(head, tail) \in 0 .. n /\ n \in Nat
      BY <1>1, <2>1, AheadType, UseType
    <3>3. Ahead(head, i) < Items \/ Ahead(head, i) = Ahead(head, tail)
      BY <2>3, <3>1, <3>2
    <3> QED
      BY <1>1, <1>3, <2>1, <3>3, AheadInjective DEF Filled
  <2> QED
    BY <1>1, <1>3, <2>1, <2>2, <2>3, <2>4, SameUse DEF Front
<1> QED
  BY <1>2, <1>3

\* ... receiving takes the one at head away.
LEMMA RecvMoves ==
    ASSUME Inv, NEW r \in Receivers, RecvAdvance(r)
    PROVE  /\ use' = use /\ use \in Uses /\ Copying(r) /\ tail' = tail
           /\ Items > 0 /\ Items' = Items - 1
           /\ head' \in 0 .. (IF Unbuffered THEN 1 ELSE n)
           /\ Unbuffered => head = 1 /\ head' = 0
           /\ ~Unbuffered => Ahead(head, tail) > 0 /\ head' = INC(head)
           /\ Front \in 0 .. n /\ Filled(Front)
           /\ \A i \in 0 .. n : Filled(i)' => Filled(i)
<1>1. use' = use /\ use \in Uses /\ Copying(r) /\ Items > 0 /\ Items \in 0 .. Room
  BY ItemsNow DEF RecvAdvance, Inv, TypeOK, Copying, RoomInv
<1>2. CASE Unbuffered
  <2>1. head = 1 /\ head' = 0 /\ tail' = tail /\ n = 0
    BY <1>1, <1>2, UseType DEF RecvAdvance, Items, Count, Room, Inv, TypeOK, Unbuffered
  <2> QED
    BY <1>1, <1>2, <2>1, SameUse DEF Items, Count, Front, Filled
<1>3. CASE ~Unbuffered
  <2>1. /\ head \in 0 .. n /\ tail \in 0 .. n
        /\ head' = INC(head) /\ tail' = tail /\ Ahead(head, tail) > 0
    BY <1>1, <1>3 DEF RecvAdvance, Items, Count, Room, Inv, TypeOK
  <2>2. /\ INC(head) \in 0 .. n
        /\ \A i \in 0 .. n : Ahead(head, i) > 0 =>
                Ahead(INC(head), i) = Ahead(head, i) - 1
    BY <1>1, <1>3, <2>1, AheadDecrement
  <2>3. Items' = Items - 1 /\ Items = Ahead(head, tail)
    BY <1>1, <1>3, <2>1, <2>2, SameUse DEF Items, Count, Ahead
  <2>4. ASSUME NEW i \in 0 .. n, Filled(i)'
        PROVE  Filled(i)
    <3>1. Ahead(INC(head), i) < Items - 1
      BY <1>1, <1>3, <2>1, <2>3, <2>4, SameUse DEF Filled, Ahead
    <3>2. Ahead(head, i) \in 0 .. n /\ Ahead(head, tail) \in 0 .. n /\ n \in Nat
      BY <1>1, <2>1, AheadType, UseType
    <3>3. CASE Ahead(head, i) = 0
      BY <1>1, <1>3, <3>2, <3>3, <2>3 DEF Filled
    <3>4. CASE Ahead(head, i) > 0
      BY <1>3, <2>2, <2>3, <3>1, <3>2, <3>4 DEF Filled
    <3> QED
      BY <3>2, <3>3, <3>4
  <2>5. Front \in 0 .. n /\ Filled(Front)
    BY <1>1, <1>3, <2>1, <2>3, AheadType DEF Front, Filled
  <2> QED
    BY <1>1, <1>3, <2>1, <2>2, <2>3, <2>4, <2>5
<1> QED
  BY <1>2, <1>3

LEMMA SendAdvanceInv ==
    ASSUME Inv, NEW s \in Senders, SendAdvance(s)
    PROVE  Inv'
<1> USE DEF Inv
<1>0. /\ s \in Threads /\ s \notin Receivers /\ use' = use /\ use \in Uses
      /\ ThreadInv(s) /\ Copying(s) /\ Busy(s) /\ ~closed
      /\ Senders \cap Receivers = {}
      /\ Senders \subseteq Threads /\ Receivers \subseteq Threads
      /\ UNCHANGED <<buffer, closed, obs, got, sent>>
  BY ChannelAssumption DEF SendAdvance, Threads, TypeOK, Copying, Busy, CheckInv
<1>1. /\ pc' \in [Threads -> Labels] /\ pc'[s] = "user"
      /\ item' \in [Threads -> Values \cup {NoItem}]
      /\ nfail' \in [Senders -> 0 .. 3]
      /\ \A u \in Threads \ {s} : pc'[u] = pc[u] /\ item'[u] = item[u]
  BY <1>0 DEF SendAdvance, Goto, TypeOK, Labels
<1>2. /\ lock' \in [{"head_lock", "tail_lock"} -> Threads \cup {Nobody}]
      /\ \A r \in Receivers : Copying(r) /\ RecvLock # Nobody => lock'[RecvLock] = r
  BY <1>0, SendReleases DEF SendAdvance
<1>3. TypeOK'
  BY <1>0, <1>1, <1>2, SendMoves, SameUse DEF TypeOK
<1>4. ASSUME NEW t \in Threads
      PROVE  ThreadInv(t)'
  BY <1>0, <1>1, SameUse DEF ThreadInv, Copying
<1>5. /\ \A t \in Threads \ {s} : (Busy(t)' <=> Busy(t)) /\ (Copying(t)' <=> Copying(t))
      /\ ~Busy(s)' /\ ~Copying(s)'
      /\ \A t \in Senders \ {s} : ~Copying(t)
  BY <1>0, <1>1, CopiesAlone DEF Busy, Copying
<1>6. LockInv' /\ SoleInv'
  BY <1>0, <1>2, <1>5, SameUse DEF LockInv, SoleInv
<1>7. Items \in Int /\ Items' = Items + 1
  BY SendMoves, ItemsNow, UseType DEF TypeOK, Room
<1>8. RoomInv'
  BY <1>0, <1>5, <1>7, SameUse DEF RoomInv
<1>9. CheckInv'
  <2>1. ASSUME Impl = "SPSC", NEW t \in Senders
        PROVE  pc'[t] # "check"
    BY <1>0, <1>1, <2>1 DEF SoleInv, Busy
  <2>2. ASSUME NEW r \in Receivers, SeesAtMost(r)
        PROVE  SeesAtMost(r)'
    <3>1. CASE Unbuffered
      <4>1. obs[r].head <= 1 /\ obs[r].head \in Int
        BY <1>0, <3>1, UseType DEF TypeOK, ThreadInv
      <4>2. obs[r].tail \in -1 .. n /\ n = 0 /\ head = 0 /\ head' = 1
        BY <1>0, <3>1, SendMoves DEF TypeOK, Unbuffered
      <4>3. obs[r].tail # NotRead => Ahead(head, obs[r].tail)' = 0
        BY <1>0, <4>2, SameUse, UseType DEF Ahead, NotRead
      <4>4. Items' = 1
        BY <3>1, <4>2, <1>7 DEF Items, Count
      <4> QED
        BY <1>0, <3>1, <4>1, <4>2, <4>3, <4>4, SameUse DEF SeesAtMost
    <3>2. CASE ~Unbuffered
      <4>1. obs[r].tail \in -1 .. n /\ head \in 0 .. n /\ head' = head
        BY <1>0, <3>2, SendMoves DEF TypeOK
      <4>2. obs[r].tail # NotRead => Ahead(head, obs[r].tail) \in 0 .. n
        <5>1. obs[r].tail # NotRead => obs[r].tail \in 0 .. n
          BY <1>0, <4>1, UseType DEF NotRead
        <5> QED
          BY <1>0, <4>1, <5>1, AheadType
      <4>3. Ahead(head, obs[r].tail)' = Ahead(head, obs[r].tail)
        BY <1>0, <4>1, SameUse DEF Ahead
      <4> QED
        BY <1>0, <1>7, <2>2, <3>2, <4>1, <4>2, <4>3, SameUse, UseType DEF SeesAtMost
    <3> QED
      BY <3>1, <3>2
  <2> QED
    BY <1>0, <1>1, <2>1, <2>2, SameUse DEF CheckInv
<1>10. DataInv'
  <2>1. ASSUME NEW i \in 0 .. n, Filled(i)'
        PROVE  buffer[i] \in Values
    BY <1>0, <2>1, SendMoves DEF DataInv, SendAdvance
  <2>2. Front' = Front
    BY SendMoves
  <2>3. ASSUME NEW t \in Senders, pc'[t] = "advance"
        PROVE  FALSE
    BY <1>0, <1>1, <1>5, <2>3 DEF Copying
  <2> QED
    BY <1>0, <1>1, <1>5, <2>1, <2>2, <2>3, SameUse DEF DataInv
<1> QED
  BY <1>3, <1>4, <1>6, <1>8, <1>9, <1>10

LEMMA RecvAdvanceInv ==
    ASSUME Inv, NEW r \in Receivers, RecvAdvance(r)
    PROVE  Inv'
<1> USE DEF Inv
<1>0. /\ r \in Threads /\ r \notin Senders /\ use' = use /\ use \in Uses
      /\ ThreadInv(r) /\ Copying(r) /\ Busy(r)
      /\ Senders \cap Receivers = {}
      /\ Senders \subseteq Threads /\ Receivers \subseteq Threads
      /\ UNCHANGED <<tail, buffer, closed, obs, nfail, sent>>
  BY ChannelAssumption DEF RecvAdvance, Threads, TypeOK, Copying, Busy
<1>1. /\ pc' \in [Threads -> Labels] /\ pc'[r] = "range"
      /\ item' \in [Threads -> Values \cup {NoItem}]
      /\ \A u \in Threads \ {r} : pc'[u] = pc[u] /\ item'[u] = item[u]
  BY <1>0 DEF RecvAdvance, Goto, TypeOK, Labels
<1>2. /\ lock' \in [{"head_lock", "tail_lock"} -> Threads \cup {Nobody}]
      /\ \A s \in Senders : Copying(s) /\ SendLock # Nobody => lock'[SendLock] = s
  BY <1>0, RecvReleases DEF RecvAdvance
<1>3. got' \in [Receivers -> Seq(Values)]
  <2>1. item[r] \in Values
    BY RecvMoves DEF RecvAdvance, DataInv
  <2> QED
    BY <2>1 DEF RecvAdvance, TypeOK
<1>4. TypeOK'
  BY <1>0, <1>1, <1>2, <1>3, RecvMoves, SameUse DEF TypeOK
<1>5. ASSUME NEW t \in Threads
      PROVE  ThreadInv(t)'
  BY <1>0, <1>1, SameUse DEF ThreadInv, Copying
<1>6. /\ \A t \in Threads \ {r} : (Busy(t)' <=> Busy(t)) /\ (Copying(t)' <=> Copying(t))
      /\ ~Busy(r)' /\ ~Copying(r)'
      /\ \A t \in Receivers \ {r} : ~Copying(t)
  BY <1>0, <1>1, CopiesAlone DEF Busy, Copying
<1>7. LockInv' /\ SoleInv'
  BY <1>0, <1>2, <1>6, SameUse DEF LockInv, SoleInv
<1>8. Items \in Int /\ Items' = Items - 1 /\ Room \in Int
  BY RecvMoves, ItemsNow, UseType DEF TypeOK, Room
<1>9. RoomInv'
  BY <1>0, <1>6, <1>8, SameUse DEF RoomInv
<1>10. CheckInv'
  <2>1. ASSUME Impl # "MPMC", NEW t \in Receivers
        PROVE  pc'[t] # "check"
    BY <1>0, <1>1, <2>1 DEF SoleInv, Busy
  <2>2. ASSUME NEW t \in Threads, SeesEnough(t)
        PROVE  SeesEnough(t)'
    <3>1. obs[t].head # NotRead => Count(obs[t].head, tail) \in Int
      <4>1. /\ obs[t].head \in -1 .. n + 1 /\ tail \in 0 .. n /\ n \in Nat
            /\ size \in Nat
        BY <1>0, UseType DEF TypeOK
      <4> QED
        BY <4>1 DEF Count, Ahead
    <3>2. Count(obs[t].head, tail)' = Count(obs[t].head, tail)
      BY <1>0, SameUse DEF Count, Ahead
    <3> QED
      BY <1>0, <1>8, <2>2, <3>1, <3>2 DEF SeesEnough
  <2> QED
    BY <1>0, <1>1, <2>1, <2>2, SameUse DEF CheckInv
<1>11. DataInv'
  <2>1. \A i \in 0 .. n : Filled(i)' => Filled(i)
    BY RecvMoves
  <2>2. ASSUME NEW t \in Receivers, pc'[t] = "advance"
        PROVE  FALSE
    BY <1>0, <1>1, <1>6, <2>2 DEF Copying
  <2> QED
    BY <1>0, <1>1, <1>6, <2>1, <2>2, SameUse DEF DataInv
<1> QED
  BY <1>4, <1>5, <1>7, <1>9, <1>10, <1>11

-----------------------------------------------------------------------------
(* The invariant holds *)

LEMMA InitInv == Init => Inv
<1> SUFFICES ASSUME Init PROVE Inv
  OBVIOUS
<1> USE DEF Init
<1>1. /\ use \in Uses /\ n \in Nat /\ NoItem \in Values \cup {NoItem}
      /\ Senders \cap Receivers = {}
      /\ Senders \subseteq Threads /\ Receivers \subseteq Threads
  BY UseType, ChannelAssumption DEF Threads
<1>2. /\ \A t \in Threads : pc[t] \in Labels /\ pc[t] \notin {"check", "lock", "copy", "advance", "peek"}
      /\ \A s \in Senders : pc[s] = "user"
      /\ \A r \in Receivers : pc[r] # "user"
      /\ pc \in [Threads -> Labels]
  <2>1. ASSUME NEW t \in Threads
        PROVE  /\ pc[t] \in {"user", "range", "done"}
               /\ t \in Senders => pc[t] = "user"
               /\ t \in Receivers => pc[t] # "user"
    <3>1. t \in Threads /\ (t \in Senders => t \notin use.receivers)
      BY <1>1, UseType
    <3>2. pc[t] = CASE t \in Senders -> "user"
                    [] t \in use.receivers -> "range"
                    [] OTHER -> "done"
      OBVIOUS
    <3> HIDE DEF Init
    <3>3. CASE t \in Senders
      BY <1>1, <3>1, <3>2, <3>3
    <3>4. CASE t \in use.receivers
      BY <1>1, <3>1, <3>2, <3>4
    <3>5. CASE t \notin Senders /\ t \notin use.receivers
      BY <3>2, <3>5
    <3> QED
      BY <3>3, <3>4, <3>5
  <2>2. pc = [t \in Threads |-> pc[t]]
    OBVIOUS
  <2> QED
    BY <1>1, <2>1, <2>2 DEF Labels
<1>3. TypeOK
  <2>1. [r \in Receivers |-> <<>>] \in [Receivers -> Seq(Values)]
    OBVIOUS
  <2>2. sent \in 0 .. MaxSends
    BY ChannelAssumption
  <2>3. obs \in [Threads -> [head : -1 .. n + 1, tail : -1 .. n]]
    BY <1>1 DEF Nothing, NotRead
  <2>4. /\ buffer \in [0 .. n -> Values \cup {NoItem}]
        /\ lock \in [{"head_lock", "tail_lock"} -> Threads \cup {Nobody}]
        /\ item \in [Threads -> Values \cup {NoItem}]
        /\ nfail \in [Senders -> 0 .. 3]
    OBVIOUS
  <2>5. head = 0 /\ tail = 0 /\ closed = FALSE /\ got = [r \in Receivers |-> <<>>]
    OBVIOUS
  <2>6. head \in 0 .. (IF Unbuffered THEN 1 ELSE n) /\ tail \in 0 .. n
    BY <1>1, <2>5
  <2> QED
    BY <1>1, <1>2, <2>1, <2>2, <2>3, <2>4, <2>5, <2>6 DEF TypeOK
<1>4. head = 0 /\ tail = 0 /\ \A t \in Threads : obs[t] = Nothing
  OBVIOUS
<1> HIDE DEF Init
<1>5. \A t \in Threads : ThreadInv(t)
  BY <1>1, <1>2, <1>4 DEF ThreadInv, Nothing, NotRead
<1>6. \A t \in Threads : ~Busy(t) /\ ~Copying(t)
  BY <1>2 DEF Busy, Copying
<1>7. LockInv /\ SoleInv /\ RoomInv
  BY <1>1, <1>6 DEF LockInv, SoleInv, RoomInv
<1>8. CheckInv
  BY <1>1, <1>2 DEF CheckInv
<1>9. ASSUME NEW i \in 0 .. n
      PROVE  ~Filled(i)
  <2>1. Items = 0
    BY <1>4 DEF Items, Count, Ahead
  <2>2. Ahead(head, i) \in 0 .. n
    BY <1>1, <1>4, AheadType
  <2> QED
    BY <1>1, <1>4, <2>1, <2>2 DEF Filled
<1>10. DataInv
  BY <1>1, <1>2, <1>6, <1>9 DEF DataInv
<1> QED
  BY <1>3, <1>5, <1>7, <1>8, <1>10 DEF Inv

LEMMA NextInv == Inv /\ [Next]_vars => Inv'
<1> SUFFICES ASSUME Inv, [Next]_vars PROVE Inv'
  OBVIOUS
<1>1. ASSUME NEW s \in Senders, StartSend(s) \/ Sender(s)
      PROVE  Inv'
  BY <1>1, StartSendInv, ObserveInv, SendCheckInv, SendLockedInv, SendCopyInv,
     SendAdvanceInv
  DEF Sender, Threads
<1>2. ASSUME NEW r \in Receivers, Receiver(r)
      PROVE  Inv'
  BY <1>2, ObserveInv, RangeClosedInv, RangePeekInv, RecvCheckInv, RecvLockedInv,
     RecvCopyInv, RecvAdvanceInv
  DEF Receiver, Threads
<1>3. CASE Terminated \/ UNCHANGED vars
  <2>1. UNCHANGED vars
    BY <1>3 DEF Terminated
  <2> QED
    BY <2>1
    DEF vars, indices, Inv, TypeOK, LockInv, SoleInv, RoomInv, CheckInv, DataInv,
        ThreadInv, n, size, Impl, Unbuffered, SendLock, RecvLock, Room, Items, Count,
        Ahead, Filled, Front, Busy, Copying, SeesEnough, SeesAtMost
<1> QED
  BY <1>1, <1>2, <1>3, CloseOpenInv DEF Next

LEMMA InvHolds == Spec => []Inv
BY InitInv, NextInv, PTL DEF Spec

\* The indices of the channel and what the unlocked checks read of them stay
\* within the buffer, locks are held by threads, and what channel_receive returns
\* is an item, never a slot that nobody has written.
THEOREM ChannelTypes == Spec => []TypeOK
<1>1. Inv => TypeOK
  BY DEF Inv
<1> QED
  BY <1>1, InvHolds, PTL

\* The memcpy of channel_send and that of channel_receive are never in progress
\* on the same slot, nor are two of either kind, however many threads share the
\* channel, and although the checks are not locked.
THEOREM CopiesExclusive == Spec => []SlotsExclusive
<1>1. Inv => SlotsExclusive
  BY CopiesAlone, CopiesApart, ChannelAssumption DEF SlotsExclusive, Threads
<1> QED
  BY <1>1, InvHolds, PTL

-----------------------------------------------------------------------------
(* What the channel contains *)

\* The slot of the i-th item
Place(h, i) == IF Unbuffered THEN 0 ELSE (h + i - 1) % size

LEMMA PlaceAhead ==
    ASSUME use \in Uses, ~Unbuffered, NEW h \in 0 .. n, NEW i \in 1 .. size
    PROVE  Place(h, i) \in 0 .. n /\ Ahead(h, Place(h, i)) = i - 1
<1>1. ASSUME NEW a \in 0 .. n
      PROVE  a % size = a /\ (a + size) % size = a
  BY UseType
<1>2. h \in Int /\ i \in Int /\ n \in Nat /\ size = n + 1
  BY UseType
<1>3. CASE h + i - 1 <= n
  <2>1. Place(h, i) = h + i - 1
    BY <1>1, <1>2, <1>3 DEF Place
  <2> QED
    BY <1>2, <1>3, <2>1 DEF Ahead
<1>4. CASE ~(h + i - 1 <= n)
  <2>1. h + i - 1 - size \in 0 .. n /\ h + i - 1 = (h + i - 1 - size) + size
    BY <1>2, <1>4
  <2>2. Place(h, i) = h + i - 1 - size
    BY <1>1, <2>1 DEF Place
  <2> QED
    BY <1>2, <1>4, <2>1, <2>2 DEF Ahead
<1> QED
  BY <1>3, <1>4

ContentsFacts ==
    /\ Contents = [i \in 1 .. Items |-> buffer[Place(head, i)]]
    /\ Contents \in Seq(Values \cup {NoItem})
    /\ Len(Contents) = Items
    /\ Items = 0 <=> Contents = <<>>
    /\ \A i \in 1 .. Items : /\ Place(head, i) \in 0 .. n
                             /\ Contents[i] = buffer[Place(head, i)]

LEMMA ContentsType == TypeOK => ContentsFacts
<1> SUFFICES ASSUME TypeOK PROVE ContentsFacts
  OBVIOUS
<1>1. Contents = [i \in 1 .. Items |-> buffer[Place(head, i)]]
  <2>1. CASE Unbuffered
    BY <2>1 DEF Contents, Items, Count, Place
  <2>2. CASE ~Unbuffered
    BY <2>2, ItemsNow DEF Contents, Place
  <2> QED
    BY <2>1, <2>2
<1>2. Items \in Nat /\ Items <= size /\ use \in Uses /\ n \in Nat
  BY ItemsNow, UseType DEF Room, TypeOK, Unbuffered
<1>3. ASSUME NEW i \in 1 .. Items
      PROVE  Place(head, i) \in 0 .. n /\ buffer[Place(head, i)] \in Values \cup {NoItem}
  <2>1. Place(head, i) \in 0 .. n
    <3>1. CASE Unbuffered
      BY <1>2, <3>1 DEF Place
    <3>2. CASE ~Unbuffered
      <4>1. i \in 1 .. size /\ head \in 0 .. n
        BY <1>2, <3>2, UseType DEF TypeOK
      <4> QED
        BY <1>2, <3>2, <4>1, PlaceAhead
    <3> QED
      BY <3>1, <3>2
  <2> QED
    BY <2>1 DEF TypeOK
<1>4. Contents \in Seq(Values \cup {NoItem}) /\ Len(Contents) = Items
  BY <1>1, <1>2, <1>3
<1>5. Items = 0 <=> Contents = <<>>
  BY <1>4, EmptySeq
<1> QED
  BY <1>1, <1>3, <1>4, <1>5 DEF ContentsFacts

LEMMA NextContentsType == TypeOK' => ContentsFacts'
BY ContentsType, PTL

\* Moving on from head, the i-th slot is the one that was the next.
LEMMA PlaceIncrement ==
    ASSUME use \in Uses, ~Unbuffered, NEW h \in 0 .. n, NEW i \in 1 .. n
    PROVE  Place(INC(h), i) = Place(h, i + 1)
<1>1. i \in 1 .. size /\ i + 1 \in 1 .. size /\ i \in Int
  BY UseType
<1>2. Place(h, i + 1) \in 0 .. n /\ Ahead(h, Place(h, i + 1)) = i
  BY <1>1, PlaceAhead
<1>3. INC(h) \in 0 .. n /\ Ahead(INC(h), Place(h, i + 1)) = i - 1
  BY <1>1, <1>2, AheadDecrement
<1>4. Place(INC(h), i) \in 0 .. n /\ Ahead(INC(h), Place(INC(h), i)) = i - 1
  BY <1>1, <1>3, PlaceAhead
<1> QED
  BY <1>2, <1>3, <1>4, AheadInjective

\* Copying an item to the slot at tail does not change what is in the channel.
LEMMA SendCopyContents ==
    ASSUME Inv, NEW s \in Senders, SendCopy(s)
    PROVE  Contents' = Contents
<1>1. /\ TypeOK /\ TypeOK' /\ use' = use /\ use \in Uses /\ head' = head /\ tail' = tail
      /\ Items' = Items /\ Items < Room /\ Items \in Nat /\ n \in Nat /\ Room \in Nat
  <2>1. TypeOK /\ TypeOK'
    BY SendCopyInv DEF Inv
  <2>2. UNCHANGED <<use, head, tail>> /\ use \in Uses /\ Items < Room
    BY DEF Inv, TypeOK, SendCopy, indices, RoomInv, Copying
  <2> QED
    BY <2>1, <2>2, ItemsNow, SameUse, UseType DEF Items, Count, Ahead, Room
<1>2. Contents' = [i \in 1 .. Items |-> buffer'[Place(head, i)]]
  <2>1. Contents' = [i \in 1 .. Items' |-> buffer'[Place(head, i)']]
    BY <1>1, NextContentsType DEF ContentsFacts
  <2>2. \A i : Place(head, i)' = Place(head, i)
    BY <1>1, SameUse DEF Place
  <2> QED
    BY <1>1, <2>1, <2>2
<1>3. ASSUME NEW i \in 1 .. Items
      PROVE  buffer'[Place(head, i)] = buffer[Place(head, i)]
  <2>1. ~Unbuffered /\ Items = Ahead(head, tail) /\ head \in 0 .. n /\ i \in 1 .. size
    BY <1>1, UseType DEF Items, Count, Room, TypeOK
  <2>2. Place(head, i) \in 0 .. n /\ Place(head, i) # tail
    BY <1>1, <2>1, PlaceAhead
  <2> QED
    BY <1>1, <2>2 DEF SendCopy, TypeOK
<1> QED
  BY <1>1, <1>2, <1>3, ContentsType DEF ContentsFacts

\* Moving tail puts the item at the back of the queue, ...
LEMMA SendAdvanceContents ==
    ASSUME Inv, NEW s \in Senders, SendAdvance(s)
    PROVE  /\ Contents' = Append(Contents, item[s])
           /\ Len(Contents) < Room
           /\ item[s] \in Values
<1>1. /\ TypeOK /\ TypeOK' /\ use' = use /\ use \in Uses /\ buffer' = buffer
      /\ Items' = Items + 1 /\ Items \in Nat /\ n \in Nat /\ Room \in Nat
      /\ Items < Room
  <2>1. TypeOK /\ TypeOK' /\ buffer' = buffer
    BY SendAdvanceInv DEF Inv, SendAdvance
  <2>2. Items < Room
    BY SendMoves DEF Inv, RoomInv
  <2> QED
    BY <2>1, <2>2, SendMoves, ItemsNow, UseType DEF Room
<1>2. buffer[tail] = item[s] /\ item[s] \in Values
  BY DEF Inv, DataInv, SendAdvance, Busy
<1>3. ASSUME NEW i \in 1 .. Items + 1
      PROVE  Place(head, i)' = IF i = Items + 1 THEN tail ELSE Place(head, i)
  <2>1. CASE Unbuffered
    <3>1. Items = 0 /\ tail = 0
      BY <1>1, <2>1 DEF Room, TypeOK, Unbuffered
    <3> QED
      BY <1>1, <2>1, <3>1, SameUse DEF Place
  <2>2. CASE ~Unbuffered
    <3>1. /\ head' = head /\ head \in 0 .. n /\ tail \in 0 .. n
          /\ i \in 1 .. size /\ Items = Ahead(head, tail)
      BY <1>1, <2>2, SendMoves, UseType DEF TypeOK, Room, Items, Count
    <3>2. Place(head, i)' = Place(head, i)
      BY <1>1, <3>1, SameUse DEF Place
    <3>3. i = Items + 1 => Place(head, i) = tail
      <4>1. Place(head, i) \in 0 .. n /\ Ahead(head, Place(head, i)) = i - 1
        BY <1>1, <2>2, <3>1, PlaceAhead
      <4> QED
        BY <1>1, <3>1, <4>1, AheadInjective
    <3> QED
      BY <3>2, <3>3
  <2> QED
    BY <2>1, <2>2
<1>4. /\ Contents' \in Seq(Values \cup {NoItem}) /\ Len(Contents') = Items + 1
      /\ \A i \in 1 .. Items + 1 : Contents'[i] = buffer[Place(head, i)']
  BY <1>1, NextContentsType DEF ContentsFacts
<1>5. /\ Contents \in Seq(Values \cup {NoItem}) /\ Len(Contents) = Items
      /\ \A i \in 1 .. Items : Contents[i] = buffer[Place(head, i)]
  BY <1>1, ContentsType DEF ContentsFacts
<1>6. /\ Append(Contents, item[s]) \in Seq(Values \cup {NoItem})
      /\ Len(Append(Contents, item[s])) = Items + 1
      /\ Append(Contents, item[s])[Items + 1] = item[s]
      /\ \A i \in 1 .. Items : Append(Contents, item[s])[i] = Contents[i]
  BY <1>1, <1>2, <1>5, AppendProperties
<1>7. ASSUME NEW i \in 1 .. Items + 1
      PROVE  Contents'[i] = Append(Contents, item[s])[i]
  BY <1>1, <1>2, <1>3, <1>4, <1>5, <1>6
<1>8. Contents' = Append(Contents, item[s])
  BY <1>1, <1>4, <1>6, <1>7, SeqEqual
<1> QED
  BY <1>1, <1>2, <1>5, <1>8

\* ... and moving head removes the one at its front.
LEMMA RecvAdvanceContents ==
    ASSUME Inv, NEW r \in Receivers, RecvAdvance(r)
    PROVE  /\ Contents # <<>>
           /\ Contents' = Tail(Contents)
           /\ item[r] = Head(Contents)
<1>1. /\ TypeOK /\ TypeOK' /\ use' = use /\ use \in Uses /\ buffer' = buffer
      /\ Items' = Items - 1 /\ Items \in Nat /\ Items > 0 /\ n \in Nat
      /\ Items <= Room /\ Room \in Nat
  <2>1. TypeOK /\ TypeOK' /\ buffer' = buffer
    BY RecvAdvanceInv DEF Inv, RecvAdvance
  <2> QED
    BY <2>1, RecvMoves, ItemsNow, UseType DEF Room
<1>2. item[r] = buffer[Front]
  BY DEF Inv, DataInv, RecvAdvance
<1>3. Place(head, 1) = Front
  <2>1. CASE Unbuffered
    BY <2>1 DEF Place, Front
  <2>2. CASE ~Unbuffered
    <3>1. head \in 0 .. n /\ 1 \in 1 .. size
      BY <1>1, <2>2, UseType DEF TypeOK
    <3>2. Place(head, 1) \in 0 .. n /\ Ahead(head, Place(head, 1)) = 0
      BY <1>1, <2>2, <3>1, PlaceAhead
    <3> QED
      BY <1>1, <2>2, <3>1, <3>2, AheadType DEF Front
  <2> QED
    BY <2>1, <2>2
<1>4. ASSUME NEW i \in 1 .. Items - 1
      PROVE  Place(head, i)' = Place(head, i + 1)
  <2>1. CASE Unbuffered
    BY <1>1, <2>1, SameUse DEF Place
  <2>2. CASE ~Unbuffered
    <3>1. head' = INC(head) /\ head \in 0 .. n /\ i \in 1 .. n
      BY <1>1, <2>2, RecvMoves DEF TypeOK, Room
    <3>2. Place(head, i)' = Place(INC(head), i)
      BY <1>1, <2>2, <3>1, SameUse DEF Place
    <3> QED
      BY <1>1, <2>2, <3>1, <3>2, PlaceIncrement
  <2> QED
    BY <2>1, <2>2
<1>5. /\ Contents' \in Seq(Values \cup {NoItem}) /\ Len(Contents') = Items - 1
      /\ \A i \in 1 .. Items - 1 : Contents'[i] = buffer[Place(head, i)']
  BY <1>1, NextContentsType DEF ContentsFacts
<1>6. /\ Contents \in Seq(Values \cup {NoItem}) /\ Len(Contents) = Items
      /\ Contents # <<>>
      /\ \A i \in 1 .. Items : Contents[i] = buffer[Place(head, i)]
  BY <1>1, ContentsType DEF ContentsFacts
<1>7. /\ Tail(Contents) \in Seq(Values \cup {NoItem})
      /\ Len(Tail(Contents)) = Items - 1
      /\ \A i \in 1 .. Items - 1 : Tail(Contents)[i] = Contents[i + 1]
      /\ Head(Contents) = Contents[1]
  BY <1>6, HeadTailProperties
<1>8. ASSUME NEW i \in 1 .. Items - 1
      PROVE  Contents'[i] = Tail(Contents)[i]
  BY <1>1, <1>4, <1>5, <1>6, <1>7
<1>9. Contents' = Tail(Contents)
  BY <1>1, <1>5, <1>7, <1>8, SeqEqual
<1> QED
  BY <1>1, <1>2, <1>3, <1>6, <1>7, <1>9

-----------------------------------------------------------------------------
(* The channel drains, and is a queue *)

\* The steps that neither move an index nor write to the buffer
LEMMA QuietContents ==
    ASSUME UNCHANGED <<use, indices, buffer, got>>
    PROVE  UNCHANGED <<IF Unbuffered THEN 1 ELSE n, Contents, got>>
BY DEF indices, Contents, NUM_ITEMS, Now, size, n, Unbuffered

LEMMA PeekDrains ==
    ASSUME Inv, [Next]_vars, NEW r \in Receivers, pc[r] # "done", pc'[r] = "done"
    PROVE  use.reopened \/ Contents = <<>>
<1>1. r \in Threads /\ pc \in [Threads -> Labels] /\ use \in Uses
  BY DEF Threads, Inv, TypeOK
<1>2. RangePeek(r)
  <2>1. ASSUME NEW s \in Senders, StartSend(s) \/ Sender(s)
        PROVE  FALSE
    BY <1>1, <2>1, ChannelAssumption
    DEF StartSend, Sender, Observe, SendCheck, SendLocked, SendRecheck, SendRefused,
        SendFails, SendCopy, SendAdvance, Goto, Threads
  <2>2. ASSUME NEW t \in Receivers, Receiver(t)
        PROVE  t = r /\ RangePeek(t)
    BY <1>1, <2>2
    DEF Receiver, Observe, RangeClosed, RangePeek, RecvCheck, RecvLocked, RecvCopy,
        RecvAdvance, Goto, Threads
  <2> QED
    BY <2>1, <2>2 DEF Next, Close, Open, Terminated, vars
<1>3. CASE ~use.reopened
  <2>1. Items = 0
    BY <1>1, <1>2, <1>3, DrainedSeen DEF RangePeek, Goto
  <2> QED
    BY <2>1, ContentsType DEF ContentsFacts, Inv
<1> QED
  BY <1>3

\* channel_range ends only when every item sent has been received, although
\* channel_peek reads head and tail while other receivers move head.
THEOREM RangesDrain == Spec => RangeDrains
<1>1. Inv /\ [Next]_vars =>
        [\A r \in Receivers : pc[r] # "done" /\ pc'[r] = "done" =>
            use.reopened \/ Contents = <<>>]_vars
  BY PeekDrains
<1> QED
  BY <1>1, InvHolds, PTL DEF Spec, RangeDrains

\* Initially, the channel is an empty queue, ...
LEMMA InitImplements == Init => Abstract!Init
<1> SUFFICES ASSUME Init PROVE Abstract!Init
  OBVIOUS
<1>1. Inv /\ use \in Uses /\ head = 0 /\ tail = 0 /\ got = [r \in Receivers |-> <<>>]
  BY InitInv DEF Init
<1>2. Items = 0
  BY <1>1 DEF Items, Count, Ahead
<1>3. Contents = <<>>
  BY <1>1, <1>2, ContentsType DEF Inv, ContentsFacts
<1>4. (IF Unbuffered THEN 1 ELSE n) \in Nat \ {0}
  BY <1>1, UseType DEF Unbuffered
<1> QED
  BY <1>1, <1>3, <1>4 DEF Abstract!Init

\* ... and every step is one of the queue, or leaves it unchanged.
LEMMA NextImplements ==
    Inv /\ [Next]_vars =>
        [Abstract!Next]_<<IF Unbuffered THEN 1 ELSE n, Contents, got>>
<1> DEFINE queuevars == <<IF Unbuffered THEN 1 ELSE n, Contents, got>>
<1> SUFFICES ASSUME Inv, [Next]_vars
             PROVE  Abstract!Next \/ UNCHANGED queuevars
  OBVIOUS
<1>1. ASSUME NEW s \in Senders, StartSend(s) \/ Sender(s)
      PROVE  Abstract!Next \/ UNCHANGED queuevars
  <2>1. CASE SendCopy(s)
    <3>1. use' = use /\ got' = got /\ Contents' = Contents
      BY <2>1, SendCopyContents DEF SendCopy
    <3>2. UNCHANGED (IF Unbuffered THEN 1 ELSE n)
      BY <3>1, SameUse
    <3> QED
      BY <3>1, <3>2
  <2>2. CASE SendAdvance(s)
    <3>1. Abstract!Send(item[s])
      BY <2>2, SendAdvanceContents, SameUse DEF SendAdvance, Abstract!Send, Room
    <3> QED
      BY <2>2, <3>1, SendAdvanceContents DEF Abstract!Next
  <2>3. CASE StartSend(s) \/ Observe(s) \/ SendCheck(s) \/ SendLocked(s)
    BY <2>3, QuietContents DEF StartSend, Observe, SendCheck, SendLocked
  <2> QED
    BY <1>1, <2>1, <2>2, <2>3 DEF Sender
<1>2. ASSUME NEW r \in Receivers, Receiver(r)
      PROVE  Abstract!Next \/ UNCHANGED queuevars
  <2>1. CASE RecvAdvance(r)
    <3>1. Abstract!Receive(r)
      <4>1. /\ Contents # <<>> /\ Contents' = Tail(Contents)
            /\ item[r] = Head(Contents)
        BY <2>1, RecvAdvanceContents
      <4>2. use' = use /\ got' = [got EXCEPT ![r] = Append(@, item[r])]
        BY <2>1 DEF RecvAdvance
      <4>3. UNCHANGED (IF Unbuffered THEN 1 ELSE n)
        BY <4>2, SameUse
      <4> QED
        BY <4>1, <4>2, <4>3 DEF Abstract!Receive
    <3> QED
      BY <3>1 DEF Abstract!Next
  <2>2. CASE ~RecvAdvance(r)
    BY <1>2, <2>2, QuietContents
    DEF Receiver, Observe, RangeClosed, RangePeek, RecvCheck, RecvLocked, RecvCopy
  <2> QED
    BY <2>1, <2>2
<1>3. CASE Close \/ Open \/ Terminated \/ UNCHANGED vars
  BY <1>3, QuietContents DEF Close, Open, Terminated, vars
<1> QED
  BY <1>1, <1>2, <1>3 DEF Next

\* The channel implements the bounded FIFO queue of ChannelSpec: whatever the
\* interleaving of the unlocked checks and the copies, every item sent comes out
\* once, in order, and an operation that fails has no effect.
THEOREM ChannelIsQueue == Spec => ImplementsFifo
BY InitImplements, NextImplements, InvHolds, PTL
DEF Spec, ImplementsFifo, Abstract!Spec

=============================================================================
