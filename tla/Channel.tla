------------------------------ MODULE Channel -------------------------------
(***************************************************************************)
(* A channel of src/src/channel_shm/channel.c, step by step: a ring buffer *)
(* that many threads check without a lock, then fill or empty under the    *)
(* lock their end of the channel needs, if any.                            *)
(*                                                                         *)
(* An unlocked check reads head and tail one after the other, in either    *)
(* order (the reads race with the updates, and the compiler may order them *)
(* as it likes), so what it sees may never have been true.  Taking a lock  *)
(* and checking again is one step, as is moving an index and releasing the *)
(* lock: in between, only the other end of the channel can change, to the  *)
(* advantage of the checker.                                               *)
(*                                                                         *)
(* Receivers run channel_range: they receive until the channel is closed   *)
(* and drained.  Senders send what they like, and close the channel.       *)
(***************************************************************************)
EXTENDS Integers, Sequences, FiniteSets

CONSTANTS
    Uses,         \* kinds of channels and ways to use them, see Use
    Senders, Receivers,
    MaxSends      \* bound: items sent in all

\* The implementation and the number of items the channel can buffer (0:
\* unbuffered), as given to channel_alloc; whether the program sees to it that
\* no more items are underway than that; whether it calls channel_open; the
\* threads that receive; bound: the items sent.
Use == [impl : {"MPMC", "MPSC", "SPSC"}, n : Nat,
        credits : BOOLEAN, reopened : BOOLEAN,
        receivers : SUBSET Receivers, sends : 0 .. MaxSends]

\* The owner of a lock that is free
Nobody == "nobody"

ASSUME ChannelAssumption ==
    /\ Uses \subseteq Use
    /\ Senders \cap Receivers = {}
    /\ Nobody \notin Senders \cup Receivers
    /\ MaxSends \in Nat

VARIABLES
    use,     \* chan->impl and chan->size; never changes
    head, tail, buffer, closed,
    lock,    \* the owners of head_lock and tail_lock
    obs,     \* per thread: the indices read by its unlocked check
    item,    \* per thread: the item it sends, or has copied out of the buffer
    got,     \* per receiver: the items channel_receive has returned
    nfail,   \* per sender: consecutive failures, for requests (SEND_REQ counts
             \* up to three)
    sent,    \* items sent so far
    pc

indices == <<head, tail>>
vars == <<use, indices, buffer, closed, lock, obs, item, got, nfail, sent, pc>>

Threads == Senders \cup Receivers

\* The items, numbered in the order of the calls of channel_send
Values == 1 .. MaxSends

NoItem  == 0
NotRead == -1

Impl == use.impl
n    == use.n

size == n + 1

\* !channel_buffered(chan)
Unbuffered == n = 0

\* Variant: the index does not wrap around.
INC_nowrap(i) == i + 1

INC(i) == (i + 1) % size

\* o is what has been read of head and tail.  An unbuffered channel has one
\* slot, and head tells whether it is full.
NUM_ITEMS(o) ==
    IF Unbuffered THEN o.head ELSE (size + o.tail - o.head) % size

\* Variant: all slots are used, so that a full channel looks empty.
IS_FULL_exact(o) == NUM_ITEMS(o) = size

IS_FULL(o) == NUM_ITEMS(o) = IF Unbuffered THEN 1 ELSE size - 1

IS_EMPTY(o) == IF Unbuffered THEN o.head = 0 ELSE o.head = o.tail

Now == [head |-> head, tail |-> tail]

Nothing == [head |-> NotRead, tail |-> NotRead]

\* The indices a check has to read
Needed == IF Unbuffered THEN {"head"} ELSE {"head", "tail"}

Read(t) == \A x \in Needed : obs[t][x] # NotRead

\* The lock a sender takes, and the one a receiver takes
SendLock == CASE Impl = "SPSC" -> Nobody
              [] Impl # "SPSC" /\ Unbuffered -> "head_lock"
              [] OTHER -> "tail_lock"

RecvLock == IF Impl = "MPMC" THEN "head_lock" ELSE Nobody

Acquire(t, l) ==
    /\ lock[l] = Nobody
    /\ lock' = [lock EXCEPT ![l] = t]

Release(l) == lock' = IF l = Nobody THEN lock ELSE [lock EXCEPT ![l] = Nobody]

Goto(t, label) == pc' = [pc EXCEPT ![t] = label]

Busy(t) == pc[t] \in {"check", "lock", "copy", "advance"}

\* The contract of the implementations with a single producer or consumer: one
\* at a time.  (It may be another one each time, as it is in the runtime.)
SendAllowed(s) == Impl = "SPSC" => \A t \in Senders \ {s} : ~Busy(t)
RecvAllowed(r) == Impl # "MPMC" => \A t \in Receivers \ {r} : ~Busy(t)

-----------------------------------------------------------------------------
(* The unlocked check, of a sender, a receiver or channel_peek *)

Observe(t) ==
    /\ pc[t] \in {"check", "peek"}
    /\ \E x \in Needed :
        /\ obs[t][x] = NotRead
        /\ obs' = [obs EXCEPT ![t][x] = Now[x]]
    /\ UNCHANGED <<use, indices, buffer, closed, lock, item, got, nfail, sent, pc>>

-----------------------------------------------------------------------------
(* channel_send *)

Underway == NUM_ITEMS(Now) + Cardinality({s \in Senders : Busy(s)})

StartSend(s) ==
    /\ pc[s] = "user"
    /\ ~closed /\ sent < use.sends
    /\ SendAllowed(s)
    /\ use.credits => Underway < n
    /\ item' = [item EXCEPT ![s] = sent + 1]
    /\ sent' = sent + 1
    /\ Goto(s, "check")
    /\ UNCHANGED <<use, indices, buffer, closed, lock, obs, got, nfail>>

\* channel_send returns false: the sender tries again, or gives up.
SendFails(s) ==
    /\ obs' = [obs EXCEPT ![s] = Nothing]
    /\ \/ /\ Goto(s, "check")
          /\ nfail' = [nfail EXCEPT ![s] = IF use.credits /\ @ < 3
                                           THEN @ + 1 ELSE @]
          /\ UNCHANGED item
       \/ /\ Goto(s, "user")
          /\ item' = [item EXCEPT ![s] = NoItem]
          /\ nfail' = [nfail EXCEPT ![s] = 0]

SendCheck(s) ==
    /\ pc[s] = "check"
    /\ Read(s)
    /\ \/ IS_FULL(obs[s]) /\ SendFails(s)
       \/ /\ ~IS_FULL(obs[s])
          /\ Goto(s, IF SendLock = Nobody THEN "copy" ELSE "lock")
          /\ obs' = [obs EXCEPT ![s] = Nothing]
          /\ UNCHANGED <<item, nfail>>
    /\ UNCHANGED <<use, indices, buffer, closed, lock, got, sent>>

\* Variant: the channel is not checked again once the lock is held.
SendRecheck_none(s) == Goto(s, "copy") /\ UNCHANGED <<obs, item, nfail>>

\* With the lock held: is there still room?
SendRecheck(s) ==
    /\ ~IS_FULL(Now)
    /\ Goto(s, "copy")
    /\ UNCHANGED <<obs, item, nfail>>

\* Variant: it returns without releasing the lock.
SendRefused_locked(s) ==
    /\ IS_FULL(Now)
    /\ SendFails(s)
    /\ lock' = [lock EXCEPT ![SendLock] = s]

\* There is not: the lock is released at once.
SendRefused(s) ==
    /\ IS_FULL(Now)
    /\ SendFails(s)
    /\ UNCHANGED lock

SendLocked(s) ==
    /\ pc[s] = "lock"
    /\ \/ Acquire(s, SendLock) /\ SendRecheck(s)
       \/ lock[SendLock] = Nobody /\ SendRefused(s)
    /\ UNCHANGED <<use, indices, buffer, closed, got, sent>>

SendCopy(s) ==
    /\ pc[s] = "copy"
    /\ buffer' = [buffer EXCEPT ![tail] = item[s]]
    /\ Goto(s, "advance")
    /\ UNCHANGED <<use, indices, closed, lock, obs, item, got, nfail, sent>>

SendAdvance(s) ==
    /\ pc[s] = "advance"
    /\ IF Unbuffered THEN head' = 1 /\ UNCHANGED tail
                     ELSE tail' = INC(tail) /\ UNCHANGED head
    /\ Release(SendLock)
    /\ item' = [item EXCEPT ![s] = NoItem]
    /\ nfail' = [nfail EXCEPT ![s] = 0]
    /\ Goto(s, "user")
    /\ UNCHANGED <<use, buffer, closed, obs, got, sent>>

-----------------------------------------------------------------------------
(* channel_receive, inside channel_range *)

\* while (!channel_closed(c) || channel_peek(c))
RangeClosed(r) ==
    /\ pc[r] = "range"
    /\ ~closed => RecvAllowed(r)
    /\ Goto(r, IF closed THEN "peek" ELSE "check")
    /\ UNCHANGED <<use, indices, buffer, closed, lock, obs, item, got, nfail, sent>>

\* Variants: the loop ends as soon as the channel is closed; the test of
\* channel_peek is inverted.
Drained_unasked(o) == TRUE

Drained_inverted(o) == NUM_ITEMS(o) # 0

\* channel_peek(c) = 0
Drained(o) == NUM_ITEMS(o) = 0

RangePeek(r) ==
    /\ pc[r] = "peek"
    /\ Read(r)
    /\ ~Drained(obs[r]) => RecvAllowed(r)
    /\ obs' = [obs EXCEPT ![r] = Nothing]
    /\ Goto(r, IF Drained(obs[r]) THEN "done" ELSE "check")
    /\ UNCHANGED <<use, indices, buffer, closed, lock, item, got, nfail, sent>>

RecvCheck(r) ==
    /\ pc[r] = "check"
    /\ Read(r)
    /\ Goto(r, IF IS_EMPTY(obs[r]) THEN "range"
               ELSE IF RecvLock = Nobody THEN "copy" ELSE "lock")
    /\ obs' = [obs EXCEPT ![r] = Nothing]
    /\ UNCHANGED <<use, indices, buffer, closed, lock, item, got, nfail, sent>>

RecvLocked(r) ==
    /\ pc[r] = "lock"
    /\ \/ /\ ~IS_EMPTY(Now)
          /\ Acquire(r, RecvLock)
          /\ Goto(r, "copy")
       \/ /\ IS_EMPTY(Now)
          /\ lock[RecvLock] = Nobody
          /\ Goto(r, "range")
          /\ UNCHANGED lock
    /\ UNCHANGED <<use, indices, buffer, closed, obs, item, got, nfail, sent>>

RecvCopy(r) ==
    /\ pc[r] = "copy"
    /\ item' = [item EXCEPT ![r] = buffer[IF Unbuffered THEN 0 ELSE head]]
    /\ Goto(r, "advance")
    /\ UNCHANGED <<use, indices, buffer, closed, lock, obs, got, nfail, sent>>

RecvAdvance(r) ==
    /\ pc[r] = "advance"
    /\ head' = IF Unbuffered THEN 0 ELSE INC(head)
    /\ Release(RecvLock)
    /\ got' = [got EXCEPT ![r] = Append(@, item[r])]
    /\ item' = [item EXCEPT ![r] = NoItem]
    /\ Goto(r, "range")
    /\ UNCHANGED <<use, tail, buffer, closed, obs, nfail, sent>>

-----------------------------------------------------------------------------
(* channel_close and channel_open, called when nobody is sending *)

Close ==
    /\ ~closed
    /\ \A s \in Senders : pc[s] = "user"
    /\ closed' = TRUE
    /\ UNCHANGED <<use, indices, buffer, lock, obs, item, got, nfail, sent, pc>>

Open ==
    /\ closed /\ use.reopened
    /\ \A s \in Senders : pc[s] = "user"
    /\ closed' = FALSE
    /\ UNCHANGED <<use, indices, buffer, lock, obs, item, got, nfail, sent, pc>>

-----------------------------------------------------------------------------
\* channel_alloc; the buffer is not initialised.
Init ==
    /\ use \in Uses
    /\ head = 0 /\ tail = 0
    /\ buffer = [i \in 0 .. n |-> NoItem]
    /\ closed = FALSE
    /\ lock = [l \in {"head_lock", "tail_lock"} |-> Nobody]
    /\ obs = [t \in Threads |-> Nothing]
    /\ item = [t \in Threads |-> NoItem]
    /\ got = [r \in Receivers |-> <<>>]
    /\ nfail = [s \in Senders |-> 0]
    /\ sent = 0
    /\ pc = [t \in Threads |-> CASE t \in Senders -> "user"
                                  [] t \in use.receivers -> "range"
                                  [] OTHER -> "done"]

Sender(s) ==
    \/ Observe(s) \/ SendCheck(s) \/ SendLocked(s) \/ SendCopy(s)
    \/ SendAdvance(s)

Receiver(r) ==
    \/ Observe(r) \/ RangeClosed(r) \/ RangePeek(r) \/ RecvCheck(r)
    \/ RecvLocked(r) \/ RecvCopy(r) \/ RecvAdvance(r)

Finished == closed /\ \A r \in Receivers : pc[r] = "done"

Terminated == Finished /\ UNCHANGED vars

Next ==
    \/ \E s \in Senders : StartSend(s) \/ Sender(s)
    \/ \E r \in Receivers : Receiver(r)
    \/ Close \/ Open \/ Terminated

Spec == Init /\ [][Next]_vars

\* Threads keep running inside the channel's operations.
FairSpec ==
    /\ Spec
    /\ \A s \in Senders : WF_vars(Sender(s))
    /\ \A r \in Receivers : WF_vars(Receiver(r))

-----------------------------------------------------------------------------
(* Properties *)

Labels == {"user", "check", "lock", "copy", "advance", "range", "peek", "done"}

\* The indices stay within the buffer, what is read of them too, and locks are
\* held by threads.
TypeOK ==
    /\ use \in Uses
    /\ head \in 0 .. (IF Unbuffered THEN 1 ELSE n)
    /\ tail \in 0 .. n
    /\ buffer \in [0 .. n -> Values \cup {NoItem}]
    /\ closed \in BOOLEAN
    /\ lock \in [{"head_lock", "tail_lock"} -> Threads \cup {Nobody}]
    /\ obs \in [Threads -> [head : -1 .. n + 1, tail : -1 .. n]]
    /\ item \in [Threads -> Values \cup {NoItem}]
    /\ got \in [Receivers -> Seq(Values)]
    /\ nfail \in [Senders -> 0 .. 3]
    /\ sent \in 0 .. MaxSends
    /\ pc \in [Threads -> Labels]

Copying(t) == pc[t] \in {"copy", "advance"}

\* The slot a thread is copying to or from belongs to it alone until it moves
\* the index, so that no memcpy overlaps another one on the same slot.
SlotsExclusive ==
    \A t, u \in Threads : t # u /\ Copying(t) /\ Copying(u) =>
        /\ t \in Senders <=> u \in Receivers
        /\ ~Unbuffered /\ head # tail

\* The items in the channel, oldest first
Contents ==
    IF Unbuffered THEN [i \in 1 .. head |-> buffer[0]]
    ELSE [i \in 1 .. NUM_ITEMS(Now) |-> buffer[(head + i - 1) % size]]

Abstract == INSTANCE ChannelSpec WITH
                queue <- Contents, slots <- (IF Unbuffered THEN 1 ELSE n)

\* The channel implements a FIFO queue of bounded capacity: every item sent is
\* received once, by one receiver, in order, and failed operations do nothing.
ImplementsFifo == Abstract!Spec

\* channel_range ends only when every item has been received, unless the
\* channel may be opened again behind its back.
RangeDrains ==
    [][\A r \in Receivers : pc[r] # "done" /\ pc'[r] = "done" =>
            use.reopened \/ Contents = <<>>]_vars

\* Once the channel is closed for good, channel_range ends, for every receiver.
RangeEnds == ([]closed) ~> Finished

\* A sender that has found room gets the lock, if it needs one, and returns.
SendEnds ==
    \A s \in Senders : (pc[s] \in {"lock", "copy", "advance"}) ~>
                       (pc[s] \notin {"lock", "copy", "advance"})

\* SEND_REQ asserts "Check channel capacities!" after three failures: with
\* room for every item underway, a sender never fails as often.
NeverBlocked == \A s \in Senders : nfail[s] < 3
=============================================================================
