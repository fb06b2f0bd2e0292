---------------------------- MODULE ChannelSpec -----------------------------
(***************************************************************************)
(* What src/src/channel_shm/channel.h promises of a channel: items go in   *)
(* at the back and come out at the front, each exactly once, and at most   *)
(* slots of them are underway.  An operation that fails has no effect.     *)
(***************************************************************************)
EXTENDS Naturals, Sequences

CONSTANTS Values, Receivers

VARIABLES slots, queue, got

Init == slots \in Nat \ {0} /\ queue = <<>> /\ got = [r \in Receivers |-> <<>>]

Send(v) ==
    /\ Len(queue) < slots
    /\ queue' = Append(queue, v)
    /\ UNCHANGED <<slots, got>>

Receive(r) ==
    /\ queue # <<>>
    /\ queue' = Tail(queue)
    /\ got' = [got EXCEPT ![r] = Append(@, Head(queue))]
    /\ UNCHANGED slots

Next == (\E v \in Values : Send(v)) \/ (\E r \in Receivers : Receive(r))

Spec == Init /\ [][Next]_<<slots, queue, got>>
=============================================================================
