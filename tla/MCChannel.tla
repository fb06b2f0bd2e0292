----------------------------- MODULE MCChannel ------------------------------
(* Small instances of Channel; the .cfg files give the constants. *)
EXTENDS Channel

CONSTANTS s1, s2, r1, r2

TwoSenders   == {s1, s2}
TwoReceivers == {r1, r2}

\* Channels that everybody shares
Shared == [impl |-> "MPMC", n |-> 1, credits |-> FALSE, reopened |-> FALSE,
           receivers |-> {r1, r2}, sends |-> 3]
SharedUnbuffered == [Shared EXCEPT !.n = 0]

\* The steal requests, tasks and futures of the runtime; an unbuffered channel
\* with several senders
Requests == [impl |-> "MPSC", n |-> 2, credits |-> TRUE,  reopened |-> TRUE,
             receivers |-> {r1}, sends |-> 4]
Tasks == [impl |-> "SPSC", n |-> 1, credits |-> FALSE, reopened |-> FALSE,
          receivers |-> {r1}, sends |-> 4]
Futures    == [Tasks EXCEPT !.n = 0]
Rendezvous == [Futures EXCEPT !.impl = "MPSC"]

AllUses == {Shared, SharedUnbuffered, Requests, Tasks, Futures, Rendezvous}

\* More requests, so that the indices wrap around as often as it takes
RequestUse == {[Requests EXCEPT !.sends = 5]}
=============================================================================
