----------------------------- MODULE MCRuntime ------------------------------
(* Small instances of Runtime; the .cfg files give the constants. *)
EXTENDS RuntimeProperties

StealOne == {FALSE}
NoLoops == {}
SmallLoops == {3}
=============================================================================
