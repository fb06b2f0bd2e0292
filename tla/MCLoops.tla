------------------------------ MODULE MCLoops -------------------------------
(* Small instances of Loops; the .cfg files give the constants. *)
EXTENDS Loops

\* An empty loop; a loop of one iteration; a loop long enough for its parts to
\* be split again; two loops, one of which may be run while the other one is
\* awaited.
LongAndShort == {<< <<0, 0>>, <<1, 2>> >>, << <<0, 8>> >>, << <<0, 2>>, <<1, 4>> >>}
=============================================================================
