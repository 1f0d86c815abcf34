--------------------------- MODULE MCLinCommander ---------------------------
(* Instance of LinCommander for TLC. *)
EXTENDS LinCommander

\* One entry alone, and two of different lengths.
ShortScripts == {<<1>>, <<2, 1>>}
=============================================================================
