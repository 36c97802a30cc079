--------------------------- MODULE MCScriptRunner ---------------------------
(* Small instances of ScriptRunner: pages of two bytes, batches of two.    *)
EXTENDS ScriptRunner

MCCommands == {[op |-> "c"]}
MCBodies == {OK, Refused, Nothing}

R(a, n) == [address |-> a, length |-> n]

\* Empty; less than a page; a batch and a bit; two batches and a short third;
\* one that starts inside a page, and one beyond the nine hex digits.
MCRegions == {R(0, 0), R(2, 1), R(4, 5), R(2, 9), R(3, 2), R(20, 2)}
=============================================================================
