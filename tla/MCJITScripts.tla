--------------------------- MODULE MCJITScripts ---------------------------
(* Small instances of JITScripts: pages of two bytes, batches of two. *)
EXTENDS JITScripts

Call(imm, x16Value, x0Value, x1Value) ==
  [code |-> imm, x16 |-> x16Value, x0 |-> x0Value, x1 |-> x1Value]

\* A region of two batches, one the debug server is to allocate, the empty
\* question, an unknown command, a script text.
MCCalls == {Call("f00d", 1, 4, 5), Call("f00d", 1, 0, 2), Call("f00d", 1, 0, 0),
            Call("f00d", 7, 4, 2), Call("68", 0, 6, 3)}

\* The calls whose replies steer the script, for the runs with faults.
MCFewCalls == {Call("f00d", 1, 4, 5), Call("f00d", 1, 0, 2), Call("f00d", 1, 4, 0)}

\* An app made for legacy.js: two batches, less than one.
MCLegacyCalls == {Call("69", 0, 4, 5), Call("69", 1, 6, 2)}

\* A signal that finds the app at mov x0, #0x69 or the like, with an address in x0.
MCLookalikes == {Call("like69", 0, 4, 5)}

\* An app made for legacy.js that meets universal.js, and uses both.
MCMixedCalls == {Call("69", 0, 0, 0), Call("f00d", 1, 4, 2)}
=============================================================================
