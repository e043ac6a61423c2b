------------------------------ MODULE SchemaSteps ------------------------------
(*****************************************************************************)
(* What the operator commands of ops/ promise of the database schema: it     *)
(* goes from the release one command starts from to the release it ends at,  *)
(* in one step, and is never seen, or left, in between.                      *)
(*****************************************************************************)
EXTENDS Integers

CONSTANTS
  Commands,  \* the commands
  From,      \* the number of migrations a command finds
  To         \* the number of migrations it leaves

VARIABLE applied   \* the migrations that took effect

Init == applied \in {1 .. n : n \in {From[c] : c \in Commands}}

Upgrade(c) ==
  /\ applied = 1 .. From[c]
  /\ applied' = 1 .. To[c]

Next == \E c \in Commands : Upgrade(c)

Spec == Init /\ [][Next]_applied

=============================================================================
