----------------------------- MODULE AtomicMove -----------------------------
(* What moving a work tree promises to everyone who reads it: the tree is   *)
(* in one place whenever it can be read, and an accepted request moves it   *)
(* once, to its target, while nobody reads.                                 *)
CONSTANTS Request, Place, Origin, Target

VARIABLES
  place,     \* where a reader finds the tree
  taken,     \* requests that took effect
  open       \* readers are admitted

atomicVars == <<place, taken, open>>

AtomicInit == place = Origin /\ taken = {} /\ open = FALSE

Admit == ~open /\ open' = TRUE /\ UNCHANGED <<place, taken>>
Shut  == open /\ open' = FALSE /\ UNCHANGED <<place, taken>>
Take(r) ==
  /\ ~open /\ r \notin taken
  /\ place' = Target[r] /\ taken' = taken \cup {r} /\ UNCHANGED open

AtomicNext == Admit \/ Shut \/ \E r \in Request : Take(r)
AtomicSpec == AtomicInit /\ [][AtomicNext]_atomicVars
=============================================================================
