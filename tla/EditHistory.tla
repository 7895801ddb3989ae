----------------------------- MODULE EditHistory -----------------------------
(***************************************************************************)
(* What undo and redo promise of the profile: a line of versions, oldest   *)
(* first, and where on it the user is.  An edit drops what was undone and  *)
(* adds a version, or takes the place of the one it joins; undo and redo   *)
(* only move; the oldest version is forgotten when there are too many.     *)
(***************************************************************************)
EXTENDS Naturals, Sequences

CONSTANT Limit   \* HISTORY_LIMIT: steps that can be undone

VARIABLES versions, at

vars == <<versions, at>>

Start == Len(versions) = 1 /\ at = 1

\* How many versions are kept behind a new one, the oldest being forgotten.
Kept == IF at > Limit THEN Limit ELSE at

Adds(v) ==
  /\ at' = Kept + 1
  /\ versions' = Append(SubSeq(versions, at - Kept + 1, at), v)

Joins(v) ==
  /\ at > 1 /\ at' = at
  /\ versions' = Append(SubSeq(versions, 1, at - 1), v)

Moves == at' \in {at - 1, at + 1} \cap DOMAIN versions /\ UNCHANGED versions

Step == Moves \/ Adds(versions'[at']) \/ Joins(versions'[at'])

Spec == Start /\ [][Step]_vars

=============================================================================
