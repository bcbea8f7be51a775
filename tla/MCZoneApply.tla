----------------------------- MODULE MCZoneApply -----------------------------
(***************************************************************************)
(* Finite instances of ZoneApply.                                          *)
(***************************************************************************)
EXTENDS ZoneApply, TLC

CONSTANTS k1, k2, v1

(***************************************************************************)
(* Two callers that meet on k1 (one creates it, one deletes it) and        *)
(* requests that do not meet at all: enough for a stale re-read to undo a  *)
(* change, to hide one, and to turn a change into nothing to do.           *)
(***************************************************************************)
Create(k) == [x \in {k} |-> v1]
Delete(k) == [x \in {k} |-> NoVal]

MCRequest == {Create(k1), Delete(k1), Create(k2)}

\* One request for each of two keys: a stale re-read undoes the other one.
MCTwoKeys == {Create(k1), Create(k2)}

\* Two callers of one key, for the temporal properties.
MCOneKey == {Create(k1), Delete(k1)}

Symmetry == Permutations(Caller)

\* MCTwoKeys treats its keys alike.
SymmetryOfKeys == Permutations(Caller) \union Permutations(Key)
=============================================================================
