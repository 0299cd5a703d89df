----------------------------- MODULE MCEventApi -----------------------------
(***************************************************************************)
(* EventApi on a small instance: descriptions that differ in one respect   *)
(* each, and patches of a column or two.                                   *)
(***************************************************************************)
EXTENDS EventApi, TLC

Draft(name, max, per, price) ==
    [name |-> name, max |-> max, per |-> per, price |-> price]

\* A free event, a paid one, an announcement, and one only the chat accepts.
SmallDrafts == {Draft("a", 2, 2, 0), Draft("b", 2, 1, 5), Draft("a", 0, 0, 0),
                Draft("b", 1, 2, 0)}

\* A new name, fewer places, more per user, and no places with no price:
\* of a free event an announcement is left, a paid one keeps its price.
SmallPatches == {"name" :> "b", "max" :> 1, "per" :> 2,
                 ("max" :> 0) @@ ("per" :> 0) @@ ("price" :> 0)}

Symmetry == Permutations(Requests)
=============================================================================
