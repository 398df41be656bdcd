------------------------------ MODULE MCDrafts ------------------------------
(* Instances of Drafts for TLC. *)
EXTENDS Drafts, TLC

Leaf(k, in, from) == [key |-> k, in |-> in, from |-> from, kind |-> "leaf"]
Group(k, from) == [key |-> k, in |-> Top, from |-> from, kind |-> "group"]
Rows(k, from) == [key |-> k, in |-> Top, from |-> from, kind |-> "rows"]
Document(n, spec, fields) == [doc |-> n, spec |-> spec, fields |-> fields]

\* A question and a group.
First == Document(1, 1, {Leaf("a", Top, NoKey), Group("g", NoKey), Leaf("x", "g", NoKey), Leaf("w", "g", NoKey)})
\* The question is renamed, and one in the group; another is removed from it.
Renamed == Document(2, 1, {Leaf("b", Top, "a"), Group("g", NoKey), Leaf("y", "g", "x"), Rows("r", NoKey), Leaf("u", "r", NoKey)})
\* The question is another, the group is renamed, and one in the rows.
Regrouped == Document(3, 1, {Leaf("c", Top, NoKey), Group("h", "g"), Leaf("x", "h", NoKey), Rows("r", NoKey), Leaf("v", "r", "u")})
\* The next specification: the question is back, and the group keeps its rename.
Again == Document(4, 2, {Leaf("a", Top, NoKey), Group("h", "g"), Leaf("x", "h", NoKey)})
\* A question that comes and goes, before and after the next specification.
Asked(n, spec) == Document(n, spec, {Leaf("a", Top, NoKey)})
NotAsked(n, spec) == Document(n, spec, {Leaf("c", Top, NoKey)})

\* Renames upon renames; the way back to an older specification, where a group
\* that keeps the rename it declares is taken apart; and what was removed comes
\* back and goes again.
Several == {<<First, Renamed, Regrouped>>, <<Again, Renamed>>,
            <<Asked(5, 1), NotAsked(6, 1), Asked(7, 2), NotAsked(8, 2)>>}

\* What the documents lead to: no rename is of a key that was renamed to, so one
\* step is all, and the least that LedAssumption, which TLC evaluates, allows.
DeclaredRenames == {<<k, k>> : k \in {Top} \cup Keys} \cup {<<f.from, f.key>> : f \in {g \in AllFields : g.from \in Keys}}
Symmetry == Permutations(Pages)
=============================================================================
