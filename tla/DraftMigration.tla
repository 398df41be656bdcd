--------------------------- MODULE DraftMigration ---------------------------
(***************************************************************************)
(* What changes between two documents (spec/src/diff-fields.ts), and what  *)
(* a resume does to the answers of a draft (server-core/src/use-cases.ts). *)
(*                                                                         *)
(* A document is [doc, spec, fields]; a field is [key, in, from, kind]: its *)
(* key, the container it is in, the key it says it was renamed from, and   *)
(* whether it is a leaf, a group, or the rows of a repeater.  Pages hold no *)
(* data and are left out, containers hold leaves only, and the rows of a   *)
(* repeater are one row.                                                   *)
(*                                                                         *)
(* The data of a draft is what it holds at the path of each answer, and    *)
(* what it has set aside in __orphaned, under the path it was taken from:  *)
(* a whole group is one value there, the set of its answers.               *)
(***************************************************************************)
EXTENDS Integers

CONSTANTS Top,    \* the container of the fields that are in none
          NoKey   \* no rename is declared

PathOf(f) == <<f.in, f.key>>

PathsOf(s) == {PathOf(f) : f \in s.fields}

At(s, k) == CHOOSE f \in s.fields : f.key = k

\* What validateSchema refuses: a key twice, a rename from itself, from a key in
\* use, or claimed twice.
Valid(s) ==
    /\ \A f, g \in s.fields : f # g => f.key # g.key
    /\ \A f \in s.fields :
        /\ f.from \notin {g.key : g \in s.fields}
        /\ \A g \in s.fields : f # g /\ f.from # NoKey => f.from # g.from
        /\ f.in # Top => \E g \in s.fields : g.key = f.in /\ g.kind # "leaf" /\ g.in = Top /\ f.kind = "leaf"

-----------------------------------------------------------------------------
\* The container a field was in before, by the rename its container declares.
ScopeBefore(s, f) ==
    IF f.in = Top THEN Top
    ELSE LET g == At(s, f.in) IN IF g.from = NoKey THEN g.key ELSE g.from

OwnBefore(s, f) == <<ScopeBefore(s, f), f.key>>
SourceOf(s, f) == <<ScopeBefore(s, f), f.from>>

\* A declared rename counts when the old path was there and the new one was not.
RenamedBy(b, s, f) ==
    /\ f.from # NoKey
    /\ SourceOf(s, f) \in PathsOf(b)
    /\ OwnBefore(s, f) \notin PathsOf(b)

Matched(b, s) == {IF RenamedBy(b, s, f) THEN SourceOf(s, f) ELSE OwnBefore(s, f) : f \in s.fields}

Removed(b, s) == PathsOf(b) \ Matched(b, s)

\* Down a version of the specification nothing can be rebound.
Breaking(b, s) == s.spec < b.spec

-----------------------------------------------------------------------------
\* Each answer of own moves to the path m gives it.
Moved(own, m) ==
    [q \in {m[p] : p \in DOMAIN own} |-> own[CHOOSE p \in DOMAIN own : m[p] = q]]

HoldsKey(own, k) == \E q \in DOMAIN own : q = <<Top, k>> \/ q[1] = k

\* Renames whose old key the data holds and whose new one it does not.
TopRenames(s, own) ==
    {f \in s.fields : f.in = Top /\ f.from # NoKey /\ HoldsKey(own, f.from) /\ ~HoldsKey(own, f.key)}

TopKey(s, own, k) ==
    IF \E f \in TopRenames(s, own) : f.from = k
    THEN (CHOOSE f \in TopRenames(s, own) : f.from = k).key ELSE k

\* The answer is copied to its new key, and the old one not deleted.
SlipCopies(s, own) ==
    LET copies == {f \in TopRenames(s, own) : f.kind = "leaf"}
    IN [q \in DOMAIN own \cup {PathOf(f) : f \in copies} |->
          IF q \in DOMAIN own THEN own[q] ELSE own[<<Top, (CHOOSE f \in copies : q = PathOf(f)).from>>]]

WithTopRenames(s, own) ==
    Moved(own, [q \in DOMAIN own |->
        IF q[1] = Top THEN <<Top, TopKey(s, own, q[2])>> ELSE <<TopKey(s, own, q[1]), q[2]>>])

\* Within a group, and never within the rows of a repeater.
GroupRenames(s, own) ==
    {f \in s.fields : /\ f.in # Top /\ f.from # NoKey /\ At(s, f.in).kind = "group"
                      /\ <<f.in, f.from>> \in DOMAIN own /\ PathOf(f) \notin DOMAIN own}

WithGroupRenames(s, own) ==
    Moved(own, [q \in DOMAIN own |->
        IF \E f \in GroupRenames(s, own) : q = <<f.in, f.from>>
        THEN PathOf(CHOOSE f \in GroupRenames(s, own) : q = <<f.in, f.from>>) ELSE q])

\* Renames inside a group are not applied.
SlipTopOnly(s, own) == WithTopRenames(s, own)

\* A field that is gone is taken for the one leaf that is new.
SlipGuesses(s, own) ==
    LET gone == {q \in DOMAIN own : q[1] = Top /\ q \notin PathsOf(s)}
        new == {f \in s.fields : f.in = Top /\ f.kind = "leaf" /\ PathOf(f) \notin DOMAIN own}
    IN IF gone = {} \/ new = {} THEN own
       ELSE LET g == CHOOSE q \in gone : TRUE
            IN Moved(own, [q \in DOMAIN own |-> IF q = g THEN PathOf(CHOOSE f \in new : TRUE) ELSE q])

ApplyRenames(s, own) == WithGroupRenames(s, WithTopRenames(s, own))

\* takeAtDottedPath: a group goes whole, and its children with it.
Taken(own, r) ==
    IF r[1] = Top THEN {q \in DOMAIN own : q = r \/ q[1] = r[2]} ELSE {r} \cap DOMAIN own

\* The removals that move something: what a row holds stays in the row.
SetAside(b, s, own) ==
    {r \in Removed(b, s) : /\ Taken(own, r) # {}
                           /\ r[1] # Top => At(b, r[1]).kind = "group" /\ <<Top, r[1]>> \notin Removed(b, s)}

\* What was set aside before is replaced by what is set aside now.
SlipForgetsAside(b, s, data) ==
    LET own == ApplyRenames(s, data.own)
        gone == SetAside(b, s, own)
    IN [own |-> [q \in DOMAIN own \ UNION {Taken(own, r) : r \in gone} |-> own[q]],
        aside |-> IF gone = {} THEN data.aside ELSE [r \in gone |-> {own[q] : q \in Taken(own, r)}]]

\* migrateDraftData: renames first, then removals, onto what is aside already.
Migrated(b, s, data) ==
    LET own == ApplyRenames(s, data.own)
        gone == SetAside(b, s, own)
    IN [own |-> [q \in DOMAIN own \ UNION {Taken(own, r) : r \in gone} |-> own[q]],
        aside |-> [r \in DOMAIN data.aside \cup gone |->
                     IF r \in gone THEN {own[q] : q \in Taken(own, r)} ELSE data.aside[r]]]
=============================================================================
