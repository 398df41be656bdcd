----------------------------- MODULE Publishing -----------------------------
(***************************************************************************)
(* Publishing one form: server-core/publishing.ts over the statements of   *)
(* server/postgres-storage.ts.                                             *)
(*                                                                         *)
(* A publish reads the form and its current version, lists the versions,   *)
(* reads the highest number, and then inserts, in one transaction, a       *)
(* version, the pointer to it and an audit row.  Each of these is a step   *)
(* between which another publish may run; only the unique constraints of   *)
(* server/db.ts stand between the reads and the insert.                    *)
(*                                                                         *)
(* A document is its schema hash.  The gates before the storage (validity, *)
(* the engine's compile, pattern safety, known sources) read nothing that  *)
(* changes, so a document they refuse is one never published here.         *)
(*                                                                         *)
(* A definition named Slip... is no part of the model: it is a mistake the *)
(* code could have made in the definition that follows it.                 *)
(***************************************************************************)
EXTENDS Naturals, Sequences, FiniteSets

CONSTANTS
    Docs,           \* documents, by their hash
    Publishers,     \* publish requests
    None            \* no base declared

ASSUME PublishConstants == None \notin Docs

VARIABLES
    versions,   \* form_versions: the document of each version number
    current,    \* the version forms.current_version_id points at; 0, no form
    audit,      \* the audit rows of publishes
    pub         \* the publish requests

vars == <<versions, current, audit, pub>>

Steps == {"idle", "read", "listing", "numbering", "inserting", "done"}

Outcomes == {"none", "published", "unchanged", "version_changed", "already_published", "error"}

Requests == [pc : Steps, doc : Docs \cup {None}, base : Docs \cup {None},
             seen : Nat, version : Nat, outcome : Outcomes]

TypeOK ==
    /\ current \in Nat
    /\ DOMAIN versions \subseteq Nat
    /\ \A n \in DOMAIN versions : versions[n] \in Docs
    /\ audit \subseteq [version : Nat, doc : Docs]
    /\ pub \in [Publishers -> Requests]

Init ==
    /\ versions = <<>>
    /\ current = 0
    /\ audit = {}
    /\ pub = [p \in Publishers |-> [pc |-> "idle", doc |-> None, base |-> None,
                                    seen |-> 0, version |-> 0, outcome |-> "none"]]

Published == {versions[n] : n \in DOMAIN versions}

\* latestVersionNumber: the highest number, or 0.
Latest == CHOOSE n \in DOMAIN versions \cup {0} : \A m \in DOMAIN versions : m <= n

Answer(p, outcome) == pub' = [pub EXCEPT ![p].pc = "done", ![p].outcome = outcome]

-----------------------------------------------------------------------------
(* An editor declares the document it opened; a script declares nothing. *)
Begin(p, doc, base) ==
    /\ pub[p].pc = "idle"
    /\ pub' = [pub EXCEPT ![p].pc = "read", ![p].doc = doc, ![p].base = base]
    /\ UNCHANGED <<versions, current, audit>>

SlipComparesNothing(p) == pub[p].base # None /\ current = 0

Overtaken(p) == pub[p].base # None /\ (current = 0 \/ versions[current] # pub[p].base)

\* The form and the version it points at, which is immutable: one read.
ReadForm(p) ==
    /\ pub[p].pc = "read"
    /\ IF current # 0 /\ versions[current] = pub[p].doc
       THEN pub' = [pub EXCEPT ![p].pc = "done", ![p].outcome = "unchanged", ![p].version = current]
       ELSE IF Overtaken(p)
       THEN Answer(p, "version_changed")
       ELSE IF current = 0
       THEN pub' = [pub EXCEPT ![p].pc = "inserting", ![p].version = 1]
       ELSE pub' = [pub EXCEPT ![p].pc = "listing", ![p].seen = current]
    /\ UNCHANGED <<versions, current, audit>>

ListVersions(p) ==
    /\ pub[p].pc = "listing"
    /\ IF pub[p].doc \in Published
       THEN Answer(p, "already_published")
       ELSE pub' = [pub EXCEPT ![p].pc = "numbering"]
    /\ UNCHANGED <<versions, current, audit>>

\* A counter that a rolled-back publish leaves advanced.
SlipNumberFromCounter(p) ==
    /\ pub[p].pc = "numbering"
    /\ pub' = [pub EXCEPT ![p].pc = "inserting",
                ![p].version = 1 + Cardinality({q \in Publishers : pub[q].version # 0})]
    /\ UNCHANGED <<versions, current, audit>>

\* The form's examples are run here too; they warn and refuse nothing.
Number(p) ==
    /\ pub[p].pc = "numbering"
    /\ pub' = [pub EXCEPT ![p].pc = "inserting", ![p].version = Latest + 1]
    /\ UNCHANGED <<versions, current, audit>>

\* The constraint on (form_id, schema_hash) is missing.
SlipAdmitsAnyDocument(p) ==
    /\ pub[p].version \notin DOMAIN versions
    /\ pub[p].seen = 0 => current = 0

\* UNIQUE (form_id, version), UNIQUE (form_id, schema_hash), and the unique
\* path for a first publish.
Admitted(p) ==
    /\ pub[p].version \notin DOMAIN versions
    /\ pub[p].doc \notin Published
    /\ pub[p].seen = 0 => current = 0

Row(p) == [version |-> pub[p].version, doc |-> pub[p].doc]

Versions(p) == [n \in DOMAIN versions \cup {pub[p].version} |->
                  IF n = pub[p].version THEN pub[p].doc ELSE versions[n]]

\* The audit row is written outside the transaction.
SlipAuditOutside(p) ==
    /\ pub[p].pc = "inserting"
    /\ audit' = audit \cup {Row(p)}
    /\ IF Admitted(p)
       THEN versions' = Versions(p) /\ current' = pub[p].version /\ Answer(p, "published")
       ELSE Answer(p, "error") /\ UNCHANGED <<versions, current>>

\* A conflict is taken for an earlier success.
SlipConflictIsSuccess(p) ==
    /\ pub[p].pc = "inserting"
    /\ Answer(p, "published")
    /\ IF Admitted(p)
       THEN versions' = Versions(p) /\ current' = pub[p].version /\ audit' = audit \cup {Row(p)}
       ELSE UNCHANGED <<versions, current, audit>>

\* publishVersion, one transaction; a constraint that refuses it is a 500.
Insert(p) ==
    /\ pub[p].pc = "inserting"
    /\ IF Admitted(p)
       THEN /\ versions' = Versions(p)
            /\ current' = pub[p].version
            /\ audit' = audit \cup {Row(p)}
            /\ Answer(p, "published")
       ELSE /\ Answer(p, "error")
            /\ UNCHANGED <<versions, current, audit>>

Next ==
    \/ \E p \in Publishers, doc \in Docs, base \in Docs \cup {None} : Begin(p, doc, base)
    \/ \E p \in Publishers : ReadForm(p) \/ ListVersions(p) \/ Number(p) \/ Insert(p)

Spec == Init /\ [][Next]_vars

-----------------------------------------------------------------------------
(* The versions of a form are numbered 1 to n without a gap, and the form   *)
(* points at the last, however publishes race: the number is read before    *)
(* the transaction that uses it, and only the unique constraint arbitrates. *)
VersionsContiguous == DOMAIN versions = 1..current

(* No document is two versions of one form, so republishing is never a way  *)
(* to make one (0025), though the check for it is outside the transaction.  *)
NoDocumentTwice ==
    \A m, n \in DOMAIN versions : versions[m] = versions[n] => m = n

(* The audit log and the versions tell the same history: a row for every    *)
(* version, and none for a publish that was refused or rolled back.         *)
AuditIsHistory == audit = {[version |-> n, doc |-> versions[n]] : n \in DOMAIN versions}

(* What a publisher is told is true: a number it is given holds its         *)
(* document, and a refusal leaves its document unpublished by it.           *)
AnswersAreTrue ==
    \A p \in Publishers :
        /\ pub[p].outcome \in {"published", "unchanged"} =>
              pub[p].version \in DOMAIN versions /\ versions[pub[p].version] = pub[p].doc
        /\ pub[p].outcome = "already_published" => pub[p].doc \in Published

(* What declaring a base does guarantee: the version an editor built on was *)
(* current when its request read the form, so whatever it displaced unseen  *)
(* was published while that request ran.                                    *)
DisplacesOnlyWhatRaced ==
    \A p \in Publishers :
        pub[p].outcome = "published" /\ pub[p].base # None =>
            /\ pub[p].seen \in DOMAIN versions
            /\ versions[pub[p].seen] = pub[p].base
            /\ pub[p].seen < pub[p].version

(* A version, once published, is never changed or removed, and the pointer  *)
(* never goes back.                                                         *)
HistoryOnlyGrows ==
    [][/\ current <= current'
       /\ \A n \in DOMAIN versions : n \in DOMAIN versions' /\ versions'[n] = versions[n]]_vars

Log == INSTANCE VersionLog WITH log <- [n \in 1..current |-> versions[n]]

(* The versions of a form are an append-only log of distinct documents.     *)
LogSpec == Log!Spec
=============================================================================
