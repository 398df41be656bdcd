------------------------- MODULE Publishing_proofs -------------------------
(***************************************************************************)
(* The history of a form, for every set of documents and publishers.       *)
(***************************************************************************)
EXTENDS Publishing, TLAPS

(* A number about to be inserted is a version's or the next one. *)
NumberInv ==
    \A p \in Publishers : pub[p].pc = "inserting" => pub[p].version \in 1..(current + 1)

(* Only a finished publish has an outcome. *)
PendingInv == \A p \in Publishers : pub[p].pc # "done" => pub[p].outcome = "none"

(* A publish that has begun has a document. *)
StartedInv == \A p \in Publishers : pub[p].pc # "idle" => pub[p].doc \in Docs

(* What a publish that declared a base saw when it read the form. *)
SeenInv ==
    \A p \in Publishers :
        pub[p].base # None =>
            /\ pub[p].pc \in {"listing", "numbering", "inserting"} =>
                  pub[p].seen \in DOMAIN versions /\ versions[pub[p].seen] = pub[p].base
            /\ pub[p].pc = "inserting" => pub[p].seen < pub[p].version

Inv ==
    /\ TypeOK
    /\ VersionsContiguous
    /\ NoDocumentTwice
    /\ AuditIsHistory
    /\ NumberInv
    /\ PendingInv
    /\ StartedInv
    /\ SeenInv
    /\ AnswersAreTrue
    /\ DisplacesOnlyWhatRaced

(* The highest number of contiguous versions is the current one. *)
LEMMA LatestIsCurrent == ASSUME TypeOK, VersionsContiguous PROVE Latest = current
<1>1. current \in Nat /\ DOMAIN versions \cup {0} = 0..current
  BY DEF TypeOK, VersionsContiguous
<1>2. \A n \in 0..current : (\A m \in 1..current : m <= n) <=> n = current
  BY <1>1
<1> QED BY <1>1, <1>2 DEF Latest, VersionsContiguous

(* A publish that is admitted inserts the next number. *)
LEMMA InsertExtends ==
    ASSUME Inv, NEW p \in Publishers, pub[p].pc = "inserting", Admitted(p)
    PROVE  /\ pub[p].version = current + 1
           /\ DOMAIN Versions(p) = 1..(current + 1)
           /\ Versions(p)[current + 1] = pub[p].doc
           /\ \A n \in 1..current : Versions(p)[n] = versions[n]
<1>1. current \in Nat /\ DOMAIN versions = 1..current
  BY DEF Inv, TypeOK, VersionsContiguous
<1>2. pub[p].version = current + 1
  BY <1>1 DEF Inv, NumberInv, Admitted
<1> QED BY <1>1, <1>2 DEF Versions

(* A step that moves one publish and no version keeps the history; what is   *)
(* left is what it says of that publish.                                     *)
LEMMA PublisherMoves ==
    ASSUME Inv, NEW p \in Publishers, NEW r \in Requests,
           pub' = [pub EXCEPT ![p] = r],
           UNCHANGED <<versions, current, audit>>,
           r.pc = "inserting" => r.version \in 1..(current + 1),
           r.pc # "done" => r.outcome = "none",
           r.pc # "idle" /\ r.doc \in Docs,
           r.base # None =>
              /\ r.pc \in {"listing", "numbering", "inserting"} =>
                    r.seen \in DOMAIN versions /\ versions[r.seen] = r.base
              /\ r.pc = "inserting" => r.seen < r.version,
           r.outcome = "published" => FALSE,
           r.outcome = "unchanged" => r.version \in DOMAIN versions /\ versions[r.version] = r.doc,
           r.outcome = "already_published" => r.doc \in Published
    PROVE  Inv'
<1>1. pub'[p] = r /\ \A q \in Publishers \ {p} : pub'[q] = pub[q]
  BY DEF Inv, TypeOK
<1>2. TypeOK'
  BY DEF Inv, TypeOK
<1>3. VersionsContiguous' /\ NoDocumentTwice' /\ AuditIsHistory' /\ Published' = Published
  BY DEF Inv, VersionsContiguous, NoDocumentTwice, AuditIsHistory, Published
<1>4. NumberInv'
  BY <1>1 DEF Inv, NumberInv
<1>5. SeenInv'
  BY <1>1 DEF Inv, SeenInv
<1>6. AnswersAreTrue'
  BY <1>1, <1>3 DEF Inv, AnswersAreTrue
<1>7. DisplacesOnlyWhatRaced'
  BY <1>1 DEF Inv, DisplacesOnlyWhatRaced
<1>8. PendingInv' /\ StartedInv'
  BY <1>1 DEF Inv, PendingInv, StartedInv
<1> QED BY <1>2, <1>3, <1>4, <1>5, <1>6, <1>7, <1>8 DEF Inv

(* Every step keeps the invariant. *)
LEMMA NextInv == Inv /\ [Next]_vars => Inv'
<1> SUFFICES ASSUME Inv, [Next]_vars PROVE Inv'
  OBVIOUS
<1>t. /\ current \in Nat /\ DOMAIN versions = 1..current
      /\ \A p \in Publishers : pub[p] \in Requests
      /\ Latest = current
  BY LatestIsCurrent DEF Inv, TypeOK, VersionsContiguous
<1>1. ASSUME NEW p \in Publishers, NEW doc \in Docs, NEW base \in Docs \cup {None}, Begin(p, doc, base)
      PROVE  Inv'
  <2> DEFINE r == [pub[p] EXCEPT !.pc = "read", !.doc = doc, !.base = base]
  <2>1. /\ r \in Requests /\ r.pc = "read" /\ r.outcome = "none" /\ r.doc \in Docs
        /\ pub' = [pub EXCEPT ![p] = r] /\ UNCHANGED <<versions, current, audit>>
    BY <1>1, <1>t DEF Begin, Requests, Steps, Inv, TypeOK, PendingInv
  <2> HIDE DEF r
  <2> QED BY <2>1, PublisherMoves
<1>2. ASSUME NEW p \in Publishers, ReadForm(p) PROVE Inv'
  <2>0. /\ pub[p].pc = "read" /\ pub[p].outcome = "none" /\ pub[p].doc \in Docs
        /\ UNCHANGED <<versions, current, audit>>
    BY <1>2 DEF ReadForm, Inv, PendingInv, StartedInv
  <2>1. CASE current # 0 /\ versions[current] = pub[p].doc
    <3> DEFINE r == [pub[p] EXCEPT !.pc = "done", !.outcome = "unchanged", !.version = current]
    <3>1. /\ r \in Requests /\ r.pc = "done" /\ r.outcome = "unchanged"
          /\ r.version = current /\ r.doc = pub[p].doc
          /\ pub' = [pub EXCEPT ![p] = r]
      BY <1>2, <1>t, <2>1 DEF ReadForm, Requests, Steps, Outcomes, Inv, TypeOK
    <3>2. r.version \in DOMAIN versions /\ versions[r.version] = r.doc /\ r.doc \in Docs
      BY <1>t, <2>0, <2>1, <3>1
    <3> HIDE DEF r
    <3> QED BY <2>0, <3>1, <3>2, PublisherMoves
  <2>2. CASE ~(current # 0 /\ versions[current] = pub[p].doc) /\ Overtaken(p)
    <3> DEFINE r == [pub[p] EXCEPT !.pc = "done", !.outcome = "version_changed"]
    <3>1. /\ r \in Requests /\ r.pc = "done" /\ r.outcome = "version_changed" /\ r.doc = pub[p].doc
          /\ pub' = [pub EXCEPT ![p] = r]
      BY <1>2, <1>t, <2>2 DEF ReadForm, Answer, Requests, Steps, Outcomes, Inv, TypeOK
    <3> HIDE DEF r
    <3> QED BY <2>0, <3>1, PublisherMoves
  <2>3. CASE ~Overtaken(p) /\ current = 0
    <3> DEFINE r == [pub[p] EXCEPT !.pc = "inserting", !.version = 1]
    <3>1. /\ r \in Requests /\ r.pc = "inserting" /\ r.outcome = "none" /\ r.version = 1
          /\ r.base = pub[p].base /\ r.doc = pub[p].doc
      BY <1>t, <2>0 DEF Requests, Steps
    <3>2. pub' = [pub EXCEPT ![p] = r] /\ pub[p].base = None
      BY <1>2, <1>t, <2>0, <2>3 DEF ReadForm, Overtaken
    <3>3. r.version \in 1..(current + 1)
      BY <2>3, <3>1
    <3> HIDE DEF r
    <3> QED BY <2>0, <3>1, <3>2, <3>3, PublisherMoves
  <2>4. CASE ~(current # 0 /\ versions[current] = pub[p].doc) /\ ~Overtaken(p) /\ current # 0
    <3> DEFINE r == [pub[p] EXCEPT !.pc = "listing", !.seen = current]
    <3>1. /\ r \in Requests /\ r.pc = "listing" /\ r.outcome = "none" /\ r.seen = current
          /\ r.base # None => versions[current] = r.base
          /\ r.doc = pub[p].doc
          /\ pub' = [pub EXCEPT ![p] = r]
      BY <1>2, <1>t, <2>0, <2>4 DEF ReadForm, Overtaken, Requests, Steps, Inv, TypeOK
    <3>2. r.base # None => r.seen \in DOMAIN versions /\ versions[r.seen] = r.base
      BY <1>t, <2>4, <3>1
    <3> HIDE DEF r
    <3> QED BY <2>0, <3>1, <3>2, PublisherMoves
  <2> QED BY <2>1, <2>2, <2>3, <2>4
<1>3. ASSUME NEW p \in Publishers, ListVersions(p) PROVE Inv'
  <2>0. /\ pub[p].pc = "listing" /\ pub[p].outcome = "none" /\ pub[p].doc \in Docs
        /\ UNCHANGED <<versions, current, audit>>
    BY <1>3 DEF ListVersions, Inv, PendingInv, StartedInv
  <2>1. CASE pub[p].doc \in Published
    <3> DEFINE r == [pub[p] EXCEPT !.pc = "done", !.outcome = "already_published"]
    <3>1. /\ r \in Requests /\ r.pc = "done" /\ r.outcome = "already_published" /\ r.doc = pub[p].doc
          /\ pub' = [pub EXCEPT ![p] = r]
      BY <1>3, <1>t, <2>1 DEF ListVersions, Answer, Requests, Steps, Outcomes, Inv, TypeOK
    <3> HIDE DEF r
    <3> QED BY <2>0, <2>1, <3>1, PublisherMoves
  <2>2. CASE pub[p].doc \notin Published
    <3> DEFINE r == [pub[p] EXCEPT !.pc = "numbering"]
    <3>1. /\ r \in Requests /\ r.pc = "numbering" /\ r.outcome = "none"
          /\ r.seen = pub[p].seen /\ r.base = pub[p].base /\ r.doc = pub[p].doc
          /\ pub' = [pub EXCEPT ![p] = r]
      BY <1>3, <1>t, <2>0, <2>2 DEF ListVersions, Requests, Steps, Inv, TypeOK
    <3> HIDE DEF r
    <3> QED BY <2>0, <3>1, PublisherMoves DEF Inv, SeenInv
  <2> QED BY <2>1, <2>2
<1>4. ASSUME NEW p \in Publishers, Number(p) PROVE Inv'
  <2> DEFINE v == current + 1
             r == [pub[p] EXCEPT !.pc = "inserting", !.version = v]
  <2>0. /\ pub[p].pc = "numbering" /\ pub[p].outcome = "none" /\ pub[p].doc \in Docs
        /\ UNCHANGED <<versions, current, audit>>
    BY <1>4 DEF Number, Inv, PendingInv, StartedInv
  <2>a. /\ r \in Requests /\ r.pc = "inserting" /\ r.outcome = pub[p].outcome /\ r.version = v
        /\ r.seen = pub[p].seen /\ r.base = pub[p].base /\ r.seen \in Nat /\ r.doc = pub[p].doc
    <3>1. v \in Nat
      BY <1>t
    <3> HIDE DEF v
    <3> QED BY <1>t, <3>1 DEF Requests, Steps
  <2>b. pub' = [pub EXCEPT ![p] = r]
    BY <1>4, <1>t DEF Number
  <2>1. /\ r \in Requests /\ r.pc = "inserting" /\ r.outcome = "none" /\ r.version = current + 1
        /\ r.seen = pub[p].seen /\ r.base = pub[p].base /\ r.seen \in Nat /\ r.doc \in Docs
        /\ pub[p].pc = "numbering"
        /\ pub' = [pub EXCEPT ![p] = r] /\ UNCHANGED <<versions, current, audit>>
    BY <2>0, <2>a, <2>b
  <2>2. r.base # None => r.seen \in DOMAIN versions /\ versions[r.seen] = r.base /\ r.seen < r.version
    BY <1>t, <2>1 DEF Inv, SeenInv
  <2>3. r.version \in 1..(current + 1)
    BY <1>t, <2>1
  <2> HIDE DEF r
  <2> QED BY <2>1, <2>2, <2>3, PublisherMoves
<1>5. ASSUME NEW p \in Publishers, Insert(p), ~Admitted(p) PROVE Inv'
  <2> DEFINE r == [pub[p] EXCEPT !.pc = "done", !.outcome = "error"]
  <2>1. /\ r \in Requests /\ r.pc = "done" /\ r.outcome = "error" /\ r.doc \in Docs
        /\ pub' = [pub EXCEPT ![p] = r] /\ UNCHANGED <<versions, current, audit>>
    BY <1>5, <1>t DEF Insert, Answer, Requests, Steps, Outcomes, Inv, TypeOK, StartedInv
  <2> HIDE DEF r
  <2> QED BY <2>1, PublisherMoves
<1>6. ASSUME NEW p \in Publishers, Insert(p), Admitted(p) PROVE Inv'
  <2>0. /\ pub[p].pc = "inserting" /\ versions' = Versions(p) /\ current' = pub[p].version
        /\ audit' = audit \cup {Row(p)}
        /\ pub' = [pub EXCEPT ![p].pc = "done", ![p].outcome = "published"]
    BY <1>6 DEF Insert, Answer
  <2>1. /\ current' = current + 1 /\ DOMAIN versions' = 1..(current + 1)
        /\ versions'[current + 1] = pub[p].doc
        /\ \A n \in 1..current : versions'[n] = versions[n]
    BY <1>6, <2>0, InsertExtends
  <2>2. /\ pub'[p].pc = "done" /\ pub'[p].outcome = "published" /\ pub'[p].version = current + 1
        /\ pub'[p].seen = pub[p].seen /\ pub'[p].base = pub[p].base /\ pub'[p].doc = pub[p].doc
        /\ \A q \in Publishers \ {p} : pub'[q] = pub[q]
        /\ pub' \in [Publishers -> Requests]
    <3> DEFINE r == [pub[p] EXCEPT !.pc = "done", !.outcome = "published"]
    <3>1. /\ r \in Requests /\ r.pc = "done" /\ r.outcome = "published"
          /\ r.version = pub[p].version /\ r.seen = pub[p].seen
          /\ r.base = pub[p].base /\ r.doc = pub[p].doc
      BY <1>t DEF Requests, Steps, Outcomes
    <3>2. pub' = [pub EXCEPT ![p] = r]
      BY <2>0
    <3>3. pub \in [Publishers -> Requests] /\ pub[p].version = current + 1
      BY <1>6, <2>0, InsertExtends DEF Inv, TypeOK
    <3> HIDE DEF r
    <3> QED BY <3>1, <3>2, <3>3
  <2>3. pub[p].doc \notin Published /\ Published' = Published \cup {pub[p].doc}
    BY <1>6, <1>t, <2>1 DEF Published, Admitted
  <2>4. pub[p].doc \in Docs
    BY <2>0 DEF Inv, StartedInv
  <2>5. TypeOK'
    BY <1>t, <2>0, <2>1, <2>2, <2>4 DEF Inv, TypeOK, Row
  <2>6. VersionsContiguous'
    BY <1>t, <2>1 DEF VersionsContiguous
  <2>7. NoDocumentTwice'
    <3> SUFFICES ASSUME NEW m \in 1..(current + 1), NEW n \in 1..(current + 1), versions'[m] = versions'[n]
                 PROVE  m = n
      BY <2>1 DEF NoDocumentTwice
    <3>1. \A k \in 1..current : versions'[k] \in Published
      BY <1>t, <2>1 DEF Published
    <3> QED BY <1>t, <2>1, <2>3, <3>1 DEF Inv, NoDocumentTwice
  <2>8. AuditIsHistory'
    <3>1. Row(p) = [version |-> current + 1, doc |-> versions'[current + 1]]
      BY <2>0, <2>1 DEF Row
    <3>2. {[version |-> n, doc |-> versions'[n]] : n \in 1..(current + 1)}
            = {[version |-> n, doc |-> versions[n]] : n \in 1..current} \cup {Row(p)}
      BY <1>t, <2>1, <3>1
    <3> QED BY <1>t, <2>0, <2>1, <3>2 DEF Inv, AuditIsHistory
  <2>9. NumberInv' /\ PendingInv' /\ StartedInv'
    BY <1>t, <2>1, <2>2, <2>4 DEF Inv, NumberInv, PendingInv, StartedInv
  <2>10. SeenInv'
    BY <1>t, <2>1, <2>2 DEF Inv, SeenInv
  <2>11. AnswersAreTrue'
    BY <1>t, <2>1, <2>2, <2>3 DEF Inv, AnswersAreTrue
  <2>12. DisplacesOnlyWhatRaced'
    BY <1>t, <2>0, <2>1, <2>2 DEF Inv, DisplacesOnlyWhatRaced, SeenInv
  <2> QED BY <2>5, <2>6, <2>7, <2>8, <2>9, <2>10, <2>11, <2>12 DEF Inv
<1>7. CASE UNCHANGED vars
  <2>1. Published' = Published
    BY <1>7 DEF vars, Published
  <2> QED BY <1>7, <2>1 DEF vars, Inv, TypeOK, VersionsContiguous, NoDocumentTwice, AuditIsHistory, NumberInv,
                     PendingInv, StartedInv, SeenInv, AnswersAreTrue, DisplacesOnlyWhatRaced
<1> QED BY <1>1, <1>2, <1>3, <1>4, <1>5, <1>6, <1>7 DEF Next

(* A form nobody has published has no history to disagree about.            *)
LEMMA InitInv == Init => Inv
  BY PublishConstants
     DEF Init, Inv, TypeOK, Requests, Steps, Outcomes, VersionsContiguous, NoDocumentTwice,
         AuditIsHistory, NumberInv, PendingInv, StartedInv, SeenInv, AnswersAreTrue, DisplacesOnlyWhatRaced

(* The invariant holds in every reachable state.                            *)
LEMMA Invariance == Spec => []Inv
<1> QED BY InitInv, NextInv, PTL DEF Spec

(* Type correctness of the specification. *)
THEOREM TypeCorrect == Spec => []TypeOK
<1> QED BY Invariance, PTL DEF Inv

(* A form's versions are numbered 1 to n and its pointer is at n. *)
THEOREM Contiguous == Spec => []VersionsContiguous
<1> QED BY Invariance, PTL DEF Inv

(* No document becomes two versions of a form. *)
THEOREM DocumentsDistinct == Spec => []NoDocumentTwice
<1> QED BY Invariance, PTL DEF Inv

(* The audit log and the versions tell the same history. *)
THEOREM AuditTellsHistory == Spec => []AuditIsHistory
<1> QED BY Invariance, PTL DEF Inv

(* An answer a publisher was given is true, and stays so. *)
THEOREM AnswersHold == Spec => []AnswersAreTrue
<1> QED BY Invariance, PTL DEF Inv

(* A declared base was current when the request read the form. *)
THEOREM DisplacementIsARace == Spec => []DisplacesOnlyWhatRaced
<1> QED BY Invariance, PTL DEF Inv

(* A step leaves the history alone, or adds one entry to it. *)
LEMMA HistoryStep ==
    ASSUME Inv, [Next]_vars
    PROVE  \/ UNCHANGED <<versions, current>>
           \/ \E p \in Publishers : /\ pub[p].doc \in Docs /\ pub[p].doc \notin Published
                                    /\ current' = current + 1
                                    /\ DOMAIN versions' = 1..(current + 1)
                                    /\ versions'[current + 1] = pub[p].doc
                                    /\ \A n \in 1..current : versions'[n] = versions[n]
<1>1. ASSUME NEW p \in Publishers, Insert(p), Admitted(p)
      PROVE  /\ pub[p].doc \in Docs /\ pub[p].doc \notin Published
             /\ current' = current + 1
             /\ DOMAIN versions' = 1..(current + 1)
             /\ versions'[current + 1] = pub[p].doc
             /\ \A n \in 1..current : versions'[n] = versions[n]
  <2>1. pub[p].pc = "inserting" /\ versions' = Versions(p) /\ current' = pub[p].version
    BY <1>1 DEF Insert
  <2> QED BY <1>1, <2>1, InsertExtends DEF Admitted, Inv, StartedInv
<1>2. ASSUME NEW p \in Publishers, Insert(p), ~Admitted(p) PROVE UNCHANGED <<versions, current>>
  BY <1>2 DEF Insert
<1>3. ASSUME NEW p \in Publishers, ReadForm(p) \/ ListVersions(p) \/ Number(p)
      PROVE  UNCHANGED <<versions, current>>
  BY <1>3 DEF ReadForm, ListVersions, Number
<1>4. ASSUME NEW p \in Publishers, NEW doc \in Docs, NEW base \in Docs \cup {None}, Begin(p, doc, base)
      PROVE  UNCHANGED <<versions, current>>
  BY <1>4 DEF Begin
<1> QED BY <1>1, <1>2, <1>3, <1>4 DEF Next, vars

(* No version changes or goes, and the pointer never goes back. *)
THEOREM HistoryKept == Spec => HistoryOnlyGrows
<1>1. Inv /\ [Next]_vars =>
        [/\ current <= current'
         /\ \A n \in DOMAIN versions : n \in DOMAIN versions' /\ versions'[n] = versions[n]]_vars
  <2> SUFFICES ASSUME Inv, [Next]_vars
               PROVE  /\ current <= current'
                      /\ \A n \in DOMAIN versions : n \in DOMAIN versions' /\ versions'[n] = versions[n]
    OBVIOUS
  <2>1. current \in Nat /\ DOMAIN versions = 1..current
    BY DEF Inv, TypeOK, VersionsContiguous
  <2> QED BY <2>1, HistoryStep
<1> QED BY <1>1, Invariance, PTL DEF HistoryOnlyGrows, Spec

(* Publishing implements the append-only log of documents. *)
THEOREM ImplementsLog == Spec => LogSpec
<1> DEFINE log == [n \in 1..current |-> versions[n]]
<1>1. Init => Log!Init
  BY DEF Init, Log!Init
<1>2. Inv /\ [Next]_vars => [Log!Next]_log
  <2> SUFFICES ASSUME Inv, [Next]_vars PROVE Log!Next \/ log' = log
    OBVIOUS
  <2>t. /\ current \in Nat /\ DOMAIN versions = 1..current
        /\ \A n \in 1..current : versions[n] \in Docs
    BY DEF Inv, TypeOK, VersionsContiguous
  <2>1. CASE UNCHANGED <<versions, current>>
    BY <2>1
  <2>2. ASSUME NEW p \in Publishers,
               pub[p].doc \in Docs, pub[p].doc \notin Published,
               current' = current + 1, DOMAIN versions' = 1..(current + 1),
               versions'[current + 1] = pub[p].doc,
               \A n \in 1..current : versions'[n] = versions[n]
        PROVE  Log!Next
    <3>1. log \in Seq(Docs) /\ Len(log) = current
      BY <2>t
    <3>2. Append(log, pub[p].doc) = [n \in 1..(current + 1) |-> IF n = current + 1 THEN pub[p].doc ELSE log[n]]
      BY <2>t, <2>2, <3>1
    <3>3. log' = [n \in 1..(current + 1) |-> IF n = current + 1 THEN pub[p].doc ELSE log[n]]
      BY <2>t, <2>2
    <3>4. \A n \in DOMAIN log : log[n] # pub[p].doc
      BY <2>t, <2>2 DEF Published
    <3>5. PICK doc \in Docs : doc = pub[p].doc
      BY <2>2
    <3>6. Log!Append1(doc)
      BY <3>2, <3>3, <3>4, <3>5 DEF Log!Append1
    <3> QED BY <3>6 DEF Log!Next
  <2> QED BY <2>1, <2>2, HistoryStep
<1> QED BY <1>1, <1>2, Invariance, PTL DEF Spec, LogSpec, Log!Spec
=============================================================================
