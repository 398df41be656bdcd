------------------------------- MODULE Drafts -------------------------------
(***************************************************************************)
(* One draft of a form that is republished (server-core/src/use-cases.ts:  *)
(* saveDraft, resumeDraft), kept and resumed by pages that hold its key.   *)
(*                                                                         *)
(* A save reads the current version and writes; a resume reads the current *)
(* version, reads the draft, migrates it when it is bound to another, and  *)
(* writes it back.  Other requests come between.  A page has one save under *)
(* way at a time (FillPane has the page that has more), and may resume with *)
(* one still on its way.  A refused key writes nothing and is left out.    *)
(***************************************************************************)
EXTENDS DraftMigration, Sequences, FiniteSets

CONSTANTS
    Histories,     \* the sequences of documents that may be published
    Pages,         \* the pages that hold the key of the draft
    Led,           \* pairs of keys: the second may hold what was asked as the first
    MaxEdits,      \* bound on answers typed
    MaxResumes     \* bound on resumes

Documents == UNION {{h[v] : v \in 1..Len(h)} : h \in Histories}

AllFields == UNION {s.fields : s \in Documents}
Keys == {f.key : f \in AllFields}
Paths == ({Top} \cup Keys) \X Keys

ASSUME DocumentsAssumption ==
    /\ \A h \in Histories : h \in Seq(Documents) /\ h # <<>>
    /\ \A s \in Documents : Valid(s)
    /\ \A f \in AllFields : f.kind \in {"leaf", "group", "rows"}
    \* A field keeps its kind.
    /\ \A f, g \in AllFields : f.key = g.key \/ f.key = g.from => f.kind = g.kind
    \* Top and NoKey are no keys.
    /\ {Top, NoKey} \cap Keys = {} /\ \A f \in AllFields : f.from # Top
    /\ MaxEdits \in Nat /\ MaxResumes \in Nat

\* A key may hold what was asked as itself, and what a rename that a document
\* declares took there; nothing more in the least such relation.
ASSUME LedAssumption ==
    /\ \A k \in {Top} \cup Keys : <<k, k>> \in Led
    /\ \A p \in Led : \A f \in AllFields : p[2] = f.from => <<p[1], f.key>> \in Led

VARIABLES
    versions,   \* the versions published, oldest first
    row,        \* the draft: version bound to (0: none), and data
    page,       \* what each page shows
    save,       \* the save each page has under way
    resume,     \* the resume each page has under way
    typed,      \* the path each answer was typed at
    resumes,    \* resumes so far
    excused     \* history: answers that may be off the form, see AnswersAreOnTheForm

vars == <<versions, row, page, save, resume, typed, resumes, excused>>

Edits == 1..MaxEdits
Empty == [own |-> <<>>, aside |-> <<>>]
Current == Len(versions)
ValuesOf(f) == {f[q] : q \in DOMAIN f}
Answers(data) == ValuesOf(data.own) \cup UNION ValuesOf(data.aside)

NoSave == [pc |-> "none", version |-> 0, rendered |-> 0, data |-> Empty, mine |-> FALSE, fresh |-> FALSE]
NoResume == [pc |-> "none", version |-> 0, from |-> 0, data |-> Empty, fresh |-> FALSE]
Closed == [at |-> "closed", version |-> 0, data |-> Empty, fresh |-> FALSE]

IsData(d) ==
    /\ DOMAIN d.own \subseteq Paths /\ ValuesOf(d.own) \subseteq Edits
    /\ DOMAIN d.aside \subseteq Paths /\ \A r \in DOMAIN d.aside : d.aside[r] \in (SUBSET Edits) \ {{}}
    \* An answer is held once.
    /\ \A q, r \in DOMAIN d.own : q # r => d.own[q] # d.own[r]
    /\ ValuesOf(d.own) \cap UNION ValuesOf(d.aside) = {}

TypeOK ==
    /\ versions \in Seq(Documents) /\ Current >= 1
    /\ row.at \in 0..Current /\ IsData(row.data)
    /\ \A p \in Pages :
        /\ page[p].at \in {"closed", "ready", "readOnly"} /\ page[p].version \in 0..Current /\ IsData(page[p].data)
        /\ save[p].pc \in {"none", "sent", "bound"} /\ save[p].version \in 0..Current /\ IsData(save[p].data)
        /\ resume[p].pc \in {"none", "asked", "read"} /\ resume[p].version \in 0..Current
        /\ IsData(resume[p].data)
    /\ typed \in Seq(Paths) /\ Len(typed) <= MaxEdits
    /\ resumes \in 0..MaxResumes
    /\ excused \subseteq Edits

Init ==
    /\ \E h \in Histories : versions = <<h[1]>>
    /\ row = [at |-> 0, data |-> Empty]
    /\ page = [p \in Pages |-> Closed]
    /\ save = [p \in Pages |-> NoSave]
    /\ resume = [p \in Pages |-> NoResume]
    /\ typed = <<>> /\ resumes = 0 /\ excused = {}

\* publishForm, whose own steps are in Publishing, adds a version.
Publish ==
    /\ \E h \in Histories :
        /\ Current < Len(h) /\ SubSeq(h, 1, Current) = versions
        /\ versions' = SubSeq(h, 1, Current + 1)
    /\ UNCHANGED <<row, page, save, resume, typed, resumes, excused>>

Shown(at, v, data) == [at |-> at, version |-> v, data |-> data, fresh |-> TRUE]

\* The page that starts the draft shows the current form, empty.  Any other gets
\* the key from what it keeps, and resumes.
Open(p) ==
    /\ typed = <<>> /\ row.at = 0
    /\ \A q \in Pages : page[q].at = "closed" /\ resume[q].pc = "none"
    /\ page' = [page EXCEPT ![p] = Shown("ready", Current, Empty)]
    /\ UNCHANGED <<versions, row, save, resume, typed, resumes, excused>>

\* An answer is typed, where there was none: the engine keeps all else it holds.
Type(p, f) ==
    /\ page[p].at = "ready" /\ resume[p].pc = "none"
    /\ Len(typed) < MaxEdits
    /\ f \in versions[page[p].version].fields /\ f.kind = "leaf"
    /\ PathOf(f) \notin DOMAIN page[p].data.own
    /\ typed' = Append(typed, PathOf(f))
    /\ page' = [page EXCEPT ![p].data.own = [q \in DOMAIN @ \cup {PathOf(f)} |->
                                               IF q = PathOf(f) THEN Len(typed) + 1 ELSE @[q]]]
    /\ UNCHANGED <<versions, row, save, resume, resumes, excused>>

-----------------------------------------------------------------------------
SaveSent(p) ==
    /\ page[p].at = "ready" /\ resume[p].pc = "none" /\ save[p].pc = "none"
    /\ page[p].data # row.data
    /\ save' = [save EXCEPT ![p] = [pc |-> "sent", version |-> 0, rendered |-> page[p].version,
                                    data |-> page[p].data, mine |-> TRUE, fresh |-> page[p].fresh]]
    /\ UNCHANGED <<versions, row, page, resume, typed, resumes, excused>>

SaveReads(p) ==
    /\ save[p].pc = "sent"
    /\ save' = [save EXCEPT ![p].pc = "bound", ![p].version = Current]
    /\ UNCHANGED <<versions, row, page, resume, typed, resumes, excused>>

\* What was read before a write is no longer what the draft holds (history).
Stale(f) == [p \in Pages |-> [f[p] EXCEPT !.fresh = FALSE]]

\* upsertDraft: bound to the version that was current, whatever the page showed.
SaveWrites(p) ==
    /\ save[p].pc = "bound"
    /\ row' = [at |-> save[p].version, data |-> save[p].data]
    /\ page' = [Stale(page) EXCEPT ![p].fresh = save[p].mine]
    /\ save' = [Stale(save) EXCEPT ![p] = NoSave]
    /\ resume' = Stale(resume)
    /\ excused' = IF save[p].version = save[p].rendered THEN excused
                  ELSE excused \cup ValuesOf(save[p].data.own)
    /\ UNCHANGED <<versions, typed, resumes>>

-----------------------------------------------------------------------------
\* The page is loaded again, and with it goes what it had not saved.
ResumeReads(p) ==
    /\ resume[p].pc = "none"
    /\ resumes < MaxResumes
    /\ resumes' = resumes + 1
    /\ resume' = [resume EXCEPT ![p] = [pc |-> "asked", version |-> Current, from |-> 0, data |-> Empty,
                                        fresh |-> FALSE]]
    /\ page' = [page EXCEPT ![p] = Closed]
    /\ save' = [save EXCEPT ![p].mine = FALSE]
    /\ UNCHANGED <<versions, row, typed, excused>>

\* The draft is read: there is none, it is bound to the version that was current,
\* it cannot be rebound, or it is to be migrated.
ResumeGets(p) ==
    /\ resume[p].pc = "asked"
    /\ LET v == resume[p].version
           breaking == Breaking(versions[row.at], versions[v])
       IN IF row.at = 0 \/ row.at = v \/ breaking
          THEN /\ page' = IF row.at = 0 THEN page
                          ELSE [page EXCEPT ![p] = Shown(IF row.at = v THEN "ready" ELSE "readOnly",
                                                         row.at, row.data)]
               /\ resume' = [resume EXCEPT ![p] = NoResume]
          ELSE /\ resume' = [resume EXCEPT ![p] = [pc |-> "read", version |-> v, from |-> row.at,
                                                   data |-> row.data, fresh |-> TRUE]]
               /\ UNCHANGED page
    /\ UNCHANGED <<versions, row, save, typed, resumes, excused>>

Before(p) == versions[resume[p].from]
After(p) == versions[resume[p].version]
Rebound(p) == Migrated(Before(p), After(p), resume[p].data)

\* Answers a rebind may leave where the form has no field: in the rows of a
\* repeater, whose renames and removals move nothing; in a group that the
\* document says was renamed, whose removed children stay in it; and under a
\* declared rename whose new key the data holds already.
Excusable(p) ==
    {resume[p].data.own[q] : q \in {q \in DOMAIN resume[p].data.own :
        \E f \in After(p).fields \cup Before(p).fields :
            \/ f.kind = "rows" /\ q[1] \in {f.key, f.from}
            \/ f.kind = "group" /\ f.from # NoKey /\ q[1] \in {f.key, f.from}
            \/ f.from = q[2] /\ \E r \in DOMAIN resume[p].data.own : r[2] = f.key}}

\* It is migrated and written over whatever is there by now.
ResumeWrites(p) ==
    /\ resume[p].pc = "read"
    /\ row' = [at |-> resume[p].version, data |-> Rebound(p)]
    /\ page' = [Stale(page) EXCEPT ![p] = Shown("ready", resume[p].version, Rebound(p))]
    /\ save' = Stale(save)
    /\ resume' = [Stale(resume) EXCEPT ![p] = NoResume]
    /\ excused' = excused \cup Excusable(p)
    /\ UNCHANGED <<versions, typed, resumes>>

PageStep(p) ==
    \/ Open(p)
    \/ \E f \in AllFields : Type(p, f)
    \/ SaveSent(p) \/ SaveReads(p) \/ SaveWrites(p)
    \/ ResumeReads(p) \/ ResumeGets(p) \/ ResumeWrites(p)

Next ==
    \/ Publish
    \/ \E p \in Pages : PageStep(p)

Spec == Init /\ [][Next]_vars
-----------------------------------------------------------------------------
\* Saves bound to another version than their page showed (use-cases.ts:205) and
\* the cases of Excusable aside, every answer of the draft is where the version
\* it is bound to has a field, however often it was migrated, skipping what
\* versions, forwards or, by a resume that read the current version too early,
\* backwards: nothing else is off the form without being set aside.
AnswersAreOnTheForm ==
    \A q \in DOMAIN row.data.own :
        q \in PathsOf(versions[row.at]) \/ row.data.own[q] \in excused

\* No answer ends in another question's field: whatever was published, saved and
\* migrated in whatever order, an answer is at the path it was typed at, or at
\* one that the renames documents declare lead to.  A key that is gone
\* and a key that is new are never taken for one another (decision 0011).
AnswersKeepTheirQuestion ==
    \A q \in DOMAIN row.data.own :
        LET t == typed[row.data.own[q]]
        IN \A i \in 1..2 : <<t[i], q[i]>> \in Led

\* What a rebind may replace in __orphaned: what was taken from the same path,
\* by an earlier one.
Displaced(p) ==
    LET own == ApplyRenames(After(p), resume[p].data.own)
    IN UNION {resume[p].data.aside[r] :
                r \in SetAside(Before(p), After(p), own) \cap DOMAIN resume[p].data.aside}

\* An answer that was saved stays in the draft, on the form or set aside, but for
\* two cases.  A write may drop what another request wrote since its page, or its
\* resume, read the draft (use-cases.ts:295); and a removal may displace what was
\* set aside from the same path before.
OnlyRacesLose ==
    [][\A p \in Pages :
        /\ SaveWrites(p) /\ save[p].fresh => Answers(row.data) \subseteq Answers(row'.data)
        /\ ResumeWrites(p) /\ resume[p].fresh =>
              Answers(row.data) \ Displaced(p) \subseteq Answers(row'.data)]_vars
=============================================================================
