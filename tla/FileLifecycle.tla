--------------------------- MODULE FileLifecycle ---------------------------
(***************************************************************************)
(* An uploaded file from its offer to its claim or its collection:         *)
(* server-core/uploads.ts, server/routes/files.ts, server/file-collector.ts *)
(* and the file statements of server/postgres-storage.ts.                  *)
(*                                                                         *)
(* Three kinds of process share the files table and the byte store: PUT    *)
(* requests, which hold a file by a lease while they scan and write;       *)
(* submissions, which check the files they name and claim them in the      *)
(* transaction that stores the submission; and the collector, which        *)
(* removes the bytes and then the rows of files nobody claimed.  Every     *)
(* SQL statement, and every call of the byte store or the scanner, is one  *)
(* step; between two steps of one process any other may run.               *)
(*                                                                         *)
(* A definition named Slip... is no part of the model: it is a mistake the *)
(* code could have made in the definition that follows it, and             *)
(* PROJECT.json names the property that would catch it.                    *)
(***************************************************************************)
EXTENDS Naturals, Sequences, Functions

CONSTANTS
    Files,          \* ids the server mints; each is offered at most once
    Forms,
    Requests,       \* PUT requests, each handled once
    Subs,           \* submissions, each sent once
    Collectors,     \* server processes running a collector
    None,           \* no bytes, no owner
    LeaseTime,      \* RECEIVE_LEASE_MS, in ticks
    AbandonAfter,   \* afterHours, in ticks
    MaxTime,        \* bound: the clock stops here
    MaxNamed,       \* bound: file references in one submission
    MaxFailures     \* bound: calls that fail and processes that die

ASSUME FileConstants ==
    /\ LeaseTime \in Nat \ {0}
    /\ AbandonAfter \in Nat
    /\ MaxTime \in Nat
    /\ MaxNamed \in Nat
    /\ MaxFailures \in Nat
    /\ None \notin Requests \cup Subs \cup Files

VARIABLES
    now,        \* the clock, the same for every process
    row,        \* the files table
    bytes,      \* the byte store: whose bytes are under a file's key
    put,        \* the PUT requests
    sub,        \* the submissions
    col,        \* the collectors
    failures    \* failures so far

vars == <<now, row, bytes, put, sub, col, failures>>

NoLease == 0

Names == UNION {[1..n -> Files] : n \in 0..MaxNamed}

RowStates == {"unused", "offered", "stored", "claimed", "deleted"}

Rows == [state : RowStates, form : Forms \cup {None}, createdAt : Nat, lease : Nat,
         owner : Subs \cup {None}]

Puts == [pc : {"idle", "stamped", "scanning", "screened", "writing", "written",
               "returning", "kept", "refused"},
         file : Files \cup {None}, at : Nat, began : Nat]

Submissions == [pc : {"idle", "checked", "stored", "refused"},
                form : Forms \cup {None}, names : Names]

Passes == [pc : {"idle", "removing"}, batch : SUBSET Files, removed : SUBSET Files]

TypeOK ==
    /\ now \in 0..MaxTime
    /\ row \in [Files -> Rows]
    /\ bytes \in [Files -> Requests \cup {None}]
    /\ put \in [Requests -> Puts]
    /\ sub \in [Subs -> Submissions]
    /\ col \in [Collectors -> Passes]
    /\ failures \in 0..MaxFailures

Init ==
    /\ now = 0
    /\ row = [f \in Files |-> [state |-> "unused", form |-> None, createdAt |-> 0,
                               lease |-> NoLease, owner |-> None]]
    /\ bytes = [f \in Files |-> None]
    /\ put = [r \in Requests |-> [pc |-> "idle", file |-> None, at |-> 0, began |-> 0]]
    /\ sub = [s \in Subs |-> [pc |-> "idle", form |-> None, names |-> <<>>]]
    /\ col = [c \in Collectors |-> [pc |-> "idle", batch |-> {}, removed |-> {}]]
    /\ failures = 0

Exists(f) == row[f].state \in {"offered", "stored", "claimed"}

SlipCollectsYoung(f) == row[f].state \in {"offered", "stored"}

SlipKeepsOffered(f) == row[f].state = "stored" /\ row[f].createdAt + AbandonAfter < now

\* Claimed by nobody, and created longer ago than the collector waits.
Abandoned(f) ==
    /\ row[f].state \in {"offered", "stored"}
    /\ row[f].createdAt + AbandonAfter < now

-----------------------------------------------------------------------------
(* The clock, offers, and failures. *)

Tick ==
    /\ now < MaxTime
    /\ now' = now + 1
    /\ UNCHANGED <<row, bytes, put, sub, col, failures>>

\* MaxTime leaves every offered file time to be abandoned.
Offer(f, form) ==
    /\ row[f].state = "unused"
    /\ now + AbandonAfter < MaxTime
    /\ row' = [row EXCEPT ![f] = [state |-> "offered", form |-> form, createdAt |-> now,
                                  lease |-> NoLease, owner |-> None]]
    /\ UNCHANGED <<now, bytes, put, sub, col, failures>>

Fails ==
    /\ failures < MaxFailures
    /\ failures' = failures + 1

-----------------------------------------------------------------------------
(* Receiving bytes. *)

\* A request between reading its row and its answer.
Active(r) == put[r].pc \notin {"idle", "kept", "refused"}

Goto(r, pc) == put' = [put EXCEPT ![r].pc = pc]

\* An answered request keeps nothing of what it worked on.
Answer(r, pc) == put' = [put EXCEPT ![r] = [pc |-> pc, file |-> None, at |-> 0, began |-> 0]]

LeaseOf(r) == put[r].at + LeaseTime

\* The row is read, and the clock, before the lease is asked for.
BeginPut(r, f) ==
    /\ put[r].pc = "idle"
    /\ row[f].state = "offered"
    /\ put' = [put EXCEPT ![r] = [pc |-> "stamped", file |-> f, at |-> now, began |-> 0]]
    /\ UNCHANGED <<now, row, bytes, sub, col, failures>>

SlipFreeTooSoon(f, at) == row[f].lease = NoLease \/ row[f].lease <= at + LeaseTime

Free(f, at) == row[f].lease = NoLease \/ row[f].lease <= at

LeaseFile(r) ==
    LET f == put[r].file IN
    /\ put[r].pc = "stamped"
    /\ IF row[f].state = "offered" /\ Free(f, put[r].at)
       THEN /\ row' = [row EXCEPT ![f].lease = LeaseOf(r)]
            /\ Goto(r, "scanning")
       ELSE /\ Answer(r, "refused")
            /\ UNCHANGED row
    /\ UNCHANGED <<now, bytes, sub, col, failures>>

\* The scanner answers; a finding, or no answer, keeps nothing.
Scan(r) ==
    /\ put[r].pc = "scanning"
    /\ \E verdict \in {"screened", "returning"} : Goto(r, verdict)
    /\ UNCHANGED <<now, row, bytes, sub, col, failures>>

StillHeld(r) ==
    /\ Exists(put[r].file)
    /\ row[put[r].file].lease = LeaseOf(r)
    /\ now < LeaseOf(r)

\* The write is under way; `began` is history, of the instant it began.
Begun(r) == put' = [put EXCEPT ![r].pc = "writing", ![r].began = now]

SlipNeverLooksAgain(r) ==
    /\ put[r].pc = "screened"
    /\ Begun(r)
    /\ UNCHANGED <<now, row, bytes, sub, col, failures>>

Recheck(r) ==
    /\ put[r].pc = "screened"
    /\ IF StillHeld(r) THEN Begun(r) ELSE Goto(r, "returning")
    /\ UNCHANGED <<now, row, bytes, sub, col, failures>>

StorePut(r) ==
    /\ put[r].pc = "writing"
    /\ bytes' = [bytes EXCEPT ![put[r].file] = r]
    /\ Goto(r, "written")
    /\ UNCHANGED <<now, row, sub, col, failures>>

SlipSettleAnyState(r) ==
    /\ put[r].pc = "written"
    /\ Exists(put[r].file)
    /\ row' = [row EXCEPT ![put[r].file].state = "stored", ![put[r].file].lease = NoLease]
    /\ Answer(r, "kept")
    /\ UNCHANGED <<now, bytes, sub, col, failures>>

SettleFile(r) ==
    LET f == put[r].file IN
    /\ put[r].pc = "written"
    /\ IF row[f].state = "offered" /\ row[f].lease = LeaseOf(r)
       THEN /\ row' = [row EXCEPT ![f].state = "stored", ![f].lease = NoLease]
            /\ Answer(r, "kept")
       ELSE /\ Goto(r, "returning")
            /\ UNCHANGED row
    /\ UNCHANGED <<now, bytes, sub, col, failures>>

ReleaseFile(r) ==
    LET f == put[r].file IN
    /\ put[r].pc = "returning"
    /\ row' = IF Exists(f) /\ row[f].lease = LeaseOf(r)
              THEN [row EXCEPT ![f].lease = NoLease] ELSE row
    /\ Answer(r, "refused")
    /\ UNCHANGED <<now, bytes, sub, col, failures>>

\* A statement or the store throws: the file is given back.  A write that
\* throws may have landed.
PutThrows(r) ==
    /\ put[r].pc \in {"scanning", "screened", "writing", "written"}
    /\ Fails
    /\ Goto(r, "returning")
    /\ \/ UNCHANGED bytes
       \/ put[r].pc = "writing" /\ bytes' = [bytes EXCEPT ![put[r].file] = r]
    /\ UNCHANGED <<now, row, sub, col>>

\* The process dies, or the release itself fails: the lease is left to run out.
PutDies(r) ==
    /\ Active(r)
    /\ Fails
    /\ Answer(r, "refused")
    /\ UNCHANGED <<now, row, bytes, sub, col>>

-----------------------------------------------------------------------------
(* Claiming: checked outside the transaction, claimed inside it. *)

Refuse(s) == sub' = [sub EXCEPT ![s] = [pc |-> "refused", form |-> None, names |-> <<>>]]

Check(s, form, names) ==
    /\ sub[s].pc = "idle"
    /\ IF \A f \in Range(names) : row[f].state = "stored" /\ row[f].form = form
       THEN sub' = [sub EXCEPT ![s] = [pc |-> "checked", form |-> form, names |-> names]]
       ELSE Refuse(s)
    /\ UNCHANGED <<now, row, bytes, put, col, failures>>

SlipMatchesAnyState(names) == IsInjective(names) /\ \A f \in Range(names) : Exists(f)

\* The claiming UPDATE matched as many rows as ids were named: every named
\* file is stored, and none is named twice.
MatchesEvery(names) ==
    /\ IsInjective(names)
    /\ \A f \in Range(names) : row[f].state = "stored"

SlipCommitUncounted(s) ==
    /\ sub[s].pc = "checked"
    /\ row' = [f \in Files |->
                 IF f \in Range(sub[s].names) /\ row[f].state = "stored"
                 THEN [row[f] EXCEPT !.state = "claimed", !.owner = s] ELSE row[f]]
    /\ sub' = [sub EXCEPT ![s].pc = "stored"]
    /\ UNCHANGED <<now, bytes, put, col, failures>>

\* insertSubmission, one transaction.
Commit(s) ==
    LET names == sub[s].names IN
    /\ sub[s].pc = "checked"
    /\ IF MatchesEvery(names)
       THEN /\ row' = [f \in Files |->
                         IF f \in Range(names)
                         THEN [row[f] EXCEPT !.state = "claimed", !.owner = s] ELSE row[f]]
            /\ sub' = [sub EXCEPT ![s].pc = "stored"]
       ELSE /\ Refuse(s)
            /\ UNCHANGED row
    /\ UNCHANGED <<now, bytes, put, col, failures>>

-----------------------------------------------------------------------------
(* Collecting. *)

BeginPass(c) ==
    LET batch == {f \in Files : Abandoned(f)} IN
    /\ col[c].pc = "idle"
    /\ batch # {}
    /\ col' = [col EXCEPT ![c] = [pc |-> "removing", batch |-> batch, removed |-> {}]]
    /\ UNCHANGED <<now, row, bytes, put, sub, failures>>

RemoveBytes(c, f) ==
    /\ col[c].pc = "removing"
    /\ f \in col[c].batch \ col[c].removed
    /\ bytes' = [bytes EXCEPT ![f] = None]
    /\ col' = [col EXCEPT ![c].removed = @ \cup {f}]
    /\ UNCHANGED <<now, row, put, sub, failures>>

Idle == [pc |-> "idle", batch |-> {}, removed |-> {}]

DeleteRows(c) ==
    /\ col[c].pc = "removing"
    /\ col[c].removed = col[c].batch
    /\ row' = [f \in Files |-> IF f \in col[c].removed /\ Exists(f)
                               THEN [row[f] EXCEPT !.state = "deleted"] ELSE row[f]]
    /\ col' = [col EXCEPT ![c] = Idle]
    /\ UNCHANGED <<now, bytes, put, sub, failures>>

\* A removal or the DELETE throws, or the process dies: the pass is over and
\* what it had removed is forgotten.
PassFails(c) ==
    /\ col[c].pc = "removing"
    /\ Fails
    /\ col' = [col EXCEPT ![c] = Idle]
    /\ UNCHANGED <<now, row, bytes, put, sub>>

-----------------------------------------------------------------------------
ReceiveStep(r) ==
    \/ LeaseFile(r) \/ Scan(r) \/ Recheck(r) \/ StorePut(r) \/ SettleFile(r) \/ ReleaseFile(r)

PassStep(c) == BeginPass(c) \/ (\E f \in Files : RemoveBytes(c, f)) \/ DeleteRows(c)

Next ==
    \/ Tick
    \/ \E f \in Files, form \in Forms : Offer(f, form)
    \/ \E r \in Requests, f \in Files : BeginPut(r, f)
    \/ \E r \in Requests : ReceiveStep(r) \/ PutThrows(r) \/ PutDies(r)
    \/ \E s \in Subs, form \in Forms, names \in Names : Check(s, form, names)
    \/ \E s \in Subs : Commit(s)
    \/ \E c \in Collectors : PassStep(c) \/ PassFails(c)

Spec == Init /\ [][Next]_vars

\* Handlers run to their end, the clock advances, and the collector's timer
\* keeps firing; clients are never obliged to send anything.
Fairness ==
    /\ WF_vars(Tick)
    /\ \A r \in Requests : WF_vars(ReceiveStep(r))
    /\ \A s \in Subs : WF_vars(Commit(s))
    /\ \A c \in Collectors : WF_vars(PassStep(c))

FairSpec == Spec /\ Fairness

-----------------------------------------------------------------------------
(* Safety. *)

Stored(s) == sub[s].pc = "stored"

Named(s) == Range(sub[s].names)

(* No two stored submissions name the same file, whatever the requests, the *)
(* other submissions and the collector did in between: a file id never      *)
(* becomes claimable a second time (uploads.ts, insertSubmission).          *)
NoFileShared ==
    \A s, t \in Subs : s # t /\ Stored(s) /\ Stored(t) => Named(s) \cap Named(t) = {}

(* A row is claimed exactly when a stored submission of the same form names *)
(* it, except that a row a stored submission names may have been deleted by *)
(* a collector that had read it before the claim.                           *)
ClaimedIffNamed ==
    \A f \in Files :
        /\ row[f].state = "claimed" =>
              \E s \in Subs : /\ Stored(s) /\ f \in Named(s) /\ row[f].owner = s
                              /\ row[f].form = sub[s].form
        /\ \A s \in Subs : Stored(s) /\ f \in Named(s) =>
              \/ row[f].state = "claimed" /\ row[f].owner = s
              \/ row[f].state = "deleted"

Holding(r) ==
    /\ put[r].pc \in {"scanning", "screened", "writing", "written", "returning"}
    /\ now < LeaseOf(r)

(* One request receives a file's bytes at a time: two requests are never    *)
(* between their lease and their answer with leases that still run, even    *)
(* though a lease is recognised only by the instant it ends (0153).         *)
OneReceiver ==
    \A r, q \in Requests :
        r # q /\ Holding(r) /\ Holding(q) => put[r].file # put[q].file

(* A stored or claimed file has bytes until it is old enough to be          *)
(* abandoned: settling happens only after a write, and the collector takes  *)
(* nothing younger.                                                         *)
YoungFilesHaveBytes ==
    \A f \in Files :
        row[f].state \in {"stored", "claimed"} /\ now <= row[f].createdAt + AbandonAfter
            => bytes[f] # None

(* The bytes of a settled file change only by the collector's removal, or   *)
(* by a write that began inside its lease and ended after it: the residual  *)
(* docs/architecture/11-risks-and-debt.md accepts, and nothing beyond it.   *)
(* A lease that ran out while the bytes were scanned is no such write.      *)
Overrun(r) == put[r].began < LeaseOf(r) /\ LeaseOf(r) <= now

OnlyOverrunsReplace ==
    [][\A f \in Files :
          row[f].state \in {"stored", "claimed"} /\ bytes'[f] # bytes[f]
              => bytes'[f] = None \/ Overrun(bytes'[f])]_vars

(* An offered or stored file is in the end claimed or deleted, provided     *)
(* that failures do not go on for ever: the collector comes back after a    *)
(* pass that threw, and a removal may be repeated.                          *)
RubbishIsCollected ==
    \A f \in Files : row[f].state \in {"offered", "stored"} ~>
                        row[f].state \in {"claimed", "deleted"}

-----------------------------------------------------------------------------
(* What a comment of the code says, and the code does not do. *)

(* ports.ts: one COMMIT prevents "an accepted submission whose files the    *)
(* collector deletes"; postgres-storage.ts: "a claimed file belongs to a    *)
(* submission and is never rubbish, however old".                           *)
ClaimedIsNeverRubbish ==
    \A s \in Subs : Stored(s) => \A f \in Named(s) : row[f].state = "claimed"

-----------------------------------------------------------------------------
(* The ledger of files, read off their rows: who a file is claimed by is    *)
(* what its row says, and what a submission was accepted with is what it    *)
(* names.                                                                   *)

Place == [unused |-> "absent", offered |-> "absent", stored |-> "free",
          claimed |-> "held", deleted |-> "gone"]

Ledger == INSTANCE ClaimLedger WITH
    accepted <- {[by |-> s, files |-> Named(s)] : s \in {t \in Subs : Stored(t)}},
    place <- [f \in Files |-> Place[row[f].state]],
    owner <- [f \in Files |-> IF row[f].state = "claimed" THEN row[f].owner ELSE None],
    doomed <- UNION {col[c].batch : c \in Collectors}

(* The lifecycle keeps the ledger: a submission is stored together with     *)
(* every file it names, each of them received and claimed by nobody; a file *)
(* goes to one submission and never back; and one that is lost was in the   *)
(* hands of a pass that read it while nobody had claimed it.                *)
LedgerSpec == Ledger!Spec
=============================================================================
