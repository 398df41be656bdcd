---------------------------- MODULE Submitting ----------------------------
(***************************************************************************)
(* Sending a response: createSubmission of server-core/submitting.ts over  *)
(* the transaction of server/postgres-storage.ts.                          *)
(*                                                                         *)
(* A response is named by the token its form was handed out with; several  *)
(* sends may carry one token: a retry after a lost answer, a double press. *)
(* Each await of the handler is a step between which another send, or a    *)
(* republish, may run.  The transaction's writes are seen by nobody before *)
(* it commits; until then it holds a connection of the pool, the response's *)
(* key, and the rows of files it has claimed, and another that wants one of *)
(* them waits.                                                             *)
(*                                                                         *)
(* Files are ones already received: how they come and go is FileLifecycle. *)
(* The challenge, spent before the handler runs, is left out.  What the    *)
(* engine says of the answers is a choice: it reads nothing that changes.  *)
(*                                                                         *)
(* A definition named Slip... is no part of the model: it is a mistake the *)
(* code could have made in the definition that follows it.                 *)
(***************************************************************************)
EXTENDS Naturals, FiniteSets

CONSTANTS
    Sends,          \* requests to submit
    Tokens,         \* submission tokens handed out, by the id they name
    Files,          \* files received for the form
    Hooks,          \* the form's webhooks
    Carries,        \* what each send may carry: a token, or None, and files
    PoolSizes,      \* how many connections the pool may have
    MaxVersion,     \* bound: versions published
    None            \* no send, no token, no owner

ASSUME SubmittingConstants ==
    /\ None \notin Sends \cup Tokens
    /\ Sends \cap Tokens = {}
    /\ Carries \in [Sends -> SUBSET [token : Tokens \cup {None}, files : SUBSET Files]]
    /\ PoolSizes \subseteq Nat \ {0}
    /\ MaxVersion \in Nat \ {0}

VARIABLES
    connections,    \* how many connections the pool has
    current,        \* the form's current version
    submissions,    \* submissions: the send each id was stored by
    deliveries,     \* deliveries queued: hook, id, and the send that queued it
    owner,          \* files.submission_id
    audit,          \* submission.created rows: id and send
    send            \* the requests

tables == <<submissions, deliveries, owner, audit>>
vars == <<connections, current, submissions, deliveries, owner, audit, send>>

\* A signed-in send without a token is stored under a fresh id: its own name.
Ids == Tokens \cup Sends

Steps == {"idle", "named", "resolving", "replaying", "files", "opening",
          "inserting", "claiming", "committing", "answering", "done"}

Outcomes == {"none", "refused", "token_spent", "version_changed", "invalid",
             "unknown_file", "stored", "error"}

Requests == [pc : Steps, id : Ids \cup {None}, declared : 0..MaxVersion,
             files : SUBSET Files, locked : SUBSET Files, outcome : Outcomes]

TypeOK ==
    /\ connections \in PoolSizes
    /\ current \in 1..MaxVersion
    /\ submissions \in [Ids -> Sends \cup {None}]
    /\ deliveries \subseteq [hook : Hooks, id : Ids, by : Sends]
    /\ owner \in [Files -> Ids \cup {None}]
    /\ audit \subseteq [id : Ids, by : Sends]
    /\ send \in [Sends -> Requests]

Init ==
    /\ connections \in PoolSizes
    /\ current = 1
    /\ submissions = [i \in Ids |-> None]
    /\ deliveries = {}
    /\ owner = [f \in Files |-> None]
    /\ audit = {}
    /\ send = [s \in Sends |-> [pc |-> "idle", id |-> None, declared |-> 0,
                                files |-> {}, locked |-> {}, outcome |-> "none"]]

Goto(s, step) == send' = [send EXCEPT ![s].pc = step]

\* A request that is answered has no transaction, and holds nothing.
Answer(s, outcome) ==
    send' = [send EXCEPT ![s].pc = "done", ![s].outcome = outcome, ![s].locked = {}]

\* Transactions that are open, and hold a connection; that inserted their
\* response; that claimed every file.
Open(s) == send[s].pc \in {"inserting", "claiming", "committing"}

HoldsKey(s) == send[s].pc \in {"claiming", "committing"}

HoldsFiles(s) == send[s].pc = "committing"

\* A statement outside a transaction takes a connection for its own time.
FreeConnection == Cardinality({t \in Sends : Open(t)}) < connections

-----------------------------------------------------------------------------
(* The form is published again; access and hooks are configuration. *)
Republish ==
    /\ current < MaxVersion
    /\ current' = current + 1
    /\ UNCHANGED <<connections, tables, send>>

\* Refused at once: an unknown form, a caller who may not submit it, an
\* anonymous one without a token, a token not signed here for this form.
Refuse(s) ==
    /\ send[s].pc = "idle" /\ FreeConnection
    /\ Answer(s, "refused")
    /\ UNCHANGED <<connections, current, tables>>

\* The form is read, the caller may submit it, and the response has its id.
Receive(s, token, declared, files) ==
    /\ send[s].pc = "idle" /\ FreeConnection
    /\ declared <= current
    /\ send' = [send EXCEPT ![s] =
          [pc |-> IF token = None THEN "resolving" ELSE "named",
           id |-> IF token = None THEN s ELSE token,
           declared |-> declared, files |-> files, locked |-> {}, outcome |-> "none"]]
    /\ UNCHANGED <<connections, current, tables>>

\* hasSubmission: asked before anything else about a second send.
Look(s) ==
    /\ send[s].pc = "named" /\ FreeConnection
    /\ IF submissions[send[s].id] # None THEN Answer(s, "token_spent") ELSE Goto(s, "resolving")
    /\ UNCHANGED <<connections, current, tables>>

\* resolveForm: the second reading of the form, and its current version.
Resolve(s) ==
    /\ send[s].pc = "resolving" /\ FreeConnection
    /\ IF send[s].declared # current THEN Answer(s, "version_changed") ELSE Goto(s, "replaying")
    /\ UNCHANGED <<connections, current, tables>>

\* The engine's replay, its checks and the membership of its answers.
Replay(s) ==
    /\ send[s].pc = "replaying" /\ FreeConnection
    /\ Answer(s, "invalid") \/ Goto(s, "files")
    /\ UNCHANGED <<connections, current, tables>>

\* filesToClaim, outside the transaction.  The rows are read one by one; a
\* claim between two readings only moves the refusal to the transaction.
CheckFiles(s) ==
    /\ send[s].pc = "files" /\ FreeConnection
    /\ IF \E f \in send[s].files : owner[f] # None
       THEN Answer(s, "unknown_file")
       ELSE Goto(s, "opening")
    /\ UNCHANGED <<connections, current, tables>>

\* BEGIN, on a connection kept to the end of the transaction.
Begin(s) ==
    /\ send[s].pc = "opening" /\ FreeConnection
    /\ Goto(s, "inserting")
    /\ UNCHANGED <<connections, current, tables>>

\* A plain insert: a response sent twice at once is an error.
SlipConflictIsSuccess(s) ==
    /\ send[s].pc = "inserting"
    /\ \A t \in Sends : HoldsKey(t) => send[t].id # send[s].id
    /\ IF submissions[send[s].id] # None THEN Answer(s, "stored") ELSE Goto(s, "claiming")
    /\ UNCHANGED <<connections, current, tables>>

\* INSERT ... ON CONFLICT DO NOTHING, first in the transaction: a second send
\* waits on the key while the first is uncommitted, then finds it taken.
InsertRow(s) ==
    /\ send[s].pc = "inserting"
    /\ \A t \in Sends : HoldsKey(t) => send[t].id # send[s].id
    /\ IF submissions[send[s].id] # None THEN Answer(s, "token_spent") ELSE Goto(s, "claiming")
    /\ UNCHANGED <<connections, current, tables>>

\* The claiming UPDATE comes to a row that is still stored, and locks it; a
\* row another has locked is waited for, one another has claimed is passed by.
LockFile(s, f) ==
    /\ send[s].pc = "claiming"
    /\ f \in send[s].files \ send[s].locked /\ owner[f] = None
    /\ \A t \in Sends : f \notin send[t].locked
    /\ send' = [send EXCEPT ![s].locked = @ \cup {f}]
    /\ UNCHANGED <<connections, current, tables>>

CameToEveryRow(s) == \A f \in send[s].files \ send[s].locked : owner[f] # None

\* The rows claimed are not counted.
SlipClaimUncounted(s) ==
    /\ send[s].pc = "claiming" /\ CameToEveryRow(s)
    /\ Goto(s, "committing")
    /\ UNCHANGED <<connections, current, tables>>

Queued(s) == {[hook |-> h, id |-> send[s].id, by |-> s] : h \in Hooks}

\* The deliveries are queued outside the transaction, and outlive it.
SlipQueuesOutside(s) ==
    /\ send[s].pc = "claiming" /\ CameToEveryRow(s)
    /\ IF send[s].locked = send[s].files THEN Goto(s, "committing") ELSE Answer(s, "error")
    /\ deliveries' = deliveries \cup Queued(s)
    /\ UNCHANGED <<connections, current, submissions, owner, audit>>

\* The rows claimed are counted: a file that another claimed first rolls
\* everything back, the deliveries queued before it too.
Claim(s) ==
    /\ send[s].pc = "claiming" /\ CameToEveryRow(s)
    /\ IF send[s].locked = send[s].files THEN Goto(s, "committing") ELSE Answer(s, "error")
    /\ UNCHANGED <<connections, current, tables>>

WaitsFor(s, t) ==
    /\ send[s].pc = "claiming"
    /\ (send[s].files \ send[s].locked) \cap send[t].locked # {}

\* Two updates may come to the rows of the same files in different orders.
\* The database ends a transaction that waits in a circle.
BreakDeadlock(s) ==
    /\ \E circle \in SUBSET Sends :
          s \in circle /\ \A t \in circle : \E u \in circle : WaitsFor(t, u)
    /\ Answer(s, "error")
    /\ UNCHANGED <<connections, current, tables>>

Commits(s) ==
    /\ send[s].pc = "committing"
    /\ submissions' = [submissions EXCEPT ![send[s].id] = s]
    /\ deliveries' = deliveries \cup Queued(s)
    /\ owner' = [f \in Files |-> IF f \in send[s].files THEN send[s].id ELSE owner[f]]
    /\ audit' = audit \cup {[id |-> send[s].id, by |-> s]}
    /\ send' = [send EXCEPT ![s].pc = "answering", ![s].locked = {}]
    /\ UNCHANGED <<connections, current>>

\* The audit row is written through the pool, not on the transaction's own
\* connection.
SlipAuditFromPool(s) == FreeConnection /\ Commits(s)

\* The audit row is written, and everything is seen at once.
Commit(s) == Commits(s)

AnswerStored(s) ==
    /\ send[s].pc = "answering"
    /\ Answer(s, "stored")
    /\ UNCHANGED <<connections, current, tables>>

\* The database or the process fails, or the answer is lost: a transaction
\* that is open rolls back, one that committed stays.
Fail(s) ==
    /\ send[s].pc \notin {"idle", "done"}
    /\ Answer(s, "error")
    /\ UNCHANGED <<connections, current, tables>>

Progress(s) ==
    \/ Look(s)
    \/ Resolve(s)
    \/ Replay(s)
    \/ CheckFiles(s)
    \/ Begin(s)
    \/ InsertRow(s)
    \/ \E f \in Files : LockFile(s, f)
    \/ Claim(s)
    \/ BreakDeadlock(s)
    \/ Commit(s)
    \/ AnswerStored(s)

Next ==
    \/ Republish
    \/ \E s \in Sends, declared \in 1..MaxVersion : \E c \in Carries[s] :
          Receive(s, c.token, declared, c.files)
    \/ \E s \in Sends : Refuse(s) \/ Progress(s) \/ Fail(s)

Spec == Init /\ [][Next]_vars

\* The event loop and the database answer every await in the end.
FairSpec == Spec /\ \A s \in Sends : WF_vars(Progress(s))

-----------------------------------------------------------------------------
(* The submission, the deliveries, the claims and the audit row tell one    *)
(* story (ports.ts, insertSubmission): all of them, written by one send,    *)
(* for a response that is stored, and none of them for one that is not.     *)
StoredWhole ==
    \A i \in Ids :
        LET by == submissions[i]
        IN  /\ {d \in deliveries : d.id = i} =
                  IF by = None THEN {} ELSE {[hook |-> h, id |-> i, by |-> by] : h \in Hooks}
            /\ {f \in Files : owner[f] = i} = IF by = None THEN {} ELSE send[by].files
            /\ {a \in audit : a.id = i} = IF by = None THEN {} ELSE {[id |-> i, by |-> by]}

(* What a sender is told is true, however sends of one response race and    *)
(* whatever fails: 201 only to the send whose answers were kept, `already   *)
(* sent` only of a response another send stored, and a refusal only to one  *)
(* that stored nothing.  A 500 alone leaves it open.                        *)
AnswersAreTrue ==
    \A s \in Sends :
        /\ send[s].outcome = "stored" => submissions[send[s].id] = s
        /\ send[s].outcome = "token_spent" => submissions[send[s].id] \notin {None, s}
        /\ (\E i \in Ids : submissions[i] = s) => send[s].outcome \in {"none", "stored", "error"}

(* A transaction that is about to commit still may: no other took its key   *)
(* or its files since it looked, so what it commits replaces nothing.       *)
CommitReplacesNothing ==
    \A s \in Sends :
        send[s].pc = "committing" =>
            /\ submissions[send[s].id] = None
            /\ \A f \in send[s].files : owner[f] = None
            /\ \A t \in Sends \ {s} :
                  HoldsFiles(t) => send[t].id # send[s].id /\ send[t].files \cap send[s].files = {}

(* Every request is answered: whatever it waits for, a connection, a key    *)
(* whose holder waits for a file of a third, or a file in a circle, comes   *)
(* free.  It rests on a transaction asking for no second connection once it *)
(* has begun, and on keys being taken before files.                         *)
EverySendIsAnswered == \A s \in Sends : send[s].pc # "idle" ~> send[s].pc = "done"

Stored(i) ==
    [id |-> i,
     files |-> {f \in Files : owner[f] = i},
     deliveries |-> {h \in Hooks : \E d \in deliveries : d.hook = h /\ d.id = i},
     audited |-> \E a \in audit : a.id = i]

Store == INSTANCE ResponseStore WITH store <- {Stored(i) : i \in {j \in Ids : submissions[j] # None}}

(* Sending implements the store that takes a response whole, and once.      *)
StoreSpec == Store!Spec
=============================================================================
