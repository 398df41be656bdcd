# formancy.ai in TLA+

Specifications of the parts of formancy.ai where several actors meet over
shared state, model-checked with TLC on small instances and, for the safety
properties, proved with TLAPS for every value of the constants.

Paths are relative to `packages/` of the repository.

## The system

formancy.ai is a form builder: documents (`spec`, `expressions`), an engine that
runs them (`core`), renderers and builders for two frameworks, and an optional
server (`server-core` decides, `server` does the I/O) that publishes forms and
takes responses, drafts, uploads and webhooks. Editing a document and running a
form are synchronous; what is hard to test is on the server, where each `await`
lets another request, a timer or a crash in between, in the page that fills a
form in and saves while somebody types, in the engine's asynchronous checks, and
in the builder while a model is asked.

| Component | State | Operations | What is hard |
|---|---|---|---|
| publishing (`server-core/publishing.ts`) | `forms`, `form_versions`, `audit_log` | `publishForm` | four reads, then a transaction; only unique constraints arbitrate |
| submitting (`server-core/submitting.ts`) | `submissions`, `deliveries`, `files`, `audit_log` | `createSubmission` | one response sent twice; files claimed twice; a failure in or after the transaction |
| uploads (`server-core/uploads.ts`, `server/routes/files.ts`, `server/file-collector.ts`) | `files`, the byte store | offer, `PUT`, claim, collect | leases that run out; a collector that acts on what it read earlier; bytes and rows that disagree |
| outbox (`server-core/outbox.ts`, `breaker.ts`, `server/outbox-worker.ts`, `deliver.ts`) | `deliveries`, `webhooks` | claim a batch, post, record, replay | a worker that dies; lost answers; a breaker on a clock; replays that race |
| engine checks (`core/engine.ts`, `checks.ts`) | generations, calls in flight, refusals | a write, an answer, `settle`, `submit` | answers in any order, about values that are gone |
| drafts (`server-core/use-cases.ts`, `spec/diff-fields.ts`) | `drafts` | start, save, resume and migrate | a migration that overwrites a save; a republish in between; what several migrations do to one answer |
| fill pane (`apps/admin/src/fill-pane.tsx`) | a page's refs, its timer, `localStorage` | type, save, resume, send, finish | a draft still being started when the response is stored; two mountings of one pane; answers lost |
| challenge and rate limits (`challenge`, `server/challenge-sweeper.ts`, `server/postgres-rate-limits.ts`) | `spent_challenges`, `rate_limit_counters`, a queue of counts in each replica | count, abandon, spend, sweep | the queue at its limit; timers that fire while a statement runs; a sweep around an expiry |
| builder session and model runs (`builder-core`) | document, history, three runs, a relay | edit, undo, ask, stop, apply, discard | an answer to a question that was stopped; a document that moved on; a relay that takes one turn at a time |
| store, rows, wizard of the engine (`core`) | values, row ids, pages | transact, insert and remove rows, go to a page | rollback and notification of nested transactions |

They meet in five places. A submission claims files in the transaction that
stores it: `Submitting` sees files as owned or not, and `FileLifecycle` sees
submissions as claims, so each has the other's part in little. The same
transaction queues the deliveries that are `Outbox`'s input. A submission
replays the engine and awaits its checks: `EngineChecks`. It comes with the token
of the form or of the draft, which `FillPane` chooses and `Submitting` spends. And
an anonymous one first passes `Intake`.

`PROJECT.json` lists every component with its sources and status, the hazards
at their lines, and for every definition of a module the lines it models.

## Modules

| Module | Models | Runs | Proofs |
|---|---|---|---|
| `FileLifecycle` | offer, PUT under a lease, claim, collection | `MCFileLifecycle` | `FileLifecycle_proofs` |
| `ClaimLedger` | what claiming promises | refined by `FileLifecycle` | |
| `Publishing` | `publishForm` over `publishVersion` | `MCPublishing` | `Publishing_proofs` |
| `VersionLog` | what publishing promises | refined by `Publishing` | |
| `Submitting` | `createSubmission` over `insertSubmission` | `MCSubmitting` | `Submitting_proofs` |
| `ResponseStore` | what submitting promises | refined by `Submitting` | |
| `Outbox` | worker, breaker, replays | `MCOutbox` | `Outbox_proofs` |
| `EngineChecks` | checks, `settle`, `submit` | `MCEngineChecks` | `Filling_proofs` |
| `DraftMigration` | the diff of two documents and what it does to answers | used by `Drafts` | `Filling_proofs` |
| `Drafts` | save, resume and migrate, against republishes | `MCDrafts` | `Filling_proofs` |
| `FillPane` | the pane that saves, resumes and sends | `MCFillPane` | `FillPane_proofs` |
| `Intake` | rate limit, then challenge, of several replicas | `MCIntake` | `Intake_proofs` |
| `ModelRuns` | a builder session, its three runs and the relay | `MCModelRuns` | `ModelRuns_proofs` |

One convention holds everywhere: a SQL statement, or a call of another service,
is one step, and the code between two awaits belongs to the step before it. A
transaction is one step where nothing it waits for can be seen
(`FileLifecycle`, `Publishing`), and several where it can (`Submitting`).

A definition named `Slip...` is not part of a model. It is a mistake the code
could have made in the definition that follows it; put in that definition's
place it breaks the property `PROJECT.json` names beside it, which shows that
the property depends on that line of the code.

### FileLifecycle

`row` is the `files` table, `bytes` the byte store (whose bytes are under a
key), `put`, `sub` and `col` what the requests, submissions and collectors hold
between their statements. A PUT goes `BeginPut` (read the row, read the clock),
`LeaseFile`, `Scan`, `Recheck`, `StorePut`, `SettleFile`, and from anywhere to
`ReleaseFile` or, when it dies, nowhere. A lease is recognised by the instant it
ends, as in the code. `Check` reads the files a submission names in one step
although the code reads them one by one: a row leaves `stored` only to be
claimed or deleted, and `Commit` refuses both. `Commit` compares the number of
rows claimed with the number of ids named, so a file named twice is refused.
`began` of a request is history: when `Recheck` let its write begin, which is what
tells the residual of a write that outlasts its lease (`Overrun`) from one that
began after it. `ClaimLedger` is read off the rows: a file is held by whom its row
says, and a submission was accepted with what it names, so a submission stored with
a row that was not claimed for it is no step of the ledger. The ledger lets a
collector lose what it chose while nobody had it, and nothing else. Names and sizes, the `accept` grammar and the scanner's words are left out.

*Checked and proved:* `NoFileShared`, `ClaimedIffNamed`, `OneReceiver`,
`YoungFilesHaveBytes`, `OnlyOverrunsReplace`, and `LedgerSpec`, the refinement
of `ClaimLedger`. *Checked:* `RubbishIsCollected`, under fairness.

### Publishing

One form, since forms share nothing but their paths. A document is its hash.
The gates before the storage decide on the document alone, so a document they
refuse is one that is never published. `pub` holds what a request read.
`Admitted` is the database's unique constraints, which are what makes
`VersionsContiguous` true: the number is read outside the transaction.

*Checked and proved:* `VersionsContiguous`, `NoDocumentTwice`, `AuditIsHistory`,
`AnswersAreTrue`, `DisplacesOnlyWhatRaced`, `HistoryOnlyGrows`, and `LogSpec`,
the refinement of `VersionLog`.

### Submitting

One form. A response is named by its token; several sends may carry one. What
the engine says of the answers is a choice. A statement outside a transaction needs
a connection of the pool that is free (`FreeConnection`); `Begin` keeps one until the
transaction ends. In it `InsertRow` takes the key (a second insert of it waits),
`LockFile` comes to one row of the claim's files, in any order (a row another
transaction has locked is waited for, one another has claimed is passed by), `Claim`
counts the rows, and `Commit` shows it all. Until `Commit` its writes are only in the
request's own step, which is how a rollback is nothing at all. Two claims may wait
for each other's rows: the database ends one of them (`BreakDeadlock`). `Fail` ends a
request at any point, with the transaction rolled back or committed, and stands for
errors and lost answers.

*Checked and proved:* `StoredWhole`, `AnswersAreTrue`, `CommitReplacesNothing`,
and `StoreSpec`, the refinement of `ResponseStore`. *Checked:*
`EverySendIsAnswered`, under fairness: it rests on the transaction asking for no
second connection, and on keys being taken before files.

### Outbox

`delivery` and `hook` are the tables, with the times in them counted down in
ticks; `worker` is the batch in hand, with the attempt counts it read. The
worker reads the clock once a batch: `late` is how long ago that was, and what
the batch writes is counted from its start, by being aged when the batch ends
(`EndBatch`). `Receive` has the receiver take a post and the answer be lost.
`replay` is what each operator read before writing it back; a delivery that was
revived from a reading that had grown old meanwhile is `outdated`. `posts`,
`accepted`, `probes` and `quiet` are history for the properties. There is one
worker, as `outbox-worker.ts` requires. The branch for a webhook that was deleted
is left out: nothing in the repository deletes one.

*Checked and proved:* `PostsAreCharged`, `EndsAreEarned`, `OneProbe`,
`CooldownIsWaited`. *Checked:* `EveryDeliveryEnds`, under fairness.

### EngineChecks

`Write` is a commit of the store with the listener it notifies: every written
field moves to its next generation, the calls about it that wait go to
`flight`, and those answered in the same turn (a check that is not supplied, or
throws) are refusals at once. `checking` follows the code, which clears a
field's mark by the count of the whole form. `Answer` is a promise that
resolves or rejects. A host between the end of `settle()` and its next step is
`settled`, and no write comes between: it is resumed before the next task.
`Submit` answers ok or not by rules the model leaves open. `fresh` and
`verdicts` are history. The specification is `ChecksSpec`, and so on: its names
keep clear of those of `Drafts`, beside which it is proved. A field whose rule list is empty, and one whose row was
removed, ask nothing.

*Checked and proved:* `ErrorsAreVerdicts`, `SettledIsAnswered`. *Checked:*
`EverySettleResolves`, under fairness.

### Drafts and DraftMigration

`DraftMigration` has no state: it is the part of `diff-fields.ts` that says which
fields of two documents are the same question, and `migrateDraftData`, which moves
answers along renames and sets removed ones aside in `__orphaned`. A document is
its specification version and its fields, each with the key it says it was renamed
from; a draft's data is the answer at each path. Pages of a document hold no data
and are left out, containers hold leaves only, a repeater has one row, and empty
groups are not told from absent ones.

`Drafts` has one draft and the pages that hold its key. A save and a resume each
read the current version in one step and write in a later one; a resume reads the
draft in between (`ResumeGets`). Other breaking changes than a specification
downgrade end as that one does, in a read-only draft. A refused key writes nothing
and is left out. `fresh` and `excused` are history: whether somebody wrote since,
and which answers the properties do not speak of.

`Led` is the relation between keys that says which key may hold what was asked as
which: `LedAssumption` has it reflexive and closed under the renames that documents
declare, and nothing else, so what holds for every such relation holds for the
least, the chains of declared renames. `DocumentsAssumption` has documents that
`validateSchema` accepts (`Valid`), and keys that keep their kind: a key or a
declared rename never goes from a group to a leaf or to a repeater. The code does
not see to that (a change of type is only `lossy`,
`packages/spec/src/diff-fields.ts:154`); a history that does it is outside of what
is said here.

*Checked and proved:* `TypeOK`, `AnswersAreOnTheForm`, `AnswersKeepTheirQuestion`,
`OnlyRacesLose`.

### FillPane

`page` holds the refs and the state of each mounting of the pane, `remembered` is
`localStorage`, `row` the server's drafts, `puts` and `sends` the requests under
way, which land in any order. Leaving the tab unmounts the pane (`gone`) and leaves
its promises running with its own refs; a reload ends them (`dead`). What was typed
is a set of edits, and a response is named by the page and by how many responses
that page had seen stored. `heard` and `reached` are history.

*Checked and proved:* `FinishedIsForgotten`, `OneDraftAResponse`, `TypeOK`.
*Checked:* `EveryEditIsSaved`, under fairness.

### Intake

What one client's requests to one route pass, with one solved challenge: the
counter row, and in each replica the slots for statements (`running`), the queue
(`waiting`) and the sweep, which takes a slot like any count. A slot that is given
back goes to the head of the queue or to nobody. A count that was given up may still
land (`gone`). A second has two ticks, as an expiry is in whole seconds and a sweep
is not. `within` is history: which requests the row counted in, and when.

*Checked and proved:* `SlotsAreUsed`, `BudgetIsShared`, `OnePassesInTime`.
*Checked:* `EveryRequestIsDecided`, under fairness.

### ModelRuns

`present`, `past` and `future` are the session, `runs` the three holders, `asks` the
askings whose promise has not come to its end, `relay` the turn a person carries by
hand. A press, an edit and a host's answer are steps of their own, and what they
settle is taken up before the next of them (`Quiet`), as promise continuations are.
A document is its id, the edits in it and who wrote each message of one language:
the editing commands are pure functions, and one action here. Two things write a
whole document over another, of any id and content that is valid: a model that
answers a prompt (`EndsWithAnAnswer`), and a person at the text before the builder is
shown again (`Reopen`). `Rewritings` are those documents, with up to `MaxParts` of
their parts changed at once. A prompt shows its model the document, and the proposal
keeps it (`shown`); a translation shows the messages it lacks. An asking keeps the
document of the session it was made in.

*Checked and proved:* `TypeOK`, `EveryWaitHasItsStop`, `HeldIsWhatWasAsked`,
`LandingLosesNothing`.

## Runs and bounds

| Run | Instance | Why it is enough |
|---|---|---|
| `FileLifecycle.cfg` | 2 files, forms, requests and submissions, 1 collector; lease and wait 1 tick, clock to 2, 1 failure | two of everything race; the clock passes a lease, before a write begins and while it lasts, and the wait; a submission may name a file twice |
| `FileLifecycleLive.cfg` | 2 files, 1 of each process, clock to 3, 2 failures | a pass that fails is repeated, twice |
| `Publishing.cfg` | 4 documents, 4 publishes | a publish may be overtaken three times |
| `Submitting.cfg` | 3 sends, 2 tokens, 2 files, 2 webhooks, 2 versions, a pool of 2 or 3 connections | a send and its retry, and another response over the same files: a wait on the key of one that waits on a file of the third, a circle of two claims, a pool at its limit, and a republish |
| `Outbox.cfg` | 2 deliveries of 1 webhook, 2 operators, 3 attempts, threshold 2, cool-down 2, batches of 2, late by 1 | a batch of one and of two (never more due than a batch takes), a breaker opened within a batch, one crash, two replays that race, a delivery skipped again and again |
| `EngineChecks.cfg` | 2 fields with 2 checks and 1, one check not supplied; 2 hosts, 3 writes a field | two generations in flight behind the current one; a host waits on a dropped answer |
| `Drafts.cfg` | 2 pages, 2 answers, 3 resumes, three histories of up to 4 documents | renames at the top, in a group and in a repeater; removals; a version skipped, gone back to, or not rebindable; a save and a resume between any two steps of another; `DeclaredRenames`, the least `Led` of these documents |
| `FillPane.cfg` | 2 mountings, 2 edits, 2 presses, 1 lost request | a page left with a start, a save and a send under way, and the next one mounted; 3 mountings add no case, and were run once for safety |
| `Intake.cfg` | 2 replicas, 3 requests, 2 slots, 1 hit a window of 2 ticks, expiry in second 0, 2 ticks | a queue behind a sweep, a window that ends, a challenge in its expiry second, and one count too many |
| `ModelRuns.cfg` | 2 messages, 2 forms, both hosts, 2 attempts, 1 edit, 3 askings, 1 part rewritten at once | all three runs at once; a run asked after one was stopped; the rest of a translation after a first one; an answer or a text that changes any one part, the id, an edit or a message, which is enough for a document to be another one |

Deadlock is not checked in any run: requests and submissions finish, clocks stop
at their bound, and then there is nothing left to do. That nobody waits for ever
is what the liveness properties say. Sets whose members are alike are symmetric
in `FileLifecycle.cfg`, `Publishing.cfg`, `Drafts.cfg` and `ModelRuns.cfg`, which check safety
alone, and in no run that checks liveness. The two cfgs named after a property
end in the counterexamples of the section after next.

The bounds are constants named `Max...`, in guards. The one that shapes
behaviour is `MaxTime` of `FileLifecycle`: a file is offered only while there is
time left to abandon it, or the clock's end would keep it from being collected.

## Fairness

Safety needs none. For liveness:

- `FileLifecycle`: the clock advances; a handler or a submission that has begun
  goes on (each await is answered); the collector's timer keeps firing
  (`setInterval`, and a pass that throws is caught). Nothing obliges a client to
  send anything, and failures are not fair: there are finitely many.
- `Submitting`: a request goes on while it can, and the database ends a transaction
  that waits in a circle of rows (PostgreSQL's `deadlock_timeout`). That any other
  wait ends, for a connection, a key or a row, is a result and not an assumption.
- `Outbox`: the worker's timer comes back, a post is answered or times out after
  ten seconds (`deliver.ts`), and time passes. The receiver is obliged to nothing.
- `EngineChecks`: a checker in flight answers in the end, with anything. The
  number of writes is bounded, so there is a last one; a person who types for
  ever, faster than a checker answers, could keep a host waiting for ever.
- `FillPane`: a timer that is set fires, and a request is answered, well or badly,
  or lost; failures are finitely many. Nobody has to type, press or come back.
- `Intake`: each request's own steps go on: its timer fires (`setTimeout`), a place
  it is given is used, and what it asks of the challenge store is answered. The
  counter need not answer at all, and nobody has to sweep.

## Where the code and what it says differ

Two runs end in a counterexample, each to a sentence of a comment or a decision.
`PROJECT.json` quotes them.

| Property | What happens |
|---|---|
| `ClaimedIsNeverRubbish` | The collector reads a stored file as abandoned; a submission claims it; the collector removes its bytes and deletes its row, by id alone. |
| `RefusedIsNotSent` | `submit()` does not read the refusals of checks. |

The models have more behaviours that a reader of the comments may not expect.
The properties are stated to hold beside them, and so say how far each goes.

Files:

- A submission may name a row a collector deleted: `ClaimedIffNamed` allows that
  and nothing else.
- A pass that throws after a removal leaves the row of a file without bytes until
  a later pass: `YoungFilesHaveBytes` speaks of files the collector may not take
  yet. A `PUT` past its second look may write bytes after the collector deleted
  its row, and no row names them.
- A `PUT` whose write began inside its lease and outlasts it may replace settled
  bytes: `OnlyOverrunsReplace` allows that residual, which
  `docs/architecture/11-risks-and-debt.md` accepts, and no write that began later.

Publishing and submitting:

- Two editors who declare one base may both publish, when the second reads the
  form before the first commits and the highest number after:
  `DisplacesOnlyWhatRaced` says that nothing older than the request is displaced.
- A second send may look for the response before the first commits and at its
  files after, and be told that they are unknown: `AnswersAreTrue` promises only
  that such a send stored nothing.

Outbox:

- A breaker opened late in a batch carries the batch's start and half-opens that
  much early: `CooldownIsWaited` allows it the time a batch takes.
- A second replay that read a delivery as dead may write it back to pending after
  the first's run delivered it (`outbox.ts:165`), though only a dead delivery is to
  be replayed (`outbox.ts:144`): `PostsAreCharged` and `EndsAreEarned` leave out a
  delivery that was revived so.

Engine checks:

- The last answer in flight may be stale, or another field's, and a field is left
  marked as checking though none of its checks is out; or the mark is cleared early
  (`engine.ts:888`).
- The values an engine is opened with are asked no check, and the server's replay
  has no others (`engine.ts:929`, `submitting.ts:139`).

Drafts:

- A rename within the rows of a repeater is reported compatible and never applied,
  and a removed child of a group that was renamed is not set aside: `Excusable` names
  both. So is an answer left under its old key, when the data holds the new one.
- A second removal at one path replaces what the first set aside, though
  `SAFETY-ANALYSIS.md:662` says that an orphaned answer is never deleted:
  `OnlyRacesLose` allows it (`Displaced`).
- A page that shows an older version saves under the current one, and its answers
  are never migrated: `AnswersAreOnTheForm` excuses them.
- A chain of renames that skips a version is a removal; and a resume that read the
  current version too early rebinds to it, backwards.
- A group that keeps its `renamedFrom` in a later document has its children looked
  up under the old path, reported removed and set aside (`diff-fields.ts:104`),
  though decision 0011 has answers follow the field.

Fill pane:

- A start whose request is rejected stays in `starting`, and the pane saves no more
  until it is mounted again: `EveryEditIsSaved` speaks of runs without failures.
- Any answer but ok to a resume is taken for a draft that is gone, and its key is
  forgotten.
- A press whose token was spent by an earlier one makes the pane forget a draft that
  is newer than what was stored.
- Two saves that one start releases are sent at once, and may land in either order.
- A response may be stored twice, when a draft's token takes the place of the form's
  between two presses (`docs/decisions/0169`).

Intake:

- A refused or failed attempt still spends its challenge, and a count that was given
  up still counts when it lands: `BudgetIsShared` speaks of the counts the row takes,
  and a request let through without one is beside it.
- A challenge may pass once more in its expiry second, after a sweep
  (`challenge-sweeper.ts:9-12`): `OnePassesInTime` speaks of the time before.

Model runs:

- A model that answers a prompt may answer with a form of another id, or without
  parts of the one it was shown, and Apply takes it: nothing compares the two but the
  diff the person reviews. `LandingLosesNothing` promises that this is the diff from
  the very document the model was shown, and holds translations to more.

## Proofs

Each `..._proofs` module extends its component and proves the safety properties
its run checks, for any constants that satisfy the component's named assumption
(that the bounds are naturals, and that `None` is none of the ids; `Drafts` assumes
more, see there). `Filling_proofs` has the proofs of two components, the checks and
the draft of a form that is filled in, one after the other. There is one
lemma for each action or group of actions, and `PTL` in the last step only. Most
also prove that their component is well typed (`TypeCorrect`), and
`Publishing_proofs` and `Submitting_proofs` three facts no run checks:
`NoDocumentTwice`, `HistoryOnlyGrows` and `CommitReplacesNothing`.

- `FileLifecycle_proofs`. `TypeOK` is inductive. Then three invariants, each
  inductive beside the ones before. `ClaimInv` adds to the claims that the rows
  of a *checked* submission's files have left `offered` for good and are of its
  form (`CheckedInv`): that is what makes the check outside the transaction worth
  anything inside it. It rests on `RowsForward`, that a row only moves forward.
  `ReceiveInv` adds that the row of a request whose lease still runs carries that
  lease, and is offered or deleted (`LeaseInv`): two holders of one file would
  then have one instant of expiry, and the later one could not have been given
  it. `BytesInv` adds that the collector holds only files that are old, and that a
  written file that is young has bytes. `BeganInv` adds that a write began before
  the lease of its request ended, so one that replaces settled bytes is an `Overrun`.
  The refinement takes one invariant more, that an idle collector holds nothing
  (`IdleInv`), and shows of each action what it does to what was accepted, the places,
  the owners and the files chosen for collection.
- `Publishing_proofs`. The invariant adds what a request knows at each step: a
  number about to be inserted is a version's or the next one (`NumberInv`), which
  with the unique constraint makes versions contiguous; a declared base was seen
  as a version (`SeenInv`).
- `Submitting_proofs`. `SendInv` says what each request knows, `LockInv` that two
  open transactions have different keys and that no row is locked by two, nor locked
  and claimed, and `StorerInv` that
  a response was stored by the request that carries its id. `Commit` keeps
  `StoredWhole` because nothing of that id is there before it.
- `Filling_proofs`, of `EngineChecks`. The calls about what a field holds are those
  of its present generation (`FreshIsCurrent`); each is one verdict that is waited
  for (`WaitingIsAsked`); a host goes on only when nothing is in flight
  (`SettledIsIdle`).
- `Filling_proofs`, of `DraftMigration`, for any two documents and any data. The
  renames at the top take no two keys to one, nor do those in a group
  (`TopKeyInjective`, `GroupMoveInjective`), for a rename is applied only where its
  new key is free: so each answer has one path it goes to (`MoveFacts`), a step of
  declared renames away, and `MigratedData` has a migration lose, double and invent
  none. An answer that the old form had and the new one has not is among the paths
  removed, or in one of the cases of `Excusable` (`TopStaysOrGoes`,
  `InnerStaysOrGoes`), which gives `MigratedPaths`. It takes the kinds of keys: a
  rename whose new key is taken leaves a leaf where it was only for another leaf.
- `Filling_proofs`, of `Drafts`. A property of the row alone is not inductive: what
  is written was read long before, by a page, a save or a resume. `CopiesInv` says of
  every copy what is to hold of the row, each with the version it is a copy of, which
  for a save is the version its page *showed*: bound to another, it excuses what it
  writes. `FreshInv` says that what was read since the last write has all the row has,
  and that a page whose own save is under way has what that save has, which is why a
  page is up to date once its save has landed. `OnlyRacesLose` follows from it and
  `MigratedData`.
- `Outbox_proofs`. What a batch read of a delivery is what is there, unless the
  delivery is outdated (`SeenInv`); the post in hand is one more than is recorded
  (`PostInv`). A webhook ready for its probe has had none but those of batches that
  died (`ProbeInv`). What is left of a cool-down, the time since the last failure and
  the longest a batch runs make up a cool-down and the time this batch has run
  (`QuietInv`).
- `Intake_proofs`. A request is in one replica's queue once, under way from one
  replica, or neither (`QueueInv`, `SlotInv`), which makes handing a slot on a swap
  of one for one, whatever was abandoned meanwhile. A challenge that was spent in
  time is remembered or has expired (`SpentInv`). The row's number is that of the
  counts since its window began, up to the budget, and the ticks before, as many as
  are in one stretch with it, counted one budget at most; where there is no row, the
  last window counted no more than that either (`BudgetInv`). So a sweep, which takes
  only a row whose window is over, forgets nothing a stretch could still need.
- `FillPane_proofs`. A page numbers responses by what it has seen stored. Whatever
  was started, or heard of, is *past* (`Past`): its number is smaller than what its
  page has seen, or it is the response the page's own draft is of. So a response that
  was heard is none a draft can be started for, and one with a draft is none a page
  without one is at. `SendInv` carries this over a send under way.
- `ModelRuns_proofs`. An asking that was not stopped is the one its run waits for
  (`Awaited`), and the relay's turn is one that waits (`Carried`), so a Stop reaches
  it. What is held answers an asking that is over (`HeldInv`), so stopping or
  forgetting one cannot make a held answer that of a stopped one. An edit is
  held against the document its model was shown, and a translation against a document
  it only adds missing words to (`SoundInv`), also where it is the rest after a first
  answer. Applying is the one step that both adds an undo
  and lets go of an answer (`OnlyApplyLands`).

*Only model-checked:* the six liveness properties, since the prover has neither
fairness nor `ENABLED`. Every invariant and every action property that a run checks
is proved, and so are the three refinements.

## Not modelled

The engine's store, rows and wizard, and the rules, validators and snapshots around
the checks: planned, below. Issuing a challenge, downloads and paging change
nothing. Examples are one upsert, and the model routes keep no state. Pure functions
over a document (validation, expressions, most of the diff, canonical form, hashes,
the editing commands) have no interleaving, and their tests and the conformance
corpus reach them. User interface, adapters to external services, logging, wiring,
generated code and the documentation sites have no protocol of their own. These are
most of the repository's lines, so the modules stand for a small share of them.

## Plan

1. `Store` and `Wizard` of the engine: transactions, rollback and notification;
   pages that are skipped.
2. A composition of `Submitting` with `FileLifecycle`, to have the claim in one
   module as the code has it.
3. Proofs: what liveness rests on, as far as it is safety: that a step is open to
   whoever waits, for `EverySendIsAnswered` and `EverySettleResolves`.
