# A TLA+ model of agent-first-mail

`afmail` keeps mail as files in a workspace, pulls messages from IMAP mailboxes,
from a Cloudflare R2 spool or from directories, lets people and agents work on
them as cases and drafts, and pushes the results back: it sends drafts, appends
them to mailboxes, sets flags and moves messages.  Nearly everything that can go
wrong lies between two file writes, between a file write and a remote call, or
between two parties that share a file.  This project models those sequences,
checks them with TLC and proves the results that matter most with TLAPS.

## 1. Inventory

### Components, their state and their operations

| Component | State | Operations | Module |
|---|---|---|---|
| Outbound push item (`push_queue/`, `outbound.rs`) | `.afmail/push/<id>.json` with one state per step, a local stage and a pending audit event; the draft file; the sent evidence; the audit log | queue and requeue a draft, remove it, preview, confirm, recover, finalise | `OutboundPush` |
| Message push actions (`push_queue/execute.rs`, `imap_client.rs`) | the same queue; the remote locations of messages | flag and move messages, MOVE or COPY with EXPUNGE, recovery of a MOVE, queue order | `MessagePush` |
| IMAP pull (`sources/imap/`, `ingest/`, `store/remote_sync.rs`) | `cursors.json`; `.eml`, metadata, cache and disposition of each message | scan headers, fetch bodies, ingest or merge, reconcile, commit cursors, rebuild caches | `ImapPull` |
| Cloudflare pull and consumer (`sources/cloudflare/`) | the journal (receipts, tasks, active batch), completion markers; R2 objects, queue events | import objects, remove them, acknowledge events, dispatch batches to a handler | `CloudflareConsumer` |
| Cases, notifications, dispositions, triage, purge (`store/cases.rs`, `notification.rs`, `messages.rs`, `disposition_views.rs`, `triage.rs`, `purge.rs`) | case and notification directories with their references; the collections `spam`, `trashed`, `deleted_remote`; one push item per message | create, add, remove, move, merge, archive, unarchive, delete, trash, spam and back, purge | `CaseStore`, `MessageLife` |
| Transactions and doctor (`store/transactions.rs`, `doctor.rs`) | a record per unfinished compound change | begin, finish, refuse other commands, repair | `CaseStore`, `Service`, `Setup` |
| Suggestions and review (`store/suggestions.rs`, `runner/review.rs`, `review/host.rs`, `review_runtime.js`) | an agent and a human suggestion; the host's model; the page's forms and calls | set, edit, save, settle, refresh, ask the agent | `Review` |
| Requests (`runner/dispatch.rs`, `api/server.rs`, `store/idempotency.rs`, `workspace_lock.rs`, `progress.rs`) | the lock, a record per request id, the progress snapshot | admit, lock, guard, start, perform, complete, replay, answer, status | `Service` |
| File channel (`channels/files.rs`) | evidence, metadata and views of file messages; input and output directories | configure, import, retire, publish a reply, settle an uncertain one | `FileChannel` |
| Drafts and attachments of drafts (`store/drafts.rs`, `draft_content.rs`, `attachments.rs`, `config/identity.rs`) | draft files with markers, quoted history and footers; `files/`; `drafts.json` | new, reply, change, attach, queue, remove, list, push | `Drafts` |
| Initialisation and migration (`store/mod.rs`, `migration.rs`, `workspace_identity.rs`) | `workspace.json`, message sidecars, collections, cursors, `.gitignore` | init phase by phase, upgrade, doctor, doctor repair | `Setup` |
| Attachments of messages (`mail.rs`, `store/messages.rs`) | extracted files, the paths in the message cache | fetch one or all | `Attachments` |
| Contacts, handler processes, demo, skills, diagnostics | files of their own or none | edits under the lock | not modelled |

### How they interact

Every command takes the workspace lock, shared if it reads and exclusively if it
writes (`Service` models the lock itself).  So local operations do not interleave,
with four exceptions that make the system hard: people edit drafts and
configuration without the lock; a process may die at any write and leave the files
as they are; the Cloudflare consumer releases the lock while its handler runs, so
that the handler can use `afmail` itself; and the review page holds a copy of its
subject in a browser while other commands change it.  Remote servers change at any
time and answers get lost.  The pull and the push meet in the remote locations of
messages; the consumer, the pull and the purge meet in the set of stored messages;
cases, dispositions and the queue meet in the one push item a message may have.

### What is hard, and what makes each component correct

- *Outbound push.*  An effect on a server cannot be undone or repeated, and its
  answer may be lost.  Each effect happens at most once; only what a person reviewed
  is sent; success is recorded once and only for what happened; the sent message is
  kept before its draft is removed; started progress is never forgotten.
- *Message push.*  A move leaves exactly one copy, items start in the order they
  were queued, and the queue drains when push and pull are repeated.
- *IMAP pull.*  The cursor is one number for many messages, each of which can be
  skipped for a different reason, in a mailbox that changes while it is scanned.  No
  message below the cursor is missing; a message in a case is kept when its remote
  copy disappears; one marked deleted by mistake is looked at again; everything is
  stored in the end.
- *Consumer.*  Import, journal, R2 and queue change one after the other.  No mail and
  no notification is lost; the journal always loads; the handler accepts a message
  once; what arrives is handed over.
- *Cases, dispositions, transactions.*  Compound changes of several files.  After any
  crash the references agree or are repaired, a started push is kept, and a reader
  finds a message in one place and sees it move only in the allowed ways.
- *Review.*  Page, host and workspace hold copies of one text.  What is typed is kept,
  a settlement stands for a content the host read to draw, nothing unseen is overwritten, nothing
  waits forever.
- *Requests.*  A retried request takes effect once; no command sees the half-done work
  of another; status is truthful; every request is answered.
- *File channel.*  No retired input is lost; nothing is imported twice while the
  directories stay as they are, and nothing is published twice unless a person says that
  it was not sent.
- *Drafts.*  What is sent is what was written, with the files that were attached.
- *Setup.*  What a workspace knew survives init, upgrade and repair.

`PROJECT.json` lists the hazards at their lines with the properties that cover
them, and every component that is left out with the reason.

## 2. Modules and the code

Every module is one component; `MC<module>` is its instance for TLC.  A definition
`X_Bug` (or `X_...` with a comment that describes a mistake) is `X` with that
mistake.  No action uses it.  Put in the place of `X` it must make a run fail, which
shows that the property depends on the code `X` stands for.  `TypeOK` of a module
documents the domains of its variables; the one of `OutboundPush` is checked and
proved, the one of `CaseStore` proved.

**OutboundPush.**  `disk` is the queue item file and `mem` the copy a running push
works on; `pc` is its place in `push_with_progress`, `execute_tracked_steps` and
`finalize_pushed_item`.  The actions come in the code's order: `Confirm`, `BeginStep`
(mark the step pending and write), `PersistUnknown` (mark it `remote_outcome_unknown`
and write), then the call with its three outcomes (`CallAccepted`, `CallRejected`,
`CallAnswerLost`, after which the effect may have happened, may happen later or
never), `StepSucceeds` or `StepErrs`, and the local stages up to `AppendAudit` and
`DeleteItem`.  Every write may fail and leave `disk` behind `mem`; `Crash` is possible
everywhere.  `SettleSend` and `RecoverDraftsAppend` are `push recover`; a wrong answer
given there is counted in `mistakes`.  A draft is a revision and its `sync_intent`, a
plan id the content it digests, a step its label, which occurs once in a step list.

**MessagePush.**  `item` is the queue, `loc` the locations in the metadata, `at` the
copies on the server, `run` the push under way.  A MOVE is answered, refused,
unanswered, or answered without a target UID; without MOVE the push uses COPY, STORE
and UID EXPUNGE.  `Pull` relocates what it finds; `Environment` is another client.
UIDVALIDITY is part of a UID.  `earlier`, which items were queued before an item, is
history for the property; the code orders the queue by its numbers alone.

**ImapPull.**  `mail`, `validity`, `nextUid` are the server; `eml`, `meta`, `cache`,
`disp`, `cursors` the files.  A pull decides on a list of file `writes` when it meets
a header or a body, and makes them one at a time in the code's order, so that `Abort`
between any two of them is a crash or an error.  Its phases are `select`, `scan`,
`commit` and `render`.  A message is its raw bytes; flags are left out.  The set `old`
is what a windowed pull does not see.

**CloudflareConsumer.**  `spool`, `events` are Cloudflare; `receipts`, `tasks`,
`active` the journal, whose saves are atomic; `markers` the completion markers.  `job`
is the import of one object by whoever holds the lock; `tick` the place of the consumer
in `consume` and `dispatch`.  Completed tasks are pruned by the save that completes
them, so they are `none`.  Left out are the expiry of receipts older than any event
that can still be delivered, and retry times: a retry that is not due ends the tick.
`unshown` records the messages whose triage view could not be rendered.

**CaseStore and MessageLife.**  A command runs alone and makes several writes.  It is put
together from them, one operator per function that writes: each adds the workspaces it
produces to those written so far (`w`) and says from which the command goes on (`d`), and
a check that fails stops it where the code returns the error (`ok`).  The action of the
command goes to a workspace it may end in or, when the process dies, to any earlier one.
A loop over the messages of a case may take them in any order, so a crash leaves any
part of them done.  The compound commands, `draft queue` among them, run inside a
transaction (`Transactions`), whose record blocks the next command until doctor repair
resumes it or, as for all but the archive of a case, a person does.  `MessageLife` is the abstract
specification: one place per message and the moves between places.  `Life` in
`CaseStore` maps the files to it in the way a reader of the workspace decides, and the
property `LifeIsImplemented` is `MessageLife!Spec` under that mapping.

**Review.**  Workspace (`doc`, `other`, `agent`, `human`), host (`model`, `pending`) and
page are three parties; calls and replies are messages between them and may be
overtaken.  A text is a number, so that equal numbers are equal hashes.  The host moves its
model before it draws: `DrawFails` and `ReloadFails` leave it moved with nothing drawn, and
`undrawn` remembers such a content beside `rendered`.

**Service.**  A request goes through admission, lock, transaction guard, progress
snapshot, idempotency record, an operation of two writes, the completed record and the
answer.  Handlers of one API process die together.

**FileChannel.**  The producer and the consumer of the directories behave as
`docs/channels.md` asks of them, at any time; pull, push and filing hold the lock.
`Configure` gives a source other directories between two commands, and `SettleSent` and
`SettleNotSent` are `push recover`, whose wrong answers are counted in `wrong`.  `importedAs`
and `placed` remember under which configuration (`configs`) an input was imported and an
output was published.

**Drafts.**  A body is a sequence of lines: text, comments, quoted lines, markers and
footers.  `ByHand` is an editor without the lock.  The push is one step here; its
inside is `OutboundPush`.

**Setup.**  `init` and `doctor repair` are walked through phase by phase with a death
between any two; `ByHand` damages files, `Pull` and the configuration commands move the
workspace on in between.

**Attachments.**  The cache of paths, the files, and the fetch that trusts both.

## 3. Runs

| Run | Instance | Shows |
|---|---|---|
| `outbound` | two revisions, one push id, two configurations, one wrong recovery answer; failures, crashes and retries unbounded | `TypeOK`, `AtMostOnce`, `AuditIsTruthful`, `OnlyReviewedContentIsSent`, `SentMessageIsKept`, `ProgressIsNeverForgotten` |
| `message_push` | two messages, one with copies in two mailboxes; three commands, one fault, one change by another client | `MoveIsExact`, `QueueOrderIsKept`, `QueueDrains` |
| `imap` | two mailboxes, two messages, windowed and all-history pulls with a budget of one, two troubles | `NothingSkipped`, `ReferencedIsKept`, `DeletedIsRevisited`, `EventuallyStored` |
| `consumer` | three objects with two contents, batches of two, two troubles | `NoMailLost`, `NoNotificationLost`, `JournalLoads`, `HandledOnce`, `MailIsHandedOver` |
| `case_store` | one message, two cases, two notifications, a reply draft, one death; every command any number of times | `ReferencesAreSound`, `FilingIsWhole`, `StartedPushIsKept`, `ArchiveIsFinished`, `LifeIsImplemented` |
| `review` | three actions of person and agent together, one fault | `TypedTextIsKept`, `SettlementIsBound`, `NoUnseenOverwrite`, `PageIsNeverStuck` |
| `service` | a handler and a command line, one key, two inputs, three requests, one fault | `RetryIsSafe`, `WritesAreIsolated`, `StatusIsTruthful`, `EveryRequestIsAnswered` |
| `file_channel` | two sources, three directories, two inputs, one fault, one purge or change of directories, one wrong statement to `push recover` | `NoInputLost`, `NothingTwice`, `ViewsFollowEvidence` |
| `drafts` | two identities, two drafts, two changes, one edit by hand, one death | `SentIsWhatWasWritten`, `SentFilesWereAttached`, `CommandsKeepDraftsListable` |
| `setup` | two messages, two identities, two damages, one pull, one death | `KnownIsKept`, `FinishedMeansDone`, `PullContinues` |
| `outbound_resume` | violation | `ResumeNeedsNoDraft` |
| `attachment_fetch` | violation | `FetchedIsThePart` |

Several properties are conjunctions of named parts, each defined and explained on its
own in its module: `AuditIsTruthful` of `AuditedMeansApplied` and `AuditedOnce`;
`ReferencesAreSound` of `CollectionsAgree` and `PurgedIsUnreferenced`; `FilingIsWhole`
of `DiscardedIsInNoCase` and `TriageViewsAgree`; `MoveIsExact` of `NoSecondCopy` and
`FinishedMoveIsApplied`; `TypedTextIsKept` of `NoEditIsLost` and
`AgentReadsWhatWasTyped`; `SettlementIsBound` of `HumanIsBoundToAgent`,
`SettledWasRendered` and `ErrorMeansNotSettled`; `PageIsNeverStuck` of
`RefreshIsDrawn` and `QuestionIsAnswered`; `RetryIsSafe` of `EffectAtMostOnce`,
`ReplayIsTheFirstResult` and `RetryableMeansNoEffect`; `WritesAreIsolated` of
`NoReaderDuringAWrite` and `IncompleteMeansFault`; `StatusIsTruthful` of
`RunningIsNotAbandoned` and `StaleMeansNobodyRuns`; `NothingTwice` of `ImportedOnce`,
`PublishedOnce` and `RecordedWasPublished`; `SentIsWhatWasWritten` of `SentWasQueued`, `SentIsAuthored`,
`ReplyKeepsHistory` and `FooterIsShown`; `SentFilesWereAttached` of
`OnlyManagedFilesAreSent` and `AttachedIsSent`; `KnownIsKept` of `UidIsKept`,
`BindingIsKept` and `UserLinesAreKept`; `FinishedMeansDone` of `InitIsComplete` and
`RepairKeepsItsPromise`.

*Bounds.*  Every bound is a constant named `Max...` (and `Arrivals`, `Aging`,
`Drafts`, `Offered`, which say what may happen).  One crash or fault is enough to leave
any intermediate state; what follows it runs the recovery code, and a recovery that
itself dies is another first crash from a state of the same kind.  Where two troubles
of different kinds matter together (`imap`: an abort and a change on the server;
`consumer`: a crash and a purge, or a lost call and a pull), `MaxTroubles` bounds their
sum and the other bounds each kind.  In `OutboundPush` failures, crashes and retries are
not bounded, and in `CaseStore` only deaths are.  Two revisions, two mailboxes, two
cases, two notifications, two sources, two inputs of one key and two identities are the
least that can be confused.  `imap`: an old message in the mailbox, one that arrives and
a budget of one make a pull stop with messages on both sides of the cursor.
`message_push`: three commands queue an item, replace it or queue one after the first has
gone, which is when a number is used again.  `case_store` has one message because every command is offered in every
state: commands treat the messages of a case one after the other, and a crash leaves some of
them done and the others untouched.  What one message cannot show, a draft of one message's
case that replies to another or a loop that stops half-way, the theorems cover, which hold
for any number of them.  `file_channel`: one change of directories (`MaxChanges`, which counts purges too) makes an
output directory an input or moves the one `push recover` looks into, and one wrong
statement (`MaxMistakes`) publishes again.  `setup`: two damages can destroy a file and what it would be rebuilt from.
Symmetry is used in `outbound`, `case_store`, `file_channel` and `setup`, none of which
checks liveness.

*Deadlock.*  The runs that switch the check off have bounded environments: when the
commands are used up and nothing is left to do the system stops, as it should.  In
`outbound`, `outbound_resume`, `imap` and `consumer` a step is always possible and
deadlock is checked.

*Fairness.*
- `EventuallyStored`: a started pull goes on (one process with time limits on every
  call), and the pulls of each mailbox list are started again and again (`SF` of
  `StartPull`), which is what a user or a scheduler does.
- `MailIsHandedOver`: a tick and an import go on, `cloudflare watch` starts ticks
  (`WF`), and ticks that reconcile come infinitely often (`SF` of `StartScan`): `watch`
  reconciles at an interval, not in every tick.  The handler succeeds once its bounded
  failures are used up.
- `QueueDrains`: a push goes on, `push --confirm` is repeated (`WF` of `BeginPush`), and
  each mailbox is pulled again and again (`SF` of `Pull`, which a push may disable in
  between).  Items whose move cannot be resolved are excepted, as the code asks for
  `push recover` there.
- `PageIsNeverStuck`: the host answers the calls in its queue, the page handles the
  replies, its save timer fires, and an open controller answers; nothing is assumed of
  the person.
- `EveryRequestIsAnswered`: every worker goes on.  The lock is never waited for
  (`try_lock`), so no fairness between workers is needed.

## 4. Findings and observations

The two violations:

- `outbound_resume`: a sent draft is removed before the stage that says so is written.
  An error or crash in between leaves an item `plan_item` refuses, and with it every
  later push.
- `attachment_fetch`: with two attachments of one name and type, the fetch of the second
  answers with the file of the first once that was fetched.

Seen while modelling, without a run of their own.  Where one limits a property, the
property says so in its comment.

*Outbound push*
- After an edit of the draft between two attempts, `sent_message_id_conflict` advises to
  requeue the draft, which `validate_outbound_requeue` refuses for a started item.
- An upload that resumes after its draft was removed is planned, and audited, as a send
  (`push_queue/mod.rs`, `plan_item`).

*IMAP pull*
- A cursor left by a windowed pull makes `--all-history` start behind the messages the
  window excluded (`sources/imap/session.rs:256`; `docs/setup.md:143`: "`--all-history`
  imports everything").
- A pull that dies between metadata and cache leaves a cache from which reconciliation
  (`store/remote_sync.rs:466`) marks a moved message `deleted_remote` for good.
  `DeletedIsRevisited` therefore speaks of workspaces in which no pull died.
- `DeletedIsRevisited` also needs that each message has one copy on the server.  A message
  with two copies that is purged and stored again from its second copy is marked
  `deleted_remote` when that copy disappears from view between two snapshots, although the
  first is still there: its cursor had passed it when the purge removed its location.
- A windowed pull that finds nothing commits cursor 0, after which the next windowed pull
  takes the whole history.  When one mailbox is fully scanned, the counter that forces a
  full scan is reset for all of them.

*Consumer*
- A triage view that cannot be rendered fails the import after the message was published;
  the intent is withdrawn and the notification is lost (`sources/cloudflare/mod.rs:197`,
  `ingest/mod.rs:187`; `journal.rs:1` says intents are made ready before remote cleanup).
  `NoNotificationLost` leaves out these messages, the set `unshown`.
- A message purged after its import and before its object was removed, and imported again
  by a process that dies before the receipt, keeps a task that stays `preparing`.

*Cases, dispositions and their pushes*
- A case push that has begun refuses a notification command and names `notification ...
  move` as the way out (`notification.rs:673`), but the refusal leaves a transaction
  record (`messages.rs:1643`) that blocks the move until doctor repairs it.
- A purge that dies between the removal of the metadata and the clearing of the
  disposition (`purge.rs:133`) leaves an entry a redelivered message falls into
  (`messages.rs:263`); `MessageLife!Redeliver` allows it.
- With no configured `case.add` steps, a message that was pushed to spam and is then added
  to a case is left with `push_state_mismatch` (`remote_sync.rs:793`).
- A push that dies between the deletion of its item and `finalize_archiving_cases`
  (`push_queue/mod.rs:717`) leaves its case `archiving` until another push ends; an
  unarchive that dies between the status and the rename is
  only finished by repeating it.

*Review*
- The host replaces its model before it draws the page and before the browser shows it
  (`host.rs:527`, `629`; `review.rs:1217`, `1658`).  While the new page is on its way, is
  dropped because something was typed, or could not be drawn at all, a settlement from the
  old page is bound to the new content and round, which that person never saw, although
  the model keeps "the suggestion round the person actually saw" (`review.rs:188`).  The
  page sends no round that could be compared.  `SettledWasRendered` therefore speaks of
  what the host drew or, when the drawing failed, read.
- Rejecting a suggestion whose content changed is refused (`suggestions.rs:592`), while
  `docs/code-structure.md:116` says only accepting or changing it is.
- The lock of a page that needs repair is lost on refresh (`review_runtime.js:192`).  A
  controller whose input ends leaves its question unanswered until the session ends;
  `QuestionIsAnswered` excepts it.

*File channel*
- A message is identified by its source and id, so after a change of directories an input
  that was kept can be imported once more for another source, and a file in a former
  output directory is an input like any other (`channels/files.rs:71` compares the
  directories configured now).  `ImportedOnce` excepts both.
- `push recover --not-sent` is refused when the output is in the directory configured now
  (`recovery.rs:216`).  When its consumer has taken it away, or the directory was changed,
  a wrong statement publishes the reply again; `PublishedOnce` counts such statements.

*Requests*
- The final snapshot may disagree with the answer when its write fails
  (`dispatch.rs:111`; `docs/file-formats.md:928`).  A pending idempotency record is never
  settled, by doctor neither.  `status` may say `running` of a dead pull when another
  command holds the lock.

*Drafts*
- A file inside the case but outside `files/` can be attached and is then refused by
  validation (`attachments.rs:26`, `drafts.rs:236`; `docs/workspace.md:292`).
- `draft change --body ... --identity new` leaves both footers; an updated external file of
  the same name keeps the old copy; HTML comments in the compose section are sent; a death
  in the removal of a draft leaves an intent without an item, after which the drafts of the
  case cannot be listed, and doctor cannot repair an interrupted `draft_queue`.
  `CommandsKeepDraftsListable` excepts what a death left.

*Setup*
- An upgrade that dies after `workspace.json` was written is refused once a pull has moved
  the cursors (`migration.rs:111`; `store/mod.rs:741`: "Init is also the restart point").
  A first init that dies before `workspace.json` is refused with
  `workspace_identity_missing` (`workspace_identity.rs:153`).  Init writes the managed block
  of `.gitignore` without the patterns of installed skills.

## 5. Proofs

Each proof module extends the module of its component.  Its theorems hold for every
value of the constants that satisfies the assumptions of that module, so for any number
of messages, mailboxes, workers, faults and commands.  A theorem `Spec => []P` rests on
an inductive invariant that implies `P`; TLC checked each of these invariants on the
instance of the component's run before it was proved.  One lemma per invariant, or per
part of it, goes through the actions of `Next`; what an operator of the model yields or
preserves is a lemma of its own, cited where several actions share the operator.

| Module | Theorem | Property | Invariant |
|---|---|---|---|
| `OutboundPushProofs` | `TypeCorrect` | `TypeOK` | `TypeInv` |
| | `EffectsHappenAtMostOnce` | `AtMostOnce` | `OnceInv` |
| | `ReviewedContentOnly` | `OnlyReviewedContentIsSent` | `ReviewInv` |
| | `AuditCanBeBelieved` | `AuditIsTruthful` | `AuditInv` |
| | `SentMailIsKept` | `SentMessageIsKept` | `AuditInv` |
| | `ProgressStaysQueued` | `ProgressIsNeverForgotten` | `AuditInv` |
| `CaseStoreProofs` | `TypeCorrect` | `TypeOK` | `Inv` |
| | `ReferencesStaySound` | `ReferencesAreSound` | `Inv` |
| | `FilingStaysWhole` | `FilingIsWhole` | `Inv` |
| | `StartedPushStays` | `StartedPushIsKept` | `Inv` |
| | `ArchiveEndsWhole` | `ArchiveIsFinished` | `Inv` |
| | `LifeIsKeptTo` | `LifeIsImplemented` | `Inv` |
| `ImapPullProofs` | `NoMessageSkipped` | `NothingSkipped` | `SkipInv` |
| | `ReferencedNeverMarked` | `ReferencedIsKept` | `RefInv` |
| | `MarkedWillBeRevisited` | `DeletedIsRevisited` | `FollowInv` |
| `MessagePushProofs` | `MoveCorrect` | `MoveIsExact` | `MoveInv` |
| | `OrderCorrect` | `QueueOrderIsKept` | `OrderInv` |
| `CloudflareConsumerProofs` | `JournalAlwaysLoads` | `JournalLoads` | `JournalInv` |
| | `NotificationsKept` | `NoNotificationLost` | `NotifyInv` |
| | `MailKept` | `NoMailLost` | `MailInv` |
| | `HandledAtMostOnce` | `HandledOnce` | `OnceInv` |
| `ServiceProofs` | `RequestsMayBeRetried` | `RetryIsSafe` | `ServiceInv` |
| | `WorkIsIsolated` | `WritesAreIsolated` | `ServiceInv` |
| | `StatusTellsTheTruth` | `StatusIsTruthful` | `ServiceInv` |
| `FileChannelProofs` | `NothingPassesTwice` | `NothingTwice` | `OnceInv` |
| | `RetiredIsKept` | `NoInputLost` | `LossInv` |
| | `ViewsAreRebuilt` | `ViewsFollowEvidence` | `MetadataFirst` |
| `ReviewProofs` | `TypedTextCorrect` | `TypedTextIsKept` | `TextInv` |
| | `OverwriteCorrect` | `NoUnseenOverwrite` | `TextInv` |
| | `SettlementCorrect` | `SettlementIsBound` | `BoundInv`, `ClickInv` |

*Outbound push* (`ConfigsAssumption`: step lists name a label once and a send list sends;
`ConstantsAssumption`: `None` is no revision, push id or event id, `MaxMistakes` is a
natural number).  `TypeOK` is not inductive: at the places inside a step the index must be
in the step list and in the item's step states, which `ControlOK` adds.  The count of
effects says nothing of what the item on disk allows next, so `OnceInv` relates the two.
`ItemsHonest`: a step which the item on disk, or the copy in memory, would still attempt
has no effect that is not accounted for by a mistake; for the disk this is what makes a
crash harmless.  `StepKnown`: disk and memory both say `unknown` when the call is made,
which is what the write before the call provides.  `Counted`: unused push ids have no
effects.

What a push leaves behind follows from `AuditInv`, which holds beside `TypeInv` and
`OnceInv`.  `ItemsTrue`: what an item calls succeeded took effect or is a send a person
vouched for; a local stage is recorded only when the remote part was complete, and then
the item keeps its succeeded steps; an event is chosen exactly in the last stage.
`StepsInOrder`: the steps passed are succeeded, in the file too.  `ActionKept`: a run
resumes the action that was begun, although the draft can be edited in between.
`EndInOrder`: evidence, audit event and file come before the deletion.  `HistoryTrue`
speaks of what was logged, completed and dropped.  `ProgressStaysQueued` is an action
property; it follows from the invariant at the one action that deletes an item.

*Cases, notifications and dispositions* (`CaseStoreAssumption`).  `Inv` says of the
workspace on disk that it is typed, that its references are sound, and, while no command
died and none left its record, that each message is filed in one place and shown there.
`Sound` strengthens `ReferencesAreSound` by two facts the next command needs: a case that
is not there has no draft, and a push that has started is one.  A command that stops at a
failed check may leave its transaction record, and one inside a `case_archive` record must
leave what doctor repair can go on from, so `Whole` is also asked of that workspace.

The difficulty is the writes between the first and the last.  A command is a chain of them,
and `Stands(r, d, G, H)` says of the part made so far that it goes on from `d`, that every
workspace written lies in `G`, and that one in which it stopped lies in `H`.  There is one
lemma per kind of change (what it keeps of a workspace), one per operator of the model (the
chain goes on), one per loop (a loop stays in `G` when each of its partial results does),
and one per command.  For the invariant `G` is `Reach(p)`: what the
command may have done so far to pushes, files, dispositions and roots, within bounds `p`
named by the command (the messages it touches, those it owns, the pushes it may end, the
cases it may archive, the kinds of its transaction); `H` is `Restful(p)`, where it may
end.  The two action properties follow from the same bounds: no command but the push of
that message ends a started push, and only `ArchiveCase` and doctor repair bring a case to
the archive; for these two the last writes are followed once more (`Finished`).

`LifeIsKeptTo` is the refinement.  `Init` maps to `Init`.  A command maps to a step of
`MessageLife` or a stutter wherever it dies: each command names what it leaves alone
(`Near(q)`: which messages may gain or lose which dispositions, which cases may go once
their messages are trashed, which files may change), its chain stays there, and from that
frame the place of every message after the command follows.  A purge that dies before it
removes the entry maps to the step that purges, since a message without a file is purged
whatever a collection says of it.

*Message push* (`MessagePushAssumption`; `None` is no file, location or command).  The
property counts copies, but what a step may do next depends on the item on disk and on
what the push has in hand, so `MoveInv` relates all three.  `UidsKnown`: every location,
on the server or on record, has a UID given out before, so that a copy that appears never
lies at a reviewed source.  `ItemsTrue`: steps succeed in order, a reviewed source still
on the server is still on record (hence a location a pull found missing is gone, and both
skipping and recovery are right), and a move that succeeded left no source.  `RunTrue`:
the sources a push has left behind are gone, and from the first request to the answer the
step is recorded as `unknown`.  `CopiesCounted` counts the copies: at most the first ones
and those of other clients between requests, one more while a COPY waits for its EXPUNGE
or an answer is missing; a reported success without a target UID has none too many, which
makes the recovery safe.  `OrderInv` adds that the numbers of the queue are distinct and
grow with the order of arrival (`QueueOrdered`, for which the next number must exceed
every number in use), and that a push has the whole queue before it in that order
(`PushOrdered`); that the sort by numbers yields every planned item once, in order, is a
lemma on `SortedItems`.  `QueueOrderIsKept` is an action property: only the item at the
head of a push starts.

*IMAP pull* (`PullAssumption`).  A cursor is one number for many messages, so `SkipInv`
says of each number a pull may still write what it has passed.  `CursorsTrue` and
`UpdatesTrue` say it of the cursors on disk and of the updates the pull has collected;
`ScanTrue` of the scan under way: a message is stored, or is to be, or still lies ahead
of the scan (`Ahead`: selected, a candidate, behind the blocked UID, above everything
seen, or left out by the window).  `ScanInRange` keeps the scan between the old cursor
and the next UID, `UidsAreUsedOnce` and `LocationsTrue` say that a UID stands for one
message and that recorded locations are those of their message: with them a message
counts as stored because its location is known only when it is that message.
`ReferencedNeverMarked` needs beside the property that no pending write marks a
referenced message.

`MarkedWillBeRevisited` relates the files to the server.  Without an abort the pending
writes of a message agree and the cache follows the metadata (`WritesAgree`), a marked
message has no active location (`MarkedIsGone`), and everything a cursor, an update or
the scan has passed has an active location there (`CursorsFollowed`, `UpdatesFollowed`,
`ScanFollowed`) which the snapshot of the same pull shows (`SnapsTrue`), so that
reconciliation cannot declare it missing.  The theorem assumes `OneCopy`: no message has
two copies on the server at first, as in the instance of the run; later arrivals are new
messages.  The hypothesis is needed: from two initial copies TLC finds a behaviour in
which the property fails (section 4).

*Consumer* (`ConsumerAssumption`).  With the types of the journal `JournalLoads` is
inductive: an import never takes a task out of `pending`, and dispatch drops no task of
the batch it saves.  `NoNotificationLost` does not say why a task may be dropped, so
`NotifyInv` adds `Excluded` (an import runs only for the holder of the workspace lock, so
neither dispatch nor a purge can drop its intent meanwhile), `IntentIsSaved` (an import
about to publish has its intent on disk) and `MarkersHonest` (a marker of the active batch
was left by a run that accepted the batch, and no marker is left when the next batch is
chosen, so that a batch with the same id is not taken for completed).  `MailInv` follows an
object through its import: `ReceiptsHonest` (a receipt stands for stored bytes),
`ImportInOrder` and `StoredFirst`.  `OnceInv` bounds the acceptances of each message by the
crashes before a marker and by its purges.

*Requests* (`ServiceAssumption`, `OfferedAssumption`).  The properties rest on each other,
so there is one invariant.  `LockInv`: the lock each program point holds, and that an
exclusive lock is held alone.  `RequestInv`: what the record of its key says at each
program point of a worker, and of every key that it has at most one effect, none without
a record, and one result.  `TransactionInv`: past its guard a writer finds no transaction
but its own, unless one of its own items left it.  `SnapshotInv`: a running snapshot has
a live owner that will close it.

*File channel* (`FileChannelAssumption`; `None` is no text and not `Own`, `Sent` is the
id of no input).  `OnceInv` says that a pull reads only sources whose directories are no
outputs (`PullInOrder`), that what was published under the directories of now lies where
no source reads (`OutputsApart`), that an input is imported for the source it lies in
(`ImportsHonest`), and that before the link no output was made but those of earlier
attempts a person wrongly called not sent, and after it one more at most
(`SentInOrder`).  `LossInv` says of each input a pull was to see that it is kept, named
in the report, or still before the pull (`PullTrue`, `ReportTrue`), and that an id
counts as known only when its evidence was stored (`EvidenceTrue`). `MetadataFirst`: no
evidence is without metadata, so every view can be rendered.

*Review* (no assumption beyond the types of the counters, `CountsOK`).  A text is held by
the page, by messages and by the workspace, so `TextInv` says of every message on its way
what it knows (`Sound`): the text of a confirmed save, of a page and of a question is
stored, the base of a save was seen by the page.  A form that is not marked as unsaved
holds a stored text; only a confirmation for the very text in the editor clears the mark.
`TextsAreCounted` makes a new text differ from all before it, so that what another command
writes is never taken for something typed; with it `NoUnseenOverwrite`, an action
property, is left with the save, whose base hash is compared.  `BoundInv`: the model the
host would settle was read to be drawn (`Adopted`), up to the page's saves.  `ClickInv`: a click is in one
message at most, as a call or as its reply, and it is on disk only when its call is gone
and its reply is not a failure.

Only model-checked: liveness, since the prover handles neither fairness nor `ENABLED`; and
the safety properties of `Drafts` and `Setup`, which have no proof module.  What a draft
sends, and which lines of a `.gitignore` are kept, is computed with `SelectSeq` over
sequences of lines: what it yields for every sequence needs induction over data.  The
other parts of `KnownIsKept`, and `FinishedMeansDone`, have no such obstacle and are open.

## 6. Not modelled, and what could follow

Not modelled: the process groups and signals of the handler (the consumer has its
outcomes); contacts (sequential edits of one file under the lock); parsing of mail, of
configuration and of the command line, rendering of text, schemas, translation, skills, the
demo and diagnostics, which have no state that outlives a call or are data to the rest.
SMTP, IMAP, R2 and the queue are modelled by the outcomes of a call.  Partly modelled
components name what they leave out in `PROJECT.json`.

Worth doing next:

1. Theorems for `UidIsKept`, `BindingIsKept` and `FinishedMeansDone` of `Setup`.
2. An abstract specification of the queue, each effect happens once or is reported as
   unknown, which `OutboundPush` and `MessagePush` both implement.
3. The composition of `MessagePush` and `CaseStore`, which now meet in an abstract push.
