------------------------- MODULE CloudflareConsumer -------------------------
(***************************************************************************)
(* Receiving mail through Cloudflare: a worker puts each message into an   *)
(* R2 spool and R2 puts an event into a queue.  `afmail cloudflare         *)
(* consume` takes events and spool objects, imports them, removes the      *)
(* objects, acknowledges the events, and hands the new messages to a       *)
(* handler command in batches.  `afmail pull --cloudflare` imports the     *)
(* spool too.                                                              *)
(*                                                                         *)
(* The consumer journal is saved at each boundary, and a crash, an error   *)
(* or a lost answer may come between any two saves.  The workspace lock    *)
(* serialises imports and journal changes; it is free while the handler    *)
(* runs, and other commands may purge or pull then.                        *)
(***************************************************************************)
EXTENDS Naturals, FiniteSets

CONSTANTS
    Objects,        \* keys of the R2 spool, each used once
    Contents,       \* raw bytes of messages
    ContentOf,      \* object -> its bytes; a message may be delivered twice
    BatchSize,      \* cloudflare.queue.batch_size
    MaxFaults,      \* bound: failures of calls, writes, imports and handlers
    MaxCrashes,     \* bound: processes that die
    MaxCommands,    \* bound: pulls and purges by others
    MaxTroubles     \* bound: all of these together

ASSUME ConsumerAssumption ==
    /\ ContentOf \in [Objects -> Contents]
    /\ BatchSize \in Nat \ {0}
    /\ {MaxFaults, MaxCrashes, MaxCommands, MaxTroubles} \subseteq Nat

VARIABLES
    spool,      \* objects under the pending prefix
    arrived,    \* history: objects ever put there
    events,     \* objects with an event in the queue
    acked,      \* history: objects whose event was acknowledged
    stored,     \* contents with a published .eml
    receipts,   \* journal: object -> none, imported, cleaned
    tasks,      \* journal: content -> none, preparing, pending
    active,     \* journal: the active batch; no keys is no batch
    markers,    \* completion markers, by task id
    lock,       \* holder of the workspace lock: free, consumer, command
    tick,       \* where the consumer is
    leased,     \* events of this tick not looked at yet
    acks,       \* events this tick will acknowledge
    todo,       \* objects the running scan has listed and not looked at yet
    job,        \* the import of one object by the holder of the lock
    handled,    \* history: content -> handler runs that accepted it
    purges,     \* history: content -> purges of it
    lost,       \* history: crashes after a handler run and before its marker
    unshown,    \* history: contents whose triage view could not be rendered
    faults, crashes, commands

queue   == <<spool, arrived, events, acked>>
journal == <<receipts, tasks, active>>
history == <<handled, purges, lost, unshown>>
bounds  == <<faults, crashes, commands>>
vars    == <<queue, stored, journal, markers, lock, tick, leased, acks, todo, job,
             history, bounds>>

(* Batch: the task id is a hash of the keys the batch was made of. *)
NoBatch == [id |-> {}, keys |-> {}]
Batches == [id : SUBSET Contents, keys : SUBSET Contents]

(* An import: prepared says that this import wrote the intent itself. *)
NoJob == [pc |-> "idle", obj |-> {}, prepared |-> FALSE]
Job(pc, o, p) == [pc |-> pc, obj |-> {o}, prepared |-> p]

Obj == CHOOSE o \in job.obj : TRUE
Content == ContentOf[Obj]

Importing == lock # "free" /\ job.pc # "idle"

Init ==
    /\ spool = {} /\ arrived = {} /\ events = {} /\ acked = {}
    /\ stored = {}
    /\ receipts = [o \in Objects |-> "none"]
    /\ tasks = [c \in Contents |-> "none"]
    /\ active = NoBatch /\ markers = {}
    /\ lock = "free" /\ tick = "off"
    /\ leased = {} /\ acks = {} /\ todo = {} /\ job = NoJob
    /\ handled = [c \in Contents |-> 0]
    /\ purges = [c \in Contents |-> 0]
    /\ lost = 0 /\ unshown = {} /\ faults = 0 /\ crashes = 0 /\ commands = 0

Room == faults + crashes + commands < MaxTroubles
MayFail == Room /\ faults < MaxFaults
MayDie  == Room /\ crashes < MaxCrashes
MayRun  == Room /\ commands < MaxCommands

Fault == MayFail /\ faults' = faults + 1 /\ UNCHANGED <<crashes, commands>>
-----------------------------------------------------------------------------
(* The worker puts a message into the spool; its event may never be queued. *)
Put(o) ==
    /\ o \notin arrived
    /\ spool' = spool \cup {o}
    /\ arrived' = arrived \cup {o}
    /\ \/ events' = events \cup {o} /\ UNCHANGED faults
       \/ MayFail /\ faults' = faults + 1 /\ UNCHANGED events
    /\ UNCHANGED <<acked, stored, journal, markers, lock, tick, leased, acks, todo, job,
                   history, crashes, commands>>

(* Another command purges a message. *)
Purge(c) ==
    /\ lock = "free" /\ c \in stored /\ MayRun
    /\ stored' = stored \ {c}
    /\ purges' = [purges EXCEPT ![c] = @ + 1]
    /\ commands' = commands + 1
    /\ UNCHANGED <<queue, journal, markers, lock, tick, leased, acks, todo, job,
                   handled, lost, unshown, faults, crashes>>

(* pull --cloudflare lists the spool. *)
StartPull ==
    /\ lock = "free" /\ MayRun
    /\ lock' = "command" /\ todo' = spool
    /\ commands' = commands + 1
    /\ UNCHANGED <<queue, stored, journal, markers, tick, leased, acks, job, history,
                   faults, crashes>>

EndPull ==
    /\ lock = "command" /\ job = NoJob /\ todo = {}
    /\ lock' = "free"
    /\ UNCHANGED <<queue, stored, journal, markers, tick, leased, acks, todo, job,
                   history, bounds>>
-----------------------------------------------------------------------------
(* The import of one object: pull_objects for one element of its list.      *)

(* What the tick does with the event of an object whose import ended. *)
SettleEvent(o, cleaned) ==
    /\ leased' = IF tick = "events" THEN leased \ {o} ELSE leased
    /\ acks' = IF tick = "events" /\ cleaned THEN acks \cup {o} ELSE acks

(* The scan leaves alone what has an intent already. *)
ScanNext_Bug(o) ==
    /\ lock = "command" \/ tick = "scan"
    /\ job = NoJob /\ o \in todo
    /\ todo' = todo \ {o}
    /\ job' = IF tasks[ContentOf[o]] = "none" THEN Job("download", o, FALSE) ELSE job
    /\ UNCHANGED <<queue, stored, journal, markers, lock, tick, leased, acks, history, bounds>>

(* The next object of the listing, which may be too large or over budget. *)
ScanNext(o) ==
    /\ lock = "command" \/ tick = "scan"
    /\ job = NoJob /\ o \in todo
    /\ todo' = todo \ {o}
    /\ \/ job' = Job("download", o, FALSE) /\ UNCHANGED bounds
       \/ Fault /\ UNCHANGED job
    /\ UNCHANGED <<queue, stored, journal, markers, lock, tick, leased, acks, history>>

(* The intent is not saved before the import. *)
Prepare_Bug ==
    /\ Importing /\ job.pc = "download" /\ Obj \in spool
    /\ job' = Job("prepared", Obj, Content \notin stored /\ tasks[Content] = "none")
    /\ UNCHANGED <<queue, stored, journal, markers, lock, tick, leased, acks, todo,
                   history, bounds>>

(* The object is downloaded, and the intent to notify of it is saved unless *)
(* its bytes are stored or have a task already.                             *)
Prepare ==
    /\ Importing /\ job.pc = "download" /\ Obj \in spool
    /\ LET new == Content \notin stored /\ tasks[Content] = "none"
       IN  /\ tasks' = IF new THEN [tasks EXCEPT ![Content] = "preparing"] ELSE tasks
           /\ job' = Job("prepared", Obj, new)
    /\ UNCHANGED <<queue, stored, receipts, active, markers, lock, tick, leased, acks,
                   todo, history, bounds>>

(* ingest_message publishes the evidence of new bytes, or merges. *)
Ingest ==
    /\ Importing /\ job.pc = "prepared"
    /\ stored' = stored \cup {Content}
    /\ job' = Job("ingested", Obj, job.prepared)
    /\ UNCHANGED <<queue, journal, markers, lock, tick, leased, acks, todo, history, bounds>>

(* Journal::withdraw. *)
Withdrawn ==
    IF job.prepared /\ tasks[Content] = "preparing"
    THEN [tasks EXCEPT ![Content] = "none"] ELSE tasks

(* The failure does not end the work on the object. *)
IngestFails_Bug ==
    /\ Importing /\ job.pc = "prepared" /\ Content \notin stored
    /\ Fault
    /\ tasks' = Withdrawn
    /\ job' = Job("recorded", Obj, FALSE)
    /\ UNCHANGED <<queue, stored, receipts, active, markers, lock, tick, leased, acks,
                   todo, history>>

(* ingest_message fails on the message before its evidence is published:    *)
(* MIME or metadata that cannot be parsed.                                  *)
IngestFails ==
    /\ Importing /\ job.pc = "prepared" /\ Content \notin stored
    /\ Fault
    /\ tasks' = Withdrawn
    /\ job' = Job("done", Obj, FALSE)
    /\ UNCHANGED <<queue, stored, receipts, active, markers, lock, tick, leased, acks,
                   todo, history>>

(* ingest_message fails after that: the triage view of a new message cannot *)
(* be rendered from the workspace's template.  The index in memory does not *)
(* know the message then; that the same listing has its bytes once more,    *)
(* and fails on them once more, is left out.                                *)
ViewFails ==
    /\ Importing /\ job.pc = "ingested" /\ job.prepared
    /\ \A o \in todo : ContentOf[o] # Content
    /\ Fault
    /\ tasks' = Withdrawn
    /\ unshown' = unshown \cup {Content}
    /\ job' = Job("done", Obj, FALSE)
    /\ UNCHANGED <<queue, stored, receipts, active, markers, lock, tick, leased, acks,
                   todo, handled, purges, lost>>

(* Journal::imported: the task becomes pending and the receipt is saved. *)
Imported ==
    /\ Importing /\ job.pc = "ingested"
    /\ tasks' = IF tasks[Content] = "preparing"
                THEN [tasks EXCEPT ![Content] = "pending"] ELSE tasks
    /\ receipts' = [receipts EXCEPT ![Obj] = "imported"]
    /\ job' = Job("recorded", Obj, FALSE)
    /\ UNCHANGED <<queue, stored, active, markers, lock, tick, leased, acks, todo,
                   history, bounds>>

(* R2Client::acknowledge deletes or archives the object. *)
Remove ==
    /\ Importing /\ job.pc = "recorded"
    /\ spool' = spool \ {Obj}
    /\ job' = Job("removed", Obj, FALSE)
    /\ UNCHANGED <<arrived, events, acked, stored, journal, markers, lock, tick, leased,
                   acks, todo, history, bounds>>

(* It fails, or its answer is lost. *)
RemoveFails ==
    /\ Importing /\ job.pc = "recorded"
    /\ Fault
    /\ spool' \in {spool, spool \ {Obj}}
    /\ job' = Job("done", Obj, FALSE)
    /\ UNCHANGED <<arrived, events, acked, stored, journal, markers, lock, tick, leased,
                   acks, todo, history>>

(* Journal::cleaned. *)
Cleaned ==
    /\ Importing /\ job.pc = "removed"
    /\ receipts' = [receipts EXCEPT ![Obj] = "cleaned"]
    /\ job' = Job("done", Obj, FALSE)
    /\ UNCHANGED <<queue, stored, tasks, active, markers, lock, tick, leased, acks, todo,
                   history, bounds>>

(* The object is not in the spool any more, or everything about it is done. *)
Finish ==
    /\ Importing
    /\ \/ job.pc = "done"
       \/ job.pc = "download" /\ Obj \notin spool
    /\ SettleEvent(Obj, receipts[Obj] = "cleaned")
    /\ job' = NoJob
    /\ UNCHANGED <<queue, stored, journal, markers, lock, tick, todo, history, bounds>>

(* A failed save, download, index or view: it ends the whole list.          *)
ImportErrs ==
    /\ Importing
    /\ Fault
    /\ SettleEvent(Obj, FALSE)
    /\ job' = NoJob /\ todo' = {}
    /\ UNCHANGED <<queue, stored, journal, markers, lock, tick, history>>
-----------------------------------------------------------------------------
(* One tick of the consumer.                                                *)

(* The workspace lock is taken first, then events are leased. *)
StartTick ==
    /\ tick = "off" /\ lock = "free"
    /\ tick' = "events" /\ lock' = "consumer"
    /\ leased' \in SUBSET events
    /\ acks' = {} /\ todo' = {}
    /\ UNCHANGED <<queue, stored, journal, markers, job, history, bounds>>

(* The event of an object: recover_receipt settles it from a receipt, a     *)
(* receipt without cleanup resumes at the removal, and without a receipt    *)
(* the object is imported.                                                  *)
NextEvent(o) ==
    /\ tick = "events" /\ job = NoJob /\ o \in leased
    /\ LET receipt == receipts[o]
           gone    == ContentOf[o] \notin stored
       IN  \/ /\ receipt = "cleaned" \/ (receipt = "imported" /\ gone)
              /\ SettleEvent(o, receipt = "cleaned")
              /\ UNCHANGED job
           \/ /\ receipt = "none" \/ (receipt = "imported" /\ ~gone)
              /\ job' = Job(IF receipt = "none" THEN "download" ELSE "recorded", o, FALSE)
              /\ UNCHANGED <<leased, acks>>
    /\ UNCHANGED <<queue, stored, journal, markers, lock, tick, todo, history, bounds>>

StartScan ==
    /\ tick = "events" /\ leased = {} /\ job = NoJob
    /\ tick' = "scan" /\ todo' = spool
    /\ UNCHANGED <<queue, stored, journal, markers, lock, leased, acks, job, history, bounds>>

EndImport ==
    /\ \/ tick = "events" /\ leased = {}
       \/ tick = "scan" /\ todo = {}
    /\ job = NoJob
    /\ tick' = "settle" /\ lock' = "free"
    /\ UNCHANGED <<queue, stored, journal, markers, leased, acks, todo, job, history, bounds>>

(* QueueClient::settle, after the lock is released. *)
Settle ==
    /\ tick = "settle"
    /\ \/ events' = events \ acks /\ acked' = acked \cup acks /\ UNCHANGED bounds
       \/ Fault /\ UNCHANGED <<events, acked>>
    /\ acks' = {} /\ tick' = "dispatch"
    /\ UNCHANGED <<spool, arrived, stored, journal, markers, lock, leased, todo, job, history>>

TakeLock(from, to) ==
    /\ tick = from /\ lock = "free"
    /\ tick' = to /\ lock' = "consumer"
    /\ UNCHANGED <<queue, stored, journal, markers, leased, acks, todo, job, history, bounds>>

(* dispatch, and the fold after a handler run, begin with record_completed. *)
LockToDispatch == TakeLock("dispatch", "record")
LockToFold     == TakeLock("marked", "fold")

(* The lock is busy, or is still busy after the wait. *)
GiveUpLock ==
    /\ tick \in {"dispatch", "marked"} /\ lock = "command"
    /\ tick' = "off"
    /\ UNCHANGED <<queue, stored, journal, markers, lock, leased, acks, todo, job,
                   history, bounds>>

(* apply_completed and the save that follows it. *)
RecordCompleted ==
    /\ tick \in {"record", "fold"}
    /\ IF active.keys # {} /\ active.id \in markers
       THEN /\ tasks' = [c \in Contents |-> IF c \in active.keys THEN "none" ELSE tasks[c]]
            /\ active' = NoBatch
       ELSE UNCHANGED <<tasks, active>>
    /\ tick' = IF tick = "record" THEN "sweep" ELSE "sweepfold"
    /\ UNCHANGED <<queue, stored, receipts, markers, lock, leased, acks, todo, job,
                   history, bounds>>

(* record_completed removes the markers of batches that are not active. *)
RemoveMarkers ==
    /\ tick \in {"sweep", "sweepfold"}
    /\ markers' = IF active.keys # {} THEN markers \cap {active.id} ELSE {}
    /\ tick' = IF tick = "sweep" THEN "pick" ELSE "off"
    /\ lock' = IF tick = "sweep" THEN lock ELSE "free"
    /\ UNCHANGED <<queue, stored, journal, leased, acks, todo, job, history, bounds>>

Pending == {c \in Contents : tasks[c] = "pending"}

Dropped(S) == [c \in Contents |-> IF c \in S THEN "none" ELSE tasks[c]]

(* What the save of dispatch leaves: the retry time of a batch that was     *)
(* tried before may not have come.                                          *)
Dispatch(batch, drop) ==
    /\ tasks' = Dropped(drop) /\ active' = batch
    /\ lock' = "free"
    /\ \/ tick' = "handler" /\ UNCHANGED bounds
       \/ (batch.id = active.id /\ tick' = "off" /\ Fault)
    /\ UNCHANGED <<queue, stored, receipts, markers, leased, acks, todo, job, history>>

(* Tasks are dropped and the batch keeps their keys. *)
RetryBatch_Keep ==
    /\ tick = "pick" /\ active.keys \cap stored # {}
    /\ Dispatch(active, active.keys \ stored)

(* The active batch again, without the messages that were purged. *)
RetryBatch ==
    /\ tick = "pick" /\ active.keys \cap stored # {}
    /\ Dispatch([active EXCEPT !.keys = @ \cap stored], active.keys \ stored)

(* The next pending tasks, up to BatchSize of them; tasks of purged         *)
(* messages that come up before the batch is full are dropped.              *)
NewBatch ==
    /\ tick = "pick" /\ active.keys \cap stored = {}
    /\ \E keys \in SUBSET (Pending \cap stored), drop \in SUBSET (Pending \ stored) :
         /\ keys # {} /\ Cardinality(keys) <= BatchSize
         /\ \/ Cardinality(keys) = BatchSize
            \/ keys = Pending \cap stored /\ drop = Pending \ stored
         /\ Dispatch([id |-> keys, keys |-> keys], drop \cup active.keys)

NoBatchLeft ==
    /\ tick = "pick" /\ Pending \cap stored = {}
    /\ tasks' = Dropped(Pending) /\ active' = NoBatch
    /\ tick' = "off" /\ lock' = "free"
    /\ UNCHANGED <<queue, stored, receipts, markers, leased, acks, todo, job, history, bounds>>

(* run_handler, without the workspace lock. *)
HandlerSucceeds ==
    /\ tick = "handler"
    /\ handled' = [c \in Contents |-> IF c \in active.keys THEN handled[c] + 1 ELSE handled[c]]
    /\ tick' = "succeeded"
    /\ UNCHANGED <<queue, stored, journal, markers, lock, leased, acks, todo, job,
                   purges, lost, unshown, bounds>>

(* It does not start, fails or times out. *)
HandlerFails ==
    /\ tick = "handler"
    /\ Fault
    /\ tick' = "off"
    /\ UNCHANGED <<queue, stored, journal, markers, lock, leased, acks, todo, job, history>>

(* The outcome of the handler is recorded only under the workspace lock. *)
WriteMarker_Bug ==
    /\ tick = "succeeded"
    /\ markers' = IF lock = "free" THEN markers \cup {active.id} ELSE markers
    /\ tick' = "marked"
    /\ UNCHANGED <<queue, stored, journal, lock, leased, acks, todo, job, history, bounds>>

WriteMarker ==
    /\ tick = "succeeded"
    /\ markers' = markers \cup {active.id}
    /\ tick' = "marked"
    /\ UNCHANGED <<queue, stored, journal, lock, leased, acks, todo, job, history, bounds>>

(* The consumer dies, or a write of it fails between its steps. *)
CrashConsumer ==
    /\ tick # "off" /\ MayDie
    /\ tick' = "off"
    /\ lock' = IF lock = "consumer" THEN "free" ELSE lock
    /\ job' = IF lock = "consumer" THEN NoJob ELSE job
    /\ lost' = IF tick = "succeeded" THEN lost + 1 ELSE lost
    /\ todo' = IF lock = "consumer" THEN {} ELSE todo
    /\ leased' = {} /\ acks' = {}
    /\ crashes' = crashes + 1
    /\ UNCHANGED <<queue, stored, journal, markers, handled, purges, unshown,
                   faults, commands>>

CrashCommand ==
    /\ lock = "command" /\ MayDie
    /\ lock' = "free" /\ job' = NoJob /\ todo' = {}
    /\ crashes' = crashes + 1
    /\ UNCHANGED <<queue, stored, journal, markers, tick, leased, acks, history, faults, commands>>

ImportStep ==
    \/ \E o \in Objects : ScanNext(o)
    \/ Prepare \/ Ingest \/ IngestFails \/ ViewFails \/ Imported \/ Remove
    \/ RemoveFails \/ Cleaned \/ Finish \/ ImportErrs \/ EndPull

TickStep ==
    \/ \E o \in Objects : NextEvent(o)
    \/ EndImport \/ Settle \/ LockToDispatch \/ LockToFold \/ GiveUpLock
    \/ RecordCompleted \/ RemoveMarkers \/ RetryBatch \/ NewBatch \/ NoBatchLeft
    \/ HandlerSucceeds \/ HandlerFails \/ WriteMarker

Next ==
    \/ \E o \in Objects : Put(o)
    \/ \E c \in Contents : Purge(c)
    \/ StartPull \/ StartTick \/ StartScan
    \/ ImportStep \/ TickStep
    \/ CrashConsumer \/ CrashCommand

Spec == Init /\ [][Next]_vars

(* `afmail cloudflare watch` runs tick after tick and reconciles again and   *)
(* again, and both processes make progress.                                  *)
FairSpec ==
    /\ Spec
    /\ WF_vars(ImportStep) /\ WF_vars(TickStep)
    /\ WF_vars(StartTick) /\ SF_vars(StartScan)
-----------------------------------------------------------------------------
(* Every variable keeps the shape the code gives its file, field or server. *)
TypeOK ==
    /\ spool \subseteq Objects /\ arrived \subseteq Objects
    /\ events \subseteq Objects /\ acked \subseteq Objects
    /\ stored \subseteq Contents
    /\ receipts \in [Objects -> {"none", "imported", "cleaned"}]
    /\ tasks \in [Contents -> {"none", "preparing", "pending"}]
    /\ active \in Batches
    /\ markers \subseteq SUBSET Contents
    /\ lock \in {"free", "consumer", "command"}
    /\ tick \in {"off", "events", "scan", "settle", "dispatch", "record", "sweep", "pick",
                 "handler", "succeeded", "marked", "fold", "sweepfold"}
    /\ leased \subseteq Objects /\ acks \subseteq Objects /\ todo \subseteq Objects
    /\ job.pc \in {"idle", "download", "prepared", "ingested", "recorded", "removed", "done"}
    /\ job.obj \subseteq Objects /\ Cardinality(job.obj) <= 1 /\ job.prepared \in BOOLEAN
    /\ handled \in [Contents -> Nat] /\ purges \in [Contents -> Nat]
    /\ unshown \subseteq Contents

(* "R2 remains the recovery source until cleanup": an object leaves the      *)
(* spool only when its bytes are stored, and its event is acknowledged only  *)
(* when it was imported and removed, whatever fails or dies in between.      *)
NoMailLost ==
    /\ \A o \in arrived \ spool : ContentOf[o] \in stored \/ purges[ContentOf[o]] > 0
    /\ \A o \in acked : receipts[o] = "cleaned" /\ o \notin spool

(* Every stored message has been accepted by the handler, or has a task that *)
(* will take it there.  The intent is saved before the import, so no crash,  *)
(* failed save, duplicate or purge between the two loses the notification.   *)
(* Only a message whose triage view could not be rendered is left out.       *)
NoNotificationLost ==
    \A c \in stored \ unshown : tasks[c] # "none" \/ handled[c] > 0

(* validate_active: whatever is on disk, the journal can be loaded again.    *)
(* An active batch with a task that is not pending would refuse every later  *)
(* pull and tick.                                                            *)
JournalLoads == active.keys \subseteq Pending

(* "only a crash before the marker re-runs a handler": otherwise a message   *)
(* is accepted once, and once more each time it was purged and came again.   *)
HandledOnce ==
    \A c \in Contents : handled[c] <= 1 + lost + purges[c]

(* Mail that arrives is imported, and the handler accepts it, unless it is   *)
(* purged before or its triage view could not be rendered: again and again   *)
(* nothing is left to do.                                                    *)
MailIsHandedOver ==
    []<>(\A o \in arrived :
           /\ o \notin spool
           /\ LET c == ContentOf[o]
              IN  handled[c] > 0 \/ purges[c] > 0 \/ c \in unshown)
=============================================================================
