---------------------- MODULE CloudflareConsumerProofs ----------------------
(* Theorems about CloudflareConsumer: the journal can always be loaded, no   *)
(* notification is lost while triage views can be rendered, no mail leaves   *)
(* R2 before it is stored, and the handler accepts a message once unless a   *)
(* crash hides its answer.                                                   *)
EXTENDS CloudflareConsumer, TLAPS

TaskStates == {"none", "preparing", "pending"}

(* The journal and the history have the types the arguments below need. *)
JournalOK ==
    /\ tasks \in [Contents -> TaskStates]
    /\ handled \in [Contents -> Nat]

(* The invariant of the first theorem. *)
JournalInv == JournalOK /\ JournalLoads

LEMMA JournalInit == Init => JournalInv
BY DEF Init, JournalInv, JournalOK, JournalLoads, TaskStates, Pending, NoBatch

(* A step that leaves the tasks and the batch alone. *)
LEMMA JournalStill ==
  ASSUME JournalInv, UNCHANGED <<tasks, active, handled>>
  PROVE  JournalInv'
BY DEF JournalInv, JournalOK, JournalLoads, Pending

(* A step of an import touches only tasks that are not in the batch. *)
LEMMA JournalImport ==
  ASSUME JournalInv, UNCHANGED <<active, handled>>,
         tasks' \in [Contents -> TaskStates],
         \A c \in Contents : tasks[c] = "pending" => tasks'[c] = "pending"
  PROVE  JournalInv'
BY DEF JournalInv, JournalOK, JournalLoads, Pending

(* Dispatch drops tasks that are not in the new batch. *)
LEMMA JournalDispatch ==
  ASSUME JournalInv, UNCHANGED handled,
         NEW batch, NEW drop,
         batch.keys \subseteq Pending \ drop,
         tasks' = Dropped(drop), active' = batch
  PROVE  JournalInv'
<1>1. tasks' \in [Contents -> TaskStates]
  BY DEF Dropped, JournalInv, JournalOK, TaskStates
<1>2. batch.keys \subseteq Pending'
  BY DEF Dropped, Pending, JournalInv, JournalOK
<1>3. QED  BY <1>1, <1>2 DEF JournalInv, JournalOK, JournalLoads

LEMMA JournalStep == JournalInv /\ [Next]_vars => JournalInv'
<1> SUFFICES ASSUME JournalInv, [Next]_vars PROVE JournalInv'
  OBVIOUS
<1> USE DEF queue, journal, history, bounds
<1>1. CASE \E o \in Objects : Put(o) \/ ScanNext(o) \/ NextEvent(o)
  BY <1>1, JournalStill DEF Put, ScanNext, NextEvent
<1>2. CASE \E c \in Contents : Purge(c)
  BY <1>2, JournalStill DEF Purge
<1>3. CASE StartPull \/ StartTick \/ StartScan \/ EndPull \/ EndImport \/ Settle
  BY <1>3, JournalStill DEF StartPull, StartTick, StartScan, EndPull, EndImport, Settle
<1>4. CASE Prepare
  <2>1. tasks' \in [Contents -> TaskStates]
    BY <1>4 DEF Prepare, JournalInv, JournalOK, TaskStates
  <2>2. \A c \in Contents : tasks[c] = "pending" => tasks'[c] = "pending"
    BY <1>4 DEF Prepare, JournalInv, JournalOK
  <2>3. QED  BY <1>4, <2>1, <2>2, JournalImport DEF Prepare
<1>5. CASE IngestFails \/ ViewFails
  <2>0. tasks' = Withdrawn /\ UNCHANGED <<active, handled>>
    BY <1>5 DEF IngestFails, ViewFails
  <2>1. tasks' \in [Contents -> TaskStates]
    BY <2>0 DEF Withdrawn, JournalInv, JournalOK, TaskStates
  <2>2. \A c \in Contents : tasks[c] = "pending" => tasks'[c] = "pending"
    BY <2>0 DEF Withdrawn, JournalInv, JournalOK
  <2>3. QED  BY <2>0, <2>1, <2>2, JournalImport
<1>6. CASE Imported
  <2>1. tasks' \in [Contents -> TaskStates]
    BY <1>6 DEF Imported, JournalInv, JournalOK, TaskStates
  <2>2. \A c \in Contents : tasks[c] = "pending" => tasks'[c] = "pending"
    BY <1>6 DEF Imported, JournalInv, JournalOK
  <2>3. QED  BY <1>6, <2>1, <2>2, JournalImport DEF Imported
<1>7. CASE Ingest \/ Remove \/ RemoveFails \/ Cleaned \/ Finish \/ ImportErrs
  BY <1>7, JournalStill DEF Ingest, Remove, RemoveFails, Cleaned, Finish, ImportErrs
<1>8. CASE LockToDispatch \/ LockToFold \/ GiveUpLock \/ RemoveMarkers
  BY <1>8, JournalStill DEF LockToDispatch, LockToFold, TakeLock, GiveUpLock, RemoveMarkers
<1>9. CASE RecordCompleted
  <2>1. CASE active.keys # {} /\ active.id \in markers
    BY <1>9, <2>1 DEF RecordCompleted, JournalInv, JournalOK, JournalLoads, NoBatch, Pending,
                      TaskStates
  <2>2. CASE ~(active.keys # {} /\ active.id \in markers)
    BY <1>9, <2>2, JournalStill DEF RecordCompleted
  <2>3. QED  BY <2>1, <2>2
<1>10. CASE RetryBatch
  <2> DEFINE batch == [active EXCEPT !.keys = @ \cap stored]
             drop  == active.keys \ stored
  <2>1. tasks' = Dropped(drop) /\ active' = batch /\ UNCHANGED handled
    BY <1>10 DEF RetryBatch, Dispatch
  <2>2. batch.keys \subseteq Pending \ drop
    BY DEF JournalInv, JournalLoads
  <2>3. QED  BY <2>1, <2>2, JournalDispatch
<1>11. CASE NewBatch
  <2>1. PICK keys \in SUBSET (Pending \cap stored), gone \in SUBSET (Pending \ stored) :
          Dispatch([id |-> keys, keys |-> keys], gone \cup active.keys)
    BY <1>11 DEF NewBatch
  <2> DEFINE batch == [id |-> keys, keys |-> keys]
             drop  == gone \cup active.keys
  <2>2. tasks' = Dropped(drop) /\ active' = batch /\ UNCHANGED handled
    BY <2>1 DEF Dispatch
  <2>3. batch.keys \subseteq Pending \ drop
    BY <1>11 DEF NewBatch
  <2>4. QED  BY <2>2, <2>3, JournalDispatch
<1>12. CASE NoBatchLeft
  <2>1. tasks' = Dropped(Pending) /\ active' = NoBatch /\ UNCHANGED handled
    BY <1>12 DEF NoBatchLeft
  <2>2. NoBatch.keys \subseteq Pending \ Pending
    BY DEF NoBatch
  <2>3. QED  BY <2>1, <2>2, JournalDispatch
<1>13. CASE HandlerSucceeds
  BY <1>13 DEF HandlerSucceeds, JournalInv, JournalOK, JournalLoads, Pending
<1>14. CASE HandlerFails \/ WriteMarker \/ CrashConsumer \/ CrashCommand
  BY <1>14, JournalStill DEF HandlerFails, WriteMarker, CrashConsumer, CrashCommand
<1>15. CASE UNCHANGED vars
  BY <1>15, JournalStill DEF vars
<1>16. QED
  BY <1>1, <1>2, <1>3, <1>4, <1>5, <1>6, <1>7, <1>8, <1>9, <1>10, <1>11, <1>12, <1>13,
     <1>14, <1>15
  DEF Next, ImportStep, TickStep

(* The journal on disk can be loaded after every step and every crash: the   *)
(* active batch holds only pending tasks (validate_active), however imports, *)
(* purges, handler runs and folds of markers interleave.                     *)
THEOREM JournalAlwaysLoads == Spec => []JournalLoads
<1>1. Spec => []JournalInv
  BY JournalInit, JournalStep, PTL DEF Spec
<1>2. JournalInv => JournalLoads
  BY DEF JournalInv
<1>3. QED  BY <1>1, <1>2, PTL
-----------------------------------------------------------------------------
(* Where the tick holds the workspace lock. *)
Locked == {"events", "scan", "record", "sweep", "pick", "fold", "sweepfold"}

(* The lock excludes an import from everything that changes what it relies   *)
(* on: an import runs for a command or in the first part of a tick.          *)
Excluded ==
    /\ tick \in Locked <=> lock = "consumer"
    /\ job.pc # "idle" =>
         /\ lock = "command" \/ tick \in {"events", "scan"}
         /\ \E o \in Objects : job.obj = {o}

(* An import that goes on to publish has its intent on disk, or its bytes    *)
(* are published already.                                                    *)
IntentIsSaved ==
    job.pc = "prepared" => Content \in stored \/ tasks[Content] # "none"

(* A marker of the active batch is the trace of a handler that accepted the  *)
(* batch, and none is left when the next batch is chosen.                    *)
Accepted(S) == \A c \in S : handled[c] > 0

Marked == active.keys # {} /\ active.id \in markers

MarkersHonest ==
    /\ Marked => Accepted(active.keys)
    /\ tick = "succeeded" => Accepted(active.keys)
    /\ tick \in {"sweep", "sweepfold"} => ~Marked
    /\ tick = "pick" => markers = {}

(* The invariant of the second theorem. *)
NotifyInv ==
    /\ stored \subseteq Contents
    /\ Excluded /\ IntentIsSaved /\ MarkersHonest
    /\ NoNotificationLost

LEMMA NotifyInit == Init => NotifyInv
BY DEF Init, NotifyInv, Excluded, IntentIsSaved, MarkersHonest, Marked, NoNotificationLost,
       Locked, NoJob, NoBatch

(* The object of an import is one of Objects and its bytes one of Contents. *)
LEMMA ObjLemma ==
  ASSUME Excluded, job.pc # "idle"
  PROVE  /\ Obj \in Objects /\ job.obj = {Obj}
         /\ Content \in Contents
<1>1. PICK o \in Objects : job.obj = {o}
  BY DEF Excluded
<1>2. Obj = o  BY <1>1 DEF Obj
<1>3. QED  BY <1>1, <1>2, ConsumerAssumption DEF Content

LEMMA JobLemma ==
  ASSUME NEW pcc, NEW o, NEW p
  PROVE  /\ Job(pcc, o, p).pc = pcc
         /\ Job(pcc, o, p).obj = {o}
BY DEF Job

LEMMA ExcludedStep == Excluded /\ [Next]_vars => Excluded'
<1> SUFFICES ASSUME Excluded, [Next]_vars PROVE Excluded'
  OBVIOUS
<1> USE DEF queue, journal, history, bounds
<1>1. CASE \/ \E o \in Objects : Put(o)
           \/ \E c \in Contents : Purge(c)
           \/ UNCHANGED vars
  BY <1>1 DEF Put, Purge, vars, Excluded
<1>2. CASE StartPull \/ EndPull \/ StartTick \/ StartScan \/ EndImport \/ Settle
  BY <1>2 DEF StartPull, EndPull, StartTick, StartScan, EndImport, Settle, Excluded, Locked, NoJob
<1>3. CASE \E o \in Objects : ScanNext(o)
  <2>1. PICK o \in Objects : ScanNext(o)  BY <1>3
  <2>2. UNCHANGED <<lock, tick>> /\ (lock = "command" \/ tick = "scan")
    BY <2>1 DEF ScanNext
  <2>3. job' = job \/ job'.obj = {o}
    BY <2>1 DEF ScanNext, Job
  <2>4. QED  BY <2>2, <2>3 DEF Excluded
<1>4. CASE \E o \in Objects : NextEvent(o)
  <2>1. PICK o \in Objects : NextEvent(o)  BY <1>4
  <2>2. UNCHANGED <<lock, tick>> /\ tick = "events"
    BY <2>1 DEF NextEvent
  <2>3. job' = job \/ job'.obj = {o}
    BY <2>1 DEF NextEvent, Job
  <2>4. QED  BY <2>2, <2>3 DEF Excluded
<1>5. CASE Prepare \/ Ingest \/ IngestFails \/ ViewFails \/ Imported \/ Remove \/ RemoveFails
           \/ Cleaned
  <2>1. job.pc # "idle" /\ UNCHANGED <<lock, tick>> /\ \E pcc, p : job' = Job(pcc, Obj, p)
    BY <1>5 DEF Prepare, Ingest, IngestFails, ViewFails, Imported, Remove, RemoveFails,
                Cleaned, Importing
  <2>2. QED  BY <2>1, ObjLemma, JobLemma DEF Excluded
<1>6. CASE Finish \/ ImportErrs
  <2>1. UNCHANGED <<lock, tick>> /\ job' = NoJob
    BY <1>6 DEF Finish, ImportErrs
  <2>2. QED  BY <2>1 DEF NoJob, Excluded
<1>7. CASE LockToDispatch \/ LockToFold \/ GiveUpLock \/ RecordCompleted \/ RemoveMarkers
  BY <1>7 DEF LockToDispatch, LockToFold, TakeLock, GiveUpLock, RecordCompleted, RemoveMarkers,
              Excluded, Locked
<1>8. CASE RetryBatch \/ NewBatch \/ NoBatchLeft
  BY <1>8 DEF RetryBatch, NewBatch, NoBatchLeft, Dispatch, Excluded, Locked
<1>9. CASE HandlerSucceeds \/ HandlerFails \/ WriteMarker
  BY <1>9 DEF HandlerSucceeds, HandlerFails, WriteMarker, Excluded, Locked
<1>10. CASE CrashConsumer \/ CrashCommand
  BY <1>10 DEF CrashConsumer, CrashCommand, NoJob, Excluded, Locked
<1>11. QED
  BY <1>1, <1>2, <1>3, <1>4, <1>5, <1>6, <1>7, <1>8, <1>9, <1>10 DEF Next, ImportStep, TickStep

LEMMA IntentStep ==
  JournalInv /\ Excluded /\ IntentIsSaved /\ [Next]_vars => IntentIsSaved'
<1> SUFFICES ASSUME JournalInv, Excluded, IntentIsSaved, [Next]_vars PROVE IntentIsSaved'
  OBVIOUS
<1> USE DEF queue, journal, history, bounds
(* Without an import at this place there is nothing to show. *)
<1>0. job'.pc # "prepared" => IntentIsSaved'
  BY DEF IntentIsSaved
<1>1. CASE UNCHANGED <<job, tasks, stored>>
  BY <1>1 DEF IntentIsSaved, Content, Obj
<1>2. CASE Prepare
  <2> DEFINE new == Content \notin stored /\ tasks[Content] = "none"
  <2>1. Content \in Contents /\ job' = Job("prepared", Obj, new) /\ stored' = stored
    BY <1>2, ObjLemma DEF Prepare, Importing
  <2>2. Content' = Content
    <3>1. job'.obj = {Obj}  BY <2>1 DEF Job
    <3>2. job.obj = {Obj}  BY <1>2, ObjLemma DEF Prepare, Importing
    <3>3. QED  BY <3>1, <3>2 DEF Content, Obj
  <2>3. CASE new
    <3>1. tasks' = [tasks EXCEPT ![Content] = "preparing"]  BY <1>2, <2>3 DEF Prepare
    <3>2. tasks'[Content] = "preparing"  BY <3>1, <2>1 DEF JournalInv, JournalOK
    <3>3. QED  BY <2>2, <3>2 DEF IntentIsSaved
  <2>4. CASE ~new
    <3>1. tasks' = tasks  BY <1>2, <2>4 DEF Prepare
    <3>2. QED  BY <2>1, <2>2, <2>4, <3>1 DEF IntentIsSaved
  <2>5. QED  BY <2>3, <2>4
<1>3. CASE Ingest \/ IngestFails \/ ViewFails \/ Imported \/ Remove \/ RemoveFails
           \/ Cleaned \/ Finish \/ ImportErrs
  <2>1. job'.pc # "prepared"
    <3>1. CASE Finish \/ ImportErrs
      <4>1. job' = NoJob  BY <3>1 DEF Finish, ImportErrs
      <4>2. QED  BY <4>1 DEF NoJob
    <3>2. CASE Ingest \/ IngestFails \/ ViewFails \/ Imported
      BY <3>2 DEF Ingest, IngestFails, ViewFails, Imported, Job
    <3>3. CASE Remove \/ RemoveFails \/ Cleaned
      BY <3>3 DEF Remove, RemoveFails, Cleaned, Job
    <3>4. QED  BY <1>3, <3>1, <3>2, <3>3
  <2>2. QED  BY <2>1, <1>0
<1>4. CASE \E o \in Objects : ScanNext(o) \/ NextEvent(o)
  <2>1. job' = job \/ job'.pc \in {"download", "recorded"}
    BY <1>4 DEF ScanNext, NextEvent, Job
  <2>2. UNCHANGED <<tasks, stored>>
    BY <1>4 DEF ScanNext, NextEvent
  <2>3. QED  BY <2>1, <2>2, <1>0, <1>1
<1>5. CASE \/ \E c \in Contents : Purge(c)
           \/ RecordCompleted \/ RetryBatch \/ NewBatch \/ NoBatchLeft
  <2>1. job' = job
    BY <1>5 DEF Purge, RecordCompleted, RetryBatch, NewBatch, NoBatchLeft, Dispatch
  <2>2. job.pc = "idle"
    BY <1>5 DEF Purge, RecordCompleted, RetryBatch, NewBatch, NoBatchLeft, Excluded, Locked
  <2>3. QED  BY <2>1, <2>2, <1>0
<1>6. CASE CrashConsumer \/ CrashCommand
  <2>1. job' = job \/ job'.pc = "idle"
    BY <1>6 DEF CrashConsumer, CrashCommand, NoJob
  <2>2. UNCHANGED <<tasks, stored>>
    BY <1>6 DEF CrashConsumer, CrashCommand
  <2>3. QED  BY <2>1, <2>2, <1>0, <1>1
<1>7. CASE \/ \E o \in Objects : Put(o)
           \/ StartPull \/ EndPull \/ StartTick \/ StartScan \/ EndImport \/ Settle
           \/ LockToDispatch \/ LockToFold \/ GiveUpLock \/ RemoveMarkers
           \/ HandlerSucceeds \/ HandlerFails \/ WriteMarker \/ UNCHANGED vars
  BY <1>7, <1>1 DEF Put, StartPull, EndPull, StartTick, StartScan, EndImport, Settle,
       LockToDispatch, LockToFold, TakeLock, GiveUpLock, RemoveMarkers, HandlerSucceeds,
       HandlerFails, WriteMarker, vars
<1>8. QED
  BY <1>2, <1>3, <1>4, <1>5, <1>6, <1>7 DEF Next, ImportStep, TickStep

(* The markers stay honest.  Nothing but a step of the consumer changes a    *)
(* marker or the batch; handled only grows.                                  *)
LEMMA MarkersStill ==
  ASSUME MarkersHonest, UNCHANGED <<active, markers, handled>>,
         tick' = tick \/ tick' \notin {"succeeded", "sweep", "sweepfold", "pick"}
  PROVE  MarkersHonest'
BY DEF MarkersHonest, Marked, Accepted

(* No marker is left and the tick does not claim success. *)
LEMMA MarkersGone ==
  ASSUME markers' = {}, tick' # "succeeded"
  PROVE  MarkersHonest'
BY DEF MarkersHonest, Marked

LEMMA MarkersStep ==
  JournalInv /\ MarkersHonest /\ [Next]_vars => MarkersHonest'
<1> SUFFICES ASSUME JournalInv, MarkersHonest, [Next]_vars PROVE MarkersHonest'
  OBVIOUS
<1> USE DEF queue, journal, history, bounds
<1>1. CASE \/ \E o \in Objects : Put(o) \/ ScanNext(o) \/ NextEvent(o)
           \/ \E c \in Contents : Purge(c)
           \/ UNCHANGED vars
  BY <1>1, MarkersStill DEF Put, ScanNext, NextEvent, Purge, vars
<1>2. CASE StartPull \/ EndPull \/ StartTick \/ StartScan \/ EndImport \/ Settle
  BY <1>2, MarkersStill DEF StartPull, EndPull, StartTick, StartScan, EndImport, Settle
<1>3. CASE Prepare \/ Ingest \/ IngestFails \/ ViewFails \/ Imported \/ Remove
           \/ RemoveFails \/ Cleaned \/ Finish \/ ImportErrs
  <2>1. UNCHANGED <<active, markers, handled, tick>>
    BY <1>3 DEF Prepare, Ingest, IngestFails, ViewFails, Imported, Remove, RemoveFails,
                Cleaned, Finish, ImportErrs
  <2>2. QED  BY <2>1, MarkersStill
<1>4. CASE LockToDispatch \/ LockToFold \/ GiveUpLock \/ HandlerFails \/ CrashConsumer
           \/ CrashCommand
  BY <1>4, MarkersStill DEF LockToDispatch, LockToFold, TakeLock, GiveUpLock, HandlerFails,
                            CrashConsumer, CrashCommand
<1>5. CASE RecordCompleted
  <2>1. UNCHANGED <<markers, handled>> /\ tick' \in {"sweep", "sweepfold"}
    BY <1>5 DEF RecordCompleted
  <2>2. (Marked /\ active' = NoBatch) \/ (~Marked /\ active' = active)
    BY <1>5 DEF RecordCompleted, Marked
  <2>3. ~Marked'
    BY <2>1, <2>2 DEF Marked, NoBatch
  <2>4. QED  BY <2>1, <2>3 DEF MarkersHonest
<1>6. CASE RemoveMarkers
  <2>1. ~Marked
    BY <1>6 DEF RemoveMarkers, MarkersHonest
  <2>2. markers' = {}
    BY <1>6, <2>1 DEF RemoveMarkers, Marked
  <2>3. tick' # "succeeded"
    BY <1>6 DEF RemoveMarkers
  <2>4. QED  BY <2>2, <2>3, MarkersGone
<1>7. CASE RetryBatch \/ NewBatch \/ NoBatchLeft
  <2>1. tick = "pick" /\ markers' = markers /\ tick' # "succeeded"
    BY <1>7 DEF RetryBatch, NewBatch, NoBatchLeft, Dispatch
  <2>2. QED  BY <2>1, MarkersGone DEF MarkersHonest
<1>8. CASE HandlerSucceeds
  <2>1. tick' = "succeeded" /\ UNCHANGED <<active, markers>>
    BY <1>8 DEF HandlerSucceeds
  <2>2. \A c \in active.keys : c \in Contents /\ handled'[c] = handled[c] + 1 /\ handled[c] \in Nat
    BY <1>8 DEF HandlerSucceeds, JournalInv, JournalOK, JournalLoads, Pending
  <2>3. Accepted(active.keys)'
    BY <2>1, <2>2 DEF Accepted
  <2>4. QED  BY <2>1, <2>3 DEF MarkersHonest
<1>9. CASE WriteMarker
  <2>1. tick = "succeeded" /\ tick' = "marked" /\ UNCHANGED <<active, handled>>
    BY <1>9 DEF WriteMarker
  <2>2. Accepted(active.keys)'
    BY <2>1 DEF MarkersHonest, Accepted
  <2>3. QED  BY <2>1, <2>2 DEF MarkersHonest
<1>10. QED
  BY <1>1, <1>2, <1>3, <1>4, <1>5, <1>6, <1>7, <1>8, <1>9 DEF Next, ImportStep, TickStep

(* A step that stores nothing new, drops only tasks of messages that are not *)
(* stored or were accepted, and forgets no handler run.                      *)
LEMMA NotifyStill ==
  ASSUME NoNotificationLost, stored' \subseteq stored, unshown \subseteq unshown',
         \A c \in stored' \ unshown' :
            /\ handled[c] > 0 => handled'[c] > 0
            /\ tasks[c] # "none" => tasks'[c] # "none" \/ handled'[c] > 0
  PROVE  NoNotificationLost'
BY DEF NoNotificationLost

LEMMA NotifyStep ==
  ASSUME JournalInv, NotifyInv, [Next]_vars
  PROVE  NoNotificationLost'
<1> USE DEF queue, journal, history, bounds, NotifyInv
<1>1. CASE UNCHANGED <<stored, tasks, handled, unshown>>
  BY <1>1, NotifyStill
<1>2. CASE \E c \in Contents : Purge(c)
  BY <1>2, NotifyStill DEF Purge
<1>3. CASE Prepare \/ Imported
  <2>1. Content \in Contents
    BY <1>3, ObjLemma DEF Prepare, Imported, Importing
  <2>2. \A c \in stored : tasks[c] # "none" => tasks'[c] # "none"
    BY <1>3, <2>1 DEF Prepare, Imported, JournalInv, JournalOK
  <2>3. UNCHANGED <<stored, handled, unshown>>
    BY <1>3 DEF Prepare, Imported
  <2>4. QED  BY <2>2, <2>3, NotifyStill
<1>4. CASE IngestFails \/ ViewFails
  <2>1. CASE IngestFails
    <3>1. /\ Content \notin stored
          /\ tasks' = Withdrawn /\ UNCHANGED <<stored, handled, unshown>>
      BY <2>1 DEF IngestFails
    <3>2. \A c \in stored : tasks'[c] = tasks[c]
      BY <3>1 DEF Withdrawn, JournalInv, JournalOK
    <3>3. QED  BY <3>1, <3>2, NotifyStill
  <2>2. CASE ViewFails
    <3>1. /\ unshown' = unshown \cup {Content}
          /\ tasks' = Withdrawn /\ UNCHANGED <<stored, handled>>
      BY <2>2 DEF ViewFails
    <3>2. \A c \in stored \ unshown' : tasks'[c] = tasks[c]
      BY <3>1 DEF Withdrawn, JournalInv, JournalOK
    <3>3. QED  BY <3>1, <3>2, NotifyStill
  <2>3. QED  BY <1>4, <2>1, <2>2
<1>5. CASE Ingest
  <2>1. /\ stored' = stored \cup {Content}
        /\ UNCHANGED <<tasks, handled, unshown>>
        /\ job.pc = "prepared"
    BY <1>5 DEF Ingest
  <2>2. Content \in stored \/ tasks[Content] # "none"
    BY <2>1 DEF IntentIsSaved
  <2>3. QED  BY <2>1, <2>2 DEF NoNotificationLost
<1>6. CASE RecordCompleted
  <2>1. UNCHANGED <<stored, handled, unshown>>
    BY <1>6 DEF RecordCompleted
  <2>2. CASE Marked
    <3>1. \A c \in Contents : tasks'[c] = IF c \in active.keys THEN "none" ELSE tasks[c]
      BY <1>6, <2>2 DEF RecordCompleted, Marked
    <3>2. \A c \in active.keys : handled[c] > 0
      BY <2>2 DEF MarkersHonest, Accepted
    <3>3. QED  BY <2>1, <3>1, <3>2, NotifyStill
  <2>3. CASE ~Marked
    BY <1>6, <2>1, <2>3, <1>1 DEF RecordCompleted, Marked
  <2>4. QED  BY <2>2, <2>3
<1>7. CASE RetryBatch \/ NewBatch \/ NoBatchLeft
  <2>1. UNCHANGED <<stored, handled, unshown>>
    BY <1>7 DEF RetryBatch, NewBatch, NoBatchLeft, Dispatch
  <2>2. \E drop : tasks' = Dropped(drop) /\ drop \cap stored = {}
    <3>1. CASE RetryBatch
      BY <3>1 DEF RetryBatch, Dispatch
    <3>2. CASE NewBatch
      <4>1. PICK keys \in SUBSET (Pending \cap stored), gone \in SUBSET (Pending \ stored) :
              Dispatch([id |-> keys, keys |-> keys], gone \cup active.keys)
        BY <3>2 DEF NewBatch
      <4>2. tasks' = Dropped(gone \cup active.keys)
        BY <4>1 DEF Dispatch
      <4>3. (gone \cup active.keys) \cap stored = {}
        BY <3>2 DEF NewBatch
      <4>4. QED  BY <4>2, <4>3
    <3>3. CASE NoBatchLeft
      BY <3>3 DEF NoBatchLeft
    <3>4. QED  BY <1>7, <3>1, <3>2, <3>3
  <2>3. \A c \in stored : tasks'[c] = tasks[c]
    BY <2>2 DEF Dropped
  <2>4. QED  BY <2>1, <2>3, NotifyStill
<1>8. CASE HandlerSucceeds
  <2>1. \A c \in stored : handled[c] > 0 => handled'[c] > 0
    BY <1>8 DEF HandlerSucceeds, JournalInv, JournalOK
  <2>2. UNCHANGED <<stored, tasks, unshown>>
    BY <1>8 DEF HandlerSucceeds
  <2>3. QED  BY <2>1, <2>2, NotifyStill
<1>9. CASE Remove \/ RemoveFails \/ Cleaned \/ Finish \/ ImportErrs
  BY <1>9, <1>1 DEF Remove, RemoveFails, Cleaned, Finish, ImportErrs
<1>10. CASE \E o \in Objects : Put(o) \/ ScanNext(o) \/ NextEvent(o)
  BY <1>10, <1>1 DEF Put, ScanNext, NextEvent
<1>11. CASE StartPull \/ EndPull \/ StartTick \/ StartScan \/ EndImport \/ Settle
            \/ UNCHANGED vars
  BY <1>11, <1>1 DEF StartPull, EndPull, StartTick, StartScan, EndImport, Settle, vars
<1>12. CASE LockToDispatch \/ LockToFold \/ GiveUpLock \/ RemoveMarkers \/ HandlerFails
            \/ WriteMarker \/ CrashConsumer \/ CrashCommand
  BY <1>12, <1>1 DEF LockToDispatch, LockToFold, TakeLock, GiveUpLock, RemoveMarkers,
       HandlerFails, WriteMarker, CrashConsumer, CrashCommand
<1>13. QED
  BY <1>2, <1>3, <1>4, <1>5, <1>6, <1>7, <1>8, <1>9, <1>10, <1>11, <1>12
  DEF Next, ImportStep, TickStep

(* Only an import adds to what is stored, and only a purge takes from it. *)
LEMMA StoredStep ==
  ASSUME stored \subseteq Contents, Excluded, [Next]_vars
  PROVE  (stored \subseteq Contents)'
<1> USE DEF queue, journal, history, bounds
<1>1. CASE Ingest
  <2>1. Content \in Contents  BY <1>1, ObjLemma DEF Ingest, Importing
  <2>2. QED  BY <1>1, <2>1 DEF Ingest
<1>2. CASE \E c \in Contents : Purge(c)
  BY <1>2 DEF Purge
<1>3. CASE UNCHANGED stored
  BY <1>3
<1>4. CASE Prepare \/ IngestFails \/ ViewFails \/ Imported \/ Remove \/ RemoveFails
           \/ Cleaned \/ Finish \/ ImportErrs
  BY <1>4, <1>3 DEF Prepare, IngestFails, ViewFails, Imported, Remove, RemoveFails, Cleaned,
                    Finish, ImportErrs
<1>5. CASE \E o \in Objects : Put(o) \/ ScanNext(o) \/ NextEvent(o)
  BY <1>5, <1>3 DEF Put, ScanNext, NextEvent
<1>6. CASE StartPull \/ EndPull \/ StartTick \/ StartScan \/ EndImport \/ Settle
           \/ UNCHANGED vars
  BY <1>6, <1>3 DEF StartPull, EndPull, StartTick, StartScan, EndImport, Settle, vars
<1>7. CASE RecordCompleted \/ RetryBatch \/ NewBatch \/ NoBatchLeft
  BY <1>7, <1>3 DEF RecordCompleted, RetryBatch, NewBatch, NoBatchLeft, Dispatch
<1>8. CASE LockToDispatch \/ LockToFold \/ GiveUpLock \/ RemoveMarkers \/ HandlerSucceeds
           \/ HandlerFails \/ WriteMarker \/ CrashConsumer \/ CrashCommand
  BY <1>8, <1>3 DEF LockToDispatch, LockToFold, TakeLock, GiveUpLock, RemoveMarkers,
       HandlerSucceeds, HandlerFails, WriteMarker, CrashConsumer, CrashCommand
<1>9. QED
  BY <1>1, <1>2, <1>4, <1>5, <1>6, <1>7, <1>8 DEF Next, ImportStep, TickStep

(* Every stored message whose triage view could be rendered has been         *)
(* accepted by the handler or has a task that will take it there: the intent *)
(* saved before ingest_message, the lock around imports and dispatch, and a  *)
(* marker written only after a successful run carry it through every crash,  *)
(* failed call, duplicate and purge.                                         *)
THEOREM NotificationsKept ==
  Spec => []NoNotificationLost
<1>1. Init => JournalInv /\ NotifyInv
  BY JournalInit, NotifyInit
<1>2. JournalInv /\ NotifyInv /\ [Next]_vars => (JournalInv /\ NotifyInv)'
  <2> SUFFICES ASSUME JournalInv, NotifyInv, [Next]_vars PROVE (JournalInv /\ NotifyInv)'
    OBVIOUS
  <2>1. JournalInv'  BY JournalStep
  <2>2. Excluded'  BY ExcludedStep DEF NotifyInv
  <2>3. IntentIsSaved'  BY IntentStep DEF NotifyInv
  <2>4. MarkersHonest'  BY MarkersStep DEF NotifyInv
  <2>5. (stored \subseteq Contents)'  BY StoredStep DEF NotifyInv
  <2>6. NoNotificationLost'  BY NotifyStep
  <2>7. QED  BY <2>1, <2>2, <2>3, <2>4, <2>5, <2>6 DEF NotifyInv
<1>3. JournalInv /\ NotifyInv => NoNotificationLost
  BY DEF NotifyInv
<1>4. QED  BY <1>1, <1>2, <1>3, PTL DEF Spec
-----------------------------------------------------------------------------
(* Mail: where an object is while it is imported.                            *)

Arrived ==
    /\ arrived \subseteq Objects
    /\ spool \cup events \cup leased \cup todo \subseteq arrived
    /\ job.pc # "idle" => job.obj \subseteq arrived

(* A receipt says cleaned only of an object that is gone from the spool, and *)
(* only such an object has its event acknowledged.                           *)
ReceiptsHonest ==
    /\ receipts \in [Objects -> {"none", "imported", "cleaned"}]
    /\ \A o \in Objects : receipts[o] = "cleaned" => o \in arrived \ spool
    /\ \A o \in acked \cup acks : o \in Objects /\ receipts[o] = "cleaned"

(* An import removes its object after its bytes are stored.                  *)
ImportInOrder ==
    /\ job.pc \in {"prepared", "ingested"} => Obj \in spool
    /\ job.pc \in {"ingested", "recorded"} => Content \in stored
    /\ job.pc = "removed" => Obj \notin spool

StoredFirst ==
    /\ purges \in [Contents -> Nat]
    /\ \A o \in arrived \ spool : ContentOf[o] \in stored \/ purges[ContentOf[o]] > 0

(* The invariant of the third theorem, beside Excluded. *)
MailInv == Arrived /\ ReceiptsHonest /\ ImportInOrder /\ StoredFirst

(* The tasks whose handler run is over and not recorded in the journal yet. *)
Done == IF Marked \/ tick = "succeeded" THEN active.keys ELSE {}

(* How often the handler accepted a message, by what is to become of it: one *)
(* with a task is owed a run, one without has had the run it was stored for. *)
HandledBound(c) ==
    /\ c \in Done \/ tasks[c] = "none" =>
         handled[c] <= (IF c \in stored THEN 1 ELSE 0) + lost + purges[c]
    /\ c \notin Done /\ tasks[c] # "none" => handled[c] <= lost + purges[c]
    /\ c \notin Done /\ tasks[c] = "pending" /\ c \notin stored =>
         handled[c] + 1 <= lost + purges[c]

(* The invariant of the fourth theorem, beside the others. *)
OnceInv ==
    /\ lost \in Nat
    /\ tick \in {"pick", "handler", "succeeded"} => markers = {}
    /\ \A c \in Contents : HandledBound(c)

(* The object of the import a step leaves. *)
LEMMA NextObj ==
  ASSUME NEW pcc, NEW o, NEW p, job' = Job(pcc, o, p)
  PROVE  /\ job'.pc = pcc /\ job'.obj = {o}
         /\ Obj' = o /\ Content' = ContentOf[o]
BY DEF Job, Obj, Content

LEMMA MailInit == Init => MailInv
BY DEF Init, MailInv, Arrived, ReceiptsHonest, ImportInOrder, StoredFirst, NoJob

(* A step that leaves the spool, the store and the receipts alone. *)
LEMMA MailStill ==
  ASSUME MailInv, UNCHANGED <<spool, arrived, stored, receipts, purges>>,
         events' \cup leased' \cup todo' \subseteq arrived,
         \A o \in acked' \cup acks' : o \in Objects /\ receipts[o] = "cleaned",
         job'.pc # "idle" => job'.obj \subseteq arrived,
         ImportInOrder'
  PROVE  MailInv'
BY DEF MailInv, Arrived, ReceiptsHonest, StoredFirst

(* A step outside of the imports. *)
LEMMA MailOutside ==
  ASSUME MailInv, UNCHANGED <<spool, arrived, stored, receipts, purges>>,
         events' \subseteq events, leased' \subseteq leased \cup events,
         todo' \subseteq todo \cup spool,
         acked' \cup acks' \subseteq acked \cup acks,
         job' = job \/ job' = NoJob
  PROVE  MailInv'
<1>1. ImportInOrder'
  <2>1. CASE job' = job
    BY <2>1 DEF MailInv, ImportInOrder, Obj, Content
  <2>2. CASE job' = NoJob
    BY <2>2 DEF ImportInOrder, NoJob
  <2>3. QED  BY <2>1, <2>2
<1>2. job'.pc # "idle" => job'.obj \subseteq arrived
  BY DEF MailInv, Arrived, NoJob
<1>3. QED  BY <1>1, <1>2, MailStill DEF MailInv, Arrived, ReceiptsHonest

LEMMA MailStep ==
  ASSUME Excluded, MailInv, [Next]_vars
  PROVE  MailInv'
<1> USE DEF queue, journal, history, bounds
<1>1. CASE \E o \in Objects : Put(o)
  <2>1. PICK o \in Objects : Put(o)  BY <1>1
  <2>2. /\ o \notin arrived /\ spool' = spool \cup {o} /\ arrived' = arrived \cup {o}
        /\ events' \subseteq events \cup {o}
        /\ UNCHANGED <<acked, stored, receipts, leased, acks, todo, job, purges>>
    BY <2>1 DEF Put
  <2>3. ImportInOrder'
    <3>1. job.pc # "idle" => Obj # o
      BY <2>2, ObjLemma DEF MailInv, Arrived
    <3>2. QED  BY <2>2, <3>1 DEF MailInv, ImportInOrder, Obj, Content
  <2>4. Arrived'  BY <2>2 DEF MailInv, Arrived
  <2>5. ReceiptsHonest'  BY <2>2 DEF MailInv, ReceiptsHonest
  <2>6. StoredFirst'  BY <2>2 DEF MailInv, StoredFirst
  <2>7. QED  BY <2>3, <2>4, <2>5, <2>6 DEF MailInv
<1>2. CASE \E c \in Contents : Purge(c)
  <2>1. PICK c \in Contents : Purge(c)  BY <1>2
  <2>2. /\ stored' = stored \ {c} /\ purges' = [purges EXCEPT ![c] = @ + 1]
        /\ UNCHANGED <<spool, arrived, events, acked, receipts, leased, acks, todo, job>>
        /\ lock = "free"
    BY <2>1 DEF Purge
  <2>3. job.pc = "idle"  BY <2>2 DEF Excluded, Locked
  <2>4. ImportInOrder'  BY <2>2, <2>3 DEF ImportInOrder
  <2>5. StoredFirst'
    <3>1. purges' \in [Contents -> Nat] /\ purges'[c] > 0
          /\ \A d \in Contents : d # c => purges'[d] = purges[d]
      BY <2>2 DEF MailInv, StoredFirst
    <3>2. \A o \in arrived : ContentOf[o] \in Contents
      BY ConsumerAssumption DEF MailInv, Arrived
    <3>3. QED  BY <2>2, <3>1, <3>2 DEF MailInv, StoredFirst
  <2>6. QED  BY <2>2, <2>4, <2>5 DEF MailInv, Arrived, ReceiptsHonest
<1>3. CASE \E o \in Objects : ScanNext(o)
  <2>1. PICK o \in Objects : ScanNext(o)  BY <1>3
  <2>2. /\ o \in todo /\ todo' = todo \ {o}
        /\ UNCHANGED <<spool, arrived, events, acked, stored, receipts, leased, acks, purges>>
        /\ job' = job \/ job' = Job("download", o, FALSE)
    BY <2>1 DEF ScanNext
  <2>3. CASE job' = job
    BY <2>2, <2>3, MailOutside
  <2>4. CASE job' = Job("download", o, FALSE)
    <3>1. job'.pc = "download" /\ job'.obj = {o}  BY <2>4, NextObj
    <3>2. ImportInOrder'  BY <3>1 DEF ImportInOrder
    <3>3. job'.obj \subseteq arrived  BY <2>2, <3>1 DEF MailInv, Arrived
    <3>4. QED  BY <2>2, <3>2, <3>3, MailStill DEF MailInv, Arrived, ReceiptsHonest
  <2>5. QED  BY <2>2, <2>3, <2>4
<1>4. CASE \E o \in Objects : NextEvent(o)
  <2>1. PICK o \in Objects : NextEvent(o)  BY <1>4
  <2>2. /\ o \in leased /\ leased' \subseteq leased
        /\ UNCHANGED <<spool, arrived, events, acked, stored, receipts, todo, purges>>
        /\ acks' \subseteq acks \cup {x \in {o} : receipts[x] = "cleaned"}
    BY <2>1 DEF NextEvent, SettleEvent
  <2>3. \A x \in acked' \cup acks' : x \in Objects /\ receipts[x] = "cleaned"
    BY <2>2 DEF MailInv, ReceiptsHonest
  <2>4. events' \cup leased' \cup todo' \subseteq arrived
    BY <2>2 DEF MailInv, Arrived
  <2>5. CASE job' = job
    BY <2>2, <2>3, <2>4, <2>5, MailStill DEF MailInv, ImportInOrder, Arrived, Obj, Content
  <2>6. CASE /\ receipts[o] = "none" \/ (receipts[o] = "imported" /\ ContentOf[o] \in stored)
             /\ job' = Job(IF receipts[o] = "none" THEN "download" ELSE "recorded", o, FALSE)
    <3>1. /\ job'.pc \in {"download", "recorded"} /\ job'.obj = {o}
          /\ job'.pc = "recorded" => ContentOf[o] \in stored
          /\ Content' = ContentOf[o]
      BY <2>6, NextObj
    <3>2. ImportInOrder'  BY <2>2, <3>1 DEF ImportInOrder
    <3>3. job'.obj \subseteq arrived  BY <2>2, <3>1 DEF MailInv, Arrived
    <3>4. QED  BY <2>2, <2>3, <2>4, <3>2, <3>3, MailStill
  <2>7. job' = job
          \/ /\ receipts[o] = "none" \/ (receipts[o] = "imported" /\ ContentOf[o] \in stored)
             /\ job' = Job(IF receipts[o] = "none" THEN "download" ELSE "recorded", o, FALSE)
    BY <2>1 DEF NextEvent
  <2>8. QED  BY <2>5, <2>6, <2>7
<1>5. CASE Prepare \/ Ingest \/ IngestFails \/ ViewFails
  <2>1. /\ job.pc # "idle" /\ stored \subseteq stored'
        /\ UNCHANGED <<spool, arrived, events, acked, receipts, leased, acks, todo, purges>>
    BY <1>5 DEF Prepare, Ingest, IngestFails, ViewFails, Importing
  <2>2. Obj \in arrived /\ job.obj = {Obj}
    BY <2>1, ObjLemma DEF MailInv, Arrived
  <2>3. \E pcc \in {"prepared", "ingested", "done"} : \E p :
          /\ job' = Job(pcc, Obj, p)
          /\ pcc # "done" => Obj \in spool
          /\ pcc = "ingested" => Content \in stored'
    <3>1. CASE Prepare
      BY <3>1 DEF Prepare
    <3>2. CASE Ingest
      BY <3>2 DEF Ingest, MailInv, ImportInOrder
    <3>3. CASE IngestFails \/ ViewFails
      BY <3>3 DEF IngestFails, ViewFails
    <3>4. QED  BY <1>5, <3>1, <3>2, <3>3
  <2>4. ImportInOrder' /\ job'.obj = {Obj}
    BY <2>1, <2>3, NextObj DEF ImportInOrder, Content
  <2>5. StoredFirst'  BY <2>1 DEF MailInv, StoredFirst
  <2>6. QED  BY <2>1, <2>2, <2>4, <2>5 DEF MailInv, Arrived, ReceiptsHonest
<1>6. CASE Imported
  <2>1. /\ job.pc = "ingested" /\ receipts' = [receipts EXCEPT ![Obj] = "imported"]
        /\ job' = Job("recorded", Obj, FALSE)
        /\ UNCHANGED <<spool, arrived, events, acked, stored, leased, acks, todo, purges>>
    BY <1>6 DEF Imported
  <2>2. Obj \in arrived /\ Obj \in Objects /\ Obj \in spool /\ Content \in stored
    BY <2>1, ObjLemma DEF MailInv, Arrived, ImportInOrder
  <2>3. job'.obj = {Obj} /\ ImportInOrder'
    BY <2>1, <2>2, NextObj DEF ImportInOrder, Content
  <2>4. ReceiptsHonest'
    <3>1. receipts[Obj] # "cleaned"  BY <2>2 DEF MailInv, ReceiptsHonest
    <3>2. QED  BY <2>1, <2>2, <3>1 DEF MailInv, ReceiptsHonest
  <2>5. QED  BY <2>1, <2>2, <2>3, <2>4 DEF MailInv, Arrived, StoredFirst
<1>7. CASE Remove \/ RemoveFails
  <2>1. /\ job.pc = "recorded" /\ spool' \in {spool, spool \ {Obj}}
        /\ UNCHANGED <<arrived, events, acked, stored, receipts, leased, acks, todo, purges>>
    BY <1>7 DEF Remove, RemoveFails
  <2>2. Obj \in arrived /\ Content \in stored
    BY <2>1, ObjLemma DEF MailInv, Arrived, ImportInOrder
  <2>3. \E pcc \in {"removed", "done"} :
          /\ job' = Job(pcc, Obj, FALSE)
          /\ pcc = "removed" => spool' = spool \ {Obj}
    BY <1>7 DEF Remove, RemoveFails
  <2>4. job'.obj = {Obj} /\ ImportInOrder'
    BY <2>1, <2>3, NextObj DEF ImportInOrder
  <2>5. StoredFirst'
    BY <2>1, <2>2 DEF MailInv, StoredFirst, Content
  <2>6. ReceiptsHonest'  BY <2>1 DEF MailInv, ReceiptsHonest
  <2>7. Arrived'  BY <2>1, <2>2, <2>4 DEF MailInv, Arrived
  <2>8. QED  BY <2>4, <2>5, <2>6, <2>7 DEF MailInv
<1>8. CASE Cleaned
  <2>1. /\ job.pc = "removed" /\ receipts' = [receipts EXCEPT ![Obj] = "cleaned"]
        /\ job' = Job("done", Obj, FALSE)
        /\ UNCHANGED <<spool, arrived, events, acked, stored, leased, acks, todo, purges>>
    BY <1>8 DEF Cleaned
  <2>2. Obj \in arrived /\ Obj \in Objects /\ Obj \notin spool
    BY <2>1, ObjLemma DEF MailInv, Arrived, ImportInOrder
  <2>3. job'.obj = {Obj} /\ ImportInOrder'
    <3>1. job'.pc = "done" /\ job'.obj = {Obj}  BY <2>1, NextObj
    <3>2. QED  BY <3>1 DEF ImportInOrder
  <2>4. ReceiptsHonest'
    BY <2>1, <2>2 DEF MailInv, ReceiptsHonest
  <2>5. QED  BY <2>1, <2>2, <2>3, <2>4 DEF MailInv, Arrived, StoredFirst
<1>9. CASE Finish
  <2>1. /\ job.pc # "idle" /\ job' = NoJob /\ leased' \subseteq leased
        /\ UNCHANGED <<spool, arrived, events, acked, stored, receipts, todo, purges>>
        /\ acks' \subseteq acks \cup {x \in {Obj} : receipts[x] = "cleaned"}
    BY <1>9 DEF Finish, SettleEvent, Importing
  <2>2. Obj \in Objects  BY <2>1, ObjLemma
  <2>3. \A x \in acked' \cup acks' : x \in Objects /\ receipts[x] = "cleaned"
    BY <2>1, <2>2 DEF MailInv, ReceiptsHonest
  <2>4. ImportInOrder' /\ job'.pc = "idle"
    BY <2>1 DEF ImportInOrder, NoJob
  <2>5. QED  BY <2>1, <2>3, <2>4, MailStill DEF MailInv, Arrived
<1>10. CASE ImportErrs
  BY <1>10, MailOutside DEF ImportErrs, SettleEvent
<1>11. CASE Settle
  <2>1. /\ UNCHANGED <<spool, arrived, stored, receipts, leased, todo, job, purges>>
        /\ events' \subseteq events /\ acked' \cup acks' \subseteq acked \cup acks
    BY <1>11 DEF Settle
  <2>2. QED  BY <2>1, MailOutside
<1>12. CASE StartPull \/ EndPull \/ StartTick \/ StartScan \/ EndImport
  BY <1>12, MailOutside DEF StartPull, EndPull, StartTick, StartScan, EndImport
<1>13. CASE RecordCompleted \/ RetryBatch \/ NewBatch \/ NoBatchLeft \/ RemoveMarkers
  BY <1>13, MailOutside DEF RecordCompleted, RetryBatch, NewBatch, NoBatchLeft, Dispatch,
       RemoveMarkers
<1>14. CASE LockToDispatch \/ LockToFold \/ GiveUpLock \/ HandlerSucceeds \/ HandlerFails
            \/ WriteMarker
  BY <1>14, MailOutside DEF LockToDispatch, LockToFold, TakeLock, GiveUpLock,
       HandlerSucceeds, HandlerFails, WriteMarker
<1>15. CASE CrashConsumer \/ CrashCommand \/ UNCHANGED vars
  BY <1>15, MailOutside DEF CrashConsumer, CrashCommand, vars
<1>16. QED
  BY <1>1, <1>2, <1>3, <1>4, <1>5, <1>6, <1>7, <1>8, <1>9, <1>10, <1>11, <1>12, <1>13,
     <1>14, <1>15 DEF Next, ImportStep, TickStep

LEMMA ExcludedInit == Init => Excluded
BY DEF Init, Excluded, Locked, NoJob

(* An object leaves the spool only when its bytes are stored, and its event  *)
(* is acknowledged only when it was imported and removed: the object is      *)
(* looked for before its import, removed after its receipt, and marked       *)
(* cleaned after that, and neither a crash, a failed call nor a lost answer  *)
(* between two of these changes the order.                                   *)
THEOREM MailKept == Spec => []NoMailLost
<1>1. Init => Excluded /\ MailInv
  BY ExcludedInit, MailInit
<1>2. Excluded /\ MailInv /\ [Next]_vars => (Excluded /\ MailInv)'
  BY ExcludedStep, MailStep
<1>3. MailInv => NoMailLost
  BY DEF MailInv, StoredFirst, ReceiptsHonest, NoMailLost
<1>4. QED  BY <1>1, <1>2, <1>3, PTL DEF Spec
-----------------------------------------------------------------------------
(* Handler runs: how often one message is accepted.                          *)

LEMMA OnceInit == Init => OnceInv
BY DEF Init, OnceInv, HandledBound, Done, Marked, NoBatch

(* A step that leaves everything the bound counts alone. *)
LEMMA OnceStill ==
  ASSUME OnceInv, UNCHANGED <<handled, lost, purges, tasks, stored>>, Done' = Done,
         tick' \in {"pick", "handler", "succeeded"} => markers' = {}
  PROVE  OnceInv'
BY DEF OnceInv, HandledBound

(* A step outside of the consumer's bookkeeping. *)
LEMMA OnceOutside ==
  ASSUME OnceInv, UNCHANGED <<handled, lost, purges, tasks, stored, active, markers>>,
         tick' = tick \/ {tick, tick'} \cap {"pick", "handler", "succeeded"} \subseteq {"handler"},
         tick' = "handler" => tick = "handler"
  PROVE  OnceInv'
<1>1. Done' = Done  BY DEF Done, Marked
<1>2. tick' \in {"pick", "handler", "succeeded"} => markers' = {}  BY DEF OnceInv
<1>3. QED  BY <1>1, <1>2, OnceStill

(* The counters are numbers. *)
LEMMA OnceCounts ==
  ASSUME JournalInv, MailInv, OnceInv, NEW c \in Contents
  PROVE  handled[c] \in Nat /\ purges[c] \in Nat /\ lost \in Nat /\ HandledBound(c)
BY DEF JournalInv, JournalOK, MailInv, StoredFirst, OnceInv

(* An import: it changes the task and the store of one message. *)
LEMMA OnceImport ==
  ASSUME JournalInv, MailInv, OnceInv, NEW d \in Contents,
         UNCHANGED <<handled, lost, purges, active, markers, tick>>,
         \A c \in Contents \ {d} :
            tasks'[c] = tasks[c] /\ (c \in stored' <=> c \in stored),
         d \in stored => d \in stored',
         \/ tasks'[d] = tasks[d]
         \/ tasks[d] = "none" /\ tasks'[d] = "preparing" /\ d \notin stored
         \/ tasks[d] = "preparing" /\ tasks'[d] = "none"
         \/ tasks[d] = "preparing" /\ tasks'[d] = "pending" /\ d \in stored
  PROVE  OnceInv'
<1>1. Done' = Done  BY DEF Done, Marked
<1>2. ASSUME NEW c \in Contents PROVE HandledBound(c)'
  <2>1. handled[c] \in Nat /\ purges[c] \in Nat /\ lost \in Nat /\ HandledBound(c)
    BY OnceCounts
  <2>2. CASE c # d
    BY <1>1, <2>1, <2>2 DEF HandledBound
  <2>3. CASE c = d
    BY <1>1, <2>1, <2>3 DEF HandledBound
  <2>4. QED  BY <2>2, <2>3
<1>3. QED  BY <1>2 DEF OnceInv

(* Dispatch drops the tasks of messages that were purged; those are owed no  *)
(* run.                                                                      *)
LEMMA OnceDispatch ==
  ASSUME JournalInv, MailInv, OnceInv, tick = "pick",
         NEW drop, drop \subseteq Pending \ stored, tasks' = Dropped(drop),
         UNCHANGED <<handled, lost, purges, stored, markers>>,
         tick' \in {"handler", "off"}
  PROVE  OnceInv'
<1>1. markers = {} /\ Done = {} /\ Done' = {}
  BY DEF OnceInv, Done, Marked
<1>2. ASSUME NEW c \in Contents PROVE HandledBound(c)'
  <2>1. handled[c] \in Nat /\ purges[c] \in Nat /\ lost \in Nat /\ HandledBound(c)
    BY OnceCounts
  <2>2. CASE c \in drop
    <3>1. tasks[c] = "pending" /\ c \notin stored /\ tasks'[c] = "none"
      BY <2>2 DEF Pending, Dropped
    <3>2. QED  BY <1>1, <2>1, <3>1 DEF HandledBound
  <2>3. CASE c \notin drop
    <3>1. tasks'[c] = tasks[c]  BY <2>3 DEF Dropped
    <3>2. QED  BY <1>1, <2>1, <3>1 DEF HandledBound
  <2>4. QED  BY <2>2, <2>3
<1>3. QED  BY <1>1, <1>2 DEF OnceInv

LEMMA OnceStep ==
  ASSUME JournalInv, Excluded, MarkersHonest, MailInv, OnceInv, [Next]_vars
  PROVE  OnceInv'
<1> USE DEF queue, journal, history, bounds
<1>1. CASE \E d \in Contents : Purge(d)
  <2>1. PICK d \in Contents : Purge(d)  BY <1>1
  <2>2. /\ d \in stored /\ stored' = stored \ {d}
        /\ purges' = [purges EXCEPT ![d] = @ + 1]
        /\ UNCHANGED <<handled, lost, tasks, active, markers, tick>>
    BY <2>1 DEF Purge
  <2>3. Done' = Done  BY <2>2 DEF Done, Marked
  <2>4. ASSUME NEW c \in Contents PROVE HandledBound(c)'
    <3>1. handled[c] \in Nat /\ purges[c] \in Nat /\ lost \in Nat /\ HandledBound(c)
      BY OnceCounts
    <3>2. purges'[c] = IF c = d THEN purges[c] + 1 ELSE purges[c]
      BY <2>2 DEF MailInv, StoredFirst
    <3>3. CASE c = d
      BY <2>2, <2>3, <3>1, <3>2, <3>3 DEF HandledBound
    <3>4. CASE c # d
      BY <2>2, <2>3, <3>1, <3>2, <3>4 DEF HandledBound
    <3>5. QED  BY <3>3, <3>4
  <2>5. QED  BY <2>2, <2>4 DEF OnceInv
<1>2. CASE Prepare
  <2>1. Content \in Contents  BY <1>2, ObjLemma DEF Prepare, Importing
  <2>2. UNCHANGED <<handled, lost, purges, active, markers, tick, stored>>
    BY <1>2 DEF Prepare
  <2>3. \/ tasks' = tasks
        \/ /\ Content \notin stored /\ tasks[Content] = "none"
           /\ tasks' = [tasks EXCEPT ![Content] = "preparing"]
    BY <1>2 DEF Prepare
  <2>4. \A c \in Contents \ {Content} : tasks'[c] = tasks[c]
    BY <2>3 DEF JournalInv, JournalOK
  <2>5. \/ tasks'[Content] = tasks[Content]
        \/ tasks[Content] = "none" /\ tasks'[Content] = "preparing" /\ Content \notin stored
    BY <2>1, <2>3 DEF JournalInv, JournalOK
  <2>6. QED  BY <2>1, <2>2, <2>4, <2>5, OnceImport
<1>3. CASE Ingest
  <2>1. Content \in Contents  BY <1>3, ObjLemma DEF Ingest, Importing
  <2>2. stored' = stored \cup {Content}
        /\ UNCHANGED <<handled, lost, purges, active, markers, tick, tasks>>
    BY <1>3 DEF Ingest
  <2>3. QED  BY <2>1, <2>2, OnceImport
<1>4. CASE IngestFails \/ ViewFails
  <2>1. Content \in Contents
    BY <1>4, ObjLemma DEF IngestFails, ViewFails, Importing
  <2>2. tasks' = Withdrawn
        /\ UNCHANGED <<handled, lost, purges, active, markers, tick, stored>>
    BY <1>4 DEF IngestFails, ViewFails
  <2>3. \A c \in Contents \ {Content} : tasks'[c] = tasks[c]
    BY <2>2 DEF Withdrawn, JournalInv, JournalOK
  <2>4. \/ tasks'[Content] = tasks[Content]
        \/ tasks[Content] = "preparing" /\ tasks'[Content] = "none"
    BY <2>1, <2>2 DEF Withdrawn, JournalInv, JournalOK
  <2>5. QED  BY <2>1, <2>2, <2>3, <2>4, OnceImport
<1>5. CASE Imported
  <2>1. Content \in Contents  BY <1>5, ObjLemma DEF Imported, Importing
  <2>2. Content \in stored  BY <1>5 DEF Imported, MailInv, ImportInOrder
  <2>3. UNCHANGED <<handled, lost, purges, active, markers, tick, stored>>
    BY <1>5 DEF Imported
  <2>4. \/ tasks' = tasks
        \/ tasks[Content] = "preparing" /\ tasks' = [tasks EXCEPT ![Content] = "pending"]
    BY <1>5 DEF Imported
  <2>5. \A c \in Contents \ {Content} : tasks'[c] = tasks[c]
    BY <2>4 DEF JournalInv, JournalOK
  <2>6. \/ tasks'[Content] = tasks[Content]
        \/ tasks[Content] = "preparing" /\ tasks'[Content] = "pending"
    BY <2>1, <2>4 DEF JournalInv, JournalOK
  <2>7. QED  BY <2>1, <2>2, <2>3, <2>5, <2>6, OnceImport
<1>6. CASE RecordCompleted
  <2>1. /\ tick \in {"record", "fold"} /\ tick' \in {"sweep", "sweepfold"}
        /\ UNCHANGED <<handled, lost, purges, stored, markers>>
    BY <1>6 DEF RecordCompleted
  <2>2. CASE Marked
    <3>1. active' = NoBatch
          /\ tasks' = [c \in Contents |-> IF c \in active.keys THEN "none" ELSE tasks[c]]
      BY <1>6, <2>2 DEF RecordCompleted, Marked
    <3>2. Done = active.keys /\ Done' = {}
      BY <2>1, <2>2, <3>1 DEF Done, Marked, NoBatch
    <3>3. ASSUME NEW c \in Contents PROVE HandledBound(c)'
      <4>1. handled[c] \in Nat /\ purges[c] \in Nat /\ lost \in Nat /\ HandledBound(c)
        BY OnceCounts
      <4>2. tasks'[c] = IF c \in Done THEN "none" ELSE tasks[c]
        BY <3>1, <3>2
      <4>3. QED  BY <2>1, <3>2, <4>1, <4>2 DEF HandledBound
    <3>4. QED  BY <2>1, <3>3 DEF OnceInv
  <2>3. CASE ~Marked
    <3>1. UNCHANGED <<tasks, active>>
      BY <1>6, <2>3 DEF RecordCompleted, Marked
    <3>2. Done' = Done  BY <2>1, <3>1 DEF Done, Marked
    <3>3. QED  BY <2>1, <3>1, <3>2, OnceStill
  <2>4. QED  BY <2>2, <2>3
<1>7. CASE RemoveMarkers
  <2>1. /\ tick \in {"sweep", "sweepfold"} /\ tick' \in {"pick", "off"}
        /\ UNCHANGED <<handled, lost, purges, stored, tasks, active>>
    BY <1>7 DEF RemoveMarkers
  <2>2. ~Marked  BY <2>1 DEF MarkersHonest
  <2>3. markers' = {}  BY <1>7, <2>2 DEF RemoveMarkers, Marked
  <2>4. Done' = Done  BY <2>1, <2>2, <2>3 DEF Done, Marked
  <2>5. QED  BY <2>1, <2>3, <2>4, OnceStill
<1>8. CASE RetryBatch \/ NewBatch \/ NoBatchLeft
  <2>1. /\ tick = "pick" /\ tick' \in {"handler", "off"}
        /\ UNCHANGED <<handled, lost, purges, stored, markers>>
    BY <1>8 DEF RetryBatch, NewBatch, NoBatchLeft, Dispatch
  <2>2. \E drop \in SUBSET (Pending \ stored) : tasks' = Dropped(drop)
    <3>1. active.keys \subseteq Pending  BY DEF JournalInv, JournalLoads
    <3>2. CASE RetryBatch
      <4>1. tasks' = Dropped(active.keys \ stored)  BY <3>2 DEF RetryBatch, Dispatch
      <4>2. QED  BY <3>1, <4>1
    <3>3. CASE NewBatch
      <4>1. PICK keys \in SUBSET (Pending \cap stored), gone \in SUBSET (Pending \ stored) :
              Dispatch([id |-> keys, keys |-> keys], gone \cup active.keys)
        BY <3>3 DEF NewBatch
      <4>2. tasks' = Dropped(gone \cup active.keys)  BY <4>1 DEF Dispatch
      <4>3. gone \cup active.keys \in SUBSET (Pending \ stored)
        BY <3>1, <3>3 DEF NewBatch
      <4>4. QED  BY <4>2, <4>3
    <3>4. CASE NoBatchLeft
      <4>1. tasks' = Dropped(Pending) /\ Pending \in SUBSET (Pending \ stored)
        BY <3>4 DEF NoBatchLeft
      <4>2. QED  BY <4>1
    <3>5. QED  BY <1>8, <3>2, <3>3, <3>4
  <2>3. QED  BY <2>1, <2>2, OnceDispatch
<1>9. CASE HandlerSucceeds
  <2>1. /\ tick = "handler" /\ tick' = "succeeded"
        /\ handled' = [c \in Contents |->
                         IF c \in active.keys THEN handled[c] + 1 ELSE handled[c]]
        /\ UNCHANGED <<lost, purges, stored, tasks, active, markers>>
    BY <1>9 DEF HandlerSucceeds
  <2>2. markers = {} /\ Done = {} /\ Done' = active.keys
    BY <2>1 DEF OnceInv, Done, Marked
  <2>3. ASSUME NEW c \in Contents PROVE HandledBound(c)'
    <3>1. handled[c] \in Nat /\ purges[c] \in Nat /\ lost \in Nat /\ HandledBound(c)
      BY OnceCounts
    <3>2. CASE c \in active.keys
      <4>1. tasks[c] = "pending"  BY <3>2 DEF JournalInv, JournalLoads, Pending
      <4>2. handled'[c] = handled[c] + 1  BY <2>1, <3>2
      <4>3. CASE c \in stored
        BY <2>1, <2>2, <3>1, <3>2, <4>1, <4>2, <4>3 DEF HandledBound
      <4>4. CASE c \notin stored
        BY <2>1, <2>2, <3>1, <3>2, <4>1, <4>2, <4>4 DEF HandledBound
      <4>5. QED  BY <4>3, <4>4
    <3>3. CASE c \notin active.keys
      <4>1. handled'[c] = handled[c]  BY <2>1, <3>3
      <4>2. QED  BY <2>1, <2>2, <3>1, <3>3, <4>1 DEF HandledBound
    <3>4. QED  BY <3>2, <3>3
  <2>4. QED  BY <2>1, <2>2, <2>3 DEF OnceInv
<1>10. CASE WriteMarker
  <2>1. /\ tick = "succeeded" /\ tick' = "marked" /\ markers' = markers \cup {active.id}
        /\ UNCHANGED <<handled, lost, purges, stored, tasks, active>>
    BY <1>10 DEF WriteMarker
  <2>2. Done' = Done  BY <2>1 DEF Done, Marked
  <2>3. QED  BY <2>1, <2>2, OnceStill
<1>11. CASE CrashConsumer
  <2>1. /\ tick' = "off" /\ UNCHANGED <<handled, purges, stored, tasks, active, markers>>
        /\ lost' = IF tick = "succeeded" THEN lost + 1 ELSE lost
    BY <1>11 DEF CrashConsumer
  <2>2. CASE tick = "succeeded"
    <3>1. markers = {} /\ Done = active.keys /\ Done' = {}
      BY <2>1, <2>2 DEF OnceInv, Done, Marked
    <3>2. ASSUME NEW c \in Contents PROVE HandledBound(c)'
      <4>1. handled[c] \in Nat /\ purges[c] \in Nat /\ lost \in Nat /\ HandledBound(c)
        BY OnceCounts
      <4>2. c \in stored \/ c \notin stored  OBVIOUS
      <4>3. QED  BY <2>1, <2>2, <3>1, <4>1, <4>2 DEF HandledBound
    <3>3. QED  BY <2>1, <2>2, <3>2 DEF OnceInv
  <2>3. CASE tick # "succeeded"
    BY <2>1, <2>3, OnceOutside
  <2>4. QED  BY <2>2, <2>3
<1>12. CASE Remove \/ RemoveFails \/ Cleaned \/ Finish \/ ImportErrs
  BY <1>12, OnceOutside DEF Remove, RemoveFails, Cleaned, Finish, ImportErrs
<1>13. CASE \/ \E o \in Objects : Put(o) \/ ScanNext(o) \/ NextEvent(o)
            \/ UNCHANGED vars
  BY <1>13, OnceOutside DEF Put, ScanNext, NextEvent, vars
<1>14. CASE StartPull \/ StartTick \/ StartScan \/ EndPull \/ EndImport \/ Settle
  BY <1>14, OnceOutside DEF StartPull, StartTick, StartScan, EndPull, EndImport, Settle
<1>15. CASE LockToDispatch \/ LockToFold \/ GiveUpLock \/ HandlerFails \/ CrashCommand
  BY <1>15, OnceOutside DEF LockToDispatch, LockToFold, TakeLock, GiveUpLock, HandlerFails,
       CrashCommand
<1>16. QED
  BY <1>1, <1>2, <1>3, <1>4, <1>5, <1>6, <1>7, <1>8, <1>9, <1>10, <1>11, <1>12, <1>13,
     <1>14, <1>15 DEF Next, ImportStep, TickStep

(* A handler accepts a message once, and once more for each crash between    *)
(* its run and the marker and for each purge after which it came again: a    *)
(* failed fold, a retried batch, a lost acknowledgement or a second copy in  *)
(* the spool never hands the message over another time.                      *)
THEOREM HandledAtMostOnce == Spec => []HandledOnce
<1> DEFINE Inv == JournalInv /\ Excluded /\ MarkersHonest /\ MailInv /\ OnceInv
<1>1. Init => Inv
  BY JournalInit, NotifyInit, MailInit, OnceInit DEF NotifyInv
<1>2. Inv /\ [Next]_vars => Inv'
  BY JournalStep, ExcludedStep, MarkersStep, MailStep, OnceStep
<1>3. Inv => HandledOnce
  <2> SUFFICES ASSUME Inv, NEW c \in Contents
               PROVE  handled[c] <= 1 + lost + purges[c]
    BY DEF HandledOnce
  <2>1. handled[c] \in Nat /\ purges[c] \in Nat /\ lost \in Nat /\ HandledBound(c)
    BY OnceCounts
  <2>2. QED  BY <2>1 DEF HandledBound
<1>4. QED  BY <1>1, <1>2, <1>3, PTL DEF Spec
=============================================================================
