------------------------------ MODULE Service ------------------------------
(***************************************************************************)
(* One afmail request from the moment it reaches a CLI process or an HTTP  *)
(* handler to its answer: authentication and Idempotency-Key, the          *)
(* non-blocking workspace lock, the progress snapshot, the guard against   *)
(* incomplete transactions, the idempotency record and the operation.      *)
(* Several workers run at once.  A worker in Handlers is a blocking task   *)
(* of one API server process and dies with it; the others are processes of *)
(* their own.  Operations are abstracted to two writes, which is what a    *)
(* crash, a reader or a retry can tell apart.                              *)
(***************************************************************************)
EXTENDS Naturals, FiniteSets

CONSTANTS
    Workers,      \* CLI processes and API handler tasks
    Handlers,     \* the workers that are tasks of the API server
    Keys,         \* request ids (CLI --request-id, HTTP Idempotency-Key)
    Inputs,       \* the inputs a command is called with
    Offered,      \* the commands this instance calls
    NoKey,        \* a request without a request id
    MaxRequests,  \* bound on requests
    MaxFaults     \* bound on crashes and failed writes

ASSUME ServiceAssumption ==
    /\ Handlers \subseteq Workers
    /\ NoKey \notin Keys
    /\ MaxRequests \in Nat /\ MaxFaults \in Nat

VARIABLES
    lock,      \* the flock of .afmail/cache/workspace.lock each worker holds
    record,    \* .afmail/requests/<id>.json
    open,      \* the number of records in .afmail/transactions
    snapshot,  \* .afmail/cache/progress.json and the worker that wrote it
    worker,    \* what each worker is doing
    serial,    \* operations performed, the identity of a result
    requests, faults,
    effects,   \* history: operations begun for each key
    answers,   \* history: the successful answers given for each key
    last       \* history: each worker's last answer

store == <<record, open, serial, effects>>
vars == <<lock, record, open, snapshot, worker, serial, requests, faults,
          effects, answers, last>>

-----------------------------------------------------------------------------
(* The commands, by what dispatch does with them. *)

\* A read: message show, case list, push list, doctor, pull --dry-run.
ReadCommand ==
    [mode |-> "shared", keyed |-> FALSE, precheck |-> FALSE, journal |-> FALSE,
     progress |-> FALSE, items |-> 1]

\* case create prepares its inputs before the pending record is written.
CaseCreateCommand ==
    [mode |-> "exclusive", keyed |-> TRUE, precheck |-> TRUE, journal |-> TRUE,
     progress |-> FALSE, items |-> 1]

\* The other case mutations run whole under the pending record.
CaseCommand == [CaseCreateCommand EXCEPT !.precheck = FALSE]

NotificationCommand == [CaseCreateCommand EXCEPT !.precheck = FALSE]

\* Edits of drafts, contacts and suggestions keep no transaction record.
DraftCommand == [CaseCommand EXCEPT !.journal = FALSE]
ContactCommand == [CaseCommand EXCEPT !.journal = FALSE]
SuggestionCommand == [CaseCommand EXCEPT !.journal = FALSE]

\* message spam, trash, unspam, untrash: one message with a key, a batch
\* without.
DispositionCommand == [CaseCommand EXCEPT !.items = 2]

\* pull, confirmed push and render refresh report progress, take no key and
\* count the sources or items that failed.
SyncCommand ==
    [mode |-> "exclusive", keyed |-> FALSE, precheck |-> FALSE,
     journal |-> FALSE, progress |-> TRUE, items |-> 2]

\* doctor repair is the one writer that runs over an incomplete transaction.
RepairCommand == [SyncCommand EXCEPT !.progress = FALSE, !.items = 1]

Command ==
    [show |-> ReadCommand, status |-> ReadCommand,
     case_create |-> CaseCreateCommand, case_add |-> CaseCommand,
     draft_change |-> DraftCommand, contact_tag |-> ContactCommand,
     notification_add |-> NotificationCommand,
     suggestion_set |-> SuggestionCommand,
     message_spam |-> DispositionCommand, pull |-> SyncCommand,
     repair |-> RepairCommand]

ASSUME OfferedAssumption == Offered \subseteq DOMAIN Command

-----------------------------------------------------------------------------
NoRecord == [status |-> "absent", command |-> "show", input |-> 0, result |-> 0]

Idle == [pc |-> "idle", command |-> "show", key |-> NoKey, input |-> 0,
         seen |-> "idle", result |-> 0, done |-> 0, bad |-> 0, again |-> FALSE,
         warned |-> FALSE]

NoAnswer == [code |-> "none", done |-> 0, retryable |-> FALSE]

CanLock(w, mode) ==
    \A v \in Workers \ {w} :
        IF mode = "exclusive" THEN lock[v] = "none" ELSE lock[v] # "exclusive"

Put(w, fields) == worker' = [worker EXCEPT ![w] = fields]
Goto(w, pc) == Put(w, [worker[w] EXCEPT !.pc = pc])
Of(w) == Command[worker[w].command]
Fault == faults < MaxFaults /\ faults' = faults + 1

\* The worker answers, drops its lock and is free again.  Progress warnings
\* turn a success into a partial result.
Answer(w, code, retryable) ==
    LET told == IF code = "ok" /\ worker[w].warned THEN "partial" ELSE code
    IN  /\ last' = [last EXCEPT ![w] =
                      [code |-> told, done |-> worker[w].done, retryable |-> retryable]]
        /\ answers' = IF told = "ok" /\ worker[w].key \in Keys
                        THEN [answers EXCEPT ![worker[w].key] =
                                @ \cup {<<worker[w].input, worker[w].result>>}]
                        ELSE answers
        /\ lock' = [lock EXCEPT ![w] = "none"]
        /\ Put(w, Idle)

-----------------------------------------------------------------------------
Init ==
    /\ lock = [w \in Workers |-> "none"]
    /\ record = [k \in Keys |-> NoRecord]
    /\ open = 0
    /\ snapshot = [status |-> "idle", by |-> "nobody"]
    /\ worker = [w \in Workers |-> Idle]
    /\ serial = 0 /\ requests = 0 /\ faults = 0
    /\ effects = [k \in Keys |-> 0]
    /\ answers = [k \in Keys |-> {}]
    /\ last = [w \in Workers |-> NoAnswer]

\* A request reaches a CLI process or passes the API's bearer check, key and
\* body parsing.  An HTTP mutation must carry a key, and a key is refused on
\* a command that does not support it.
Admissible(w, command, key) ==
    /\ key \in Keys => Command[command].keyed
    /\ w \in Handlers /\ Command[command].keyed => key \in Keys

Arrive(w, command, key, input) ==
    /\ worker[w].pc = "idle" /\ requests < MaxRequests
    /\ Admissible(w, command, key)
    /\ requests' = requests + 1
    /\ Put(w, [Idle EXCEPT !.pc = IF command = "status" THEN "status" ELSE "arrived",
                           !.command = command, !.key = key, !.input = input])
    /\ last' = [last EXCEPT ![w] = NoAnswer]
    /\ UNCHANGED <<lock, snapshot, faults, answers, store>>

\* A missing or unsupported key, a wrong bearer credential or an invalid body
\* is answered before any lock is taken.
Refuse(w, command, key) ==
    /\ worker[w].pc = "idle" /\ requests < MaxRequests
    /\ ~Admissible(w, command, key)
    /\ requests' = requests + 1
    /\ last' = [last EXCEPT ![w] = [NoAnswer EXCEPT !.code = "refused"]]
    /\ UNCHANGED <<lock, snapshot, worker, faults, answers, store>>

Acquire(w) ==
    /\ worker[w].pc = "arrived"
    /\ \/ /\ CanLock(w, Of(w).mode)
          /\ lock' = [lock EXCEPT ![w] = Of(w).mode]
          /\ Goto(w, IF Of(w).progress THEN "start" ELSE "guard")
          /\ UNCHANGED <<answers, last>>
       \/ /\ ~CanLock(w, Of(w).mode)
          /\ Answer(w, "workspace_locked", TRUE)
    /\ UNCHANGED <<snapshot, requests, faults, store>>

-----------------------------------------------------------------------------
(* The progress snapshot. *)

\* A snapshot that cannot be written is a warning of the command.
WriteSnapshot(w, status) ==
    \/ /\ snapshot' = [status |-> status, by |-> w]
       /\ UNCHANGED faults
    \/ /\ Fault
       /\ UNCHANGED snapshot

Start(w) ==
    /\ worker[w].pc = "start"
    /\ WriteSnapshot(w, "running")
    /\ Put(w, [worker[w] EXCEPT !.pc = "guard",
                                !.warned = @ \/ faults' # faults])
    /\ UNCHANGED <<lock, requests, answers, last, store>>

\* The result of the operation decides the final status; a write that fails
\* here makes the answer partial after that status was decided.
FinalStatus(w) ==
    CASE worker[w].bad = 0 -> "succeeded"
      [] worker[w].bad > 0 /\ worker[w].done > 0 -> "partial"
      [] OTHER -> "failed"

Outcome(w) ==
    CASE worker[w].bad = 0 -> "ok"
      [] worker[w].bad > 0 /\ worker[w].done > 0 -> "partial"
      [] OTHER -> "failed"

\* Only a result none of whose items took effect inherits the items' verdict.
Retryable(w) == worker[w].done = 0 /\ worker[w].bad > 0 /\ worker[w].again

Finish(w) ==
    /\ worker[w].pc = "finish"
    /\ IF Of(w).progress
         THEN WriteSnapshot(w, FinalStatus(w))
         ELSE UNCHANGED <<snapshot, faults>>
    /\ Put(w, [worker[w] EXCEPT !.pc = "answer",
                                !.warned = @ \/ faults' # faults])
    /\ UNCHANGED <<lock, requests, answers, last, store>>

Reply(w) ==
    /\ worker[w].pc = "answer"
    /\ Answer(w, Outcome(w), Retryable(w))
    /\ UNCHANGED <<snapshot, requests, faults, store>>

\* An error that ends the command, the progress snapshot included.
Fail(w, code) ==
    /\ IF Of(w).progress THEN WriteSnapshot(w, "failed")
                         ELSE UNCHANGED <<snapshot, faults>>
    /\ Answer(w, code, FALSE)

-----------------------------------------------------------------------------
(* The guard and the idempotency record. *)

\* The guard is skipped for the commands that report progress.
IncompleteTransactionStops_Bug(w) ==
    /\ Of(w).mode = "exclusive" /\ worker[w].command # "repair" /\ open > 0
    /\ ~Of(w).progress

IncompleteTransactionStops(w) ==
    Of(w).mode = "exclusive" /\ worker[w].command # "repair" /\ open > 0

Guard(w) ==
    /\ worker[w].pc = "guard"
    /\ \/ /\ IncompleteTransactionStops(w)
          /\ Fail(w, "transaction_incomplete")
       \/ /\ ~IncompleteTransactionStops(w)
          /\ Goto(w, IF worker[w].key \in Keys THEN "lookup" ELSE "operate")
          /\ UNCHANGED <<lock, snapshot, faults, answers, last>>
    /\ UNCHANGED <<requests, store>>

Replay(w) ==
    LET r == record[worker[w].key]
    IN  IF r.command # worker[w].command \/ r.input # worker[w].input
          THEN "idempotency_conflict"
        ELSE IF r.status = "completed" THEN "replay" ELSE "idempotency_incomplete"

\* A pending record taken for an attempt that never began.
Lookup_Bug(w) ==
    LET first == record[worker[w].key].status = "absent"
                 \/ Replay(w) = "idempotency_incomplete"
    IN  /\ worker[w].pc = "lookup"
        /\ \/ /\ ~first /\ Replay(w) = "replay"
              /\ Put(w, [worker[w] EXCEPT !.pc = "finish", !.done = 1,
                           !.result = record[worker[w].key].result])
              /\ UNCHANGED <<lock, answers, last, snapshot, faults>>
           \/ ~first /\ Replay(w) # "replay" /\ Fail(w, Replay(w))
           \/ /\ first
              /\ Goto(w, IF Of(w).precheck THEN "precheck" ELSE "pending")
              /\ UNCHANGED <<lock, answers, last, snapshot, faults>>
        /\ UNCHANGED <<requests, store>>

\* A retry that waits for the pending attempt to end.
Lookup_Stuck(w) ==
    LET none == record[worker[w].key].status = "absent"
    IN  /\ worker[w].pc = "lookup"
        /\ none \/ Replay(w) # "idempotency_incomplete"
        /\ \/ /\ ~none /\ Replay(w) = "replay"
              /\ Put(w, [worker[w] EXCEPT !.pc = "finish", !.done = 1,
                           !.result = record[worker[w].key].result])
              /\ UNCHANGED <<lock, answers, last, snapshot, faults>>
           \/ ~none /\ Replay(w) # "replay" /\ Fail(w, Replay(w))
           \/ /\ none
              /\ Goto(w, IF Of(w).precheck THEN "precheck" ELSE "pending")
              /\ UNCHANGED <<lock, answers, last, snapshot, faults>>
        /\ UNCHANGED <<requests, store>>

\* An existing record decides the answer before anything is prepared.
Lookup(w) ==
    /\ worker[w].pc = "lookup"
    /\ \/ /\ record[worker[w].key].status # "absent"
          /\ \/ /\ Replay(w) = "replay"
                /\ Put(w, [worker[w] EXCEPT !.pc = "finish", !.done = 1,
                             !.result = record[worker[w].key].result])
                /\ UNCHANGED <<lock, answers, last, snapshot, faults>>
             \/ /\ Replay(w) # "replay"
                /\ Fail(w, Replay(w))
       \/ /\ record[worker[w].key].status = "absent"
          /\ Goto(w, IF Of(w).precheck THEN "precheck" ELSE "pending")
          /\ UNCHANGED <<lock, answers, last, snapshot, faults>>
    /\ UNCHANGED <<requests, store>>

\* A failed preparation leaves no record.
Precheck(w) ==
    /\ worker[w].pc = "precheck"
    /\ \/ /\ Goto(w, "pending")
          /\ UNCHANGED <<lock, answers, last, snapshot, faults>>
       \/ Fail(w, "invalid_request")
    /\ UNCHANGED <<requests, store>>

WritePending(w) ==
    /\ worker[w].pc = "pending"
    /\ record' = [record EXCEPT ![worker[w].key] =
                    [status |-> "pending", command |-> worker[w].command,
                     input |-> worker[w].input, result |-> 0]]
    /\ Goto(w, "operate")
    /\ UNCHANGED <<lock, open, snapshot, serial, requests, faults, effects,
                   answers, last>>

-----------------------------------------------------------------------------
(* The operation: its own checks, then two writes for each item. *)

Items(w) == IF worker[w].key \in Keys THEN 1 ELSE Of(w).items

\* The first write of an item; a journalled operation records its transaction
\* before it.
Begin(w) ==
    /\ worker[w].pc = "operate" /\ Of(w).mode = "exclusive"
    /\ serial' = serial + 1
    /\ open' = IF worker[w].command = "repair" THEN 0
               ELSE IF Of(w).journal THEN open + 1 ELSE open
    /\ effects' = IF worker[w].key \in Keys
                    THEN [effects EXCEPT ![worker[w].key] = @ + 1] ELSE effects
    /\ Put(w, [worker[w] EXCEPT !.pc = "writing", !.result = serial'])
    /\ UNCHANGED <<lock, record, snapshot, requests, faults, answers, last>>

\* Where an item's result leads: to the next item, the record or the end.
Next1(w, fields) ==
    [fields EXCEPT !.pc =
        IF fields.done + fields.bad < Items(w) THEN "operate"
        ELSE IF fields.key \in Keys THEN "complete" ELSE "finish"]

\* The second write; the transaction record is removed.
Commit(w) ==
    /\ worker[w].pc = "writing"
    /\ open' = IF Of(w).journal THEN open - 1 ELSE open
    /\ Put(w, Next1(w, [worker[w] EXCEPT !.done = @ + 1]))
    /\ UNCHANGED <<lock, record, snapshot, serial, requests, faults, effects,
                   answers, last>>

\* A batch collects the errors of its items.
ItemRejected(w, retryable) ==
    /\ worker[w].pc = "operate" /\ Items(w) > 1
    /\ Put(w, Next1(w, [worker[w] EXCEPT !.bad = @ + 1,
                   !.again = retryable /\ (worker[w].bad = 0 \/ @)]))
    /\ UNCHANGED <<lock, snapshot, requests, faults, answers, last, store>>

\* The operation refuses its input.  With a key, its pending record stays.
OperationRejected(w) ==
    /\ worker[w].pc = "operate" /\ (Items(w) = 1 \/ Of(w).progress)
    /\ Fail(w, "operation_rejected")
    /\ UNCHANGED <<requests, store>>

\* The second write fails: the effect is half done, its records stay.  The
\* disk that refused it may refuse the final snapshot too.
OperationFails(w) ==
    /\ worker[w].pc = "writing"
    /\ Fault
    /\ \/ /\ Items(w) > 1
          /\ Put(w, Next1(w, [worker[w] EXCEPT !.bad = @ + 1, !.again = FALSE]))
          /\ UNCHANGED <<lock, snapshot, answers, last>>
       \/ /\ Items(w) = 1
          /\ snapshot' \in IF Of(w).progress
                             THEN {snapshot, [status |-> "failed", by |-> w]}
                             ELSE {snapshot}
          /\ Answer(w, "store_error", FALSE)
    /\ UNCHANGED <<requests, store>>

\* A command under a shared lock reads and answers.
Read(w) ==
    /\ worker[w].pc = "operate" /\ Of(w).mode = "shared"
    /\ Put(w, [worker[w] EXCEPT !.pc = "finish", !.done = 1])
    /\ UNCHANGED <<lock, snapshot, requests, faults, answers, last, store>>

WriteCompleted(w) ==
    /\ worker[w].pc = "complete"
    /\ \/ /\ record' = [record EXCEPT ![worker[w].key] =
                          [@ EXCEPT !.status = "completed",
                                    !.result = worker[w].result]]
          /\ Goto(w, "finish")
          /\ UNCHANGED <<lock, snapshot, faults, answers, last>>
       \/ /\ Fault
          /\ Answer(w, "store_error", FALSE)
          /\ UNCHANGED <<record, snapshot>>
    /\ UNCHANGED <<open, serial, requests, effects>>

-----------------------------------------------------------------------------
(* afmail status reads the snapshot before it tries the lock. *)

ReadSnapshot(w) ==
    /\ worker[w].pc = "status"
    /\ Put(w, [worker[w] EXCEPT !.pc = "counts", !.seen = snapshot.status])
    /\ UNCHANGED <<lock, snapshot, requests, faults, answers, last, store>>

\* With the lock taken by another command the snapshot is reported as read.
StatusWhenLocked(w) ==
    /\ worker[w].pc = "counts"
    /\ ~CanLock(w, "shared")
    /\ Put(w, Idle)
    /\ last' = [last EXCEPT ![w] = [NoAnswer EXCEPT !.code = "locked"]]
    /\ UNCHANGED <<lock, snapshot, requests, faults, answers, store>>

MarkStale(status) == IF status = "running" THEN "stale" ELSE status

\* Status marks a running snapshot stale without holding the lock.
StatusWithLock_Bug(w) ==
    /\ worker[w].pc = "counts"
    /\ lock' = [lock EXCEPT ![w] = "shared"]
    /\ Put(w, [worker[w] EXCEPT !.pc = "counting", !.seen = MarkStale(@)])
    /\ UNCHANGED <<snapshot, requests, faults, answers, last, store>>

StatusWithLock(w) ==
    /\ worker[w].pc = "counts"
    /\ CanLock(w, "shared")
    /\ lock' = [lock EXCEPT ![w] = "shared"]
    /\ Put(w, [worker[w] EXCEPT !.pc = "counting", !.seen = MarkStale(@)])
    /\ UNCHANGED <<snapshot, requests, faults, answers, last, store>>

StatusAnswer(w) ==
    /\ worker[w].pc = "counting"
    /\ Put(w, Idle)
    /\ lock' = [lock EXCEPT ![w] = "none"]
    /\ last' = [last EXCEPT ![w] = [NoAnswer EXCEPT !.code = "ok"]]
    /\ UNCHANGED <<snapshot, requests, faults, answers, store>>

-----------------------------------------------------------------------------
\* A process dies; the kernel drops the locks of its open files.  The API
\* server takes all its handlers with it.
Crash(dying) ==
    /\ \E w \in dying : worker[w].pc # "idle"
    /\ Fault
    /\ worker' = [w \in Workers |-> IF w \in dying THEN Idle ELSE worker[w]]
    /\ lock' = [w \in Workers |-> IF w \in dying THEN "none" ELSE lock[w]]
    /\ UNCHANGED <<snapshot, requests, answers, last, store>>

Step(w) ==
    \/ Acquire(w) \/ Start(w) \/ Guard(w) \/ Lookup(w) \/ Precheck(w)
    \/ WritePending(w) \/ Begin(w) \/ Commit(w) \/ Read(w)
    \/ OperationRejected(w) \/ OperationFails(w)
    \/ \E retryable \in BOOLEAN : ItemRejected(w, retryable)
    \/ WriteCompleted(w) \/ Finish(w) \/ Reply(w)
    \/ ReadSnapshot(w) \/ StatusWhenLocked(w) \/ StatusWithLock(w)
    \/ StatusAnswer(w)

Next ==
    \/ \E w \in Workers, c \in Offered, k \in Keys \cup {NoKey} :
          \/ Refuse(w, c, k)
          \/ \E i \in IF k \in Keys THEN Inputs ELSE {0} : Arrive(w, c, k, i)
    \/ \E w \in Workers : Step(w)
    \/ \E w \in Workers \ Handlers : Crash({w})
    \/ Crash(Handlers)

Spec == Init /\ [][Next]_vars

\* A worker is an operating system thread that never waits for a lock: once
\* it has a request it keeps taking its next step.
FairSpec == Spec /\ \A w \in Workers : WF_vars(Step(w))

-----------------------------------------------------------------------------
(* Properties. *)

\* Every variable has its type, and only a request with a key is ever between
\* its lookup and its completed record.
TypeOK ==
    /\ lock \in [Workers -> {"none", "shared", "exclusive"}]
    /\ \A k \in Keys :
         /\ record[k].status \in {"absent", "pending", "completed"}
         /\ record[k].status # "absent" => Command[record[k].command].keyed
    /\ open \in Nat
    /\ snapshot.status \in {"idle", "running", "succeeded", "partial", "failed"}
    /\ \A w \in Workers :
         worker[w].pc \in {"lookup", "precheck", "pending", "complete"}
            => worker[w].key \in Keys /\ lock[w] = "exclusive"
    /\ serial \in Nat /\ requests \in 0 .. MaxRequests /\ faults \in 0 .. MaxFaults

\* run_idempotent_request: whatever is retried, crashes or fails, and from
\* however many processes and handlers, the operation of a request id is begun
\* at most once, and never before its pending record is on disk.
EffectAtMostOnce ==
    \A k \in Keys : /\ effects[k] <= 1
                    /\ record[k].status = "absent" => effects[k] = 0

\* Every success a client was told for a request id carries the result of the
\* one operation that was performed, for the input it was performed with.
ReplayIsTheFirstResult ==
    \A k \in Keys :
        /\ Cardinality(answers[k]) <= 1
        /\ \A a \in answers[k] :
             record[k].status = "completed"
             /\ a = <<record[k].input, record[k].result>>

\* The shared lock of a reader, status included, keeps every writer out of the
\* middle of its operation, wherever writer and reader run.
NoReaderDuringAWrite ==
    \A v, w \in Workers :
        /\ worker[v].pc = "writing"
        /\ worker[w].pc = "counting"
           \/ (Of(w).mode = "shared" /\ worker[w].pc \in {"operate", "finish"})
        => v = w

\* A transaction record without a live owner is left only by a process that
\* died or a write that failed, and over it no operation but a repair is begun,
\* except by the batch one of whose items left it.
IncompleteMeansFault ==
    LET own == Cardinality({w \in Workers : worker[w].pc = "writing" /\ Of(w).journal})
    IN  /\ own <= open
        /\ open > own => faults > 0
        /\ open > own => \A w \in Workers :
             worker[w].pc = "writing" =>
                worker[w].command = "repair" \/ worker[w].bad > 0

\* A snapshot that says running belongs to a live command that holds the
\* workspace, unless a process died or the snapshot could not be written: every
\* early return of the command closes it.
RunningIsNotAbandoned ==
    snapshot.status = "running" /\ faults = 0 =>
        /\ lock[snapshot.by] = "exclusive"
        /\ Of(snapshot.by).progress

\* When status reports a snapshot as stale, no command that reports progress
\* has the workspace.
StaleMeansNobodyRuns ==
    \A w \in Workers :
        worker[w].pc = "counting" /\ worker[w].seen = "stale" =>
            ~\E v \in Workers : lock[v] = "exclusive" /\ Of(v).progress

\* An answer that invites the same call again comes from a call that changed
\* nothing: some items of a batch that took effect make it not retryable.
RetryableMeansNoEffect ==
    \A w \in Workers : last[w].retryable => last[w].done = 0

\* A client may repeat a request: the operation of a key is performed once,
\* every success it is told of is that one, and "retryable" is said only of
\* a call that changed nothing.
RetryIsSafe == EffectAtMostOnce /\ ReplayIsTheFirstResult /\ RetryableMeansNoEffect

\* No command sees or continues the half-done work of another.
WritesAreIsolated == NoReaderDuringAWrite /\ IncompleteMeansFault

\* What afmail status says about the running command is so.
StatusIsTruthful == RunningIsNotAbandoned /\ StaleMeansNobodyRuns

\* Every request that a worker took is answered, or its process dies: no
\* request waits for a lock, a record or another worker.
EveryRequestIsAnswered ==
    \A w \in Workers : worker[w].pc # "idle" ~> worker[w].pc = "idle"

=============================================================================
