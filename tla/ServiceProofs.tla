--------------------------- MODULE ServiceProofs ---------------------------
(* Theorems about Service: a request may be repeated, no command sees or     *)
(* continues the half-done work of another, and status tells the truth, for  *)
(* any number of processes, handlers, request ids, crashes and failed writes.*)
EXTENDS Service, FiniteSetTheorems, TLAPS

LockModes == {"none", "shared", "exclusive"}
Statuses == {"idle", "running", "succeeded", "partial", "failed"}

(* Where a worker that took the lock of its command still holds it. *)
InLock == {"start", "guard", "lookup", "precheck", "pending", "operate", "writing",
           "complete", "finish", "answer"}

(* The steps of afmail status, which takes its lock in the middle. *)
InStatus == {"status", "counts", "counting"}

Codes == {"none", "refused", "locked", "ok", "partial", "failed", "workspace_locked",
          "transaction_incomplete", "idempotency_conflict", "idempotency_incomplete",
          "invalid_request", "operation_rejected", "store_error"}

Records == [status : {"absent", "pending", "completed"}, command : DOMAIN Command,
            input : Inputs \cup {0}, result : Nat]

States == [pc : {"idle", "arrived"} \cup InStatus \cup InLock,
           command : DOMAIN Command, key : Keys \cup {NoKey}, input : Inputs \cup {0},
           seen : Statuses \cup {"stale"}, result : Nat, done : Nat, bad : Nat,
           again : BOOLEAN, warned : BOOLEAN]

ServiceType ==
    /\ lock \in [Workers -> LockModes]
    /\ record \in [Keys -> Records]
    /\ open \in Nat
    /\ snapshot \in [status : Statuses, by : Workers \cup {"nobody"}]
    /\ worker \in [Workers -> States]
    /\ serial \in Nat /\ requests \in 0 .. MaxRequests /\ faults \in 0 .. MaxFaults
    /\ effects \in [Keys -> Nat]
    /\ answers \in [Keys -> SUBSET ((Inputs \cup {0}) \X Nat)]
    /\ last \in [Workers -> [code : Codes, done : Nat, retryable : BOOLEAN]]

(* The lock each program point holds. *)
LockHeld(w) ==
    lock[w] = IF worker[w].pc \in InLock THEN Of(w).mode
              ELSE IF worker[w].pc = "counting" THEN "shared" ELSE "none"

(* Which program points a command and a key can reach. *)
Shape(w) ==
    /\ worker[w].pc \in InStatus => worker[w].command = "status"
    /\ worker[w].pc \in {"lookup", "precheck", "pending", "complete"} => worker[w].key \in Keys
    /\ worker[w].key \in Keys => Of(w).keyed
    /\ worker[w].pc = "writing" => Of(w).mode = "exclusive"
    /\ worker[w].pc = "arrived" => worker[w].done = 0
    /\ worker[w].pc = "start" => Of(w).progress

(* flock: an exclusive lock is held alone. *)
Exclusion ==
    \A v, w \in Workers : v # w /\ lock[v] = "exclusive" => lock[w] = "none"

LockInv == Exclusion /\ \A w \in Workers : LockHeld(w) /\ Shape(w)

(* What the record of its key says at each program point of a worker. *)
OwnRecord(w) ==
    LET r == record[worker[w].key]
    IN  worker[w].key \in Keys =>
          /\ worker[w].pc \in {"precheck", "pending"} => r.status = "absent"
          /\ worker[w].pc \in {"operate", "writing", "complete"} =>
               r.status = "pending" /\ r.input = worker[w].input
          /\ worker[w].pc = "operate" => effects[worker[w].key] = 0
          /\ worker[w].pc \in {"finish", "answer"} =>
               /\ r.status = "completed" /\ r.input = worker[w].input
               /\ r.result = worker[w].result

(* What is known of a key whoever uses it. *)
KeyIsSafe(k) ==
    /\ effects[k] <= 1
    /\ record[k].status = "absent" => effects[k] = 0
    /\ \A a \in answers[k] :
         record[k].status = "completed" /\ a = <<record[k].input, record[k].result>>

RequestInv ==
    /\ \A w \in Workers : OwnRecord(w)
    /\ \A k \in Keys : KeyIsSafe(k)
    /\ RetryableMeansNoEffect

Journalling(w) == worker[w].pc = "writing" /\ Of(w).journal

(* Past its guard a writer finds no transaction but its own, unless one of   *)
(* its own items left it.                                                    *)
OnlyItsOwn(w) ==
    /\ Journalling(w) => open > 0
    /\ worker[w].pc \in {"lookup", "precheck", "pending", "operate", "writing"}
         /\ Of(w).mode = "exclusive" /\ worker[w].command # "repair" /\ worker[w].bad = 0
       => open = IF Journalling(w) THEN 1 ELSE 0

TransactionInv ==
    /\ \A w \in Workers : OnlyItsOwn(w)
    /\ faults = 0 => open = IF \E w \in Workers : Journalling(w) THEN 1 ELSE 0

(* A running snapshot has a live owner that will close it. *)
SnapshotInv ==
    snapshot.status = "running" /\ faults = 0 =>
        /\ snapshot.by \in Workers
        /\ worker[snapshot.by].pc \in {"guard", "operate", "writing", "finish"}
        /\ Of(snapshot.by).progress

ServiceInv == ServiceType /\ LockInv /\ RequestInv /\ TransactionInv /\ SnapshotInv
-----------------------------------------------------------------------------
(* The operators the model is built from. *)

(* What the table of commands says, command by command. *)
CommandIsSound(r) ==
    /\ r.mode \in {"shared", "exclusive"}
    /\ r.progress \in BOOLEAN /\ r.keyed \in BOOLEAN
    /\ r.journal \in BOOLEAN /\ r.precheck \in BOOLEAN
    /\ r.items \in {1, 2}
    /\ r.keyed => r.mode = "exclusive" /\ ~r.progress
    /\ r.progress => r.mode = "exclusive" /\ ~r.journal

LEMMA CommandFacts ==
  /\ {"show", "status", "repair"} \subseteq DOMAIN Command
  /\ Command["show"] = ReadCommand /\ Command["status"] = ReadCommand
  /\ Command["repair"].mode = "exclusive" /\ ~Command["repair"].journal
  /\ \A c \in DOMAIN Command : CommandIsSound(Command[c])
<1>1. CommandIsSound(ReadCommand) /\ CommandIsSound(CaseCreateCommand)
  BY DEF CommandIsSound, ReadCommand, CaseCreateCommand
<1>2. CommandIsSound(CaseCommand) /\ CommandIsSound(NotificationCommand)
  BY DEF CommandIsSound, CaseCreateCommand, CaseCommand, NotificationCommand
<1>3. CommandIsSound(DraftCommand) /\ CommandIsSound(ContactCommand)
      /\ CommandIsSound(SuggestionCommand) /\ CommandIsSound(DispositionCommand)
  BY DEF CommandIsSound, CaseCreateCommand, CaseCommand, DraftCommand, ContactCommand,
         SuggestionCommand, DispositionCommand
<1>4. CommandIsSound(SyncCommand)
  BY DEF CommandIsSound, SyncCommand
<1>5. CommandIsSound(RepairCommand) /\ RepairCommand.mode = "exclusive"
      /\ ~RepairCommand.journal
  BY DEF CommandIsSound, SyncCommand, RepairCommand
<1>6. QED  BY <1>1, <1>2, <1>3, <1>4, <1>5 DEF Command

LEMMA IdleFacts ==
  /\ Idle \in States
  /\ Idle.pc = "idle" /\ Idle.key = NoKey /\ Idle.command = "show"
  /\ Idle.done = 0 /\ Idle.bad = 0
BY CommandFacts DEF Idle, States, Statuses, InStatus, InLock

(* What the answer of a worker leaves behind. *)
LEMMA AnswerFacts ==
  ASSUME ServiceType, NEW w \in Workers, NEW code \in Codes, NEW retryable \in BOOLEAN,
         Answer(w, code, retryable)
  PROVE  /\ last' = [last EXCEPT ![w] = last'[w]]
         /\ last'[w] \in [code : Codes, done : Nat, retryable : BOOLEAN]
         /\ last'[w].done = worker[w].done /\ last'[w].retryable = retryable
         /\ lock' = [lock EXCEPT ![w] = "none"]
         /\ worker' = [worker EXCEPT ![w] = Idle]
         /\ answers' \in [Keys -> SUBSET ((Inputs \cup {0}) \X Nat)]
         /\ \A k \in Keys : \A a \in answers'[k] :
              \/ a \in answers[k]
              \/ /\ k = worker[w].key /\ code = "ok"
                 /\ a = <<worker[w].input, worker[w].result>>
<1> USE DEF ServiceType
<1> DEFINE told == IF code = "ok" /\ worker[w].warned THEN "partial" ELSE code
<1>1. worker[w] \in States  OBVIOUS
<1>2. told \in Codes  BY DEF Codes
<1>3. last' = [last EXCEPT ![w] = [code |-> told, done |-> worker[w].done,
                                   retryable |-> retryable]]
  BY DEF Answer
<1>4. /\ last' = [last EXCEPT ![w] = last'[w]]
      /\ last'[w] \in [code : Codes, done : Nat, retryable : BOOLEAN]
      /\ last'[w].done = worker[w].done /\ last'[w].retryable = retryable
  <2>1. last'[w] = [code |-> told, done |-> worker[w].done, retryable |-> retryable]
    BY <1>3
  <2>2. worker[w].done \in Nat  BY <1>1 DEF States
  <2>3. QED  BY <1>2, <1>3, <2>1, <2>2
<1>5. lock' = [lock EXCEPT ![w] = "none"] /\ worker' = [worker EXCEPT ![w] = Idle]
  BY DEF Answer, Put
<1>6. /\ answers' \in [Keys -> SUBSET ((Inputs \cup {0}) \X Nat)]
      /\ \A k \in Keys : \A a \in answers'[k] :
           \/ a \in answers[k]
           \/ /\ k = worker[w].key /\ code = "ok"
              /\ a = <<worker[w].input, worker[w].result>>
  <2>1. CASE told = "ok" /\ worker[w].key \in Keys
    <3>1. answers' = [answers EXCEPT ![worker[w].key] =
                        @ \cup {<<worker[w].input, worker[w].result>>}]
      BY <2>1 DEF Answer
    <3>2. worker[w].input \in Inputs \cup {0} /\ worker[w].result \in Nat
      BY <1>1 DEF States
    <3>3. code = "ok"  BY <2>1
    <3>4. QED  BY <2>1, <3>1, <3>2, <3>3
  <2>2. CASE ~(told = "ok" /\ worker[w].key \in Keys)
    BY <2>2 DEF Answer
  <2>3. QED  BY <2>1, <2>2
<1>7. QED  BY <1>4, <1>5, <1>6

(* A snapshot is written or, with a fault, left as it was. *)
LEMMA SnapshotFacts ==
  ASSUME ServiceType, NEW w \in Workers, NEW status \in Statuses, WriteSnapshot(w, status)
  PROVE  /\ snapshot' \in [status : Statuses, by : Workers \cup {"nobody"}]
         /\ faults' \in 0 .. MaxFaults /\ faults' >= faults
         /\ faults' = faults => snapshot'.status = status /\ snapshot'.by = w
         /\ faults' # faults => faults' > 0
<1>1. CASE snapshot' = [status |-> status, by |-> w] /\ UNCHANGED faults
  BY <1>1 DEF ServiceType
<1>2. CASE Fault /\ UNCHANGED snapshot
  BY <1>2, ServiceAssumption DEF ServiceType, Fault
<1>3. QED  BY <1>1, <1>2 DEF WriteSnapshot

LEMMA FailFacts ==
  ASSUME ServiceType, NEW w \in Workers, NEW code \in Codes, Fail(w, code)
  PROVE  /\ snapshot' \in [status : Statuses, by : Workers \cup {"nobody"}]
         /\ faults' \in 0 .. MaxFaults /\ faults' >= faults
         /\ faults' # faults => faults' > 0
         /\ Of(w).progress /\ faults' = faults => snapshot'.status = "failed"
         /\ ~Of(w).progress => UNCHANGED snapshot
         /\ Answer(w, code, FALSE)
<1>1. CASE Of(w).progress
  <2>1. WriteSnapshot(w, "failed") /\ Answer(w, code, FALSE)
    BY <1>1 DEF Fail
  <2>2. "failed" \in Statuses  BY DEF Statuses
  <2>3. QED  BY <1>1, <2>1, <2>2, SnapshotFacts
<1>2. CASE ~Of(w).progress
  <2>1. UNCHANGED <<snapshot, faults>> /\ Answer(w, code, FALSE)
    BY <1>2 DEF Fail
  <2>2. /\ snapshot' \in [status : Statuses, by : Workers \cup {"nobody"}]
        /\ faults' \in 0 .. MaxFaults /\ faults' >= faults /\ faults' = faults
    BY <2>1, ServiceAssumption DEF ServiceType
  <2>3. QED  BY <1>2, <2>1, <2>2
<1>3. QED  BY <1>1, <1>2

LEMMA ReplayFacts ==
  ASSUME NEW w \in Workers
  PROVE  /\ Replay(w) \in Codes \cup {"replay"}
         /\ Replay(w) # "ok"
         /\ Replay(w) = "replay" =>
              /\ record[worker[w].key].status = "completed"
              /\ record[worker[w].key].input = worker[w].input
BY DEF Replay, Codes

LEMMA OutcomeFacts ==
  ASSUME NEW w \in Workers, ServiceType
  PROVE  /\ Outcome(w) \in Codes
         /\ FinalStatus(w) \in Statuses /\ FinalStatus(w) # "running"
         /\ Retryable(w) \in BOOLEAN
         /\ Retryable(w) => worker[w].done = 0
<1>1. worker[w] \in States  BY DEF ServiceType
<1>2. worker[w].bad \in Nat /\ worker[w].done \in Nat /\ worker[w].again \in BOOLEAN
  BY <1>1 DEF States
<1>3. worker[w].bad = 0 \/ worker[w].bad > 0  BY <1>2
<1>4. Outcome(w) \in Codes
  BY <1>3 DEF Outcome, Codes
<1>5. FinalStatus(w) \in Statuses /\ FinalStatus(w) # "running"
  BY <1>3 DEF FinalStatus, Statuses
<1>6. QED  BY <1>2, <1>4, <1>5 DEF Retryable

(* Where the result of an item leads. *)
LEMMA Next1Facts ==
  ASSUME NEW w \in Workers, NEW fields \in States
  PROVE  /\ Next1(w, fields) \in States
         /\ Next1(w, fields).pc \in {"operate", "complete", "finish"}
         /\ Next1(w, fields).pc = "complete" => fields.key \in Keys
         /\ Next1(w, fields).pc = "finish" => fields.key \notin Keys
         /\ Next1(w, fields).pc = "operate" => fields.done + fields.bad < Items(w)
         /\ Next1(w, fields).command = fields.command
         /\ Next1(w, fields).key = fields.key
         /\ Next1(w, fields).input = fields.input
         /\ Next1(w, fields).result = fields.result
         /\ Next1(w, fields).done = fields.done
         /\ Next1(w, fields).bad = fields.bad
<1> DEFINE pc == IF fields.done + fields.bad < Items(w) THEN "operate"
                 ELSE IF fields.key \in Keys THEN "complete" ELSE "finish"
<1>1. Next1(w, fields) = [fields EXCEPT !.pc = pc]
  BY DEF Next1
<1>2. /\ pc \in {"operate", "complete", "finish"}
      /\ pc = "complete" => fields.key \in Keys
      /\ pc = "finish" => fields.key \notin Keys
      /\ pc = "operate" => fields.done + fields.bad < Items(w)
  OBVIOUS
<1> HIDE DEF pc
<1>3. QED  BY <1>1, <1>2 DEF States, InLock, InStatus

LEMMA ItemsFacts ==
  ASSUME NEW w \in Workers, ServiceType
  PROVE  /\ Items(w) \in {1, 2}
         /\ worker[w].key \in Keys => Items(w) = 1
         /\ CommandIsSound(Of(w))
<1>1. worker[w].command \in DOMAIN Command
  BY DEF ServiceType, States
<1>2. CommandIsSound(Of(w))  BY <1>1, CommandFacts DEF Of
<1>3. QED  BY <1>2 DEF Items, CommandIsSound

-----------------------------------------------------------------------------
(* Type correctness. *)

Pcs == {"idle", "arrived"} \cup InStatus \cup InLock

LEMMA ServiceTypeInit == Init => ServiceType
<1> SUFFICES ASSUME Init PROVE ServiceType  OBVIOUS
<1>1. NoRecord \in Records
  BY CommandFacts DEF NoRecord, Records
<1>2. NoAnswer \in [code : Codes, done : Nat, retryable : BOOLEAN]
  BY DEF NoAnswer, Codes
<1>3. [status |-> "idle", by |-> "nobody"] \in [status : Statuses, by : Workers \cup {"nobody"}]
  BY DEF Statuses
<1>4. QED  BY <1>1, <1>2, <1>3, IdleFacts, ServiceAssumption DEF Init, ServiceType, LockModes

(* A worker moves to another program point. *)
LEMMA GotoFacts ==
  ASSUME ServiceType, NEW w \in Workers, NEW pc \in Pcs, Goto(w, pc)
  PROVE  /\ worker' = [worker EXCEPT ![w] = [worker[w] EXCEPT !.pc = pc]]
         /\ [worker[w] EXCEPT !.pc = pc] \in States
<1>1. worker' = [worker EXCEPT ![w] = [worker[w] EXCEPT !.pc = pc]]
  BY DEF Goto, Put
<1>2. worker[w] \in States  BY DEF ServiceType
<1>3. [worker[w] EXCEPT !.pc = pc] \in States
  BY <1>2 DEF States, Pcs
<1>4. QED  BY <1>1, <1>3

LEMMA GotoFields ==
  ASSUME ServiceType, NEW w \in Workers, NEW pc, Goto(w, pc)
  PROVE  /\ worker'[w].pc = pc /\ worker'[w].key = worker[w].key
         /\ worker'[w].command = worker[w].command /\ worker'[w].input = worker[w].input
         /\ worker'[w].result = worker[w].result /\ worker'[w].done = worker[w].done
         /\ worker'[w].bad = worker[w].bad
<1>1. worker[w] \in States  BY DEF ServiceType
<1>2. worker'[w] = [worker[w] EXCEPT !.pc = pc]
  BY DEF Goto, Put, ServiceType
<1>3. QED  BY <1>1, <1>2 DEF States

(* Answer and Fail keep every type. *)
LEMMA AnswerType ==
  ASSUME ServiceType, NEW w \in Workers, NEW code \in Codes, NEW retryable \in BOOLEAN,
         Answer(w, code, retryable),
         snapshot' \in [status : Statuses, by : Workers \cup {"nobody"}],
         faults' \in 0 .. MaxFaults, UNCHANGED <<requests, store>>
  PROVE  ServiceType'
<1>1. /\ last' = [last EXCEPT ![w] = last'[w]]
      /\ last'[w] \in [code : Codes, done : Nat, retryable : BOOLEAN]
      /\ lock' = [lock EXCEPT ![w] = "none"]
      /\ worker' = [worker EXCEPT ![w] = Idle]
      /\ answers' \in [Keys -> SUBSET ((Inputs \cup {0}) \X Nat)]
  BY AnswerFacts
<1>2. lock' \in [Workers -> LockModes]
  BY <1>1 DEF ServiceType, LockModes
<1>3. last' \in [Workers -> [code : Codes, done : Nat, retryable : BOOLEAN]]
  BY <1>1 DEF ServiceType
<1>4. worker' \in [Workers -> States]
  BY <1>1, IdleFacts DEF ServiceType
<1>5. QED  BY <1>1, <1>2, <1>3, <1>4 DEF ServiceType, store

LEMMA FailType ==
  ASSUME ServiceType, NEW w \in Workers, NEW code \in Codes, Fail(w, code),
         UNCHANGED <<requests, store>>
  PROVE  ServiceType'
BY FailFacts, AnswerType

(* A step that only moves the worker. *)
LEMMA MoveType ==
  ASSUME ServiceType, NEW w \in Workers, NEW fields \in States,
         worker' = [worker EXCEPT ![w] = fields],
         UNCHANGED <<lock, snapshot, requests, answers, last, store>>,
         faults' \in 0 .. MaxFaults
  PROVE  ServiceType'
BY DEF ServiceType, store

LEMMA ArriveType ==
  ASSUME ServiceType, NEW w \in Workers, NEW c \in Offered, NEW k \in Keys \cup {NoKey},
         NEW i \in Inputs \cup {0}, Arrive(w, c, k, i)
  PROVE  ServiceType'
<1> DEFINE fields == [Idle EXCEPT !.pc = IF c = "status" THEN "status" ELSE "arrived",
                        !.command = c, !.key = k, !.input = i]
<1>1. c \in DOMAIN Command  BY OfferedAssumption
<1>2. fields \in States
  <2> DEFINE p == IF c = "status" THEN "status" ELSE "arrived"
  <2>1. p \in Pcs  BY DEF InStatus, Pcs
  <2> HIDE DEF p
  <2>2. [Idle EXCEPT !.pc = p, !.command = c] \in States
    BY <1>1, <2>1, IdleFacts DEF States, Pcs
  <2>3. [Idle EXCEPT !.pc = p, !.command = c, !.key = k, !.input = i]
           = [[Idle EXCEPT !.pc = p, !.command = c] EXCEPT !.key = k, !.input = i]
    OBVIOUS
  <2>4. [[Idle EXCEPT !.pc = p, !.command = c] EXCEPT !.key = k, !.input = i] \in States
    BY <2>2 DEF States
  <2>5. QED  BY <2>3, <2>4 DEF p
<1>3. worker' = [worker EXCEPT ![w] = fields]
  BY DEF Arrive, Put
<1>4. worker' \in [Workers -> States]
  BY <1>2, <1>3 DEF ServiceType
<1>5. requests' \in 0 .. MaxRequests
  BY ServiceAssumption DEF Arrive, ServiceType
<1>6. last' \in [Workers -> [code : Codes, done : Nat, retryable : BOOLEAN]]
  BY DEF Arrive, NoAnswer, Codes, ServiceType
<1>7. QED  BY <1>4, <1>5, <1>6 DEF Arrive, ServiceType, store

LEMMA RefuseType ==
  ASSUME ServiceType, NEW w \in Workers, NEW c, NEW k, Refuse(w, c, k)
  PROVE  ServiceType'
<1>1. requests' \in 0 .. MaxRequests
  BY ServiceAssumption DEF Refuse, ServiceType
<1>2. last' \in [Workers -> [code : Codes, done : Nat, retryable : BOOLEAN]]
  BY DEF Refuse, NoAnswer, Codes, ServiceType
<1>3. QED  BY <1>1, <1>2 DEF Refuse, ServiceType, store

LEMMA CrashType ==
  ASSUME ServiceType, NEW dying, Crash(dying)
  PROVE  ServiceType'
<1>1. worker' \in [Workers -> States]
  BY IdleFacts DEF Crash, ServiceType
<1>2. lock' \in [Workers -> LockModes]
  BY DEF Crash, ServiceType, LockModes
<1>3. faults' \in 0 .. MaxFaults
  BY ServiceAssumption DEF Crash, Fault, ServiceType
<1>4. QED  BY <1>1, <1>2, <1>3 DEF Crash, ServiceType, store

LEMMA StepType ==
  ASSUME ServiceType, NEW w \in Workers, Shape(w), OnlyItsOwn(w), Step(w)
  PROVE  ServiceType'
<1>0. worker[w] \in States /\ faults \in 0 .. MaxFaults
  BY DEF ServiceType
<1>1. CASE Acquire(w)
  <2>1. CASE CanLock(w, Of(w).mode)
    <3>1. /\ lock' = [lock EXCEPT ![w] = Of(w).mode]
          /\ Goto(w, IF Of(w).progress THEN "start" ELSE "guard")
          /\ UNCHANGED <<answers, last, snapshot, requests, faults, store>>
      BY <1>1, <2>1 DEF Acquire
    <3>2. lock' \in [Workers -> LockModes]
      BY <3>1, ItemsFacts DEF ServiceType, LockModes, CommandIsSound
    <3>3. worker' \in [Workers -> States]
      BY <3>1, GotoFacts DEF Pcs, InLock, ServiceType
    <3>4. QED  BY <3>1, <3>2, <3>3 DEF ServiceType, store
  <2>2. CASE ~CanLock(w, Of(w).mode)
    <3>1. Answer(w, "workspace_locked", TRUE) /\ UNCHANGED <<snapshot, requests, faults, store>>
      BY <1>1, <2>2 DEF Acquire
    <3>2. "workspace_locked" \in Codes  BY DEF Codes
    <3>3. QED  BY <3>1, <3>2, AnswerType DEF ServiceType
  <2>3. QED  BY <2>1, <2>2
<1>2. CASE Start(w)
  <2>1. WriteSnapshot(w, "running") /\ "running" \in Statuses
    BY <1>2 DEF Start, Statuses
  <2>2. /\ snapshot' \in [status : Statuses, by : Workers \cup {"nobody"}]
        /\ faults' \in 0 .. MaxFaults
    BY <2>1, SnapshotFacts
  <2> DEFINE fields == [worker[w] EXCEPT !.pc = "guard", !.warned = @ \/ faults' # faults]
  <2>3. fields \in States
    <3>1. "guard" \in InLock  BY DEF InLock
    <3>2. QED  BY <1>0, <3>1 DEF States
  <2>4. worker' = [worker EXCEPT ![w] = fields]
    BY <1>2 DEF Start, Put
  <2>5. worker' \in [Workers -> States]
    BY <2>3, <2>4 DEF ServiceType
  <2>6. QED  BY <1>2, <2>2, <2>5 DEF Start, ServiceType, store
<1>3. CASE Guard(w)
  <2>1. CASE Fail(w, "transaction_incomplete") /\ UNCHANGED <<requests, store>>
    BY <2>1, FailType DEF Codes
  <2>2. CASE /\ Goto(w, IF worker[w].key \in Keys THEN "lookup" ELSE "operate")
             /\ UNCHANGED <<lock, snapshot, faults, answers, last, requests, store>>
    BY <1>0, <2>2, GotoFacts, MoveType DEF Pcs, InLock
  <2>3. QED  BY <1>3, <2>1, <2>2 DEF Guard
<1>4. CASE Lookup(w)
  <2>1. CASE /\ Put(w, [worker[w] EXCEPT !.pc = "finish", !.done = 1,
                             !.result = record[worker[w].key].result])
             /\ Replay(w) = "replay" /\ record[worker[w].key].status # "absent"
             /\ UNCHANGED <<lock, answers, last, snapshot, faults, requests, store>>
    <3>1. worker[w].key \in Keys
      BY <1>4 DEF Lookup, Shape
    <3>2. record[worker[w].key].result \in Nat
      BY <3>1 DEF ServiceType, Records
    <3>3. [worker[w] EXCEPT !.pc = "finish", !.done = 1,
             !.result = record[worker[w].key].result] \in States
      BY <1>0, <3>2 DEF States, InLock
    <3>4. QED  BY <1>0, <2>1, <3>3, MoveType DEF Put
  <2>2. CASE Replay(w) # "replay" /\ Fail(w, Replay(w)) /\ UNCHANGED <<requests, store>>
    BY <2>2, FailType, ReplayFacts
  <2>3. CASE /\ Goto(w, IF Of(w).precheck THEN "precheck" ELSE "pending")
             /\ UNCHANGED <<lock, answers, last, snapshot, faults, requests, store>>
    BY <1>0, <2>3, GotoFacts, MoveType DEF Pcs, InLock
  <2>4. QED  BY <1>4, <2>1, <2>2, <2>3 DEF Lookup
<1>5. CASE Precheck(w)
  <2>1. CASE /\ Goto(w, "pending")
             /\ UNCHANGED <<lock, answers, last, snapshot, faults, requests, store>>
    BY <1>0, <2>1, GotoFacts, MoveType DEF Pcs, InLock
  <2>2. CASE Fail(w, "invalid_request") /\ UNCHANGED <<requests, store>>
    BY <2>2, FailType DEF Codes
  <2>3. QED  BY <1>5, <2>1, <2>2 DEF Precheck
<1>6. CASE WritePending(w)
  <2>1. worker' \in [Workers -> States]
    BY <1>6, GotoFacts DEF WritePending, Pcs, InLock, ServiceType
  <2>2. [status |-> "pending", command |-> worker[w].command,
         input |-> worker[w].input, result |-> 0] \in Records
    BY <1>0 DEF States, Records
  <2>3. record' \in [Keys -> Records]
    BY <1>6, <2>2 DEF WritePending, ServiceType
  <2>4. QED  BY <1>6, <2>1, <2>3 DEF WritePending, ServiceType
<1>7. CASE Begin(w)
  <2>1. serial' \in Nat  BY <1>7 DEF Begin, ServiceType
  <2>2. [worker[w] EXCEPT !.pc = "writing", !.result = serial'] \in States
    BY <1>0, <2>1 DEF States, InLock
  <2>3. worker' \in [Workers -> States]
    BY <1>7, <2>2 DEF Begin, Put, ServiceType
  <2>4. open' \in Nat  BY <1>7 DEF Begin, ServiceType
  <2>5. effects' \in [Keys -> Nat]  BY <1>7 DEF Begin, ServiceType
  <2>6. QED  BY <1>7, <2>1, <2>3, <2>4, <2>5 DEF Begin, ServiceType
<1>8. CASE Commit(w)
  <2> DEFINE fields == [worker[w] EXCEPT !.done = @ + 1]
  <2>1. fields \in States  BY <1>0 DEF States
  <2>2. worker' = [worker EXCEPT ![w] = Next1(w, fields)]
    BY <1>8 DEF Commit, Put
  <2>3. worker' \in [Workers -> States]
    BY <2>1, <2>2, Next1Facts DEF ServiceType
  <2>4. open' \in Nat
    BY <1>8 DEF Commit, ServiceType, OnlyItsOwn, Journalling
  <2>5. QED  BY <1>8, <2>3, <2>4 DEF Commit, ServiceType
<1>9. CASE Read(w)
  <2>1. [worker[w] EXCEPT !.pc = "finish", !.done = 1] \in States
    BY <1>0 DEF States, InLock
  <2>2. QED  BY <1>0, <1>9, <2>1, MoveType DEF Read, Put
<1>10. CASE OperationRejected(w)
  BY <1>10, FailType DEF OperationRejected, Codes
<1>11. CASE OperationFails(w)
  <2>1. faults' \in 0 .. MaxFaults
    BY <1>11, ServiceAssumption DEF OperationFails, Fault, ServiceType
  <2>2. CASE /\ Put(w, Next1(w, [worker[w] EXCEPT !.bad = @ + 1, !.again = FALSE]))
             /\ UNCHANGED <<lock, snapshot, answers, last, requests, store>>
    <3>0. worker[w].bad + 1 \in Nat  BY <1>0 DEF States
    <3>1. [worker[w] EXCEPT !.bad = @ + 1, !.again = FALSE] \in States
      BY <1>0, <3>0, Zenon DEF States
    <3>2. QED  BY <2>1, <2>2, <3>1, Next1Facts, MoveType DEF Put
  <2>3. CASE /\ snapshot' \in IF Of(w).progress
                                THEN {snapshot, [status |-> "failed", by |-> w]}
                                ELSE {snapshot}
             /\ Answer(w, "store_error", FALSE)
             /\ UNCHANGED <<requests, store>>
    <3>1. snapshot' \in [status : Statuses, by : Workers \cup {"nobody"}]
      BY <2>3 DEF ServiceType, Statuses
    <3>2. QED  BY <2>1, <2>3, <3>1, AnswerType DEF Codes
  <2>4. QED  BY <1>11, <2>2, <2>3 DEF OperationFails
<1>12. CASE \E retryable \in BOOLEAN : ItemRejected(w, retryable)
  <2>1. PICK retryable \in BOOLEAN : ItemRejected(w, retryable)
    BY <1>12
  <2> DEFINE fields == [worker[w] EXCEPT !.bad = @ + 1,
                          !.again = retryable /\ (worker[w].bad = 0 \/ @)]
  <2>0. worker[w].bad + 1 \in Nat  BY <1>0 DEF States
  <2>2. fields \in States  BY <1>0, <2>0, Zenon DEF States
  <2>3. worker' = [worker EXCEPT ![w] = Next1(w, fields)]
    BY <2>1 DEF ItemRejected, Put
  <2>4. Next1(w, fields) \in States  BY <2>2, Next1Facts
  <2>5. UNCHANGED <<lock, snapshot, requests, faults, answers, last, store>>
    BY <2>1 DEF ItemRejected
  <2> HIDE DEF fields
  <2>6. QED  BY <1>0, <2>3, <2>4, <2>5, MoveType
<1>13. CASE WriteCompleted(w)
  <2>1. CASE /\ record' = [record EXCEPT ![worker[w].key] =
                              [@ EXCEPT !.status = "completed", !.result = worker[w].result]]
             /\ Goto(w, "finish")
             /\ UNCHANGED <<lock, snapshot, faults, answers, last>>
    <3>1. worker' \in [Workers -> States]
      BY <2>1, GotoFacts DEF Pcs, InLock, ServiceType
    <3>2. worker[w].key \in Keys  BY <1>13 DEF WriteCompleted, Shape
    <3>3. worker[w].result \in Nat  BY <1>0 DEF States
    <3>4. [record[worker[w].key] EXCEPT !.status = "completed", !.result = worker[w].result]
             \in Records
      <4>1. record[worker[w].key] \in Records  BY <3>2 DEF ServiceType
      <4>2. QED  BY <3>3, <4>1 DEF Records
    <3>5. record' \in [Keys -> Records]
      BY <2>1, <3>4 DEF ServiceType
    <3>6. QED  BY <1>13, <2>1, <3>1, <3>5 DEF WriteCompleted, ServiceType
  <2>2. CASE Fault /\ Answer(w, "store_error", FALSE) /\ UNCHANGED <<record, snapshot>>
    <3>1. faults' \in 0 .. MaxFaults
      BY <2>2, ServiceAssumption DEF Fault, ServiceType
    <3>2. snapshot' \in [status : Statuses, by : Workers \cup {"nobody"}]
      BY <2>2 DEF ServiceType
    <3>3. UNCHANGED <<requests, store>>
      BY <1>13, <2>2 DEF WriteCompleted, store
    <3>4. QED  BY <2>2, <3>1, <3>2, <3>3, AnswerType DEF Codes
  <2>3. QED  BY <1>13, <2>1, <2>2 DEF WriteCompleted
<1>14. CASE Finish(w)
  <2>1. /\ snapshot' \in [status : Statuses, by : Workers \cup {"nobody"}]
        /\ faults' \in 0 .. MaxFaults
    <3>1. CASE Of(w).progress
      BY <1>14, <3>1, OutcomeFacts, SnapshotFacts DEF Finish
    <3>2. CASE ~Of(w).progress
      BY <1>14, <3>2 DEF Finish, ServiceType
    <3>3. QED  BY <3>1, <3>2
  <2> DEFINE fields == [worker[w] EXCEPT !.pc = "answer", !.warned = @ \/ faults' # faults]
  <2>2. fields \in States
    <3>1. "answer" \in InLock  BY DEF InLock
    <3>2. QED  BY <1>0, <3>1 DEF States
  <2>3. worker' = [worker EXCEPT ![w] = fields]
    BY <1>14 DEF Finish, Put
  <2>4. worker' \in [Workers -> States]
    BY <2>2, <2>3 DEF ServiceType
  <2>5. QED  BY <1>14, <2>1, <2>4 DEF Finish, ServiceType, store
<1>15. CASE Reply(w)
  <2>1. Answer(w, Outcome(w), Retryable(w)) /\ UNCHANGED <<snapshot, requests, faults, store>>
    BY <1>15 DEF Reply
  <2>2. snapshot' \in [status : Statuses, by : Workers \cup {"nobody"}]
        /\ faults' \in 0 .. MaxFaults
    BY <2>1 DEF ServiceType
  <2>3. QED  BY <2>1, <2>2, OutcomeFacts, AnswerType
<1>16. CASE ReadSnapshot(w)
  <2>1. snapshot.status \in Statuses  BY DEF ServiceType
  <2>2. [worker[w] EXCEPT !.pc = "counts", !.seen = snapshot.status] \in States
    BY <1>0, <2>1 DEF States, InStatus
  <2>3. QED  BY <1>0, <1>16, <2>2, MoveType DEF ReadSnapshot, Put
<1>17. CASE StatusWhenLocked(w) \/ StatusAnswer(w)
  <2>1. worker' \in [Workers -> States]
    BY <1>17, IdleFacts DEF StatusWhenLocked, StatusAnswer, Put, ServiceType
  <2>2. lock' \in [Workers -> LockModes]
    BY <1>17 DEF StatusWhenLocked, StatusAnswer, ServiceType, LockModes
  <2>3. last' \in [Workers -> [code : Codes, done : Nat, retryable : BOOLEAN]]
    <3>1. \A c \in Codes : [NoAnswer EXCEPT !.code = c]
                             \in [code : Codes, done : Nat, retryable : BOOLEAN]
      BY DEF NoAnswer, Codes
    <3>2. {"locked", "ok"} \subseteq Codes  BY DEF Codes
    <3>3. QED  BY <1>17, <3>1, <3>2 DEF StatusWhenLocked, StatusAnswer, ServiceType
  <2>4. QED  BY <1>17, <2>1, <2>2, <2>3 DEF StatusWhenLocked, StatusAnswer, ServiceType, store
<1>18. CASE StatusWithLock(w)
  <2>1. MarkStale(worker[w].seen) \in Statuses \cup {"stale"}
    BY <1>0 DEF MarkStale, States
  <2>2. [worker[w] EXCEPT !.pc = "counting", !.seen = MarkStale(@)] \in States
    BY <1>0, <2>1 DEF States, InStatus
  <2>3. worker' \in [Workers -> States]
    BY <1>18, <2>2 DEF StatusWithLock, Put, ServiceType
  <2>4. lock' \in [Workers -> LockModes]
    BY <1>18 DEF StatusWithLock, ServiceType, LockModes
  <2>5. QED  BY <1>18, <2>3, <2>4 DEF StatusWithLock, ServiceType, store
<1>19. QED
  BY <1>1, <1>2, <1>3, <1>4, <1>5, <1>6, <1>7, <1>8, <1>9, <1>10, <1>11, <1>12, <1>13,
     <1>14, <1>15, <1>16, <1>17, <1>18 DEF Step
-----------------------------------------------------------------------------
(* The workspace lock. *)

(* How a step of a worker can end for its own state and lock. *)
OwnStep(w) ==
    /\ \E fields \in States : worker' = [worker EXCEPT ![w] = fields]
    /\ \E mode \in LockModes : lock' = [lock EXCEPT ![w] = mode]
    /\ LockHeld(w)' /\ Shape(w)'
    /\ lock'[w] \in {lock[w], "none"} \/ CanLock(w, lock'[w])

(* The worker answers. *)
LEMMA AnswerOwnStep ==
  ASSUME ServiceType, NEW w \in Workers,
         lock' = [lock EXCEPT ![w] = "none"], worker' = [worker EXCEPT ![w] = Idle]
  PROVE  OwnStep(w)
<1>1. worker'[w] = Idle /\ lock'[w] = "none"
  BY DEF ServiceType
<1>2. LockHeld(w)'
  BY <1>1, IdleFacts DEF LockHeld, InLock
<1>3. Shape(w)'
  BY <1>1, IdleFacts, ServiceAssumption DEF Shape, InStatus
<1>4. QED  BY <1>1, <1>2, <1>3, IdleFacts DEF OwnStep, LockModes

(* The worker goes on with the lock of its command. *)
LEMMA MoveOwnStep ==
  ASSUME ServiceType, NEW w \in Workers, LockHeld(w), Shape(w), UNCHANGED lock,
         NEW fields \in States, worker' = [worker EXCEPT ![w] = fields],
         fields.command = worker[w].command, fields.key = worker[w].key,
         worker[w].pc \in InLock, fields.pc \in InLock \ {"start"},
         fields.pc \in {"lookup", "precheck", "pending", "complete"} => fields.key \in Keys,
         fields.pc = "writing" => Of(w).mode = "exclusive"
  PROVE  OwnStep(w)
<1>1. worker'[w] = fields /\ lock'[w] = lock[w] /\ lock' = [lock EXCEPT ![w] = lock[w]]
      /\ lock[w] \in LockModes
  BY DEF ServiceType
<1>2. Of(w)' = Of(w)  BY <1>1 DEF Of
<1>3. LockHeld(w)'
  BY <1>1, <1>2 DEF LockHeld
<1>4. Shape(w)'
  BY <1>1, <1>2 DEF Shape, InStatus, InLock
<1>5. QED  BY <1>1, <1>3, <1>4 DEF OwnStep

LEMMA StepOwnStep ==
  ASSUME ServiceType, NEW w \in Workers, LockHeld(w), Shape(w), Step(w)
  PROVE  OwnStep(w)
<1>0. worker[w] \in States  BY DEF ServiceType
<1>1. CASE Acquire(w)
  <2>1. CASE CanLock(w, Of(w).mode)
    <3> DEFINE pc == IF Of(w).progress THEN "start" ELSE "guard"
               mode == Of(w).mode
    <3>1. lock' = [lock EXCEPT ![w] = mode] /\ Goto(w, pc) /\ worker[w].pc = "arrived"
      BY <1>1, <2>1 DEF Acquire
    <3>2. /\ pc \in {"start", "guard"} /\ pc \in Pcs
          /\ pc = "start" => Of(w).progress
      BY DEF Pcs, InLock
    <3>3. mode \in LockModes
      BY ItemsFacts DEF LockModes, CommandIsSound
    <3> HIDE DEF pc, mode
    <3> DEFINE fields == [worker[w] EXCEPT !.pc = pc]
    <3>4. worker' = [worker EXCEPT ![w] = fields] /\ fields \in States
      BY <3>1, <3>2, GotoFacts
    <3>5. worker'[w] = fields /\ lock'[w] = mode
      BY <3>1, <3>4 DEF ServiceType
    <3>6. fields.pc = pc /\ fields.command = worker[w].command /\ fields.key = worker[w].key
      BY <1>0 DEF States
    <3>7. Of(w)' = Of(w)  BY <3>5, <3>6 DEF Of
    <3>8. LockHeld(w)'
      BY <3>2, <3>5, <3>6, <3>7 DEF LockHeld, InLock, mode
    <3>9. Shape(w)'
      BY <3>2, <3>5, <3>6, <3>7 DEF Shape, InStatus
    <3>10. CanLock(w, lock'[w])  BY <2>1, <3>5 DEF mode
    <3>11. QED  BY <3>1, <3>3, <3>4, <3>8, <3>9, <3>10 DEF OwnStep
  <2>2. CASE ~CanLock(w, Of(w).mode)
    <3>1. Answer(w, "workspace_locked", TRUE)
      BY <1>1, <2>2 DEF Acquire
    <3>2. QED  BY <3>1, AnswerOwnStep DEF Answer, Put
  <2>3. QED  BY <2>1, <2>2
<1>2. CASE Start(w) \/ Finish(w)
  <2>1. PICK pc \in {"guard", "answer"} :
          worker' = [worker EXCEPT ![w] = [worker[w] EXCEPT !.pc = pc,
                                             !.warned = @ \/ faults' # faults]]
    BY <1>2 DEF Start, Finish, Put
  <2> DEFINE fields == [worker[w] EXCEPT !.pc = pc, !.warned = @ \/ faults' # faults]
  <2>2. fields \in States
    <3>1. pc \in InLock  BY <2>1 DEF InLock
    <3>2. QED  BY <1>0, <3>1 DEF States
  <2>3. fields.pc = pc /\ fields.command = worker[w].command /\ fields.key = worker[w].key
    BY <1>0 DEF States
  <2>4. UNCHANGED lock /\ worker[w].pc \in InLock
    BY <1>2 DEF Start, Finish, InLock
  <2> HIDE DEF fields
  <2>5. QED  BY <2>1, <2>2, <2>3, <2>4, MoveOwnStep DEF InLock, fields
<1>3. CASE /\ \E pc \in {"lookup", "operate", "precheck", "pending", "finish"} :
                Goto(w, pc) /\ (pc \in {"lookup", "precheck", "pending"} => worker[w].key \in Keys)
           /\ UNCHANGED lock /\ worker[w].pc \in InLock
  <2>1. PICK pc \in {"lookup", "operate", "precheck", "pending", "finish"} :
          Goto(w, pc) /\ (pc \in {"lookup", "precheck", "pending"} => worker[w].key \in Keys)
    BY <1>3
  <2> DEFINE fields == [worker[w] EXCEPT !.pc = pc]
  <2>2. worker' = [worker EXCEPT ![w] = fields] /\ fields \in States
    BY <2>1, GotoFacts DEF Pcs, InLock
  <2>3. fields.pc = pc /\ fields.command = worker[w].command /\ fields.key = worker[w].key
    BY <1>0 DEF States
  <2> HIDE DEF fields
  <2>4. QED  BY <1>3, <2>1, <2>2, <2>3, MoveOwnStep DEF InLock
<1>4. CASE \E code \in Codes : Fail(w, code)
  BY <1>4, AnswerOwnStep DEF Fail, Answer, Put
<1>5. CASE Guard(w)
  <2>1. CASE Fail(w, "transaction_incomplete")
    BY <2>1, <1>4 DEF Codes
  <2>2. CASE Goto(w, IF worker[w].key \in Keys THEN "lookup" ELSE "operate") /\ UNCHANGED lock
    <3>1. \E pc \in {"lookup", "operate", "precheck", "pending", "finish"} :
            Goto(w, pc) /\ (pc \in {"lookup", "precheck", "pending"} => worker[w].key \in Keys)
      BY <2>2
    <3>2. QED  BY <1>3, <1>5, <2>2, <3>1 DEF Guard, InLock
  <2>3. QED  BY <1>5, <2>1, <2>2 DEF Guard
<1>6. CASE Lookup(w)
  <2>0. worker[w].key \in Keys /\ worker[w].pc = "lookup"
    BY <1>6 DEF Lookup, Shape
  <2>1. CASE /\ Put(w, [worker[w] EXCEPT !.pc = "finish", !.done = 1,
                             !.result = record[worker[w].key].result])
             /\ UNCHANGED lock
    <3> DEFINE fields == [worker[w] EXCEPT !.pc = "finish", !.done = 1,
                             !.result = record[worker[w].key].result]
    <3>1. record[worker[w].key].result \in Nat
      BY <2>0 DEF ServiceType, Records
    <3>2. fields \in States  BY <1>0, <3>1 DEF States, InLock
    <3>3. /\ fields.pc = "finish" /\ fields.command = worker[w].command
          /\ fields.key = worker[w].key
      BY <1>0 DEF States
    <3>4. worker' = [worker EXCEPT ![w] = fields]  BY <2>1 DEF Put
    <3> HIDE DEF fields
    <3>5. QED  BY <2>0, <2>1, <3>2, <3>3, <3>4, MoveOwnStep DEF InLock
  <2>2. CASE Replay(w) # "replay" /\ Fail(w, Replay(w))
    BY <1>4, <2>2, ReplayFacts
  <2>3. CASE Goto(w, IF Of(w).precheck THEN "precheck" ELSE "pending") /\ UNCHANGED lock
    BY <1>3, <2>0, <2>3 DEF InLock
  <2>4. QED  BY <1>6, <2>1, <2>2, <2>3 DEF Lookup
<1>7. CASE Precheck(w)
  <2>1. CASE Goto(w, "pending") /\ UNCHANGED lock
    BY <1>3, <1>7, <2>1 DEF Precheck, Shape, InLock
  <2>2. CASE Fail(w, "invalid_request")
    BY <1>4, <2>2 DEF Codes
  <2>3. QED  BY <1>7, <2>1, <2>2 DEF Precheck
<1>8. CASE WritePending(w)
  <2>1. Goto(w, "operate") /\ UNCHANGED lock /\ worker[w].pc \in InLock
    BY <1>8 DEF WritePending, InLock
  <2>2. QED  BY <1>3, <2>1
<1>9. CASE Begin(w)
  <2> DEFINE fields == [worker[w] EXCEPT !.pc = "writing", !.result = serial']
  <2>1. serial' \in Nat  BY <1>9 DEF Begin, ServiceType
  <2>2. fields \in States  BY <1>0, <2>1 DEF States, InLock
  <2>3. /\ fields.pc = "writing" /\ fields.command = worker[w].command
        /\ fields.key = worker[w].key
    BY <1>0 DEF States
  <2>4. /\ worker' = [worker EXCEPT ![w] = fields] /\ UNCHANGED lock
        /\ worker[w].pc \in InLock /\ Of(w).mode = "exclusive"
    BY <1>9 DEF Begin, Put, InLock
  <2> HIDE DEF fields
  <2>5. QED  BY <2>2, <2>3, <2>4, MoveOwnStep DEF InLock
<1>10. CASE \E fields \in States :
              /\ Put(w, Next1(w, fields)) /\ UNCHANGED lock /\ worker[w].pc \in InLock
              /\ fields.command = worker[w].command /\ fields.key = worker[w].key
  <2>1. PICK fields \in States :
              /\ Put(w, Next1(w, fields)) /\ UNCHANGED lock /\ worker[w].pc \in InLock
              /\ fields.command = worker[w].command /\ fields.key = worker[w].key
    BY <1>10
  <2> DEFINE next == Next1(w, fields)
  <2>2. /\ next \in States /\ next.pc \in {"operate", "complete", "finish"}
        /\ next.pc = "complete" => next.key \in Keys
        /\ next.command = fields.command /\ next.key = fields.key
    BY Next1Facts
  <2>3. worker' = [worker EXCEPT ![w] = next]  BY <2>1 DEF Put
  <2> HIDE DEF next
  <2>4. QED  BY <2>1, <2>2, <2>3, MoveOwnStep DEF InLock
<1>11. CASE Commit(w)
  <2> DEFINE fields == [worker[w] EXCEPT !.done = @ + 1]
  <2>1. /\ fields \in States /\ fields.command = worker[w].command
        /\ fields.key = worker[w].key
    BY <1>0 DEF States
  <2>2. Put(w, Next1(w, fields)) /\ UNCHANGED lock /\ worker[w].pc \in InLock
    BY <1>11 DEF Commit, InLock
  <2> HIDE DEF fields
  <2>3. QED  BY <1>10, <2>1, <2>2
<1>12. CASE Read(w)
  <2> DEFINE fields == [worker[w] EXCEPT !.pc = "finish", !.done = 1]
  <2>1. /\ fields \in States /\ fields.command = worker[w].command
        /\ fields.key = worker[w].key /\ fields.pc = "finish"
    BY <1>0 DEF States, InLock
  <2>2. worker' = [worker EXCEPT ![w] = fields] /\ UNCHANGED lock /\ worker[w].pc \in InLock
    BY <1>12 DEF Read, Put, InLock
  <2> HIDE DEF fields
  <2>3. QED  BY <2>1, <2>2, MoveOwnStep DEF InLock
<1>13. CASE OperationRejected(w)
  BY <1>4, <1>13 DEF OperationRejected, Codes
<1>14. CASE OperationFails(w)
  <2> DEFINE fields == [worker[w] EXCEPT !.bad = @ + 1, !.again = FALSE]
  <2>1. CASE Put(w, Next1(w, fields)) /\ UNCHANGED lock
    <3>1. worker[w].bad + 1 \in Nat  BY <1>0 DEF States
    <3>2. /\ fields \in States /\ fields.command = worker[w].command
          /\ fields.key = worker[w].key
      BY <1>0, <3>1, Zenon DEF States
    <3>3. worker[w].pc \in InLock  BY <1>14 DEF OperationFails, InLock
    <3> HIDE DEF fields
    <3>4. QED  BY <1>10, <2>1, <3>2, <3>3
  <2>2. CASE Answer(w, "store_error", FALSE)
    BY <2>2, AnswerOwnStep DEF Answer, Put
  <2>3. QED  BY <1>14, <2>1, <2>2 DEF OperationFails
<1>15. CASE \E retryable \in BOOLEAN : ItemRejected(w, retryable)
  <2>1. PICK retryable \in BOOLEAN : ItemRejected(w, retryable)
    BY <1>15
  <2> DEFINE fields == [worker[w] EXCEPT !.bad = @ + 1,
                          !.again = retryable /\ (worker[w].bad = 0 \/ @)]
  <2>2. worker[w].bad + 1 \in Nat  BY <1>0 DEF States
  <2>3. /\ fields \in States /\ fields.command = worker[w].command
        /\ fields.key = worker[w].key
    BY <1>0, <2>2, Zenon DEF States
  <2>4. Put(w, Next1(w, fields)) /\ UNCHANGED lock /\ worker[w].pc \in InLock
    BY <2>1 DEF ItemRejected, InLock
  <2> HIDE DEF fields
  <2>5. QED  BY <1>10, <2>3, <2>4
<1>16. CASE WriteCompleted(w)
  <2>1. CASE Goto(w, "finish") /\ UNCHANGED lock
    <3>1. worker[w].pc \in InLock  BY <1>16 DEF WriteCompleted, InLock
    <3>2. QED  BY <1>3, <2>1, <3>1
  <2>2. CASE Answer(w, "store_error", FALSE)
    BY <2>2, AnswerOwnStep DEF Answer, Put
  <2>3. QED  BY <1>16, <2>1, <2>2 DEF WriteCompleted
<1>17. CASE Reply(w)
  BY <1>17, AnswerOwnStep DEF Reply, Answer, Put
<1>18. CASE ReadSnapshot(w)
  <2> DEFINE fields == [worker[w] EXCEPT !.pc = "counts", !.seen = snapshot.status]
  <2>1. /\ fields \in States /\ fields.command = worker[w].command
        /\ fields.key = worker[w].key /\ fields.pc = "counts"
    BY <1>0 DEF States, InStatus, ServiceType
  <2>2. worker' = [worker EXCEPT ![w] = fields] /\ UNCHANGED lock /\ worker[w].pc = "status"
    BY <1>18 DEF ReadSnapshot, Put
  <2> HIDE DEF fields
  <2>3. worker'[w] = fields /\ lock' = [lock EXCEPT ![w] = lock[w]] /\ lock[w] \in LockModes
    BY <2>2 DEF ServiceType
  <2>4. LockHeld(w)'
    BY <2>1, <2>2, <2>3 DEF LockHeld, InLock
  <2>5. Shape(w)'
    BY <2>1, <2>2, <2>3 DEF Shape, InStatus, Of
  <2>6. QED  BY <2>1, <2>2, <2>3, <2>4, <2>5 DEF OwnStep
<1>19. CASE StatusWhenLocked(w)
  <2>1. worker' = [worker EXCEPT ![w] = Idle] /\ UNCHANGED lock /\ worker[w].pc = "counts"
    BY <1>19 DEF StatusWhenLocked, Put
  <2>2. lock[w] = "none"  BY <2>1 DEF LockHeld, InLock
  <2>3. lock' = [lock EXCEPT ![w] = "none"]
    BY <2>1, <2>2 DEF ServiceType
  <2>4. QED  BY <2>1, <2>3, AnswerOwnStep
<1>20. CASE StatusWithLock(w)
  <2> DEFINE fields == [worker[w] EXCEPT !.pc = "counting", !.seen = MarkStale(@)]
  <2>1. MarkStale(worker[w].seen) \in Statuses \cup {"stale"}
    BY <1>0 DEF MarkStale, States
  <2>2. /\ fields \in States /\ fields.command = worker[w].command
        /\ fields.key = worker[w].key /\ fields.pc = "counting"
    BY <1>0, <2>1 DEF States, InStatus
  <2>3. /\ worker' = [worker EXCEPT ![w] = fields] /\ lock' = [lock EXCEPT ![w] = "shared"]
        /\ worker[w].pc = "counts" /\ CanLock(w, "shared")
    BY <1>20 DEF StatusWithLock, Put
  <2> HIDE DEF fields
  <2>4. worker'[w] = fields /\ lock'[w] = "shared"
    BY <2>3 DEF ServiceType
  <2>5. LockHeld(w)'
    BY <2>2, <2>4 DEF LockHeld, InLock
  <2>6. Shape(w)'
    BY <2>2, <2>3, <2>4 DEF Shape, InStatus, Of
  <2>7. QED  BY <2>2, <2>3, <2>4, <2>5, <2>6 DEF OwnStep, LockModes
<1>21. CASE StatusAnswer(w)
  BY <1>21, AnswerOwnStep DEF StatusAnswer, Put
<1>22. QED
  BY <1>1, <1>2, <1>5, <1>6, <1>7, <1>8, <1>9, <1>11, <1>12, <1>13, <1>14, <1>15, <1>16,
     <1>17, <1>18, <1>19, <1>20, <1>21 DEF Step

(* A request is taken by an idle worker, which holds no lock. *)
LEMMA ArriveFacts ==
  ASSUME ServiceType, NEW w \in Workers, NEW c \in Offered, NEW k \in Keys \cup {NoKey},
         NEW i \in Inputs \cup {0}, Arrive(w, c, k, i)
  PROVE  /\ \E fields \in States : worker' = [worker EXCEPT ![w] = fields]
         /\ \A v \in Workers : v # w => worker'[v] = worker[v]
         /\ worker'[w].pc \in {"status", "arrived"}
         /\ worker'[w].pc = "status" => c = "status"
         /\ worker'[w].command = c /\ worker'[w].key = k
         /\ worker'[w].done = 0 /\ worker'[w].bad = 0
         /\ k \in Keys => Command[c].keyed
<1> DEFINE fields == [Idle EXCEPT !.pc = IF c = "status" THEN "status" ELSE "arrived",
                        !.command = c, !.key = k, !.input = i]
<1>1. c \in DOMAIN Command  BY OfferedAssumption
<1>2. fields \in States
  <2> DEFINE p == IF c = "status" THEN "status" ELSE "arrived"
  <2>1. p \in Pcs  BY DEF InStatus, Pcs
  <2> HIDE DEF p
  <2>2. [Idle EXCEPT !.pc = p, !.command = c] \in States
    BY <1>1, <2>1, IdleFacts DEF States, Pcs
  <2>3. [Idle EXCEPT !.pc = p, !.command = c, !.key = k, !.input = i]
           = [[Idle EXCEPT !.pc = p, !.command = c] EXCEPT !.key = k, !.input = i]
    OBVIOUS
  <2>4. [[Idle EXCEPT !.pc = p, !.command = c] EXCEPT !.key = k, !.input = i] \in States
    BY <2>2 DEF States
  <2>5. QED  BY <2>3, <2>4 DEF p
<1>3. /\ fields.pc \in {"status", "arrived"} /\ (fields.pc = "status" => c = "status")
      /\ fields.command = c /\ fields.key = k /\ fields.done = 0 /\ fields.bad = 0
  BY IdleFacts DEF States
<1>4. worker' = [worker EXCEPT ![w] = fields]
  BY DEF Arrive, Put
<1> HIDE DEF fields
<1>5. worker'[w] = fields /\ \A v \in Workers : v # w => worker'[v] = worker[v]
  BY <1>4 DEF ServiceType
<1>6. QED  BY <1>2, <1>3, <1>4, <1>5 DEF Arrive, Admissible

LEMMA LockInit == Init => LockInv
<1> SUFFICES ASSUME Init PROVE LockInv  OBVIOUS
<1>1. Exclusion  BY DEF Init, Exclusion
<1>2. \A w \in Workers : worker[w] = Idle /\ lock[w] = "none"
  BY DEF Init
<1>3. \A w \in Workers : LockHeld(w)
  BY <1>2, IdleFacts DEF LockHeld, InLock
<1>4. \A w \in Workers : Shape(w)
  BY <1>2, IdleFacts, ServiceAssumption DEF Shape, InStatus
<1>5. QED  BY <1>1, <1>3, <1>4 DEF LockInv

(* The state and the lock of a worker that takes no step. *)
LEMMA OtherWorker ==
  ASSUME NEW v \in Workers, LockHeld(v), Shape(v),
         worker'[v] = worker[v], lock'[v] = lock[v]
  PROVE  LockHeld(v)' /\ Shape(v)' /\ Of(v)' = Of(v)
BY DEF LockHeld, Shape, Of

LEMMA LockStep ==
  ASSUME ServiceType, LockInv, [Next]_vars
  PROVE  LockInv'
<1>1. CASE \E w \in Workers : Step(w)
  <2>1. PICK w \in Workers : Step(w)  BY <1>1
  <2>2. OwnStep(w)  BY <2>1, StepOwnStep DEF LockInv
  <2>3. /\ LockHeld(w)' /\ Shape(w)'
        /\ lock'[w] \in {lock[w], "none"} \/ CanLock(w, lock'[w])
    BY <2>2 DEF OwnStep
  <2>4. \A v \in Workers : v # w => worker'[v] = worker[v] /\ lock'[v] = lock[v]
    BY <2>2 DEF OwnStep, ServiceType
  <2>5. \A v \in Workers : LockHeld(v)' /\ Shape(v)'
    BY <2>3, <2>4, OtherWorker DEF LockInv
  <2>6. Exclusion'
    <3> SUFFICES ASSUME NEW u \in Workers, NEW v \in Workers, u # v, lock'[u] = "exclusive"
                 PROVE  lock'[v] = "none"
      BY DEF Exclusion
    <3>1. CASE u # w /\ v # w
      BY <2>4, <3>1 DEF LockInv, Exclusion
    <3>2. CASE u = w
      BY <2>3, <2>4, <3>2 DEF LockInv, Exclusion, CanLock
    <3>3. CASE v = w
      <4>1. lock[u] = "exclusive"  BY <2>4, <3>3
      <4>2. lock[w] = "none"  BY <3>3, <4>1 DEF LockInv, Exclusion
      <4>3. ~CanLock(w, lock'[w]) \/ lock'[w] = "none"
        BY <3>3, <4>1, <2>2 DEF CanLock, OwnStep, ServiceType, LockModes
      <4>4. QED  BY <2>3, <3>3, <4>2, <4>3
    <3>4. QED  BY <3>1, <3>2, <3>3
  <2>7. QED  BY <2>5, <2>6 DEF LockInv
<1>2. CASE \E w \in Workers, c \in Offered, k \in Keys \cup {NoKey} :
              \E i \in IF k \in Keys THEN Inputs ELSE {0} : Arrive(w, c, k, i)
  <2>1. PICK w \in Workers, c \in Offered, k \in Keys \cup {NoKey} :
              \E i \in IF k \in Keys THEN Inputs ELSE {0} : Arrive(w, c, k, i)
    BY <1>2
  <2>2. PICK i \in Inputs \cup {0} : Arrive(w, c, k, i)
    BY <2>1
  <2>3. /\ \A v \in Workers : v # w => worker'[v] = worker[v]
        /\ worker'[w].pc \in {"status", "arrived"}
        /\ worker'[w].pc = "status" => c = "status"
        /\ worker'[w].command = c /\ worker'[w].key = k /\ worker'[w].done = 0
        /\ k \in Keys => Command[c].keyed
    BY <2>2, ArriveFacts
  <2>4. UNCHANGED lock /\ worker[w].pc = "idle"
    BY <2>2 DEF Arrive
  <2>5. lock[w] = "none"
    BY <2>4 DEF LockInv, LockHeld, InLock
  <2>6. LockHeld(w)'
    BY <2>3, <2>4, <2>5 DEF LockHeld, InLock
  <2>7. Shape(w)'
    BY <2>3 DEF Shape, InStatus, Of
  <2>8. \A v \in Workers : LockHeld(v)' /\ Shape(v)'
    BY <2>3, <2>4, <2>6, <2>7, OtherWorker DEF LockInv
  <2>9. QED  BY <2>4, <2>8 DEF LockInv, Exclusion
<1>3. CASE \/ \E w \in Workers, c \in Offered, k \in Keys \cup {NoKey} : Refuse(w, c, k)
           \/ UNCHANGED vars
  <2>1. UNCHANGED <<lock, worker>>
    BY <1>3 DEF Refuse, vars
  <2>2. QED  BY <2>1, OtherWorker DEF LockInv, Exclusion
<1>4. CASE \E dying \in SUBSET Workers : Crash(dying)
  <2>1. PICK dying \in SUBSET Workers : Crash(dying)  BY <1>4
  <2>2. \A v \in Workers : \/ worker'[v] = Idle /\ lock'[v] = "none"
                           \/ worker'[v] = worker[v] /\ lock'[v] = lock[v]
    BY <2>1 DEF Crash
  <2>3. ASSUME NEW v \in Workers PROVE LockHeld(v)' /\ Shape(v)'
    <3>1. CASE worker'[v] = Idle /\ lock'[v] = "none"
      BY <3>1, IdleFacts, ServiceAssumption DEF LockHeld, Shape, InLock, InStatus
    <3>2. CASE worker'[v] = worker[v] /\ lock'[v] = lock[v]
      BY <3>2, OtherWorker DEF LockInv
    <3>3. QED  BY <2>2, <3>1, <3>2
  <2>4. Exclusion'
    BY <2>2 DEF LockInv, Exclusion
  <2>5. QED  BY <2>3, <2>4 DEF LockInv
<1>5. QED
  <2>1. CASE \E w \in Workers \ Handlers : Crash({w})
    BY <1>4, <2>1
  <2>2. CASE Crash(Handlers)
    BY <1>4, <2>2, ServiceAssumption
  <2>3. QED  BY <1>1, <1>2, <1>3, <2>1, <2>2 DEF Next
-----------------------------------------------------------------------------
(* Only the holder of the exclusive lock changes records and transactions. *)
LEMMA StoreFrame ==
  ASSUME ServiceType, NEW w \in Workers, LockHeld(w), Shape(w), Step(w),
         lock[w] # "exclusive"
  PROVE  UNCHANGED store
<1>1. worker[w].pc \in InLock => Of(w).mode # "exclusive"
  BY DEF LockHeld
<1>2. worker[w].key \in Keys => Of(w).mode = "exclusive"
  BY ItemsFacts DEF Shape, CommandIsSound
<1>3. ~WritePending(w) /\ ~WriteCompleted(w) /\ ~Begin(w) /\ ~Commit(w)
  BY <1>1, <1>2 DEF WritePending, WriteCompleted, Begin, Commit, Shape, InLock
<1>4. QED
  BY <1>3 DEF Step, Acquire, Start, Guard, Lookup, Precheck, Read, OperationRejected,
       OperationFails, ItemRejected, Finish, Reply, ReadSnapshot, StatusWhenLocked,
       StatusWithLock, StatusAnswer

(* So a worker between its lookup and its answer finds its record as it left *)
(* it, whoever else takes a step.                                            *)
LEMMA StoreIsMine ==
  ASSUME ServiceType, LockInv, NEW w \in Workers, NEW v \in Workers, v # w, Step(w),
         Of(v).mode = "exclusive", worker[v].pc \in InLock
  PROVE  UNCHANGED store
<1>1. lock[v] = "exclusive"  BY DEF LockInv, LockHeld
<1>2. lock[w] = "none"  BY <1>1 DEF LockInv, Exclusion
<1>3. QED  BY <1>2, StoreFrame DEF LockInv
-----------------------------------------------------------------------------
(* The idempotency records. *)

RequestStepOf(w) ==
    OwnRecord(w)' /\ (\A k \in Keys : KeyIsSafe(k)') /\ RetryableMeansNoEffect'

(* An answer adds nothing to what was told of a key but its recorded result. *)
LEMMA AnswerRequest ==
  ASSUME ServiceType, RequestInv, NEW w \in Workers, NEW code \in Codes,
         NEW retryable \in BOOLEAN, Answer(w, code, retryable), UNCHANGED store,
         code = "ok" => worker[w].pc = "answer",
         retryable => worker[w].done = 0
  PROVE  RequestStepOf(w)
<1>1. /\ last' = [last EXCEPT ![w] = last'[w]]
      /\ last'[w].done = worker[w].done /\ last'[w].retryable = retryable
      /\ worker' = [worker EXCEPT ![w] = Idle]
      /\ \A k \in Keys : \A a \in answers'[k] :
           \/ a \in answers[k]
           \/ /\ k = worker[w].key /\ code = "ok"
              /\ a = <<worker[w].input, worker[w].result>>
  BY AnswerFacts
<1>2. OwnRecord(w)'
  BY <1>1, IdleFacts, ServiceAssumption DEF OwnRecord, ServiceType
<1>3. ASSUME NEW k \in Keys PROVE KeyIsSafe(k)'
  <2>1. UNCHANGED <<record, effects>>  BY DEF store
  <2>2. ASSUME NEW a \in answers'[k]
        PROVE  record[k].status = "completed" /\ a = <<record[k].input, record[k].result>>
    <3>1. CASE a \in answers[k]
      BY <3>1 DEF RequestInv, KeyIsSafe
    <3>2. CASE k = worker[w].key /\ code = "ok" /\ a = <<worker[w].input, worker[w].result>>
      BY <3>2 DEF RequestInv, OwnRecord
    <3>3. QED  BY <1>1, <3>1, <3>2
  <2>3. QED  BY <2>1, <2>2 DEF RequestInv, KeyIsSafe
<1>4. RetryableMeansNoEffect'
  BY <1>1 DEF RequestInv, RetryableMeansNoEffect, ServiceType
<1>5. QED  BY <1>2, <1>3, <1>4 DEF RequestStepOf

(* A step that answers nothing and writes no record: only the worker's own   *)
(* place is to be looked at.                                                 *)
LEMMA MoveRequest ==
  ASSUME ServiceType, RequestInv, NEW w \in Workers, UNCHANGED <<answers, last, store>>,
         OwnRecord(w)'
  PROVE  RequestStepOf(w)
BY DEF RequestInv, RequestStepOf, KeyIsSafe, RetryableMeansNoEffect, store

LEMMA FailRequest ==
  ASSUME ServiceType, RequestInv, NEW w \in Workers, NEW code \in Codes, code # "ok",
         Fail(w, code), UNCHANGED store
  PROVE  RequestStepOf(w)
<1>1. Answer(w, code, FALSE)  BY DEF Fail
<1>2. QED  BY <1>1, AnswerRequest

LEMMA StepRequest ==
  ASSUME ServiceType, LockInv, RequestInv, NEW w \in Workers, Step(w)
  PROVE  RequestStepOf(w)
<1>0. worker[w] \in States /\ Shape(w) /\ OwnRecord(w)
  BY DEF ServiceType, LockInv, RequestInv
<1> DEFINE key == worker[w].key
<1>1. CASE Acquire(w)
  <2>1. CASE CanLock(w, Of(w).mode)
    <3> DEFINE pc == IF Of(w).progress THEN "start" ELSE "guard"
    <3>1. Goto(w, pc) /\ UNCHANGED <<answers, last, store>>
      BY <1>1, <2>1 DEF Acquire
    <3>2. pc \in {"start", "guard"} /\ pc \in Pcs  BY DEF Pcs, InLock
    <3> HIDE DEF pc
    <3>3. worker'[w].pc = pc  BY <3>1, GotoFields
    <3>4. OwnRecord(w)'  BY <3>2, <3>3 DEF OwnRecord
    <3>5. QED  BY <3>1, <3>4, MoveRequest
  <2>2. CASE ~CanLock(w, Of(w).mode)
    <3>1. Answer(w, "workspace_locked", TRUE) /\ UNCHANGED store /\ worker[w].done = 0
      BY <1>0, <1>1, <2>2 DEF Acquire, Shape
    <3>2. QED  BY <3>1, AnswerRequest DEF Codes
  <2>3. QED  BY <2>1, <2>2
<1>2. CASE Start(w)
  <2>1. worker'[w].pc = "guard"
    BY <1>0, <1>2 DEF Start, Put, ServiceType, States
  <2>2. OwnRecord(w)'  BY <2>1 DEF OwnRecord
  <2>3. QED  BY <1>2, <2>2, MoveRequest DEF Start
<1>3. CASE Finish(w)
  <2>1. /\ worker'[w].pc = "answer" /\ worker'[w].key = key
        /\ worker'[w].input = worker[w].input /\ worker'[w].result = worker[w].result
    BY <1>0, <1>3 DEF Finish, Put, ServiceType, States
  <2>2. UNCHANGED <<answers, last, store>> /\ UNCHANGED record /\ worker[w].pc = "finish"
    BY <1>3 DEF Finish, store
  <2>3. OwnRecord(w)'  BY <1>0, <2>1, <2>2 DEF OwnRecord
  <2>4. QED  BY <2>2, <2>3, MoveRequest
<1>4. CASE Guard(w)
  <2>1. CASE Fail(w, "transaction_incomplete") /\ UNCHANGED store
    BY <2>1, FailRequest DEF Codes
  <2>2. CASE /\ Goto(w, IF key \in Keys THEN "lookup" ELSE "operate")
             /\ UNCHANGED <<answers, last, store>>
    <3> DEFINE pc == IF key \in Keys THEN "lookup" ELSE "operate"
    <3>2. worker'[w].pc = pc /\ worker'[w].key = key
      BY <2>2, GotoFields
    <3>3. OwnRecord(w)'  BY <3>2 DEF OwnRecord
    <3>4. QED  BY <2>2, <3>3, MoveRequest
  <2>3. QED  BY <1>4, <2>1, <2>2 DEF Guard
<1>5. CASE Lookup(w)
  <2>0. key \in Keys /\ worker[w].pc = "lookup"
    BY <1>0, <1>5 DEF Lookup, Shape
  <2>1. CASE /\ Put(w, [worker[w] EXCEPT !.pc = "finish", !.done = 1,
                             !.result = record[worker[w].key].result])
             /\ Replay(w) = "replay"
             /\ UNCHANGED <<answers, last, store>>
    <3>1. /\ worker'[w].pc = "finish" /\ worker'[w].key = key
          /\ worker'[w].input = worker[w].input /\ worker'[w].result = record[key].result
      BY <1>0, <2>1 DEF Put, ServiceType, States
    <3>2. record[key].status = "completed" /\ record[key].input = worker[w].input
      BY <2>1, ReplayFacts
    <3>3. OwnRecord(w)'  BY <2>1, <3>1, <3>2 DEF OwnRecord, store
    <3>4. QED  BY <2>1, <3>3, MoveRequest
  <2>2. CASE Replay(w) # "replay" /\ Fail(w, Replay(w)) /\ UNCHANGED store
    BY <2>2, FailRequest, ReplayFacts
  <2>3. CASE /\ Goto(w, IF Of(w).precheck THEN "precheck" ELSE "pending")
             /\ record[key].status = "absent" /\ UNCHANGED <<answers, last, store>>
    <3> DEFINE pc == IF Of(w).precheck THEN "precheck" ELSE "pending"
    <3>1. pc \in Pcs /\ pc \in {"precheck", "pending"}  BY DEF Pcs, InLock
    <3> HIDE DEF pc
    <3>2. worker'[w].pc = pc /\ worker'[w].key = key
      BY <2>3, GotoFields DEF pc
    <3>3. OwnRecord(w)'  BY <2>3, <3>1, <3>2 DEF OwnRecord, store
    <3>4. QED  BY <2>3, <3>3, MoveRequest
  <2>4. QED  BY <1>5, <2>1, <2>2, <2>3 DEF Lookup
<1>6. CASE Precheck(w)
  <2>1. CASE Goto(w, "pending") /\ UNCHANGED <<answers, last, store>>
    <3>1. worker'[w].pc = "pending" /\ worker'[w].key = key
      BY <2>1, GotoFields
    <3>2. OwnRecord(w)'  BY <1>0, <1>6, <2>1, <3>1 DEF OwnRecord, store, Precheck
    <3>3. QED  BY <2>1, <3>2, MoveRequest
  <2>2. CASE Fail(w, "invalid_request") /\ UNCHANGED store
    BY <2>2, FailRequest DEF Codes
  <2>3. QED  BY <1>6, <2>1, <2>2 DEF Precheck
<1>7. CASE WritePending(w)
  <2>1. /\ key \in Keys /\ record[key].status = "absent" /\ effects[key] = 0
        /\ answers[key] = {}
    BY <1>0, <1>7 DEF WritePending, Shape, OwnRecord, RequestInv, KeyIsSafe
  <2>2. /\ worker'[w].pc = "operate" /\ worker'[w].key = key
        /\ worker'[w].input = worker[w].input
    BY <1>7, GotoFields DEF WritePending
  <2>3. /\ record'[key].status = "pending" /\ record'[key].input = worker[w].input
        /\ \A k \in Keys : k # key => record'[k] = record[k]
        /\ UNCHANGED <<effects, answers, last>>
    BY <1>7, <2>1 DEF WritePending, ServiceType
  <2>4. OwnRecord(w)'  BY <2>1, <2>2, <2>3 DEF OwnRecord
  <2>5. \A k \in Keys : KeyIsSafe(k)'
    BY <2>1, <2>3 DEF KeyIsSafe, RequestInv
  <2>6. QED  BY <2>3, <2>4, <2>5 DEF RequestStepOf, RequestInv, RetryableMeansNoEffect
<1>8. CASE Begin(w)
  <2>1. UNCHANGED <<record, answers, last>> /\ worker[w].pc = "operate"
    BY <1>8 DEF Begin
  <2>2. /\ worker'[w].pc = "writing" /\ worker'[w].key = key
        /\ worker'[w].input = worker[w].input
    BY <1>0, <1>8 DEF Begin, Put, ServiceType, States
  <2>3. OwnRecord(w)'  BY <1>0, <2>1, <2>2 DEF OwnRecord
  <2>4. \A k \in Keys : KeyIsSafe(k)'
    <3>1. CASE key \in Keys
      <4>1. effects[key] = 0 /\ record[key].status = "pending"
        BY <1>0, <2>1, <3>1 DEF OwnRecord
      <4>2. effects'[key] = 1 /\ \A k \in Keys : k # key => effects'[k] = effects[k]
        BY <1>8, <3>1, <4>1 DEF Begin, ServiceType
      <4>3. QED  BY <2>1, <4>1, <4>2 DEF KeyIsSafe, RequestInv
    <3>2. CASE key \notin Keys
      BY <1>8, <2>1, <3>2 DEF Begin, KeyIsSafe, RequestInv
    <3>3. QED  BY <3>1, <3>2
  <2>5. QED  BY <2>1, <2>3, <2>4 DEF RequestStepOf, RequestInv, RetryableMeansNoEffect
<1>9. CASE Commit(w)
  <2> DEFINE fields == [worker[w] EXCEPT !.done = @ + 1]
  <2>1. /\ fields \in States /\ fields.key = key /\ fields.input = worker[w].input
        /\ fields.done \in Nat \ {0} /\ fields.bad \in Nat
    BY <1>0 DEF States
  <2>2. worker'[w] = Next1(w, fields)
    BY <1>9 DEF Commit, Put, ServiceType
  <2> HIDE DEF fields
  <2>3. /\ worker'[w].key = key /\ worker'[w].input = worker[w].input
        /\ worker'[w].pc \in {"operate", "complete", "finish"}
        /\ worker'[w].pc = "finish" => key \notin Keys
        /\ worker'[w].pc = "operate" => fields.done + fields.bad < Items(w)
    BY <2>1, <2>2, Next1Facts
  <2>4. key \in Keys => worker'[w].pc = "complete"
    BY <2>1, <2>3, ItemsFacts
  <2>5. UNCHANGED <<record, effects, answers, last>> /\ worker[w].pc = "writing"
    BY <1>9 DEF Commit
  <2>6. OwnRecord(w)'  BY <1>0, <2>3, <2>4, <2>5 DEF OwnRecord
  <2>7. QED
    BY <2>5, <2>6 DEF RequestStepOf, RequestInv, KeyIsSafe, RetryableMeansNoEffect
<1>10. CASE Read(w)
  <2>1. worker'[w].key = key
    BY <1>0, <1>10 DEF Read, Put, ServiceType, States
  <2>2. key \notin Keys
    BY <1>0, <1>10, ItemsFacts DEF Read, Shape, CommandIsSound
  <2>3. OwnRecord(w)'  BY <2>1, <2>2 DEF OwnRecord
  <2>4. QED  BY <1>10, <2>3, MoveRequest DEF Read
<1>11. CASE OperationRejected(w)
  BY <1>11, FailRequest DEF OperationRejected, Codes
<1>12. CASE OperationFails(w)
  <2> DEFINE fields == [worker[w] EXCEPT !.bad = @ + 1, !.again = FALSE]
  <2>1. CASE Items(w) > 1 /\ Put(w, Next1(w, fields)) /\ UNCHANGED <<answers, last, store>>
    <3>1. worker[w].bad + 1 \in Nat  BY <1>0 DEF States
    <3>2. fields \in States /\ fields.key = key
      BY <1>0, <3>1, Zenon DEF States
    <3>3. worker'[w] = Next1(w, fields)  BY <2>1 DEF Put, ServiceType
    <3> HIDE DEF fields
    <3>4. worker'[w].key = key  BY <3>2, <3>3, Next1Facts
    <3>5. key \notin Keys  BY <2>1, ItemsFacts
    <3>6. OwnRecord(w)'  BY <3>4, <3>5 DEF OwnRecord
    <3>7. QED  BY <2>1, <3>6, MoveRequest
  <2>2. CASE Answer(w, "store_error", FALSE) /\ UNCHANGED store
    BY <2>2, AnswerRequest DEF Codes
  <2>3. QED  BY <1>12, <2>1, <2>2 DEF OperationFails
<1>13. CASE \E retryable \in BOOLEAN : ItemRejected(w, retryable)
  <2>1. PICK retryable \in BOOLEAN : ItemRejected(w, retryable)
    BY <1>13
  <2> DEFINE fields == [worker[w] EXCEPT !.bad = @ + 1,
                          !.again = retryable /\ (worker[w].bad = 0 \/ @)]
  <2>2. worker[w].bad + 1 \in Nat  BY <1>0 DEF States
  <2>3. fields \in States /\ fields.key = key
    BY <1>0, <2>2, Zenon DEF States
  <2>4. worker'[w] = Next1(w, fields) /\ Items(w) > 1 /\ UNCHANGED <<answers, last, store>>
    BY <2>1 DEF ItemRejected, Put, ServiceType
  <2> HIDE DEF fields
  <2>5. worker'[w].key = key  BY <2>3, <2>4, Next1Facts
  <2>6. key \notin Keys  BY <2>4, ItemsFacts
  <2>7. OwnRecord(w)'  BY <2>5, <2>6 DEF OwnRecord
  <2>8. QED  BY <2>4, <2>7, MoveRequest
<1>14. CASE WriteCompleted(w)
  <2>0. /\ key \in Keys /\ record[key].status = "pending"
        /\ record[key].input = worker[w].input /\ answers[key] = {}
    BY <1>0, <1>14 DEF WriteCompleted, Shape, OwnRecord, RequestInv, KeyIsSafe
  <2>1. CASE /\ record' = [record EXCEPT ![key] =
                              [@ EXCEPT !.status = "completed", !.result = worker[w].result]]
             /\ Goto(w, "finish") /\ UNCHANGED <<answers, last, effects>>
    <3>1. /\ worker'[w].pc = "finish" /\ worker'[w].key = key
          /\ worker'[w].input = worker[w].input /\ worker'[w].result = worker[w].result
      BY <2>1, GotoFields
    <3>2. record[key] \in Records  BY <2>0 DEF ServiceType
    <3>3. /\ record'[key].status = "completed" /\ record'[key].input = record[key].input
          /\ record'[key].result = worker[w].result
          /\ \A k \in Keys : k # key => record'[k] = record[k]
      BY <2>0, <2>1, <3>2 DEF ServiceType, Records
    <3>4. OwnRecord(w)'  BY <2>0, <3>1, <3>3 DEF OwnRecord
    <3>5. \A k \in Keys : KeyIsSafe(k)'
      BY <2>0, <2>1, <3>3 DEF KeyIsSafe, RequestInv
    <3>6. QED  BY <2>1, <3>4, <3>5 DEF RequestStepOf, RequestInv, RetryableMeansNoEffect
  <2>2. CASE Answer(w, "store_error", FALSE) /\ UNCHANGED record
    <3>1. UNCHANGED store  BY <1>14, <2>2 DEF WriteCompleted, store
    <3>2. QED  BY <2>2, <3>1, AnswerRequest DEF Codes
  <2>3. QED  BY <1>14, <2>1, <2>2 DEF WriteCompleted
<1>15. CASE Reply(w)
  <2>1. Answer(w, Outcome(w), Retryable(w)) /\ UNCHANGED store /\ worker[w].pc = "answer"
    BY <1>15 DEF Reply
  <2>2. QED  BY <2>1, OutcomeFacts, AnswerRequest
<1>16. CASE ReadSnapshot(w) \/ StatusWithLock(w)
  <2>1. worker'[w].pc \in {"counts", "counting"} /\ UNCHANGED <<answers, last, store>>
    <3>1. CASE ReadSnapshot(w)
      BY <1>0, <3>1 DEF ReadSnapshot, Put, ServiceType, States
    <3>2. CASE StatusWithLock(w)
      BY <1>0, <3>2 DEF StatusWithLock, Put, ServiceType, States
    <3>3. QED  BY <1>16, <3>1, <3>2
  <2>2. OwnRecord(w)'  BY <2>1 DEF OwnRecord
  <2>3. QED  BY <2>1, <2>2, MoveRequest
<1>17. CASE StatusWhenLocked(w) \/ StatusAnswer(w)
  <2>1. worker'[w] = Idle /\ UNCHANGED <<answers, record, effects>>
    BY <1>17 DEF StatusWhenLocked, StatusAnswer, Put, ServiceType, store
  <2>2. OwnRecord(w)'  BY <2>1, IdleFacts DEF OwnRecord
  <2>3. \A k \in Keys : KeyIsSafe(k)'  BY <2>1 DEF KeyIsSafe, RequestInv
  <2>4. ~last'[w].retryable /\ \A v \in Workers : v # w => last'[v] = last[v]
    BY <1>17 DEF StatusWhenLocked, StatusAnswer, NoAnswer, ServiceType
  <2>5. RetryableMeansNoEffect'
    BY <2>4 DEF RetryableMeansNoEffect, RequestInv
  <2>6. QED  BY <2>2, <2>3, <2>5 DEF RequestStepOf
<1>18. QED
  BY <1>1, <1>2, <1>3, <1>4, <1>5, <1>6, <1>7, <1>8, <1>9, <1>10, <1>11, <1>12, <1>13,
     <1>14, <1>15, <1>16, <1>17 DEF Step

LEMMA RequestInit == Init => RequestInv
<1> SUFFICES ASSUME Init PROVE RequestInv  OBVIOUS
<1>1. \A w \in Workers : OwnRecord(w)
  BY IdleFacts, ServiceAssumption DEF Init, OwnRecord
<1>2. \A k \in Keys : KeyIsSafe(k)
  BY DEF Init, KeyIsSafe, NoRecord
<1>3. RetryableMeansNoEffect
  BY DEF Init, RetryableMeansNoEffect, NoAnswer
<1>4. QED  BY <1>1, <1>2, <1>3 DEF RequestInv

LEMMA RequestStep ==
  ASSUME ServiceType, LockInv, RequestInv, [Next]_vars
  PROVE  RequestInv'
<1>1. CASE \E w \in Workers : Step(w)
  <2>1. PICK w \in Workers : Step(w)  BY <1>1
  <2>2. RequestStepOf(w)  BY <2>1, StepRequest
  <2>3. \A v \in Workers : v # w => worker'[v] = worker[v]
    <3>1. OwnStep(w)  BY <2>1, StepOwnStep DEF LockInv
    <3>2. QED  BY <3>1 DEF OwnStep, ServiceType
  <2>4. ASSUME NEW v \in Workers, v # w PROVE OwnRecord(v)'
    <3>1. CASE worker[v].key \in Keys /\ worker[v].pc \in InLock
      <4>1. Of(v).mode = "exclusive"
        BY <3>1, ItemsFacts DEF LockInv, Shape, CommandIsSound
      <4>2. UNCHANGED store  BY <2>1, <2>4, <3>1, <4>1, StoreIsMine
      <4>3. QED  BY <2>3, <2>4, <4>2 DEF OwnRecord, RequestInv, store
    <3>2. CASE ~(worker[v].key \in Keys /\ worker[v].pc \in InLock)
      BY <2>3, <2>4, <3>2 DEF OwnRecord, InLock
    <3>3. QED  BY <3>1, <3>2
  <2>5. QED  BY <2>2, <2>4 DEF RequestStepOf, RequestInv
<1>2. CASE \E w \in Workers, c \in Offered, k \in Keys \cup {NoKey} :
              \E i \in IF k \in Keys THEN Inputs ELSE {0} : Arrive(w, c, k, i)
  <2>1. PICK w \in Workers, c \in Offered, k \in Keys \cup {NoKey} :
              \E i \in IF k \in Keys THEN Inputs ELSE {0} : Arrive(w, c, k, i)
    BY <1>2
  <2>2. PICK i \in Inputs \cup {0} : Arrive(w, c, k, i)
    BY <2>1
  <2>3. /\ \A v \in Workers : v # w => worker'[v] = worker[v]
        /\ worker'[w].pc \in {"status", "arrived"}
    BY <2>2, ArriveFacts
  <2>4. UNCHANGED <<record, effects, answers>> /\ last' = [last EXCEPT ![w] = NoAnswer]
    BY <2>2 DEF Arrive, store
  <2>5. \A v \in Workers : OwnRecord(v)'
    BY <2>3, <2>4 DEF OwnRecord, RequestInv
  <2>6. RetryableMeansNoEffect'
    BY <2>4 DEF RetryableMeansNoEffect, RequestInv, NoAnswer, ServiceType
  <2>7. QED  BY <2>4, <2>5, <2>6 DEF RequestInv, KeyIsSafe
<1>3. CASE \E w \in Workers, c \in Offered, k \in Keys \cup {NoKey} : Refuse(w, c, k)
  <2>1. PICK w \in Workers, c \in Offered, k \in Keys \cup {NoKey} : Refuse(w, c, k)
    BY <1>3
  <2>2. /\ UNCHANGED <<worker, record, effects, answers>>
        /\ last' = [last EXCEPT ![w] = [NoAnswer EXCEPT !.code = "refused"]]
    BY <2>1 DEF Refuse, store
  <2>3. RetryableMeansNoEffect'
    BY <2>2 DEF RetryableMeansNoEffect, RequestInv, NoAnswer, ServiceType
  <2>4. QED  BY <2>2, <2>3 DEF RequestInv, OwnRecord, KeyIsSafe
<1>4. CASE \E dying \in SUBSET Workers : Crash(dying)
  <2>1. PICK dying \in SUBSET Workers : Crash(dying)  BY <1>4
  <2>2. UNCHANGED <<record, effects, answers, last>>
    BY <2>1 DEF Crash, store
  <2>3. \A v \in Workers : worker'[v] = Idle \/ worker'[v] = worker[v]
    BY <2>1 DEF Crash
  <2>4. \A v \in Workers : OwnRecord(v)'
    BY <2>2, <2>3, IdleFacts, ServiceAssumption DEF OwnRecord, RequestInv
  <2>5. QED  BY <2>2, <2>4 DEF RequestInv, KeyIsSafe, RetryableMeansNoEffect
<1>5. CASE UNCHANGED vars
  BY <1>5 DEF vars, RequestInv, OwnRecord, KeyIsSafe, RetryableMeansNoEffect
<1>6. QED
  <2>1. CASE \E w \in Workers \ Handlers : Crash({w})
    BY <1>4, <2>1
  <2>2. CASE Crash(Handlers)
    BY <1>4, <2>2, ServiceAssumption
  <2>3. QED  BY <1>1, <1>2, <1>3, <1>5, <2>1, <2>2 DEF Next
-----------------------------------------------------------------------------
(* The transaction records. *)

(* Where a worker is about to write or writing. *)
Writing == {"lookup", "precheck", "pending", "operate", "writing"}

(* What a step that neither begins nor commits an item does to a writer. *)
Quiet(w) ==
    /\ UNCHANGED open /\ faults' \in Nat /\ faults' >= faults
    /\ worker[w].pc = "writing" => faults' > 0
    /\ worker'[w].pc # "writing"
    /\ \/ worker'[w].pc \notin Writing
       \/ worker'[w].bad # 0
       \/ /\ worker'[w].command = worker[w].command /\ worker'[w].bad = worker[w].bad
          /\ worker[w].pc \in {"lookup", "precheck", "pending"}
             \/ ~IncompleteTransactionStops(w)

LEMMA QuietFaults ==
  ServiceType => faults \in Nat
BY ServiceAssumption DEF ServiceType

LEMMA AnswerQuiet ==
  ASSUME ServiceType, NEW w \in Workers, worker' = [worker EXCEPT ![w] = Idle],
         UNCHANGED open, faults' \in Nat, faults' >= faults,
         worker[w].pc = "writing" => faults' > 0
  PROVE  Quiet(w)
<1>1. worker'[w].pc = "idle"  BY IdleFacts DEF ServiceType
<1>2. QED  BY <1>1 DEF Quiet, Writing

LEMMA FailQuiet ==
  ASSUME ServiceType, NEW w \in Workers, NEW code \in Codes, Fail(w, code), UNCHANGED store,
         worker[w].pc # "writing"
  PROVE  Quiet(w)
<1>1. worker' = [worker EXCEPT ![w] = Idle]  BY DEF Fail, Answer, Put
<1>2. faults' \in 0 .. MaxFaults /\ faults' >= faults  BY FailFacts
<1>3. faults' \in Nat  BY <1>2, ServiceAssumption
<1>4. QED  BY <1>1, <1>2, <1>3, AnswerQuiet DEF store

LEMMA StepQuiet ==
  ASSUME ServiceType, NEW w \in Workers, Step(w), ~Begin(w), ~Commit(w)
  PROVE  Quiet(w)
<1>0. worker[w] \in States /\ faults \in Nat
  BY QuietFaults DEF ServiceType
<1>1. CASE \E pc : /\ Goto(w, pc) /\ UNCHANGED <<open, faults>>
                   /\ worker[w].pc # "writing" /\ pc # "writing"
                   /\ \/ pc \notin Writing
                      \/ worker[w].pc \in {"lookup", "precheck", "pending"}
                      \/ ~IncompleteTransactionStops(w)
  <2>1. PICK pc : /\ Goto(w, pc) /\ UNCHANGED <<open, faults>>
                  /\ worker[w].pc # "writing" /\ pc # "writing"
                  /\ \/ pc \notin Writing
                     \/ worker[w].pc \in {"lookup", "precheck", "pending"}
                     \/ ~IncompleteTransactionStops(w)
    BY <1>1
  <2>2. /\ worker'[w].pc = pc /\ worker'[w].command = worker[w].command
        /\ worker'[w].bad = worker[w].bad
    BY <2>1, GotoFields
  <2>3. QED  BY <1>0, <2>1, <2>2 DEF Quiet
<1>2. CASE Acquire(w)
  <2>1. CASE CanLock(w, Of(w).mode)
    <3> DEFINE pc == IF Of(w).progress THEN "start" ELSE "guard"
    <3>1. /\ Goto(w, pc) /\ UNCHANGED <<open, faults>> /\ worker[w].pc # "writing"
      BY <1>2, <2>1 DEF Acquire, store
    <3>2. pc # "writing" /\ pc \notin Writing  BY DEF Writing
    <3>3. QED  BY <1>1, <3>1, <3>2
  <2>2. CASE ~CanLock(w, Of(w).mode)
    <3>1. /\ worker' = [worker EXCEPT ![w] = Idle] /\ UNCHANGED <<open, faults>>
          /\ worker[w].pc = "arrived"
      BY <1>2, <2>2 DEF Acquire, Answer, Put, store
    <3>2. faults' \in Nat /\ faults' >= faults  BY <1>0, <3>1
    <3>3. QED  BY <3>1, <3>2, AnswerQuiet
  <2>3. QED  BY <2>1, <2>2
<1>3. CASE Start(w) \/ Finish(w)
  <2>1. worker'[w].pc \in {"guard", "answer"}
    <3>1. CASE Start(w)
      BY <1>0, <3>1 DEF Start, Put, ServiceType, States
    <3>2. CASE Finish(w)
      BY <1>0, <3>2 DEF Finish, Put, ServiceType, States
    <3>3. QED  BY <1>3, <3>1, <3>2
  <2>2. UNCHANGED open /\ worker[w].pc # "writing"
    BY <1>3 DEF Start, Finish, store
  <2>3. faults' = faults \/ faults' = faults + 1
    BY <1>3 DEF Start, Finish, WriteSnapshot, Fault
  <2>4. QED  BY <1>0, <2>1, <2>2, <2>3 DEF Quiet, Writing
<1>4. CASE Guard(w)
  <2>1. CASE Fail(w, "transaction_incomplete")
    BY <1>4, <2>1, FailQuiet DEF Guard, Codes
  <2>2. CASE /\ ~IncompleteTransactionStops(w) /\ UNCHANGED faults
             /\ Goto(w, IF worker[w].key \in Keys THEN "lookup" ELSE "operate")
    <3> DEFINE pc == IF worker[w].key \in Keys THEN "lookup" ELSE "operate"
    <3>1. pc # "writing"  OBVIOUS
    <3>2. UNCHANGED open /\ worker[w].pc # "writing"
      BY <1>4 DEF Guard, store
    <3>3. QED  BY <1>1, <2>2, <3>1, <3>2
  <2>3. QED  BY <1>4, <2>1, <2>2 DEF Guard
<1>5. CASE Lookup(w)
  <2>0. worker[w].pc = "lookup" /\ UNCHANGED store
    BY <1>5 DEF Lookup
  <2>1. CASE /\ Put(w, [worker[w] EXCEPT !.pc = "finish", !.done = 1,
                             !.result = record[worker[w].key].result])
             /\ UNCHANGED faults
    <3>1. worker'[w].pc = "finish"
      BY <1>0, <2>1 DEF Put, ServiceType, States
    <3>2. QED  BY <1>0, <2>0, <2>1, <3>1 DEF Quiet, Writing, store
  <2>2. CASE Replay(w) # "replay" /\ Fail(w, Replay(w))
    BY <2>0, <2>2, FailQuiet, ReplayFacts
  <2>3. CASE /\ Goto(w, IF Of(w).precheck THEN "precheck" ELSE "pending") /\ UNCHANGED faults
    BY <1>1, <2>0, <2>3 DEF store
  <2>4. QED  BY <1>5, <2>1, <2>2, <2>3 DEF Lookup
<1>6. CASE Precheck(w)
  <2>1. CASE Goto(w, "pending") /\ UNCHANGED faults
    BY <1>1, <1>6, <2>1 DEF Precheck, store
  <2>2. CASE Fail(w, "invalid_request")
    BY <1>6, <2>2, FailQuiet DEF Precheck, Codes
  <2>3. QED  BY <1>6, <2>1, <2>2 DEF Precheck
<1>7. CASE WritePending(w)
  BY <1>1, <1>7 DEF WritePending
<1>8. CASE Read(w)
  <2>1. worker'[w].pc = "finish"
    BY <1>0, <1>8 DEF Read, Put, ServiceType, States
  <2>2. QED  BY <1>0, <1>8, <2>1 DEF Read, Quiet, Writing, store
<1>9. CASE OperationRejected(w)
  BY <1>9, FailQuiet DEF OperationRejected, Codes
<1>10. CASE OperationFails(w)
  <2>0. UNCHANGED open /\ faults' \in Nat /\ faults' > 0 /\ faults' >= faults
    BY <1>0, <1>10 DEF OperationFails, Fault, store
  <2> DEFINE fields == [worker[w] EXCEPT !.bad = @ + 1, !.again = FALSE]
  <2>1. CASE Put(w, Next1(w, fields))
    <3>1. worker[w].bad + 1 \in Nat /\ worker[w].bad + 1 # 0  BY <1>0 DEF States
    <3>2. fields \in States /\ fields.bad = worker[w].bad + 1
      BY <1>0, <3>1, Zenon DEF States
    <3>3. worker'[w] = Next1(w, fields)  BY <2>1 DEF Put, ServiceType
    <3> HIDE DEF fields
    <3>4. worker'[w].bad = fields.bad /\ worker'[w].pc \in {"operate", "complete", "finish"}
      BY <3>2, <3>3, Next1Facts
    <3>5. QED  BY <2>0, <3>1, <3>2, <3>4 DEF Quiet
  <2>2. CASE Answer(w, "store_error", FALSE)
    BY <2>0, <2>2, AnswerQuiet DEF Answer, Put
  <2>3. QED  BY <1>10, <2>1, <2>2 DEF OperationFails
<1>11. CASE \E retryable \in BOOLEAN : ItemRejected(w, retryable)
  <2>1. PICK retryable \in BOOLEAN : ItemRejected(w, retryable)
    BY <1>11
  <2> DEFINE fields == [worker[w] EXCEPT !.bad = @ + 1,
                          !.again = retryable /\ (worker[w].bad = 0 \/ @)]
  <2>2. worker[w].bad + 1 \in Nat /\ worker[w].bad + 1 # 0  BY <1>0 DEF States
  <2>3. fields \in States /\ fields.bad = worker[w].bad + 1
    BY <1>0, <2>2, Zenon DEF States
  <2>4. /\ worker'[w] = Next1(w, fields) /\ UNCHANGED <<open, faults>>
        /\ worker[w].pc # "writing"
    BY <2>1 DEF ItemRejected, Put, ServiceType, store
  <2> HIDE DEF fields
  <2>5. worker'[w].bad = fields.bad /\ worker'[w].pc \in {"operate", "complete", "finish"}
    BY <2>3, <2>4, Next1Facts
  <2>6. QED  BY <1>0, <2>2, <2>3, <2>4, <2>5 DEF Quiet
<1>12. CASE WriteCompleted(w)
  <2>1. CASE Goto(w, "finish") /\ UNCHANGED faults
    BY <1>1, <1>12, <2>1 DEF WriteCompleted, Writing
  <2>2. CASE Fault /\ Answer(w, "store_error", FALSE)
    <3>1. /\ worker' = [worker EXCEPT ![w] = Idle] /\ UNCHANGED open
          /\ worker[w].pc = "complete"
      BY <1>12, <2>2 DEF WriteCompleted, Answer, Put
    <3>2. faults' \in Nat /\ faults' >= faults  BY <1>0, <2>2 DEF Fault
    <3>3. QED  BY <3>1, <3>2, AnswerQuiet
  <2>3. QED  BY <1>12, <2>1, <2>2 DEF WriteCompleted
<1>13. CASE Reply(w)
  <2>1. /\ worker' = [worker EXCEPT ![w] = Idle] /\ UNCHANGED <<open, faults>>
        /\ worker[w].pc = "answer"
    BY <1>13 DEF Reply, Answer, Put, store
  <2>2. faults' \in Nat /\ faults' >= faults  BY <1>0, <2>1
  <2>3. QED  BY <2>1, <2>2, AnswerQuiet
<1>14. CASE ReadSnapshot(w) \/ StatusWithLock(w)
  <2>1. worker'[w].pc \in {"counts", "counting"}
    <3>1. CASE ReadSnapshot(w)
      BY <1>0, <3>1 DEF ReadSnapshot, Put, ServiceType, States
    <3>2. CASE StatusWithLock(w)
      BY <1>0, <3>2 DEF StatusWithLock, Put, ServiceType, States
    <3>3. QED  BY <1>14, <3>1, <3>2
  <2>2. UNCHANGED <<open, faults>> /\ worker[w].pc # "writing"
    BY <1>14 DEF ReadSnapshot, StatusWithLock, store
  <2>3. QED  BY <1>0, <2>1, <2>2 DEF Quiet, Writing
<1>15. CASE StatusWhenLocked(w) \/ StatusAnswer(w)
  BY <1>0, <1>15, AnswerQuiet DEF StatusWhenLocked, StatusAnswer, Put, store
<1>16. QED
  BY <1>2, <1>3, <1>4, <1>5, <1>6, <1>7, <1>8, <1>9, <1>10, <1>11, <1>12, <1>13, <1>14,
     <1>15 DEF Step

(* No other worker is writing while this one has the workspace. *)
LEMMA OneWriter ==
  ASSUME ServiceType, LockInv, NEW w \in Workers, NEW v \in Workers, v # w,
         worker[w].pc \in InLock, Of(w).mode = "exclusive"
  PROVE  ~Journalling(v) /\ worker[v].pc # "writing"
<1>1. lock[w] = "exclusive"  BY DEF LockInv, LockHeld
<1>2. lock[v] = "none"  BY <1>1 DEF LockInv, Exclusion
<1>3. ASSUME worker[v].pc = "writing" PROVE FALSE
  BY <1>2, <1>3 DEF LockInv, LockHeld, Shape, InLock
<1>4. QED  BY <1>3 DEF Journalling

LEMMA TransactionInit == Init => TransactionInv
<1> SUFFICES ASSUME Init PROVE TransactionInv  OBVIOUS
<1>1. \A w \in Workers : worker[w].pc = "idle"
  BY IdleFacts DEF Init
<1>2. QED  BY <1>1 DEF TransactionInv, OnlyItsOwn, Journalling, Init

LEMMA TransactionStep ==
  ASSUME ServiceType, LockInv, TransactionInv, [Next]_vars
  PROVE  TransactionInv'
<1>0. faults \in Nat /\ open \in Nat  BY QuietFaults DEF ServiceType
<1>1. CASE \E w \in Workers : Step(w)
  <2>1. PICK w \in Workers : Step(w)  BY <1>1
  <2>2. worker[w] \in States /\ \A v \in Workers : v # w => worker'[v] = worker[v]
    <3>1. OwnStep(w)  BY <2>1, StepOwnStep DEF LockInv
    <3>2. QED  BY <3>1 DEF OwnStep, ServiceType
  <2>3. ASSUME NEW v \in Workers, v # w
        PROVE  OnlyItsOwn(v)' /\ (Journalling(v)' <=> Journalling(v))
    <3>1. Journalling(v)' <=> Journalling(v)
      BY <2>2, <2>3 DEF Journalling, Of
    <3>2. CASE Of(v).mode = "exclusive" /\ worker[v].pc \in InLock
      <4>1. UNCHANGED store  BY <2>1, <2>3, <3>2, StoreIsMine
      <4>2. QED  BY <2>2, <2>3, <3>1, <4>1 DEF OnlyItsOwn, TransactionInv, store, Of
    <3>3. CASE ~(Of(v).mode = "exclusive" /\ worker[v].pc \in InLock)
      <4>1. ~Journalling(v)  BY <3>3 DEF Journalling, LockInv, Shape, InLock
      <4>2. QED  BY <2>2, <2>3, <3>1, <3>3, <4>1 DEF OnlyItsOwn, InLock, Of
    <3>4. QED  BY <3>1, <3>2, <3>3
  <2>4. OnlyItsOwn(w)  BY DEF TransactionInv
  <2>5. CASE Begin(w)
    <3>1. /\ worker[w].pc = "operate" /\ Of(w).mode = "exclusive"
          /\ open' = IF worker[w].command = "repair" THEN 0
                     ELSE IF Of(w).journal THEN open + 1 ELSE open
          /\ UNCHANGED faults
      BY <2>5 DEF Begin
    <3>2. /\ worker'[w].pc = "writing" /\ worker'[w].command = worker[w].command
          /\ worker'[w].bad = worker[w].bad
      BY <2>2, <2>5 DEF Begin, Put, ServiceType, States
    <3>3. Of(w)' = Of(w)  BY <3>2 DEF Of
    <3>4. worker[w].command = "repair" => ~Of(w).journal
      BY CommandFacts DEF Of
    <3>5. Journalling(w)' <=> Of(w).journal
      BY <3>2, <3>3 DEF Journalling
    <3>6. ~Journalling(w)  BY <3>1 DEF Journalling
    <3>7. OnlyItsOwn(w)'
      BY <1>0, <2>4, <3>1, <3>2, <3>3, <3>4, <3>5, <3>6 DEF OnlyItsOwn
    <3>8. \A v \in Workers : v # w => ~Journalling(v)
      BY <3>1, OneWriter DEF InLock
    <3>9. ASSUME faults = 0
          PROVE  open' = IF \E u \in Workers : Journalling(u)' THEN 1 ELSE 0
      <4>1. open = 0  BY <3>6, <3>8, <3>9 DEF TransactionInv
      <4>2. CASE Of(w).journal
        BY <3>1, <3>4, <3>5, <4>1, <4>2
      <4>3. CASE ~Of(w).journal
        BY <2>3, <3>1, <3>5, <3>8, <4>1, <4>3
      <4>4. QED  BY <4>2, <4>3
    <3>10. QED  BY <2>3, <3>1, <3>7, <3>9 DEF TransactionInv
  <2>6. CASE Commit(w)
    <3>1. /\ worker[w].pc = "writing" /\ UNCHANGED faults
          /\ open' = IF Of(w).journal THEN open - 1 ELSE open
      BY <2>6 DEF Commit
    <3> DEFINE fields == [worker[w] EXCEPT !.done = @ + 1]
    <3>2. /\ fields \in States /\ fields.command = worker[w].command
          /\ fields.bad = worker[w].bad
      BY <2>2 DEF States
    <3>3. worker'[w] = Next1(w, fields)
      BY <2>6 DEF Commit, Put, ServiceType
    <3> HIDE DEF fields
    <3>4. /\ worker'[w].pc \in {"operate", "complete", "finish"}
          /\ worker'[w].command = worker[w].command /\ worker'[w].bad = worker[w].bad
      BY <3>2, <3>3, Next1Facts
    <3>5. Of(w)' = Of(w)  BY <3>4 DEF Of
    <3>6. ~Journalling(w)' /\ (Journalling(w) <=> Of(w).journal)
      BY <3>1, <3>4 DEF Journalling
    <3>7. OnlyItsOwn(w)'
      BY <1>0, <2>4, <3>1, <3>4, <3>5, <3>6 DEF OnlyItsOwn
    <3>8. Of(w).mode = "exclusive"
      BY <3>1 DEF LockInv, Shape
    <3>9. \A v \in Workers : v # w => ~Journalling(v)
      BY <3>1, <3>8, OneWriter DEF InLock
    <3>10. ASSUME faults = 0
           PROVE  open' = IF \E u \in Workers : Journalling(u)' THEN 1 ELSE 0
      <4>1. ~\E u \in Workers : Journalling(u)'
        BY <2>3, <3>6, <3>9
      <4>2. open = IF Of(w).journal THEN 1 ELSE 0
        BY <3>6, <3>9, <3>10 DEF TransactionInv
      <4>3. QED  BY <3>1, <4>1, <4>2
    <3>11. QED  BY <2>3, <3>1, <3>7, <3>10 DEF TransactionInv
  <2>7. CASE ~Begin(w) /\ ~Commit(w)
    <3>1. Quiet(w)  BY <2>1, <2>7, StepQuiet
    <3>2. ~Journalling(w)'  BY <3>1 DEF Quiet, Journalling
    <3>3. OnlyItsOwn(w)'
      <4>1. CASE worker'[w].pc \notin Writing \/ worker'[w].bad # 0
        BY <3>2, <4>1 DEF OnlyItsOwn, Writing
      <4>2. CASE /\ worker'[w].command = worker[w].command /\ worker'[w].bad = worker[w].bad
                 /\ worker[w].pc \in {"lookup", "precheck", "pending"}
        BY <2>4, <3>1, <3>2, <4>2 DEF OnlyItsOwn, Journalling, Quiet, Of
      <4>3. CASE /\ worker'[w].command = worker[w].command
                 /\ ~IncompleteTransactionStops(w)
        <5>1. Of(w)' = Of(w) /\ open' = open  BY <3>1, <4>3 DEF Of, Quiet
        <5>2. Of(w).mode = "exclusive" /\ worker[w].command # "repair" => open = 0
          BY <1>0, <4>3 DEF IncompleteTransactionStops
        <5>3. QED  BY <3>2, <4>3, <5>1, <5>2 DEF OnlyItsOwn
      <4>4. QED  BY <3>1, <4>1, <4>2, <4>3 DEF Quiet
    <3>4. ASSUME faults' = 0
          PROVE  open' = IF \E u \in Workers : Journalling(u)' THEN 1 ELSE 0
      <4>1. faults = 0 /\ open' = open /\ ~Journalling(w)
        BY <1>0, <3>1, <3>4 DEF Quiet, Journalling
      <4>2. (\E u \in Workers : Journalling(u)') <=> (\E u \in Workers : Journalling(u))
        BY <2>3, <3>2, <4>1
      <4>3. QED  BY <4>1, <4>2 DEF TransactionInv
    <3>5. QED  BY <2>3, <3>3, <3>4 DEF TransactionInv
  <2>8. QED  BY <2>5, <2>6, <2>7
<1>2. CASE \E w \in Workers, c \in Offered, k \in Keys \cup {NoKey} :
              \E i \in IF k \in Keys THEN Inputs ELSE {0} : Arrive(w, c, k, i)
  <2>1. PICK w \in Workers, c \in Offered, k \in Keys \cup {NoKey} :
              \E i \in IF k \in Keys THEN Inputs ELSE {0} : Arrive(w, c, k, i)
    BY <1>2
  <2>2. PICK i \in Inputs \cup {0} : Arrive(w, c, k, i)
    BY <2>1
  <2>3. /\ \A v \in Workers : v # w => worker'[v] = worker[v]
        /\ worker'[w].pc \in {"status", "arrived"}
    BY <2>2, ArriveFacts
  <2>4. UNCHANGED <<open, faults>> /\ worker[w].pc = "idle"
    BY <2>2 DEF Arrive, store
  <2>5. \A v \in Workers : Journalling(v)' <=> Journalling(v)
    BY <2>3, <2>4 DEF Journalling, Of
  <2>6. \A v \in Workers : OnlyItsOwn(v)'
    BY <2>3, <2>4, <2>5 DEF OnlyItsOwn, TransactionInv, Of
  <2>7. QED  BY <2>4, <2>5, <2>6 DEF TransactionInv
<1>3. CASE \/ \E w \in Workers, c \in Offered, k \in Keys \cup {NoKey} : Refuse(w, c, k)
           \/ UNCHANGED vars
  <2>1. UNCHANGED <<worker, open, faults>>
    BY <1>3 DEF Refuse, vars, store
  <2>2. QED  BY <2>1 DEF TransactionInv, OnlyItsOwn, Journalling, Of
<1>4. CASE \E dying \in SUBSET Workers : Crash(dying)
  <2>1. PICK dying \in SUBSET Workers : Crash(dying)  BY <1>4
  <2>2. UNCHANGED open /\ faults' # 0
    BY <1>0, <2>1 DEF Crash, Fault, store
  <2>3. \A v \in Workers : worker'[v] = Idle \/ worker'[v] = worker[v]
    BY <2>1 DEF Crash
  <2>4. \A v \in Workers : OnlyItsOwn(v)'
    BY <2>2, <2>3, IdleFacts DEF OnlyItsOwn, TransactionInv, Journalling, Of
  <2>5. QED  BY <2>2, <2>4 DEF TransactionInv
<1>5. QED
  <2>1. CASE \E w \in Workers \ Handlers : Crash({w})
    BY <1>4, <2>1
  <2>2. CASE Crash(Handlers)
    BY <1>4, <2>2, ServiceAssumption
  <2>3. QED  BY <1>1, <1>2, <1>3, <2>1, <2>2 DEF Next
-----------------------------------------------------------------------------
(* The progress snapshot. *)

(* Only the start of a command says that it runs. *)
LEMMA OnlyStartRuns ==
  ASSUME ServiceType, NEW w \in Workers, Step(w), ~Start(w)
  PROVE  UNCHANGED snapshot \/ snapshot'.status # "running"
<1>1. ASSUME NEW status \in Statuses \ {"running"}, WriteSnapshot(w, status)
      PROVE  UNCHANGED snapshot \/ snapshot'.status # "running"
  BY <1>1 DEF WriteSnapshot
<1>2. ASSUME NEW code, Fail(w, code)
      PROVE  UNCHANGED snapshot \/ snapshot'.status # "running"
  BY <1>1, <1>2 DEF Fail, Statuses
<1>3. CASE Finish(w)
  BY <1>1, <1>3, OutcomeFacts DEF Finish
<1>4. CASE Guard(w) \/ Lookup(w) \/ Precheck(w) \/ OperationRejected(w)
  BY <1>2, <1>4 DEF Guard, Lookup, Precheck, OperationRejected
<1>5. CASE OperationFails(w)
  <2>1. snapshot' \in {snapshot, [status |-> "failed", by |-> w]} \/ UNCHANGED snapshot
    <3>1. CASE Of(w).progress
      BY <1>5, <3>1 DEF OperationFails
    <3>2. CASE ~Of(w).progress
      BY <1>5, <3>2 DEF OperationFails
    <3>3. QED  BY <3>1, <3>2
  <2>2. QED  BY <2>1
<1>6. CASE \/ Acquire(w) \/ WritePending(w) \/ Begin(w) \/ Commit(w) \/ Read(w)
           \/ \E retryable \in BOOLEAN : ItemRejected(w, retryable)
           \/ WriteCompleted(w) \/ Reply(w) \/ ReadSnapshot(w) \/ StatusWhenLocked(w)
           \/ StatusWithLock(w) \/ StatusAnswer(w)
  BY <1>6 DEF Acquire, WritePending, Begin, Commit, Read, ItemRejected, WriteCompleted,
       Reply, ReadSnapshot, StatusWhenLocked, StatusWithLock, StatusAnswer
<1>7. QED  BY <1>3, <1>4, <1>5, <1>6 DEF Step

Reporting == {"guard", "operate", "writing", "finish"}

(* A command that reports progress leaves its steps only by closing its      *)
(* snapshot.                                                                 *)
LEMMA OwnerCloses ==
  ASSUME ServiceType, NEW w \in Workers, Shape(w), Step(w), Of(w).progress,
         worker[w].pc \in Reporting, faults' = faults, snapshot'.status = "running"
  PROVE  worker'[w].pc \in Reporting /\ worker'[w].command = worker[w].command
<1>0. worker[w] \in States /\ faults \in Nat /\ snapshot'.status # "failed"
  BY QuietFaults DEF ServiceType
<1>1. worker[w].key \notin Keys /\ Of(w).mode = "exclusive"
  BY ItemsFacts DEF Shape, CommandIsSound
<1>2. ASSUME NEW code \in Codes, Fail(w, code) PROVE FALSE
  BY <1>0, <1>2, FailFacts
<1>3. ASSUME NEW pc \in Reporting, Goto(w, pc)
      PROVE  worker'[w].pc \in Reporting /\ worker'[w].command = worker[w].command
  BY <1>3, GotoFields
<1>4. ASSUME NEW fields \in States, worker'[w] = Next1(w, fields),
             fields.command = worker[w].command, fields.key = worker[w].key
      PROVE  worker'[w].pc \in Reporting /\ worker'[w].command = worker[w].command
  BY <1>1, <1>4, Next1Facts DEF Reporting
<1>5. CASE Guard(w)
  BY <1>1, <1>2, <1>3, <1>5 DEF Guard, Reporting, Codes
<1>6. CASE Begin(w)
  BY <1>0, <1>6 DEF Begin, Put, ServiceType, States, Reporting
<1>7. CASE Commit(w)
  <2> DEFINE fields == [worker[w] EXCEPT !.done = @ + 1]
  <2>1. /\ fields \in States /\ fields.command = worker[w].command
        /\ fields.key = worker[w].key
    BY <1>0 DEF States
  <2>2. worker'[w] = Next1(w, fields)
    BY <1>7 DEF Commit, Put, ServiceType
  <2> HIDE DEF fields
  <2>3. QED  BY <1>4, <2>1, <2>2
<1>8. CASE OperationRejected(w)
  BY <1>2, <1>8 DEF OperationRejected, Codes
<1>9. CASE OperationFails(w)
  BY <1>0, <1>9 DEF OperationFails, Fault
<1>10. CASE \E retryable \in BOOLEAN : ItemRejected(w, retryable)
  <2>1. PICK retryable \in BOOLEAN : ItemRejected(w, retryable)
    BY <1>10
  <2> DEFINE fields == [worker[w] EXCEPT !.bad = @ + 1,
                          !.again = retryable /\ (worker[w].bad = 0 \/ @)]
  <2>2. worker[w].bad + 1 \in Nat  BY <1>0 DEF States
  <2>3. /\ fields \in States /\ fields.command = worker[w].command
        /\ fields.key = worker[w].key
    BY <1>0, <2>2, Zenon DEF States
  <2>4. worker'[w] = Next1(w, fields)
    BY <2>1 DEF ItemRejected, Put, ServiceType
  <2> HIDE DEF fields
  <2>5. QED  BY <1>4, <2>3, <2>4
<1>11. CASE Read(w)
  BY <1>1, <1>11 DEF Read
<1>12. CASE Finish(w)
  <2>1. WriteSnapshot(w, FinalStatus(w))  BY <1>12 DEF Finish
  <2>2. FinalStatus(w) # "running" /\ FinalStatus(w) \in Statuses  BY OutcomeFacts
  <2>3. QED  BY <2>1, <2>2, SnapshotFacts
<1>13. QED
  BY <1>5, <1>6, <1>7, <1>8, <1>9, <1>10, <1>11, <1>12
  DEF Step, Acquire, Start, Lookup, Precheck, WritePending, WriteCompleted, Reply,
      ReadSnapshot, StatusWhenLocked, StatusWithLock, StatusAnswer, Reporting

LEMMA SnapshotInit == Init => SnapshotInv
BY DEF Init, SnapshotInv

LEMMA SnapshotStep ==
  ASSUME ServiceType, LockInv, SnapshotInv, [Next]_vars
  PROVE  SnapshotInv'
<1> SUFFICES ASSUME snapshot'.status = "running", faults' = 0
             PROVE  /\ snapshot'.by \in Workers
                    /\ worker'[snapshot'.by].pc \in Reporting
                    /\ Command[worker'[snapshot'.by].command].progress
  BY DEF SnapshotInv, Reporting, Of
<1>0. faults \in Nat  BY QuietFaults
<1>1. CASE \E w \in Workers : Step(w)
  <2>1. PICK w \in Workers : Step(w)  BY <1>1
  <2>2. /\ Shape(w) /\ worker[w] \in States
        /\ \A v \in Workers : v # w => worker'[v] = worker[v]
    <3>1. OwnStep(w)  BY <2>1, StepOwnStep DEF LockInv
    <3>2. QED  BY <3>1 DEF OwnStep, ServiceType, LockInv
  <2>3. faults = 0
    <3>1. CASE Begin(w) \/ Commit(w)
      BY <3>1 DEF Begin, Commit
    <3>2. CASE ~Begin(w) /\ ~Commit(w)
      <4>1. Quiet(w)  BY <2>1, <3>2, StepQuiet
      <4>2. QED  BY <1>0, <4>1 DEF Quiet
    <3>3. QED  BY <3>1, <3>2
  <2>4. CASE Start(w)
    <3>1. WriteSnapshot(w, "running") /\ "running" \in Statuses /\ worker[w].pc = "start"
      BY <2>4 DEF Start, Statuses
    <3>2. snapshot'.by = w  BY <2>3, <3>1, SnapshotFacts
    <3>3. worker'[w].pc = "guard" /\ worker'[w].command = worker[w].command
      BY <2>2, <2>4 DEF Start, Put, ServiceType, States
    <3>4. Of(w).progress  BY <2>2, <3>1 DEF Shape
    <3>5. QED  BY <3>2, <3>3, <3>4 DEF Reporting, Of
  <2>5. CASE ~Start(w)
    <3>1. UNCHANGED snapshot  BY <2>1, <2>5, OnlyStartRuns
    <3>2. /\ snapshot.by \in Workers /\ worker[snapshot.by].pc \in Reporting
          /\ Of(snapshot.by).progress
      BY <2>3, <3>1 DEF SnapshotInv, Reporting
    <3>3. CASE snapshot.by = w
      BY <2>1, <2>2, <2>3, <3>1, <3>2, <3>3, OwnerCloses DEF Of
    <3>4. CASE snapshot.by # w
      BY <2>2, <3>1, <3>2, <3>4 DEF Of
    <3>5. QED  BY <3>3, <3>4
  <2>6. QED  BY <2>4, <2>5
<1>2. CASE \E w \in Workers, c \in Offered, k \in Keys \cup {NoKey} :
              \E i \in IF k \in Keys THEN Inputs ELSE {0} : Arrive(w, c, k, i)
  <2>1. PICK w \in Workers, c \in Offered, k \in Keys \cup {NoKey} :
              \E i \in IF k \in Keys THEN Inputs ELSE {0} : Arrive(w, c, k, i)
    BY <1>2
  <2>2. PICK i \in Inputs \cup {0} : Arrive(w, c, k, i)
    BY <2>1
  <2>3. \A v \in Workers : v # w => worker'[v] = worker[v]
    BY <2>2, ArriveFacts
  <2>4. UNCHANGED <<snapshot, faults>> /\ worker[w].pc = "idle"
    BY <2>2 DEF Arrive
  <2>5. QED  BY <2>3, <2>4 DEF SnapshotInv, Reporting, Of
<1>3. CASE \/ \E w \in Workers, c \in Offered, k \in Keys \cup {NoKey} : Refuse(w, c, k)
           \/ UNCHANGED vars
  <2>1. UNCHANGED <<worker, snapshot, faults>>
    BY <1>3 DEF Refuse, vars
  <2>2. QED  BY <2>1 DEF SnapshotInv, Reporting, Of
<1>4. CASE \E dying \in SUBSET Workers : Crash(dying)
  BY <1>0, <1>4 DEF Crash, Fault
<1>5. QED
  <2>1. CASE \E w \in Workers \ Handlers : Crash({w})
    BY <1>4, <2>1
  <2>2. CASE Crash(Handlers)
    BY <1>4, <2>2, ServiceAssumption
  <2>3. QED  BY <1>1, <1>2, <1>3, <2>1, <2>2 DEF Next
-----------------------------------------------------------------------------
(* The theorems. *)

(* A set whose members are all one value. *)
LEMMA AtMostOne ==
  ASSUME NEW S, NEW x, \A a \in S : a = x
  PROVE  Cardinality(S) = IF S = {} THEN 0 ELSE 1
<1>1. CASE S = {}
  BY <1>1, FS_EmptySet
<1>2. CASE S # {}
  <2>1. S = {x}  BY <1>2
  <2>2. Cardinality({x}) = 1  BY FS_Singleton
  <2>3. QED  BY <1>2, <2>1, <2>2
<1>3. QED  BY <1>1, <1>2

LEMMA ServiceInvInit == Init => ServiceInv
BY ServiceTypeInit, LockInit, RequestInit, TransactionInit, SnapshotInit DEF ServiceInv

LEMMA ServiceTypeStep ==
  ASSUME ServiceInv, [Next]_vars
  PROVE  ServiceType'
<1> USE DEF ServiceInv
<1>1. CASE \E w \in Workers : Step(w)
  BY <1>1, StepType DEF LockInv, TransactionInv
<1>2. CASE \E w \in Workers, c \in Offered, k \in Keys \cup {NoKey} :
              \E i \in IF k \in Keys THEN Inputs ELSE {0} : Arrive(w, c, k, i)
  <2>1. PICK w \in Workers, c \in Offered, k \in Keys \cup {NoKey} :
              \E i \in IF k \in Keys THEN Inputs ELSE {0} : Arrive(w, c, k, i)
    BY <1>2
  <2>2. PICK i \in Inputs \cup {0} : Arrive(w, c, k, i)
    BY <2>1
  <2>3. QED  BY <2>2, ArriveType
<1>3. CASE \E w \in Workers, c \in Offered, k \in Keys \cup {NoKey} : Refuse(w, c, k)
  BY <1>3, RefuseType
<1>4. CASE \/ \E w \in Workers \ Handlers : Crash({w})
           \/ Crash(Handlers)
  BY <1>4, CrashType
<1>5. CASE UNCHANGED vars
  BY <1>5 DEF vars, ServiceType
<1>6. QED  BY <1>1, <1>2, <1>3, <1>4, <1>5 DEF Next

LEMMA ServiceInvStep == ServiceInv /\ [Next]_vars => ServiceInv'
<1> SUFFICES ASSUME ServiceInv, [Next]_vars PROVE ServiceInv'
  OBVIOUS
<1>1. ServiceType'  BY ServiceTypeStep
<1>2. LockInv'  BY LockStep DEF ServiceInv
<1>3. RequestInv'  BY RequestStep DEF ServiceInv
<1>4. TransactionInv'  BY TransactionStep DEF ServiceInv
<1>5. SnapshotInv'  BY SnapshotStep DEF ServiceInv
<1>6. QED  BY <1>1, <1>2, <1>3, <1>4, <1>5 DEF ServiceInv

LEMMA ServiceInvHolds == Spec => []ServiceInv
BY ServiceInvInit, ServiceInvStep, PTL DEF Spec

(* A client may repeat a request: however many processes and handlers take   *)
(* it, and whatever crashes or fails between the pending record, the two     *)
(* writes and the completed record, the operation of a request id is begun   *)
(* at most once, every success told of it is that one, for the same input,   *)
(* and retryable is said only of a call that changed nothing.                *)
THEOREM RequestsMayBeRetried == Spec => []RetryIsSafe
<1>1. ServiceInv => RetryIsSafe
  <2> SUFFICES ASSUME ServiceInv PROVE RetryIsSafe  OBVIOUS
  <2>1. EffectAtMostOnce
    BY DEF ServiceInv, RequestInv, KeyIsSafe, EffectAtMostOnce
  <2>2. ASSUME NEW k \in Keys PROVE Cardinality(answers[k]) <= 1
    <3>1. \A a \in answers[k] : a = <<record[k].input, record[k].result>>
      BY DEF ServiceInv, RequestInv, KeyIsSafe
    <3>2. Cardinality(answers[k]) = IF answers[k] = {} THEN 0 ELSE 1
      BY <3>1, AtMostOne
    <3>3. QED  BY <3>2
  <2>3. ReplayIsTheFirstResult
    BY <2>2 DEF ServiceInv, RequestInv, KeyIsSafe, ReplayIsTheFirstResult
  <2>4. QED  BY <2>1, <2>3 DEF ServiceInv, RequestInv, RetryIsSafe
<1>2. QED  BY <1>1, ServiceInvHolds, PTL

(* No command sees or continues the half-done work of another: a shared lock *)
(* keeps every writer out of the middle of its operation, a transaction      *)
(* record without a live owner comes only from a crash or a failed write,    *)
(* and over it nothing is begun but a repair or the batch that left it.      *)
THEOREM WorkIsIsolated == Spec => []WritesAreIsolated
<1>1. ServiceInv => WritesAreIsolated
  <2> SUFFICES ASSUME ServiceInv PROVE WritesAreIsolated  OBVIOUS
  <2>1. NoReaderDuringAWrite
    <3> SUFFICES ASSUME NEW v \in Workers, NEW w \in Workers, worker[v].pc = "writing",
                        worker[w].pc = "counting"
                          \/ (Of(w).mode = "shared" /\ worker[w].pc \in {"operate", "finish"})
                 PROVE  v = w
      BY DEF NoReaderDuringAWrite
    <3>1. lock[v] = "exclusive" /\ lock[w] = "shared"
      BY DEF ServiceInv, LockInv, LockHeld, Shape, InLock
    <3>2. QED  BY <3>1 DEF ServiceInv, LockInv, Exclusion
  <2>2. IncompleteMeansFault
    <3> DEFINE writers == {w \in Workers : worker[w].pc = "writing" /\ Of(w).journal}
               own == Cardinality(writers)
    <3>1. \A v, w \in Workers : worker[v].pc = "writing" /\ worker[w].pc = "writing" => v = w
      BY OneWriter DEF ServiceInv, LockInv, Shape, InLock
    <3>2. own = IF writers = {} THEN 0 ELSE 1
      <4>1. \E x : \A a \in writers : a = x  BY <3>1
      <4> HIDE DEF writers
      <4>2. \A x : (\A a \in writers : a = x)
                      => Cardinality(writers) = IF writers = {} THEN 0 ELSE 1
        BY AtMostOne
      <4>3. QED  BY <4>1, <4>2
    <3>3. writers = {} <=> ~\E w \in Workers : Journalling(w)
      BY DEF Journalling
    <3>4. open \in Nat /\ faults \in Nat
      BY QuietFaults DEF ServiceInv, ServiceType
    <3>5. own <= open
      BY <3>2, <3>3, <3>4 DEF ServiceInv, TransactionInv, OnlyItsOwn
    <3>6. open > own => faults > 0
      BY <3>2, <3>3, <3>4 DEF ServiceInv, TransactionInv
    <3>7. ASSUME open > own, NEW w \in Workers, worker[w].pc = "writing"
          PROVE  worker[w].command = "repair" \/ worker[w].bad > 0
      <4>1. Journalling(w) <=> writers # {}
        BY <3>1, <3>7 DEF Journalling
      <4>2. open # IF Journalling(w) THEN 1 ELSE 0
        BY <3>2, <3>4, <3>7, <4>1
      <4>3. Of(w).mode = "exclusive" /\ worker[w].bad \in Nat
        BY <3>7 DEF ServiceInv, LockInv, Shape, ServiceType, States
      <4>4. worker[w].command = "repair" \/ worker[w].bad # 0
        BY <3>7, <4>2, <4>3 DEF ServiceInv, TransactionInv, OnlyItsOwn
      <4>5. QED  BY <4>3, <4>4
    <3>8. QED  BY <3>5, <3>6, <3>7 DEF IncompleteMeansFault
  <2>3. QED  BY <2>1, <2>2 DEF WritesAreIsolated
<1>2. QED  BY <1>1, ServiceInvHolds, PTL

(* What afmail status says about the running command is so: a snapshot that  *)
(* says running has an owner that holds the workspace and will close it      *)
(* unless something died or failed, and it is called stale only while no     *)
(* command that reports progress has the workspace.                          *)
THEOREM StatusTellsTheTruth == Spec => []StatusIsTruthful
<1>1. ServiceInv => StatusIsTruthful
  <2> SUFFICES ASSUME ServiceInv PROVE StatusIsTruthful  OBVIOUS
  <2>1. RunningIsNotAbandoned
    <3> SUFFICES ASSUME snapshot.status = "running", faults = 0
                 PROVE  lock[snapshot.by] = "exclusive" /\ Of(snapshot.by).progress
      BY DEF RunningIsNotAbandoned
    <3>1. /\ snapshot.by \in Workers /\ worker[snapshot.by].pc \in InLock
          /\ Of(snapshot.by).progress
      BY DEF ServiceInv, SnapshotInv, InLock
    <3>2. Of(snapshot.by).mode = "exclusive"
      BY <3>1, ItemsFacts DEF ServiceInv, CommandIsSound
    <3>3. QED  BY <3>1, <3>2 DEF ServiceInv, LockInv, LockHeld
  <2>2. StaleMeansNobodyRuns
    <3> SUFFICES ASSUME NEW w \in Workers, worker[w].pc = "counting",
                        NEW v \in Workers, lock[v] = "exclusive"
                 PROVE  FALSE
      BY DEF StaleMeansNobodyRuns
    <3>1. lock[w] = "shared"
      BY DEF ServiceInv, LockInv, LockHeld, InLock
    <3>2. QED  BY <3>1 DEF ServiceInv, LockInv, Exclusion
  <2>3. QED  BY <2>1, <2>2 DEF StatusIsTruthful
<1>2. QED  BY <1>1, ServiceInvHolds, PTL
=============================================================================
