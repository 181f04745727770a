---------------------------- MODULE MessagePush ----------------------------
(***************************************************************************)
(* Message actions of the push queue: "spam" and "unspam" put one item per *)
(* message in .afmail/push, and "push --confirm" carries the items out on  *)
(* the IMAP server, in queue order, one step after the other and one       *)
(* location of the message after the other.  A message may have a copy in  *)
(* several mailboxes, a server may lack MOVE (then COPY, STORE \Deleted    *)
(* and UID EXPUNGE are used) and may not report the UID of the moved       *)
(* message; requests are rejected, answers are lost, the process dies, and *)
(* other mail clients move and delete copies meanwhile.                    *)
(*                                                                         *)
(* A location is <<mailbox, uid>>; the UIDVALIDITY of the code is part of  *)
(* uid here: a number is never used twice in one mailbox.                  *)
(***************************************************************************)
EXTENDS Integers, Sequences, FiniteSets

CONSTANTS Messages,     \* canonical message ids, as integers: ties of the
                        \* queue order are broken by push id
          Copies,       \* [Messages -> SUBSET locations]: on the server at start
          HighestUid,   \* [Mailboxes -> Nat]: given out by the server before
          None,
          MaxCommands,  \* bound on spam and unspam commands
          MaxFaults,    \* bound on rejected, lost and unanswered requests and crashes
          MaxForeign    \* bound on changes made by other clients

Mailboxes == {"inbox", "work", "junk"}
Locations == Mailboxes \X Nat

ASSUME MessagePushAssumption ==
  /\ Messages \subseteq Nat /\ IsFiniteSet(Messages) /\ Messages # {}
  /\ Copies \in [Messages -> SUBSET Locations]
  /\ HighestUid \in [Mailboxes -> Nat]
  /\ \A m \in Messages :
        IsFiniteSet(Copies[m]) /\ \A l \in Copies[m] : l[2] <= HighestUid[l[1]]
  /\ MaxCommands \in Nat /\ MaxFaults \in Nat /\ MaxForeign \in Nat

VARIABLES status,    \* canonical status of a message, "triage" or "spam"
          loc,       \* active remote locations in messages/<id>.json
          item,      \* .afmail/push/push_message_<id>.json, or None
          at,        \* copies on the server
          last,      \* last UID of each mailbox on the server
          hasMove,   \* the server advertises MOVE
          run,       \* the push command under way, or None
          earlier,   \* the messages whose item was queued before that of m
          commands, faults, foreign

vars == <<status, loc, item, at, last, hasMove, run, earlier, commands, faults, foreign>>
server == <<at, last, hasMove>>
bounds == <<commands, faults, foreign>>

Actions == {"spam", "unspam"}

\* The configured steps of an action and the mailbox its move goes to.
Steps == [a \in Actions |-> IF a = "spam" THEN <<"flags", "move">> ELSE <<"move">>]
Target == [a \in Actions |-> IF a = "spam" THEN "junk" ELSE "inbox"]

\* "new" is Pending without started_rfc3339, "pending" is Pending with it.
StepStatus == {"new", "pending", "failed", "unknown", "succeeded"}
ErrorCodes == {"none", "target_uid_missing", "other"}
Items == [action : Actions, seq : Nat, plan : SUBSET Locations,
          st : Seq(StepStatus), code : ErrorCodes, audit : BOOLEAN]
Phases == {"item", "mark", "flags", "move", "expunge", "relocate"}
Runs == [todo : Seq(Messages), phase : Phases, left : SUBSET Locations,
         from : Locations \cup {None}, to : Locations \cup {None}]

\* None stands for a file, a command or a location that is not there.
ASSUME NoneAssumption ==
  None \notin Messages /\ None \notin Locations /\ None \notin Items /\ None \notin Runs

-----------------------------------------------------------------------------
(* The queue *)

Queued == {m \in Messages : item[m] # None}
HasStartedEffects(i) == i.audit \/ \E k \in DOMAIN i.st : i.st[k] # "new"

\* Locations an action is planned for: spam leaves out those in Junk, unspam
\* takes only those.
PlanLocations(m, a) == {l \in loc[m] : (l[1] = "junk") = (a = "unspam")}

\* Bug: the length of the queue instead of its largest number.
NextEnqueueSeq_Bug(q) == 1 + Cardinality({m \in Messages : q[m] # None})

NextEnqueueSeq(q) ==
  1 + (LET seqs == {q[m].seq : m \in {n \in Messages : q[n] # None}} IN
       IF seqs = {} THEN 0 ELSE CHOOSE s \in seqs : \A t \in seqs : t <= s)

NewItem(a, seq) == [action |-> a, seq |-> seq, plan |-> {},
                    st |-> [k \in DOMAIN Steps[a] |-> "new"], code |-> "none", audit |-> FALSE]

\* Nothing is queued for a message without a location; a message that has an
\* item keeps its number, and its progress if the action is the same.
QueueActionSteps(q, m, a) ==
  IF PlanLocations(m, a) = {} \/ (q[m] # None /\ q[m].action = a) THEN q
  ELSE [q EXCEPT ![m] = NewItem(a, IF q[m] # None THEN q[m].seq ELSE NextEnqueueSeq(q))]

Leave(S) == [m \in Messages |-> IF m \in S THEN {} ELSE earlier[m] \ S]

\* A removed item that is queued again comes after all others.
Arrivals(m, removed, q) ==
  IF q[m] = None THEN Leave({m})
  ELSE IF item[m] # None /\ ~removed THEN earlier
  ELSE [Leave({m}) EXCEPT ![m] = Queued \ {m}]

Command == run = None /\ commands < MaxCommands /\ commands' = commands + 1

SpamMessage(m) ==
  /\ Command
  /\ item[m] # None => item[m].action = "unspam" /\ ~HasStartedEffects(item[m])
  /\ item' = QueueActionSteps([item EXCEPT ![m] = None], m, "spam")
  /\ earlier' = Arrivals(m, TRUE, item')
  /\ status' = [status EXCEPT ![m] = "spam"]
  /\ UNCHANGED <<loc, server, run, faults, foreign>>

UnspamMessage(m) ==
  LET undone == item[m] # None /\ item[m].action = "spam" IN
  /\ Command
  /\ status[m] = "spam" \/ PlanLocations(m, "unspam") # {}
  /\ undone => ~HasStartedEffects(item[m])
  /\ item' = QueueActionSteps(IF undone THEN [item EXCEPT ![m] = None] ELSE item, m, "unspam")
  /\ earlier' = Arrivals(m, undone, item')
  /\ status' = [status EXCEPT ![m] = "triage"]
  /\ UNCHANGED <<loc, server, run, faults, foreign>>

-----------------------------------------------------------------------------
(* push --confirm: the plan *)

ValidStatus(m) == status[m] = IF item[m].action = "spam" THEN "spam" ELSE "triage"

\* An item that has started keeps the plan it was reviewed with.
PlanItem(m) == IF HasStartedEffects(item[m]) THEN item[m].audit \/ item[m].plan # {}
               ELSE PlanLocations(m, item[m].action) # {}
PlanBuilds == \A m \in Queued :
  IF HasStartedEffects(item[m]) THEN item[m].audit \/ item[m].plan # {} ELSE ValidStatus(m)

Precedes(m, n) == item[m].seq < item[n].seq \/ (item[m].seq = item[n].seq /\ m < n)
SortedItems(S) ==
  [i \in 1 .. Cardinality(S) |->
     CHOOSE m \in S : Cardinality({n \in S : Precedes(n, m)}) = i - 1]

AtItem(todo) == IF todo = <<>> THEN None
                ELSE [todo |-> todo, phase |-> "item", left |-> {}, from |-> None, to |-> None]

\* Items that are no longer planned are deleted from the queue.
BeginPush ==
  /\ run = None /\ Queued # {} /\ PlanBuilds
  /\ LET planned == {m \in Queued : PlanItem(m)} IN
     /\ item' = [m \in Messages |-> IF m \in planned THEN item[m] ELSE None]
     /\ earlier' = Leave(Messages \ planned)
     /\ run' = AtItem(SortedItems(planned))
  /\ UNCHANGED <<status, loc, server, bounds>>

-----------------------------------------------------------------------------
(* push --confirm: the steps of the item at the head *)

M == Head(run.todo)
Item == item[M]
Running(p) == run # None /\ run.phase = p
Box == Target[Item.action]

\* The first step that has not succeeded; one past the end if all have.
Step == CHOOSE k \in 1 .. Len(Item.st) + 1 :
          /\ k <= Len(Item.st) => Item.st[k] # "succeeded"
          /\ \A j \in 1 .. k - 1 : Item.st[j] = "succeeded"
AllSucceeded == Step > Len(Item.st)

Mark(s, c) == item' = [item EXCEPT ![M].st[Step] = s, ![M].code = c]
Goto(p, L) == run' = [run EXCEPT !.phase = p, !.left = L, !.from = None, !.to = None]
Fault == faults < MaxFaults /\ faults' = faults + 1
NoFault == UNCHANGED faults

\* The step fails, or its outcome is unknown, and the command stops.
StepFails(s, c) == Mark(s, c) /\ run' = None /\ UNCHANGED earlier

StartStep ==
  /\ Running("item") /\ ~Item.audit /\ ~AllSucceeded /\ Item.st[Step] # "unknown"
  /\ LET plan == IF Item.plan = {} THEN PlanLocations(M, Item.action) ELSE Item.plan IN
     /\ item' = [item EXCEPT ![M].st[Step] = "pending", ![M].code = "none", ![M].plan = plan]
     /\ IF Steps[Item.action][Step] = "flags" THEN Goto("flags", plan)
        ELSE IF \E l \in plan : l[1] # Box THEN Goto("mark", plan) ELSE Goto("move", plan)
  /\ UNCHANGED <<status, loc, server, earlier, bounds>>

PersistRemoteOutcomeUnknown ==
  /\ Running("mark")
  /\ Mark("unknown", "none") /\ Goto("move", run.left)
  /\ UNCHANGED <<status, loc, server, earlier, bounds>>

\* STORE of flags: a missing UID is no error, and the local location is only
\* annotated.
AddFlags(l) ==
  /\ Running("flags") /\ l \in run.left
  /\ Goto("flags", run.left \ {l})
  /\ UNCHANGED <<status, loc, item, server, earlier, bounds>>

AddFlagsFails ==
  /\ Running("flags") /\ run.left # {} /\ Fault
  /\ StepFails("failed", "other")
  /\ UNCHANGED <<status, loc, server, commands, foreign>>

StepSucceeds ==
  /\ run # None /\ run.phase \in {"flags", "move"} /\ run.left = {}
  /\ Mark("succeeded", "none") /\ Goto("item", {})
  /\ UNCHANGED <<status, loc, server, earlier, bounds>>

-----------------------------------------------------------------------------
(* A move, location by location *)

AlreadyMoved(m, l, b) == l \notin loc[m] /\ \E k \in loc[m] : k[1] = b

SkipLocation(l) ==
  /\ Running("move") /\ l \in run.left
  /\ l[1] = Box \/ AlreadyMoved(M, l, Box)
  /\ Goto("move", run.left \ {l})
  /\ UNCHANGED <<status, loc, item, server, earlier, bounds>>

MustMove(l) == Running("move") /\ l \in run.left /\ l[1] # Box /\ ~AlreadyMoved(M, l, Box)

NewUid == <<Box, last[Box] + 1>>
Placed == last' = [last EXCEPT ![Box] = @ + 1]
Effects(l) == IF l \in at[M] THEN {"applied", "nothing"} ELSE {"nothing"}

\* The answer to a search of the target mailbox by Message-ID: exactly one hit.
FindUid(copies) ==
  LET hits == {k \in copies : k[1] = Box} IN
  IF Cardinality(hits) = 1 THEN CHOOSE k \in hits : TRUE ELSE None

\* The request was carried out; found is where the message is now, if known.
\* Without a COPYUID receipt the search may also find nothing yet.
Moved(l, found) ==
  IF found = None THEN StepFails("unknown", "target_uid_missing") /\ Fault
  ELSE /\ run' = [run EXCEPT !.phase = "relocate", !.from = l, !.to = found]
       /\ UNCHANGED <<item, earlier>> /\ NoFault

UidMove(l) ==
  /\ hasMove /\ MustMove(l)
  /\ IF l \in at[M]
     THEN /\ at' = [at EXCEPT ![M] = (@ \ {l}) \cup {NewUid}] /\ Placed
          /\ \E found \in {NewUid, FindUid(at'[M]), None} : Moved(l, found)
     ELSE UNCHANGED <<at, last>> /\ Moved(l, FindUid(at[M]))
  /\ UNCHANGED <<status, loc, hasMove, commands, foreign>>

\* Without MOVE: COPY first.
UidCopy(l) ==
  /\ ~hasMove /\ MustMove(l)
  /\ IF l \in at[M]
     THEN /\ at' = [at EXCEPT ![M] = @ \cup {NewUid}] /\ Placed
          /\ \E receipt \in {NewUid, None} :
               run' = [run EXCEPT !.phase = "expunge", !.from = l, !.to = receipt]
     ELSE UNCHANGED <<at, last>> /\ run' = [run EXCEPT !.phase = "expunge", !.from = l]
  /\ UNCHANGED <<status, loc, item, hasMove, earlier, bounds>>

\* Then STORE \Deleted and UID EXPUNGE.
UidExpunge ==
  /\ Running("expunge")
  /\ at' = [at EXCEPT ![M] = @ \ {run.from}]
  /\ \E found \in IF run.to # None THEN {run.to} ELSE {FindUid(at'[M]), None} :
       Moved(run.from, found)
  /\ UNCHANGED <<status, loc, last, hasMove, commands, foreign>>

\* Bug: a refused STORE or EXPUNGE counts as a refused move.
UidExpungeFails_Bug ==
  /\ Running("expunge") /\ Fault
  /\ \E gone \in {{}, {run.from}} : at' = [at EXCEPT ![M] = @ \ gone]
  /\ StepFails("failed", "other")
  /\ UNCHANGED <<status, loc, last, hasMove, commands, foreign>>

UidExpungeFails ==
  /\ Running("expunge") /\ Fault
  /\ \E gone \in {{}, {run.from}} : at' = [at EXCEPT ![M] = @ \ gone]
  /\ StepFails("unknown", "other")
  /\ UNCHANGED <<status, loc, last, hasMove, commands, foreign>>

\* NO, BAD or a changed UIDVALIDITY: nothing happened, the step may be retried.
MoveRejected(l) ==
  /\ MustMove(l) /\ Fault
  /\ StepFails("failed", "other")
  /\ UNCHANGED <<status, loc, server, commands, foreign>>

\* The connection is lost before the answer.
MoveLost(l) ==
  /\ MustMove(l) /\ Fault
  /\ \E e \in Effects(l) :
       IF e = "nothing" THEN UNCHANGED <<at, last>>
       ELSE /\ at' = [at EXCEPT ![M] = (IF hasMove THEN @ \ {l} ELSE @) \cup {NewUid}]
            /\ Placed
  /\ StepFails("unknown", "other")
  /\ UNCHANGED <<status, loc, hasMove, commands, foreign>>

RelocateMessage ==
  /\ Running("relocate")
  /\ loc' = [loc EXCEPT ![M] = (@ \ {run.from}) \cup {run.to}]
  /\ Goto("move", run.left \ {run.from})
  /\ UNCHANGED <<status, item, server, earlier, bounds>>

-----------------------------------------------------------------------------
(* A move whose outcome is unknown *)

\* Bug: locations that a pull found missing still count as active.
HasActivePlannedSource_Bug(m) == item[m].plan # {}

HasActivePlannedSource(m) == item[m].plan \cap loc[m] # {}

\* Where the message of an unknown move is, if that is certain.
RecoverTarget(m) ==
  LET known == {k \in loc[m] : k[1] = Box} IN
  IF Item.code # "target_uid_missing" \/ HasActivePlannedSource(m) THEN None
  ELSE IF known # {} THEN CHOOSE k \in known : TRUE ELSE FindUid(at[m])

Unknown == Running("item") /\ ~Item.audit /\ ~AllSucceeded /\ Item.st[Step] = "unknown"

RecoverMove ==
  /\ Unknown /\ RecoverTarget(M) # None
  /\ loc' = [loc EXCEPT ![M] = (@ \ Item.plan) \cup {RecoverTarget(M)}]
  /\ Mark("succeeded", "none") /\ UNCHANGED run
  /\ UNCHANGED <<status, server, earlier, bounds>>

StopAtUnknown ==
  /\ Unknown /\ RecoverTarget(M) = None
  /\ run' = None
  /\ UNCHANGED <<status, loc, item, server, earlier, bounds>>

-----------------------------------------------------------------------------
(* The end of an item, crashes, pull and other clients *)

FinishItem ==
  /\ Running("item") /\ (Item.audit \/ AllSucceeded)
  /\ item' = [item EXCEPT ![M] = None]
  /\ earlier' = Leave({M})
  /\ run' = AtItem(Tail(run.todo))
  /\ UNCHANGED <<status, loc, server, bounds>>

\* The audit log cannot be written: the item waits for that, and so do the others.
AuditFails ==
  /\ Running("item") /\ (Item.audit \/ AllSucceeded) /\ Fault
  /\ item' = [item EXCEPT ![M].audit = TRUE] /\ run' = None
  /\ UNCHANGED <<status, loc, server, earlier, commands, foreign>>

Crash ==
  /\ run # None /\ Fault /\ run' = None
  /\ UNCHANGED <<status, loc, item, server, earlier, commands, foreign>>

\* A complete scan of one mailbox: locations that are gone become missing.
Pull(b) ==
  /\ run = None
  /\ loc' = [m \in Messages |-> {l \in loc[m] : l[1] # b} \cup {l \in at[m] : l[1] = b}]
  /\ loc' # loc
  /\ UNCHANGED <<status, item, server, run, earlier, bounds>>

Foreign == foreign < MaxForeign /\ foreign' = foreign + 1
ForeignMove(m, l, b) ==
  /\ Foreign /\ l \in at[m] /\ b # l[1]
  /\ at' = [at EXCEPT ![m] = (@ \ {l}) \cup {<<b, last[b] + 1>>}]
  /\ last' = [last EXCEPT ![b] = @ + 1]
  /\ UNCHANGED <<status, loc, item, hasMove, run, earlier, commands, faults>>
ForeignDelete(m, l) ==
  /\ Foreign /\ l \in at[m]
  /\ at' = [at EXCEPT ![m] = @ \ {l}]
  /\ UNCHANGED <<status, loc, item, last, hasMove, run, earlier, commands, faults>>

-----------------------------------------------------------------------------
Init ==
  /\ status = [m \in Messages |-> "triage"]
  /\ loc = Copies /\ at = Copies
  /\ item = [m \in Messages |-> None]
  /\ last = HighestUid
  /\ hasMove \in BOOLEAN
  /\ run = None /\ earlier = [m \in Messages |-> {}]
  /\ commands = 0 /\ faults = 0 /\ foreign = 0

\* The locations the step under way has still to see.
InHand == IF run = None THEN {} ELSE run.left

\* The steps of a push command that no one interrupts.
PushStep ==
  \/ StartStep \/ PersistRemoteOutcomeUnknown \/ StepSucceeds
  \/ UidExpunge \/ RelocateMessage \/ RecoverMove \/ StopAtUnknown \/ FinishItem
  \/ \E l \in InHand : AddFlags(l) \/ SkipLocation(l) \/ UidMove(l) \/ UidCopy(l)

PushFault ==
  \/ AddFlagsFails \/ UidExpungeFails \/ AuditFails \/ Crash
  \/ \E l \in InHand : MoveRejected(l) \/ MoveLost(l)

Environment == \E m \in Messages : \E l \in at[m] :
  ForeignDelete(m, l) \/ \E b \in Mailboxes : ForeignMove(m, l, b)

Next ==
  \/ \E m \in Messages : SpamMessage(m) \/ UnspamMessage(m)
  \/ BeginPush \/ PushStep \/ PushFault
  \/ \E b \in Mailboxes : Pull(b)
  \/ Environment

\* A push command under way runs on unless it is interrupted; the user runs
\* push and pull again and again.
Spec ==
  /\ Init /\ [][Next]_vars
  /\ WF_vars(PushStep) /\ WF_vars(BeginPush)
  /\ \A b \in Mailboxes : SF_vars(Pull(b))
-----------------------------------------------------------------------------
(* Properties *)

TypeOK ==
  /\ status \in [Messages -> {"triage", "spam"}]
  /\ loc \in [Messages -> SUBSET Locations] /\ at \in [Messages -> SUBSET Locations]
  /\ item \in [Messages -> Items \cup {None}]
  /\ \A m \in Queued : Len(item[m].st) = Len(Steps[item[m].action])
  /\ last \in [Mailboxes -> Nat] /\ hasMove \in BOOLEAN
  /\ run \in Runs \cup {None}
  /\ earlier \in [Messages -> SUBSET Messages]
  /\ commands \in 0 .. MaxCommands /\ faults \in 0 .. MaxFaults /\ foreign \in 0 .. MaxForeign

UnknownMove(m) == item[m] # None /\ \E k \in DOMAIN item[m].st : item[m].st[k] = "unknown"

(* Retrying a move step never leaves a second copy of a message: while no  *)
(* move is unresolved a message has at most the copies it had at first,    *)
(* and one for a copy that another client took away before its EXPUNGE.    *)
NoSecondCopy == \A m \in Messages :
  Cardinality(at[m]) <= Cardinality(Copies[m]) + foreign + (IF UnknownMove(m) THEN 1 ELSE 0)

(* A move step recorded as succeeded, by its answers, by skipping what an  *)
(* earlier attempt moved or by recovery after a pull, has left none of the *)
(* reviewed source locations on the server.                                *)
FinishedMoveIsApplied == \A m \in Queued : \A k \in DOMAIN item[m].st :
  (item[m].st[k] = "succeeded" /\ Steps[item[m].action][k] = "move")
    => item[m].plan \cap at[m] = {}

(* A move leaves one copy of the message, and no reviewed source of it.    *)
MoveIsExact == NoSecondCopy /\ FinishedMoveIsApplied

(* Items start in the order they were queued: the first remote effect of   *)
(* an item comes when no item queued earlier is left.                      *)
QueueOrderIsKept == [][ \A m \in Messages :
  (item[m] # None /\ ~HasStartedEffects(item[m]) /\ item'[m] # None /\ HasStartedEffects(item'[m]))
    => earlier[m] = {} ]_vars

(* A move that nobody can resolve: its outcome is unknown and either the   *)
(* answer was lost, or a reviewed source is still there, or the target has *)
(* no copy.                                                                *)
Unresolvable(m) == UnknownMove(m) /\
  \/ item[m].code # "target_uid_missing"
  \/ item[m].plan \cap at[m] # {}
  \/ {l \in at[m] : l[1] = Target[item[m].action]} = {}

(* Once the faults stop, running push and pull again empties the queue,    *)
(* unless a move that cannot be resolved is in it: rejected requests,      *)
(* crashes between steps and unreported target UIDs block nothing forever. *)
QueueDrains == <>[](Queued = {}) \/ <>[](\E m \in Queued : Unresolvable(m))
=============================================================================
