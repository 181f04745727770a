----------------------------- MODULE CaseStore -----------------------------
(***************************************************************************)
(* The canonical local state of a workspace: which case, notification or   *)
(* disposition collection holds a message, and the one push item a message *)
(* may have.  The commands that change it run one at a time, under the     *)
(* exclusive workspace lock.                                                *)
(*                                                                         *)
(* A command makes several writes, one file each.  It is modelled by the   *)
(* workspaces these writes produce; since it runs alone, its action goes   *)
(* at once to the last of them, or, when the process dies, to any earlier  *)
(* one.  A check that fails between two writes ends the command where the  *)
(* code returns the error.  A loop over the messages of a case may treat   *)
(* them in any order.                                                      *)
(*                                                                         *)
(* A message has one remote location.  Of the generated views the triage   *)
(* directory is kept (commands list it); of the others only that their     *)
(* refresh may fail.  Names, groups, tags, summaries, notes and audit      *)
(* events are left out.                                                    *)
(***************************************************************************)
EXTENDS Naturals

CONSTANTS
  Messages,       \* message ids
  Cases,          \* case uids
  Notifications,  \* notification uids
  None,           \* no message or case
  CaseAddSteps,   \* actions.case.add.steps of the configuration is not empty
  Drafts,         \* the drafts made: a case and what it replies to (a bound)
  MaxCrashes      \* how many commands may die (a bound)

ASSUME CaseStoreAssumption ==
  /\ None \notin Messages \cup Cases \cup Notifications
  /\ Drafts \subseteq Cases \X (Messages \cup {None})
  /\ CaseAddSteps \in BOOLEAN
  /\ MaxCrashes \in Nat

(* The three disposition collections, the status each one stands for, the *)
(* push that carries it out and the mailbox the push moves the message to. *)
Dispositions == {"spam", "trashed", "deleted_remote"}
PushOf(k) == IF k = "spam" THEN "spam" ELSE "trash"
UndoOf(k) == IF k = "spam" THEN "unspam" ELSE "untrash"
MailboxOf(k) == IF k = "spam" THEN "junk" ELSE "trash"
Mailboxes == {"inbox", "archive", "junk", "trash", "gone"}
MessagePushActions ==
  {"none", "case.add", "notification", "spam", "trash", "unspam", "untrash"}

NoTxn == [kind |-> "none", on |-> None]
NoDraft == [st |-> "none", re |-> None]

(* The record of the command under way, and what it is about.               *)
Transactions ==
  {NoTxn}
    \cup [kind : {"case_create", "case_message_removed", "case_archive", "case_trash",
                  "case_deleted", "draft_queue"}, on : Cases]
    \cup [kind : {"message_discard", "message_undo"}, on : Messages]
    \cup [kind : {"notification_create", "notification_message_add",
                  "notification_message_move", "notification_delete"}, on : Notifications]

Disk ==
  [root    : [Cases -> {"none", "active", "archived"}],
   status  : [Cases -> {"", "archiving", "archived"}],
   items   : [Cases -> SUBSET Messages],
   draft   : [Cases -> [st : {"none", "edit", "upload", "send"},
                        re : Messages \cup {None}]],
   open    : SUBSET Notifications,
   coll    : [Notifications -> SUBSET Messages],
   disp    : [Dispositions -> SUBSET Messages],
   push    : [Messages -> [act : MessagePushActions, started : BOOLEAN]],
   loc     : [Messages -> Mailboxes],
   stored  : [Messages -> {"all", "cache", "none"}],
   triage  : SUBSET Messages,
   txn     : Transactions]

VARIABLES
  disk,      \* the workspace on disk
  crashes    \* how many commands have died between two writes

vars == <<disk, crashes>>

NoPush == [act |-> "none", started |-> FALSE]

Init ==
  /\ disk = [root   |-> [c \in Cases |-> "none"],
             status |-> [c \in Cases |-> ""],
             items  |-> [c \in Cases |-> {}],
             draft  |-> [c \in Cases |-> NoDraft],
             open   |-> {},
             coll   |-> [n \in Notifications |-> {}],
             disp   |-> [k \in Dispositions |-> {}],
             push   |-> [m \in Messages |-> NoPush],
             loc    |-> [m \in Messages |-> "inbox"],
             stored |-> [m \in Messages |-> "all"],
             triage |-> Messages,
             txn    |-> NoTxn]
  /\ crashes = 0

-----------------------------------------------------------------------------
(* What the collections say about a message.                                *)

CasesWith(d, m) == {c \in Cases : d.root[c] # "none" /\ m \in d.items[c]}
HasActiveReference(d, m) == \E c \in CasesWith(d, m) : d.root[c] = "active"
HasArchivedReference(d, m) == \E c \in CasesWith(d, m) : d.root[c] = "archived"
NotificationsOf(d, m) == {n \in d.open : m \in d.coll[n]}
DispositionsOf(d, m) == {k \in Dispositions : m \in d.disp[k]}

(* CaseIndex::build refuses a case whose status does not fit its root.      *)
CaseIndexBuilds(d) ==
  \A c \in Cases :
    /\ d.root[c] = "active" => d.status[c] = ""
    /\ d.root[c] = "archived" => d.status[c] # ""

(* Every read of a message builds this index first, and fails without it.   *)
OverlayIndexBuilds(d) ==
  /\ CaseIndexBuilds(d)
  /\ \A m \in Messages :
       \/ NotificationsOf(d, m) = {} /\ \A j, k \in DispositionsOf(d, m) : j = k
       \/ DispositionsOf(d, m) = {} /\ \A i, n \in NotificationsOf(d, m) : i = n

(* The status that wins when several collections name the message.          *)
StatusOf(d, m) ==
  CASE DispositionsOf(d, m) # {} -> CHOOSE k \in DispositionsOf(d, m) : TRUE
    [] DispositionsOf(d, m) = {} /\ NotificationsOf(d, m) # {} -> "notification"
    [] OTHER -> IF HasActiveReference(d, m) THEN "case"
                ELSE IF HasArchivedReference(d, m) THEN "archived" ELSE "triage"

DraftRepliesTo(d, m) ==
  {c \in Cases : d.root[c] # "none" /\ d.draft[c].st # "none" /\ d.draft[c].re = m}

(* The push item of m stands in the way unless it has not started and is of *)
(* one of the allowed actions.                                              *)
PushRefers(d, m, allowed) ==
  /\ d.push[m].act # "none"
  /\ d.push[m].started \/ d.push[m].act \notin allowed

Referenced(d, m, allowed) ==
  \/ CasesWith(d, m) # {}
  \/ DraftRepliesTo(d, m) # {}
  \/ PushRefers(d, m, allowed)
  \/ NotificationsOf(d, m) # {}

(* Whether the remote archive of m may be queued, for an archive of case c. *)
(* The push of m itself, own, stands in the way when it is not case.add.    *)
ArchiveEligible(d, m, c, own) ==
  /\ NotificationsOf(d, m) # {} \/ HasArchivedReference(d, m)
  /\ ~HasActiveReference(d, m)
  /\ DraftRepliesTo(d, m) \subseteq {c}
  /\ own \/ d.push[m].act \in {"none", "case.add"}

HasPendingArchiveWork(d, c) ==
  \/ d.draft[c].st \in {"upload", "send"}
  \/ \E m \in d.items[c] : d.push[m].act = "notification"

-----------------------------------------------------------------------------
(* A command under construction: the workspaces written so far, the one it *)
(* goes on from, those it may end in when it stops now, and whether it goes *)
(* on.                                                                      *)

From(d) == [w |-> {}, d |-> d, ends |-> {d}, ok |-> TRUE]
Start == From(disk)

(* The same writes, going on or not.                                        *)
Going(r, on) == [w |-> r.w, d |-> r.d, ends |-> r.ends, ok |-> on]

Put(r, d) ==
  IF r.ok THEN [w |-> r.w \cup {d}, d |-> d, ends |-> {d}, ok |-> TRUE] ELSE r

Unless(r, refused) == IF refused THEN Going(r, FALSE) ELSE r

(* A loop over S that fails at the members in bad: after[T] is the workspace *)
(* when those in T have been treated.                                       *)
Loop(r, S, bad, after) ==
  LET some == {after[T] : T \in SUBSET (S \ bad)} IN
  IF r.ok
  THEN [w |-> r.w \cup some, d |-> after[S \ bad],
        ends |-> IF bad = {} THEN {after[S]} ELSE some, ok |-> bad = {}]
  ELSE r

BeginTransaction(r, kind, on) ==
  Put(r, [r.d EXCEPT !.txn = [kind |-> kind, on |-> on]])

Commit(r) == Put(r, [r.d EXCEPT !.txn = NoTxn])

WriteCase(r, c, its) == Put(r, [r.d EXCEPT !.items[c] = its])

SetCaseStatus(r, c, s) == Put(r, [r.d EXCEPT !.status[c] = s])

MoveCase(r, c, to) == Put(r, [r.d EXCEPT !.root[c] = to])

RemoveCaseDir(r, c) ==
  Put(r, [r.d EXCEPT !.root[c] = "none", !.status[c] = "", !.items[c] = {},
                     !.draft[c] = NoDraft])

(* One collection file at a time: the other dispositions lose a message     *)
(* before the new one gets it.                                              *)
Cleared(d, P) ==
  [d EXCEPT !.disp = [k \in Dispositions |-> {m \in d.disp[k] : <<k, m>> \notin P}]]

Marked(d, k, S) == [d EXCEPT !.disp[k] = @ \cup S]

ClearDisposition(r, k, m) == Put(r, Cleared(r.d, {<<k, m>>}))

ClearDispositions(r, S) ==
  Loop(r, Dispositions \X S, {}, [P \in SUBSET (Dispositions \X S) |-> Cleared(r.d, P)])

SetDisposition_Bug(r, k, m) == Put(r, Marked(r.d, k, {m}))
SetDisposition(r, k, m) ==
  LET others == (Dispositions \ {k}) \X {m}
      q == Loop(r, others, {}, [P \in SUBSET others |-> Cleared(r.d, P)])
  IN  Put(q, Marked(q.d, k, {m}))

UpsertNotification(r, n, m) == Put(r, [r.d EXCEPT !.coll[n] = @ \cup {m}])
RemoveNotificationItem(r, n, m) == Put(r, [r.d EXCEPT !.coll[n] = @ \ {m}])

(* The view of one message follows its collections; the refresh of the      *)
(* disposition views fails on an entry whose message is gone.               *)
TriageCandidate(d, m) ==
  CasesWith(d, m) = {} /\ NotificationsOf(d, m) = {} /\ DispositionsOf(d, m) = {}

Shown(d, S) ==
  [d EXCEPT !.triage = (@ \ S) \cup {m \in S : TriageCandidate(d, m)}]

RefreshMessages(r, S) ==
  Loop(r, S, {m \in S : r.d.stored[m] = "none" \/ ~OverlayIndexBuilds(r.d)},
       [T \in SUBSET S |-> Shown(r.d, T)])

Hidden(d, S) == [d EXCEPT !.triage = @ \ S]

RemoveTriageView(r, m) == Put(r, Hidden(r.d, {m}))

(* One message after the other gets the disposition and loses its view.     *)
UpdateMessages(r, k, S) ==
  LET Done(T) == Hidden(Marked(Cleared(r.d, (Dispositions \ {k}) \X T), k, T), T)
      During(T, m) == SetDisposition(From(Done(T)), k, m).w
      some == {Done(T) : T \in SUBSET S}
                \cup UNION {During(T, m) : T \in SUBSET S, m \in S}
  IN  IF r.ok THEN [w |-> r.w \cup some, d |-> Done(S), ends |-> {Done(S)}, ok |-> TRUE]
      ELSE r

RefreshDispositionViews(r) ==
  Unless(r, \E k \in Dispositions : \E m \in r.d.disp[k] : r.d.stored[m] = "none")

RefreshTriageViews(r) ==
  Put(r, [r.d EXCEPT !.triage = {m \in Messages :
            r.d.stored[m] # "none" /\ TriageCandidate(r.d, m)}])

RenderRefresh(r) == RefreshDispositionViews(RefreshTriageViews(r))

(* A message has one push item; a started one keeps its action.             *)
StartedOther(d, m, a) ==
  d.push[m].started /\ d.push[m].act \notin {"none", a}

Pushed(d, S, a) ==
  [d EXCEPT !.push = [m \in Messages |->
     IF m \in S /\ d.push[m].act # a THEN [act |-> a, started |-> FALSE] ELSE d.push[m]]]

Unpushed(d, S, a) ==
  [d EXCEPT !.push = [m \in Messages |->
     IF m \in S /\ d.push[m].act = a THEN NoPush ELSE d.push[m]]]

(* S are the messages with a location the steps apply to.                   *)
QueueActionSteps(r, S, a) ==
  Loop(r, S, {m \in S : StartedOther(r.d, m, a)}, [T \in SUBSET S |-> Pushed(r.d, T, a)])

(* An item whose effects have begun is taken off like any other.            *)
RemovePendingPush_Bug(r, S, a) ==
  Put(r, Unpushed(r.d, S, a))

RemovePendingPush(r, S, a) ==
  Loop(r, S, {m \in S : r.d.push[m].act = a /\ r.d.push[m].started},
       [T \in SUBSET S |-> Unpushed(r.d, T, a)])

(* The disposition views are rendered again when an item was removed.       *)
RemovePendingPushes(r, S, a) ==
  LET q == RemovePendingPush(r, S, a)
  IN  IF q.d.push = r.d.push THEN q ELSE RefreshDispositionViews(q)

QueueCaseAdd(r, S) ==
  QueueActionSteps(r, {m \in S : CaseAddSteps /\ r.d.loc[m] # "gone"}, "case.add")

(* The configured archive rule is one of the inbox.                         *)
QueueArchive(r, S, c) ==
  LET eligible == {m \in S : ArchiveEligible(r.d, m, c, FALSE)}
  IN  QueueActionSteps(RemovePendingPush(r, eligible, "case.add"),
                       {m \in eligible : r.d.loc[m] = "inbox"}, "notification")

CompleteArchive(r, c) ==
  LET queued == QueueArchive(RefreshMessages(r, r.d.items[c]), r.d.items[c], c)
  IN  SetCaseStatus(queued, c,
        IF HasPendingArchiveWork(queued.d, c) THEN "archiving" ELSE "archived")

FinalizeArchiving(r) ==
  LET ended == {c \in Cases : r.d.root[c] = "archived" /\ r.d.status[c] = "archiving"
                                /\ ~HasPendingArchiveWork(r.d, c)}
  IN  Loop(r, ended, {}, [T \in SUBSET ended |-> [r.d EXCEPT !.status =
             [c \in Cases |-> IF c \in T THEN "archived" ELSE r.d.status[c]]]])

(* The command has the lock and no earlier one is incomplete.               *)
Ready == disk.txn = NoTxn /\ OverlayIndexBuilds(disk)

(* All its writes, or some of them and the process dies.                    *)
Perform(r) ==
  \E d \in r.w \ {disk} :
    /\ disk' = d
    /\ crashes' = IF d \in r.ends THEN crashes ELSE crashes + 1
    /\ crashes' <= MaxCrashes

Readable(m) == disk.stored[m] # "none"

(* ensure_message_action_can_queue, before the first write.                 *)
CanQueueCaseAdd(m) == ~(CaseAddSteps /\ StartedOther(disk, m, "case.add"))

-----------------------------------------------------------------------------
(* Cases.                                                                   *)

ResolveActiveCase(c) == disk.root[c] = "active"
ResolveCaseAny(c) == disk.root[c] # "none"

PrepareCaseCreate(c, S) ==
  /\ disk.root[c] = "none"
  /\ \A m \in S : Readable(m) /\ CanQueueCaseAdd(m)

CreateCase(c, S) ==
  /\ Ready /\ PrepareCaseCreate(c, S)
  /\ LET begun == BeginTransaction(Start, "case_create", c)
         made  == Put(begun, [begun.d EXCEPT !.root[c] = "active", !.items[c] = S])
         shown == RefreshMessages(ClearDispositions(made, S), S)
     IN  Perform(Commit(QueueCaseAdd(shown, S)))

AddToExistingCase_Bug(r, c, m) ==
  RefreshMessages(WriteCase(r, c, r.d.items[c] \cup {m}), {m})
AddToExistingCase(r, c, m) ==
  RefreshMessages(ClearDispositions(WriteCase(r, c, r.d.items[c] \cup {m}), {m}), {m})

AddMessageToCase(c, m) ==
  /\ Ready /\ ResolveActiveCase(c)
  /\ Readable(m) /\ CanQueueCaseAdd(m)
  /\ Perform(QueueCaseAdd(AddToExistingCase(Start, c, m), {m}))

RemoveFromCaseWorkspace(c, m, undo) ==
  LET r == WriteCase(BeginTransaction(Start, "case_message_removed", c),
                     c, disk.items[c] \ {m})
  IN  Commit(RefreshMessages(RemovePendingPush(r, {m}, undo), {m}))

RemoveMessageFromCase(c, m) ==
  /\ Ready /\ ResolveCaseAny(c) /\ m \in disk.items[c]
  /\ Perform(RemoveFromCaseWorkspace(c, m,
       IF disk.status[c] = "" THEN "case.add" ELSE "notification"))

CaseDraftsCanArchive(c) == disk.draft[c].st \in {"none", "send"}
NoLocalDrafts(c) == disk.draft[c].st = "none"

MoveActiveCaseWorkspace(r, c) == SetCaseStatus(MoveCase(r, c, "archived"), c, "archived")

ArchiveCase(c) ==
  /\ Ready /\ ResolveActiveCase(c) /\ CaseDraftsCanArchive(c)
  /\ LET begun == BeginTransaction(Start, "case_archive", c)
     IN  Perform(Commit(CompleteArchive(MoveActiveCaseWorkspace(begun, c), c)))

ResolveUnarchiveCase(c) == disk.root[c] = "archived" /\ disk.status[c] # ""

UnarchiveCase(c) ==
  /\ Ready /\ ResolveUnarchiveCase(c)
  /\ LET moved == MoveCase(SetCaseStatus(Start, c, ""), c, "active")
         freed == RemovePendingPushes(moved, disk.items[c], "notification")
     IN  Perform(RefreshMessages(freed, disk.items[c]))

CaseMessagesUnreferenced(c) ==
  \A m \in disk.items[c] :
    /\ CasesWith(disk, m) = {c}
    /\ DraftRepliesTo(disk, m) = {}
    /\ ~PushRefers(disk, m, {"case.add", "notification"})
    /\ NotificationsOf(disk, m) = {}

TrashCase(c) ==
  /\ Ready /\ ResolveCaseAny(c) /\ NoLocalDrafts(c)
  /\ CaseMessagesUnreferenced(c)
  /\ LET begun  == BeginTransaction(Start, "case_trash", c)
         queued == QueueActionSteps(begun,
                     {m \in disk.items[c] : disk.loc[m] # "gone"}, "trash")
         marked == UpdateMessages(queued, "trashed", disk.items[c])
         shown  == RefreshMessages(RemoveCaseDir(marked, c), disk.items[c])
     IN  Perform(Commit(RefreshDispositionViews(shown)))

DeleteCase(c) ==
  /\ Ready /\ ResolveCaseAny(c)
  /\ disk.items[c] = {} /\ NoLocalDrafts(c)
  /\ Perform(Commit(RemoveCaseDir(BeginTransaction(Start, "case_deleted", c), c)))

MergeCase(c, other) ==
  /\ Ready /\ c # other
  /\ \A b \in {c, other} : ResolveActiveCase(b) /\ NoLocalDrafts(b)
  /\ LET r == WriteCase(Start, c, disk.items[c] \cup disk.items[other])
     IN  Perform(RefreshMessages(RemoveCaseDir(r, other), disk.items[other]))

(* Drafts, as far as cases depend on them.                                  *)
NewDraft(c, m) ==
  /\ Ready /\ <<c, m>> \in Drafts
  /\ disk.root[c] = "active" /\ disk.draft[c].st = "none"
  /\ m \in disk.items[c] \cup {None}
  /\ Perform(Put(Start, [disk EXCEPT !.draft[c] = [st |-> "edit", re |-> m]]))

QueueDraft(c, intent) ==
  /\ Ready /\ disk.root[c] = "active" /\ disk.draft[c].st # "none"
  /\ LET r == BeginTransaction(Start, "draft_queue", c)
     IN  Perform(Commit(Put(r, [r.d EXCEPT !.draft[c].st = intent])))

RemoveDraft(c) ==
  /\ Ready /\ disk.root[c] = "active" /\ disk.draft[c].st # "none"
  /\ Perform(Put(Start, [disk EXCEPT !.draft[c] = NoDraft]))

-----------------------------------------------------------------------------
(* Dispositions of single messages.                                         *)

Discard_Bug(m, k) ==
  /\ Ready /\ Readable(m)
  /\ LET begun  == BeginTransaction(Start, "message_discard", m)
         queued == QueueActionSteps(begun,
                     {j \in {m} : disk.loc[j] \notin {"gone", MailboxOf(k)}}, PushOf(k))
     IN  Perform(Commit(UpdateMessages(queued, k, {m})))

Discard(m, k) ==
  LET others == {"spam", "trash", "unspam", "untrash"} \ {PushOf(k)} IN
  /\ Ready /\ Readable(m)
  /\ ~Referenced(disk, m, others)
  /\ LET begun  == BeginTransaction(Start, "message_discard", m)
         freed  == IF disk.push[m].act \in others
                   THEN RemovePendingPushes(begun, {m}, disk.push[m].act) ELSE begun
         queued == QueueActionSteps(freed,
                     {j \in {m} : disk.loc[j] \notin {"gone", MailboxOf(k)}}, PushOf(k))
         marked == UpdateMessages(queued, k, {m})
     IN  Perform(Commit(RefreshDispositionViews(marked)))

UnmarkDiscarded(m, k) ==
  /\ Ready /\ Readable(m)
  /\ \/ StatusOf(disk, m) = k
     \/ StatusOf(disk, m) = "triage" /\ disk.loc[m] = MailboxOf(k)
  /\ ~(disk.push[m].act = PushOf(k) /\ disk.push[m].started)
  /\ LET begun  == BeginTransaction(Start, "message_undo", m)
         freed  == RemovePendingPush(begun, {m}, PushOf(k))
         queued == QueueActionSteps(freed,
                     {j \in {m} : disk.loc[j] = MailboxOf(k)}, UndoOf(k))
         shown  == RefreshMessages(ClearDisposition(queued, k, m), {m})
     IN  Perform(Commit(RefreshDispositionViews(shown)))

SpamMessage(m) == Discard(m, "spam")
TrashMessage(m) == Discard(m, "trashed")
UnspamMessage(m) == UnmarkDiscarded(m, "spam")
UntrashMessage(m) == UnmarkDiscarded(m, "trashed")

(* The two destructive removals of a message, then its collection entry.    *)
Purge(m) ==
  /\ Ready /\ Readable(m)
  /\ StatusOf(disk, m) \in Dispositions
  /\ ~Referenced(disk, m, {})
  /\ LET aux  == Put(Start, [disk EXCEPT !.stored[m] = "cache"])
         gone == Put(aux, [aux.d EXCEPT !.stored[m] = "none"])
     IN  Perform(RefreshDispositionViews(ClearDisposition(gone, StatusOf(disk, m), m)))

-----------------------------------------------------------------------------
(* Notifications.                                                           *)

(* The message may not be in another notification: the check comes after    *)
(* the transaction has begun.                                               *)
FileMessage(r, n, m) ==
  LET q == Unless(r, NotificationsOf(r.d, m) \ {n} # {})
      shown == RemoveTriageView(ClearDispositions(q, {m}), m)
  IN  QueueArchive(UpsertNotification(shown, n, m), {m}, None)

MakeNotification(n) ==
  /\ Ready /\ n \notin disk.open
  /\ Perform(Put(Start, [disk EXCEPT !.open = @ \cup {n}, !.coll[n] = {}]))

(* With a message: one that cannot be filed takes the notification back.    *)
CreateNotification(n, m) ==
  /\ Ready /\ n \notin disk.open /\ Readable(m)
  /\ LET made  == Put(Start, [disk EXCEPT !.open = @ \cup {n}, !.coll[n] = {}])
         filed == FileMessage(BeginTransaction(made, "notification_create", n), n, m)
         unmade == [filed.d EXCEPT !.open = @ \ {n}, !.coll[n] = {}]
     IN  Perform(IF filed.ok THEN Commit(filed)
                 ELSE Put(Going(filed, TRUE), unmade))

NotificationAddMessage(n, m) ==
  /\ Ready /\ n \in disk.open /\ Readable(m)
  /\ Perform(Commit(FileMessage(
       BeginTransaction(Start, "notification_message_add", n), n, m)))

NotificationRemoveMessage(n, m) ==
  /\ Ready /\ n \in NotificationsOf(disk, m) /\ Readable(m)
  /\ Perform(RefreshMessages(
       RemoveNotificationItem(RemovePendingPush(Start, {m}, "notification"), n, m), {m}))

NotificationMove(n, to, m) ==
  /\ Ready /\ n # to /\ to \in disk.open /\ n \in NotificationsOf(disk, m)
  /\ Readable(m)
  /\ LET r == RemoveNotificationItem(
                BeginTransaction(Start, "notification_message_move", n), n, m)
     IN  Perform(Commit(UpsertNotification(r, to, m)))

NotificationDelete(n) ==
  /\ Ready /\ n \in disk.open /\ disk.coll[n] = {}
  /\ LET r == BeginTransaction(Start, "notification_delete", n)
     IN  Perform(Commit(Put(r, [r.d EXCEPT !.open = @ \ {n}])))

-----------------------------------------------------------------------------
(* Pull: what the server shows of one message.                              *)

(* The message is (again) in a mailbox: the local deletion is taken back,   *)
(* and a junk or trash mailbox gives it that disposition.                   *)
PullSees(m, box) ==
  /\ Ready /\ box # "gone" /\ disk.loc[m] # box
  /\ LET seen == Put(Start, [disk EXCEPT !.loc[m] = box, !.stored[m] = "all"])
         back == ClearDisposition(seen, "deleted_remote", m)
         kept == IF StatusOf(disk, m) # "deleted_remote" THEN seen
                 ELSE IF box = "junk" THEN SetDisposition(back, "spam", m)
                 ELSE IF box = "trash" THEN SetDisposition(back, "trashed", m) ELSE back
     IN  Perform(RenderRefresh(kept))

(* The last location is missing: an unreferenced message becomes deleted.   *)
ReconcileRemoteMissing(m) ==
  /\ Ready /\ Readable(m) /\ disk.loc[m] # "gone"
  /\ LET gone == Put(Start, [disk EXCEPT !.loc[m] = "gone"])
         marked == SetDisposition(Start, "deleted_remote", m)
     IN  Perform(RenderRefresh(
           IF Referenced(disk, m, {}) THEN gone
           ELSE Put(marked, [marked.d EXCEPT !.loc[m] = "gone"])))

-----------------------------------------------------------------------------
(* Push.                                                                    *)

ValidStatus(d, m) ==
  CASE d.push[m].act = "spam" -> StatusOf(d, m) = "spam"
    [] d.push[m].act = "trash" -> StatusOf(d, m) = "trashed"
    [] d.push[m].act \in {"unspam", "untrash"} -> StatusOf(d, m) = "triage"
    [] d.push[m].act = "case.add" -> StatusOf(d, m) = "case"
    [] d.push[m].act = "notification" -> StatusOf(d, m) \in {"notification", "archived"}
    [] OTHER -> TRUE

ArchivingCase(d, m) ==
  LET S == {c \in Cases : d.root[c] = "archived" /\ d.status[c] = "archiving"
                            /\ m \in d.items[c]}
  IN  IF S = {} THEN None ELSE CHOOSE c \in S : TRUE

(* The plan of an item that has not started; without one it is dropped.     *)
HasPlan(d, m) ==
  CASE d.push[m].act = "spam" -> d.loc[m] \notin {"gone", "junk"}
    [] d.push[m].act = "trash" -> d.loc[m] \notin {"gone", "trash"}
    [] d.push[m].act = "unspam" -> d.loc[m] = "junk"
    [] d.push[m].act = "untrash" -> d.loc[m] = "trash"
    [] d.push[m].act = "case.add" -> CaseAddSteps /\ d.loc[m] # "gone"
    [] d.push[m].act = "notification" ->
         ArchiveEligible(d, m, ArchivingCase(d, m), TRUE) /\ d.loc[m] = "inbox"
    [] OTHER -> FALSE

(* One item whose action does not fit its message stops the whole plan.     *)
PlanBuilds(d) ==
  \A m \in Messages :
    d.push[m].act # "none" /\ ~d.push[m].started =>
      d.stored[m] # "none" /\ ValidStatus(d, m)

Reconcile(r) ==
  Put(r, [r.d EXCEPT !.push = [m \in Messages |->
            IF @[m].started \/ HasPlan(r.d, m) THEN @[m] ELSE NoPush]])

(* Checked again when the item runs.                                        *)
MayExecute(d, m) ==
  CASE d.push[m].act = "notification" -> ArchiveEligible(d, m, None, TRUE)
    [] d.push[m].act \in {"spam", "trash"} ->
         ~Referenced([d EXCEPT !.push[m] = NoPush], m, {})
    [] OTHER -> TRUE

MovedTo(d, m) ==
  CASE d.push[m].act = "spam" -> "junk"
    [] d.push[m].act = "trash" -> "trash"
    [] d.push[m].act \in {"unspam", "untrash"} -> "inbox"
    [] d.push[m].act = "notification" -> "archive"
    [] OTHER -> d.loc[m]

Attempted(m) ==
  LET r == Reconcile(Start)
  IN  Put(Unless(r, ~MayExecute(r.d, m)), [r.d EXCEPT !.push[m].started = TRUE])

CanPush(m) ==
  /\ Ready /\ PlanBuilds(disk)
  /\ disk.push[m].act # "none"
  /\ disk.push[m].started \/ HasPlan(disk, m)

PushMessage(m) ==
  /\ CanPush(m)
  /\ LET ran == Attempted(m)
         moved == Put(ran, [ran.d EXCEPT !.loc[m] = MovedTo(ran.d, m)])
         done  == Put(moved, [moved.d EXCEPT !.push[m] = NoPush])
         shown == RefreshDispositionViews(RefreshMessages(done, {m}))
     IN  Perform(FinalizeArchiving(shown))

(* The remote refuses, or its answer is lost: the item stays, started.      *)
PushFails(m) == CanPush(m) /\ Perform(RefreshDispositionViews(Attempted(m)))

(* A confirmed plan all of whose items are skipped: only the reconciliation.*)
PushSkips ==
  /\ Ready /\ PlanBuilds(disk)
  /\ \A m \in Messages : disk.push[m].act # "none" =>
                           ~disk.push[m].started /\ ~HasPlan(disk, m)
  /\ \A c \in Cases : disk.draft[c].st \notin {"upload", "send"}
  /\ Perform(Reconcile(Start))

(* A queued draft is sent or saved; its file and item go (OutboundPush).    *)
PushDraft(c) ==
  /\ Ready /\ PlanBuilds(disk)
  /\ disk.root[c] # "none" /\ disk.draft[c].st \in {"upload", "send"}
  /\ LET r == Reconcile(Start)
     IN  Perform(FinalizeArchiving(Put(r, [r.d EXCEPT !.draft[c] = NoDraft])))

-----------------------------------------------------------------------------
(* Doctor repair, the writes of a command, and the crash between two.       *)

RecoverCaseArchive_Bug(r, c) ==
  IF r.d.root[c] = "active" THEN r ELSE SetCaseStatus(r, c, "archived")

RecoverCaseArchive(r, c) ==
  IF r.d.root[c] = "active" THEN r
  ELSE CompleteArchive(SetCaseStatus(r, c, "archived"), c)

(* Only the archive of a case is resumed; any other record stays.  (Doctor  *)
(* also drops the record of an undo that an older release began on a push  *)
(* already started: now UnmarkDiscarded refuses that before it begins.)     *)
Repairable == disk.txn.kind = "case_archive" /\ disk.root[disk.txn.on] # "none"

DoctorRepair ==
  /\ Repairable
  /\ Perform(Commit(RecoverCaseArchive(Start, disk.txn.on)))

(* afmail render refresh. *)
RefreshViews == Ready /\ Perform(RenderRefresh(Start))

-----------------------------------------------------------------------------
AtMostOne == {S \in SUBSET Messages : \A i, j \in S : i = j}

CaseCommand ==
  \E c \in Cases :
    \/ \E S \in AtMostOne : CreateCase(c, S)
    \/ \E m \in Messages : AddMessageToCase(c, m)
    \/ \E m \in Messages : RemoveMessageFromCase(c, m)
    \/ ArchiveCase(c)
    \/ UnarchiveCase(c)
    \/ TrashCase(c)
    \/ DeleteCase(c)
    \/ \E other \in Cases : MergeCase(c, other)
    \/ \E m \in Messages \cup {None} : NewDraft(c, m)
    \/ \E i \in {"upload", "send"} : QueueDraft(c, i)
    \/ RemoveDraft(c)

MessageCommand ==
  \E m \in Messages :
    \/ SpamMessage(m)
    \/ TrashMessage(m)
    \/ UnspamMessage(m)
    \/ UntrashMessage(m)
    \/ Purge(m)
    \/ \E box \in Mailboxes : PullSees(m, box)
    \/ ReconcileRemoteMissing(m)

NotificationCommand ==
  \E n \in Notifications :
    \/ MakeNotification(n)
    \/ \E m \in Messages : CreateNotification(n, m)
    \/ \E m \in Messages : NotificationAddMessage(n, m)
    \/ \E m \in Messages : NotificationRemoveMessage(n, m)
    \/ \E m \in Messages, to \in Notifications : NotificationMove(n, to, m)
    \/ NotificationDelete(n)

PushCommand ==
  \/ \E m \in Messages : PushMessage(m)
  \/ \E m \in Messages : PushFails(m)
  \/ \E c \in Cases : PushDraft(c)
  \/ PushSkips

Next ==
  \/ CaseCommand
  \/ MessageCommand
  \/ NotificationCommand
  \/ PushCommand
  \/ DoctorRepair
  \/ RefreshViews

Spec == Init /\ [][Next]_vars

-----------------------------------------------------------------------------
TypeOK ==
  /\ disk \in Disk
  /\ crashes \in 0 .. MaxCrashes

(* No workspace any command writes, whole or cut short by a crash, has a   *)
(* message in two dispositions, in two notifications or in one of each:    *)
(* disposition_state_by_message and the overlay index would refuse every   *)
(* later command.  The order of the writes in set_message_disposition and  *)
(* set_direct_message_notification is what this rests on.                   *)
CollectionsAgree ==
  \A m \in Messages :
    \/ NotificationsOf(disk, m) = {} /\ \A j, k \in DispositionsOf(disk, m) : j = k
    \/ DispositionsOf(disk, m) = {} /\ \A i, n \in NotificationsOf(disk, m) : i = n

(* A purged message is in no case and no notification, and no push waits   *)
(* for it, even when the command that filed it died before it cleared the  *)
(* disposition that build_purge_plan goes by.                               *)
PurgedIsUnreferenced ==
  \A m \in Messages : disk.stored[m] = "none" => ~Referenced(disk, m, {})

(* The references between messages, collections and cases survive a crash   *)
(* between any two writes.                                                   *)
ReferencesAreSound == CollectionsAgree /\ PurgedIsUnreferenced

(* Without a crash, a discarded message is in no case: filing it takes the *)
(* disposition back, discarding it is refused while a case holds it.        *)
DiscardedIsInNoCase ==
  crashes = 0 /\ disk.txn = NoTxn =>
    \A m \in Messages : DispositionsOf(disk, m) # {} => CasesWith(disk, m) = {}

(* Without a crash, the triage directory that triage list and triage       *)
(* review go by shows exactly the messages in no case, notification or     *)
(* disposition: no command forgets to bring it up to date.                  *)
TriageViewsAgree ==
  crashes = 0 /\ disk.txn = NoTxn =>
    disk.triage = {m \in Messages : disk.stored[m] # "none" /\ TriageCandidate(disk, m)}

(* A command that is not cut short files a message in one place and shows  *)
(* it there.                                                                 *)
FilingIsWhole == DiscardedIsInNoCase /\ TriageViewsAgree

(* A push whose remote effects have started is neither replaced nor        *)
(* forgotten, whatever the user files the message under meanwhile: only    *)
(* the push command that carries it through ends it                        *)
(* (ensure_started_action_unchanged, the removal of pending pushes).        *)
StartedPushIsKept ==
  [][\A m \in Messages :
       disk.push[m].started => \/ disk'.push[m] = disk.push[m]
                               \/ disk'.push[m] = NoPush /\ PushMessage(m)]_vars

(* When the archive of a case ends, at once or by doctor repair after a    *)
(* crash between any two of its writes, the case is archiving exactly when *)
(* work is pending, and no message of it that may be archived is left in   *)
(* the inbox without its push.                                              *)
ArchiveIsFinished ==
  [][\A c \in Cases :
       \/ disk.txn.kind # "case_archive" /\ disk.root[c] # "active"
       \/ disk.txn.kind = "case_archive" /\ disk.txn.on # c
       \/ disk'.txn # NoTxn \/ disk'.root[c] # "archived"
       \/ /\ (disk'.status[c] = "archiving") <=> HasPendingArchiveWork(disk', c)
          /\ \A m \in disk'.items[c] :
               ~(ArchiveEligible(disk', m, c, FALSE) /\ disk'.loc[m] = "inbox")]_vars

(* Every command, whole or cut short, does to each message one of the      *)
(* things MessageLife allows: nothing filed is discarded except with its   *)
(* case, and only what is discarded is purged.                              *)
Life(m) == IF disk.stored[m] = "none" THEN "purged" ELSE StatusOf(disk, m)

Abstract == INSTANCE MessageLife WITH life <- [m \in Messages |-> Life(m)]

(* The refinement: Life is the place MessageLife speaks of.                 *)
LifeIsImplemented == Abstract!Spec

=============================================================================
