---------------------------- MODULE OutboundPush ----------------------------
(***************************************************************************)
(* The durable queue item of one draft: `afmail case draft send/upload`,   *)
(* `afmail push`, `afmail push --confirm`, `afmail push recover`, and the  *)
(* local finalisation that follows the remote steps.                       *)
(*                                                                         *)
(* The queue item is a file (`disk`); a running push command works on a    *)
(* copy of it (`mem`) and writes the copy back at fixed points.  Every     *)
(* write may fail, the process may die between any two of them, and the    *)
(* answer of a remote call may be lost while its effect happens, happens   *)
(* later, or never happens.  The people who edit the draft file and the    *)
(* configuration do not take the workspace lock.                           *)
(***************************************************************************)
EXTENDS Naturals, Sequences, FiniteSets

CONSTANTS
    Revs,         \* contents a draft can have
    Pids,         \* push ids; each new queue lifecycle takes an unused one
    EventIds,     \* audit event ids
    Configs,      \* the action configurations the workspace may be given
    MaxMistakes,  \* bound: wrong "not sent"/"absent" answers per push id and step
    None          \* no draft, no item, no evidence, no audit event

Actions == {"save", "send"}

(* step_label: what a configured step does.  Appending to the Drafts and to *)
(* the Sent mailbox are two labels because the label holds the mailbox id.  *)
Labels == {"send", "drafts", "sent", "flags"}

(* Steps that are marked remote_outcome_unknown before they are attempted.  *)
Irreversible == Labels \ {"flags"}

NoRepeat(steps) == \A i, j \in DOMAIN steps : steps[i] = steps[j] => i = j

(* validate_steps: a send list holds exactly one send.  No list appends to  *)
(* one mailbox twice, so that a label names a step.                         *)
ASSUME ConfigsAssumption ==
    \A c \in Configs :
        /\ c \in [save : Seq(Labels), send : Seq(Labels)]
        /\ NoRepeat(c.save)
        /\ NoRepeat(c.send)
        /\ \E i \in DOMAIN c.send : c.send[i] = "send"

ASSUME ConstantsAssumption ==
    /\ MaxMistakes \in Nat
    /\ None \notin Revs
    /\ None \notin Pids
    /\ None \notin EventIds

(* PushStepStatus; a pending step is "fresh" until started_rfc3339 is set.  *)
Status == {"fresh", "started", "succeeded", "failed", "unknown"}

StepState == [label : Labels, status : Status]

(* PushLocalStage: 0 is none, then RemoteSucceeded, OutboundRecorded,       *)
(* DraftRemoved, PendingCleared, AuditPending.                              *)
Stages == 0..5

(* PushItem.  `ev` and `action` are the event id and action of its          *)
(* audit_pending payload.                                                   *)
Item == [pid    : Pids \cup {None},
         st     : Seq(StepState),
         stage  : Stages,
         ev     : EventIds \cup {None},
         action : Actions \cup {"none"}]

NewItem(p) == [pid |-> p, st |-> <<>>, stage |-> 0, ev |-> None, action |-> "none"]

NoItem == NewItem(None)

Draft == [rev : Revs \cup {None}, intent : Actions \cup {"none"}]

NoDraft == [rev |-> None, intent |-> "none"]

Run == [act   : Actions,
        rev   : Revs \cup {None},
        steps : Seq(Labels),
        idx   : Nat]

NoRun == [act |-> "send", rev |-> None, steps |-> <<>>, idx |-> 1]

PCs == {"idle", "step", "attempt", "call", "ok", "rejected", "lost", "flagerr",
        "lookup", "final", "removed", "advance", "audit", "delete", "cases",
        "failed", "auditfail"}

VARIABLES
    draft,      \* the draft file
    config,     \* the action configuration
    disk,       \* the queue item file
    used,       \* push ids given out so far
    evidence,   \* push id -> content of .afmail/messages/message_sent_<id>.eml
    log,        \* push_succeeded events of the audit log
    plans,      \* plan ids shown to the user that still match the queue record
    pc, mem, run,     \* the running push command and its in-memory state
    copies, late,     \* remote effects that happened, and that may still happen
    mistakes,   \* wrong answers given to `push recover`, per step and push id
    settled,    \* push ids whose send a person settled with --sent
    shown,      \* contents reviewed in a preview, per push id
    issued,     \* contents handed to the recipients' server, per push id
    done,       \* push id -> the action and steps whose remote part completed
    dropped     \* push ids whose draft the finalisation removed

workspace == <<draft, config, disk, used, evidence, log>>
command   == <<pc, mem, run>>
remote    == <<copies, late>>
history   == <<mistakes, settled, shown, issued, done, dropped>>
vars      == <<workspace, plans, command, remote, history>>

NoneDone == [act |-> "none", steps |-> <<>>]

Init ==
    /\ draft = NoDraft
    /\ config \in Configs
    /\ disk = NoItem
    /\ used = {}
    /\ evidence = [p \in Pids |-> None]
    /\ log = {}
    /\ plans = {}
    /\ pc = "idle" /\ mem = NoItem /\ run = NoRun
    /\ copies = [k \in Labels |-> [p \in Pids |-> 0]]
    /\ late = [k \in Labels |-> [p \in Pids |-> 0]]
    /\ mistakes = [k \in Labels |-> [p \in Pids |-> 0]]
    /\ settled = {} /\ shown = {} /\ issued = {} /\ dropped = {}
    /\ done = [p \in Pids |-> NoneDone]

-----------------------------------------------------------------------------
(* A definition named X_Bug is X with a plausible mistake in it; no action   *)
(* uses it.  Putting it in X's place must make a run fail.                  *)

(* has_started_effects *)
Started(it) ==
    \/ \E i \in DOMAIN it.st : it.st[i].status # "fresh"
    \/ it.stage # 0
    \/ it.ev # None

HasItem == disk.pid # None

(* configured_outbound_steps, after filter_reply_to_steps *)
ConfiguredSteps(c, a) == IF a = "save" THEN c.save ELSE c.send

(* The comparison of reset_progress_if_plan_changed: the recorded labels    *)
(* are the planned ones or a proper prefix of them.                         *)
KeepsProgress(it, steps) ==
    /\ Len(it.st) <= Len(steps)
    /\ \A i \in DOMAIN it.st : it.st[i].label = steps[i]

(* plan_item: an item is planned, or dropped as no longer planned, or (when *)
(* neither holds) makes the whole plan fail.                                *)
Planned(it, d, c) ==
    \/ it.ev # None
    \/ d.rev = None /\ it.stage >= 3
    \/ /\ d.rev # None
       /\ d.intent # "none"
       /\ KeepsProgress(it, ConfiguredSteps(c, d.intent)) \/ ~Started(it)

NoLongerPlanned_Bug(it, d) == d.rev = None \/ d.intent = "none"

NoLongerPlanned(it, d) ==
    /\ ~Started(it)
    /\ d.rev = None \/ d.intent = "none"

FromDraft(it, d) == it.ev = None /\ d.rev # None

(* hydrate_audit_pending_plan, and plan_item's plan for a removed draft.    *)
PlannedRun(it, d, c) ==
    IF FromDraft(it, d)
    THEN [act |-> d.intent, rev |-> d.rev,
          steps |-> ConfiguredSteps(c, d.intent), idx |-> 1]
    ELSE [NoRun EXCEPT !.act = IF it.ev # None THEN it.action ELSE "send"]

(* reset_progress_if_plan_changed *)
PlannedItem(it, d, c) ==
    IF FromDraft(it, d) /\ ~KeepsProgress(it, ConfiguredSteps(c, d.intent))
    THEN [it EXCEPT !.st = <<>>, !.stage = 0]
    ELSE it

(* ensure_step_states *)
EnsureStepStates(it, steps) ==
    [it EXCEPT !.st = [i \in 1..Len(steps) |->
        IF i <= Len(it.st) THEN it.st[i] ELSE [label |-> steps[i], status |-> "fresh"]]]

(* PushPlanDigest, without the queue record: `plans` loses every id when    *)
(* the record changes.  An audit-pending item binds no draft.               *)
Digest == [draft |-> IF disk.ev # None THEN NoDraft ELSE draft, config |-> config]

-----------------------------------------------------------------------------
(* People and local commands.  A command needs the exclusive workspace      *)
(* lock, so no push is running; editors do not.                             *)

(* `draft new`, `draft change`, `draft attach`, or an editor. *)
EditDraft ==
    /\ \E r \in Revs : draft' = [draft EXCEPT !.rev = r]
    /\ UNCHANGED <<config, disk, used, evidence, log, plans, command, remote, history>>

(* The file is deleted outside afmail. *)
DeleteDraftFile ==
    /\ draft # NoDraft
    /\ draft' = NoDraft
    /\ UNCHANGED <<config, disk, used, evidence, log, plans, command, remote, history>>

EditConfig ==
    /\ config' \in Configs
    /\ UNCHANGED <<draft, disk, used, evidence, log, plans, command, remote, history>>

(* queue_draft and queue_outbound; validate_outbound_requeue refuses an     *)
(* item that has started and resets one whose action changes.               *)
QueueDraft(a) ==
    /\ pc = "idle"
    /\ draft.rev # None
    /\ a = "save" => config.save # <<>>
    /\ ~Started(disk)
    /\ draft' = [draft EXCEPT !.intent = a]
    /\ IF HasItem
       THEN /\ disk' = IF draft.intent = a THEN disk ELSE NewItem(disk.pid)
            /\ used' = used
       ELSE \E p \in Pids \ used : disk' = NewItem(p) /\ used' = used \cup {p}
    /\ plans' = {}
    /\ UNCHANGED <<config, evidence, log, command, remote, history>>

(* remove_draft and remove_outbound_for_draft *)
RemoveDraft ==
    /\ pc = "idle"
    /\ ~Started(disk)
    /\ draft # NoDraft \/ HasItem
    /\ draft' = NoDraft
    /\ disk' = NoItem
    /\ plans' = {}
    /\ UNCHANGED <<config, used, evidence, log, command, remote, history>>

(* `afmail push`: build_push_plan and its plan id.  Only the last id is     *)
(* kept: an older one matches again only when a new preview would give it.  *)
Preview ==
    /\ pc = "idle" /\ HasItem
    /\ Planned(disk, draft, config) \/ NoLongerPlanned(disk, draft)
    /\ plans' = {Digest}
    /\ shown' = IF draft.rev = None THEN shown ELSE shown \cup {<<disk.pid, draft.rev>>}
    /\ UNCHANGED <<workspace, command, remote, mistakes, settled, issued, done, dropped>>

(* Where push_with_progress takes an item up: audit only, finalisation      *)
(* only, or the steps; push_outbound refuses an upload without steps.       *)
StartPoint(it, r) ==
    IF it.ev # None THEN "audit"
    ELSE IF it.stage # 0 THEN "final"
    ELSE IF r.act = "save" /\ r.steps = <<>> THEN "failed"
    ELSE "step"

PlanMatches_Bug == plans # {}

PlanMatches == Digest \in plans

(* `afmail push --confirm`: the plan is built again, must have the id that  *)
(* was confirmed, and is written back by reconcile_push_plan.               *)
Confirm ==
    /\ pc = "idle" /\ HasItem
    /\ PlanMatches
    /\ Planned(disk, draft, config)
    /\ LET it == PlannedItem(disk, draft, config)
           r  == PlannedRun(disk, draft, config)
           at == StartPoint(it, r)
       IN  /\ disk' = it
           /\ run' = r
           /\ pc' = at
           /\ mem' = IF at = "step" THEN EnsureStepStates(it, r.steps) ELSE it
    /\ UNCHANGED <<draft, config, used, evidence, log, plans, remote, history>>

(* reconcile_push_plan deletes an item that is no longer planned. *)
ConfirmDropsItem ==
    /\ pc = "idle" /\ HasItem
    /\ PlanMatches
    /\ NoLongerPlanned(disk, draft)
    /\ disk' = NoItem
    /\ plans' = {}
    /\ UNCHANGED <<draft, config, used, evidence, log, command, remote, history>>

-----------------------------------------------------------------------------
(* The running command.                                                     *)

(* write_item(root, &item)?: on failure the copy in memory is ahead of the  *)
(* file and the command takes its error path.                               *)
WriteItem(it, next) ==
    /\ mem' = it
    /\ \/ disk' = it /\ plans' = {} /\ pc' = next
       \/ disk' = disk /\ plans' = plans /\ pc' = "failed"

Mark(s) == [mem EXCEPT !.st[run.idx].status = s]

StepStatus == mem.st[run.idx].status
StepLabel == run.steps[run.idx]
AtStep == pc = "step" /\ run.idx <= Len(run.steps)

NextStep == run' = [run EXCEPT !.idx = @ + 1]

(* execute_tracked_steps: a step that succeeded before is passed over. *)
SkipSucceeded ==
    /\ AtStep /\ StepStatus = "succeeded"
    /\ NextStep
    /\ UNCHANGED <<pc, mem, workspace, plans, remote, history>>

(* A step left uncertain by an earlier attempt is looked up, not repeated. *)
MeetUnknown ==
    /\ AtStep /\ StepStatus = "unknown"
    /\ pc' = "lookup"
    /\ UNCHANGED <<mem, run, workspace, plans, remote, history>>

LookupFinds_Bug ==
    /\ pc = "lookup"
    /\ StepLabel # "send"
    /\ WriteItem(Mark("succeeded"), "step")
    /\ NextStep
    /\ UNCHANGED <<draft, config, used, evidence, log, remote, history>>

(* recover_remote_outcome_unknown_step: only an append whose Message-ID is  *)
(* found once in its mailbox counts as done.                                *)
LookupFinds ==
    /\ pc = "lookup"
    /\ StepLabel # "send"
    /\ copies[StepLabel][mem.pid] = 1
    /\ WriteItem(Mark("succeeded"), "step")
    /\ NextStep
    /\ UNCHANGED <<draft, config, used, evidence, log, remote, history>>

LookupFails ==
    /\ pc = "lookup"
    /\ StepLabel = "send" \/ copies[StepLabel][mem.pid] # 1
    /\ pc' = "failed"
    /\ UNCHANGED <<mem, run, workspace, plans, remote, history>>

(* mark_step_pending and its write. *)
BeginStep ==
    /\ AtStep /\ StepStatus \notin {"succeeded", "unknown"}
    /\ WriteItem(Mark("started"), "attempt")
    /\ UNCHANGED <<run, draft, config, used, evidence, log, remote, history>>

(* Preparation fails before the call: mark_step_failed. *)
PreflightFails ==
    /\ pc = "attempt"
    /\ WriteItem(Mark("failed"), "failed")
    /\ UNCHANGED <<run, draft, config, used, evidence, log, remote, history>>

PersistUnknown_Bug ==
    /\ pc = "attempt" /\ StepLabel # "flags"
    /\ pc' = "call"
    /\ UNCHANGED <<mem, run, workspace, plans, remote, history>>

(* persist_remote_outcome_unknown comes before every irreversible call.  *)
PersistUnknown ==
    /\ pc = "attempt" /\ StepLabel # "flags"
    /\ WriteItem(Mark("unknown"), "call")
    /\ UNCHANGED <<run, draft, config, used, evidence, log, remote, history>>

(* execute_add_flags repeats safely and is not marked. *)
AttemptFlags ==
    /\ pc = "attempt" /\ StepLabel = "flags"
    /\ \E ok, applied \in BOOLEAN :
          /\ ok => applied
          /\ pc' = IF ok THEN "ok" ELSE "flagerr"
          /\ copies' = IF applied THEN [copies EXCEPT !["flags"][mem.pid] = 1] ELSE copies
    /\ UNCHANGED <<mem, run, workspace, plans, late, history>>

Issue == issued' = IF StepLabel = "send" THEN issued \cup {<<mem.pid, run.rev>>} ELSE issued

(* The call of execute_outbound_step: accepted; refused by the server; or   *)
(* the answer is lost and the effect is there, still to come, or not.       *)
CallAccepted ==
    /\ pc = "call"
    /\ copies' = [copies EXCEPT ![StepLabel][mem.pid] = @ + 1]
    /\ pc' = "ok"
    /\ Issue
    /\ UNCHANGED <<mem, run, workspace, plans, late, mistakes, settled, shown, done, dropped>>

CallRejected ==
    /\ pc = "call"
    /\ pc' = "rejected"
    /\ UNCHANGED <<mem, run, workspace, plans, remote, history>>

CallAnswerLost ==
    /\ pc = "call"
    /\ pc' = "lost"
    /\ \/ /\ copies' = [copies EXCEPT ![StepLabel][mem.pid] = @ + 1]
          /\ late' = late
          /\ Issue
       \/ /\ late' = [late EXCEPT ![StepLabel][mem.pid] = @ + 1]
          /\ copies' = copies
          /\ Issue
       \/ UNCHANGED <<remote, issued>>
    /\ UNCHANGED <<mem, run, workspace, plans, mistakes, settled, shown, done, dropped>>

(* mark_step_succeeded and its write. *)
StepSucceeds ==
    /\ pc = "ok"
    /\ WriteItem(Mark("succeeded"), "step")
    /\ NextStep
    /\ UNCHANGED <<draft, config, used, evidence, log, remote, history>>

(* remote_effect_not_applied: only an explicit refusal (or an error of a    *)
(* step that was never marked) makes the step failed; any other error       *)
(* leaves it unknown.                                                       *)
StepErrs ==
    /\ pc \in {"rejected", "lost", "flagerr"}
    /\ WriteItem(IF pc = "lost" THEN Mark("unknown") ELSE Mark("failed"), "failed")
    /\ UNCHANGED <<run, draft, config, used, evidence, log, remote, history>>

-----------------------------------------------------------------------------
(* finalize_pushed_item *)

StepsDone ==
    /\ pc = "step" /\ run.idx > Len(run.steps)
    /\ pc' = "final"
    /\ UNCHANGED <<mem, run, workspace, plans, remote, history>>

RecordRemoteSucceeded_Bug ==
    /\ pc = "final" /\ mem.stage = 0
    /\ WriteItem([mem EXCEPT !.stage = 2], "final")
    /\ done' = [done EXCEPT ![mem.pid] = [act |-> run.act, steps |-> run.steps]]
    /\ UNCHANGED <<run, draft, config, used, evidence, log, remote,
                   mistakes, settled, shown, issued, dropped>>

(* advance_local_stage to RemoteSucceeded. *)
RecordRemoteSucceeded ==
    /\ pc = "final" /\ mem.stage = 0
    /\ WriteItem([mem EXCEPT !.stage = 1], "final")
    /\ done' = [done EXCEPT ![mem.pid] = [act |-> run.act, steps |-> run.steps]]
    /\ UNCHANGED <<run, draft, config, used, evidence, log, remote,
                   mistakes, settled, shown, issued, dropped>>

(* record_outbound_after_push and mark_sent_and_append_case: a send leaves  *)
(* its message as local evidence, and refuses other content under its id.   *)
RecordOutbound ==
    /\ pc = "final" /\ mem.stage = 1
    /\ IF run.act = "send"
       THEN IF evidence[mem.pid] \in {None, run.rev}
            THEN evidence' = [evidence EXCEPT ![mem.pid] = run.rev] /\ pc' = "advance"
            ELSE evidence' = evidence /\ pc' = "failed"
       ELSE evidence' = evidence /\ pc' = "advance"
    /\ UNCHANGED <<mem, run, draft, config, disk, used, log, plans, remote, history>>

(* remove_outbound_draft_after_push: the file goes first, its drafts.json   *)
(* entry and the draft_sent event after it.                                 *)
RemoveOutboundDraft ==
    /\ pc = "final" /\ mem.stage = 2
    /\ draft' = NoDraft
    /\ dropped' = dropped \cup {mem.pid}
    /\ pc' = "removed"
    /\ UNCHANGED <<mem, run, config, disk, used, evidence, log, plans, remote,
                   mistakes, settled, shown, issued, done>>

AuditDraftRemoval ==
    /\ pc = "removed"
    /\ pc' = "advance"
    /\ UNCHANGED <<mem, run, workspace, plans, remote, history>>

AdvanceLocalStage ==
    /\ pc = "advance"
    /\ WriteItem([mem EXCEPT !.stage = @ + 1], "final")
    /\ UNCHANGED <<run, draft, config, used, evidence, log, remote, history>>

(* clear_pending_push_item has no message to clear for a draft. *)
ClearPending ==
    /\ pc = "final" /\ mem.stage = 3
    /\ WriteItem([mem EXCEPT !.stage = 4], "final")
    /\ UNCHANGED <<run, draft, config, used, evidence, log, remote, history>>

AuditPending_Bug(it, e, a) == [it EXCEPT !.stage = 5, !.ev = e]

AuditPending(it, e, a) == [it EXCEPT !.stage = 5, !.ev = e, !.action = a]

(* prepare_push_audit_pending: the event id is new and becomes durable      *)
(* before the event is written.  An id that no event carries is as good as  *)
(* unused.                                                                  *)
PreparePushAudit ==
    /\ pc = "final" /\ mem.stage = 4
    /\ \E e \in {x \in EventIds : \A l \in log : l.ev # x} :
          WriteItem(AuditPending(mem, e, run.act), "audit")
    /\ UNCHANGED <<run, draft, config, used, evidence, log, remote, history>>

(* append_audit_event_with_identity: an event already in the log is not     *)
(* written twice.  The append may report an error although its line is in   *)
(* the log.                                                                 *)
AppendAudit ==
    /\ pc = "audit"
    /\ \/ log' = log \cup {[ev |-> mem.ev, pid |-> mem.pid, action |-> mem.action]}
          /\ pc' \in {"delete", "auditfail"}
       \/ log' = log /\ pc' = "auditfail"
    /\ UNCHANGED <<mem, run, draft, config, disk, used, evidence, plans, remote, history>>

(* delete_item *)
DeleteItem ==
    /\ pc = "delete"
    /\ \/ disk' = NoItem /\ plans' = {} /\ pc' = "cases"
       \/ disk' = disk /\ plans' = plans /\ pc' = "auditfail"
    /\ UNCHANGED <<mem, run, draft, config, used, evidence, log, remote, history>>

EndRun == pc' = "idle" /\ mem' = NoItem /\ run' = NoRun

(* finalize_archiving_cases ends the item, or fails after its deletion. *)
FinishItem ==
    /\ pc = "cases"
    /\ EndRun
    /\ UNCHANGED <<workspace, plans, remote, history>>

CasesFail ==
    /\ pc = "cases"
    /\ pc' = "auditfail"
    /\ UNCHANGED <<mem, run, workspace, plans, remote, history>>

(* The error paths of push_with_progress: the copy in memory is written     *)
(* back, also over a file that complete_successful_push_audit deleted, and  *)
(* a failing write is only reported.                                        *)
EndInError ==
    /\ pc \in {"failed", "auditfail"}
    /\ \/ disk' = mem /\ plans' = {}
       \/ disk' = disk /\ plans' = plans
    /\ EndRun
    /\ UNCHANGED <<draft, config, used, evidence, log, remote, history>>

(* Local work between two writes fails: refreshing views, looking up a      *)
(* mailbox, writing evidence, removing the draft, appending draft_sent.     *)
LocalError ==
    /\ pc \in {"step", "lookup", "final", "removed", "advance"}
    /\ pc' = "failed"
    /\ UNCHANGED <<mem, run, workspace, plans, remote, history>>

Crash ==
    /\ pc # "idle"
    /\ EndRun
    /\ UNCHANGED <<workspace, plans, remote, history>>

-----------------------------------------------------------------------------
(* `afmail push recover`.  The evidence is checked again when a recovery    *)
(* plan is confirmed, under the lock, and an audit event precedes the write.*)

Unstarted(it, from) == \A i \in DOMAIN it.st : i >= from => it.st[i].status = "fresh"

RecoverableAt(i, k) ==
    /\ pc = "idle" /\ HasItem
    /\ disk.stage = 0 /\ disk.ev = None
    /\ i \in DOMAIN disk.st
    /\ disk.st[i] = [label |-> k, status |-> "unknown"]
    /\ \A j \in DOMAIN disk.st : j < i => disk.st[j].status = "succeeded"
    /\ Unstarted(disk, i + 1)
    /\ Planned(disk, draft, config)
    /\ draft.intent = "send"
    /\ Len(disk.st) = Len(config.send)

(* The answer "it did not happen" is wrong when an effect nobody has        *)
(* accounted for happened or is still on its way.                           *)
Wrong(k, p) == copies[k][p] + late[k][p] > mistakes[k][p]

Release(i, k) ==
    /\ Wrong(k, disk.pid) => mistakes[k][disk.pid] < MaxMistakes
    /\ mistakes' = IF Wrong(k, disk.pid)
                   THEN [mistakes EXCEPT ![k][disk.pid] = copies[k][disk.pid] + late[k][disk.pid]]
                   ELSE mistakes
    /\ disk' = [disk EXCEPT !.st[i].status = "fresh"]
    /\ settled' = settled

(* recover_send: a person says whether the mail left. *)
SettleSend(sent) ==
    /\ \E i \in DOMAIN disk.st :
          /\ RecoverableAt(i, "send")
          /\ IF sent
             THEN /\ disk' = [disk EXCEPT !.st[i].status = "succeeded"]
                  /\ settled' = settled \cup {disk.pid}
                  /\ mistakes' = mistakes
             ELSE Release(i, "send")
    /\ plans' = {}
    /\ UNCHANGED <<draft, config, used, evidence, log, command, remote,
                   shown, issued, done, dropped>>

(* recover_drafts_append: the Drafts and Sent mailboxes are searched for    *)
(* the Message-ID; a Sent copy or several matches refuse recovery.          *)
RecoverDraftsAppend ==
    /\ RecoverableAt(1, "drafts")
    /\ copies["sent"][disk.pid] = 0
    /\ \/ /\ copies["drafts"][disk.pid] = 1
          /\ disk' = [disk EXCEPT !.st[1].status = "succeeded"]
          /\ UNCHANGED <<mistakes, settled>>
       \/ /\ copies["drafts"][disk.pid] = 0
          /\ Release(1, "drafts")
    /\ plans' = {}
    /\ UNCHANGED <<draft, config, used, evidence, log, command, remote,
                   shown, issued, done, dropped>>

(* A call whose answer was lost takes effect after all, or never does. *)
LateEffect ==
    \E k \in Irreversible, p \in Pids :
        /\ late[k][p] > 0
        /\ late' = [late EXCEPT ![k][p] = @ - 1]
        /\ \/ copies' = [copies EXCEPT ![k][p] = @ + 1]
           \/ copies' = copies
        /\ UNCHANGED <<workspace, plans, command, history>>

-----------------------------------------------------------------------------
UserStep ==
    \/ EditDraft \/ DeleteDraftFile \/ EditConfig
    \/ \E a \in Actions : QueueDraft(a)
    \/ RemoveDraft \/ Preview \/ Confirm \/ ConfirmDropsItem
    \/ \E sent \in BOOLEAN : SettleSend(sent)
    \/ RecoverDraftsAppend

StepExecution ==
    \/ SkipSucceeded \/ MeetUnknown \/ LookupFinds \/ LookupFails
    \/ BeginStep \/ PreflightFails \/ PersistUnknown \/ AttemptFlags
    \/ CallAccepted \/ CallRejected \/ CallAnswerLost
    \/ StepSucceeds \/ StepErrs

Finalisation ==
    \/ StepsDone \/ RecordRemoteSucceeded \/ RecordOutbound
    \/ RemoveOutboundDraft \/ AuditDraftRemoval \/ AdvanceLocalStage
    \/ ClearPending \/ PreparePushAudit \/ AppendAudit \/ DeleteItem
    \/ FinishItem \/ CasesFail \/ EndInError \/ LocalError

CommandStep == StepExecution \/ Finalisation

Next == UserStep \/ CommandStep \/ Crash \/ LateEffect

Spec == Init /\ [][Next]_vars

-----------------------------------------------------------------------------
(* Properties                                                               *)

(* Every variable keeps the shape the code gives its file or field. *)
TypeOK ==
    /\ draft \in Draft
    /\ config \in Configs
    /\ disk \in Item /\ mem \in Item
    /\ used \subseteq Pids
    /\ evidence \in [Pids -> Revs \cup {None}]
    /\ log \subseteq [ev : EventIds, pid : Pids, action : Actions]
    /\ plans \subseteq [draft : Draft, config : Configs]
    /\ pc \in PCs
    /\ run \in Run
    /\ copies \in [Labels -> [Pids -> Nat]]
    /\ late \in [Labels -> [Pids -> Nat]]
    /\ mistakes \in [Labels -> [Pids -> Nat]]
    /\ settled \subseteq Pids
    /\ shown \subseteq Pids \X Revs
    /\ issued \subseteq Pids \X (Revs \cup {None})
    /\ done \in [Pids -> [act : Actions \cup {"none"}, steps : Seq(Labels)]]
    /\ dropped \subseteq Pids

(* A send, a Drafts copy or a Sent copy is made at most once per push id,   *)
(* plus once for every time a person or a mailbox search wrongly said that  *)
(* it had not happened (execute_tracked_steps, push recover).               *)
AtMostOnce ==
    \A k \in Irreversible, p \in Pids : copies[k][p] + late[k][p] <= 1 + mistakes[k][p]

(* A push that is audited as succeeded did everything its plan said: each   *)
(* step took effect remotely, or is a send a person vouched for             *)
(* (execute_tracked_steps, finalize_pushed_item, audit_push).               *)
AuditedMeansApplied ==
    \A e \in log :
        /\ done[e.pid].act # "none"
        /\ \A i \in DOMAIN done[e.pid].steps :
              LET k == done[e.pid].steps[i]
              IN  copies[k][e.pid] >= 1 \/ (k = "send" /\ e.pid \in settled)

(* Nobody is sent content that was not in a preview of this push item       *)
(* (require_matching_push_plan, planned_outbound_message).                  *)
OnlyReviewedContentIsSent == issued \subseteq shown

(* When finalisation removes the draft of a send, or completes the send,    *)
(* the message is kept as local evidence (finalize_pushed_item's order).    *)
SentMessageIsKept ==
    \A p \in Pids :
        /\ done[p].act = "send"
        /\ p \in dropped \/ \E e \in log : e.pid = p
        => evidence[p] # None

(* push_succeeded is in the audit log at most once per push id, although    *)
(* every write and append of the last stages may fail and be repeated.      *)
AuditedOnce ==
    \A a, b \in log : a.pid = b.pid => a = b

(* The audit log can be believed: what it calls succeeded was applied, and  *)
(* it says so once.                                                         *)
AuditIsTruthful == AuditedMeansApplied /\ AuditedOnce

(* A queue item with recorded progress leaves the queue only after its      *)
(* push_succeeded event is in the log (queue, remove, reconcile, delete).   *)
ProgressIsNeverForgotten ==
    [][disk.pid # None /\ disk'.pid # disk.pid /\ Started(disk)
       => \E e \in log : e.pid = disk.pid]_vars

(* "resuming must not need the draft again": an item whose draft            *)
(* finalisation has removed can still be planned.  plan_item refuses it     *)
(* while the stage DraftRemoved is not on disk.                             *)
ResumeNeedsNoDraft ==
    pc = "idle" /\ HasItem /\ disk.pid \in dropped /\ draft = NoDraft => Planned(disk, draft, config)
=============================================================================
