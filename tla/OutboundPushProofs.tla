------------------------- MODULE OutboundPushProofs -------------------------
(***************************************************************************)
(* Proofs about OutboundPush for every set of contents, push ids, audit    *)
(* event ids and configurations.                                           *)
(***************************************************************************)
EXTENDS OutboundPush, TLAPS

(* The places where the command is inside execute_tracked_steps. *)
InSteps == {"step", "attempt", "call", "ok", "rejected", "lost", "flagerr", "lookup"}

(* ... and at a definite step of the list. *)
AtAStep == InSteps \ {"step"}

(* What the program counter says about the command's copy of the item. *)
ControlOK ==
    /\ pc # "idle" => mem.pid # None /\ (HasItem => disk.pid = mem.pid)
    /\ disk.ev # None => disk.action # "none"
    /\ mem.ev # None => mem.action # "none"
    /\ pc \in {"audit", "delete", "cases", "auditfail"} => mem.ev # None
    /\ pc = "advance" => mem.stage \in {1, 2}
    /\ pc = "removed" => mem.stage = 2
    /\ pc \in InSteps => /\ DOMAIN mem.st = DOMAIN run.steps
                         /\ run.idx >= 1
                         /\ NoRepeat(run.steps)
                         /\ \A i \in DOMAIN mem.st : mem.st[i].label = run.steps[i]
    /\ pc \in AtAStep => run.idx \in DOMAIN run.steps

TypeInv == TypeOK /\ ControlOK

-----------------------------------------------------------------------------
(* Facts about the operators.                                               *)

(* Marking a step changes the status of that step and nothing else. *)
LEMMA MarkLemma ==
    ASSUME mem \in Item, run \in Run, NEW s \in Status
    PROVE  /\ Mark(s) \in Item
           /\ DOMAIN Mark(s).st = DOMAIN mem.st
           /\ \A i \in DOMAIN mem.st :
                 /\ Mark(s).st[i].label = mem.st[i].label
                 /\ Mark(s).st[i].status = IF i = run.idx THEN s ELSE mem.st[i].status
           /\ Mark(s).pid = mem.pid /\ Mark(s).stage = mem.stage
           /\ Mark(s).ev = mem.ev /\ Mark(s).action = mem.action
<1>1. mem.st \in Seq(StepState)  BY DEF Item
<1>2. [mem.st EXCEPT ![run.idx].status = s] \in Seq(StepState)
  <2>1. CASE run.idx \in DOMAIN mem.st
    <3>1. mem.st[run.idx] \in StepState  BY <1>1, <2>1
    <3>2. [mem.st[run.idx] EXCEPT !.status = s] \in StepState  BY <3>1 DEF StepState
    <3>3. QED  BY <1>1, <2>1, <3>2
  <2>2. CASE run.idx \notin DOMAIN mem.st
    <3>1. [mem.st EXCEPT ![run.idx].status = s] = mem.st  BY <1>1, <2>2
    <3>2. QED  BY <1>1, <3>1
  <2>3. QED  BY <2>1, <2>2
<1>3. Mark(s) = [mem EXCEPT !.st = [mem.st EXCEPT ![run.idx].status = s]]
  BY DEF Mark, Item
<1>4. Mark(s).st = [mem.st EXCEPT ![run.idx].status = s]  BY <1>3 DEF Item
<1>5. \A i \in DOMAIN mem.st : mem.st[i] \in StepState  BY <1>1
<1>6. Mark(s) \in Item /\ Mark(s).pid = mem.pid /\ Mark(s).stage = mem.stage
      /\ Mark(s).ev = mem.ev /\ Mark(s).action = mem.action
  BY <1>2, <1>3 DEF Item
<1>7. DOMAIN Mark(s).st = DOMAIN mem.st  BY <1>1, <1>4
<1>8. ASSUME NEW i \in DOMAIN mem.st
      PROVE  /\ Mark(s).st[i].label = mem.st[i].label
             /\ Mark(s).st[i].status = IF i = run.idx THEN s ELSE mem.st[i].status
  BY <1>1, <1>4, <1>5 DEF StepState
<1>9. QED  BY <1>6, <1>7, <1>8

(* write_item leaves the copy in memory as asked and the file either equal  *)
(* to it or untouched.                                                      *)
LEMMA WriteItemLemma ==
    ASSUME NEW it, NEW next, WriteItem(it, next)
    PROVE  /\ mem' = it
           /\ disk' \in {it, disk}
           /\ pc' \in {next, "failed"}
           /\ plans' \subseteq plans
           /\ pc' # "failed" => disk' = it
  BY DEF WriteItem


(* The placeholders are of the right shape. *)
LEMMA EmptyLemma ==
    /\ NoItem \in Item /\ NoItem.pid = None /\ NoItem.ev = None /\ NoItem.stage = 0
    /\ \A p \in Pids : NewItem(p) \in Item /\ NewItem(p).pid = p /\ NewItem(p).st = <<>>
                       /\ NewItem(p).ev = None /\ NewItem(p).stage = 0
    /\ NoRun \in Run /\ NoDraft \in Draft /\ NoneDone \in [act : Actions \cup {"none"}, steps : Seq(Labels)]
  BY DEF NoItem, NewItem, Item, NoRun, Run, NoDraft, Draft, NoneDone, Stages, Actions

(* Adding the audit payload changes only the stage and the payload. *)
LEMMA AuditItemLemma ==
    ASSUME NEW i \in Item, NEW e \in EventIds, NEW a \in Actions
    PROVE  LET j == AuditPending(i, e, a)
           IN  j \in Item /\ j.pid = i.pid /\ j.st = i.st /\ j.stage = 5 /\ j.ev = e /\ j.action = a
<1> DEFINE j1 == [i EXCEPT !.stage = 5]
           j2 == [j1 EXCEPT !.ev = e]
           j3 == [j2 EXCEPT !.action = a]
<1>1. j1 \in Item /\ j1.pid = i.pid /\ j1.st = i.st /\ j1.stage = 5
  BY DEF Item, Stages
<1> HIDE DEF j1
<1>2. j2 \in Item /\ j2.pid = i.pid /\ j2.st = i.st /\ j2.stage = 5 /\ j2.ev = e
  BY <1>1 DEF Item
<1> HIDE DEF j2
<1>3. j3 \in Item /\ j3.pid = i.pid /\ j3.st = i.st /\ j3.stage = 5 /\ j3.ev = e /\ j3.action = a
  BY <1>2 DEF Item
<1>4. j3 = AuditPending(i, e, a)
  BY DEF j1, j2, AuditPending, Item
<1>5. QED  BY <1>3, <1>4

(* Every configured list is a sequence of labels without repetition. *)
LEMMA ConfiguredLemma ==
    ASSUME NEW c \in Configs, NEW a
    PROVE  ConfiguredSteps(c, a) \in Seq(Labels) /\ NoRepeat(ConfiguredSteps(c, a))
  BY ConfigsAssumption DEF ConfiguredSteps

(* Planning keeps the identity of the item and fits its progress to the     *)
(* planned list; the list it runs comes from the configuration.             *)
LEMMA PlanLemma ==
    ASSUME disk \in Item, draft \in Draft, config \in Configs, disk.ev # None => disk.action # "none",
           Planned(disk, draft, config)
    PROVE  LET it == PlannedItem(disk, draft, config)
               r  == PlannedRun(disk, draft, config)
           IN  /\ it \in Item
               /\ it.pid = disk.pid /\ it.ev = disk.ev /\ it.action = disk.action
               /\ r \in Run /\ r.idx = 1
               /\ NoRepeat(r.steps)
               /\ it.ev = None /\ it.stage = 0 => KeepsProgress(it, r.steps)
               /\ it.st = disk.st \/ (it.st = <<>> /\ ~Started(disk))
<1> DEFINE it == PlannedItem(disk, draft, config)
           r  == PlannedRun(disk, draft, config)
           cs == ConfiguredSteps(config, draft.intent)
<1>1. cs \in Seq(Labels) /\ NoRepeat(cs)  BY ConfiguredLemma
<1>2. CASE FromDraft(disk, draft)
  <2>1. draft.intent \in Actions /\ (KeepsProgress(disk, cs) \/ ~Started(disk))
    BY <1>2 DEF FromDraft, Planned, Draft
  <2>2. r = [act |-> draft.intent, rev |-> draft.rev, steps |-> cs, idx |-> 1]
    BY <1>2 DEF PlannedRun
  <2>3. r \in Run /\ r.idx = 1 /\ NoRepeat(r.steps)  BY <1>1, <2>1, <2>2 DEF Run, Draft
  <2>4. CASE KeepsProgress(disk, cs)
    BY <1>2, <2>2, <2>3, <2>4 DEF PlannedItem
  <2>5. CASE ~KeepsProgress(disk, cs)
    <3>1. it = [disk EXCEPT !.st = <<>>, !.stage = 0]  BY <1>2, <2>5 DEF PlannedItem
    <3> HIDE DEF it
    <3>a. <<>> \in Seq(StepState) /\ 0 \in Stages  BY DEF Stages
    <3>2. it \in Item /\ it.st = <<>> /\ it.pid = disk.pid /\ it.ev = disk.ev /\ it.action = disk.action
      BY <3>1, <3>a DEF Item
    <3>3. KeepsProgress(it, r.steps)  BY <1>1, <2>2, <3>2 DEF KeepsProgress
    <3>4. QED  BY <2>1, <2>3, <2>5, <3>2, <3>3 DEF it
  <2>6. QED  BY <2>4, <2>5
<1>3. CASE ~FromDraft(disk, draft)
  <2>1. it = disk  BY <1>3 DEF PlannedItem
  <2>2. r = [NoRun EXCEPT !.act = IF disk.ev # None THEN disk.action ELSE "send"]
    BY <1>3 DEF PlannedRun
  <2>3. disk.ev # None => disk.action \in Actions  BY DEF Item
  <2>4. r \in Run /\ r.idx = 1 /\ r.steps = <<>>
    <3>1. PICK a \in Actions : r = [NoRun EXCEPT !.act = a]
      BY <2>2, <2>3 DEF Actions
    <3>2. r = [act |-> a, rev |-> None, steps |-> <<>>, idx |-> 1]
      BY <3>1 DEF NoRun
    <3> HIDE DEF r
    <3>3. QED  BY <3>2 DEF Run
  <2>5. NoRepeat(r.steps)  BY <2>4 DEF NoRepeat
  <2>6. disk.ev = None => disk.stage >= 3  BY <1>3 DEF FromDraft, Planned
  <2>7. QED  BY <2>1, <2>4, <2>5, <2>6
<1>4. QED  BY <1>2, <1>3

(* ensure_step_states keeps the recorded progress and adds fresh steps. *)
LEMMA EnsureLemma ==
    ASSUME NEW it \in Item, NEW steps \in Seq(Labels), KeepsProgress(it, steps)
    PROVE  LET e == EnsureStepStates(it, steps)
           IN  /\ e \in Item
               /\ e.pid = it.pid /\ e.ev = it.ev /\ e.action = it.action /\ e.stage = it.stage
               /\ DOMAIN e.st = DOMAIN steps
               /\ \A i \in DOMAIN e.st : e.st[i].label = steps[i]
               /\ \A i \in DOMAIN it.st : i \in DOMAIN e.st /\ e.st[i] = it.st[i]
<1> DEFINE st == [i \in 1..Len(steps) |->
                    IF i <= Len(it.st) THEN it.st[i] ELSE [label |-> steps[i], status |-> "fresh"]]
           e == EnsureStepStates(it, steps)
<1>1. it.st \in Seq(StepState)  BY DEF Item
<1>2. e = [it EXCEPT !.st = st]  BY DEF EnsureStepStates
<1>3. ASSUME NEW i \in 1..Len(steps)
      PROVE  st[i] \in StepState /\ st[i].label = steps[i]
  <2>1. CASE i <= Len(it.st)
    <3>1. i \in DOMAIN it.st /\ st[i] = it.st[i]  BY <1>1, <2>1
    <3>2. QED  BY <1>1, <3>1 DEF KeepsProgress
  <2>2. CASE ~(i <= Len(it.st))
    BY <2>2 DEF StepState, Status
  <2>3. QED  BY <2>1, <2>2
<1>4. st \in Seq(StepState) /\ DOMAIN st = DOMAIN steps  BY <1>3
<1>5. ASSUME NEW i \in DOMAIN it.st
      PROVE  i \in DOMAIN st /\ st[i] = it.st[i]
  BY <1>1 DEF KeepsProgress
<1>6. e \in Item /\ e.st = st /\ e.pid = it.pid /\ e.ev = it.ev /\ e.action = it.action
      /\ e.stage = it.stage
  BY <1>2, <1>4 DEF Item
<1>7. QED  BY <1>3, <1>4, <1>5, <1>6


(* Counting one more effect keeps the type of a counter table. *)
LEMMA CountLemma ==
    ASSUME NEW f \in [Labels -> [Pids -> Nat]], NEW k \in Labels, NEW p \in Pids, NEW n \in Nat
    PROVE  LET g == [f EXCEPT ![k][p] = n]
           IN  /\ g \in [Labels -> [Pids -> Nat]]
               /\ \A l \in Labels, q \in Pids :
                     g[l][q] = IF l = k /\ q = p THEN n ELSE f[l][q]
  OBVIOUS

-----------------------------------------------------------------------------
(* The type invariant.                                                      *)

LEMMA TypeInvInit == Init => TypeInv
  BY EmptyLemma DEF Init, TypeInv, TypeOK, ControlOK, HasItem, InSteps, AtAStep, PCs

(* Everything but the queue item and the command stays as it is. *)
Elsewhere == UNCHANGED <<draft, config, used, evidence, log, remote, history>>

(* Marking the current step and writing the item keeps the invariant. *)
LEMMA MarkStepLemma ==
    ASSUME TypeInv, pc \in InSteps, run.idx \in DOMAIN run.steps,
           NEW s \in Status, NEW next \in InSteps \cup {"failed"},
           WriteItem(Mark(s), next),
           run' = run \/ (next = "step" /\ NextStep),
           Elsewhere
    PROVE  TypeInv'
<1>1. mem \in Item /\ run \in Run /\ disk \in Item  BY DEF TypeInv, TypeOK
<1>2. /\ mem' = Mark(s) /\ disk' \in {Mark(s), disk} /\ pc' \in {next, "failed"}
      /\ plans' \subseteq plans
  BY WriteItemLemma
<1>3. /\ mem' \in Item /\ DOMAIN mem'.st = DOMAIN mem.st
      /\ \A i \in DOMAIN mem.st : mem'.st[i].label = mem.st[i].label
      /\ mem'.pid = mem.pid /\ mem'.stage = mem.stage
      /\ mem'.ev = mem.ev /\ mem'.action = mem.action
  BY <1>1, <1>2, MarkLemma
<1>4. run' \in Run /\ run'.steps = run.steps /\ run'.idx >= 1 /\ (run' = run \/ next = "step")
  BY <1>1 DEF NextStep, Run, TypeInv, ControlOK
<1>5. TypeOK'
  <2>1. disk' \in Item  BY <1>1, <1>2, <1>3
  <2>2. pc' \in PCs  BY <1>2 DEF PCs, InSteps
  <2>3. QED  BY <1>2, <1>3, <1>4, <2>1, <2>2 DEF TypeInv, TypeOK, Elsewhere, remote, history
<1>6. ControlOK'
  BY <1>2, <1>3, <1>4 DEF TypeInv, ControlOK, HasItem, InSteps, AtAStep
<1>7. QED  BY <1>5, <1>6 DEF TypeInv

(* So does a write that only moves the stage or the audit payload. *)
LEMMA StageStepLemma ==
    ASSUME TypeInv, pc \notin InSteps, pc # "idle",
           NEW it \in Item, it.pid = mem.pid, it.ev # None => it.action # "none",
           NEW next \in {"final", "audit"}, next = "audit" => it.ev # None,
           WriteItem(it, next), run' = run,
           UNCHANGED <<draft, config, used, evidence, log, remote>>,
           UNCHANGED <<mistakes, settled, shown, issued, dropped>>,
           done' \in [Pids -> [act : Actions \cup {"none"}, steps : Seq(Labels)]]
    PROVE  TypeInv'
<1>1. mem' = it /\ disk' \in {it, disk} /\ pc' \in {next, "failed"} /\ plans' \subseteq plans
  BY WriteItemLemma
<1>2. TypeOK'  BY <1>1 DEF TypeInv, TypeOK, PCs, remote
<1>3. ControlOK'
  BY <1>1 DEF TypeInv, ControlOK, HasItem, InSteps, AtAStep
<1>4. QED  BY <1>2, <1>3 DEF TypeInv

(* Changing the status of one step of the item file is a change of the file *)
(* only.                                                                    *)
LEMMA SettleLemma ==
    ASSUME disk \in Item, NEW i \in DOMAIN disk.st, NEW s \in Status
    PROVE  LET d == [disk EXCEPT !.st[i].status = s]
           IN  /\ d \in Item /\ d.pid = disk.pid /\ d.ev = disk.ev /\ d.action = disk.action
               /\ d.stage = disk.stage
               /\ DOMAIN d.st = DOMAIN disk.st
               /\ \A j \in DOMAIN disk.st :
                     /\ d.st[j].label = disk.st[j].label
                     /\ d.st[j].status = IF j = i THEN s ELSE disk.st[j].status
<1> DEFINE d == [disk EXCEPT !.st[i].status = s]
           st == [disk.st EXCEPT ![i].status = s]
<1>1. disk.st \in Seq(StepState)  BY DEF Item
<1>2. disk.st[i] \in StepState  BY <1>1
<1>3. [disk.st[i] EXCEPT !.status = s] \in StepState  BY <1>2 DEF StepState
<1>4. st \in Seq(StepState) /\ DOMAIN st = DOMAIN disk.st  BY <1>1, <1>3
<1>5. \A j \in DOMAIN disk.st : disk.st[j] \in StepState  BY <1>1
<1>6. \A j \in DOMAIN disk.st : st[j].label = disk.st[j].label
                                /\ st[j].status = IF j = i THEN s ELSE disk.st[j].status
  BY <1>1, <1>5 DEF StepState
<1>7. d \in Item /\ d.st = st /\ d.pid = disk.pid /\ d.ev = disk.ev /\ d.action = disk.action
      /\ d.stage = disk.stage
  BY <1>4 DEF Item
<1>8. QED  BY <1>4, <1>6, <1>7

(* Answering "it did not happen" makes the step fresh and counts the answer  *)
(* when it was wrong.                                                       *)
LEMMA ReleaseLemma ==
    ASSUME TypeOK, NEW k \in Labels, NEW i \in DOMAIN disk.st, disk.pid \in Pids, Release(i, k)
    PROVE  /\ mistakes' \in [Labels -> [Pids -> Nat]]
           /\ \A l \in Labels, p \in Pids : mistakes'[l][p] >= mistakes[l][p]
           /\ copies[k][disk.pid] + late[k][disk.pid] <= mistakes'[k][disk.pid]
           /\ disk' = [disk EXCEPT !.st[i].status = "fresh"]
           /\ settled' = settled
<1> DEFINE n == copies[k][disk.pid] + late[k][disk.pid]
<1>1. mistakes \in [Labels -> [Pids -> Nat]] /\ n \in Nat  BY DEF TypeOK
<1>2. CASE Wrong(k, disk.pid)
  <2>1. n > mistakes[k][disk.pid]  BY <1>2 DEF Wrong
  <2>2. mistakes' = [mistakes EXCEPT ![k][disk.pid] = n]  BY <1>2 DEF Release
  <2> HIDE DEF n
  <2>3. mistakes' \in [Labels -> [Pids -> Nat]]  BY <1>1, <2>2, CountLemma
  <2>4. \A l \in Labels, p \in Pids :
           mistakes'[l][p] = IF l = k /\ p = disk.pid THEN n ELSE mistakes[l][p]
    BY <1>1, <2>2, CountLemma
  <2>5. \A l \in Labels, p \in Pids : mistakes[l][p] \in Nat  BY <1>1
  <2>6. mistakes'[k][disk.pid] = n /\ \A l \in Labels, p \in Pids : mistakes'[l][p] >= mistakes[l][p]
    BY <1>1, <2>1, <2>4, <2>5
  <2>7. QED  BY <1>1, <2>3, <2>6 DEF Release, n
<1>3. CASE ~Wrong(k, disk.pid)
  BY <1>1, <1>3 DEF Release, Wrong
<1>4. QED  BY <1>2, <1>3

LEMMA TypeInvStep == TypeInv /\ [Next]_vars => TypeInv'
<1> SUFFICES ASSUME TypeInv, [Next]_vars
             PROVE  TypeInv'
  OBVIOUS
<1> USE ConstantsAssumption
<1>t. /\ disk \in Item /\ mem \in Item /\ run \in Run /\ draft \in Draft /\ config \in Configs
      /\ run.steps \in Seq(Labels) /\ run.idx \in Nat
  BY DEF TypeInv, TypeOK, Run
<1>a. AtStep => pc \in InSteps /\ run.idx \in DOMAIN run.steps
  BY <1>t DEF AtStep, TypeInv, ControlOK, InSteps
<1>b. pc \in AtAStep => /\ pc \in InSteps /\ run.idx \in DOMAIN run.steps
                        /\ StepLabel \in Labels /\ mem.pid \in Pids
  BY <1>t DEF TypeInv, ControlOK, InSteps, AtAStep, StepLabel, Item
<1>1. ASSUME EditDraft PROVE TypeInv'
  <2>1. draft' \in Draft  BY <1>1, <1>t DEF EditDraft, Draft
  <2>2. QED  BY <1>1, <2>1 DEF EditDraft, TypeInv, TypeOK, ControlOK, HasItem, command, remote, history
<1>2. ASSUME DeleteDraftFile PROVE TypeInv'
  BY <1>2, EmptyLemma DEF DeleteDraftFile, TypeInv, TypeOK, ControlOK, HasItem, command, remote, history
<1>3. ASSUME EditConfig PROVE TypeInv'
  BY <1>3 DEF EditConfig, TypeInv, TypeOK, ControlOK, HasItem, command, remote, history
<1>4. ASSUME NEW a \in Actions, QueueDraft(a) PROVE TypeInv'
  <2>1. draft' \in Draft  BY <1>4, <1>t DEF QueueDraft, Draft
  <2>2. disk' \in Item /\ disk'.ev = None /\ used' \subseteq Pids
    <3>1. disk.ev = None  BY <1>4 DEF QueueDraft, Started
    <3>2. CASE HasItem
      <4>1. disk.pid \in Pids  BY <1>t, <3>2 DEF HasItem, Item
      <4>2. QED  BY <1>4, <1>t, <3>1, <3>2, <4>1, EmptyLemma DEF QueueDraft, TypeInv, TypeOK
    <3>3. CASE ~HasItem
      BY <1>4, <3>3, EmptyLemma DEF QueueDraft, TypeInv, TypeOK
    <3>4. QED  BY <3>2, <3>3
  <2>3. pc = "idle" /\ plans' = {}
        /\ UNCHANGED <<config, evidence, log, pc, mem, run, copies, late,
                       mistakes, settled, shown, issued, done, dropped>>
    BY <1>4 DEF QueueDraft, command, remote, history
  <2>4. QED  BY <2>1, <2>2, <2>3 DEF TypeInv, TypeOK, ControlOK, InSteps, AtAStep
<1>5. ASSUME RemoveDraft PROVE TypeInv'
  BY <1>5, EmptyLemma DEF RemoveDraft, TypeInv, TypeOK, ControlOK, HasItem, InSteps, AtAStep,
                          command, remote, history
<1>6. ASSUME Preview PROVE TypeInv'
  <2>1. Digest \in [draft : Draft, config : Configs]  BY <1>t, EmptyLemma DEF Digest
  <2>2. disk.pid \in Pids /\ (draft.rev # None => draft.rev \in Revs)
    BY <1>6, <1>t DEF Preview, HasItem, Item, Draft
  <2>3. shown' \subseteq Pids \X Revs  BY <1>6, <2>2 DEF Preview, TypeInv, TypeOK
  <2>4. QED  BY <1>6, <2>1, <2>3 DEF Preview, TypeInv, TypeOK, ControlOK, HasItem,
                                     workspace, command, remote
<1>7. ASSUME Confirm PROVE TypeInv'
  <2> DEFINE it == PlannedItem(disk, draft, config)
             r  == PlannedRun(disk, draft, config)
             at == StartPoint(it, r)
  <2>1. /\ it \in Item /\ it.pid = disk.pid /\ it.ev = disk.ev /\ it.action = disk.action
        /\ r \in Run /\ r.idx = 1 /\ NoRepeat(r.steps)
        /\ it.ev = None /\ it.stage = 0 => KeepsProgress(it, r.steps)
    <3>1. Planned(disk, draft, config)  BY <1>7 DEF Confirm
    <3>2. disk.ev # None => disk.action # "none"  BY DEF TypeInv, ControlOK
    <3>3. QED  BY <1>t, <3>1, <3>2, PlanLemma
  <2>2. /\ disk' = it /\ run' = r /\ pc' = at
        /\ mem' = IF at = "step" THEN EnsureStepStates(it, r.steps) ELSE it
        /\ disk.pid # None
        /\ UNCHANGED <<draft, config, used, evidence, log, plans, copies, late,
                       mistakes, settled, shown, issued, done, dropped>>
    BY <1>7 DEF Confirm, HasItem, remote, history
  <2>3. at \in {"audit", "final", "failed", "step"}
        /\ (at = "step" => it.ev = None /\ it.stage = 0)
        /\ (at = "audit" => it.ev # None)
    BY DEF StartPoint
  <2>4. disk.ev # None => disk.action # "none"  BY DEF TypeInv, ControlOK
  <2> HIDE DEF it, r, at
  <2>5. CASE at = "step"
    <3>1. r.steps \in Seq(Labels)  BY <2>1 DEF Run
    <3>2. /\ mem' \in Item /\ mem'.pid = it.pid /\ mem'.ev = it.ev /\ mem'.action = it.action
          /\ DOMAIN mem'.st = DOMAIN r.steps
          /\ \A i \in DOMAIN mem'.st : mem'.st[i].label = r.steps[i]
      BY <2>1, <2>2, <2>3, <2>5, <3>1, EnsureLemma
    <3>3. TypeOK'  BY <2>1, <2>2, <2>5, <3>2 DEF TypeInv, TypeOK, PCs
    <3>4. ControlOK'
      BY <2>1, <2>2, <2>4, <2>5, <3>2 DEF ControlOK, HasItem, InSteps, AtAStep
    <3>5. QED  BY <3>3, <3>4 DEF TypeInv
  <2>6. CASE at # "step"
    <3>1. TypeOK'  BY <2>1, <2>2, <2>3, <2>6 DEF TypeInv, TypeOK, PCs
    <3>2. ControlOK'
      BY <2>1, <2>2, <2>3, <2>4, <2>6 DEF ControlOK, HasItem, InSteps, AtAStep
    <3>3. QED  BY <3>1, <3>2 DEF TypeInv
  <2>7. QED  BY <2>5, <2>6
<1>8. ASSUME ConfirmDropsItem PROVE TypeInv'
  BY <1>8, EmptyLemma DEF ConfirmDropsItem, TypeInv, TypeOK, ControlOK, HasItem, InSteps, AtAStep,
                          command, remote, history
<1>9. ASSUME NEW sent \in BOOLEAN, SettleSend(sent) PROVE TypeInv'
  <2>1. PICK i \in DOMAIN disk.st :
          /\ RecoverableAt(i, "send")
          /\ IF sent
             THEN /\ disk' = [disk EXCEPT !.st[i].status = "succeeded"]
                  /\ settled' = settled \cup {disk.pid}
                  /\ mistakes' = mistakes
             ELSE Release(i, "send")
    BY <1>9 DEF SettleSend
  <2>2. pc = "idle" /\ disk.pid \in Pids /\ disk.ev = None
    BY <1>t, <2>1 DEF RecoverableAt, HasItem, Item
  <2>3. /\ mistakes' \in [Labels -> [Pids -> Nat]] /\ settled' \subseteq Pids
        /\ \E s \in Status : disk' = [disk EXCEPT !.st[i].status = s]
    <3>1. "succeeded" \in Status /\ "fresh" \in Status /\ "send" \in Labels
      BY DEF Status, Labels
    <3>2. TypeOK  BY DEF TypeInv
    <3>3. CASE sent
      BY <2>1, <2>2, <3>1, <3>2, <3>3 DEF TypeOK
    <3>4. CASE ~sent
      <4>1. Release(i, "send")  BY <2>1, <3>4
      <4>2. QED  BY <2>2, <3>1, <3>2, <4>1, ReleaseLemma DEF TypeOK
    <3>5. QED  BY <3>3, <3>4
  <2>4. disk' \in Item /\ disk'.ev = None
    <3>1. PICK s \in Status : disk' = [disk EXCEPT !.st[i].status = s]  BY <2>3
    <3>2. QED  BY <1>t, <2>2, <3>1, SettleLemma
  <2>5. QED  BY <1>9, <2>2, <2>3, <2>4 DEF SettleSend, TypeInv, TypeOK, ControlOK, HasItem,
                                           InSteps, AtAStep, command, remote
<1>10. ASSUME RecoverDraftsAppend PROVE TypeInv'
  <2>1. pc = "idle" /\ disk.pid \in Pids /\ disk.ev = None /\ 1 \in DOMAIN disk.st
    BY <1>t, <1>10 DEF RecoverDraftsAppend, RecoverableAt, HasItem, Item
  <2>2. /\ mistakes' \in [Labels -> [Pids -> Nat]] /\ settled' \subseteq Pids
        /\ \E s \in Status : disk' = [disk EXCEPT !.st[1].status = s]
    <3>1. "succeeded" \in Status /\ "fresh" \in Status /\ "drafts" \in Labels
      BY DEF Status, Labels
    <3>2. TypeOK  BY DEF TypeInv
    <3>3. CASE Release(1, "drafts")
      BY <2>1, <3>1, <3>2, <3>3, ReleaseLemma DEF TypeOK
    <3>4. CASE ~Release(1, "drafts")
      BY <1>10, <3>1, <3>2, <3>4 DEF RecoverDraftsAppend, TypeOK
    <3>5. QED  BY <3>3, <3>4
  <2>3. disk' \in Item /\ disk'.ev = None
    <3>1. PICK s \in Status : disk' = [disk EXCEPT !.st[1].status = s]  BY <2>2
    <3>2. QED  BY <1>t, <2>1, <3>1, SettleLemma
  <2>4. QED  BY <1>10, <2>1, <2>2, <2>3 DEF RecoverDraftsAppend, TypeInv, TypeOK, ControlOK,
                                            HasItem, InSteps, AtAStep, command, remote
<1>11. ASSUME SkipSucceeded PROVE TypeInv'
  <2>1. run' \in Run /\ run'.steps = run.steps /\ run'.idx >= 1
    BY <1>11, <1>t DEF SkipSucceeded, NextStep, Run
  <2>2. pc = "step" /\ UNCHANGED <<pc, mem, workspace, plans, remote, history>>
    BY <1>11 DEF SkipSucceeded, AtStep
  <2>3. QED  BY <2>1, <2>2 DEF TypeInv, TypeOK, ControlOK, HasItem, InSteps, AtAStep,
                               workspace, remote, history
<1>12. ASSUME MeetUnknown PROVE TypeInv'
  BY <1>12, <1>a DEF MeetUnknown, AtStep, TypeInv, TypeOK, ControlOK, HasItem, InSteps, AtAStep, PCs,
         workspace, command, remote, history
<1>13. ASSUME LookupFinds PROVE TypeInv'
  <2>1. pc \in InSteps /\ run.idx \in DOMAIN run.steps  BY <1>13, <1>b DEF LookupFinds, AtAStep, InSteps
  <2>2. WriteItem(Mark("succeeded"), "step") /\ Elsewhere /\ (run' = run \/ ("step" = "step" /\ NextStep))
    BY <1>13 DEF LookupFinds, Elsewhere
  <2>3. "succeeded" \in Status /\ "step" \in InSteps \cup {"failed"}  BY DEF Status, InSteps
  <2>4. QED  BY <2>1, <2>2, <2>3, MarkStepLemma
<1>14. ASSUME BeginStep PROVE TypeInv'
  <2>1. pc \in InSteps /\ run.idx \in DOMAIN run.steps  BY <1>14, <1>a DEF BeginStep, InSteps
  <2>2. WriteItem(Mark("started"), "attempt") /\ Elsewhere /\ (run' = run \/ ("attempt" = "step" /\ NextStep))
    BY <1>14 DEF BeginStep, Elsewhere
  <2>3. "started" \in Status /\ "attempt" \in InSteps \cup {"failed"}  BY DEF Status, InSteps
  <2>4. QED  BY <2>1, <2>2, <2>3, MarkStepLemma
<1>15. ASSUME PreflightFails PROVE TypeInv'
  <2>1. pc \in InSteps /\ run.idx \in DOMAIN run.steps  BY <1>15, <1>b DEF PreflightFails, AtAStep, InSteps
  <2>2. WriteItem(Mark("failed"), "failed") /\ Elsewhere /\ (run' = run \/ ("failed" = "step" /\ NextStep))
    BY <1>15 DEF PreflightFails, Elsewhere
  <2>3. "failed" \in Status /\ "failed" \in InSteps \cup {"failed"}  BY DEF Status, InSteps
  <2>4. QED  BY <2>1, <2>2, <2>3, MarkStepLemma
<1>16. ASSUME PersistUnknown PROVE TypeInv'
  <2>1. pc \in InSteps /\ run.idx \in DOMAIN run.steps  BY <1>16, <1>b DEF PersistUnknown, AtAStep, InSteps
  <2>2. WriteItem(Mark("unknown"), "call") /\ Elsewhere /\ (run' = run \/ ("call" = "step" /\ NextStep))
    BY <1>16 DEF PersistUnknown, Elsewhere
  <2>3. "unknown" \in Status /\ "call" \in InSteps \cup {"failed"}  BY DEF Status, InSteps
  <2>4. QED  BY <2>1, <2>2, <2>3, MarkStepLemma
<1>17. ASSUME StepSucceeds PROVE TypeInv'
  <2>1. pc \in InSteps /\ run.idx \in DOMAIN run.steps  BY <1>17, <1>b DEF StepSucceeds, AtAStep, InSteps
  <2>2. WriteItem(Mark("succeeded"), "step") /\ Elsewhere /\ (run' = run \/ ("step" = "step" /\ NextStep))
    BY <1>17 DEF StepSucceeds, Elsewhere
  <2>3. "succeeded" \in Status /\ "step" \in InSteps \cup {"failed"}  BY DEF Status, InSteps
  <2>4. QED  BY <2>1, <2>2, <2>3, MarkStepLemma
<1>18. ASSUME StepErrs PROVE TypeInv'
  <2>1. pc \in InSteps /\ run.idx \in DOMAIN run.steps  BY <1>18, <1>b DEF StepErrs, AtAStep, InSteps
  <2>2. PICK s \in {"unknown", "failed"} : WriteItem(Mark(s), "failed")
    BY <1>18 DEF StepErrs
  <2>3. Elsewhere /\ run' = run  BY <1>18 DEF StepErrs, Elsewhere
  <2>4. s \in Status  BY DEF Status
  <2>5. QED  BY <2>1, <2>2, <2>3, <2>4, MarkStepLemma
<1>19. ASSUME LookupFails PROVE TypeInv'
  BY <1>19, EmptyLemma
  DEF LookupFails, TypeInv, TypeOK, ControlOK, HasItem, InSteps, AtAStep, PCs,
         workspace, command, remote, history
<1>20. ASSUME CallRejected PROVE TypeInv'
  BY <1>20, EmptyLemma
  DEF CallRejected, TypeInv, TypeOK, ControlOK, HasItem, InSteps, AtAStep, PCs,
         workspace, command, remote, history
<1>21. ASSUME AttemptFlags PROVE TypeInv'
  <2>1. pc = "attempt" /\ StepLabel \in Labels /\ mem.pid \in Pids  BY <1>21, <1>b DEF AttemptFlags, AtAStep, InSteps
  <2>2. copies' \in [Labels -> [Pids -> Nat]]
    <3>1. copies' = copies \/ copies' = [copies EXCEPT !["flags"][mem.pid] = 1]
      BY <1>21 DEF AttemptFlags
    <3>2. "flags" \in Labels /\ 1 \in Nat /\ copies \in [Labels -> [Pids -> Nat]]
      BY DEF Labels, TypeInv, TypeOK
    <3>3. [copies EXCEPT !["flags"][mem.pid] = 1] \in [Labels -> [Pids -> Nat]]
      BY <2>1, <3>2, CountLemma
    <3>4. QED  BY <3>1, <3>2, <3>3
  <2>3. pc' \in {"ok", "flagerr"} /\ UNCHANGED <<mem, run, workspace, plans, late, history>>
    BY <1>21 DEF AttemptFlags
  <2>4. QED  BY <2>1, <2>2, <2>3 DEF TypeInv, TypeOK, ControlOK, HasItem, InSteps, AtAStep, PCs,
                                     workspace, history
<1>22. ASSUME CallAccepted PROVE TypeInv'
  <2>1. pc = "call" /\ StepLabel \in Labels /\ mem.pid \in Pids  BY <1>22, <1>b DEF CallAccepted, AtAStep, InSteps
  <2>2. copies' \in [Labels -> [Pids -> Nat]]
    <3>1. copies' = [copies EXCEPT ![StepLabel][mem.pid] = copies[StepLabel][mem.pid] + 1]
      BY <1>22 DEF CallAccepted
    <3>2. copies \in [Labels -> [Pids -> Nat]]  BY DEF TypeInv, TypeOK
    <3>3. copies[StepLabel][mem.pid] + 1 \in Nat  BY <2>1, <3>2
    <3>4. QED  BY <2>1, <3>1, <3>2, <3>3, CountLemma
  <2>3. <<mem.pid, run.rev>> \in Pids \X (Revs \cup {None})  BY <1>t, <2>1 DEF Run
  <2>4. issued' \subseteq Pids \X (Revs \cup {None})
    BY <1>22, <2>3 DEF CallAccepted, Issue, TypeInv, TypeOK
  <2>5. pc' = "ok" /\ UNCHANGED <<mem, run, workspace, plans, late, mistakes, settled, shown, done, dropped>>
    BY <1>22 DEF CallAccepted
  <2>6. QED  BY <2>1, <2>2, <2>4, <2>5 DEF TypeInv, TypeOK, ControlOK, HasItem, InSteps, AtAStep, PCs,
                                           workspace
<1>23. ASSUME CallAnswerLost PROVE TypeInv'
  <2>1. pc = "call" /\ StepLabel \in Labels /\ mem.pid \in Pids  BY <1>23, <1>b DEF CallAnswerLost, AtAStep, InSteps
  <2>2. copies' \in [Labels -> [Pids -> Nat]] /\ late' \in [Labels -> [Pids -> Nat]]
    <3>1. /\ copies' = copies \/ copies' = [copies EXCEPT ![StepLabel][mem.pid] = copies[StepLabel][mem.pid] + 1]
          /\ late' = late \/ late' = [late EXCEPT ![StepLabel][mem.pid] = late[StepLabel][mem.pid] + 1]
      BY <1>23 DEF CallAnswerLost, remote
    <3>2. copies \in [Labels -> [Pids -> Nat]] /\ late \in [Labels -> [Pids -> Nat]]
      BY DEF TypeInv, TypeOK
    <3>3. copies[StepLabel][mem.pid] + 1 \in Nat /\ late[StepLabel][mem.pid] + 1 \in Nat
      BY <2>1, <3>2
    <3>4. /\ [copies EXCEPT ![StepLabel][mem.pid] = copies[StepLabel][mem.pid] + 1] \in [Labels -> [Pids -> Nat]]
          /\ [late EXCEPT ![StepLabel][mem.pid] = late[StepLabel][mem.pid] + 1] \in [Labels -> [Pids -> Nat]]
      BY <2>1, <3>2, <3>3, CountLemma
    <3>5. QED  BY <3>1, <3>2, <3>4
  <2>3. <<mem.pid, run.rev>> \in Pids \X (Revs \cup {None})  BY <1>t, <2>1 DEF Run
  <2>4. issued' \subseteq Pids \X (Revs \cup {None})
    BY <1>23, <2>3 DEF CallAnswerLost, Issue, TypeInv, TypeOK
  <2>5. pc' = "lost" /\ UNCHANGED <<mem, run, workspace, plans, mistakes, settled, shown, done, dropped>>
    BY <1>23 DEF CallAnswerLost
  <2>6. QED  BY <2>1, <2>2, <2>4, <2>5 DEF TypeInv, TypeOK, ControlOK, HasItem, InSteps, AtAStep, PCs,
                                           workspace
<1>24. ASSUME StepsDone PROVE TypeInv'
  BY <1>24, EmptyLemma
  DEF StepsDone, TypeInv, TypeOK, ControlOK, HasItem, InSteps, AtAStep, PCs,
         workspace, command, remote, history
<1>25. ASSUME RecordRemoteSucceeded PROVE TypeInv'
  <2> DEFINE it == [mem EXCEPT !.stage = 1]
  <2>1. pc = "final" /\ WriteItem(it, "final") /\ run' = run
    BY <1>25 DEF RecordRemoteSucceeded
  <2>2. mem.pid \in Pids /\ (mem.ev # None => mem.action # "none")
    BY <1>t, <2>1 DEF TypeInv, ControlOK, Item
  <2>3. it \in Item /\ it.pid = mem.pid /\ (it.ev # None => it.action # "none")
    <3>1. it.stage \in Stages /\ DOMAIN it = DOMAIN mem  BY <1>t DEF Item, Stages
    <3>2. QED  BY <1>t, <2>2, <3>1 DEF Item
  <2>4. done' \in [Pids -> [act : Actions \cup {"none"}, steps : Seq(Labels)]]
    <3>1. [act |-> run.act, steps |-> run.steps] \in [act : Actions \cup {"none"}, steps : Seq(Labels)]
      BY <1>t DEF Run
    <3>2. QED  BY <1>25, <3>1 DEF RecordRemoteSucceeded, TypeInv, TypeOK
  <2>5. UNCHANGED <<draft, config, used, evidence, log, remote>>
        /\ UNCHANGED <<mistakes, settled, shown, issued, dropped>>
    BY <1>25 DEF RecordRemoteSucceeded
  <2>6. pc \notin InSteps /\ pc # "idle"  BY <2>1 DEF InSteps
  <2> HIDE DEF it
  <2>7. QED  BY <2>1, <2>3, <2>4, <2>5, <2>6, StageStepLemma
<1>26. ASSUME RecordOutbound PROVE TypeInv'
  <2>1. /\ pc = "final" /\ mem.stage = 1 /\ pc' \in {"advance", "failed"}
        /\ evidence' = evidence \/ evidence' = [evidence EXCEPT ![mem.pid] = run.rev]
    BY <1>26 DEF RecordOutbound
  <2>2. UNCHANGED <<mem, run, draft, config, disk, used, log, plans, copies, late,
                    mistakes, settled, shown, issued, done, dropped>>
    BY <1>26 DEF RecordOutbound, remote, history
  <2>3. run.rev \in Revs \cup {None}  BY <1>t DEF Run
  <2>4. evidence' \in [Pids -> Revs \cup {None}]
    BY <2>1, <2>3 DEF TypeInv, TypeOK
  <2>5. TypeOK'
    BY <2>1, <2>2, <2>4 DEF TypeInv, TypeOK, PCs
  <2>6. ControlOK'
    BY <2>1, <2>2 DEF TypeInv, ControlOK, HasItem, InSteps, AtAStep
  <2>7. QED  BY <2>5, <2>6 DEF TypeInv
<1>27. ASSUME RemoveOutboundDraft PROVE TypeInv'
  BY <1>27, EmptyLemma
  DEF RemoveOutboundDraft, Item, TypeInv, TypeOK, ControlOK, HasItem, InSteps, AtAStep, PCs,
         workspace, command, remote, history
<1>28. ASSUME AuditDraftRemoval PROVE TypeInv'
  BY <1>28, EmptyLemma
  DEF AuditDraftRemoval, TypeInv, TypeOK, ControlOK, HasItem, InSteps, AtAStep, PCs,
         workspace, command, remote, history
<1>29. ASSUME AdvanceLocalStage PROVE TypeInv'
  <2> DEFINE it == [mem EXCEPT !.stage = @ + 1]
  <2>1. pc = "advance" /\ WriteItem(it, "final") /\ run' = run
    BY <1>29 DEF AdvanceLocalStage
  <2>2. mem.pid \in Pids /\ (mem.ev # None => mem.action # "none")
    BY <1>t, <2>1 DEF TypeInv, ControlOK, Item
  <2>3. it \in Item /\ it.pid = mem.pid /\ (it.ev # None => it.action # "none")
    <3>1. it.stage \in Stages /\ DOMAIN it = DOMAIN mem  BY <1>t, <2>1 DEF Item, Stages, TypeInv, ControlOK
    <3>2. QED  BY <1>t, <2>2, <3>1 DEF Item
  <2>4. done' \in [Pids -> [act : Actions \cup {"none"}, steps : Seq(Labels)]]
    BY <1>29 DEF AdvanceLocalStage, history, TypeInv, TypeOK
  <2>5. UNCHANGED <<draft, config, used, evidence, log, remote>>
        /\ UNCHANGED <<mistakes, settled, shown, issued, dropped>>
    BY <1>29 DEF AdvanceLocalStage, history
  <2>6. pc \notin InSteps /\ pc # "idle"  BY <2>1 DEF InSteps
  <2> HIDE DEF it
  <2>7. QED  BY <2>1, <2>3, <2>4, <2>5, <2>6, StageStepLemma
<1>30. ASSUME ClearPending PROVE TypeInv'
  <2> DEFINE it == [mem EXCEPT !.stage = 4]
  <2>1. pc = "final" /\ WriteItem(it, "final") /\ run' = run
    BY <1>30 DEF ClearPending
  <2>2. mem.pid \in Pids /\ (mem.ev # None => mem.action # "none")
    BY <1>t, <2>1 DEF TypeInv, ControlOK, Item
  <2>3. it \in Item /\ it.pid = mem.pid /\ (it.ev # None => it.action # "none")
    <3>1. it.stage \in Stages /\ DOMAIN it = DOMAIN mem  BY <1>t DEF Item, Stages
    <3>2. QED  BY <1>t, <2>2, <3>1 DEF Item
  <2>4. done' \in [Pids -> [act : Actions \cup {"none"}, steps : Seq(Labels)]]
    BY <1>30 DEF ClearPending, history, TypeInv, TypeOK
  <2>5. UNCHANGED <<draft, config, used, evidence, log, remote>>
        /\ UNCHANGED <<mistakes, settled, shown, issued, dropped>>
    BY <1>30 DEF ClearPending, history
  <2>6. pc \notin InSteps /\ pc # "idle"  BY <2>1 DEF InSteps
  <2> HIDE DEF it
  <2>7. QED  BY <2>1, <2>3, <2>4, <2>5, <2>6, StageStepLemma
<1>31. ASSUME PreparePushAudit PROVE TypeInv'
  <2>1. PICK e \in EventIds : WriteItem(AuditPending(mem, e, run.act), "audit")
    BY <1>31 DEF PreparePushAudit
  <2> DEFINE it == AuditPending(mem, e, run.act)
  <2>2. pc = "final" /\ run' = run  BY <1>31 DEF PreparePushAudit
  <2>3. it \in Item /\ it.pid = mem.pid /\ it.ev = e /\ it.action # "none"
    <3>1. run.act \in Actions /\ run.act # "none"  BY <1>t DEF Run, Actions
    <3>2. QED  BY <1>t, <3>1, AuditItemLemma
  <2>4. done' \in [Pids -> [act : Actions \cup {"none"}, steps : Seq(Labels)]]
    BY <1>31 DEF PreparePushAudit, history, TypeInv, TypeOK
  <2>5. UNCHANGED <<draft, config, used, evidence, log, remote>>
        /\ UNCHANGED <<mistakes, settled, shown, issued, dropped>>
    BY <1>31 DEF PreparePushAudit, history
  <2>6. pc \notin InSteps /\ pc # "idle" /\ e # None  BY <2>2 DEF InSteps
  <2>7. WriteItem(it, "audit")  BY <2>1
  <2> HIDE DEF it
  <2>8. QED  BY <2>2, <2>3, <2>4, <2>5, <2>6, <2>7, StageStepLemma
<1>32. ASSUME AppendAudit PROVE TypeInv'
  BY <1>32, EmptyLemma
  DEF AppendAudit, Item, TypeInv, TypeOK, ControlOK, HasItem, InSteps, AtAStep, PCs,
         workspace, command, remote, history
<1>33. ASSUME DeleteItem PROVE TypeInv'
  BY <1>33, EmptyLemma
  DEF DeleteItem, TypeInv, TypeOK, ControlOK, HasItem, InSteps, AtAStep, PCs,
         workspace, command, remote, history
<1>34. ASSUME FinishItem PROVE TypeInv'
  BY <1>34, EmptyLemma
  DEF FinishItem, EndRun, TypeInv, TypeOK, ControlOK, HasItem, InSteps, AtAStep, PCs,
         workspace, command, remote, history
<1>35. ASSUME CasesFail PROVE TypeInv'
  BY <1>35, EmptyLemma
  DEF CasesFail, TypeInv, TypeOK, ControlOK, HasItem, InSteps, AtAStep, PCs,
         workspace, command, remote, history
<1>36. ASSUME EndInError PROVE TypeInv'
  BY <1>36, EmptyLemma
  DEF EndInError, EndRun, TypeInv, TypeOK, ControlOK, HasItem, InSteps, AtAStep, PCs,
         workspace, command, remote, history
<1>37. ASSUME LocalError PROVE TypeInv'
  BY <1>37, EmptyLemma
  DEF LocalError, TypeInv, TypeOK, ControlOK, HasItem, InSteps, AtAStep, PCs,
         workspace, command, remote, history
<1>38. ASSUME Crash PROVE TypeInv'
  BY <1>38, EmptyLemma
  DEF Crash, EndRun, TypeInv, TypeOK, ControlOK, HasItem, InSteps, AtAStep, PCs,
         workspace, command, remote, history
<1>39. ASSUME LateEffect PROVE TypeInv'
  <2>1. PICK k \in Irreversible, p \in Pids :
          /\ late[k][p] > 0
          /\ late' = [late EXCEPT ![k][p] = late[k][p] - 1]
          /\ copies' = [copies EXCEPT ![k][p] = copies[k][p] + 1] \/ copies' = copies
          /\ UNCHANGED <<workspace, plans, command, history>>
    BY <1>39 DEF LateEffect
  <2>2. k \in Labels /\ copies \in [Labels -> [Pids -> Nat]] /\ late \in [Labels -> [Pids -> Nat]]
    BY DEF Irreversible, TypeInv, TypeOK
  <2>3. late[k][p] - 1 \in Nat /\ copies[k][p] + 1 \in Nat  BY <2>1, <2>2
  <2>4. late' \in [Labels -> [Pids -> Nat]]  BY <2>1, <2>2, <2>3, CountLemma
  <2>5. copies' \in [Labels -> [Pids -> Nat]]  BY <2>1, <2>2, <2>3, CountLemma
  <2>6. QED  BY <2>1, <2>4, <2>5 DEF TypeInv, TypeOK, ControlOK, HasItem, workspace, command, history
<1>40. ASSUME UNCHANGED vars PROVE TypeInv'
  BY <1>40 DEF vars, TypeInv, TypeOK, ControlOK, HasItem, InSteps, AtAStep, PCs,
         workspace, command, remote, history
<1>41. QED
  BY <1>1, <1>2, <1>3, <1>4, <1>5, <1>6, <1>7, <1>8, <1>9, <1>10, <1>11, <1>12, <1>13,
     <1>14, <1>15, <1>16, <1>17, <1>18, <1>19, <1>20, <1>21, <1>22, <1>23, <1>24, <1>25,
     <1>26, <1>27, <1>28, <1>29, <1>30, <1>31, <1>32, <1>33, <1>34, <1>35, <1>36, <1>37,
     <1>38, <1>39, <1>40
  DEF Next, UserStep, CommandStep, StepExecution, Finalisation

(* Every state the program can be in is well formed: the queue item, the    *)
(* draft, the evidence, the audit log and the command's copy of the item    *)
(* (PushItem, PushStepState, push_with_progress).                           *)
THEOREM TypeCorrect == Spec => []TypeOK
<1>1. Init => TypeInv  BY TypeInvInit
<1>2. TypeInv /\ [Next]_vars => TypeInv'  BY TypeInvStep
<1>3. TypeInv => TypeOK  BY DEF TypeInv
<1>4. QED  BY <1>1, <1>2, <1>3, PTL DEF Spec

-----------------------------------------------------------------------------
(* At most one remote effect per push id and irreversible step.             *)

(* What happened remotely, or still may. *)
Effects(k, p) == copies[k][p] + late[k][p]

(* A step in one of these statuses is never attempted as it stands. *)
Closed == {"unknown", "succeeded"}

(* An item that would let a push attempt the step k. *)
Open(it, k) == \A i \in DOMAIN it.st : it.st[i].label = k => it.st[i].status \notin Closed

(* All effects of the step k for the push id p are wrong answers of         *)
(* `push recover`: one more attempt is allowed.                             *)
Accounted(k, p) == Effects(k, p) <= mistakes[k][p]

Honest(it) == \A k \in Irreversible : Open(it, k) => Accounted(k, it.pid)

Counted ==
    /\ AtMostOnce
    /\ \A k \in Irreversible : \A p \in Pids \ used : Effects(k, p) = 0

ItemsHonest ==
    /\ HasItem => disk.pid \in used /\ Honest(disk)
    /\ pc # "idle" => mem.pid \in used /\ Honest(mem)

(* What the places around the remote call know about the current step. *)
StepKnown ==
    /\ pc = "attempt" => StepStatus = "started"
    /\ pc = "call" => /\ disk = mem
                      /\ StepStatus = "unknown"
                      /\ StepLabel \in Irreversible
                      /\ Accounted(StepLabel, mem.pid)
    /\ pc = "rejected" => StepLabel \in Irreversible /\ Accounted(StepLabel, mem.pid)
    /\ pc = "flagerr" => StepLabel = "flags"

OnceInv == Counted /\ ItemsHonest /\ StepKnown

LEMMA OnceInit == Init => OnceInv
<1> SUFFICES ASSUME Init PROVE OnceInv
  OBVIOUS
<1>1. \A k \in Labels, p \in Pids : copies[k][p] = 0 /\ late[k][p] = 0 /\ mistakes[k][p] = 0
  BY DEF Init
<1>2. Counted  BY <1>1 DEF Counted, AtMostOnce, Effects, Irreversible
<1>3. ItemsHonest /\ StepKnown
  BY EmptyLemma DEF Init, ItemsHonest, StepKnown, HasItem
<1>4. QED  BY <1>2, <1>3 DEF OnceInv

(* Marking the current step opens nothing, unless the step was closed and   *)
(* is not any more.                                                         *)
LEMMA OpenMark ==
    ASSUME TypeInv, pc \in InSteps, run.idx \in DOMAIN run.steps,
           NEW s \in Status, NEW k \in Irreversible,
           s \in Closed \/ StepStatus \notin Closed \/ k # StepLabel,
           Open(Mark(s), k)
    PROVE  Open(mem, k)
<1>1. mem \in Item /\ run \in Run  BY DEF TypeInv, TypeOK
<1>2. /\ DOMAIN Mark(s).st = DOMAIN mem.st
      /\ \A i \in DOMAIN mem.st :
            /\ Mark(s).st[i].label = mem.st[i].label
            /\ Mark(s).st[i].status = IF i = run.idx THEN s ELSE mem.st[i].status
  BY <1>1, MarkLemma
<1>3. \A i \in DOMAIN mem.st : mem.st[i].label = run.steps[i]  BY DEF TypeInv, ControlOK
<1>4. SUFFICES ASSUME NEW i \in DOMAIN mem.st, mem.st[i].label = k
               PROVE  mem.st[i].status \notin Closed
  BY DEF Open
<1>5. Mark(s).st[i].status \notin Closed  BY <1>2, <1>4 DEF Open
<1>6. CASE i = run.idx  BY <1>2, <1>3, <1>4, <1>5, <1>6 DEF StepStatus, StepLabel
<1>7. CASE i # run.idx  BY <1>2, <1>5, <1>7
<1>8. QED  BY <1>6, <1>7

(* A step is made attemptable again only when its effects are accounted for. *)
LEMMA HonestMark ==
    ASSUME TypeInv, Honest(mem), pc \in InSteps, run.idx \in DOMAIN run.steps, NEW s \in Status,
           \/ s \in Closed
           \/ StepStatus \notin Closed
           \/ StepLabel \notin Irreversible
           \/ Accounted(StepLabel, mem.pid)
    PROVE  Honest(Mark(s)) /\ Mark(s).pid = mem.pid
<1>1. Mark(s).pid = mem.pid  BY MarkLemma DEF TypeInv, TypeOK
<1>2. SUFFICES ASSUME NEW k \in Irreversible, Open(Mark(s), k)
               PROVE  Accounted(k, mem.pid)
  BY <1>1 DEF Honest
<1>3. CASE k = StepLabel /\ Accounted(StepLabel, mem.pid)  BY <1>3
<1>4. CASE ~(k = StepLabel /\ Accounted(StepLabel, mem.pid))
  <2>1. s \in Closed \/ StepStatus \notin Closed \/ k # StepLabel  BY <1>4
  <2>2. Open(mem, k)  BY <1>2, <2>1, OpenMark
  <2>3. QED  BY <2>2 DEF Honest
<1>5. QED  BY <1>3, <1>4

(* Where no remote effect happens, honest items stay honest. *)
Quiet == UNCHANGED <<used, copies, late, mistakes>>

LEMMA QuietLemma ==
    ASSUME Quiet, Counted
    PROVE  Counted' /\ \A k, p : Accounted(k, p)' <=> Accounted(k, p)
  BY DEF Quiet, Counted, AtMostOnce, Effects, Accounted

LEMMA HonestWrite ==
    ASSUME OnceInv, pc # "idle", Quiet, NEW it, NEW next,
           WriteItem(it, next), it.pid = mem.pid, Honest(it)
    PROVE  Counted' /\ ItemsHonest'
<1>1. mem' = it /\ disk' \in {it, disk}  BY WriteItemLemma
<1>2. Counted' /\ \A k, p : Accounted(k, p)' <=> Accounted(k, p)  BY QuietLemma DEF OnceInv
<1>3. used' = used  BY DEF Quiet
<1>4. mem.pid \in used  BY DEF OnceInv, ItemsHonest
<1>5. mem'.pid \in used' /\ Honest(mem)'  BY <1>1, <1>2, <1>3, <1>4 DEF Honest, Open
<1>6. HasItem' => disk'.pid \in used' /\ Honest(disk)'
  <2>1. CASE disk' = it  BY <1>2, <1>3, <1>4, <2>1 DEF Honest, Open
  <2>2. CASE disk' = disk
    BY <1>2, <1>3, <2>2 DEF OnceInv, ItemsHonest, HasItem, Honest, Open
  <2>3. QED  BY <1>1, <2>1, <2>2
<1>7. QED  BY <1>2, <1>5, <1>6 DEF ItemsHonest

(* An action that touches neither the items nor the counters. *)
LEMMA HonestStill ==
    ASSUME OnceInv, Quiet, UNCHANGED <<disk, mem>>, pc' # "idle" => pc # "idle"
    PROVE  Counted' /\ ItemsHonest'
<1>1. Counted' /\ \A k, p : Accounted(k, p)' <=> Accounted(k, p)  BY QuietLemma DEF OnceInv
<1>2. used' = used  BY DEF Quiet
<1>3. QED  BY <1>1, <1>2 DEF OnceInv, ItemsHonest, HasItem, Honest, Open

(* Nothing that has not started is closed. *)
LEMMA UnstartedOpen ==
    ASSUME NEW it, ~Started(it), NEW k
    PROVE  Open(it, k)
  BY DEF Started, Open, Closed

(* A confirmed plan keeps what is closed: a reset needs an unstarted item,  *)
(* and ensure_step_states adds fresh steps only.                            *)
LEMMA HonestPlan ==
    ASSUME TypeInv, Honest(disk), Planned(disk, draft, config)
    PROVE  LET it == PlannedItem(disk, draft, config)
               r  == PlannedRun(disk, draft, config)
           IN  /\ it.pid = disk.pid
               /\ Honest(it)
               /\ StartPoint(it, r) = "step" =>
                     /\ EnsureStepStates(it, r.steps).pid = disk.pid
                     /\ Honest(EnsureStepStates(it, r.steps))
<1> DEFINE it == PlannedItem(disk, draft, config)
           r  == PlannedRun(disk, draft, config)
           e  == EnsureStepStates(it, r.steps)
<1>1. /\ it \in Item /\ it.pid = disk.pid /\ r \in Run
      /\ it.ev = None /\ it.stage = 0 => KeepsProgress(it, r.steps)
      /\ it.st = disk.st \/ (it.st = <<>> /\ ~Started(disk))
  <2>1. disk \in Item /\ draft \in Draft /\ config \in Configs /\ (disk.ev # None => disk.action # "none")
    BY DEF TypeInv, TypeOK, ControlOK
  <2>2. QED  BY <2>1, PlanLemma
<1> HIDE DEF it, r
<1>2. Honest(it)
  <2>1. \A k \in Irreversible : Open(it, k) => Open(disk, k)  BY <1>1, UnstartedOpen DEF Open
  <2>2. QED  BY <1>1, <2>1 DEF Honest
<1>3. ASSUME StartPoint(it, r) = "step"
      PROVE  e.pid = disk.pid /\ Honest(e)
  <2>1. KeepsProgress(it, r.steps)  BY <1>1, <1>3 DEF StartPoint
  <2>2. r.steps \in Seq(Labels)  BY <1>1 DEF Run
  <2>3. /\ e.pid = it.pid
        /\ \A i \in DOMAIN it.st : i \in DOMAIN e.st /\ e.st[i] = it.st[i]
    BY <1>1, <2>1, <2>2, EnsureLemma
  <2> HIDE DEF e
  <2>4. \A k \in Irreversible : Open(e, k) => Open(it, k)  BY <2>3 DEF Open
  <2>5. QED  BY <1>1, <1>2, <2>3, <2>4 DEF Honest
<1>4. QED  BY <1>1, <1>2, <1>3 DEF it, r

(* `push recover` closes a step, or opens it with its effects accounted for. *)
LEMMA HonestSettle ==
    ASSUME TypeInv, OnceInv, pc = "idle", HasItem, NEW i \in DOMAIN disk.st, NEW s \in Status,
           disk' = [disk EXCEPT !.st[i].status = s],
           UNCHANGED <<used, copies, late, pc>>,
           mistakes' \in [Labels -> [Pids -> Nat]],
           \A l \in Labels, p \in Pids : mistakes'[l][p] >= mistakes[l][p],
           NEW k \in Irreversible, disk.st[i].label = k,
           s \in Closed \/ Accounted(k, disk.pid)'
    PROVE  OnceInv'
<1>1. /\ disk \in Item /\ mistakes \in [Labels -> [Pids -> Nat]]
      /\ copies \in [Labels -> [Pids -> Nat]] /\ late \in [Labels -> [Pids -> Nat]]
  BY DEF TypeInv, TypeOK
<1>2. /\ disk'.pid = disk.pid /\ DOMAIN disk'.st = DOMAIN disk.st
      /\ \A j \in DOMAIN disk.st :
            /\ disk'.st[j].label = disk.st[j].label
            /\ disk'.st[j].status = IF j = i THEN s ELSE disk.st[j].status
  BY <1>1, SettleLemma
<1>3. ASSUME NEW l \in Irreversible, NEW p \in Pids
      PROVE  /\ Effects(l, p)' = Effects(l, p)
             /\ Accounted(l, p) => Accounted(l, p)'
             /\ Effects(l, p) <= 1 + mistakes[l][p] => Effects(l, p) <= 1 + mistakes'[l][p]
  <2>1. l \in Labels  BY DEF Irreversible
  <2>2. mistakes'[l][p] >= mistakes[l][p] /\ mistakes[l][p] \in Nat /\ mistakes'[l][p] \in Nat
        /\ Effects(l, p) \in Nat
    BY <1>1, <2>1 DEF Effects
  <2>3. Effects(l, p)' = Effects(l, p)  BY DEF Effects
  <2>4. QED  BY <2>2, <2>3 DEF Accounted
<1>4. Counted'
  <2>1. \A l \in Irreversible, p \in Pids : Effects(l, p) <= 1 + mistakes[l][p]
    BY DEF OnceInv, Counted, AtMostOnce, Effects
  <2>2. \A l \in Irreversible, p \in Pids : Effects(l, p)' <= 1 + mistakes'[l][p]  BY <1>3, <2>1
  <2>3. QED  BY <1>3, <2>2 DEF OnceInv, Counted, AtMostOnce, Effects
<1>5. disk.pid \in Pids /\ disk.pid \in used /\ Honest(disk)
  BY <1>1 DEF HasItem, Item, OnceInv, ItemsHonest
<1>6. ASSUME NEW l \in Irreversible, Open(disk', l)
      PROVE  Accounted(l, disk.pid)'
  <2>1. CASE l = k /\ s \notin Closed  BY <2>1
  <2>2. CASE ~(l = k /\ s \notin Closed)
    <3>1. ASSUME NEW j \in DOMAIN disk.st, disk.st[j].label = l
          PROVE  disk.st[j].status \notin Closed
      <4>1. disk'.st[j].status \notin Closed  BY <1>2, <1>6, <3>1 DEF Open
      <4>2. QED  BY <1>2, <2>2, <3>1, <4>1
    <3>2. Open(disk, l)  BY <3>1 DEF Open
    <3>3. QED  BY <1>3, <1>5, <3>2 DEF Honest
  <2>3. QED  BY <2>1, <2>2
<1>7. Honest(disk)'
  <2>1. ASSUME NEW l \in Irreversible, Open(disk, l)'
        PROVE  Accounted(l, disk.pid)'
    BY <1>2, <1>6, <2>1 DEF Open
  <2>2. QED  BY <2>1, <1>2 DEF Honest
<1>8. ItemsHonest'  BY <1>2, <1>5, <1>7 DEF ItemsHonest
<1>9. StepKnown'  BY DEF StepKnown
<1>10. QED  BY <1>4, <1>8, <1>9 DEF OnceInv

(* One remote effect of an accounted and closed step is the one allowed. *)
LEMMA EffectLemma ==
    ASSUME TypeInv, OnceInv, pc = "call", pc' \in {"ok", "lost"},
           UNCHANGED <<disk, mem, run, used, mistakes>>,
           \A k \in Irreversible, p \in Pids :
              Effects(k, p)' <= IF k = StepLabel /\ p = mem.pid THEN Effects(k, p) + 1 ELSE Effects(k, p),
           \A k \in Irreversible, p \in Pids : Effects(k, p)' \in Nat
    PROVE  OnceInv'
<1>1. /\ mem.pid \in Pids /\ mem.pid \in used /\ disk = mem /\ StepLabel \in Irreversible
      /\ Accounted(StepLabel, mem.pid) /\ StepStatus = "unknown" /\ Honest(mem)
      /\ run.idx \in DOMAIN mem.st /\ mem.st[run.idx].label = StepLabel
  BY DEF TypeInv, TypeOK, ControlOK, InSteps, AtAStep, Item, OnceInv, ItemsHonest, StepKnown, StepLabel
<1>2. \A k \in Irreversible, p \in Pids :
         Effects(k, p) \in Nat /\ mistakes[k][p] \in Nat /\ mistakes'[k][p] = mistakes[k][p]
  BY DEF TypeInv, TypeOK, Effects, Irreversible
<1>3. \A k \in Irreversible, p \in Pids : Effects(k, p)' <= 1 + mistakes'[k][p]
  <2>1. \A k \in Irreversible, p \in Pids : Effects(k, p) <= 1 + mistakes[k][p]
    BY DEF OnceInv, Counted, AtMostOnce, Effects
  <2>2. QED  BY <1>1, <1>2, <2>1 DEF Accounted
<1>4. \A k \in Irreversible, p \in Pids \ used : Effects(k, p)' = 0
  BY <1>1, <1>2 DEF OnceInv, Counted
<1>5. Counted'  BY <1>3, <1>4 DEF Counted, AtMostOnce, Effects
<1>6. ~Open(mem, StepLabel)  BY <1>1 DEF Open, StepStatus, Closed
<1>7. ASSUME NEW k \in Irreversible, Open(mem, k)
      PROVE  Accounted(k, mem.pid)'
  <2>1. k # StepLabel  BY <1>6, <1>7
  <2>2. Accounted(k, mem.pid)  BY <1>1, <1>7 DEF Honest
  <2>3. Effects(k, mem.pid)' <= Effects(k, mem.pid)  BY <1>1, <2>1
  <2>4. QED  BY <1>1, <1>2, <2>2, <2>3 DEF Accounted
<1>8. Honest(mem)'  BY <1>7 DEF Honest, Open
<1>9. ItemsHonest'
  BY <1>1, <1>8 DEF ItemsHonest, Honest, Open
<1>10. StepKnown'  BY DEF StepKnown
<1>11. QED  BY <1>5, <1>9, <1>10 DEF OnceInv

LEMMA OnceStep == TypeInv /\ TypeInv' /\ OnceInv /\ [Next]_vars => OnceInv'
<1> SUFFICES ASSUME TypeInv, TypeInv', OnceInv, [Next]_vars
             PROVE  OnceInv'
  OBVIOUS
<1> USE ConstantsAssumption
<1>t. disk \in Item /\ mem \in Item /\ run \in Run  BY DEF TypeInv, TypeOK
<1>a. AtStep => /\ pc = "step" /\ pc \in InSteps /\ run.idx \in DOMAIN run.steps
                /\ run.idx \in DOMAIN mem.st
  BY <1>t DEF AtStep, TypeInv, ControlOK, InSteps, Run
<1>b. pc \in AtAStep => /\ pc \in InSteps /\ run.idx \in DOMAIN run.steps
                        /\ run.idx \in DOMAIN mem.st
                        /\ StepLabel \in Labels /\ mem.pid \in Pids
  BY <1>t DEF TypeInv, ControlOK, InSteps, AtAStep, StepLabel, Item, Run
<1>c. pc # "idle" => Honest(mem) /\ mem.pid \in used  BY DEF OnceInv, ItemsHonest
<1>d. \A s \in Status : (run.idx \in DOMAIN mem.st) => Mark(s).st[run.idx].status = s
  BY <1>t, MarkLemma
<1>1. ASSUME EditDraft PROVE OnceInv'
  <2>1. Quiet /\ UNCHANGED <<disk, mem>> /\ (pc' # "idle" => pc # "idle")
    BY <1>1 DEF EditDraft, Quiet, workspace, command, remote, history
  <2>2. StepKnown'
    BY <1>1 DEF EditDraft, OnceInv, StepKnown, StepStatus, StepLabel, Accounted, Effects,
             workspace, command, remote, history
  <2>3. QED  BY <2>1, <2>2, HonestStill DEF OnceInv
<1>2. ASSUME DeleteDraftFile PROVE OnceInv'
  <2>1. Quiet /\ UNCHANGED <<disk, mem>> /\ (pc' # "idle" => pc # "idle")
    BY <1>2 DEF DeleteDraftFile, Quiet, workspace, command, remote, history
  <2>2. StepKnown'
    BY <1>2 DEF DeleteDraftFile, OnceInv, StepKnown, StepStatus, StepLabel, Accounted, Effects,
             workspace, command, remote, history
  <2>3. QED  BY <2>1, <2>2, HonestStill DEF OnceInv
<1>3. ASSUME EditConfig PROVE OnceInv'
  <2>1. Quiet /\ UNCHANGED <<disk, mem>> /\ (pc' # "idle" => pc # "idle")
    BY <1>3 DEF EditConfig, Quiet, workspace, command, remote, history
  <2>2. StepKnown'
    BY <1>3 DEF EditConfig, OnceInv, StepKnown, StepStatus, StepLabel, Accounted, Effects,
             workspace, command, remote, history
  <2>3. QED  BY <2>1, <2>2, HonestStill DEF OnceInv
<1>4. ASSUME Preview PROVE OnceInv'
  <2>1. Quiet /\ UNCHANGED <<disk, mem>> /\ (pc' # "idle" => pc # "idle")
    BY <1>4 DEF Preview, Quiet, workspace, command, remote, history
  <2>2. StepKnown'
    BY <1>4 DEF Preview, OnceInv, StepKnown, StepStatus, StepLabel, Accounted, Effects,
             workspace, command, remote, history
  <2>3. QED  BY <2>1, <2>2, HonestStill DEF OnceInv
<1>5. ASSUME NEW a \in Actions, QueueDraft(a) PROVE OnceInv'
  <2>1. /\ pc = "idle" /\ pc' = pc /\ ~Started(disk) /\ UNCHANGED <<copies, late, mistakes>>
    BY <1>5 DEF QueueDraft, command, remote, history
  <2>2. used \subseteq used' /\ Counted'
    BY <1>5, <2>1 DEF QueueDraft, OnceInv, Counted, AtMostOnce, Effects
  <2>3. disk'.pid \in used' /\ Honest(disk)'
    <3>1. CASE HasItem
      <4>1. disk'.pid = disk.pid /\ disk.pid \in used
        BY <1>5, <1>t, <3>1, EmptyLemma DEF QueueDraft, OnceInv, ItemsHonest, HasItem, Item
      <4>2. \A k \in Irreversible : Accounted(k, disk.pid)
        BY <2>1, <3>1, UnstartedOpen DEF OnceInv, ItemsHonest, Honest
      <4>3. QED  BY <2>1, <2>2, <4>1, <4>2 DEF Honest, Accounted, Effects
    <3>2. CASE ~HasItem
      <4>1. PICK p \in Pids \ used : disk' = NewItem(p) /\ used' = used \cup {p}
        BY <1>5, <3>2 DEF QueueDraft
      <4>2. \A k \in Irreversible : Effects(k, p)' = 0 /\ mistakes'[k][p] \in Nat
        BY <2>1 DEF OnceInv, Counted, Effects, TypeInv, TypeOK, Irreversible
      <4>3. \A k \in Irreversible : Accounted(k, p)'  BY <4>2 DEF Accounted
      <4>4. QED  BY <4>1, <4>3, EmptyLemma DEF Honest
    <3>3. QED  BY <3>1, <3>2
  <2>4. QED  BY <2>1, <2>2, <2>3 DEF OnceInv, ItemsHonest, StepKnown
<1>6. ASSUME RemoveDraft PROVE OnceInv'
  <2>1. pc = "idle" /\ disk' = NoItem /\ UNCHANGED <<pc, used, copies, late, mistakes>>
    BY <1>6 DEF RemoveDraft, command, remote, history
  <2>2. QED  BY <2>1, EmptyLemma DEF OnceInv, Counted, AtMostOnce, Effects, ItemsHonest, HasItem, StepKnown
<1>7. ASSUME ConfirmDropsItem PROVE OnceInv'
  <2>1. pc = "idle" /\ disk' = NoItem /\ UNCHANGED <<pc, used, copies, late, mistakes>>
    BY <1>7 DEF ConfirmDropsItem, command, remote, history
  <2>2. QED  BY <2>1, EmptyLemma DEF OnceInv, Counted, AtMostOnce, Effects, ItemsHonest, HasItem, StepKnown
<1>8. ASSUME Confirm PROVE OnceInv'
  <2> DEFINE it == PlannedItem(disk, draft, config)
             r  == PlannedRun(disk, draft, config)
             at == StartPoint(it, r)
             e  == EnsureStepStates(it, r.steps)
  <2>1. disk' = it /\ pc' = at /\ mem' = (IF at = "step" THEN e ELSE it) /\ Quiet
        /\ HasItem /\ Planned(disk, draft, config)
    BY <1>8 DEF Confirm, Quiet, remote, history
  <2>2. Honest(disk) /\ disk.pid \in used  BY <2>1 DEF OnceInv, ItemsHonest
  <2>3. it.pid = disk.pid /\ Honest(it) /\ (at = "step" => e.pid = disk.pid /\ Honest(e))
    BY <2>1, <2>2, HonestPlan
  <2>4. at \in {"audit", "final", "failed", "step"}  BY DEF StartPoint
  <2> HIDE DEF it, at, e
  <2>5. Counted' /\ \A k, p : Accounted(k, p)' <=> Accounted(k, p)
    BY <2>1, QuietLemma DEF OnceInv
  <2>6. used' = used  BY <2>1 DEF Quiet
  <2>7. Honest(disk)' /\ disk'.pid \in used'  BY <2>1, <2>2, <2>3, <2>5, <2>6 DEF Honest, Open
  <2>8. Honest(mem)' /\ mem'.pid \in used'  BY <2>1, <2>2, <2>3, <2>5, <2>6 DEF Honest, Open
  <2>9. StepKnown'  BY <2>1, <2>4 DEF StepKnown
  <2>10. QED  BY <2>5, <2>7, <2>8, <2>9 DEF OnceInv, ItemsHonest
<1>9. ASSUME NEW sent \in BOOLEAN, SettleSend(sent) PROVE OnceInv'
  <2>1. PICK i \in DOMAIN disk.st :
          /\ RecoverableAt(i, "send")
          /\ IF sent
             THEN /\ disk' = [disk EXCEPT !.st[i].status = "succeeded"]
                  /\ settled' = settled \cup {disk.pid}
                  /\ mistakes' = mistakes
             ELSE Release(i, "send")
    BY <1>9 DEF SettleSend
  <2>2. /\ pc = "idle" /\ HasItem /\ disk.st[i].label = "send" /\ disk.pid \in Pids
        /\ UNCHANGED <<used, copies, late, pc>>
    BY <1>9, <1>t, <2>1 DEF SettleSend, RecoverableAt, HasItem, Item, command, remote
  <2>3. "send" \in Labels /\ "send" \in Irreversible /\ "succeeded" \in Status /\ "fresh" \in Status
        /\ "succeeded" \in Closed
    BY DEF Labels, Irreversible, Status, Closed
  <2>4. TypeOK /\ mistakes' \in [Labels -> [Pids -> Nat]] /\ mistakes \in [Labels -> [Pids -> Nat]]
    BY DEF TypeInv, TypeOK
  <2>5. CASE sent
    <3>1. disk' = [disk EXCEPT !.st[i].status = "succeeded"] /\ mistakes' = mistakes  BY <2>1, <2>5
    <3>2. \A l \in Labels, p \in Pids : mistakes'[l][p] >= mistakes[l][p]  BY <2>4, <3>1
    <3>3. QED  BY <2>2, <2>3, <2>4, <3>1, <3>2, HonestSettle
  <2>6. CASE ~sent
    <3>1. Release(i, "send")  BY <2>1, <2>6
    <3>2. /\ \A l \in Labels, p \in Pids : mistakes'[l][p] >= mistakes[l][p]
          /\ copies["send"][disk.pid] + late["send"][disk.pid] <= mistakes'["send"][disk.pid]
          /\ disk' = [disk EXCEPT !.st[i].status = "fresh"]
      BY <2>2, <2>3, <2>4, <3>1, ReleaseLemma
    <3>3. disk'.pid = disk.pid  BY <1>t, <2>3, <3>2, SettleLemma
    <3>4. Accounted("send", disk.pid)'  BY <2>2, <3>2, <3>3 DEF Accounted, Effects
    <3>5. QED  BY <2>2, <2>3, <2>4, <3>2, <3>4, HonestSettle
  <2>7. QED  BY <2>5, <2>6
<1>10. ASSUME RecoverDraftsAppend PROVE OnceInv'
  <2>1. /\ pc = "idle" /\ HasItem /\ 1 \in DOMAIN disk.st /\ disk.st[1].label = "drafts" /\ disk.pid \in Pids
        /\ UNCHANGED <<used, copies, late, pc>>
    BY <1>10, <1>t DEF RecoverDraftsAppend, RecoverableAt, HasItem, Item, command, remote
  <2>2. "drafts" \in Labels /\ "drafts" \in Irreversible /\ "succeeded" \in Status /\ "fresh" \in Status
        /\ "succeeded" \in Closed
    BY DEF Labels, Irreversible, Status, Closed
  <2>3. TypeOK /\ mistakes' \in [Labels -> [Pids -> Nat]] /\ mistakes \in [Labels -> [Pids -> Nat]]
    BY DEF TypeInv, TypeOK
  <2>4. CASE Release(1, "drafts")
    <3>1. /\ \A l \in Labels, p \in Pids : mistakes'[l][p] >= mistakes[l][p]
          /\ copies["drafts"][disk.pid] + late["drafts"][disk.pid] <= mistakes'["drafts"][disk.pid]
          /\ disk' = [disk EXCEPT !.st[1].status = "fresh"]
      BY <2>1, <2>2, <2>3, <2>4, ReleaseLemma
    <3>2. disk'.pid = disk.pid  BY <1>t, <2>1, <2>2, <3>1, SettleLemma
    <3>3. Accounted("drafts", disk.pid)'  BY <2>1, <3>1, <3>2 DEF Accounted, Effects
    <3>4. QED  BY <2>1, <2>2, <2>3, <3>1, <3>3, HonestSettle
  <2>5. CASE ~Release(1, "drafts")
    <3>1. disk' = [disk EXCEPT !.st[1].status = "succeeded"] /\ mistakes' = mistakes
      BY <1>10, <2>5 DEF RecoverDraftsAppend
    <3>2. \A l \in Labels, p \in Pids : mistakes'[l][p] >= mistakes[l][p]  BY <2>3, <3>1
    <3>3. QED  BY <2>1, <2>2, <2>3, <3>1, <3>2, HonestSettle
  <2>6. QED  BY <2>4, <2>5
<1>11. ASSUME SkipSucceeded PROVE OnceInv'
  <2>1. Quiet /\ UNCHANGED <<disk, mem>> /\ (pc' # "idle" => pc # "idle")
    BY <1>11 DEF SkipSucceeded, AtStep, Quiet, workspace, command, remote, history
  <2>2. StepKnown'
    BY <1>11 DEF SkipSucceeded, AtStep, OnceInv, StepKnown, StepStatus, StepLabel, Accounted, Effects,
             workspace, command, remote, history
  <2>3. QED  BY <2>1, <2>2, HonestStill DEF OnceInv
<1>12. ASSUME MeetUnknown PROVE OnceInv'
  <2>1. Quiet /\ UNCHANGED <<disk, mem>> /\ (pc' # "idle" => pc # "idle")
    BY <1>12 DEF MeetUnknown, AtStep, Quiet, workspace, command, remote, history
  <2>2. StepKnown'
    BY <1>12 DEF MeetUnknown, AtStep, OnceInv, StepKnown, StepStatus, StepLabel, Accounted, Effects,
             workspace, command, remote, history
  <2>3. QED  BY <2>1, <2>2, HonestStill DEF OnceInv
<1>13. ASSUME LookupFinds PROVE OnceInv'
  <2>1. pc \in InSteps /\ run.idx \in DOMAIN run.steps /\ run.idx \in DOMAIN mem.st /\ pc # "idle"
    BY <1>13, <1>b DEF LookupFinds, AtAStep, InSteps
  <2>2. WriteItem(Mark("succeeded"), "step") /\ Quiet
    BY <1>13 DEF LookupFinds, Quiet, remote, history
  <2>3. "succeeded" \in Status  BY DEF Status
  <2>4. "succeeded" \in Closed  BY DEF Closed
  <2>5. Honest(Mark("succeeded")) /\ Mark("succeeded").pid = mem.pid
    BY <1>c, <2>1, <2>3, <2>4, HonestMark
  <2>6. Counted' /\ ItemsHonest'  BY <2>1, <2>2, <2>5, HonestWrite
  <2>7. StepKnown'  BY <2>2, WriteItemLemma DEF StepKnown
  <2>8. QED  BY <2>6, <2>7 DEF OnceInv
<1>14. ASSUME BeginStep PROVE OnceInv'
  <2>1. pc \in InSteps /\ run.idx \in DOMAIN run.steps /\ run.idx \in DOMAIN mem.st /\ pc # "idle"
    BY <1>14, <1>a DEF BeginStep, InSteps
  <2>2. WriteItem(Mark("started"), "attempt") /\ Quiet
    BY <1>14 DEF BeginStep, Quiet, remote, history
  <2>3. "started" \in Status  BY DEF Status
  <2>4. StepStatus \notin Closed  BY <1>14 DEF BeginStep, Closed
  <2>5. Honest(Mark("started")) /\ Mark("started").pid = mem.pid
    BY <1>c, <2>1, <2>3, <2>4, HonestMark
  <2>6. Counted' /\ ItemsHonest'  BY <2>1, <2>2, <2>5, HonestWrite
  <2>7. StepKnown'
    <3>1. mem' = Mark("started") /\ pc' \in {"attempt", "failed"} /\ run' = run
      BY <1>14, <2>2, WriteItemLemma DEF BeginStep
    <3>2. StepStatus' = "started"  BY <1>d, <2>1, <2>3, <3>1 DEF StepStatus
    <3>3. QED  BY <3>1, <3>2 DEF StepKnown
  <2>8. QED  BY <2>6, <2>7 DEF OnceInv
<1>15. ASSUME PreflightFails PROVE OnceInv'
  <2>1. pc \in InSteps /\ run.idx \in DOMAIN run.steps /\ run.idx \in DOMAIN mem.st /\ pc # "idle"
    BY <1>15, <1>b DEF PreflightFails, AtAStep, InSteps
  <2>2. WriteItem(Mark("failed"), "failed") /\ Quiet
    BY <1>15 DEF PreflightFails, Quiet, remote, history
  <2>3. "failed" \in Status  BY DEF Status
  <2>4. StepStatus \notin Closed
    BY <1>15 DEF PreflightFails, OnceInv, StepKnown, Closed
  <2>5. Honest(Mark("failed")) /\ Mark("failed").pid = mem.pid
    BY <1>c, <2>1, <2>3, <2>4, HonestMark
  <2>6. Counted' /\ ItemsHonest'  BY <2>1, <2>2, <2>5, HonestWrite
  <2>7. StepKnown'  BY <2>2, WriteItemLemma DEF StepKnown
  <2>8. QED  BY <2>6, <2>7 DEF OnceInv
<1>16. ASSUME PersistUnknown PROVE OnceInv'
  <2>1. pc \in InSteps /\ run.idx \in DOMAIN run.steps /\ run.idx \in DOMAIN mem.st /\ pc # "idle"
    BY <1>16, <1>b DEF PersistUnknown, AtAStep, InSteps
  <2>2. WriteItem(Mark("unknown"), "call") /\ Quiet
    BY <1>16 DEF PersistUnknown, Quiet, remote, history
  <2>3. "unknown" \in Status  BY DEF Status
  <2>4. "unknown" \in Closed  BY DEF Closed
  <2>5. Honest(Mark("unknown")) /\ Mark("unknown").pid = mem.pid
    BY <1>c, <2>1, <2>3, <2>4, HonestMark
  <2>6. Counted' /\ ItemsHonest'  BY <2>1, <2>2, <2>5, HonestWrite
  <2>7. StepKnown'
    <3>1. /\ mem' = Mark("unknown") /\ pc' \in {"call", "failed"} /\ run' = run
          /\ pc' # "failed" => disk' = mem'
      BY <1>16, <2>2, WriteItemLemma DEF PersistUnknown
    <3>2. StepStatus' = "unknown"  BY <1>d, <2>1, <2>3, <3>1 DEF StepStatus
    <3>3. StepLabel \in Irreversible /\ StepLabel' = StepLabel /\ mem'.pid = mem.pid
      BY <1>16, <1>b, <2>5, <3>1 DEF PersistUnknown, AtAStep, InSteps, Irreversible, StepLabel
    <3>4. Open(mem, StepLabel)
      <4>1. StepStatus = "started"  BY <1>16 DEF PersistUnknown, OnceInv, StepKnown
      <4>2. \A i \in DOMAIN mem.st : mem.st[i].label = run.steps[i] /\ i \in DOMAIN run.steps
        BY <2>1 DEF TypeInv, ControlOK
      <4>3. NoRepeat(run.steps)  BY <2>1 DEF TypeInv, ControlOK
      <4>4. \A i \in DOMAIN mem.st : mem.st[i].label = StepLabel => i = run.idx
        BY <2>1, <4>2, <4>3 DEF NoRepeat, StepLabel
      <4>5. QED  BY <4>1, <4>4 DEF Open, StepStatus, Closed
    <3>5. Accounted(StepLabel, mem.pid)  BY <1>c, <2>1, <3>3, <3>4 DEF Honest
    <3>6. Accounted(StepLabel, mem.pid)'
      BY <2>2, <3>3, <3>5 DEF Quiet, Accounted, Effects
    <3>7. QED  BY <3>1, <3>2, <3>3, <3>6 DEF StepKnown
  <2>8. QED  BY <2>6, <2>7 DEF OnceInv
<1>17. ASSUME AttemptFlags PROVE OnceInv'
  <2>1. /\ pc = "attempt" /\ StepLabel = "flags" /\ pc' \in {"ok", "flagerr"} /\ mem.pid \in Pids
        /\ UNCHANGED <<mem, run, disk, used, late, mistakes>>
    BY <1>17, <1>b DEF AttemptFlags, AtAStep, InSteps, workspace, history
  <2>2. \A k \in Irreversible : copies'[k] = copies[k]
    BY <1>17 DEF AttemptFlags, TypeInv, TypeOK, Irreversible
  <2>3. \A k \in Irreversible : \A p : (Effects(k, p)' = Effects(k, p)) /\ (Accounted(k, p)' <=> Accounted(k, p))
    BY <2>1, <2>2 DEF Effects, Accounted
  <2>4. Counted'  BY <2>1, <2>2 DEF OnceInv, Counted, AtMostOnce, Effects
  <2>5. ItemsHonest'  BY <2>1, <2>3 DEF OnceInv, ItemsHonest, HasItem, Honest, Open
  <2>6. StepKnown'  BY <2>1 DEF StepKnown, StepLabel
  <2>7. QED  BY <2>4, <2>5, <2>6 DEF OnceInv
<1>18. ASSUME CallAccepted PROVE OnceInv'
  <2>1. /\ pc = "call" /\ pc' = "ok" /\ UNCHANGED <<disk, mem, run, used, mistakes>>
        /\ StepLabel \in Labels /\ mem.pid \in Pids
    BY <1>18, <1>b DEF CallAccepted, AtAStep, InSteps, workspace
  <2>2. copies \in [Labels -> [Pids -> Nat]] /\ late \in [Labels -> [Pids -> Nat]]
        /\ copies' \in [Labels -> [Pids -> Nat]] /\ late' \in [Labels -> [Pids -> Nat]]
    BY DEF TypeInv, TypeOK
  <2>3. copies[StepLabel][mem.pid] + 1 \in Nat /\ late[StepLabel][mem.pid] + 1 \in Nat  BY <2>1, <2>2
  <2>4. \A k \in Irreversible, p \in Pids : Effects(k, p)' \in Nat
    BY <2>2 DEF Effects, Irreversible
  <2>5. \A k \in Irreversible, p \in Pids :
           Effects(k, p)' <= IF k = StepLabel /\ p = mem.pid THEN Effects(k, p) + 1 ELSE Effects(k, p)
    <3>1. copies' = [copies EXCEPT ![StepLabel][mem.pid] = copies[StepLabel][mem.pid] + 1] /\ late' = late
      BY <1>18 DEF CallAccepted
    <3>2. \A k \in Labels, p \in Pids :
             copies'[k][p] = IF k = StepLabel /\ p = mem.pid THEN copies[k][p] + 1 ELSE copies[k][p]
      BY <2>1, <2>2, <2>3, <3>1, CountLemma
    <3>3. \A k \in Labels, p \in Pids : copies[k][p] \in Nat /\ late[k][p] \in Nat  BY <2>2
    <3>4. QED  BY <3>1, <3>2, <3>3 DEF Effects, Irreversible
  <2>6. QED  BY <2>1, <2>4, <2>5, EffectLemma
<1>19. ASSUME CallRejected PROVE OnceInv'
  <2>1. Quiet /\ UNCHANGED <<disk, mem>> /\ (pc' # "idle" => pc # "idle")
    BY <1>19 DEF CallRejected, Quiet, workspace, command, remote, history
  <2>2. StepKnown'
    BY <1>19 DEF CallRejected, OnceInv, StepKnown, StepStatus, StepLabel, Accounted, Effects,
             workspace, command, remote, history
  <2>3. QED  BY <2>1, <2>2, HonestStill DEF OnceInv
<1>20. ASSUME CallAnswerLost PROVE OnceInv'
  <2>1. /\ pc = "call" /\ pc' = "lost" /\ UNCHANGED <<disk, mem, run, used, mistakes>>
        /\ StepLabel \in Labels /\ mem.pid \in Pids
    BY <1>20, <1>b DEF CallAnswerLost, AtAStep, InSteps, workspace
  <2>2. copies \in [Labels -> [Pids -> Nat]] /\ late \in [Labels -> [Pids -> Nat]]
        /\ copies' \in [Labels -> [Pids -> Nat]] /\ late' \in [Labels -> [Pids -> Nat]]
    BY DEF TypeInv, TypeOK
  <2>3. copies[StepLabel][mem.pid] + 1 \in Nat /\ late[StepLabel][mem.pid] + 1 \in Nat  BY <2>1, <2>2
  <2>4. \A k \in Irreversible, p \in Pids : Effects(k, p)' \in Nat
    BY <2>2 DEF Effects, Irreversible
  <2>5. \A k \in Irreversible, p \in Pids :
           Effects(k, p)' <= IF k = StepLabel /\ p = mem.pid THEN Effects(k, p) + 1 ELSE Effects(k, p)
    <3>1. \A k \in Labels, p \in Pids : copies[k][p] \in Nat /\ late[k][p] \in Nat  BY <2>2
    <3>2. CASE copies' = [copies EXCEPT ![StepLabel][mem.pid] = copies[StepLabel][mem.pid] + 1] /\ late' = late
      <4>1. \A k \in Labels, p \in Pids :
               copies'[k][p] = IF k = StepLabel /\ p = mem.pid THEN copies[k][p] + 1 ELSE copies[k][p]
        BY <2>1, <2>2, <2>3, <3>2, CountLemma
      <4>2. QED  BY <3>1, <3>2, <4>1 DEF Effects, Irreversible
    <3>3. CASE late' = [late EXCEPT ![StepLabel][mem.pid] = late[StepLabel][mem.pid] + 1] /\ copies' = copies
      <4>1. \A k \in Labels, p \in Pids :
               late'[k][p] = IF k = StepLabel /\ p = mem.pid THEN late[k][p] + 1 ELSE late[k][p]
        BY <2>1, <2>2, <2>3, <3>3, CountLemma
      <4>2. QED  BY <3>1, <3>3, <4>1 DEF Effects, Irreversible
    <3>4. CASE UNCHANGED <<copies, late>>
      BY <3>1, <3>4 DEF Effects, Irreversible
    <3>5. QED  BY <1>20, <3>2, <3>3, <3>4 DEF CallAnswerLost, remote
  <2>6. QED  BY <2>1, <2>4, <2>5, EffectLemma
<1>21. ASSUME StepSucceeds PROVE OnceInv'
  <2>1. pc \in InSteps /\ run.idx \in DOMAIN run.steps /\ run.idx \in DOMAIN mem.st /\ pc # "idle"
    BY <1>21, <1>b DEF StepSucceeds, AtAStep, InSteps
  <2>2. WriteItem(Mark("succeeded"), "step") /\ Quiet
    BY <1>21 DEF StepSucceeds, Quiet, remote, history
  <2>3. "succeeded" \in Status  BY DEF Status
  <2>4. "succeeded" \in Closed  BY DEF Closed
  <2>5. Honest(Mark("succeeded")) /\ Mark("succeeded").pid = mem.pid
    BY <1>c, <2>1, <2>3, <2>4, HonestMark
  <2>6. Counted' /\ ItemsHonest'  BY <2>1, <2>2, <2>5, HonestWrite
  <2>7. StepKnown'  BY <2>2, WriteItemLemma DEF StepKnown
  <2>8. QED  BY <2>6, <2>7 DEF OnceInv
<1>22. ASSUME StepErrs PROVE OnceInv'
  <2>1. /\ pc \in InSteps /\ run.idx \in DOMAIN run.steps /\ run.idx \in DOMAIN mem.st /\ pc # "idle"
        /\ Quiet
    BY <1>22, <1>b DEF StepErrs, AtAStep, InSteps, Quiet, remote, history
  <2>2. PICK s \in {"unknown", "failed"} :
           WriteItem(Mark(s), "failed") /\ (s = "failed" => pc \in {"rejected", "flagerr"})
    BY <1>22 DEF StepErrs
  <2>3. s \in Status  BY DEF Status
  <2>4. s \in Closed \/ StepLabel \notin Irreversible \/ Accounted(StepLabel, mem.pid)
    BY <2>2 DEF OnceInv, StepKnown, Closed, Irreversible
  <2>5. Honest(Mark(s)) /\ Mark(s).pid = mem.pid  BY <1>c, <2>1, <2>3, <2>4, HonestMark
  <2>6. Counted' /\ ItemsHonest'  BY <2>1, <2>2, <2>5, HonestWrite
  <2>7. StepKnown'  BY <2>2, WriteItemLemma DEF StepKnown
  <2>8. QED  BY <2>6, <2>7 DEF OnceInv
<1>23. ASSUME LookupFails PROVE OnceInv'
  <2>1. Quiet /\ UNCHANGED <<disk, mem>> /\ (pc' # "idle" => pc # "idle")
    BY <1>23 DEF LookupFails, Quiet, workspace, command, remote, history
  <2>2. StepKnown'
    BY <1>23 DEF LookupFails, OnceInv, StepKnown, StepStatus, StepLabel, Accounted, Effects,
             workspace, command, remote, history
  <2>3. QED  BY <2>1, <2>2, HonestStill DEF OnceInv
<1>24. ASSUME StepsDone PROVE OnceInv'
  <2>1. Quiet /\ UNCHANGED <<disk, mem>> /\ (pc' # "idle" => pc # "idle")
    BY <1>24 DEF StepsDone, Quiet, workspace, command, remote, history
  <2>2. StepKnown'
    BY <1>24 DEF StepsDone, OnceInv, StepKnown, StepStatus, StepLabel, Accounted, Effects,
             workspace, command, remote, history
  <2>3. QED  BY <2>1, <2>2, HonestStill DEF OnceInv
<1>25. ASSUME RecordOutbound PROVE OnceInv'
  <2>1. Quiet /\ UNCHANGED <<disk, mem>> /\ (pc' # "idle" => pc # "idle")
    BY <1>25 DEF RecordOutbound, Quiet, workspace, command, remote, history
  <2>2. StepKnown'
    BY <1>25 DEF RecordOutbound, OnceInv, StepKnown, StepStatus, StepLabel, Accounted, Effects,
             workspace, command, remote, history
  <2>3. QED  BY <2>1, <2>2, HonestStill DEF OnceInv
<1>26. ASSUME RemoveOutboundDraft PROVE OnceInv'
  <2>1. Quiet /\ UNCHANGED <<disk, mem>> /\ (pc' # "idle" => pc # "idle")
    BY <1>26 DEF RemoveOutboundDraft, Quiet, workspace, command, remote, history
  <2>2. StepKnown'
    BY <1>26 DEF RemoveOutboundDraft, OnceInv, StepKnown, StepStatus, StepLabel, Accounted, Effects,
             workspace, command, remote, history
  <2>3. QED  BY <2>1, <2>2, HonestStill DEF OnceInv
<1>27. ASSUME AuditDraftRemoval PROVE OnceInv'
  <2>1. Quiet /\ UNCHANGED <<disk, mem>> /\ (pc' # "idle" => pc # "idle")
    BY <1>27 DEF AuditDraftRemoval, Quiet, workspace, command, remote, history
  <2>2. StepKnown'
    BY <1>27 DEF AuditDraftRemoval, OnceInv, StepKnown, StepStatus, StepLabel, Accounted, Effects,
             workspace, command, remote, history
  <2>3. QED  BY <2>1, <2>2, HonestStill DEF OnceInv
<1>28. ASSUME AppendAudit PROVE OnceInv'
  <2>1. Quiet /\ UNCHANGED <<disk, mem>> /\ (pc' # "idle" => pc # "idle")
    BY <1>28 DEF AppendAudit, Quiet, workspace, command, remote, history
  <2>2. StepKnown'
    BY <1>28 DEF AppendAudit, OnceInv, StepKnown, StepStatus, StepLabel, Accounted, Effects,
             workspace, command, remote, history
  <2>3. QED  BY <2>1, <2>2, HonestStill DEF OnceInv
<1>29. ASSUME CasesFail PROVE OnceInv'
  <2>1. Quiet /\ UNCHANGED <<disk, mem>> /\ (pc' # "idle" => pc # "idle")
    BY <1>29 DEF CasesFail, Quiet, workspace, command, remote, history
  <2>2. StepKnown'
    BY <1>29 DEF CasesFail, OnceInv, StepKnown, StepStatus, StepLabel, Accounted, Effects,
             workspace, command, remote, history
  <2>3. QED  BY <2>1, <2>2, HonestStill DEF OnceInv
<1>30. ASSUME LocalError PROVE OnceInv'
  <2>1. Quiet /\ UNCHANGED <<disk, mem>> /\ (pc' # "idle" => pc # "idle")
    BY <1>30 DEF LocalError, Quiet, workspace, command, remote, history
  <2>2. StepKnown'
    BY <1>30 DEF LocalError, OnceInv, StepKnown, StepStatus, StepLabel, Accounted, Effects,
             workspace, command, remote, history
  <2>3. QED  BY <2>1, <2>2, HonestStill DEF OnceInv
<1>31. ASSUME RecordRemoteSucceeded PROVE OnceInv'
  <2>1. pc # "idle" /\ Quiet  BY <1>31 DEF RecordRemoteSucceeded, Quiet, remote, history
  <2>2. PICK it : /\ WriteItem(it, "final")
                  /\ it.pid = mem.pid /\ it.st = mem.st
    BY <1>31, <1>t DEF RecordRemoteSucceeded, Item
  <2>3. Honest(it)  BY <1>c, <2>1, <2>2 DEF Honest, Open
  <2>4. Counted' /\ ItemsHonest'  BY <2>1, <2>2, <2>3, HonestWrite
  <2>5. StepKnown'  BY <2>2, WriteItemLemma DEF StepKnown
  <2>6. QED  BY <2>4, <2>5 DEF OnceInv
<1>32. ASSUME AdvanceLocalStage PROVE OnceInv'
  <2>1. pc # "idle" /\ Quiet  BY <1>32 DEF AdvanceLocalStage, Quiet, remote, history
  <2>2. PICK it : /\ WriteItem(it, "final")
                  /\ it.pid = mem.pid /\ it.st = mem.st
    BY <1>32, <1>t DEF AdvanceLocalStage, Item
  <2>3. Honest(it)  BY <1>c, <2>1, <2>2 DEF Honest, Open
  <2>4. Counted' /\ ItemsHonest'  BY <2>1, <2>2, <2>3, HonestWrite
  <2>5. StepKnown'  BY <2>2, WriteItemLemma DEF StepKnown
  <2>6. QED  BY <2>4, <2>5 DEF OnceInv
<1>33. ASSUME ClearPending PROVE OnceInv'
  <2>1. pc # "idle" /\ Quiet  BY <1>33 DEF ClearPending, Quiet, remote, history
  <2>2. PICK it : /\ WriteItem(it, "final")
                  /\ it.pid = mem.pid /\ it.st = mem.st
    BY <1>33, <1>t DEF ClearPending, Item
  <2>3. Honest(it)  BY <1>c, <2>1, <2>2 DEF Honest, Open
  <2>4. Counted' /\ ItemsHonest'  BY <2>1, <2>2, <2>3, HonestWrite
  <2>5. StepKnown'  BY <2>2, WriteItemLemma DEF StepKnown
  <2>6. QED  BY <2>4, <2>5 DEF OnceInv
<1>34. ASSUME PreparePushAudit PROVE OnceInv'
  <2>1. pc # "idle" /\ Quiet  BY <1>34 DEF PreparePushAudit, Quiet, remote, history
  <2>2. PICK it : /\ WriteItem(it, "audit")
                  /\ it.pid = mem.pid /\ it.st = mem.st
    BY <1>34, <1>t, AuditItemLemma DEF PreparePushAudit, Item, Run
  <2>3. Honest(it)  BY <1>c, <2>1, <2>2 DEF Honest, Open
  <2>4. Counted' /\ ItemsHonest'  BY <2>1, <2>2, <2>3, HonestWrite
  <2>5. StepKnown'  BY <2>2, WriteItemLemma DEF StepKnown
  <2>6. QED  BY <2>4, <2>5 DEF OnceInv
<1>35. ASSUME DeleteItem PROVE OnceInv'
  <2>1. /\ pc = "delete" /\ Quiet /\ mem' = mem /\ disk' \in {NoItem, disk} /\ pc' \in {"cases", "auditfail"}
    BY <1>35 DEF DeleteItem, Quiet, remote, history
  <2>2. Counted' /\ \A k, p : Accounted(k, p)' <=> Accounted(k, p)  BY <2>1, QuietLemma DEF OnceInv
  <2>3. ItemsHonest'
    BY <2>1, <2>2, EmptyLemma DEF Quiet, OnceInv, ItemsHonest, HasItem, Honest, Open
  <2>4. StepKnown'  BY <2>1 DEF StepKnown
  <2>5. QED  BY <2>2, <2>3, <2>4 DEF OnceInv
<1>36. ASSUME FinishItem PROVE OnceInv'
  <2>1. /\ pc # "idle" /\ Quiet /\ pc' = "idle" /\ disk' \in {mem, disk}
    BY <1>36 DEF FinishItem, EndRun, Quiet, workspace, remote, history
  <2>2. Counted' /\ \A k, p : Accounted(k, p)' <=> Accounted(k, p)  BY <2>1, QuietLemma DEF OnceInv
  <2>3. ItemsHonest'
    BY <2>1, <2>2 DEF Quiet, OnceInv, ItemsHonest, HasItem, Honest, Open
  <2>4. StepKnown'  BY <2>1 DEF StepKnown
  <2>5. QED  BY <2>2, <2>3, <2>4 DEF OnceInv
<1>37. ASSUME EndInError PROVE OnceInv'
  <2>1. /\ pc # "idle" /\ Quiet /\ pc' = "idle" /\ disk' \in {mem, disk}
    BY <1>37 DEF EndInError, EndRun, Quiet, workspace, remote, history
  <2>2. Counted' /\ \A k, p : Accounted(k, p)' <=> Accounted(k, p)  BY <2>1, QuietLemma DEF OnceInv
  <2>3. ItemsHonest'
    BY <2>1, <2>2 DEF Quiet, OnceInv, ItemsHonest, HasItem, Honest, Open
  <2>4. StepKnown'  BY <2>1 DEF StepKnown
  <2>5. QED  BY <2>2, <2>3, <2>4 DEF OnceInv
<1>38. ASSUME Crash PROVE OnceInv'
  <2>1. /\ pc # "idle" /\ Quiet /\ pc' = "idle" /\ disk' \in {mem, disk}
    BY <1>38 DEF Crash, EndRun, Quiet, workspace, remote, history
  <2>2. Counted' /\ \A k, p : Accounted(k, p)' <=> Accounted(k, p)  BY <2>1, QuietLemma DEF OnceInv
  <2>3. ItemsHonest'
    BY <2>1, <2>2 DEF Quiet, OnceInv, ItemsHonest, HasItem, Honest, Open
  <2>4. StepKnown'  BY <2>1 DEF StepKnown
  <2>5. QED  BY <2>2, <2>3, <2>4 DEF OnceInv
<1>39. ASSUME LateEffect PROVE OnceInv'
  <2>1. PICK k \in Irreversible, p \in Pids :
          /\ late[k][p] > 0
          /\ late' = [late EXCEPT ![k][p] = late[k][p] - 1]
          /\ copies' = [copies EXCEPT ![k][p] = copies[k][p] + 1] \/ copies' = copies
          /\ UNCHANGED <<workspace, plans, command, history>>
    BY <1>39 DEF LateEffect
  <2>2. k \in Labels /\ copies \in [Labels -> [Pids -> Nat]] /\ late \in [Labels -> [Pids -> Nat]]
        /\ mistakes \in [Labels -> [Pids -> Nat]]
    BY DEF Irreversible, TypeInv, TypeOK
  <2>3. late[k][p] - 1 \in Nat /\ copies[k][p] + 1 \in Nat  BY <2>1, <2>2
  <2>4. \A l \in Labels, q \in Pids : late'[l][q] = IF l = k /\ q = p THEN late[l][q] - 1 ELSE late[l][q]
    BY <2>1, <2>2, <2>3, CountLemma
  <2>5. \A l \in Labels, q \in Pids :
           copies'[l][q] = copies[l][q] \/ (l = k /\ q = p /\ copies'[l][q] = copies[l][q] + 1)
    BY <2>1, <2>2, <2>3, CountLemma
  <2>6. UNCHANGED <<disk, mem, run, pc, used, mistakes>>  BY <2>1 DEF workspace, command, history
  <2>7. ASSUME NEW l \in Irreversible, NEW q \in Pids
        PROVE  Effects(l, q)' <= Effects(l, q) /\ Effects(l, q)' \in Nat /\ Effects(l, q) \in Nat
               /\ mistakes[l][q] \in Nat
    <3>1. l \in Labels  BY DEF Irreversible
    <3>2. copies[l][q] \in Nat /\ late[l][q] \in Nat /\ mistakes[l][q] \in Nat  BY <2>2, <3>1
    <3>3. CASE l = k /\ q = p
      <4>1. late'[l][q] = late[l][q] - 1 /\ copies'[l][q] \in {copies[l][q], copies[l][q] + 1}
        BY <2>4, <2>5, <3>1, <3>3
      <4>2. QED  BY <2>3, <3>2, <3>3, <4>1 DEF Effects
    <3>4. CASE ~(l = k /\ q = p)
      <4>1. late'[l][q] = late[l][q] /\ copies'[l][q] = copies[l][q]  BY <2>4, <2>5, <3>1, <3>4
      <4>2. QED  BY <3>2, <4>1 DEF Effects
    <3>5. QED  BY <3>3, <3>4
  <2>8. \A l \in Irreversible, q \in Pids : Accounted(l, q) => Accounted(l, q)'
    BY <2>6, <2>7 DEF Accounted
  <2>9. Counted'
    <3>1. \A l \in Irreversible, q \in Pids : Effects(l, q) <= 1 + mistakes[l][q]
      BY DEF OnceInv, Counted, AtMostOnce, Effects
    <3>2. \A l \in Irreversible, q \in Pids : Effects(l, q)' <= 1 + mistakes[l][q]  BY <2>7, <3>1
    <3>3. \A l \in Irreversible, q \in Pids \ used : Effects(l, q)' = 0
      BY <2>7 DEF OnceInv, Counted
    <3>4. QED  BY <2>6, <3>2, <3>3 DEF Counted, AtMostOnce, Effects
  <2>10. /\ disk.pid \in Pids \/ ~HasItem
         /\ pc # "idle" => mem.pid \in Pids
    BY <1>t DEF HasItem, Item, TypeInv, ControlOK
  <2>11. ItemsHonest'
    BY <2>6, <2>8, <2>10 DEF OnceInv, ItemsHonest, HasItem, Honest, Open
  <2>12. StepKnown'
    BY <2>6, <2>8, <2>10 DEF OnceInv, StepKnown, StepStatus, StepLabel
  <2>13. QED  BY <2>9, <2>11, <2>12 DEF OnceInv
<1>40. ASSUME UNCHANGED vars PROVE OnceInv'
  <2>1. Quiet /\ UNCHANGED <<disk, mem>> /\ (pc' # "idle" => pc # "idle")
    BY <1>40 DEF vars, Quiet, workspace, command, remote, history
  <2>2. StepKnown'
    BY <1>40 DEF vars, OnceInv, StepKnown, StepStatus, StepLabel, Accounted, Effects,
             workspace, command, remote, history
  <2>3. QED  BY <2>1, <2>2, HonestStill DEF OnceInv
<1>41. QED
  BY <1>1, <1>2, <1>3, <1>4, <1>5, <1>6, <1>7, <1>8, <1>9, <1>10, <1>11, <1>12, <1>13,
     <1>14, <1>15, <1>16, <1>17, <1>18, <1>19, <1>20, <1>21, <1>22, <1>23, <1>24, <1>25,
     <1>26, <1>27, <1>28, <1>29, <1>30, <1>31, <1>32, <1>33, <1>34, <1>35, <1>36, <1>37,
     <1>38, <1>39, <1>40
  DEF Next, UserStep, CommandStep, StepExecution, Finalisation

(* For every number of push ids, contents and configurations, and whatever  *)
(* crashes, lost answers and failing writes do: a send, a Drafts copy and a *)
(* Sent copy are made at most once per push id, plus once per wrong answer  *)
(* given to `push recover` (execute_tracked_steps marks the step            *)
(* remote_outcome_unknown before the call and never repeats such a step).   *)
THEOREM EffectsHappenAtMostOnce == Spec => []AtMostOnce
<1>1. Init => TypeInv /\ OnceInv  BY TypeInvInit, OnceInit
<1>2. TypeInv /\ OnceInv /\ [Next]_vars => TypeInv' /\ OnceInv'  BY TypeInvStep, OnceStep
<1>3. OnceInv => AtMostOnce  BY DEF OnceInv, Counted
<1>4. QED  BY <1>1, <1>2, <1>3, PTL DEF Spec

-----------------------------------------------------------------------------
(* What a push leaves behind: only reviewed content was sent, the audit    *)
(* log calls succeeded what took effect, a sent message is kept, and       *)
(* recorded progress is not forgotten.  TypeInv and OnceInv hold beside    *)
(* what is defined here.                                                    *)

(* A step took effect remotely, or is a send a person vouched for. *)
Took(k, p) == copies[k][p] >= 1 \/ (k = "send" /\ p \in settled)

(* The remote part of the push p was complete once. *)
Completed(p) == done[p].act # "none"

(* Every step of that time is still recorded as succeeded. *)
KeepsSteps(it) ==
    /\ done[it.pid].steps # <<>>
    /\ \A i \in DOMAIN done[it.pid].steps : i \in DOMAIN it.st /\ it.st[i].status = "succeeded"

(* What a queue item says is true, on disk and in memory. *)
ItemTrue(it) ==
    /\ \A i \in DOMAIN it.st :
          it.st[i].status = "succeeded" => Took(it.st[i].label, it.pid)
    /\ it.stage >= 1 => Completed(it.pid)
    /\ it.stage = 5 <=> it.ev # None
    /\ Completed(it.pid) => /\ KeepsSteps(it)
                            /\ draft.intent \in {"none", done[it.pid].act}
    /\ it.stage >= 2 /\ done[it.pid].act = "send" => evidence[it.pid] # None
    /\ \A l \in log : l.pid = it.pid => it.ev = l.ev /\ it.action = l.action

ItemsTrue ==
    /\ HasItem => ItemTrue(disk)
    /\ pc # "idle" => ItemTrue(mem)

(* The steps the command has passed are succeeded, in the file too, and the  *)
(* one it is at is not.                                                      *)
StepsInOrder ==
    /\ pc \in InSteps =>
          /\ mem.stage = 0
          /\ \A i \in DOMAIN mem.st : i < run.idx => mem.st[i].status = "succeeded"
          /\ run.steps # <<>>
    /\ pc \in AtAStep => StepStatus # "succeeded"
    /\ pc = "ok" => copies[StepLabel][mem.pid] >= 1
    /\ pc \in InSteps \cup {"final"} /\ mem.stage = 0 /\ HasItem =>
          \A i \in DOMAIN mem.st : mem.st[i].status = "succeeded" =>
             i \in DOMAIN disk.st /\ disk.st[i].status = "succeeded"
    /\ pc = "final" /\ mem.stage = 0 =>
          /\ run.steps # <<>>
          /\ \A i \in DOMAIN run.steps : i \in DOMAIN mem.st /\ mem.st[i].status = "succeeded"
                                         /\ mem.st[i].label = run.steps[i]

(* The action of the command is the one that was planned when the remote     *)
(* part began.                                                               *)
ActionKept ==
    /\ pc # "idle" /\ mem.stage <= 2 => run.rev # None
    /\ pc # "idle" /\ mem.stage = 0 => draft.intent \in {"none", run.act}
    /\ pc # "idle" /\ mem.stage <= 2 /\ Completed(mem.pid) => run.act = done[mem.pid].act

(* The end of the finalisation. *)
EndInOrder ==
    /\ pc = "advance" /\ mem.stage = 1 /\ run.act = "send" => evidence[mem.pid] # None
    /\ pc \in {"audit", "delete"} => disk = mem
    /\ pc = "delete" => \E l \in log : l.pid = mem.pid

(* What was logged, completed and dropped belongs to push ids given out. *)
HistoryTrue ==
    /\ \A p \in Pids : Completed(p) =>
          /\ p \in used
          /\ \A i \in DOMAIN done[p].steps : Took(done[p].steps[i], p)
    /\ \A l \in log : l.pid \in used /\ Completed(l.pid)
    /\ \A p \in dropped : p \in used /\ Completed(p)
    /\ AuditedOnce
    /\ SentMessageIsKept

AuditInv == ItemsTrue /\ StepsInOrder /\ ActionKept /\ EndInOrder /\ HistoryTrue

(* The invariant of the first theorem: a plan that can be confirmed, and a   *)
(* run that carries one out, holds reviewed content.                         *)
ReviewInv ==
    /\ OnlyReviewedContentIsSent
    /\ \A d \in plans : d.draft.rev # None => <<disk.pid, d.draft.rev>> \in shown
    /\ pc \in InSteps => <<mem.pid, run.rev>> \in shown
-----------------------------------------------------------------------------
(* What a step can change.                                                   *)

LEMMA Shapes ==
  ASSUME TypeInv
  PROVE  /\ disk \in Item /\ mem \in Item /\ run \in Run /\ draft \in Draft /\ config \in Configs
         /\ run.steps \in Seq(Labels) /\ run.idx \in Nat /\ run.act \in Actions
         /\ disk.stage \in Nat /\ mem.stage \in Nat
         /\ HasItem => disk.pid \in Pids
         /\ pc # "idle" => mem.pid \in Pids
         /\ \A i \in DOMAIN mem.st : mem.st[i] \in StepState
         /\ \A i \in DOMAIN disk.st : disk.st[i] \in StepState
<1>1. /\ disk \in Item /\ mem \in Item /\ run \in Run /\ draft \in Draft /\ config \in Configs
  BY DEF TypeInv, TypeOK
<1>2. mem.st \in Seq(StepState) /\ disk.st \in Seq(StepState)  BY <1>1 DEF Item
<1>3. (HasItem => disk.pid \in Pids) /\ (pc # "idle" => mem.pid \in Pids)
  BY <1>1 DEF HasItem, Item, TypeInv, ControlOK
<1>4. QED  BY <1>1, <1>2, <1>3 DEF Item, Run, Stages

(* One action each writes the history of completed steps, the audit log, the *)
(* evidence and the removals.                                                *)
LEMMA Frames ==
  ASSUME TypeInv, [Next]_vars
  PROVE  /\ done' = done \/ RecordRemoteSucceeded
         /\ log' = log \/ AppendAudit
         /\ evidence' = evidence \/ RecordOutbound
         /\ dropped' = dropped \/ RemoveOutboundDraft
         /\ used' = used \/ \E a \in Actions : QueueDraft(a)
         /\ draft'.intent \in {draft.intent, "none"} \/ \E a \in Actions : QueueDraft(a)
<1> USE DEF workspace, command, remote, history
<1>1. CASE UserStep
  <2>1. CASE \E a \in Actions : QueueDraft(a)
    BY <2>1 DEF QueueDraft
  <2>2. CASE EditDraft \/ DeleteDraftFile \/ EditConfig \/ RemoveDraft
    BY <2>2, Shapes DEF EditDraft, DeleteDraftFile, EditConfig, RemoveDraft, NoDraft, Draft
  <2>3. CASE Preview \/ Confirm \/ ConfirmDropsItem \/ RecoverDraftsAppend
             \/ \E sent \in BOOLEAN : SettleSend(sent)
    BY <2>3 DEF Preview, Confirm, ConfirmDropsItem, RecoverDraftsAppend, SettleSend
  <2>4. QED  BY <1>1, <2>1, <2>2, <2>3 DEF UserStep
<1>2. CASE StepExecution
  BY <1>2 DEF StepExecution, SkipSucceeded, MeetUnknown, LookupFinds, LookupFails, BeginStep,
       PreflightFails, PersistUnknown, AttemptFlags, CallAccepted, CallRejected, CallAnswerLost,
       StepSucceeds, StepErrs
<1>3. CASE Finalisation
  BY <1>3 DEF Finalisation, StepsDone, RecordRemoteSucceeded, RecordOutbound,
       RemoveOutboundDraft, AuditDraftRemoval, AdvanceLocalStage, ClearPending,
       PreparePushAudit, AppendAudit, DeleteItem, FinishItem, CasesFail, EndInError, LocalError,
       NoDraft
<1>4. CASE Crash \/ LateEffect \/ UNCHANGED vars
  BY <1>4 DEF Crash, LateEffect, vars
<1>5. QED  BY <1>1, <1>2, <1>3, <1>4 DEF Next, CommandStep

(* Nothing remote is undone, and a person's word is kept. *)
LEMMA TookStep ==
  ASSUME TypeInv, [Next]_vars
  PROVE  \A k \in Labels, p \in Pids : Took(k, p) => Took(k, p)'
<1> USE DEF workspace, command, remote, history
<1>0. copies \in [Labels -> [Pids -> Nat]]  BY DEF TypeInv, TypeOK
<1>1. CASE copies' = copies /\ settled \subseteq settled'
  BY <1>1 DEF Took
<1>2. ASSUME NEW k \in Labels, NEW p \in Pids, NEW n \in Nat, n >= 1,
             copies' = [copies EXCEPT ![k][p] = n], settled' = settled
      PROVE  \A l \in Labels, q \in Pids : Took(l, q) => Took(l, q)'
  <2>1. \A l \in Labels, q \in Pids :
           copies'[l][q] = IF l = k /\ q = p THEN n ELSE copies[l][q]
    BY <1>0, <1>2, CountLemma
  <2>2. QED  BY <1>2, <2>1 DEF Took
<1>3. CASE UserStep
  <2>1. CASE \E sent \in BOOLEAN : SettleSend(sent)
    BY <1>1, <2>1 DEF SettleSend, Release
  <2>2. CASE RecoverDraftsAppend
    BY <1>1, <2>2 DEF RecoverDraftsAppend, Release
  <2>3. CASE EditDraft \/ DeleteDraftFile \/ EditConfig \/ (\E a \in Actions : QueueDraft(a))
             \/ RemoveDraft \/ Preview \/ Confirm \/ ConfirmDropsItem
    BY <1>1, <2>3 DEF EditDraft, DeleteDraftFile, EditConfig, QueueDraft, RemoveDraft, Preview,
         Confirm, ConfirmDropsItem
  <2>4. QED  BY <1>3, <2>1, <2>2, <2>3 DEF UserStep
<1>4. CASE AttemptFlags \/ CallAccepted \/ CallAnswerLost
  <2>1. StepLabel \in Labels /\ mem.pid \in Pids /\ "flags" \in Labels
    BY <1>4, Shapes DEF AttemptFlags, CallAccepted, CallAnswerLost, TypeInv, ControlOK, AtAStep,
         InSteps, StepLabel, Labels
  <2>2. copies[StepLabel][mem.pid] + 1 \in Nat /\ copies[StepLabel][mem.pid] + 1 >= 1
    BY <1>0, <2>1
  <2>3. settled' = settled
        /\ \/ copies' = copies
           \/ copies' = [copies EXCEPT !["flags"][mem.pid] = 1]
           \/ copies' = [copies EXCEPT ![StepLabel][mem.pid] = copies[StepLabel][mem.pid] + 1]
    BY <1>4 DEF AttemptFlags, CallAccepted, CallAnswerLost
  <2>4. CASE copies' = copies
    BY <1>1, <2>3, <2>4
  <2>5. CASE copies' = [copies EXCEPT !["flags"][mem.pid] = 1]
    <3>1. 1 \in Nat /\ 1 >= 1  OBVIOUS
    <3>2. QED  BY <1>2, <2>1, <2>3, <2>5, <3>1
  <2>6. CASE copies' = [copies EXCEPT ![StepLabel][mem.pid] = copies[StepLabel][mem.pid] + 1]
    BY <1>2, <2>1, <2>2, <2>3, <2>6
  <2>7. QED  BY <2>3, <2>4, <2>5, <2>6
<1>5. CASE SkipSucceeded \/ MeetUnknown \/ LookupFinds \/ LookupFails \/ BeginStep
           \/ PreflightFails \/ PersistUnknown \/ CallRejected \/ StepSucceeds \/ StepErrs
  BY <1>1, <1>5 DEF SkipSucceeded, MeetUnknown, LookupFinds, LookupFails, BeginStep,
       PreflightFails, PersistUnknown, CallRejected, StepSucceeds, StepErrs
<1>6. CASE Finalisation
  BY <1>1, <1>6 DEF Finalisation, StepsDone, RecordRemoteSucceeded, RecordOutbound,
       RemoveOutboundDraft, AuditDraftRemoval, AdvanceLocalStage, ClearPending,
       PreparePushAudit, AppendAudit, DeleteItem, FinishItem, CasesFail, EndInError, LocalError
<1>7. CASE LateEffect
  <2>1. PICK k \in Irreversible, p \in Pids :
          /\ copies' = [copies EXCEPT ![k][p] = copies[k][p] + 1] \/ copies' = copies
          /\ settled' = settled
    BY <1>7 DEF LateEffect
  <2>2. k \in Labels /\ copies[k][p] + 1 \in Nat /\ copies[k][p] + 1 >= 1
    BY <1>0 DEF Irreversible
  <2>3. QED  BY <1>1, <1>2, <2>1, <2>2
<1>8. CASE Crash \/ UNCHANGED vars
  BY <1>1, <1>8 DEF Crash, vars
<1>9. QED
  BY <1>3, <1>4, <1>5, <1>6, <1>7, <1>8 DEF Next, CommandStep, StepExecution
-----------------------------------------------------------------------------
(* Only reviewed content is sent.                                            *)

LEMMA ReviewInit == Init => ReviewInv
BY DEF Init, ReviewInv, OnlyReviewedContentIsSent, InSteps

(* Plans are dropped with the item they were made for, and a run goes on     *)
(* with the content it began with.                                           *)
LEMMA ReviewStill ==
  ASSUME ReviewInv, UNCHANGED <<issued, shown>>,
         plans' = {} \/ (plans' = plans /\ disk'.pid = disk.pid),
         pc' \in InSteps => pc \in InSteps /\ mem'.pid = mem.pid /\ run'.rev = run.rev
  PROVE  ReviewInv'
BY DEF ReviewInv, OnlyReviewedContentIsSent

LEMMA ReviewMark ==
  ASSUME TypeInv, ReviewInv, pc \in InSteps, NEW s \in Status, NEW next,
         WriteItem(Mark(s), next), run' = run \/ NextStep, UNCHANGED <<issued, shown>>
  PROVE  ReviewInv'
<1>1. mem'.pid = mem.pid  BY Shapes, MarkLemma DEF WriteItem
<1>2. run'.rev = run.rev  BY Shapes DEF NextStep, Run
<1>3. plans' = {} \/ (plans' = plans /\ disk' = disk)  BY DEF WriteItem
<1>4. QED  BY <1>1, <1>2, <1>3, ReviewStill

LEMMA ReviewStep ==
  ASSUME TypeInv, ReviewInv, [Next]_vars
  PROVE  ReviewInv'
<1> USE DEF workspace, command, remote, history
<1>1. CASE Preview
  <2>1. /\ plans' = {Digest} /\ UNCHANGED <<disk, issued, pc, mem, run>>
        /\ shown' = IF draft.rev = None THEN shown ELSE shown \cup {<<disk.pid, draft.rev>>}
    BY <1>1 DEF Preview
  <2>2. Digest.draft.rev # None => <<disk.pid, Digest.draft.rev>> \in shown'
    BY <2>1 DEF Digest, NoDraft
  <2>3. QED  BY <2>1, <2>2 DEF ReviewInv, OnlyReviewedContentIsSent
<1>2. CASE Confirm
  <2> DEFINE it == PlannedItem(disk, draft, config)
             r  == PlannedRun(disk, draft, config)
             at == StartPoint(it, r)
  <2>1. /\ UNCHANGED <<plans, issued, shown>> /\ disk' = it /\ run' = r /\ pc' = at
        /\ mem' = IF at = "step" THEN EnsureStepStates(it, r.steps) ELSE it
        /\ PlanMatches /\ Planned(disk, draft, config)
    BY <1>2 DEF Confirm
  <2>2. /\ it \in Item /\ it.pid = disk.pid /\ it.ev = disk.ev /\ r \in Run
        /\ it.ev = None /\ it.stage = 0 => KeepsProgress(it, r.steps)
    BY <2>1, Shapes, PlanLemma DEF TypeInv, ControlOK
  <2>3. CASE at = "step"
    <3>1. it.ev = None /\ it.stage = 0  BY <2>3 DEF StartPoint
    <3>2. draft.rev # None
      <4>1. CASE FromDraft(disk, draft)
        BY <4>1 DEF FromDraft
      <4>2. CASE ~FromDraft(disk, draft)
        BY <2>1, <2>2, <3>1, <4>2 DEF FromDraft, Planned, PlannedItem
      <4>3. QED  BY <4>1, <4>2
    <3>3. r.rev = draft.rev  BY <2>2, <3>1, <3>2 DEF PlannedRun, FromDraft
    <3>4. <<disk.pid, draft.rev>> \in shown
      BY <2>1, <2>2, <3>1, <3>2 DEF PlanMatches, Digest, ReviewInv
    <3>5. mem'.pid = disk.pid
      <4>1. r.steps \in Seq(Labels)  BY <2>2 DEF Run
      <4> HIDE DEF it, r, at
      <4>2. QED  BY <2>1, <2>2, <2>3, <3>1, <4>1, EnsureLemma
    <3> HIDE DEF it, r, at
    <3>6. QED  BY <2>1, <2>2, <3>3, <3>4, <3>5 DEF ReviewInv, OnlyReviewedContentIsSent
  <2>4. CASE at # "step"
    <3>1. pc' \notin InSteps  BY <2>1, <2>4 DEF StartPoint, InSteps
    <3> HIDE DEF it, r, at
    <3>2. QED  BY <2>1, <2>2, <3>1, ReviewStill
  <2>5. QED  BY <2>3, <2>4
<1>3. CASE CallAccepted \/ CallAnswerLost
  <2>1. pc = "call" /\ pc' \in {"ok", "lost"} /\ UNCHANGED <<mem, run, plans, disk, shown>>
        /\ issued' \subseteq issued \cup {<<mem.pid, run.rev>>}
    BY <1>3 DEF CallAccepted, CallAnswerLost, Issue
  <2>2. <<mem.pid, run.rev>> \in shown  BY <2>1 DEF ReviewInv, InSteps
  <2>3. QED  BY <2>1, <2>2 DEF ReviewInv, OnlyReviewedContentIsSent
<1>4. CASE EditDraft \/ DeleteDraftFile \/ EditConfig \/ LateEffect \/ UNCHANGED vars
  BY <1>4, ReviewStill DEF EditDraft, DeleteDraftFile, EditConfig, LateEffect, vars
<1>5. CASE \/ \E a \in Actions : QueueDraft(a)
           \/ RemoveDraft \/ ConfirmDropsItem \/ RecoverDraftsAppend
           \/ \E sent \in BOOLEAN : SettleSend(sent)
  BY <1>5, ReviewStill DEF QueueDraft, RemoveDraft, ConfirmDropsItem, RecoverDraftsAppend,
       SettleSend
<1>6. CASE SkipSucceeded \/ MeetUnknown \/ LookupFails \/ AttemptFlags \/ CallRejected
  <2>1. UNCHANGED <<issued, shown, plans, disk, mem>> /\ pc \in InSteps
    BY <1>6 DEF SkipSucceeded, MeetUnknown, LookupFails, AttemptFlags, CallRejected, AtStep,
         InSteps
  <2>2. run'.rev = run.rev
    BY <1>6, Shapes DEF SkipSucceeded, MeetUnknown, LookupFails, AttemptFlags, CallRejected,
         NextStep, Run
  <2>3. QED  BY <2>1, <2>2, ReviewStill
<1>7. CASE LookupFinds \/ BeginStep \/ PreflightFails \/ PersistUnknown \/ StepSucceeds
           \/ StepErrs
  <2>1. /\ pc \in InSteps /\ UNCHANGED <<issued, shown>> /\ (run' = run \/ NextStep)
        /\ \E s \in Status, next \in PCs : WriteItem(Mark(s), next)
    BY <1>7 DEF LookupFinds, BeginStep, PreflightFails, PersistUnknown, StepSucceeds, StepErrs,
         AtStep, InSteps, Status, PCs
  <2>2. QED  BY <2>1, ReviewMark
<1>8. CASE RecordRemoteSucceeded \/ AdvanceLocalStage \/ ClearPending \/ PreparePushAudit
  <2>1. /\ UNCHANGED <<issued, shown>>
        /\ \E it : \E next \in {"final", "audit"} : WriteItem(it, next) /\ it.pid = mem.pid
    <3>1. CASE PreparePushAudit
      <4>1. PICK e \in EventIds : WriteItem(AuditPending(mem, e, run.act), "audit")
        BY <3>1 DEF PreparePushAudit
      <4>2. AuditPending(mem, e, run.act).pid = mem.pid  BY Shapes, AuditItemLemma
      <4>3. QED  BY <3>1, <4>1, <4>2 DEF PreparePushAudit
    <3>2. CASE RecordRemoteSucceeded \/ AdvanceLocalStage \/ ClearPending
      <4>1. PICK n : WriteItem([mem EXCEPT !.stage = n], "final")
        BY <3>2 DEF RecordRemoteSucceeded, AdvanceLocalStage, ClearPending
      <4>2. [mem EXCEPT !.stage = n].pid = mem.pid  BY Shapes DEF Item
      <4>3. UNCHANGED <<issued, shown>>
        BY <3>2 DEF RecordRemoteSucceeded, AdvanceLocalStage, ClearPending
      <4>4. QED  BY <4>1, <4>2, <4>3
    <3>3. QED  BY <1>8, <3>1, <3>2
  <2>2. pc' \notin InSteps  BY <2>1 DEF WriteItem, InSteps
  <2>3. plans' = {} \/ (plans' = plans /\ disk' = disk)  BY <2>1 DEF WriteItem
  <2>4. QED  BY <2>1, <2>2, <2>3, ReviewStill
<1>9. CASE StepsDone \/ RecordOutbound \/ RemoveOutboundDraft \/ AuditDraftRemoval
           \/ AppendAudit \/ CasesFail \/ LocalError
  BY <1>9, ReviewStill DEF StepsDone, RecordOutbound, RemoveOutboundDraft, AuditDraftRemoval,
       AppendAudit, CasesFail, LocalError, InSteps
<1>10. CASE DeleteItem \/ FinishItem \/ EndInError \/ Crash
  BY <1>10, ReviewStill DEF DeleteItem, FinishItem, EndInError, Crash, EndRun, InSteps
<1>11. QED
  BY <1>1, <1>2, <1>3, <1>4, <1>5, <1>6, <1>7, <1>8, <1>9, <1>10
  DEF Next, UserStep, CommandStep, StepExecution, Finalisation

(* Nobody is sent content that was not in a preview of this push item: a     *)
(* plan id binds the draft it was shown with, it stops matching when the     *)
(* queue record changes, and the command sends the copy it planned with,     *)
(* however the draft and the configuration are edited meanwhile.             *)
THEOREM ReviewedContentOnly == Spec => []OnlyReviewedContentIsSent
<1>1. Init => TypeInv /\ ReviewInv  BY TypeInvInit, ReviewInit
<1>2. TypeInv /\ ReviewInv /\ [Next]_vars => TypeInv' /\ ReviewInv'
  BY TypeInvStep, ReviewStep
<1>3. ReviewInv => OnlyReviewedContentIsSent  BY DEF ReviewInv
<1>4. QED  BY <1>1, <1>2, <1>3, PTL DEF Spec
-----------------------------------------------------------------------------
(* The history: what was completed, logged, dropped and kept.                *)

LEMMA AuditInit == Init => AuditInv
<1> SUFFICES ASSUME Init PROVE AuditInv
  OBVIOUS
<1>1. ItemsTrue /\ StepsInOrder /\ ActionKept /\ EndInOrder
  BY EmptyLemma DEF Init, ItemsTrue, StepsInOrder, ActionKept, EndInOrder, HasItem, InSteps,
     AtAStep
<1>2. HistoryTrue
  BY DEF Init, HistoryTrue, Completed, NoneDone, AuditedOnce, SentMessageIsKept
<1>3. QED  BY <1>1, <1>2 DEF AuditInv

(* The action that was completed is not changed by a second completion. *)
LEMMA DoneStep ==
  ASSUME TypeInv, AuditInv, [Next]_vars
  PROVE  \A p \in Pids : Completed(p) => done'[p].act = done[p].act
<1>1. CASE RecordRemoteSucceeded
  <2>1. pc = "final" /\ mem.stage = 0
        /\ done' = [done EXCEPT ![mem.pid] = [act |-> run.act, steps |-> run.steps]]
    BY <1>1 DEF RecordRemoteSucceeded
  <2>2. Completed(mem.pid) => run.act = done[mem.pid].act
    BY <2>1 DEF AuditInv, ActionKept
  <2>3. QED  BY <2>1, <2>2 DEF TypeInv, TypeOK
<1>2. QED  BY <1>1, Frames

LEMMA EvidenceStep ==
  ASSUME TypeInv, AuditInv, [Next]_vars
  PROVE  \A p \in Pids : evidence[p] # None => evidence'[p] # None
<1>1. CASE RecordOutbound
  <2>1. /\ pc = "final" /\ mem.stage = 1
        /\ evidence' = evidence \/ evidence' = [evidence EXCEPT ![mem.pid] = run.rev]
    BY <1>1 DEF RecordOutbound
  <2>2. run.rev # None  BY <2>1, Shapes DEF AuditInv, ActionKept
  <2>3. QED  BY <2>1, <2>2 DEF TypeInv, TypeOK
<1>2. QED  BY <1>1, Frames

LEMMA UsedStep ==
  ASSUME TypeInv, [Next]_vars
  PROVE  used \subseteq used'
BY Frames DEF QueueDraft

LEMMA CompletedStep ==
  ASSUME TypeInv, OnceInv, AuditInv, [Next]_vars, NEW p \in Pids, Completed(p)'
  PROVE  (p \in used /\ \A i \in DOMAIN done[p].steps : Took(done[p].steps[i], p))'
<1>1. \A k \in Labels : Took(k, p) => Took(k, p)'  BY TookStep
<1>2. used \subseteq used'  BY UsedStep
<1>3. CASE done'[p] = done[p]
  <2>1. Completed(p)  BY <1>3 DEF Completed
  <2>2. \A i \in DOMAIN done[p].steps : done[p].steps[i] \in Labels
    <3>1. done[p].steps \in Seq(Labels)  BY DEF TypeInv, TypeOK
    <3>2. QED  BY <3>1
  <2>3. p \in used /\ \A i \in DOMAIN done[p].steps : Took(done[p].steps[i], p)
    BY <2>1 DEF AuditInv, HistoryTrue
  <2>4. \A i \in DOMAIN done[p].steps :
           LET k == done[p].steps[i] IN copies'[k][p] >= 1 \/ (k = "send" /\ p \in settled')
    BY <1>1, <2>2, <2>3 DEF Took
  <2>5. QED  BY <1>2, <1>3, <2>3, <2>4 DEF Took
<1>4. CASE RecordRemoteSucceeded /\ p = mem.pid
  <2>1. pc = "final" /\ mem.stage = 0
        /\ done' = [done EXCEPT ![mem.pid] = [act |-> run.act, steps |-> run.steps]]
    BY <1>4 DEF RecordRemoteSucceeded
  <2>2. done'[p].steps = run.steps  BY <1>4, <2>1 DEF TypeInv, TypeOK
  <2>3. ASSUME NEW i \in DOMAIN run.steps
        PROVE  run.steps[i] \in Labels /\ Took(run.steps[i], p)
    <3>1. /\ i \in DOMAIN mem.st /\ mem.st[i].status = "succeeded"
          /\ mem.st[i].label = run.steps[i]
      BY <2>1, <2>3 DEF AuditInv, StepsInOrder
    <3>2. Took(mem.st[i].label, mem.pid)
      BY <2>1, <3>1 DEF AuditInv, ItemsTrue, ItemTrue
    <3>3. run.steps[i] \in Labels  BY Shapes, <2>3
    <3>4. QED  BY <1>4, <3>1, <3>2, <3>3
  <2>4. p \in used  BY <1>4, <2>1 DEF OnceInv, ItemsHonest
  <2>5. \A i \in DOMAIN run.steps :
           LET k == run.steps[i] IN copies'[k][p] >= 1 \/ (k = "send" /\ p \in settled')
    BY <1>1, <2>3 DEF Took
  <2>6. QED  BY <1>2, <2>2, <2>4, <2>5 DEF Took
<1>5. QED
  BY <1>3, <1>4, Frames DEF RecordRemoteSucceeded, TypeInv, TypeOK

LEMMA LogStep ==
  ASSUME TypeInv, OnceInv, AuditInv, [Next]_vars
  PROVE  (\A l \in log : l.pid \in used /\ Completed(l.pid))' /\ AuditedOnce'
<1>1. \A l \in log : l.pid \in Pids /\ l.pid \in used /\ Completed(l.pid)
  BY DEF AuditInv, HistoryTrue, TypeInv, TypeOK
<1>2. \A p \in Pids : Completed(p) => Completed(p)'
  BY DoneStep DEF Completed
<1>3. used \subseteq used'  BY UsedStep
<1>4. AuditedOnce  BY DEF AuditInv, HistoryTrue
<1>5. CASE log' = log
  BY <1>1, <1>2, <1>3, <1>4, <1>5 DEF AuditedOnce
<1>6. CASE AppendAudit
  <2> DEFINE new == [ev |-> mem.ev, pid |-> mem.pid, action |-> mem.action]
  <2>1. pc = "audit" /\ log' \subseteq log \cup {new}
    BY <1>6 DEF AppendAudit
  <2>2. /\ mem.pid \in Pids /\ mem.pid \in used /\ mem.ev # None
        /\ ItemTrue(mem)
    BY <2>1, Shapes DEF OnceInv, ItemsHonest, AuditInv, ItemsTrue, TypeInv, ControlOK
  <2>3. Completed(mem.pid)  BY <2>2 DEF ItemTrue
  <2>4. \A l \in log : l.pid = mem.pid => l = new
    <3>1. \A l \in log : l = [ev |-> l.ev, pid |-> l.pid, action |-> l.action]
      BY DEF TypeInv, TypeOK
    <3>2. \A l \in log : l.pid = mem.pid => mem.ev = l.ev /\ mem.action = l.action
      BY <2>2 DEF ItemTrue
    <3>3. QED  BY <3>1, <3>2
  <2>5. new.pid = mem.pid  OBVIOUS
  <2> HIDE DEF new
  <2>6. (\A l \in log : l.pid \in used /\ Completed(l.pid))'
    <3>1. ASSUME NEW l \in log' PROVE l.pid \in used' /\ Completed(l.pid)'
      BY <1>1, <1>2, <1>3, <2>1, <2>2, <2>3, <2>5
    <3>2. QED  BY <3>1
  <2>7. AuditedOnce'  BY <1>4, <2>1, <2>4, <2>5 DEF AuditedOnce
  <2>8. QED  BY <2>6, <2>7
<1>7. QED  BY <1>5, <1>6, Frames

LEMMA KeptStep ==
  ASSUME TypeInv, OnceInv, AuditInv, [Next]_vars
  PROVE  (\A p \in dropped : p \in used /\ Completed(p))' /\ SentMessageIsKept'
<1>1. \A p \in dropped : p \in Pids /\ p \in used /\ Completed(p)
  BY DEF AuditInv, HistoryTrue, TypeInv, TypeOK
<1>2. \A p \in Pids : Completed(p) => done'[p].act = done[p].act /\ Completed(p)'
  BY DoneStep DEF Completed
<1>3. used \subseteq used'  BY UsedStep
<1>4. \A p \in Pids : evidence[p] # None => evidence'[p] # None  BY EvidenceStep
<1>5. \A l \in log : l.pid \in Pids /\ Completed(l.pid)
  BY DEF AuditInv, HistoryTrue, TypeInv, TypeOK
(* A push id that is dropped or logged by this step. *)
<1>6. ASSUME dropped' # dropped \/ log' # log
      PROVE  /\ mem.pid \in Pids /\ mem.pid \in used /\ Completed(mem.pid)
             /\ done[mem.pid].act = "send" => evidence[mem.pid] # None
             /\ dropped' \subseteq dropped \cup {mem.pid}
             /\ \A l \in log' : l \in log \/ l.pid = mem.pid
  <2>1. RemoveOutboundDraft \/ AppendAudit  BY <1>6, Frames
  <2>2. pc # "idle" /\ mem.stage >= 2
    BY <2>1, Shapes DEF RemoveOutboundDraft, AppendAudit, AuditInv, ItemsTrue, ItemTrue, TypeInv,
       ControlOK
  <2>3. ItemTrue(mem) /\ mem.pid \in used /\ mem.pid \in Pids
    BY <2>2, Shapes DEF AuditInv, ItemsTrue, OnceInv, ItemsHonest
  <2>4. Completed(mem.pid) /\ (done[mem.pid].act = "send" => evidence[mem.pid] # None)
    BY <2>2, <2>3, Shapes DEF ItemTrue
  <2>5. dropped' \subseteq dropped \cup {mem.pid} /\ \A l \in log' : l \in log \/ l.pid = mem.pid
    BY <2>1 DEF RemoveOutboundDraft, AppendAudit, history, workspace
  <2>6. QED  BY <2>3, <2>4, <2>5
<1>7. dropped' \subseteq dropped \cup {mem.pid} /\ \A l \in log' : l \in log \/ l.pid = mem.pid
  BY <1>6
<1>8. (\A p \in dropped : p \in used /\ Completed(p))'
  <2>1. ASSUME NEW p \in dropped' PROVE p \in used' /\ Completed(p)'
    <3>1. p \in dropped \/ (dropped' # dropped /\ p = mem.pid)  BY <1>7
    <3>2. QED  BY <1>1, <1>2, <1>3, <1>6, <3>1
  <2>2. QED  BY <2>1
<1>9. SentMessageIsKept'
  <2>1. ASSUME NEW p \in Pids, done'[p].act = "send",
               p \in dropped' \/ \E l \in log' : l.pid = p
        PROVE  evidence'[p] # None
    <3>1. CASE p \in dropped \/ \E l \in log : l.pid = p
      <4>1. Completed(p)  BY <1>1, <1>5, <3>1
      <4>2. evidence[p] # None
        BY <1>2, <2>1, <3>1, <4>1 DEF AuditInv, HistoryTrue, SentMessageIsKept
      <4>3. QED  BY <1>4, <4>2
    <3>2. CASE ~(p \in dropped \/ \E l \in log : l.pid = p)
      <4>1. p = mem.pid /\ (dropped' # dropped \/ log' # log)  BY <1>7, <2>1, <3>2
      <4>2. Completed(p) /\ (done[p].act = "send" => evidence[p] # None)  BY <1>6, <4>1
      <4>3. QED  BY <1>2, <1>4, <2>1, <4>2
    <3>3. QED  BY <3>1, <3>2
  <2>2. QED  BY <2>1 DEF SentMessageIsKept
<1>10. QED  BY <1>8, <1>9

LEMMA HistoryStep ==
  ASSUME TypeInv, OnceInv, AuditInv, [Next]_vars
  PROVE  HistoryTrue'
<1>1. (\A p \in Pids : Completed(p) =>
          p \in used /\ \A i \in DOMAIN done[p].steps : Took(done[p].steps[i], p))'
  BY CompletedStep
<1>2. QED  BY <1>1, LogStep, KeptStep DEF HistoryTrue
-----------------------------------------------------------------------------
(* The queue item.                                                           *)

(* What is true of an item stays true of it while no push is completed or    *)
(* logged.                                                                   *)
LEMMA ItemGrows ==
  ASSUME TypeInv, AuditInv, [Next]_vars, NEW it \in Item, it.pid \in Pids, ItemTrue(it),
         UNCHANGED <<done, log>>, draft'.intent \in {draft.intent, "none"}
  PROVE  ItemTrue(it)'
<1>1. \A i \in DOMAIN it.st : it.st[i].label \in Labels
  <2>1. it.st \in Seq(StepState)  BY DEF Item
  <2>2. \A i \in DOMAIN it.st : it.st[i] \in StepState  BY <2>1
  <2>3. QED  BY <2>2 DEF StepState
<1>2. \A i \in DOMAIN it.st : it.st[i].status = "succeeded" =>
         copies'[it.st[i].label][it.pid] >= 1
           \/ (it.st[i].label = "send" /\ it.pid \in settled')
  BY <1>1, TookStep DEF ItemTrue, Took
<1>3. evidence[it.pid] # None => evidence'[it.pid] # None
  BY EvidenceStep
<1>4. QED  BY <1>2, <1>3 DEF ItemTrue, Took, Completed, KeepsSteps

(* The item on disk and the one in memory after a step, told apart by what   *)
(* was true of them before it.                                               *)
LEMMA ItemsFrom ==
  ASSUME TypeInv, AuditInv, [Next]_vars,
         UNCHANGED <<done, log>>, draft'.intent \in {draft.intent, "none"},
         NEW d \in Item, disk' = d, d.pid # None => ItemTrue(d),
         NEW m \in Item, mem' = m, pc' # "idle" => m.pid # None /\ ItemTrue(m)
  PROVE  ItemsTrue'
<1>1. d.pid # None => ItemTrue(d)'
  BY ItemGrows DEF Item
<1>2. pc' # "idle" => ItemTrue(m)'
  BY ItemGrows DEF Item
<1>3. HasItem' => d.pid # None  BY DEF HasItem
<1>4. HasItem' => ItemTrue(disk)'
  BY <1>1, <1>3 DEF ItemTrue, Took, Completed, KeepsSteps
<1>5. pc' # "idle" => ItemTrue(mem)'
  BY <1>2 DEF ItemTrue, Took, Completed, KeepsSteps
<1>6. QED  BY <1>4, <1>5 DEF ItemsTrue

(* Neither item changes, or the file gets the copy in memory or is deleted.  *)
LEMMA ItemsStill ==
  ASSUME TypeInv, AuditInv, [Next]_vars,
         UNCHANGED <<done, log>>, draft'.intent \in {draft.intent, "none"},
         disk' = disk \/ disk' = NoItem \/ (pc # "idle" /\ disk' = mem),
         mem' \in Item, pc' # "idle" => pc # "idle" /\ mem' = mem
  PROVE  ItemsTrue'
<1>1. disk' \in Item /\ (disk'.pid # None => ItemTrue(disk'))
  BY Shapes, EmptyLemma DEF AuditInv, ItemsTrue, HasItem
<1>2. pc' # "idle" => mem'.pid # None /\ ItemTrue(mem')
  BY Shapes DEF AuditInv, ItemsTrue, TypeInv, ControlOK
<1>3. QED  BY <1>1, <1>2, ItemsFrom

(* A write of an item that says what is true. *)
LEMMA ItemsWrite ==
  ASSUME TypeInv, AuditInv, [Next]_vars, pc # "idle",
         UNCHANGED <<done, log>>, draft'.intent \in {draft.intent, "none"},
         NEW it \in Item, it.pid = mem.pid, ItemTrue(it), NEW next, WriteItem(it, next)
  PROVE  ItemsTrue'
<1>1. mem' = it /\ disk' \in {it, disk}  BY WriteItemLemma
<1>2. it.pid # None  BY DEF TypeInv, ControlOK
<1>3. disk' \in Item /\ (disk'.pid # None => ItemTrue(disk'))
  BY <1>1, Shapes DEF AuditInv, ItemsTrue, HasItem
<1>4. QED  BY <1>1, <1>2, <1>3, ItemsFrom

(* Marking the current step says what is true unless it calls a step         *)
(* succeeded that did not take effect, or forgets one that succeeded.        *)
LEMMA MarkTrue ==
  ASSUME TypeInv, ItemTrue(mem), pc \in InSteps, run.idx \in DOMAIN run.steps,
         NEW s \in Status,
         s = "succeeded" => Took(StepLabel, mem.pid),
         s = "succeeded" \/ StepStatus # "succeeded"
  PROVE  ItemTrue(Mark(s)) /\ Mark(s) \in Item /\ Mark(s).pid = mem.pid
<1>1. /\ Mark(s) \in Item
      /\ DOMAIN Mark(s).st = DOMAIN mem.st
      /\ \A i \in DOMAIN mem.st :
            /\ Mark(s).st[i].label = mem.st[i].label
            /\ Mark(s).st[i].status = IF i = run.idx THEN s ELSE mem.st[i].status
      /\ Mark(s).pid = mem.pid /\ Mark(s).stage = mem.stage
      /\ Mark(s).ev = mem.ev /\ Mark(s).action = mem.action
  BY Shapes, MarkLemma
<1>2. DOMAIN mem.st = DOMAIN run.steps /\ mem.st[run.idx].label = StepLabel
  BY DEF TypeInv, ControlOK, StepLabel
<1>3. ASSUME NEW i \in DOMAIN mem.st, Mark(s).st[i].status = "succeeded"
      PROVE  Took(Mark(s).st[i].label, Mark(s).pid)
  BY <1>1, <1>2, <1>3 DEF ItemTrue
<1>4. Completed(mem.pid) => KeepsSteps(Mark(s))
  <2>1. KeepsSteps(mem) => KeepsSteps(Mark(s))
    BY <1>1, <1>2 DEF KeepsSteps, StepStatus
  <2>2. QED  BY <2>1 DEF ItemTrue
<1>5. QED  BY <1>1, <1>3, <1>4 DEF ItemTrue

(* An item that has not started belongs to a push that is not completed.     *)
LEMMA UnstartedTrue ==
  ASSUME TypeInv, HasItem, ItemTrue(disk), ~Started(disk)
  PROVE  ~Completed(disk.pid) /\ \A l \in log : l.pid # disk.pid
<1>1. ~Completed(disk.pid)
  <2>1. SUFFICES ASSUME Completed(disk.pid) PROVE FALSE
    OBVIOUS
  <2>2. done[disk.pid].steps \in Seq(Labels) /\ done[disk.pid].steps # <<>>
    BY <2>1, Shapes DEF ItemTrue, KeepsSteps, TypeInv, TypeOK
  <2>3. 1 \in DOMAIN done[disk.pid].steps  BY <2>2
  <2>4. 1 \in DOMAIN disk.st /\ disk.st[1].status = "succeeded"
    BY <2>1, <2>3 DEF ItemTrue, KeepsSteps
  <2>5. QED  BY <2>4 DEF Started
<1>2. ASSUME NEW l \in log, l.pid = disk.pid PROVE FALSE
  <2>1. disk.ev = l.ev /\ l.ev \in EventIds  BY <1>2 DEF ItemTrue, TypeInv, TypeOK
  <2>2. QED  BY <2>1, ConstantsAssumption DEF Started
<1>3. QED  BY <1>1, <1>2

(* ensure_step_states adds fresh steps. *)
LEMMA EnsureFresh ==
  ASSUME NEW it \in Item, NEW steps \in Seq(Labels)
  PROVE  \A i \in DOMAIN EnsureStepStates(it, steps).st :
            EnsureStepStates(it, steps).st[i].status = "succeeded" =>
               i \in DOMAIN it.st /\ it.st[i].status = "succeeded"
<1> DEFINE st == [i \in 1..Len(steps) |->
                    IF i <= Len(it.st) THEN it.st[i] ELSE [label |-> steps[i], status |-> "fresh"]]
<1>1. it.st \in Seq(StepState)  BY DEF Item
<1>2. EnsureStepStates(it, steps).st = st  BY DEF EnsureStepStates, Item
<1>3. ASSUME NEW i \in 1..Len(steps), st[i].status = "succeeded"
      PROVE  i \in DOMAIN it.st /\ it.st[i].status = "succeeded"
  <2>1. CASE i <= Len(it.st)  BY <1>1, <1>3, <2>1
  <2>2. CASE ~(i <= Len(it.st))  BY <1>3, <2>2
  <2>3. QED  BY <2>1, <2>2
<1>4. QED  BY <1>2, <1>3

(* A confirmed plan writes back an item that says what is true, and the      *)
(* command begins with one. *)
LEMMA PlanTrue ==
  ASSUME TypeInv, HasItem, ItemTrue(disk), Planned(disk, draft, config)
  PROVE  LET it == PlannedItem(disk, draft, config)
             r  == PlannedRun(disk, draft, config)
         IN  /\ it \in Item /\ it.pid = disk.pid /\ it.ev = disk.ev /\ ItemTrue(it)
             /\ StartPoint(it, r) = "step" =>
                   /\ EnsureStepStates(it, r.steps) \in Item
                   /\ EnsureStepStates(it, r.steps).pid = disk.pid
                   /\ EnsureStepStates(it, r.steps).stage = 0
                   /\ ItemTrue(EnsureStepStates(it, r.steps))
<1> DEFINE it == PlannedItem(disk, draft, config)
           r  == PlannedRun(disk, draft, config)
           e  == EnsureStepStates(it, r.steps)
<1>1. /\ it \in Item /\ it.pid = disk.pid /\ it.ev = disk.ev /\ r \in Run
      /\ it.ev = None /\ it.stage = 0 => KeepsProgress(it, r.steps)
  BY Shapes, PlanLemma DEF TypeInv, ControlOK
<1>2. ItemTrue(it)
  <2>1. CASE it = disk
    BY <2>1
  <2>2. CASE it # disk
    <3>1. it = [disk EXCEPT !.st = <<>>, !.stage = 0] /\ ~Started(disk)
      BY <2>2 DEF PlannedItem, Planned, FromDraft
    <3>2. it.st = <<>> /\ it.stage = 0 /\ disk.ev = None
      BY <3>1, Shapes DEF Item, Started
    <3>3. ~Completed(disk.pid) /\ \A l \in log : l.pid # disk.pid
      BY <3>1, UnstartedTrue
    <3> HIDE DEF it
    <3>4. QED  BY <1>1, <3>2, <3>3 DEF ItemTrue
  <2>3. QED  BY <2>1, <2>2
<1>3. ASSUME StartPoint(it, r) = "step"
      PROVE  e \in Item /\ e.pid = disk.pid /\ e.stage = 0 /\ ItemTrue(e)
  <2>1. it.ev = None /\ it.stage = 0  BY <1>3 DEF StartPoint
  <2>2. r.steps \in Seq(Labels) /\ KeepsProgress(it, r.steps)  BY <1>1, <2>1 DEF Run
  <2> HIDE DEF it, r
  <2>3. /\ e \in Item /\ e.pid = it.pid /\ e.ev = it.ev /\ e.action = it.action /\ e.stage = it.stage
        /\ \A i \in DOMAIN it.st : i \in DOMAIN e.st /\ e.st[i] = it.st[i]
        /\ \A i \in DOMAIN e.st : e.st[i].status = "succeeded" =>
              i \in DOMAIN it.st /\ it.st[i].status = "succeeded"
    BY <1>1, <2>2, EnsureLemma, EnsureFresh
  <2> HIDE DEF e
  <2>4. Completed(e.pid) => KeepsSteps(e)
    <3>1. KeepsSteps(it) => KeepsSteps(e)  BY <2>3 DEF KeepsSteps
    <3>2. QED  BY <1>2, <2>3, <3>1 DEF ItemTrue
  <2>5. QED  BY <1>1, <1>2, <2>1, <2>3, <2>4 DEF ItemTrue
<1>4. QED  BY <1>1, <1>2, <1>3

(* Queueing makes an item of a new push id, or renews one that has not       *)
(* started.                                                                  *)
LEMMA ItemsQueue ==
  ASSUME TypeInv, OnceInv, AuditInv, [Next]_vars, NEW a \in Actions, QueueDraft(a)
  PROVE  ItemsTrue'
<1>1. /\ pc' = "idle" /\ UNCHANGED <<log, done, evidence, copies, settled>>
      /\ ~Started(disk)
  BY DEF QueueDraft, command, remote, history
<1>2. PICK p \in Pids : /\ disk' = NewItem(p) \/ (HasItem /\ disk' = disk /\ p = disk.pid)
                        /\ ~Completed(p) /\ \A l \in log : l.pid # p
  <2>1. CASE HasItem
    BY <1>1, <2>1, Shapes, UnstartedTrue DEF QueueDraft, AuditInv, ItemsTrue
  <2>2. CASE ~HasItem
    <3>1. PICK p \in Pids \ used : disk' = NewItem(p)  BY <2>2 DEF QueueDraft
    <3>2. ~Completed(p) /\ \A l \in log : l.pid # p  BY DEF AuditInv, HistoryTrue
    <3>3. QED  BY <3>1, <3>2
  <2>3. QED  BY <2>1, <2>2
<1>3. CASE disk' = NewItem(p)
  <2>1. ItemTrue(disk)'
    BY <1>1, <1>2, <1>3, EmptyLemma DEF ItemTrue, Completed
  <2>2. QED  BY <1>1, <2>1 DEF ItemsTrue
<1>4. CASE HasItem /\ disk' = disk /\ p = disk.pid
  <2>1. ItemTrue(disk)'
    BY <1>1, <1>2, <1>4 DEF AuditInv, ItemsTrue, ItemTrue, Completed, Took
  <2>2. QED  BY <1>1, <2>1 DEF ItemsTrue
<1>5. QED  BY <1>2, <1>3, <1>4

(* `push recover` calls a step succeeded that is there or vouched for, and   *)
(* makes only an uncertain step attemptable again.                           *)
LEMMA ItemsRecover ==
  ASSUME TypeInv, AuditInv, [Next]_vars, pc' = "idle", HasItem,
         UNCHANGED <<log, done, evidence, copies, draft>>, settled \subseteq settled',
         NEW i \in DOMAIN disk.st, disk.st[i].status = "unknown",
         NEW s \in {"fresh", "succeeded"},
         disk' = [disk EXCEPT !.st[i].status = s],
         s = "succeeded" => LET k == disk.st[i].label
                            IN  copies[k][disk.pid] >= 1 \/ (k = "send" /\ disk.pid \in settled')
  PROVE  ItemsTrue'
<1>1. s \in Status  BY DEF Status
<1>2. /\ disk'.pid = disk.pid /\ disk'.ev = disk.ev /\ disk'.action = disk.action
      /\ disk'.stage = disk.stage /\ DOMAIN disk'.st = DOMAIN disk.st
      /\ \A j \in DOMAIN disk.st :
            /\ disk'.st[j].label = disk.st[j].label
            /\ disk'.st[j].status = IF j = i THEN s ELSE disk.st[j].status
  BY <1>1, Shapes, SettleLemma
<1>3. ItemTrue(disk)  BY DEF AuditInv, ItemsTrue
<1>4. \A j \in DOMAIN disk'.st : disk'.st[j].status = "succeeded" =>
         LET k == disk'.st[j].label
         IN  copies[k][disk.pid] >= 1 \/ (k = "send" /\ disk.pid \in settled')
  BY <1>2, <1>3 DEF ItemTrue, Took
<1>5. Completed(disk.pid) => \A j \in DOMAIN done[disk.pid].steps :
                                j \in DOMAIN disk'.st /\ disk'.st[j].status = "succeeded"
  BY <1>2, <1>3 DEF ItemTrue, KeepsSteps
<1>6. ItemTrue(disk)'
  BY <1>2, <1>3, <1>4, <1>5 DEF ItemTrue, Took, Completed, KeepsSteps
<1>7. QED  BY <1>6 DEF ItemsTrue

(* The remote part is complete: the file and the copy in memory record every *)
(* step of it as succeeded.                                                  *)
LEMMA ItemsCompleted ==
  ASSUME TypeInv, AuditInv, [Next]_vars, RecordRemoteSucceeded
  PROVE  ItemsTrue'
<1> DEFINE it == [mem EXCEPT !.stage = 1]
<1>1. /\ pc = "final" /\ mem.stage = 0 /\ WriteItem(it, "final")
      /\ done' = [done EXCEPT ![mem.pid] = [act |-> run.act, steps |-> run.steps]]
      /\ UNCHANGED <<draft, evidence, log, copies, settled>>
  BY DEF RecordRemoteSucceeded, remote
<1>2. /\ mem.pid \in Pids /\ ItemTrue(mem)
      /\ run.act \in Actions /\ run.act # "none"
  BY <1>1, Shapes DEF AuditInv, ItemsTrue, Actions
<1>3. /\ it.pid = mem.pid /\ it.st = mem.st /\ it.stage = 1 /\ it.ev = mem.ev
      /\ it.action = mem.action
  BY Shapes DEF Item
<1>4. done'[mem.pid].act = run.act /\ done'[mem.pid].steps = run.steps
  BY <1>1, <1>2 DEF TypeInv, TypeOK
<1>5. mem' = it /\ disk' \in {it, disk}  BY <1>1, WriteItemLemma
<1>6. /\ run.steps # <<>>
      /\ \A i \in DOMAIN run.steps : i \in DOMAIN mem.st /\ mem.st[i].status = "succeeded"
      /\ draft.intent \in {"none", run.act}
      /\ Completed(mem.pid) => run.act = done[mem.pid].act
  BY <1>1 DEF AuditInv, StepsInOrder, ActionKept
<1>7. mem.ev = None  BY <1>1, <1>2 DEF ItemTrue
<1> HIDE DEF it
<1>8. ItemTrue(mem)'
  BY <1>1, <1>2, <1>3, <1>4, <1>5, <1>6, <1>7 DEF ItemTrue, Took, Completed, KeepsSteps
<1>9. HasItem' => ItemTrue(disk)'
  <2>1. CASE disk' = it
    BY <1>1, <1>2, <1>3, <1>4, <1>6, <1>7, <2>1 DEF ItemTrue, Took, Completed, KeepsSteps
  <2>2. CASE disk' = disk /\ HasItem
    <3>1. disk.pid = mem.pid /\ ItemTrue(disk)
      BY <1>1, <2>2 DEF TypeInv, ControlOK, AuditInv, ItemsTrue
    <3>2. \A i \in DOMAIN run.steps : i \in DOMAIN disk.st /\ disk.st[i].status = "succeeded"
      BY <1>1, <1>6, <2>2 DEF AuditInv, StepsInOrder
    <3>3. disk.stage >= 2 /\ run.act = "send" => evidence[mem.pid] # None
      BY <1>6, <3>1, Shapes DEF ItemTrue
    <3>4. QED
      BY <1>1, <1>2, <1>4, <1>6, <2>2, <3>1, <3>2, <3>3
      DEF ItemTrue, Took, Completed, KeepsSteps
  <2>3. QED  BY <1>5, <2>1, <2>2 DEF HasItem
<1>10. QED  BY <1>8, <1>9 DEF ItemsTrue

LEMMA ItemsAudited ==
  ASSUME TypeInv, AuditInv, [Next]_vars, AppendAudit
  PROVE  ItemsTrue'
<1> DEFINE new == [ev |-> mem.ev, pid |-> mem.pid, action |-> mem.action]
<1>1. /\ pc = "audit" /\ log' \subseteq log \cup {new}
      /\ UNCHANGED <<disk, mem, draft, evidence, copies, settled, done>>
  BY DEF AppendAudit, remote, history
<1>2. disk = mem /\ ItemTrue(mem)  BY <1>1 DEF AuditInv, EndInOrder, ItemsTrue
<1>3. \A l \in log' : l.pid = mem.pid => mem.ev = l.ev /\ mem.action = l.action
  BY <1>1, <1>2 DEF ItemTrue
<1> HIDE DEF new
<1>4. ItemTrue(mem)' /\ ItemTrue(disk)'
  BY <1>1, <1>2, <1>3 DEF ItemTrue, Took, Completed, KeepsSteps
<1>5. QED  BY <1>4 DEF ItemsTrue

LEMMA ItemsStep ==
  ASSUME TypeInv, OnceInv, AuditInv, [Next]_vars
  PROVE  ItemsTrue'
<1> USE DEF workspace, command, remote, history
<1>1. CASE \/ EditDraft \/ DeleteDraftFile \/ EditConfig \/ RemoveDraft \/ Preview
           \/ ConfirmDropsItem \/ LateEffect \/ UNCHANGED vars
  BY <1>1, Shapes, EmptyLemma, Frames, ItemsStill DEF EditDraft, DeleteDraftFile, EditConfig,
       RemoveDraft, Preview, ConfirmDropsItem, LateEffect, vars, NoDraft, Draft
<1>2. CASE \E a \in Actions : QueueDraft(a)
  BY <1>2, ItemsQueue
<1>3. CASE Confirm
  <2> DEFINE it == PlannedItem(disk, draft, config)
             r  == PlannedRun(disk, draft, config)
             at == StartPoint(it, r)
  <2>1. /\ disk' = it /\ pc' = at
        /\ mem' = IF at = "step" THEN EnsureStepStates(it, r.steps) ELSE it
        /\ HasItem /\ Planned(disk, draft, config)
        /\ UNCHANGED <<done, log, draft>>
    BY <1>3 DEF Confirm
  <2>2. ItemTrue(disk)  BY <2>1 DEF AuditInv, ItemsTrue
  <2>3. /\ it \in Item /\ it.pid = disk.pid /\ ItemTrue(it)
        /\ at = "step" => /\ EnsureStepStates(it, r.steps) \in Item
                          /\ EnsureStepStates(it, r.steps).pid = disk.pid
                          /\ ItemTrue(EnsureStepStates(it, r.steps))
    BY <2>1, <2>2, PlanTrue
  <2>4. disk.pid # None  BY <2>1 DEF HasItem
  <2> HIDE DEF it, r, at
  <2>5. mem' \in Item /\ mem'.pid # None /\ ItemTrue(mem')
    <3>1. CASE at = "step"  BY <2>1, <2>3, <2>4, <3>1
    <3>2. CASE at # "step"  BY <2>1, <2>3, <2>4, <3>2
    <3>3. QED  BY <3>1, <3>2
  <2>6. QED  BY <2>1, <2>3, <2>5, ItemsFrom
<1>4. CASE \E sent \in BOOLEAN : SettleSend(sent)
  <2>1. PICK sent \in BOOLEAN, i \in DOMAIN disk.st :
          /\ RecoverableAt(i, "send")
          /\ IF sent
             THEN /\ disk' = [disk EXCEPT !.st[i].status = "succeeded"]
                  /\ settled' = settled \cup {disk.pid}
             ELSE Release(i, "send")
    BY <1>4 DEF SettleSend
  <2>2. pc' = "idle" /\ HasItem /\ UNCHANGED <<log, done, evidence, copies, draft>>
        /\ disk.st[i].status = "unknown" /\ disk.st[i].label = "send"
    BY <1>4, <2>1 DEF SettleSend, RecoverableAt
  <2>3. CASE sent
    BY <2>1, <2>2, <2>3, ItemsRecover
  <2>4. CASE ~sent
    <3>1. disk' = [disk EXCEPT !.st[i].status = "fresh"] /\ settled' = settled
      BY <2>1, <2>4 DEF Release
    <3>2. QED  BY <2>2, <3>1, ItemsRecover
  <2>5. QED  BY <2>3, <2>4
<1>5. CASE RecoverDraftsAppend
  <2>1. /\ pc' = "idle" /\ HasItem /\ UNCHANGED <<log, done, evidence, copies, draft, settled>>
        /\ 1 \in DOMAIN disk.st
        /\ disk.st[1].status = "unknown" /\ disk.st[1].label = "drafts"
        /\ \/ copies["drafts"][disk.pid] = 1 /\ disk' = [disk EXCEPT !.st[1].status = "succeeded"]
           \/ disk' = [disk EXCEPT !.st[1].status = "fresh"]
    BY <1>5 DEF RecoverDraftsAppend, RecoverableAt, Release
  <2>2. QED  BY <2>1, ItemsRecover
<1>6. CASE \/ SkipSucceeded \/ MeetUnknown \/ LookupFails \/ AttemptFlags \/ CallAccepted
           \/ CallRejected \/ CallAnswerLost
  <2>1. /\ pc # "idle" /\ UNCHANGED <<done, log, disk, mem, draft>>
    BY <1>6 DEF SkipSucceeded, MeetUnknown, LookupFails, AttemptFlags, CallAccepted,
         CallRejected, CallAnswerLost, AtStep
  <2>2. QED  BY <2>1, Shapes, ItemsStill
<1>7. CASE LookupFinds \/ BeginStep \/ PreflightFails \/ PersistUnknown \/ StepSucceeds
           \/ StepErrs
  <2>1. /\ pc \in InSteps /\ pc # "idle" /\ UNCHANGED <<done, log, draft>>
        /\ run.idx \in DOMAIN run.steps
    BY <1>7, Shapes DEF LookupFinds, BeginStep, PreflightFails, PersistUnknown, StepSucceeds,
         StepErrs, AtStep, InSteps, AtAStep, TypeInv, ControlOK
  <2>2. ItemTrue(mem)  BY <2>1 DEF AuditInv, ItemsTrue
  <2>3. CASE LookupFinds \/ StepSucceeds
    <3>1. /\ \E next : WriteItem(Mark("succeeded"), next)
          /\ copies[StepLabel][mem.pid] >= 1
      BY <2>3 DEF LookupFinds, StepSucceeds, AuditInv, StepsInOrder
    <3>2. "succeeded" \in Status /\ Took(StepLabel, mem.pid)  BY <3>1 DEF Status, Took
    <3>3. ItemTrue(Mark("succeeded")) /\ Mark("succeeded") \in Item
          /\ Mark("succeeded").pid = mem.pid
      BY <2>1, <2>2, <3>2, MarkTrue
    <3>4. QED  BY <2>1, <3>1, <3>3, ItemsWrite
  <2>4. CASE BeginStep \/ PreflightFails \/ PersistUnknown \/ StepErrs
    <3>1. PICK s \in Status \ {"succeeded"} : \E next : WriteItem(Mark(s), next)
      BY <2>4 DEF BeginStep, PreflightFails, PersistUnknown, StepErrs, Status
    <3>2. StepStatus # "succeeded"
      BY <2>4 DEF BeginStep, PreflightFails, PersistUnknown, StepErrs, AuditInv, StepsInOrder,
         AtAStep, InSteps
    <3>3. ItemTrue(Mark(s)) /\ Mark(s) \in Item /\ Mark(s).pid = mem.pid
      BY <2>1, <2>2, <3>2, MarkTrue
    <3>4. QED  BY <2>1, <3>1, <3>3, ItemsWrite
  <2>5. QED  BY <1>7, <2>3, <2>4
<1>8. CASE RecordRemoteSucceeded
  BY <1>8, ItemsCompleted
<1>9. CASE AdvanceLocalStage \/ ClearPending
  <2>1. PICK n \in {2, 3, 4} :
          /\ WriteItem([mem EXCEPT !.stage = n], "final")
          /\ n = 2 => pc = "advance" /\ mem.stage = 1
          /\ n \in {3, 4} => mem.stage >= 2
          /\ mem.stage # 5 /\ mem.stage >= 1
    <3>1. CASE AdvanceLocalStage
      <4>1. mem.stage \in {1, 2} /\ WriteItem([mem EXCEPT !.stage = mem.stage + 1], "final")
        BY <3>1 DEF AdvanceLocalStage, TypeInv, ControlOK
      <4>2. CASE mem.stage = 1
        BY <3>1, <4>1, <4>2 DEF AdvanceLocalStage
      <4>3. CASE mem.stage = 2
        BY <3>1, <4>1, <4>3 DEF AdvanceLocalStage
      <4>4. QED  BY <4>1, <4>2, <4>3
    <3>2. CASE ClearPending
      BY <3>2 DEF ClearPending
    <3>3. QED  BY <1>9, <3>1, <3>2
  <2>2. /\ pc # "idle" /\ UNCHANGED <<done, log, draft>>
    BY <1>9 DEF AdvanceLocalStage, ClearPending
  <2> DEFINE it == [mem EXCEPT !.stage = n]
  <2>3. /\ it \in Item /\ it.pid = mem.pid /\ it.st = mem.st /\ it.stage = n
        /\ it.ev = mem.ev /\ it.action = mem.action
    <3>1. n \in Stages  BY DEF Stages
    <3>2. mem \in Item  BY Shapes
    <3>3. QED  BY <3>1, <3>2 DEF Item
  <2>4. ItemTrue(mem)  BY <2>2 DEF AuditInv, ItemsTrue
  <2>5. done[mem.pid].act = "send" => evidence[mem.pid] # None
    <3>1. CASE n = 2
      <4>1. run.act = done[mem.pid].act
        BY <2>1, <2>4, <3>1 DEF ItemTrue, AuditInv, ActionKept
      <4>2. QED  BY <2>1, <3>1, <4>1 DEF AuditInv, EndInOrder
    <3>2. CASE n \in {3, 4}
      BY <2>1, <2>4, <3>2 DEF ItemTrue
    <3>3. QED  BY <3>1, <3>2
  <2>6. WriteItem(it, "final")  BY <2>1
  <2> HIDE DEF it
  <2>7. ItemTrue(it)
    <3>1. Completed(mem.pid) => KeepsSteps(it)  BY <2>3, <2>4 DEF ItemTrue, KeepsSteps
    <3>2. n # 5 /\ mem.ev = None /\ Completed(mem.pid)
      BY <2>1, <2>4 DEF ItemTrue
    <3>3. QED  BY <2>3, <2>4, <2>5, <3>1, <3>2 DEF ItemTrue
  <2>8. QED  BY <2>2, <2>3, <2>6, <2>7, ItemsWrite
<1>10. CASE PreparePushAudit
  <2>1. /\ pc # "idle" /\ mem.stage = 4 /\ UNCHANGED <<done, log, draft>>
        /\ run.act \in Actions
    BY <1>10, Shapes DEF PreparePushAudit
  <2>2. PICK e \in EventIds : WriteItem(AuditPending(mem, e, run.act), "audit")
    BY <1>10 DEF PreparePushAudit
  <2> DEFINE it == AuditPending(mem, e, run.act)
  <2>3. it \in Item /\ it.pid = mem.pid /\ it.st = mem.st /\ it.stage = 5 /\ it.ev = e
    BY <2>1, Shapes, AuditItemLemma
  <2>4. WriteItem(it, "audit")  BY <2>2
  <2> HIDE DEF it
  <2>5. ItemTrue(mem) /\ e # None
    BY <2>1, ConstantsAssumption DEF AuditInv, ItemsTrue
  <2>6. \A l \in log : l.pid # mem.pid
    <3>1. mem.ev = None  BY <2>1, <2>5 DEF ItemTrue
    <3>2. \A l \in log : l.ev \in EventIds  BY DEF TypeInv, TypeOK
    <3>3. QED  BY <2>5, <3>1, <3>2, ConstantsAssumption DEF ItemTrue
  <2>7. ItemTrue(it)
    <3>1. Completed(mem.pid) => KeepsSteps(it)  BY <2>3, <2>5 DEF ItemTrue, KeepsSteps
    <3>2. QED  BY <2>1, <2>3, <2>5, <2>6, <3>1 DEF ItemTrue
  <2>8. QED  BY <2>1, <2>3, <2>4, <2>7, ItemsWrite
<1>11. CASE AppendAudit
  BY <1>11, ItemsAudited
<1>12. CASE StepsDone \/ RecordOutbound \/ RemoveOutboundDraft \/ AuditDraftRemoval
            \/ DeleteItem \/ CasesFail \/ LocalError
  <2>1. /\ pc # "idle" /\ disk' \in {disk, NoItem} /\ UNCHANGED <<done, log, mem>>
        /\ draft' \in {draft, NoDraft}
    BY <1>12 DEF StepsDone, RecordOutbound, RemoveOutboundDraft, AuditDraftRemoval, DeleteItem,
         CasesFail, LocalError
  <2>2. draft'.intent \in {draft.intent, "none"}  BY <2>1 DEF NoDraft
  <2>3. QED  BY <2>1, <2>2, Shapes, ItemsStill
<1>13. CASE FinishItem \/ EndInError \/ Crash
  <2>1. /\ pc # "idle" /\ disk' \in {disk, mem} /\ UNCHANGED <<done, log, draft>>
        /\ pc' = "idle" /\ mem' = NoItem
    BY <1>13 DEF FinishItem, EndInError, Crash, EndRun
  <2>2. QED  BY <2>1, EmptyLemma, ItemsStill
<1>14. QED
  BY <1>1, <1>2, <1>3, <1>4, <1>5, <1>6, <1>7, <1>8, <1>9, <1>10, <1>11, <1>12, <1>13
  DEF Next, UserStep, CommandStep, StepExecution, Finalisation
-----------------------------------------------------------------------------
(* The order of the steps.                                                   *)

(* Outside the steps, and after RemoteSucceeded, nothing is said.            *)
LEMMA OrderLeft ==
  ASSUME pc' \notin InSteps, pc' = "final" => mem'.stage # 0
  PROVE  StepsInOrder'
BY DEF StepsInOrder, AtAStep, InSteps

(* The same step goes on. *)
LEMMA OrderStill ==
  ASSUME StepsInOrder, UNCHANGED <<disk, mem, run>>, pc \in InSteps, pc' \in AtAStep,
         StepStatus # "succeeded",
         pc' = "ok" => copies'[StepLabel][mem.pid] >= 1
  PROVE  StepsInOrder'
BY DEF StepsInOrder, AtAStep, InSteps, StepStatus, StepLabel, HasItem

(* The current step is marked: before it, and beyond it with a success.      *)
LEMMA OrderMark ==
  ASSUME TypeInv, StepsInOrder, pc \in InSteps, run.idx \in DOMAIN run.steps,
         NEW s \in Status, NEW next, WriteItem(Mark(s), next),
         \/ s # "succeeded" /\ next \in {"attempt", "call", "failed"} /\ run' = run
         \/ s = "succeeded" /\ next = "step" /\ NextStep
  PROVE  StepsInOrder'
<1>1. CASE pc' = "failed"
  BY <1>1, OrderLeft DEF InSteps
<1>2. CASE pc' # "failed"
  <2>1. mem' = Mark(s) /\ disk' = Mark(s) /\ pc' = next  BY <1>2, WriteItemLemma
  <2>2. /\ DOMAIN Mark(s).st = DOMAIN mem.st /\ Mark(s).stage = mem.stage
        /\ \A i \in DOMAIN mem.st :
              Mark(s).st[i].status = IF i = run.idx THEN s ELSE mem.st[i].status
    BY Shapes, MarkLemma
  <2>3. /\ mem.stage = 0 /\ run.steps # <<>>
        /\ \A i \in DOMAIN mem.st : i < run.idx => mem.st[i].status = "succeeded"
    BY DEF StepsInOrder
  <2>4. run'.steps = run.steps /\ run'.idx \in {run.idx, run.idx + 1}
        /\ (s = "succeeded" \/ run'.idx = run.idx)
    BY Shapes DEF NextStep, Run
  <2>5. DOMAIN mem.st = DOMAIN run.steps /\ run.steps \in Seq(Labels) /\ run.idx \in Nat
    BY Shapes DEF TypeInv, ControlOK
  <2>6. \A i \in DOMAIN mem.st : i < run'.idx => Mark(s).st[i].status = "succeeded"
    <3>1. ASSUME NEW i \in DOMAIN mem.st, i < run'.idx, i # run.idx
          PROVE  i < run.idx
      BY <2>4, <2>5, <3>1
    <3>2. CASE run'.idx = run.idx  BY <2>2, <2>3, <2>5, <3>2
    <3>3. CASE s = "succeeded"  BY <2>2, <2>3, <3>1, <3>3
    <3>4. QED  BY <2>4, <3>2, <3>3
  <2>7. pc' \in AtAStep => Mark(s).st[run'.idx].status # "succeeded"
    <3>1. SUFFICES ASSUME pc' \in AtAStep PROVE Mark(s).st[run'.idx].status # "succeeded"
      OBVIOUS
    <3>2. s # "succeeded" /\ run' = run  BY <2>1, <3>1 DEF AtAStep
    <3>3. QED  BY <2>2, <2>5, <3>2
  <2>8. pc' # "ok" /\ pc' # "final"  BY <2>1
  <2> HIDE DEF Mark
  <2>9. QED
    BY <2>1, <2>2, <2>3, <2>4, <2>6, <2>7, <2>8 DEF StepsInOrder, StepStatus
<1>3. QED  BY <1>1, <1>2

(* A confirmed plan begins with the first step of a list that has one.       *)
LEMMA OrderBegin ==
  ASSUME TypeInv, Confirm, ItemTrue(disk)
  PROVE  StepsInOrder'
<1> DEFINE it == PlannedItem(disk, draft, config)
           r  == PlannedRun(disk, draft, config)
           at == StartPoint(it, r)
           e  == EnsureStepStates(it, r.steps)
<1>1. /\ disk' = it /\ run' = r /\ pc' = at
      /\ mem' = IF at = "step" THEN e ELSE it
      /\ HasItem /\ Planned(disk, draft, config)
  BY DEF Confirm
<1>2. /\ it \in Item /\ it.ev = disk.ev /\ r \in Run
      /\ it.ev = None /\ it.stage = 0 => KeepsProgress(it, r.steps)
  BY <1>1, Shapes, PlanLemma DEF TypeInv, ControlOK
<1>3. at = "step" => e.stage = 0
  BY <1>1, PlanTrue
<1>4. at = "step" => r.steps # <<>> /\ r.idx = 1
  <2>1. SUFFICES ASSUME at = "step" PROVE r.steps # <<>> /\ r.idx = 1
    OBVIOUS
  <2>2. it.ev = None /\ it.stage = 0 /\ ~(r.act = "save" /\ r.steps = <<>>)
    BY <2>1 DEF StartPoint
  <2>3. FromDraft(disk, draft)
    BY <1>1, <1>2, <2>2 DEF FromDraft, Planned, PlannedItem
  <2>4. r = [act |-> draft.intent, rev |-> draft.rev,
             steps |-> ConfiguredSteps(config, draft.intent), idx |-> 1]
    BY <2>3 DEF PlannedRun
  <2>5. config.send # <<>>
    <3>1. PICK i \in DOMAIN config.send : config.send[i] = "send"
      BY Shapes, ConfigsAssumption
    <3>2. QED  BY <3>1
  <2>6. r.act # "save" => r.steps = config.send  BY <2>4 DEF ConfiguredSteps
  <2>7. QED  BY <2>2, <2>4, <2>5, <2>6
<1>5. at = "step" =>
        /\ \A i \in DOMAIN e.st : e.st[i].status = "succeeded" =>
              i \in DOMAIN it.st /\ it.st[i].status = "succeeded"
        /\ DOMAIN e.st = DOMAIN r.steps /\ r.steps \in Seq(Labels)
  <2>1. SUFFICES ASSUME at = "step"
                 PROVE /\ \A i \in DOMAIN e.st : e.st[i].status = "succeeded" =>
                             i \in DOMAIN it.st /\ it.st[i].status = "succeeded"
                       /\ DOMAIN e.st = DOMAIN r.steps /\ r.steps \in Seq(Labels)
    OBVIOUS
  <2>2. r.steps \in Seq(Labels) /\ KeepsProgress(it, r.steps)
    BY <1>2, <2>1 DEF StartPoint, Run
  <2> HIDE DEF it, r, at
  <2>3. QED  BY <1>2, <2>2, EnsureFresh, EnsureLemma
<1>6. at = "final" => it.stage # 0
  BY DEF StartPoint
<1>7. at \in InSteps => at = "step"
  BY DEF StartPoint, InSteps
<1>8. CASE at = "step"
  <2>1. \A i \in DOMAIN e.st : ~(i < r.idx)
    BY <1>4, <1>5, <1>8
  <2>2. mem' = e /\ disk' = it /\ run' = r /\ pc' = "step"  BY <1>1, <1>8
  <2> HIDE DEF it, r, at, e
  <2>3. QED
    BY <1>3, <1>4, <1>5, <1>8, <2>1, <2>2 DEF StepsInOrder, AtAStep, InSteps
<1>9. CASE at # "step"
  <2>1. mem' = it /\ pc' = at  BY <1>1, <1>9
  <2> HIDE DEF it, r, at, e
  <2>2. QED  BY <1>6, <1>7, <1>9, <2>1, OrderLeft
<1>10. QED  BY <1>8, <1>9

LEMMA OrderStep ==
  ASSUME TypeInv, AuditInv, [Next]_vars
  PROVE  StepsInOrder'
<1> USE DEF workspace, command, remote, history
<1>0. StepsInOrder /\ ItemsTrue  BY DEF AuditInv
<1>1. CASE Confirm
  BY <1>0, <1>1, OrderBegin DEF Confirm, ItemsTrue
<1>2. CASE \/ \E a \in Actions : QueueDraft(a)
           \/ RemoveDraft \/ Preview \/ ConfirmDropsItem \/ RecoverDraftsAppend
           \/ \E sent \in BOOLEAN : SettleSend(sent)
  <2>1. pc' = "idle"
    BY <1>2 DEF QueueDraft, RemoveDraft, Preview, ConfirmDropsItem, RecoverDraftsAppend,
         SettleSend, RecoverableAt
  <2>2. QED  BY <2>1, OrderLeft DEF InSteps
<1>3. CASE EditDraft \/ DeleteDraftFile \/ EditConfig \/ LateEffect \/ UNCHANGED vars
  <2>1. UNCHANGED <<disk, pc, mem, run>>
    BY <1>3 DEF EditDraft, DeleteDraftFile, EditConfig, LateEffect, vars
  <2>2. pc = "ok" => copies'[StepLabel][mem.pid] >= 1
    <3>1. CASE copies' = copies  BY <1>0, <3>1 DEF StepsInOrder
    <3>2. CASE LateEffect
      <4>1. PICK k \in Irreversible, p \in Pids :
               copies' = [copies EXCEPT ![k][p] = copies[k][p] + 1] \/ copies' = copies
        BY <3>2 DEF LateEffect
      <4>2. copies \in [Labels -> [Pids -> Nat]] /\ k \in Labels /\ copies[k][p] + 1 \in Nat
        BY DEF TypeInv, TypeOK, Irreversible
      <4>3. \A l \in Labels, q \in Pids : copies'[l][q] >= copies[l][q]
        <5>1. CASE copies' = copies  BY <4>2, <5>1
        <5>2. CASE copies' = [copies EXCEPT ![k][p] = copies[k][p] + 1]
          BY <4>2, <5>2, CountLemma
        <5>3. QED  BY <4>1, <5>1, <5>2
      <4>4. pc = "ok" => StepLabel \in Labels /\ mem.pid \in Pids
        BY Shapes DEF TypeInv, ControlOK, AtAStep, InSteps, StepLabel
      <4>5. pc = "ok" => /\ copies[StepLabel][mem.pid] >= 1
                         /\ copies[StepLabel][mem.pid] \in Nat
                         /\ copies'[StepLabel][mem.pid] >= copies[StepLabel][mem.pid]
        BY <1>0, <4>2, <4>3, <4>4 DEF StepsInOrder
      <4>6. copies' \in [Labels -> [Pids -> Nat]]
        <5>1. CASE copies' = copies  BY <4>2, <5>1
        <5>2. CASE copies' = [copies EXCEPT ![k][p] = copies[k][p] + 1]
          BY <4>2, <5>2, CountLemma
        <5>3. QED  BY <4>1, <5>1, <5>2
      <4>7. QED  BY <4>4, <4>5, <4>6
    <3>3. QED  BY <1>3, <3>1, <3>2 DEF EditDraft, DeleteDraftFile, EditConfig, vars
  <2>3. QED  BY <1>0, <2>1, <2>2 DEF StepsInOrder, StepStatus, StepLabel, HasItem
<1>4. CASE SkipSucceeded
  <2>1. /\ pc = "step" /\ UNCHANGED <<pc, mem, disk>> /\ NextStep
        /\ StepStatus = "succeeded"
    BY <1>4 DEF SkipSucceeded, AtStep
  <2>2. run'.steps = run.steps /\ run'.idx = run.idx + 1 /\ run.idx \in Nat
    BY <2>1, Shapes DEF NextStep, Run
  <2>3. DOMAIN mem.st = DOMAIN run.steps /\ run.steps \in Seq(Labels)
    BY <2>1, Shapes DEF TypeInv, ControlOK, InSteps
  <2>4. \A i \in DOMAIN mem.st : i < run.idx + 1 => i < run.idx \/ i = run.idx
    BY <2>2, <2>3
  <2>5. QED
    BY <1>0, <2>1, <2>2, <2>4 DEF StepsInOrder, StepStatus, InSteps, AtAStep, HasItem
<1>5. CASE MeetUnknown \/ AttemptFlags \/ CallAccepted \/ CallRejected \/ CallAnswerLost
  <2>1. UNCHANGED <<disk, mem, run>> /\ pc \in InSteps /\ pc' \in AtAStep
    BY <1>5 DEF MeetUnknown, AttemptFlags, CallAccepted, CallRejected, CallAnswerLost, AtStep,
         InSteps, AtAStep
  <2>2. StepStatus # "succeeded"
    BY <1>0, <1>5 DEF MeetUnknown, AttemptFlags, CallAccepted, CallRejected, CallAnswerLost,
         StepsInOrder, AtAStep, InSteps
  <2>3. pc' = "ok" => copies'[StepLabel][mem.pid] >= 1
    <3>1. SUFFICES ASSUME pc' = "ok" PROVE copies'[StepLabel][mem.pid] >= 1
      OBVIOUS
    <3>2. pc \in AtAStep /\ (AttemptFlags \/ CallAccepted)
      BY <1>5, <3>1 DEF MeetUnknown, AttemptFlags, CallAccepted, CallRejected, CallAnswerLost,
           AtAStep, InSteps
    <3>3. copies \in [Labels -> [Pids -> Nat]] /\ StepLabel \in Labels /\ mem.pid \in Pids
      <4>1. run.idx \in DOMAIN run.steps  BY <3>2 DEF TypeInv, ControlOK
      <4>2. StepLabel \in Labels /\ mem.pid \in Pids
        BY <3>2, <4>1, Shapes DEF AtAStep, InSteps, StepLabel
      <4>3. QED  BY <4>2 DEF TypeInv, TypeOK
    <3>4. CASE AttemptFlags
      BY <3>1, <3>3, <3>4 DEF AttemptFlags
    <3>5. CASE CallAccepted
      BY <3>3, <3>5 DEF CallAccepted
    <3>6. QED  BY <3>2, <3>4, <3>5
  <2>4. QED  BY <1>0, <2>1, <2>2, <2>3, OrderStill
<1>6. CASE LookupFinds \/ StepSucceeds
  <2>1. /\ pc \in AtAStep /\ WriteItem(Mark("succeeded"), "step") /\ NextStep
        /\ "succeeded" \in Status
    BY <1>6 DEF LookupFinds, StepSucceeds, AtAStep, InSteps, Status
  <2>2. pc \in InSteps /\ run.idx \in DOMAIN run.steps
    BY <2>1 DEF TypeInv, ControlOK, AtAStep
  <2>3. QED  BY <1>0, <2>1, <2>2, OrderMark
<1>7. CASE BeginStep \/ PreflightFails \/ PersistUnknown \/ StepErrs
  <2>1. PICK s \in Status \ {"succeeded"}, next \in {"attempt", "call", "failed"} :
           WriteItem(Mark(s), next)
    BY <1>7 DEF BeginStep, PreflightFails, PersistUnknown, StepErrs, Status
  <2>2. run' = run /\ pc \in InSteps
    BY <1>7 DEF BeginStep, PreflightFails, PersistUnknown, StepErrs, AtStep, InSteps
  <2>3. run.idx \in DOMAIN run.steps
    BY <1>7, Shapes DEF BeginStep, PreflightFails, PersistUnknown, StepErrs, AtStep, AtAStep,
         InSteps, TypeInv, ControlOK
  <2>4. QED  BY <1>0, <2>1, <2>2, <2>3, OrderMark
<1>8. CASE StepsDone
  <2>1. /\ pc = "step" /\ run.idx > Len(run.steps) /\ pc' = "final"
        /\ UNCHANGED <<mem, run, disk>>
    BY <1>8 DEF StepsDone
  <2>2. /\ DOMAIN mem.st = DOMAIN run.steps /\ run.steps \in Seq(Labels) /\ run.idx \in Nat
        /\ \A i \in DOMAIN mem.st : mem.st[i].label = run.steps[i]
    BY <2>1, Shapes DEF TypeInv, ControlOK, InSteps
  <2>3. \A i \in DOMAIN run.steps : i < run.idx  BY <2>1, <2>2
  <2>4. QED
    BY <1>0, <2>1, <2>2, <2>3 DEF StepsInOrder, InSteps, AtAStep, HasItem
<1>9. CASE RecordRemoteSucceeded \/ AdvanceLocalStage \/ ClearPending
  <2>1. PICK n \in 1..4 : WriteItem([mem EXCEPT !.stage = n], "final")
    <3>1. CASE AdvanceLocalStage
      <4>1. mem.stage \in {1, 2} /\ WriteItem([mem EXCEPT !.stage = mem.stage + 1], "final")
        BY <3>1 DEF AdvanceLocalStage, TypeInv, ControlOK
      <4>2. mem.stage + 1 \in 1..4  BY <4>1
      <4>3. QED  BY <4>1, <4>2
    <3>2. CASE RecordRemoteSucceeded \/ ClearPending
      BY <3>2 DEF RecordRemoteSucceeded, ClearPending
    <3>3. QED  BY <1>9, <3>1, <3>2
  <2>2. mem' = [mem EXCEPT !.stage = n] /\ pc' \in {"final", "failed"}
    BY <2>1, WriteItemLemma
  <2>3. mem'.stage # 0  BY <2>2, Shapes DEF Item
  <2>4. QED  BY <2>2, <2>3, OrderLeft DEF InSteps
<1>10. CASE \/ LookupFails \/ RecordOutbound \/ RemoveOutboundDraft \/ AuditDraftRemoval
            \/ PreparePushAudit \/ AppendAudit \/ DeleteItem \/ FinishItem \/ CasesFail
            \/ EndInError \/ LocalError \/ Crash
  <2>1. pc' \in {"idle", "failed", "auditfail", "advance", "removed", "audit", "delete", "cases"}
    BY <1>10 DEF LookupFails, RecordOutbound, RemoveOutboundDraft, AuditDraftRemoval,
         PreparePushAudit, WriteItem, AppendAudit, DeleteItem, FinishItem, CasesFail, EndInError,
         LocalError, Crash, EndRun
  <2>2. QED  BY <2>1, OrderLeft DEF InSteps
<1>11. QED
  BY <1>1, <1>2, <1>3, <1>4, <1>5, <1>6, <1>7, <1>8, <1>9, <1>10
  DEF Next, UserStep, CommandStep, StepExecution, Finalisation
-----------------------------------------------------------------------------
(* The action of the command.                                                *)

(* The command goes on with its action, or ends. *)
LEMMA ActionStill ==
  ASSUME TypeInv, AuditInv,
         UNCHANGED done, draft'.intent \in {draft.intent, "none"},
         pc' # "idle" => /\ pc # "idle" /\ run'.act = run.act /\ run'.rev = run.rev
                         /\ mem'.pid = mem.pid
                         /\ mem'.stage \in Nat /\ mem'.stage >= mem.stage
  PROVE  ActionKept'
<1>1. CASE pc' = "idle"
  BY <1>1 DEF ActionKept
<1>2. CASE pc' # "idle"
  <2>1. mem.stage \in Nat  BY Shapes
  <2>2. /\ mem'.stage <= 2 => mem.stage <= 2
        /\ mem'.stage = 0 => mem.stage = 0
    BY <1>2, <2>1
  <2>3. ActionKept  BY DEF AuditInv
  <2>4. QED  BY <1>2, <2>2, <2>3 DEF ActionKept, Completed
<1>3. QED  BY <1>1, <1>2

(* A plan that is confirmed takes its action from the draft, which still has *)
(* the one that was queued.                                                  *)
LEMMA ActionBegin ==
  ASSUME TypeInv, AuditInv, Confirm
  PROVE  ActionKept'
<1> DEFINE it == PlannedItem(disk, draft, config)
           r  == PlannedRun(disk, draft, config)
           at == StartPoint(it, r)
           e  == EnsureStepStates(it, r.steps)
<1>1. /\ run' = r /\ pc' = at /\ UNCHANGED <<draft, done>>
      /\ mem' = IF at = "step" THEN e ELSE it
      /\ HasItem /\ Planned(disk, draft, config)
  BY DEF Confirm, history
<1>2. ItemTrue(disk)  BY <1>1 DEF AuditInv, ItemsTrue
<1>3. /\ it \in Item /\ it.pid = disk.pid /\ it.ev = disk.ev /\ ItemTrue(it)
      /\ at = "step" => e.pid = disk.pid /\ e.stage = 0 /\ it.stage = 0
  BY <1>1, <1>2, PlanTrue DEF StartPoint
<1>4. it.stage <= 2 => /\ r.act = draft.intent /\ r.rev = draft.rev
                       /\ draft.rev # None /\ draft.intent # "none"
  <2>1. SUFFICES ASSUME it.stage <= 2
                 PROVE  /\ r.act = draft.intent /\ r.rev = draft.rev
                        /\ draft.rev # None /\ draft.intent # "none"
    OBVIOUS
  <2>2. it.stage # 5  BY <2>1, <1>3 DEF Item, Stages
  <2>3. disk.ev = None  BY <1>3, <2>2 DEF ItemTrue
  <2>4. draft.rev # None
    <3>1. CASE draft.rev = None
      <4>1. it = disk  BY <3>1 DEF PlannedItem, FromDraft
      <4>2. disk.stage \in Nat /\ ~(disk.stage >= 3)  BY <2>1, <4>1, Shapes
      <4>3. QED  BY <1>1, <2>3, <3>1, <4>2 DEF Planned
    <3>2. QED  BY <3>1
  <2>5. draft.intent # "none"  BY <1>1, <2>3, <2>4 DEF Planned
  <2>6. FromDraft(disk, draft)  BY <2>3, <2>4 DEF FromDraft
  <2>7. QED  BY <2>4, <2>5, <2>6 DEF PlannedRun
<1>5. Completed(disk.pid) => draft.intent \in {"none", done[disk.pid].act}
  BY <1>2 DEF ItemTrue
<1>6. mem'.pid = disk.pid /\ mem'.stage = it.stage
  BY <1>1, <1>3
<1>7. it.stage \in Nat  BY <1>3 DEF Item, Stages
<1> HIDE DEF it, r, at, e
<1>8. mem'.stage = 0 => mem'.stage <= 2  BY <1>6, <1>7
<1>9. QED  BY <1>1, <1>4, <1>5, <1>6, <1>8 DEF ActionKept, Completed

LEMMA ActionStep ==
  ASSUME TypeInv, AuditInv, [Next]_vars
  PROVE  ActionKept'
<1> USE DEF workspace, command, remote, history
<1>1. CASE Confirm
  BY <1>1, ActionBegin
<1>2. CASE \/ \E a \in Actions : QueueDraft(a)
           \/ RemoveDraft \/ Preview \/ ConfirmDropsItem \/ RecoverDraftsAppend
           \/ \E sent \in BOOLEAN : SettleSend(sent)
  <2>1. pc' = "idle"
    BY <1>2 DEF QueueDraft, RemoveDraft, Preview, ConfirmDropsItem, RecoverDraftsAppend,
         SettleSend, RecoverableAt
  <2>2. QED  BY <2>1 DEF ActionKept
<1>3. CASE FinishItem \/ EndInError \/ Crash
  BY <1>3 DEF FinishItem, EndInError, Crash, EndRun, ActionKept
<1>4. CASE RecordRemoteSucceeded
  <2>1. /\ pc = "final" /\ mem.stage = 0 /\ WriteItem([mem EXCEPT !.stage = 1], "final")
        /\ done' = [done EXCEPT ![mem.pid] = [act |-> run.act, steps |-> run.steps]]
        /\ UNCHANGED <<run, draft>>
    BY <1>4 DEF RecordRemoteSucceeded
  <2>2. mem'.pid = mem.pid /\ mem'.stage = 1 /\ mem.pid \in Pids
    BY <2>1, Shapes DEF WriteItem, Item
  <2>3. done'[mem.pid].act = run.act  BY <2>1, <2>2 DEF TypeInv, TypeOK
  <2>4. run.rev # None  BY <2>1 DEF AuditInv, ActionKept
  <2>5. QED  BY <2>1, <2>2, <2>3, <2>4 DEF ActionKept
<1>5. CASE EditDraft \/ DeleteDraftFile \/ EditConfig \/ LateEffect \/ UNCHANGED vars
  <2>1. UNCHANGED <<done, pc, mem, run>> /\ draft'.intent \in {draft.intent, "none"}
    BY <1>5, Shapes DEF EditDraft, DeleteDraftFile, EditConfig, LateEffect, vars, NoDraft, Draft
  <2>2. QED  BY <2>1, Shapes, ActionStill
<1>6. CASE SkipSucceeded \/ MeetUnknown \/ LookupFails \/ AttemptFlags \/ CallAccepted
           \/ CallRejected \/ CallAnswerLost
  <2>1. pc # "idle" /\ UNCHANGED <<done, draft, mem>> /\ (run' = run \/ NextStep)
    BY <1>6 DEF SkipSucceeded, MeetUnknown, LookupFails, AttemptFlags, CallAccepted,
         CallRejected, CallAnswerLost, AtStep
  <2>2. run'.act = run.act /\ run'.rev = run.rev  BY <2>1, Shapes DEF NextStep, Run
  <2>3. QED  BY <2>1, <2>2, Shapes, ActionStill
<1>7. CASE LookupFinds \/ BeginStep \/ PreflightFails \/ PersistUnknown \/ StepSucceeds
           \/ StepErrs
  <2>1. /\ pc # "idle" /\ UNCHANGED <<done, draft>> /\ (run' = run \/ NextStep)
        /\ \E s \in Status, next \in PCs : WriteItem(Mark(s), next)
    BY <1>7 DEF LookupFinds, BeginStep, PreflightFails, PersistUnknown, StepSucceeds, StepErrs,
         AtStep, Status, PCs
  <2>2. mem'.pid = mem.pid /\ mem'.stage = mem.stage
    BY <2>1, Shapes, MarkLemma DEF WriteItem
  <2>3. run'.act = run.act /\ run'.rev = run.rev  BY <2>1, Shapes DEF NextStep, Run
  <2>4. QED  BY <2>1, <2>2, <2>3, Shapes, ActionStill
<1>8. CASE AdvanceLocalStage \/ ClearPending
  <2>1. PICK n \in 1..4 : WriteItem([mem EXCEPT !.stage = n], "final") /\ n >= mem.stage
    <3>1. CASE AdvanceLocalStage
      <4>1. mem.stage \in {1, 2} /\ WriteItem([mem EXCEPT !.stage = mem.stage + 1], "final")
        BY <3>1 DEF AdvanceLocalStage, TypeInv, ControlOK
      <4>2. mem.stage + 1 \in 1..4 /\ mem.stage + 1 >= mem.stage  BY <4>1
      <4>3. QED  BY <4>1, <4>2
    <3>2. CASE ClearPending
      BY <3>2 DEF ClearPending
    <3>3. QED  BY <1>8, <3>1, <3>2
  <2>2. pc # "idle" /\ UNCHANGED <<done, draft, run>>
    BY <1>8 DEF AdvanceLocalStage, ClearPending
  <2>3. mem' = [mem EXCEPT !.stage = n]  BY <2>1, WriteItemLemma
  <2>4. mem'.pid = mem.pid /\ mem'.stage = n  BY <2>3, Shapes DEF Item
  <2>5. n \in Nat /\ n >= mem.stage  BY <2>1
  <2>6. QED  BY <2>2, <2>4, <2>5, ActionStill
<1>9. CASE PreparePushAudit
  <2>1. PICK e \in EventIds : WriteItem(AuditPending(mem, e, run.act), "audit")
    BY <1>9 DEF PreparePushAudit
  <2>2. pc # "idle" /\ mem.stage = 4 /\ UNCHANGED <<done, draft, run>>
    BY <1>9 DEF PreparePushAudit
  <2>3. mem' = AuditPending(mem, e, run.act)  BY <2>1, WriteItemLemma
  <2>4. mem'.pid = mem.pid /\ mem'.stage = 5  BY <2>3, Shapes, AuditItemLemma
  <2>5. QED  BY <2>2, <2>4, ActionStill
<1>10. CASE \/ StepsDone \/ RecordOutbound \/ RemoveOutboundDraft \/ AuditDraftRemoval
            \/ AppendAudit \/ DeleteItem \/ CasesFail \/ LocalError
  <2>1. /\ pc # "idle" /\ UNCHANGED <<done, mem, run>> /\ draft' \in {draft, NoDraft}
    BY <1>10 DEF StepsDone, RecordOutbound, RemoveOutboundDraft, AuditDraftRemoval, AppendAudit,
         DeleteItem, CasesFail, LocalError
  <2>2. draft'.intent \in {draft.intent, "none"}  BY <2>1 DEF NoDraft
  <2>3. QED  BY <2>1, <2>2, Shapes, ActionStill
<1>11. QED
  BY <1>1, <1>2, <1>3, <1>4, <1>5, <1>6, <1>7, <1>8, <1>9, <1>10
  DEF Next, UserStep, CommandStep, StepExecution, Finalisation
-----------------------------------------------------------------------------
(* The end of the finalisation.                                              *)

(* The steps that change none of it. *)
LEMMA EndStill ==
  ASSUME TypeInv, AuditInv,
         \/ pc' \notin {"advance", "audit", "delete"}
         \/ UNCHANGED <<pc, mem, run, disk, log, evidence>>
  PROVE  EndInOrder'
BY DEF AuditInv, EndInOrder

LEMMA EndStep ==
  ASSUME TypeInv, AuditInv, [Next]_vars
  PROVE  EndInOrder'
<1> USE DEF workspace, command, remote, history
<1>1. CASE Confirm
  <2> DEFINE it == PlannedItem(disk, draft, config)
             at == StartPoint(it, PlannedRun(disk, draft, config))
  <2>1. /\ disk' = it /\ pc' = at
        /\ at # "step" => mem' = it
    BY <1>1 DEF Confirm
  <2>2. at \notin {"advance", "delete"}  BY DEF StartPoint
  <2> HIDE DEF it, at
  <2>3. /\ pc' # "advance" /\ pc' # "delete"
        /\ pc' = "audit" => disk' = mem'
    BY <2>1, <2>2
  <2>4. QED  BY <2>3 DEF EndInOrder
<1>2. CASE RecordOutbound
  <2>1. /\ pc = "final" /\ mem.stage = 1 /\ UNCHANGED <<mem, run, disk>>
        /\ pc' \in {"advance", "failed"}
        /\ pc' = "advance" /\ run.act = "send" =>
              evidence' = [evidence EXCEPT ![mem.pid] = run.rev]
    BY <1>2 DEF RecordOutbound
  <2>2. mem.pid \in Pids /\ run.rev # None  BY <2>1, Shapes DEF AuditInv, ActionKept
  <2>3. pc' = "advance" /\ run.act = "send" => evidence'[mem.pid] # None
    BY <2>1, <2>2 DEF TypeInv, TypeOK
  <2>4. QED  BY <2>1, <2>3 DEF EndInOrder
<1>3. CASE AuditDraftRemoval
  BY <1>3 DEF AuditDraftRemoval, EndInOrder, TypeInv, ControlOK
<1>4. CASE PreparePushAudit
  BY <1>4 DEF PreparePushAudit, WriteItem, EndInOrder
<1>5. CASE AppendAudit
  <2>1. /\ pc = "audit" /\ UNCHANGED <<mem, run, disk>> /\ pc' \in {"delete", "auditfail"}
        /\ pc' = "delete" =>
              log' = log \cup {[ev |-> mem.ev, pid |-> mem.pid, action |-> mem.action]}
    BY <1>5 DEF AppendAudit
  <2>2. disk = mem  BY <2>1 DEF AuditInv, EndInOrder
  <2>3. pc' = "delete" => \E l \in log' : l.pid = mem.pid
    <3> DEFINE new == [ev |-> mem.ev, pid |-> mem.pid, action |-> mem.action]
    <3>1. new.pid = mem.pid  OBVIOUS
    <3>2. pc' = "delete" => new \in log'  BY <2>1
    <3> HIDE DEF new
    <3>3. QED  BY <3>1, <3>2
  <2>4. QED  BY <2>1, <2>2, <2>3 DEF EndInOrder
<1>6. CASE \/ \E a \in Actions : QueueDraft(a)
           \/ RemoveDraft \/ Preview \/ ConfirmDropsItem \/ RecoverDraftsAppend
           \/ \E sent \in BOOLEAN : SettleSend(sent)
  <2>1. pc' = "idle"
    BY <1>6 DEF QueueDraft, RemoveDraft, Preview, ConfirmDropsItem, RecoverDraftsAppend,
         SettleSend, RecoverableAt
  <2>2. QED  BY <2>1, EndStill
<1>7. CASE EditDraft \/ DeleteDraftFile \/ EditConfig \/ LateEffect \/ UNCHANGED vars
  BY <1>7, EndStill DEF EditDraft, DeleteDraftFile, EditConfig, LateEffect, vars
<1>8. CASE StepExecution
  BY <1>8, EndStill DEF StepExecution, SkipSucceeded, MeetUnknown, LookupFinds, LookupFails,
       BeginStep, PreflightFails, PersistUnknown, AttemptFlags, CallAccepted, CallRejected,
       CallAnswerLost, StepSucceeds, StepErrs, AtStep, WriteItem
<1>9. CASE \/ StepsDone \/ RecordRemoteSucceeded \/ RemoveOutboundDraft \/ AdvanceLocalStage
           \/ ClearPending \/ DeleteItem \/ FinishItem \/ CasesFail \/ EndInError \/ LocalError
           \/ Crash
  BY <1>9, EndStill DEF StepsDone, RecordRemoteSucceeded, RemoveOutboundDraft,
       AdvanceLocalStage, ClearPending, DeleteItem, FinishItem, CasesFail, EndInError,
       LocalError, Crash, EndRun, WriteItem
<1>10. QED
  BY <1>1, <1>2, <1>3, <1>4, <1>5, <1>6, <1>7, <1>8, <1>9
  DEF Next, UserStep, CommandStep, Finalisation
-----------------------------------------------------------------------------
(* The theorems.                                                             *)

LEMMA AuditStep == TypeInv /\ OnceInv /\ AuditInv /\ [Next]_vars => TypeInv' /\ OnceInv' /\ AuditInv'
BY TypeInvStep, OnceStep, ItemsStep, OrderStep, ActionStep, EndStep, HistoryStep DEF AuditInv

(* The audit log can be believed: a push it calls succeeded did every step   *)
(* of its plan (or a person vouched for the send), and it says so once,      *)
(* although every write and append of the last stages may fail and be        *)
(* repeated by the next push.                                                *)
THEOREM AuditCanBeBelieved == Spec => []AuditIsTruthful
<1>1. Init => TypeInv /\ OnceInv /\ AuditInv  BY TypeInvInit, OnceInit, AuditInit
<1>2. TypeInv /\ AuditInv => AuditIsTruthful
  <2>1. SUFFICES ASSUME TypeInv, AuditInv PROVE AuditedMeansApplied /\ AuditedOnce
    BY DEF AuditIsTruthful
  <2>2. \A l \in log : l.pid \in used /\ Completed(l.pid)  BY <2>1 DEF AuditInv, HistoryTrue
  <2>3. \A l \in log : /\ Completed(l.pid)
                       /\ \A i \in DOMAIN done[l.pid].steps : Took(done[l.pid].steps[i], l.pid)
    <3>1. \A l \in log : l.pid \in Pids  BY <2>1 DEF TypeInv, TypeOK
    <3>2. QED  BY <2>1, <2>2, <3>1 DEF AuditInv, HistoryTrue
  <2>4. AuditedMeansApplied  BY <2>3 DEF AuditedMeansApplied, Completed, Took
  <2>5. QED  BY <2>1, <2>4 DEF AuditInv, HistoryTrue
<1>3. QED  BY <1>1, <1>2, AuditStep, PTL DEF Spec

(* When finalisation removes the draft of a send, or logs the send, the      *)
(* message is kept as local evidence, whatever failed on the way.            *)
THEOREM SentMailIsKept == Spec => []SentMessageIsKept
<1>1. Init => TypeInv /\ OnceInv /\ AuditInv  BY TypeInvInit, OnceInit, AuditInit
<1>2. AuditInv => SentMessageIsKept  BY DEF AuditInv, HistoryTrue
<1>3. QED  BY <1>1, <1>2, AuditStep, PTL DEF Spec

(* A queue item with recorded progress leaves the queue only when its        *)
(* push_succeeded event is in the log: nothing but delete_item, after the    *)
(* append, takes such an item away or gives its file another push id.        *)
THEOREM ProgressStaysQueued == Spec => ProgressIsNeverForgotten
<1>1. Init => TypeInv /\ OnceInv /\ AuditInv  BY TypeInvInit, OnceInit, AuditInit
<1>2. ASSUME TypeInv, AuditInv, Next, disk.pid # None, disk'.pid # disk.pid, Started(disk)
      PROVE  \E l \in log : l.pid = disk.pid
  <2> USE DEF workspace, command, remote, history
  <2>1. CASE DeleteItem
    <3>1. pc = "delete"  BY <2>1 DEF DeleteItem
    <3>2. disk = mem /\ \E l \in log : l.pid = mem.pid
      BY <1>2, <3>1 DEF AuditInv, EndInOrder
    <3>3. QED  BY <3>2
  <2>2. CASE Confirm
    <3>1. disk' = PlannedItem(disk, draft, config)  BY <2>2 DEF Confirm
    <3>2. disk'.pid = disk.pid
      BY <1>2, <2>2, <3>1, Shapes, PlanLemma DEF Confirm, TypeInv, ControlOK
    <3>3. QED  BY <1>2, <3>2
  <2>3. CASE RemoveDraft \/ ConfirmDropsItem \/ \E a \in Actions : QueueDraft(a)
    BY <1>2, <2>3 DEF RemoveDraft, ConfirmDropsItem, NoLongerPlanned, QueueDraft
  <2>4. CASE RecoverDraftsAppend \/ \E sent \in BOOLEAN : SettleSend(sent)
    <3>1. PICK i \in DOMAIN disk.st, s \in Status : disk' = [disk EXCEPT !.st[i].status = s]
      BY <2>4 DEF RecoverDraftsAppend, RecoverableAt, SettleSend, Release, Status
    <3>2. disk'.pid = disk.pid  BY <3>1, Shapes, SettleLemma
    <3>3. QED  BY <1>2, <3>2
  <2>5. CASE EditDraft \/ DeleteDraftFile \/ EditConfig \/ Preview \/ Crash \/ LateEffect
    BY <1>2, <2>5 DEF EditDraft, DeleteDraftFile, EditConfig, Preview, Crash, LateEffect
  <2>6. CASE CommandStep /\ ~DeleteItem
    <3>1. CASE LookupFinds \/ BeginStep \/ PreflightFails \/ PersistUnknown \/ StepSucceeds
               \/ StepErrs
      <4>1. pc # "idle" /\ \E s \in Status : disk' \in {disk, Mark(s)}
        BY <3>1 DEF LookupFinds, BeginStep, PreflightFails, PersistUnknown, StepSucceeds,
             StepErrs, WriteItem, AtStep, Status
      <4>2. disk'.pid \in {disk.pid, mem.pid}  BY <1>2, <4>1, Shapes, MarkLemma
      <4>3. QED  BY <1>2, <4>1, <4>2 DEF TypeInv, ControlOK, HasItem
    <3>2. CASE RecordRemoteSucceeded \/ AdvanceLocalStage \/ ClearPending
      <4>1. pc # "idle" /\ \E n : disk' \in {disk, [mem EXCEPT !.stage = n]}
        BY <3>2 DEF RecordRemoteSucceeded, AdvanceLocalStage, ClearPending, WriteItem
      <4>2. \A n : [mem EXCEPT !.stage = n].pid = mem.pid  BY <1>2, Shapes DEF Item
      <4>3. QED  BY <1>2, <4>1, <4>2 DEF TypeInv, ControlOK, HasItem
    <3>3. CASE PreparePushAudit
      <4>1. pc # "idle" /\ \E e \in EventIds : disk' \in {disk, AuditPending(mem, e, run.act)}
        BY <3>3 DEF PreparePushAudit, WriteItem
      <4>2. \A e \in EventIds : AuditPending(mem, e, run.act).pid = mem.pid
        BY <1>2, Shapes, AuditItemLemma
      <4>3. QED  BY <1>2, <4>1, <4>2 DEF TypeInv, ControlOK, HasItem
    <3>4. CASE EndInError
      BY <1>2, <3>4 DEF EndInError, TypeInv, ControlOK, HasItem
    <3>5. CASE \/ SkipSucceeded \/ MeetUnknown \/ LookupFails \/ AttemptFlags \/ CallAccepted
               \/ CallRejected \/ CallAnswerLost \/ StepsDone \/ RecordOutbound
               \/ RemoveOutboundDraft \/ AuditDraftRemoval \/ AppendAudit \/ FinishItem
               \/ CasesFail \/ LocalError
      BY <1>2, <3>5 DEF SkipSucceeded, MeetUnknown, LookupFails, AttemptFlags, CallAccepted,
           CallRejected, CallAnswerLost, StepsDone, RecordOutbound, RemoveOutboundDraft,
           AuditDraftRemoval, AppendAudit, FinishItem, CasesFail, LocalError
    <3>6. QED
      BY <2>6, <3>1, <3>2, <3>3, <3>4, <3>5 DEF CommandStep, StepExecution, Finalisation
  <2>7. QED  BY <1>2, <2>1, <2>2, <2>3, <2>4, <2>5, <2>6 DEF Next, UserStep, CommandStep
<1> DEFINE Kept == disk.pid # None /\ disk'.pid # disk.pid /\ Started(disk)
                      => \E e \in log : e.pid = disk.pid
<1>3. TypeInv /\ AuditInv /\ [Next]_vars => [Kept]_vars
  BY <1>2
<1>4. Spec => [][Kept]_vars
  <2> HIDE DEF Kept
  <2>1. QED  BY <1>1, <1>3, AuditStep, PTL DEF Spec
<1>5. QED  BY <1>4 DEF ProgressIsNeverForgotten
=============================================================================
