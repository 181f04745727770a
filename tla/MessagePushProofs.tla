------------------------- MODULE MessagePushProofs -------------------------
(* Theorems about MessagePush, for any number of messages, copies, commands, *)
(* faults and changes by other clients: a move leaves the copies a message   *)
(* had, and items start in the order they were queued.                       *)
EXTENDS MessagePush, FiniteSetTheorems, TLAPS

PushType ==
    /\ loc \in [Messages -> SUBSET Locations] /\ at \in [Messages -> SUBSET Locations]
    /\ \A m \in Messages : IsFiniteSet(at[m])
    /\ item \in [Messages -> Items \cup {None}]
    /\ \A m \in Queued : Len(item[m].st) = Len(Steps[item[m].action])
    /\ last \in [Mailboxes -> Nat]
    /\ run \in Runs \cup {None}
    /\ foreign \in Nat

(* No copy and no location has a UID the server has not given out.           *)
UidsKnown ==
    \A m \in Messages : \A l \in at[m] \cup loc[m] : l[2] <= last[l[1]]

(* Steps are done one after the other, and the audit comes after them.       *)
Ordered(i) ==
    /\ \A j, k \in DOMAIN i.st : j < k /\ i.st[j] # "succeeded" => i.st[k] = "new"
    /\ i.audit => \A k \in DOMAIN i.st : i.st[k] = "succeeded"

(* A source is no target, and one that is still on the server is known.      *)
Tracked(i, copies, known) ==
    /\ \A l \in i.plan : l[1] # Target[i.action]
    /\ i.plan \cap copies \subseteq known

(* What was moved is gone from where it was. *)
Applied(i, copies) ==
    \A k \in DOMAIN i.st :
        i.st[k] = "succeeded" /\ Steps[i.action][k] = "move" => i.plan \cap copies = {}

ItemTrue(m) ==
    /\ Ordered(item[m]) /\ Tracked(item[m], at[m], loc[m]) /\ Applied(item[m], at[m])
    /\ \A l \in item[m].plan : l[2] <= last[l[1]]

ItemsTrue == \A m \in Queued : ItemTrue(m)

(* A push has distinct items of the queue before it.                         *)
TodoQueued ==
    run # None =>
        /\ run.todo # <<>>
        /\ \A i \in DOMAIN run.todo : item[run.todo[i]] # None
        /\ \A i, j \in DOMAIN run.todo : run.todo[i] = run.todo[j] => i = j

(* k is the first step of i that has not succeeded. *)
OpenAt(i, k) ==
    /\ k \in DOMAIN i.st /\ i.st[k] # "succeeded"
    /\ \A j \in 1 .. k - 1 : i.st[j] = "succeeded"

Moving == {"move", "expunge", "relocate"}

(* What a push knows inside a step: the sources it has left behind are gone  *)
(* from the server, and while a request is under way its outcome counts as   *)
(* unknown.                                                                  *)
RunKnows(r, i, copies, given) ==
    /\ ~i.audit /\ i.code = "none" /\ r.left \subseteq i.plan
    /\ \E k \in DOMAIN i.st :
          /\ OpenAt(i, k)
          /\ r.phase \in Moving /\ i.plan # {} => i.st[k] = "unknown"
          /\ Steps[i.action][k] = "move" <=> r.phase # "flags"
    /\ r.phase # "flags" => (i.plan \ r.left) \cap copies = {}
    /\ r.phase \in {"expunge", "relocate"} => r.from \in r.left
    /\ r.phase \notin {"expunge", "relocate"} => r.to = None
    /\ r.to # None => r.to[1] = Target[i.action] /\ r.to[2] <= given[r.to[1]]
    /\ r.phase = "relocate" => r.from \notin copies /\ r.to # None

RunTrue == run # None /\ run.phase # "item" => RunKnows(run, Item, at[M], last)

Working(m, phases) == run # None /\ M = m /\ run.phase \in phases

Base(m) == Cardinality(Copies[m]) + foreign

(* An unanswered move may have left one copy too many, until its outcome is  *)
(* known; a COPY has left one until the source is expunged.                  *)
Settled(m) ==
    \/ ~UnknownMove(m) \/ item[m].code = "target_uid_missing"
    \/ Working(m, {"flags", "mark", "move", "relocate"})

Counted(m) ==
    /\ Cardinality(at[m]) <= Base(m) + 1
    /\ Settled(m) => Cardinality(at[m]) <= Base(m)
    /\ Working(m, {"expunge"}) => Cardinality(at[m] \ {run.from}) <= Base(m)

CopiesCounted == \A m \in Messages : Counted(m)

MoveInv ==
    /\ PushType /\ UidsKnown /\ ItemsTrue /\ TodoQueued /\ RunTrue /\ CopiesCounted

(* The queue is in the order of its numbers, and no two items have the same. *)
QueueOrdered ==
    /\ earlier \in [Messages -> SUBSET Messages]
    /\ \A m \in Messages : earlier[m] \subseteq Queued /\ (item[m] = None => earlier[m] = {})
    /\ \A m, n \in Queued : n \in earlier[m] <=> item[n].seq < item[m].seq
    /\ \A m, n \in Queued : item[n].seq = item[m].seq => m = n

(* A push has the whole queue before it, in that order. *)
PushOrdered ==
    run # None =>
        /\ {run.todo[i] : i \in DOMAIN run.todo} = Queued
        /\ \A i, j \in DOMAIN run.todo : i < j => item[run.todo[i]].seq < item[run.todo[j]].seq

OrderInv == MoveInv /\ QueueOrdered /\ PushOrdered
-----------------------------------------------------------------------------
(* Finite sets.                                                              *)

LEMMA Fewer ==
  ASSUME NEW A, NEW B, IsFiniteSet(A), B \subseteq A
  PROVE  /\ IsFiniteSet(B) /\ Cardinality(A) \in Nat /\ Cardinality(B) \in Nat
         /\ Cardinality(B) <= Cardinality(A)
<1>1. B \in SUBSET A  OBVIOUS
<1>2. IsFiniteSet(B) /\ Cardinality(B) <= Cardinality(A)  BY <1>1, FS_Subset
<1>3. QED  BY <1>2, FS_CardinalityType

LEMMA OneMore ==
  ASSUME NEW A, NEW e, IsFiniteSet(A)
  PROVE  /\ IsFiniteSet(A \cup {e}) /\ Cardinality(A \cup {e}) \in Nat
         /\ Cardinality(A) \in Nat /\ Cardinality(A \cup {e}) <= Cardinality(A) + 1
<1>1. Cardinality(A) \in Nat  BY FS_CardinalityType
<1>2. IsFiniteSet(A \cup {e}) /\ Cardinality(A \cup {e}) <= Cardinality(A) + 1
  BY <1>1, FS_AddElement
<1>3. QED  BY <1>1, <1>2, FS_CardinalityType

LEMMA OneLess ==
  ASSUME NEW A, NEW e \in A, IsFiniteSet(A)
  PROVE  /\ Cardinality(A) \in Nat /\ Cardinality(A \ {e}) \in Nat
         /\ Cardinality(A \ {e}) + 1 = Cardinality(A)
<1>1. Cardinality(A) \in Nat  BY FS_CardinalityType
<1>2. IsFiniteSet(A \ {e}) /\ Cardinality(A \ {e}) = Cardinality(A) - 1
  BY FS_RemoveElement
<1>3. Cardinality(A \ {e}) \in Nat  BY <1>2, FS_CardinalityType
<1>4. QED  BY <1>1, <1>2, <1>3

-----------------------------------------------------------------------------
(* Items and steps.                                                          *)

LEMMA StepsShape ==
  /\ Steps["spam"] = <<"flags", "move">> /\ Steps["unspam"] = <<"move">>
  /\ \A a \in Actions : Len(Steps[a]) \in 1 .. 2 /\ DOMAIN Steps[a] = 1 .. Len(Steps[a])
  /\ Target["spam"] = "junk" /\ Target["unspam"] = "inbox"
  /\ \A a \in Actions : Target[a] \in Mailboxes
BY DEF Steps, Actions, Target, Mailboxes

(* An item of the queue has one or two steps. *)
LEMMA ItemShape ==
  ASSUME PushType, NEW m \in Messages, item[m] # None
  PROVE  /\ item[m] \in Items
         /\ item[m].st \in Seq(StepStatus) /\ Len(item[m].st) \in 1 .. 2
         /\ DOMAIN item[m].st = 1 .. Len(item[m].st)
         /\ DOMAIN item[m].st = DOMAIN Steps[item[m].action]
         /\ item[m].action \in Actions /\ item[m].plan \subseteq Locations
         /\ item[m].seq \in Nat /\ item[m].audit \in BOOLEAN
<1>1. item[m] \in Items  BY DEF PushType
<1>2. /\ item[m].st \in Seq(StepStatus) /\ item[m].action \in Actions
      /\ item[m].plan \subseteq Locations /\ item[m].seq \in Nat /\ item[m].audit \in BOOLEAN
  BY <1>1 DEF Items
<1>3. Len(item[m].st) = Len(Steps[item[m].action])
  BY DEF PushType, Queued
<1>4. QED  BY <1>1, <1>2, <1>3, StepsShape

(* The message at the head of a push. *)
LEMMA HeadShape ==
  ASSUME PushType, TodoQueued, run # None
  PROVE  /\ run \in Runs /\ run.todo \in Seq(Messages) /\ run.todo # <<>>
         /\ M \in Messages /\ item[M] # None /\ M = run.todo[1]
         /\ run.left \subseteq Locations
         /\ run.from \in Locations \cup {None} /\ run.to \in Locations \cup {None}
<1>1. run \in Runs  BY DEF PushType
<1>2. /\ run.todo \in Seq(Messages) /\ run.left \subseteq Locations
      /\ run.from \in Locations \cup {None} /\ run.to \in Locations \cup {None}
  BY <1>1 DEF Runs
<1>3. run.todo # <<>>  BY DEF TodoQueued
<1>4. M \in Messages /\ M = run.todo[1] /\ 1 \in DOMAIN run.todo
  BY <1>2, <1>3 DEF M
<1>5. QED  BY <1>1, <1>2, <1>3, <1>4 DEF TodoQueued

(* Step is the first step that has not succeeded. *)
LEMMA StepIsOpen ==
  ASSUME PushType, TodoQueued, run # None
  PROVE  /\ Step \in 1 .. Len(Item.st) + 1
         /\ AllSucceeded => \A k \in DOMAIN Item.st : Item.st[k] = "succeeded"
         /\ ~AllSucceeded => OpenAt(Item, Step)
         /\ \A k : OpenAt(Item, k) => Step = k /\ ~AllSucceeded
<1> DEFINE st == Item.st
           P(k) == /\ k <= Len(st) => st[k] # "succeeded"
                   /\ \A j \in 1 .. k - 1 : st[j] = "succeeded"
<1>1. st \in Seq(StepStatus) /\ Len(st) \in 1 .. 2 /\ DOMAIN st = 1 .. Len(st)
  BY HeadShape, ItemShape DEF Item
<1>2. \E k \in 1 .. Len(st) + 1 : P(k)
  <2>1. CASE st[1] # "succeeded"
    <3>1. P(1)  BY <2>1, <1>1
    <3>2. QED  BY <3>1, <1>1
  <2>2. CASE st[1] = "succeeded" /\ Len(st) = 1
    <3>1. P(2)  BY <2>2, <1>1
    <3>2. QED  BY <3>1, <2>2, <1>1
  <2>3. CASE st[1] = "succeeded" /\ Len(st) = 2 /\ st[2] # "succeeded"
    <3>1. P(2)  BY <2>3, <1>1
    <3>2. QED  BY <3>1, <2>3, <1>1
  <2>4. CASE st[1] = "succeeded" /\ Len(st) = 2 /\ st[2] = "succeeded"
    <3>1. P(3)  BY <2>4, <1>1
    <3>2. QED  BY <3>1, <2>4, <1>1
  <2>5. QED  BY <2>1, <2>2, <2>3, <2>4, <1>1
<1>3. Step \in 1 .. Len(st) + 1 /\ P(Step)
  BY <1>2 DEF Step, Item
<1>4. AllSucceeded => \A k \in DOMAIN st : st[k] = "succeeded"
  BY <1>1, <1>3 DEF AllSucceeded, Item
<1>5. ~AllSucceeded => OpenAt(Item, Step)
  BY <1>1, <1>3 DEF AllSucceeded, Item, OpenAt
<1>6. ASSUME NEW k, OpenAt(Item, k)  PROVE  Step = k /\ ~AllSucceeded
  <2>1. k \in 1 .. Len(st) /\ st[k] # "succeeded" /\ \A j \in 1 .. k - 1 : st[j] = "succeeded"
    BY <1>6, <1>1 DEF OpenAt, Item
  <2>2. ~(Step < k)  BY <2>1, <1>1, <1>3
  <2>3. ~(k < Step)  BY <2>1, <1>1, <1>3
  <2>4. QED  BY <2>1, <2>2, <2>3, <1>1, <1>3 DEF AllSucceeded, Item
<1>7. QED  BY <1>3, <1>4, <1>5, <1>6 DEF Item
-----------------------------------------------------------------------------
(* What a step does on the server.                                           *)

Removes(m, S) ==
    /\ at'[m] = at[m] \ S
    /\ UNCHANGED last

Places(m, S, b) ==
    /\ at'[m] = (at[m] \ S) \cup {<<b, last[b] + 1>>}
    /\ last' = [last EXCEPT ![b] = @ + 1]

Touches(m) ==
    /\ at' = [n \in Messages |-> at'[n]]
    /\ \A n \in Messages \ {m} : at'[n] = at[n]

ServerStill == UNCHANGED <<at, last>>

(* A step of the push changes the copies of the message at the head. *)
HeadChanges ==
    \/ ServerStill
    \/ /\ Touches(M)
       /\ \E S : Removes(M, S) \/ \E b \in Mailboxes : Places(M, S, b)

LEMMA MovePlaces ==
  ASSUME PushType, TodoQueued, NEW l, UidMove(l) \/ UidCopy(l) \/ MoveLost(l)
  PROVE  HeadChanges
<1> USE DEF server, bounds
<1>1. /\ run # None /\ M \in Messages /\ at \in [Messages -> SUBSET Locations]
      /\ Box \in Mailboxes
  BY HeadShape, ItemShape, StepsShape
  DEF UidMove, UidCopy, MoveLost, MustMove, Running, Box, Item, PushType
<1> DEFINE Placing(S) == at' = [at EXCEPT ![M] = (@ \ S) \cup {NewUid}] /\ Placed
<1>2. ASSUME NEW S, Placing(S)  PROVE  HeadChanges
  <2>1. Touches(M) /\ Places(M, S, Box)
    BY <1>1, <1>2 DEF Touches, Places, Placed, NewUid
  <2>2. QED  BY <1>1, <2>1 DEF HeadChanges
<1>3. CASE l \notin at[M]
  BY <1>3 DEF UidMove, UidCopy, MoveLost, HeadChanges, ServerStill, Effects
<1>4. CASE l \in at[M] /\ UidMove(l)
  <2>1. Placing({l})  BY <1>4 DEF UidMove
  <2>2. QED  BY <2>1, <1>2
<1>5. CASE l \in at[M] /\ UidCopy(l)
  <2>1. Placing({})  BY <1>1, <1>5 DEF UidCopy
  <2>2. QED  BY <2>1, <1>2
<1>6. CASE l \in at[M] /\ MoveLost(l)
  <2>1. CASE ServerStill  BY <2>1 DEF HeadChanges
  <2>2. CASE hasMove /\ ~ServerStill
    <3>1. Placing({l})  BY <1>6, <2>2 DEF MoveLost, ServerStill
    <3>2. QED  BY <3>1, <1>2
  <2>3. CASE ~hasMove /\ ~ServerStill
    <3>1. Placing({})  BY <1>1, <1>6, <2>3 DEF MoveLost, ServerStill
    <3>2. QED  BY <3>1, <1>2
  <2>4. QED  BY <2>1, <2>2, <2>3
<1>7. QED  BY <1>3, <1>4, <1>5, <1>6

LEMMA ExpungeRemoves ==
  ASSUME PushType, TodoQueued, UidExpunge \/ UidExpungeFails
  PROVE  \E gone \in {{}, {run.from}} : Touches(M) /\ Removes(M, gone)
<1>1. M \in Messages /\ at \in [Messages -> SUBSET Locations]
  BY HeadShape DEF UidExpunge, UidExpungeFails, Running, PushType
<1>2. CASE UidExpunge
  BY <1>1, <1>2 DEF UidExpunge, Touches, Removes
<1>3. CASE UidExpungeFails
  BY <1>1, <1>3 DEF UidExpungeFails, Touches, Removes
<1>4. QED  BY <1>2, <1>3

(* Another client moves or deletes a copy. *)
LEMMA ForeignPlaces ==
  ASSUME PushType, NEW m \in Messages, NEW l \in at[m], NEW b \in Mailboxes,
         ForeignMove(m, l, b)
  PROVE  Touches(m) /\ Places(m, {l}, b)
BY DEF ForeignMove, PushType, Touches, Places

LEMMA ForeignRemoves ==
  ASSUME PushType, NEW m \in Messages, NEW l \in at[m], ForeignDelete(m, l)
  PROVE  Touches(m) /\ Removes(m, {l})
BY DEF ForeignDelete, PushType, Touches, Removes

LEMMA ServerShape ==
  ASSUME PushType, TodoQueued, [Next]_vars
  PROVE  \/ ServerStill
         \/ \E m \in Messages :
               /\ Touches(m)
               /\ \E S : Removes(m, S) \/ \E b \in Mailboxes : Places(m, S, b)
<1> USE DEF server, bounds
<1>0. ASSUME run # None, HeadChanges
      PROVE  \/ ServerStill
             \/ \E m \in Messages :
                   /\ Touches(m)
                   /\ \E S : Removes(m, S) \/ \E b \in Mailboxes : Places(m, S, b)
  BY <1>0, HeadShape DEF HeadChanges
<1>1. CASE \E l \in InHand : UidMove(l) \/ UidCopy(l) \/ MoveLost(l)
  <2>1. run # None
    BY <1>1 DEF UidMove, UidCopy, MoveLost, MustMove, Running
  <2>2. QED  BY <1>0, <1>1, <2>1, MovePlaces
<1>2. CASE UidExpunge \/ UidExpungeFails
  <2>1. run # None  BY <1>2 DEF UidExpunge, UidExpungeFails, Running
  <2>2. HeadChanges  BY <1>2, ExpungeRemoves DEF HeadChanges
  <2>3. QED  BY <1>0, <2>1, <2>2
<1>3. CASE Environment
  BY <1>3, ForeignPlaces, ForeignRemoves DEF Environment
<1>4. CASE \E m \in Messages : SpamMessage(m) \/ UnspamMessage(m)
  BY <1>4 DEF SpamMessage, UnspamMessage, ServerStill
<1>5. CASE BeginPush \/ \E b \in Mailboxes : Pull(b)
  BY <1>5 DEF BeginPush, Pull, ServerStill
<1>6. CASE \/ StartStep \/ PersistRemoteOutcomeUnknown \/ StepSucceeds
           \/ RelocateMessage \/ RecoverMove \/ StopAtUnknown \/ FinishItem
           \/ \E l \in InHand : AddFlags(l) \/ SkipLocation(l)
  BY <1>6 DEF StartStep, PersistRemoteOutcomeUnknown, StepSucceeds, RelocateMessage,
       RecoverMove, StopAtUnknown, FinishItem, AddFlags, SkipLocation, ServerStill
<1>7. CASE AddFlagsFails \/ AuditFails \/ Crash \/ \E l \in InHand : MoveRejected(l)
  BY <1>7 DEF AddFlagsFails, AuditFails, Crash, MoveRejected, ServerStill
<1>8. CASE UNCHANGED vars
  BY <1>8 DEF vars, ServerStill
<1>9. QED
  BY <1>1, <1>2, <1>3, <1>4, <1>5, <1>6, <1>7, <1>8 DEF Next, PushStep, PushFault

(* Copies appear only under UIDs that were never used. *)
Unused(l) == l[2] > last[l[1]]

LEMMA ServerGrows ==
  ASSUME PushType, UidsKnown, TodoQueued, [Next]_vars
  PROVE  /\ at' \in [Messages -> SUBSET Locations]
         /\ \A m \in Messages : IsFiniteSet(at'[m])
         /\ last' \in [Mailboxes -> Nat]
         /\ \A b \in Mailboxes : last[b] <= last'[b]
         /\ \A m \in Messages : \A l \in at'[m] :
               /\ l \in at[m] \/ Unused(l)
               /\ l[2] <= last'[l[1]]
<1>0. /\ at \in [Messages -> SUBSET Locations] /\ last \in [Mailboxes -> Nat]
      /\ \A m \in Messages : IsFiniteSet(at[m])
      /\ \A m \in Messages : \A l \in at[m] : l[2] <= last[l[1]]
  BY DEF PushType, UidsKnown
<1>1. CASE ServerStill
  BY <1>0, <1>1 DEF ServerStill
<1>2. ASSUME NEW m \in Messages, Touches(m), NEW S, Removes(m, S)
      PROVE  /\ \A n \in Messages : at'[n] \subseteq at[n]
             /\ IsFiniteSet(at'[m]) /\ at' = [n \in Messages |-> at'[n]]
             /\ \A n \in Messages : n # m => at'[n] = at[n]
             /\ UNCHANGED last
  <2>1. at'[m] \subseteq at[m] /\ IsFiniteSet(at'[m])
    BY <1>0, <1>2, Fewer DEF Removes
  <2>2. QED  BY <2>1, <1>2 DEF Removes, Touches
<1>3. ASSUME NEW m \in Messages, Touches(m), NEW S, NEW b \in Mailboxes, Places(m, S, b)
      PROVE  /\ at'[m] \subseteq at[m] \cup {<<b, last[b] + 1>>}
             /\ IsFiniteSet(at'[m]) /\ at' = [n \in Messages |-> at'[n]]
             /\ \A n \in Messages : n # m => at'[n] = at[n]
             /\ last' = [last EXCEPT ![b] = @ + 1]
  <2>1. at'[m] \subseteq at[m] \cup {<<b, last[b] + 1>>}
    BY <1>3 DEF Places
  <2>2. IsFiniteSet(at[m] \ S)
    <3>1. IsFiniteSet(at[m]) /\ at[m] \ S \subseteq at[m]  BY <1>0
    <3>2. QED  BY <3>1, Fewer
  <2>3. IsFiniteSet(at'[m])  BY <2>2, <1>3, OneMore DEF Places
  <2>4. QED  BY <2>1, <2>3, <1>3 DEF Places, Touches
<1>4. CASE \E m \in Messages : Touches(m) /\ \E S : Removes(m, S)
  <2>1. PICK m \in Messages : Touches(m) /\ \E S : Removes(m, S)  BY <1>4
  <2>2. /\ \A n \in Messages : at'[n] \subseteq at[n] /\ IsFiniteSet(at'[n])
        /\ at' = [n \in Messages |-> at'[n]] /\ UNCHANGED last
    BY <2>1, <1>2, <1>0
  <2>3. at' \in [Messages -> SUBSET Locations]  BY <2>2, <1>0
  <2>4. QED  BY <2>2, <2>3, <1>0
<1>5. CASE \E m \in Messages : Touches(m) /\ \E S : \E b \in Mailboxes : Places(m, S, b)
  <2>1. PICK m \in Messages, b \in Mailboxes : Touches(m) /\ \E S : Places(m, S, b)  BY <1>5
  <2>2. /\ at'[m] \subseteq at[m] \cup {<<b, last[b] + 1>>}
        /\ \A n \in Messages : n # m => at'[n] = at[n]
        /\ at' = [n \in Messages |-> at'[n]] /\ last' = [last EXCEPT ![b] = @ + 1]
        /\ \A n \in Messages : IsFiniteSet(at'[n])
    BY <2>1, <1>3, <1>0
  <2>4. <<b, last[b] + 1>> \in Locations
    BY <1>0 DEF Locations
  <2>5. at' \in [Messages -> SUBSET Locations]  BY <2>2, <2>4, <1>0
  <2>6. /\ last' \in [Mailboxes -> Nat]
        /\ \A c \in Mailboxes : last[c] <= last'[c] /\ (c # b => last'[c] = last[c])
        /\ last'[b] = last[b] + 1
    BY <2>2, <1>0
  <2>7. ASSUME NEW n \in Messages, NEW l \in at'[n]
        PROVE  (l \in at[n] \/ Unused(l)) /\ l[2] <= last'[l[1]]
    <3>1. l \in at[n] \/ l = <<b, last[b] + 1>>  BY <2>2
    <3>2. CASE l = <<b, last[b] + 1>>
      BY <3>2, <2>6, <1>0 DEF Unused
    <3>3. CASE l \in at[n]
      <4>1. l[1] \in Mailboxes /\ l[2] \in Nat /\ l[2] <= last[l[1]]
        BY <3>3, <1>0 DEF Locations
      <4>2. QED  BY <4>1, <3>3, <2>6, <1>0
    <3>4. QED  BY <3>1, <3>2, <3>3
  <2>8. QED  BY <2>2, <2>5, <2>6, <2>7
<1>6. QED  BY <1>1, <1>4, <1>5, ServerShape
-----------------------------------------------------------------------------
(* The order of a push.                                                      *)

Below(S, m) == {n \in S : Precedes(n, m)}

LEMMA PrecedesIsOrder ==
  ASSUME PushType
  PROVE  /\ \A m \in Queued : ~Precedes(m, m)
         /\ \A m, n \in Queued : m = n \/ Precedes(m, n) \/ Precedes(n, m)
         /\ \A m, n, k \in Queued : Precedes(m, n) /\ Precedes(n, k) => Precedes(m, k)
<1>1. \A m \in Queued : item[m].seq \in Nat /\ m \in Nat
  BY ItemShape, MessagePushAssumption DEF Queued
<1>2. \A m \in Queued : ~Precedes(m, m)
  BY <1>1 DEF Precedes
<1>3. \A m, n \in Queued : m = n \/ Precedes(m, n) \/ Precedes(n, m)
  BY <1>1 DEF Precedes
<1>4. \A m, n, k \in Queued : Precedes(m, n) /\ Precedes(n, k) => Precedes(m, k)
  BY <1>1 DEF Precedes
<1>5. QED  BY <1>2, <1>3, <1>4

(* The number of items before an item tells its place. *)
LEMMA Places1 ==
  ASSUME PushType, NEW S \in SUBSET Queued
  PROVE  /\ IsFiniteSet(S) /\ Cardinality(S) \in Nat
         /\ \A m \in S : Cardinality(Below(S, m)) \in 0 .. Cardinality(S) - 1
         /\ \A m, n \in S : Precedes(m, n) =>
               Cardinality(Below(S, m)) < Cardinality(Below(S, n))
<1>1. IsFiniteSet(S) /\ Cardinality(S) \in Nat
  BY MessagePushAssumption, Fewer DEF Queued
<1>2. ASSUME NEW m \in S
      PROVE  /\ IsFiniteSet(Below(S, m)) /\ Cardinality(Below(S, m)) \in Nat
             /\ Cardinality(Below(S, m)) <= Cardinality(S) - 1
  <2>1. Below(S, m) \subseteq S \ {m}
    BY PrecedesIsOrder DEF Below
  <2>2. Cardinality(S \ {m}) + 1 = Cardinality(S) /\ Cardinality(S \ {m}) \in Nat
    BY <1>1, OneLess
  <2>3. IsFiniteSet(S \ {m})  BY <1>1, Fewer
  <2>4. /\ IsFiniteSet(Below(S, m)) /\ Cardinality(Below(S, m)) \in Nat
        /\ Cardinality(Below(S, m)) <= Cardinality(S \ {m})
    BY <2>1, <2>3, Fewer
  <2>5. QED  BY <2>2, <2>4, <1>1
<1>3. ASSUME NEW m \in S, NEW n \in S, Precedes(m, n)
      PROVE  Cardinality(Below(S, m)) < Cardinality(Below(S, n))
  <2>1. m \in Below(S, n) /\ Below(S, m) \subseteq Below(S, n) \ {m}
    BY <1>3, PrecedesIsOrder DEF Below
  <2>2. /\ Cardinality(Below(S, n) \ {m}) + 1 = Cardinality(Below(S, n))
        /\ Cardinality(Below(S, n) \ {m}) \in Nat
    BY <2>1, <1>2, OneLess
  <2>3. IsFiniteSet(Below(S, n) \ {m})  BY <1>2, Fewer
  <2>4. Cardinality(Below(S, m)) <= Cardinality(Below(S, n) \ {m})
    BY <2>1, <2>3, Fewer
  <2>5. QED  BY <2>2, <2>4, <1>2
<1>4. QED  BY <1>1, <1>2, <1>3

LEMMA SortedItemsSorted ==
  ASSUME PushType, NEW S \in SUBSET Queued
  PROVE  LET s == SortedItems(S)
         IN  /\ s \in Seq(Messages) /\ {s[i] : i \in DOMAIN s} = S
             /\ \A i, j \in DOMAIN s : i < j => Precedes(s[i], s[j])
             /\ \A i, j \in DOMAIN s : s[i] = s[j] => i = j
<1> DEFINE n == Cardinality(S)
           rank(m) == Cardinality(Below(S, m))
           s == SortedItems(S)
<1>1. /\ IsFiniteSet(S) /\ n \in Nat
      /\ \A m \in S : rank(m) \in 0 .. n - 1
      /\ \A m, k \in S : Precedes(m, k) => rank(m) < rank(k)
  BY Places1
<1>2. \A m, k \in S : rank(m) = rank(k) => m = k
  BY <1>1, PrecedesIsOrder
<1>3. \A i \in 1 .. n : \E m \in S : rank(m) = i - 1
  <2> DEFINE r == [m \in S |-> rank(m) + 1]
  <2>1. r \in [S -> 1 .. n]  BY <1>1
  <2>2. \A m, k \in S : r[m] = r[k] => m = k  BY <1>1, <1>2
  <2>3. IsFiniteSet(1 .. n) /\ Cardinality(1 .. n) = n  BY <1>1, FS_Interval
  <2> HIDE DEF r
  <2>4. r \in Injection(S, 1 .. n)  BY <2>1, <2>2 DEF Injection, IsInjective
  <2>5. r \in Surjection(S, 1 .. n)  BY <2>3, <2>4, FS_Injection
  <2>6. \A i \in 1 .. n : \E m \in S : r[m] = i  BY <2>5 DEF Surjection
  <2>7. QED  BY <2>6, <1>1 DEF r
<1>4. s = [i \in 1 .. n |-> CHOOSE m \in S : rank(m) = i - 1]
  BY DEF SortedItems, Below
<1> HIDE DEF s
<1>5. \A i \in 1 .. n : s[i] \in S /\ rank(s[i]) = i - 1
  BY <1>3, <1>4
<1>6. DOMAIN s = 1 .. n /\ s \in [1 .. n -> S]  BY <1>4, <1>5
<1>7. s \in Seq(Messages)
  <2>1. S \subseteq Messages  BY DEF Queued
  <2>2. s \in [1 .. n -> Messages]  BY <1>6, <2>1
  <2>3. QED  BY <1>1, <2>2
<1>8. {s[i] : i \in DOMAIN s} = S
  <2>1. ASSUME NEW m \in S  PROVE  m = s[rank(m) + 1] /\ rank(m) + 1 \in 1 .. n
    <3>1. rank(m) + 1 \in 1 .. n  BY <1>1
    <3>2. rank(s[rank(m) + 1]) = rank(m) /\ s[rank(m) + 1] \in S  BY <3>1, <1>1, <1>5
    <3>3. QED  BY <3>1, <3>2, <1>2
  <2>2. QED  BY <2>1, <1>5, <1>6
<1>9. ASSUME NEW i \in DOMAIN s, NEW j \in DOMAIN s, i < j  PROVE  Precedes(s[i], s[j])
  <2>1. /\ s[i] \in S /\ s[j] \in S /\ i \in 1 .. n /\ j \in 1 .. n
        /\ rank(s[i]) = i - 1 /\ rank(s[j]) = j - 1
    BY <1>5, <1>6
  <2>2. rank(s[i]) < rank(s[j])  BY <2>1, <1>9
  <2>3. ~(rank(s[j]) < rank(s[i])) /\ rank(s[i]) # rank(s[j])  BY <2>1, <2>2
  <2>4. s[i] # s[j] /\ ~Precedes(s[j], s[i])  BY <2>1, <2>3, <1>1
  <2>5. QED  BY <2>1, <2>4, PrecedesIsOrder
<1>10. \A i, j \in DOMAIN s : s[i] = s[j] => i = j
  <2>1. ASSUME NEW i \in DOMAIN s, NEW j \in DOMAIN s, s[i] = s[j]  PROVE  i = j
    <3>1. i \in 1 .. n /\ j \in 1 .. n /\ rank(s[i]) = i - 1 /\ rank(s[j]) = j - 1
      BY <1>5, <1>6
    <3>2. QED  BY <3>1, <2>1
  <2>2. QED  BY <2>1
<1>11. QED  BY <1>7, <1>8, <1>9, <1>10 DEF s
-----------------------------------------------------------------------------
(* What a step does to the items.                                            *)

(* Each step that has the outcome of the step under way recorded.            *)
MarkedAs(m, s, c, p) ==
    /\ item' \in [Messages -> Items \cup {None}]
    /\ \A n \in Messages \ {m} : item'[n] = item[n]
    /\ item'[m] \in Items /\ item'[m] # None
    /\ item'[m].action = item[m].action /\ item'[m].seq = item[m].seq
    /\ item'[m].audit = item[m].audit
    /\ item'[m].plan = p /\ item'[m].code = c
    /\ item'[m].st = [item[m].st EXCEPT ![Step] = s]

LEMMA MarkedItem ==
  ASSUME PushType, TodoQueued, run # None, ~AllSucceeded,
         NEW s \in StepStatus, NEW c \in ErrorCodes, NEW p \in SUBSET Locations,
         \/ Mark(s, c) /\ p = Item.plan
         \/ item' = [item EXCEPT ![M].st[Step] = s, ![M].code = c, ![M].plan = p]
  PROVE  MarkedAs(M, s, c, p)
<1>1. /\ M \in Messages /\ item[M] \in Items /\ item[M] # None
      /\ item[M].st \in Seq(StepStatus) /\ Step \in DOMAIN item[M].st
  BY HeadShape, ItemShape, StepIsOpen DEF OpenAt, Item
<1>2. [item[M].st EXCEPT ![Step] = s] \in Seq(StepStatus)
  BY <1>1
<1> DEFINE new == [item[M] EXCEPT !.st = [@ EXCEPT ![Step] = s], !.code = c, !.plan = p]
<1>3. new \in Items
  BY <1>1, <1>2 DEF Items
<1>4. item' = [item EXCEPT ![M] = new]
  <2>0. item = [n \in Messages |-> item[n]] /\ item[M].plan \in SUBSET Locations
        /\ item[M] = [action |-> item[M].action, seq |-> item[M].seq, plan |-> item[M].plan,
                      st |-> item[M].st, code |-> item[M].code, audit |-> item[M].audit]
    BY <1>1 DEF PushType, Items
  <2>1. CASE Mark(s, c) /\ p = Item.plan
    <3>1. item' = [n \in Messages |-> item'[n]]
      BY <2>0, <2>1 DEF Mark
    <3>2. \A n \in Messages : n # M => item'[n] = item[n]
      BY <2>0, <2>1 DEF Mark
    <3>3. item'[M] = [[item[M] EXCEPT !.st = [@ EXCEPT ![Step] = s]] EXCEPT !.code = c]
      BY <1>1, <2>0, <2>1 DEF Mark
    <3>4. item'[M] = new
      BY <2>0, <2>1, <3>3 DEF Item
    <3> HIDE DEF new
    <3>5. QED  BY <1>1, <2>0, <3>1, <3>2, <3>4
  <2>2. CASE item' = [item EXCEPT ![M].st[Step] = s, ![M].code = c, ![M].plan = p]
    <3>1. item' = [n \in Messages |-> item'[n]]
      BY <2>0, <2>2
    <3>2. \A n \in Messages : n # M => item'[n] = item[n]
      BY <2>0, <2>2
    <3>3. item'[M] = [[[item[M] EXCEPT !.st = [@ EXCEPT ![Step] = s]] EXCEPT !.code = c]
                        EXCEPT !.plan = p]
      BY <1>1, <2>0, <2>2
    <3>4. item'[M] = new
      BY <2>0, <3>3
    <3> HIDE DEF new
    <3>5. QED  BY <1>1, <2>0, <3>1, <3>2, <3>4
  <2>3. QED  BY <2>1, <2>2
<1>5. item' \in [Messages -> Items \cup {None}] /\ item'[M] = new
      /\ \A n \in Messages \ {M} : item'[n] = item[n]
  BY <1>1, <1>3, <1>4 DEF PushType
<1>6. new # None  BY <1>3, NoneAssumption
<1>7. /\ new.action = item[M].action /\ new.seq = item[M].seq /\ new.audit = item[M].audit
      /\ new.plan = p /\ new.code = c /\ new.st = [item[M].st EXCEPT ![Step] = s]
  BY <1>1 DEF Items
<1> HIDE DEF new
<1>8. QED  BY <1>3, <1>5, <1>6, <1>7 DEF MarkedAs
-----------------------------------------------------------------------------
(* The items after a step.                                                   *)

(* The locations on record lose no source that is still on the server.       *)
LocKept(m) == item[m].plan \cap at'[m] \cap loc[m] \subseteq loc'[m]

LEMMA SameItem ==
  ASSUME PushType, UidsKnown, ItemsTrue, TodoQueued, [Next]_vars,
         NEW m \in Messages, item[m] # None, item'[m] = item[m], LocKept(m)
  PROVE  ItemTrue(m)'
<1>1. /\ ItemTrue(m) /\ item[m].plan \subseteq Locations
      /\ \A b \in Mailboxes : last[b] <= last'[b] /\ last[b] \in Nat /\ last'[b] \in Nat
      /\ \A l \in at'[m] : l \in at[m] \/ Unused(l)
  BY ItemShape, ServerGrows DEF ItemsTrue, Queued, PushType
<1>2. \A l \in item[m].plan : l[1] \in Mailboxes /\ l[2] \in Nat /\ l[2] <= last[l[1]]
  BY <1>1 DEF ItemTrue, Locations
<1>3. \A l \in item[m].plan : l[2] <= last'[l[1]] /\ ~Unused(l)
  BY <1>1, <1>2 DEF Unused
<1>4. item[m].plan \cap at'[m] \subseteq at[m]
  BY <1>1, <1>3
<1>5. Ordered(item'[m])  BY <1>1 DEF ItemTrue, Ordered
<1>6. Tracked(item'[m], at'[m], loc'[m])
  <2>1. item[m].plan \cap at'[m] \subseteq loc'[m]
    BY <1>1, <1>4 DEF LocKept, ItemTrue, Tracked
  <2>2. QED  BY <1>1, <2>1 DEF ItemTrue, Tracked
<1>7. Applied(item'[m], at'[m])
  BY <1>1, <1>4 DEF ItemTrue, Applied
<1>8. QED  BY <1>3, <1>5, <1>6, <1>7 DEF ItemTrue

LEMMA MarkedItemTrue ==
  ASSUME PushType, UidsKnown, ItemsTrue, TodoQueued, [Next]_vars,
         run # None, ~Item.audit, ~AllSucceeded, NEW m, m = M,
         NEW s, NEW c, MarkedAs(m, s, c, Item.plan), LocKept(m),
         s = "succeeded" /\ Steps[Item.action][Step] = "move" => Item.plan \cap at'[m] = {}
  PROVE  ItemTrue(m)'
<1> DEFINE k == Step
           i == item[m]
           j == item'[m]
<1>0. m \in Messages /\ i # None /\ i \in Items /\ OpenAt(i, k)
  BY HeadShape, StepIsOpen, ItemShape DEF Item
<1>1. /\ ItemTrue(m) /\ i.plan \subseteq Locations
      /\ \A b \in Mailboxes : last[b] <= last'[b] /\ last[b] \in Nat /\ last'[b] \in Nat
      /\ \A l \in at'[m] : l \in at[m] \/ Unused(l)
  BY <1>0, ItemShape, ServerGrows DEF ItemsTrue, Queued, PushType
<1>2. \A l \in i.plan : l[1] \in Mailboxes /\ l[2] \in Nat /\ l[2] <= last[l[1]]
  BY <1>1 DEF ItemTrue, Locations
<1>3. \A l \in i.plan : l[2] <= last'[l[1]] /\ ~Unused(l)
  BY <1>1, <1>2 DEF Unused
<1>4. i.plan \cap at'[m] \subseteq at[m]
  BY <1>1, <1>3
<1>5. /\ j.plan = i.plan /\ j.action = i.action /\ j.audit = i.audit
      /\ j.st = [i.st EXCEPT ![k] = s] /\ ~i.audit
      /\ i.st \in Seq(StepStatus) /\ k \in DOMAIN i.st
  BY <1>0, ItemShape DEF MarkedAs, Item, OpenAt
<1>6. Ordered(j)
  <2>1. ASSUME NEW a \in DOMAIN j.st, NEW b \in DOMAIN j.st, a < b, j.st[a] # "succeeded"
        PROVE  j.st[b] = "new"
    <3>1. a \in DOMAIN i.st /\ b \in DOMAIN i.st /\ DOMAIN i.st \subseteq Nat \ {0}
      BY <1>5, <2>1
    <3>2. a >= k
      <4>1. CASE a < k
        <5>1. a \in 1 .. k - 1  BY <4>1, <3>1, <1>5
        <5>2. i.st[a] = "succeeded"  BY <5>1, <1>0 DEF OpenAt
        <5>3. j.st[a] = i.st[a]  BY <1>5, <3>1, <4>1
        <5>4. QED  BY <5>2, <5>3, <2>1
      <4>2. QED  BY <4>1, <3>1, <1>5
    <3>3. b # k /\ k < b  BY <3>1, <3>2, <2>1, <1>5
    <3>4. i.st[b] = "new"
      BY <1>0, <1>1, <1>5, <3>1, <3>3 DEF ItemTrue, Ordered, OpenAt
    <3>5. QED  BY <3>3, <3>4, <1>5, <3>1
  <2>2. QED  BY <2>1, <1>5 DEF Ordered
<1>7. Tracked(j, at'[m], loc'[m])
  <2>1. i.plan \cap at'[m] \subseteq loc'[m]
    BY <1>1, <1>4 DEF LocKept, ItemTrue, Tracked
  <2>2. QED  BY <1>1, <1>5, <2>1 DEF ItemTrue, Tracked
<1>8. Applied(j, at'[m])
  <2>1. ASSUME NEW a \in DOMAIN j.st, j.st[a] = "succeeded", Steps[j.action][a] = "move"
        PROVE  j.plan \cap at'[m] = {}
    <3>1. CASE a = k
      BY <3>1, <2>1, <1>5 DEF Item
    <3>2. CASE a # k
      <4>1. a \in DOMAIN i.st /\ i.st[a] = "succeeded" /\ Steps[i.action][a] = "move"
        BY <3>2, <2>1, <1>5
      <4>2. i.plan \cap at[m] = {}  BY <4>1, <1>1 DEF ItemTrue, Applied
      <4>3. QED  BY <4>2, <1>4, <1>5
    <3>3. QED  BY <3>1, <3>2
  <2>2. QED  BY <2>1 DEF Applied
<1>9. QED  BY <1>3, <1>5, <1>6, <1>7, <1>8 DEF ItemTrue
-----------------------------------------------------------------------------
(* The commands.                                                             *)

LEMMA NewItemShape ==
  ASSUME NEW a \in Actions, NEW seq \in Nat
  PROVE  /\ NewItem(a, seq) \in Items /\ NewItem(a, seq) # None
         /\ NewItem(a, seq).action = a /\ NewItem(a, seq).seq = seq
         /\ NewItem(a, seq).plan = {} /\ ~NewItem(a, seq).audit
         /\ Len(NewItem(a, seq).st) = Len(Steps[a])
         /\ \A k \in DOMAIN NewItem(a, seq).st : NewItem(a, seq).st[k] = "new"
<1> DEFINE st == [k \in DOMAIN Steps[a] |-> "new"]
<1>1. st \in Seq(StepStatus) /\ Len(st) = Len(Steps[a]) /\ \A k \in DOMAIN st : st[k] = "new"
  <2>1. st = [k \in 1 .. Len(Steps[a]) |-> "new"] /\ Len(Steps[a]) \in Nat
    BY StepsShape
  <2>2. "new" \in StepStatus  BY DEF StepStatus
  <2> HIDE DEF st
  <2>3. QED  BY <2>1, <2>2
<1> HIDE DEF st
<1>2. NewItem(a, seq) = [action |-> a, seq |-> seq, plan |-> {}, st |-> st,
                         code |-> "none", audit |-> FALSE]
  BY DEF NewItem, st
<1>3. NewItem(a, seq) \in Items  BY <1>1, <1>2 DEF Items, ErrorCodes
<1>4. NewItem(a, seq) # None  BY <1>3, NoneAssumption
<1>5. QED  BY <1>1, <1>2, <1>3, <1>4

LEMMA NextSeqIsHighest ==
  ASSUME PushType, NEW q \in [Messages -> Items \cup {None}],
         \A n \in Messages : q[n] \in {item[n], None}
  PROVE  /\ NextEnqueueSeq(q) \in Nat
         /\ \A n \in Messages : q[n] # None => q[n].seq < NextEnqueueSeq(q)
<1> DEFINE S == {n \in Messages : q[n] # None}
           seqs == {q[n].seq : n \in S}
<1>0. /\ S \in SUBSET Queued
      /\ \A n \in S : q[n] = item[n] /\ q[n].seq \in Nat
  BY ItemShape DEF Queued
<1>1. NextEnqueueSeq(q) = 1 + (IF seqs = {} THEN 0 ELSE CHOOSE x \in seqs : \A t \in seqs : t <= x)
  BY DEF NextEnqueueSeq
<1>2. seqs \subseteq Nat  BY <1>0
<1>3. CASE S = {}
  <2>1. seqs = {}  BY <1>3
  <2>2. QED  BY <1>1, <1>3, <2>1
<1>4. CASE S # {}
  <2>1. PICK s \in Seq(Messages) :
          /\ {s[i] : i \in DOMAIN s} = S
          /\ \A i, j \in DOMAIN s : i < j => Precedes(s[i], s[j])
    <3>1. SortedItems(S) \in Seq(Messages)  BY <1>0, SortedItemsSorted
    <3> DEFINE w == SortedItems(S)
    <3>2. /\ {w[i] : i \in DOMAIN w} = S
          /\ \A i, j \in DOMAIN w : i < j => Precedes(w[i], w[j])
      BY <1>0, SortedItemsSorted
    <3> HIDE DEF w
    <3>3. w \in Seq(Messages)  BY <3>1 DEF w
    <3>4. QED  BY <3>2, <3>3
  <2>2. DOMAIN s = 1 .. Len(s) /\ Len(s) \in Nat  BY <2>1
  <2>3. Len(s) \in DOMAIN s
    <3>1. \E i : i \in DOMAIN s  BY <1>4, <2>1
    <3>2. QED  BY <2>2, <3>1
  <2> DEFINE x == q[s[Len(s)]].seq
  <2>4. s[Len(s)] \in S  BY <2>1, <2>3
  <2>5. ASSUME NEW n \in S  PROVE  q[n].seq <= x
    <3>1. PICK i \in DOMAIN s : n = s[i]  BY <2>1
    <3>2. CASE i = Len(s)  BY <3>1, <3>2, <2>4, <1>0
    <3>3. CASE i < Len(s)
      <4>1. Precedes(s[i], s[Len(s)])  BY <3>1, <3>3, <2>1, <2>3
      <4>2. QED  BY <4>1, <3>1, <2>4, <1>0 DEF Precedes
    <3>4. QED  BY <3>1, <3>2, <3>3, <2>2
  <2>6. x \in seqs /\ \A t \in seqs : t <= x  BY <2>4, <2>5
  <2>7. seqs # {}  BY <2>6
  <2> HIDE DEF x, seqs
  <2> DEFINE top == CHOOSE y \in seqs : \A t \in seqs : t <= y
  <2>8. top \in seqs /\ \A t \in seqs : t <= top  BY <2>6
  <2>9. NextEnqueueSeq(q) = 1 + top  BY <1>1, <2>7
  <2> HIDE DEF top
  <2>10. top \in Nat  BY <2>8, <1>2
  <2>11. \A n \in S : q[n].seq \in seqs  BY DEF seqs
  <2>12. \A n \in S : q[n].seq < 1 + top  BY <2>8, <2>10, <2>11, <1>0
  <2>13. QED  BY <2>9, <2>10, <2>12
<1>5. QED  BY <1>3, <1>4

(* What spam and unspam do to the queue. *)
CommandShape(m) ==
    /\ run = None /\ run' = None
    /\ item' \in [Messages -> Items \cup {None}]
    /\ \A n \in Messages \ {m} : item'[n] = item[n]
    /\ \/ item[m] # None /\ item'[m] = item[m] /\ earlier' = earlier
       \/ /\ item[m] # None => ~HasStartedEffects(item[m])
          /\ item'[m] = None /\ earlier' = Leave({m})
       \/ /\ item[m] # None => ~HasStartedEffects(item[m])
          /\ earlier' = [Leave({m}) EXCEPT ![m] = Queued \ {m}]
          /\ \E a \in Actions, seq \in Nat :
                /\ item'[m] = NewItem(a, seq)
                /\ \A n \in Queued \ {m} : item[n].seq < seq

LEMMA CommandsShape ==
  ASSUME PushType, NEW m \in Messages, SpamMessage(m) \/ UnspamMessage(m)
  PROVE  CommandShape(m)
<1>1. item \in [Messages -> Items \cup {None}]  BY DEF PushType
<1>2. ASSUME NEW a \in Actions, NEW q, q = [item EXCEPT ![m] = None],
             item[m] # None => ~HasStartedEffects(item[m]), run = None, run' = None,
             item' = QueueActionSteps(q, m, a),
             earlier' = IF item'[m] = None THEN Leave({m})
                        ELSE [Leave({m}) EXCEPT ![m] = Queued \ {m}]
      PROVE  CommandShape(m)
  <2>1. /\ q \in [Messages -> Items \cup {None}] /\ q[m] = None
        /\ \A n \in Messages \ {m} : q[n] = item[n]
        /\ \A n \in Messages : q[n] \in {item[n], None}
    BY <1>1, <1>2
  <2>2. CASE item' = q
    BY <1>2, <2>1, <2>2 DEF CommandShape
  <2>3. CASE item' = [q EXCEPT ![m] = NewItem(a, NextEnqueueSeq(q))]
    <3> DEFINE seq == NextEnqueueSeq(q)
    <3>1. seq \in Nat /\ \A n \in Messages : q[n] # None => q[n].seq < seq
      BY <2>1, NextSeqIsHighest
    <3> HIDE DEF seq
    <3>2. NewItem(a, seq) \in Items /\ NewItem(a, seq) # None
      BY <3>1, NewItemShape
    <3>3. /\ item' \in [Messages -> Items \cup {None}] /\ item'[m] = NewItem(a, seq)
          /\ \A n \in Messages \ {m} : item'[n] = item[n]
      BY <2>1, <2>3, <3>2 DEF seq
    <3>4. \A n \in Queued \ {m} : item[n].seq < seq
      BY <2>1, <3>1 DEF Queued
    <3>5. earlier' = [Leave({m}) EXCEPT ![m] = Queued \ {m}]
      BY <1>2, <3>2, <3>3
    <3>6. QED  BY <1>2, <3>1, <3>3, <3>4, <3>5 DEF CommandShape
  <2>4. QED  BY <1>2, <2>1, <2>2, <2>3 DEF QueueActionSteps
<1>3. ASSUME item[m] # None, item' = item, earlier' = earlier, run = None, run' = None
      PROVE  CommandShape(m)
  BY <1>1, <1>3 DEF CommandShape
<1>4. CASE SpamMessage(m)
  <2>1. /\ item' = QueueActionSteps([item EXCEPT ![m] = None], m, "spam")
        /\ item[m] # None => ~HasStartedEffects(item[m])
        /\ run = None /\ run' = None
        /\ earlier' = IF item'[m] = None THEN Leave({m})
                      ELSE [Leave({m}) EXCEPT ![m] = Queued \ {m}]
    BY <1>4 DEF SpamMessage, Command, Arrivals
  <2>2. "spam" \in Actions  BY DEF Actions
  <2>3. QED  BY <1>2, <2>1, <2>2
<1>5. CASE UnspamMessage(m)
  <2> DEFINE undone == item[m] # None /\ item[m].action = "spam"
  <2>0. "unspam" \in Actions /\ run = None /\ run' = None
    BY <1>5 DEF Actions, UnspamMessage, Command
  <2>1. CASE undone
    <3>1. /\ item' = QueueActionSteps([item EXCEPT ![m] = None], m, "unspam")
          /\ ~HasStartedEffects(item[m])
          /\ earlier' = IF item'[m] = None THEN Leave({m})
                        ELSE [Leave({m}) EXCEPT ![m] = Queued \ {m}]
      BY <1>5, <2>1 DEF UnspamMessage, Arrivals
    <3>2. QED  BY <1>2, <2>0, <3>1
  <2>2. CASE item[m] # None /\ item[m].action # "spam"
    <3>1. item[m].action = "unspam"  BY <2>2, ItemShape DEF Actions
    <3>2. item' = item
      BY <1>5, <2>2, <3>1 DEF UnspamMessage, QueueActionSteps
    <3>3. earlier' = earlier
      BY <1>5, <2>2, <3>2 DEF UnspamMessage, Arrivals
    <3>4. QED  BY <1>3, <2>0, <2>2, <3>2, <3>3
  <2>3. CASE item[m] = None
    <3>1. item = [item EXCEPT ![m] = None]  BY <1>1, <2>3
    <3>2. item' = QueueActionSteps([item EXCEPT ![m] = None], m, "unspam")
      BY <1>5, <2>3, <3>1 DEF UnspamMessage
    <3>3. earlier' = IF item'[m] = None THEN Leave({m})
                     ELSE [Leave({m}) EXCEPT ![m] = Queued \ {m}]
      BY <1>5, <2>3 DEF UnspamMessage, Arrivals
    <3>4. QED  BY <1>2, <2>0, <2>3, <3>2, <3>3
  <2>4. QED  BY <2>1, <2>2, <2>3
<1>6. QED  BY <1>4, <1>5
-----------------------------------------------------------------------------
(* The locations on record after a step.                                     *)

LEMMA FoundIsThere ==
  ASSUME NEW copies, FindUid(copies) # None
  PROVE  FindUid(copies) \in copies /\ FindUid(copies)[1] = Box
<1> DEFINE hits == {k \in copies : k[1] = Box}
<1>1. Cardinality(hits) = 1 /\ FindUid(copies) = CHOOSE k \in hits : TRUE
  BY DEF FindUid
<1>2. hits # {}
  <2>1. Cardinality({}) = 0  BY FS_EmptySet
  <2>2. QED  BY <1>1, <2>1
<1>3. FindUid(copies) \in hits  BY <1>1, <1>2
<1>4. QED  BY <1>3

LEMMA LocStep ==
  ASSUME MoveInv, [Next]_vars
  PROVE  /\ loc' \in [Messages -> SUBSET Locations]
         /\ \A m \in Messages : item[m] # None => LocKept(m)
         /\ UidsKnown'
<1>0. /\ loc \in [Messages -> SUBSET Locations] /\ at \in [Messages -> SUBSET Locations]
      /\ PushType /\ UidsKnown /\ TodoQueued
      /\ last \in [Mailboxes -> Nat] /\ last' \in [Mailboxes -> Nat]
      /\ \A b \in Mailboxes : last[b] <= last'[b]
      /\ \A m \in Messages : \A l \in at'[m] : l[2] <= last'[l[1]]
      /\ \A m \in Messages : \A l \in at[m] \cup loc[m] : l[2] <= last[l[1]]
  BY ServerGrows DEF MoveInv, PushType, UidsKnown
<1>1. \A l \in Locations : l[2] <= last[l[1]] => l[2] <= last'[l[1]]
  BY <1>0 DEF Locations
<1>2. ASSUME /\ loc' \in [Messages -> SUBSET Locations]
             /\ \A m \in Messages : \A l \in loc'[m] : l[2] <= last[l[1]]
      PROVE  UidsKnown'
  BY <1>0, <1>1, <1>2 DEF UidsKnown
<1>3. CASE UNCHANGED loc
  <2>1. \A m \in Messages : LocKept(m)  BY <1>3 DEF LocKept
  <2>2. QED  BY <1>0, <1>2, <1>3, <2>1
<1>4. CASE \E b \in Mailboxes : Pull(b)
  <2>1. PICK b \in Mailboxes :
          loc' = [m \in Messages |-> {l \in loc[m] : l[1] # b} \cup {l \in at[m] : l[1] = b}]
    BY <1>4 DEF Pull
  <2>2. UNCHANGED at  BY <1>4 DEF Pull, server
  <2>3. loc' \in [Messages -> SUBSET Locations]  BY <2>1, <1>0
  <2>4. \A m \in Messages : \A l \in loc'[m] : l[2] <= last[l[1]]  BY <2>1, <1>0
  <2>5. \A m \in Messages : LocKept(m)  BY <2>1, <2>2 DEF LocKept
  <2>6. QED  BY <2>3, <2>4, <2>5, <1>2
<1>5. CASE RelocateMessage
  <2>1. /\ run # None /\ run.phase = "relocate"
        /\ loc' = [loc EXCEPT ![M] = (@ \ {run.from}) \cup {run.to}] /\ UNCHANGED at
    BY <1>5 DEF RelocateMessage, Running, server
  <2>2. RunKnows(run, Item, at[M], last)  BY <2>1 DEF MoveInv, RunTrue
  <2>3. run.from \notin at[M] /\ run.to \in Locations /\ run.to[2] <= last[run.to[1]]
    BY <2>1, <2>2, <1>0, HeadShape DEF RunKnows
  <2>4. loc' \in [Messages -> SUBSET Locations]  BY <2>1, <2>3, <1>0
  <2>5. \A m \in Messages : \A l \in loc'[m] : l[2] <= last[l[1]]  BY <2>1, <2>3, <1>0
  <2>6. \A m \in Messages : LocKept(m)  BY <2>1, <2>3, <1>0 DEF LocKept
  <2>7. QED  BY <2>4, <2>5, <2>6, <1>2
<1>6. CASE RecoverMove
  <2>1. /\ run # None /\ RecoverTarget(M) # None
        /\ loc' = [loc EXCEPT ![M] = (@ \ Item.plan) \cup {RecoverTarget(M)}] /\ UNCHANGED at
    BY <1>6 DEF RecoverMove, Unknown, Running, server
  <2>2. ~HasActivePlannedSource(M)  BY <2>1 DEF RecoverTarget
  <2>3. M \in Messages /\ Item.plan \cap loc[M] = {}
    BY <2>1, <2>2, <1>0, HeadShape DEF HasActivePlannedSource, Item
  <2>4. RecoverTarget(M) \in at[M] \cup loc[M]
    BY <2>1, <2>2, FoundIsThere DEF RecoverTarget
  <2> DEFINE t == RecoverTarget(M)
  <2>5. t \in Locations /\ t[2] <= last[t[1]]
    BY <2>3, <2>4, <1>0
  <2> HIDE DEF t
  <2>6. loc' = [loc EXCEPT ![M] = (@ \ Item.plan) \cup {t}]  BY <2>1 DEF t
  <2>7. loc' \in [Messages -> SUBSET Locations]  BY <2>3, <2>5, <2>6, <1>0
  <2>8. \A m \in Messages : \A l \in loc'[m] : l[2] <= last[l[1]]  BY <2>3, <2>5, <2>6, <1>0
  <2>9. \A m \in Messages : LocKept(m)
    <3>1. LocKept(M)  BY <2>3 DEF LocKept, Item
    <3>2. \A m \in Messages : m # M => LocKept(m)  BY <2>6, <1>0 DEF LocKept
    <3>3. QED  BY <3>1, <3>2
  <2>10. QED  BY <2>7, <2>8, <2>9, <1>2
<1>7. ASSUME ~UNCHANGED loc
      PROVE  (\E b \in Mailboxes : Pull(b)) \/ RelocateMessage \/ RecoverMove
  <2> USE <1>7 DEF server, bounds
  <2>1. ~\E m \in Messages : SpamMessage(m) \/ UnspamMessage(m)
    BY DEF SpamMessage, UnspamMessage
  <2>2. ~BeginPush  BY DEF BeginPush
  <2>3. ~PushStep \/ RelocateMessage \/ RecoverMove
    BY DEF PushStep, StartStep, PersistRemoteOutcomeUnknown, StepSucceeds, UidExpunge,
       StopAtUnknown, FinishItem, AddFlags, SkipLocation, UidMove, UidCopy
  <2>4. ~PushFault
    BY DEF PushFault, AddFlagsFails, UidExpungeFails, AuditFails, Crash, MoveRejected, MoveLost
  <2>5. ~Environment  BY DEF Environment, ForeignMove, ForeignDelete
  <2>6. ~UNCHANGED vars  BY DEF vars
  <2>7. QED  BY <2>1, <2>2, <2>3, <2>4, <2>5, <2>6 DEF Next
<1>8. QED  BY <1>3, <1>4, <1>5, <1>6, <1>7
-----------------------------------------------------------------------------
(* Every item after a step.                                                  *)

ItemsKept ==
    /\ item' \in [Messages -> Items \cup {None}]
    /\ \A m \in Messages : item'[m] # None =>
          Len(item'[m].st) = Len(Steps[item'[m].action]) /\ ItemTrue(m)'

LEMMA OneItemChanges ==
  ASSUME MoveInv, [Next]_vars, NEW m \in Messages,
         item' \in [Messages -> Items \cup {None}],
         \A n \in Messages \ {m} : item'[n] = item[n],
         item'[m] # None => Len(item'[m].st) = Len(Steps[item'[m].action]) /\ ItemTrue(m)'
  PROVE  ItemsKept
<1>1. ASSUME NEW n \in Messages, n # m, item'[n] # None
      PROVE  Len(item'[n].st) = Len(Steps[item'[n].action]) /\ ItemTrue(n)'
  <2>1. item'[n] = item[n] /\ item[n] # None /\ LocKept(n)
    BY <1>1, LocStep
  <2>2. ItemTrue(n)'  BY <2>1, SameItem DEF MoveInv
  <2>3. QED  BY <2>1, <2>2 DEF MoveInv, PushType, Queued
<1>2. QED  BY <1>1 DEF ItemsKept

LEMMA NoItemChanges ==
  ASSUME MoveInv, [Next]_vars, UNCHANGED item
  PROVE  ItemsKept
<1>1. ASSUME NEW n \in Messages, item'[n] # None
      PROVE  Len(item'[n].st) = Len(Steps[item'[n].action]) /\ ItemTrue(n)'
  <2>1. item'[n] = item[n] /\ item[n] # None /\ LocKept(n)
    BY <1>1, LocStep
  <2>2. ItemTrue(n)'  BY <2>1, SameItem DEF MoveInv
  <2>3. QED  BY <2>1, <2>2 DEF MoveInv, PushType, Queued
<1>2. QED  BY <1>1 DEF ItemsKept, MoveInv, PushType

(* Inside a step there is one. *)
LEMMA InsideAStep ==
  ASSUME MoveInv, run # None, run.phase # "item"
  PROVE  /\ RunKnows(run, Item, at[M], last) /\ ~Item.audit /\ Item.code = "none"
         /\ ~AllSucceeded /\ OpenAt(Item, Step) /\ Step \in Nat
         /\ (run.phase \in Moving /\ Item.plan # {} => Item.st[Step] = "unknown")
         /\ Steps[Item.action][Step] = "move" <=> run.phase # "flags"
         /\ M \in Messages /\ Item = item[M] /\ Item # None
<1>1. RunKnows(run, Item, at[M], last)  BY DEF MoveInv, RunTrue
<1>2. PICK k \in DOMAIN Item.st :
        /\ OpenAt(Item, k)
        /\ (run.phase \in Moving /\ Item.plan # {} => Item.st[k] = "unknown")
        /\ Steps[Item.action][k] = "move" <=> run.phase # "flags"
  BY <1>1 DEF RunKnows
<1>3. Step = k /\ ~AllSucceeded /\ Step \in Nat
  <2>1. Step = k /\ ~AllSucceeded  BY <1>2, StepIsOpen DEF MoveInv
  <2>2. Step \in 1 .. Len(Item.st) + 1 /\ Len(Item.st) \in Nat
    BY StepIsOpen, HeadShape, ItemShape DEF MoveInv, Item
  <2>3. QED  BY <2>1, <2>2
<1>4. M \in Messages /\ Item = item[M] /\ Item # None
  BY HeadShape DEF MoveInv, Item
<1>5. QED  BY <1>1, <1>2, <1>3, <1>4 DEF RunKnows

(* An outcome is recorded and the plan kept. *)
LEMMA MarkKeepsItems ==
  ASSUME MoveInv, [Next]_vars, run # None, ~Item.audit, ~AllSucceeded,
         NEW s \in StepStatus, NEW c \in ErrorCodes, MarkedAs(M, s, c, Item.plan),
         s = "succeeded" /\ Steps[Item.action][Step] = "move" => Item.plan \cap at'[M] = {}
  PROVE  ItemsKept
<1>1. PICK m : m = M  OBVIOUS
<1>2. m \in Messages /\ item[m] # None /\ item[m] \in Items
      /\ item[m].st \in Seq(StepStatus) /\ Step \in DOMAIN item[m].st
      /\ Len(item[m].st) = Len(Steps[item[m].action])
  BY <1>1, HeadShape, ItemShape, StepIsOpen DEF MoveInv, OpenAt, Item, PushType, Queued
<1>3. LocKept(m)  BY <1>2, LocStep
<1>4. ItemTrue(m)'
  BY <1>1, <1>3, MarkedItemTrue DEF MoveInv
<1>5. Len(item'[m].st) = Len(Steps[item'[m].action])
  BY <1>1, <1>2 DEF MarkedAs
<1>6. QED  BY <1>1, <1>2, <1>4, <1>5, OneItemChanges DEF MarkedAs

(* The statuses and codes the steps record. *)
LEMMA Words ==
  /\ {"new", "pending", "failed", "unknown", "succeeded"} = StepStatus
  /\ {"none", "target_uid_missing", "other"} = ErrorCodes
BY DEF StepStatus, ErrorCodes

LEMMA FailureKeepsItems ==
  ASSUME MoveInv, [Next]_vars, run # None, run.phase # "item",
         NEW s \in {"failed", "unknown"}, NEW c \in ErrorCodes, Mark(s, c)
  PROVE  MarkedAs(M, s, c, Item.plan) /\ ItemsKept
<1>1. ~Item.audit /\ ~AllSucceeded /\ s \in StepStatus /\ s # "succeeded"
      /\ Item.plan \in SUBSET Locations
  BY InsideAStep, Words, ItemShape DEF MoveInv
<1>2. MarkedAs(M, s, c, Item.plan)  BY <1>1, MarkedItem DEF MoveInv
<1>3. QED  BY <1>1, <1>2, MarkKeepsItems

LEMMA MoveIsLast ==
  \A a \in Actions : \A k \in DOMAIN Steps[a] : Steps[a][k] = "move" => k = Len(Steps[a])
BY DEF Steps, Actions

(* A step starts: the plan is written down with the first of them. *)
PlanNow == IF Item.plan = {} THEN PlanLocations(M, Item.action) ELSE Item.plan

LEMMA StartKeepsItems ==
  ASSUME MoveInv, [Next]_vars, StartStep
  PROVE  /\ ItemsKept /\ run # None /\ ~AllSucceeded /\ ~Item.audit
         /\ PlanNow \subseteq Locations /\ MarkedAs(M, "pending", "none", PlanNow)
<1>1. PICK m : m = M  OBVIOUS
<1>2. run # None /\ ~AllSucceeded /\ ~Item.audit
  BY DEF StartStep, Running
<1>3. /\ m \in Messages /\ item[m] # None /\ item[m] \in Items /\ Item = item[m]
      /\ item[m].st \in Seq(StepStatus) /\ Step \in DOMAIN item[m].st
      /\ DOMAIN item[m].st = DOMAIN Steps[item[m].action]
      /\ Len(item[m].st) = Len(Steps[item[m].action])
      /\ item[m].action \in Actions /\ item[m].plan \subseteq Locations
      /\ DOMAIN item[m].st = 1 .. Len(item[m].st) /\ OpenAt(item[m], Step)
      /\ loc[m] \subseteq Locations /\ LocKept(m) /\ ItemTrue(m)
  BY <1>1, <1>2, HeadShape, ItemShape, StepIsOpen, LocStep
  DEF MoveInv, OpenAt, Item, PushType, Queued, ItemsTrue
<1> DEFINE p == PlanNow
<1>4. item' = [item EXCEPT ![M].st[Step] = "pending", ![M].code = "none", ![M].plan = p]
  BY DEF StartStep, PlanNow
<1>5. p \subseteq Locations  BY <1>1, <1>3 DEF PlanLocations, PlanNow
<1>6. MarkedAs(M, "pending", "none", p)
  <2> HIDE DEF p
  <2>1. QED  BY <1>2, <1>4, <1>5, Words, MarkedItem DEF MoveInv
<1>7. CASE Item.plan # {}
  <2>1. MarkedAs(M, "pending", "none", Item.plan)  BY <1>6, <1>7 DEF PlanNow
  <2>2. ItemsKept
    BY <1>2, <2>1, Words, MarkKeepsItems
  <2>3. QED  BY <1>2, <1>5, <1>6, <2>2
<1>8. CASE Item.plan = {}
  <2>1. p = PlanLocations(m, item[m].action) /\ p \subseteq loc[m]
    BY <1>1, <1>3, <1>8 DEF PlanLocations, PlanNow
  <2> HIDE DEF p
  <2>2. \A l \in p : l[1] # Target[item[m].action]
    BY <2>1, <1>3, StepsShape DEF PlanLocations, Actions
  <2>3. UNCHANGED <<loc, at, last>>  BY DEF StartStep, server
  <2>4. /\ item'[m].plan = p /\ item'[m].action = item[m].action /\ item'[m].audit = FALSE
        /\ item'[m].st = [item[m].st EXCEPT ![Step] = "pending"]
    BY <1>1, <1>2, <1>3, <1>6 DEF MarkedAs, ItemTrue, Items
  <2>5. MarkedAs(M, "pending", "none", item'[m].plan)  BY <1>6, <2>4
  <2>6. Ordered(item'[m])
    <3>1. ASSUME NEW a \in DOMAIN item'[m].st, NEW b \in DOMAIN item'[m].st,
                 a < b, item'[m].st[a] # "succeeded"
          PROVE  item'[m].st[b] = "new"
      <4>1. a \in 1 .. Len(item[m].st) /\ b \in 1 .. Len(item[m].st)
            /\ Len(item[m].st) \in Nat /\ Step \in 1 .. Len(item[m].st)
        BY <1>3, <2>4
      <4>2. a >= Step
        <5>1. CASE a < Step
          <6>1. a \in 1 .. Step - 1  BY <4>1, <5>1
          <6>2. item[m].st[a] = "succeeded"  BY <6>1, <1>3 DEF OpenAt
          <6>3. item'[m].st[a] = item[m].st[a]  BY <2>4, <4>1, <5>1, <1>3
          <6>4. QED  BY <6>2, <6>3, <3>1
        <5>2. QED  BY <4>1, <5>1
      <4>3. Step < b /\ b # Step  BY <4>1, <4>2, <3>1
      <4>4. item[m].st[b] = "new"
        BY <4>1, <4>3, <1>3 DEF ItemTrue, Ordered, OpenAt
      <4>5. QED  BY <4>3, <4>4, <2>4, <4>1, <1>3
    <3>2. QED  BY <3>1, <2>4 DEF Ordered
  <2>7. Tracked(item'[m], at'[m], loc'[m])
    BY <2>1, <2>2, <2>3, <2>4 DEF Tracked
  <2>8. Applied(item'[m], at'[m])
    <3>1. ASSUME NEW a \in DOMAIN item'[m].st, item'[m].st[a] = "succeeded",
                 Steps[item'[m].action][a] = "move"
          PROVE  FALSE
      <4>1. a \in 1 .. Len(item[m].st) /\ Step \in 1 .. Len(item[m].st)
            /\ Len(item[m].st) \in Nat
        BY <1>3, <2>4
      <4>2. a = Len(item[m].st)  BY <3>1, <4>1, <2>4, <1>3, MoveIsLast
      <4>3. a # Step  BY <3>1, <2>4, <1>3
      <4>4. Step < a  BY <4>1, <4>2, <4>3
      <4>5. item'[m].st[a] = item[m].st[a]  BY <2>4, <4>1, <4>3, <1>3
      <4>6. item[m].st[a] = "new"
        BY <4>1, <4>4, <1>3 DEF ItemTrue, Ordered, OpenAt
      <4>7. QED  BY <4>5, <4>6, <3>1
    <3>2. QED  BY <3>1 DEF Applied
  <2>9. \A l \in item'[m].plan : l[2] <= last'[l[1]]
    BY <2>1, <2>3, <2>4, <1>3 DEF MoveInv, UidsKnown
  <2>10. ItemTrue(m)'  BY <2>6, <2>7, <2>8, <2>9 DEF ItemTrue
  <2>11. Len(item'[m].st) = Len(Steps[item'[m].action])
    BY <2>4, <1>3
  <2>12. ItemsKept
    BY <1>1, <1>3, <1>6, <2>10, <2>11, OneItemChanges DEF MarkedAs
  <2>13. QED  BY <1>2, <1>5, <1>6, <2>12 DEF p
<1>9. QED  BY <1>7, <1>8

(* What a step of the push can do to the item at the head. *)
LEMMA StepKeepsItems ==
  ASSUME MoveInv, [Next]_vars, StepSucceeds
  PROVE  MarkedAs(M, "succeeded", "none", Item.plan) /\ ItemsKept
<1>1. /\ run # None /\ run.phase \in {"flags", "move"} /\ run.left = {}
      /\ Mark("succeeded", "none") /\ UNCHANGED at
  BY DEF StepSucceeds, server
<1>2. RunKnows(run, Item, at[M], last) /\ ~Item.audit /\ ~AllSucceeded
      /\ (Steps[Item.action][Step] = "move" <=> run.phase # "flags")
      /\ Item.plan \in SUBSET Locations
  BY <1>1, InsideAStep, ItemShape DEF MoveInv
<1>3. MarkedAs(M, "succeeded", "none", Item.plan)
  BY <1>1, <1>2, Words, MarkedItem DEF MoveInv
<1>4. Steps[Item.action][Step] = "move" => Item.plan \cap at'[M] = {}
  BY <1>1, <1>2 DEF RunKnows
<1>5. QED  BY <1>1, <1>2, <1>3, <1>4, Words, MarkKeepsItems

LEMMA UnknownKeepsItems ==
  ASSUME MoveInv, [Next]_vars, PersistRemoteOutcomeUnknown
  PROVE  MarkedAs(M, "unknown", "none", Item.plan) /\ ItemsKept
<1>1. run # None /\ run.phase = "mark" /\ Mark("unknown", "none")
  BY DEF PersistRemoteOutcomeUnknown, Running
<1>2. QED  BY <1>1, Words, FailureKeepsItems

LEMMA RecoveryKeepsItems ==
  ASSUME MoveInv, [Next]_vars, RecoverMove
  PROVE  /\ MarkedAs(M, "succeeded", "none", Item.plan) /\ ItemsKept
         /\ Item.code = "target_uid_missing" /\ UnknownMove(M) /\ run # None
         /\ M \in Messages /\ ~AllSucceeded /\ ~Item.audit
<1>1. /\ run # None /\ ~Item.audit /\ ~AllSucceeded /\ Item.st[Step] = "unknown"
      /\ RecoverTarget(M) # None /\ Mark("succeeded", "none") /\ UNCHANGED at
  BY DEF RecoverMove, Unknown, Running, server
<1>2. /\ M \in Messages /\ item[M] # None /\ Item = item[M]
      /\ Item.plan \in SUBSET Locations /\ Step \in DOMAIN Item.st /\ ItemTrue(M)
  BY <1>1, HeadShape, ItemShape, StepIsOpen DEF MoveInv, Item, OpenAt, ItemsTrue, Queued
<1>3. Item.code = "target_uid_missing" /\ Item.plan \cap loc[M] = {}
  BY <1>1, <1>2 DEF RecoverTarget, HasActivePlannedSource
<1>4. Item.plan \cap at'[M] = {}
  BY <1>1, <1>2, <1>3 DEF ItemTrue, Tracked
<1>5. MarkedAs(M, "succeeded", "none", Item.plan)
  BY <1>1, <1>2, Words, MarkedItem DEF MoveInv
<1>6. ItemsKept
  BY <1>1, <1>4, <1>5, Words, MarkKeepsItems
<1>7. QED  BY <1>1, <1>2, <1>3, <1>5, <1>6 DEF UnknownMove

LEMMA AuditKeepsItems ==
  ASSUME MoveInv, [Next]_vars, AuditFails
  PROVE  /\ ItemsKept /\ M \in Messages /\ run # None /\ item[M] # None
         /\ \A n \in Messages \ {M} : item'[n] = item[n]
         /\ item'[M] # None /\ item'[M].st = item[M].st /\ item'[M].seq = item[M].seq
         /\ \A k \in DOMAIN item[M].st : item[M].st[k] = "succeeded"
<1>1. PICK m : m = M  OBVIOUS
<1>2. run # None /\ (Item.audit \/ AllSucceeded) /\ item' = [item EXCEPT ![M].audit = TRUE]
  BY DEF AuditFails, Running
<1>3. /\ m \in Messages /\ item[m] # None /\ item[m] \in Items /\ Item = item[m]
      /\ item[m].st \in Seq(StepStatus) /\ ItemTrue(m) /\ LocKept(m)
      /\ Len(item[m].st) = Len(Steps[item[m].action])
  BY <1>1, <1>2, HeadShape, ItemShape, LocStep DEF MoveInv, Item, PushType, Queued, ItemsTrue
<1>4. \A k \in DOMAIN item[m].st : item[m].st[k] = "succeeded"
  BY <1>1, <1>2, <1>3, StepIsOpen DEF MoveInv, ItemTrue, Ordered
<1>5. /\ item'[m] = [item[m] EXCEPT !.audit = TRUE] /\ item'[m] \in Items
      /\ item' \in [Messages -> Items \cup {None}]
      /\ \A n \in Messages \ {m} : item'[n] = item[n]
  BY <1>1, <1>2, <1>3 DEF MoveInv, PushType, Items
<1>6. /\ item'[m].action = item[m].action /\ item'[m].plan = item[m].plan
      /\ item'[m].st = item[m].st /\ item'[m].seq = item[m].seq /\ item'[m] # None
  BY <1>3, <1>5, NoneAssumption DEF Items
<1>7. ItemTrue(m)'
  <2>1. UNCHANGED <<at, loc, last>>  BY DEF AuditFails, server
  <2>2. Ordered(item'[m])  BY <1>3, <1>4, <1>6 DEF Ordered, ItemTrue
  <2>3. Tracked(item'[m], at'[m], loc'[m])  BY <2>1, <1>3, <1>6 DEF Tracked, ItemTrue
  <2>4. Applied(item'[m], at'[m])  BY <2>1, <1>3, <1>6 DEF Applied, ItemTrue
  <2>5. \A l \in item'[m].plan : l[2] <= last'[l[1]]  BY <2>1, <1>3, <1>6 DEF ItemTrue
  <2>6. QED  BY <2>2, <2>3, <2>4, <2>5 DEF ItemTrue
<1>8. Len(item'[m].st) = Len(Steps[item'[m].action])  BY <1>3, <1>6
<1>9. ItemsKept  BY <1>3, <1>5, <1>7, <1>8, OneItemChanges
<1>10. QED  BY <1>1, <1>2, <1>3, <1>4, <1>5, <1>6, <1>9

LEMMA FinishKeepsItems ==
  ASSUME MoveInv, [Next]_vars, FinishItem
  PROVE  /\ ItemsKept /\ M \in Messages /\ run # None /\ item'[M] = None
         /\ \A n \in Messages \ {M} : item'[n] = item[n]
         /\ \A k \in DOMAIN item[M].st : item[M].st[k] = "succeeded"
<1>1. PICK m : m = M  OBVIOUS
<1>2. run # None /\ (Item.audit \/ AllSucceeded) /\ item' = [item EXCEPT ![M] = None]
  BY DEF FinishItem, Running
<1>3. m \in Messages /\ item[m] # None /\ Item = item[m] /\ ItemTrue(m)
  BY <1>1, <1>2, HeadShape DEF MoveInv, Item, Queued, ItemsTrue
<1>4. \A k \in DOMAIN item[m].st : item[m].st[k] = "succeeded"
  BY <1>1, <1>2, <1>3, StepIsOpen DEF MoveInv, ItemTrue, Ordered
<1>5. /\ item'[m] = None /\ item' \in [Messages -> Items \cup {None}]
      /\ \A n \in Messages \ {m} : item'[n] = item[n]
  BY <1>1, <1>2, <1>3 DEF MoveInv, PushType
<1>6. ItemsKept  BY <1>3, <1>5, OneItemChanges
<1>7. QED  BY <1>1, <1>2, <1>3, <1>4, <1>5, <1>6

LEMMA CommandKeepsItems ==
  ASSUME MoveInv, [Next]_vars, NEW m \in Messages, SpamMessage(m) \/ UnspamMessage(m)
  PROVE  ItemsKept /\ CommandShape(m)
<1>1. CommandShape(m)  BY CommandsShape DEF MoveInv
<1>2. /\ item' \in [Messages -> Items \cup {None}]
      /\ \A n \in Messages \ {m} : item'[n] = item[n]
  BY <1>1 DEF CommandShape
<1>3. CASE item'[m] = item[m]
  <2>1. item[m] # None => ItemTrue(m)' /\ Len(item[m].st) = Len(Steps[item[m].action])
    BY <1>3, LocStep, SameItem DEF MoveInv, PushType, Queued
  <2>2. QED  BY <1>1, <1>2, <1>3, <2>1, OneItemChanges
<1>4. CASE item'[m] = None
  BY <1>1, <1>2, <1>4, OneItemChanges
<1>5. CASE \E a \in Actions, seq \in Nat : item'[m] = NewItem(a, seq)
  <2>1. PICK a \in Actions, seq \in Nat : item'[m] = NewItem(a, seq)  BY <1>5
  <2>2. /\ item'[m].action = a /\ item'[m].plan = {} /\ ~item'[m].audit
        /\ Len(item'[m].st) = Len(Steps[a])
        /\ \A k \in DOMAIN item'[m].st : item'[m].st[k] = "new"
    BY <2>1, NewItemShape
  <2>3. ItemTrue(m)'
    <3>1. Ordered(item'[m])  BY <2>2 DEF Ordered
    <3>2. Tracked(item'[m], at'[m], loc'[m])  BY <2>2 DEF Tracked
    <3>3. Applied(item'[m], at'[m])  BY <2>2 DEF Applied
    <3>4. QED  BY <2>2, <3>1, <3>2, <3>3 DEF ItemTrue
  <2>4. QED  BY <1>1, <1>2, <2>2, <2>3, OneItemChanges
<1>6. QED  BY <1>1, <1>3, <1>4, <1>5 DEF CommandShape

LEMMA PlanKeepsItems ==
  ASSUME MoveInv, [Next]_vars, BeginPush
  PROVE  /\ ItemsKept
         /\ \A m \in Messages : item'[m] = item[m] \/ (item'[m] = None /\ ~UnknownMove(m))
<1>1. /\ item' = [m \in Messages |-> IF m \in {n \in Queued : PlanItem(n)} THEN item[m] ELSE None]
      /\ PlanBuilds
  BY DEF BeginPush
<1>2. item' \in [Messages -> Items \cup {None}]  BY <1>1 DEF MoveInv, PushType
<1>3. ASSUME NEW n \in Messages, item'[n] # None
      PROVE  Len(item'[n].st) = Len(Steps[item'[n].action]) /\ ItemTrue(n)'
  <2>1. item'[n] = item[n] /\ item[n] # None /\ LocKept(n)
    BY <1>1, <1>3, LocStep
  <2>2. ItemTrue(n)'  BY <2>1, SameItem DEF MoveInv
  <2>3. QED  BY <2>1, <2>2 DEF MoveInv, PushType, Queued
<1>4. ASSUME NEW m \in Messages, item'[m] # item[m]
      PROVE  item'[m] = None /\ ~UnknownMove(m)
  <2>1. item'[m] = None /\ ~(m \in Queued /\ PlanItem(m))  BY <1>1, <1>4
  <2>2. ASSUME UnknownMove(m)  PROVE  FALSE
    <3>1. m \in Queued /\ HasStartedEffects(item[m])
      BY <2>2 DEF UnknownMove, HasStartedEffects, Queued
    <3>2. PlanItem(m)  BY <1>1, <3>1 DEF PlanBuilds, PlanItem
    <3>3. QED  BY <2>1, <3>1, <3>2
  <2>3. QED  BY <2>1, <2>2
<1>5. QED  BY <1>2, <1>3, <1>4 DEF ItemsKept
-----------------------------------------------------------------------------
(* What a step does to the push under way.                                   *)

(* The push is at the same item, in a phase with locations left to see.      *)
Goes(p, L) ==
    /\ run' \in Runs /\ run' # None /\ run'.todo = run.todo /\ run'.phase = p
    /\ run'.left = L

LEMMA GotoGoes ==
  ASSUME run \in Runs, NEW p \in Phases, NEW L \in SUBSET Locations, Goto(p, L)
  PROVE  Goes(p, L) /\ run'.to = None
<1>1. run' \in Runs  BY DEF Goto, Runs
<1>2. run' # None  BY <1>1, NoneAssumption
<1>3. QED  BY <1>1, <1>2 DEF Goto, Goes, Runs

LEMMA RequestGoes ==
  ASSUME run \in Runs, NEW p \in Phases, NEW l \in Locations,
         NEW t \in Locations \cup {None},
         run' = [run EXCEPT !.phase = p, !.from = l, !.to = t]
  PROVE  Goes(p, run.left) /\ run'.from = l /\ run'.to = t
<1>1. run' \in Runs  BY DEF Runs
<1>2. run' # None  BY <1>1, NoneAssumption
<1>3. QED  BY <1>1, <1>2 DEF Goes, Runs

(* The items before a push. *)
LEMMA TodoShape ==
  ASSUME MoveInv, run # None
  PROVE  /\ run.todo \in Seq(Messages) /\ \A i \in DOMAIN run.todo : run.todo[i] \in Messages
         /\ Len(run.todo) \in Nat /\ DOMAIN run.todo = 1 .. Len(run.todo) /\ Len(run.todo) >= 1
<1>1. run.todo \in Seq(Messages) /\ run.todo # <<>>  BY HeadShape DEF MoveInv
<1>2. QED  BY <1>1

(* The push knows what it needs inside a step. *)
LEMMA StepKnown ==
  ASSUME NEW m, m = M, run'.todo = run.todo,
         run'.phase # "item" => RunKnows(run', item'[m], at'[m], last')
  PROVE  RunTrue'
BY DEF RunTrue, Item, M

(* A source stays away once it is gone. *)
LEMMA PlanOnlyShrinks ==
  ASSUME MoveInv, [Next]_vars, NEW m \in Messages, item[m] # None
  PROVE  /\ item[m].plan \cap at'[m] \subseteq at[m]
         /\ \A l \in item[m].plan : l \in Locations /\ l[1] # Target[item[m].action] /\ ~Unused(l)
<1>1. /\ ItemTrue(m) /\ item[m].plan \subseteq Locations /\ last \in [Mailboxes -> Nat]
      /\ \A l \in at'[m] : l \in at[m] \/ Unused(l)
  BY ItemShape, ServerGrows DEF MoveInv, ItemsTrue, Queued, PushType
<1>2. \A l \in item[m].plan : l[1] \in Mailboxes /\ l[2] \in Nat /\ l[2] <= last[l[1]]
  BY <1>1 DEF ItemTrue, Locations
<1>3. \A l \in item[m].plan : ~Unused(l)
  BY <1>1, <1>2 DEF Unused
<1>4. QED  BY <1>1, <1>3 DEF ItemTrue, Tracked
-----------------------------------------------------------------------------
(* The copies after a step.                                                  *)

LEMMA CountsShape ==
  ASSUME PushType, NEW m \in Messages
  PROVE  /\ Base(m) \in Nat /\ IsFiniteSet(at[m]) /\ Cardinality(at[m]) \in Nat
         /\ (UNCHANGED foreign => Base(m)' = Base(m))
         /\ (foreign' = foreign + 1 => Base(m)' = Base(m) + 1)
<1>1. Cardinality(Copies[m]) \in Nat  BY MessagePushAssumption, FS_CardinalityType
<1>2. IsFiniteSet(at[m]) /\ Cardinality(at[m]) \in Nat /\ foreign \in Nat
  BY FS_CardinalityType DEF PushType
<1>3. QED  BY <1>1, <1>2 DEF Base

(* A message with no copy too many. *)
LEMMA ExactIsCounted ==
  ASSUME NEW m \in Messages, IsFiniteSet(at'[m]), Base(m)' \in Nat,
         Cardinality(at'[m]) <= Base(m)'
  PROVE  Counted(m)'
<1>1. /\ Cardinality(at'[m]) \in Nat /\ Cardinality(at'[m] \ {run'.from}) \in Nat
      /\ Cardinality(at'[m] \ {run'.from}) <= Cardinality(at'[m])
  BY Fewer
<1>2. QED  BY <1>1 DEF Counted

(* A message of which the copies, the item and the step under way stay. *)
LEMMA CountedStays ==
  ASSUME MoveInv, NEW m \in Messages, at'[m] = at[m], UNCHANGED foreign,
         Settled(m)' => Settled(m), ~Working(m, {"expunge"})'
  PROVE  Counted(m)'
<1>1. Counted(m) /\ Base(m)' = Base(m)
  BY CountsShape DEF MoveInv, CopiesCounted
<1>2. QED  BY <1>1 DEF Counted
-----------------------------------------------------------------------------
(* A step of the push concerns the item at the head.                         *)

Done == run' \in Runs \cup {None} /\ TodoQueued' /\ RunTrue' /\ CopiesCounted'

(* What the step leaves alone. *)
OnlyHead(m) ==
    /\ m = M /\ run # None /\ UNCHANGED foreign
    /\ \A n \in Messages \ {m} : item'[n] = item[n] /\ at'[n] = at[n]

LEMMA OthersCounted ==
  ASSUME MoveInv, NEW m, OnlyHead(m), Counted(m)',
         run' = None \/ run'.phase = "item" \/ run'.todo = run.todo
  PROVE  CopiesCounted'
<1>1. ASSUME NEW n \in Messages, n # m  PROVE  Counted(n)'
  <2>1. at'[n] = at[n] /\ item'[n] = item[n] /\ UNCHANGED foreign
    BY <1>1 DEF OnlyHead
  <2>2. ~Working(n, {"expunge"})' /\ ~Working(n, {"flags", "mark", "move", "relocate"})'
    BY <1>1 DEF Working, M, OnlyHead
  <2>3. Settled(n)' => Settled(n)
    BY <2>1, <2>2 DEF Settled, UnknownMove
  <2>4. QED  BY <2>1, <2>2, <2>3, CountedStays
<1>2. QED  BY <1>1 DEF CopiesCounted

LEMMA GoesOn ==
  ASSUME MoveInv, NEW m, OnlyHead(m), item'[m] # None, NEW p, NEW L, Goes(p, L),
         p # "item" => RunKnows(run', item'[m], at'[m], last'), Counted(m)'
  PROVE  Done
<1>1. run' \in Runs /\ run' # None /\ run'.todo = run.todo /\ run'.phase = p
  BY DEF Goes
<1>2. m = M /\ run # None  BY DEF OnlyHead
<1>3. TodoQueued'
  <2>1. /\ \A i \in DOMAIN run.todo : run.todo[i] \in Messages /\ item[run.todo[i]] # None
        /\ \A i, j \in DOMAIN run.todo : run.todo[i] = run.todo[j] => i = j
        /\ run.todo # <<>>
    BY <1>2, TodoShape DEF MoveInv, TodoQueued
  <2>2. \A i \in DOMAIN run.todo : item'[run.todo[i]] # None
    BY <2>1 DEF OnlyHead
  <2>3. QED  BY <1>1, <2>1, <2>2 DEF TodoQueued
<1>4. RunTrue'  BY <1>1, <1>2, StepKnown
<1>5. CopiesCounted'  BY <1>1, OthersCounted
<1>6. QED  BY <1>1, <1>3, <1>4, <1>5 DEF Done

LEMMA Stops ==
  ASSUME MoveInv, NEW m, OnlyHead(m), run' = None, Counted(m)'
  PROVE  Done
<1>1. CopiesCounted'  BY OthersCounted
<1>2. QED  BY <1>1 DEF Done, TodoQueued, RunTrue

(* Between the requests of a step there is no copy too many. *)
LEMMA HeadIsExact ==
  ASSUME MoveInv, NEW m, m = M, run # None,
         \/ run.phase \in {"flags", "mark", "move", "relocate"}
         \/ ~UnknownMove(m) \/ item[m].code = "target_uid_missing"
  PROVE  m \in Messages /\ Cardinality(at[m]) <= Base(m)
<1>1. m \in Messages  BY HeadShape DEF MoveInv
<1>2. Settled(m)  BY DEF Settled, Working
<1>3. QED  BY <1>1, <1>2 DEF MoveInv, CopiesCounted, Counted

(* Nothing changes on the server. *)
LEMMA ExactStays ==
  ASSUME MoveInv, [Next]_vars, NEW m \in Messages, Cardinality(at[m]) <= Base(m),
         at'[m] = at[m], UNCHANGED foreign
  PROVE  Counted(m)'
<1>1. Base(m) \in Nat /\ Base(m)' = Base(m) /\ IsFiniteSet(at[m])
  BY CountsShape DEF MoveInv
<1>2. QED  BY <1>1, ExactIsCounted

LEMMA MarkedStep ==
  ASSUME MoveInv, run # None, ~AllSucceeded, NEW m, m = M,
         NEW s, NEW c, NEW p, MarkedAs(m, s, c, p)
  PROVE  /\ m \in Messages /\ item[m] # None /\ item'[m] # None /\ Item = item[m]
         /\ Step \in DOMAIN item'[m].st /\ item'[m].st[Step] = s
         /\ s # "succeeded" => OpenAt(item'[m], Step)
         /\ item'[m].action = Item.action /\ item'[m].plan = p /\ item'[m].code = c
         /\ item'[m].audit = Item.audit
         /\ s = "unknown" => UnknownMove(m)'
<1>1. /\ m \in Messages /\ item[m] # None /\ Item = item[m] /\ OpenAt(Item, Step)
      /\ Item.st \in Seq(StepStatus) /\ DOMAIN Item.st = 1 .. Len(Item.st)
      /\ Len(Item.st) \in Nat
  BY HeadShape, ItemShape, StepIsOpen DEF MoveInv, Item
<1>2. /\ item'[m].st = [Item.st EXCEPT ![Step] = s] /\ item'[m] # None
      /\ item'[m].action = Item.action /\ item'[m].plan = p /\ item'[m].code = c
      /\ item'[m].audit = Item.audit
  BY <1>1 DEF MarkedAs
<1>3. Step \in DOMAIN item'[m].st /\ item'[m].st[Step] = s
  BY <1>1, <1>2 DEF OpenAt
<1>4. \A j \in 1 .. Step - 1 : item'[m].st[j] = "succeeded"
  BY <1>1, <1>2 DEF OpenAt
<1>5. QED  BY <1>1, <1>2, <1>3, <1>4 DEF OpenAt, UnknownMove

(* Before it starts, a step has no outcome, and no other step has one either. *)
LEMMA OtherSteps ==
  ASSUME MoveInv, run # None, ~AllSucceeded, Item.st[Step] # "unknown",
         NEW m, m = M
  PROVE  ~UnknownMove(m)
<1>1. /\ m \in Messages /\ item[m] # None /\ Item = item[m] /\ OpenAt(Item, Step)
      /\ DOMAIN Item.st = 1 .. Len(Item.st) /\ Len(Item.st) \in Nat /\ Ordered(Item)
  BY HeadShape, ItemShape, StepIsOpen DEF MoveInv, Item, ItemsTrue, Queued, ItemTrue
<1>2. ASSUME NEW k \in DOMAIN Item.st  PROVE  Item.st[k] # "unknown"
  <2>1. CASE k < Step  BY <2>1, <1>1 DEF OpenAt
  <2>2. CASE k > Step  BY <2>2, <1>1 DEF OpenAt, Ordered
  <2>3. QED  BY <2>1, <2>2, <1>1 DEF OpenAt
<1>3. QED  BY <1>1, <1>2 DEF UnknownMove

LEMMA StartIsDone ==
  ASSUME MoveInv, [Next]_vars, StartStep
  PROVE  Done
<1>1. PICK m : m = M  OBVIOUS
<1>2. /\ run # None /\ ~AllSucceeded /\ ~Item.audit /\ Item.st[Step] # "unknown"
      /\ UNCHANGED <<at, last, foreign>>
      /\ MarkedAs(m, "pending", "none", PlanNow) /\ PlanNow \subseteq Locations
  BY <1>1, StartKeepsItems DEF StartStep, server, bounds
<1>3. OnlyHead(m)  BY <1>1, <1>2 DEF OnlyHead, MarkedAs
<1>4. /\ m \in Messages /\ item[m] # None /\ item'[m] # None /\ Item = item[m]
      /\ OpenAt(item'[m], Step) /\ Step \in DOMAIN item'[m].st
      /\ item'[m].st[Step] = "pending"
      /\ item'[m].action = Item.action /\ item'[m].plan = PlanNow /\ item'[m].code = "none"
      /\ ~item'[m].audit
  BY <1>1, <1>2, MarkedStep
<1>5. Counted(m)'
  <2>1. ~UnknownMove(m)  BY <1>1, <1>2, OtherSteps
  <2>2. QED  BY <1>1, <1>2, <1>4, <2>1, HeadIsExact, ExactStays
<1>6. \E p \in {"flags", "mark", "move"} :
        /\ Goto(p, PlanNow) /\ (Steps[Item.action][Step] = "move" <=> p # "flags")
        /\ p = "move" => \A l \in PlanNow : l[1] = Box
  <2>1. Item.action \in Actions /\ Step \in DOMAIN Steps[Item.action]
    BY <1>2, <1>4, StepIsOpen, ItemShape DEF MoveInv, OpenAt
  <2>2. Steps[Item.action][Step] \in {"flags", "move"}
    BY <2>1 DEF Steps, Actions
  <2>3. IF Steps[Item.action][Step] = "flags" THEN Goto("flags", PlanNow)
        ELSE IF \E l \in PlanNow : l[1] # Box THEN Goto("mark", PlanNow)
        ELSE Goto("move", PlanNow)
    BY DEF StartStep, PlanNow
  <2>4. CASE Steps[Item.action][Step] = "flags"
    BY <2>3, <2>4
  <2>5. CASE Steps[Item.action][Step] = "move"
    BY <2>3, <2>5
  <2>6. QED  BY <2>2, <2>4, <2>5
<1>7. PICK p \in {"flags", "mark", "move"} :
        /\ Goto(p, PlanNow) /\ (Steps[Item.action][Step] = "move" <=> p # "flags")
        /\ p = "move" => \A l \in PlanNow : l[1] = Box
  BY <1>6
<1>8. Goes(p, PlanNow) /\ run'.to = None
  BY <1>2, <1>7, GotoGoes, HeadShape DEF MoveInv, Phases
<1>9. p = "move" => PlanNow = {}
  <2>1. ItemTrue(m)'
    BY <1>4, StartKeepsItems DEF ItemsKept
  <2>2. \A l \in PlanNow : l[1] # Box
    BY <2>1, <1>4 DEF ItemTrue, Tracked, Box
  <2>3. QED  BY <2>2, <1>7
<1>10. RunKnows(run', item'[m], at'[m], last')
  <2>1. run'.phase = p /\ run'.left = PlanNow  BY <1>8 DEF Goes
  <2>2. OpenAt(item'[m], Step) /\ (p \in Moving => item'[m].plan = {})
    BY <1>4, <1>9, <1>7 DEF Moving
  <2>3. QED  BY <1>4, <1>7, <1>8, <2>1, <2>2 DEF RunKnows
<1>11. QED  BY <1>3, <1>4, <1>5, <1>8, <1>10, GoesOn

(* Inside a step, with nothing changed but what the push knows. *)
LEMMA SeenIsDone ==
  ASSUME MoveInv, [Next]_vars, run # None, run.phase \in {"flags", "move", "relocate"},
         UNCHANGED <<item, at, last, foreign>>, NEW p \in {"flags", "move"},
         NEW L \in SUBSET run.left, Goto(p, L), run.phase = "flags" <=> p = "flags",
         p = "move" => (run.left \ L) \cap at[M] = {}
  PROVE  Done
<1>1. PICK m : m = M  OBVIOUS
<1>2. /\ RunKnows(run, Item, at[m], last) /\ m \in Messages /\ Item = item[m] /\ Item # None
      /\ ~Item.audit /\ Item.code = "none" /\ OpenAt(Item, Step)
      /\ (run.phase \in Moving /\ Item.plan # {} => Item.st[Step] = "unknown")
      /\ Steps[Item.action][Step] = "move" <=> run.phase # "flags"
  BY <1>1, InsideAStep
<1>3. OnlyHead(m)  BY <1>1 DEF OnlyHead
<1>4. Goes(p, L) /\ run'.to = None
  BY HeadShape, GotoGoes DEF MoveInv, Phases
<1>5. Counted(m)'  BY <1>1, HeadIsExact, ExactStays
<1>6. RunKnows(run', item'[m], at'[m], last')
  <2>1. run'.phase = p /\ run'.left = L  BY <1>4 DEF Goes
  <2>2. p # "flags" => (Item.plan \ L) \cap at[m] = {}
    BY <1>1, <1>2 DEF RunKnows
  <2>3. L \subseteq Item.plan /\ Step \in DOMAIN Item.st  BY <1>2 DEF RunKnows, OpenAt
  <2>4. p \in Moving <=> run.phase \in Moving  BY DEF Moving
  <2>5. QED  BY <1>2, <1>4, <2>1, <2>2, <2>3, <2>4 DEF RunKnows
<1>7. QED  BY <1>2, <1>3, <1>4, <1>5, <1>6, GoesOn

LEMMA AddFlagsIsDone ==
  ASSUME MoveInv, [Next]_vars, NEW l, AddFlags(l)
  PROVE  Done
<1>1. /\ run # None /\ run.phase = "flags" /\ Goto("flags", run.left \ {l})
      /\ UNCHANGED <<item, at, last, foreign>>
  BY DEF AddFlags, Running, server, bounds
<1>2. run.left \ {l} \in SUBSET run.left  OBVIOUS
<1>3. QED  BY <1>1, <1>2, SeenIsDone

LEMMA SkipIsDone ==
  ASSUME MoveInv, [Next]_vars, NEW l, SkipLocation(l)
  PROVE  Done
<1>1. /\ run # None /\ run.phase = "move" /\ Goto("move", run.left \ {l}) /\ l \in run.left
      /\ l[1] = Box \/ AlreadyMoved(M, l, Box)
      /\ UNCHANGED <<item, at, last, foreign>>
  BY DEF SkipLocation, Running, server, bounds
<1>2. l \notin at[M]
  <2>1. /\ RunKnows(run, Item, at[M], last) /\ M \in Messages /\ Item = item[M] /\ Item # None
    BY <1>1, InsideAStep
  <2>2. ItemTrue(M)  BY <2>1 DEF MoveInv, ItemsTrue, Queued
  <2>3. l \in Item.plan  BY <1>1, <2>1 DEF RunKnows
  <2>4. l[1] # Box /\ (l \in at[M] => l \in loc[M])
    BY <2>1, <2>2, <2>3 DEF ItemTrue, Tracked, Box
  <2>5. QED  BY <1>1, <2>4 DEF AlreadyMoved
<1>3. run.left \ {l} \in SUBSET run.left  OBVIOUS
<1>4. (run.left \ (run.left \ {l})) \cap at[M] = {}  BY <1>2
<1>5. QED  BY <1>1, <1>3, <1>4, SeenIsDone

LEMMA RelocateIsDone ==
  ASSUME MoveInv, [Next]_vars, RelocateMessage
  PROVE  Done
<1>1. /\ run # None /\ run.phase = "relocate" /\ Goto("move", run.left \ {run.from})
      /\ UNCHANGED <<item, at, last, foreign>>
  BY DEF RelocateMessage, Running, server, bounds
<1>2. run.from \notin at[M]
  BY <1>1, InsideAStep DEF RunKnows
<1>3. run.left \ {run.from} \in SUBSET run.left  OBVIOUS
<1>4. (run.left \ (run.left \ {run.from})) \cap at[M] = {}  BY <1>2
<1>5. QED  BY <1>1, <1>3, <1>4, SeenIsDone

LEMMA UnknownIsDone ==
  ASSUME MoveInv, [Next]_vars, PersistRemoteOutcomeUnknown
  PROVE  Done
<1>1. PICK m : m = M  OBVIOUS
<1>2. /\ run # None /\ run.phase = "mark" /\ Goto("move", run.left)
      /\ UNCHANGED <<at, last, foreign>> /\ MarkedAs(m, "unknown", "none", Item.plan)
  BY <1>1, UnknownKeepsItems DEF PersistRemoteOutcomeUnknown, Running, server, bounds
<1>3. /\ RunKnows(run, Item, at[m], last) /\ ~Item.audit /\ ~AllSucceeded
      /\ Steps[Item.action][Step] = "move"
  BY <1>1, <1>2, InsideAStep
<1>4. /\ m \in Messages /\ item[m] # None /\ item'[m] # None
      /\ Step \in DOMAIN item'[m].st /\ item'[m].st[Step] = "unknown"
      /\ OpenAt(item'[m], Step) /\ item'[m].action = Item.action
      /\ item'[m].plan = Item.plan /\ item'[m].code = "none" /\ ~item'[m].audit
  BY <1>1, <1>2, <1>3, MarkedStep
<1>5. OnlyHead(m)  BY <1>1, <1>2 DEF OnlyHead, MarkedAs
<1>6. Goes("move", run.left) /\ run'.to = None
  BY <1>2, HeadShape, GotoGoes DEF MoveInv, Phases
<1>7. Counted(m)'  BY <1>1, <1>2, HeadIsExact, ExactStays
<1>8. RunKnows(run', item'[m], at'[m], last')
  <2>1. run'.phase = "move" /\ run'.left = run.left  BY <1>6 DEF Goes
  <2>2. QED  BY <1>2, <1>3, <1>4, <1>6, <2>1 DEF RunKnows, Moving
<1>9. QED  BY <1>4, <1>5, <1>6, <1>7, <1>8, GoesOn

LEMMA SuccessIsDone ==
  ASSUME MoveInv, [Next]_vars, StepSucceeds
  PROVE  Done
<1>1. PICK m : m = M  OBVIOUS
<1>2. /\ run # None /\ run.phase \in {"flags", "move"} /\ Goto("item", {})
      /\ UNCHANGED <<at, foreign>> /\ MarkedAs(m, "succeeded", "none", Item.plan)
  BY <1>1, StepKeepsItems DEF StepSucceeds, server, bounds
<1>3. ~AllSucceeded /\ m \in Messages  BY <1>1, <1>2, InsideAStep
<1>4. OnlyHead(m) /\ item'[m] # None  BY <1>1, <1>2 DEF OnlyHead, MarkedAs
<1>5. Goes("item", {})  BY <1>2, HeadShape, GotoGoes DEF MoveInv, Phases
<1>6. Counted(m)'  BY <1>1, <1>2, <1>3, HeadIsExact, ExactStays DEF MarkedAs
<1>7. QED  BY <1>4, <1>5, <1>6, GoesOn

(* A request fails, or is not answered. *)
LEMMA FailureIsDone ==
  ASSUME MoveInv, [Next]_vars, run # None, run.phase # "item",
         NEW s \in {"failed", "unknown"}, NEW c \in ErrorCodes, StepFails(s, c),
         \A n \in Messages \ {M} : at'[n] = at[n], UNCHANGED foreign,
         \/ Cardinality(at'[M]) <= Base(M)
         \/ s = "unknown" /\ c = "other" /\ Cardinality(at'[M]) <= Base(M) + 1
  PROVE  Done /\ ItemsKept
<1>1. PICK m : m = M  OBVIOUS
<1>2. /\ ItemsKept /\ MarkedAs(m, s, c, Item.plan) /\ run' = None
  BY <1>1, FailureKeepsItems DEF StepFails
<1>3. ~AllSucceeded  BY InsideAStep
<1>4. /\ m \in Messages /\ item'[m] # None /\ item'[m].code = c
      /\ s = "unknown" => UnknownMove(m)'
  BY <1>1, <1>2, <1>3, MarkedStep
<1>5. OnlyHead(m)  BY <1>1, <1>2 DEF OnlyHead, MarkedAs
<1>6. Base(m) \in Nat /\ Base(m)' = Base(m) /\ IsFiniteSet(at'[m])
  BY <1>4, CountsShape, ServerGrows DEF MoveInv
<1>7. Counted(m)'
  <2>1. CASE Cardinality(at'[m]) <= Base(m)
    BY <2>1, <1>4, <1>6, ExactIsCounted
  <2>2. CASE s = "unknown" /\ c = "other" /\ Cardinality(at'[m]) <= Base(m) + 1
    <3>1. ~Working(m, {"expunge"})' /\ ~Working(m, {"flags", "mark", "move", "relocate"})'
      BY <1>2 DEF Working
    <3>2. ~Settled(m)'  BY <3>1, <1>4, <2>2 DEF Settled
    <3>3. QED  BY <3>1, <3>2, <2>2, <1>6 DEF Counted
  <2>3. QED  BY <2>1, <2>2, <1>1
<1>8. QED  BY <1>2, <1>5, <1>7, Stops

LEMMA PlacedCopies ==
  ASSUME PushType, NEW m \in Messages, NEW S, NEW t, at'[m] = (at[m] \ S) \cup {t}
  PROVE  /\ Cardinality(at[m]) \in Nat /\ IsFiniteSet(at'[m]) /\ Cardinality(at'[m]) \in Nat
         /\ Cardinality(at'[m]) <= Cardinality(at[m]) + 1
         /\ \A l \in at[m] : S = {l} => Cardinality(at'[m]) <= Cardinality(at[m])
<1>1. /\ IsFiniteSet(at[m]) /\ Cardinality(at[m]) \in Nat /\ at[m] \ S \subseteq at[m]
  BY FS_CardinalityType DEF PushType
<1>2. /\ IsFiniteSet(at[m] \ S) /\ Cardinality(at[m] \ S) \in Nat
      /\ Cardinality(at[m] \ S) <= Cardinality(at[m])
  BY <1>1, Fewer
<1>3. /\ IsFiniteSet(at'[m]) /\ Cardinality(at'[m]) \in Nat
      /\ Cardinality(at'[m]) <= Cardinality(at[m] \ S) + 1
  BY <1>2, OneMore
<1>4. ASSUME NEW l \in at[m], S = {l}  PROVE  Cardinality(at[m] \ S) + 1 = Cardinality(at[m])
  <2>1. Cardinality(at[m] \ {l}) + 1 = Cardinality(at[m])  BY <1>1, OneLess
  <2>2. QED  BY <2>1, <1>4
<1> DEFINE c == Cardinality(at[m])
           d == Cardinality(at[m] \ S)
           e == Cardinality(at'[m])
<1>5. /\ c \in Nat /\ d \in Nat /\ e \in Nat /\ d <= c /\ e <= d + 1
      /\ \A l \in at[m] : S = {l} => d + 1 = c
  BY <1>1, <1>2, <1>3, <1>4
<1> HIDE DEF c, d, e
<1>6. e <= c + 1 /\ \A l \in at[m] : S = {l} => e <= c  BY <1>5
<1>7. QED  BY <1>3, <1>5, <1>6 DEF c, e

(* The outcome of a move is known, or where the message is is not. *)
LEMMA MovedIsDone ==
  ASSUME MoveInv, [Next]_vars, run # None, run.phase \in {"move", "expunge"},
         NEW l \in run.left, NEW found, Moved(l, found),
         \A n \in Messages \ {M} : at'[n] = at[n], UNCHANGED foreign,
         Cardinality(at'[M]) <= Base(M), l \notin at'[M],
         \/ found = None
         \/ found \in Locations /\ found[1] = Box /\ found[2] <= last'[found[1]]
  PROVE  Done /\ ItemsKept
<1>1. PICK m : m = M  OBVIOUS
<1>2. CASE found = None
  <2>1. StepFails("unknown", "target_uid_missing")  BY <1>2 DEF Moved
  <2>2. QED  BY <2>1, Words, FailureIsDone
<1>3. CASE found # None
  <2>1. /\ run' = [run EXCEPT !.phase = "relocate", !.from = l, !.to = found]
        /\ UNCHANGED item
    BY <1>3 DEF Moved
  <2>2. /\ RunKnows(run, Item, at[m], last) /\ m \in Messages /\ Item = item[m] /\ Item # None
        /\ ~Item.audit /\ Item.code = "none" /\ OpenAt(Item, Step)
        /\ (run.phase \in Moving /\ Item.plan # {} => Item.st[Step] = "unknown")
        /\ Steps[Item.action][Step] = "move"
        /\ run \in Runs /\ run.left \subseteq Locations
    BY <1>1, InsideAStep, HeadShape DEF MoveInv
  <2>3. OnlyHead(m)  BY <1>1, <2>1 DEF OnlyHead
  <2>4. Goes("relocate", run.left) /\ run'.from = l /\ run'.to = found
    <3>1. "relocate" \in Phases /\ l \in Locations /\ found \in Locations \cup {None}
      BY <2>2, <1>3 DEF Phases
    <3>2. run \in Runs  BY <2>2
    <3>3. run' = [run EXCEPT !.phase = "relocate", !.from = l, !.to = found]  BY <2>1
    <3>4. run' \in Runs  BY <3>1, <3>2, <3>3 DEF Runs
    <3>5. run' # None  BY <3>4, NoneAssumption
    <3>6. run'.todo = run.todo /\ run'.phase = "relocate" /\ run'.left = run.left
          /\ run'.from = l /\ run'.to = found
      BY <3>2, <3>3 DEF Runs
    <3>7. QED  BY <3>4, <3>5, <3>6 DEF Goes
  <2>5. Counted(m)'
    <3>1. Base(m) \in Nat /\ Base(m)' = Base(m)
      BY <2>2, CountsShape DEF MoveInv
    <3>2. IsFiniteSet(at'[m])  BY <2>2, ServerGrows DEF MoveInv
    <3>3. Cardinality(at'[m]) <= Base(m)'  BY <1>1, <3>1
    <3>4. QED  BY <2>2, <3>1, <3>2, <3>3, ExactIsCounted
  <2>6. item[m].plan \cap at'[m] \subseteq at[m]  BY <2>2, PlanOnlyShrinks
  <2>7. RunKnows(run', item'[m], at'[m], last')
    <3>1. run'.phase = "relocate" /\ run'.left = run.left  BY <2>4 DEF Goes
    <3>2. (Item.plan \ run.left) \cap at'[m] = {} /\ run.left \subseteq Item.plan
      BY <2>2, <2>6 DEF RunKnows
    <3>3. item'[m] = Item /\ found[1] = Target[Item.action]  BY <2>1, <2>2, <1>3 DEF Box
    <3>4. run.phase \in Moving /\ run'.phase \in Moving  BY <3>1 DEF Moving
    <3>5. Step \in DOMAIN Item.st  BY <2>2 DEF OpenAt
    <3>6. QED  BY <1>1, <1>3, <2>2, <2>4, <3>1, <3>2, <3>3, <3>4, <3>5 DEF RunKnows
  <2>8. Done  BY <2>1, <2>2, <2>3, <2>4, <2>5, <2>7, GoesOn
  <2>9. QED  BY <2>1, <2>8, NoItemChanges
<1>4. QED  BY <1>2, <1>3

(* Where the message is after a request. *)
LEMMA TargetShape ==
  ASSUME MoveInv, [Next]_vars, run # None, NEW m, m = M
  PROVE  /\ m \in Messages /\ Box \in Mailboxes /\ NewUid \in Locations
         /\ NewUid[1] = Box /\ NewUid[2] = last[Box] + 1 /\ Unused(NewUid)
         /\ \A t \in at'[m] : t \in Locations /\ t[2] <= last'[t[1]]
<1>1. /\ m \in Messages /\ Box \in Mailboxes /\ last \in [Mailboxes -> Nat]
  BY HeadShape, ItemShape, StepsShape DEF MoveInv, PushType, Box, Item
<1>2. NewUid \in Locations /\ NewUid[1] = Box /\ NewUid[2] = last[Box] + 1 /\ Unused(NewUid)
  BY <1>1 DEF NewUid, Locations, Unused
<1>3. \A t \in at'[m] : t \in Locations /\ t[2] <= last'[t[1]]
  BY <1>1, ServerGrows DEF MoveInv
<1>4. QED  BY <1>1, <1>2, <1>3

(* A location the step has still to see. *)
LEMMA SourceShape ==
  ASSUME MoveInv, [Next]_vars, run # None, run.phase # "item", NEW l \in run.left,
         NEW m, m = M
  PROVE  /\ m \in Messages /\ item[m] # None /\ Item = item[m] /\ l \in Locations
         /\ l \in Item.plan /\ l # NewUid
<1>1. /\ RunKnows(run, Item, at[m], last) /\ m \in Messages /\ Item = item[m] /\ Item # None
  BY InsideAStep
<1>2. l \in Item.plan  BY <1>1 DEF RunKnows
<1>3. l \in Locations /\ ~Unused(l)  BY <1>1, <1>2, PlanOnlyShrinks
<1>4. QED  BY <1>1, <1>2, <1>3, TargetShape

LEMMA UidMoveIsDone ==
  ASSUME MoveInv, [Next]_vars, NEW l \in run.left, UidMove(l)
  PROVE  Done /\ ItemsKept
<1>1. PICK m : m = M  OBVIOUS
<1>2. run # None /\ run.phase = "move" /\ UNCHANGED foreign
  BY DEF UidMove, MustMove, Running
<1>3. /\ m \in Messages /\ l # NewUid /\ at \in [Messages -> SUBSET Locations]
      /\ Cardinality(at[m]) <= Base(m) /\ Base(m) \in Nat
  BY <1>1, <1>2, SourceShape, HeadIsExact, CountsShape DEF MoveInv, PushType
<1>4. CASE l \in at[m]
  <2>1. /\ at' = [at EXCEPT ![m] = (@ \ {l}) \cup {NewUid}]
        /\ \E found \in {NewUid, FindUid(at'[m]), None} : Moved(l, found)
    BY <1>1, <1>4 DEF UidMove
  <2>2. /\ at'[m] = (at[m] \ {l}) \cup {NewUid} /\ l \notin at'[m]
        /\ \A n \in Messages \ {m} : at'[n] = at[n]
    BY <1>3, <2>1
  <2>3. Cardinality(at'[m]) <= Base(m)
    <3>1. PushType  BY DEF MoveInv
    <3>2. Cardinality(at'[m]) <= Cardinality(at[m]) /\ Cardinality(at'[m]) \in Nat
          /\ Cardinality(at[m]) \in Nat
      BY <1>3, <1>4, <2>2, <3>1, PlacedCopies
    <3>3. QED  BY <1>3, <3>2
  <2>4. PICK found : Moved(l, found) /\ (found = None \/ (found \in at'[m] /\ found[1] = Box))
    <3>1. NewUid \in at'[m] /\ NewUid[1] = Box
      BY <1>1, <1>2, <2>2, TargetShape
    <3>2. QED  BY <2>1, <3>1, FoundIsThere
  <2>5. found = None \/ (found \in Locations /\ found[1] = Box /\ found[2] <= last'[found[1]])
    BY <1>1, <1>2, <2>4, TargetShape
  <2>6. QED  BY <1>1, <1>2, <2>2, <2>3, <2>4, <2>5, MovedIsDone
<1>5. CASE l \notin at[m]
  <2>1. UNCHANGED at /\ Moved(l, FindUid(at[m]))
    BY <1>1, <1>5 DEF UidMove
  <2>2. PICK found : Moved(l, found) /\ (found = None \/ (found \in at'[m] /\ found[1] = Box))
    BY <2>1, FoundIsThere
  <2>3. found = None \/ (found \in Locations /\ found[1] = Box /\ found[2] <= last'[found[1]])
    BY <1>1, <1>2, <2>2, TargetShape
  <2>4. QED  BY <1>1, <1>2, <1>3, <1>5, <2>1, <2>2, <2>3, MovedIsDone
<1>6. QED  BY <1>4, <1>5

LEMMA ExpungeIsDone ==
  ASSUME MoveInv, [Next]_vars, UidExpunge
  PROVE  Done /\ ItemsKept
<1>1. PICK m : m = M  OBVIOUS
<1>2. /\ run # None /\ run.phase = "expunge" /\ UNCHANGED <<last, foreign>>
      /\ at' = [at EXCEPT ![m] = @ \ {run.from}]
      /\ \E found \in IF run.to # None THEN {run.to} ELSE {FindUid(at'[m]), None} :
            Moved(run.from, found)
  BY <1>1 DEF UidExpunge, Running
<1>3. /\ RunKnows(run, Item, at[m], last) /\ m \in Messages
      /\ run.from \in run.left /\ run.to \in Locations \cup {None}
      /\ at \in [Messages -> SUBSET Locations]
  BY <1>1, <1>2, InsideAStep, HeadShape DEF RunKnows, MoveInv, PushType
<1>4. Cardinality(at[m] \ {run.from}) <= Base(m)
  BY <1>1, <1>2, <1>3 DEF MoveInv, CopiesCounted, Counted, Working
<1>5. /\ at'[m] = at[m] \ {run.from} /\ run.from \notin at'[m]
      /\ \A n \in Messages \ {m} : at'[n] = at[n]
      /\ Cardinality(at'[m]) <= Base(m)
  BY <1>2, <1>3, <1>4
<1>6. PICK found : /\ Moved(run.from, found)
                   /\ \/ found = None \/ (found \in at'[m] /\ found[1] = Box)
                      \/ found = run.to /\ run.to # None
  BY <1>2, FoundIsThere
<1>7. found = None \/ (found \in Locations /\ found[1] = Box /\ found[2] <= last'[found[1]])
  <2>1. run.to # None => run.to[1] = Box /\ run.to[2] <= last'[run.to[1]]
    BY <1>2, <1>3 DEF RunKnows, Box
  <2>2. QED  BY <1>1, <1>2, <1>3, <1>6, <2>1, TargetShape
<1>8. QED  BY <1>1, <1>2, <1>3, <1>5, <1>6, <1>7, MovedIsDone

LEMMA UidCopyIsDone ==
  ASSUME MoveInv, [Next]_vars, NEW l \in run.left, UidCopy(l)
  PROVE  Done
<1>1. PICK m : m = M  OBVIOUS
<1>2. run # None /\ run.phase = "move" /\ UNCHANGED <<item, foreign>>
  BY DEF UidCopy, MustMove, Running, bounds
<1>3. /\ m \in Messages /\ l # NewUid /\ l \in Locations /\ l \in Item.plan
      /\ at \in [Messages -> SUBSET Locations] /\ last \in [Mailboxes -> Nat]
      /\ Cardinality(at[m]) <= Base(m) /\ Base(m) \in Nat /\ Base(m)' = Base(m)
      /\ IsFiniteSet(at[m]) /\ IsFiniteSet(at'[m]) /\ PushType
      /\ \A t \in at'[m] : t \in Locations /\ t[2] <= last'[t[1]]
  BY <1>1, <1>2, SourceShape, HeadIsExact, CountsShape, ServerGrows, TargetShape
  DEF MoveInv, PushType
<1>4. /\ RunKnows(run, Item, at[m], last) /\ Item = item[m] /\ Item # None
      /\ ~Item.audit /\ Item.code = "none" /\ OpenAt(Item, Step) /\ Step \in DOMAIN Item.st
      /\ Item.st[Step] = "unknown" /\ Steps[Item.action][Step] = "move"
      /\ run \in Runs /\ run.left \subseteq Item.plan /\ run.to = None
  BY <1>1, <1>2, <1>3, InsideAStep, HeadShape DEF MoveInv, RunKnows, Moving, OpenAt
<1>5. UnknownMove(m)' /\ item'[m].code = "none"
  BY <1>2, <1>4 DEF UnknownMove
<1>6. item[m].plan \cap at'[m] \subseteq at[m]  BY <1>3, <1>4, PlanOnlyShrinks
<1>7. ASSUME NEW t \in Locations \cup {None},
             run' = [run EXCEPT !.phase = "expunge", !.from = l, !.to = t],
             t = None \/ (t[1] = Box /\ t[2] <= last'[t[1]]),
             \A n \in Messages \ {m} : at'[n] = at[n],
             Cardinality(at'[m]) <= Base(m) + 1, Cardinality(at'[m] \ {l}) <= Base(m)
      PROVE  Done
  <2>1. OnlyHead(m)  BY <1>1, <1>2, <1>7 DEF OnlyHead
  <2>2. Goes("expunge", run.left) /\ run'.from = l /\ run'.to = t
    <3>1. "expunge" \in Phases /\ run \in Runs  BY <1>4 DEF Phases
    <3>2. QED  BY <1>3, <1>7, <3>1, RequestGoes
  <2>3. run'.phase = "expunge" /\ run'.left = run.left /\ run'.todo = run.todo
    BY <2>2 DEF Goes
  <2>4. RunKnows(run', item'[m], at'[m], last')
    <3>1. (Item.plan \ run.left) \cap at'[m] = {}
      BY <1>2, <1>4, <1>6 DEF RunKnows
    <3>2. item'[m] = Item  BY <1>2, <1>4
    <3>3. QED  BY <1>4, <1>7, <2>2, <2>3, <3>1, <3>2 DEF RunKnows, Box
  <2>5. Counted(m)'
    <3>1. ~Working(m, {"flags", "mark", "move", "relocate"})'
      BY <2>3 DEF Working
    <3>2. ~Settled(m)'  BY <3>1, <1>5 DEF Settled
    <3>3. QED  BY <3>2, <1>3, <1>7, <2>2 DEF Counted
  <2>6. QED  BY <1>2, <1>4, <2>1, <2>2, <2>4, <2>5, GoesOn
<1>8. CASE l \in at[m]
  <2>1. /\ at' = [at EXCEPT ![m] = @ \cup {NewUid}]
        /\ \E t \in {NewUid, None} :
              run' = [run EXCEPT !.phase = "expunge", !.from = l, !.to = t]
    BY <1>1, <1>8 DEF UidCopy
  <2>2. PICK t \in {NewUid, None} :
           run' = [run EXCEPT !.phase = "expunge", !.from = l, !.to = t]
    BY <2>1
  <2>3. /\ at'[m] = at[m] \cup {NewUid} /\ at'[m] \ {l} = (at[m] \ {l}) \cup {NewUid}
        /\ \A n \in Messages \ {m} : at'[n] = at[n]
    BY <1>3, <2>1
  <2>4. Cardinality(at'[m]) <= Cardinality(at[m]) + 1
        /\ Cardinality(at'[m]) \in Nat /\ Cardinality(at[m]) \in Nat
    BY <1>3, <2>3, OneMore
  <2>5. Cardinality(at'[m] \ {l}) <= Cardinality(at[m]) /\ Cardinality(at'[m] \ {l}) \in Nat
    <3>1. Cardinality(at[m] \ {l}) + 1 = Cardinality(at[m]) /\ Cardinality(at[m] \ {l}) \in Nat
          /\ IsFiniteSet(at[m] \ {l})
      BY <1>3, <1>8, OneLess, Fewer
    <3>2. /\ Cardinality(at'[m] \ {l}) <= Cardinality(at[m] \ {l}) + 1
          /\ Cardinality(at'[m] \ {l}) \in Nat
      BY <3>1, <2>3, OneMore
    <3>3. QED  BY <3>1, <3>2
  <2>6. Cardinality(at'[m]) <= Base(m) + 1 /\ Cardinality(at'[m] \ {l}) <= Base(m)
    BY <2>4, <2>5, <1>3
  <2>7. t \in Locations \cup {None} /\ (t = None \/ (t[1] = Box /\ t[2] <= last'[t[1]]))
    BY <1>1, <1>2, <1>3, <2>3, TargetShape
  <2>8. QED  BY <1>7, <2>2, <2>3, <2>6, <2>7
<1>9. CASE l \notin at[m]
  <2>1. UNCHANGED at /\ run' = [run EXCEPT !.phase = "expunge", !.from = l]
    BY <1>1, <1>9 DEF UidCopy
  <2>2. run' = [run EXCEPT !.phase = "expunge", !.from = l, !.to = None]
    BY <2>1, <1>4 DEF Runs
  <2>3. Cardinality(at'[m] \ {l}) <= Base(m) /\ Cardinality(at'[m]) <= Base(m) + 1
    <3>1. at'[m] \ {l} = at[m] /\ Cardinality(at[m]) \in Nat
      BY <2>1, <1>9, <1>3, FS_CardinalityType
    <3>2. Cardinality(at'[m] \ {l}) = Cardinality(at[m]) /\ Cardinality(at'[m]) = Cardinality(at[m])
      BY <2>1, <3>1
    <3>3. Cardinality(at[m]) <= Base(m) + 1  BY <3>1, <1>3
    <3>4. QED  BY <3>2, <3>3, <1>3
  <2>4. QED  BY <1>7, <2>1, <2>2, <2>3
<1>10. QED  BY <1>8, <1>9

LEMMA ExpungeFailsIsDone ==
  ASSUME MoveInv, [Next]_vars, UidExpungeFails
  PROVE  Done /\ ItemsKept
<1>1. PICK m : m = M  OBVIOUS
<1>2. /\ run # None /\ run.phase = "expunge" /\ UNCHANGED foreign
      /\ \E gone \in {{}, {run.from}} : at' = [at EXCEPT ![m] = @ \ gone]
      /\ StepFails("unknown", "other")
  BY <1>1 DEF UidExpungeFails, Running
<1>3. /\ m \in Messages /\ at \in [Messages -> SUBSET Locations] /\ IsFiniteSet(at[m])
      /\ Cardinality(at[m]) <= Base(m) + 1 /\ Base(m) \in Nat
  BY <1>1, <1>2, HeadShape, CountsShape DEF MoveInv, PushType, CopiesCounted, Counted
<1>4. at'[m] \subseteq at[m] /\ \A n \in Messages \ {m} : at'[n] = at[n]
  BY <1>2, <1>3
<1>5. /\ Cardinality(at'[m]) <= Cardinality(at[m])
      /\ Cardinality(at'[m]) \in Nat /\ Cardinality(at[m]) \in Nat
  BY <1>3, <1>4, Fewer
<1>6. Cardinality(at'[m]) <= Base(m) + 1  BY <1>3, <1>5
<1>7. QED  BY <1>1, <1>2, <1>4, <1>6, Words, FailureIsDone

LEMMA LostIsDone ==
  ASSUME MoveInv, [Next]_vars, NEW l \in run.left, MoveLost(l)
  PROVE  Done /\ ItemsKept
<1>1. PICK m : m = M  OBVIOUS
<1>2. /\ run # None /\ run.phase = "move" /\ UNCHANGED foreign
      /\ StepFails("unknown", "other")
  BY DEF MoveLost, MustMove, Running
<1>3. /\ m \in Messages /\ at \in [Messages -> SUBSET Locations] /\ PushType
      /\ Cardinality(at[m]) <= Base(m) /\ Base(m) \in Nat /\ Cardinality(at[m]) \in Nat
  BY <1>1, <1>2, HeadShape, CountsShape, HeadIsExact DEF MoveInv, PushType
<1>4. \/ UNCHANGED at
      \/ at' = [at EXCEPT ![m] = (IF hasMove THEN @ \ {l} ELSE @) \cup {NewUid}]
  BY <1>1 DEF MoveLost
<1>5. \/ at'[m] = at[m] \/ at'[m] = (at[m] \ {l}) \cup {NewUid}
      \/ at'[m] = (at[m] \ {}) \cup {NewUid}
  BY <1>3, <1>4
<1>6. \A n \in Messages \ {m} : at'[n] = at[n]
  BY <1>3, <1>4
<1>7. Cardinality(at'[m]) <= Cardinality(at[m]) + 1 /\ Cardinality(at'[m]) \in Nat
  <2>1. CASE at'[m] = at[m]  BY <2>1, <1>3
  <2>2. CASE \E S : at'[m] = (at[m] \ S) \cup {NewUid}
    BY <2>2, <1>3, PlacedCopies
  <2>3. QED  BY <2>1, <2>2, <1>5
<1>8. Cardinality(at'[m]) <= Base(m) + 1  BY <1>3, <1>7
<1>9. QED  BY <1>1, <1>2, <1>6, <1>8, Words, FailureIsDone

LEMMA RejectionIsDone ==
  ASSUME MoveInv, [Next]_vars, AddFlagsFails \/ \E l : MoveRejected(l)
  PROVE  Done /\ ItemsKept
<1>1. PICK m : m = M  OBVIOUS
<1>2. /\ run # None /\ run.phase \in {"flags", "move"} /\ UNCHANGED <<at, foreign>>
      /\ StepFails("failed", "other")
  BY DEF AddFlagsFails, MoveRejected, MustMove, Running, server
<1>3. m \in Messages /\ Cardinality(at'[m]) <= Base(m)
  BY <1>1, <1>2, HeadIsExact
<1>4. QED  BY <1>1, <1>2, <1>3, Words, FailureIsDone

LEMMA RecoveryIsDone ==
  ASSUME MoveInv, [Next]_vars, RecoverMove
  PROVE  Done
<1>1. PICK m : m = M  OBVIOUS
<1>2. /\ MarkedAs(m, "succeeded", "none", Item.plan) /\ item[m].code = "target_uid_missing"
      /\ run # None /\ run.phase = "item" /\ UNCHANGED <<at, run, foreign>> /\ m \in Messages
  BY <1>1, RecoveryKeepsItems DEF RecoverMove, Unknown, Running, server, bounds, Item
<1>3. OnlyHead(m) /\ item'[m] # None  BY <1>1, <1>2 DEF OnlyHead, MarkedAs
<1>4. Goes("item", run.left)  BY <1>2, HeadShape DEF MoveInv, Goes
<1>5. Counted(m)'  BY <1>1, <1>2, HeadIsExact, ExactStays
<1>6. QED  BY <1>3, <1>4, <1>5, GoesOn

LEMMA StopIsDone ==
  ASSUME MoveInv, [Next]_vars, StopAtUnknown \/ Crash
  PROVE  Done
<1>1. PICK m : m = M  OBVIOUS
<1>2. run # None /\ run' = None /\ UNCHANGED <<item, at, foreign>>
  BY DEF StopAtUnknown, Crash, Unknown, Running, server, bounds
<1>3. OnlyHead(m)  BY <1>1, <1>2 DEF OnlyHead
<1>4. /\ ~Working(m, {"expunge"})' /\ ~Working(m, {"flags", "mark", "move", "relocate"})'
      /\ m \in Messages
  BY <1>1, <1>2, HeadShape DEF Working, MoveInv
<1>5. Settled(m)' => Settled(m)  BY <1>2, <1>4 DEF Settled, UnknownMove
<1>6. Counted(m)'  BY <1>2, <1>4, <1>5, CountedStays
<1>7. QED  BY <1>2, <1>3, <1>6, Stops

LEMMA AuditIsDone ==
  ASSUME MoveInv, [Next]_vars, AuditFails
  PROVE  Done
<1>1. PICK m : m = M  OBVIOUS
<1>2. run # None /\ run' = None /\ UNCHANGED <<at, foreign>>
  BY DEF AuditFails, Running, server
<1>3. /\ m \in Messages /\ \A n \in Messages \ {m} : item'[n] = item[n]
      /\ \A k \in DOMAIN item[m].st : item[m].st[k] = "succeeded"
  BY <1>1, AuditKeepsItems
<1>4. OnlyHead(m)  BY <1>1, <1>2, <1>3 DEF OnlyHead
<1>5. ~UnknownMove(m)  BY <1>3 DEF UnknownMove
<1>6. Counted(m)'  BY <1>1, <1>2, <1>5, HeadIsExact, ExactStays
<1>7. QED  BY <1>2, <1>4, <1>6, Stops

(* A push goes to the first of its items. *)
LEMMA AtItemShape ==
  ASSUME NEW todo \in Seq(Messages)
  PROVE  /\ AtItem(todo) \in Runs \cup {None}
         /\ AtItem(todo) # None => /\ AtItem(todo).todo = todo /\ todo # <<>>
                                   /\ AtItem(todo).phase = "item"
<1>1. CASE todo = <<>>  BY <1>1 DEF AtItem
<1>2. CASE todo # <<>>
  <2> DEFINE r == [todo |-> todo, phase |-> "item", left |-> {}, from |-> None, to |-> None]
  <2>1. AtItem(todo) = r  BY <1>2 DEF AtItem
  <2>2. r \in Runs  BY DEF Runs, Phases
  <2>3. r.todo = todo /\ r.phase = "item"  OBVIOUS
  <2> HIDE DEF r
  <2>4. QED  BY <1>2, <2>1, <2>2, <2>3
<1>3. QED  BY <1>1, <1>2

LEMMA FinishIsDone ==
  ASSUME MoveInv, [Next]_vars, FinishItem
  PROVE  Done
<1>1. PICK m : m = M  OBVIOUS
<1>2. run # None /\ run' = AtItem(Tail(run.todo)) /\ UNCHANGED <<at, foreign>>
  BY DEF FinishItem, Running, server, bounds
<1>3. /\ m \in Messages /\ \A n \in Messages \ {m} : item'[n] = item[n]
      /\ \A k \in DOMAIN item[m].st : item[m].st[k] = "succeeded"
  BY <1>1, FinishKeepsItems
<1>4. OnlyHead(m)  BY <1>1, <1>2, <1>3 DEF OnlyHead
<1>5. ~UnknownMove(m)  BY <1>3 DEF UnknownMove
<1>6. Counted(m)'  BY <1>1, <1>2, <1>5, HeadIsExact, ExactStays
<1> DEFINE s == run.todo
<1>7. /\ s \in Seq(Messages) /\ Len(s) \in Nat /\ Len(s) >= 1 /\ DOMAIN s = 1 .. Len(s)
      /\ \A i \in DOMAIN s : s[i] \in Messages /\ item[s[i]] # None
      /\ \A i, j \in DOMAIN s : s[i] = s[j] => i = j
      /\ m = s[1]
  BY <1>1, <1>2, TodoShape, HeadShape DEF MoveInv, TodoQueued
<1> HIDE DEF s
<1>8. /\ Tail(s) \in Seq(Messages) /\ DOMAIN Tail(s) = 1 .. Len(s) - 1
      /\ \A i \in DOMAIN Tail(s) : Tail(s)[i] = s[i + 1] /\ i + 1 \in DOMAIN s /\ i + 1 # 1
  BY <1>7
<1>9. /\ \A i \in DOMAIN Tail(s) : item'[Tail(s)[i]] # None
      /\ \A i, j \in DOMAIN Tail(s) : Tail(s)[i] = Tail(s)[j] => i = j
  <2>1. ASSUME NEW i \in DOMAIN Tail(s)  PROVE  item'[Tail(s)[i]] # None
    <3>1. /\ Tail(s)[i] = s[i + 1] /\ i + 1 \in DOMAIN s /\ i + 1 # 1 /\ 1 \in DOMAIN s
      BY <1>7, <1>8
    <3>2. s[i + 1] # m /\ s[i + 1] \in Messages /\ item[s[i + 1]] # None
      BY <3>1, <1>7
    <3>3. QED  BY <3>1, <3>2, <1>3
  <2>2. ASSUME NEW i \in DOMAIN Tail(s), NEW j \in DOMAIN Tail(s), Tail(s)[i] = Tail(s)[j]
        PROVE  i = j
    <3>1. i + 1 = j + 1 /\ i \in Nat /\ j \in Nat  BY <2>2, <1>7, <1>8
    <3>2. QED  BY <3>1
  <2>3. QED  BY <2>1, <2>2
<1>10. /\ run' \in Runs \cup {None}
       /\ run' # None => run'.todo = Tail(s) /\ Tail(s) # <<>> /\ run'.phase = "item"
  BY <1>2, <1>8, AtItemShape DEF s
<1>11. TodoQueued'  BY <1>9, <1>10 DEF TodoQueued
<1>12. RunTrue'  BY <1>10 DEF RunTrue
<1>13. CopiesCounted'  BY <1>4, <1>6, <1>10, OthersCounted
<1>14. QED  BY <1>10, <1>11, <1>12, <1>13 DEF Done
-----------------------------------------------------------------------------
(* Steps outside a push.                                                     *)

(* What is not in a push has the copies it had. *)
LEMMA OutsideIsCounted ==
  ASSUME MoveInv, [Next]_vars, run = None, UNCHANGED <<at, foreign>>,
         run' = None \/ run'.phase = "item",
         \A m \in Messages : item'[m] = item[m] \/ ~UnknownMove(m)
  PROVE  CopiesCounted'
<1>1. ASSUME NEW m \in Messages  PROVE  Counted(m)'
  <2>1. ~Working(m, {"expunge"})' /\ ~Working(m, {"flags", "mark", "move", "relocate"})'
    BY DEF Working
  <2>2. CASE item'[m] = item[m]
    <3>1. Settled(m)' => Settled(m)  BY <2>1, <2>2 DEF Settled, UnknownMove
    <3>2. QED  BY <2>1, <3>1, CountedStays
  <2>3. CASE ~UnknownMove(m)
    <3>1. Cardinality(at[m]) <= Base(m)
      BY <2>3 DEF MoveInv, CopiesCounted, Counted, Settled
    <3>2. QED  BY <3>1, ExactStays
  <2>4. QED  BY <1>1, <2>2, <2>3
<1>2. QED  BY <1>1 DEF CopiesCounted

LEMMA CommandIsDone ==
  ASSUME MoveInv, [Next]_vars, NEW m \in Messages, SpamMessage(m) \/ UnspamMessage(m)
  PROVE  Done
<1>1. CommandShape(m) /\ UNCHANGED <<at, foreign>>
  BY CommandKeepsItems DEF SpamMessage, UnspamMessage, server
<1>2. ASSUME NEW n \in Messages, item'[n] # item[n]  PROVE  ~UnknownMove(n)
  <2>1. n = m /\ (item[m] # None => ~HasStartedEffects(item[m]))
    BY <1>1, <1>2 DEF CommandShape
  <2>2. QED  BY <2>1 DEF UnknownMove, HasStartedEffects
<1>3. run = None /\ run' = None  BY <1>1 DEF CommandShape
<1>4. CopiesCounted'  BY <1>1, <1>2, <1>3, OutsideIsCounted
<1>5. QED  BY <1>3, <1>4 DEF Done, TodoQueued, RunTrue

LEMMA BeginIsDone ==
  ASSUME MoveInv, [Next]_vars, BeginPush
  PROVE  Done
<1> DEFINE S == {m \in Queued : PlanItem(m)}
           s == SortedItems(S)
<1>1. /\ run = None /\ run' = AtItem(s) /\ UNCHANGED <<at, foreign>>
      /\ item' = [m \in Messages |-> IF m \in S THEN item[m] ELSE None]
  BY DEF BeginPush, server, bounds
<1>2. S \in SUBSET Queued  OBVIOUS
<1>3. /\ s \in Seq(Messages) /\ {s[i] : i \in DOMAIN s} = S
      /\ \A i, j \in DOMAIN s : s[i] = s[j] => i = j
  BY <1>2, SortedItemsSorted DEF MoveInv
<1>4. \A m \in S : m \in Messages /\ item[m] # None  BY DEF Queued
<1> HIDE DEF S, s
<1>5. /\ run' \in Runs \cup {None}
      /\ run' # None => run'.todo = s /\ s # <<>> /\ run'.phase = "item"
  BY <1>1, <1>3, AtItemShape
<1>6. \A i \in DOMAIN s : item'[s[i]] # None  BY <1>1, <1>3, <1>4
<1>7. TodoQueued'  BY <1>3, <1>5, <1>6 DEF TodoQueued
<1>8. RunTrue'  BY <1>5 DEF RunTrue
<1>9. CopiesCounted'  BY <1>1, <1>5, PlanKeepsItems, OutsideIsCounted
<1>10. QED  BY <1>5, <1>7, <1>8, <1>9 DEF Done

(* What the push knows stays true when other clients change the mailboxes. *)
LEMMA RunStays ==
  ASSUME MoveInv, [Next]_vars, UNCHANGED <<run, item>>
  PROVE  run' \in Runs \cup {None} /\ TodoQueued' /\ RunTrue'
<1>1. run' \in Runs \cup {None} /\ TodoQueued'
  BY DEF MoveInv, PushType, TodoQueued
<1>2. ASSUME run # None, run.phase # "item"  PROVE  RunTrue'
  <2>1. PICK m : m = M  OBVIOUS
  <2>2. /\ RunKnows(run, Item, at[m], last) /\ m \in Messages /\ Item = item[m] /\ Item # None
        /\ run.to \in Locations \cup {None}
        /\ last \in [Mailboxes -> Nat] /\ last' \in [Mailboxes -> Nat]
        /\ \A b \in Mailboxes : last[b] <= last'[b]
    BY <1>2, <2>1, InsideAStep, HeadShape, ServerGrows DEF MoveInv, PushType
  <2>3. item[m].plan \cap at'[m] \subseteq at[m]  BY <2>2, PlanOnlyShrinks
  <2>4. run.to # None => run.to[2] <= last'[run.to[1]]
    <3>1. ASSUME run.to # None  PROVE  run.to[1] \in Mailboxes /\ run.to[2] \in Nat
      BY <3>1, <2>2 DEF Locations
    <3>2. QED  BY <3>1, <2>2 DEF RunKnows
  <2>5. RunKnows(run', item'[m], at'[m], last')
    <3>1. run.left \subseteq Item.plan  BY <2>2 DEF RunKnows
    <3>2. run.phase = "relocate" => run.from \notin at'[m]
      BY <2>2, <2>3, <3>1 DEF RunKnows
    <3>3. run.phase # "flags" => (Item.plan \ run.left) \cap at'[m] = {}
      BY <2>2, <2>3 DEF RunKnows
    <3>4. QED  BY <2>2, <2>4, <3>2, <3>3 DEF RunKnows
  <2>6. QED  BY <2>1, <2>5, StepKnown
<1>3. QED  BY <1>1, <1>2 DEF RunTrue

LEMMA EnvironmentIsDone ==
  ASSUME MoveInv, [Next]_vars, Environment
  PROVE  Done
<1>1. UNCHANGED <<run, item>> /\ foreign' = foreign + 1
  BY DEF Environment, ForeignDelete, ForeignMove, Foreign
<1>2. PICK m \in Messages : \E l \in at[m] :
         ForeignDelete(m, l) \/ \E b \in Mailboxes : ForeignMove(m, l, b)
  BY DEF Environment
<1>3. PICK l \in at[m] :
         ForeignDelete(m, l) \/ \E b \in Mailboxes : ForeignMove(m, l, b)
  BY <1>2
<1>4. PushType  BY DEF MoveInv
<1>5. Touches(m) /\ (Removes(m, {l}) \/ \E b \in Mailboxes : Places(m, {l}, b))
  BY <1>3, <1>4, ForeignRemoves, ForeignPlaces
<1>6. ASSUME NEW n \in Messages  PROVE  Counted(n)'
  <2>1. /\ Base(n) \in Nat /\ Base(n)' = Base(n) + 1 /\ Cardinality(at[n]) \in Nat
        /\ IsFiniteSet(at[n]) /\ IsFiniteSet(at'[n]) /\ Cardinality(at[n]) <= Base(n) + 1
    BY <1>1, CountsShape, ServerGrows DEF MoveInv, CopiesCounted, Counted
  <2>2. Cardinality(at'[n]) <= Cardinality(at[n]) /\ Cardinality(at'[n]) \in Nat
    <3>1. CASE n # m  BY <3>1, <2>1, <1>5 DEF Touches
    <3>2. CASE n = m /\ Removes(m, {l})
      <4>1. at'[n] \subseteq at[n]  BY <3>2 DEF Removes
      <4>2. QED  BY <4>1, <2>1, Fewer
    <3>3. CASE n = m /\ \E b \in Mailboxes : Places(m, {l}, b)
      BY <3>3, <1>3, <1>4, PlacedCopies DEF Places
    <3>4. QED  BY <3>1, <3>2, <3>3, <1>5
  <2>3. Cardinality(at'[n]) <= Base(n)' /\ Base(n)' \in Nat  BY <2>1, <2>2
  <2>4. QED  BY <2>1, <2>3, ExactIsCounted
<1>7. QED  BY <1>1, <1>6, RunStays DEF Done, CopiesCounted

LEMMA StillIsDone ==
  ASSUME MoveInv, [Next]_vars, (\E b \in Mailboxes : Pull(b)) \/ UNCHANGED vars
  PROVE  Done
<1>1. UNCHANGED <<run, item, at, foreign>>
  BY DEF Pull, vars, server, bounds
<1>2. ASSUME NEW m \in Messages  PROVE  Counted(m)'
  BY <1>1, CountsShape DEF MoveInv, CopiesCounted, Counted, Settled, Working, UnknownMove, M
<1>3. QED  BY <1>1, <1>2, RunStays DEF Done, CopiesCounted
-----------------------------------------------------------------------------
(* A move leaves the copies a message had.                                   *)

LEMMA MoveInit ==
  ASSUME Init
  PROVE  MoveInv
<1>1. PushType
  BY MessagePushAssumption DEF Init, PushType, Queued
<1>2. UidsKnown  BY MessagePushAssumption DEF Init, UidsKnown
<1>3. ItemsTrue /\ TodoQueued /\ RunTrue
  BY DEF Init, ItemsTrue, Queued, TodoQueued, RunTrue
<1>4. ASSUME NEW m \in Messages  PROVE  Counted(m)
  <2>1. Base(m) \in Nat /\ Cardinality(at[m]) \in Nat /\ Cardinality(at[m]) = Base(m)
    BY <1>1, CountsShape DEF Init, Base
  <2>2. QED  BY <2>1 DEF Init, Counted, Working
<1>5. QED  BY <1>1, <1>2, <1>3, <1>4 DEF MoveInv, CopiesCounted

LEMMA MoveStep ==
  ASSUME MoveInv, [Next]_vars
  PROVE  MoveInv' /\ Done /\ ItemsKept
<1> USE DEF InHand
<1>1. ItemsKept /\ Done
  <2>1. CASE \E m \in Messages : SpamMessage(m) \/ UnspamMessage(m)
    BY <2>1, CommandKeepsItems, CommandIsDone
  <2>2. CASE BeginPush  BY <2>2, PlanKeepsItems, BeginIsDone
  <2>3. CASE StartStep  BY <2>3, StartKeepsItems, StartIsDone
  <2>4. CASE PersistRemoteOutcomeUnknown  BY <2>4, UnknownKeepsItems, UnknownIsDone
  <2>5. CASE StepSucceeds  BY <2>5, StepKeepsItems, SuccessIsDone
  <2>6. CASE UidExpunge  BY <2>6, ExpungeIsDone
  <2>7. CASE RelocateMessage
    BY <2>7, RelocateIsDone, NoItemChanges DEF RelocateMessage
  <2>8. CASE RecoverMove  BY <2>8, RecoveryKeepsItems, RecoveryIsDone
  <2>9. CASE StopAtUnknown \/ Crash
    BY <2>9, StopIsDone, NoItemChanges DEF StopAtUnknown, Crash
  <2>10. CASE FinishItem  BY <2>10, FinishKeepsItems, FinishIsDone
  <2>11. CASE \E l \in InHand : AddFlags(l)
    BY <2>11, AddFlagsIsDone, NoItemChanges DEF AddFlags
  <2>12. CASE \E l \in InHand : SkipLocation(l)
    BY <2>12, SkipIsDone, NoItemChanges DEF SkipLocation
  <2>13. CASE \E l \in InHand : UidMove(l)
    <3>1. PICK l \in run.left : UidMove(l)  BY <2>13
    <3>2. QED  BY <3>1, UidMoveIsDone
  <2>14. CASE \E l \in InHand : UidCopy(l)
    <3>1. PICK l \in run.left : UidCopy(l)  BY <2>14
    <3>2. UNCHANGED item  BY <3>1 DEF UidCopy
    <3>3. QED  BY <3>1, <3>2, UidCopyIsDone, NoItemChanges
  <2>15. CASE AddFlagsFails \/ \E l \in InHand : MoveRejected(l)
    BY <2>15, RejectionIsDone
  <2>16. CASE UidExpungeFails  BY <2>16, ExpungeFailsIsDone
  <2>17. CASE AuditFails  BY <2>17, AuditKeepsItems, AuditIsDone
  <2>18. CASE \E l \in InHand : MoveLost(l)
    <3>1. PICK l \in run.left : MoveLost(l)  BY <2>18
    <3>2. QED  BY <3>1, LostIsDone
  <2>19. CASE (\E b \in Mailboxes : Pull(b)) \/ UNCHANGED vars
    BY <2>19, StillIsDone, NoItemChanges DEF Pull, vars
  <2>20. CASE Environment
    BY <2>20, EnvironmentIsDone, NoItemChanges
    DEF Environment, ForeignDelete, ForeignMove
  <2>21. QED
    BY <2>1, <2>2, <2>3, <2>4, <2>5, <2>6, <2>7, <2>8, <2>9, <2>10, <2>11, <2>12, <2>13,
       <2>14, <2>15, <2>16, <2>17, <2>18, <2>19, <2>20 DEF Next, PushStep, PushFault
<1>2. foreign' \in Nat
  <2>1. foreign' = foreign \/ foreign' = foreign + 1
    BY DEF Next, PushStep, PushFault, Environment, SpamMessage, UnspamMessage, BeginPush,
       StartStep, PersistRemoteOutcomeUnknown, StepSucceeds, UidExpunge, RelocateMessage,
       RecoverMove, StopAtUnknown, FinishItem, AddFlags, SkipLocation, UidMove, UidCopy,
       AddFlagsFails, UidExpungeFails, AuditFails, Crash, MoveRejected, MoveLost, Pull,
       ForeignDelete, ForeignMove, Foreign, vars, bounds
  <2>2. QED  BY <2>1 DEF MoveInv, PushType
<1>3. PushType'
  BY <1>1, <1>2, LocStep, ServerGrows DEF MoveInv, PushType, ItemsKept, Done, Queued
<1>4. UidsKnown'  BY LocStep
<1>5. ItemsTrue'  BY <1>1 DEF ItemsKept, ItemsTrue, Queued
<1>6. QED  BY <1>1, <1>3, <1>4, <1>5 DEF MoveInv, Done

LEMMA MoveIsSafe ==
  ASSUME MoveInv
  PROVE  MoveIsExact
<1>1. ASSUME NEW m \in Messages
      PROVE  Cardinality(at[m]) <= Base(m) + (IF UnknownMove(m) THEN 1 ELSE 0)
  <2>1. /\ Cardinality(at[m]) <= Base(m) + 1
        /\ ~UnknownMove(m) => Cardinality(at[m]) <= Base(m)
    BY DEF MoveInv, CopiesCounted, Counted, Settled
  <2>2. Base(m) \in Nat /\ Cardinality(at[m]) \in Nat  BY CountsShape DEF MoveInv
  <2>3. CASE UnknownMove(m)  BY <2>1, <2>3
  <2>4. CASE ~UnknownMove(m)  BY <2>1, <2>2, <2>4
  <2>5. QED  BY <2>3, <2>4
<1>2. NoSecondCopy
  BY <1>1 DEF NoSecondCopy, Base
<1>3. FinishedMoveIsApplied
  BY DEF MoveInv, ItemsTrue, ItemTrue, Applied, FinishedMoveIsApplied
<1>4. QED  BY <1>2, <1>3 DEF MoveIsExact

(* Retried, interrupted and recovered moves leave as many copies of a         *)
(* message as there were, and none at a reviewed source location, however     *)
(* requests fail, answers are lost and other clients interfere.               *)
THEOREM MoveCorrect == Spec => []MoveIsExact
<1>1. Init => MoveInv  BY MoveInit
<1>2. MoveInv /\ [Next]_vars => MoveInv'  BY MoveStep
<1>3. MoveInv => MoveIsExact  BY MoveIsSafe
<1>4. QED  BY <1>1, <1>2, <1>3, PTL DEF Spec
-----------------------------------------------------------------------------
(* The order of the queue.                                                   *)

(* A step that queues and removes nothing. *)
SameQueue ==
    /\ UNCHANGED earlier
    /\ run' = None \/ (run # None /\ run'.todo = run.todo)
    /\ \A n \in Messages :
          /\ item[n] = None <=> item'[n] = None
          /\ item[n] # None => item'[n].seq = item[n].seq
          /\ item'[n] = item[n] \/ (run # None /\ n = M)

LEMMA TodoStays ==
  ASSUME run \in Runs, NEW p, NEW L, NEW l, NEW t,
         Goto(p, L) \/ run' = [run EXCEPT !.phase = p, !.from = l, !.to = t]
  PROVE  run'.todo = run.todo
BY DEF Goto, Runs

LEMMA MarkedQueue ==
  ASSUME MoveInv, run # None, NEW s, NEW c, NEW p, MarkedAs(M, s, c, p),
         UNCHANGED earlier, run' = None \/ run'.todo = run.todo
  PROVE  SameQueue
<1>1. PICK m : m = M  OBVIOUS
<1>2. m \in Messages /\ item[m] # None  BY <1>1, HeadShape DEF MoveInv
<1>3. QED  BY <1>1, <1>2 DEF MarkedAs, SameQueue

LEMMA FailedQueue ==
  ASSUME MoveInv, [Next]_vars, run # None, run.phase # "item",
         NEW s \in {"failed", "unknown"}, NEW c \in ErrorCodes, StepFails(s, c)
  PROVE  SameQueue
BY FailureKeepsItems, MarkedQueue DEF StepFails

LEMMA UnchangedQueue ==
  ASSUME UNCHANGED <<item, earlier>>, run' = None \/ (run # None /\ run'.todo = run.todo)
  PROVE  SameQueue
BY DEF SameQueue

LEMMA MovedQueue ==
  ASSUME MoveInv, [Next]_vars, run # None, run.phase # "item",
         NEW l, NEW found, Moved(l, found)
  PROVE  SameQueue
<1>1. CASE found = None
  BY <1>1, Words, FailedQueue DEF Moved
<1>2. CASE found # None
  <2>1. run' = [run EXCEPT !.phase = "relocate", !.from = l, !.to = found]
        /\ UNCHANGED <<item, earlier>>
    BY <1>2 DEF Moved
  <2>2. run \in Runs  BY HeadShape DEF MoveInv
  <2>3. run'.todo = run.todo  BY <2>1, <2>2, TodoStays
  <2>4. QED  BY <2>1, <2>3, UnchangedQueue
<1>3. QED  BY <1>1, <1>2

LEMMA QueueStep ==
  ASSUME MoveInv, [Next]_vars
  PROVE  \/ SameQueue \/ BeginPush \/ FinishItem
         \/ \E m \in Messages : SpamMessage(m) \/ UnspamMessage(m)
<1> USE DEF InHand
<1>1. ASSUME NEW p, NEW L, Goto(p, L), run # None  PROVE  run'.todo = run.todo
  BY <1>1, HeadShape, TodoStays DEF MoveInv
<1>2. CASE StartStep
  BY <1>2, <1>1, StartKeepsItems, MarkedQueue DEF StartStep
<1>3. CASE PersistRemoteOutcomeUnknown
  BY <1>3, <1>1, UnknownKeepsItems, MarkedQueue DEF PersistRemoteOutcomeUnknown, Running
<1>4. CASE StepSucceeds
  BY <1>4, <1>1, StepKeepsItems, MarkedQueue DEF StepSucceeds
<1>5. CASE RelocateMessage \/ \E l \in InHand : AddFlags(l) \/ SkipLocation(l)
  <2>1. /\ run # None /\ UNCHANGED <<item, earlier>>
        /\ \E p, L : Goto(p, L)
    BY <1>5 DEF RelocateMessage, AddFlags, SkipLocation, Running
  <2>2. QED  BY <2>1, <1>1, UnchangedQueue
<1>6. CASE UidExpunge \/ \E l \in InHand : UidMove(l)
  <2>1. run # None /\ run.phase # "item" /\ \E l, found : Moved(l, found)
    BY <1>6 DEF UidExpunge, UidMove, MustMove, Running
  <2>2. QED  BY <2>1, MovedQueue
<1>7. CASE \E l \in InHand : UidCopy(l)
  <2>1. /\ run # None /\ UNCHANGED <<item, earlier>>
        /\ \E l, t : \/ run' = [run EXCEPT !.phase = "expunge", !.from = l, !.to = t]
                     \/ run' = [run EXCEPT !.phase = "expunge", !.from = l]
    BY <1>7 DEF UidCopy, MustMove, Running
  <2>2. run \in Runs  BY <2>1, HeadShape DEF MoveInv
  <2>3. run'.todo = run.todo  BY <2>1, <2>2 DEF Runs
  <2>4. QED  BY <2>1, <2>3, UnchangedQueue
<1>8. CASE AddFlagsFails \/ UidExpungeFails \/ \E l \in InHand : MoveRejected(l) \/ MoveLost(l)
  <2>1. /\ run # None /\ run.phase # "item"
        /\ \E s \in {"failed", "unknown"}, c \in ErrorCodes : StepFails(s, c)
    BY <1>8, Words DEF AddFlagsFails, UidExpungeFails, MoveRejected, MoveLost, MustMove, Running
  <2>2. QED  BY <2>1, FailedQueue
<1>9. CASE RecoverMove
  BY <1>9, RecoveryKeepsItems, MarkedQueue DEF RecoverMove
<1>10. CASE StopAtUnknown \/ Crash
  BY <1>10, UnchangedQueue DEF StopAtUnknown, Crash
<1>11. CASE AuditFails
  <2>1. run' = None /\ UNCHANGED earlier  BY <1>11 DEF AuditFails
  <2>2. PICK m : m = M  OBVIOUS
  <2>3. QED  BY <1>11, <2>1, <2>2, AuditKeepsItems DEF SameQueue
<1>12. CASE Environment \/ (\E b \in Mailboxes : Pull(b)) \/ UNCHANGED vars
  <2>1. UNCHANGED <<item, earlier, run>>
    BY <1>12 DEF Environment, ForeignDelete, ForeignMove, Pull, vars
  <2>2. QED  BY <2>1, UnchangedQueue
<1>13. QED
  BY <1>2, <1>3, <1>4, <1>5, <1>6, <1>7, <1>8, <1>9, <1>10, <1>11, <1>12
  DEF Next, PushStep, PushFault

(* Removing items from the queue leaves the order of the others. *)
LEMMA LeaveKeepsOrder ==
  ASSUME PushType, QueueOrdered, NEW S \in SUBSET Messages, earlier' = Leave(S),
         \A n \in S : item'[n] = None,
         \A n \in Messages \ S : item'[n] = item[n]
  PROVE  QueueOrdered' /\ Queued' = Queued \ S
<1>1. /\ earlier \in [Messages -> SUBSET Messages]
      /\ \A n \in Messages : earlier[n] \subseteq Queued /\ (item[n] = None => earlier[n] = {})
      /\ \A n, k \in Queued : k \in earlier[n] <=> item[k].seq < item[n].seq
      /\ \A n, k \in Queued : item[k].seq = item[n].seq => n = k
  BY DEF QueueOrdered
<1>2. \A n \in Messages : earlier'[n] = IF n \in S THEN {} ELSE earlier[n] \ S
  BY DEF Leave
<1>3. earlier' \in [Messages -> SUBSET Messages]
  BY <1>1 DEF Leave
<1>4. /\ Queued' = Queued \ S
      /\ \A n \in Queued' : n \in Queued /\ n \notin S /\ item'[n] = item[n]
  BY DEF Queued
<1>5. ASSUME NEW n \in Messages
      PROVE  earlier'[n] \subseteq Queued' /\ (item'[n] = None => earlier'[n] = {})
  <2>1. CASE n \in S
    BY <1>2, <2>1
  <2>2. CASE n \notin S
    <3>1. earlier'[n] = earlier[n] \ S /\ item'[n] = item[n]  BY <1>2, <2>2
    <3>2. earlier[n] \subseteq Queued /\ (item[n] = None => earlier[n] = {})  BY <1>1
    <3>3. Queued' = Queued \ S  BY <1>4
    <3>4. QED  BY <3>1, <3>2, <3>3
  <2>3. QED  BY <2>1, <2>2
<1>6. ASSUME NEW n \in Queued', NEW k \in Queued'
      PROVE  /\ k \in earlier'[n] <=> item'[k].seq < item'[n].seq
             /\ item'[k].seq = item'[n].seq => n = k
  <2>1. n \in Queued /\ k \in Queued /\ n \notin S /\ k \notin S /\ n \in Messages
        /\ item'[n] = item[n] /\ item'[k] = item[k]
    BY <1>4 DEF Queued
  <2>2. k \in earlier'[n] <=> k \in earlier[n]  BY <2>1, <1>2
  <2>3. /\ k \in earlier[n] <=> item[k].seq < item[n].seq
        /\ item[k].seq = item[n].seq => n = k
    BY <2>1, <1>1
  <2>4. item'[k].seq = item[k].seq /\ item'[n].seq = item[n].seq  BY <2>1
  <2>5. QED  BY <2>2, <2>3, <2>4
<1>7. QED  BY <1>3, <1>4, <1>5, <1>6 DEF QueueOrdered

LEMMA FinishKeepsOrder ==
  ASSUME OrderInv, [Next]_vars, FinishItem
  PROVE  QueueOrdered' /\ PushOrdered'
<1>1. PICK m : m = M  OBVIOUS
<1>2. run # None /\ run' = AtItem(Tail(run.todo)) /\ earlier' = Leave({m})
  BY <1>1 DEF FinishItem, Running
<1>3. /\ m \in Messages /\ item'[m] = None /\ \A n \in Messages \ {m} : item'[n] = item[n]
      /\ PushType /\ QueueOrdered
  BY <1>1, FinishKeepsItems DEF OrderInv, MoveInv
<1>4. QueueOrdered' /\ Queued' = Queued \ {m}
  <2>1. {m} \in SUBSET Messages /\ \A n \in {m} : item'[n] = None  BY <1>3
  <2>2. QED  BY <1>2, <1>3, <2>1, LeaveKeepsOrder
<1> DEFINE s == run.todo
<1>5. /\ s \in Seq(Messages) /\ Len(s) \in Nat /\ Len(s) >= 1 /\ DOMAIN s = 1 .. Len(s)
      /\ \A i, j \in DOMAIN s : s[i] = s[j] => i = j
      /\ m = s[1]
      /\ {s[i] : i \in DOMAIN s} = Queued
      /\ \A i, j \in DOMAIN s : i < j => item[s[i]].seq < item[s[j]].seq
  BY <1>1, <1>2, TodoShape, HeadShape DEF OrderInv, MoveInv, TodoQueued, PushOrdered
<1> HIDE DEF s
<1> DEFINE t == Tail(s)
<1>6. /\ t \in Seq(Messages) /\ DOMAIN t = 1 .. Len(s) - 1
      /\ \A i \in DOMAIN t : t[i] = s[i + 1] /\ i + 1 \in DOMAIN s /\ i + 1 # 1 /\ i \in Nat
  BY <1>5
<1>7. run' # None => run'.todo = t
  BY <1>2, <1>6, AtItemShape DEF s
<1> HIDE DEF t
<1>8. \A i \in DOMAIN t : t[i] \in Queued /\ t[i] # m /\ item'[t[i]] = item[t[i]]
  <2>1. ASSUME NEW i \in DOMAIN t  PROVE  s[i + 1] \in Queued /\ s[i + 1] # m /\ t[i] = s[i + 1]
    BY <1>5, <1>6
  <2>2. QED  BY <2>1, <1>3 DEF Queued
<1>9. {t[i] : i \in DOMAIN t} = Queued'
  <2>1. ASSUME NEW n \in Queued, n # m  PROVE  \E i \in DOMAIN t : t[i] = n
    <3>1. PICK j \in DOMAIN s : s[j] = n  BY <1>5
    <3>2. j - 1 \in DOMAIN t /\ t[j - 1] = s[j]
      BY <3>1, <2>1, <1>5, <1>6
    <3>3. QED  BY <3>1, <3>2
  <2>2. QED  BY <2>1, <1>4, <1>8
<1>10. ASSUME NEW i \in DOMAIN t, NEW j \in DOMAIN t, i < j
       PROVE  item'[t[i]].seq < item'[t[j]].seq
  <2>1. /\ t[i] = s[i + 1] /\ t[j] = s[j + 1] /\ i + 1 \in DOMAIN s /\ j + 1 \in DOMAIN s
        /\ i + 1 < j + 1
    BY <1>6, <1>10
  <2>2. item[t[i]].seq < item[t[j]].seq  BY <2>1, <1>5
  <2>3. QED  BY <2>2, <1>8
<1>11. PushOrdered'  BY <1>7, <1>9, <1>10 DEF PushOrdered
<1>12. QED  BY <1>4, <1>11

LEMMA BeginKeepsOrder ==
  ASSUME OrderInv, [Next]_vars, BeginPush
  PROVE  QueueOrdered' /\ PushOrdered'
<1> DEFINE S == {m \in Queued : PlanItem(m)}
           s == SortedItems(S)
<1>1. /\ run' = AtItem(s) /\ earlier' = Leave(Messages \ S)
      /\ item' = [m \in Messages |-> IF m \in S THEN item[m] ELSE None]
      /\ PushType /\ QueueOrdered
  BY DEF BeginPush, OrderInv, MoveInv
<1>2. S \in SUBSET Queued /\ S \subseteq Messages  BY DEF Queued
<1>3. /\ s \in Seq(Messages) /\ {s[i] : i \in DOMAIN s} = S
      /\ \A i, j \in DOMAIN s : i < j => Precedes(s[i], s[j])
      /\ \A i, j \in DOMAIN s : s[i] = s[j] => i = j
  BY <1>1, <1>2, SortedItemsSorted
<1> HIDE DEF S, s
<1>4. QueueOrdered' /\ Queued' = Queued \ (Messages \ S)
  BY <1>1, LeaveKeepsOrder
<1>5. Queued' = S  BY <1>2, <1>4 DEF Queued
<1>6. run' # None => run'.todo = s  BY <1>1, <1>3, AtItemShape
<1>7. ASSUME NEW i \in DOMAIN s, NEW j \in DOMAIN s, i < j
      PROVE  item'[s[i]].seq < item'[s[j]].seq
  <2>1. s[i] \in S /\ s[j] \in S /\ Precedes(s[i], s[j])  BY <1>3, <1>7
  <2>2. s[i] \in Queued /\ s[j] \in Queued /\ item'[s[i]] = item[s[i]] /\ item'[s[j]] = item[s[j]]
    BY <2>1, <1>1, <1>2
  <2>3. s[i] # s[j]
    <3>1. DOMAIN s \subseteq Nat  BY <1>3
    <3>2. i # j  BY <3>1, <1>7
    <3>3. QED  BY <3>2, <1>3
  <2>4. item[s[i]].seq # item[s[j]].seq  BY <2>2, <2>3, <1>1 DEF QueueOrdered
  <2>5. QED  BY <2>1, <2>2, <2>4 DEF Precedes
<1>8. PushOrdered'  BY <1>3, <1>5, <1>6, <1>7 DEF PushOrdered
<1>9. QED  BY <1>4, <1>8

(* An item that is queued comes after all others. *)
LEMMA CommandKeepsOrder ==
  ASSUME OrderInv, [Next]_vars, NEW m \in Messages, SpamMessage(m) \/ UnspamMessage(m)
  PROVE  QueueOrdered' /\ PushOrdered'
<1>1. CommandShape(m) /\ PushType /\ QueueOrdered
  BY CommandKeepsItems DEF OrderInv, MoveInv
<1>2. PushOrdered'  BY <1>1 DEF CommandShape, PushOrdered
<1>3. {m} \in SUBSET Messages /\ \A n \in Messages \ {m} : item'[n] = item[n]
  BY <1>1 DEF CommandShape
<1>4. CASE item[m] # None /\ item'[m] = item[m] /\ earlier' = earlier
  <2>1. /\ \A n \in Messages : item'[n] = item[n]
        /\ Queued' = Queued
    BY <1>3, <1>4 DEF Queued
  <2>2. QueueOrdered'
    BY <1>1, <1>4, <2>1 DEF QueueOrdered, Queued
  <2>3. QED  BY <1>2, <2>2
<1>5. CASE item'[m] = None /\ earlier' = Leave({m})
  <2>1. \A n \in {m} : item'[n] = None  BY <1>5
  <2>2. QED  BY <1>1, <1>2, <1>3, <1>5, <2>1, LeaveKeepsOrder
<1>6. CASE /\ earlier' = [Leave({m}) EXCEPT ![m] = Queued \ {m}]
           /\ \E a \in Actions, seq \in Nat :
                 /\ item'[m] = NewItem(a, seq)
                 /\ \A n \in Queued \ {m} : item[n].seq < seq
  <2>1. PICK a \in Actions, seq \in Nat :
           /\ item'[m] = NewItem(a, seq)
           /\ \A n \in Queued \ {m} : item[n].seq < seq
    BY <1>6
  <2>2. item'[m] # None /\ item'[m].seq = seq
    BY <2>1, NewItemShape
  <2>3. /\ earlier \in [Messages -> SUBSET Messages]
        /\ \A n \in Messages : earlier[n] \subseteq Queued /\ (item[n] = None => earlier[n] = {})
        /\ \A n, k \in Queued : k \in earlier[n] <=> item[k].seq < item[n].seq
        /\ \A n, k \in Queued : item[k].seq = item[n].seq => n = k
    BY <1>1 DEF QueueOrdered
  <2>4. /\ earlier'[m] = Queued \ {m}
        /\ \A n \in Messages \ {m} : earlier'[n] = earlier[n] \ {m}
        /\ earlier' \in [Messages -> SUBSET Messages]
    BY <1>6, <2>3 DEF Leave, Queued
  <2>5. /\ Queued' = Queued \cup {m}
        /\ \A n \in Queued' : n = m \/ (n \in Queued \ {m} /\ item'[n] = item[n])
        /\ \A n \in Queued \ {m} : n \in Messages /\ item[n].seq \in Nat
    BY <1>1, <1>3, <2>2, ItemShape DEF Queued
  <2>6. ASSUME NEW n \in Messages
        PROVE  earlier'[n] \subseteq Queued' /\ (item'[n] = None => earlier'[n] = {})
    BY <1>3, <2>2, <2>3, <2>4, <2>5
  <2>7. ASSUME NEW n \in Queued', NEW k \in Queued'
        PROVE  /\ k \in earlier'[n] <=> item'[k].seq < item'[n].seq
               /\ item'[k].seq = item'[n].seq => n = k
    <3>1. CASE n = m /\ k = m
      BY <3>1, <2>2, <2>4
    <3>2. CASE n = m /\ k # m
      <4>1. k \in Queued \ {m} /\ item'[k] = item[k]  BY <3>2, <2>5
      <4>2. item'[k].seq < item'[n].seq /\ item'[k].seq \in Nat  BY <3>2, <4>1, <2>1, <2>2, <2>5
      <4>3. k \in earlier'[n]  BY <3>2, <4>1, <2>4
      <4>4. QED  BY <4>2, <4>3, <3>2, <2>2
    <3>3. CASE n # m /\ k = m
      <4>1. n \in Queued \ {m} /\ item'[n] = item[n]  BY <3>3, <2>5
      <4>2. item'[n].seq < item'[k].seq /\ item'[n].seq \in Nat  BY <3>3, <4>1, <2>1, <2>2, <2>5
      <4>3. k \notin earlier'[n]  BY <3>3, <4>1, <2>4, <2>5
      <4>4. QED  BY <4>2, <4>3, <3>3, <2>2
    <3>4. CASE n # m /\ k # m
      <4>1. n \in Queued \ {m} /\ item'[n] = item[n] /\ k \in Queued \ {m} /\ item'[k] = item[k]
        BY <3>4, <2>5
      <4>2. k \in earlier'[n] <=> k \in earlier[n]  BY <3>4, <4>1, <2>4, <2>5
      <4>3. /\ k \in earlier[n] <=> item[k].seq < item[n].seq
            /\ item[k].seq = item[n].seq => n = k
        BY <4>1, <2>3
      <4>4. item'[k].seq = item[k].seq /\ item'[n].seq = item[n].seq  BY <4>1
      <4>5. QED  BY <4>2, <4>3, <4>4
    <3>5. QED  BY <3>1, <3>2, <3>3, <3>4
  <2>8. QueueOrdered'  BY <2>4, <2>6, <2>7 DEF QueueOrdered
  <2>9. QED  BY <1>2, <2>8
<1>7. QED  BY <1>1, <1>4, <1>5, <1>6 DEF CommandShape

LEMMA SameKeepsOrder ==
  ASSUME OrderInv, SameQueue
  PROVE  QueueOrdered' /\ PushOrdered'
<1>1. /\ Queued' = Queued /\ earlier' = earlier
      /\ \A n \in Queued : item'[n].seq = item[n].seq
      /\ \A n \in Messages : item'[n] = None => item[n] = None
  BY DEF SameQueue, Queued
<1>2. QueueOrdered'  BY <1>1 DEF OrderInv, QueueOrdered
<1>3. ASSUME run' # None  PROVE  PushOrdered'
  <2>1. run # None /\ run'.todo = run.todo  BY <1>3 DEF SameQueue
  <2>2. \A i \in DOMAIN run.todo : run.todo[i] \in Queued
    BY <2>1 DEF OrderInv, PushOrdered
  <2>3. \A i \in DOMAIN run.todo : item'[run.todo[i]].seq = item[run.todo[i]].seq
    BY <1>1, <2>2
  <2>4. QED  BY <1>1, <2>1, <2>3 DEF OrderInv, PushOrdered
<1>4. QED  BY <1>2, <1>3 DEF PushOrdered

LEMMA OrderStep ==
  ASSUME OrderInv, [Next]_vars
  PROVE  OrderInv'
<1>1. MoveInv' /\ MoveInv  BY MoveStep DEF OrderInv
<1>2. QueueOrdered' /\ PushOrdered'
  BY <1>1, QueueStep, SameKeepsOrder, FinishKeepsOrder, BeginKeepsOrder, CommandKeepsOrder
<1>3. QED  BY <1>1, <1>2 DEF OrderInv

(* An item that starts is the one at the head of the push. *)
LEMMA HeadIsFirst ==
  ASSUME OrderInv, run # None, NEW m, m = M
  PROVE  m \in Messages /\ earlier[m] = {}
<1> DEFINE s == run.todo
<1>1. /\ MoveInv /\ PushType /\ m \in Messages /\ item[m] # None /\ m = s[1]
      /\ s \in Seq(Messages) /\ Len(s) \in Nat /\ DOMAIN s = 1 .. Len(s) /\ Len(s) >= 1
  BY HeadShape, TodoShape DEF OrderInv, MoveInv
<1>2. ASSUME NEW n \in earlier[m]  PROVE  FALSE
  <2>1. n \in Queued /\ m \in Queued /\ item[n].seq < item[m].seq
    BY <1>1, <1>2 DEF OrderInv, QueueOrdered, Queued
  <2>2. PICK i \in DOMAIN s : n = s[i]  BY <2>1 DEF OrderInv, PushOrdered
  <2>3. i # 1 => item[m].seq < item[n].seq
    BY <1>1, <2>2 DEF OrderInv, PushOrdered
  <2>4. item[n].seq \in Nat /\ item[m].seq \in Nat
    BY <1>1, <2>1, ItemShape DEF Queued
  <2>5. QED  BY <1>1, <2>1, <2>2, <2>3, <2>4
<1>3. QED  BY <1>1, <1>2

LEMMA StartsInOrder ==
  ASSUME OrderInv, [Next]_vars, NEW m \in Messages,
         item[m] # None, ~HasStartedEffects(item[m]),
         item'[m] # None, HasStartedEffects(item'[m])
  PROVE  earlier[m] = {}
<1>1. item'[m] # item[m]  OBVIOUS
<1>2. MoveInv  BY DEF OrderInv
<1>3. CASE SameQueue
  <2>1. run # None /\ m = M  BY <1>1, <1>3 DEF SameQueue
  <2>2. QED  BY <2>1, HeadIsFirst
<1>4. CASE BeginPush
  BY <1>1, <1>2, <1>4, PlanKeepsItems
<1>5. CASE FinishItem
  <2>1. PICK n : n = M  OBVIOUS
  <2>2. item'[n] = None /\ \A k \in Messages \ {n} : item'[k] = item[k]
    BY <1>2, <1>5, <2>1, FinishKeepsItems
  <2>3. QED  BY <2>2, <1>1
<1>6. CASE \E n \in Messages : SpamMessage(n) \/ UnspamMessage(n)
  <2>1. PICK n \in Messages : CommandShape(n)  BY <1>2, <1>6, CommandKeepsItems
  <2>2. n = m  BY <2>1, <1>1 DEF CommandShape
  <2>3. PICK a \in Actions, seq \in Nat : item'[m] = NewItem(a, seq)
    BY <2>1, <2>2, <1>1 DEF CommandShape
  <2>4. ~HasStartedEffects(item'[m])
    BY <2>3, NewItemShape DEF HasStartedEffects
  <2>5. QED  BY <2>4
<1>7. QED  BY <1>2, <1>3, <1>4, <1>5, <1>6, QueueStep

LEMMA OrderInit ==
  ASSUME Init
  PROVE  OrderInv
<1>1. MoveInv  BY MoveInit
<1>2. QueueOrdered /\ PushOrdered
  BY DEF Init, QueueOrdered, PushOrdered, Queued
<1>3. QED  BY <1>1, <1>2 DEF OrderInv

(* The first remote effect of an item comes when no item queued earlier is    *)
(* left, for queues of any length, whatever was removed, queued again or      *)
(* interrupted in between.                                                    *)
THEOREM OrderCorrect == Spec => QueueOrderIsKept
<1>1. Init => OrderInv  BY OrderInit
<1>2. OrderInv /\ [Next]_vars => OrderInv'  BY OrderStep
<1>3. ASSUME OrderInv, [Next]_vars
      PROVE  [\A m \in Messages :
                (item[m] # None /\ ~HasStartedEffects(item[m]) /\ item'[m] # None
                  /\ HasStartedEffects(item'[m])) => earlier[m] = {}]_vars
  BY <1>3, StartsInOrder
<1>4. QED  BY <1>1, <1>2, <1>3, PTL DEF Spec, QueueOrderIsKept
=============================================================================
