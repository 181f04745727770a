-------------------------- MODULE CaseStoreProofs --------------------------
(***************************************************************************)
(* Proofs about CaseStore: the references between messages, collections    *)
(* and cases survive a crash between any two writes, a started push is     *)
(* kept, an archive ends whole, a command that is not cut short files a    *)
(* message in one place, and every command does to a message only what     *)
(* MessageLife allows.                                                      *)
(*                                                                         *)
(* A command is a chain of writes.  A command stands at a workspace d when *)
(* its next write goes on from d; every workspace it has written is in a   *)
(* set G, and every one in which a failed check has left it is in a set H. *)
(* A lemma for each kind of write says that the chain goes on; one for     *)
(* each kind of change of a workspace says what it keeps.                  *)
(***************************************************************************)
EXTENDS CaseStore, TLAPS

-----------------------------------------------------------------------------
(* What a workspace has to be.                                              *)

Agreement(d, m) ==
  \/ NotificationsOf(d, m) = {} /\ \A j, k \in DispositionsOf(d, m) : j = k
  \/ DispositionsOf(d, m) = {} /\ \A i, n \in NotificationsOf(d, m) : i = n

(* The references of a workspace are sound: whatever command comes next,   *)
(* it finds nothing else.  A case that is not there has no draft, and a    *)
(* push that has started is one.                                            *)
Sound(d) ==
  /\ \A m \in Messages : Agreement(d, m)
  /\ \A m \in Messages : d.stored[m] = "none" => ~Referenced(d, m, {})
  /\ \A c \in Cases : d.root[c] = "none" => d.draft[c].st = "none"
  /\ \A m \in Messages : d.push[m].started => d.push[m].act # "none"

(* The message is filed in one place, and shown there.                      *)
Whole(d) ==
  /\ \A m \in Messages : DispositionsOf(d, m) # {} => CasesWith(d, m) = {}
  /\ d.triage = {m \in Messages : d.stored[m] # "none" /\ TriageCandidate(d, m)}

(* Where a command that is not cut short may end.                           *)
Settled == {d \in Disk : d.txn.kind \in {"none", "case_archive"} => Whole(d)}

-----------------------------------------------------------------------------
(* The changes of a workspace, by the file they are made in.                *)

WithTxn(d, kind, on) == [d EXCEPT !.txn = [kind |-> kind, on |-> on]]
WithItems(d, c, S) == [d EXCEPT !.items[c] = S]
WithStatus(d, c, s) == [d EXCEPT !.status[c] = s]
WithRoot(d, c, to) == [d EXCEPT !.root[c] = to]
Dropped(d, c) ==
  [d EXCEPT !.root[c] = "none", !.status[c] = "", !.items[c] = {}, !.draft[c] = NoDraft]
Noted(d, n, m) == [d EXCEPT !.coll[n] = @ \cup {m}]
Unnoted(d, n, m) == [d EXCEPT !.coll[n] = @ \ {m}]
Viewed(d) ==
  [d EXCEPT !.triage = {m \in Messages : d.stored[m] # "none" /\ TriageCandidate(d, m)}]
Discarded(d, k, T) ==
  Hidden(Marked(Cleared(d, (Dispositions \ {k}) \X T), k, T), T)
Ended(d, T) ==
  [d EXCEPT !.status = [c \in Cases |-> IF c \in T THEN "archived" ELSE d.status[c]]]
Opened(d, n) == [d EXCEPT !.open = @ \cup {n}, !.coll[n] = {}]
Closed(d, n) == [d EXCEPT !.open = @ \ {n}, !.coll[n] = {}]
Shut(d, n) == [d EXCEPT !.open = @ \ {n}]
WithDraft(d, c, x) == [d EXCEPT !.draft[c] = x]
WithLoc(d, m, box) == [d EXCEPT !.loc[m] = box]
WithStored(d, m, s) == [d EXCEPT !.stored[m] = s]
Seen(d, m, box) == [d EXCEPT !.loc[m] = box, !.stored[m] = "all"]
Begun(d, m) == [d EXCEPT !.push[m].started = TRUE]
Gone(d, m) == [d EXCEPT !.push[m] = NoPush]
Reconciled(d) ==
  [d EXCEPT !.push = [m \in Messages |->
     IF d.push[m].started \/ HasPlan(d, m) THEN d.push[m] ELSE NoPush]]

-----------------------------------------------------------------------------
(* A command under way.                                                     *)

Stands(r, d, G, H) ==
  /\ r.w \subseteq G /\ r.ends \subseteq G /\ r.d \in G /\ r.ok \in BOOLEAN
  /\ r.ok => r.d = d /\ r.ends = {d}
  /\ ~r.ok => r.ends \subseteq H

LEMMA StartStands ==
  ASSUME NEW G, NEW H, disk \in G
  PROVE  Stands(Start, disk, G, H) /\ Start.ok
BY DEF Stands, Start, From

LEMMA PutStands ==
  ASSUME NEW G, NEW H, NEW r, NEW d, Stands(r, d, G, H), NEW e, r.ok => e \in G
  PROVE  Stands(Put(r, e), e, G, H) /\ Put(r, e).ok = r.ok
<1>1. CASE r.ok
  BY <1>1 DEF Stands, Put
<1>2. CASE ~r.ok
  BY <1>2 DEF Stands, Put
<1>3. QED  BY <1>1, <1>2 DEF Stands

LEMMA UnlessStands ==
  ASSUME NEW G, NEW H, NEW r, NEW d, Stands(r, d, G, H), NEW refused \in BOOLEAN,
         refused => d \in H
  PROVE  Stands(Unless(r, refused), d, G, H)
         /\ (~refused => Unless(r, refused) = r)
BY DEF Stands, Unless, Going

LEMMA PerformEnds ==
  ASSUME NEW G, NEW H, NEW r, NEW d, Stands(r, d, G, H), r.ok => d \in H, crashes \in Nat, Perform(r)
  PROVE  disk' \in G /\ (crashes' = crashes \/ crashes' = crashes + 1)
         /\ (crashes' = crashes => disk' \in H)
BY DEF Stands, Perform

LEMMA BeginStands ==
  ASSUME NEW G, NEW H, NEW r, NEW d, Stands(r, d, G, H), NEW kind, NEW on, r.ok => WithTxn(d, kind, on) \in G
  PROVE  Stands(BeginTransaction(r, kind, on), WithTxn(d, kind, on), G, H)
         /\ BeginTransaction(r, kind, on).ok = r.ok
<1>1. BeginTransaction(r, kind, on) = Put(r, WithTxn(d, kind, on))
  BY DEF BeginTransaction, Put, WithTxn, Stands
<1>2. QED  BY <1>1, PutStands

LEMMA CommitStands ==
  ASSUME NEW G, NEW H, NEW r, NEW d, Stands(r, d, G, H), r.ok => WithTxn(d, "none", None) \in G
  PROVE  Stands(Commit(r), WithTxn(d, "none", None), G, H) /\ Commit(r).ok = r.ok
<1>1. Commit(r) = Put(r, WithTxn(d, "none", None))
  BY DEF Commit, Put, WithTxn, Stands, NoTxn
<1>2. QED  BY <1>1, PutStands

LEMMA WriteCaseStands ==
  ASSUME NEW G, NEW H, NEW r, NEW d, Stands(r, d, G, H), NEW c, NEW S, r.ok => WithItems(d, c, S) \in G
  PROVE  Stands(WriteCase(r, c, S), WithItems(d, c, S), G, H) /\ WriteCase(r, c, S).ok = r.ok
<1>1. WriteCase(r, c, S) = Put(r, WithItems(d, c, S))
  BY DEF WriteCase, Put, WithItems, Stands
<1>2. QED  BY <1>1, PutStands

LEMMA SetStatusStands ==
  ASSUME NEW G, NEW H, NEW r, NEW d, Stands(r, d, G, H), NEW c, NEW s, r.ok => WithStatus(d, c, s) \in G
  PROVE  Stands(SetCaseStatus(r, c, s), WithStatus(d, c, s), G, H)
         /\ SetCaseStatus(r, c, s).ok = r.ok
<1>1. SetCaseStatus(r, c, s) = Put(r, WithStatus(d, c, s))
  BY DEF SetCaseStatus, Put, WithStatus, Stands
<1>2. QED  BY <1>1, PutStands

LEMMA MoveCaseStands ==
  ASSUME NEW G, NEW H, NEW r, NEW d, Stands(r, d, G, H), NEW c, NEW to, r.ok => WithRoot(d, c, to) \in G
  PROVE  Stands(MoveCase(r, c, to), WithRoot(d, c, to), G, H) /\ MoveCase(r, c, to).ok = r.ok
<1>1. MoveCase(r, c, to) = Put(r, WithRoot(d, c, to))
  BY DEF MoveCase, Put, WithRoot, Stands
<1>2. QED  BY <1>1, PutStands

LEMMA RemoveCaseStands ==
  ASSUME NEW G, NEW H, NEW r, NEW d, Stands(r, d, G, H), NEW c, r.ok => Dropped(d, c) \in G
  PROVE  Stands(RemoveCaseDir(r, c), Dropped(d, c), G, H) /\ RemoveCaseDir(r, c).ok = r.ok
<1>1. RemoveCaseDir(r, c) = Put(r, Dropped(d, c))
  BY DEF RemoveCaseDir, Put, Dropped, Stands
<1>2. QED  BY <1>1, PutStands

LEMMA ClearStands ==
  ASSUME NEW G, NEW H, NEW r, NEW d, Stands(r, d, G, H), NEW k, NEW m,
         r.ok => Cleared(d, {<<k, m>>}) \in G
  PROVE  Stands(ClearDisposition(r, k, m), Cleared(d, {<<k, m>>}), G, H)
         /\ ClearDisposition(r, k, m).ok = r.ok
<1>1. ClearDisposition(r, k, m) = Put(r, Cleared(d, {<<k, m>>}))
  BY DEF ClearDisposition, Put, Stands
<1>2. QED  BY <1>1, PutStands

Allowed(S, bad, after, G, H) ==
  \A T \in SUBSET (S \ bad) : after[T] \in G /\ (bad # {} => after[T] \in H)

LEMMA LoopStands ==
  ASSUME NEW G, NEW H, NEW r, NEW d, Stands(r, d, G, H), NEW S, NEW bad, NEW after, NEW e,
         r.ok => Allowed(S, bad, after, G, H) /\ (bad = {} => after[S] = e)
  PROVE  Stands(Loop(r, S, bad, after), e, G, H)
         /\ (bad = {} => Loop(r, S, bad, after).ok = r.ok)
         /\ (Loop(r, S, bad, after).ok => r.ok /\ bad = {})
<1> DEFINE some == {after[T] : T \in SUBSET (S \ bad)}
<1>0. r.ok => some \subseteq G /\ after[S \ bad] \in G /\ (bad # {} => some \subseteq H)
  BY DEF Allowed
<1>1. CASE r.ok /\ bad = {}
  <2>1. S \ bad = S  BY <1>1
  <2>2. Loop(r, S, bad, after) = [w |-> r.w \cup some, d |-> e, ends |-> {e}, ok |-> TRUE]
    BY <1>1, <2>1 DEF Loop
  <2>3. e \in G  BY <1>0, <1>1, <2>1
  <2>4. r.w \subseteq G  BY DEF Stands
  <2> DEFINE q == Loop(r, S, bad, after)
  <2>5. q.w = r.w \cup some /\ q.d = e /\ q.ends = {e} /\ q.ok = TRUE
    BY <2>2
  <2> HIDE DEF some, q
  <2>6. Stands(q, e, G, H)
    BY <1>0, <1>1, <2>3, <2>4, <2>5 DEF Stands
  <2>7. q.ok = r.ok  BY <1>1, <2>5 DEF Stands
  <2>8. QED  BY <1>1, <2>6, <2>7 DEF q
<1>2. CASE r.ok /\ bad # {}
  <2>1. Loop(r, S, bad, after)
          = [w |-> r.w \cup some, d |-> after[S \ bad], ends |-> some, ok |-> FALSE]
    BY <1>2 DEF Loop
  <2> HIDE DEF some
  <2>2. QED  BY <1>0, <1>2, <2>1 DEF Stands
<1>3. CASE ~r.ok
  BY <1>3 DEF Stands, Loop
<1>4. QED  BY <1>1, <1>2, <1>3 DEF Stands

LEMMA ClearAllStands ==
  ASSUME NEW G, NEW H, NEW r, NEW d, Stands(r, d, G, H), NEW S,
         r.ok => \A P \in SUBSET (Dispositions \X S) : Cleared(d, P) \in G
  PROVE  Stands(ClearDispositions(r, S), Cleared(d, Dispositions \X S), G, H)
         /\ ClearDispositions(r, S).ok = r.ok
<1> DEFINE pairs == Dispositions \X S
           after == [P \in SUBSET pairs |-> Cleared(r.d, P)]
<1>1. CASE r.ok
  <2>1. \A P \in SUBSET pairs : after[P] = Cleared(d, P)
    BY <1>1 DEF Stands
  <2>2. after[pairs] = Cleared(d, pairs)
    BY <2>1
  <2>3. Allowed(pairs, {}, after, G, H)
    BY <1>1, <2>1 DEF Allowed
  <2> DEFINE e == Cleared(d, pairs)
  <2> HIDE DEF after, pairs, e
  <2>4. Stands(Loop(r, pairs, {}, after), e, G, H) /\ Loop(r, pairs, {}, after).ok = r.ok
    <3>1. Stands(r, d, G, H)  OBVIOUS
    <3>2. after[pairs] = e  BY <2>2 DEF e
    <3>3. r.ok => Allowed(pairs, {}, after, G, H) /\ ({} = {} => after[pairs] = e)
      BY <2>3, <3>2
    <3>4. QED  BY <3>1, <3>3, LoopStands
  <2>5. QED  BY <2>4 DEF ClearDispositions, after, pairs, e
<1>2. CASE ~r.ok
  BY <1>2 DEF Stands, Loop, ClearDispositions
<1>3. QED  BY <1>1, <1>2 DEF Stands

LEMMA SetDispositionStands ==
  ASSUME NEW G, NEW H, NEW r, NEW d, Stands(r, d, G, H), NEW k, NEW m,
         r.ok => \A P \in SUBSET ((Dispositions \ {k}) \X {m}) : Cleared(d, P) \in G,
         r.ok => Marked(Cleared(d, (Dispositions \ {k}) \X {m}), k, {m}) \in G
  PROVE  Stands(SetDisposition(r, k, m),
                Marked(Cleared(d, (Dispositions \ {k}) \X {m}), k, {m}), G, H)
         /\ SetDisposition(r, k, m).ok = r.ok
<1> DEFINE others == (Dispositions \ {k}) \X {m}
           after == [P \in SUBSET others |-> Cleared(d, P)]
           q == Loop(r, others, {}, after)
           e == Cleared(d, others)
           f == Marked(e, k, {m})
<1>1. after[others] = e /\ (r.ok => Allowed(others, {}, after, G, H))
  BY DEF Allowed
<1>2. SetDisposition(r, k, m) = Put(q, f)
  <2>1. CASE r.ok
    <3>1. r.d = d  BY <2>1 DEF Stands
    <3>2. q.d = e
      <4>1. others \ {} = others  OBVIOUS
      <4>2. QED  BY <1>1, <2>1, <4>1 DEF Loop
    <3>3. QED  BY <3>1, <3>2 DEF SetDisposition
  <2>2. CASE ~r.ok
    BY <2>2 DEF SetDisposition, Loop, Put
  <2>3. QED  BY <2>1, <2>2 DEF Stands
<1>3. r.ok => f \in G  OBVIOUS
<1> HIDE DEF others, after, e
<1>4. Stands(q, e, G, H) /\ q.ok = r.ok
  BY <1>1, LoopStands
<1> HIDE DEF q, f
<1>5. Stands(Put(q, f), f, G, H) /\ Put(q, f).ok = r.ok
  BY <1>3, <1>4, PutStands
<1>6. QED  BY <1>2, <1>5 DEF f, e, others

LEMMA NotedStands ==
  ASSUME NEW G, NEW H, NEW r, NEW d, Stands(r, d, G, H), NEW n, NEW m, r.ok => Noted(d, n, m) \in G
  PROVE  Stands(UpsertNotification(r, n, m), Noted(d, n, m), G, H)
         /\ UpsertNotification(r, n, m).ok = r.ok
<1>1. UpsertNotification(r, n, m) = Put(r, Noted(d, n, m))
  BY DEF UpsertNotification, Put, Noted, Stands
<1>2. QED  BY <1>1, PutStands

LEMMA UnnotedStands ==
  ASSUME NEW G, NEW H, NEW r, NEW d, Stands(r, d, G, H), NEW n, NEW m, r.ok => Unnoted(d, n, m) \in G
  PROVE  Stands(RemoveNotificationItem(r, n, m), Unnoted(d, n, m), G, H)
         /\ RemoveNotificationItem(r, n, m).ok = r.ok
<1>1. RemoveNotificationItem(r, n, m) = Put(r, Unnoted(d, n, m))
  BY DEF RemoveNotificationItem, Put, Unnoted, Stands
<1>2. QED  BY <1>1, PutStands

LEMMA HiddenStands ==
  ASSUME NEW G, NEW H, NEW r, NEW d, Stands(r, d, G, H), NEW m, r.ok => Hidden(d, {m}) \in G
  PROVE  Stands(RemoveTriageView(r, m), Hidden(d, {m}), G, H) /\ RemoveTriageView(r, m).ok = r.ok
<1>1. RemoveTriageView(r, m) = Put(r, Hidden(d, {m}))
  BY DEF RemoveTriageView, Put, Stands
<1>2. QED  BY <1>1, PutStands

(* A refresh of messages that fails leaves some of them as they were. *)
Unreadable(d, S) == {m \in S : d.stored[m] = "none" \/ ~OverlayIndexBuilds(d)}

LEMMA RefreshStands ==
  ASSUME NEW G, NEW H, NEW r, NEW d, Stands(r, d, G, H), NEW S,
         r.ok => \A T \in SUBSET S : Shown(d, T) \in G,
         r.ok => \/ Unreadable(d, S) = {}
                 \/ \A T \in SUBSET S : Shown(d, T) \in H
  PROVE  Stands(RefreshMessages(r, S), Shown(d, S), G, H)
         /\ (Unreadable(d, S) = {} => RefreshMessages(r, S).ok = r.ok)
         /\ (RefreshMessages(r, S).ok => r.ok /\ Unreadable(d, S) = {})
<1> DEFINE bad == Unreadable(d, S)
           after == [T \in SUBSET S |-> Shown(d, T)]
           e == Shown(d, S)
<1>1. after[S] = e /\ (r.ok => Allowed(S, bad, after, G, H))
  BY DEF Allowed
<1>2. RefreshMessages(r, S) = Loop(r, S, bad, after)
  <2>1. CASE r.ok
    <3>1. r.d = d  BY <2>1 DEF Stands
    <3>2. QED  BY <3>1 DEF RefreshMessages, Unreadable
  <2>2. CASE ~r.ok
    BY <2>2 DEF RefreshMessages, Loop
  <2>3. QED  BY <2>1, <2>2 DEF Stands
<1> HIDE DEF bad, after, e
<1>3. Stands(Loop(r, S, bad, after), e, G, H) /\ (bad = {} => Loop(r, S, bad, after).ok = r.ok)
      /\ (Loop(r, S, bad, after).ok => r.ok /\ bad = {})
  BY <1>1, LoopStands
<1>4. QED  BY <1>2, <1>3 DEF bad, e

LEMMA QueueStands ==
  ASSUME NEW G, NEW H, NEW r, NEW d, Stands(r, d, G, H), NEW S, NEW a,
         r.ok => \A T \in SUBSET (S \ {m \in S : StartedOther(d, m, a)}) :
            Pushed(d, T, a) \in G
            /\ ((\E m \in S : StartedOther(d, m, a)) => Pushed(d, T, a) \in H)
  PROVE  Stands(QueueActionSteps(r, S, a), Pushed(d, S, a), G, H)
         /\ (QueueActionSteps(r, S, a).ok => r.ok /\ \A m \in S : ~StartedOther(d, m, a))
<1> DEFINE bad == {m \in S : StartedOther(d, m, a)}
           after == [T \in SUBSET S |-> Pushed(d, T, a)]
           e == Pushed(d, S, a)
<1>1. after[S] = e
  OBVIOUS
<1>2. r.ok => Allowed(S, bad, after, G, H)
  <2> SUFFICES ASSUME r.ok, NEW T \in SUBSET (S \ bad)
               PROVE  after[T] \in G /\ (bad # {} => after[T] \in H)
    BY DEF Allowed
  <2>1. after[T] = Pushed(d, T, a)  OBVIOUS
  <2>2. bad # {} => \E m \in S : StartedOther(d, m, a)  OBVIOUS
  <2>3. QED  BY <2>1, <2>2
<1>3. QueueActionSteps(r, S, a) = Loop(r, S, bad, after)
  <2>1. CASE r.ok
    <3>1. r.d = d  BY <2>1 DEF Stands
    <3>2. QED  BY <3>1 DEF QueueActionSteps
  <2>2. CASE ~r.ok
    BY <2>2 DEF QueueActionSteps, Loop
  <2>3. QED  BY <2>1, <2>2 DEF Stands
<1> HIDE DEF bad, after, e
<1>4. Stands(Loop(r, S, bad, after), e, G, H) /\ (Loop(r, S, bad, after).ok => r.ok /\ bad = {})
  BY <1>1, <1>2, LoopStands
<1>5. QED  BY <1>3, <1>4 DEF e, bad

LEMMA UnpushStands ==
  ASSUME NEW G, NEW H, NEW r, NEW d, Stands(r, d, G, H), NEW S, NEW a,
         r.ok => \A T \in SUBSET (S \ {m \in S : d.push[m].act = a /\ d.push[m].started}) :
            Unpushed(d, T, a) \in G
            /\ ((\E m \in S : d.push[m].act = a /\ d.push[m].started) => Unpushed(d, T, a) \in H)
  PROVE  Stands(RemovePendingPush(r, S, a), Unpushed(d, S, a), G, H)
         /\ (RemovePendingPush(r, S, a).ok =>
               r.ok /\ \A m \in S : ~(d.push[m].act = a /\ d.push[m].started))
<1> DEFINE bad == {m \in S : d.push[m].act = a /\ d.push[m].started}
           after == [T \in SUBSET S |-> Unpushed(d, T, a)]
           e == Unpushed(d, S, a)
<1>1. after[S] = e
  OBVIOUS
<1>2. r.ok => Allowed(S, bad, after, G, H)
  <2> SUFFICES ASSUME r.ok, NEW T \in SUBSET (S \ bad)
               PROVE  after[T] \in G /\ (bad # {} => after[T] \in H)
    BY DEF Allowed
  <2>1. after[T] = Unpushed(d, T, a)  OBVIOUS
  <2>2. bad # {} => \E m \in S : d.push[m].act = a /\ d.push[m].started  OBVIOUS
  <2>3. QED  BY <2>1, <2>2
<1>3. RemovePendingPush(r, S, a) = Loop(r, S, bad, after)
  <2>1. CASE r.ok
    <3>1. r.d = d  BY <2>1 DEF Stands
    <3>2. QED  BY <3>1 DEF RemovePendingPush
  <2>2. CASE ~r.ok
    BY <2>2 DEF RemovePendingPush, Loop
  <2>3. QED  BY <2>1, <2>2 DEF Stands
<1> HIDE DEF bad, after, e
<1>4. Stands(Loop(r, S, bad, after), e, G, H) /\ (Loop(r, S, bad, after).ok => r.ok /\ bad = {})
  BY <1>1, <1>2, LoopStands
<1>5. QED  BY <1>3, <1>4 DEF e, bad

LEMMA ViewsStands ==
  ASSUME NEW G, NEW H, NEW r, NEW d, Stands(r, d, G, H), r.ok => d \in H
  PROVE  Stands(RefreshDispositionViews(r), d, G, H)
         /\ (RefreshDispositionViews(r).ok => r.ok)
BY DEF RefreshDispositionViews, Unless, Going, Stands

LEMMA UnpushAllStands ==
  ASSUME NEW G, NEW H, NEW r, NEW d, Stands(r, d, G, H), NEW S, NEW a,
         r.ok => \A T \in SUBSET (S \ {m \in S : d.push[m].act = a /\ d.push[m].started}) :
            Unpushed(d, T, a) \in G
            /\ ((\E m \in S : d.push[m].act = a /\ d.push[m].started) => Unpushed(d, T, a) \in H),
         r.ok /\ (\A m \in S : ~(d.push[m].act = a /\ d.push[m].started)) => Unpushed(d, S, a) \in H
  PROVE  Stands(RemovePendingPushes(r, S, a), Unpushed(d, S, a), G, H)
         /\ (RemovePendingPushes(r, S, a).ok =>
               r.ok /\ \A m \in S : ~(d.push[m].act = a /\ d.push[m].started))
<1> DEFINE q == RemovePendingPush(r, S, a)
           e == Unpushed(d, S, a)
<1>1. Stands(q, e, G, H)
      /\ (q.ok => r.ok /\ \A m \in S : ~(d.push[m].act = a /\ d.push[m].started))
  BY UnpushStands
<1>a. q.ok => e \in H  BY <1>1
<1> HIDE DEF q, e
<1>2. Stands(RefreshDispositionViews(q), e, G, H) /\ (RefreshDispositionViews(q).ok => q.ok)
  BY <1>1, <1>a, ViewsStands
<1>3. QED  BY <1>1, <1>2 DEF RemovePendingPushes, q, e

LEMMA RenderStands ==
  ASSUME NEW G, NEW H, NEW r, NEW d, Stands(r, d, G, H), r.ok => Viewed(d) \in G /\ Viewed(d) \in H
  PROVE  Stands(RenderRefresh(r), Viewed(d), G, H)
<1>1. RefreshTriageViews(r) = Put(r, Viewed(d))
  BY DEF RefreshTriageViews, Put, Viewed, Stands
<1>2. Stands(RefreshTriageViews(r), Viewed(d), G, H) /\ RefreshTriageViews(r).ok = r.ok
  BY <1>1, PutStands
<1>3. QED  BY <1>2, ViewsStands DEF RenderRefresh

(* Some of the messages S may get disposition k, and then the next one. *)
Discardable(d, k, S, G) ==
  \A T \in SUBSET S :
    /\ Discarded(d, k, T) \in G
    /\ \A m \in S :
         /\ \A P \in SUBSET ((Dispositions \ {k}) \X {m}) : Cleared(Discarded(d, k, T), P) \in G
         /\ Marked(Cleared(Discarded(d, k, T), (Dispositions \ {k}) \X {m}), k, {m}) \in G

LEMMA UpdateStands ==
  ASSUME NEW G, NEW H, NEW r, NEW d, Stands(r, d, G, H), NEW k, NEW S,
         r.ok => Discardable(d, k, S, G)
  PROVE  Stands(UpdateMessages(r, k, S), Discarded(d, k, S), G, H)
         /\ UpdateMessages(r, k, S).ok = r.ok
<1> DEFINE During(T, m) == SetDisposition(From(Discarded(d, k, T)), k, m).w
           some == {Discarded(d, k, T) : T \in SUBSET S}
                     \cup UNION {During(T, m) : T \in SUBSET S, m \in S}
           e == Discarded(d, k, S)
<1>1. ASSUME r.ok, NEW T \in SUBSET S, NEW m \in S PROVE During(T, m) \subseteq G
  <2> DEFINE f == Discarded(d, k, T)
             q == From(f)
  <2>1. f \in G  BY <1>1 DEF Discardable
  <2>2. \A P \in SUBSET ((Dispositions \ {k}) \X {m}) : Cleared(f, P) \in G
    BY <1>1 DEF Discardable
  <2>3. Marked(Cleared(f, (Dispositions \ {k}) \X {m}), k, {m}) \in G
    BY <1>1 DEF Discardable
  <2> HIDE DEF f
  <2>4. Stands(q, f, G, H)  BY <2>1 DEF Stands, From
  <2> HIDE DEF q
  <2>5. Stands(SetDisposition(q, k, m),
               Marked(Cleared(f, (Dispositions \ {k}) \X {m}), k, {m}), G, H)
    BY <2>2, <2>3, <2>4, SetDispositionStands
  <2>6. SetDisposition(q, k, m).w \subseteq G  BY <2>5 DEF Stands
  <2>7. QED  BY <2>6 DEF q, f
<1>2. r.ok => some \subseteq G
  <2> SUFFICES ASSUME r.ok, NEW x \in some PROVE x \in G  OBVIOUS
  <2>1. CASE x \in {Discarded(d, k, T) : T \in SUBSET S}  BY <2>1 DEF Discardable
  <2>2. CASE x \in UNION {During(T, m) : T \in SUBSET S, m \in S}
    <3> HIDE DEF During
    <3>1. PICK y \in {During(T, m) : T \in SUBSET S, m \in S} : x \in y  BY <2>2
    <3>2. PICK T \in SUBSET S, m \in S : y = During(T, m)  BY <3>1
    <3>3. QED  BY <1>1, <3>1, <3>2
  <2>3. QED  BY <2>1, <2>2
<1>3. r.ok => e \in G  BY DEF Discardable
<1>4. CASE r.ok
  <2>1. r.d = d /\ r.w \subseteq G  BY <1>4 DEF Stands
  <2>2. UpdateMessages(r, k, S) = [w |-> r.w \cup some, d |-> e, ends |-> {e}, ok |-> TRUE]
    BY <1>4, <2>1 DEF UpdateMessages, Discarded
  <2> HIDE DEF some, e
  <2>3. Stands([w |-> r.w \cup some, d |-> e, ends |-> {e}, ok |-> TRUE], e, G, H)
    BY <1>2, <1>3, <1>4, <2>1 DEF Stands
  <2>4. QED  BY <1>4, <2>2, <2>3 DEF e, Stands
<1>5. CASE ~r.ok
  BY <1>5 DEF UpdateMessages, Stands
<1>6. QED  BY <1>4, <1>5 DEF Stands

(* The archive of the messages S of a case: those that may be archived, and *)
(* of these the ones in the inbox.                                          *)
Eligible(d, S, c) == {m \in S : ArchiveEligible(d, m, c, FALSE)}
InInbox(d, S) == {m \in S : d.loc[m] = "inbox"}
Freed(d, S, c) == Unpushed(d, Eligible(d, S, c), "case.add")
Queued(d, S, c) == Pushed(Freed(d, S, c), InInbox(d, Eligible(d, S, c)), "notification")

(* None of them has a push in the way that has started. *)
Freeable(d, S, c) ==
  \A m \in Eligible(d, S, c) : ~(d.push[m].act = "case.add" /\ d.push[m].started)
Queueable(d, S, c) ==
  \A m \in InInbox(d, Eligible(d, S, c)) : ~StartedOther(Freed(d, S, c), m, "notification")

(* The cases whose archive has ended. *)
Over(d) == {c \in Cases : d.root[c] = "archived" /\ d.status[c] = "archiving"
                            /\ ~HasPendingArchiveWork(d, c)}

LEMMA FinalizeStands ==
  ASSUME NEW G, NEW H, NEW r, NEW d, Stands(r, d, G, H),
         r.ok => \A T \in SUBSET Over(d) : Ended(d, T) \in G
  PROVE  Stands(FinalizeArchiving(r), Ended(d, Over(d)), G, H)
<1> DEFINE S == Over(d)
           after == [T \in SUBSET S |-> Ended(d, T)]
           e == Ended(d, S)
<1>1. after[S] = e /\ (r.ok => Allowed(S, {}, after, G, H))
  BY DEF Allowed
<1>2. CASE r.ok
  <2>1. r.d = d  BY <1>2 DEF Stands
  <2>2. FinalizeArchiving(r) = Loop(r, S, {}, after)
    BY <2>1 DEF FinalizeArchiving, Over, Ended
  <2> HIDE DEF S, after, e
  <2>3. Stands(Loop(r, S, {}, after), e, G, H)
    BY <1>1, LoopStands
  <2>4. QED  BY <2>2, <2>3 DEF e, S
<1>3. CASE ~r.ok
  <2>1. FinalizeArchiving(r) = r  BY <1>3 DEF FinalizeArchiving, Loop
  <2>2. QED  BY <1>3, <2>1 DEF Stands
<1>4. QED  BY <1>2, <1>3 DEF Stands

-----------------------------------------------------------------------------
(* What each change leaves of a workspace.                                  *)

Copies == {"all", "cache", "none"}
Statuses == {"", "archiving", "archived"}
Roots == {"none", "active", "archived"}
DraftItems == [st : {"none", "edit", "upload", "send"}, re : Messages \cup {None}]

LEMMA DiskFields ==
  ASSUME NEW d \in Disk
  PROVE  /\ d.root \in [Cases -> Roots] /\ d.status \in [Cases -> Statuses]
         /\ d.items \in [Cases -> SUBSET Messages] /\ d.draft \in [Cases -> DraftItems]
         /\ d.open \in SUBSET Notifications /\ d.coll \in [Notifications -> SUBSET Messages]
         /\ d.disp \in [Dispositions -> SUBSET Messages]
         /\ d.push \in [Messages -> [act : MessagePushActions, started : BOOLEAN]]
         /\ d.loc \in [Messages -> Mailboxes] /\ d.stored \in [Messages -> Copies]
         /\ d.triage \in SUBSET Messages /\ d.txn \in Transactions
BY DEF Disk, Roots, Statuses, DraftItems, Copies

LEMMA WithTxnFields ==
  ASSUME NEW d \in Disk, NEW kind, NEW on, [kind |-> kind, on |-> on] \in Transactions
  PROVE  LET e == WithTxn(d, kind, on)
         IN  /\ e \in Disk
             /\ e.txn = [kind |-> kind, on |-> on]
             /\ e.root = d.root /\ e.status = d.status /\ e.items = d.items /\ e.draft = d.draft
             /\ e.open = d.open /\ e.coll = d.coll /\ e.disp = d.disp /\ e.push = d.push
             /\ e.loc = d.loc /\ e.stored = d.stored /\ e.triage = d.triage
BY DEF Disk, WithTxn

LEMMA WithItemsFields ==
  ASSUME NEW d \in Disk, NEW c \in Cases, NEW S \in SUBSET Messages
  PROVE  LET e == WithItems(d, c, S)
         IN  /\ e \in Disk
             /\ e.items = [d.items EXCEPT ![c] = S]
             /\ e.root = d.root /\ e.status = d.status /\ e.draft = d.draft /\ e.open = d.open
             /\ e.coll = d.coll /\ e.disp = d.disp /\ e.push = d.push /\ e.loc = d.loc
             /\ e.stored = d.stored /\ e.triage = d.triage /\ e.txn = d.txn
BY DEF Disk, WithItems

LEMMA WithStatusFields ==
  ASSUME NEW d \in Disk, NEW c \in Cases, NEW s \in Statuses
  PROVE  LET e == WithStatus(d, c, s)
         IN  /\ e \in Disk
             /\ e.status = [d.status EXCEPT ![c] = s]
             /\ e.root = d.root /\ e.items = d.items /\ e.draft = d.draft /\ e.open = d.open
             /\ e.coll = d.coll /\ e.disp = d.disp /\ e.push = d.push /\ e.loc = d.loc
             /\ e.stored = d.stored /\ e.triage = d.triage /\ e.txn = d.txn
BY DEF Disk, WithStatus, Statuses

LEMMA WithRootFields ==
  ASSUME NEW d \in Disk, NEW c \in Cases, NEW to \in Roots
  PROVE  LET e == WithRoot(d, c, to)
         IN  /\ e \in Disk
             /\ e.root = [d.root EXCEPT ![c] = to]
             /\ e.status = d.status /\ e.items = d.items /\ e.draft = d.draft /\ e.open = d.open
             /\ e.coll = d.coll /\ e.disp = d.disp /\ e.push = d.push /\ e.loc = d.loc
             /\ e.stored = d.stored /\ e.triage = d.triage /\ e.txn = d.txn
BY DEF Disk, WithRoot, Roots

LEMMA DroppedFields ==
  ASSUME NEW d \in Disk, NEW c \in Cases
  PROVE  LET e == Dropped(d, c)
         IN  /\ e \in Disk
             /\ e.root = [d.root EXCEPT ![c] = "none"]
             /\ e.status = [d.status EXCEPT ![c] = ""]
             /\ e.items = [d.items EXCEPT ![c] = {}]
             /\ e.draft = [d.draft EXCEPT ![c] = NoDraft]
             /\ e.open = d.open /\ e.coll = d.coll /\ e.disp = d.disp /\ e.push = d.push
             /\ e.loc = d.loc /\ e.stored = d.stored /\ e.triage = d.triage /\ e.txn = d.txn
BY DEF Disk, Dropped, NoDraft

LEMMA NotedFields ==
  ASSUME NEW d \in Disk, NEW n \in Notifications, NEW m \in Messages
  PROVE  LET e == Noted(d, n, m)
         IN  /\ e \in Disk
             /\ e.coll = [d.coll EXCEPT ![n] = @ \cup {m}]
             /\ e.root = d.root /\ e.status = d.status /\ e.items = d.items /\ e.draft = d.draft
             /\ e.open = d.open /\ e.disp = d.disp /\ e.push = d.push /\ e.loc = d.loc
             /\ e.stored = d.stored /\ e.triage = d.triage /\ e.txn = d.txn
BY DEF Disk, Noted

LEMMA UnnotedFields ==
  ASSUME NEW d \in Disk, NEW n \in Notifications, NEW m \in Messages
  PROVE  LET e == Unnoted(d, n, m)
         IN  /\ e \in Disk
             /\ e.coll = [d.coll EXCEPT ![n] = @ \ {m}]
             /\ e.root = d.root /\ e.status = d.status /\ e.items = d.items /\ e.draft = d.draft
             /\ e.open = d.open /\ e.disp = d.disp /\ e.push = d.push /\ e.loc = d.loc
             /\ e.stored = d.stored /\ e.triage = d.triage /\ e.txn = d.txn
BY DEF Disk, Unnoted

LEMMA OpenedFields ==
  ASSUME NEW d \in Disk, NEW n \in Notifications
  PROVE  LET e == Opened(d, n)
         IN  /\ e \in Disk
             /\ e.open = d.open \cup {n}
             /\ e.coll = [d.coll EXCEPT ![n] = {}]
             /\ e.root = d.root /\ e.status = d.status /\ e.items = d.items /\ e.draft = d.draft
             /\ e.disp = d.disp /\ e.push = d.push /\ e.loc = d.loc /\ e.stored = d.stored
             /\ e.triage = d.triage /\ e.txn = d.txn
BY DEF Disk, Opened

LEMMA ClosedFields ==
  ASSUME NEW d \in Disk, NEW n \in Notifications
  PROVE  LET e == Closed(d, n)
         IN  /\ e \in Disk
             /\ e.open = d.open \ {n}
             /\ e.coll = [d.coll EXCEPT ![n] = {}]
             /\ e.root = d.root /\ e.status = d.status /\ e.items = d.items /\ e.draft = d.draft
             /\ e.disp = d.disp /\ e.push = d.push /\ e.loc = d.loc /\ e.stored = d.stored
             /\ e.triage = d.triage /\ e.txn = d.txn
BY DEF Disk, Closed

LEMMA ShutFields ==
  ASSUME NEW d \in Disk, NEW n \in Notifications
  PROVE  LET e == Shut(d, n)
         IN  /\ e \in Disk
             /\ e.open = d.open \ {n}
             /\ e.root = d.root /\ e.status = d.status /\ e.items = d.items /\ e.draft = d.draft
             /\ e.coll = d.coll /\ e.disp = d.disp /\ e.push = d.push /\ e.loc = d.loc
             /\ e.stored = d.stored /\ e.triage = d.triage /\ e.txn = d.txn
BY DEF Disk, Shut

LEMMA ViewedFields ==
  ASSUME NEW d \in Disk
  PROVE  LET e == Viewed(d)
         IN  /\ e \in Disk
             /\ e.triage = {m \in Messages : d.stored[m] # "none" /\ TriageCandidate(d, m)}
             /\ e.root = d.root /\ e.status = d.status /\ e.items = d.items /\ e.draft = d.draft
             /\ e.open = d.open /\ e.coll = d.coll /\ e.disp = d.disp /\ e.push = d.push
             /\ e.loc = d.loc /\ e.stored = d.stored /\ e.txn = d.txn
BY DEF Disk, Viewed

LEMMA HiddenFields ==
  ASSUME NEW d \in Disk, NEW S \in SUBSET Messages
  PROVE  LET e == Hidden(d, S)
         IN  /\ e \in Disk
             /\ e.triage = d.triage \ S
             /\ e.root = d.root /\ e.status = d.status /\ e.items = d.items /\ e.draft = d.draft
             /\ e.open = d.open /\ e.coll = d.coll /\ e.disp = d.disp /\ e.push = d.push
             /\ e.loc = d.loc /\ e.stored = d.stored /\ e.txn = d.txn
BY DEF Disk, Hidden

LEMMA ShownFields ==
  ASSUME NEW d \in Disk, NEW S \in SUBSET Messages
  PROVE  LET e == Shown(d, S)
         IN  /\ e \in Disk
             /\ e.triage = (d.triage \ S) \cup {m \in S : TriageCandidate(d, m)}
             /\ e.root = d.root /\ e.status = d.status /\ e.items = d.items /\ e.draft = d.draft
             /\ e.open = d.open /\ e.coll = d.coll /\ e.disp = d.disp /\ e.push = d.push
             /\ e.loc = d.loc /\ e.stored = d.stored /\ e.txn = d.txn
BY DEF Disk, Shown

LEMMA ClearedFields ==
  ASSUME NEW d \in Disk, NEW P
  PROVE  LET e == Cleared(d, P)
         IN  /\ e \in Disk
             /\ e.disp = [k \in Dispositions |-> {m \in d.disp[k] : <<k, m>> \notin P}]
             /\ e.root = d.root /\ e.status = d.status /\ e.items = d.items /\ e.draft = d.draft
             /\ e.open = d.open /\ e.coll = d.coll /\ e.push = d.push /\ e.loc = d.loc
             /\ e.stored = d.stored /\ e.triage = d.triage /\ e.txn = d.txn
BY DEF Disk, Cleared

LEMMA MarkedFields ==
  ASSUME NEW d \in Disk, NEW k \in Dispositions, NEW S \in SUBSET Messages
  PROVE  LET e == Marked(d, k, S)
         IN  /\ e \in Disk
             /\ e.disp = [d.disp EXCEPT ![k] = @ \cup S]
             /\ e.root = d.root /\ e.status = d.status /\ e.items = d.items /\ e.draft = d.draft
             /\ e.open = d.open /\ e.coll = d.coll /\ e.push = d.push /\ e.loc = d.loc
             /\ e.stored = d.stored /\ e.triage = d.triage /\ e.txn = d.txn
BY DEF Disk, Marked

LEMMA PushedFields ==
  ASSUME NEW d \in Disk, NEW S \in SUBSET Messages, NEW a \in MessagePushActions
  PROVE  LET e == Pushed(d, S, a)
         IN  /\ e \in Disk
             /\ e.push = [m \in Messages |-> IF m \in S /\ d.push[m].act # a THEN [act |-> a, started |-> FALSE] ELSE d.push[m]]
             /\ e.root = d.root /\ e.status = d.status /\ e.items = d.items /\ e.draft = d.draft
             /\ e.open = d.open /\ e.coll = d.coll /\ e.disp = d.disp /\ e.loc = d.loc
             /\ e.stored = d.stored /\ e.triage = d.triage /\ e.txn = d.txn
BY DEF Disk, Pushed, MessagePushActions, NoPush

LEMMA UnpushedFields ==
  ASSUME NEW d \in Disk, NEW S \in SUBSET Messages, NEW a \in MessagePushActions
  PROVE  LET e == Unpushed(d, S, a)
         IN  /\ e \in Disk
             /\ e.push = [m \in Messages |-> IF m \in S /\ d.push[m].act = a THEN NoPush ELSE d.push[m]]
             /\ e.root = d.root /\ e.status = d.status /\ e.items = d.items /\ e.draft = d.draft
             /\ e.open = d.open /\ e.coll = d.coll /\ e.disp = d.disp /\ e.loc = d.loc
             /\ e.stored = d.stored /\ e.triage = d.triage /\ e.txn = d.txn
BY DEF Disk, Unpushed, MessagePushActions, NoPush

LEMMA EndedFields ==
  ASSUME NEW d \in Disk, NEW T
  PROVE  LET e == Ended(d, T)
         IN  /\ e \in Disk
             /\ e.status = [c \in Cases |-> IF c \in T THEN "archived" ELSE d.status[c]]
             /\ e.root = d.root /\ e.items = d.items /\ e.draft = d.draft /\ e.open = d.open
             /\ e.coll = d.coll /\ e.disp = d.disp /\ e.push = d.push /\ e.loc = d.loc
             /\ e.stored = d.stored /\ e.triage = d.triage /\ e.txn = d.txn
BY DEF Disk, Ended

LEMMA WithDraftFields ==
  ASSUME NEW d \in Disk, NEW c \in Cases, NEW x \in DraftItems
  PROVE  LET e == WithDraft(d, c, x)
         IN  /\ e \in Disk
             /\ e.draft = [d.draft EXCEPT ![c] = x]
             /\ e.root = d.root /\ e.status = d.status /\ e.items = d.items /\ e.open = d.open
             /\ e.coll = d.coll /\ e.disp = d.disp /\ e.push = d.push /\ e.loc = d.loc
             /\ e.stored = d.stored /\ e.triage = d.triage /\ e.txn = d.txn
BY DEF Disk, WithDraft, DraftItems

LEMMA WithLocFields ==
  ASSUME NEW d \in Disk, NEW m \in Messages, NEW box \in Mailboxes
  PROVE  LET e == WithLoc(d, m, box)
         IN  /\ e \in Disk
             /\ e.loc = [d.loc EXCEPT ![m] = box]
             /\ e.root = d.root /\ e.status = d.status /\ e.items = d.items /\ e.draft = d.draft
             /\ e.open = d.open /\ e.coll = d.coll /\ e.disp = d.disp /\ e.push = d.push
             /\ e.stored = d.stored /\ e.triage = d.triage /\ e.txn = d.txn
BY DEF Disk, WithLoc

LEMMA WithStoredFields ==
  ASSUME NEW d \in Disk, NEW m \in Messages, NEW s \in Copies
  PROVE  LET e == WithStored(d, m, s)
         IN  /\ e \in Disk
             /\ e.stored = [d.stored EXCEPT ![m] = s]
             /\ e.root = d.root /\ e.status = d.status /\ e.items = d.items /\ e.draft = d.draft
             /\ e.open = d.open /\ e.coll = d.coll /\ e.disp = d.disp /\ e.push = d.push
             /\ e.loc = d.loc /\ e.triage = d.triage /\ e.txn = d.txn
BY DEF Disk, WithStored, Copies

LEMMA SeenFields ==
  ASSUME NEW d \in Disk, NEW m \in Messages, NEW box \in Mailboxes
  PROVE  LET e == Seen(d, m, box)
         IN  /\ e \in Disk
             /\ e.loc = [d.loc EXCEPT ![m] = box]
             /\ e.stored = [d.stored EXCEPT ![m] = "all"]
             /\ e.root = d.root /\ e.status = d.status /\ e.items = d.items /\ e.draft = d.draft
             /\ e.open = d.open /\ e.coll = d.coll /\ e.disp = d.disp /\ e.push = d.push
             /\ e.triage = d.triage /\ e.txn = d.txn
BY DEF Disk, Seen

LEMMA BegunFields ==
  ASSUME NEW d \in Disk, NEW m \in Messages
  PROVE  LET e == Begun(d, m)
         IN  /\ e \in Disk
             /\ \A n \in Messages \ {m} : e.push[n] = d.push[n]
             /\ e.push[m].act = d.push[m].act /\ e.push[m].started
             /\ d.push[m].started => e.push[m] = d.push[m]
             /\ e.root = d.root /\ e.status = d.status /\ e.items = d.items /\ e.draft = d.draft
             /\ e.open = d.open /\ e.coll = d.coll /\ e.disp = d.disp /\ e.loc = d.loc
             /\ e.stored = d.stored /\ e.triage = d.triage /\ e.txn = d.txn
<1> DEFINE p == [d.push[m] EXCEPT !.started = TRUE]
<1>1. d.push[m] \in [act : MessagePushActions, started : BOOLEAN]  BY DEF Disk
<1>2. p \in [act : MessagePushActions, started : BOOLEAN]
      /\ p.act = d.push[m].act /\ p.started
  BY <1>1
<1>3. d.push[m].started => p = d.push[m]
  BY <1>1
<1>4. Begun(d, m) = [d EXCEPT !.push = [d.push EXCEPT ![m] = p]]
  BY DEF Begun, Disk
<1>5. [d.push EXCEPT ![m] = p] \in [Messages -> [act : MessagePushActions, started : BOOLEAN]]
  BY <1>2 DEF Disk
<1> DEFINE e == Begun(d, m)
           f == [d.push EXCEPT ![m] = p]
<1>a. d.push \in [Messages -> [act : MessagePushActions, started : BOOLEAN]]
  BY DEF Disk
<1> HIDE DEF p
<1>6. f[m] = p /\ \A n \in Messages \ {m} : f[n] = d.push[n]
  BY <1>a
<1> HIDE DEF f
<1>7. /\ e \in Disk /\ e.push = f
      /\ e.root = d.root /\ e.status = d.status /\ e.items = d.items /\ e.draft = d.draft
      /\ e.open = d.open /\ e.coll = d.coll /\ e.disp = d.disp /\ e.loc = d.loc
      /\ e.stored = d.stored /\ e.triage = d.triage /\ e.txn = d.txn
  <2>1. e = [d EXCEPT !.push = f] /\ f \in [Messages -> [act : MessagePushActions, started : BOOLEAN]]
    BY <1>4, <1>5 DEF f
  <2> HIDE DEF e
  <2>2. QED  BY <2>1 DEF Disk
<1> HIDE DEF e
<1>8. QED  BY <1>2, <1>3, <1>6, <1>7 DEF e

LEMMA GoneFields ==
  ASSUME NEW d \in Disk, NEW m \in Messages
  PROVE  LET e == Gone(d, m)
         IN  /\ e \in Disk
             /\ e.push = [d.push EXCEPT ![m] = NoPush]
             /\ e.root = d.root /\ e.status = d.status /\ e.items = d.items /\ e.draft = d.draft
             /\ e.open = d.open /\ e.coll = d.coll /\ e.disp = d.disp /\ e.loc = d.loc
             /\ e.stored = d.stored /\ e.triage = d.triage /\ e.txn = d.txn
BY DEF Disk, Gone, MessagePushActions, NoPush

LEMMA ReconciledFields ==
  ASSUME NEW d \in Disk
  PROVE  LET e == Reconciled(d)
         IN  /\ e \in Disk
             /\ e.push = [m \in Messages |-> IF d.push[m].started \/ HasPlan(d, m) THEN d.push[m] ELSE NoPush]
             /\ e.root = d.root /\ e.status = d.status /\ e.items = d.items /\ e.draft = d.draft
             /\ e.open = d.open /\ e.coll = d.coll /\ e.disp = d.disp /\ e.loc = d.loc
             /\ e.stored = d.stored /\ e.triage = d.triage /\ e.txn = d.txn
BY DEF Disk, Reconciled, MessagePushActions, NoPush

-----------------------------------------------------------------------------
(* What keeps a workspace sound.                                            *)

Unreferenced(d, m) == ~Referenced(d, m, {})

(* Every reference of e is one of d. *)
Lighter(d, e) ==
  /\ \A c \in Cases : e.root[c] # "none" =>
       /\ d.root[c] # "none" /\ e.items[c] \subseteq d.items[c]
       /\ e.draft[c] = d.draft[c] \/ e.draft[c].st = "none"
  /\ \A c \in Cases : e.root[c] = "none" => e.draft[c].st = "none"
  /\ \A n \in e.open : \A m \in e.coll[n] : n \in d.open /\ m \in d.coll[n]
  /\ \A k \in Dispositions : e.disp[k] \subseteq d.disp[k]
  /\ \A m \in Messages : e.push[m] = d.push[m] \/ e.push[m] = NoPush
  /\ \A m \in Messages : e.stored[m] = "none" => d.stored[m] = "none"

LEMMA LighterIsSound ==
  ASSUME NEW d \in Disk, NEW e \in Disk, Sound(d), Lighter(d, e)
  PROVE  Sound(e)
<1>1. ASSUME NEW m \in Messages
      PROVE  /\ CasesWith(e, m) \subseteq CasesWith(d, m)
             /\ NotificationsOf(e, m) \subseteq NotificationsOf(d, m)
             /\ DispositionsOf(e, m) \subseteq DispositionsOf(d, m)
             /\ DraftRepliesTo(e, m) \subseteq DraftRepliesTo(d, m)
             /\ PushRefers(e, m, {}) => PushRefers(d, m, {})
  <2>1. CasesWith(e, m) \subseteq CasesWith(d, m)
    BY DEF Lighter, CasesWith
  <2>2. NotificationsOf(e, m) \subseteq NotificationsOf(d, m)
    BY DEF Lighter, NotificationsOf
  <2>3. DispositionsOf(e, m) \subseteq DispositionsOf(d, m)
    BY DEF Lighter, DispositionsOf
  <2>4. DraftRepliesTo(e, m) \subseteq DraftRepliesTo(d, m)
    <3> SUFFICES ASSUME NEW c \in DraftRepliesTo(e, m) PROVE c \in DraftRepliesTo(d, m)
      OBVIOUS
    <3>1. c \in Cases /\ e.root[c] # "none" /\ e.draft[c].st # "none" /\ e.draft[c].re = m
      BY DEF DraftRepliesTo
    <3>2. d.root[c] # "none" /\ e.draft[c] = d.draft[c]
      BY <3>1 DEF Lighter
    <3>3. QED  BY <3>1, <3>2 DEF DraftRepliesTo
  <2>5. PushRefers(e, m, {}) => PushRefers(d, m, {})
    <3>1. CASE e.push[m] = d.push[m]  BY <3>1 DEF PushRefers
    <3>2. CASE e.push[m] = NoPush  BY <3>2 DEF PushRefers, NoPush
    <3>3. QED  BY <3>1, <3>2 DEF Lighter
  <2>6. QED  BY <2>1, <2>2, <2>3, <2>4, <2>5
<1>2. \A m \in Messages : Agreement(e, m)
  BY <1>1 DEF Sound, Agreement
<1>3. \A m \in Messages : e.stored[m] = "none" => ~Referenced(e, m, {})
  BY <1>1 DEF Sound, Referenced, Lighter
<1>4. \A m \in Messages : e.push[m].started => e.push[m].act # "none"
  BY DEF Sound, Lighter, NoPush
<1>5. QED  BY <1>2, <1>3, <1>4 DEF Sound, Lighter

(* A message that is in a case, a notification, a draft or a push is stored. *)
LEMMA ReferencedIsStored ==
  ASSUME NEW d \in Disk, Sound(d), NEW m \in Messages,
         \/ CasesWith(d, m) # {}
         \/ NotificationsOf(d, m) # {}
         \/ d.push[m].act # "none"
  PROVE  d.stored[m] # "none"
BY DEF Sound, Referenced, PushRefers

LEMMA WithItemsIsSound ==
  ASSUME NEW d \in Disk, Sound(d), NEW c \in Cases, NEW S \in SUBSET Messages,
         \A m \in S : d.stored[m] # "none"
  PROVE  Sound(WithItems(d, c, S))
<1> DEFINE e == WithItems(d, c, S)
<1>1. /\ e \in Disk /\ e.items = [d.items EXCEPT ![c] = S]
      /\ e.root = d.root /\ e.draft = d.draft /\ e.open = d.open /\ e.coll = d.coll
      /\ e.disp = d.disp /\ e.push = d.push /\ e.stored = d.stored
  BY WithItemsFields
<1> HIDE DEF e
<1>2. ASSUME NEW m \in Messages
      PROVE  /\ NotificationsOf(e, m) = NotificationsOf(d, m)
             /\ DispositionsOf(e, m) = DispositionsOf(d, m)
             /\ DraftRepliesTo(e, m) = DraftRepliesTo(d, m)
             /\ PushRefers(e, m, {}) <=> PushRefers(d, m, {})
             /\ m \notin S => CasesWith(e, m) \subseteq CasesWith(d, m)
  <2>1. \A b \in Cases : b # c => e.items[b] = d.items[b]
    <3>1. d.items \in [Cases -> SUBSET Messages]  BY DiskFields
    <3>2. QED  BY <1>1, <3>1
  <2>2. e.items[c] = S
    <3>1. d.items \in [Cases -> SUBSET Messages]  BY DiskFields
    <3>2. QED  BY <1>1, <3>1
  <2>3. m \notin S => CasesWith(e, m) \subseteq CasesWith(d, m)
    BY <1>1, <2>1, <2>2 DEF CasesWith
  <2>4. QED
    BY <1>1, <2>3 DEF NotificationsOf, DispositionsOf, DraftRepliesTo, PushRefers
<1>3. \A m \in Messages : Agreement(e, m)
  BY <1>2 DEF Sound, Agreement
<1>4. \A m \in Messages : e.stored[m] = "none" => ~Referenced(e, m, {})
  BY <1>1, <1>2 DEF Sound, Referenced
<1>5. Sound(e)  BY <1>1, <1>3, <1>4 DEF Sound
<1>6. QED  BY <1>5 DEF e

(* CreateCase: the case and its messages appear together. *)
Made(d, c, S) == [d EXCEPT !.root[c] = "active", !.items[c] = S]

LEMMA MadeFields ==
  ASSUME NEW d \in Disk, NEW c \in Cases, NEW S \in SUBSET Messages
  PROVE  LET e == Made(d, c, S)
         IN  /\ e \in Disk
             /\ e.root = [d.root EXCEPT ![c] = "active"]
             /\ e.items = [d.items EXCEPT ![c] = S]
             /\ e.status = d.status /\ e.draft = d.draft /\ e.open = d.open
             /\ e.coll = d.coll /\ e.disp = d.disp /\ e.push = d.push /\ e.loc = d.loc
             /\ e.stored = d.stored /\ e.triage = d.triage /\ e.txn = d.txn
BY DEF Disk, Made

LEMMA MadeIsSound ==
  ASSUME NEW d \in Disk, Sound(d), NEW c \in Cases, NEW S \in SUBSET Messages,
         \A m \in S : d.stored[m] # "none", d.root[c] = "none"
  PROVE  Sound(Made(d, c, S))
<1> DEFINE e == Made(d, c, S)
<1>1. /\ e \in Disk /\ e.items = [d.items EXCEPT ![c] = S]
      /\ e.root = [d.root EXCEPT ![c] = "active"]
      /\ e.draft = d.draft /\ e.open = d.open /\ e.coll = d.coll
      /\ e.disp = d.disp /\ e.push = d.push /\ e.stored = d.stored
  BY MadeFields
<1> HIDE DEF e
<1>2. ASSUME NEW m \in Messages
      PROVE  /\ NotificationsOf(e, m) = NotificationsOf(d, m)
             /\ DispositionsOf(e, m) = DispositionsOf(d, m)
             /\ PushRefers(e, m, {}) <=> PushRefers(d, m, {})
             /\ m \notin S => CasesWith(e, m) \subseteq CasesWith(d, m)
  <2>1. \A b \in Cases : b # c => e.items[b] = d.items[b] /\ e.root[b] = d.root[b]
    <3>1. d.items \in [Cases -> SUBSET Messages]  BY DiskFields
    <3>2. d.root \in [Cases -> Roots]  BY DiskFields
    <3>3. QED  BY <1>1, <3>1, <3>2
  <2>2. e.items[c] = S
    <3>1. d.items \in [Cases -> SUBSET Messages]  BY DiskFields
    <3>2. QED  BY <1>1, <3>1
  <2>3. m \notin S => CasesWith(e, m) \subseteq CasesWith(d, m)
    BY <2>1, <2>2 DEF CasesWith
  <2>4. QED
    BY <1>1, <2>3 DEF NotificationsOf, DispositionsOf, PushRefers
<1>3. \A m \in Messages : DraftRepliesTo(e, m) \subseteq DraftRepliesTo(d, m)
  <2>1. d.draft[c].st = "none" /\ e.draft = d.draft  BY <1>1 DEF Sound
  <2>2. \A b \in Cases : b # c => e.root[b] = d.root[b]
    <3>1. d.root \in [Cases -> Roots]  BY DiskFields
    <3>2. QED  BY <1>1, <3>1
  <2>3. QED  BY <2>1, <2>2 DEF DraftRepliesTo
<1>4. \A m \in Messages : Agreement(e, m)
  BY <1>2 DEF Sound, Agreement
<1>5. \A m \in Messages : e.stored[m] = "none" => ~Referenced(e, m, {})
  BY <1>1, <1>2, <1>3 DEF Sound, Referenced
<1>6. \A b \in Cases : e.root[b] = "none" => d.root[b] = "none"
  <2>1. d.root \in [Cases -> Roots]  BY DiskFields
  <2>2. QED  BY <1>1, <2>1
<1>7. Sound(e)  BY <1>1, <1>4, <1>5, <1>6 DEF Sound
<1>8. QED  BY <1>7 DEF e

LEMMA NotedIsSound ==
  ASSUME NEW d \in Disk, Sound(d), NEW n \in d.open, NEW m \in Messages,
         d.stored[m] # "none", DispositionsOf(d, m) = {}, NotificationsOf(d, m) \subseteq {n}
  PROVE  Sound(Noted(d, n, m))
<1> DEFINE e == Noted(d, n, m)
<1>0. n \in Notifications /\ \A i \in d.open : i \in Notifications
  BY DEF Disk
<1>1. /\ e \in Disk /\ e.coll = [d.coll EXCEPT ![n] = @ \cup {m}]
      /\ e.root = d.root /\ e.items = d.items /\ e.draft = d.draft /\ e.open = d.open
      /\ e.disp = d.disp /\ e.push = d.push /\ e.stored = d.stored
  BY <1>0, NotedFields
<1> HIDE DEF e
<1>2. ASSUME NEW j \in Messages
      PROVE  /\ CasesWith(e, j) = CasesWith(d, j)
             /\ DispositionsOf(e, j) = DispositionsOf(d, j)
             /\ DraftRepliesTo(e, j) = DraftRepliesTo(d, j)
             /\ PushRefers(e, j, {}) <=> PushRefers(d, j, {})
             /\ j # m => NotificationsOf(e, j) = NotificationsOf(d, j)
  <2>1. j # m => \A i \in d.open : (j \in e.coll[i] <=> j \in d.coll[i])
    <3>1. \A i \in Notifications : e.coll[i] = IF i = n THEN d.coll[n] \cup {m} ELSE d.coll[i]
      <4>1. d.coll \in [Notifications -> SUBSET Messages]  BY <1>0, DiskFields
      <4>2. QED  BY <1>1, <4>1
    <3>2. QED  BY <1>0, <3>1
  <2>2. j # m => NotificationsOf(e, j) = NotificationsOf(d, j)
    BY <1>1, <2>1 DEF NotificationsOf
  <2>3. QED
    BY <1>1, <2>2 DEF DispositionsOf, DraftRepliesTo, PushRefers, CasesWith
<1>3. NotificationsOf(e, m) \subseteq {n}
  <2>1. \A i \in d.open : i # n => e.coll[i] = d.coll[i]
    <3>1. \A i \in Notifications : i # n => e.coll[i] = d.coll[i]
      <4>1. d.coll \in [Notifications -> SUBSET Messages]  BY <1>0, DiskFields
      <4>2. QED  BY <1>1, <4>1
    <3>2. QED  BY <1>0, <3>1
  <2>2. ASSUME NEW i \in NotificationsOf(e, m), i # n PROVE FALSE
    <3>1. i \in d.open /\ m \in d.coll[i]
      BY <1>1, <2>1, <2>2 DEF NotificationsOf
    <3>2. i \in NotificationsOf(d, m)  BY <3>1 DEF NotificationsOf
    <3>3. QED  BY <2>2, <3>2
  <2>3. QED  BY <2>2
<1>4. ASSUME NEW j \in Messages PROVE Agreement(e, j)
  <2>1. CASE j = m
    <3>1. DispositionsOf(e, m) = {}  BY <1>2
    <3>2. \A i, l \in NotificationsOf(e, m) : i = l  BY <1>3
    <3>3. QED  BY <2>1, <3>1, <3>2 DEF Agreement
  <2>2. CASE j # m
    BY <1>2, <2>2 DEF Sound, Agreement
  <2>3. QED  BY <2>1, <2>2
<1>5. \A j \in Messages : e.stored[j] = "none" => ~Referenced(e, j, {})
  BY <1>1, <1>2 DEF Sound, Referenced
<1>6. Sound(e)  BY <1>1, <1>4, <1>5 DEF Sound
<1>7. QED  BY <1>6 DEF e

LEMMA MarkedIsSound ==
  ASSUME NEW d \in Disk, Sound(d), NEW k \in Dispositions, NEW S \in SUBSET Messages,
         \A m \in S : NotificationsOf(d, m) = {} /\ DispositionsOf(d, m) \subseteq {k}
  PROVE  Sound(Marked(d, k, S))
<1> DEFINE e == Marked(d, k, S)
<1>1. /\ e \in Disk /\ e.disp = [d.disp EXCEPT ![k] = @ \cup S]
      /\ e.root = d.root /\ e.items = d.items /\ e.draft = d.draft /\ e.open = d.open
      /\ e.coll = d.coll /\ e.push = d.push /\ e.stored = d.stored
  BY MarkedFields
<1>2. \A l \in Dispositions : e.disp[l] = IF l = k THEN d.disp[k] \cup S ELSE d.disp[l]
  <2>1. d.disp \in [Dispositions -> SUBSET Messages]  BY DiskFields
  <2>2. QED  BY <1>1, <2>1
<1> HIDE DEF e
<1>3. ASSUME NEW j \in Messages
      PROVE  /\ CasesWith(e, j) = CasesWith(d, j)
             /\ NotificationsOf(e, j) = NotificationsOf(d, j)
             /\ DraftRepliesTo(e, j) = DraftRepliesTo(d, j)
             /\ PushRefers(e, j, {}) <=> PushRefers(d, j, {})
  BY <1>1 DEF NotificationsOf, DraftRepliesTo, PushRefers, CasesWith
<1>4. ASSUME NEW j \in Messages PROVE Agreement(e, j)
  <2>1. CASE j \in S
    <3>1. NotificationsOf(e, j) = {} /\ DispositionsOf(d, j) \subseteq {k}
      BY <1>3, <2>1
    <3>2. \A i, l \in DispositionsOf(e, j) : i = l
      BY <1>2, <3>1 DEF DispositionsOf
    <3>3. QED  BY <3>1, <3>2 DEF Agreement
  <2>2. CASE j \notin S
    <3>1. DispositionsOf(e, j) = DispositionsOf(d, j)
      BY <1>2, <2>2 DEF DispositionsOf
    <3>2. QED  BY <1>3, <3>1 DEF Sound, Agreement
  <2>3. QED  BY <2>1, <2>2
<1>5. \A j \in Messages : e.stored[j] = "none" => ~Referenced(e, j, {})
  BY <1>1, <1>3 DEF Sound, Referenced
<1>6. Sound(e)  BY <1>1, <1>4, <1>5 DEF Sound
<1>7. QED  BY <1>6 DEF e

LEMMA PushedIsSound ==
  ASSUME NEW d \in Disk, Sound(d), NEW S \in SUBSET Messages, NEW a \in MessagePushActions,
         a # "none", \A m \in S : d.stored[m] # "none"
  PROVE  Sound(Pushed(d, S, a))
<1> DEFINE e == Pushed(d, S, a)
<1>1. /\ e \in Disk
      /\ e.push = [m \in Messages |-> IF m \in S /\ d.push[m].act # a
                                      THEN [act |-> a, started |-> FALSE] ELSE d.push[m]]
      /\ e.root = d.root /\ e.items = d.items /\ e.draft = d.draft /\ e.open = d.open
      /\ e.coll = d.coll /\ e.disp = d.disp /\ e.stored = d.stored
  <2>1. e \in Disk  BY PushedFields
  <2>2. QED  BY <2>1 DEF Pushed, Disk
<1> HIDE DEF e
<1>2. ASSUME NEW j \in Messages
      PROVE  /\ CasesWith(e, j) = CasesWith(d, j)
             /\ NotificationsOf(e, j) = NotificationsOf(d, j)
             /\ DispositionsOf(e, j) = DispositionsOf(d, j)
             /\ DraftRepliesTo(e, j) = DraftRepliesTo(d, j)
             /\ j \notin S => (PushRefers(e, j, {}) <=> PushRefers(d, j, {}))
  BY <1>1 DEF NotificationsOf, DispositionsOf, DraftRepliesTo, PushRefers, CasesWith
<1>3. \A j \in Messages : Agreement(e, j)
  BY <1>2 DEF Sound, Agreement
<1>4. \A j \in Messages : e.stored[j] = "none" => ~Referenced(e, j, {})
  BY <1>1, <1>2 DEF Sound, Referenced
<1>5. \A j \in Messages : e.push[j].started => e.push[j].act # "none"
  BY <1>1 DEF Sound
<1>6. Sound(e)  BY <1>1, <1>3, <1>4, <1>5 DEF Sound
<1>7. QED  BY <1>6 DEF e

LEMMA BegunIsSound ==
  ASSUME NEW d \in Disk, Sound(d), NEW m \in Messages, d.push[m].act # "none"
  PROVE  Sound(Begun(d, m))
<1> DEFINE e == Begun(d, m)
<1>1. /\ e \in Disk
      /\ \A n \in Messages \ {m} : e.push[n] = d.push[n]
      /\ e.push[m].act = d.push[m].act
      /\ e.root = d.root /\ e.items = d.items /\ e.draft = d.draft /\ e.open = d.open
      /\ e.coll = d.coll /\ e.disp = d.disp /\ e.stored = d.stored
  BY BegunFields
<1> HIDE DEF e
<1>2. ASSUME NEW j \in Messages
      PROVE  /\ CasesWith(e, j) = CasesWith(d, j)
             /\ NotificationsOf(e, j) = NotificationsOf(d, j)
             /\ DispositionsOf(e, j) = DispositionsOf(d, j)
             /\ DraftRepliesTo(e, j) = DraftRepliesTo(d, j)
             /\ PushRefers(e, j, {}) <=> PushRefers(d, j, {})
  <2>1. e.push[j].act = d.push[j].act  BY <1>1
  <2>2. PushRefers(e, j, {}) <=> PushRefers(d, j, {})  BY <2>1 DEF PushRefers
  <2>3. QED
    BY <1>1, <2>2 DEF NotificationsOf, DispositionsOf, DraftRepliesTo, CasesWith
<1>3. \A j \in Messages : Agreement(e, j)
  BY <1>2 DEF Sound, Agreement
<1>4. \A j \in Messages : e.stored[j] = "none" => ~Referenced(e, j, {})
  BY <1>1, <1>2 DEF Sound, Referenced
<1>5. \A j \in Messages : e.push[j].started => e.push[j].act # "none"
  BY <1>1 DEF Sound
<1>6. Sound(e)  BY <1>1, <1>3, <1>4, <1>5 DEF Sound
<1>7. QED  BY <1>6 DEF e

LEMMA WithDraftIsSound ==
  ASSUME NEW d \in Disk, Sound(d), NEW c \in Cases,
         NEW x \in DraftItems,
         d.root[c] # "none",
         x.re \in Messages => d.stored[x.re] # "none"
  PROVE  Sound(WithDraft(d, c, x))
<1> DEFINE e == WithDraft(d, c, x)
<1>1. /\ e \in Disk /\ e.draft = [d.draft EXCEPT ![c] = x]
      /\ e.root = d.root /\ e.items = d.items /\ e.open = d.open
      /\ e.coll = d.coll /\ e.disp = d.disp /\ e.push = d.push /\ e.stored = d.stored
  BY WithDraftFields
<1>2. \A b \in Cases : e.draft[b] = IF b = c THEN x ELSE d.draft[b]
  <2>1. d.draft \in [Cases -> DraftItems]  BY DiskFields
  <2>2. QED  BY <1>1, <2>1
<1> HIDE DEF e
<1>3. ASSUME NEW j \in Messages
      PROVE  /\ CasesWith(e, j) = CasesWith(d, j)
             /\ NotificationsOf(e, j) = NotificationsOf(d, j)
             /\ DispositionsOf(e, j) = DispositionsOf(d, j)
             /\ PushRefers(e, j, {}) <=> PushRefers(d, j, {})
             /\ j # x.re => DraftRepliesTo(e, j) \subseteq DraftRepliesTo(d, j)
  <2>1. j # x.re => DraftRepliesTo(e, j) \subseteq DraftRepliesTo(d, j)
    BY <1>1, <1>2 DEF DraftRepliesTo
  <2>2. QED
    BY <1>1, <2>1 DEF NotificationsOf, DispositionsOf, PushRefers, CasesWith
<1>4. \A j \in Messages : Agreement(e, j)
  BY <1>3 DEF Sound, Agreement
<1>5. ASSUME NEW j \in Messages, e.stored[j] = "none" PROVE ~Referenced(e, j, {})
  <2>1. j # x.re  BY <1>1, <1>5
  <2>2. QED  BY <1>1, <1>3, <1>5, <2>1 DEF Sound, Referenced
<1>6. Sound(e)  BY <1>1, <1>2, <1>4, <1>5 DEF Sound
<1>7. QED  BY <1>6 DEF e

LEMMA WithStoredIsSound ==
  ASSUME NEW d \in Disk, Sound(d), NEW m \in Messages, NEW s \in Copies,
         Unreferenced(d, m)
  PROVE  Sound(WithStored(d, m, s))
<1> DEFINE e == WithStored(d, m, s)
<1>1. /\ e \in Disk /\ e.stored = [d.stored EXCEPT ![m] = s]
      /\ e.root = d.root /\ e.items = d.items /\ e.draft = d.draft /\ e.open = d.open
      /\ e.coll = d.coll /\ e.disp = d.disp /\ e.push = d.push
  BY WithStoredFields
<1>2. \A j \in Messages : j # m => e.stored[j] = d.stored[j]
  <2>1. d.stored \in [Messages -> Copies]  BY DiskFields
  <2>2. QED  BY <1>1, <2>1
<1> HIDE DEF e
<1>3. ASSUME NEW j \in Messages
      PROVE  /\ CasesWith(e, j) = CasesWith(d, j)
             /\ NotificationsOf(e, j) = NotificationsOf(d, j)
             /\ DispositionsOf(e, j) = DispositionsOf(d, j)
             /\ DraftRepliesTo(e, j) = DraftRepliesTo(d, j)
             /\ PushRefers(e, j, {}) <=> PushRefers(d, j, {})
  BY <1>1 DEF NotificationsOf, DispositionsOf, DraftRepliesTo, PushRefers, CasesWith
<1>4. \A j \in Messages : Agreement(e, j)
  BY <1>3 DEF Sound, Agreement
<1>5. \A j \in Messages : e.stored[j] = "none" => ~Referenced(e, j, {})
  BY <1>2, <1>3 DEF Sound, Unreferenced, Referenced
<1>6. Sound(e)  BY <1>1, <1>4, <1>5 DEF Sound
<1>7. QED  BY <1>6 DEF e

-----------------------------------------------------------------------------
(* What a command may reach.  Its bounds p say where it starts from, whether *)
(* every workspace so far was whole, the messages it views anew (touched),  *)
(* those whose disposition or files it may add or remove (own), those whose *)
(* push it may end (done), the cases it may archive (cases) and the kinds   *)
(* of transaction it may be in (kinds).                                     *)

WholeAt(d, m) ==
  /\ DispositionsOf(d, m) # {} => CasesWith(d, m) = {}
  /\ m \in d.triage <=> (d.stored[m] # "none" /\ TriageCandidate(d, m))

Reach(p) ==
  {d \in Disk :
     /\ Sound(d)
     /\ \A m \in Messages : p.from.push[m].started =>
          d.push[m] = p.from.push[m] \/ (m \in p.done /\ d.push[m] = NoPush)
     /\ \A m \in Messages \ p.own :
          /\ d.stored[m] = p.from.stored[m]
          /\ \A k \in Dispositions : m \in d.disp[k] => m \in p.from.disp[k]
     /\ \A c \in Cases \ p.cases : p.from.root[c] = "active" => d.root[c] # "archived"
     /\ d.txn.kind \in p.kinds
     /\ p.whole => \A m \in Messages \ p.touched : WholeAt(d, m)}

(* Where it may end, unless its transaction is left open. *)
Restful(p) ==
  {d \in Disk : p.whole /\ d.txn.kind \in {"none", "case_archive"} => Whole(d)}

PushKept(p, d, e) ==
  \A m \in Messages : \/ e.push[m] = d.push[m]
                      \/ ~p.from.push[m].started
                      \/ m \in p.done /\ e.push[m] = NoPush
FilesKept(p, d, e) ==
  \A m \in Messages \ p.own :
    /\ e.stored[m] = d.stored[m]
    /\ \A k \in Dispositions : m \in e.disp[k] => m \in d.disp[k]
RootKept(p, d, e) ==
  \A c \in Cases \ p.cases : e.root[c] = d.root[c] \/ e.root[c] # "archived"
ViewKept(p, d, e) ==
  \A m \in Messages \ p.touched : WholeAt(d, m) => WholeAt(e, m)

LEMMA Reached ==
  ASSUME NEW p, NEW d \in Reach(p), NEW e \in Disk, Sound(e), e.txn.kind \in p.kinds,
         PushKept(p, d, e), FilesKept(p, d, e), RootKept(p, d, e), ViewKept(p, d, e)
  PROVE  e \in Reach(p)
<1>1. \A m \in Messages : p.from.push[m].started =>
          e.push[m] = p.from.push[m] \/ (m \in p.done /\ e.push[m] = NoPush)
  BY DEF Reach, PushKept
<1>2. \A m \in Messages \ p.own :
          /\ e.stored[m] = p.from.stored[m]
          /\ \A k \in Dispositions : m \in e.disp[k] => m \in p.from.disp[k]
  BY DEF Reach, FilesKept
<1>3. \A c \in Cases \ p.cases : p.from.root[c] = "active" => e.root[c] # "archived"
  BY DEF Reach, RootKept
<1>4. p.whole => \A m \in Messages \ p.touched : WholeAt(e, m)
  BY DEF Reach, ViewKept
<1>5. QED  BY <1>1, <1>2, <1>3, <1>4 DEF Reach

LEMMA ReachIsSound ==
  ASSUME NEW p, NEW d \in Reach(p)
  PROVE  d \in Disk /\ Sound(d) /\ d.txn.kind \in p.kinds
BY DEF Reach

LEMMA WholeParts ==
  ASSUME NEW d \in Disk
  PROVE  Whole(d) <=> \A m \in Messages : WholeAt(d, m)
<1>1. d.triage \subseteq Messages  BY DEF Disk
<1>2. ASSUME Whole(d) PROVE \A m \in Messages : WholeAt(d, m)
  BY <1>2 DEF Whole, WholeAt
<1>3. ASSUME \A m \in Messages : WholeAt(d, m) PROVE Whole(d)
  <2>1. d.triage = {m \in Messages : d.stored[m] # "none" /\ TriageCandidate(d, m)}
    BY <1>1, <1>3 DEF WholeAt
  <2>2. \A m \in Messages : DispositionsOf(d, m) # {} => CasesWith(d, m) = {}
    BY <1>3 DEF WholeAt
  <2>3. QED  BY <2>1, <2>2 DEF Whole
<1>4. QED  BY <1>2, <1>3

(* A workspace that is reached is whole when the touched messages are. *)
LEMMA ReachIsRestful ==
  ASSUME NEW p, NEW d \in Reach(p), p.whole => \A m \in p.touched : WholeAt(d, m)
  PROVE  d \in Restful(p)
<1>1. d \in Disk  BY DEF Reach
<1>2. ASSUME p.whole PROVE \A m \in Messages : WholeAt(d, m)
  BY <1>2 DEF Reach
<1>3. p.whole => Whole(d)  BY <1>1, <1>2, WholeParts
<1>4. QED  BY <1>1, <1>3 DEF Restful

(* An open transaction makes no promise. *)
LEMMA OpenIsRestful ==
  ASSUME NEW p, NEW d \in Reach(p), d.txn.kind \notin {"none", "case_archive"}
  PROVE  d \in Restful(p)
BY DEF Reach, Restful

(* The bounds hold where the command starts. *)
LEMMA ReachStart ==
  ASSUME NEW p, p.from \in Disk, Sound(p.from), p.whole => Whole(p.from),
         p.from.txn.kind \in p.kinds
  PROVE  p.from \in Reach(p)
<1>1. p.whole => \A m \in Messages : WholeAt(p.from, m)
  BY WholeParts
<1>2. QED  BY <1>1 DEF Reach

(* Seen from message m, d and e are alike. *)
Alike(d, e, m) ==
  /\ CasesWith(e, m) = {} <=> CasesWith(d, m) = {}
  /\ NotificationsOf(e, m) = {} <=> NotificationsOf(d, m) = {}
  /\ DispositionsOf(e, m) = {} <=> DispositionsOf(d, m) = {}
  /\ e.stored[m] = d.stored[m]
  /\ m \in e.triage <=> m \in d.triage

LEMMA AlikeIsWhole ==
  ASSUME NEW d, NEW e, NEW m, Alike(d, e, m), WholeAt(d, m)
  PROVE  WholeAt(e, m)
<1>1. TriageCandidate(e, m) <=> TriageCandidate(d, m)
  BY DEF Alike, TriageCandidate
<1>2. QED  BY <1>1 DEF Alike, WholeAt

SameFiling(d, e) ==
  /\ e.root = d.root /\ e.items = d.items /\ e.draft = d.draft /\ e.open = d.open
  /\ e.coll = d.coll /\ e.disp = d.disp /\ e.push = d.push /\ e.stored = d.stored

(* Changes of the status, the location or the transaction record. *)
Quiet(d, e) == SameFiling(d, e) /\ e.triage = d.triage

LEMMA QuietReach ==
  ASSUME NEW p, NEW d \in Reach(p), NEW e \in Disk, Quiet(d, e), e.txn.kind \in p.kinds
  PROVE  e \in Reach(p)
<1>1. Sound(e)
  <2>1. Lighter(d, e)  BY ReachIsSound DEF Quiet, SameFiling, Lighter, Sound
  <2>2. QED  BY <2>1, ReachIsSound, LighterIsSound
<1>2. \A m \in Messages : Alike(d, e, m)
  BY DEF Quiet, SameFiling, Alike, CasesWith, NotificationsOf, DispositionsOf
<1>3. ViewKept(p, d, e)  BY <1>2, AlikeIsWhole DEF ViewKept
<1>4. PushKept(p, d, e) /\ FilesKept(p, d, e) /\ RootKept(p, d, e)
  BY DEF Quiet, SameFiling, PushKept, FilesKept, RootKept
<1>5. QED  BY <1>1, <1>3, <1>4, Reached

LEMMA TxnReach ==
  ASSUME NEW p, NEW d \in Reach(p), NEW kind \in p.kinds, NEW on,
         [kind |-> kind, on |-> on] \in Transactions
  PROVE  WithTxn(d, kind, on) \in Reach(p)
<1> DEFINE e == WithTxn(d, kind, on)
<1>0. d \in Disk  BY ReachIsSound
<1>1. e \in Disk /\ Quiet(d, e) /\ e.txn.kind \in p.kinds
  BY <1>0, WithTxnFields DEF Quiet, SameFiling
<1> HIDE DEF e
<1>2. e \in Reach(p)  BY <1>1, QuietReach
<1>3. QED  BY <1>2 DEF e

LEMMA StatusReach ==
  ASSUME NEW p, NEW d \in Reach(p), NEW c \in Cases, NEW s \in Statuses
  PROVE  WithStatus(d, c, s) \in Reach(p)
<1> DEFINE e == WithStatus(d, c, s)
<1>0. d \in Disk /\ d.txn.kind \in p.kinds  BY ReachIsSound
<1>1. e \in Disk /\ Quiet(d, e) /\ e.txn.kind \in p.kinds
  <2>1. e \in Disk  BY <1>0, WithStatusFields
  <2>2. Quiet(d, e) /\ e.txn = d.txn  BY <1>0 DEF WithStatus, Disk, Quiet, SameFiling
  <2>3. QED  BY <1>0, <2>1, <2>2
<1> HIDE DEF e
<1>2. e \in Reach(p)  BY <1>1, QuietReach
<1>3. QED  BY <1>2 DEF e

LEMMA LocReach ==
  ASSUME NEW p, NEW d \in Reach(p), NEW m \in Messages, NEW box \in Mailboxes
  PROVE  WithLoc(d, m, box) \in Reach(p)
<1> DEFINE e == WithLoc(d, m, box)
<1>0. d \in Disk /\ d.txn.kind \in p.kinds  BY ReachIsSound
<1>1. e \in Disk /\ Quiet(d, e) /\ e.txn.kind \in p.kinds
  <2>1. e \in Disk  BY <1>0, WithLocFields
  <2>2. Quiet(d, e) /\ e.txn = d.txn  BY <1>0 DEF WithLoc, Disk, Quiet, SameFiling
  <2>3. QED  BY <1>0, <2>1, <2>2
<1> HIDE DEF e
<1>2. e \in Reach(p)  BY <1>1, QuietReach
<1>3. QED  BY <1>2 DEF e

LEMMA EndedReach ==
  ASSUME NEW p, NEW d \in Reach(p), NEW T
  PROVE  Ended(d, T) \in Reach(p)
<1> DEFINE e == Ended(d, T)
<1>0. d \in Disk /\ d.txn.kind \in p.kinds  BY ReachIsSound
<1>1. e \in Disk /\ Quiet(d, e) /\ e.txn.kind \in p.kinds
  <2>1. e \in Disk  BY <1>0, EndedFields
  <2>2. Quiet(d, e) /\ e.txn = d.txn  BY <1>0 DEF Ended, Disk, Quiet, SameFiling
  <2>3. QED  BY <1>0, <2>1, <2>2
<1> HIDE DEF e
<1>2. e \in Reach(p)  BY <1>1, QuietReach
<1>3. QED  BY <1>2 DEF e

(* Changes of the triage directory. *)
LEMMA ViewReach ==
  ASSUME NEW p, NEW d \in Reach(p), NEW e \in Disk,
         SameFiling(d, e), e.txn = d.txn,
         \A m \in Messages \ p.touched : WholeAt(d, m) =>
            (m \in e.triage <=> (d.stored[m] # "none" /\ TriageCandidate(d, m)))
  PROVE  e \in Reach(p)
<1>0. /\ e.root = d.root /\ e.items = d.items /\ e.draft = d.draft /\ e.open = d.open
      /\ e.coll = d.coll /\ e.disp = d.disp /\ e.push = d.push /\ e.stored = d.stored
  BY DEF SameFiling
<1>1. Sound(e)
  <2>1. Lighter(d, e)  BY <1>0, ReachIsSound DEF Lighter, Sound
  <2>2. QED  BY <2>1, ReachIsSound, LighterIsSound
<1>2. \A m \in Messages : CasesWith(e, m) = CasesWith(d, m)
         /\ DispositionsOf(e, m) = DispositionsOf(d, m)
         /\ (TriageCandidate(e, m) <=> TriageCandidate(d, m))
  BY <1>0 DEF CasesWith, NotificationsOf, DispositionsOf, TriageCandidate
<1>3. ViewKept(p, d, e)
  BY <1>0, <1>2 DEF ViewKept, WholeAt
<1>4. PushKept(p, d, e) /\ FilesKept(p, d, e) /\ RootKept(p, d, e)
  BY <1>0 DEF PushKept, FilesKept, RootKept
<1>5. e.txn.kind \in p.kinds  BY ReachIsSound
<1>6. QED  BY <1>1, <1>3, <1>4, <1>5, Reached

LEMMA HiddenReach ==
  ASSUME NEW p, NEW d \in Reach(p), NEW S \in SUBSET Messages, S \subseteq p.touched
  PROVE  Hidden(d, S) \in Reach(p)
<1> DEFINE e == Hidden(d, S)
<1>0. d \in Disk  BY ReachIsSound
<1>1. e \in Disk /\ e.txn = d.txn /\ SameFiling(d, e) /\ e.triage = d.triage \ S
  BY <1>0, HiddenFields DEF SameFiling
<1> HIDE DEF e
<1>2. \A m \in Messages \ p.touched : WholeAt(d, m) =>
         (m \in e.triage <=> (d.stored[m] # "none" /\ TriageCandidate(d, m)))
  BY <1>1 DEF WholeAt
<1>3. e \in Reach(p)  BY <1>1, <1>2, ViewReach
<1>4. QED  BY <1>3 DEF e

LEMMA ShownReach ==
  ASSUME NEW p, NEW d \in Reach(p), NEW S \in SUBSET Messages,
         \A m \in S \ p.touched : d.stored[m] # "none"
  PROVE  Shown(d, S) \in Reach(p)
<1> DEFINE e == Shown(d, S)
<1>0. d \in Disk  BY ReachIsSound
<1>1. e \in Disk /\ e.txn = d.txn /\ SameFiling(d, e)
      /\ e.triage = (d.triage \ S) \cup {m \in S : TriageCandidate(d, m)}
  BY <1>0, ShownFields DEF SameFiling
<1> HIDE DEF e
<1>2. \A m \in Messages \ p.touched : WholeAt(d, m) =>
         (m \in e.triage <=> (d.stored[m] # "none" /\ TriageCandidate(d, m)))
  BY <1>1 DEF WholeAt
<1>3. e \in Reach(p)  BY <1>1, <1>2, ViewReach
<1>4. QED  BY <1>3 DEF e

LEMMA ViewedReach ==
  ASSUME NEW p, NEW d \in Reach(p)
  PROVE  Viewed(d) \in Reach(p)
<1> DEFINE e == Viewed(d)
<1>0. d \in Disk  BY ReachIsSound
<1>1. e \in Disk /\ e.txn = d.txn /\ SameFiling(d, e)
      /\ e.triage = {m \in Messages : d.stored[m] # "none" /\ TriageCandidate(d, m)}
  BY <1>0, ViewedFields DEF SameFiling
<1> HIDE DEF e
<1>2. \A m \in Messages \ p.touched : WholeAt(d, m) =>
         (m \in e.triage <=> (d.stored[m] # "none" /\ TriageCandidate(d, m)))
  BY <1>1
<1>3. e \in Reach(p)  BY <1>1, <1>2, ViewReach
<1>4. QED  BY <1>3 DEF e

(* Changes of the cases. *)
LEMMA RootReach ==
  ASSUME NEW p, NEW d \in Reach(p), NEW c \in Cases, NEW to \in Roots,
         d.root[c] # "none", to # "none", c \in p.cases \/ to # "archived"
  PROVE  WithRoot(d, c, to) \in Reach(p)
<1> DEFINE e == WithRoot(d, c, to)
<1>0. d \in Disk /\ d.txn.kind \in p.kinds /\ Sound(d)  BY ReachIsSound
<1>1. /\ e \in Disk /\ e.root = [d.root EXCEPT ![c] = to]
      /\ e.items = d.items /\ e.draft = d.draft /\ e.open = d.open /\ e.coll = d.coll
      /\ e.disp = d.disp /\ e.push = d.push /\ e.stored = d.stored /\ e.triage = d.triage
      /\ e.txn = d.txn
  BY <1>0, WithRootFields
<1>2. \A b \in Cases : e.root[b] = IF b = c THEN to ELSE d.root[b]
  <2>1. d.root \in [Cases -> Roots]  BY <1>0, DiskFields
  <2>2. QED  BY <1>1, <2>1
<1> HIDE DEF e
<1>3. Lighter(d, e)  BY <1>0, <1>1, <1>2 DEF Lighter, Sound
<1>4. Sound(e)  BY <1>0, <1>1, <1>3, LighterIsSound
<1>5. \A m \in Messages : Alike(d, e, m)
  BY <1>1, <1>2 DEF Alike, CasesWith, NotificationsOf, DispositionsOf
<1>6. ViewKept(p, d, e)  BY <1>5, AlikeIsWhole DEF ViewKept
<1>7. PushKept(p, d, e) /\ FilesKept(p, d, e) /\ RootKept(p, d, e)
  BY <1>1, <1>2 DEF PushKept, FilesKept, RootKept
<1>8. e \in Reach(p)  BY <1>0, <1>1, <1>4, <1>6, <1>7, Reached
<1>9. QED  BY <1>8 DEF e

LEMMA ItemsReach ==
  ASSUME NEW p, NEW d \in Reach(p), NEW c \in Cases, NEW S \in SUBSET Messages,
         \A m \in S : d.stored[m] # "none",
         \A m \in Messages \ p.touched : \/ m \in S <=> m \in d.items[c]
                                         \/ \E b \in CasesWith(d, m) : b # c
  PROVE  WithItems(d, c, S) \in Reach(p)
<1> DEFINE e == WithItems(d, c, S)
<1>0. d \in Disk /\ d.txn.kind \in p.kinds /\ Sound(d)  BY ReachIsSound
<1>1. /\ e \in Disk /\ e.items = [d.items EXCEPT ![c] = S]
      /\ e.root = d.root /\ e.draft = d.draft /\ e.open = d.open /\ e.coll = d.coll
      /\ e.disp = d.disp /\ e.push = d.push /\ e.stored = d.stored /\ e.triage = d.triage
      /\ e.txn = d.txn
  BY <1>0, WithItemsFields
<1>2. \A b \in Cases : e.items[b] = IF b = c THEN S ELSE d.items[b]
  <2>1. d.items \in [Cases -> SUBSET Messages]  BY <1>0, DiskFields
  <2>2. QED  BY <1>1, <2>1
<1>3. Sound(e)  BY <1>0, WithItemsIsSound
<1> HIDE DEF e
<1>4. ASSUME NEW m \in Messages \ p.touched PROVE Alike(d, e, m)
  <2>1. (CasesWith(e, m) = {}) <=> (CasesWith(d, m) = {})
    <3>1. CASE m \in S <=> m \in d.items[c]
      <4>1. CasesWith(e, m) = CasesWith(d, m)
        BY <1>1, <1>2, <3>1 DEF CasesWith
      <4>2. QED  BY <4>1
    <3>2. CASE \E b \in CasesWith(d, m) : b # c
      <4>1. PICK b \in CasesWith(d, m) : b # c  BY <3>2
      <4>2. b \in CasesWith(e, m)  BY <1>1, <1>2, <4>1 DEF CasesWith
      <4>3. QED  BY <4>1, <4>2
    <3>3. QED  BY <3>1, <3>2
  <2>2. QED  BY <1>1, <2>1 DEF Alike, NotificationsOf, DispositionsOf
<1>5. ViewKept(p, d, e)  BY <1>4, AlikeIsWhole DEF ViewKept
<1>6. PushKept(p, d, e) /\ FilesKept(p, d, e) /\ RootKept(p, d, e)
  BY <1>1 DEF PushKept, FilesKept, RootKept
<1>7. e \in Reach(p)  BY <1>0, <1>1, <1>3, <1>5, <1>6, Reached
<1>8. QED  BY <1>7 DEF e

LEMMA DroppedReach ==
  ASSUME NEW p, NEW d \in Reach(p), NEW c \in Cases,
         \A m \in d.items[c] : m \in p.touched \/ \E b \in CasesWith(d, m) : b # c
  PROVE  Dropped(d, c) \in Reach(p)
<1> DEFINE e == Dropped(d, c)
<1>0. d \in Disk /\ d.txn.kind \in p.kinds /\ Sound(d)  BY ReachIsSound
<1>1. /\ e \in Disk /\ e.root = [d.root EXCEPT ![c] = "none"]
      /\ e.items = [d.items EXCEPT ![c] = {}]
      /\ e.draft = [d.draft EXCEPT ![c] = NoDraft]
      /\ e.open = d.open /\ e.coll = d.coll
      /\ e.disp = d.disp /\ e.push = d.push /\ e.stored = d.stored /\ e.triage = d.triage
      /\ e.txn = d.txn
  BY <1>0, DroppedFields
<1>2. /\ e.root[c] = "none" /\ e.items[c] = {} /\ e.draft[c] = NoDraft
      /\ \A b \in Cases : b # c =>
           e.root[b] = d.root[b] /\ e.items[b] = d.items[b] /\ e.draft[b] = d.draft[b]
  <2>1. e.root[c] = "none" /\ \A b \in Cases : b # c => e.root[b] = d.root[b]
    <3>1. d.root \in [Cases -> Roots]  BY <1>0, DiskFields
    <3>2. QED  BY <1>1, <3>1
  <2>2. e.items[c] = {} /\ \A b \in Cases : b # c => e.items[b] = d.items[b]
    <3>1. d.items \in [Cases -> SUBSET Messages]  BY <1>0, DiskFields
    <3>2. QED  BY <1>1, <3>1
  <2>3. e.draft[c] = NoDraft /\ \A b \in Cases : b # c => e.draft[b] = d.draft[b]
    <3>1. d.draft \in [Cases -> DraftItems]  BY <1>0, DiskFields
    <3>2. QED  BY <1>1, <3>1
  <2>4. QED  BY <2>1, <2>2, <2>3
<1> HIDE DEF e
<1>3. Lighter(d, e)  BY <1>0, <1>1, <1>2 DEF Lighter, Sound, NoDraft
<1>4. Sound(e)  BY <1>0, <1>1, <1>3, LighterIsSound
<1>5. ASSUME NEW m \in Messages \ p.touched PROVE Alike(d, e, m)
  <2>1. (CasesWith(e, m) = {}) <=> (CasesWith(d, m) = {})
    <3>1. CASE m \notin d.items[c]
      <4>1. CasesWith(e, m) = CasesWith(d, m)
        BY <1>2, <3>1 DEF CasesWith
      <4>2. QED  BY <4>1
    <3>2. CASE m \in d.items[c]
      <4>1. PICK b \in CasesWith(d, m) : b # c  BY <3>2
      <4>2. b \in CasesWith(e, m)  BY <1>2, <4>1 DEF CasesWith
      <4>3. QED  BY <4>1, <4>2
    <3>3. QED  BY <3>1, <3>2
  <2>2. QED  BY <1>1, <2>1 DEF Alike, NotificationsOf, DispositionsOf
<1>6. ViewKept(p, d, e)  BY <1>5, AlikeIsWhole DEF ViewKept
<1>7. PushKept(p, d, e) /\ FilesKept(p, d, e) /\ RootKept(p, d, e)
  BY <1>1, <1>2 DEF PushKept, FilesKept, RootKept
<1>8. e \in Reach(p)  BY <1>0, <1>1, <1>4, <1>6, <1>7, Reached
<1>9. QED  BY <1>8 DEF e

LEMMA MadeReach ==
  ASSUME NEW p, NEW d \in Reach(p), NEW c \in Cases, NEW S \in SUBSET Messages,
         S \subseteq p.touched, \A m \in S : d.stored[m] # "none", d.root[c] = "none"
  PROVE  Made(d, c, S) \in Reach(p)
<1> DEFINE e == Made(d, c, S)
<1>0. d \in Disk /\ d.txn.kind \in p.kinds /\ Sound(d)  BY ReachIsSound
<1>1. /\ e \in Disk /\ e.root = [d.root EXCEPT ![c] = "active"]
      /\ e.items = [d.items EXCEPT ![c] = S]
      /\ e.draft = d.draft /\ e.open = d.open /\ e.coll = d.coll
      /\ e.disp = d.disp /\ e.push = d.push /\ e.stored = d.stored /\ e.triage = d.triage
      /\ e.txn = d.txn
  BY <1>0, MadeFields
<1>2. /\ e.root[c] = "active" /\ e.items[c] = S
      /\ \A b \in Cases : b # c => e.root[b] = d.root[b] /\ e.items[b] = d.items[b]
  <2>1. e.root[c] = "active" /\ \A b \in Cases : b # c => e.root[b] = d.root[b]
    <3>1. d.root \in [Cases -> Roots]  BY <1>0, DiskFields
    <3>2. QED  BY <1>1, <3>1
  <2>2. e.items[c] = S /\ \A b \in Cases : b # c => e.items[b] = d.items[b]
    <3>1. d.items \in [Cases -> SUBSET Messages]  BY <1>0, DiskFields
    <3>2. QED  BY <1>1, <3>1
  <2>3. QED  BY <2>1, <2>2
<1>3. Sound(e)  BY <1>0, MadeIsSound
<1> HIDE DEF e
<1>4. ASSUME NEW m \in Messages \ p.touched PROVE Alike(d, e, m)
  <2>1. CasesWith(e, m) = CasesWith(d, m)
    BY <1>2 DEF CasesWith
  <2>2. QED  BY <1>1, <2>1 DEF Alike, NotificationsOf, DispositionsOf
<1>5. ViewKept(p, d, e)  BY <1>4, AlikeIsWhole DEF ViewKept
<1>6. PushKept(p, d, e) /\ FilesKept(p, d, e) /\ RootKept(p, d, e)
  BY <1>1, <1>2 DEF PushKept, FilesKept, RootKept
<1>7. e \in Reach(p)  BY <1>0, <1>1, <1>3, <1>5, <1>6, Reached
<1>8. QED  BY <1>7 DEF e

(* Changes of the notifications. *)
LEMMA OpenIsTyped ==
  ASSUME NEW d \in Disk
  PROVE  \A i \in d.open : i \in Notifications
BY DEF Disk

LEMMA NotedReach ==
  ASSUME NEW p, NEW d \in Reach(p), NEW n \in d.open, NEW m \in Messages, m \in p.touched,
         d.stored[m] # "none", DispositionsOf(d, m) = {}, NotificationsOf(d, m) \subseteq {n}
  PROVE  Noted(d, n, m) \in Reach(p)
<1> DEFINE e == Noted(d, n, m)
<1>0. d \in Disk /\ d.txn.kind \in p.kinds /\ Sound(d) /\ n \in Notifications /\ \A i \in d.open : i \in Notifications
  BY ReachIsSound, OpenIsTyped
<1>1. /\ e \in Disk /\ e.coll = [d.coll EXCEPT ![n] = @ \cup {m}]
      /\ e.root = d.root /\ e.items = d.items /\ e.draft = d.draft /\ e.open = d.open
      /\ e.disp = d.disp /\ e.push = d.push /\ e.stored = d.stored /\ e.triage = d.triage
      /\ e.txn = d.txn
  BY <1>0, NotedFields
<1>2. \A i \in Notifications : e.coll[i] = IF i = n THEN d.coll[n] \cup {m} ELSE d.coll[i]
  <2>1. d.coll \in [Notifications -> SUBSET Messages]  BY <1>0, DiskFields
  <2>2. QED  BY <1>1, <2>1
<1>3. Sound(e)  BY <1>0, NotedIsSound
<1> HIDE DEF e
<1>4. ASSUME NEW j \in Messages \ p.touched PROVE Alike(d, e, j)
  <2>1. j # m  BY <1>4
  <2>2. \A i \in d.open : j \in e.coll[i] <=> j \in d.coll[i]
    BY <1>0, <1>2, <2>1
  <2>3. NotificationsOf(e, j) = NotificationsOf(d, j)
    BY <1>1, <2>2 DEF NotificationsOf
  <2>4. QED  BY <1>1, <2>3 DEF Alike, CasesWith, DispositionsOf
<1>5. ViewKept(p, d, e)  BY <1>4, AlikeIsWhole DEF ViewKept
<1>6. PushKept(p, d, e) /\ FilesKept(p, d, e) /\ RootKept(p, d, e)
  BY <1>1 DEF PushKept, FilesKept, RootKept
<1>7. e \in Reach(p)  BY <1>0, <1>1, <1>3, <1>5, <1>6, Reached
<1>8. QED  BY <1>7 DEF e

LEMMA UnnotedReach ==
  ASSUME NEW p, NEW d \in Reach(p), NEW n \in Notifications, NEW m \in Messages, m \in p.touched
  PROVE  Unnoted(d, n, m) \in Reach(p)
<1> DEFINE e == Unnoted(d, n, m)
<1>0. d \in Disk /\ d.txn.kind \in p.kinds /\ Sound(d) /\ \A i \in d.open : i \in Notifications
  BY ReachIsSound, OpenIsTyped
<1>1. /\ e \in Disk /\ e.coll = [d.coll EXCEPT ![n] = @ \ {m}]
      /\ e.root = d.root /\ e.items = d.items /\ e.draft = d.draft /\ e.open = d.open
      /\ e.disp = d.disp /\ e.push = d.push /\ e.stored = d.stored /\ e.triage = d.triage
      /\ e.txn = d.txn
  BY <1>0, UnnotedFields
<1>2. \A i \in Notifications : e.coll[i] = IF i = n THEN d.coll[n] \ {m} ELSE d.coll[i]
  <2>1. d.coll \in [Notifications -> SUBSET Messages]  BY <1>0, DiskFields
  <2>2. QED  BY <1>1, <2>1
<1> HIDE DEF e
<1>3. Sound(e)
  <2>1. \A i \in d.open : e.coll[i] \subseteq d.coll[i]  BY <1>0, <1>2
  <2>2. Lighter(d, e)  BY <1>0, <1>1, <2>1 DEF Lighter, Sound
  <2>3. QED  BY <1>0, <1>1, <2>2, LighterIsSound
<1>4. ASSUME NEW j \in Messages \ p.touched PROVE Alike(d, e, j)
  <2>1. j # m  BY <1>4
  <2>2. \A i \in d.open : j \in e.coll[i] <=> j \in d.coll[i]
    BY <1>0, <1>2, <2>1
  <2>3. NotificationsOf(e, j) = NotificationsOf(d, j)
    BY <1>1, <2>2 DEF NotificationsOf
  <2>4. QED  BY <1>1, <2>3 DEF Alike, CasesWith, DispositionsOf
<1>5. ViewKept(p, d, e)  BY <1>4, AlikeIsWhole DEF ViewKept
<1>6. PushKept(p, d, e) /\ FilesKept(p, d, e) /\ RootKept(p, d, e)
  BY <1>1 DEF PushKept, FilesKept, RootKept
<1>7. e \in Reach(p)  BY <1>0, <1>1, <1>3, <1>5, <1>6, Reached
<1>8. QED  BY <1>7 DEF e

LEMMA OpenedReach ==
  ASSUME NEW p, NEW d \in Reach(p), NEW n \in Notifications, n \notin d.open
  PROVE  Opened(d, n) \in Reach(p)
<1> DEFINE e == Opened(d, n)
<1>0. d \in Disk /\ d.txn.kind \in p.kinds /\ Sound(d) /\ \A i \in d.open : i \in Notifications
  BY ReachIsSound, OpenIsTyped
<1>1. /\ e \in Disk /\ e.open = d.open \cup {n} /\ e.coll = [d.coll EXCEPT ![n] = {}]
      /\ e.root = d.root /\ e.items = d.items /\ e.draft = d.draft
      /\ e.disp = d.disp /\ e.push = d.push /\ e.stored = d.stored /\ e.triage = d.triage
      /\ e.txn = d.txn
  BY <1>0, OpenedFields
<1>2. \A i \in Notifications : e.coll[i] = IF i = n THEN {} ELSE d.coll[i]
  <2>1. d.coll \in [Notifications -> SUBSET Messages]  BY <1>0 DEF Disk
  <2>2. QED  BY <1>1, <2>1
<1> HIDE DEF e
<1>3. Sound(e)
  <2>1. \A i \in e.open : \A m \in e.coll[i] : i \in d.open /\ m \in d.coll[i]
    BY <1>0, <1>1, <1>2
  <2>2. Lighter(d, e)  BY <1>0, <1>1, <2>1 DEF Lighter, Sound
  <2>3. QED  BY <1>0, <1>1, <2>2, LighterIsSound
<1>4. ASSUME NEW j \in Messages \ p.touched PROVE Alike(d, e, j)
  <2>1. NotificationsOf(e, j) = NotificationsOf(d, j)
    BY <1>0, <1>1, <1>2 DEF NotificationsOf
  <2>2. QED  BY <1>1, <2>1 DEF Alike, CasesWith, DispositionsOf
<1>5. ViewKept(p, d, e)  BY <1>4, AlikeIsWhole DEF ViewKept
<1>6. PushKept(p, d, e) /\ FilesKept(p, d, e) /\ RootKept(p, d, e)
  BY <1>1 DEF PushKept, FilesKept, RootKept
<1>7. e \in Reach(p)  BY <1>0, <1>1, <1>3, <1>5, <1>6, Reached
<1>8. QED  BY <1>7 DEF e

LEMMA ClosedReach ==
  ASSUME NEW p, NEW d \in Reach(p), NEW n \in Notifications, d.coll[n] \subseteq p.touched
  PROVE  Closed(d, n) \in Reach(p)
<1> DEFINE e == Closed(d, n)
<1>0. d \in Disk /\ d.txn.kind \in p.kinds /\ Sound(d) /\ \A i \in d.open : i \in Notifications
  BY ReachIsSound, OpenIsTyped
<1>1. /\ e \in Disk /\ e.open = d.open \ {n} /\ e.coll = [d.coll EXCEPT ![n] = {}]
      /\ e.root = d.root /\ e.items = d.items /\ e.draft = d.draft
      /\ e.disp = d.disp /\ e.push = d.push /\ e.stored = d.stored /\ e.triage = d.triage
      /\ e.txn = d.txn
  BY <1>0, ClosedFields
<1>2. \A i \in Notifications : e.coll[i] = IF i = n THEN {} ELSE d.coll[i]
  <2>1. d.coll \in [Notifications -> SUBSET Messages]  BY <1>0 DEF Disk
  <2>2. QED  BY <1>1, <2>1
<1> HIDE DEF e
<1>3. Sound(e)
  <2>1. \A i \in e.open : \A m \in e.coll[i] : i \in d.open /\ m \in d.coll[i]
    BY <1>0, <1>1, <1>2
  <2>2. Lighter(d, e)  BY <1>0, <1>1, <2>1 DEF Lighter, Sound
  <2>3. QED  BY <1>0, <1>1, <2>2, LighterIsSound
<1>4. ASSUME NEW j \in Messages \ p.touched PROVE Alike(d, e, j)
  <2>1. NotificationsOf(e, j) = NotificationsOf(d, j)
    BY <1>0, <1>1, <1>2, <1>4 DEF NotificationsOf
  <2>2. QED  BY <1>1, <2>1 DEF Alike, CasesWith, DispositionsOf
<1>5. ViewKept(p, d, e)  BY <1>4, AlikeIsWhole DEF ViewKept
<1>6. PushKept(p, d, e) /\ FilesKept(p, d, e) /\ RootKept(p, d, e)
  BY <1>1 DEF PushKept, FilesKept, RootKept
<1>7. e \in Reach(p)  BY <1>0, <1>1, <1>3, <1>5, <1>6, Reached
<1>8. QED  BY <1>7 DEF e

LEMMA ShutReach ==
  ASSUME NEW p, NEW d \in Reach(p), NEW n \in Notifications, d.coll[n] = {}
  PROVE  Shut(d, n) \in Reach(p)
<1> DEFINE e == Shut(d, n)
<1>0. d \in Disk /\ d.txn.kind \in p.kinds /\ Sound(d)
  BY ReachIsSound
<1>1. /\ e \in Disk /\ e.open = d.open \ {n} /\ e.coll = d.coll
      /\ e.root = d.root /\ e.items = d.items /\ e.draft = d.draft
      /\ e.disp = d.disp /\ e.push = d.push /\ e.stored = d.stored /\ e.triage = d.triage
      /\ e.txn = d.txn
  BY <1>0, ShutFields
<1> HIDE DEF e
<1>3. Sound(e)
  <2>1. Lighter(d, e)  BY <1>0, <1>1 DEF Lighter, Sound
  <2>2. QED  BY <1>0, <1>1, <2>1, LighterIsSound
<1>4. ASSUME NEW j \in Messages \ p.touched PROVE Alike(d, e, j)
  <2>1. NotificationsOf(e, j) = NotificationsOf(d, j)
    BY <1>1 DEF NotificationsOf
  <2>2. QED  BY <1>1, <2>1 DEF Alike, CasesWith, DispositionsOf
<1>5. ViewKept(p, d, e)  BY <1>4, AlikeIsWhole DEF ViewKept
<1>6. PushKept(p, d, e) /\ FilesKept(p, d, e) /\ RootKept(p, d, e)
  BY <1>1 DEF PushKept, FilesKept, RootKept
<1>7. e \in Reach(p)  BY <1>0, <1>1, <1>3, <1>5, <1>6, Reached
<1>8. QED  BY <1>7 DEF e

(* Changes of the dispositions. *)
LEMMA ClearedReach ==
  ASSUME NEW p, NEW d \in Reach(p), NEW P,
         \A k \in Dispositions : \A m \in Messages :
            <<k, m>> \in P => m \in p.touched \/ d.stored[m] = "none"
  PROVE  Cleared(d, P) \in Reach(p)
<1> DEFINE e == Cleared(d, P)
<1>0. d \in Disk /\ d.txn.kind \in p.kinds /\ Sound(d)
  BY ReachIsSound
<1>1. /\ e \in Disk
      /\ e.disp = [k \in Dispositions |-> {m \in d.disp[k] : <<k, m>> \notin P}]
      /\ e.root = d.root /\ e.items = d.items /\ e.draft = d.draft /\ e.open = d.open
      /\ e.coll = d.coll /\ e.push = d.push /\ e.stored = d.stored /\ e.triage = d.triage
      /\ e.txn = d.txn
  BY <1>0, ClearedFields
<1>2. \A k \in Dispositions : e.disp[k] = {m \in d.disp[k] : <<k, m>> \notin P}
  BY <1>1
<1> HIDE DEF e
<1>3. Sound(e)
  <2>1. Lighter(d, e)  BY <1>0, <1>1, <1>2 DEF Lighter, Sound
  <2>2. QED  BY <1>0, <1>1, <2>1, LighterIsSound
<1>4. ASSUME NEW m \in Messages \ p.touched, WholeAt(d, m) PROVE WholeAt(e, m)
  <2>1. CasesWith(e, m) = CasesWith(d, m) /\ NotificationsOf(e, m) = NotificationsOf(d, m)
    BY <1>1 DEF CasesWith, NotificationsOf
  <2>2. CASE d.stored[m] = "none"
    <3>1. DispositionsOf(e, m) \subseteq DispositionsOf(d, m)
      BY <1>2 DEF DispositionsOf
    <3>2. QED  BY <1>1, <1>4, <2>1, <2>2, <3>1 DEF WholeAt
  <2>3. CASE d.stored[m] # "none"
    <3>0. \A k \in Dispositions : <<k, m>> \notin P  BY <1>4, <2>3
    <3>1. DispositionsOf(e, m) = DispositionsOf(d, m)
      BY <1>2, <3>0 DEF DispositionsOf
    <3>2. Alike(d, e, m)  BY <1>1, <2>1, <3>1 DEF Alike
    <3>3. QED  BY <1>4, <3>2, AlikeIsWhole
  <2>4. QED  BY <2>2, <2>3
<1>5. ViewKept(p, d, e)  BY <1>4 DEF ViewKept
<1>6. PushKept(p, d, e) /\ FilesKept(p, d, e) /\ RootKept(p, d, e)
  BY <1>1, <1>2 DEF PushKept, FilesKept, RootKept
<1>7. e \in Reach(p)  BY <1>0, <1>1, <1>3, <1>5, <1>6, Reached
<1>8. QED  BY <1>7 DEF e

LEMMA MarkedReach ==
  ASSUME NEW p, NEW d \in Reach(p), NEW k \in Dispositions, NEW S \in SUBSET Messages,
         S \subseteq p.touched, S \subseteq p.own,
         \A m \in S : NotificationsOf(d, m) = {} /\ DispositionsOf(d, m) \subseteq {k}
  PROVE  Marked(d, k, S) \in Reach(p)
<1> DEFINE e == Marked(d, k, S)
<1>0. d \in Disk /\ d.txn.kind \in p.kinds /\ Sound(d)
  BY ReachIsSound
<1>1. /\ e \in Disk /\ e.disp = [d.disp EXCEPT ![k] = @ \cup S]
      /\ e.root = d.root /\ e.items = d.items /\ e.draft = d.draft /\ e.open = d.open
      /\ e.coll = d.coll /\ e.push = d.push /\ e.stored = d.stored /\ e.triage = d.triage
      /\ e.txn = d.txn
  BY <1>0, MarkedFields
<1>2. \A l \in Dispositions : e.disp[l] = IF l = k THEN d.disp[k] \cup S ELSE d.disp[l]
  <2>1. d.disp \in [Dispositions -> SUBSET Messages]  BY <1>0, DiskFields
  <2>2. QED  BY <1>1, <2>1
<1>3. Sound(e)  BY <1>0, MarkedIsSound
<1> HIDE DEF e
<1>4. ASSUME NEW m \in Messages \ p.touched PROVE Alike(d, e, m)
  <2>1. DispositionsOf(e, m) = DispositionsOf(d, m)
    BY <1>2, <1>4 DEF DispositionsOf
  <2>2. QED  BY <1>1, <2>1 DEF Alike, CasesWith, NotificationsOf
<1>5. ViewKept(p, d, e)  BY <1>4, AlikeIsWhole DEF ViewKept
<1>6. FilesKept(p, d, e)
  BY <1>1, <1>2 DEF FilesKept
<1>7. PushKept(p, d, e) /\ RootKept(p, d, e)
  BY <1>1 DEF PushKept, RootKept
<1>8. e \in Reach(p)  BY <1>0, <1>1, <1>3, <1>5, <1>6, <1>7, Reached
<1>9. QED  BY <1>8 DEF e

(* Changes of the pushes. *)
LEMMA PushReach ==
  ASSUME NEW p, NEW d \in Reach(p), NEW e \in Disk, Sound(e), PushKept(p, d, e),
         e.root = d.root, e.items = d.items, e.draft = d.draft, e.open = d.open,
         e.coll = d.coll, e.disp = d.disp, e.stored = d.stored, e.triage = d.triage,
         e.txn = d.txn
  PROVE  e \in Reach(p)
<1>1. \A m \in Messages : Alike(d, e, m)
  BY DEF Alike, CasesWith, NotificationsOf, DispositionsOf
<1>2. ViewKept(p, d, e)  BY <1>1, AlikeIsWhole DEF ViewKept
<1>3. FilesKept(p, d, e) /\ RootKept(p, d, e)
  BY DEF FilesKept, RootKept
<1>4. e.txn.kind \in p.kinds  BY ReachIsSound
<1>5. QED  BY <1>2, <1>3, <1>4, Reached

LEMMA StartedIsKept ==
  ASSUME NEW p, NEW d \in Reach(p), NEW m \in Messages, p.from.push[m].started
  PROVE  \/ d.push[m].started
         \/ m \in p.done /\ d.push[m] = NoPush
BY DEF Reach

LEMMA PushedReach ==
  ASSUME NEW p, NEW d \in Reach(p), NEW S \in SUBSET Messages, NEW a \in MessagePushActions,
         a # "none", p.done = {},
         \A m \in S : d.stored[m] # "none" /\ ~StartedOther(d, m, a)
  PROVE  Pushed(d, S, a) \in Reach(p)
<1> DEFINE e == Pushed(d, S, a)
<1>0. d \in Disk /\ Sound(d)
  BY ReachIsSound
<1>1. /\ e \in Disk
      /\ e.push = [m \in Messages |-> IF m \in S /\ d.push[m].act # a
                                      THEN [act |-> a, started |-> FALSE] ELSE d.push[m]]
      /\ e.root = d.root /\ e.items = d.items /\ e.draft = d.draft /\ e.open = d.open
      /\ e.coll = d.coll /\ e.disp = d.disp /\ e.stored = d.stored /\ e.triage = d.triage
      /\ e.txn = d.txn
  <2>1. e \in Disk  BY <1>0, PushedFields
  <2>2. QED  BY <1>0, <2>1 DEF Pushed, Disk
<1>2. Sound(e)  BY <1>0, PushedIsSound
<1> HIDE DEF e
<1>3. ASSUME NEW m \in Messages, p.from.push[m].started PROVE e.push[m] = d.push[m]
  <2>1. d.push[m].started  BY <1>3, StartedIsKept
  <2>2. d.push[m].act # "none"  BY <1>0, <2>1 DEF Sound
  <2>3. m \in S => d.push[m].act = a  BY <2>1, <2>2 DEF StartedOther
  <2>4. QED  BY <1>1, <2>3
<1>4. PushKept(p, d, e)  BY <1>3 DEF PushKept
<1>5. e \in Reach(p)  BY <1>1, <1>2, <1>4, PushReach
<1>6. QED  BY <1>5 DEF e

LEMMA UnpushedReach ==
  ASSUME NEW p, NEW d \in Reach(p), NEW S \in SUBSET Messages, NEW a \in MessagePushActions,
         \A m \in S : ~(d.push[m].act = a /\ d.push[m].started)
  PROVE  Unpushed(d, S, a) \in Reach(p)
<1> DEFINE e == Unpushed(d, S, a)
<1>0. d \in Disk /\ Sound(d)
  BY ReachIsSound
<1>1. /\ e \in Disk
      /\ e.push = [m \in Messages |-> IF m \in S /\ d.push[m].act = a THEN NoPush ELSE d.push[m]]
      /\ e.root = d.root /\ e.items = d.items /\ e.draft = d.draft /\ e.open = d.open
      /\ e.coll = d.coll /\ e.disp = d.disp /\ e.stored = d.stored /\ e.triage = d.triage
      /\ e.txn = d.txn
  <2>1. e \in Disk  BY <1>0, UnpushedFields
  <2>2. QED  BY <1>0, <2>1 DEF Unpushed, Disk
<1> HIDE DEF e
<1>2. Sound(e)
  <2>1. Lighter(d, e)  BY <1>0, <1>1 DEF Lighter, Sound
  <2>2. QED  BY <1>0, <1>1, <2>1, LighterIsSound
<1>3. ASSUME NEW m \in Messages, p.from.push[m].started PROVE e.push[m] = d.push[m]
  <2>1. CASE d.push[m].started  BY <1>1, <2>1
  <2>2. CASE d.push[m] = NoPush  BY <1>1, <2>2
  <2>3. QED  BY <1>3, <2>1, <2>2, StartedIsKept
<1>4. PushKept(p, d, e)  BY <1>3 DEF PushKept
<1>5. e \in Reach(p)  BY <1>1, <1>2, <1>4, PushReach
<1>6. QED  BY <1>5 DEF e

LEMMA BegunReach ==
  ASSUME NEW p, NEW d \in Reach(p), NEW m \in Messages, d.push[m].act # "none"
  PROVE  Begun(d, m) \in Reach(p)
<1> DEFINE e == Begun(d, m)
<1>0. d \in Disk /\ Sound(d)
  BY ReachIsSound
<1>1. /\ e \in Disk
      /\ \A n \in Messages \ {m} : e.push[n] = d.push[n]
      /\ d.push[m].started => e.push[m] = d.push[m]
      /\ e.root = d.root /\ e.items = d.items /\ e.draft = d.draft /\ e.open = d.open
      /\ e.coll = d.coll /\ e.disp = d.disp /\ e.stored = d.stored /\ e.triage = d.triage
      /\ e.txn = d.txn
  BY <1>0, BegunFields
<1>2. Sound(e)  BY <1>0, BegunIsSound
<1> HIDE DEF e
<1>3. p.from.push[m].started => d.push[m].started
  BY StartedIsKept DEF NoPush
<1>4. PushKept(p, d, e)  BY <1>1, <1>3 DEF PushKept
<1>5. e \in Reach(p)  BY <1>1, <1>2, <1>4, PushReach
<1>6. QED  BY <1>5 DEF e

LEMMA GoneReach ==
  ASSUME NEW p, NEW d \in Reach(p), NEW m \in Messages, m \in p.done
  PROVE  Gone(d, m) \in Reach(p)
<1> DEFINE e == Gone(d, m)
<1>0. d \in Disk /\ Sound(d)
  BY ReachIsSound
<1>1. /\ e \in Disk /\ e.push = [d.push EXCEPT ![m] = NoPush]
      /\ e.root = d.root /\ e.items = d.items /\ e.draft = d.draft /\ e.open = d.open
      /\ e.coll = d.coll /\ e.disp = d.disp /\ e.stored = d.stored /\ e.triage = d.triage
      /\ e.txn = d.txn
  BY <1>0, GoneFields
<1>2. \A n \in Messages : e.push[n] = IF n = m THEN NoPush ELSE d.push[n]
  <2>1. d.push \in [Messages -> [act : MessagePushActions, started : BOOLEAN]]  BY <1>0, DiskFields
  <2>2. QED  BY <1>1, <2>1
<1> HIDE DEF e
<1>3. Sound(e)
  <2>1. Lighter(d, e)  BY <1>0, <1>1, <1>2 DEF Lighter, Sound
  <2>2. QED  BY <1>0, <1>1, <2>1, LighterIsSound
<1>4. PushKept(p, d, e)  BY <1>2 DEF PushKept
<1>5. e \in Reach(p)  BY <1>1, <1>3, <1>4, PushReach
<1>6. QED  BY <1>5 DEF e

LEMMA ReconciledReach ==
  ASSUME NEW p, NEW d \in Reach(p)
  PROVE  Reconciled(d) \in Reach(p)
<1> DEFINE e == Reconciled(d)
<1>0. d \in Disk /\ Sound(d)
  BY ReachIsSound
<1>1. /\ e \in Disk
      /\ e.push = [m \in Messages |-> IF d.push[m].started \/ HasPlan(d, m)
                                      THEN d.push[m] ELSE NoPush]
      /\ e.root = d.root /\ e.items = d.items /\ e.draft = d.draft /\ e.open = d.open
      /\ e.coll = d.coll /\ e.disp = d.disp /\ e.stored = d.stored /\ e.triage = d.triage
      /\ e.txn = d.txn
  BY <1>0, ReconciledFields
<1> HIDE DEF e
<1>2. Sound(e)
  <2>1. Lighter(d, e)  BY <1>0, <1>1 DEF Lighter, Sound
  <2>2. QED  BY <1>0, <1>1, <2>1, LighterIsSound
<1>3. ASSUME NEW m \in Messages, p.from.push[m].started PROVE e.push[m] = d.push[m]
  <2>1. CASE d.push[m].started  BY <1>1, <2>1
  <2>2. CASE d.push[m] = NoPush  BY <1>1, <2>2
  <2>3. QED  BY <1>3, <2>1, <2>2, StartedIsKept
<1>4. PushKept(p, d, e)  BY <1>3 DEF PushKept
<1>5. e \in Reach(p)  BY <1>1, <1>2, <1>4, PushReach
<1>6. QED  BY <1>5 DEF e

(* Changes of a draft and of the stored files. *)
LEMMA DraftReach ==
  ASSUME NEW p, NEW d \in Reach(p), NEW c \in Cases, NEW x \in DraftItems,
         d.root[c] # "none", x.re \in Messages => d.stored[x.re] # "none"
  PROVE  WithDraft(d, c, x) \in Reach(p)
<1> DEFINE e == WithDraft(d, c, x)
<1>0. d \in Disk /\ d.txn.kind \in p.kinds /\ Sound(d)
  BY ReachIsSound
<1>1. /\ e \in Disk
      /\ e.root = d.root /\ e.items = d.items /\ e.open = d.open /\ e.coll = d.coll
      /\ e.push = d.push /\ e.disp = d.disp /\ e.stored = d.stored /\ e.triage = d.triage
      /\ e.txn = d.txn
  <2>1. e \in Disk  BY <1>0, WithDraftFields
  <2>2. QED  BY <1>0, <2>1 DEF WithDraft, Disk
<1>2. Sound(e)  BY <1>0, WithDraftIsSound
<1> HIDE DEF e
<1>3. \A m \in Messages : Alike(d, e, m)
  BY <1>1 DEF Alike, CasesWith, NotificationsOf, DispositionsOf
<1>4. ViewKept(p, d, e)  BY <1>3, AlikeIsWhole DEF ViewKept
<1>5. PushKept(p, d, e) /\ FilesKept(p, d, e) /\ RootKept(p, d, e)
  BY <1>1 DEF PushKept, FilesKept, RootKept
<1>6. e \in Reach(p)  BY <1>0, <1>1, <1>2, <1>4, <1>5, Reached
<1>7. QED  BY <1>6 DEF e

LEMMA StoredReach ==
  ASSUME NEW p, NEW d \in Reach(p), NEW m \in Messages, NEW s \in Copies, m \in p.own,
         Unreferenced(d, m), m \in p.touched \/ ~TriageCandidate(d, m)
  PROVE  WithStored(d, m, s) \in Reach(p)
<1> DEFINE e == WithStored(d, m, s)
<1>0. d \in Disk /\ d.txn.kind \in p.kinds /\ Sound(d)
  BY ReachIsSound
<1>1. /\ e \in Disk /\ e.stored = [d.stored EXCEPT ![m] = s]
      /\ e.root = d.root /\ e.items = d.items /\ e.draft = d.draft /\ e.open = d.open
      /\ e.coll = d.coll /\ e.disp = d.disp /\ e.push = d.push /\ e.triage = d.triage
      /\ e.txn = d.txn
  BY <1>0, WithStoredFields
<1>2. \A j \in Messages : j # m => e.stored[j] = d.stored[j]
  <2>1. d.stored \in [Messages -> Copies]  BY <1>0 DEF Disk, Copies
  <2>2. e.stored = [d.stored EXCEPT ![m] = s]  BY <1>1
  <2>3. QED  BY <2>1, <2>2
<1>3. Sound(e)  BY <1>0, WithStoredIsSound
<1> HIDE DEF e
<1>4. \A j \in Messages :
        /\ CasesWith(e, j) = CasesWith(d, j)
        /\ NotificationsOf(e, j) = NotificationsOf(d, j)
        /\ DispositionsOf(e, j) = DispositionsOf(d, j)
        /\ TriageCandidate(e, j) <=> TriageCandidate(d, j)
  BY <1>1 DEF CasesWith, NotificationsOf, DispositionsOf, TriageCandidate
<1>5. ViewKept(p, d, e)
  BY <1>1, <1>2, <1>4 DEF ViewKept, WholeAt
<1>6. PushKept(p, d, e) /\ FilesKept(p, d, e) /\ RootKept(p, d, e)
  BY <1>1, <1>2 DEF PushKept, FilesKept, RootKept
<1>7. e \in Reach(p)  BY <1>0, <1>1, <1>3, <1>5, <1>6, Reached
<1>8. QED  BY <1>7 DEF e

LEMMA SeenReach ==
  ASSUME NEW p, NEW d \in Reach(p), NEW m \in Messages, NEW box \in Mailboxes,
         m \in p.own, m \in p.touched
  PROVE  Seen(d, m, box) \in Reach(p)
<1> DEFINE e == Seen(d, m, box)
<1>0. d \in Disk /\ d.txn.kind \in p.kinds /\ Sound(d)
  BY ReachIsSound
<1>1. /\ e \in Disk /\ e.stored = [d.stored EXCEPT ![m] = "all"]
      /\ e.root = d.root /\ e.items = d.items /\ e.draft = d.draft /\ e.open = d.open
      /\ e.coll = d.coll /\ e.disp = d.disp /\ e.push = d.push /\ e.triage = d.triage
      /\ e.txn = d.txn
  <2>1. e \in Disk  BY <1>0, SeenFields
  <2>2. QED  BY <1>0, <2>1 DEF Seen, Disk
<1>2. e.stored[m] = "all" /\ \A j \in Messages : j # m => e.stored[j] = d.stored[j]
  <2>1. d.stored \in [Messages -> Copies]  BY <1>0, DiskFields
  <2>2. QED  BY <1>1, <2>1
<1> HIDE DEF e
<1>3. Sound(e)
  <2>1. Lighter(d, e)  BY <1>0, <1>1, <1>2 DEF Lighter, Sound
  <2>2. QED  BY <1>0, <1>1, <2>1, LighterIsSound
<1>4. \A j \in Messages \ p.touched : Alike(d, e, j)
  <2> SUFFICES ASSUME NEW j \in Messages, j \notin p.touched PROVE Alike(d, e, j)
    OBVIOUS
  <2>1. e.stored[j] = d.stored[j]  BY <1>2
  <2>2. /\ CasesWith(e, j) = CasesWith(d, j) /\ NotificationsOf(e, j) = NotificationsOf(d, j)
        /\ DispositionsOf(e, j) = DispositionsOf(d, j)
    BY <1>1 DEF CasesWith, NotificationsOf, DispositionsOf
  <2>3. QED  BY <1>1, <2>1, <2>2 DEF Alike
<1>5. ViewKept(p, d, e)  BY <1>4, AlikeIsWhole DEF ViewKept
<1>6. PushKept(p, d, e) /\ FilesKept(p, d, e) /\ RootKept(p, d, e)
  BY <1>1, <1>2 DEF PushKept, FilesKept, RootKept
<1>7. e \in Reach(p)  BY <1>0, <1>1, <1>3, <1>5, <1>6, Reached
<1>8. QED  BY <1>7 DEF e

-----------------------------------------------------------------------------
(* A command within its bounds.                                             *)

On(r, d, p) == Stands(r, d, Reach(p), Restful(p))

(* What the view of a message depends on. *)
SameView(d, e) ==
  /\ e.root = d.root /\ e.items = d.items /\ e.open = d.open /\ e.coll = d.coll
  /\ e.disp = d.disp /\ e.stored = d.stored /\ e.triage = d.triage

LEMMA SameViewIsTransitive ==
  ASSUME NEW d, NEW e, NEW f, SameView(d, e), SameView(e, f)
  PROVE  SameView(d, f)
BY DEF SameView

LEMMA TxnKeeps ==
  ASSUME NEW d \in Disk, NEW kind, NEW on
  PROVE  LET e == WithTxn(d, kind, on)
         IN  /\ SameView(d, e) /\ e.txn.kind = kind
             /\ e.push = d.push /\ e.loc = d.loc /\ e.status = d.status /\ e.draft = d.draft
BY DEF Disk, WithTxn, SameView

LEMMA PushedKeeps ==
  ASSUME NEW d \in Disk, NEW S, NEW a
  PROVE  LET e == Pushed(d, S, a)
         IN  /\ SameView(d, e) /\ e.txn = d.txn
             /\ e.loc = d.loc /\ e.status = d.status /\ e.draft = d.draft
BY DEF Disk, Pushed, SameView

LEMMA UnpushedKeeps ==
  ASSUME NEW d \in Disk, NEW S, NEW a
  PROVE  LET e == Unpushed(d, S, a)
         IN  /\ SameView(d, e) /\ e.txn = d.txn
             /\ e.loc = d.loc /\ e.status = d.status /\ e.draft = d.draft
BY DEF Disk, Unpushed, SameView

LEMMA MadeKeeps ==
  ASSUME NEW d \in Disk, NEW c, NEW S
  PROVE  LET e == Made(d, c, S)
         IN  e.txn = d.txn /\ e.stored = d.stored /\ e.disp = d.disp
BY DEF Disk, Made

LEMMA SameViewIsWhole ==
  ASSUME NEW d, NEW e, SameView(d, e), NEW m, WholeAt(d, m)
  PROVE  WholeAt(e, m)
BY DEF SameView, WholeAt, TriageCandidate, CasesWith, NotificationsOf, DispositionsOf

(* It may stop in any workspace with the transaction record of d. *)
Free(p, d) == \A e \in Reach(p) : e.txn = d.txn => e \in Restful(p)

LEMMA OpenIsFree ==
  ASSUME NEW p, NEW d, d.txn.kind \notin {"none", "case_archive"}
  PROVE  Free(p, d)
BY OpenIsRestful DEF Free

LEMMA UntouchedIsFree ==
  ASSUME NEW p, NEW d, p.touched = {}
  PROVE  Free(p, d)
BY ReachIsRestful DEF Free

LEMMA FreeStays ==
  ASSUME NEW p, NEW d, NEW e, Free(p, d), e.txn = d.txn
  PROVE  Free(p, e)
BY DEF Free

(* It may stop here, or after a change that leaves the views alone. *)
Calm(p, d) == \A e \in Reach(p) : e.txn = d.txn /\ SameView(d, e) => e \in Restful(p)

LEMMA FreeIsCalm ==
  ASSUME NEW p, NEW d, Free(p, d)
  PROVE  Calm(p, d)
BY DEF Free, Calm

LEMMA RestfulIsCalm ==
  ASSUME NEW p, NEW d \in Reach(p), p.whole => \A m \in p.touched : WholeAt(d, m)
  PROVE  Calm(p, d)
BY SameViewIsWhole, ReachIsRestful DEF Calm

LEMMA CalmStays ==
  ASSUME NEW p, NEW d, NEW e, Calm(p, d), e.txn = d.txn, SameView(d, e)
  PROVE  Calm(p, e)
BY SameViewIsTransitive DEF Calm

LEMMA CalmIsRestful ==
  ASSUME NEW p, NEW d \in Reach(p), Calm(p, d)
  PROVE  d \in Restful(p)
BY DEF Calm, SameView

LEMMA OnIsReached ==
  ASSUME NEW p, NEW r, NEW d, On(r, d, p), r.ok
  PROVE  d \in Reach(p)
BY DEF On, Stands

LEMMA OnStart ==
  ASSUME NEW p, disk \in Reach(p)
  PROVE  On(Start, disk, p) /\ Start.ok
BY StartStands DEF On

LEMMA OnPut ==
  ASSUME NEW p, NEW r, NEW d, On(r, d, p), NEW e, r.ok => e \in Reach(p)
  PROVE  On(Put(r, e), e, p) /\ Put(r, e).ok = r.ok
BY PutStands DEF On

LEMMA OnBegin ==
  ASSUME NEW p, NEW r, NEW d, On(r, d, p), NEW kind \in p.kinds, NEW on,
         [kind |-> kind, on |-> on] \in Transactions
  PROVE  On(BeginTransaction(r, kind, on), WithTxn(d, kind, on), p)
         /\ BeginTransaction(r, kind, on).ok = r.ok
<1>1. r.ok => WithTxn(d, kind, on) \in Reach(p)
  BY OnIsReached, TxnReach
<1>2. QED  BY <1>1, BeginStands DEF On

LEMMA OnCommit ==
  ASSUME NEW p, NEW r, NEW d, On(r, d, p), "none" \in p.kinds
  PROVE  On(Commit(r), WithTxn(d, "none", None), p) /\ Commit(r).ok = r.ok
<1>1. [kind |-> "none", on |-> None] \in Transactions  BY DEF Transactions, NoTxn
<1>2. r.ok => WithTxn(d, "none", None) \in Reach(p)
  BY <1>1, OnIsReached, TxnReach
<1>3. QED  BY <1>2, CommitStands DEF On

LEMMA OnStatus ==
  ASSUME NEW p, NEW r, NEW d, On(r, d, p), NEW c \in Cases, NEW s \in Statuses
  PROVE  On(SetCaseStatus(r, c, s), WithStatus(d, c, s), p) /\ SetCaseStatus(r, c, s).ok = r.ok
<1>1. r.ok => WithStatus(d, c, s) \in Reach(p)
  BY OnIsReached, StatusReach
<1>2. QED  BY <1>1, SetStatusStands DEF On

LEMMA OnMove ==
  ASSUME NEW p, NEW r, NEW d, On(r, d, p), NEW c \in Cases, NEW to \in Roots,
         r.ok => d.root[c] # "none", to # "none", c \in p.cases \/ to # "archived"
  PROVE  On(MoveCase(r, c, to), WithRoot(d, c, to), p) /\ MoveCase(r, c, to).ok = r.ok
<1>1. r.ok => WithRoot(d, c, to) \in Reach(p)
  BY OnIsReached, RootReach
<1>2. QED  BY <1>1, MoveCaseStands DEF On

LEMMA OnWriteCase ==
  ASSUME NEW p, NEW r, NEW d, On(r, d, p), NEW c \in Cases, NEW S \in SUBSET Messages,
         r.ok => \A m \in S : d.stored[m] # "none",
         r.ok => \A m \in Messages \ p.touched : \/ m \in S <=> m \in d.items[c]
                                                 \/ \E b \in CasesWith(d, m) : b # c
  PROVE  On(WriteCase(r, c, S), WithItems(d, c, S), p) /\ WriteCase(r, c, S).ok = r.ok
<1>1. r.ok => WithItems(d, c, S) \in Reach(p)
  BY OnIsReached, ItemsReach
<1>2. QED  BY <1>1, WriteCaseStands DEF On

LEMMA OnRemoveCase ==
  ASSUME NEW p, NEW r, NEW d, On(r, d, p), NEW c \in Cases,
         r.ok => \A m \in d.items[c] : m \in p.touched \/ \E b \in CasesWith(d, m) : b # c
  PROVE  On(RemoveCaseDir(r, c), Dropped(d, c), p) /\ RemoveCaseDir(r, c).ok = r.ok
<1>1. r.ok => Dropped(d, c) \in Reach(p)
  BY OnIsReached, DroppedReach
<1>2. QED  BY <1>1, RemoveCaseStands DEF On

LEMMA OnClear ==
  ASSUME NEW p, NEW r, NEW d, On(r, d, p), NEW k, NEW m,
         r.ok => m \in p.touched \/ d.stored[m] = "none"
  PROVE  On(ClearDisposition(r, k, m), Cleared(d, {<<k, m>>}), p)
         /\ ClearDisposition(r, k, m).ok = r.ok
<1>1. ASSUME r.ok PROVE Cleared(d, {<<k, m>>}) \in Reach(p)
  <2>1. \A l \in Dispositions : \A j \in Messages :
           <<l, j>> \in {<<k, m>>} => j \in p.touched \/ d.stored[j] = "none"
    BY <1>1
  <2>2. d \in Reach(p)  BY <1>1, OnIsReached
  <2> DEFINE P == {<<k, m>>}
  <2>3. \A l \in Dispositions : \A j \in Messages :
           <<l, j>> \in P => j \in p.touched \/ d.stored[j] = "none"
    BY <2>1
  <2> HIDE DEF P
  <2>4. Cleared(d, P) \in Reach(p)  BY <2>2, <2>3, ClearedReach
  <2>5. QED  BY <2>4 DEF P
<1>2. QED  BY <1>1, ClearStands DEF On

LEMMA OnClearAll ==
  ASSUME NEW p, NEW r, NEW d, On(r, d, p), NEW S, r.ok => S \subseteq p.touched
  PROVE  On(ClearDispositions(r, S), Cleared(d, Dispositions \X S), p)
         /\ ClearDispositions(r, S).ok = r.ok
<1>1. ASSUME r.ok, NEW P \in SUBSET (Dispositions \X S) PROVE Cleared(d, P) \in Reach(p)
  <2>1. d \in Reach(p)  BY <1>1, OnIsReached
  <2>2. \A l \in Dispositions : \A j \in Messages :
           <<l, j>> \in P => j \in p.touched \/ d.stored[j] = "none"
    BY <1>1
  <2>3. QED  BY <2>1, <2>2, ClearedReach
<1>2. QED  BY <1>1, ClearAllStands DEF On

LEMMA OnRefresh ==
  ASSUME NEW p, NEW r, NEW d, On(r, d, p), NEW S \in SUBSET Messages,
         r.ok => \A m \in S \ p.touched : d.stored[m] # "none",
         r.ok => Unreadable(d, S) = {} \/ Free(p, d)
  PROVE  On(RefreshMessages(r, S), Shown(d, S), p)
         /\ (Unreadable(d, S) = {} => RefreshMessages(r, S).ok = r.ok)
         /\ (RefreshMessages(r, S).ok => r.ok /\ Unreadable(d, S) = {})
<1>1. ASSUME r.ok, NEW T \in SUBSET S
      PROVE  Shown(d, T) \in Reach(p) /\ Shown(d, T).txn = d.txn
  <2>1. d \in Reach(p) /\ d \in Disk  BY <1>1, OnIsReached, ReachIsSound
  <2>2. T \in SUBSET Messages /\ \A m \in T \ p.touched : d.stored[m] # "none"
    BY <1>1
  <2>3. QED  BY <2>1, <2>2, ShownReach, ShownFields
<1>2. r.ok => \/ Unreadable(d, S) = {}
              \/ \A T \in SUBSET S : Shown(d, T) \in Restful(p)
  BY <1>1 DEF Free
<1>3. QED  BY <1>1, <1>2, RefreshStands DEF On

LEMMA OnHide ==
  ASSUME NEW p, NEW r, NEW d, On(r, d, p), NEW m \in Messages, m \in p.touched
  PROVE  On(RemoveTriageView(r, m), Hidden(d, {m}), p) /\ RemoveTriageView(r, m).ok = r.ok
<1>1. {m} \in SUBSET Messages /\ {m} \subseteq p.touched  OBVIOUS
<1>2. r.ok => Hidden(d, {m}) \in Reach(p)
  BY <1>1, OnIsReached, HiddenReach
<1>3. QED  BY <1>2, HiddenStands DEF On

LEMMA OnQueue ==
  ASSUME NEW p, NEW r, NEW d, On(r, d, p), NEW S \in SUBSET Messages,
         NEW a \in MessagePushActions, a # "none", p.done = {},
         r.ok => \A m \in S : d.stored[m] # "none",
         r.ok => Calm(p, d)
  PROVE  On(QueueActionSteps(r, S, a), Pushed(d, S, a), p)
         /\ (QueueActionSteps(r, S, a).ok => r.ok /\ \A m \in S : ~StartedOther(d, m, a))
<1>1. ASSUME r.ok, NEW T \in SUBSET (S \ {m \in S : StartedOther(d, m, a)})
      PROVE  Pushed(d, T, a) \in Reach(p) /\ Pushed(d, T, a) \in Restful(p)
  <2>1. d \in Reach(p) /\ d \in Disk  BY <1>1, OnIsReached, ReachIsSound
  <2>2. T \in SUBSET Messages
        /\ \A m \in T : d.stored[m] # "none" /\ ~StartedOther(d, m, a)
    BY <1>1
  <2>3. Pushed(d, T, a) \in Reach(p)  BY <2>1, <2>2, PushedReach
  <2>4. Pushed(d, T, a).txn = d.txn /\ SameView(d, Pushed(d, T, a))  BY <2>1, PushedKeeps
  <2>5. QED  BY <1>1, <2>3, <2>4 DEF Calm
<1>2. QED  BY <1>1, QueueStands DEF On

LEMMA OnUnpush ==
  ASSUME NEW p, NEW r, NEW d, On(r, d, p), NEW S \in SUBSET Messages,
         NEW a \in MessagePushActions,
         r.ok => Calm(p, d)
  PROVE  On(RemovePendingPush(r, S, a), Unpushed(d, S, a), p)
         /\ (RemovePendingPush(r, S, a).ok =>
               r.ok /\ \A m \in S : ~(d.push[m].act = a /\ d.push[m].started))
<1>1. ASSUME r.ok,
             NEW T \in SUBSET (S \ {m \in S : d.push[m].act = a /\ d.push[m].started})
      PROVE  Unpushed(d, T, a) \in Reach(p) /\ Unpushed(d, T, a) \in Restful(p)
  <2>1. d \in Reach(p) /\ d \in Disk  BY <1>1, OnIsReached, ReachIsSound
  <2>2. T \in SUBSET Messages /\ \A m \in T : ~(d.push[m].act = a /\ d.push[m].started)
    BY <1>1
  <2>3. Unpushed(d, T, a) \in Reach(p)  BY <2>1, <2>2, UnpushedReach
  <2>4. Unpushed(d, T, a).txn = d.txn /\ SameView(d, Unpushed(d, T, a))
    BY <2>1, UnpushedKeeps
  <2>5. QED  BY <1>1, <2>3, <2>4 DEF Calm
<1>2. QED  BY <1>1, UnpushStands DEF On

LEMMA OnUnpushAll ==
  ASSUME NEW p, NEW r, NEW d, On(r, d, p), NEW S \in SUBSET Messages,
         NEW a \in MessagePushActions,
         r.ok => Calm(p, d)
  PROVE  On(RemovePendingPushes(r, S, a), Unpushed(d, S, a), p)
         /\ (RemovePendingPushes(r, S, a).ok =>
               r.ok /\ \A m \in S : ~(d.push[m].act = a /\ d.push[m].started))
<1>1. ASSUME r.ok,
             NEW T \in SUBSET (S \ {m \in S : d.push[m].act = a /\ d.push[m].started})
      PROVE  Unpushed(d, T, a) \in Reach(p) /\ Unpushed(d, T, a) \in Restful(p)
  <2>1. d \in Reach(p) /\ d \in Disk  BY <1>1, OnIsReached, ReachIsSound
  <2>2. T \in SUBSET Messages /\ \A m \in T : ~(d.push[m].act = a /\ d.push[m].started)
    BY <1>1
  <2>3. Unpushed(d, T, a) \in Reach(p)  BY <2>1, <2>2, UnpushedReach
  <2>4. Unpushed(d, T, a).txn = d.txn /\ SameView(d, Unpushed(d, T, a))
    BY <2>1, UnpushedKeeps
  <2>5. QED  BY <1>1, <2>3, <2>4 DEF Calm
<1>2. r.ok /\ (\A m \in S : ~(d.push[m].act = a /\ d.push[m].started))
        => Unpushed(d, S, a) \in Restful(p)
  BY <1>1
<1>3. QED  BY <1>1, <1>2, UnpushAllStands DEF On

LEMMA OnViews ==
  ASSUME NEW p, NEW r, NEW d, On(r, d, p), r.ok => d \in Restful(p)
  PROVE  On(RefreshDispositionViews(r), d, p) /\ (RefreshDispositionViews(r).ok => r.ok)
BY ViewsStands DEF On

LEMMA OnNoted ==
  ASSUME NEW p, NEW r, NEW d, On(r, d, p), NEW n, NEW m \in Messages, m \in p.touched,
         r.ok => n \in d.open /\ d.stored[m] # "none" /\ DispositionsOf(d, m) = {}
                 /\ NotificationsOf(d, m) \subseteq {n}
  PROVE  On(UpsertNotification(r, n, m), Noted(d, n, m), p)
         /\ UpsertNotification(r, n, m).ok = r.ok
<1>1. r.ok => Noted(d, n, m) \in Reach(p)
  BY OnIsReached, NotedReach
<1>2. QED  BY <1>1, NotedStands DEF On

LEMMA OnUnnoted ==
  ASSUME NEW p, NEW r, NEW d, On(r, d, p), NEW n \in Notifications, NEW m \in Messages,
         m \in p.touched
  PROVE  On(RemoveNotificationItem(r, n, m), Unnoted(d, n, m), p)
         /\ RemoveNotificationItem(r, n, m).ok = r.ok
<1>1. r.ok => Unnoted(d, n, m) \in Reach(p)
  BY OnIsReached, UnnotedReach
<1>2. QED  BY <1>1, UnnotedStands DEF On

(* The messages T get disposition k and lose the others. *)
Turned(d, k, T) == Marked(Cleared(d, (Dispositions \ {k}) \X T), k, T)

LEMMA TurnedFields ==
  ASSUME NEW d \in Disk, NEW k \in Dispositions, NEW T \in SUBSET Messages
  PROVE  LET e == Turned(d, k, T)
         IN  /\ e \in Disk
             /\ e.disp[k] = d.disp[k] \cup T
             /\ \A l \in Dispositions : l # k => e.disp[l] = d.disp[l] \ T
             /\ e.root = d.root /\ e.status = d.status /\ e.items = d.items /\ e.draft = d.draft
             /\ e.open = d.open /\ e.coll = d.coll /\ e.push = d.push /\ e.loc = d.loc
             /\ e.stored = d.stored /\ e.triage = d.triage /\ e.txn = d.txn
<1> DEFINE P == (Dispositions \ {k}) \X T
           f == Cleared(d, P)
           e == Marked(f, k, T)
<1> HIDE DEF P
<1>1. /\ f \in Disk
      /\ f.disp = [l \in Dispositions |-> {m \in d.disp[l] : <<l, m>> \notin P}]
      /\ f.root = d.root /\ f.status = d.status /\ f.items = d.items /\ f.draft = d.draft
      /\ f.open = d.open /\ f.coll = d.coll /\ f.push = d.push /\ f.loc = d.loc
      /\ f.stored = d.stored /\ f.triage = d.triage /\ f.txn = d.txn
  BY ClearedFields
<1> HIDE DEF f
<1>a. f \in Disk  BY <1>1
<1>2. /\ e \in Disk /\ e.disp = [f.disp EXCEPT ![k] = @ \cup T]
      /\ e.root = f.root /\ e.status = f.status /\ e.items = f.items /\ e.draft = f.draft
      /\ e.open = f.open /\ e.coll = f.coll /\ e.push = f.push /\ e.loc = f.loc
      /\ e.stored = f.stored /\ e.triage = f.triage /\ e.txn = f.txn
  BY <1>a, MarkedFields
<1>3. f.disp[k] = d.disp[k]
  BY <1>1 DEF P
<1>4. \A l \in Dispositions : l # k => f.disp[l] = d.disp[l] \ T
  <2> SUFFICES ASSUME NEW l \in Dispositions, l # k PROVE f.disp[l] = d.disp[l] \ T
    OBVIOUS
  <2>1. f.disp[l] = {m \in d.disp[l] : <<l, m>> \notin P}  BY <1>1
  <2>2. \A m : <<l, m>> \in P <=> m \in T  BY DEF P
  <2>3. QED  BY <2>1, <2>2
<1>5. \A l \in Dispositions : e.disp[l] = IF l = k THEN f.disp[k] \cup T ELSE f.disp[l]
  <2>1. f.disp \in [Dispositions -> SUBSET Messages]  BY <1>1, DiskFields
  <2>2. QED  BY <1>2, <2>1
<1> HIDE DEF e
<1>6. e.disp[k] = d.disp[k] \cup T /\ \A l \in Dispositions : l # k => e.disp[l] = d.disp[l] \ T
  BY <1>3, <1>4, <1>5
<1>7. QED  BY <1>1, <1>2, <1>6 DEF Turned, e, f, P

LEMMA TurnedReach ==
  ASSUME NEW p, NEW d \in Reach(p), NEW k \in Dispositions, NEW T \in SUBSET Messages,
         T \subseteq p.touched, T \subseteq p.own, \A m \in T : NotificationsOf(d, m) = {}
  PROVE  Turned(d, k, T) \in Reach(p)
<1> DEFINE P == (Dispositions \ {k}) \X T
           f == Cleared(d, P)
<1>0. d \in Disk  BY ReachIsSound
<1>1. \A l \in Dispositions : \A m \in Messages : <<l, m>> \in P => m \in T /\ l # k
  OBVIOUS
<1> HIDE DEF P
<1>2. f \in Reach(p)
  BY <1>1, ClearedReach
<1>3. /\ f.disp = [l \in Dispositions |-> {m \in d.disp[l] : <<l, m>> \notin P}]
      /\ f.open = d.open /\ f.coll = d.coll
  BY <1>0, ClearedFields
<1> HIDE DEF f
<1>4. \A m \in T : NotificationsOf(f, m) = {}
  BY <1>3 DEF NotificationsOf
<1>5. ASSUME NEW m \in T PROVE DispositionsOf(f, m) \subseteq {k}
  <2>1. \A l \in Dispositions : l # k => m \notin f.disp[l]
    BY <1>3 DEF P
  <2>2. QED  BY <2>1 DEF DispositionsOf
<1>6. Marked(f, k, T) \in Reach(p)
  BY <1>2, <1>4, <1>5, MarkedReach
<1>7. QED  BY <1>6 DEF Turned, f, P

LEMMA OnSet ==
  ASSUME NEW p, NEW r, NEW d, On(r, d, p), NEW k \in Dispositions, NEW m \in Messages,
         m \in p.touched, m \in p.own, r.ok => NotificationsOf(d, m) = {}
  PROVE  On(SetDisposition(r, k, m), Turned(d, k, {m}), p) /\ SetDisposition(r, k, m).ok = r.ok
<1>1. ASSUME r.ok, NEW P \in SUBSET ((Dispositions \ {k}) \X {m}) PROVE Cleared(d, P) \in Reach(p)
  <2>1. d \in Reach(p)  BY <1>1, OnIsReached
  <2>2. \A l \in Dispositions : \A j \in Messages :
           <<l, j>> \in P => j \in p.touched \/ d.stored[j] = "none"
    BY <1>1
  <2>3. QED  BY <2>1, <2>2, ClearedReach
<1>2. r.ok => Turned(d, k, {m}) \in Reach(p)
  <2>1. {m} \in SUBSET Messages /\ {m} \subseteq p.touched /\ {m} \subseteq p.own  OBVIOUS
  <2>2. r.ok => \A j \in {m} : NotificationsOf(d, j) = {}  OBVIOUS
  <2>3. QED  BY <2>1, <2>2, OnIsReached, TurnedReach
<1>3. QED  BY <1>1, <1>2, SetDispositionStands DEF On, Turned

LEMMA DiscardedReach ==
  ASSUME NEW p, NEW d \in Reach(p), NEW k \in Dispositions, NEW T \in SUBSET Messages,
         T \subseteq p.touched, T \subseteq p.own, \A m \in T : NotificationsOf(d, m) = {}
  PROVE  Discarded(d, k, T) \in Reach(p)
<1>1. Turned(d, k, T) \in Reach(p)  BY TurnedReach
<1>2. Hidden(Turned(d, k, T), T) \in Reach(p)  BY <1>1, HiddenReach
<1>3. QED  BY <1>2 DEF Discarded, Turned

LEMMA DiscardedFields ==
  ASSUME NEW d \in Disk, NEW k \in Dispositions, NEW T \in SUBSET Messages
  PROVE  LET e == Discarded(d, k, T)
         IN  /\ e \in Disk
             /\ e.disp[k] = d.disp[k] \cup T
             /\ \A l \in Dispositions : l # k => e.disp[l] = d.disp[l] \ T
             /\ e.triage = d.triage \ T
             /\ e.root = d.root /\ e.status = d.status /\ e.items = d.items /\ e.draft = d.draft
             /\ e.open = d.open /\ e.coll = d.coll /\ e.push = d.push /\ e.loc = d.loc
             /\ e.stored = d.stored /\ e.txn = d.txn
<1> DEFINE f == Turned(d, k, T)
           e == Hidden(f, T)
<1>1. /\ f \in Disk
      /\ f.disp[k] = d.disp[k] \cup T
      /\ \A l \in Dispositions : l # k => f.disp[l] = d.disp[l] \ T
      /\ f.root = d.root /\ f.status = d.status /\ f.items = d.items /\ f.draft = d.draft
      /\ f.open = d.open /\ f.coll = d.coll /\ f.push = d.push /\ f.loc = d.loc
      /\ f.stored = d.stored /\ f.triage = d.triage /\ f.txn = d.txn
  BY TurnedFields
<1>0. e = Discarded(d, k, T)  BY DEF Discarded, Turned
<1> HIDE DEF f
<1>2. /\ e \in Disk /\ e.triage = f.triage \ T
      /\ e.root = f.root /\ e.status = f.status /\ e.items = f.items /\ e.draft = f.draft
      /\ e.open = f.open /\ e.coll = f.coll /\ e.disp = f.disp /\ e.push = f.push
      /\ e.loc = f.loc /\ e.stored = f.stored /\ e.txn = f.txn
  BY <1>1, HiddenFields
<1> HIDE DEF e
<1>3. QED  BY <1>0, <1>1, <1>2

LEMMA OnUpdate ==
  ASSUME NEW p, NEW r, NEW d, On(r, d, p), NEW k \in Dispositions, NEW S \in SUBSET Messages,
         S \subseteq p.touched, S \subseteq p.own,
         r.ok => \A m \in S : NotificationsOf(d, m) = {}
  PROVE  On(UpdateMessages(r, k, S), Discarded(d, k, S), p) /\ UpdateMessages(r, k, S).ok = r.ok
<1>1. ASSUME r.ok, NEW T \in SUBSET S
      PROVE  /\ Discarded(d, k, T) \in Reach(p)
             /\ \A m \in S : NotificationsOf(Discarded(d, k, T), m) = {}
  <2>1. d \in Reach(p) /\ d \in Disk  BY <1>1, OnIsReached, ReachIsSound
  <2>2. T \in SUBSET Messages /\ T \subseteq p.touched /\ T \subseteq p.own
        /\ \A m \in T : NotificationsOf(d, m) = {}
    BY <1>1
  <2> DEFINE e == Discarded(d, k, T)
  <2>3. e \in Reach(p)  BY <2>1, <2>2, DiscardedReach
  <2>4. e.open = d.open /\ e.coll = d.coll  BY <2>1, <2>2, DiscardedFields
  <2> HIDE DEF e
  <2>5. \A m \in S : NotificationsOf(e, m) = {}  BY <1>1, <2>4 DEF NotificationsOf
  <2>6. QED  BY <2>3, <2>5 DEF e
<1>2. ASSUME r.ok, NEW T \in SUBSET S, NEW m \in S
      PROVE  /\ \A P \in SUBSET ((Dispositions \ {k}) \X {m}) :
                   Cleared(Discarded(d, k, T), P) \in Reach(p)
             /\ Turned(Discarded(d, k, T), k, {m}) \in Reach(p)
  <2> DEFINE e == Discarded(d, k, T)
  <2>1. e \in Reach(p) /\ NotificationsOf(e, m) = {}  BY <1>1, <1>2
  <2> HIDE DEF e
  <2>2. ASSUME NEW P \in SUBSET ((Dispositions \ {k}) \X {m}) PROVE Cleared(e, P) \in Reach(p)
    <3>1. \A l \in Dispositions : \A j \in Messages :
             <<l, j>> \in P => j \in p.touched \/ e.stored[j] = "none"
      OBVIOUS
    <3>2. QED  BY <2>1, <3>1, ClearedReach
  <2>3. Turned(e, k, {m}) \in Reach(p)
    <3>1. {m} \in SUBSET Messages /\ {m} \subseteq p.touched /\ {m} \subseteq p.own  OBVIOUS
    <3>2. \A j \in {m} : NotificationsOf(e, j) = {}  BY <2>1
    <3>3. QED  BY <2>1, <3>1, <3>2, TurnedReach
  <2>4. QED  BY <2>2, <2>3 DEF e
<1>3. r.ok => \A T \in SUBSET S : Discarded(d, k, T) \in Reach(p)
  BY <1>1
<1>4. r.ok => \A T \in SUBSET S : \A m \in S :
            /\ \A P \in SUBSET ((Dispositions \ {k}) \X {m}) : Cleared(Discarded(d, k, T), P) \in Reach(p)
            /\ Marked(Cleared(Discarded(d, k, T), (Dispositions \ {k}) \X {m}), k, {m}) \in Reach(p)
  <2> SUFFICES ASSUME r.ok, NEW T \in SUBSET S, NEW m \in S
               PROVE  /\ \A P \in SUBSET ((Dispositions \ {k}) \X {m}) :
                            Cleared(Discarded(d, k, T), P) \in Reach(p)
                      /\ Marked(Cleared(Discarded(d, k, T), (Dispositions \ {k}) \X {m}), k, {m})
                           \in Reach(p)
    OBVIOUS
  <2>1. \A P \in SUBSET ((Dispositions \ {k}) \X {m}) : Cleared(Discarded(d, k, T), P) \in Reach(p)
    BY <1>2
  <2>2. Turned(Discarded(d, k, T), k, {m}) \in Reach(p)  BY <1>2
  <2>3. Marked(Cleared(Discarded(d, k, T), (Dispositions \ {k}) \X {m}), k, {m}) \in Reach(p)
    BY <2>2 DEF Turned
  <2>4. QED  BY <2>1, <2>3
<1>5. r.ok => Discardable(d, k, S, Reach(p))  BY <1>3, <1>4 DEF Discardable
<1>6. QED  BY <1>5, UpdateStands DEF On

LEMMA OnRender ==
  ASSUME NEW p, NEW r, NEW d, On(r, d, p),
         r.ok /\ p.whole => \A m \in p.touched : m \in Messages
                              /\ (DispositionsOf(d, m) # {} => CasesWith(d, m) = {})
  PROVE  /\ On(RenderRefresh(r), Viewed(d), p)
         /\ RenderRefresh(r).ok => Viewed(d) \in Restful(p)
<1>1. ASSUME r.ok PROVE Viewed(d) \in Reach(p) /\ Viewed(d) \in Restful(p)
  <2>1. d \in Reach(p) /\ d \in Disk  BY <1>1, OnIsReached, ReachIsSound
  <2> DEFINE e == Viewed(d)
  <2>2. e \in Reach(p)  BY <2>1, ViewedReach
  <2>3. /\ e.triage = {m \in Messages : d.stored[m] # "none" /\ TriageCandidate(d, m)}
        /\ e.root = d.root /\ e.items = d.items /\ e.open = d.open /\ e.coll = d.coll
        /\ e.disp = d.disp /\ e.stored = d.stored
    BY <2>1, ViewedFields
  <2> HIDE DEF e
  <2>4. p.whole => \A m \in p.touched : WholeAt(e, m)
    BY <1>1, <2>3
       DEF WholeAt, TriageCandidate, CasesWith, NotificationsOf, DispositionsOf
  <2>5. e \in Restful(p)  BY <2>2, <2>4, ReachIsRestful
  <2>6. QED  BY <2>2, <2>5 DEF e
<1>2. RenderRefresh(r).ok => r.ok
  BY DEF RenderRefresh, RefreshDispositionViews, RefreshTriageViews, Unless, Going, Put
<1>3. QED  BY <1>1, <1>2, RenderStands DEF On

LEMMA OnFinalize ==
  ASSUME NEW p, NEW r, NEW d, On(r, d, p)
  PROVE  On(FinalizeArchiving(r), Ended(d, Over(d)), p)
<1>1. ASSUME r.ok, NEW T \in SUBSET Over(d) PROVE Ended(d, T) \in Reach(p)
  BY <1>1, OnIsReached, EndedReach DEF Over
<1>2. QED  BY <1>1, FinalizeStands DEF On

LEMMA OnArchive ==
  ASSUME NEW p, NEW r, NEW d, On(r, d, p), NEW S \in SUBSET Messages, NEW c,
         p.done = {}, r.ok => Calm(p, d)
  PROVE  On(QueueArchive(r, S, c), Queued(d, S, c), p) /\ (QueueArchive(r, S, c).ok => r.ok)
<1>1. CASE ~r.ok
  <2>1. QueueArchive(r, S, c) = r
    BY <1>1 DEF QueueArchive, QueueActionSteps, RemovePendingPush, Loop
  <2>2. QED  BY <1>1, <2>1 DEF On, Stands
<1>2. CASE r.ok
  <2> DEFINE E == Eligible(d, S, c)
             I == InInbox(d, E)
             q == RemovePendingPush(r, E, "case.add")
             f == Unpushed(d, E, "case.add")
             e == Pushed(f, I, "notification")
  <2>1. r.d = d  BY <1>2 DEF On, Stands
  <2>2. QueueArchive(r, S, c) = QueueActionSteps(q, I, "notification")
    BY <2>1 DEF QueueArchive, Eligible, InInbox
  <2>3. d \in Disk /\ Sound(d)  BY <1>2, OnIsReached, ReachIsSound
  <2>4. E \in SUBSET Messages /\ I \in SUBSET Messages
    BY DEF Eligible, InInbox
  <2>5. \A m \in I : d.stored[m] # "none"
    <3> SUFFICES ASSUME NEW m \in I PROVE d.stored[m] # "none"  OBVIOUS
    <3>1. m \in Messages /\ ArchiveEligible(d, m, c, FALSE)
      BY DEF Eligible, InInbox
    <3>2. NotificationsOf(d, m) # {} \/ CasesWith(d, m) # {}
      BY <3>1 DEF ArchiveEligible, HasArchivedReference
    <3>3. QED  BY <2>3, <3>1, <3>2, ReferencedIsStored
  <2>6. "case.add" \in MessagePushActions /\ "notification" \in MessagePushActions
        /\ "notification" # "none"
    BY DEF MessagePushActions
  <2> HIDE DEF E, I
  <2>7. On(q, f, p) /\ (q.ok => r.ok)
    BY <1>2, <2>4, <2>6, OnUnpush
  <2>8. f.txn = d.txn /\ SameView(d, f)  BY <2>3, UnpushedKeeps
  <2>9. Calm(p, f)  BY <1>2, <2>8, CalmStays
  <2>10. \A m \in I : f.stored[m] # "none"  BY <2>5, <2>8 DEF SameView
  <2> HIDE DEF q, f
  <2>11. On(QueueActionSteps(q, I, "notification"), e, p)
         /\ (QueueActionSteps(q, I, "notification").ok => q.ok)
    BY <2>4, <2>6, <2>7, <2>9, <2>10, OnQueue
  <2>12. e = Queued(d, S, c)
    BY DEF e, f, E, I, Queued, Freed
  <2>13. QED  BY <2>2, <2>7, <2>11, <2>12
<1>3. QED  BY <1>1, <1>2

-----------------------------------------------------------------------------
(* One command.                                                             *)

Inv ==
  /\ TypeOK
  /\ Sound(disk)
  /\ crashes = 0 /\ disk.txn.kind \in {"none", "case_archive"} => Whole(disk)

(* The bounds of a command that goes on from the workspace on disk. *)
Within(p) ==
  /\ p.from = disk /\ (p.whole <=> crashes = 0)
  /\ disk \in Reach(p)

(* It has done no more than its bounds allow. *)
Done(p) ==
  /\ disk' \in Reach(p)
  /\ crashes' \in 0 .. MaxCrashes /\ (crashes' = crashes \/ crashes' = crashes + 1)
  /\ crashes' = 0 => disk' \in Restful(p)

Bounds(touched, own, done, cases, kinds) ==
  [from |-> disk, whole |-> crashes = 0, touched |-> touched, own |-> own,
   done |-> done, cases |-> cases, kinds |-> kinds]

LEMMA BoundsFields ==
  ASSUME NEW touched, NEW own, NEW done, NEW cases, NEW kinds
  PROVE  LET p == Bounds(touched, own, done, cases, kinds)
         IN  /\ p.from = disk /\ (p.whole <=> crashes = 0)
             /\ p.touched = touched /\ p.own = own /\ p.done = done
             /\ p.cases = cases /\ p.kinds = kinds
BY DEF Bounds

LEMMA WithinBounds ==
  ASSUME Inv, NEW touched, NEW own, NEW done, NEW cases, NEW kinds,
         disk.txn.kind \in kinds, disk.txn.kind \in {"none", "case_archive"}
  PROVE  Within(Bounds(touched, own, done, cases, kinds))
<1> DEFINE p == Bounds(touched, own, done, cases, kinds)
<1>1. /\ p.from = disk /\ (p.whole <=> crashes = 0) /\ p.kinds = kinds
  BY BoundsFields
<1> HIDE DEF p
<1>2. /\ p.from \in Disk /\ Sound(p.from) /\ (p.whole => Whole(p.from))
      /\ p.from.txn.kind \in p.kinds
  BY <1>1 DEF Inv, TypeOK
<1>3. p.from \in Reach(p)  BY <1>2, ReachStart
<1>4. QED  BY <1>1, <1>3 DEF Within, p

LEMMA PerformIsDone ==
  ASSUME Inv, NEW p, Within(p), NEW r, NEW d, On(r, d, p), r.ok => d \in Restful(p), Perform(r)
  PROVE  Done(p)
<1>1. crashes \in Nat  BY CaseStoreAssumption DEF Inv, TypeOK
<1>2. disk' \in Reach(p) /\ (crashes' = crashes \/ crashes' = crashes + 1)
      /\ (crashes' = crashes => disk' \in Restful(p))
  BY <1>1, PerformEnds DEF On
<1>3. crashes' \in 0 .. MaxCrashes
  BY <1>1, <1>2, CaseStoreAssumption DEF Perform
<1>4. QED  BY <1>1, <1>2, <1>3 DEF Done

LEMMA ShownIsWhole ==
  ASSUME NEW d \in Disk, NEW S \in SUBSET Messages, NEW m \in S, d.stored[m] # "none",
         DispositionsOf(d, m) # {} => CasesWith(d, m) = {}
  PROVE  WholeAt(Shown(d, S), m)
<1> DEFINE e == Shown(d, S)
<1>1. /\ e.triage = (d.triage \ S) \cup {j \in S : TriageCandidate(d, j)}
      /\ e.root = d.root /\ e.items = d.items /\ e.open = d.open /\ e.coll = d.coll
      /\ e.disp = d.disp /\ e.stored = d.stored
  BY ShownFields
<1> HIDE DEF e
<1>2. m \in e.triage <=> TriageCandidate(d, m)  BY <1>1
<1>3. WholeAt(e, m)
  BY <1>1, <1>2 DEF WholeAt, TriageCandidate, CasesWith, NotificationsOf, DispositionsOf
<1>4. QED  BY <1>3 DEF e

Addable(d, S) == {m \in S : CaseAddSteps /\ d.loc[m] # "gone"}

LEMMA OnCaseAdd ==
  ASSUME NEW p, NEW r, NEW d, On(r, d, p), NEW S \in SUBSET Messages, p.done = {},
         r.ok => \A m \in S : d.stored[m] # "none",
         r.ok => Calm(p, d)
  PROVE  On(QueueCaseAdd(r, S), Pushed(d, Addable(d, S), "case.add"), p)
         /\ (QueueCaseAdd(r, S).ok => r.ok)
<1>1. CASE ~r.ok
  <2>1. QueueCaseAdd(r, S) = r  BY <1>1 DEF QueueCaseAdd, QueueActionSteps, Loop
  <2>2. QED  BY <1>1, <2>1 DEF On, Stands
<1>2. CASE r.ok
  <2> DEFINE A == Addable(d, S)
  <2>1. r.d = d  BY <1>2 DEF On, Stands
  <2>2. QueueCaseAdd(r, S) = QueueActionSteps(r, A, "case.add")
    BY <2>1 DEF QueueCaseAdd, Addable
  <2>3. A \in SUBSET Messages /\ \A m \in A : d.stored[m] # "none"
    BY <1>2 DEF Addable
  <2>4. "case.add" \in MessagePushActions /\ "case.add" # "none"  BY DEF MessagePushActions
  <2> HIDE DEF A
  <2>5. On(QueueActionSteps(r, A, "case.add"), Pushed(d, A, "case.add"), p)
        /\ (QueueActionSteps(r, A, "case.add").ok => r.ok)
    BY <1>2, <2>3, <2>4, OnQueue
  <2>6. QED  BY <2>2, <2>5 DEF A
<1>3. QED  BY <1>1, <1>2

LEMMA CreateCaseIsDone ==
  ASSUME Inv, NEW p, Within(p), NEW c \in Cases, NEW S \in SUBSET Messages, CreateCase(c, S),
         p.touched = S, p.done = {}, p.kinds = {"none", "case_create"}
  PROVE  Done(p)
<1> DEFINE d1 == WithTxn(disk, "case_create", c)
           d2 == Made(d1, c, S)
           d3 == Cleared(d2, Dispositions \X S)
           d4 == Shown(d3, S)
           d5 == Pushed(d4, Addable(d4, S), "case.add")
           d6 == WithTxn(d5, "none", None)
           r1 == BeginTransaction(Start, "case_create", c)
           r2 == Put(r1, [r1.d EXCEPT !.root[c] = "active", !.items[c] = S])
           r3 == ClearDispositions(r2, S)
           r4 == RefreshMessages(r3, S)
           r5 == QueueCaseAdd(r4, S)
           r6 == Commit(r5)
<1>0. disk \in Reach(p) /\ disk \in Disk /\ disk.root[c] = "none"
      /\ \A m \in S : disk.stored[m] # "none"
  BY ReachIsSound DEF Within, CreateCase, PrepareCaseCreate, Readable
<1>t. [kind |-> "case_create", on |-> c] \in Transactions  BY DEF Transactions
<1>1. On(r1, d1, p) /\ r1.ok
  BY <1>0, <1>t, OnStart, OnBegin
<1>p. Perform(r6)  BY DEF CreateCase
<1>d. r1.d = d1  BY <1>1 DEF On, Stands
<1>a. /\ d1 \in Disk /\ d1.txn.kind = "case_create" /\ d1.root = disk.root
      /\ d1.stored = disk.stored /\ d1 \in Reach(p)
  BY <1>0, <1>1, <1>t, WithTxnFields, OnIsReached
<1> HIDE DEF d1, r1
<1>2. On(r2, d2, p) /\ r2.ok
  <2>1. d2 \in Reach(p)  BY <1>0, <1>a, MadeReach
  <2>2. r2 = Put(r1, d2)  BY <1>d DEF Made
  <2> HIDE DEF d2, r2
  <2>3. On(Put(r1, d2), d2, p) /\ Put(r1, d2).ok = r1.ok  BY <1>1, <2>1, OnPut
  <2>4. QED  BY <1>1, <2>2, <2>3
<1>b. /\ d2 \in Disk /\ d2.txn = d1.txn /\ d2.stored = d1.stored
  BY <1>a, <1>2, OnIsReached, ReachIsSound, MadeKeeps
<1> HIDE DEF d2, r2
<1>3. On(r3, d3, p) /\ r3.ok
  BY <1>2, OnClearAll
<1>c. /\ d3 \in Disk /\ d3.txn = d2.txn /\ d3.stored = d2.stored
      /\ d3.disp = [k \in Dispositions |-> {m \in d2.disp[k] : <<k, m>> \notin Dispositions \X S}]
  BY <1>b, ClearedFields
<1> HIDE DEF d3, r3
<1>4. On(r4, d4, p)
  BY <1>3, <1>a, <1>b, <1>c, OnRefresh, OpenIsFree
<1>e. \A m \in S : WholeAt(d4, m)
  <2>1. ASSUME NEW m \in S PROVE DispositionsOf(d3, m) = {}  BY <1>c DEF DispositionsOf
  <2>2. QED  BY <2>1, <1>0, <1>a, <1>b, <1>c, ShownIsWhole
<1>f. d4 \in Disk /\ d4.txn = d3.txn /\ d4.stored = d3.stored
  BY <1>c, ShownFields
<1> HIDE DEF d4, r4
<1>5. On(r5, d5, p)
  BY <1>4, <1>f, <1>0, <1>a, <1>b, <1>c, OnCaseAdd, OpenIsFree, FreeIsCalm
<1>g. (r5.ok => d5 \in Disk) /\ SameView(d4, d5)
  <2>1. SameView(d4, d5)  BY <1>f, PushedKeeps
  <2>2. QED  BY <2>1, <1>5, OnIsReached, ReachIsSound
<1> HIDE DEF d5, r5
<1>6. On(r6, d6, p) /\ r6.ok = r5.ok
  BY <1>5, OnCommit
<1>h. r6.ok => SameView(d5, d6)
  BY <1>g, <1>6, TxnKeeps
<1> HIDE DEF d6, r6
<1>7. r6.ok => \A m \in S : WholeAt(d6, m)
  BY <1>e, <1>g, <1>h, SameViewIsWhole
<1>8. r6.ok => d6 \in Restful(p)
  BY <1>6, <1>7, OnIsReached, ReachIsRestful
<1>9. QED  BY <1>6, <1>8, <1>p, PerformIsDone

LEMMA SoundBuilds ==
  ASSUME NEW d, Sound(d), CaseIndexBuilds(d)
  PROVE  OverlayIndexBuilds(d)
BY DEF Sound, Agreement, OverlayIndexBuilds

LEMMA NothingUnreadable ==
  ASSUME NEW d, Sound(d), CaseIndexBuilds(d), NEW S, \A m \in S : d.stored[m] # "none"
  PROVE  Unreadable(d, S) = {}
BY SoundBuilds DEF Unreadable

LEMMA CaseIsStored ==
  ASSUME NEW d \in Disk, Sound(d), NEW c \in Cases, d.root[c] # "none", NEW m \in d.items[c]
  PROVE  m \in Messages /\ d.stored[m] # "none"
<1>1. m \in Messages  BY DiskFields
<1>2. c \in CasesWith(d, m)  BY DEF CasesWith
<1>3. QED  BY <1>1, <1>2, ReferencedIsStored

LEMMA ItemsKeeps ==
  ASSUME NEW d \in Disk, NEW c, NEW S
  PROVE  LET e == WithItems(d, c, S)
         IN  /\ e.root = d.root /\ e.status = d.status /\ e.draft = d.draft /\ e.open = d.open
             /\ e.coll = d.coll /\ e.disp = d.disp /\ e.push = d.push /\ e.loc = d.loc
             /\ e.stored = d.stored /\ e.triage = d.triage /\ e.txn = d.txn
BY DEF Disk, WithItems

LEMMA ClearedKeeps ==
  ASSUME NEW d \in Disk, NEW P
  PROVE  LET e == Cleared(d, P)
         IN  /\ e.root = d.root /\ e.status = d.status /\ e.items = d.items /\ e.draft = d.draft
             /\ e.open = d.open /\ e.coll = d.coll /\ e.push = d.push /\ e.loc = d.loc
             /\ e.stored = d.stored /\ e.triage = d.triage /\ e.txn = d.txn
BY DEF Disk, Cleared

LEMMA ClearedHasNone ==
  ASSUME NEW d \in Disk, NEW S, NEW m \in S
  PROVE  DispositionsOf(Cleared(d, Dispositions \X S), m) = {}
BY DEF Disk, Cleared, DispositionsOf

LEMMA ShownKeeps ==
  ASSUME NEW d \in Disk, NEW S
  PROVE  LET e == Shown(d, S)
         IN  /\ e.root = d.root /\ e.status = d.status /\ e.items = d.items /\ e.draft = d.draft
             /\ e.open = d.open /\ e.coll = d.coll /\ e.disp = d.disp /\ e.push = d.push
             /\ e.loc = d.loc /\ e.stored = d.stored /\ e.txn = d.txn
BY DEF Disk, Shown

LEMMA AddMessageIsDone ==
  ASSUME Inv, NEW p, Within(p), NEW c \in Cases, NEW m \in Messages, AddMessageToCase(c, m),
         p.touched = {m}, p.done = {}, p.kinds = {"none"}
  PROVE  Done(p)
<1> DEFINE M == {m}
           its == disk.items[c] \cup M
           d1 == WithItems(disk, c, its)
           d2 == Cleared(d1, Dispositions \X M)
           d3 == Shown(d2, M)
           d4 == Pushed(d3, Addable(d3, M), "case.add")
           r1 == WriteCase(Start, c, its)
           r2 == ClearDispositions(r1, M)
           r3 == RefreshMessages(r2, M)
           r4 == QueueCaseAdd(r3, M)
<1>0. /\ disk \in Reach(p) /\ disk \in Disk /\ Sound(disk) /\ disk.root[c] = "active"
      /\ CaseIndexBuilds(disk) /\ disk.stored[m] # "none"
  BY ReachIsSound
     DEF Within, AddMessageToCase, ResolveActiveCase, Readable, Ready, OverlayIndexBuilds
<1>i. its \in SUBSET Messages /\ M \in SUBSET Messages /\ \A j \in its : disk.stored[j] # "none"
  BY <1>0, CaseIsStored
<1>p. Perform(r4)
  BY DEF AddMessageToCase, AddToExistingCase, Start, From
<1>m. p.touched = M /\ M \in SUBSET p.touched  OBVIOUS
<1>n. \A j \in Messages \ p.touched : j \in its <=> j \in disk.items[c]  OBVIOUS
<1>k. M # {} /\ \A j \in M : j = m  OBVIOUS
<1> HIDE DEF its, M
<1>1. On(r1, d1, p) /\ r1.ok
  BY <1>0, <1>i, <1>n, OnStart, OnWriteCase
<1>a. /\ d1 \in Disk /\ d1.root = disk.root /\ d1.status = disk.status
      /\ d1.stored = disk.stored
  BY <1>0, <1>1, OnIsReached, ReachIsSound, ItemsKeeps
<1> HIDE DEF d1, r1
<1>2. On(r2, d2, p) /\ r2.ok
  BY <1>1, <1>m, OnClearAll
<1>b. /\ d2 \in Disk /\ Sound(d2) /\ d2.root = disk.root /\ d2.status = disk.status
      /\ d2.stored = disk.stored /\ \A j \in M : DispositionsOf(d2, j) = {}
  BY <1>a, <1>2, OnIsReached, ReachIsSound, ClearedKeeps, ClearedHasNone
<1> HIDE DEF d2, r2
<1>c. Unreadable(d2, M) = {}
  <2>1. CaseIndexBuilds(d2)  BY <1>0, <1>b DEF CaseIndexBuilds
  <2>2. QED  BY <2>1, <1>0, <1>b, <1>k, NothingUnreadable
<1>3. On(r3, d3, p) /\ r3.ok
  BY <1>2, <1>b, <1>c, <1>i, <1>m, OnRefresh
<1>d. \A j \in M : WholeAt(d3, j)
  BY <1>b, <1>i, <1>0, <1>k, ShownIsWhole
<1>e. d3 \in Reach(p) /\ d3.stored = disk.stored
  BY <1>b, <1>3, OnIsReached, ShownKeeps
<1> HIDE DEF d3, r3
<1>f. Calm(p, d3)
  BY <1>d, <1>e, <1>m, RestfulIsCalm
<1>4. On(r4, d4, p)
  BY <1>3, <1>e, <1>f, <1>0, <1>k, <1>i, OnCaseAdd
<1>g. d4.txn = d3.txn /\ SameView(d3, d4)  BY <1>e, ReachIsSound, PushedKeeps
<1> HIDE DEF d4, r4
<1>h. r4.ok => d4 \in Restful(p)
  BY <1>4, <1>f, <1>g, OnIsReached DEF Calm
<1>9. QED  BY <1>4, <1>h, <1>p, PerformIsDone

LEMMA ReadyStart ==
  ASSUME NEW p, Within(p), Ready
  PROVE  /\ disk \in Reach(p) /\ disk \in Disk /\ Sound(disk) /\ CaseIndexBuilds(disk)
         /\ disk.txn.kind = "none" /\ p.from = disk
<1>1. disk \in Reach(p) /\ p.from = disk  BY DEF Within
<1>2. disk \in Disk /\ Sound(disk)  BY <1>1, ReachIsSound
<1>3. disk.txn.kind = "none" /\ CaseIndexBuilds(disk)  BY DEF Ready, NoTxn, OverlayIndexBuilds
<1>4. QED  BY <1>1, <1>2, <1>3

(* Without a crash, and between two commands, everything is whole. *)
LEMMA StartIsWhole ==
  ASSUME Inv, NEW p, Within(p), p.whole, disk.txn.kind \in {"none", "case_archive"}
  PROVE  Whole(disk)
BY DEF Inv, Within

LEMMA RemoveMessageIsDone ==
  ASSUME Inv, NEW p, Within(p), NEW c \in Cases, NEW m \in Messages, RemoveMessageFromCase(c, m),
         p.touched = {m}, p.done = {}, p.kinds = {"none", "case_message_removed"}
  PROVE  Done(p)
<1> DEFINE M == {m}
           its == disk.items[c] \ M
           undo == IF disk.status[c] = "" THEN "case.add" ELSE "notification"
           d1 == WithTxn(disk, "case_message_removed", c)
           d2 == WithItems(d1, c, its)
           d3 == Unpushed(d2, M, undo)
           d4 == Shown(d3, M)
           d5 == WithTxn(d4, "none", None)
           r1 == BeginTransaction(Start, "case_message_removed", c)
           r2 == WriteCase(r1, c, its)
           r3 == RemovePendingPush(r2, M, undo)
           r4 == RefreshMessages(r3, M)
           r5 == Commit(r4)
<1>0. /\ disk \in Reach(p) /\ disk \in Disk /\ Sound(disk) /\ disk.root[c] # "none"
      /\ m \in disk.items[c] /\ disk.txn.kind = "none"
  BY ReadyStart DEF RemoveMessageFromCase, ResolveCaseAny
<1>i. its \in SUBSET Messages /\ M \in SUBSET Messages /\ undo \in MessagePushActions
      /\ \A j \in disk.items[c] : disk.stored[j] # "none"
  <2>1. disk.items[c] \in SUBSET Messages  BY <1>0, DiskFields
  <2>2. QED  BY <1>0, <2>1, CaseIsStored DEF MessagePushActions
<1>t. [kind |-> "case_message_removed", on |-> c] \in Transactions  BY DEF Transactions
<1>p. Perform(r5)
  BY DEF RemoveMessageFromCase, RemoveFromCaseWorkspace
<1>m. p.touched = M /\ M \in SUBSET p.touched  OBVIOUS
<1>n. \A j \in Messages \ p.touched : j \in its <=> j \in disk.items[c]  OBVIOUS
<1>k. \A j \in its : j \in disk.items[c]  OBVIOUS
<1>l. \A j \in M : j = m  OBVIOUS
<1> HIDE DEF its, M, undo
<1>1. On(r1, d1, p) /\ r1.ok
  BY <1>0, <1>t, OnStart, OnBegin
<1>a. /\ d1 \in Disk /\ d1.txn.kind = "case_message_removed"
      /\ d1.stored = disk.stored /\ d1.disp = disk.disp /\ d1.items = disk.items
  BY <1>0, <1>1, OnIsReached, ReachIsSound, TxnKeeps DEF SameView
<1> HIDE DEF d1, r1
<1>2. On(r2, d2, p) /\ r2.ok
  BY <1>1, <1>a, <1>i, <1>k, <1>n, OnWriteCase
<1>b. d2 \in Disk /\ d2.txn = d1.txn /\ d2.stored = disk.stored /\ d2.disp = disk.disp
  BY <1>a, <1>2, OnIsReached, ReachIsSound, ItemsKeeps
<1> HIDE DEF d2, r2
<1>3. On(r3, d3, p)
  BY <1>2, <1>a, <1>b, <1>i, OnUnpush, OpenIsFree, FreeIsCalm
<1>c. d3.txn = d1.txn /\ d3.stored = disk.stored /\ d3.disp = disk.disp
      /\ (r3.ok => d3 \in Disk)
  BY <1>b, <1>3, OnIsReached, ReachIsSound, UnpushedKeeps DEF SameView
<1> HIDE DEF d3, r3
<1>4. On(r4, d4, p) /\ (r4.ok => r3.ok)
  BY <1>3, <1>a, <1>c, <1>i, <1>m, OnRefresh, OpenIsFree
<1>w. p.whole => DispositionsOf(disk, m) = {}
  <2>1. c \in CasesWith(disk, m)  BY <1>0 DEF CasesWith
  <2>2. QED  BY <1>0, <2>1, StartIsWhole DEF Whole
<1>d. r4.ok /\ p.whole => \A j \in M : WholeAt(d4, j)
  <2> SUFFICES ASSUME r4.ok, p.whole, NEW j \in M PROVE WholeAt(d4, j)
    OBVIOUS
  <2>1. DispositionsOf(d3, j) = {}  BY <1>c, <1>w, <1>l DEF DispositionsOf
  <2>2. d3.stored[j] # "none"  BY <1>c, <1>l, <1>i, <1>0
  <2>3. d3 \in Disk  BY <1>4, <1>c
  <2>4. QED  BY <2>1, <2>2, <2>3, <1>i, ShownIsWhole
<1>e. r4.ok => d4 \in Disk  BY <1>4, OnIsReached, ReachIsSound
<1> HIDE DEF d4, r4
<1>5. On(r5, d5, p) /\ r5.ok = r4.ok
  BY <1>4, OnCommit
<1>f. r5.ok => SameView(d4, d5)  BY <1>5, <1>e, TxnKeeps
<1> HIDE DEF d5, r5
<1>6. r5.ok /\ p.whole => \A j \in p.touched : WholeAt(d5, j)
  BY <1>5, <1>d, <1>f, <1>m, SameViewIsWhole
<1>7. r5.ok => d5 \in Restful(p)
  BY <1>5, <1>6, OnIsReached, ReachIsRestful
<1>8. QED  BY <1>5, <1>7, <1>p, PerformIsDone

LEMMA DroppedKeeps ==
  ASSUME NEW d \in Disk, NEW c
  PROVE  LET e == Dropped(d, c)
         IN  /\ e.open = d.open /\ e.coll = d.coll /\ e.disp = d.disp /\ e.push = d.push
             /\ e.loc = d.loc /\ e.stored = d.stored /\ e.triage = d.triage /\ e.txn = d.txn
BY DEF Disk, Dropped

LEMMA UntouchedIsRestful ==
  ASSUME NEW p, NEW d \in Reach(p), p.touched = {}
  PROVE  d \in Restful(p)
BY ReachIsRestful

LEMMA UntouchedIsDone ==
  ASSUME Inv, NEW p, Within(p), p.touched = {}, NEW r, NEW d, On(r, d, p), Perform(r)
  PROVE  Done(p)
BY OnIsReached, UntouchedIsRestful, PerformIsDone

LEMMA DeleteCaseIsDone ==
  ASSUME Inv, NEW p, Within(p), NEW c \in Cases, DeleteCase(c),
         p.touched = {}, p.done = {}, p.kinds = {"none", "case_deleted"}
  PROVE  Done(p)
<1> DEFINE d1 == WithTxn(disk, "case_deleted", c)
           d2 == Dropped(d1, c)
           d3 == WithTxn(d2, "none", None)
           r1 == BeginTransaction(Start, "case_deleted", c)
           r2 == RemoveCaseDir(r1, c)
           r3 == Commit(r2)
<1>0. disk \in Reach(p) /\ disk \in Disk /\ disk.items[c] = {}
  BY ReachIsSound DEF Within, DeleteCase
<1>t. [kind |-> "case_deleted", on |-> c] \in Transactions  BY DEF Transactions
<1>p. Perform(r3)  BY DEF DeleteCase
<1>1. On(r1, d1, p) /\ r1.ok
  BY <1>0, <1>t, OnStart, OnBegin
<1>a. d1.items[c] = {}  BY <1>0, TxnKeeps DEF SameView
<1> HIDE DEF d1, r1
<1>2. On(r2, d2, p)
  BY <1>1, <1>a, OnRemoveCase
<1> HIDE DEF d2, r2
<1>3. On(r3, d3, p)
  BY <1>2, OnCommit
<1> HIDE DEF d3, r3
<1>4. QED  BY <1>3, <1>p, UntouchedIsDone

LEMMA MergeCaseIsDone ==
  ASSUME Inv, NEW p, Within(p), NEW c \in Cases, NEW other \in Cases, MergeCase(c, other),
         p.touched = {}, p.done = {}, p.kinds = {"none"}
  PROVE  Done(p)
<1> DEFINE its == disk.items[c] \cup disk.items[other]
           moved == disk.items[other]
           d1 == WithItems(disk, c, its)
           d2 == Dropped(d1, other)
           d3 == Shown(d2, moved)
           r1 == WriteCase(Start, c, its)
           r2 == RemoveCaseDir(r1, other)
           r3 == RefreshMessages(r2, moved)
<1>0. /\ disk \in Reach(p) /\ disk \in Disk /\ Sound(disk) /\ c # other
      /\ disk.root[c] = "active" /\ disk.root[other] = "active"
  BY ReadyStart DEF MergeCase, ResolveActiveCase
<1>p. Perform(r3)  BY DEF MergeCase
<1>i. its \in SUBSET Messages /\ moved \in SUBSET Messages
      /\ \A j \in its : disk.stored[j] # "none"
  <2>1. disk.items[c] \in SUBSET Messages /\ disk.items[other] \in SUBSET Messages
    BY <1>0, DiskFields
  <2>2. QED  BY <1>0, <2>1, CaseIsStored
<1>n. \A j \in Messages \ p.touched : \/ j \in its <=> j \in disk.items[c]
                                      \/ \E b \in CasesWith(disk, j) : b # c
  BY <1>0 DEF CasesWith
<1>k. moved \subseteq its  OBVIOUS
<1> HIDE DEF its, moved
<1>1. On(r1, d1, p) /\ r1.ok
  <2>1. On(Start, disk, p) /\ Start.ok  BY <1>0, OnStart
  <2> HIDE DEF Start
  <2>a. \A j \in Messages \ p.touched : \/ j \in its <=> j \in disk.items[c]
                                        \/ \E b \in CasesWith(disk, j) : b # c
    BY <1>n
  <2>b. its \in SUBSET Messages /\ \A j \in its : disk.stored[j] # "none"  BY <1>i
  <2>c. WithItems(disk, c, its) \in Reach(p)  BY <1>0, <2>a, <2>b, ItemsReach
  <2>2. On(WriteCase(Start, c, its), WithItems(disk, c, its), p)
        /\ WriteCase(Start, c, its).ok = Start.ok
    BY <2>1, <2>c, WriteCaseStands DEF On
  <2>3. QED  BY <2>1, <2>2
<1>a. /\ d1 \in Disk /\ d1.root = disk.root /\ d1.stored = disk.stored
      /\ d1.items = [disk.items EXCEPT ![c] = its]
  BY <1>0, <1>1, OnIsReached, ReachIsSound, ItemsKeeps DEF WithItems, Disk
<1>b. \A j \in d1.items[other] : \E b \in CasesWith(d1, j) : b # other
  <2> SUFFICES ASSUME NEW j \in d1.items[other] PROVE c \in CasesWith(d1, j)
    BY <1>0
  <2>1. disk.items \in [Cases -> SUBSET Messages]  BY <1>0, DiskFields
  <2>2. d1.items[other] = moved /\ d1.items[c] = its  BY <1>0, <1>a, <2>1 DEF moved
  <2>3. QED  BY <2>2, <1>k, <1>0, <1>a DEF CasesWith
<1> HIDE DEF d1, r1
<1>2. On(r2, d2, p)
  BY <1>1, <1>b, OnRemoveCase
<1>c. d2.stored = disk.stored  BY <1>a, DroppedKeeps
<1> HIDE DEF d2, r2
<1>3. On(r3, d3, p)
  BY <1>2, <1>c, <1>i, <1>k, OnRefresh, UntouchedIsFree
<1> HIDE DEF d3, r3
<1>4. QED  BY <1>3, <1>p, UntouchedIsDone

LEMMA UnarchiveCaseIsDone ==
  ASSUME Inv, NEW p, Within(p), NEW c \in Cases, UnarchiveCase(c),
         p.touched = {}, p.done = {}, p.kinds = {"none"}
  PROVE  Done(p)
<1> DEFINE its == disk.items[c]
           d1 == WithStatus(disk, c, "")
           d2 == WithRoot(d1, c, "active")
           d3 == Unpushed(d2, its, "notification")
           d4 == Shown(d3, its)
           r1 == SetCaseStatus(Start, c, "")
           r2 == MoveCase(r1, c, "active")
           r3 == RemovePendingPushes(r2, its, "notification")
           r4 == RefreshMessages(r3, its)
<1>0. /\ disk \in Reach(p) /\ disk \in Disk /\ Sound(disk) /\ disk.root[c] = "archived"
  BY ReadyStart DEF UnarchiveCase, ResolveUnarchiveCase
<1>p. Perform(r4)  BY DEF UnarchiveCase
<1>i. its \in SUBSET Messages /\ \A j \in its : disk.stored[j] # "none"
  BY <1>0, CaseIsStored, DiskFields
<1>s. "" \in Statuses /\ "active" \in Roots /\ "active" # "none" /\ "active" # "archived"
      /\ "notification" \in MessagePushActions
  BY DEF Statuses, Roots, MessagePushActions
<1> HIDE DEF its
<1>1. On(r1, d1, p) /\ r1.ok
  BY <1>0, <1>s, OnStart, OnStatus
<1>a. /\ d1 \in Disk /\ d1.root = disk.root /\ d1.stored = disk.stored
  BY <1>0, <1>1, OnIsReached, ReachIsSound DEF WithStatus, Disk
<1> HIDE DEF d1, r1
<1>2. On(r2, d2, p) /\ r2.ok
  <2> DEFINE to == "active"
  <2>1. to \in Roots /\ to # "none" /\ to # "archived"  BY <1>s
  <2>2. d1.root[c] # "none"  BY <1>a, <1>0
  <2> HIDE DEF to
  <2>3. On(MoveCase(r1, c, to), WithRoot(d1, c, to), p) /\ MoveCase(r1, c, to).ok = r1.ok
    <3>1. On(r1, d1, p) /\ (r1.ok => d1.root[c] # "none")  BY <1>1, <2>2
    <3>2. c \in p.cases \/ to # "archived"  BY <2>1
    <3>3. QED  BY <3>1, <3>2, <2>1, OnMove
  <2>4. QED  BY <1>1, <2>3 DEF to
<1>b. d2 \in Disk /\ d2.stored = disk.stored
  BY <1>a, <1>2, OnIsReached, ReachIsSound DEF WithRoot, Disk
<1> HIDE DEF d2, r2
<1>3. On(r3, d3, p)
  BY <1>2, <1>i, <1>s, OnUnpushAll, UntouchedIsFree, FreeIsCalm
<1>c. d3.stored = disk.stored  BY <1>b, UnpushedKeeps DEF SameView
<1> HIDE DEF d3, r3
<1>4. On(r4, d4, p)
  BY <1>3, <1>c, <1>i, OnRefresh, UntouchedIsFree
<1> HIDE DEF d4, r4
<1>5. QED  BY <1>4, <1>p, UntouchedIsDone

LEMMA OnePutIsDone ==
  ASSUME Inv, NEW p, Within(p), p.touched = {}, NEW e \in Reach(p), Perform(Put(Start, e))
  PROVE  Done(p)
<1>1. disk \in Reach(p)  BY DEF Within
<1>2. On(Put(Start, e), e, p)  BY <1>1, OnStart, OnPut
<1>3. QED  BY <1>2, UntouchedIsDone

LEMMA DraftsAreDone ==
  ASSUME Inv, NEW p, Within(p), NEW c \in Cases,
         (\E m \in Messages \cup {None} : NewDraft(c, m)) \/ RemoveDraft(c),
         p.touched = {}, p.done = {}, p.kinds = {"none"}
  PROVE  Done(p)
<1>0. /\ disk \in Reach(p) /\ disk \in Disk /\ Sound(disk) /\ disk.root[c] = "active"
  BY ReadyStart DEF NewDraft, RemoveDraft
<1>1. ASSUME NEW m \in Messages \cup {None}, NewDraft(c, m) PROVE Done(p)
  <2> DEFINE x == [st |-> "edit", re |-> m]
             e == WithDraft(disk, c, x)
  <2>1. x \in DraftItems /\ x.re = m  BY DEF DraftItems
  <2>2. m \in disk.items[c] \cup {None}  BY <1>1 DEF NewDraft
  <2>3. m \in Messages => disk.stored[m] # "none"
    BY <2>2, <1>0, CaseIsStored, CaseStoreAssumption
  <2>4. Perform(Put(Start, e))  BY <1>1 DEF NewDraft, WithDraft
  <2> HIDE DEF x
  <2>5. e \in Reach(p)  BY <1>0, <2>1, <2>3, DraftReach
  <2> HIDE DEF e
  <2>6. QED  BY <2>4, <2>5, OnePutIsDone
<1>2. ASSUME RemoveDraft(c) PROVE Done(p)
  <2> DEFINE x == NoDraft
             e == WithDraft(disk, c, x)
  <2>1. x \in DraftItems /\ x.re \notin Messages
    BY CaseStoreAssumption DEF DraftItems, NoDraft
  <2>2. Perform(Put(Start, e))  BY <1>2 DEF RemoveDraft, WithDraft
  <2> HIDE DEF x
  <2>3. e \in Reach(p)  BY <1>0, <2>1, DraftReach
  <2> HIDE DEF e
  <2>4. QED  BY <2>2, <2>3, OnePutIsDone
<1>3. QED  BY <1>1, <1>2

(* A queued draft keeps the message it replies to, which is there. *)
LEMMA QueueDraftIsDone ==
  ASSUME Inv, NEW p, Within(p), NEW c \in Cases, NEW i \in {"upload", "send"}, QueueDraft(c, i),
         p.touched = {}, p.done = {}, p.kinds = {"none", "draft_queue"}
  PROVE  Done(p)
<1> DEFINE d1 == WithTxn(disk, "draft_queue", c)
           x == [d1.draft[c] EXCEPT !.st = i]
           d2 == WithDraft(d1, c, x)
           d3 == WithTxn(d2, "none", None)
           r1 == BeginTransaction(Start, "draft_queue", c)
           r2 == Put(r1, [r1.d EXCEPT !.draft[c].st = i])
           r3 == Commit(r2)
<1>0. /\ disk \in Reach(p) /\ disk \in Disk /\ Sound(disk) /\ disk.root[c] = "active"
      /\ disk.draft[c].st # "none"
  BY ReadyStart DEF QueueDraft
<1>t. [kind |-> "draft_queue", on |-> c] \in Transactions  BY DEF Transactions
<1>p. Perform(r3)  BY DEF QueueDraft
<1>1. On(r1, d1, p) /\ r1.ok
  BY <1>0, <1>t, OnStart, OnBegin
<1>a. /\ d1 \in Reach(p) /\ d1 \in Disk /\ d1.root = disk.root /\ d1.stored = disk.stored
      /\ d1.draft = disk.draft /\ r1.d = d1
  <2>1. d1 \in Reach(p)  BY <1>1, OnIsReached
  <2>2. r1.d = d1  BY <1>1 DEF On, Stands
  <2> HIDE DEF r1
  <2>3. QED  BY <1>0, <2>1, <2>2, ReachIsSound, TxnKeeps DEF SameView
<1>b. r2 = Put(r1, d2)  BY <1>a DEF WithDraft
<1> HIDE DEF d1, r1
<1>c. x \in DraftItems /\ x.re = disk.draft[c].re
  <2>1. d1.draft \in [Cases -> DraftItems]  BY <1>a, DiskFields
  <2>2. QED  BY <1>a, <2>1 DEF DraftItems
<1> HIDE DEF x
<1>d. x.re \in Messages => d1.stored[x.re] # "none"
  <2> SUFFICES ASSUME x.re \in Messages PROVE disk.stored[x.re] # "none"  BY <1>a
  <2>1. c \in DraftRepliesTo(disk, x.re)  BY <1>0, <1>c DEF DraftRepliesTo
  <2>2. QED  BY <1>0, <2>1 DEF Sound, Referenced
<1>2. On(r2, d2, p)
  <2>1. d2 \in Reach(p)  BY <1>0, <1>a, <1>c, <1>d, DraftReach
  <2> HIDE DEF d2, r2
  <2>2. QED  BY <1>1, <1>b, <2>1, OnPut
<1> HIDE DEF d2, r2
<1>3. On(r3, d3, p)  BY <1>2, OnCommit
<1> HIDE DEF d3, r3
<1>4. QED  BY <1>3, <1>p, UntouchedIsDone

LEMMA RefreshViewsIsDone ==
  ASSUME Inv, NEW p, Within(p), RefreshViews, p.touched = {}, p.done = {}, p.kinds = {"none"}
  PROVE  Done(p)
<1>1. On(Start, disk, p)  BY OnStart DEF Within
<1>2. On(RenderRefresh(Start), Viewed(disk), p)  BY <1>1, OnRender
<1>3. QED  BY <1>2, UntouchedIsDone DEF RefreshViews

-----------------------------------------------------------------------------
(* The archive of a case.                                                   *)

(* What the archive of a case leaves behind when it ends. *)
Finished(d, c) ==
  /\ (d.status[c] = "archiving") <=> HasPendingArchiveWork(d, c)
  /\ \A m \in d.items[c] : ~(ArchiveEligible(d, m, c, FALSE) /\ d.loc[m] = "inbox")

(* The workspaces the queueing of the archive goes through. *)
LEMMA QueuedPushes ==
  ASSUME NEW d \in Disk, NEW S \in SUBSET Messages, NEW c
  PROVE  LET e == Queued(d, S, c)
         IN  /\ SameView(d, e) /\ e.txn = d.txn /\ e.loc = d.loc /\ e.draft = d.draft
             /\ \A m \in S :
                  /\ m \notin Eligible(d, S, c) => e.push[m] = d.push[m]
                  /\ m \in InInbox(d, Eligible(d, S, c)) => e.push[m].act = "notification"
<1> DEFINE E == Eligible(d, S, c)
           I == InInbox(d, E)
           f == Unpushed(d, E, "case.add")
           e == Pushed(f, I, "notification")
<1>1. E \subseteq S /\ I \subseteq E  BY DEF Eligible, InInbox
<1> HIDE DEF E, I
<1>2. /\ SameView(d, f) /\ f.txn = d.txn /\ f.loc = d.loc /\ f.draft = d.draft
  BY UnpushedKeeps
<1>3. \A m \in Messages : m \notin E => f.push[m] = d.push[m]
  BY DEF Disk, Unpushed
<1>4. f \in Disk
  BY <1>1, UnpushedFields DEF MessagePushActions
<1> HIDE DEF f
<1>5. SameView(f, e) /\ e.txn = f.txn /\ e.loc = f.loc /\ e.draft = f.draft
  BY <1>4, PushedKeeps
<1>6. \A m \in Messages : /\ m \notin I => e.push[m] = f.push[m]
                          /\ m \in I => e.push[m].act = "notification"
  BY <1>4 DEF Disk, Pushed
<1> HIDE DEF e
<1>7. SameView(d, e)  BY <1>2, <1>5, SameViewIsTransitive
<1>8. QED  BY <1>1, <1>2, <1>3, <1>5, <1>6, <1>7 DEF Queued, Freed, e, f, E, I

LEMMA QueuedIsFinished ==
  ASSUME NEW d \in Disk, NEW c \in Cases
  PROVE  \A m \in d.items[c] :
           ~(ArchiveEligible(Queued(d, d.items[c], c), m, c, FALSE)
               /\ Queued(d, d.items[c], c).loc[m] = "inbox")
<1> DEFINE S == d.items[c]
           e == Queued(d, S, c)
<1>1. S \in SUBSET Messages  BY DiskFields
<1>2. /\ SameView(d, e) /\ e.loc = d.loc /\ e.draft = d.draft
      /\ \A m \in S :
           /\ m \notin Eligible(d, S, c) => e.push[m] = d.push[m]
           /\ m \in InInbox(d, Eligible(d, S, c)) => e.push[m].act = "notification"
  BY <1>1, QueuedPushes
<1> SUFFICES ASSUME NEW m \in S, ArchiveEligible(e, m, c, FALSE), e.loc[m] = "inbox"
             PROVE  FALSE
  OBVIOUS
<1> HIDE DEF e, S
<1>3. CASE m \in Eligible(d, S, c)
  <2>1. e.push[m].act = "notification"  BY <1>2, <1>3 DEF InInbox
  <2>2. QED  BY <2>1 DEF ArchiveEligible
<1>4. CASE m \notin Eligible(d, S, c)
  <2>1. e.push[m] = d.push[m]  BY <1>2, <1>4
  <2>2. ArchiveEligible(d, m, c, FALSE)
    BY <1>2, <2>1 DEF ArchiveEligible, SameView, NotificationsOf, HasArchivedReference,
       HasActiveReference, DraftRepliesTo, CasesWith
  <2>3. QED  BY <1>4, <2>2 DEF Eligible
<1>5. QED  BY <1>3, <1>4

LEMMA StatusIsFinished ==
  ASSUME NEW d \in Disk, NEW c \in Cases,
         \A m \in d.items[c] : ~(ArchiveEligible(d, m, c, FALSE) /\ d.loc[m] = "inbox")
  PROVE  LET s == IF HasPendingArchiveWork(d, c) THEN "archiving" ELSE "archived"
         IN  Finished(WithStatus(d, c, s), c)
<1> DEFINE s == IF HasPendingArchiveWork(d, c) THEN "archiving" ELSE "archived"
           e == WithStatus(d, c, s)
<1>1. /\ e.root = d.root /\ e.items = d.items /\ e.draft = d.draft /\ e.open = d.open
      /\ e.coll = d.coll /\ e.push = d.push /\ e.loc = d.loc /\ e.status[c] = s
  BY DEF Disk, WithStatus
<1>2. s = "archiving" <=> HasPendingArchiveWork(d, c)  OBVIOUS
<1> HIDE DEF e, s
<1>3. HasPendingArchiveWork(e, c) <=> HasPendingArchiveWork(d, c)
  BY <1>1 DEF HasPendingArchiveWork
<1>4. \A m : ArchiveEligible(e, m, c, FALSE) <=> ArchiveEligible(d, m, c, FALSE)
  BY <1>1 DEF ArchiveEligible, NotificationsOf, HasArchivedReference, HasActiveReference,
     DraftRepliesTo, CasesWith
<1>5. Finished(e, c)  BY <1>1, <1>2, <1>3, <1>4 DEF Finished
<1>6. QED  BY <1>5 DEF e, s

LEMMA OnComplete ==
  ASSUME NEW p, p.touched = {}, p.done = {}, NEW r, NEW d, On(r, d, p), NEW c \in Cases,
         r.ok => d.root[c] # "none"
  PROVE  \E e : /\ On(CompleteArchive(r, c), e, p)
                /\ CompleteArchive(r, c).ok => e.txn = d.txn /\ Finished(e, c)
<1>1. CASE ~r.ok
  <2>a. \A S : RefreshMessages(r, S) = r  BY <1>1 DEF RefreshMessages, Loop
  <2>b. \A S : QueueArchive(r, S, c) = r
    BY <1>1 DEF QueueArchive, QueueActionSteps, RemovePendingPush, Loop
  <2>c. \A s : SetCaseStatus(r, c, s) = r  BY <1>1 DEF SetCaseStatus, Put
  <2>1. CompleteArchive(r, c) = r
    BY <2>a, <2>b, <2>c DEF CompleteArchive
  <2>2. On(CompleteArchive(r, c), d, p) /\ ~CompleteArchive(r, c).ok  BY <1>1, <2>1
  <2>3. QED  BY <2>2
<1>2. CASE r.ok
  <2> DEFINE S == d.items[c]
             f == Shown(d, S)
             g == Queued(f, S, c)
             s == IF HasPendingArchiveWork(g, c) THEN "archiving" ELSE "archived"
             e == WithStatus(g, c, s)
             r1 == RefreshMessages(r, S)
             r2 == QueueArchive(r1, S, c)
             r3 == SetCaseStatus(r2, c, s)
  <2>1. r.d = d  BY <1>2 DEF On, Stands
  <2>2. d \in Disk /\ Sound(d)  BY <1>2, OnIsReached, ReachIsSound
  <2>3. S \in SUBSET Messages /\ \A m \in S : d.stored[m] # "none"
    BY <1>2, <2>2, CaseIsStored, DiskFields
  <2>4. f.items = d.items /\ f.txn = d.txn  BY <2>2, ShownKeeps
  <2>5. f.items[c] = S  BY <2>4
  <2>s. s \in Statuses  BY DEF Statuses
  <2>c. CompleteArchive(r, c)
          = SetCaseStatus(r2, c, IF HasPendingArchiveWork(r2.d, c) THEN "archiving" ELSE "archived")
    BY <2>1 DEF CompleteArchive
  <2> HIDE DEF S
  <2>6. On(r1, f, p)
    BY <1>2, <2>3, OnRefresh, UntouchedIsFree
  <2>7. r1.ok => f \in Disk  BY <2>6, OnIsReached, ReachIsSound
  <2> HIDE DEF f, r1
  <2>8. On(r2, g, p) /\ (r2.ok => r1.ok)
    BY <2>3, <2>6, OnArchive, UntouchedIsFree, FreeIsCalm
  <2>9. r2.ok => r2.d = g /\ g \in Disk
    BY <2>8, OnIsReached, ReachIsSound DEF On, Stands
  <2>10. CompleteArchive(r, c) = r3
    BY <2>c, <2>9 DEF SetCaseStatus, Put
  <2>11. r2.ok => /\ g.txn = d.txn
                  /\ \A m \in g.items[c] :
                       ~(ArchiveEligible(g, m, c, FALSE) /\ g.loc[m] = "inbox")
    <3> SUFFICES ASSUME r2.ok
                 PROVE  /\ g.txn = d.txn
                        /\ \A m \in g.items[c] :
                             ~(ArchiveEligible(g, m, c, FALSE) /\ g.loc[m] = "inbox")
      OBVIOUS
    <3>1. f \in Disk  BY <2>7, <2>8
    <3>2. SameView(f, g) /\ g.txn = f.txn
      BY <2>3, <3>1, QueuedPushes
    <3>3. \A m \in f.items[c] :
            ~(ArchiveEligible(Queued(f, f.items[c], c), m, c, FALSE)
                /\ Queued(f, f.items[c], c).loc[m] = "inbox")
      BY <3>1, QueuedIsFinished
    <3>4. Queued(f, f.items[c], c) = g  BY <2>5
    <3> HIDE DEF g
    <3>5. \A m \in f.items[c] : ~(ArchiveEligible(g, m, c, FALSE) /\ g.loc[m] = "inbox")
      BY <3>3, <3>4
    <3>6. QED  BY <2>4, <3>2, <3>5 DEF SameView
  <2>12. r2.ok => Finished(e, c)
    BY <2>9, <2>11, StatusIsFinished
  <2>13. r2.ok => e.txn = g.txn  BY <2>9 DEF WithStatus, Disk
  <2> HIDE DEF g, r2, s
  <2>14. On(r3, e, p) /\ r3.ok = r2.ok
    BY <2>8, <2>s, OnStatus
  <2> HIDE DEF e, r3
  <2>15. On(r3, e, p) /\ (r3.ok => e.txn = d.txn /\ Finished(e, c))
    BY <2>11, <2>12, <2>13, <2>14
  <2>16. QED  BY <2>10, <2>15
<1>3. QED  BY <1>1, <1>2

LEMMA StandsGrows ==
  ASSUME NEW G, NEW H, NEW I, NEW J, NEW r, NEW d, Stands(r, d, G, H), G \subseteq I, H \subseteq J
  PROVE  Stands(r, d, I, J)
BY DEF Stands

(* The bounds q are those of p, with fewer kinds of transaction. *)
Narrower(q, p) ==
  /\ q.from = p.from /\ (q.whole <=> p.whole) /\ q.touched = p.touched /\ q.own = p.own
  /\ q.done = p.done /\ q.cases = p.cases /\ q.kinds \subseteq p.kinds

LEMMA NarrowerReach ==
  ASSUME NEW p, NEW q, Narrower(q, p)
  PROVE  /\ \A d : d \in Reach(q) <=> d \in Reach(p) /\ d.txn.kind \in q.kinds
         /\ Restful(q) = Restful(p)
<1>1. Restful(q) = Restful(p)  BY DEF Narrower, Restful
<1>2. ASSUME NEW d, d \in Reach(q) PROVE d \in Reach(p) /\ d.txn.kind \in q.kinds
  BY <1>2 DEF Narrower, Reach
<1>3. ASSUME NEW d, d \in Reach(p), d.txn.kind \in q.kinds PROVE d \in Reach(q)
  BY <1>3 DEF Narrower, Reach
<1>4. QED  BY <1>1, <1>2, <1>3

LEMMA FinishedKeeps ==
  ASSUME NEW d \in Disk, NEW c, Finished(d, c), NEW kind, NEW on
  PROVE  Finished(WithTxn(d, kind, on), c)
<1> DEFINE e == WithTxn(d, kind, on)
<1>1. /\ e.root = d.root /\ e.items = d.items /\ e.draft = d.draft /\ e.open = d.open
      /\ e.coll = d.coll /\ e.push = d.push /\ e.loc = d.loc /\ e.status = d.status
  BY DEF Disk, WithTxn
<1> HIDE DEF e
<1>2. HasPendingArchiveWork(e, c) <=> HasPendingArchiveWork(d, c)
  BY <1>1 DEF HasPendingArchiveWork
<1>3. \A m : ArchiveEligible(e, m, c, FALSE) <=> ArchiveEligible(d, m, c, FALSE)
  BY <1>1 DEF ArchiveEligible, NotificationsOf, HasArchivedReference, HasActiveReference,
     DraftRepliesTo, CasesWith
<1>4. Finished(e, c)  BY <1>1, <1>2, <1>3 DEF Finished
<1>5. QED  BY <1>4 DEF e

LEMMA ArchiveEnds ==
  ASSUME Inv, NEW p, Within(p), p.touched = {}, p.done = {}, p.kinds = {"none", "case_archive"},
         NEW q, Narrower(q, p), q.kinds = {"case_archive"},
         NEW c \in Cases, NEW r, NEW d, On(r, d, q), r.ok => d.root[c] # "none",
         Perform(Commit(CompleteArchive(r, c)))
  PROVE  Done(p) /\ (disk'.txn # NoTxn \/ Finished(disk', c))
<1>1. PICK e : /\ On(CompleteArchive(r, c), e, q)
               /\ CompleteArchive(r, c).ok => e.txn = d.txn /\ Finished(e, c)
  <2>1. q.touched = {} /\ q.done = {}  BY DEF Narrower
  <2>2. QED  BY <2>1, OnComplete
<1> DEFINE f == WithTxn(e, "none", None)
           G == {x \in Reach(p) : x.txn.kind = "case_archive" \/ Finished(x, c)}
           H == Restful(p)
           s == CompleteArchive(r, c)
<1> HIDE DEF s
<1>2. Stands(s, e, G, H)
  <2>1. Reach(q) \subseteq G /\ Restful(q) \subseteq H  BY NarrowerReach
  <2>2. Stands(s, e, Reach(q), Restful(q))  BY <1>1 DEF On, s
  <2> HIDE DEF G, H
  <2>3. QED  BY <2>1, <2>2, StandsGrows
<1>3. s.ok => f \in G /\ f \in H
  <2> SUFFICES ASSUME s.ok PROVE f \in G /\ f \in H  OBVIOUS
  <2>1. e \in Reach(q) /\ Finished(e, c)  BY <1>1, OnIsReached DEF s
  <2>2. e \in Reach(p)  BY <2>1, NarrowerReach
  <2>3. e \in Disk  BY <2>2, ReachIsSound
  <2>4. Finished(f, c)  BY <2>1, <2>3, FinishedKeeps
  <2>5. [kind |-> "none", on |-> None] \in Transactions  BY DEF Transactions, NoTxn
  <2>6. f \in Reach(p)  BY <2>2, <2>5, TxnReach
  <2> HIDE DEF f
  <2>7. QED  BY <2>4, <2>6, UntouchedIsRestful
<1>4. G \subseteq Reach(p)  OBVIOUS
<1>g. \A x \in G : x.txn # NoTxn \/ Finished(x, c)  BY DEF NoTxn
<1> HIDE DEF f, G
<1>5. Stands(Commit(s), f, G, H) /\ Commit(s).ok = s.ok
  BY <1>2, <1>3, CommitStands DEF f
<1>6. On(Commit(s), f, p)
  BY <1>4, <1>5, StandsGrows DEF On, H
<1> HIDE DEF H
<1>7. Done(p)
  BY <1>3, <1>5, <1>6, PerformIsDone DEF s, H
<1>8. disk' \in G
  <2>1. crashes \in Nat  BY CaseStoreAssumption DEF Inv, TypeOK
  <2>2. Perform(Commit(s))  BY DEF s
  <2>3. Commit(s).ok => f \in H  BY <1>3, <1>5
  <2>4. QED  BY <1>5, <2>1, <2>2, <2>3, PerformEnds
<1>9. QED  BY <1>7, <1>8, <1>g

LEMMA ArchiveCaseEnds ==
  ASSUME Inv, NEW p, Within(p), p.touched = {}, p.done = {}, p.kinds = {"none", "case_archive"},
         NEW c \in Cases, p.cases = {c}, NEW q, Narrower(q, p), q.kinds = {"case_archive"},
         ArchiveCase(c)
  PROVE  Done(p) /\ (disk'.txn # NoTxn \/ Finished(disk', c))
<1> DEFINE d1 == WithTxn(disk, "case_archive", c)
           d2 == WithRoot(d1, c, "archived")
           d3 == WithStatus(d2, c, "archived")
           r1 == BeginTransaction(Start, "case_archive", c)
           r2 == MoveCase(r1, c, "archived")
           r3 == SetCaseStatus(r2, c, "archived")
<1>0. /\ disk \in Reach(p) /\ disk \in Disk /\ disk.root[c] = "active"
  BY ReadyStart DEF ArchiveCase, ResolveActiveCase
<1>t. [kind |-> "case_archive", on |-> c] \in Transactions  BY DEF Transactions
<1>p. Perform(Commit(CompleteArchive(r3, c)))
  BY DEF ArchiveCase, MoveActiveCaseWorkspace
<1>s. "archived" \in Statuses /\ "archived" \in Roots  BY DEF Statuses, Roots
<1>1. On(r1, d1, q) /\ r1.ok
  <2>1. d1 \in Reach(p)  BY <1>0, <1>t, TxnReach
  <2>2. d1.txn.kind = "case_archive"  BY <1>0, TxnKeeps
  <2>3. d1 \in Reach(q)  BY <2>1, <2>2, NarrowerReach
  <2>4. r1 = [w |-> {d1}, d |-> d1, ends |-> {d1}, ok |-> TRUE]
    BY DEF BeginTransaction, Put, Start, From, WithTxn
  <2> HIDE DEF d1, r1
  <2>5. QED  BY <2>3, <2>4 DEF On, Stands
<1>a. d1 \in Disk /\ d1.root = disk.root
  BY <1>0, <1>1, OnIsReached, ReachIsSound, TxnKeeps DEF SameView
<1> HIDE DEF d1, r1
<1>2. On(r2, d2, q) /\ r2.ok
  <2> DEFINE to == "archived"
  <2>1. to \in Roots /\ to # "none" /\ c \in q.cases  BY <1>s DEF Narrower
  <2>2. d1.root[c] # "none" /\ d1 \in Reach(q)  BY <1>1, <1>a, <1>0, OnIsReached
  <2> HIDE DEF to
  <2>3. WithRoot(d1, c, to) \in Reach(q)  BY <2>1, <2>2, RootReach
  <2>4. On(MoveCase(r1, c, to), WithRoot(d1, c, to), q) /\ MoveCase(r1, c, to).ok = r1.ok
    <3> DEFINE G == Reach(q)
               H == Restful(q)
    <3>1. Stands(r1, d1, G, H)  BY <1>1 DEF On
    <3>2. WithRoot(d1, c, to) \in G  BY <2>3
    <3> HIDE DEF G, H
    <3>3. Stands(MoveCase(r1, c, to), WithRoot(d1, c, to), G, H)
          /\ MoveCase(r1, c, to).ok = r1.ok
      BY <3>1, <3>2, MoveCaseStands
    <3>4. QED  BY <3>3 DEF On, G, H
  <2>5. QED  BY <1>1, <2>4 DEF to
<1>b. d2.root[c] = "archived"  BY <1>a DEF WithRoot, Disk
<1>c. d2 \in Disk  BY <1>2, OnIsReached, ReachIsSound
<1> HIDE DEF d2, r2
<1>3. On(r3, d3, q) /\ r3.ok
  BY <1>2, <1>s, OnStatus
<1>d. d3.root[c] # "none"  BY <1>b, <1>c DEF WithStatus, Disk
<1> HIDE DEF d3, r3
<1>4. QED  BY <1>3, <1>d, <1>p, ArchiveEnds

LEMMA DoctorRepairEnds ==
  ASSUME Inv, NEW p, Within(p), p.touched = {}, p.done = {}, p.kinds = {"none", "case_archive"},
         NEW q, Narrower(q, p), q.kinds = {"case_archive"}, DoctorRepair
  PROVE  Done(p) /\ (\/ disk'.txn # NoTxn \/ Finished(disk', disk.txn.on)
                     \/ disk'.root[disk.txn.on] = "active")
<1> DEFINE c == disk.txn.on
           r1 == SetCaseStatus(Start, c, "archived")
           d1 == WithStatus(disk, c, "archived")
<1>0. disk \in Reach(p) /\ disk \in Disk /\ disk.txn.kind = "case_archive"
      /\ disk.root[c] # "none"
  BY ReachIsSound DEF Within, DoctorRepair, Repairable
<1>1. c \in Cases
  BY <1>0, DiskFields DEF Transactions, NoTxn
<1>p. Perform(Commit(RecoverCaseArchive(Start, c)))  BY DEF DoctorRepair
<1>s. "archived" \in Statuses  BY DEF Statuses
<1>2. disk \in Reach(q)  BY <1>0, NarrowerReach
<1> HIDE DEF c
<1>3. CASE disk.root[c] = "active"
  <2> DEFINE e == WithTxn(disk, "none", None)
  <2>1. On(Start, disk, p) /\ Start.ok  BY <1>0, OnStart
  <2>2. RecoverCaseArchive(Start, c) = Start
    BY <1>3 DEF RecoverCaseArchive, Start, From
  <2>3. On(Commit(Start), e, p)  BY <2>1, OnCommit
  <2>4. Done(p)  BY <1>p, <2>2, <2>3, UntouchedIsDone
  <2>5. disk' = e
    <3>1. Commit(Start).w = {e}  BY DEF Commit, Put, Start, From, WithTxn, NoTxn
    <3>2. disk' \in Commit(Start).w  BY <1>p, <2>2 DEF Perform
    <3>3. QED  BY <3>1, <3>2
  <2>6. disk'.root[c] = "active"  BY <2>5, <1>0, <1>3, TxnKeeps DEF SameView
  <2>7. QED  BY <2>4, <2>6 DEF c
<1>4. CASE disk.root[c] # "active"
  <2>1. RecoverCaseArchive(Start, c) = CompleteArchive(r1, c)
    BY <1>4 DEF RecoverCaseArchive, Start, From
  <2>2. On(r1, d1, q)
    BY <1>1, <1>2, <1>s, OnStart, OnStatus
  <2>3. d1.root[c] # "none"  BY <1>0 DEF WithStatus, Disk
  <2> HIDE DEF d1, r1
  <2>4. QED  BY <1>1, <1>p, <2>1, <2>2, <2>3, ArchiveEnds DEF c
<1>5. QED  BY <1>3, <1>4

-----------------------------------------------------------------------------
(* The commands that push.                                                  *)

LEMMA OnReconcile ==
  ASSUME NEW p, disk \in Reach(p)
  PROVE  On(Reconcile(Start), Reconciled(disk), p) /\ Reconcile(Start).ok
<1>1. Reconcile(Start) = Put(Start, Reconciled(disk))
  BY DEF Reconcile, Reconciled, Put, Start, From
<1>2. Reconciled(disk) \in Reach(p)  BY ReconciledReach
<1>3. QED  BY <1>1, <1>2, OnStart, OnPut

LEMMA OnAttempted ==
  ASSUME NEW p, disk \in Reach(p), Sound(disk), p.touched = {}, NEW m \in Messages, CanPush(m)
  PROVE  On(Attempted(m), Begun(Reconciled(disk), m), p)
<1> DEFINE d1 == Reconciled(disk)
           d2 == Begun(d1, m)
           r1 == Reconcile(Start)
           r2 == Unless(r1, ~MayExecute(d1, m))
<1>0. disk \in Disk  BY ReachIsSound
<1>1. On(r1, d1, p) /\ r1.ok  BY OnReconcile
<1>a. r1.d = d1  BY <1>1 DEF On, Stands
<1>b. d1.push[m].act # "none"
  <2>1. disk.push[m].act # "none" /\ (disk.push[m].started \/ HasPlan(disk, m))
    BY DEF CanPush
  <2>2. d1.push = [j \in Messages |-> IF disk.push[j].started \/ HasPlan(disk, j)
                                      THEN disk.push[j] ELSE NoPush]
    BY <1>0 DEF Disk, Reconciled
  <2>3. QED  BY <2>1, <2>2
<1>c. Attempted(m) = Put(r2, d2)
  BY <1>a DEF Attempted, Begun
<1> HIDE DEF d1, r1
<1>2. On(r2, d1, p)
  <2>1. d1 \in Restful(p)  BY <1>1, OnIsReached, UntouchedIsRestful
  <2>2. (~MayExecute(d1, m)) \in BOOLEAN  OBVIOUS
  <2>3. QED  BY <1>1, <2>1, <2>2, UnlessStands DEF On
<1>3. d2 \in Reach(p)
  BY <1>1, <1>b, OnIsReached, BegunReach
<1> HIDE DEF d2, r2
<1>4. On(Put(r2, d2), d2, p)  BY <1>2, <1>3, OnPut
<1>5. QED  BY <1>4, <1>c DEF d1, d2

LEMMA PushFailsIsDone ==
  ASSUME Inv, NEW p, Within(p), NEW m \in Messages, PushFails(m),
         p.touched = {}, p.done = {}, p.kinds = {"none"}
  PROVE  Done(p)
<1> DEFINE d1 == Begun(Reconciled(disk), m)
           r1 == Attempted(m)
<1>0. CanPush(m) /\ disk \in Reach(p) /\ Sound(disk) /\ Perform(RefreshDispositionViews(r1))
  BY ReadyStart DEF PushFails, CanPush
<1>1. On(r1, d1, p)  BY <1>0, OnAttempted
<1>2. r1.ok => d1 \in Restful(p)  BY <1>1, OnIsReached, UntouchedIsRestful
<1> HIDE DEF d1, r1
<1>3. On(RefreshDispositionViews(r1), d1, p)  BY <1>1, <1>2, OnViews
<1>4. QED  BY <1>0, <1>3, UntouchedIsDone

LEMMA PushSkipsIsDone ==
  ASSUME Inv, NEW p, Within(p), PushSkips, p.touched = {}, p.done = {}, p.kinds = {"none"}
  PROVE  Done(p)
<1>1. disk \in Reach(p) /\ Perform(Reconcile(Start))  BY DEF Within, PushSkips
<1>2. On(Reconcile(Start), Reconciled(disk), p)  BY <1>1, OnReconcile
<1>3. QED  BY <1>1, <1>2, UntouchedIsDone

LEMMA PushMessageIsDone ==
  ASSUME Inv, NEW p, Within(p), NEW m \in Messages, PushMessage(m),
         p.touched = {}, p.done = {m}, p.kinds = {"none"}
  PROVE  Done(p)
<1> DEFINE M == {m}
           d1 == Begun(Reconciled(disk), m)
           box == MovedTo(d1, m)
           d2 == WithLoc(d1, m, box)
           d3 == Gone(d2, m)
           d4 == Shown(d3, M)
           d5 == Ended(d4, Over(d4))
           r1 == Attempted(m)
           r2 == Put(r1, [r1.d EXCEPT !.loc[m] = MovedTo(r1.d, m)])
           r3 == Put(r2, [r2.d EXCEPT !.push[m] = NoPush])
           r4 == RefreshMessages(r3, M)
           r5 == RefreshDispositionViews(r4)
           r6 == FinalizeArchiving(r5)
<1>0. /\ CanPush(m) /\ disk \in Reach(p) /\ disk \in Disk /\ Sound(disk)
      /\ disk.push[m].act # "none" /\ disk.stored[m] # "none"
  <2>1. CanPush(m) /\ disk \in Reach(p) /\ disk \in Disk /\ Sound(disk)
        /\ disk.push[m].act # "none"
    BY ReadyStart DEF PushMessage, CanPush
  <2>2. QED  BY <2>1, ReferencedIsStored
<1>p. Perform(r6)  BY DEF PushMessage
<1>m. M \in SUBSET Messages /\ \A j \in M : j = m  OBVIOUS
<1>1. On(r1, d1, p)  BY <1>0, OnAttempted
<1>a. r1.ok => r1.d = d1 /\ d1 \in Disk /\ d1 \in Reach(p)
  BY <1>1, OnIsReached, ReachIsSound DEF On, Stands
<1>b. d1.stored = disk.stored
  BY <1>0 DEF Begun, Reconciled, Disk
<1> HIDE DEF d1, r1, M
<1>2. On(r2, d2, p) /\ r2.ok = r1.ok
  <2>1. CASE r1.ok
    <3>1. box \in Mailboxes
      <4>1. d1.loc[m] \in Mailboxes  BY <2>1, <1>a, DiskFields
      <4>2. QED  BY <4>1 DEF MovedTo, Mailboxes
    <3>2. r2 = Put(r1, d2)  BY <2>1, <1>a DEF WithLoc
    <3> HIDE DEF box
    <3>3. d2 \in Reach(p)  BY <2>1, <1>a, <3>1, LocReach
    <3> HIDE DEF d2, r2
    <3>4. QED  BY <1>1, <3>2, <3>3, OnPut
  <2>2. CASE ~r1.ok
    BY <1>1, <2>2 DEF Put, On, Stands
  <2>3. QED  BY <2>1, <2>2 DEF On, Stands
<1>c. r2.ok => r2.d = d2 /\ d2 \in Disk /\ d2 \in Reach(p)
  BY <1>2, OnIsReached, ReachIsSound DEF On, Stands
<1>d. r2.ok => d2.stored = disk.stored
  BY <1>a, <1>b, <1>2 DEF WithLoc, Disk
<1> HIDE DEF d2, r2, box
<1>3. On(r3, d3, p) /\ r3.ok = r2.ok
  <2>1. CASE r2.ok
    <3>1. r3 = Put(r2, d3)  BY <2>1, <1>c DEF Gone
    <3>2. d3 \in Reach(p)  BY <2>1, <1>c, GoneReach
    <3> HIDE DEF d3, r3
    <3>3. QED  BY <1>2, <3>1, <3>2, OnPut
  <2>2. CASE ~r2.ok
    BY <1>2, <2>2 DEF Put, On, Stands
  <2>3. QED  BY <2>1, <2>2, <1>2 DEF On, Stands
<1>e. r3.ok => d3.stored = disk.stored
  BY <1>c, <1>d, <1>3 DEF Gone, Disk
<1> HIDE DEF d3, r3
<1>4. On(r4, d4, p)
  BY <1>3, <1>e, <1>0, <1>m, OnRefresh, UntouchedIsFree
<1>f. r4.ok => d4 \in Restful(p)  BY <1>4, OnIsReached, UntouchedIsRestful
<1> HIDE DEF d4, r4
<1>5. On(r5, d4, p)  BY <1>4, <1>f, OnViews
<1> HIDE DEF r5
<1>6. On(r6, d5, p)  BY <1>5, OnFinalize
<1> HIDE DEF d5, r6
<1>7. QED  BY <1>6, <1>p, UntouchedIsDone

LEMMA PushDraftIsDone ==
  ASSUME Inv, NEW p, Within(p), NEW c \in Cases, PushDraft(c),
         p.touched = {}, p.done = {}, p.kinds = {"none"}
  PROVE  Done(p)
<1> DEFINE d1 == Reconciled(disk)
           d2 == WithDraft(d1, c, NoDraft)
           d3 == Ended(d2, Over(d2))
           r1 == Reconcile(Start)
           r2 == Put(r1, [r1.d EXCEPT !.draft[c] = NoDraft])
           r3 == FinalizeArchiving(r2)
<1>0. disk \in Reach(p) /\ disk \in Disk /\ disk.root[c] # "none" /\ Perform(r3)
  BY ReadyStart DEF PushDraft
<1>1. On(r1, d1, p) /\ r1.ok  BY <1>0, OnReconcile
<1>a. r1.d = d1 /\ d1 \in Reach(p)  BY <1>1, OnIsReached DEF On, Stands
<1>b. d1.root = disk.root  BY <1>0 DEF Reconciled, Disk
<1> HIDE DEF d1, r1
<1>2. On(r2, d2, p)
  <2> DEFINE x == NoDraft
  <2>1. x \in DraftItems /\ (x.re \in Messages => d1.stored[x.re] # "none")
    BY CaseStoreAssumption DEF DraftItems, NoDraft
  <2>2. r2 = Put(r1, WithDraft(d1, c, x))  BY <1>a DEF WithDraft
  <2> HIDE DEF x
  <2>3. WithDraft(d1, c, x) \in Reach(p)  BY <1>0, <1>a, <1>b, <2>1, DraftReach
  <2>4. On(Put(r1, WithDraft(d1, c, x)), WithDraft(d1, c, x), p)  BY <1>1, <2>3, OnPut
  <2>5. QED  BY <2>2, <2>4 DEF x
<1> HIDE DEF d2, r2
<1>3. On(r3, d3, p)  BY <1>2, OnFinalize
<1> HIDE DEF d3, r3
<1>4. QED  BY <1>0, <1>3, UntouchedIsDone

-----------------------------------------------------------------------------
(* The commands on single messages.                                         *)

LEMMA DispositionFields ==
  ASSUME NEW k \in {"spam", "trashed"}
  PROVE  /\ k \in Dispositions
         /\ PushOf(k) \in MessagePushActions /\ PushOf(k) # "none"
         /\ UndoOf(k) \in MessagePushActions /\ UndoOf(k) # "none"
BY DEF Dispositions, PushOf, UndoOf, MessagePushActions

LEMMA RenderIsDone ==
  ASSUME Inv, NEW p, Within(p), NEW r, NEW d, On(r, d, p), Perform(RenderRefresh(r)),
         p.whole => \A m \in p.touched : m \in Messages
                      /\ (DispositionsOf(d, m) # {} => CasesWith(d, m) = {})
  PROVE  Done(p)
<1>1. /\ On(RenderRefresh(r), Viewed(d), p)
      /\ RenderRefresh(r).ok => Viewed(d) \in Restful(p)
  BY OnRender
<1>2. QED  BY <1>1, PerformIsDone

LEMMA UnmarkIsDone ==
  ASSUME Inv, NEW p, Within(p), NEW m \in Messages, NEW k \in {"spam", "trashed"},
         UnmarkDiscarded(m, k),
         p.touched = {m}, p.done = {}, p.kinds = {"none", "message_undo"}
  PROVE  Done(p)
<1> DEFINE M == {m}
           U == {j \in M : disk.loc[j] = MailboxOf(k)}
           a == PushOf(k)
           b == UndoOf(k)
           d1 == WithTxn(disk, "message_undo", m)
           d2 == Unpushed(d1, M, a)
           d3 == Pushed(d2, U, b)
           d4 == Cleared(d3, {<<k, m>>})
           d5 == Shown(d4, M)
           d6 == WithTxn(d5, "none", None)
           r1 == BeginTransaction(Start, "message_undo", m)
           r2 == RemovePendingPush(r1, M, a)
           r3 == QueueActionSteps(r2, U, b)
           r4 == ClearDisposition(r3, k, m)
           r5 == RefreshMessages(r4, M)
           r6 == RefreshDispositionViews(r5)
           r7 == Commit(r6)
<1>0. /\ disk \in Reach(p) /\ disk \in Disk /\ Sound(disk) /\ disk.stored[m] # "none"
      /\ disk.txn.kind = "none"
  BY ReadyStart DEF UnmarkDiscarded, Readable
<1>t. [kind |-> "message_undo", on |-> m] \in Transactions  BY DEF Transactions
<1>p. Perform(r7)  BY DEF UnmarkDiscarded
<1>m. /\ M \in SUBSET Messages /\ U \in SUBSET Messages /\ m \in M /\ p.touched = M
      /\ \A j \in M : j = m
      /\ \A j \in U : j = m
  OBVIOUS
<1>k. a \in MessagePushActions /\ b \in MessagePushActions /\ b # "none"
  BY DispositionFields
<1> HIDE DEF M, U, a, b
<1>1. On(r1, d1, p) /\ r1.ok
  BY <1>0, <1>t, OnStart, OnBegin
<1>a. d1 \in Disk /\ d1.txn.kind = "message_undo" /\ SameView(disk, d1)
  BY <1>0, <1>1, OnIsReached, ReachIsSound, TxnKeeps
<1> HIDE DEF d1, r1
<1>2. On(r2, d2, p)
  BY <1>1, <1>a, <1>m, <1>k, OnUnpush, OpenIsFree, FreeIsCalm
<1>b. d2.txn = d1.txn /\ SameView(d1, d2)
  BY <1>a, UnpushedKeeps
<1>c. r2.ok => d2 \in Disk  BY <1>2, OnIsReached, ReachIsSound
<1>s. d2.stored[m] # "none"  BY <1>0, <1>a, <1>b DEF SameView
<1> HIDE DEF d2, r2
<1>3. On(r3, d3, p) /\ (r3.ok => r2.ok)
  <2>1. Calm(p, d2)  BY <1>a, <1>b, OpenIsFree, FreeIsCalm
  <2>2. \A j \in U : d2.stored[j] # "none"  BY <1>s, <1>m
  <2>3. QED  BY <1>2, <1>k, <1>m, <2>1, <2>2, OnQueue
<1>d. r2.ok => d3.txn = d2.txn /\ SameView(d2, d3)
  BY <1>c, PushedKeeps
<1>e. r3.ok => d3 \in Disk  BY <1>3, OnIsReached, ReachIsSound
<1> HIDE DEF d3, r3
<1>4. On(r4, d4, p) /\ r4.ok = r3.ok
  BY <1>3, <1>m, OnClear
<1>f. r3.ok => /\ d4.txn = d3.txn /\ d4.stored = d3.stored /\ d4.root = d3.root
               /\ d4.items = d3.items
               /\ DispositionsOf(d4, m) \subseteq DispositionsOf(d3, m)
  BY <1>e DEF Cleared, Disk, DispositionsOf
<1>g. r4.ok => d4 \in Disk  BY <1>4, OnIsReached, ReachIsSound
<1> HIDE DEF d4, r4
<1>o. r4.ok => d4.txn.kind = "message_undo" /\ d4.stored[m] # "none"
  BY <1>a, <1>b, <1>d, <1>f, <1>s, <1>3, <1>4 DEF SameView
<1>5. On(r5, d5, p) /\ (r5.ok => r4.ok)
  BY <1>4, <1>o, <1>m, OnRefresh, OpenIsFree
<1>w. r5.ok /\ p.whole => WholeAt(d5, m)
  <2> SUFFICES ASSUME r5.ok, p.whole PROVE WholeAt(d5, m)  OBVIOUS
  <2>1. r2.ok /\ r3.ok /\ r4.ok  BY <1>3, <1>4, <1>5
  <2>2. SameView(disk, d3)
    BY <2>1, <1>a, <1>b, <1>d, SameViewIsTransitive
  <2>3. DispositionsOf(disk, m) # {} => CasesWith(disk, m) = {}
    BY <1>0, StartIsWhole DEF Whole
  <2>4. DispositionsOf(d4, m) # {} => CasesWith(d4, m) = {}
    BY <2>1, <2>2, <2>3, <1>f DEF SameView, DispositionsOf, CasesWith
  <2>5. d4 \in Disk /\ d4.stored[m] # "none"  BY <2>1, <1>g, <1>o
  <2>6. QED  BY <2>4, <2>5, <1>m, ShownIsWhole
<1>h. r5.ok => d5 \in Disk /\ d5 \in Reach(p) /\ d5.txn.kind = "message_undo"
  BY <1>5, <1>g, <1>o, OnIsReached, ReachIsSound, ShownKeeps
<1> HIDE DEF d5, r5
<1>6. On(r6, d5, p) /\ (r6.ok => r5.ok)
  BY <1>5, <1>h, OpenIsRestful, OnViews
<1> HIDE DEF r6
<1>7. On(r7, d6, p) /\ r7.ok = r6.ok
  BY <1>6, OnCommit
<1>i. r7.ok => SameView(d5, d6)  BY <1>6, <1>7, <1>h, TxnKeeps
<1> HIDE DEF d6, r7
<1>8. r7.ok /\ p.whole => \A j \in p.touched : WholeAt(d6, j)
  BY <1>6, <1>7, <1>w, <1>i, <1>m, SameViewIsWhole
<1>9. r7.ok => d6 \in Restful(p)
  BY <1>7, <1>8, OnIsReached, ReachIsRestful
<1>10. QED  BY <1>7, <1>9, <1>p, PerformIsDone

LEMMA DiscardedIsWhole ==
  ASSUME NEW d \in Disk, NEW k \in Dispositions, NEW T \in SUBSET Messages, NEW m \in T,
         CasesWith(d, m) = {}
  PROVE  WholeAt(Discarded(d, k, T), m)
<1> DEFINE e == Discarded(d, k, T)
<1>1. /\ e.disp[k] = d.disp[k] \cup T /\ e.triage = d.triage \ T
      /\ e.root = d.root /\ e.items = d.items
  BY DiscardedFields
<1> HIDE DEF e
<1>2. k \in DispositionsOf(e, m)  BY <1>1 DEF DispositionsOf
<1>3. CasesWith(e, m) = {} /\ m \notin e.triage  BY <1>1 DEF CasesWith
<1>4. WholeAt(e, m)  BY <1>2, <1>3 DEF WholeAt, TriageCandidate
<1>5. QED  BY <1>4 DEF e

LEMMA DiscardIsDone ==
  ASSUME Inv, NEW p, Within(p), NEW m \in Messages, NEW k \in {"spam", "trashed"}, Discard(m, k),
         p.touched = {m}, p.own = {m}, p.done = {}, p.kinds = {"none", "message_discard"}
  PROVE  Done(p)
<1> DEFINE M == {m}
           Q == {j \in M : disk.loc[j] \notin {"gone", MailboxOf(k)}}
           others == {"spam", "trash", "unspam", "untrash"} \ {PushOf(k)}
           act == disk.push[m].act
           a == PushOf(k)
           d1 == WithTxn(disk, "message_discard", m)
           d2 == IF act \in others THEN Unpushed(d1, M, act) ELSE d1
           d3 == Pushed(d2, Q, a)
           d4 == Discarded(d3, k, M)
           d5 == WithTxn(d4, "none", None)
           r1 == BeginTransaction(Start, "message_discard", m)
           r2 == IF act \in others THEN RemovePendingPushes(r1, M, act) ELSE r1
           r3 == QueueActionSteps(r2, Q, a)
           r4 == UpdateMessages(r3, k, M)
           r5 == RefreshDispositionViews(r4)
           r6 == Commit(r5)
<1>0. /\ disk \in Reach(p) /\ disk \in Disk /\ Sound(disk) /\ disk.stored[m] # "none"
      /\ CasesWith(disk, m) = {} /\ NotificationsOf(disk, m) = {}
  BY ReadyStart DEF Discard, Readable, Referenced
<1>t. [kind |-> "message_discard", on |-> m] \in Transactions  BY DEF Transactions
<1>p. Perform(r6)  BY DEF Discard
<1>m. /\ M \in SUBSET Messages /\ Q \in SUBSET Messages /\ m \in M
      /\ p.touched = M /\ p.own = M
      /\ \A j \in M : j = m
      /\ \A j \in Q : j = m
  OBVIOUS
<1>k. /\ a \in MessagePushActions /\ a # "none" /\ k \in Dispositions
      /\ act \in MessagePushActions
  BY <1>0, DispositionFields, DiskFields
<1> HIDE DEF M, Q, a, act, others
<1>1. On(r1, d1, p) /\ r1.ok
  BY <1>0, <1>t, OnStart, OnBegin
<1>a. d1 \in Disk /\ d1.txn.kind = "message_discard" /\ SameView(disk, d1)
  BY <1>0, <1>1, OnIsReached, ReachIsSound, TxnKeeps
<1> HIDE DEF d1, r1
<1>2. On(r2, d2, p)
  <2>1. Calm(p, d1)  BY <1>a, OpenIsFree, FreeIsCalm
  <2>2. On(RemovePendingPushes(r1, M, act), Unpushed(d1, M, act), p)
    BY <1>1, <1>m, <1>k, <2>1, OnUnpushAll
  <2>3. QED  BY <1>1, <2>2
<1>b. d2.txn = d1.txn /\ SameView(d1, d2)
  BY <1>a, UnpushedKeeps DEF SameView
<1>c. r2.ok => d2 \in Disk  BY <1>2, OnIsReached, ReachIsSound
<1>s. d2.stored[m] # "none"  BY <1>0, <1>a, <1>b DEF SameView
<1> HIDE DEF d2, r2
<1>3. On(r3, d3, p) /\ (r3.ok => r2.ok)
  <2>1. Calm(p, d2)  BY <1>a, <1>b, OpenIsFree, FreeIsCalm
  <2>2. \A j \in Q : d2.stored[j] # "none"  BY <1>s, <1>m
  <2>3. QED  BY <1>2, <1>k, <1>m, <2>1, <2>2, OnQueue
<1>d. r2.ok => d3.txn = d2.txn /\ SameView(d2, d3)
  BY <1>c, PushedKeeps
<1>e. r3.ok => d3 \in Disk  BY <1>3, OnIsReached, ReachIsSound
<1>f. r3.ok => /\ d3.txn.kind = "message_discard"
               /\ CasesWith(d3, m) = {} /\ NotificationsOf(d3, m) = {}
  <2> SUFFICES ASSUME r3.ok
               PROVE  /\ d3.txn.kind = "message_discard"
                      /\ CasesWith(d3, m) = {} /\ NotificationsOf(d3, m) = {}
    OBVIOUS
  <2>1. SameView(disk, d3)  BY <1>3, <1>a, <1>b, <1>d, SameViewIsTransitive
  <2>2. QED  BY <2>1, <1>0, <1>a, <1>b, <1>d, <1>3 DEF SameView, CasesWith, NotificationsOf
<1> HIDE DEF d3, r3
<1>4. On(r4, d4, p) /\ r4.ok = r3.ok
  BY <1>3, <1>f, <1>k, <1>m, OnUpdate
<1>w. r4.ok => WholeAt(d4, m)
  BY <1>4, <1>e, <1>f, <1>k, <1>m, DiscardedIsWhole
<1>h. r4.ok => d4 \in Disk /\ d4 \in Reach(p) /\ d4.txn.kind = "message_discard"
  <2>1. r4.ok => d4.txn = d3.txn  BY <1>4, <1>e, <1>k, <1>m, DiscardedFields
  <2>2. QED  BY <1>4, <1>f, <2>1, OnIsReached, ReachIsSound
<1> HIDE DEF d4, r4
<1>5. On(r5, d4, p) /\ (r5.ok => r4.ok)
  BY <1>4, <1>h, OpenIsRestful, OnViews
<1> HIDE DEF r5
<1>6. On(r6, d5, p) /\ r6.ok = r5.ok
  BY <1>5, OnCommit
<1>i. r6.ok => SameView(d4, d5)  BY <1>5, <1>6, <1>h, TxnKeeps
<1> HIDE DEF d5, r6
<1>7. r6.ok => \A j \in p.touched : WholeAt(d5, j)
  BY <1>5, <1>6, <1>w, <1>i, <1>m, SameViewIsWhole
<1>8. r6.ok => d5 \in Restful(p)
  BY <1>6, <1>7, OnIsReached, ReachIsRestful
<1>9. QED  BY <1>6, <1>8, <1>p, PerformIsDone

LEMMA TrashCaseIsDone ==
  ASSUME Inv, NEW p, Within(p), NEW c \in Cases, TrashCase(c),
         p.touched = disk.items[c], p.own = disk.items[c], p.done = {},
         p.kinds = {"none", "case_trash"}
  PROVE  Done(p)
<1> DEFINE M == disk.items[c]
           Q == {j \in M : disk.loc[j] # "gone"}
           a == "trash"
           k == "trashed"
           d1 == WithTxn(disk, "case_trash", c)
           d2 == Pushed(d1, Q, a)
           d3 == Discarded(d2, k, M)
           d4 == Dropped(d3, c)
           d5 == Shown(d4, M)
           d6 == WithTxn(d5, "none", None)
           r1 == BeginTransaction(Start, "case_trash", c)
           r2 == QueueActionSteps(r1, Q, a)
           r3 == UpdateMessages(r2, k, M)
           r4 == RemoveCaseDir(r3, c)
           r5 == RefreshMessages(r4, M)
           r6 == RefreshDispositionViews(r5)
           r7 == Commit(r6)
<1>0. /\ disk \in Reach(p) /\ disk \in Disk /\ Sound(disk) /\ disk.root[c] # "none"
      /\ \A j \in M : CasesWith(disk, j) = {c} /\ NotificationsOf(disk, j) = {}
  BY ReadyStart DEF TrashCase, ResolveCaseAny, CaseMessagesUnreferenced
<1>t. [kind |-> "case_trash", on |-> c] \in Transactions  BY DEF Transactions
<1>p. Perform(r7)  BY DEF TrashCase
<1>m. /\ M \in SUBSET Messages /\ Q \in SUBSET Messages /\ Q \subseteq M
      /\ p.touched = M /\ p.own = M
      /\ \A j \in M : disk.stored[j] # "none"
  BY <1>0, DiskFields, CaseIsStored
<1>k. a \in MessagePushActions /\ a # "none" /\ k \in Dispositions
  BY DEF MessagePushActions, Dispositions
<1>i. M = disk.items[c]  OBVIOUS
<1> HIDE DEF M, Q, a, k
<1>1. On(r1, d1, p) /\ r1.ok
  BY <1>0, <1>t, OnStart, OnBegin
<1>a. d1 \in Disk /\ d1.txn.kind = "case_trash" /\ SameView(disk, d1)
  BY <1>0, <1>1, OnIsReached, ReachIsSound, TxnKeeps
<1> HIDE DEF d1, r1
<1>2. On(r2, d2, p)
  <2>1. Calm(p, d1)  BY <1>a, OpenIsFree, FreeIsCalm
  <2>2. \A j \in Q : d1.stored[j] # "none"  BY <1>a, <1>m DEF SameView
  <2>3. QED  BY <1>1, <1>k, <1>m, <2>1, <2>2, OnQueue
<1>b. d2.txn = d1.txn /\ SameView(d1, d2)
  BY <1>a, PushedKeeps
<1>c. r2.ok => d2 \in Disk  BY <1>2, OnIsReached, ReachIsSound
<1>f. SameView(disk, d2)  BY <1>a, <1>b, SameViewIsTransitive
<1>g. \A j \in M : NotificationsOf(d2, j) = {}
  BY <1>0, <1>f DEF SameView, NotificationsOf
<1> HIDE DEF d2, r2
<1>3. On(r3, d3, p) /\ r3.ok = r2.ok
  BY <1>2, <1>g, <1>k, <1>m, OnUpdate
<1>d. r3.ok => /\ d3 \in Disk /\ d3.txn = d2.txn /\ d3.root = d2.root /\ d3.items = d2.items
               /\ d3.stored = d2.stored
  <2>1. r2.ok => /\ d3.txn = d2.txn /\ d3.root = d2.root /\ d3.items = d2.items
                 /\ d3.stored = d2.stored
    BY <1>c, <1>k, <1>m, DiscardedFields
  <2>2. QED  BY <1>3, <2>1, OnIsReached, ReachIsSound
<1>e. r3.ok => d3.root = disk.root /\ d3.items = disk.items /\ d3.stored = disk.stored
  BY <1>d, <1>f DEF SameView
<1> HIDE DEF d3, r3
<1>4. On(r4, d4, p) /\ r4.ok = r3.ok
  BY <1>3, <1>e, <1>m, <1>i, OnRemoveCase
<1>h. r4.ok => d4 \in Disk  BY <1>4, OnIsReached, ReachIsSound
<1>j. r3.ok => /\ d4.txn.kind = "case_trash" /\ d4.stored = disk.stored
               /\ \A j \in M : CasesWith(d4, j) = {}
  <2> SUFFICES ASSUME r3.ok
               PROVE  /\ d4.txn.kind = "case_trash" /\ d4.stored = disk.stored
                      /\ \A j \in M : CasesWith(d4, j) = {}
    OBVIOUS
  <2>1. d4.txn = d3.txn /\ d4.stored = d3.stored  BY <1>d, DroppedKeeps
  <2>2. d3.root \in [Cases -> Roots] /\ d3.items \in [Cases -> SUBSET Messages]
    BY <1>d, DiskFields
  <2>3. /\ d4.root = [d3.root EXCEPT ![c] = "none"]
        /\ d4.items = [d3.items EXCEPT ![c] = {}]
    BY <1>d DEF Dropped, Disk
  <2>4. ASSUME NEW j \in M, NEW b \in CasesWith(d4, j) PROVE FALSE
    <3>1. b \in Cases /\ d4.root[b] # "none" /\ j \in d4.items[b]  BY <2>4 DEF CasesWith
    <3>2. b # c  BY <3>1, <2>2, <2>3
    <3>3. d3.root[b] # "none" /\ j \in d3.items[b]  BY <3>1, <3>2, <2>2, <2>3
    <3>4. b \in CasesWith(disk, j)  BY <3>1, <3>3, <1>e DEF CasesWith
    <3>5. QED  BY <3>2, <3>4, <1>0
  <2>5. QED  BY <2>1, <2>4, <1>a, <1>b, <1>d, <1>e
<1> HIDE DEF d4, r4
<1>5. On(r5, d5, p) /\ (r5.ok => r4.ok)
  <2>1. r4.ok => Free(p, d4)  BY <1>4, <1>j, OpenIsFree
  <2>2. \A j \in M \ p.touched : d4.stored[j] # "none"  BY <1>m
  <2>3. QED  BY <1>4, <1>m, <2>1, <2>2, OnRefresh
<1>w. r5.ok => \A j \in M : WholeAt(d5, j)
  <2> SUFFICES ASSUME r5.ok, NEW j \in M PROVE WholeAt(d5, j)  OBVIOUS
  <2>1. r4.ok /\ r3.ok  BY <1>4, <1>5
  <2>2. d4 \in Disk /\ d4.stored[j] # "none" /\ CasesWith(d4, j) = {}
    BY <2>1, <1>h, <1>j, <1>m
  <2>3. QED  BY <2>2, <1>m, ShownIsWhole
<1>n. r5.ok => d5 \in Disk /\ d5 \in Reach(p) /\ d5.txn.kind = "case_trash"
  <2>1. r5.ok => d5.txn = d4.txn  BY <1>4, <1>5, <1>h, ShownKeeps
  <2>2. QED  BY <1>4, <1>5, <1>j, <2>1, OnIsReached, ReachIsSound
<1> HIDE DEF d5, r5
<1>6. On(r6, d5, p) /\ (r6.ok => r5.ok)
  BY <1>5, <1>n, OpenIsRestful, OnViews
<1> HIDE DEF r6
<1>7. On(r7, d6, p) /\ r7.ok = r6.ok
  BY <1>6, OnCommit
<1>o. r7.ok => SameView(d5, d6)  BY <1>6, <1>7, <1>n, TxnKeeps
<1> HIDE DEF d6, r7
<1>8. r7.ok => \A j \in p.touched : WholeAt(d6, j)
  BY <1>6, <1>7, <1>w, <1>o, <1>m, SameViewIsWhole
<1>9. r7.ok => d6 \in Restful(p)
  BY <1>7, <1>8, OnIsReached, ReachIsRestful
<1>10. QED  BY <1>7, <1>9, <1>p, PerformIsDone

LEMMA StatusIsDisposition ==
  ASSUME NEW d, NEW m, StatusOf(d, m) \in Dispositions
  PROVE  DispositionsOf(d, m) # {}
<1>1. SUFFICES ASSUME DispositionsOf(d, m) = {} PROVE FALSE  OBVIOUS
<1>2. StatusOf(d, m) \in {"notification", "case", "archived", "triage"}
  BY <1>1 DEF StatusOf
<1>3. QED  BY <1>2 DEF Dispositions

LEMMA PurgeIsDone ==
  ASSUME Inv, NEW p, Within(p), NEW m \in Messages, Purge(m),
         p.touched = {}, p.own = {m}, p.done = {}, p.kinds = {"none"}
  PROVE  Done(p)
<1> DEFINE k == StatusOf(disk, m)
           d1 == WithStored(disk, m, "cache")
           d2 == WithStored(d1, m, "none")
           d3 == Cleared(d2, {<<k, m>>})
           r1 == Put(Start, [disk EXCEPT !.stored[m] = "cache"])
           r2 == Put(r1, [r1.d EXCEPT !.stored[m] = "none"])
           r3 == ClearDisposition(r2, k, m)
           r4 == RefreshDispositionViews(r3)
<1>0. /\ disk \in Reach(p) /\ disk \in Disk /\ Unreferenced(disk, m)
      /\ DispositionsOf(disk, m) # {}
  BY ReadyStart, StatusIsDisposition DEF Purge, Unreferenced
<1>p. Perform(r4)  BY DEF Purge
<1>s. "cache" \in Copies /\ "none" \in Copies /\ m \in p.own  BY DEF Copies
<1> HIDE DEF k
<1>1. On(r1, d1, p) /\ r1.ok /\ d1 \in Reach(p)
  <2>1. ~TriageCandidate(disk, m)  BY <1>0 DEF TriageCandidate
  <2>2. d1 \in Reach(p)  BY <1>0, <1>s, <2>1, StoredReach
  <2>3. r1 = Put(Start, d1)  BY DEF WithStored
  <2> HIDE DEF d1, r1
  <2>4. On(Start, disk, p) /\ Start.ok  BY <1>0, OnStart
  <2>5. QED  BY <2>2, <2>3, <2>4, OnPut
<1>a. r1.d = d1 /\ Unreferenced(d1, m) /\ ~TriageCandidate(d1, m)
  <2>1. r1.d = d1  BY <1>1 DEF On, Stands
  <2>2. /\ d1.root = disk.root /\ d1.items = disk.items /\ d1.draft = disk.draft
        /\ d1.open = disk.open /\ d1.coll = disk.coll /\ d1.disp = disk.disp
        /\ d1.push = disk.push
    BY <1>0 DEF WithStored, Disk
  <2> HIDE DEF d1, r1
  <2>3. QED  BY <2>1, <2>2, <1>0 DEF Unreferenced, Referenced, TriageCandidate, CasesWith,
       NotificationsOf, DispositionsOf, DraftRepliesTo, PushRefers
<1> HIDE DEF d1, r1
<1>2. On(r2, d2, p) /\ r2.ok /\ d2.stored[m] = "none"
  <2>1. d2 \in Reach(p)  BY <1>1, <1>a, <1>s, StoredReach
  <2>2. r2 = Put(r1, d2)  BY <1>a DEF WithStored
  <2>3. d2.stored[m] = "none"
    <3>1. d1 \in Disk  BY <1>1, ReachIsSound
    <3>2. d1.stored \in [Messages -> Copies]  BY <3>1, DiskFields
    <3>3. d2.stored = [d1.stored EXCEPT ![m] = "none"]  BY <3>1 DEF WithStored, Disk
    <3>4. QED  BY <3>2, <3>3
  <2> HIDE DEF d2, r2
  <2>4. QED  BY <1>1, <2>1, <2>2, <2>3, OnPut
<1> HIDE DEF d2, r2
<1>3. On(r3, d3, p)  BY <1>2, OnClear
<1>b. r3.ok => d3 \in Restful(p)  BY <1>3, OnIsReached, UntouchedIsRestful
<1> HIDE DEF d3, r3
<1>4. On(r4, d3, p)  BY <1>3, <1>b, OnViews
<1> HIDE DEF r4
<1>5. QED  BY <1>4, <1>p, UntouchedIsDone

LEMMA PullSeesIsDone ==
  ASSUME Inv, NEW p, Within(p), NEW m \in Messages, NEW box \in Mailboxes, PullSees(m, box),
         p.touched = {m}, p.own = {m}, p.done = {}, p.kinds = {"none"}
  PROVE  Done(p)
<1> DEFINE d1 == Seen(disk, m, box)
           d2 == Cleared(d1, {<<"deleted_remote", m>>})
           d3 == Turned(d2, "spam", {m})
           d4 == Turned(d2, "trashed", {m})
           r1 == Put(Start, [disk EXCEPT !.loc[m] = box, !.stored[m] = "all"])
           r2 == ClearDisposition(r1, "deleted_remote", m)
           r3 == SetDisposition(r2, "spam", m)
           r4 == SetDisposition(r2, "trashed", m)
           kept == IF StatusOf(disk, m) # "deleted_remote" THEN r1
                   ELSE IF box = "junk" THEN r3 ELSE IF box = "trash" THEN r4 ELSE r2
<1>0. /\ disk \in Reach(p) /\ disk \in Disk /\ Sound(disk) /\ disk.txn.kind = "none"
  BY ReadyStart DEF PullSees
<1>p. Perform(RenderRefresh(kept))  BY DEF PullSees
<1>m. m \in p.touched /\ m \in p.own /\ \A j \in p.touched : j = m  OBVIOUS
<1>w. p.whole => (DispositionsOf(disk, m) # {} => CasesWith(disk, m) = {})
  BY <1>0, StartIsWhole DEF Whole
<1>1. On(r1, d1, p) /\ r1.ok
  <2>1. d1 \in Reach(p)  BY <1>0, <1>m, SeenReach
  <2>2. r1 = Put(Start, d1)  BY DEF Seen
  <2> HIDE DEF d1, r1
  <2>3. On(Start, disk, p) /\ Start.ok  BY <1>0, OnStart
  <2>4. QED  BY <2>1, <2>2, <2>3, OnPut
<1>a. /\ d1 \in Disk
      /\ d1.root = disk.root /\ d1.items = disk.items /\ d1.open = disk.open
      /\ d1.coll = disk.coll /\ d1.disp = disk.disp
  BY <1>0, <1>1, OnIsReached, ReachIsSound DEF Seen, Disk
<1> HIDE DEF d1, r1
<1>b. CasesWith(d1, m) = CasesWith(disk, m) /\ NotificationsOf(d1, m) = NotificationsOf(disk, m)
      /\ DispositionsOf(d1, m) = DispositionsOf(disk, m)
  BY <1>a DEF CasesWith, NotificationsOf, DispositionsOf
<1>2. CASE StatusOf(disk, m) # "deleted_remote"
  <2>1. p.whole => \A j \in p.touched : j \in Messages
                     /\ (DispositionsOf(d1, j) # {} => CasesWith(d1, j) = {})
    BY <1>w, <1>b, <1>m
  <2>2. Perform(RenderRefresh(r1))  BY <1>p, <1>2
  <2>3. QED  BY <1>1, <2>1, <2>2, RenderIsDone
<1>3. CASE StatusOf(disk, m) = "deleted_remote"
  <2>0. DispositionsOf(disk, m) # {}
    BY <1>3, StatusIsDisposition DEF Dispositions
  <2>1. NotificationsOf(d1, m) = {} /\ (p.whole => CasesWith(d1, m) = {})
    <3>1. NotificationsOf(disk, m) = {}
      BY <1>0, <2>0 DEF Sound, Agreement
    <3>2. QED  BY <3>1, <2>0, <1>b, <1>w
  <2>2. On(r2, d2, p) /\ r2.ok  BY <1>1, <1>m, OnClear
  <2>3. /\ d2 \in Disk /\ d2.root = d1.root /\ d2.items = d1.items /\ d2.open = d1.open
        /\ d2.coll = d1.coll
    BY <1>a, <2>2, OnIsReached, ReachIsSound, ClearedKeeps
  <2> HIDE DEF d2, r2
  <2>4. NotificationsOf(d2, m) = {} /\ (p.whole => CasesWith(d2, m) = {})
    BY <2>1, <2>3 DEF NotificationsOf, CasesWith
  <2>5. ASSUME NEW k \in Dispositions, Perform(RenderRefresh(SetDisposition(r2, k, m)))
        PROVE Done(p)
    <3> DEFINE e == Turned(d2, k, {m})
               r == SetDisposition(r2, k, m)
    <3>1. On(r, e, p)  BY <2>2, <2>4, <1>m, OnSet
    <3>2. e.root = d2.root /\ e.items = d2.items
      BY <2>3 DEF Turned, Marked, Cleared, Disk
    <3> HIDE DEF e, r
    <3>3. p.whole => CasesWith(e, m) = {}  BY <2>4, <3>2 DEF CasesWith
    <3>4. p.whole => \A j \in p.touched : j \in Messages
                       /\ (DispositionsOf(e, j) # {} => CasesWith(e, j) = {})
      BY <3>3, <1>m
    <3>5. Perform(RenderRefresh(r))  BY <2>5 DEF r
    <3>6. QED  BY <3>1, <3>4, <3>5, RenderIsDone
  <2>6. CASE box = "junk"
    <3>1. Perform(RenderRefresh(r3))  BY <1>3, <1>p, <2>6
    <3>2. QED  BY <3>1, <2>5 DEF Dispositions
  <2>7. CASE box = "trash"
    <3>1. Perform(RenderRefresh(r4))  BY <1>3, <1>p, <2>7
    <3>2. QED  BY <3>1, <2>5 DEF Dispositions
  <2>8. CASE box # "junk" /\ box # "trash"
    <3>1. Perform(RenderRefresh(r2))  BY <1>3, <1>p, <2>8
    <3>2. p.whole => \A j \in p.touched : j \in Messages
                       /\ (DispositionsOf(d2, j) # {} => CasesWith(d2, j) = {})
      BY <2>4, <1>m
    <3>3. QED  BY <2>2, <3>1, <3>2, RenderIsDone
  <2>9. QED  BY <2>6, <2>7, <2>8
<1>4. QED  BY <1>2, <1>3

LEMMA MissingIsDone ==
  ASSUME Inv, NEW p, Within(p), NEW m \in Messages, ReconcileRemoteMissing(m),
         p.touched = {m}, p.own = {m}, p.done = {}, p.kinds = {"none"}
  PROVE  Done(p)
<1> DEFINE k == "deleted_remote"
           box == "gone"
           d1 == WithLoc(disk, m, box)
           d2 == Turned(disk, k, {m})
           d3 == WithLoc(d2, m, box)
           r1 == Put(Start, [disk EXCEPT !.loc[m] = "gone"])
           r2 == SetDisposition(Start, k, m)
           r3 == Put(r2, [r2.d EXCEPT !.loc[m] = "gone"])
           kept == IF Referenced(disk, m, {}) THEN r1 ELSE r3
<1>0. /\ disk \in Reach(p) /\ disk \in Disk /\ Sound(disk) /\ disk.txn.kind = "none"
  BY ReadyStart DEF ReconcileRemoteMissing
<1>p. Perform(RenderRefresh(kept))  BY DEF ReconcileRemoteMissing
<1>m. m \in p.touched /\ m \in p.own /\ \A j \in p.touched : j = m  OBVIOUS
<1>b. box \in Mailboxes /\ k \in Dispositions  BY DEF Mailboxes, Dispositions
<1>w. p.whole => (DispositionsOf(disk, m) # {} => CasesWith(disk, m) = {})
  BY <1>0, StartIsWhole DEF Whole
<1>s. On(Start, disk, p) /\ Start.ok  BY <1>0, OnStart
<1>1. CASE Referenced(disk, m, {})
  <2>1. On(r1, d1, p)
    <3>1. r1 = Put(Start, d1)  BY DEF WithLoc
    <3> HIDE DEF box
    <3>2. d1 \in Reach(p)  BY <1>0, <1>b, LocReach
    <3> HIDE DEF d1, r1
    <3>3. QED  BY <3>1, <3>2, <1>s, OnPut
  <2>2. d1.root = disk.root /\ d1.items = disk.items /\ d1.disp = disk.disp
    BY <1>0 DEF WithLoc, Disk
  <2>3. Perform(RenderRefresh(r1))  BY <1>1, <1>p
  <2> HIDE DEF d1, r1
  <2>4. p.whole => \A j \in p.touched : j \in Messages
                     /\ (DispositionsOf(d1, j) # {} => CasesWith(d1, j) = {})
    BY <2>2, <1>w, <1>m DEF DispositionsOf, CasesWith
  <2>5. QED  BY <2>1, <2>3, <2>4, RenderIsDone
<1>2. CASE ~Referenced(disk, m, {})
  <2>0. CasesWith(disk, m) = {} /\ NotificationsOf(disk, m) = {}
    BY <1>2 DEF Referenced
  <2>1. On(r2, d2, p) /\ r2.ok
    <3> HIDE DEF k
    <3>1. QED  BY <1>s, <1>b, <1>m, <2>0, OnSet
  <2>2. r2.d = d2 /\ d2 \in Reach(p) /\ d2 \in Disk
    BY <2>1, OnIsReached, ReachIsSound DEF On, Stands
  <2>3. d2.root = disk.root /\ d2.items = disk.items
    BY <1>0 DEF Turned, Marked, Cleared, Disk
  <2>4. Perform(RenderRefresh(r3))  BY <1>2, <1>p
  <2> HIDE DEF d2, r2
  <2>5. On(r3, d3, p)
    <3>1. r3 = Put(r2, d3)  BY <2>2 DEF WithLoc
    <3> HIDE DEF box
    <3>2. d3 \in Reach(p)  BY <2>2, <1>b, LocReach
    <3> HIDE DEF d3, r3
    <3>3. QED  BY <3>1, <3>2, <2>1, OnPut
  <2>6. d3.root = disk.root /\ d3.items = disk.items
    BY <2>2, <2>3 DEF WithLoc, Disk
  <2> HIDE DEF d3, r3
  <2>7. p.whole => \A j \in p.touched : j \in Messages
                     /\ (DispositionsOf(d3, j) # {} => CasesWith(d3, j) = {})
    BY <2>6, <2>0, <1>m DEF CasesWith
  <2>8. QED  BY <2>4, <2>5, <2>7, RenderIsDone
<1>3. QED  BY <1>1, <1>2

-----------------------------------------------------------------------------
(* The commands on notifications.                                           *)

LEMMA MakeNotificationIsDone ==
  ASSUME Inv, NEW p, Within(p), NEW n \in Notifications, MakeNotification(n),
         p.touched = {}, p.done = {}, p.kinds = {"none"}
  PROVE  Done(p)
<1> DEFINE e == Opened(disk, n)
<1>1. disk \in Reach(p) /\ n \notin disk.open  BY ReadyStart DEF MakeNotification
<1>2. Perform(Put(Start, e))  BY DEF MakeNotification, Opened
<1>3. e \in Reach(p)  BY <1>1, OpenedReach
<1> HIDE DEF e
<1>4. QED  BY <1>2, <1>3, OnePutIsDone

LEMMA NotificationDeleteIsDone ==
  ASSUME Inv, NEW p, Within(p), NEW n \in Notifications, NotificationDelete(n),
         p.touched = {}, p.done = {}, p.kinds = {"none", "notification_delete"}
  PROVE  Done(p)
<1> DEFINE d1 == WithTxn(disk, "notification_delete", n)
           d2 == Shut(d1, n)
           d3 == WithTxn(d2, "none", None)
           r1 == BeginTransaction(Start, "notification_delete", n)
           r2 == Put(r1, [r1.d EXCEPT !.open = @ \ {n}])
           r3 == Commit(r2)
<1>0. disk \in Reach(p) /\ disk \in Disk /\ disk.coll[n] = {}
  BY ReadyStart DEF NotificationDelete
<1>t. [kind |-> "notification_delete", on |-> n] \in Transactions  BY DEF Transactions
<1>p. Perform(r3)  BY DEF NotificationDelete
<1>1. On(r1, d1, p) /\ r1.ok  BY <1>0, <1>t, OnStart, OnBegin
<1>a. d1 \in Reach(p) /\ d1.coll[n] = {} /\ r1.d = d1
  BY <1>0, <1>1, OnIsReached, TxnKeeps DEF SameView, On, Stands
<1> HIDE DEF d1, r1
<1>2. On(r2, d2, p)
  <2>1. r2 = Put(r1, d2)  BY <1>a DEF Shut
  <2>2. d2 \in Reach(p)  BY <1>a, ShutReach
  <2> HIDE DEF d2, r2
  <2>3. QED  BY <1>1, <2>1, <2>2, OnPut
<1> HIDE DEF d2, r2
<1>3. On(r3, d3, p)  BY <1>2, OnCommit
<1> HIDE DEF d3, r3
<1>4. QED  BY <1>3, <1>p, UntouchedIsDone

LEMMA NotedKeeps ==
  ASSUME NEW d \in Disk, NEW n \in Notifications, NEW m
  PROVE  /\ LET e == Noted(d, n, m)
            IN  /\ e.root = d.root /\ e.items = d.items /\ e.open = d.open /\ e.disp = d.disp
                /\ e.push = d.push /\ e.loc = d.loc /\ e.stored = d.stored
                /\ e.triage = d.triage /\ e.txn = d.txn /\ e.coll[n] = d.coll[n] \cup {m}
         /\ LET e == Unnoted(d, n, m)
            IN  /\ e.root = d.root /\ e.items = d.items /\ e.open = d.open /\ e.disp = d.disp
                /\ e.push = d.push /\ e.loc = d.loc /\ e.stored = d.stored
                /\ e.triage = d.triage /\ e.txn = d.txn /\ e.coll[n] = d.coll[n] \ {m}
                /\ \A i \in Notifications : e.coll[i] \subseteq d.coll[i]
BY DEF Disk, Noted, Unnoted

(* Filed in a notification, a message is shown nowhere else. *)
LEMMA NotedIsWhole ==
  ASSUME NEW d, NEW m, NotificationsOf(d, m) # {}, DispositionsOf(d, m) = {},
         m \notin d.triage
  PROVE  WholeAt(d, m)
BY DEF WholeAt, TriageCandidate

LEMMA NotificationMoveIsDone ==
  ASSUME Inv, NEW p, Within(p), NEW n \in Notifications, NEW to \in Notifications,
         NEW m \in Messages, NotificationMove(n, to, m),
         p.touched = {m}, p.done = {}, p.kinds = {"none", "notification_message_move"}
  PROVE  Done(p)
<1> DEFINE d1 == WithTxn(disk, "notification_message_move", n)
           d2 == Unnoted(d1, n, m)
           d3 == Noted(d2, to, m)
           d4 == WithTxn(d3, "none", None)
           r1 == BeginTransaction(Start, "notification_message_move", n)
           r2 == RemoveNotificationItem(r1, n, m)
           r3 == UpsertNotification(r2, to, m)
           r4 == Commit(r3)
<1>0. /\ disk \in Reach(p) /\ disk \in Disk /\ Sound(disk) /\ disk.stored[m] # "none"
      /\ to \in disk.open /\ n \in NotificationsOf(disk, m) /\ disk.txn.kind = "none"
  BY ReadyStart DEF NotificationMove, Readable
<1>t. [kind |-> "notification_message_move", on |-> n] \in Transactions  BY DEF Transactions
<1>p. Perform(r4)  BY DEF NotificationMove
<1>m. m \in p.touched /\ \A j \in p.touched : j = m  OBVIOUS
<1>g. DispositionsOf(disk, m) = {} /\ \A i \in NotificationsOf(disk, m) : i = n
  BY <1>0 DEF Sound, Agreement
<1>w. p.whole => m \notin disk.triage
  BY <1>0, StartIsWhole DEF Whole, TriageCandidate
<1>1. On(r1, d1, p) /\ r1.ok  BY <1>0, <1>t, OnStart, OnBegin
<1>a. d1 \in Disk /\ SameView(disk, d1)
  BY <1>0, <1>1, OnIsReached, ReachIsSound, TxnKeeps
<1> HIDE DEF d1, r1
<1>2. On(r2, d2, p) /\ r2.ok  BY <1>1, <1>m, OnUnnoted
<1>b. /\ d2 \in Disk /\ d2.open = disk.open /\ d2.disp = disk.disp /\ d2.stored = disk.stored
      /\ d2.triage = disk.triage
      /\ d2.coll[n] = d1.coll[n] \ {m}
      /\ \A i \in Notifications : d2.coll[i] \subseteq disk.coll[i]
  BY <1>a, <1>2, OnIsReached, ReachIsSound, NotedKeeps DEF SameView
<1> HIDE DEF d2, r2
<1>c. NotificationsOf(d2, m) = {} /\ DispositionsOf(d2, m) = {}
  <2>1. \A i \in disk.open : i \in Notifications  BY <1>0, OpenIsTyped
  <2>2. QED  BY <2>1, <1>b, <1>g DEF NotificationsOf, DispositionsOf
<1>3. On(r3, d3, p) /\ r3.ok
  BY <1>0, <1>2, <1>b, <1>c, <1>m, OnNoted
<1>d. d3 \in Disk /\ (p.whole => WholeAt(d3, m))
  <2>1. /\ d3 \in Disk /\ d3.open = d2.open /\ d3.disp = d2.disp /\ d3.triage = d2.triage
        /\ d3.coll[to] = d2.coll[to] \cup {m}
    BY <1>b, <1>3, OnIsReached, ReachIsSound, NotedKeeps
  <2>2. to \in NotificationsOf(d3, m) /\ DispositionsOf(d3, m) = {}
    BY <2>1, <1>0, <1>b, <1>c DEF NotificationsOf, DispositionsOf
  <2>3. p.whole => m \notin d3.triage  BY <2>1, <1>b, <1>w
  <2>4. QED  BY <2>1, <2>2, <2>3, NotedIsWhole
<1> HIDE DEF d3, r3
<1>4. On(r4, d4, p) /\ r4.ok  BY <1>3, OnCommit
<1>e. SameView(d3, d4)  BY <1>d, TxnKeeps
<1> HIDE DEF d4, r4
<1>5. d4 \in Restful(p)
  <2>1. p.whole => \A j \in p.touched : WholeAt(d4, j)
    BY <1>d, <1>e, <1>m, SameViewIsWhole
  <2>2. QED  BY <2>1, <1>4, OnIsReached, ReachIsRestful
<1>6. QED  BY <1>4, <1>5, <1>p, PerformIsDone

LEMMA NotificationRemoveIsDone ==
  ASSUME Inv, NEW p, Within(p), NEW n \in Notifications, NEW m \in Messages,
         NotificationRemoveMessage(n, m),
         p.touched = {m}, p.done = {}, p.kinds = {"none"}
  PROVE  Done(p)
<1> DEFINE M == {m}
           a == "notification"
           d1 == Unpushed(disk, M, a)
           d2 == Unnoted(d1, n, m)
           d3 == Shown(d2, M)
           r1 == RemovePendingPush(Start, M, a)
           r2 == RemoveNotificationItem(r1, n, m)
           r3 == RefreshMessages(r2, M)
<1>0. /\ disk \in Reach(p) /\ disk \in Disk /\ Sound(disk) /\ disk.stored[m] # "none"
      /\ n \in NotificationsOf(disk, m) /\ disk.txn.kind = "none" /\ CaseIndexBuilds(disk)
  BY ReadyStart DEF NotificationRemoveMessage, Readable
<1>p. Perform(r3)  BY DEF NotificationRemoveMessage
<1>m. /\ M \in SUBSET Messages /\ m \in M /\ p.touched = M /\ \A j \in M : j = m
      /\ a \in MessagePushActions
  BY DEF MessagePushActions
<1>g. DispositionsOf(disk, m) = {}  BY <1>0 DEF Sound, Agreement
<1>w. Calm(p, disk)
  <2>1. p.whole => \A j \in p.touched : WholeAt(disk, j)
    BY <1>0, StartIsWhole, WholeParts
  <2>2. QED  BY <2>1, <1>0, RestfulIsCalm
<1> HIDE DEF M, a
<1>1. On(r1, d1, p)  BY <1>0, <1>m, <1>w, OnStart, OnUnpush
<1>a. SameView(disk, d1) /\ d1.status = disk.status /\ (r1.ok => d1 \in Disk)
  BY <1>0, <1>1, OnIsReached, ReachIsSound, UnpushedKeeps
<1> HIDE DEF d1, r1
<1>2. On(r2, d2, p) /\ r2.ok = r1.ok  BY <1>1, <1>m, OnUnnoted
<1>b. r2.ok => /\ d2 \in Disk /\ Sound(d2) /\ d2.disp = disk.disp /\ d2.stored = disk.stored
               /\ d2.root = disk.root
  BY <1>a, <1>2, OnIsReached, ReachIsSound, NotedKeeps DEF SameView
<1>s. r2.ok => d2.status = disk.status
  BY <1>a, <1>2 DEF Unnoted, Disk
<1> HIDE DEF d2, r2
<1>c. r2.ok => Unreadable(d2, M) = {}
  <2> SUFFICES ASSUME r2.ok PROVE Unreadable(d2, M) = {}  OBVIOUS
  <2>1. CaseIndexBuilds(d2)  BY <1>0, <1>b, <1>s DEF CaseIndexBuilds
  <2>2. \A j \in M : d2.stored[j] # "none"  BY <1>0, <1>b, <1>m
  <2>3. QED  BY <2>1, <2>2, <1>b, NothingUnreadable
<1>3. On(r3, d3, p) /\ (r3.ok => r2.ok)
  BY <1>2, <1>c, <1>m, OnRefresh
<1>d. r3.ok => WholeAt(d3, m)
  <2>1. r2.ok => DispositionsOf(d2, m) = {}  BY <1>b, <1>g DEF DispositionsOf
  <2>2. QED  BY <2>1, <1>3, <1>b, <1>0, <1>m, ShownIsWhole
<1> HIDE DEF d3, r3
<1>4. r3.ok => d3 \in Restful(p)
  <2>1. r3.ok => \A j \in p.touched : WholeAt(d3, j)  BY <1>d, <1>m
  <2>2. QED  BY <2>1, <1>3, OnIsReached, ReachIsRestful
<1>5. QED  BY <1>3, <1>4, <1>p, PerformIsDone

(* Queueing pushes changes no collection, whether it fails or not. *)
LEMMA ArchiveKeeps ==
  ASSUME NEW r, r.d \in Disk, NEW S, NEW c
  PROVE  SameView(r.d, QueueArchive(r, S, c).d) /\ QueueArchive(r, S, c).d.txn = r.d.txn
<1> DEFINE E == Eligible(r.d, S, c)
           I == InInbox(r.d, E)
           q == RemovePendingPush(r, E, "case.add")
           f == QueueActionSteps(q, I, "notification")
<1>1. QueueArchive(r, S, c) = f  BY DEF QueueArchive, Eligible, InInbox
<1>2. q.d = r.d \/ \E T : q.d = Unpushed(r.d, T, "case.add")
  BY DEF RemovePendingPush, Loop
<1>3. f.d = q.d \/ \E T : f.d = Pushed(q.d, T, "notification")
  BY DEF QueueActionSteps, Loop
<1> HIDE DEF E, I, q, f
<1>4. q.d \in Disk /\ SameView(r.d, q.d) /\ q.d.txn = r.d.txn
  <2>1. ASSUME NEW T PROVE Unpushed(r.d, T, "case.add") \in Disk
    BY DEF Unpushed, Disk, NoPush, MessagePushActions
  <2>2. QED  BY <1>2, <2>1, UnpushedKeeps DEF SameView
<1>5. SameView(q.d, f.d) /\ f.d.txn = q.d.txn
  BY <1>3, <1>4, PushedKeeps DEF SameView
<1>6. QED  BY <1>1, <1>4, <1>5, SameViewIsTransitive

Filed(d, n, m) ==
  Queued(Noted(Hidden(Cleared(d, Dispositions \X {m}), {m}), n, m), {m}, None)

LEMMA HiddenKeeps ==
  ASSUME NEW d \in Disk, NEW S
  PROVE  LET e == Hidden(d, S)
         IN  /\ e.root = d.root /\ e.items = d.items /\ e.open = d.open /\ e.coll = d.coll
             /\ e.disp = d.disp /\ e.stored = d.stored /\ e.txn = d.txn
             /\ e.triage = d.triage \ S
BY DEF Disk, Hidden

LEMMA OnFile ==
  ASSUME NEW p, NEW r, NEW d, On(r, d, p), r.ok, d.txn.kind \notin {"none", "case_archive"},
         NEW n \in d.open, NEW m \in Messages, m \in p.touched, d.stored[m] # "none",
         p.done = {}
  PROVE  /\ On(FileMessage(r, n, m), Filed(d, n, m), p)
         /\ FileMessage(r, n, m).d.txn = d.txn
         /\ FileMessage(r, n, m).d.coll[n] \subseteq d.coll[n] \cup {m}
         /\ FileMessage(r, n, m).ok => WholeAt(Filed(d, n, m), m)
<1> DEFINE M == {m}
           taken == NotificationsOf(d, m) \ {n} # {}
           d1 == Cleared(d, Dispositions \X M)
           d2 == Hidden(d1, M)
           d3 == Noted(d2, n, m)
           d4 == Queued(d3, M, None)
           q == Unless(r, taken)
           r1 == ClearDispositions(q, M)
           r2 == RemoveTriageView(r1, m)
           r3 == UpsertNotification(r2, n, m)
           r4 == QueueArchive(r3, M, None)
<1>0. d \in Reach(p) /\ d \in Disk /\ n \in Notifications /\ r.d = d
  BY OnIsReached, ReachIsSound, OpenIsTyped DEF On, Stands
<1>f. FileMessage(r, n, m) = r4 /\ Filed(d, n, m) = d4
  BY <1>0 DEF FileMessage, Filed
<1>m. M \in SUBSET Messages /\ M \subseteq p.touched /\ m \in M  OBVIOUS
<1>1. CASE taken
  <2>1. q = Going(r, FALSE)  BY <1>1 DEF Unless
  <2>2. q.ok = FALSE /\ q.d = d  BY <2>1, <1>0 DEF Going
  <2>3. On(q, d4, p)
    <3>1. d \in Restful(p)  BY <1>0, OpenIsRestful
    <3>2. q.w = r.w /\ q.ends = r.ends  BY <2>1 DEF Going
    <3> HIDE DEF d4, q
    <3>3. QED  BY <2>2, <3>1, <3>2, <1>0 DEF On, Stands
  <2> HIDE DEF q, d4, M
  <2>4. r1 = q  BY <2>2 DEF ClearDispositions, Loop
  <2>5. r2 = q  BY <2>2, <2>4 DEF RemoveTriageView, Put
  <2>6. r3 = q  BY <2>2, <2>5 DEF UpsertNotification, Put
  <2> HIDE DEF r3
  <2>7. r4 = q
    BY <2>2, <2>6 DEF QueueArchive, QueueActionSteps, RemovePendingPush, Loop
  <2> HIDE DEF r4
  <2>8. QED  BY <1>f, <2>2, <2>3, <2>7
<1>2. CASE ~taken
  <2>1. q = r  BY <1>2 DEF Unless
  <2>2. NotificationsOf(d, m) \subseteq {n}  BY <1>2
  <2> HIDE DEF q, taken, M
  <2>3. On(r1, d1, p) /\ r1.ok  BY <2>1, <1>m, OnClearAll
  <2>a. /\ d1 \in Disk /\ d1.txn = d.txn /\ d1.open = d.open /\ d1.coll = d.coll
        /\ d1.stored = d.stored /\ DispositionsOf(d1, m) = {}
    BY <1>0, <1>m, <2>3, OnIsReached, ReachIsSound, ClearedKeeps, ClearedHasNone
  <2> HIDE DEF d1, r1
  <2>4. On(r2, d2, p) /\ r2.ok  BY <2>3, OnHide DEF M
  <2>b. /\ d2 \in Disk /\ d2.txn = d.txn /\ d2.open = d.open /\ d2.coll = d.coll
        /\ d2.stored = d.stored /\ DispositionsOf(d2, m) = {} /\ m \notin d2.triage
    BY <2>a, <2>4, <1>m, OnIsReached, ReachIsSound, HiddenKeeps DEF DispositionsOf
  <2> HIDE DEF d2, r2
  <2>5. On(r3, d3, p) /\ r3.ok
    <3>1. NotificationsOf(d2, m) \subseteq {n}  BY <2>2, <2>b DEF NotificationsOf
    <3>2. QED  BY <2>4, <2>b, <3>1, OnNoted
  <2>c. /\ d3 \in Disk /\ d3.txn = d.txn /\ d3.open = d.open
        /\ d3.coll[n] = d.coll[n] \cup {m}
        /\ DispositionsOf(d3, m) = {} /\ m \notin d3.triage
    BY <1>0, <2>b, <2>5, OnIsReached, ReachIsSound, NotedKeeps DEF DispositionsOf
  <2> HIDE DEF d3
  <2>d. r3.d = d3  BY <2>5 DEF On, Stands
  <2> HIDE DEF r3
  <2>6. On(r4, d4, p)
    <3>1. Calm(p, d3)  BY <2>c, OpenIsFree, FreeIsCalm
    <3>2. QED  BY <2>5, <3>1, <1>m, OnArchive
  <2>7. SameView(d3, r4.d) /\ r4.d.txn = d3.txn  BY <2>c, <2>d, ArchiveKeeps
  <2>8. WholeAt(d4, m)
    <3>1. n \in NotificationsOf(d3, m)  BY <2>c DEF NotificationsOf
    <3>2. WholeAt(d3, m)  BY <2>c, <3>1, NotedIsWhole
    <3>3. SameView(d3, d4)  BY <2>c, <1>m, QueuedPushes
    <3> HIDE DEF d4
    <3>4. QED  BY <3>2, <3>3, SameViewIsWhole
  <2> HIDE DEF d4, r4
  <2>9. r4.d.coll[n] \subseteq d.coll[n] \cup {m} /\ r4.d.txn = d.txn
    BY <2>7, <2>c DEF SameView
  <2>10. QED  BY <1>f, <2>6, <2>8, <2>9
<1>3. QED  BY <1>1, <1>2

LEMMA NotificationAddIsDone ==
  ASSUME Inv, NEW p, Within(p), NEW n \in Notifications, NEW m \in Messages,
         NotificationAddMessage(n, m),
         p.touched = {m}, p.done = {}, p.kinds = {"none", "notification_message_add"}
  PROVE  Done(p)
<1> DEFINE d1 == WithTxn(disk, "notification_message_add", n)
           d2 == Filed(d1, n, m)
           d3 == WithTxn(d2, "none", None)
           r1 == BeginTransaction(Start, "notification_message_add", n)
           r2 == FileMessage(r1, n, m)
           r3 == Commit(r2)
<1>0. /\ disk \in Reach(p) /\ disk \in Disk /\ disk.stored[m] # "none" /\ n \in disk.open
  BY ReadyStart DEF NotificationAddMessage, Readable
<1>t. [kind |-> "notification_message_add", on |-> n] \in Transactions  BY DEF Transactions
<1>p. Perform(r3)  BY DEF NotificationAddMessage
<1>m. m \in p.touched /\ \A j \in p.touched : j = m  OBVIOUS
<1>1. On(r1, d1, p) /\ r1.ok  BY <1>0, <1>t, OnStart, OnBegin
<1>a. /\ d1.txn.kind = "notification_message_add" /\ n \in d1.open /\ d1.stored[m] # "none"
  BY <1>0, TxnKeeps DEF SameView
<1> HIDE DEF d1, r1
<1>2. On(r2, d2, p) /\ (r2.ok => WholeAt(d2, m))
  BY <1>1, <1>a, <1>m, OnFile
<1>b. r2.ok => d2 \in Disk  BY <1>2, OnIsReached, ReachIsSound
<1> HIDE DEF d2, r2
<1>3. On(r3, d3, p) /\ r3.ok = r2.ok  BY <1>2, OnCommit
<1>c. r3.ok => SameView(d2, d3)  BY <1>3, <1>b, TxnKeeps
<1> HIDE DEF d3, r3
<1>4. r3.ok => d3 \in Restful(p)
  <2>1. r3.ok => \A j \in p.touched : WholeAt(d3, j)
    BY <1>2, <1>3, <1>c, <1>m, SameViewIsWhole
  <2>2. QED  BY <2>1, <1>3, OnIsReached, ReachIsRestful
<1>5. QED  BY <1>3, <1>4, <1>p, PerformIsDone

LEMMA CreateNotificationIsDone ==
  ASSUME Inv, NEW p, Within(p), NEW n \in Notifications, NEW m \in Messages,
         CreateNotification(n, m),
         p.touched = {m}, p.done = {}, p.kinds = {"none", "notification_create"}
  PROVE  Done(p)
<1> DEFINE d1 == Opened(disk, n)
           d2 == WithTxn(d1, "notification_create", n)
           d3 == Filed(d2, n, m)
           d4 == WithTxn(d3, "none", None)
           r1 == Put(Start, d1)
           r2 == BeginTransaction(r1, "notification_create", n)
           r3 == FileMessage(r2, n, m)
           r4 == Commit(r3)
           unmade == Closed(r3.d, n)
           r5 == Put(Going(r3, TRUE), unmade)
<1>0. /\ disk \in Reach(p) /\ disk \in Disk /\ disk.stored[m] # "none" /\ n \notin disk.open
  BY ReadyStart DEF CreateNotification, Readable
<1>t. [kind |-> "notification_create", on |-> n] \in Transactions  BY DEF Transactions
<1>p. Perform(IF r3.ok THEN r4 ELSE r5)
  BY DEF CreateNotification, Opened, Closed
<1>m. m \in p.touched /\ \A j \in p.touched : j = m  OBVIOUS
<1>a. /\ d1 \in Disk /\ n \in d1.open /\ d1.coll[n] = {} /\ d1.stored = disk.stored
  <2>1. disk.coll \in [Notifications -> SUBSET Messages]  BY <1>0, DiskFields
  <2>2. /\ d1.open = disk.open \cup {n} /\ d1.coll = [disk.coll EXCEPT ![n] = {}]
        /\ d1.stored = disk.stored
    BY <1>0 DEF Opened, Disk
  <2>3. d1 \in Disk  BY <1>0, OpenedFields
  <2> HIDE DEF d1
  <2>4. QED  BY <2>1, <2>2, <2>3
<1>1. On(r1, d1, p) /\ r1.ok
  <2>1. d1 \in Reach(p)  BY <1>0, OpenedReach
  <2> HIDE DEF d1
  <2>2. QED  BY <1>0, <2>1, OnStart, OnPut
<1> HIDE DEF d1, r1
<1>2. On(r2, d2, p) /\ r2.ok  BY <1>1, <1>t, OnBegin
<1>b. /\ d2.txn.kind = "notification_create" /\ n \in d2.open /\ d2.stored[m] # "none"
      /\ d2.coll[n] = {}
  BY <1>0, <1>a, TxnKeeps DEF SameView
<1> HIDE DEF d2, r2
<1>3. /\ On(r3, d3, p) /\ (r3.ok => WholeAt(d3, m))
      /\ r3.d.txn = d2.txn /\ r3.d.coll[n] \subseteq {m}
  <2>1. d2.coll[n] \cup {m} = {m}  BY <1>b
  <2>2. QED  BY <2>1, <1>2, <1>b, <1>m, OnFile
<1>c. r3.ok => d3 \in Disk  BY <1>3, OnIsReached, ReachIsSound
<1> HIDE DEF d3, r3
<1>4. CASE r3.ok
  <2>1. On(r4, d4, p) /\ r4.ok  BY <1>3, <1>4, OnCommit
  <2>2. SameView(d3, d4)  BY <1>4, <1>c, TxnKeeps
  <2> HIDE DEF d4, r4
  <2>3. \A j \in p.touched : WholeAt(d4, j)
    BY <1>3, <1>4, <2>2, <1>m, SameViewIsWhole
  <2>4. d4 \in Restful(p)  BY <2>1, <2>3, OnIsReached, ReachIsRestful
  <2>5. QED  BY <1>4, <1>p, <2>1, <2>4, PerformIsDone
<1>5. CASE ~r3.ok
  <2>1. r3.d \in Reach(p) /\ r3.w \subseteq Reach(p)  BY <1>3 DEF On, Stands
  <2>2. r3.d \in Disk  BY <2>1, ReachIsSound
  <2>3. unmade \in Reach(p)
    <3>1. r3.d.coll[n] \subseteq p.touched  BY <1>3
    <3>2. QED  BY <2>1, <3>1, ClosedReach
  <2>4. unmade.txn = r3.d.txn  BY <2>2 DEF Closed, Disk
  <2> HIDE DEF unmade
  <2>5. unmade \in Restful(p)  BY <2>3, <2>4, <1>3, <1>b, OpenIsRestful
  <2>6. r5 = [w |-> r3.w \cup {unmade}, d |-> unmade, ends |-> {unmade}, ok |-> TRUE]
    BY DEF Put, Going
  <2> HIDE DEF r5
  <2>7. On(r5, unmade, p)  BY <2>1, <2>3, <2>6 DEF On, Stands
  <2>8. Perform(r5)  BY <1>5, <1>p
  <2>9. QED  BY <2>5, <2>7, <2>8, PerformIsDone
<1>6. QED  BY <1>4, <1>5

-----------------------------------------------------------------------------
(* Every command.                                                           *)

(* What ArchiveIsFinished says of case c. *)
Ending(c) ==
  \/ disk.txn.kind # "case_archive" /\ disk.root[c] # "active"
  \/ disk.txn.kind = "case_archive" /\ disk.txn.on # c
  \/ disk'.txn # NoTxn \/ disk'.root[c] # "archived"
  \/ Finished(disk', c)

(* The commands that remove a message or its disposition for themselves. *)
Owning ==
  \/ \E m \in Messages, k \in {"spam", "trashed"} : Discard(m, k)
  \/ \E c \in Cases : TrashCase(c)
  \/ \E m \in Messages : Purge(m) \/ ReconcileRemoteMissing(m)
  \/ \E m \in Messages, box \in Mailboxes : PullSees(m, box)

Stepped ==
  \E p : /\ Within(p) /\ Done(p)
         /\ \A c \in Cases : Ending(c)
         /\ p.own = {} \/ Owning
         /\ \A m \in p.done : PushMessage(m)

(* The bounds p of a command that goes on from the workspace on disk. *)
Bounded(p, touched, own, done, cases, kinds) ==
  /\ Within(p) /\ p.touched = touched /\ p.own = own /\ p.done = done
  /\ p.cases = cases /\ p.kinds = kinds

LEMMA BoundsAreThere ==
  ASSUME Inv, NEW touched, NEW own, NEW done, NEW cases, NEW kinds,
         disk.txn.kind \in kinds, disk.txn.kind \in {"none", "case_archive"}
  PROVE  \E p : Bounded(p, touched, own, done, cases, kinds)
<1> DEFINE q == Bounds(touched, own, done, cases, kinds)
<1>1. /\ q.touched = touched /\ q.own = own /\ q.done = done
      /\ q.cases = cases /\ q.kinds = kinds
  BY BoundsFields
<1>2. Within(q)  BY WithinBounds
<1> HIDE DEF q
<1>3. Bounded(q, touched, own, done, cases, kinds)  BY <1>1, <1>2 DEF Bounded
<1>4. QED  BY <1>3

LEMMA ReadyBounds ==
  ASSUME Inv, Ready, NEW touched, NEW own, NEW done, NEW cases, NEW kinds, "none" \in kinds
  PROVE  \E p : Bounded(p, touched, own, done, cases, kinds)
<1>1. disk.txn.kind = "none"  BY DEF Ready, NoTxn
<1>2. QED  BY <1>1, BoundsAreThere

LEMMA PlainStep ==
  ASSUME NEW p, Within(p), Done(p), Ready, p.cases = {}, p.own = {} \/ Owning,
         \A m \in p.done : PushMessage(m)
  PROVE  Stepped
<1>1. \A c \in Cases : Ending(c)
  <2> SUFFICES ASSUME NEW c \in Cases PROVE Ending(c)  OBVIOUS
  <2>1. disk.txn.kind = "none" /\ p.from = disk  BY ReadyStart
  <2>2. disk.root[c] = "active" => disk'.root[c] # "archived"
    BY <2>1 DEF Done, Reach
  <2>3. QED  BY <2>1, <2>2 DEF Ending
<1>2. QED  BY <1>1 DEF Stepped

LEMMA CaseCommandSteps ==
  ASSUME Inv, CaseCommand
  PROVE  Stepped
<1>1. PICK c \in Cases :
        \/ \E S \in AtMostOne : CreateCase(c, S)
        \/ \E m \in Messages : AddMessageToCase(c, m)
        \/ \E m \in Messages : RemoveMessageFromCase(c, m)
        \/ ArchiveCase(c)
        \/ UnarchiveCase(c)
        \/ TrashCase(c)
        \/ DeleteCase(c)
        \/ \E other \in Cases : MergeCase(c, other)
        \/ \E m \in Messages \cup {None} : NewDraft(c, m)
        \/ \E i \in {"upload", "send"} : QueueDraft(c, i)
        \/ RemoveDraft(c)
  BY DEF CaseCommand
<1>2. CASE \E S \in AtMostOne : CreateCase(c, S)
  <2>1. PICK S \in SUBSET Messages : CreateCase(c, S)  BY <1>2 DEF AtMostOne
  <2>2. Ready  BY <2>1 DEF CreateCase
  <2>3. PICK p : Bounded(p, S, {}, {}, {}, {"none", "case_create"})
    BY <2>2, ReadyBounds
  <2>4. QED  BY <2>1, <2>2, <2>3, CreateCaseIsDone, PlainStep DEF Bounded
<1>3. CASE \E m \in Messages : AddMessageToCase(c, m)
  <2>1. PICK m \in Messages : AddMessageToCase(c, m)  BY <1>3
  <2>2. Ready  BY <2>1 DEF AddMessageToCase
  <2>3. PICK p : Bounded(p, {m}, {}, {}, {}, {"none"})
    BY <2>2, ReadyBounds
  <2>4. QED  BY <2>1, <2>2, <2>3, AddMessageIsDone, PlainStep DEF Bounded
<1>4. CASE \E m \in Messages : RemoveMessageFromCase(c, m)
  <2>1. PICK m \in Messages : RemoveMessageFromCase(c, m)  BY <1>4
  <2>2. Ready  BY <2>1 DEF RemoveMessageFromCase
  <2>3. PICK p : Bounded(p, {m}, {}, {}, {}, {"none", "case_message_removed"})
    BY <2>2, ReadyBounds
  <2>4. QED  BY <2>1, <2>2, <2>3, RemoveMessageIsDone, PlainStep DEF Bounded
<1>5. CASE ArchiveCase(c)
  <2>2. Ready  BY <1>5 DEF ArchiveCase
  <2>3. PICK p : Bounded(p, {}, {}, {}, {c}, {"none", "case_archive"})
    BY <2>2, ReadyBounds
  <2>4. PICK q : Narrower(q, p) /\ q.kinds = {"case_archive"}
    <3> DEFINE q == [from |-> p.from, whole |-> p.whole, touched |-> p.touched, own |-> p.own,
                     done |-> p.done, cases |-> p.cases, kinds |-> {"case_archive"}]
    <3>1. Narrower(q, p) /\ q.kinds = {"case_archive"}  BY <2>3 DEF Narrower, Bounded
    <3>2. QED  BY <3>1
  <2>5. Done(p) /\ (disk'.txn # NoTxn \/ Finished(disk', c))
    BY <1>5, <2>3, <2>4, ArchiveCaseEnds DEF Bounded
  <2>6. \A b \in Cases : Ending(b)
    <3> SUFFICES ASSUME NEW b \in Cases PROVE Ending(b)  OBVIOUS
    <3>1. disk.txn.kind = "none" /\ p.from = disk  BY <2>2, <2>3, ReadyStart DEF Bounded
    <3>2. b # c /\ disk.root[b] = "active" => disk'.root[b] # "archived"
      BY <2>3, <2>5, <3>1 DEF Bounded, Done, Reach
    <3>3. QED  BY <2>5, <3>1, <3>2 DEF Ending
  <2>7. QED  BY <2>3, <2>5, <2>6 DEF Bounded, Stepped
<1>6. CASE UnarchiveCase(c)
  <2>2. Ready  BY <1>6 DEF UnarchiveCase
  <2>3. PICK p : Bounded(p, {}, {}, {}, {}, {"none"})
    BY <2>2, ReadyBounds
  <2>4. QED  BY <1>6, <2>2, <2>3, UnarchiveCaseIsDone, PlainStep DEF Bounded
<1>7. CASE TrashCase(c)
  <2>2. Ready  BY <1>7 DEF TrashCase
  <2>3. PICK p : Bounded(p, disk.items[c], disk.items[c], {}, {}, {"none", "case_trash"})
    BY <2>2, ReadyBounds
  <2>4. Owning  BY <1>7 DEF Owning
  <2>5. QED  BY <1>7, <2>2, <2>3, <2>4, TrashCaseIsDone, PlainStep DEF Bounded
<1>8. CASE DeleteCase(c)
  <2>2. Ready  BY <1>8 DEF DeleteCase
  <2>3. PICK p : Bounded(p, {}, {}, {}, {}, {"none", "case_deleted"})
    BY <2>2, ReadyBounds
  <2>4. QED  BY <1>8, <2>2, <2>3, DeleteCaseIsDone, PlainStep DEF Bounded
<1>9. CASE \E other \in Cases : MergeCase(c, other)
  <2>1. PICK other \in Cases : MergeCase(c, other)  BY <1>9
  <2>2. Ready  BY <2>1 DEF MergeCase
  <2>3. PICK p : Bounded(p, {}, {}, {}, {}, {"none"})
    BY <2>2, ReadyBounds
  <2>4. QED  BY <2>1, <2>2, <2>3, MergeCaseIsDone, PlainStep DEF Bounded
<1>10. CASE (\E m \in Messages \cup {None} : NewDraft(c, m)) \/ RemoveDraft(c)
  <2>2. Ready  BY <1>10 DEF NewDraft, RemoveDraft
  <2>3. PICK p : Bounded(p, {}, {}, {}, {}, {"none"})
    BY <2>2, ReadyBounds
  <2>4. QED  BY <1>10, <2>2, <2>3, DraftsAreDone, PlainStep DEF Bounded
<1>11. CASE \E i \in {"upload", "send"} : QueueDraft(c, i)
  <2>1. PICK i \in {"upload", "send"} : QueueDraft(c, i)  BY <1>11
  <2>2. Ready  BY <2>1 DEF QueueDraft
  <2>3. PICK p : Bounded(p, {}, {}, {}, {}, {"none", "draft_queue"})
    BY <2>2, ReadyBounds
  <2>4. QED  BY <2>1, <2>2, <2>3, QueueDraftIsDone, PlainStep DEF Bounded
<1>12. QED
  BY <1>1, <1>2, <1>3, <1>4, <1>5, <1>6, <1>7, <1>8, <1>9, <1>10, <1>11

LEMMA MessageCommandSteps ==
  ASSUME Inv, MessageCommand
  PROVE  Stepped
<1>1. PICK m \in Messages :
        \/ \E k \in {"spam", "trashed"} : Discard(m, k)
        \/ \E k \in {"spam", "trashed"} : UnmarkDiscarded(m, k)
        \/ Purge(m)
        \/ \E box \in Mailboxes : PullSees(m, box)
        \/ ReconcileRemoteMissing(m)
  BY DEF MessageCommand, SpamMessage, TrashMessage, UnspamMessage, UntrashMessage
<1>2. CASE \E k \in {"spam", "trashed"} : Discard(m, k)
  <2>1. PICK k \in {"spam", "trashed"} : Discard(m, k)  BY <1>2
  <2>2. Ready  BY <2>1 DEF Discard
  <2>3. PICK p : Bounded(p, {m}, {m}, {}, {}, {"none", "message_discard"})
    BY <2>2, ReadyBounds
  <2>4. Owning  BY <2>1 DEF Owning
  <2>5. QED  BY <2>1, <2>2, <2>3, <2>4, DiscardIsDone, PlainStep DEF Bounded
<1>3. CASE \E k \in {"spam", "trashed"} : UnmarkDiscarded(m, k)
  <2>1. PICK k \in {"spam", "trashed"} : UnmarkDiscarded(m, k)  BY <1>3
  <2>2. Ready  BY <2>1 DEF UnmarkDiscarded
  <2>3. PICK p : Bounded(p, {m}, {}, {}, {}, {"none", "message_undo"})
    BY <2>2, ReadyBounds
  <2>4. QED  BY <2>1, <2>2, <2>3, UnmarkIsDone, PlainStep DEF Bounded
<1>4. CASE Purge(m)
  <2>2. Ready  BY <1>4 DEF Purge
  <2>3. PICK p : Bounded(p, {}, {m}, {}, {}, {"none"})
    BY <2>2, ReadyBounds
  <2>4. Owning  BY <1>4 DEF Owning
  <2>5. QED  BY <1>4, <2>2, <2>3, <2>4, PurgeIsDone, PlainStep DEF Bounded
<1>5. CASE \E box \in Mailboxes : PullSees(m, box)
  <2>1. PICK box \in Mailboxes : PullSees(m, box)  BY <1>5
  <2>2. Ready  BY <2>1 DEF PullSees
  <2>3. PICK p : Bounded(p, {m}, {m}, {}, {}, {"none"})
    BY <2>2, ReadyBounds
  <2>4. Owning  BY <2>1 DEF Owning
  <2>5. QED  BY <2>1, <2>2, <2>3, <2>4, PullSeesIsDone, PlainStep DEF Bounded
<1>6. CASE ReconcileRemoteMissing(m)
  <2>2. Ready  BY <1>6 DEF ReconcileRemoteMissing
  <2>3. PICK p : Bounded(p, {m}, {m}, {}, {}, {"none"})
    BY <2>2, ReadyBounds
  <2>4. Owning  BY <1>6 DEF Owning
  <2>5. QED  BY <1>6, <2>2, <2>3, <2>4, MissingIsDone, PlainStep DEF Bounded
<1>7. QED  BY <1>1, <1>2, <1>3, <1>4, <1>5, <1>6

LEMMA NotificationCommandSteps ==
  ASSUME Inv, NotificationCommand
  PROVE  Stepped
<1>1. PICK n \in Notifications :
        \/ MakeNotification(n)
        \/ \E m \in Messages : CreateNotification(n, m)
        \/ \E m \in Messages : NotificationAddMessage(n, m)
        \/ \E m \in Messages : NotificationRemoveMessage(n, m)
        \/ \E m \in Messages, to \in Notifications : NotificationMove(n, to, m)
        \/ NotificationDelete(n)
  BY DEF NotificationCommand
<1>2. CASE MakeNotification(n)
  <2>2. Ready  BY <1>2 DEF MakeNotification
  <2>3. PICK p : Bounded(p, {}, {}, {}, {}, {"none"})
    BY <2>2, ReadyBounds
  <2>4. QED  BY <1>2, <2>2, <2>3, MakeNotificationIsDone, PlainStep DEF Bounded
<1>3. CASE \E m \in Messages : CreateNotification(n, m)
  <2>1. PICK m \in Messages : CreateNotification(n, m)  BY <1>3
  <2>2. Ready  BY <2>1 DEF CreateNotification
  <2>3. PICK p : Bounded(p, {m}, {}, {}, {}, {"none", "notification_create"})
    BY <2>2, ReadyBounds
  <2>4. QED  BY <2>1, <2>2, <2>3, CreateNotificationIsDone, PlainStep DEF Bounded
<1>4. CASE \E m \in Messages : NotificationAddMessage(n, m)
  <2>1. PICK m \in Messages : NotificationAddMessage(n, m)  BY <1>4
  <2>2. Ready  BY <2>1 DEF NotificationAddMessage
  <2>3. PICK p : Bounded(p, {m}, {}, {}, {}, {"none", "notification_message_add"})
    BY <2>2, ReadyBounds
  <2>4. QED  BY <2>1, <2>2, <2>3, NotificationAddIsDone, PlainStep DEF Bounded
<1>5. CASE \E m \in Messages : NotificationRemoveMessage(n, m)
  <2>1. PICK m \in Messages : NotificationRemoveMessage(n, m)  BY <1>5
  <2>2. Ready  BY <2>1 DEF NotificationRemoveMessage
  <2>3. PICK p : Bounded(p, {m}, {}, {}, {}, {"none"})
    BY <2>2, ReadyBounds
  <2>4. QED  BY <2>1, <2>2, <2>3, NotificationRemoveIsDone, PlainStep DEF Bounded
<1>6. CASE \E m \in Messages, to \in Notifications : NotificationMove(n, to, m)
  <2>1. PICK m \in Messages, to \in Notifications : NotificationMove(n, to, m)  BY <1>6
  <2>2. Ready  BY <2>1 DEF NotificationMove
  <2>3. PICK p : Bounded(p, {m}, {}, {}, {}, {"none", "notification_message_move"})
    BY <2>2, ReadyBounds
  <2>4. QED  BY <2>1, <2>2, <2>3, NotificationMoveIsDone, PlainStep DEF Bounded
<1>7. CASE NotificationDelete(n)
  <2>2. Ready  BY <1>7 DEF NotificationDelete
  <2>3. PICK p : Bounded(p, {}, {}, {}, {}, {"none", "notification_delete"})
    BY <2>2, ReadyBounds
  <2>4. QED  BY <1>7, <2>2, <2>3, NotificationDeleteIsDone, PlainStep DEF Bounded
<1>8. QED  BY <1>1, <1>2, <1>3, <1>4, <1>5, <1>6, <1>7

LEMMA PushCommandSteps ==
  ASSUME Inv, PushCommand
  PROVE  Stepped
<1>1. CASE \E m \in Messages : PushMessage(m)
  <2>1. PICK m \in Messages : PushMessage(m)  BY <1>1
  <2>2. Ready  BY <2>1 DEF PushMessage, CanPush
  <2>3. PICK p : Bounded(p, {}, {}, {m}, {}, {"none"})
    BY <2>2, ReadyBounds
  <2>4. QED  BY <2>1, <2>2, <2>3, PushMessageIsDone, PlainStep DEF Bounded
<1>2. CASE \E m \in Messages : PushFails(m)
  <2>1. PICK m \in Messages : PushFails(m)  BY <1>2
  <2>2. Ready  BY <2>1 DEF PushFails, CanPush
  <2>3. PICK p : Bounded(p, {}, {}, {}, {}, {"none"})
    BY <2>2, ReadyBounds
  <2>4. QED  BY <2>1, <2>2, <2>3, PushFailsIsDone, PlainStep DEF Bounded
<1>3. CASE \E c \in Cases : PushDraft(c)
  <2>1. PICK c \in Cases : PushDraft(c)  BY <1>3
  <2>2. Ready  BY <2>1 DEF PushDraft
  <2>3. PICK p : Bounded(p, {}, {}, {}, {}, {"none"})
    BY <2>2, ReadyBounds
  <2>4. QED  BY <2>1, <2>2, <2>3, PushDraftIsDone, PlainStep DEF Bounded
<1>4. CASE PushSkips
  <2>2. Ready  BY <1>4 DEF PushSkips
  <2>3. PICK p : Bounded(p, {}, {}, {}, {}, {"none"})
    BY <2>2, ReadyBounds
  <2>4. QED  BY <1>4, <2>2, <2>3, PushSkipsIsDone, PlainStep DEF Bounded
<1>5. QED  BY <1>1, <1>2, <1>3, <1>4 DEF PushCommand

LEMMA RepairSteps ==
  ASSUME Inv, DoctorRepair
  PROVE  Stepped
<1>1. disk.txn.kind = "case_archive"  BY DEF DoctorRepair, Repairable
<1>2. PICK p : Bounded(p, {}, {}, {}, {}, {"none", "case_archive"})
  BY <1>1, BoundsAreThere
<1>3. PICK q : Narrower(q, p) /\ q.kinds = {"case_archive"}
  <2> DEFINE q == [from |-> p.from, whole |-> p.whole, touched |-> p.touched, own |-> p.own,
                   done |-> p.done, cases |-> p.cases, kinds |-> {"case_archive"}]
  <2>1. Narrower(q, p) /\ q.kinds = {"case_archive"}  BY <1>2 DEF Narrower, Bounded
  <2>2. QED  BY <2>1
<1>4. Done(p) /\ (\/ disk'.txn # NoTxn \/ Finished(disk', disk.txn.on)
                  \/ disk'.root[disk.txn.on] = "active")
  BY <1>2, <1>3, DoctorRepairEnds DEF Bounded
<1>5. \A c \in Cases : Ending(c)
  BY <1>1, <1>4 DEF Ending
<1>6. QED  BY <1>2, <1>4, <1>5 DEF Bounded, Stepped

LEMMA RefreshSteps ==
  ASSUME Inv, RefreshViews
  PROVE  Stepped
<1>1. Ready  BY DEF RefreshViews
<1>2. PICK p : Bounded(p, {}, {}, {}, {}, {"none"})
  BY <1>1, ReadyBounds
<1>3. QED  BY <1>1, <1>2, RefreshViewsIsDone, PlainStep DEF Bounded

LEMMA NextSteps ==
  ASSUME Inv, Next
  PROVE  Stepped
BY CaseCommandSteps, MessageCommandSteps, NotificationCommandSteps, PushCommandSteps,
   RepairSteps, RefreshSteps DEF Next

LEMMA InvInit == Init => Inv
<1> SUFFICES ASSUME Init PROVE Inv  OBVIOUS
<1>1. /\ disk.root = [c \in Cases |-> "none"] /\ disk.items = [c \in Cases |-> {}]
      /\ disk.draft = [c \in Cases |-> NoDraft] /\ disk.open = {}
      /\ disk.coll = [n \in Notifications |-> {}] /\ disk.disp = [k \in Dispositions |-> {}]
      /\ disk.push = [m \in Messages |-> NoPush] /\ disk.stored = [m \in Messages |-> "all"]
      /\ disk.triage = Messages /\ disk.txn = NoTxn
  BY DEF Init
<1>2. disk \in Disk /\ crashes = 0
  BY DEF Init, Disk, Transactions, NoDraft, NoPush, MessagePushActions, Mailboxes
<1>3. \A m \in Messages : /\ CasesWith(disk, m) = {} /\ NotificationsOf(disk, m) = {}
                          /\ DispositionsOf(disk, m) = {}
  BY <1>1 DEF CasesWith, NotificationsOf, DispositionsOf
<1>4. Sound(disk)
  BY <1>1, <1>3 DEF Sound, Agreement, NoDraft, NoPush
<1>5. Whole(disk)
  BY <1>1, <1>3 DEF Whole, TriageCandidate
<1>6. QED  BY <1>2, <1>4, <1>5, CaseStoreAssumption DEF Inv, TypeOK

(* What the bounds of a command leave of the invariant. *)
LEMMA SteppedKeepsInv ==
  ASSUME Inv, Stepped
  PROVE  Inv'
<1>1. PICK p : Within(p) /\ Done(p)  BY DEF Stepped
<1>2. disk' \in Disk /\ Sound(disk')  BY <1>1, ReachIsSound DEF Done
<1>3. crashes' \in 0 .. MaxCrashes  BY <1>1 DEF Done
<1>4. crashes' = 0 => crashes = 0
  BY <1>1, CaseStoreAssumption DEF Done, Inv, TypeOK
<1>5. crashes' = 0 /\ disk'.txn.kind \in {"none", "case_archive"} => Whole(disk')
  BY <1>1, <1>4 DEF Done, Within, Restful
<1>6. QED  BY <1>2, <1>3, <1>5 DEF Inv, TypeOK, Disk, Sound, Whole

LEMMA InvNext == Inv /\ [Next]_vars => Inv'
<1> SUFFICES ASSUME Inv, [Next]_vars PROVE Inv'  OBVIOUS
<1>1. CASE Next  BY <1>1, NextSteps, SteppedKeepsInv
<1>2. CASE UNCHANGED vars
  BY <1>2 DEF vars, Inv, TypeOK
<1>3. QED  BY <1>1, <1>2

(* Every workspace a command writes, whole or cut short by a crash, is one *)
(* the next command can read: a file of the right kind for everything, and *)
(* a transaction record that names what it is about.                        *)
THEOREM TypeCorrect == Spec => []TypeOK
<1>1. Inv => TypeOK  BY DEF Inv
<1>2. QED  BY <1>1, InvInit, InvNext, PTL DEF Spec

(* No command, wherever the process dies, leaves a message in two          *)
(* dispositions or notifications or in one of each, and none leaves a      *)
(* purged message referenced by a case, a notification, a draft or a push: *)
(* the order of the writes in set_message_disposition and in               *)
(* set_direct_message_notification is enough.                               *)
THEOREM ReferencesStaySound == Spec => []ReferencesAreSound
<1>1. Inv => ReferencesAreSound
  BY DEF Inv, Sound, Agreement, ReferencesAreSound, CollectionsAgree, PurgedIsUnreferenced
<1>2. QED  BY <1>1, InvInit, InvNext, PTL DEF Spec

(* As long as no command has died between two writes, a discarded message  *)
(* is in no case and the triage directory shows exactly the messages filed *)
(* nowhere, also after commands that a failed check has stopped half-way.   *)
THEOREM FilingStaysWhole == Spec => []FilingIsWhole
<1>1. Inv => FilingIsWhole
  <2> SUFFICES ASSUME Inv, crashes = 0, disk.txn = NoTxn PROVE Whole(disk)
    BY DEF FilingIsWhole, DiscardedIsInNoCase, TriageViewsAgree, Whole
  <2>1. QED  BY DEF Inv, NoTxn
<1>2. QED  BY <1>1, InvInit, InvNext, PTL DEF Spec

(* A push whose remote effects have started is left as it is by every      *)
(* command but the push that carries it through, which alone may end it.    *)
THEOREM StartedPushStays == Spec => StartedPushIsKept
<1> DEFINE A == \A m \in Messages :
                  disk.push[m].started => \/ disk'.push[m] = disk.push[m]
                                          \/ disk'.push[m] = NoPush /\ PushMessage(m)
<1>1. Inv /\ [Next]_vars => [A]_vars
  <2> SUFFICES ASSUME Inv, Next PROVE A  OBVIOUS
  <2>1. PICK p : Within(p) /\ Done(p) /\ \A m \in p.done : PushMessage(m)
    BY NextSteps DEF Stepped
  <2>2. p.from = disk /\ disk' \in Reach(p)  BY <2>1 DEF Within, Done
  <2>3. \A m \in Messages : disk.push[m].started =>
          disk'.push[m] = disk.push[m] \/ (m \in p.done /\ disk'.push[m] = NoPush)
    BY <2>2 DEF Reach
  <2>4. QED  BY <2>1, <2>3
<1> HIDE DEF A
<1>2. Spec => [][A]_vars  BY <1>1, InvInit, InvNext, PTL DEF Spec
<1>3. QED  BY <1>2 DEF A, StartedPushIsKept

(* Whenever the archive of a case ends, run through or resumed by doctor   *)
(* repair after a crash between any two of its writes, its status says     *)
(* whether work is pending and no message that may be archived is left in  *)
(* the inbox without its push.                                              *)
THEOREM ArchiveEndsWhole == Spec => ArchiveIsFinished
<1> DEFINE A == \A c \in Cases : Ending(c)
<1>1. Inv /\ [Next]_vars => [A]_vars
  <2> SUFFICES ASSUME Inv, Next PROVE A  OBVIOUS
  <2>1. QED  BY NextSteps DEF Stepped
<1> HIDE DEF A
<1>2. Spec => [][A]_vars  BY <1>1, InvInit, InvNext, PTL DEF Spec
<1>3. QED  BY <1>2 DEF A, Ending, Finished, ArchiveIsFinished

-----------------------------------------------------------------------------
(* MessageLife.                                                             *)

LifeOf(d, m) == IF d.stored[m] = "none" THEN "purged" ELSE StatusOf(d, m)

Kept == {"triage", "case", "archived", "notification"}
Unfiled == {"triage"} \cup Dispositions

(* Every message goes from one place to another, or stays. *)
LEMMA Moves ==
  ASSUME NEW S \in SUBSET Messages, NEW from, NEW to,
         \A m \in S : LifeOf(disk, m) \in from /\ LifeOf(disk', m) \in to,
         \A m \in Messages \ S : LifeOf(disk', m) = LifeOf(disk, m)
  PROVE  Abstract!Move(S, from, to)
<1> DEFINE dest == [m \in S |-> LifeOf(disk', m)]
<1>1. dest \in [S -> to]  OBVIOUS
<1>2. \A m \in Messages : Life(m)' = LifeOf(disk', m) /\ Life(m) = LifeOf(disk, m)
  BY DEF Life, LifeOf
<1>3. [m \in Messages |-> Life(m)']
        = [m \in Messages |-> IF m \in S THEN dest[m] ELSE [n \in Messages |-> Life(n)][m]]
  BY <1>2
<1>4. \A m \in S : [n \in Messages |-> Life(n)][m] \in from
  BY <1>2
<1> HIDE DEF dest
<1>5. QED  BY <1>1, <1>3, <1>4 DEF Abstract!Move

LEMMA StatusIsIn ==
  ASSUME NEW d, NEW m, DispositionsOf(d, m) # {}
  PROVE  StatusOf(d, m) \in DispositionsOf(d, m) /\ StatusOf(d, m) \in Dispositions
BY DEF StatusOf, DispositionsOf

LEMMA StatusIsKept ==
  ASSUME NEW d, NEW m, DispositionsOf(d, m) = {}
  PROVE  /\ StatusOf(d, m) \in Kept
         /\ NotificationsOf(d, m) = {} =>
              /\ CasesWith(d, m) = {} => StatusOf(d, m) = "triage"
              /\ CasesWith(d, m) # {} /\ (\A c \in CasesWith(d, m) : d.root[c] \in Roots)
                   => StatusOf(d, m) \in {"case", "archived"}
<1>1. StatusOf(d, m) = IF NotificationsOf(d, m) # {} THEN "notification"
                       ELSE IF HasActiveReference(d, m) THEN "case"
                       ELSE IF HasArchivedReference(d, m) THEN "archived" ELSE "triage"
  BY DEF StatusOf
<1>2. CasesWith(d, m) = {} => ~HasActiveReference(d, m) /\ ~HasArchivedReference(d, m)
  BY DEF HasActiveReference, HasArchivedReference
<1>3. \A c \in CasesWith(d, m) : d.root[c] # "none"  BY DEF CasesWith
<1>4. CasesWith(d, m) # {} /\ (\A c \in CasesWith(d, m) : d.root[c] \in Roots)
        => HasActiveReference(d, m) \/ HasArchivedReference(d, m)
  BY <1>3 DEF Roots, HasActiveReference, HasArchivedReference
<1>5. QED  BY <1>1, <1>2, <1>4 DEF Kept

LEMMA LifeIsAPlace ==
  ASSUME NEW d, NEW m
  PROVE  /\ LifeOf(d, m) \in Kept \cup Dispositions \cup {"purged"}
         /\ d.stored[m] # "none" => LifeOf(d, m) \in Kept \cup Dispositions
         /\ CasesWith(d, m) = {} /\ NotificationsOf(d, m) = {} =>
              LifeOf(d, m) \in Unfiled \cup {"purged"}
         /\ CasesWith(d, m) = {} /\ NotificationsOf(d, m) = {} /\ d.stored[m] # "none" =>
              LifeOf(d, m) \in Unfiled
<1>1. StatusOf(d, m) \in Kept \cup Dispositions  BY StatusIsIn, StatusIsKept
<1>2. CasesWith(d, m) = {} /\ NotificationsOf(d, m) = {} => StatusOf(d, m) \in Unfiled
  BY StatusIsIn, StatusIsKept DEF Unfiled
<1>3. QED  BY <1>1, <1>2 DEF LifeOf

(* A command with nothing of its own files messages, or leaves them.        *)
LEMMA FilesOnly ==
  ASSUME NEW p, Within(p), Done(p), p.own = {}
  PROVE  Abstract!Next
<1> DEFINE S == {m \in Messages : LifeOf(disk', m) # LifeOf(disk, m)}
<1>0. \A m \in Messages : Agreement(disk, m)  BY ReachIsSound DEF Within, Sound
<1>1. \A m \in Messages : /\ disk'.stored[m] = disk.stored[m]
                          /\ DispositionsOf(disk', m) \subseteq DispositionsOf(disk, m)
  BY DEF Within, Done, Reach, DispositionsOf
<1>2. ASSUME NEW m \in S
      PROVE  LifeOf(disk, m) \in Kept \cup Dispositions /\ LifeOf(disk', m) \in Kept
  <2>1. disk.stored[m] # "none" /\ disk'.stored[m] # "none"  BY <1>1 DEF LifeOf
  <2>2. DispositionsOf(disk', m) = {}
    <3> SUFFICES ASSUME DispositionsOf(disk', m) # {} PROVE FALSE  OBVIOUS
    <3>1. StatusOf(disk', m) \in DispositionsOf(disk, m)  BY <1>1, StatusIsIn
    <3>2. StatusOf(disk, m) \in DispositionsOf(disk, m)  BY <3>1, StatusIsIn
    <3>3. StatusOf(disk', m) = StatusOf(disk, m)
      BY <1>0, <3>1, <3>2 DEF Agreement
    <3>4. QED  BY <2>1, <3>3 DEF LifeOf
  <2>3. StatusOf(disk', m) \in Kept  BY <2>2, StatusIsKept
  <2>4. QED  BY <2>1, <2>3, LifeIsAPlace DEF LifeOf
<1>3. \A m \in Messages \ S : LifeOf(disk', m) = LifeOf(disk, m)  OBVIOUS
<1>4. S \in SUBSET Messages  OBVIOUS
<1> HIDE DEF S
<1>5. Abstract!Move(S, Kept \cup Dispositions, Kept)  BY <1>2, <1>3, <1>4, Moves
<1>6. Abstract!File(S)  BY <1>5 DEF Abstract!File, Abstract!Kept, Abstract!Discarded, Kept, Dispositions
<1>7. QED  BY <1>4, <1>6 DEF Abstract!Next

(* A command about one message, m.                                          *)
LEMMA LoneMove ==
  ASSUME NEW m \in Messages, \A j \in Messages \ {m} : LifeOf(disk', j) = LifeOf(disk, j),
         \/ LifeOf(disk', m) = LifeOf(disk, m)
         \/ LifeOf(disk, m) \in Unfiled /\ LifeOf(disk', m) \in Unfiled
         \/ LifeOf(disk, m) \in Dispositions
         \/ LifeOf(disk, m) = "purged" /\ LifeOf(disk', m) \in Unfiled
  PROVE  Abstract!Next
<1> DEFINE S == {m}
<1>s. S \in SUBSET Messages /\ {} \in SUBSET Messages  OBVIOUS
<1>m. /\ \A j \in S : j = m
      /\ \A j \in Messages \ S : LifeOf(disk', j) = LifeOf(disk, j)
  OBVIOUS
<1>d. /\ Abstract!Discarded = Dispositions /\ Abstract!Kept = Kept
  BY DEF Abstract!Discarded, Abstract!Kept, Dispositions, Kept
<1> HIDE DEF S
<1>1. CASE LifeOf(disk', m) = LifeOf(disk, m)
  <2>1. \A j \in Messages \ {} : LifeOf(disk', j) = LifeOf(disk, j)  BY <1>1
  <2>2. Abstract!Move({}, Kept \cup Dispositions, Kept)  BY <1>s, <2>1, Moves
  <2>3. Abstract!File({})  BY <2>2, <1>d DEF Abstract!File
  <2>4. QED  BY <1>s, <2>3 DEF Abstract!Next
<1>2. CASE LifeOf(disk, m) \in Unfiled /\ LifeOf(disk', m) \in Dispositions
  <2>1. Abstract!Move(S, {"triage"} \cup Dispositions, Dispositions)
    BY <1>s, <1>m, <1>2, Moves DEF Unfiled
  <2>2. Abstract!Discard(S)  BY <2>1, <1>d DEF Abstract!Discard
  <2>3. QED  BY <1>s, <2>2 DEF Abstract!Next
<1>3. CASE LifeOf(disk, m) \in Kept \cup Dispositions /\ LifeOf(disk', m) \in Kept
  <2>1. Abstract!Move(S, Kept \cup Dispositions, Kept)  BY <1>s, <1>m, <1>3, Moves
  <2>2. Abstract!File(S)  BY <2>1, <1>d DEF Abstract!File
  <2>3. QED  BY <1>s, <2>2 DEF Abstract!Next
<1>4. CASE LifeOf(disk, m) \in Dispositions /\ LifeOf(disk', m) = "purged"
  <2>1. Abstract!Move(S, Dispositions, {"purged"})  BY <1>s, <1>m, <1>4, Moves
  <2>2. Abstract!Purge(S)  BY <2>1, <1>d DEF Abstract!Purge
  <2>3. QED  BY <1>s, <2>2 DEF Abstract!Next
<1>5. CASE LifeOf(disk, m) = "purged" /\ LifeOf(disk', m) \in Unfiled
  <2>1. Abstract!Move(S, {"purged"}, {"triage"} \cup Dispositions)
    BY <1>s, <1>m, <1>5, Moves DEF Unfiled
  <2>2. Abstract!Redeliver(S)  BY <2>1, <1>d DEF Abstract!Redeliver
  <2>3. QED  BY <1>s, <2>2 DEF Abstract!Next
<1>6. QED
  BY <1>1, <1>2, <1>3, <1>4, <1>5, LifeIsAPlace DEF Unfiled, Kept

(* What a command of the other kind leaves: q says which messages it gives  *)
(* or takes a disposition, which dispositions it gives, which cases it      *)
(* removes once their messages are trashed, and which files it changes.     *)
CaseLeft(q, d, c) ==
  \/ d.root[c] = disk.root[c] /\ d.items[c] = disk.items[c]
  \/ c \in q.cases /\ d.root[c] = "none" /\ disk.items[c] \subseteq d.disp["trashed"]
FileLeft(q, d, j) == d.stored[j] = disk.stored[j] \/ <<j, d.stored[j]>> \in q.copies
DispLeft(q, d, k, j) ==
  /\ j \in d.disp[k] => j \in disk.disp[k] \/ (j \in q.messages /\ k \in q.marks)
  /\ j \in disk.disp[k] => j \in d.disp[k] \/ j \in q.messages

Near(q) ==
  {d \in Disk :
     /\ d.open = disk.open /\ d.coll = disk.coll
     /\ \A c \in Cases : CaseLeft(q, d, c)
     /\ \A j \in Messages : FileLeft(q, d, j)
     /\ \A k \in Dispositions : \A j \in Messages : DispLeft(q, d, k, j)}

At(r, d, q) == Stands(r, d, Near(q), Near(q))

LEMMA NearParts ==
  ASSUME NEW q, NEW d \in Near(q)
  PROVE  /\ d \in Disk /\ d.open = disk.open /\ d.coll = disk.coll
         /\ \A c \in Cases : CaseLeft(q, d, c)
         /\ \A j \in Messages : FileLeft(q, d, j)
         /\ \A k \in Dispositions : \A j \in Messages : DispLeft(q, d, k, j)
BY DEF Near

LEMMA NearStart ==
  ASSUME NEW q, disk \in Disk
  PROVE  disk \in Near(q)
BY DEF Near, CaseLeft, FileLeft, DispLeft

(* What the places of the messages depend on. *)
SamePlaces(d, e) ==
  /\ e.root = d.root /\ e.items = d.items /\ e.open = d.open /\ e.coll = d.coll
  /\ e.disp = d.disp /\ e.stored = d.stored

LEMMA NearSame ==
  ASSUME NEW q, NEW d \in Near(q), NEW e \in Disk, SamePlaces(d, e)
  PROVE  e \in Near(q)
<1>1. \A c \in Cases : CaseLeft(q, e, c)  BY NearParts DEF SamePlaces, CaseLeft
<1>2. \A j \in Messages : FileLeft(q, e, j)  BY NearParts DEF SamePlaces, FileLeft
<1>3. \A k \in Dispositions : \A j \in Messages : DispLeft(q, e, k, j)
  BY NearParts DEF SamePlaces, DispLeft
<1>4. e.open = disk.open /\ e.coll = disk.coll  BY NearParts DEF SamePlaces
<1>5. QED  BY <1>1, <1>2, <1>3, <1>4 DEF Near

LEMMA NearTxn ==
  ASSUME NEW q, NEW d \in Near(q), NEW kind, NEW on, [kind |-> kind, on |-> on] \in Transactions
  PROVE  WithTxn(d, kind, on) \in Near(q)
<1> DEFINE e == WithTxn(d, kind, on)
<1>1. d \in Disk  BY NearParts
<1>2. e \in Disk /\ SamePlaces(d, e)  BY <1>1, WithTxnFields DEF SamePlaces
<1> HIDE DEF e
<1>3. e \in Near(q)  BY <1>2, NearSame
<1>4. QED  BY <1>3 DEF e

LEMMA NearPushed ==
  ASSUME NEW q, NEW d \in Near(q), NEW S \in SUBSET Messages, NEW a \in MessagePushActions
  PROVE  Pushed(d, S, a) \in Near(q) /\ Unpushed(d, S, a) \in Near(q)
<1> DEFINE e == Pushed(d, S, a)
           f == Unpushed(d, S, a)
<1>1. d \in Disk  BY NearParts
<1>2. e \in Disk /\ SamePlaces(d, e)  BY <1>1, PushedFields DEF SamePlaces
<1>3. f \in Disk /\ SamePlaces(d, f)  BY <1>1, UnpushedFields DEF SamePlaces
<1> HIDE DEF e, f
<1>4. e \in Near(q) /\ f \in Near(q)  BY <1>2, <1>3, NearSame
<1>5. QED  BY <1>4 DEF e, f

LEMMA NearShown ==
  ASSUME NEW q, NEW d \in Near(q), NEW S \in SUBSET Messages
  PROVE  Shown(d, S) \in Near(q) /\ Hidden(d, S) \in Near(q) /\ Viewed(d) \in Near(q)
<1> DEFINE e == Shown(d, S)
           f == Hidden(d, S)
           g == Viewed(d)
<1>1. d \in Disk  BY NearParts
<1>2. e \in Disk /\ SamePlaces(d, e)  BY <1>1, ShownFields DEF SamePlaces
<1>3. f \in Disk /\ SamePlaces(d, f)  BY <1>1, HiddenFields DEF SamePlaces
<1>4. g \in Disk /\ SamePlaces(d, g)  BY <1>1, ViewedFields DEF SamePlaces
<1> HIDE DEF e, f, g
<1>5. e \in Near(q) /\ f \in Near(q) /\ g \in Near(q)  BY <1>2, <1>3, <1>4, NearSame
<1>6. QED  BY <1>5 DEF e, f, g

LEMMA NearLoc ==
  ASSUME NEW q, NEW d \in Near(q), NEW m \in Messages, NEW box \in Mailboxes
  PROVE  WithLoc(d, m, box) \in Near(q)
<1> DEFINE e == WithLoc(d, m, box)
<1>1. d \in Disk  BY NearParts
<1>2. e \in Disk /\ SamePlaces(d, e)
  <2>1. e \in Disk  BY <1>1, WithLocFields
  <2>2. QED  BY <1>1, <2>1 DEF WithLoc, Disk, SamePlaces
<1> HIDE DEF e
<1>3. e \in Near(q)  BY <1>2, NearSame
<1>4. QED  BY <1>3 DEF e

LEMMA NearStored ==
  ASSUME NEW q, NEW d \in Near(q), NEW m \in Messages, NEW s \in Copies, <<m, s>> \in q.copies,
         NEW e \in Disk, e.stored = [d.stored EXCEPT ![m] = s],
         e.root = d.root, e.items = d.items, e.open = d.open, e.coll = d.coll, e.disp = d.disp
  PROVE  e \in Near(q)
<1>0. d.stored \in [Messages -> Copies]  BY NearParts, DiskFields
<1>1. \A c \in Cases : CaseLeft(q, e, c)  BY NearParts DEF CaseLeft
<1>2. \A j \in Messages : FileLeft(q, e, j)
  <2> SUFFICES ASSUME NEW j \in Messages PROVE FileLeft(q, e, j)  OBVIOUS
  <2>1. CASE j = m  BY <2>1, <1>0 DEF FileLeft
  <2>2. CASE j # m
    <3>1. e.stored[j] = d.stored[j]  BY <2>2, <1>0
    <3>2. QED  BY <3>1, NearParts DEF FileLeft
  <2>3. QED  BY <2>1, <2>2
<1>3. \A k \in Dispositions : \A j \in Messages : DispLeft(q, e, k, j)
  BY NearParts DEF DispLeft
<1>4. e.open = disk.open /\ e.coll = disk.coll  BY NearParts
<1>5. QED  BY <1>1, <1>2, <1>3, <1>4 DEF Near

LEMMA NearCleared ==
  ASSUME NEW q, NEW d \in Near(q), NEW P,
         \A k, j : <<k, j>> \in P => j \in q.messages /\ (k # "trashed" \/ q.cases = {})
  PROVE  Cleared(d, P) \in Near(q)
<1> DEFINE e == Cleared(d, P)
<1>0. d \in Disk  BY NearParts
<1>1. /\ e \in Disk
      /\ e.disp = [k \in Dispositions |-> {m \in d.disp[k] : <<k, m>> \notin P}]
      /\ e.root = d.root /\ e.items = d.items /\ e.open = d.open /\ e.coll = d.coll
      /\ e.stored = d.stored
  BY <1>0, ClearedFields
<1> HIDE DEF e
<1>2. \A k \in Dispositions : \A j : j \in e.disp[k] <=> j \in d.disp[k] /\ <<k, j>> \notin P
  BY <1>1
<1>3. \A c \in Cases : CaseLeft(q, e, c)
  <2> SUFFICES ASSUME NEW c \in Cases PROVE CaseLeft(q, e, c)  OBVIOUS
  <2>1. CaseLeft(q, d, c)  BY NearParts
  <2>2. q.cases # {} => d.disp["trashed"] \subseteq e.disp["trashed"]
    BY <1>2 DEF Dispositions
  <2>3. QED  BY <2>1, <2>2, <1>1 DEF CaseLeft
<1>4. \A j \in Messages : FileLeft(q, e, j)  BY <1>1, NearParts DEF FileLeft
<1>5. \A k \in Dispositions : \A j \in Messages : DispLeft(q, e, k, j)
  BY <1>2, NearParts DEF DispLeft
<1>6. e.open = disk.open /\ e.coll = disk.coll  BY <1>1, NearParts
<1>7. e \in Near(q)  BY <1>1, <1>3, <1>4, <1>5, <1>6 DEF Near
<1>8. QED  BY <1>7 DEF e

LEMMA NearMarked ==
  ASSUME NEW q, NEW d \in Near(q), NEW k \in Dispositions, k \in q.marks,
         NEW S \in SUBSET Messages, S \subseteq q.messages
  PROVE  Marked(d, k, S) \in Near(q)
<1> DEFINE e == Marked(d, k, S)
<1>0. d \in Disk /\ d.disp \in [Dispositions -> SUBSET Messages]  BY NearParts, DiskFields
<1>1. /\ e \in Disk
      /\ e.disp = [d.disp EXCEPT ![k] = @ \cup S]
      /\ e.root = d.root /\ e.items = d.items /\ e.open = d.open /\ e.coll = d.coll
      /\ e.stored = d.stored
  BY <1>0, MarkedFields
<1> HIDE DEF e
<1>2. e.disp[k] = d.disp[k] \cup S /\ \A l \in Dispositions : l # k => e.disp[l] = d.disp[l]
  BY <1>0, <1>1
<1>3. \A c \in Cases : CaseLeft(q, e, c)
  <2>1. d.disp["trashed"] \subseteq e.disp["trashed"]  BY <1>2 DEF Dispositions
  <2>2. QED  BY <2>1, <1>1, NearParts DEF CaseLeft
<1>4. \A j \in Messages : FileLeft(q, e, j)  BY <1>1, NearParts DEF FileLeft
<1>5. \A l \in Dispositions : \A j \in Messages : DispLeft(q, e, l, j)
  <2> SUFFICES ASSUME NEW l \in Dispositions, NEW j \in Messages PROVE DispLeft(q, e, l, j)
    OBVIOUS
  <2>1. DispLeft(q, d, l, j)  BY NearParts
  <2>2. CASE l = k  BY <2>1, <2>2, <1>2 DEF DispLeft
  <2>3. CASE l # k  BY <2>1, <2>3, <1>2 DEF DispLeft
  <2>4. QED  BY <2>2, <2>3
<1>6. e.open = disk.open /\ e.coll = disk.coll  BY <1>1, NearParts
<1>7. e \in Near(q)  BY <1>1, <1>3, <1>4, <1>5, <1>6 DEF Near
<1>8. QED  BY <1>7 DEF e

LEMMA NearTurned ==
  ASSUME NEW q, NEW d \in Near(q), NEW k \in Dispositions, k \in q.marks,
         k = "trashed" \/ q.cases = {},
         NEW S \in SUBSET Messages, S \subseteq q.messages
  PROVE  /\ \A P \in SUBSET ((Dispositions \ {k}) \X S) : Cleared(d, P) \in Near(q)
         /\ Turned(d, k, S) \in Near(q) /\ Discarded(d, k, S) \in Near(q)
<1>1. ASSUME NEW P \in SUBSET ((Dispositions \ {k}) \X S) PROVE Cleared(d, P) \in Near(q)
  <2>1. \A l, j : <<l, j>> \in P => j \in q.messages /\ (l # "trashed" \/ q.cases = {})
    OBVIOUS
  <2>2. QED  BY <2>1, NearCleared
<1> DEFINE P == (Dispositions \ {k}) \X S
           e == Cleared(d, P)
           f == Marked(e, k, S)
<1>2. e \in Near(q)  BY <1>1
<1> HIDE DEF P, e
<1>3. f \in Near(q)  BY <1>2, NearMarked
<1> HIDE DEF f
<1>4. Hidden(f, S) \in Near(q)  BY <1>3, NearShown
<1>5. QED  BY <1>1, <1>3, <1>4 DEF Turned, Discarded, P, e, f

LEMMA NearDropped ==
  ASSUME NEW q, NEW d \in Near(q), NEW c \in Cases, c \in q.cases,
         disk.items[c] \subseteq d.disp["trashed"]
  PROVE  Dropped(d, c) \in Near(q)
<1> DEFINE e == Dropped(d, c)
<1>0. /\ d \in Disk /\ d.root \in [Cases -> Roots] /\ d.items \in [Cases -> SUBSET Messages]
  BY NearParts, DiskFields
<1>1. /\ e \in Disk
      /\ e.root = [d.root EXCEPT ![c] = "none"] /\ e.items = [d.items EXCEPT ![c] = {}]
      /\ e.open = d.open /\ e.coll = d.coll /\ e.disp = d.disp /\ e.stored = d.stored
  BY <1>0, DroppedFields
<1> HIDE DEF e
<1>2. \A b \in Cases : CaseLeft(q, e, b)
  <2> SUFFICES ASSUME NEW b \in Cases PROVE CaseLeft(q, e, b)  OBVIOUS
  <2>1. CASE b = c
    <3>1. e.root[c] = "none"  BY <1>0, <1>1
    <3>2. QED  BY <2>1, <3>1, <1>1 DEF CaseLeft
  <2>2. CASE b # c
    <3>1. e.root[b] = d.root[b] /\ e.items[b] = d.items[b]  BY <2>2, <1>0, <1>1
    <3>2. QED  BY <3>1, <1>1, NearParts DEF CaseLeft
  <2>3. QED  BY <2>1, <2>2
<1>3. \A j \in Messages : FileLeft(q, e, j)  BY <1>1, NearParts DEF FileLeft
<1>4. \A k \in Dispositions : \A j \in Messages : DispLeft(q, e, k, j)
  BY <1>1, NearParts DEF DispLeft
<1>5. e.open = disk.open /\ e.coll = disk.coll  BY <1>1, NearParts
<1>6. e \in Near(q)  BY <1>1, <1>2, <1>3, <1>4, <1>5 DEF Near
<1>7. QED  BY <1>6 DEF e

LEMMA AtIsNear ==
  ASSUME NEW q, NEW r, NEW d, At(r, d, q), r.ok
  PROVE  d \in Near(q)
BY DEF At, Stands

LEMMA AtStart ==
  ASSUME NEW q, disk \in Disk
  PROVE  At(Start, disk, q) /\ Start.ok
BY NearStart, StartStands DEF At

LEMMA AtPut ==
  ASSUME NEW q, NEW r, NEW d, At(r, d, q), NEW e, r.ok => e \in Near(q)
  PROVE  At(Put(r, e), e, q) /\ Put(r, e).ok = r.ok
BY PutStands DEF At

LEMMA AtBegin ==
  ASSUME NEW q, NEW r, NEW d, At(r, d, q), NEW kind, NEW on,
         [kind |-> kind, on |-> on] \in Transactions
  PROVE  At(BeginTransaction(r, kind, on), WithTxn(d, kind, on), q)
         /\ BeginTransaction(r, kind, on).ok = r.ok
<1>1. r.ok => WithTxn(d, kind, on) \in Near(q)  BY AtIsNear, NearTxn
<1>2. QED  BY <1>1, BeginStands DEF At

LEMMA AtCommit ==
  ASSUME NEW q, NEW r, NEW d, At(r, d, q)
  PROVE  At(Commit(r), WithTxn(d, "none", None), q)
<1>1. [kind |-> "none", on |-> None] \in Transactions  BY DEF Transactions, NoTxn
<1>2. r.ok => WithTxn(d, "none", None) \in Near(q)  BY <1>1, AtIsNear, NearTxn
<1>3. QED  BY <1>2, CommitStands DEF At

LEMMA AtQueue ==
  ASSUME NEW q, NEW r, NEW d, At(r, d, q), NEW S \in SUBSET Messages,
         NEW a \in MessagePushActions
  PROVE  At(QueueActionSteps(r, S, a), Pushed(d, S, a), q)
<1>1. r.ok => \A T \in SUBSET Messages : Pushed(d, T, a) \in Near(q)
  BY AtIsNear, NearPushed
<1>2. r.ok => \A T \in SUBSET (S \ {m \in S : StartedOther(d, m, a)}) :
          Pushed(d, T, a) \in Near(q)
          /\ ((\E m \in S : StartedOther(d, m, a)) => Pushed(d, T, a) \in Near(q))
  BY <1>1
<1>3. QED  BY <1>2, QueueStands DEF At

LEMMA AtUnpushAll ==
  ASSUME NEW q, NEW r, NEW d, At(r, d, q), NEW S \in SUBSET Messages,
         NEW a \in MessagePushActions
  PROVE  At(RemovePendingPushes(r, S, a), Unpushed(d, S, a), q)
<1>1. r.ok => \A T \in SUBSET Messages : Unpushed(d, T, a) \in Near(q)
  BY AtIsNear, NearPushed
<1>2. r.ok => \A T \in SUBSET (S \ {m \in S : d.push[m].act = a /\ d.push[m].started}) :
          Unpushed(d, T, a) \in Near(q)
          /\ ((\E m \in S : d.push[m].act = a /\ d.push[m].started)
                => Unpushed(d, T, a) \in Near(q))
  BY <1>1
<1>3. r.ok /\ (\A m \in S : ~(d.push[m].act = a /\ d.push[m].started))
        => Unpushed(d, S, a) \in Near(q)
  BY <1>1
<1>4. QED  BY <1>2, <1>3, UnpushAllStands DEF At

LEMMA AtClear ==
  ASSUME NEW q, NEW r, NEW d, At(r, d, q), NEW k, NEW m \in q.messages, q.cases = {}
  PROVE  At(ClearDisposition(r, k, m), Cleared(d, {<<k, m>>}), q)
<1>1. r.ok => Cleared(d, {<<k, m>>}) \in Near(q)
  <2> DEFINE P == {<<k, m>>}
  <2>1. \A l, j : <<l, j>> \in P => j \in q.messages /\ (l # "trashed" \/ q.cases = {})
    OBVIOUS
  <2> HIDE DEF P
  <2>2. r.ok => Cleared(d, P) \in Near(q)  BY <2>1, AtIsNear, NearCleared
  <2>3. QED  BY <2>2 DEF P
<1>2. QED  BY <1>1, ClearStands DEF At

LEMMA AtSet ==
  ASSUME NEW q, NEW r, NEW d, At(r, d, q), NEW k \in Dispositions, k \in q.marks,
         NEW m \in Messages, m \in q.messages, q.cases = {}
  PROVE  At(SetDisposition(r, k, m), Turned(d, k, {m}), q)
         /\ SetDisposition(r, k, m).ok = r.ok
<1>1. {m} \in SUBSET Messages /\ {m} \subseteq q.messages  OBVIOUS
<1>2. r.ok => /\ \A P \in SUBSET ((Dispositions \ {k}) \X {m}) : Cleared(d, P) \in Near(q)
              /\ Turned(d, k, {m}) \in Near(q)
  BY <1>1, AtIsNear, NearTurned
<1>3. QED  BY <1>2, SetDispositionStands DEF At, Turned

LEMMA AtUpdate ==
  ASSUME NEW q, NEW r, NEW d, At(r, d, q), NEW k \in Dispositions, k \in q.marks,
         k = "trashed" \/ q.cases = {},
         NEW S \in SUBSET Messages, S \subseteq q.messages
  PROVE  At(UpdateMessages(r, k, S), Discarded(d, k, S), q) /\ UpdateMessages(r, k, S).ok = r.ok
<1>1. ASSUME r.ok, NEW T \in SUBSET S PROVE Discarded(d, k, T) \in Near(q)
  <2>1. T \in SUBSET Messages /\ T \subseteq q.messages  OBVIOUS
  <2>2. QED  BY <1>1, <2>1, AtIsNear, NearTurned
<1>2. ASSUME r.ok, NEW T \in SUBSET S, NEW m \in S
      PROVE  /\ \A P \in SUBSET ((Dispositions \ {k}) \X {m}) :
                   Cleared(Discarded(d, k, T), P) \in Near(q)
             /\ Marked(Cleared(Discarded(d, k, T), (Dispositions \ {k}) \X {m}), k, {m})
                  \in Near(q)
  <2> DEFINE e == Discarded(d, k, T)
  <2>1. e \in Near(q)  BY <1>1, <1>2
  <2> HIDE DEF e
  <2>2. {m} \in SUBSET Messages /\ {m} \subseteq q.messages  OBVIOUS
  <2>3. /\ \A P \in SUBSET ((Dispositions \ {k}) \X {m}) : Cleared(e, P) \in Near(q)
        /\ Turned(e, k, {m}) \in Near(q)
    BY <2>1, <2>2, NearTurned
  <2>4. QED  BY <2>3 DEF e, Turned
<1>3. r.ok => Discardable(d, k, S, Near(q))
  <2> SUFFICES ASSUME r.ok PROVE Discardable(d, k, S, Near(q))  OBVIOUS
  <2>1. \A T \in SUBSET S : Discarded(d, k, T) \in Near(q)  BY <1>1
  <2>2. \A T \in SUBSET S : \A m \in S :
          /\ \A P \in SUBSET ((Dispositions \ {k}) \X {m}) :
               Cleared(Discarded(d, k, T), P) \in Near(q)
          /\ Marked(Cleared(Discarded(d, k, T), (Dispositions \ {k}) \X {m}), k, {m})
               \in Near(q)
    BY <1>2
  <2>3. QED  BY <2>1, <2>2 DEF Discardable
<1>4. QED  BY <1>3, UpdateStands DEF At

LEMMA AtViews ==
  ASSUME NEW q, NEW r, NEW d, At(r, d, q)
  PROVE  At(RefreshDispositionViews(r), d, q)
BY AtIsNear, ViewsStands DEF At

LEMMA AtRender ==
  ASSUME NEW q, NEW r, NEW d, At(r, d, q)
  PROVE  At(RenderRefresh(r), Viewed(d), q)
<1>1. r.ok => Viewed(d) \in Near(q)  BY AtIsNear, NearShown
<1>2. QED  BY <1>1, RenderStands DEF At

LEMMA AtRefresh ==
  ASSUME NEW q, NEW r, NEW d, At(r, d, q), NEW S \in SUBSET Messages
  PROVE  At(RefreshMessages(r, S), Shown(d, S), q)
<1>1. r.ok => \A T \in SUBSET S : Shown(d, T) \in Near(q)  BY AtIsNear, NearShown
<1>2. QED  BY <1>1, RefreshStands DEF At

LEMMA AtRemoveCase ==
  ASSUME NEW q, NEW r, NEW d, At(r, d, q), NEW c \in Cases, c \in q.cases,
         r.ok => disk.items[c] \subseteq d.disp["trashed"]
  PROVE  At(RemoveCaseDir(r, c), Dropped(d, c), q)
<1>1. r.ok => Dropped(d, c) \in Near(q)  BY AtIsNear, NearDropped
<1>2. QED  BY <1>1, RemoveCaseStands DEF At

LEMMA AtEnds ==
  ASSUME Inv, NEW q, NEW r, NEW d, At(r, d, q), Perform(r)
  PROVE  disk' \in Near(q)
<1>1. crashes \in Nat  BY CaseStoreAssumption DEF Inv, TypeOK
<1>2. r.ok => d \in Near(q)  BY AtIsNear
<1>3. QED  BY <1>1, <1>2, PerformEnds DEF At

(* The place of a message that q leaves alone. *)
LEMMA NearFiling ==
  ASSUME NEW q, NEW d \in Near(q), NEW j \in Messages,
         \A c \in q.cases : j \notin disk.items[c]
  PROVE  /\ CasesWith(d, j) = CasesWith(disk, j)
         /\ \A c \in CasesWith(d, j) : d.root[c] = disk.root[c]
         /\ NotificationsOf(d, j) = NotificationsOf(disk, j)
<1>1. NotificationsOf(d, j) = NotificationsOf(disk, j)  BY NearParts DEF NotificationsOf
<1>2. ASSUME NEW c \in Cases
      PROVE  /\ d.root[c] # "none" /\ j \in d.items[c]
                  <=> disk.root[c] # "none" /\ j \in disk.items[c]
             /\ d.root[c] # "none" => d.root[c] = disk.root[c]
  <2>1. CaseLeft(q, d, c)  BY NearParts
  <2>2. QED  BY <2>1 DEF CaseLeft
<1>3. QED  BY <1>1, <1>2 DEF CasesWith

LEMMA NearStatus ==
  ASSUME NEW q, NEW d \in Near(q), NEW j \in Messages, j \notin q.messages,
         \A c \in q.cases : j \notin disk.items[c]
  PROVE  StatusOf(d, j) = StatusOf(disk, j)
<1>1. DispositionsOf(d, j) = DispositionsOf(disk, j)
  BY NearParts DEF DispLeft, DispositionsOf
<1>2. /\ CasesWith(d, j) = CasesWith(disk, j)
      /\ \A c \in CasesWith(d, j) : d.root[c] = disk.root[c]
      /\ NotificationsOf(d, j) = NotificationsOf(disk, j)
  BY NearFiling
<1>3. /\ HasActiveReference(d, j) <=> HasActiveReference(disk, j)
      /\ HasArchivedReference(d, j) <=> HasArchivedReference(disk, j)
  BY <1>2 DEF HasActiveReference, HasArchivedReference
<1>4. QED  BY <1>1, <1>2, <1>3 DEF StatusOf

LEMMA NearLife ==
  ASSUME NEW q, NEW d \in Near(q), NEW j \in Messages, j \notin q.messages,
         \A c \in q.cases : j \notin disk.items[c], \A s : <<j, s>> \notin q.copies
  PROVE  LifeOf(d, j) = LifeOf(disk, j)
<1>1. d.stored[j] = disk.stored[j]  BY NearParts DEF FileLeft
<1>2. QED  BY <1>1, NearStatus DEF LifeOf

(* The bounds q of a command that works for itself. *)
Left(q, messages, marks, cases, copies) ==
  q.messages = messages /\ q.marks = marks /\ q.cases = cases /\ q.copies = copies

LEMMA LeftIsThere ==
  ASSUME NEW messages, NEW marks, NEW cases, NEW copies
  PROVE  \E q : Left(q, messages, marks, cases, copies)
<1> DEFINE q == [messages |-> messages, marks |-> marks, cases |-> cases, copies |-> copies]
<1>1. Left(q, messages, marks, cases, copies)  BY DEF Left
<1> HIDE DEF q
<1>2. QED  BY <1>1

(* A message in no case and no notification, and after the command neither. *)
LEMMA LoneUnfiled ==
  ASSUME NEW m \in Messages, NEW q, Left(q, {m}, Dispositions, {}, {}),
         disk' \in Near(q), disk.stored[m] # "none",
         CasesWith(disk, m) = {}, NotificationsOf(disk, m) = {}
  PROVE  Abstract!Next
<1>1. \A j \in Messages \ {m} : LifeOf(disk', j) = LifeOf(disk, j)
  BY NearLife DEF Left
<1>2. CasesWith(disk', m) = {} /\ NotificationsOf(disk', m) = {}
  BY NearFiling DEF Left
<1>3. disk'.stored[m] # "none"  BY NearParts DEF FileLeft, Left
<1>4. LifeOf(disk, m) \in Unfiled /\ LifeOf(disk', m) \in Unfiled
  BY <1>2, <1>3, LifeIsAPlace
<1>5. QED  BY <1>1, <1>4, LoneMove

LEMMA DiscardMoves ==
  ASSUME Inv, NEW m \in Messages, NEW k \in {"spam", "trashed"}, Discard(m, k)
  PROVE  Abstract!Next
<1> DEFINE M == {m}
           Q == {j \in M : disk.loc[j] \notin {"gone", MailboxOf(k)}}
           others == {"spam", "trash", "unspam", "untrash"} \ {PushOf(k)}
           act == disk.push[m].act
           a == PushOf(k)
           d1 == WithTxn(disk, "message_discard", m)
           d2 == IF act \in others THEN Unpushed(d1, M, act) ELSE d1
           d3 == Pushed(d2, Q, a)
           d4 == Discarded(d3, k, M)
           d5 == WithTxn(d4, "none", None)
           r1 == BeginTransaction(Start, "message_discard", m)
           r2 == IF act \in others THEN RemovePendingPushes(r1, M, act) ELSE r1
           r3 == QueueActionSteps(r2, Q, a)
           r4 == UpdateMessages(r3, k, M)
           r5 == RefreshDispositionViews(r4)
           r6 == Commit(r5)
<1>0. /\ disk \in Disk /\ disk.stored[m] # "none"
      /\ CasesWith(disk, m) = {} /\ NotificationsOf(disk, m) = {}
  BY DEF Inv, TypeOK, Discard, Readable, Referenced
<1>t. [kind |-> "message_discard", on |-> m] \in Transactions  BY DEF Transactions
<1>p. Perform(r6)  BY DEF Discard
<1>q. PICK q : Left(q, M, Dispositions, {}, {})  BY LeftIsThere
<1>m. M \in SUBSET Messages /\ Q \in SUBSET Messages /\ M \subseteq q.messages
  BY <1>q DEF Left
<1>k. /\ a \in MessagePushActions /\ k \in Dispositions /\ act \in MessagePushActions
      /\ k \in q.marks /\ q.cases = {}
  BY <1>0, <1>q, DispositionFields, DiskFields DEF Left
<1>l. Left(q, {m}, Dispositions, {}, {})  BY <1>q
<1> HIDE DEF M, Q, a, act, others
<1>1. At(r1, d1, q)  BY <1>0, <1>t, AtStart, AtBegin
<1> HIDE DEF d1, r1
<1>2. At(r2, d2, q)
  <2>1. At(RemovePendingPushes(r1, M, act), Unpushed(d1, M, act), q)
    BY <1>1, <1>m, <1>k, AtUnpushAll
  <2>2. QED  BY <1>1, <2>1
<1> HIDE DEF d2, r2
<1>3. At(r3, d3, q)  BY <1>2, <1>k, <1>m, AtQueue
<1> HIDE DEF d3, r3
<1>4. At(r4, d4, q)  BY <1>3, <1>k, <1>m, AtUpdate
<1> HIDE DEF d4, r4
<1>5. At(r5, d4, q)  BY <1>4, AtViews
<1> HIDE DEF r5
<1>6. At(r6, d5, q)  BY <1>5, AtCommit
<1> HIDE DEF d5, r6
<1>7. disk' \in Near(q)  BY <1>6, <1>p, AtEnds
<1>8. QED  BY <1>0, <1>7, <1>l, LoneUnfiled

LEMMA MissingMoves ==
  ASSUME Inv, NEW m \in Messages, ReconcileRemoteMissing(m)
  PROVE  Abstract!Next
<1> DEFINE k == "deleted_remote"
           box == "gone"
           d1 == WithLoc(disk, m, box)
           d2 == Turned(disk, k, {m})
           d3 == WithLoc(d2, m, box)
           r1 == Put(Start, [disk EXCEPT !.loc[m] = "gone"])
           r2 == SetDisposition(Start, k, m)
           r3 == Put(r2, [r2.d EXCEPT !.loc[m] = "gone"])
           kept == IF Referenced(disk, m, {}) THEN r1 ELSE r3
<1>0. disk \in Disk /\ disk.stored[m] # "none"
  BY DEF Inv, TypeOK, ReconcileRemoteMissing, Readable
<1>p. Perform(RenderRefresh(kept))  BY DEF ReconcileRemoteMissing
<1>b. box \in Mailboxes /\ k \in Dispositions  BY DEF Mailboxes, Dispositions
<1>1. CASE Referenced(disk, m, {})
  <2>q. PICK q : Left(q, {}, {}, {}, {})  BY LeftIsThere
  <2>1. r1 = Put(Start, d1)  BY DEF WithLoc
  <2>2. Perform(RenderRefresh(r1))  BY <1>1, <1>p
  <2> HIDE DEF box
  <2>3. d1 \in Near(q)  BY <1>0, <1>b, NearStart, NearLoc
  <2> HIDE DEF d1, r1
  <2>4. At(r1, d1, q)  BY <1>0, <2>1, <2>3, AtStart, AtPut
  <2>5. At(RenderRefresh(r1), Viewed(d1), q)  BY <2>4, AtRender
  <2>6. disk' \in Near(q)  BY <2>2, <2>5, AtEnds
  <2>7. \A j \in Messages : LifeOf(disk', j) = LifeOf(disk, j)
    BY <2>q, <2>6, NearLife DEF Left
  <2>8. QED  BY <2>7, LoneMove
<1>2. CASE ~Referenced(disk, m, {})
  <2>0. CasesWith(disk, m) = {} /\ NotificationsOf(disk, m) = {}
    BY <1>2 DEF Referenced
  <2>q. PICK q : Left(q, {m}, Dispositions, {}, {})  BY LeftIsThere
  <2>m. m \in q.messages /\ k \in q.marks /\ q.cases = {}  BY <2>q, <1>b DEF Left
  <2>1. Perform(RenderRefresh(r3))  BY <1>2, <1>p
  <2> HIDE DEF k
  <2>2. At(r2, d2, q) /\ r2.ok  BY <1>0, <1>b, <2>m, AtStart, AtSet
  <2>3. r2.d = d2 /\ d2 \in Near(q)  BY <2>2, AtIsNear DEF At, Stands
  <2> HIDE DEF d2, r2
  <2>4. r3 = Put(r2, d3)  BY <2>3 DEF WithLoc
  <2> HIDE DEF box
  <2>5. d3 \in Near(q)  BY <2>3, <1>b, NearLoc
  <2> HIDE DEF d3, r3
  <2>6. At(r3, d3, q)  BY <2>2, <2>4, <2>5, AtPut
  <2>7. At(RenderRefresh(r3), Viewed(d3), q)  BY <2>6, AtRender
  <2>8. disk' \in Near(q)  BY <2>1, <2>7, AtEnds
  <2>9. QED  BY <1>0, <2>0, <2>8, <2>q, LoneUnfiled
<1>3. QED  BY <1>1, <1>2

LEMMA PurgeMoves ==
  ASSUME Inv, NEW m \in Messages, Purge(m)
  PROVE  Abstract!Next
<1> DEFINE k == StatusOf(disk, m)
           d1 == WithStored(disk, m, "cache")
           d2 == WithStored(d1, m, "none")
           d3 == Cleared(d2, {<<k, m>>})
           r1 == Put(Start, [disk EXCEPT !.stored[m] = "cache"])
           r2 == Put(r1, [r1.d EXCEPT !.stored[m] = "none"])
           r3 == ClearDisposition(r2, k, m)
           r4 == RefreshDispositionViews(r3)
           copies == {<<m, "cache">>, <<m, "none">>}
<1>0. disk \in Disk /\ disk.stored[m] # "none" /\ StatusOf(disk, m) \in Dispositions
  BY DEF Inv, TypeOK, Purge, Readable
<1>p. Perform(r4)  BY DEF Purge
<1>q. PICK q : Left(q, {m}, {}, {}, copies)  BY LeftIsThere
<1>m. /\ m \in q.messages /\ q.cases = {}
      /\ <<m, "cache">> \in q.copies /\ <<m, "none">> \in q.copies
      /\ "cache" \in Copies /\ "none" \in Copies
  BY <1>q DEF Left, Copies
<1>j. \A j \in Messages \ {m} : j \notin q.messages /\ \A s : <<j, s>> \notin q.copies
  BY <1>q DEF Left
<1> HIDE DEF k
<1>1. At(r1, d1, q) /\ r1.ok /\ r1.d = d1 /\ d1 \in Near(q)
  <2>1. r1 = Put(Start, d1)  BY DEF WithStored
  <2>2. /\ d1 \in Disk /\ d1.stored = [disk.stored EXCEPT ![m] = "cache"]
        /\ d1.root = disk.root /\ d1.items = disk.items /\ d1.open = disk.open
        /\ d1.coll = disk.coll /\ d1.disp = disk.disp
    BY <1>0, <1>m, WithStoredFields
  <2> HIDE DEF d1, r1
  <2>3. d1 \in Near(q)  BY <1>0, <1>m, <2>2, NearStart, NearStored
  <2>4. At(r1, d1, q) /\ r1.ok  BY <1>0, <2>1, <2>3, AtStart, AtPut
  <2>5. QED  BY <2>3, <2>4 DEF At, Stands
<1> HIDE DEF d1, r1
<1>2. At(r2, d2, q)
  <2>1. r2 = Put(r1, d2)  BY <1>1 DEF WithStored
  <2>0. d1 \in Disk  BY <1>1, NearParts
  <2>2. /\ d2 \in Disk /\ d2.stored = [d1.stored EXCEPT ![m] = "none"]
        /\ d2.root = d1.root /\ d2.items = d1.items /\ d2.open = d1.open
        /\ d2.coll = d1.coll /\ d2.disp = d1.disp
    BY <2>0, <1>m, WithStoredFields
  <2> HIDE DEF d2, r2
  <2>3. d2 \in Near(q)  BY <1>1, <1>m, <2>2, NearStored
  <2>4. QED  BY <1>1, <2>1, <2>3, AtPut
<1> HIDE DEF d2, r2
<1>3. At(r3, d3, q)  BY <1>2, <1>m, AtClear
<1> HIDE DEF d3, r3
<1>4. At(r4, d3, q)  BY <1>3, AtViews
<1> HIDE DEF r4
<1>5. disk' \in Near(q)  BY <1>4, <1>p, AtEnds
<1>6. \A j \in Messages \ {m} : LifeOf(disk', j) = LifeOf(disk, j)
  BY <1>5, <1>j, <1>m, NearLife
<1>7. LifeOf(disk, m) \in Dispositions  BY <1>0 DEF LifeOf
<1>8. QED  BY <1>6, <1>7, LoneMove

LEMMA PullSeesMoves ==
  ASSUME Inv, NEW m \in Messages, NEW box \in Mailboxes, PullSees(m, box)
  PROVE  Abstract!Next
<1> DEFINE d1 == Seen(disk, m, box)
           d2 == Cleared(d1, {<<"deleted_remote", m>>})
           r1 == Put(Start, [disk EXCEPT !.loc[m] = box, !.stored[m] = "all"])
           r2 == ClearDisposition(r1, "deleted_remote", m)
           r3 == SetDisposition(r2, "spam", m)
           r4 == SetDisposition(r2, "trashed", m)
           kept == IF StatusOf(disk, m) # "deleted_remote" THEN r1
                   ELSE IF box = "junk" THEN r3 ELSE IF box = "trash" THEN r4 ELSE r2
<1>0. disk \in Disk /\ Sound(disk)  BY DEF Inv, TypeOK
<1>p. Perform(RenderRefresh(kept))  BY DEF PullSees
<1>u. disk.stored[m] = "none" =>
        LifeOf(disk, m) = "purged" /\ CasesWith(disk, m) = {} /\ NotificationsOf(disk, m) = {}
  BY <1>0 DEF LifeOf, Sound, Referenced
<1>1. ASSUME NEW q, <<m, "all">> \in q.copies
      PROVE  At(r1, d1, q) /\ r1.ok
  <2>1. r1 = Put(Start, d1)  BY DEF Seen
  <2>2. /\ d1 \in Disk /\ d1.stored = [disk.stored EXCEPT ![m] = "all"]
        /\ d1.root = disk.root /\ d1.items = disk.items /\ d1.open = disk.open
        /\ d1.coll = disk.coll /\ d1.disp = disk.disp
    <3>1. d1 \in Disk  BY <1>0, SeenFields
    <3>2. QED  BY <1>0, <3>1 DEF Seen, Disk
  <2> HIDE DEF d1, r1
  <2> DEFINE s == "all"
  <2>n. disk \in Near(q)  BY <1>0, NearStart
  <2>s. s \in Copies /\ <<m, s>> \in q.copies /\ d1.stored = [disk.stored EXCEPT ![m] = s]
    BY <1>1, <2>2 DEF Copies
  <2> HIDE DEF s
  <2>3. d1 \in Near(q)  BY <2>n, <2>s, <2>2, NearStored
  <2>4. QED  BY <1>0, <2>1, <2>3, AtStart, AtPut
<1> HIDE DEF d1, r1
<1> DEFINE copies == {<<m, "all">>}
<1>c. <<m, "all">> \in copies /\ \A j, s : <<j, s>> \in copies => j = m /\ s = "all"
  OBVIOUS
<1> HIDE DEF copies
<1>2. CASE StatusOf(disk, m) # "deleted_remote"
  <2>q. PICK q : Left(q, {}, {}, {}, copies)  BY LeftIsThere
  <2>1. At(r1, d1, q)  BY <1>1, <1>c, <2>q DEF Left
  <2>2. At(RenderRefresh(r1), Viewed(d1), q)  BY <2>1, AtRender
  <2>3. Perform(RenderRefresh(r1))  BY <1>p, <1>2
  <2>4. disk' \in Near(q)  BY <2>2, <2>3, AtEnds
  <2>5. \A j \in Messages \ {m} : LifeOf(disk', j) = LifeOf(disk, j)
    BY <1>c, <2>q, <2>4, NearLife DEF Left
  <2>6. StatusOf(disk', m) = StatusOf(disk, m) /\ CasesWith(disk', m) = CasesWith(disk, m)
        /\ NotificationsOf(disk', m) = NotificationsOf(disk, m)
    BY <2>q, <2>4, NearStatus, NearFiling DEF Left
  <2>7. disk'.stored[m] = disk.stored[m] \/ disk'.stored[m] = "all"
    <3>1. FileLeft(q, disk', m)  BY <2>4, NearParts
    <3>2. QED  BY <3>1, <1>c, <2>q DEF FileLeft, Left
  <2>8. CASE disk.stored[m] # "none"
    <3>1. LifeOf(disk', m) = LifeOf(disk, m)  BY <2>6, <2>7, <2>8 DEF LifeOf
    <3>2. QED  BY <2>5, <3>1, LoneMove
  <2>9. CASE disk.stored[m] = "none"
    <3>1. LifeOf(disk', m) \in Unfiled \cup {"purged"}  BY <1>u, <2>6, <2>9, LifeIsAPlace
    <3>2. QED  BY <1>u, <2>5, <2>9, <3>1, LoneMove
  <2>10. QED  BY <2>8, <2>9
<1>3. CASE StatusOf(disk, m) = "deleted_remote"
  <2>q. PICK q : Left(q, {m}, Dispositions, {}, copies)  BY LeftIsThere
  <2>m. /\ m \in q.messages /\ q.cases = {} /\ q.marks = Dispositions
        /\ "spam" \in Dispositions /\ "trashed" \in Dispositions
    BY <2>q DEF Left, Dispositions
  <2>1. At(r1, d1, q)  BY <1>1, <1>c, <2>q DEF Left
  <2>2. At(r2, d2, q)  BY <2>1, <2>m, AtClear
  <2> HIDE DEF d2, r2
  <2>3. At(r3, Turned(d2, "spam", {m}), q) /\ At(r4, Turned(d2, "trashed", {m}), q)
    BY <2>2, <2>m, AtSet
  <2> HIDE DEF r3, r4
  <2>4. \E e : At(kept, e, q)
    <3>1. kept = r2 \/ kept = r3 \/ kept = r4  BY <1>3
    <3> HIDE DEF kept
    <3>2. QED  BY <2>2, <2>3, <3>1
  <2>5. PICK e : At(kept, e, q)  BY <2>4
  <2> HIDE DEF kept
  <2>6. At(RenderRefresh(kept), Viewed(e), q)  BY <2>5, AtRender
  <2>7. disk' \in Near(q)  BY <1>p, <2>6, AtEnds
  <2>8. \A j \in Messages \ {m} : LifeOf(disk', j) = LifeOf(disk, j)
    BY <1>c, <2>q, <2>7, NearLife DEF Left
  <2>9. CASE disk.stored[m] # "none"
    <3>1. LifeOf(disk, m) \in Dispositions  BY <1>3, <2>9 DEF LifeOf, Dispositions
    <3>2. QED  BY <2>8, <3>1, LoneMove
  <2>10. CASE disk.stored[m] = "none"
    <3>1. CasesWith(disk', m) = {} /\ NotificationsOf(disk', m) = {}
      BY <1>u, <2>q, <2>7, <2>10, NearFiling DEF Left
    <3>2. LifeOf(disk', m) \in Unfiled \cup {"purged"}  BY <3>1, LifeIsAPlace
    <3>3. QED  BY <1>u, <2>8, <2>10, <3>2, LoneMove
  <2>11. QED  BY <2>9, <2>10
<1>4. QED  BY <1>2, <1>3

(* The messages of a case that is trashed: each gets the disposition before *)
(* the case goes.                                                            *)
LEMMA TrashCaseMoves ==
  ASSUME Inv, NEW c \in Cases, TrashCase(c)
  PROVE  Abstract!Next
<1> DEFINE M == disk.items[c]
           Q == {j \in M : disk.loc[j] # "gone"}
           a == "trash"
           k == "trashed"
           d1 == WithTxn(disk, "case_trash", c)
           d2 == Pushed(d1, Q, a)
           d3 == Discarded(d2, k, M)
           d4 == Dropped(d3, c)
           d5 == Shown(d4, M)
           d6 == WithTxn(d5, "none", None)
           r1 == BeginTransaction(Start, "case_trash", c)
           r2 == QueueActionSteps(r1, Q, a)
           r3 == UpdateMessages(r2, k, M)
           r4 == RemoveCaseDir(r3, c)
           r5 == RefreshMessages(r4, M)
           r6 == RefreshDispositionViews(r5)
           r7 == Commit(r6)
<1>0. /\ disk \in Disk /\ Sound(disk) /\ disk.root[c] # "none"
      /\ \A j \in M : CasesWith(disk, j) = {c} /\ NotificationsOf(disk, j) = {}
  BY DEF Inv, TypeOK, TrashCase, ResolveCaseAny, CaseMessagesUnreferenced
<1>t. [kind |-> "case_trash", on |-> c] \in Transactions  BY DEF Transactions
<1>p. Perform(r7)  BY DEF TrashCase
<1>q. PICK q : Left(q, M, {k}, {c}, {})  BY LeftIsThere
<1>m. /\ M \in SUBSET Messages /\ Q \in SUBSET Messages /\ M \subseteq q.messages
      /\ \A j \in M : disk.stored[j] # "none"
  BY <1>0, <1>q, DiskFields, CaseIsStored DEF Left
<1>k. /\ a \in MessagePushActions /\ k \in Dispositions /\ k \in q.marks /\ c \in q.cases
      /\ k = "trashed"
  BY <1>q DEF MessagePushActions, Dispositions, Left
<1>i. M = disk.items[c]  OBVIOUS
<1>l. Left(q, M, {"trashed"}, {c}, {})  BY <1>q
<1> HIDE DEF M, Q, a, k
<1>1. At(r1, d1, q)  BY <1>0, <1>t, AtStart, AtBegin
<1> HIDE DEF d1, r1
<1>2. At(r2, d2, q)  BY <1>1, <1>k, <1>m, AtQueue
<1> HIDE DEF d2, r2
<1>3. At(r3, d3, q) /\ (r3.ok => disk.items[c] \subseteq d3.disp["trashed"])
  <2>1. At(r3, d3, q) /\ r3.ok = r2.ok
    BY <1>2, <1>k, <1>m, AtUpdate
  <2>2. r2.ok => d2 \in Disk  BY <1>2, AtIsNear, NearParts
  <2>3. r2.ok => d3.disp[k] = d2.disp[k] \cup M  BY <2>2, <1>k, <1>m, DiscardedFields
  <2>4. QED  BY <2>1, <2>3, <1>i, <1>k
<1> HIDE DEF d3, r3
<1>4. At(r4, d4, q)  BY <1>3, <1>k, AtRemoveCase
<1> HIDE DEF d4, r4
<1>5. At(r5, d5, q)  BY <1>4, <1>m, AtRefresh
<1> HIDE DEF d5, r5
<1>6. At(r6, d5, q)  BY <1>5, AtViews
<1> HIDE DEF r6
<1>7. At(r7, d6, q)  BY <1>6, AtCommit
<1> HIDE DEF d6, r7
<1>8. disk' \in Near(q)  BY <1>7, <1>p, AtEnds
<1> DEFINE S == {j \in M : LifeOf(disk', j) # LifeOf(disk, j)}
<1>9. S \in SUBSET Messages  BY <1>m
<1>10. \A j \in Messages \ S : LifeOf(disk', j) = LifeOf(disk, j)
  <2> SUFFICES ASSUME NEW j \in Messages, j \notin M PROVE LifeOf(disk', j) = LifeOf(disk, j)
    OBVIOUS
  <2>1. j \notin q.messages /\ (\A b \in q.cases : j \notin disk.items[b])
        /\ \A s : <<j, s>> \notin q.copies
    BY <1>i, <1>l DEF Left
  <2>2. QED  BY <1>8, <2>1, NearLife
<1>11. ASSUME NEW j \in S
       PROVE  /\ LifeOf(disk, j) \in {"case", "archived"} \cup Dispositions
              /\ LifeOf(disk', j) \in {"case", "archived", "trashed"}
  <2>0. j \in M /\ j \in Messages /\ disk.stored[j] # "none" /\ LifeOf(disk', j) # LifeOf(disk, j)
    BY <1>m
  <2>1. /\ CasesWith(disk, j) = {c} /\ NotificationsOf(disk, j) = {}
        /\ \A i, l \in DispositionsOf(disk, j) : i = l
    BY <1>0, <2>0 DEF Sound, Agreement
  <2>2. disk'.stored[j] = disk.stored[j]
    <3>1. FileLeft(q, disk', j)  BY <1>8, <2>0, NearParts
    <3>2. QED  BY <3>1, <1>l DEF FileLeft, Left
  <2>3. LifeOf(disk, j) = StatusOf(disk, j) /\ LifeOf(disk', j) = StatusOf(disk', j)
    BY <2>0, <2>2 DEF LifeOf
  <2>4. NotificationsOf(disk', j) = {}
    BY <1>8, <2>1, NearParts DEF NotificationsOf
  <2>5. StatusOf(disk, j) \in {"case", "archived"} \cup Dispositions
    <3>1. \A b \in CasesWith(disk, j) : disk.root[b] \in Roots  BY <1>0, DiskFields DEF CasesWith
    <3>2. QED  BY <2>1, <3>1, StatusIsIn, StatusIsKept
  <2>6. StatusOf(disk', j) \in {"case", "archived", "trashed"}
    <3>1. CASE DispositionsOf(disk', j) = {}
      <4>0. disk' \in Disk  BY <1>8, NearParts
      <4>1. \A b \in CasesWith(disk', j) : disk'.root[b] \in Roots
        BY <4>0, DiskFields DEF CasesWith
      <4>2. CasesWith(disk', j) # {}
        <5>1. CaseLeft(q, disk', c)  BY <1>8, NearParts
        <5>2. j \notin disk'.disp["trashed"]  BY <3>1 DEF DispositionsOf, Dispositions
        <5>3. disk'.root[c] = disk.root[c] /\ disk'.items[c] = disk.items[c]
          BY <5>1, <5>2, <2>0, <1>i DEF CaseLeft
        <5>4. c \in CasesWith(disk', j)  BY <5>3, <2>0, <1>0, <1>i DEF CasesWith
        <5>5. QED  BY <5>4
      <4>3. QED  BY <2>4, <3>1, <4>1, <4>2, StatusIsKept
    <3>2. CASE DispositionsOf(disk', j) # {}
      <4> DEFINE l == StatusOf(disk', j)
      <4>1. l \in Dispositions /\ j \in disk'.disp[l]
        BY <3>2, StatusIsIn DEF DispositionsOf
      <4> HIDE DEF l
      <4>2. SUFFICES ASSUME l # "trashed" PROVE FALSE  BY DEF l
      <4>3. DispLeft(q, disk', l, j)  BY <1>8, <2>0, <4>1, NearParts
      <4>4. l \in DispositionsOf(disk, j)
        BY <4>1, <4>2, <4>3, <1>l DEF DispLeft, Left, DispositionsOf
      <4>5. StatusOf(disk, j) \in DispositionsOf(disk, j)  BY <4>4, StatusIsIn
      <4>6. StatusOf(disk, j) = l  BY <2>1, <4>4, <4>5
      <4>7. QED  BY <2>0, <2>3, <4>6 DEF l
    <3>3. QED  BY <3>1, <3>2
  <2>7. QED  BY <2>3, <2>5, <2>6
<1> HIDE DEF S
<1>12. Abstract!Move(S, {"case", "archived"} \cup Dispositions, {"case", "archived", "trashed"})
  BY <1>9, <1>10, <1>11, Moves
<1>13. Abstract!Discarded = Dispositions  BY DEF Abstract!Discarded, Dispositions
<1>14. Abstract!TrashWithCase(S)  BY <1>12, <1>13 DEF Abstract!TrashWithCase
<1>15. QED  BY <1>9, <1>14 DEF Abstract!Next

LEMMA OwningMoves ==
  ASSUME Inv, Owning
  PROVE  Abstract!Next
<1>1. CASE \E m \in Messages, k \in {"spam", "trashed"} : Discard(m, k)
  BY <1>1, DiscardMoves
<1>2. CASE \E c \in Cases : TrashCase(c)  BY <1>2, TrashCaseMoves
<1>3. CASE \E m \in Messages : Purge(m) \/ ReconcileRemoteMissing(m)
  BY <1>3, PurgeMoves, MissingMoves
<1>4. CASE \E m \in Messages, box \in Mailboxes : PullSees(m, box)
  BY <1>4, PullSeesMoves
<1>5. QED  BY <1>1, <1>2, <1>3, <1>4 DEF Owning

(* Every command, run through or cut short by a crash between any two of   *)
(* its writes, does to the messages one of the things MessageLife allows:   *)
(* what is filed is discarded only with its case, and only a discarded      *)
(* message is purged.                                                       *)
THEOREM LifeIsKeptTo == Spec => LifeIsImplemented
<1>1. Init => Abstract!Init
  <2> SUFFICES ASSUME Init PROVE Abstract!Init  OBVIOUS
  <2>1. /\ disk.stored = [m \in Messages |-> "all"] /\ disk.open = {}
        /\ disk.root = [c \in Cases |-> "none"] /\ disk.disp = [k \in Dispositions |-> {}]
    BY DEF Init
  <2>2. \A m \in Messages : /\ CasesWith(disk, m) = {} /\ NotificationsOf(disk, m) = {}
                            /\ DispositionsOf(disk, m) = {} /\ disk.stored[m] = "all"
    BY <2>1 DEF CasesWith, NotificationsOf, DispositionsOf
  <2>3. \A m \in Messages : Life(m) = "triage"  BY <2>2, StatusIsKept DEF Life
  <2>4. QED  BY <2>3 DEF Abstract!Init
<1>2. Inv /\ [Next]_vars => [Abstract!Next]_[m \in Messages |-> Life(m)]
  <2> SUFFICES ASSUME Inv, [Next]_vars
               PROVE  [Abstract!Next]_[m \in Messages |-> Life(m)]
    OBVIOUS
  <2>1. CASE Next
    <3>1. PICK p : Within(p) /\ Done(p) /\ (p.own = {} \/ Owning)
      BY <2>1, NextSteps DEF Stepped
    <3>2. Abstract!Next  BY <3>1, FilesOnly, OwningMoves
    <3>3. QED  BY <3>2
  <2>2. CASE UNCHANGED vars
    <3>1. disk' = disk  BY <2>2 DEF vars
    <3>2. \A m \in Messages : Life(m)' = Life(m)
      BY <3>1 DEF Life, StatusOf, DispositionsOf, NotificationsOf, HasActiveReference,
                  HasArchivedReference, CasesWith
    <3>3. QED  BY <3>2
  <2>3. QED  BY <2>1, <2>2
<1>3. QED  BY <1>1, <1>2, InvInit, InvNext, PTL DEF Spec, LifeIsImplemented, Abstract!Spec
=============================================================================
