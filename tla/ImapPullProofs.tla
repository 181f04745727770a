--------------------------- MODULE ImapPullProofs ---------------------------
(***************************************************************************)
(* Proofs about ImapPull for every set of mailboxes and messages, every    *)
(* assignment of mailboxes to dispositions, budget and interval, and any   *)
(* number of changes on the server, skipped messages and failed pulls: the *)
(* cursors skip no message, what a case refers to is never marked deleted, *)
(* and a message that is marked although it is there will be looked at     *)
(* again.                                                                  *)
(***************************************************************************)
EXTENDS ImapPull, FiniteSetTheorems, WellFoundedInduction, TLAPS

Place == [box : Mailboxes, val : Nat, uid : Nat, missing : BOOLEAN]

FileWrite ==
    [file : {"meta", "cache"}, c : Contents, locs : SUBSET Place]
      \cup [file : {"eml"}, c : Contents]
      \cup [file : {"disp"}, c : Contents, disp : Dispositions]

Update == [box : Mailboxes, val : Nat, highest : Nat]
Snapshot == [box : Mailboxes, val : Nat, uids : SUBSET Nat]

PullRecord ==
    [all : BOOLEAN, targets : Seq(Mailboxes), todo : Seq(Mailboxes), val : Nat,
     uids : SUBSET Nat, prev : Nat, blocked : Nat, high : Nat, cand : SUBSET Nat,
     budget : Nat, incremental : BOOLEAN, updates : Seq(Update), snaps : Seq(Snapshot)]

(* What the variables can be, and when writes are pending. *)
PullType ==
    /\ mail \in [Mailboxes -> SUBSET (Nat \X Contents)]
    /\ validity \in [Mailboxes -> Nat] /\ nextUid \in [Mailboxes -> Nat]
    /\ eml \subseteq Contents /\ refs \subseteq Contents
    /\ meta \in [Contents -> SUBSET Place]
    /\ cache \in [Contents -> (SUBSET Place) \cup {None}]
    /\ disp \in [Contents -> Dispositions]
    /\ \A b \in Mailboxes :
          cursors[b] # None => cursors[b].val \in Nat /\ cursors[b].highest \in Nat
    /\ pc \in {"idle", "select", "scan", "commit", "render"}
    /\ pull \in PullRecord
    /\ pc = "scan" => pull.todo # <<>>
    /\ writes \in Seq(FileWrite)
    /\ writes # <<>> => pc \in {"scan", "commit"}
    /\ aborts \in Nat

(* A UID of a mailbox stands for one message. *)
UidsAreUsedOnce ==
    \A b \in Mailboxes :
        /\ 1 <= nextUid[b]
        /\ \A m \in mail[b] : 1 <= m[1] /\ m[1] < nextUid[b]
        /\ \A m, n \in mail[b] : m[1] = n[1] => m = n

(* Locations of c that no other message has, or will have. *)
Honest(c, locs) ==
    \A l \in locs :
        /\ l.val <= validity[l.box]
        /\ l.val = validity[l.box] =>
              /\ l.uid < nextUid[l.box]
              /\ \A m \in mail[l.box] : m[1] = l.uid => m[2] = c

(* The locations on disk and in the pending writes are those of the message. *)
LocationsTrue ==
    /\ \A c \in Contents :
          /\ Honest(c, meta[c])
          /\ cache[c] # None => Honest(c, cache[c])
    /\ \A w \in ToSet(writes) : w.file \in {"meta", "cache"} => Honest(w.c, w.locs)

(* The messages that are stored once the pending writes are made. *)
Stored == eml \cup {c \in Contents : Eml(c) \in ToSet(writes)}

(* A cursor h of mailbox b under v has passed no message it should not. *)
Passed(b, v, h) ==
    /\ v <= validity[b]
    /\ v = validity[b] =>
          /\ h < nextUid[b]
          /\ \A m \in mail[b] :
                m[1] > h \/ m[2] \in eml \cup purged \/ <<b, v, m[1]>> \in leftOut

CursorsTrue ==
    \A b \in Mailboxes :
        cursors[b] # None => Passed(b, cursors[b].val, cursors[b].highest)

UpdatesTrue ==
    \A i \in DOMAIN pull.updates :
        Passed(pull.updates[i].box, pull.updates[i].val, pull.updates[i].highest)

(* A UID that is above all the scan has selected or passed. *)
Fresh(u) ==
    /\ \A v \in pull.uids \cup pull.cand : v < u
    /\ pull.high < u /\ pull.blocked < u

(* The UIDs of the scan lie between the old cursor and the next UID. *)
ScanInRange ==
    pc = "scan" =>
        /\ pull.val = validity[Head(pull.todo)]
        /\ \A u \in pull.uids \cup pull.cand : pull.prev < u /\ u < nextUid[Head(pull.todo)]
        /\ pull.prev <= pull.high /\ pull.high < nextUid[Head(pull.todo)]
        /\ pull.blocked # 0 =>
              pull.prev < pull.blocked /\ pull.blocked < nextUid[Head(pull.todo)]

(* The messages of the mailbox the scan need not account for any more: it   *)
(* will still look at them, or the cursor will stay below them.             *)
Ahead(u) ==
    \/ u \in pull.uids \cup pull.cand
    \/ pull.blocked # 0 /\ pull.blocked <= u
    \/ Fresh(u)
    \/ <<Head(pull.todo), pull.val, u>> \in leftOut

ScanTrue ==
    pc = "scan" =>
        \A m \in mail[Head(pull.todo)] : Ahead(m[1]) \/ m[2] \in Stored \cup purged

SkipInv ==
    /\ PullType /\ UidsAreUsedOnce /\ LocationsTrue
    /\ CursorsTrue /\ UpdatesTrue /\ ScanInRange /\ ScanTrue

(* No pending write marks a message that a case refers to. *)
MarksSpareReferenced ==
    \A w \in ToSet(writes) :
        w.file = "disp" /\ w.disp = "deleted_remote" => w.c \notin refs

RefInv == ReferencedIsKept /\ MarksSpareReferenced
-----------------------------------------------------------------------------
(* A message has one copy on the server, at the start and therefore always. *)
OneCopy ==
    \A b, d \in Mailboxes : \A i \in DOMAIN InitialMail[b], j \in DOMAIN InitialMail[d] :
        InitialMail[b][i] = InitialMail[d][j] => b = d /\ i = j

CopiesAreOne ==
    \A b, d \in Mailboxes : \A m \in mail[b], n \in mail[d] : m[2] = n[2] => b = d /\ m = n

Pending(file, c) == {w \in ToSet(writes) : w.file = file /\ w.c = c}

(* The locations of c once the pending writes are made. *)
Final(c) ==
    IF Pending("meta", c) = {} THEN meta[c]
    ELSE (CHOOSE w \in Pending("meta", c) : TRUE).locs

(* The pending writes of a message agree, and the cache follows the metadata *)
(* of every stored message, and of no other.                                 *)
WritesAgree ==
    /\ \A w \in ToSet(writes) :
          w.file \in {"meta", "cache"} => w.c \in Stored /\ w.locs = Final(w.c)
    /\ \A c \in Stored : Pending("cache", c) = {} => cache[c] = Final(c)
    /\ \A c \in Contents \ Stored : cache[c] = None

(* A message is marked only when none of its locations is active. *)
MarkedIsGone ==
    /\ \A c \in Contents :
          disp[c] = "deleted_remote" /\ Pending("disp", c) = {} =>
              c \in Stored /\ Active(Final(c)) = {}
    /\ \A w \in ToSet(writes) :
          w.file = "disp" /\ w.disp = "deleted_remote" =>
              w.c \in Stored /\ Active(Final(w.c)) = {}

Seen(b, v, m) ==
    [box |-> b, val |-> v, uid |-> m[1], missing |-> FALSE] \in Final(m[2])

(* What a cursor has passed has an active location there. *)
Followed(b, v, h) ==
    v = validity[b] =>
        \A m \in mail[b] :
            m[1] <= h /\ <<b, v, m[1]>> \notin leftOut /\ m[2] \in Stored => Seen(b, v, m)

CursorsFollowed ==
    \A b \in Mailboxes :
        cursors[b] # None => Followed(b, cursors[b].val, cursors[b].highest)

UpdatesFollowed ==
    \A i \in DOMAIN pull.updates :
        Followed(pull.updates[i].box, pull.updates[i].val, pull.updates[i].highest)

ScanFollowed ==
    pc = "scan" =>
        \A m \in mail[Head(pull.todo)] :
            Ahead(m[1]) \/ (m[2] \in Stored => Seen(Head(pull.todo), pull.val, m))

(* A snapshot shows everything a cursor has passed in its mailbox. *)
Shows(snap, v, h) ==
    /\ v <= snap.val
    /\ v = validity[snap.box] =>
          \A m \in mail[snap.box] : m[1] <= h => m[1] \in snap.uids

(* A snapshot shows what the cursors and updates of its mailbox have passed. *)
ShowsPassed(snap) ==
    /\ snap.val <= validity[snap.box]
    /\ cursors[snap.box] # None =>
          Shows(snap, cursors[snap.box].val, cursors[snap.box].highest)
    /\ \A i \in DOMAIN pull.updates :
          pull.updates[i].box = snap.box =>
             Shows(snap, pull.updates[i].val, pull.updates[i].highest)

SnapsTrue ==
    /\ pull.snaps # <<>> => pc \in {"select", "commit", "render"} /\ pull.todo = <<>>
    /\ pc = "select" => \A k \in DOMAIN pull.snaps : ShowsPassed(pull.snaps[k])

FollowInv ==
    /\ CopiesAreOne
    /\ aborts = 0 =>
          /\ WritesAgree /\ MarkedIsGone /\ CursorsFollowed /\ UpdatesFollowed
          /\ ScanFollowed /\ SnapsTrue
-----------------------------------------------------------------------------
(* Facts about numbers and sequences.                                        *)

(* A set of natural numbers has a least element. *)
LEMMA LeastNumber ==
    ASSUME NEW S \in SUBSET Nat, S # {}
    PROVE  \E u \in S : \A v \in S : u <= v
<1>1. PICK u \in S : \A v \in S : ~(<<v, u>> \in OpToRel(<, Nat))
  BY NatLessThanWellFounded, WFMin
<1>2. \A v \in S : ~(v < u)
  BY <1>1 DEF OpToRel
<1> QED BY <1>2

(* Induction over the numbers up to n. *)
LEMMA UpTo ==
    ASSUME NEW n \in Nat, NEW S, 0 \in S, \A i \in 0..n - 1 : i \in S => i + 1 \in S
    PROVE  \A i \in 0..n : i \in S
<1> SUFFICES ASSUME NEW k \in 0..n, k \notin S PROVE FALSE
  OBVIOUS
<1> DEFINE T == (0..n) \ S
<1>0. T \in SUBSET Nat /\ T # {}
  OBVIOUS
<1>1. PICK u \in T : \A v \in T : u <= v
  <2> HIDE DEF T
  <2> QED BY <1>0, LeastNumber
<1>2. u # 0 /\ u - 1 \in 0..n - 1
  BY <1>1
<1>3. u - 1 \in S
  BY <1>1, <1>2
<1> QED BY <1>1, <1>2, <1>3

LEMMA LeastUidIsIn ==
    ASSUME NEW S \in SUBSET Nat, S # {}
    PROVE  LeastUid(S) \in S
BY LeastNumber DEF LeastUid

(* The sequence of a finite set lists its elements. *)
LEMMA ListOfSet ==
    ASSUME NEW S, IsFiniteSet(S)
    PROVE  SetToSeq(S) \in Seq(S) /\ ToSet(SetToSeq(S)) = S
<1> DEFINE n == Cardinality(S)
           f == SetToSeq(S)
<1>1. n \in Nat /\ ExistsBijection(1..n, S)
  BY FS_CardinalityType
<1>2. PICK g \in [1..n -> S] : \A a, b \in 1..n : g[a] = g[b] => a = b
  BY <1>1 DEF ExistsBijection, Bijection, Injection, IsInjective
<1>3. \E h \in [1..n -> S] : IsInjective(h)
  BY <1>2 DEF IsInjective
<1>4. f \in [1..n -> S] /\ IsInjective(f)
  BY <1>3 DEF SetToSeq
<1>5. f \in Injection(1..n, S)
  BY <1>4 DEF Injection
<1>6. IsFiniteSet(1..n) /\ Cardinality(1..n) = n
  BY <1>1, FS_Interval
<1>7. f \in Surjection(1..n, S)
  BY <1>5, <1>6, FS_Injection
<1>8. f \in Seq(S)
  BY <1>1, <1>4
<1>9. ToSet(f) = S
  BY <1>4, <1>7 DEF ToSet, Surjection
<1> QED BY <1>8, <1>9

LEMMA ElementsOfConcat ==
    ASSUME NEW W, NEW a \in Seq(W), NEW b \in Seq(W)
    PROVE  a \o b \in Seq(W) /\ ToSet(a \o b) = ToSet(a) \cup ToSet(b)
<1> DEFINE c == a \o b
<1>1. c \in Seq(W) /\ Len(c) = Len(a) + Len(b)
  OBVIOUS
<1>2. \A i \in 1..Len(c) : c[i] = IF i <= Len(a) THEN a[i] ELSE b[i - Len(a)]
  OBVIOUS
<1>3. DOMAIN a = 1..Len(a) /\ DOMAIN b = 1..Len(b) /\ DOMAIN c = 1..Len(c)
  OBVIOUS
<1>4. Len(a) \in Nat /\ Len(b) \in Nat
  OBVIOUS
<1> HIDE DEF c
<1>5. ASSUME NEW x \in ToSet(c) PROVE x \in ToSet(a) \cup ToSet(b)
  <2>1. PICK i \in 1..Len(c) : x = c[i]
    BY <1>3 DEF ToSet
  <2>2. i <= Len(a) => i \in 1..Len(a)
    BY <1>4
  <2>3. ~(i <= Len(a)) => i - Len(a) \in 1..Len(b)
    BY <1>1, <1>4
  <2> QED BY <1>2, <1>3, <2>1, <2>2, <2>3 DEF ToSet
<1>6. ASSUME NEW x \in ToSet(a) PROVE x \in ToSet(c)
  <2>1. PICK i \in 1..Len(a) : x = a[i]
    BY <1>3 DEF ToSet
  <2>2. i \in 1..Len(c) /\ c[i] = a[i]
    BY <1>1, <1>2, <1>4
  <2> QED BY <1>3, <2>1, <2>2 DEF ToSet
<1>7. ASSUME NEW x \in ToSet(b) PROVE x \in ToSet(c)
  <2>1. PICK i \in 1..Len(b) : x = b[i]
    BY <1>3 DEF ToSet
  <2>2. Len(a) + i \in 1..Len(c) /\ ~(Len(a) + i <= Len(a)) /\ (Len(a) + i) - Len(a) = i
    BY <1>1, <1>4
  <2>3. c[Len(a) + i] = b[i]
    BY <1>2, <2>2
  <2> QED BY <1>3, <2>1, <2>2, <2>3 DEF ToSet
<1> QED BY <1>1, <1>5, <1>6, <1>7 DEF c

(* What FlattenSeq returns: the sequence of all elements, block by block. *)
LEMMA Flattened ==
    ASSUME NEW W, NEW s \in Seq(Seq(W))
    PROVE  /\ FlattenSeq(s) \in Seq(W)
           /\ ToSet(FlattenSeq(s)) = UNION {ToSet(s[i]) : i \in DOMAIN s}
<1> DEFINE n == Len(s)
           Follows(f, k) == \A i \in 1..k : f[i] = IF i = 1 THEN s[i] ELSE f[i - 1] \o s[i]
           Upto(k) == UNION {ToSet(s[i]) : i \in 1..k}
<1>1. n \in Nat /\ DOMAIN s = 1..n /\ \A i \in 1..n : s[i] \in Seq(W)
  OBVIOUS
<1>2. CASE n = 0
  <2>1. FlattenSeq(s) = s
    BY <1>2 DEF FlattenSeq
  <2>2. s = <<>> /\ DOMAIN s = {}
    BY <1>1, <1>2
  <2>3. ToSet(s) = {}
    BY <2>2 DEF ToSet
  <2>4. UNION {ToSet(s[i]) : i \in DOMAIN s} = {}
    BY <2>2
  <2>5. s \in Seq(W)
    BY <2>2
  <2> QED BY <2>1, <2>3, <2>4, <2>5
<1>3. CASE n # 0
  <2> DEFINE Good == {k \in 0..n : \E f \in [1..k -> Seq(W)] :
                         Follows(f, k) /\ \A i \in 1..k : ToSet(f[i]) = Upto(i)}
  <2>1. 0 \in Good
    <3> DEFINE z == [i \in 1..0 |-> <<>>]
    <3>1. z \in [1..0 -> Seq(W)] /\ \A i \in 1..0 : FALSE
      OBVIOUS
    <3>2. Follows(z, 0) /\ \A i \in 1..0 : ToSet(z[i]) = Upto(i)
      BY <3>1
    <3>3. 0 \in 0..n
      BY <1>1
    <3> HIDE DEF z, Follows, Upto
    <3> QED BY <3>1, <3>2, <3>3
  <2>2. ASSUME NEW k \in 0..n - 1, k \in Good PROVE k + 1 \in Good
    <3>1. PICK f \in [1..k -> Seq(W)] :
             Follows(f, k) /\ \A i \in 1..k : ToSet(f[i]) = Upto(i)
      BY <2>2
    <3> DEFINE e == IF k = 0 THEN s[k + 1] ELSE f[k] \o s[k + 1]
               g == [i \in 1..k + 1 |-> IF i <= k THEN f[i] ELSE e]
    <3>2. k \in Nat /\ k + 1 \in 1..n /\ (k # 0 => k \in 1..k)
      BY <1>1
    <3>3. e \in Seq(W)
      BY <3>1, <3>2, <1>1
    <3>4. g \in [1..k + 1 -> Seq(W)]
      BY <3>1, <3>2, <3>3
    <3>5. Follows(g, k + 1)
      <4> SUFFICES ASSUME NEW i \in 1..k + 1
                   PROVE  g[i] = IF i = 1 THEN s[i] ELSE g[i - 1] \o s[i]
        OBVIOUS
      <4>1. CASE i <= k
        <5>1. i \in 1..k /\ g[i] = f[i] /\ (i # 1 => g[i - 1] = f[i - 1])
          BY <3>2, <4>1
        <5> HIDE DEF g
        <5> QED BY <5>1, <3>1
      <4>2. CASE i = k + 1
        <5>1. g[i] = e /\ (k # 0 => g[i - 1] = f[k]) /\ (i = 1 <=> k = 0)
          BY <3>2, <4>2
        <5> HIDE DEF g
        <5> QED BY <5>1, <4>2
      <4> QED BY <3>2, <4>1, <4>2
    <3>6. ToSet(e) = Upto(k + 1)
      <4>1. CASE k = 0
        BY <4>1 DEF ToSet
      <4>2. CASE k # 0
        <5> DEFINE a == f[k]
                   b == s[k + 1]
        <5>1. a \in Seq(W) /\ b \in Seq(W) /\ ToSet(a) = Upto(k) /\ e = a \o b
          BY <3>1, <3>2, <1>1, <4>2
        <5> HIDE DEF a, e
        <5>2. ToSet(a \o b) = ToSet(a) \cup ToSet(b)
          BY <5>1, ElementsOfConcat
        <5>3. 1..k + 1 = (1..k) \cup {k + 1}
          BY <3>2
        <5>4. Upto(k + 1) = Upto(k) \cup ToSet(b)
          BY <5>3
        <5> QED BY <5>1, <5>2, <5>4
      <4> QED BY <4>1, <4>2
    <3>7. \A i \in 1..k + 1 : ToSet(g[i]) = Upto(i)
      <4> TAKE i \in 1..k + 1
      <4>1. CASE i <= k
        <5>1. i \in 1..k /\ g[i] = f[i]
          BY <3>2, <4>1
        <5> QED BY <5>1, <3>1
      <4>2. CASE i = k + 1
        <5>1. g[i] = e
          BY <3>2, <4>2
        <5> QED BY <5>1, <3>6, <4>2
      <4> QED BY <3>2, <4>1, <4>2
    <3>8. k + 1 \in 0..n
      BY <1>1
    <3> HIDE DEF Follows, Upto, g
    <3> QED BY <3>4, <3>5, <3>7, <3>8
  <2>3. n \in Good
    <3>1. \A i \in 0..n : i \in Good
      <4> HIDE DEF Good, n
      <4> QED BY <1>1, <2>1, <2>2, UpTo
    <3>2. n \in 0..n
      BY <1>1
    <3> QED BY <3>1, <3>2
  <2>4. PICK f \in [1..n -> Seq(W)] :
           Follows(f, n) /\ \A i \in 1..n : ToSet(f[i]) = Upto(i)
    BY <2>3
  <2> DEFINE h == CHOOSE h : h = [i \in 1..n |-> IF i = 1 THEN s[i] ELSE h[i - 1] \o s[i]]
  <2>5. f = [i \in 1..n |-> IF i = 1 THEN s[i] ELSE f[i - 1] \o s[i]]
    BY <2>4
  <2>6. h = [i \in 1..n |-> IF i = 1 THEN s[i] ELSE h[i - 1] \o s[i]]
    <3> HIDE DEF n
    <3> QED BY <2>5
  <2>7. FlattenSeq(s) = h[n]
    BY <1>3 DEF FlattenSeq
  <2>8. \A i \in 1..n : h[i] = f[i]
    <3> DEFINE Same == {k \in 0..n : k # 0 => h[k] = f[k]}
    <3>1. 0 \in Same
      BY <1>1
    <3>2. ASSUME NEW k \in 0..n - 1, k \in Same PROVE k + 1 \in Same
      <4> HIDE DEF h
      <4>1. k + 1 \in 1..n /\ (k + 1) - 1 = k
        BY <1>1
      <4>2. h[k + 1] = IF k + 1 = 1 THEN s[k + 1] ELSE h[k] \o s[k + 1]
        BY <2>6, <4>1
      <4>3. f[k + 1] = IF k + 1 = 1 THEN s[k + 1] ELSE f[k] \o s[k + 1]
        BY <2>4, <4>1
      <4> QED BY <3>2, <4>1, <4>2, <4>3
    <3>3. \A i \in 0..n : i \in Same
      <4> HIDE DEF Same
      <4> QED BY <1>1, <3>1, <3>2, UpTo
    <3> HIDE DEF h
    <3> QED BY <3>3
  <2>9. n \in 1..n
    BY <1>1, <1>3
  <2>10. h[n] \in Seq(W) /\ ToSet(h[n]) = Upto(n)
    <3> HIDE DEF h, Upto, Follows
    <3> QED BY <2>4, <2>8, <2>9
  <2>11. Upto(n) = UNION {ToSet(s[i]) : i \in DOMAIN s}
    BY <1>1
  <2> HIDE DEF h, Upto
  <2> QED BY <2>7, <2>10, <2>11
<1> QED BY <1>2, <1>3

(* What lists of one element and of none contain. *)
LEMMA ShortLists ==
    ASSUME NEW W
    PROVE  /\ <<>> \in Seq(W) /\ ToSet(<<>>) = {}
           /\ \A x \in W : <<x>> \in Seq(W) /\ ToSet(<<x>>) = {x}
           /\ \A x, y \in W : <<x, y>> \in Seq(W) /\ ToSet(<<x, y>>) = {x, y}
<1>1. <<>> \in Seq(W) /\ ToSet(<<>>) = {}
  BY DEF ToSet
<1>2. ASSUME NEW x \in W PROVE <<x>> \in Seq(W) /\ ToSet(<<x>>) = {x}
  BY DEF ToSet
<1>3. ASSUME NEW x \in W, NEW y \in W
      PROVE  <<x, y>> \in Seq(W) /\ ToSet(<<x, y>>) = {x, y}
  <2> DEFINE s == <<x, y>>
  <2>1. s \in Seq(W) /\ DOMAIN s = {1, 2} /\ s[1] = x /\ s[2] = y
    OBVIOUS
  <2> HIDE DEF s
  <2>2. ToSet(s) = {x, y}
    BY <2>1 DEF ToSet
  <2> QED BY <2>1, <2>2 DEF s
<1> QED BY <1>1, <1>2, <1>3

(* The first of the pending writes is made, the others stay. *)
LEMMA Appended ==
    ASSUME NEW W, NEW s \in Seq(W), NEW x \in W
    PROVE  /\ Append(s, x) \in Seq(W)
           /\ \A i \in DOMAIN Append(s, x) :
                 \/ Append(s, x)[i] = x
                 \/ i \in DOMAIN s /\ Append(s, x)[i] = s[i]
<1> DEFINE t == Append(s, x)
<1>1. t \in Seq(W) /\ DOMAIN t = 1..Len(t) /\ DOMAIN s = 1..Len(s)
  OBVIOUS
<1>2. Len(t) = Len(s) + 1 /\ Len(s) \in Nat /\ t[Len(s) + 1] = x
  OBVIOUS
<1>3. \A i \in 1..Len(s) : t[i] = s[i]
  OBVIOUS
<1> HIDE DEF t
<1>4. ASSUME NEW i \in DOMAIN t PROVE t[i] = x \/ (i \in DOMAIN s /\ t[i] = s[i])
  <2>1. i = Len(s) + 1 \/ i \in 1..Len(s)
    BY <1>1, <1>2
  <2> QED BY <1>1, <1>2, <1>3, <2>1
<1> QED BY <1>1, <1>4 DEF t

LEMMA HeadAndTail ==
    ASSUME NEW W, NEW s \in Seq(W), s # <<>>
    PROVE  /\ Head(s) \in W /\ Tail(s) \in Seq(W)
           /\ ToSet(s) = {Head(s)} \cup ToSet(Tail(s))
<1> DEFINE t == Tail(s)
<1>1. Head(s) \in W /\ t \in Seq(W) /\ Len(s) \in Nat /\ Len(s) # 0
  OBVIOUS
<1>2. s[1] = Head(s) /\ Len(t) = Len(s) - 1 /\ \A i \in 1..Len(t) : t[i] = s[i + 1]
  OBVIOUS
<1>3. DOMAIN s = 1..Len(s) /\ DOMAIN t = 1..Len(t)
  OBVIOUS
<1> HIDE DEF t
<1>4. ASSUME NEW x \in ToSet(s) PROVE x = Head(s) \/ x \in ToSet(t)
  <2>1. PICK i \in 1..Len(s) : x = s[i]
    BY <1>3 DEF ToSet
  <2>2. i # 1 => i - 1 \in 1..Len(t) /\ (i - 1) + 1 = i
    BY <1>1, <1>2
  <2> QED BY <1>2, <1>3, <2>1, <2>2 DEF ToSet
<1>5. ASSUME NEW x \in ToSet(t) PROVE x \in ToSet(s)
  <2>1. PICK i \in 1..Len(t) : x = t[i]
    BY <1>3 DEF ToSet
  <2>2. i + 1 \in 1..Len(s)
    BY <1>1, <1>2
  <2> QED BY <1>2, <1>3, <2>1, <2>2 DEF ToSet
<1>6. Head(s) \in ToSet(s)
  <2>1. 1 \in 1..Len(s)
    BY <1>1
  <2> QED BY <2>1, <1>2, <1>3 DEF ToSet
<1> QED BY <1>1, <1>4, <1>5, <1>6 DEF t

(* The numbers a mailbox is renumbered with. *)
LEMMA Ranks ==
    ASSUME NEW n \in Nat, NEW S \in SUBSET (1..n)
    PROVE  /\ Cardinality(S) \in Nat
           /\ \A u \in S : /\ Cardinality({v \in S : v <= u}) \in 1..Cardinality(S)
           /\ \A u, w \in S :
                 Cardinality({v \in S : v <= u}) = Cardinality({v \in S : v <= w}) => u = w
<1> DEFINE Below(u) == {v \in S : v <= u}
<1>1. IsFiniteSet(S)
  <2>1. IsFiniteSet(1..n)
    BY FS_Interval
  <2> QED BY <2>1, FS_Subset
<1>2. Cardinality(S) \in Nat
  BY <1>1, FS_CardinalityType
<1>3. ASSUME NEW u \in S
      PROVE  IsFiniteSet(Below(u)) /\ Cardinality(Below(u)) \in 1..Cardinality(S)
  <2>1. Below(u) \in SUBSET S /\ u \in Below(u)
    BY <1>1
  <2> HIDE DEF Below
  <2>2. IsFiniteSet(Below(u)) /\ Cardinality(Below(u)) <= Cardinality(S)
    BY <1>1, <2>1, FS_Subset
  <2>3. Cardinality(Below(u)) \in Nat /\ Cardinality(Below(u)) # 0
    BY <2>1, <2>2, FS_CardinalityType, FS_EmptySet
  <2> QED BY <2>2, <2>3, <1>2
<1>4. ASSUME NEW u \in S, NEW w \in S, u < w
      PROVE  Cardinality(Below(u)) # Cardinality(Below(w))
  <2>1. u \in Nat /\ w \in Nat /\ \A v \in S : v \in Nat
    OBVIOUS
  <2>2. (\A v \in S : v <= u => v <= w) /\ w <= w /\ ~(w <= u)
    BY <1>4, <2>1
  <2>3. Below(u) \in SUBSET Below(w) /\ w \in Below(w) /\ w \notin Below(u)
    BY <2>2
  <2> HIDE DEF Below
  <2> QED BY <1>3, <2>3, FS_Subset
<1>5. ASSUME NEW u \in S, NEW w \in S, Cardinality(Below(u)) = Cardinality(Below(w))
      PROVE  u = w
  <2>1. ~(u < w) /\ ~(w < u)
    <3> HIDE DEF Below
    <3> QED BY <1>4, <1>5
  <2> QED BY <2>1
<1> QED BY <1>2, <1>3, <1>5
-----------------------------------------------------------------------------
(* The writes a step of the pull decides on.                                 *)

LEMMA ArtifactWrites ==
    ASSUME NEW c \in Contents, NEW locs \in SUBSET Place
    PROVE  /\ Artifacts(c, locs) \in Seq(FileWrite)
           /\ ToSet(Artifacts(c, locs)) = {Meta(c, locs), Cache(c, locs)}
<1>1. Meta(c, locs) \in FileWrite /\ Cache(c, locs) \in FileWrite
  BY DEF Meta, Cache, FileWrite
<1> QED BY <1>1, ShortLists DEF Artifacts

LEMMA EnterWrites ==
    ASSUME NEW c \in Contents, NEW d \in Dispositions
    PROVE  /\ EnterDisposition(c, d) \in Seq(FileWrite)
           /\ ToSet(EnterDisposition(c, d)) \subseteq {Disp(c, "none"), Disp(c, d)}
           /\ Disp(c, d) \in ToSet(EnterDisposition(c, d))
<1>1. Disp(c, "none") \in FileWrite /\ Disp(c, d) \in FileWrite
  BY DEF Disp, FileWrite, Dispositions
<1> DEFINE first == IF disp[c] \notin {"none", d} THEN <<Disp(c, "none")>> ELSE <<>>
           second == <<Disp(c, d)>>
<1>2. first \in Seq(FileWrite) /\ ToSet(first) \subseteq {Disp(c, "none")}
  BY <1>1, ShortLists
<1>3. second \in Seq(FileWrite) /\ ToSet(second) = {Disp(c, d)}
  BY <1>1, ShortLists
<1>4. EnterDisposition(c, d) = first \o second
  BY DEF EnterDisposition
<1> HIDE DEF first, second
<1> QED BY <1>2, <1>3, <1>4, ElementsOfConcat

LEMMA RestoringWrites ==
    ASSUME NEW c \in Contents, NEW d \in Dispositions, NEW locs \in SUBSET Place
    PROVE  /\ RestoreWrites(c, d, locs) \in Seq(FileWrite)
           /\ ToSet(RestoreWrites(c, d, locs)) \subseteq
                 {Disp(c, "none"), Disp(c, d), Meta(c, locs), Cache(c, locs)}
           /\ disp[c] = "deleted_remote" =>
                 Disp(c, "none") \in ToSet(RestoreWrites(c, d, locs))
<1>1. Disp(c, "none") \in FileWrite /\ Disp(c, d) \in FileWrite
  BY DEF Disp, FileWrite, Dispositions
<1> DEFINE first == <<Disp(c, "none")>>
           second == IF d # "none" THEN <<Disp(c, d)>> ELSE <<>>
           third == Artifacts(c, locs)
<1>2. first \in Seq(FileWrite) /\ ToSet(first) = {Disp(c, "none")}
  BY <1>1, ShortLists
<1>3. second \in Seq(FileWrite) /\ ToSet(second) \subseteq {Disp(c, d)}
  BY <1>1, ShortLists
<1>4. third \in Seq(FileWrite) /\ ToSet(third) = {Meta(c, locs), Cache(c, locs)}
  BY ArtifactWrites
<1>5. RestoreWrites(c, d, locs) =
        IF disp[c] # "deleted_remote" THEN <<>> ELSE (first \o second) \o third
  BY DEF RestoreWrites
<1> DEFINE opening == first \o second
<1>6. opening \in Seq(FileWrite) /\ ToSet(opening) = ToSet(first) \cup ToSet(second)
  <2> HIDE DEF first, second
  <2> QED BY <1>2, <1>3, ElementsOfConcat
<1>7. opening \o third \in Seq(FileWrite)
      /\ ToSet(opening \o third) = ToSet(opening) \cup ToSet(third)
  <2> HIDE DEF opening, third
  <2> QED BY <1>4, <1>6, ElementsOfConcat
<1> HIDE DEF first, second, third
<1> QED BY <1>2, <1>3, <1>4, <1>5, <1>6, <1>7, ShortLists

LEMMA MarkingWrites ==
    ASSUME NEW c \in Contents, NEW locs \in SUBSET Place
    PROVE  /\ ReconcileWrites(c, locs) \in Seq(FileWrite)
           /\ ToSet(ReconcileWrites(c, locs)) \subseteq
                 {Disp(c, "none"), Disp(c, "deleted_remote"), Meta(c, locs), Cache(c, locs)}
           /\ {Meta(c, locs), Cache(c, locs)} \subseteq ToSet(ReconcileWrites(c, locs))
           /\ Disp(c, "deleted_remote") \in ToSet(ReconcileWrites(c, locs)) =>
                 Active(locs) = {} /\ c \notin refs
<1> DEFINE first == IF Active(locs) = {} /\ c \notin refs
                    THEN EnterDisposition(c, "deleted_remote") ELSE <<>>
           second == Artifacts(c, locs)
<1>1. /\ first \in Seq(FileWrite)
      /\ ToSet(first) \subseteq {Disp(c, "none"), Disp(c, "deleted_remote")}
      /\ ToSet(first) # {} => Active(locs) = {} /\ c \notin refs
  <2>1. "deleted_remote" \in Dispositions
    BY DEF Dispositions
  <2> QED BY <2>1, EnterWrites, ShortLists
<1>2. second \in Seq(FileWrite) /\ ToSet(second) = {Meta(c, locs), Cache(c, locs)}
  BY ArtifactWrites
<1>3. ReconcileWrites(c, locs) = first \o second
  BY DEF ReconcileWrites
<1>4. Disp(c, "deleted_remote") \notin {Meta(c, locs), Cache(c, locs)}
  BY DEF Disp, Meta, Cache
<1>5. first \o second \in Seq(FileWrite)
      /\ ToSet(first \o second) = ToSet(first) \cup ToSet(second)
  <2> HIDE DEF first, second
  <2> QED BY <1>1, <1>2, ElementsOfConcat
<1> HIDE DEF first, second
<1> QED BY <1>1, <1>2, <1>3, <1>4, <1>5

(* What ingest_message writes for new bytes, and for bytes it knows. *)
(* The writes of StoreBody for content c into a mailbox of disposition d. *)
StoreWrites(c, d, locs) ==
    <<Meta(c, locs)>> \o (IF d # "none" THEN EnterDisposition(c, d) ELSE <<>>)
                      \o <<Eml(c), Cache(c, locs)>>

LEMMA StoringWrites ==
    ASSUME NEW c \in Contents, NEW d \in Dispositions, NEW locs \in SUBSET Place
    PROVE  LET ws == StoreWrites(c, d, locs)
           IN  /\ ws \in Seq(FileWrite)
               /\ ToSet(ws) \subseteq {Meta(c, locs), Cache(c, locs), Eml(c),
                                        Disp(c, "none"), Disp(c, d)}
               /\ {Meta(c, locs), Cache(c, locs), Eml(c)} \subseteq ToSet(ws)
<1> DEFINE first == <<Meta(c, locs)>>
           second == IF d # "none" THEN EnterDisposition(c, d) ELSE <<>>
           third == <<Eml(c), Cache(c, locs)>>
<1>1. Meta(c, locs) \in FileWrite /\ Cache(c, locs) \in FileWrite /\ Eml(c) \in FileWrite
  BY DEF Meta, Cache, Eml, FileWrite
<1>2. first \in Seq(FileWrite) /\ ToSet(first) = {Meta(c, locs)}
  BY <1>1, ShortLists
<1>3. second \in Seq(FileWrite) /\ ToSet(second) \subseteq {Disp(c, "none"), Disp(c, d)}
  BY EnterWrites, ShortLists
<1>4. third \in Seq(FileWrite) /\ ToSet(third) = {Eml(c), Cache(c, locs)}
  BY <1>1, ShortLists
<1> DEFINE opening == first \o second
<1>5. opening \in Seq(FileWrite) /\ ToSet(opening) = ToSet(first) \cup ToSet(second)
  <2> HIDE DEF first, second
  <2> QED BY <1>2, <1>3, ElementsOfConcat
<1>6. opening \o third \in Seq(FileWrite)
      /\ ToSet(opening \o third) = ToSet(opening) \cup ToSet(third)
  <2> HIDE DEF opening, third
  <2> QED BY <1>4, <1>5, ElementsOfConcat
<1>7. StoreWrites(c, d, locs) = opening \o third
  BY DEF StoreWrites
<1> HIDE DEF first, second, third, opening
<1> QED BY <1>2, <1>3, <1>4, <1>5, <1>6, <1>7

LEMMA MergingWrites ==
    ASSUME NEW c \in Contents, NEW d \in Dispositions, NEW locs \in SUBSET Place
    PROVE  LET ws == Artifacts(c, locs) \o RestoreWrites(c, d, locs)
           IN  /\ ws \in Seq(FileWrite)
               /\ ToSet(ws) \subseteq
                     {Disp(c, "none"), Disp(c, d), Meta(c, locs), Cache(c, locs)}
               /\ {Meta(c, locs), Cache(c, locs)} \subseteq ToSet(ws)
               /\ disp[c] = "deleted_remote" => Disp(c, "none") \in ToSet(ws)
BY ArtifactWrites, RestoringWrites, ElementsOfConcat

(* What reconcile_remote_missing makes of the locations of c, and for which *)
(* messages it writes.                                                      *)
Marked(c) == MarkMissing(cache[c], pull.snaps)

ToMark == {c \in Contents : cache[c] # None /\ Marked(c) # cache[c]}

LEMMA MarkedLocations ==
    ASSUME PullType, NEW c \in Contents, cache[c] # None
    PROVE  /\ cache[c] \in SUBSET Place /\ Marked(c) \in SUBSET Place
           /\ \A l \in Marked(c) : \E k \in cache[c] :
                 /\ l.box = k.box /\ l.val = k.val /\ l.uid = k.uid
                 /\ ~l.missing => ~k.missing
           /\ \A k \in cache[c] :
                 ~k.missing /\ (\A i \in DOMAIN pull.snaps : ~GoneFrom(k, pull.snaps[i])) =>
                    k \in Marked(c)
<1> DEFINE gone(l) == \E i \in DOMAIN pull.snaps : GoneFrom(l, pull.snaps[i])
           mark(l) == [l EXCEPT !.missing = @ \/ gone(l)]
<1>1. cache[c] \in SUBSET Place
  <2>1. cache \in [Contents -> (SUBSET Place) \cup {None}]
    BY DEF PullType
  <2> QED BY <2>1
<1>2. Marked(c) = {mark(l) : l \in cache[c]}
  BY DEF Marked, MarkMissing
<1>3. ASSUME NEW l \in cache[c]
      PROVE  /\ mark(l) \in Place
             /\ mark(l).box = l.box /\ mark(l).val = l.val /\ mark(l).uid = l.uid
             /\ mark(l).missing = (l.missing \/ gone(l))
             /\ ~l.missing /\ ~gone(l) => mark(l) = l
  <2>1. l \in Place /\ l.missing \in BOOLEAN
    BY <1>1 DEF Place
  <2>2. gone(l) \in BOOLEAN
    OBVIOUS
  <2>3. (l.missing \/ gone(l)) \in BOOLEAN
    BY <2>1, <2>2
  <2> HIDE DEF gone
  <2> QED BY <2>1, <2>2, <2>3 DEF Place
<1>4. ASSUME NEW l \in Marked(c)
      PROVE  \E k \in cache[c] : /\ l.box = k.box /\ l.val = k.val /\ l.uid = k.uid
                                 /\ ~l.missing => ~k.missing
  <2> HIDE DEF mark, gone
  <2>1. PICK k \in cache[c] : l = mark(k)
    BY <1>2
  <2>2. l.missing = (k.missing \/ gone(k))
    BY <1>3, <2>1
  <2> QED BY <1>3, <2>1, <2>2
<1>5. ASSUME NEW k \in cache[c], ~k.missing, \A i \in DOMAIN pull.snaps : ~GoneFrom(k, pull.snaps[i])
      PROVE  k \in Marked(c)
  <2>1. ~gone(k)
    BY <1>5
  <2> HIDE DEF mark, gone
  <2>2. mark(k) = k
    BY <1>3, <1>5, <2>1
  <2> QED BY <1>2, <2>2
<1>6. Marked(c) \in SUBSET Place
  <2> HIDE DEF mark
  <2> QED BY <1>2, <1>3
<1> QED BY <1>1, <1>4, <1>5, <1>6

LEMMA MarkingAll ==
    ASSUME PullType, Reconcile
    PROVE  /\ writes' \in Seq(FileWrite)
           /\ ToSet(writes') = UNION {ToSet(ReconcileWrites(c, Marked(c))) : c \in ToMark}
<1> DEFINE kept == {c \in ToMark : Active(Marked(c)) # {}}
           order == SetToSeq(kept) \o SetToSeq(ToMark \ kept)
           blocks == [i \in DOMAIN order |-> ReconcileWrites(order[i], Marked(order[i]))]
<1>1. writes' = FlattenSeq(blocks)
  BY DEF Reconcile, Marked, ToMark
<1>2. IsFiniteSet(kept) /\ IsFiniteSet(ToMark \ kept)
  <2>1. IsFiniteSet(Contents)
    BY PullAssumption
  <2>2. kept \in SUBSET Contents /\ ToMark \ kept \in SUBSET Contents
    BY DEF ToMark
  <2> HIDE DEF kept
  <2> QED BY <2>1, <2>2, FS_Subset
<1>3. order \in Seq(Contents) /\ ToSet(order) = ToMark
  <2> DEFINE a == SetToSeq(kept)
             b == SetToSeq(ToMark \ kept)
  <2>1. a \in Seq(kept) /\ ToSet(a) = kept
    BY <1>2, ListOfSet
  <2>2. b \in Seq(ToMark \ kept) /\ ToSet(b) = ToMark \ kept
    <3> HIDE DEF kept
    <3> QED BY <1>2, ListOfSet
  <2>3. kept \subseteq Contents /\ kept \subseteq ToMark /\ ToMark \subseteq Contents
    BY DEF ToMark
  <2> HIDE DEF a, b, kept
  <2>4. a \in Seq(Contents) /\ b \in Seq(Contents)
    BY <2>1, <2>2, <2>3
  <2>5. a \o b \in Seq(Contents) /\ ToSet(a \o b) = ToSet(a) \cup ToSet(b)
    BY <2>4, ElementsOfConcat
  <2> QED BY <2>1, <2>2, <2>3, <2>5 DEF a, b
<1> HIDE DEF order
<1>4. \A i \in DOMAIN order : order[i] \in ToMark
  BY <1>3 DEF ToSet
<1>5. \A c \in ToMark : c \in Contents /\ Marked(c) \in SUBSET Place
                        /\ ReconcileWrites(c, Marked(c)) \in Seq(FileWrite)
  BY MarkedLocations, MarkingWrites DEF ToMark
<1>6. blocks \in Seq(Seq(FileWrite)) /\ DOMAIN blocks = DOMAIN order
  <2>1. Len(order) \in Nat /\ DOMAIN order = 1..Len(order)
    BY <1>3
  <2>2. \A i \in DOMAIN order : ReconcileWrites(order[i], Marked(order[i])) \in Seq(FileWrite)
    BY <1>4, <1>5
  <2> QED BY <2>1, <2>2
<1>7. UNION {ToSet(blocks[i]) : i \in DOMAIN blocks}
        = UNION {ToSet(ReconcileWrites(c, Marked(c))) : c \in ToMark}
  <2>1. {order[i] : i \in DOMAIN order} = ToMark
    BY <1>3 DEF ToSet
  <2>2. \A i \in DOMAIN order : blocks[i] = ReconcileWrites(order[i], Marked(order[i]))
    OBVIOUS
  <2> HIDE DEF blocks
  <2> QED BY <1>6, <2>1, <2>2
<1> HIDE DEF blocks
<1> QED BY <1>1, <1>6, <1>7, Flattened
-----------------------------------------------------------------------------
(* The types.                                                                *)

LEMMA InitType == Init => PullType
<1> SUFFICES ASSUME Init PROVE PullType
  OBVIOUS
<1> USE DEF Init
<1>1. \A b \in Mailboxes : InitialMail[b] \in Seq(Contents)
  BY PullAssumption
<1>2. mail \in [Mailboxes -> SUBSET (Nat \X Contents)]
  BY <1>1
<1>3. nextUid \in [Mailboxes -> Nat]
  BY <1>1
<1>4. pull \in PullRecord
  BY DEF NoPull, PullRecord
<1>5. disp \in [Contents -> Dispositions]
  BY DEF Dispositions
<1>6. writes \in Seq(FileWrite)
  OBVIOUS
<1> QED BY <1>2, <1>3, <1>4, <1>5, <1>6 DEF PullType

(* The message of a UID in a mailbox. *)
LEMMA MessageAt ==
    ASSUME PullType, NEW b \in Mailboxes, NEW u \in UidsIn(b)
    PROVE  <<u, ContentAt(b, u)>> \in mail[b] /\ ContentAt(b, u) \in Contents /\ u \in Nat
<1>1. mail[b] \in SUBSET (Nat \X Contents)
  BY DEF PullType
<1>2. \E m \in mail[b] : m[1] = u
  BY DEF UidsIn
<1> DEFINE n == CHOOSE m \in mail[b] : m[1] = u
<1>3. n \in mail[b] /\ n[1] = u
  BY <1>2
<1> HIDE DEF n
<1>4. ContentAt(b, u) = n[2]
  BY DEF ContentAt, n
<1>5. n = <<n[1], n[2]>> /\ n[1] \in Nat /\ n[2] \in Contents
  BY <1>1, <1>3
<1> QED BY <1>3, <1>4, <1>5

LEMMA SetOfUids ==
    ASSUME PullType, NEW b \in Mailboxes
    PROVE  UidsIn(b) \in SUBSET Nat
BY MessageAt

(* The mailbox, the selected UIDs and the lists of the pull. *)
LEMMA PullFields ==
    ASSUME PullType
    PROVE  /\ pull \in PullRecord
           /\ pull.todo \in Seq(Mailboxes) /\ pull.targets \in Seq(Mailboxes)
           /\ pull.todo # <<>> => Head(pull.todo) \in Mailboxes
           /\ Tail(pull.todo) \in Seq(Mailboxes) \/ pull.todo = <<>>
           /\ pull.uids \in SUBSET Nat /\ pull.cand \in SUBSET Nat
           /\ pull.val \in Nat /\ pull.prev \in Nat /\ pull.blocked \in Nat
           /\ pull.high \in Nat /\ pull.budget \in Nat
           /\ pull.updates \in Seq(Update) /\ pull.snaps \in Seq(Snapshot)
           /\ pull.incremental \in BOOLEAN
<1>1. pull \in PullRecord
  BY DEF PullType
<1>2. pull.todo \in Seq(Mailboxes)
  BY <1>1 DEF PullRecord
<1>3. pull.todo # <<>> => Head(pull.todo) \in Mailboxes /\ Tail(pull.todo) \in Seq(Mailboxes)
  BY <1>2
<1> QED BY <1>1, <1>2, <1>3 DEF PullRecord
-----------------------------------------------------------------------------
(* The server.  Validity values and UIDs grow, so that nothing that is known *)
(* of a UID becomes true of another message.                                 *)
Later ==
    \A b \in Mailboxes :
        /\ validity[b] <= validity'[b]
        /\ validity'[b] = validity[b] =>
              /\ nextUid[b] <= nextUid'[b]
              /\ \A m \in mail'[b] : m \in mail[b] \/ nextUid[b] <= m[1]

ServerTypes ==
    /\ mail \in [Mailboxes -> SUBSET (Nat \X Contents)]
    /\ validity \in [Mailboxes -> Nat] /\ nextUid \in [Mailboxes -> Nat]

LEMMA ServerStays ==
    ASSUME ServerTypes, UidsAreUsedOnce, UNCHANGED <<mail, validity, nextUid>>
    PROVE  ServerTypes' /\ UidsAreUsedOnce' /\ Later
BY DEF ServerTypes, UidsAreUsedOnce, Later

(* A message enters mailbox b, and others may leave. *)
LEMMA MessageEnters ==
    ASSUME ServerTypes, UidsAreUsedOnce, validity' = validity,
           NEW b \in Mailboxes, NEW c \in Contents,
           nextUid' = [nextUid EXCEPT ![b] = @ + 1],
           mail' \in [Mailboxes -> SUBSET (Nat \X Contents)],
           mail'[b] \subseteq mail[b] \cup {<<nextUid[b], c>>},
           \A d \in Mailboxes \ {b} : mail'[d] \subseteq mail[d]
    PROVE  ServerTypes' /\ UidsAreUsedOnce' /\ Later
<1>1. /\ nextUid[b] \in Nat /\ 1 <= nextUid[b] /\ nextUid'[b] = nextUid[b] + 1
      /\ \A d \in Mailboxes \ {b} : nextUid'[d] = nextUid[d]
  BY DEF ServerTypes, UidsAreUsedOnce
<1>2. ServerTypes'
  <2>1. validity' \in [Mailboxes -> Nat] /\ nextUid \in [Mailboxes -> Nat]
    BY DEF ServerTypes
  <2>2. nextUid' \in [Mailboxes -> Nat]
    BY <1>1, <2>1
  <2> QED BY <2>1, <2>2 DEF ServerTypes
<1>3. \A m \in mail[b] : m[1] \in Nat /\ 1 <= m[1] /\ m[1] < nextUid[b]
  BY DEF UidsAreUsedOnce, ServerTypes
<1>4. \A m \in mail'[b] : 1 <= m[1] /\ m[1] < nextUid'[b]
                          /\ (m \in mail[b] \/ m = <<nextUid[b], c>>)
  <2> SUFFICES ASSUME NEW m \in mail'[b]
               PROVE  1 <= m[1] /\ m[1] < nextUid'[b]
                      /\ (m \in mail[b] \/ m = <<nextUid[b], c>>)
    OBVIOUS
  <2>1. CASE m \in mail[b]
    BY <2>1, <1>1, <1>3
  <2>2. CASE m = <<nextUid[b], c>>
    <3>1. m[1] = nextUid[b]
      BY <2>2
    <3>2. 1 <= nextUid[b] /\ nextUid[b] < nextUid[b] + 1
      BY <1>1
    <3>3. nextUid'[b] = nextUid[b] + 1
      BY <1>1
    <3> QED BY <2>2, <3>1, <3>2, <3>3
  <2>3. m \in mail[b] \cup {<<nextUid[b], c>>}
    OBVIOUS
  <2> QED BY <2>1, <2>2, <2>3
<1>5. \A m, n \in mail'[b] : m[1] = n[1] => m = n
  <2> SUFFICES ASSUME NEW m \in mail'[b], NEW n \in mail'[b], m[1] = n[1] PROVE m = n
    OBVIOUS
  <2>1. CASE m \in mail[b] /\ n \in mail[b]
    BY <2>1 DEF UidsAreUsedOnce
  <2>2. CASE m = <<nextUid[b], c>> /\ n = <<nextUid[b], c>>
    BY <2>2
  <2>3. ~(m \in mail[b] /\ n = <<nextUid[b], c>>)
    BY <1>1, <1>3
  <2>4. ~(n \in mail[b] /\ m = <<nextUid[b], c>>)
    BY <1>1, <1>3
  <2> QED BY <1>4, <2>1, <2>2, <2>3, <2>4
<1>6. UidsAreUsedOnce'
  <2>1. \A d \in Mailboxes \ {b} : nextUid'[d] = nextUid[d] /\ mail'[d] \subseteq mail[d]
    BY <1>1
  <2>2. 1 <= nextUid'[b]
    BY <1>1
  <2> QED BY <1>4, <1>5, <2>1, <2>2 DEF UidsAreUsedOnce
<1>7. Later
  <2> SUFFICES ASSUME NEW d \in Mailboxes
               PROVE  /\ validity[d] <= validity[d] /\ nextUid[d] <= nextUid'[d]
                      /\ \A m \in mail'[d] : m \in mail[d] \/ nextUid[d] <= m[1]
    BY DEF Later
  <2>1. validity[d] \in Nat /\ nextUid[d] \in Nat
    BY DEF ServerTypes
  <2>2. CASE d = b
    BY <2>1, <2>2, <1>1, <1>4
  <2>3. CASE d # b
    BY <2>1, <2>3, <1>1
  <2> QED BY <2>2, <2>3
<1> QED BY <1>2, <1>6, <1>7

LEMMA MessageLeaves ==
    ASSUME ServerTypes, UidsAreUsedOnce, UNCHANGED <<validity, nextUid>>,
           mail' \in [Mailboxes -> SUBSET (Nat \X Contents)],
           \A d \in Mailboxes : mail'[d] \subseteq mail[d]
    PROVE  ServerTypes' /\ UidsAreUsedOnce' /\ Later
BY DEF ServerTypes, UidsAreUsedOnce, Later

LEMMA Renumbering ==
    ASSUME ServerTypes, UidsAreUsedOnce, NEW b \in Mailboxes, Renumber(b)
    PROVE  ServerTypes' /\ UidsAreUsedOnce' /\ Later
<1> DEFINE S == UidsIn(b)
           rank(u) == Cardinality({v \in S : v <= u})
           n == nextUid[b] - 1
<1>1. nextUid[b] \in Nat /\ mail[b] \in SUBSET (Nat \X Contents)
  BY DEF ServerTypes
<1>2. \A m \in mail[b] : m[1] \in S /\ m[1] \in 1..n
  <2>1. \A m \in mail[b] : m[1] \in Nat /\ 1 <= m[1] /\ m[1] < nextUid[b]
    BY <1>1 DEF UidsAreUsedOnce
  <2> QED BY <1>1, <2>1 DEF UidsIn
<1>3. CASE S = {}
  <2>1. mail[b] = {}
    BY <1>2, <1>3
  <2>2. Cardinality(S) = 0
    BY <1>3, FS_EmptySet
  <2> HIDE DEF S
  <2>3. mail' = [mail EXCEPT ![b] = {}] /\ nextUid' = [nextUid EXCEPT ![b] = 1]
        /\ validity' = [validity EXCEPT ![b] = @ + 1]
    <3>1. mail' = [mail EXCEPT ![b] = {<<rank(m[1]), m[2]>> : m \in mail[b]}]
      BY DEF Renumber, S
    <3>2. {<<rank(m[1]), m[2]>> : m \in mail[b]} = {}
      <4> HIDE DEF rank
      <4> QED BY <2>1
    <3>3. nextUid' = [nextUid EXCEPT ![b] = Cardinality(S) + 1]
          /\ validity' = [validity EXCEPT ![b] = @ + 1]
      BY DEF Renumber, S
    <3>4. Cardinality(S) + 1 = 1
      BY <2>2
    <3> HIDE DEF rank
    <3> QED BY <3>1, <3>2, <3>3, <3>4
  <2>4. /\ mail'[b] = {} /\ nextUid'[b] = 1 /\ validity'[b] = validity[b] + 1
        /\ \A d \in Mailboxes \ {b} :
              mail'[d] = mail[d] /\ nextUid'[d] = nextUid[d] /\ validity'[d] = validity[d]
    BY <2>3 DEF ServerTypes
  <2>5. ServerTypes'
    BY <2>3 DEF ServerTypes
  <2>6. UidsAreUsedOnce'
    BY <2>4 DEF UidsAreUsedOnce
  <2>7. Later
    BY <2>4 DEF Later, ServerTypes
  <2> QED BY <2>5, <2>6, <2>7
<1>4. CASE S # {}
  <2>1. n \in Nat /\ S \in SUBSET (1..n)
    <3>1. S \subseteq 1..n
      BY <1>2 DEF UidsIn
    <3> QED BY <1>1, <1>4, <3>1
  <2>2. /\ Cardinality(S) \in Nat
        /\ \A u \in S : rank(u) \in 1..Cardinality(S)
        /\ \A u, w \in S : rank(u) = rank(w) => u = w
    <3> HIDE DEF S, n
    <3> QED BY <2>1, Ranks
  <2>3. /\ mail' = [mail EXCEPT ![b] = {<<rank(m[1]), m[2]>> : m \in mail[b]}]
        /\ nextUid' = [nextUid EXCEPT ![b] = Cardinality(S) + 1]
        /\ validity' = [validity EXCEPT ![b] = @ + 1]
    BY DEF Renumber, ServerTypes
  <2> HIDE DEF rank, S, n
  <2>4. /\ mail'[b] = {<<rank(m[1]), m[2]>> : m \in mail[b]}
        /\ nextUid'[b] = Cardinality(S) + 1 /\ validity'[b] = validity[b] + 1
        /\ \A d \in Mailboxes \ {b} :
              mail'[d] = mail[d] /\ nextUid'[d] = nextUid[d] /\ validity'[d] = validity[d]
    BY <2>3 DEF ServerTypes
  <2>5. \A m \in mail[b] : rank(m[1]) \in 1..Cardinality(S) /\ m[2] \in Contents
    BY <1>1, <1>2, <2>2
  <2>6. ServerTypes'
    <3>1. mail'[b] \in SUBSET (Nat \X Contents)
      BY <2>2, <2>4, <2>5
    <3>2. mail' \in [Mailboxes -> SUBSET (Nat \X Contents)]
      BY <2>3, <2>4, <3>1 DEF ServerTypes
    <3> QED BY <2>2, <2>3, <3>2 DEF ServerTypes
  <2>7. \A m \in mail'[b] : 1 <= m[1] /\ m[1] < nextUid'[b]
    BY <2>2, <2>4, <2>5
  <2>8. \A x, y \in mail'[b] : x[1] = y[1] => x = y
    <3> SUFFICES ASSUME NEW m \in mail[b], NEW k \in mail[b], rank(m[1]) = rank(k[1])
                 PROVE  <<rank(m[1]), m[2]>> = <<rank(k[1]), k[2]>>
      BY <2>4
    <3>1. m[1] = k[1]
      BY <1>2, <2>2
    <3>2. m = k
      BY <3>1 DEF UidsAreUsedOnce
    <3> QED BY <3>2
  <2>9. UidsAreUsedOnce'
    BY <2>2, <2>4, <2>7, <2>8 DEF UidsAreUsedOnce
  <2>10. Later
    BY <2>4 DEF Later, ServerTypes
  <2> QED BY <2>6, <2>9, <2>10
<1> QED BY <1>3, <1>4

(* What every step of the server, of other commands and of the pull does to *)
(* the mailboxes.                                                           *)
LEMMA ServerMoves ==
    ASSUME PullType, UidsAreUsedOnce, [Next]_vars
    PROVE  ServerTypes' /\ UidsAreUsedOnce' /\ Later
<1>0. ServerTypes
  BY DEF PullType, ServerTypes
<1>1. CASE PullStep
  BY <1>0, <1>1, ServerStays
     DEF PullStep, MakeWrite, SelectMailbox, FetchHeader, FetchBody, MailboxDone,
         TakeSnapshot, Reconcile, CommitCursors, Render, server, local
<1>2. CASE \E l \in TargetLists, h \in Histories : StartPull(l, h)
  BY <1>0, <1>2, ServerStays DEF StartPull, server
<1>3. CASE Abort
  BY <1>0, <1>3, ServerStays DEF Abort, server
<1>4. CASE UNCHANGED vars
  BY <1>0, <1>4, ServerStays DEF vars, server
<1>5. ASSUME NEW b \in Arrivals, NEW c \in Contents, Deliver(b, c)
      PROVE  ServerTypes' /\ UidsAreUsedOnce' /\ Later
  <2>1. b \in Mailboxes
    BY PullAssumption
  <2>2. /\ mail' = [mail EXCEPT ![b] = @ \cup {<<nextUid[b], c>>}]
        /\ nextUid' = [nextUid EXCEPT ![b] = @ + 1] /\ validity' = validity
    BY <1>5 DEF Deliver
  <2>3. nextUid[b] \in Nat /\ mail[b] \in SUBSET (Nat \X Contents)
    BY <1>0, <2>1 DEF ServerTypes
  <2>4. /\ mail' \in [Mailboxes -> SUBSET (Nat \X Contents)]
        /\ mail'[b] \subseteq mail[b] \cup {<<nextUid[b], c>>}
        /\ \A d \in Mailboxes \ {b} : mail'[d] \subseteq mail[d]
    BY <1>0, <2>1, <2>2, <2>3 DEF ServerTypes
  <2> QED BY <1>0, <2>1, <2>2, <2>4, MessageEnters
<1>6. ASSUME NEW b \in Mailboxes, NEW d \in Mailboxes, NEW u \in Uids, Move(b, u, d)
      PROVE  ServerTypes' /\ UidsAreUsedOnce' /\ Later
  <2> DEFINE c == ContentAt(b, u)
             left == {m \in mail[b] : m[1] # u}
  <2>1. b # d /\ u \in UidsIn(b) /\ c \in Contents
    BY <1>6, MessageAt DEF Move
  <2>2. /\ mail' = [mail EXCEPT ![b] = left, ![d] = @ \cup {<<nextUid[d], c>>}]
        /\ nextUid' = [nextUid EXCEPT ![d] = @ + 1] /\ validity' = validity
    BY <1>6 DEF Move, ServerTypes
  <2> HIDE DEF c
  <2>3. nextUid[d] \in Nat /\ mail[d] \in SUBSET (Nat \X Contents)
        /\ left \in SUBSET (Nat \X Contents) /\ left \subseteq mail[b]
    BY <1>0 DEF ServerTypes
  <2> HIDE DEF left
  <2>4. /\ mail' \in [Mailboxes -> SUBSET (Nat \X Contents)]
        /\ mail'[d] \subseteq mail[d] \cup {<<nextUid[d], c>>}
        /\ \A e \in Mailboxes \ {d} : mail'[e] \subseteq mail[e]
    BY <1>0, <2>1, <2>2, <2>3 DEF ServerTypes
  <2> QED BY <1>0, <2>1, <2>2, <2>4, MessageEnters
<1>7. ASSUME NEW b \in Mailboxes, NEW u \in Uids, Expunge(b, u)
      PROVE  ServerTypes' /\ UidsAreUsedOnce' /\ Later
  <2>1. /\ mail' = [mail EXCEPT ![b] = {m \in @ : m[1] # u}]
        /\ UNCHANGED <<validity, nextUid>>
    BY <1>7 DEF Expunge
  <2>2. /\ mail' \in [Mailboxes -> SUBSET (Nat \X Contents)]
        /\ \A d \in Mailboxes : mail'[d] \subseteq mail[d]
    BY <1>0, <2>1 DEF ServerTypes
  <2> QED BY <1>0, <2>1, <2>2, MessageLeaves
<1>8. ASSUME NEW b \in Mailboxes, Renumber(b)
      PROVE  ServerTypes' /\ UidsAreUsedOnce' /\ Later
  BY <1>0, <1>8, Renumbering
<1>9. ASSUME NEW c \in Contents, Age(c) \/ AddToCase(c) \/ Purge(c)
      PROVE  ServerTypes' /\ UidsAreUsedOnce' /\ Later
  BY <1>0, <1>9, ServerStays DEF Age, AddToCase, Purge, server
<1>10. CASE CursorsLost
  BY <1>0, <1>10, ServerStays DEF CursorsLost, server
<1> QED BY <1>1, <1>2, <1>3, <1>4, <1>5, <1>6, <1>7, <1>8, <1>9, <1>10 DEF Next, Environment

FilesTyped ==
    /\ eml \subseteq Contents /\ refs \subseteq Contents
    /\ meta \in [Contents -> SUBSET Place]
    /\ cache \in [Contents -> (SUBSET Place) \cup {None}]
    /\ disp \in [Contents -> Dispositions]

CursorsTyped ==
    \A b \in Mailboxes :
        cursors[b] # None => cursors[b].val \in Nat /\ cursors[b].highest \in Nat

ControlTyped ==
    /\ pc \in {"idle", "select", "scan", "commit", "render"}
    /\ pull \in PullRecord
    /\ pc = "scan" => pull.todo # <<>>
    /\ writes \in Seq(FileWrite)
    /\ writes # <<>> => pc \in {"scan", "commit"}
    /\ aborts \in Nat

LEMMA TypeParts ==
    PullType <=> ServerTypes /\ FilesTyped /\ CursorsTyped /\ ControlTyped
BY DEF PullType, ServerTypes, FilesTyped, CursorsTyped, ControlTyped

LEMMA MakeWriteType ==
    ASSUME PullType, MakeWrite
    PROVE  FilesTyped' /\ CursorsTyped' /\ ControlTyped'
<1>1. FilesTyped /\ CursorsTyped /\ ControlTyped
  BY TypeParts
<1> DEFINE w == Head(writes)
<1>2. w \in FileWrite /\ Tail(writes) \in Seq(FileWrite)
  BY <1>1, HeadAndTail DEF ControlTyped, MakeWrite
<1>3. ControlTyped'
  BY <1>1, <1>2 DEF MakeWrite, ControlTyped, bounds
<1>4. CursorsTyped'
  BY <1>1 DEF MakeWrite, CursorsTyped
<1>5. /\ w.file \in {"meta", "cache"} => w.locs \in SUBSET Place
      /\ w.file = "eml" => w.c \in Contents
      /\ w.file = "disp" => w.disp \in Dispositions
      /\ w.c \in Contents
  <2> HIDE DEF w
  <2>1. CASE w \in [file : {"meta", "cache"}, c : Contents, locs : SUBSET Place]
    BY <2>1
  <2>2. CASE w \in [file : {"eml"}, c : Contents]
    BY <2>2
  <2>3. CASE w \in [file : {"disp"}, c : Contents, disp : Dispositions]
    BY <2>3
  <2> QED BY <1>2, <2>1, <2>2, <2>3 DEF FileWrite
<1>6. /\ meta' = IF w.file = "meta" THEN [meta EXCEPT ![w.c] = w.locs] ELSE meta
      /\ cache' = IF w.file = "cache" THEN [cache EXCEPT ![w.c] = w.locs] ELSE cache
      /\ eml' = IF w.file = "eml" THEN eml \cup {w.c} ELSE eml
      /\ disp' = IF w.file = "disp" THEN [disp EXCEPT ![w.c] = w.disp] ELSE disp
      /\ refs' = refs
  BY DEF MakeWrite
<1> HIDE DEF w
<1>7. FilesTyped'
  <2>1. meta' \in [Contents -> SUBSET Place]
    BY <1>1, <1>5, <1>6 DEF FilesTyped
  <2>2. cache' \in [Contents -> (SUBSET Place) \cup {None}]
    BY <1>1, <1>5, <1>6 DEF FilesTyped
  <2>3. disp' \in [Contents -> Dispositions]
    BY <1>1, <1>5, <1>6 DEF FilesTyped
  <2>4. eml' \subseteq Contents /\ refs' \subseteq Contents
    BY <1>1, <1>5, <1>6 DEF FilesTyped
  <2> QED BY <2>1, <2>2, <2>3, <2>4 DEF FilesTyped
<1> QED BY <1>3, <1>4, <1>7

LEMMA SelectMailboxType ==
    ASSUME PullType, SelectMailbox
    PROVE  ControlTyped'
<1>1. ControlTyped /\ CursorsTyped /\ ServerTypes
  BY TypeParts
<1>2. /\ pull.todo # <<>> /\ writes = <<>> /\ writes' = writes /\ aborts' = aborts
      /\ pc' = "scan" /\ Head(pull.todo) \in Mailboxes
  BY PullFields DEF SelectMailbox, At, bounds
<1> DEFINE b == Head(pull.todo)
           cur == CursorFor(b)
           valid == cur # None /\ cur.val = validity[b]
           sel == SelectUids(b, cur, pull.all)
           prev == IF valid THEN cur.highest ELSE 0
<1>3. pull' = [pull EXCEPT !.val = validity[b], !.uids = sel, !.prev = prev,
                           !.blocked = 0, !.high = prev, !.cand = {},
                           !.incremental = @ /\ valid]
  BY DEF SelectMailbox
<1>4. sel \in SUBSET Nat
  BY <1>2, SetOfUids DEF SelectUids
<1>5. prev \in Nat
  BY <1>1, <1>2 DEF CursorFor, CursorsTyped
<1>6. validity[b] \in Nat
  BY <1>1, <1>2 DEF ServerTypes
<1>7. (pull.incremental /\ valid) \in BOOLEAN
  OBVIOUS
<1> HIDE DEF sel, prev, valid, b
<1>8. pull' \in PullRecord /\ pull'.todo = pull.todo
  BY <1>3, <1>4, <1>5, <1>6, <1>7, PullFields DEF PullRecord
<1> QED BY <1>1, <1>2, <1>8 DEF ControlTyped

LEMMA FetchHeaderType ==
    ASSUME PullType, FetchHeader
    PROVE  ControlTyped'
<1>1. ControlTyped /\ FilesTyped
  BY TypeParts
<1> DEFINE u == LeastUid(pull.uids)
           b == Head(pull.todo)
<1>2. u \in pull.uids /\ u \in Nat
  BY PullFields, LeastUidIsIn DEF FetchHeader
<1>3. /\ NoHeader(u) \/ KnownHeader(u) \/ AdmitHeader(u) \/ OverBudget(u)
      /\ pc = "scan" /\ pc' = pc /\ aborts' = aborts
  BY DEF FetchHeader, At
<1> HIDE DEF u
<1>4. Blocked(pull, u) \in Nat /\ Largest(pull.high, u) \in Nat
  BY <1>2, PullFields DEF Blocked, Largest
<1>5. pull' \in PullRecord /\ pull'.todo = pull.todo
  <2>1. CASE NoHeader(u)
    BY <2>1, <1>2, <1>4, PullFields DEF NoHeader, PullRecord
  <2>2. CASE KnownHeader(u)
    BY <2>2, <1>2, <1>4, PullFields DEF KnownHeader, PullRecord
  <2>3. CASE AdmitHeader(u)
    <3>1. pull.budget - 1 \in Nat
      BY <2>3, PullFields DEF AdmitHeader
    <3> QED BY <2>3, <3>1, <1>2, <1>4, PullFields DEF AdmitHeader, PullRecord
  <2>4. CASE OverBudget(u)
    BY <2>4, <1>2, <1>4, PullFields DEF OverBudget, PullRecord
  <2> QED BY <1>3, <2>1, <2>2, <2>3, <2>4
<1>6. writes' \in Seq(FileWrite)
  <2>1. CASE KnownHeader(u)
    <3> DEFINE known == Known(b, pull.val, u)
               c == CHOOSE x \in known : TRUE
    <3>1. known # {} /\ writes' \in {<<>>, Artifacts(c, meta[c])}
      BY <2>1 DEF KnownHeader
    <3>2. c \in known
      BY <3>1
    <3> HIDE DEF c
    <3>3. c \in Contents /\ meta[c] \in SUBSET Place
      BY <3>2, <1>1 DEF Known, FilesTyped
    <3>4. Artifacts(c, meta[c]) \in Seq(FileWrite) /\ <<>> \in Seq(FileWrite)
      BY <3>3, ArtifactWrites
    <3> QED BY <3>1, <3>4
  <2>2. CASE ~KnownHeader(u)
    <3>1. writes' = <<>>
      BY <2>2, <1>3 DEF NoHeader, AdmitHeader, OverBudget
    <3> QED BY <3>1
  <2> QED BY <2>1, <2>2
<1> QED BY <1>1, <1>3, <1>5, <1>6 DEF ControlTyped

(* The body of UID u: the mailbox, its message, and what becomes of the scan. *)
LEMMA BodyFields ==
    ASSUME PullType, FetchBody
    PROVE  LET b == Head(pull.todo)
               u == LeastUid(pull.cand)
           IN  /\ b \in Mailboxes /\ u \in pull.cand /\ u \in Nat
               /\ NoBody(u) \/ MergeBody(u) \/ StoreBody(u)
               /\ Here(u) \in Place /\ ImportAs[b] \in Dispositions
               /\ u \in UidsIn(b) => ContentAt(b, u) \in Contents
<1>1. PullType /\ pull.cand # {} /\ pc = "scan"
  BY DEF FetchBody, At
<1>2. Head(pull.todo) \in Mailboxes /\ pull.val \in Nat
  BY <1>1, PullFields DEF PullType
<1>3. LeastUid(pull.cand) \in pull.cand
  BY <1>1, PullFields, LeastUidIsIn
<1>4. LeastUid(pull.cand) \in Nat
  BY <1>3, PullFields
<1>5. Here(LeastUid(pull.cand)) \in Place
  BY <1>2, <1>4 DEF Here, Place
<1>6. ImportAs[Head(pull.todo)] \in Dispositions
  BY <1>2, PullAssumption
<1> QED BY <1>2, <1>3, <1>4, <1>5, <1>6, MessageAt DEF FetchBody

LEMMA FetchBodyType ==
    ASSUME PullType, FetchBody
    PROVE  ControlTyped'
<1>1. ControlTyped /\ FilesTyped
  BY TypeParts
<1> DEFINE u == LeastUid(pull.cand)
           b == Head(pull.todo)
           c == ContentAt(b, u)
<1>2. /\ b \in Mailboxes /\ u \in pull.cand /\ u \in Nat
      /\ NoBody(u) \/ MergeBody(u) \/ StoreBody(u)
      /\ Here(u) \in Place /\ ImportAs[b] \in Dispositions
      /\ u \in UidsIn(b) => c \in Contents
  BY BodyFields
<1>3. pc = "scan" /\ pc' = pc /\ aborts' = aborts
  BY DEF FetchBody, At
<1> HIDE DEF u
<1>4. Blocked(pull, u) \in Nat
  BY <1>2, PullFields DEF Blocked
<1>5. pull' \in PullRecord /\ pull'.todo = pull.todo
  <2>1. CASE NoBody(u)
    BY <2>1, <1>2, <1>4, PullFields DEF NoBody, PullRecord
  <2>2. CASE MergeBody(u)
    <3>1. pull' = [pull EXCEPT !.cand = @ \ {u}, !.budget = @ + 1]
      BY <2>2 DEF MergeBody
    <3>2. pull.budget + 1 \in Nat
      BY PullFields
    <3> QED BY <3>1, <3>2, PullFields DEF PullRecord
  <2>3. CASE StoreBody(u)
    BY <2>3, <1>2, PullFields DEF StoreBody, PullRecord
  <2> QED BY <1>2, <2>1, <2>2, <2>3
<1>6. writes' \in Seq(FileWrite)
  <2>1. CASE NoBody(u)
    <3>1. writes' = <<>>
      BY <2>1 DEF NoBody
    <3> QED BY <3>1
  <2>2. CASE MergeBody(u)
    <3> DEFINE locs == {l \in meta[c] : <<l.box, l.val, l.uid>> # <<b, pull.val, u>>} \cup {Here(u)}
    <3>1. c \in Contents /\ writes' = Artifacts(c, locs) \o RestoreWrites(c, ImportAs[b], locs)
      BY <2>2, <1>2 DEF MergeBody, Here
    <3>2. locs \in SUBSET Place
      BY <3>1, <1>1, <1>2 DEF FilesTyped
    <3> HIDE DEF locs, c
    <3> QED BY <3>1, <3>2, <1>2, MergingWrites
  <2>3. CASE StoreBody(u)
    <3> DEFINE locs == {Here(u)}
    <3>1. c \in Contents /\ writes' = StoreWrites(c, ImportAs[b], locs)
      BY <2>3, <1>2 DEF StoreBody, Here, StoreWrites
    <3>2. locs \in SUBSET Place
      BY <1>2
    <3> HIDE DEF locs, c
    <3> QED BY <3>1, <3>2, <1>2, StoringWrites
  <2> QED BY <1>2, <2>1, <2>2, <2>3
<1> QED BY <1>1, <1>3, <1>5, <1>6 DEF ControlTyped

LEMMA MailboxDoneType ==
    ASSUME PullType, MailboxDone
    PROVE  ControlTyped'
<1>1. ControlTyped /\ pull.todo # <<>>
  BY TypeParts DEF MailboxDone, At, ControlTyped
<1>2. Head(pull.todo) \in Mailboxes /\ Tail(pull.todo) \in Seq(Mailboxes)
  BY <1>1, PullFields
<1> DEFINE r == [box |-> Head(pull.todo), val |-> pull.val, highest |-> NewHighest(pull)]
<1>3. NewHighest(pull) \in Nat
  BY PullFields DEF NewHighest, Largest
<1>4. r \in Update
  BY <1>2, <1>3, PullFields DEF Update
<1>5. Append(pull.updates, r) \in Seq(Update)
  <2> HIDE DEF r
  <2> QED BY <1>4, PullFields
<1>6. pull' = [pull EXCEPT !.todo = Tail(@), !.val = 1, !.prev = 0, !.blocked = 0, !.high = 0,
                           !.updates = Append(@, r)]
  BY DEF MailboxDone
<1> HIDE DEF r
<1>7. pull' \in PullRecord
  BY <1>2, <1>5, <1>6, PullFields DEF PullRecord
<1> QED BY <1>1, <1>7 DEF ControlTyped, MailboxDone, At, bounds

LEMMA TakeSnapshotType ==
    ASSUME PullType, TakeSnapshot
    PROVE  ControlTyped'
<1>1. ControlTyped /\ ServerTypes
  BY TypeParts
<1> DEFINE b == pull.targets[Len(pull.snaps) + 1]
           snap == [box |-> b, val |-> validity[b], uids |-> UidsIn(b)]
<1>2. b \in Mailboxes
  <2>1. Len(pull.snaps) < Len(pull.targets)
    BY DEF TakeSnapshot
  <2>2. Len(pull.snaps) \in Nat /\ Len(pull.targets) \in Nat /\ pull.targets \in Seq(Mailboxes)
    BY PullFields
  <2> QED BY <2>1, <2>2
<1>3. snap \in Snapshot
  BY <1>1, <1>2, SetOfUids DEF Snapshot, ServerTypes
<1>4. pull' = [pull EXCEPT !.snaps = Append(@, snap)]
  BY DEF TakeSnapshot
<1>5. Append(pull.snaps, snap) \in Seq(Snapshot)
  <2> HIDE DEF snap
  <2> QED BY <1>3, PullFields
<1> HIDE DEF snap
<1>6. pull' \in PullRecord /\ pull'.todo = pull.todo
  BY <1>4, <1>5, PullFields DEF PullRecord
<1> QED BY <1>1, <1>6 DEF ControlTyped, TakeSnapshot, At, bounds

LEMMA CommitCursorsType ==
    ASSUME PullType, CommitCursors
    PROVE  CursorsTyped'
<1>1. CursorsTyped
  BY TypeParts
<1> DEFINE upd(b) == {i \in DOMAIN pull.updates : pull.updates[i].box = b}
           count(b) == IF pull.incremental THEN cursors[b].count + 1 ELSE 0
           next(b) == LET r == pull.updates[CHOOSE i \in upd(b) : TRUE]
                      IN  [val |-> r.val, highest |-> r.highest, count |-> count(b)]
<1>2. cursors' = [b \in Mailboxes |-> IF upd(b) = {} THEN cursors[b] ELSE next(b)]
  BY DEF CommitCursors
<1>3. ASSUME NEW b \in Mailboxes, upd(b) # {}
      PROVE  next(b).val \in Nat /\ next(b).highest \in Nat
  <2> DEFINE k == CHOOSE i \in upd(b) : TRUE
  <2>1. k \in upd(b)
    BY <1>3
  <2> HIDE DEF k
  <2>2. pull.updates[k] \in Update
    BY <2>1, PullFields
  <2>3. next(b) = [val |-> pull.updates[k].val, highest |-> pull.updates[k].highest,
                   count |-> count(b)]
    BY DEF k
  <2> QED BY <2>2, <2>3 DEF Update
<1> HIDE DEF next, upd
<1> QED BY <1>1, <1>2, <1>3 DEF CursorsTyped

LEMMA FilesStay ==
    ASSUME FilesTyped, UNCHANGED <<eml, refs, meta, cache, disp>>
    PROVE  FilesTyped'
BY DEF FilesTyped

LEMMA CursorsStay ==
    ASSUME CursorsTyped, UNCHANGED cursors
    PROVE  CursorsTyped'
BY DEF CursorsTyped

LEMMA ControlStays ==
    ASSUME ControlTyped, UNCHANGED <<pc, pull, writes, aborts>>
    PROVE  ControlTyped'
BY DEF ControlTyped

LEMMA PullStepType ==
    ASSUME PullType, PullStep
    PROVE  FilesTyped' /\ CursorsTyped' /\ ControlTyped'
<1>1. FilesTyped /\ CursorsTyped /\ ControlTyped
  BY TypeParts
<1>2. CASE MakeWrite
  BY <1>2, MakeWriteType
<1>3. CASE SelectMailbox
  BY <1>1, <1>3, SelectMailboxType, FilesStay, CursorsStay DEF SelectMailbox, local
<1>4. CASE FetchHeader
  BY <1>1, <1>4, FetchHeaderType, FilesStay, CursorsStay DEF FetchHeader, local
<1>5. CASE FetchBody
  BY <1>1, <1>5, FetchBodyType, FilesStay, CursorsStay DEF FetchBody, local
<1>6. CASE MailboxDone
  BY <1>1, <1>6, MailboxDoneType, FilesStay, CursorsStay DEF MailboxDone, local
<1>7. CASE TakeSnapshot
  BY <1>1, <1>7, TakeSnapshotType, FilesStay, CursorsStay DEF TakeSnapshot, local
<1>8. CASE Reconcile
  <2>1. ControlTyped'
    BY <1>1, <1>8, MarkingAll DEF Reconcile, ControlTyped, bounds
  <2> QED BY <1>1, <1>8, <2>1, FilesStay, CursorsStay DEF Reconcile, local
<1>9. CASE CommitCursors
  <2>1. ControlTyped'
    BY <1>1, <1>9 DEF CommitCursors, At, ControlTyped, bounds
  <2> QED BY <1>1, <1>9, <2>1, FilesStay, CommitCursorsType DEF CommitCursors
<1>10. CASE Render
  <2>1. NoPull \in PullRecord
    BY DEF NoPull, PullRecord
  <2>2. ControlTyped'
    BY <1>1, <1>10, <2>1 DEF Render, At, ControlTyped, bounds
  <2>3. FilesTyped'
    BY <1>1, <1>10 DEF Render, FilesTyped
  <2> QED BY <1>1, <1>10, <2>2, <2>3, CursorsStay DEF Render
<1> QED BY <1>2, <1>3, <1>4, <1>5, <1>6, <1>7, <1>8, <1>9, <1>10 DEF PullStep

LEMMA TypeNext ==
    ASSUME PullType, UidsAreUsedOnce, [Next]_vars
    PROVE  PullType'
<1>1. FilesTyped /\ CursorsTyped /\ ControlTyped
  BY TypeParts
<1>2. ServerTypes'
  BY ServerMoves
<1>3. NoPull \in PullRecord
  BY DEF NoPull, PullRecord
<1>4. FilesTyped' /\ CursorsTyped' /\ ControlTyped'
  <2>1. CASE PullStep
    BY <2>1, PullStepType
  <2>2. ASSUME NEW l \in TargetLists, NEW h \in Histories, StartPull(l, h)
        PROVE  FilesTyped' /\ CursorsTyped' /\ ControlTyped'
    <3>1. l \in Seq(Mailboxes) /\ h \in BOOLEAN /\ MaxNewMessages \in Nat
      BY PullAssumption
    <3>2. pull' = [NoPull EXCEPT !.all = h, !.targets = l, !.todo = l, !.budget = MaxNewMessages]
      BY <2>2 DEF StartPull
    <3>3. pull' \in PullRecord
      BY <1>3, <3>1, <3>2 DEF PullRecord
    <3>4. ControlTyped'
      BY <1>1, <2>2, <3>3 DEF StartPull, ControlTyped, bounds
    <3> QED BY <1>1, <2>2, <3>4, FilesStay, CursorsStay DEF StartPull, local
  <2>3. CASE Abort
    <3>1. ControlTyped'
      BY <1>1, <1>3, <2>3 DEF Abort, ControlTyped
    <3> QED BY <1>1, <2>3, <3>1, FilesStay, CursorsStay DEF Abort, local
  <2>4. CASE UNCHANGED vars
    BY <1>1, <2>4, FilesStay, CursorsStay, ControlStays DEF vars, local, bounds
  <2>5. ASSUME \/ \E b \in Arrivals, c \in Contents : Deliver(b, c)
               \/ \E b, d \in Mailboxes, u \in Uids : Move(b, u, d)
               \/ \E b \in Mailboxes, u \in Uids : Expunge(b, u)
               \/ \E b \in Mailboxes : Renumber(b)
               \/ \E c \in Contents : Age(c)
        PROVE  FilesTyped' /\ CursorsTyped' /\ ControlTyped'
    BY <1>1, <2>5, FilesStay, CursorsStay, ControlStays
       DEF Deliver, Move, Expunge, Renumber, Age, local, bounds
  <2>6. ASSUME NEW c \in Contents, AddToCase(c)
        PROVE  FilesTyped' /\ CursorsTyped' /\ ControlTyped'
    <3>1. FilesTyped'
      BY <1>1, <2>6 DEF AddToCase, FilesTyped, Dispositions
    <3> QED BY <1>1, <2>6, <3>1, CursorsStay, ControlStays DEF AddToCase, bounds
  <2>7. ASSUME NEW c \in Contents, Purge(c)
        PROVE  FilesTyped' /\ CursorsTyped' /\ ControlTyped'
    <3>1. FilesTyped'
      BY <1>1, <2>7 DEF Purge, FilesTyped, Dispositions
    <3> QED BY <1>1, <2>7, <3>1, CursorsStay, ControlStays DEF Purge, bounds
  <2>8. CASE CursorsLost
    <3>1. CursorsTyped'
      BY <2>8 DEF CursorsLost, CursorsTyped
    <3> QED BY <1>1, <2>8, <3>1, FilesStay, ControlStays DEF CursorsLost
  <2> QED BY <2>1, <2>2, <2>3, <2>4, <2>5, <2>6, <2>7, <2>8 DEF Next, Environment
<1>5. (PullType <=> ServerTypes /\ FilesTyped /\ CursorsTyped /\ ControlTyped)'
  BY DEF PullType, ServerTypes, FilesTyped, CursorsTyped, ControlTyped
<1> QED BY <1>2, <1>4, <1>5
-----------------------------------------------------------------------------
(* What is stored or purged stays so, and what was left out stays left out.  *)
LEMMA Grows ==
    ASSUME PullType, [Next]_vars
    PROVE  eml \cup purged \subseteq eml' \cup purged' /\ leftOut \subseteq leftOut'
<1>1. CASE PullStep
  BY <1>1 DEF PullStep, MakeWrite, SelectMailbox, FetchHeader, FetchBody, MailboxDone,
              TakeSnapshot, Reconcile, CommitCursors, Render, local, history
<1>2. CASE \E l \in TargetLists, h \in Histories : StartPull(l, h)
  BY <1>2 DEF StartPull, local, history
<1>3. CASE Abort
  BY <1>3 DEF Abort, local, history
<1>4. CASE Environment
  BY <1>4 DEF Environment, Deliver, Move, Expunge, Renumber, Age, AddToCase, Purge,
              CursorsLost, local, history
<1>5. CASE UNCHANGED vars
  BY <1>5 DEF vars, local, history
<1> QED BY <1>1, <1>2, <1>3, <1>4, <1>5 DEF Next

(* What a cursor may have passed it may have passed later. *)
LEMMA PassedLater ==
    ASSUME PullType, UidsAreUsedOnce, [Next]_vars, NEW b \in Mailboxes,
           NEW v \in Nat, NEW h \in Nat, Passed(b, v, h)
    PROVE  Passed(b, v, h)'
<1>1. /\ ServerTypes /\ ServerTypes' /\ Later
      /\ eml \cup purged \subseteq eml' \cup purged' /\ leftOut \subseteq leftOut'
  BY TypeParts, ServerMoves, Grows
<1>2. /\ validity[b] \in Nat /\ validity'[b] \in Nat /\ nextUid[b] \in Nat /\ nextUid'[b] \in Nat
      /\ \A m \in mail'[b] : m[1] \in Nat
  BY <1>1 DEF ServerTypes
<1>3. v <= validity[b] /\ validity[b] <= validity'[b]
  BY <1>1 DEF Later, Passed
<1>4. ASSUME v = validity'[b]
      PROVE  /\ h < nextUid'[b]
             /\ \A m \in mail'[b] :
                   m[1] > h \/ m[2] \in eml' \cup purged' \/ <<b, v, m[1]>> \in leftOut'
  <2>1. v = validity[b] /\ validity'[b] = validity[b]
    BY <1>2, <1>3, <1>4
  <2>2. h < nextUid[b] /\ nextUid[b] <= nextUid'[b]
    BY <1>1, <2>1 DEF Later, Passed
  <2>3. ASSUME NEW m \in mail'[b]
        PROVE  m[1] > h \/ m[2] \in eml' \cup purged' \/ <<b, v, m[1]>> \in leftOut'
    <3>1. CASE m \in mail[b]
      BY <1>1, <2>1, <3>1 DEF Passed
    <3>2. CASE nextUid[b] <= m[1]
      BY <1>2, <2>2, <3>2
    <3> QED BY <1>1, <2>1, <3>1, <3>2 DEF Later
  <2> QED BY <1>2, <2>2, <2>3
<1> QED BY <1>2, <1>3, <1>4 DEF Passed

(* A location of one message never becomes that of another. *)
LEMMA HonestLater ==
    ASSUME PullType, UidsAreUsedOnce, [Next]_vars, NEW c, NEW locs \in SUBSET Place,
           Honest(c, locs)
    PROVE  Honest(c, locs)'
<1>1. ServerTypes /\ ServerTypes' /\ Later
  BY TypeParts, ServerMoves
<1> SUFFICES ASSUME NEW l \in locs
             PROVE  /\ l.val <= validity'[l.box]
                    /\ l.val = validity'[l.box] =>
                          /\ l.uid < nextUid'[l.box]
                          /\ \A m \in mail'[l.box] : m[1] = l.uid => m[2] = c
  BY DEF Honest
<1> DEFINE b == l.box
<1>2. b \in Mailboxes /\ l.val \in Nat /\ l.uid \in Nat
  BY DEF Place
<1>3. /\ validity[b] \in Nat /\ validity'[b] \in Nat /\ nextUid[b] \in Nat /\ nextUid'[b] \in Nat
      /\ \A m \in mail'[b] : m[1] \in Nat
  BY <1>1, <1>2 DEF ServerTypes
<1>4. l.val <= validity[b] /\ validity[b] <= validity'[b]
  BY <1>1, <1>2 DEF Later, Honest
<1>5. ASSUME l.val = validity'[b]
      PROVE  l.uid < nextUid'[b] /\ \A m \in mail'[b] : m[1] = l.uid => m[2] = c
  <2>1. l.val = validity[b] /\ validity'[b] = validity[b]
    BY <1>2, <1>3, <1>4, <1>5
  <2>2. l.uid < nextUid[b] /\ nextUid[b] <= nextUid'[b]
    BY <1>1, <1>2, <2>1 DEF Later, Honest
  <2>3. ASSUME NEW m \in mail'[b], m[1] = l.uid PROVE m[2] = c
    <3>1. m \in mail[b]
      BY <1>1, <1>2, <1>3, <2>1, <2>2, <2>3 DEF Later
    <3> QED BY <2>1, <2>3, <3>1 DEF Honest
  <2> QED BY <1>2, <1>3, <2>2, <2>3
<1> QED BY <1>2, <1>3, <1>4, <1>5
-----------------------------------------------------------------------------
(* The cursors and the cursors the running pull has decided on.              *)

LEMMA CursorsMove ==
    ASSUME [Next]_vars
    PROVE  \/ cursors' = cursors
           \/ \A b \in Mailboxes : cursors'[b] = None
           \/ CommitCursors
<1>1. CASE PullStep
  BY <1>1 DEF PullStep, MakeWrite, SelectMailbox, FetchHeader, FetchBody, MailboxDone,
              TakeSnapshot, Reconcile, Render, local
<1>2. CASE \E l \in TargetLists, h \in Histories : StartPull(l, h)
  BY <1>2 DEF StartPull, local
<1>3. CASE Abort
  BY <1>3 DEF Abort, local
<1>4. CASE Environment
  BY <1>4 DEF Environment, Deliver, Move, Expunge, Renumber, Age, AddToCase, Purge,
              CursorsLost, local
<1>5. CASE UNCHANGED vars
  BY <1>5 DEF vars, local
<1> QED BY <1>1, <1>2, <1>3, <1>4, <1>5 DEF Next

LEMMA UpdatesMove ==
    ASSUME PullType, [Next]_vars
    PROVE  pull'.updates = pull.updates \/ pull'.updates = <<>> \/ MailboxDone
<1>1. CASE PullStep
  <2>1. CASE FetchHeader
    BY <2>1, PullFields DEF FetchHeader, NoHeader, KnownHeader, AdmitHeader, OverBudget, PullRecord
  <2>2. CASE FetchBody
    BY <2>2, PullFields DEF FetchBody, NoBody, MergeBody, StoreBody, PullRecord
  <2>3. CASE SelectMailbox
    BY <2>3, PullFields DEF SelectMailbox, PullRecord
  <2>4. CASE TakeSnapshot
    BY <2>4, PullFields DEF TakeSnapshot, PullRecord
  <2>5. CASE MakeWrite
    BY <2>5 DEF MakeWrite
  <2>6. CASE Reconcile
    BY <2>6 DEF Reconcile, NoPull
  <2>7. CASE CommitCursors
    BY <2>7 DEF CommitCursors, NoPull
  <2>8. CASE Render
    <3>1. pull' = NoPull  BY <2>8 DEF Render
    <3>2. QED  BY <3>1 DEF NoPull
  <2> QED BY <1>1, <2>1, <2>2, <2>3, <2>4, <2>5, <2>6, <2>7, <2>8 DEF PullStep
<1>2. CASE \E l \in TargetLists, h \in Histories : StartPull(l, h)
  BY <1>2 DEF StartPull, NoPull
<1>3. CASE Abort
  BY <1>3 DEF Abort, NoPull
<1>4. CASE Environment
  BY <1>4 DEF Environment, Deliver, Move, Expunge, Renumber, Age, AddToCase, Purge, CursorsLost
<1>5. CASE UNCHANGED vars
  BY <1>5 DEF vars
<1> QED BY <1>1, <1>2, <1>3, <1>4, <1>5 DEF Next

LEMMA CursorsNext ==
    ASSUME SkipInv, [Next]_vars
    PROVE  CursorsTrue'
<1>1. PullType /\ UidsAreUsedOnce /\ CursorsTrue /\ UpdatesTrue
  BY DEF SkipInv
<1> SUFFICES ASSUME NEW b \in Mailboxes, cursors'[b] # None
             PROVE  Passed(b, cursors[b].val, cursors[b].highest)'
  BY DEF CursorsTrue
<1>2. ASSUME cursors'[b] = cursors[b]
      PROVE  Passed(b, cursors[b].val, cursors[b].highest)'
  <2> DEFINE v == cursors[b].val
             h == cursors[b].highest
  <2>1. v \in Nat /\ h \in Nat /\ Passed(b, v, h)
    BY <1>1, <1>2 DEF CursorsTrue, PullType
  <2> SUFFICES ASSUME NEW x \in Nat, NEW y \in Nat, x = v, y = h, Passed(b, x, y)
               PROVE  Passed(b, x, y)'
    BY <1>2, <2>1 DEF Passed
  <2> QED BY <1>1, PassedLater
<1>3. CASE CommitCursors
  <2> DEFINE upd == {i \in DOMAIN pull.updates : pull.updates[i].box = b}
             r == pull.updates[CHOOSE i \in upd : TRUE]
  <2>1. CASE upd = {}
    <3>1. cursors'[b] = cursors[b]
      BY <1>3, <2>1 DEF CommitCursors
    <3> QED BY <1>2, <3>1
  <2>2. CASE upd # {}
    <3>1. cursors'[b].val = r.val /\ cursors'[b].highest = r.highest
      BY <1>3, <2>2 DEF CommitCursors
    <3>2. (CHOOSE i \in upd : TRUE) \in upd
      BY <2>2
    <3>3. r \in Update /\ r.box = b /\ Passed(b, r.val, r.highest)
      <4> DEFINE k == CHOOSE i \in upd : TRUE
      <4>1. k \in DOMAIN pull.updates /\ pull.updates[k].box = b
        BY <3>2
      <4> HIDE DEF k
      <4>2. pull.updates[k] \in Update
        BY <1>1, <4>1, PullFields
      <4> QED BY <1>1, <4>1, <4>2 DEF UpdatesTrue, k
    <3>4. r.val \in Nat /\ r.highest \in Nat
      BY <3>3 DEF Update
    <3> HIDE DEF r
    <3> SUFFICES ASSUME NEW x \in Nat, NEW y \in Nat, x = r.val, y = r.highest, Passed(b, x, y)
                 PROVE  Passed(b, x, y)'
      BY <3>1, <3>3, <3>4 DEF Passed
    <3> QED BY <1>1, PassedLater
  <2> QED BY <2>1, <2>2
<1> QED BY <1>2, <1>3, CursorsMove

(* The cursor a finished scan leaves behind has passed nothing it should not. *)
LEMMA ScanIsPassed ==
    ASSUME SkipInv, MailboxDone
    PROVE  Passed(Head(pull.todo), pull.val, NewHighest(pull))
<1> DEFINE b == Head(pull.todo)
           h == NewHighest(pull)
<1>1. /\ PullType /\ UidsAreUsedOnce /\ pc = "scan" /\ writes = <<>>
      /\ pull.uids = {} /\ pull.cand = {}
  BY DEF SkipInv, MailboxDone, At
<1>2. b \in Mailboxes /\ pull.todo # <<>>
  BY <1>1, PullFields DEF PullType
<1>3. /\ pull.val = validity[b] /\ pull.prev <= pull.high /\ pull.high < nextUid[b]
      /\ pull.blocked # 0 => pull.prev < pull.blocked /\ pull.blocked < nextUid[b]
  BY <1>1 DEF SkipInv, ScanInRange
<1>4. /\ pull.prev \in Nat /\ pull.high \in Nat /\ pull.blocked \in Nat
      /\ nextUid[b] \in Nat /\ validity[b] \in Nat
      /\ \A m \in mail[b] : m[1] \in Nat
  BY <1>1, <1>2, PullFields DEF PullType
<1>5. /\ h = IF pull.blocked # 0 THEN pull.blocked - 1 ELSE pull.high
      /\ h < nextUid[b]
  BY <1>3, <1>4 DEF NewHighest, Largest
<1>6. Stored = eml
  BY <1>1, ShortLists DEF Stored
<1>7. ASSUME NEW m \in mail[b]
      PROVE  m[1] > h \/ m[2] \in eml \cup purged \/ <<b, pull.val, m[1]>> \in leftOut
  <2>1. Ahead(m[1]) \/ m[2] \in eml \cup purged
    BY <1>1, <1>6 DEF SkipInv, ScanTrue
  <2>2. CASE pull.blocked # 0 /\ pull.blocked <= m[1]
    BY <1>4, <1>5, <2>2
  <2>3. CASE Fresh(m[1])
    BY <1>4, <1>5, <2>3 DEF Fresh
  <2> QED BY <1>1, <2>1, <2>2, <2>3 DEF Ahead
<1> QED BY <1>3, <1>4, <1>5, <1>7 DEF Passed

LEMMA UpdatesNext ==
    ASSUME SkipInv, [Next]_vars
    PROVE  UpdatesTrue'
<1>1. PullType /\ UidsAreUsedOnce /\ UpdatesTrue
  BY DEF SkipInv
<1>3. ASSUME NEW r \in Update, Passed(r.box, r.val, r.highest)
      PROVE  Passed(r.box, r.val, r.highest)'
  <2>1. r.box \in Mailboxes /\ r.val \in Nat /\ r.highest \in Nat
    BY DEF Update
  <2> QED BY <1>1, <1>3, <2>1, PassedLater
<1>4. CASE pull'.updates = pull.updates
  <2>1. \A i \in DOMAIN pull.updates : pull.updates[i] \in Update
    BY <1>1, PullFields
  <2> QED BY <1>1, <1>3, <1>4, <2>1 DEF UpdatesTrue, Passed
<1>5. CASE pull'.updates = <<>>
  BY <1>5 DEF UpdatesTrue
<1>6. CASE MailboxDone
  <2> DEFINE r == [box |-> Head(pull.todo), val |-> pull.val, highest |-> NewHighest(pull)]
             s == pull.updates
  <2>1. r \in Update
    <3>1. Head(pull.todo) \in Mailboxes
      BY <1>1, <1>6, PullFields DEF PullType, MailboxDone, At
    <3>2. NewHighest(pull) \in Nat
      BY <1>1, PullFields DEF NewHighest, Largest
    <3> QED BY <1>1, <3>1, <3>2, PullFields DEF Update
  <2>2. pull'.updates = Append(s, r)
    BY <1>1, <1>6, PullFields DEF MailboxDone, PullRecord
  <2>3. Passed(r.box, r.val, r.highest)
    BY <1>6, ScanIsPassed
  <2>4. s \in Seq(Update)
    BY <1>1, PullFields
  <2> HIDE DEF r, s
  <2>5. \A i \in DOMAIN Append(s, r) :
           Append(s, r)[i] = r \/ (i \in DOMAIN s /\ Append(s, r)[i] = s[i])
    BY <2>1, <2>4, Appended
  <2>6. \A i \in DOMAIN s : s[i] \in Update /\ Passed(s[i].box, s[i].val, s[i].highest)
    BY <1>1, <2>4 DEF UpdatesTrue, s
  <2> QED BY <1>3, <2>1, <2>2, <2>3, <2>5, <2>6 DEF UpdatesTrue, Passed
<1> QED BY <1>1, <1>4, <1>5, <1>6, UpdatesMove
-----------------------------------------------------------------------------
(* The locations on disk and in the pending writes.                          *)

(* The location a body was fetched at is that of its message. *)
LEMMA HereIsHonest ==
    ASSUME PullType, UidsAreUsedOnce, ScanInRange, pc = "scan",
           NEW u \in UidsIn(Head(pull.todo))
    PROVE  Honest(ContentAt(Head(pull.todo), u), {Here(u)})
<1> DEFINE b == Head(pull.todo)
           c == ContentAt(b, u)
<1>1. b \in Mailboxes
  BY PullFields DEF PullType
<1>2. <<u, c>> \in mail[b]
  BY <1>1, MessageAt
<1> HIDE DEF c
<1>3. u < nextUid[b] /\ \A m \in mail[b] : m[1] = u => m = <<u, c>>
  BY <1>1, <1>2 DEF UidsAreUsedOnce
<1>4. pull.val = validity[b] /\ validity[b] \in Nat
  BY <1>1 DEF ScanInRange, PullType
<1> QED BY <1>3, <1>4 DEF Honest, Here, c

LEMMA MarkedIsHonest ==
    ASSUME PullType, LocationsTrue, NEW c \in Contents, cache[c] # None
    PROVE  Honest(c, Marked(c))
BY MarkedLocations DEF LocationsTrue, Honest

(* The writes a step decides on. *)
LEMMA WritesAreHonest ==
    ASSUME SkipInv, FetchHeader \/ FetchBody \/ Reconcile, NEW w \in ToSet(writes'),
           w.file \in {"meta", "cache"}
    PROVE  Honest(w.c, w.locs)
<1>1. PullType /\ UidsAreUsedOnce /\ LocationsTrue /\ ScanInRange
  BY DEF SkipInv
<1>2. CASE FetchHeader
  <2> DEFINE u == LeastUid(pull.uids)
  <2>1. NoHeader(u) \/ KnownHeader(u) \/ AdmitHeader(u) \/ OverBudget(u)
    BY <1>2 DEF FetchHeader
  <2> HIDE DEF u
  <2>2. writes' # <<>>
    BY ShortLists
  <2>3. KnownHeader(u)
    BY <2>1, <2>2 DEF NoHeader, AdmitHeader, OverBudget
  <2>4. PICK c \in Contents : writes' = Artifacts(c, meta[c])
    BY <1>1, <2>2, <2>3 DEF KnownHeader, Known, PullType
  <2>5. meta[c] \in SUBSET Place /\ Honest(c, meta[c])
    BY <1>1 DEF PullType, LocationsTrue
  <2>6. w \in {Meta(c, meta[c]), Cache(c, meta[c])}
    BY <2>4, <2>5, ArtifactWrites
  <2> QED BY <2>5, <2>6 DEF Meta, Cache
<1>3. CASE FetchBody
  <2> DEFINE b == Head(pull.todo)
             u == LeastUid(pull.cand)
             c == ContentAt(b, u)
  <2>1. /\ b \in Mailboxes /\ u \in pull.cand /\ u \in Nat
        /\ NoBody(u) \/ MergeBody(u) \/ StoreBody(u)
        /\ Here(u) \in Place /\ ImportAs[b] \in Dispositions
        /\ u \in UidsIn(b) => c \in Contents
    BY <1>1, <1>3, BodyFields
  <2>2. pc = "scan"
    BY <1>3 DEF FetchBody, At
  <2> HIDE DEF u, c
  <2>3. writes' # <<>>
    BY ShortLists
  <2>4. u \in UidsIn(b) /\ c \in Contents
    BY <2>1, <2>3 DEF NoBody, MergeBody, StoreBody
  <2>5. Honest(c, {Here(u)})
    BY <1>1, <2>2, <2>4, HereIsHonest DEF c
  <2>6. CASE MergeBody(u)
    <3> DEFINE locs == {l \in meta[c] : <<l.box, l.val, l.uid>> # <<b, pull.val, u>>}
                          \cup {Here(u)}
    <3>1. writes' = Artifacts(c, locs) \o RestoreWrites(c, ImportAs[b], locs)
      BY <2>6 DEF MergeBody, Here, c
    <3>2. meta[c] \in SUBSET Place /\ Honest(c, meta[c])
      BY <1>1, <2>4 DEF PullType, LocationsTrue
    <3>3. locs \in SUBSET Place /\ Honest(c, locs)
      BY <2>1, <2>5, <3>2 DEF Honest
    <3> HIDE DEF locs
    <3>4. w \in {Disp(c, "none"), Disp(c, ImportAs[b]), Meta(c, locs), Cache(c, locs)}
      BY <2>1, <2>4, <3>1, <3>3, MergingWrites
    <3> QED BY <3>3, <3>4 DEF Meta, Cache, Disp
  <2>7. CASE StoreBody(u)
    <3> DEFINE locs == {Here(u)}
    <3>1. writes' = StoreWrites(c, ImportAs[b], locs)
      BY <2>7 DEF StoreBody, Here, StoreWrites, c
    <3>2. locs \in SUBSET Place /\ Honest(c, locs)
      BY <2>1, <2>5
    <3> HIDE DEF locs
    <3>3. w \in {Meta(c, locs), Cache(c, locs), Eml(c), Disp(c, "none"), Disp(c, ImportAs[b])}
      BY <2>1, <2>4, <3>1, <3>2, StoringWrites
    <3> QED BY <3>2, <3>3 DEF Meta, Cache, Disp, Eml
  <2> QED BY <2>1, <2>3, <2>6, <2>7 DEF NoBody
<1>4. CASE Reconcile
  <2>1. PICK c \in ToMark : w \in ToSet(ReconcileWrites(c, Marked(c)))
    BY <1>1, <1>4, MarkingAll
  <2>2. c \in Contents /\ cache[c] # None
    BY DEF ToMark
  <2>3. Marked(c) \in SUBSET Place /\ Honest(c, Marked(c))
    BY <1>1, <2>2, MarkedLocations, MarkedIsHonest
  <2>4. w \in {Disp(c, "none"), Disp(c, "deleted_remote"),
               Meta(c, Marked(c)), Cache(c, Marked(c))}
    BY <2>1, <2>2, <2>3, MarkingWrites
  <2> QED BY <2>3, <2>4 DEF Meta, Cache, Disp
<1> QED BY <1>2, <1>3, <1>4

(* What a step leaves on disk and to write is true of the server before it. *)
LEMMA FilesMove ==
    ASSUME SkipInv, [Next]_vars
    PROVE  /\ \A c \in Contents :
                 /\ Honest(c, meta'[c])
                 /\ cache'[c] # None => Honest(c, cache'[c])
           /\ \A w \in ToSet(writes') : w.file \in {"meta", "cache"} => Honest(w.c, w.locs)
<1> DEFINE Goal ==
        /\ \A c \in Contents :
              /\ Honest(c, meta'[c])
              /\ cache'[c] # None => Honest(c, cache'[c])
        /\ \A w \in ToSet(writes') : w.file \in {"meta", "cache"} => Honest(w.c, w.locs)
<1> SUFFICES Goal
  OBVIOUS
<1>1. PullType /\ LocationsTrue
  BY DEF SkipInv
<1>2. ASSUME meta' = meta, cache' = cache, writes' = writes \/ writes' = <<>> PROVE Goal
  BY <1>1, <1>2, ShortLists DEF LocationsTrue
<1>3. ASSUME meta' = meta, cache' = cache, FetchHeader \/ FetchBody \/ Reconcile PROVE Goal
  <2>1. \A w \in ToSet(writes') : w.file \in {"meta", "cache"} => Honest(w.c, w.locs)
    BY <1>3, WritesAreHonest
  <2> QED BY <1>1, <1>3, <2>1 DEF LocationsTrue
<1>4. CASE MakeWrite
  <2> DEFINE w == Head(writes)
  <2>1. writes \in Seq(FileWrite) /\ writes # <<>>
    BY <1>1, <1>4 DEF PullType, MakeWrite
  <2>2. w \in ToSet(writes) /\ w \in FileWrite /\ ToSet(writes') \subseteq ToSet(writes)
    BY <1>4, <2>1, HeadAndTail DEF MakeWrite
  <2>3. /\ meta' = IF w.file = "meta" THEN [meta EXCEPT ![w.c] = w.locs] ELSE meta
        /\ cache' = IF w.file = "cache" THEN [cache EXCEPT ![w.c] = w.locs] ELSE cache
    BY <1>4 DEF MakeWrite
  <2>4. w.file \in {"meta", "cache"} => Honest(w.c, w.locs)
    BY <1>1, <2>2 DEF LocationsTrue
  <2> HIDE DEF w
  <2>5. meta \in [Contents -> SUBSET Place] /\ cache \in [Contents -> (SUBSET Place) \cup {None}]
    BY <1>1 DEF PullType
  <2>6. \A c \in Contents : Honest(c, meta'[c])
    BY <1>1, <2>3, <2>4, <2>5 DEF LocationsTrue
  <2>7. \A c \in Contents : cache'[c] # None => Honest(c, cache'[c])
    BY <1>1, <2>3, <2>4, <2>5 DEF LocationsTrue
  <2> QED BY <1>1, <2>2, <2>6, <2>7 DEF LocationsTrue
<1>5. CASE PullStep /\ ~MakeWrite
  <2>1. CASE Render
    BY <1>1, <2>1 DEF Render, LocationsTrue
  <2>2. CASE FetchHeader
    BY <1>3, <2>2 DEF FetchHeader, local
  <2>3. CASE FetchBody
    BY <1>3, <2>3 DEF FetchBody, local
  <2>4. CASE Reconcile
    BY <1>3, <2>4 DEF Reconcile, local
  <2> HIDE DEF Goal
  <2> QED BY <1>2, <1>5, <2>1, <2>2, <2>3, <2>4
         DEF PullStep, SelectMailbox, MailboxDone, TakeSnapshot, CommitCursors, local
<1>6. CASE \E c \in Contents : AddToCase(c) \/ Purge(c)
  <2>1. PICK c \in Contents : AddToCase(c) \/ Purge(c)
    BY <1>6
  <2>2. /\ writes' = writes
        /\ \A d \in Contents \ {c} : meta'[d] = meta[d] /\ cache'[d] = cache[d]
        /\ \/ meta'[c] = meta[c] /\ cache'[c] = meta[c]
           \/ meta'[c] = {} /\ cache'[c] = None
    BY <1>1, <2>1 DEF AddToCase, Purge, PullType
  <2>3. Honest(c, {})
    BY DEF Honest
  <2> QED BY <1>1, <2>2, <2>3 DEF LocationsTrue
<1>7. CASE \/ \E l \in TargetLists, h \in Histories : StartPull(l, h)
           \/ Abort \/ UNCHANGED vars
  <2> HIDE DEF Goal
  <2> QED BY <1>2, <1>7 DEF StartPull, Abort, vars, local
<1>8. CASE Environment
  <2> HIDE DEF Goal
  <2> QED BY <1>2, <1>6, <1>8
         DEF Environment, Deliver, Move, Expunge, Renumber, Age, CursorsLost, local
<1> QED BY <1>4, <1>5, <1>7, <1>8 DEF Next

LEMMA LocationsNext ==
    ASSUME SkipInv, [Next]_vars
    PROVE  LocationsTrue'
<1>1. PullType /\ UidsAreUsedOnce
  BY DEF SkipInv
<1>2. /\ meta' \in [Contents -> SUBSET Place]
      /\ cache' \in [Contents -> (SUBSET Place) \cup {None}]
      /\ writes' \in Seq(FileWrite)
  BY <1>1, TypeNext DEF PullType
<1>3. ASSUME NEW c, NEW locs \in SUBSET Place, Honest(c, locs) PROVE Honest(c, locs)'
  BY <1>1, <1>3, HonestLater
<1>4. ASSUME NEW c \in Contents PROVE Honest(c, meta[c])'
  <2>1. meta'[c] \in SUBSET Place /\ Honest(c, meta'[c])
    BY <1>2, FilesMove
  <2> QED BY <1>3, <2>1 DEF Honest
<1>5. ASSUME NEW c \in Contents, cache'[c] # None PROVE Honest(c, cache[c])'
  <2>1. cache'[c] \in SUBSET Place /\ Honest(c, cache'[c])
    BY <1>2, <1>5, FilesMove
  <2> QED BY <1>3, <2>1 DEF Honest
<1>6. ASSUME NEW w \in ToSet(writes'), w.file \in {"meta", "cache"} PROVE Honest(w.c, w.locs)'
  <2>1. w \in FileWrite
    BY <1>2 DEF ToSet
  <2>2. w.locs \in SUBSET Place /\ Honest(w.c, w.locs)
    BY <1>6, <2>1, FilesMove DEF FileWrite
  <2> QED BY <1>3, <2>2
<1> QED BY <1>4, <1>5, <1>6 DEF LocationsTrue
-----------------------------------------------------------------------------
(* The scan of a mailbox.                                                    *)

(* What holds of the fields of the pull while it scans mailbox b. *)
LEMMA ScanFields ==
    ASSUME PullType, UidsAreUsedOnce, ScanInRange, pc = "scan"
    PROVE  LET b == Head(pull.todo)
           IN  /\ b \in Mailboxes /\ pull.val = validity[b] /\ validity[b] \in Nat
               /\ nextUid[b] \in Nat /\ 1 <= nextUid[b]
               /\ pull.uids \in SUBSET Nat /\ pull.cand \in SUBSET Nat
               /\ pull.prev \in Nat /\ pull.high \in Nat /\ pull.blocked \in Nat
               /\ \A v \in pull.uids \cup pull.cand : pull.prev < v /\ v < nextUid[b]
               /\ pull.prev <= pull.high /\ pull.high < nextUid[b]
               /\ pull.blocked # 0 =>
                     pull.prev < pull.blocked /\ pull.blocked < nextUid[b]
               /\ \A m \in mail[b] : m[1] \in Nat /\ 1 <= m[1] /\ m[1] < nextUid[b]
<1> DEFINE b == Head(pull.todo)
<1>1. b \in Mailboxes
  BY PullFields DEF PullType
<1>2. /\ pull.uids \in SUBSET Nat /\ pull.cand \in SUBSET Nat
      /\ pull.prev \in Nat /\ pull.high \in Nat /\ pull.blocked \in Nat
  BY PullFields
<1>3. validity[b] \in Nat /\ nextUid[b] \in Nat /\ mail[b] \in SUBSET (Nat \X Contents)
  BY <1>1 DEF PullType
<1>4. 1 <= nextUid[b] /\ \A m \in mail[b] : 1 <= m[1] /\ m[1] < nextUid[b]
  BY <1>1 DEF UidsAreUsedOnce
<1>5. /\ pull.val = validity[b]
      /\ \A u \in pull.uids \cup pull.cand : pull.prev < u /\ u < nextUid[b]
      /\ pull.prev <= pull.high /\ pull.high < nextUid[b]
      /\ pull.blocked # 0 => pull.prev < pull.blocked /\ pull.blocked < nextUid[b]
  BY DEF ScanInRange
<1>6. \A m \in mail[b] : m[1] \in Nat
  BY <1>3
<1> HIDE DEF b
<1>7. QED
  <2>1. /\ b \in Mailboxes /\ pull.val = validity[b] /\ validity[b] \in Nat
        /\ nextUid[b] \in Nat /\ 1 <= nextUid[b]
        /\ pull.uids \in SUBSET Nat /\ pull.cand \in SUBSET Nat
        /\ pull.prev \in Nat /\ pull.high \in Nat /\ pull.blocked \in Nat
        /\ \A v \in pull.uids \cup pull.cand : pull.prev < v /\ v < nextUid[b]
        /\ pull.prev <= pull.high /\ pull.high < nextUid[b]
        /\ pull.blocked # 0 => pull.prev < pull.blocked /\ pull.blocked < nextUid[b]
        /\ \A m \in mail[b] : m[1] \in Nat /\ 1 <= m[1] /\ m[1] < nextUid[b]
    BY <1>1, <1>2, <1>3, <1>4, <1>5, <1>6
  <2>2. QED  BY <2>1 DEF b

(* The scan looks at one UID and leaves the others to be looked at. *)
LEMMA ScanMoves ==
    ASSUME PullType, UidsAreUsedOnce, ScanInRange, pc = "scan",
           UNCHANGED <<server, leftOut>>, NEW u \in pull.uids \cup pull.cand,
           pull'.todo = pull.todo, pull'.val = pull.val, pull'.prev = pull.prev,
           pull'.uids \cup pull'.cand \subseteq pull.uids \cup pull.cand,
           (pull.uids \cup pull.cand) \ {u} \subseteq pull'.uids \cup pull'.cand,
           pull'.high \in {pull.high, Largest(pull.high, u)},
           pull'.blocked \in {pull.blocked, Blocked(pull, u)}
    PROVE  /\ ScanInRange'
           /\ \A v \in Nat : Ahead(v) =>
                 \/ Ahead(v)'
                 \/ /\ v = u /\ u \notin pull'.uids \cup pull'.cand
                    /\ pull'.blocked # Blocked(pull, u)
<1> DEFINE b == Head(pull.todo)
<1>1. /\ pull.val = validity[b] /\ nextUid[b] \in Nat
      /\ pull.prev \in Nat /\ pull.high \in Nat /\ pull.blocked \in Nat
      /\ \A v \in pull.uids \cup pull.cand : v \in Nat /\ pull.prev < v /\ v < nextUid[b]
      /\ pull.prev <= pull.high /\ pull.high < nextUid[b]
      /\ pull.blocked # 0 => pull.prev < pull.blocked /\ pull.blocked < nextUid[b]
  BY ScanFields
<1>2. u \in Nat /\ pull.prev < u /\ u < nextUid[b] /\ u # 0
  BY <1>1
<1>3. /\ pull'.high \in Nat /\ pull.high <= pull'.high /\ pull'.high < nextUid[b]
      /\ \A v \in Nat : pull.high < v /\ u < v => pull'.high < v
  BY <1>1, <1>2 DEF Largest
<1>4. /\ Blocked(pull, u) \in Nat /\ Blocked(pull, u) # 0 /\ Blocked(pull, u) <= u
      /\ pull.prev < Blocked(pull, u) /\ Blocked(pull, u) < nextUid[b]
      /\ pull.blocked # 0 => Blocked(pull, u) <= pull.blocked
  BY <1>1, <1>2 DEF Blocked
<1>5. /\ pull'.blocked \in Nat
      /\ pull'.blocked # 0 => pull.prev < pull'.blocked /\ pull'.blocked < nextUid[b]
      /\ pull.blocked # 0 => pull'.blocked # 0 /\ pull'.blocked <= pull.blocked
      /\ \A v \in Nat : pull.blocked < v /\ u < v => pull'.blocked < v
  BY <1>1, <1>2, <1>4
<1>6. ScanInRange'
  BY <1>1, <1>3, <1>5 DEF ScanInRange, server
<1>7. ASSUME NEW v \in Nat, Ahead(v),
             ~(v = u /\ u \notin pull'.uids \cup pull'.cand /\ pull'.blocked # Blocked(pull, u))
      PROVE  Ahead(v)'
  <2>1. CASE v \in pull.uids \cup pull.cand
    <3>1. CASE v = u
      BY <1>4, <1>7, <3>1 DEF Ahead
    <3>2. CASE v # u
      BY <2>1, <3>2 DEF Ahead
    <3> QED BY <3>1, <3>2
  <2>2. CASE pull.blocked # 0 /\ pull.blocked <= v
    BY <1>1, <1>5, <2>2 DEF Ahead
  <2>3. CASE Fresh(v)
    BY <1>3, <1>5, <2>3 DEF Ahead, Fresh
  <2>4. CASE <<b, pull.val, v>> \in leftOut
    BY <2>4 DEF Ahead
  <2> QED BY <1>7, <2>1, <2>2, <2>3, <2>4 DEF Ahead
<1> QED BY <1>6, <1>7

(* One step of the scan: what it need not account for any more. *)
LEMMA ScanSteps ==
    ASSUME PullType, UidsAreUsedOnce, ScanInRange, FetchHeader \/ FetchBody
    PROVE  LET b == Head(pull.todo)
           IN  /\ pc = "scan" /\ pc' = "scan" /\ writes = <<>> /\ ScanInRange'
               /\ pull'.todo = pull.todo /\ pull'.val = pull.val
               /\ \A v \in Nat : Ahead(v) =>
                     \/ Ahead(v)'
                     \/ v \in UidsIn(b) /\ KnownHeader(v)
                     \/ v \in UidsIn(b) /\ MergeBody(v)
                     \/ v \in UidsIn(b) /\ StoreBody(v)
<1>1. /\ pc = "scan" /\ pc' = "scan" /\ writes = <<>>
      /\ UNCHANGED <<server, leftOut>>
  BY DEF FetchHeader, FetchBody, At, history
<1>2. pull \in PullRecord /\ pull.uids \in SUBSET Nat /\ pull.cand \in SUBSET Nat
  BY PullFields
<1>3. CASE FetchHeader
  <2> DEFINE u == LeastUid(pull.uids)
  <2>1. u \in pull.uids /\ (NoHeader(u) \/ KnownHeader(u) \/ AdmitHeader(u) \/ OverBudget(u))
    BY <1>2, <1>3, LeastUidIsIn DEF FetchHeader
  <2> HIDE DEF u
  <2>2. /\ pull'.todo = pull.todo /\ pull'.val = pull.val /\ pull'.prev = pull.prev
        /\ pull'.uids = pull.uids \ {u}
        /\ pull'.cand = pull.cand \/ pull'.cand = pull.cand \cup {u}
        /\ pull'.high \in {pull.high, Largest(pull.high, u)}
        /\ pull'.blocked \in {pull.blocked, Blocked(pull, u)}
        /\ KnownHeader(u) \/ u \in pull'.cand \/ pull'.blocked = Blocked(pull, u)
    BY <1>2, <2>1 DEF NoHeader, KnownHeader, AdmitHeader, OverBudget, PullRecord
  <2>3. /\ pull'.uids \cup pull'.cand \subseteq pull.uids \cup pull.cand
        /\ (pull.uids \cup pull.cand) \ {u} \subseteq pull'.uids \cup pull'.cand
    BY <2>1, <2>2
  <2>4. /\ ScanInRange'
        /\ \A v \in Nat : Ahead(v) =>
              \/ Ahead(v)'
              \/ /\ v = u /\ u \notin pull'.uids \cup pull'.cand
                 /\ pull'.blocked # Blocked(pull, u)
    BY <1>1, <2>1, <2>2, <2>3, ScanMoves
  <2>5. KnownHeader(u) => u \in UidsIn(Head(pull.todo))
    BY DEF KnownHeader
  <2> QED BY <1>1, <2>2, <2>4, <2>5
<1>4. CASE FetchBody
  <2> DEFINE u == LeastUid(pull.cand)
  <2>1. u \in pull.cand /\ (NoBody(u) \/ MergeBody(u) \/ StoreBody(u))
    BY <1>2, <1>4, LeastUidIsIn DEF FetchBody
  <2> HIDE DEF u
  <2>2. /\ pull'.todo = pull.todo /\ pull'.val = pull.val /\ pull'.prev = pull.prev
        /\ pull'.uids = pull.uids /\ pull'.cand = pull.cand \ {u}
        /\ pull'.high = pull.high
        /\ pull'.blocked \in {pull.blocked, Blocked(pull, u)}
        /\ MergeBody(u) \/ StoreBody(u) \/ pull'.blocked = Blocked(pull, u)
    BY <1>2, <2>1 DEF NoBody, MergeBody, StoreBody, PullRecord
  <2>3. /\ pull'.uids \cup pull'.cand \subseteq pull.uids \cup pull.cand
        /\ (pull.uids \cup pull.cand) \ {u} \subseteq pull'.uids \cup pull'.cand
    BY <2>1, <2>2
  <2>4. /\ ScanInRange'
        /\ \A v \in Nat : Ahead(v) =>
              \/ Ahead(v)'
              \/ /\ v = u /\ u \notin pull'.uids \cup pull'.cand
                 /\ pull'.blocked # Blocked(pull, u)
    BY <1>1, <2>1, <2>2, <2>3, ScanMoves
  <2>5. MergeBody(u) \/ StoreBody(u) => u \in UidsIn(Head(pull.todo))
    BY DEF MergeBody, StoreBody
  <2> QED BY <1>1, <2>2, <2>4, <2>5
<1> QED BY <1>3, <1>4

(* While the scan waits, messages may leave its mailbox, and those that enter *)
(* it are above all it has seen.                                              *)
LEMMA ScanWaits ==
    ASSUME PullType, UidsAreUsedOnce, ScanInRange, [Next]_vars, pc = "scan", pull' = pull,
           validity'[Head(pull.todo)] = validity[Head(pull.todo)]
    PROVE  LET b == Head(pull.todo)
           IN  /\ ScanInRange'
               /\ \A m \in mail'[b] : m \in mail[b] \/ Ahead(m[1])'
               /\ \A m \in mail[b] : Ahead(m[1]) => Ahead(m[1])'
<1> DEFINE b == Head(pull.todo)
<1>1. /\ b \in Mailboxes /\ pull.val = validity[b] /\ validity[b] \in Nat
      /\ nextUid[b] \in Nat
      /\ pull.uids \in SUBSET Nat /\ pull.cand \in SUBSET Nat
      /\ pull.prev \in Nat /\ pull.high \in Nat /\ pull.blocked \in Nat
      /\ \A v \in pull.uids \cup pull.cand : v \in Nat /\ pull.prev < v /\ v < nextUid[b]
      /\ pull.prev <= pull.high /\ pull.high < nextUid[b]
      /\ pull.blocked # 0 => pull.prev < pull.blocked /\ pull.blocked < nextUid[b]
  BY ScanFields
<1>2. ServerTypes' /\ Later /\ leftOut \subseteq leftOut'
  BY ServerMoves, Grows
<1>3. /\ nextUid'[b] \in Nat /\ nextUid[b] <= nextUid'[b]
      /\ \A m \in mail'[b] : m[1] \in Nat /\ (m \in mail[b] \/ nextUid[b] <= m[1])
  BY <1>1, <1>2 DEF Later, ServerTypes
<1>4. ScanInRange'
  BY <1>1, <1>3 DEF ScanInRange
<1>5. ASSUME NEW m \in mail'[b], nextUid[b] <= m[1] PROVE Ahead(m[1])'
  <2>1. pull.high < m[1] /\ pull.blocked < m[1] /\ \A v \in pull.uids \cup pull.cand : v < m[1]
    BY <1>1, <1>3, <1>5
  <2> QED BY <2>1 DEF Ahead, Fresh
<1>6. ASSUME NEW m \in mail[b], Ahead(m[1]) PROVE Ahead(m[1])'
  BY <1>2, <1>6 DEF Ahead, Fresh
<1> QED BY <1>3, <1>4, <1>5, <1>6

(* Making a write does not change what is stored in the end. *)
LEMMA MakingKeepsStored ==
    ASSUME PullType, MakeWrite
    PROVE  Stored' = Stored
<1> DEFINE w == Head(writes)
<1>1. writes \in Seq(FileWrite) /\ writes # <<>> /\ writes' = Tail(writes)
  BY DEF PullType, MakeWrite
<1>2. w \in FileWrite /\ ToSet(writes) = {w} \cup ToSet(writes')
  BY <1>1, HeadAndTail
<1>3. eml' = IF w.file = "eml" THEN eml \cup {w.c} ELSE eml
  BY DEF MakeWrite
<1> HIDE DEF w
<1>4. \A c \in Contents : Eml(c) = w <=> w.file = "eml" /\ w.c = c
  BY <1>2 DEF FileWrite, Eml
<1>5. w.file = "eml" => w.c \in Contents
  BY <1>2 DEF FileWrite
<1> QED BY <1>2, <1>3, <1>4, <1>5 DEF Stored

(* How the pull comes to be scanning a mailbox. *)
LEMMA ScanCases ==
    ASSUME PullType, [Next]_vars, pc' = "scan"
    PROVE  \/ SelectMailbox \/ FetchHeader \/ FetchBody
           \/ /\ pc = "scan" /\ pull' = pull /\ UNCHANGED <<purged, leftOut, refs, cursors, aborts>>
              /\ validity'[Head(pull.todo)] = validity[Head(pull.todo)]
              /\ \/ MakeWrite /\ UNCHANGED server
                 \/ UNCHANGED <<local, writes>>
<1>1. CASE PullStep
  <2>1. CASE MakeWrite
    BY <2>1 DEF MakeWrite, server, local, bounds, history
  <2>2. CASE MailboxDone \/ TakeSnapshot \/ Reconcile \/ CommitCursors \/ Render
    BY <2>2 DEF MailboxDone, TakeSnapshot, Reconcile, CommitCursors, Render, At
  <2> QED BY <1>1, <2>1, <2>2 DEF PullStep
<1>2. CASE \E l \in TargetLists, h \in Histories : StartPull(l, h)
  BY <1>2 DEF StartPull
<1>3. CASE Abort
  BY <1>3 DEF Abort
<1>4. ASSUME NEW b \in Mailboxes, Renumber(b)
      PROVE  /\ pc = "scan" /\ pull' = pull /\ UNCHANGED <<purged, leftOut, refs, cursors, aborts>>
             /\ validity'[Head(pull.todo)] = validity[Head(pull.todo)]
             /\ UNCHANGED <<local, writes>>
  <2>1. pc = "scan" /\ b # Head(pull.todo)
    BY <1>4 DEF Renumber
  <2>2. Head(pull.todo) \in Mailboxes /\ validity \in [Mailboxes -> Nat]
    BY <2>1, PullFields DEF PullType
  <2> QED BY <1>4, <2>1, <2>2 DEF Renumber, local, history
<1>5. CASE \/ \E b \in Arrivals, c \in Contents : Deliver(b, c)
           \/ \E b, d \in Mailboxes, u \in Uids : Move(b, u, d)
           \/ \E b \in Mailboxes, u \in Uids : Expunge(b, u)
           \/ \E c \in Contents : Age(c)
  BY <1>5 DEF Deliver, Move, Expunge, Age, local, bounds, history
<1>6. CASE CursorsLost \/ \E c \in Contents : AddToCase(c) \/ Purge(c)
  BY <1>6 DEF CursorsLost, AddToCase, Purge
<1>7. CASE UNCHANGED vars
  BY <1>7 DEF vars, server, local, history, bounds
<1> QED BY <1>1, <1>2, <1>3, <1>4, <1>5, <1>6, <1>7 DEF Next, Environment

(* Opening a mailbox: the messages that are not selected are below its cursor *)
(* or were left out.                                                          *)
LEMMA ScanBegins ==
    ASSUME SkipInv, SelectMailbox
    PROVE  LET b == Head(pull.todo)
           IN  /\ b \in Mailboxes /\ ScanInRange' /\ pull'.val = validity[b]
               /\ pull'.todo = pull.todo
               /\ UNCHANGED <<server, local, writes, purged, aborts>>
               /\ \A m \in mail[b] :
                     \/ Ahead(m[1])'
                     \/ /\ cursors[b] # None /\ cursors[b].val = validity[b]
                        /\ m[1] <= cursors[b].highest
<1> DEFINE b == Head(pull.todo)
           cur == CursorFor(b)
           valid == cur # None /\ cur.val = validity[b]
           sel == SelectUids(b, cur, pull.all)
           prev == IF valid THEN cur.highest ELSE 0
<1>1. PullType /\ UidsAreUsedOnce /\ CursorsTrue
  BY DEF SkipInv
<1>2. b \in Mailboxes
  BY <1>1, PullFields DEF SelectMailbox
<1>3. /\ pull'.todo = pull.todo /\ pull'.val = validity[b] /\ pull'.uids = sel
      /\ pull'.prev = prev /\ pull'.blocked = 0 /\ pull'.high = prev /\ pull'.cand = {}
  BY <1>1, PullFields DEF SelectMailbox, PullRecord
<1>4. /\ UNCHANGED <<server, local, writes, purged, aborts>>
      /\ leftOut' = IF valid THEN leftOut
                    ELSE leftOut \cup {<<b, validity[b], u>> : u \in UidsIn(b) \ sel}
  BY DEF SelectMailbox, bounds
<1>5. /\ nextUid[b] \in Nat /\ 1 <= nextUid[b]
      /\ \A u \in UidsIn(b) : u \in Nat /\ 1 <= u /\ u < nextUid[b]
  BY <1>1, <1>2 DEF PullType, UidsAreUsedOnce, UidsIn
<1>6. valid => /\ cursors[b] # None /\ cursors[b].val = validity[b]
               /\ prev = cursors[b].highest /\ prev \in Nat /\ prev < nextUid[b]
  BY <1>1, <1>2 DEF CursorFor, PullType, CursorsTrue, Passed
<1>7. \A u \in UidsIn(b) : valid => (u \in sel <=> u > prev)
  BY DEF SelectUids
<1>8. sel \subseteq UidsIn(b)
  BY DEF SelectUids
<1>9. prev \in Nat /\ prev < nextUid[b] /\ \A u \in sel : prev < u
  BY <1>5, <1>6, <1>7, <1>8
<1> HIDE DEF cur, valid, sel, prev
<1>10. ScanInRange'
  BY <1>3, <1>4, <1>5, <1>8, <1>9 DEF ScanInRange, server
<1>11. ASSUME NEW m \in mail[b]
       PROVE  \/ Ahead(m[1])'
              \/ /\ cursors[b] # None /\ cursors[b].val = validity[b]
                 /\ m[1] <= cursors[b].highest
  <2>1. m[1] \in UidsIn(b)
    BY DEF UidsIn
  <2>2. CASE m[1] \in sel
    BY <1>3, <2>2 DEF Ahead
  <2>3. CASE m[1] \notin sel /\ valid
    BY <1>5, <1>6, <1>7, <1>9, <2>1, <2>3
  <2>4. CASE m[1] \notin sel /\ ~valid
    BY <1>3, <1>4, <2>1, <2>4 DEF Ahead
  <2> QED BY <2>2, <2>3, <2>4
<1> QED BY <1>2, <1>3, <1>4, <1>10, <1>11

LEMMA ScanNext ==
    ASSUME SkipInv, [Next]_vars
    PROVE  ScanInRange' /\ ScanTrue'
<1> SUFFICES ASSUME pc' = "scan" PROVE ScanInRange' /\ ScanTrue'
  BY DEF ScanInRange, ScanTrue
<1> DEFINE b == Head(pull.todo)
<1>1. /\ PullType /\ UidsAreUsedOnce /\ LocationsTrue /\ CursorsTrue /\ ScanInRange /\ ScanTrue
  BY DEF SkipInv
<1>2. CASE SelectMailbox
  <2>1. /\ b \in Mailboxes /\ ScanInRange' /\ pull'.todo = pull.todo
        /\ mail' = mail /\ eml' = eml /\ purged' = purged
        /\ leftOut \subseteq leftOut' /\ pull'.val = validity[b]
        /\ \A m \in mail[b] :
              \/ Ahead(m[1])'
              \/ /\ cursors[b] # None /\ cursors[b].val = validity[b]
                 /\ m[1] <= cursors[b].highest
    BY <1>1, <1>2, ScanBegins, Grows DEF server, local
  <2>2. ASSUME NEW m \in mail[b],
               cursors[b] # None, cursors[b].val = validity[b], m[1] <= cursors[b].highest
        PROVE  Ahead(m[1])' \/ m[2] \in eml \cup purged
    <3>1. /\ m[1] \in Nat /\ cursors[b].highest \in Nat
          /\ Passed(b, cursors[b].val, cursors[b].highest)
      BY <1>1, <2>1, <2>2 DEF CursorsTrue, PullType
    <3>2. m[2] \in eml \cup purged \/ <<b, validity[b], m[1]>> \in leftOut
      BY <2>2, <3>1 DEF Passed
    <3> QED BY <2>1, <3>2 DEF Ahead
  <2>3. eml \cup purged \subseteq (Stored \cup purged)'
    BY <2>1 DEF Stored
  <2> QED BY <2>1, <2>2, <2>3 DEF ScanTrue
<1>3. CASE FetchHeader \/ FetchBody
  <2>1. /\ pc = "scan" /\ writes = <<>> /\ ScanInRange'
        /\ pull'.todo = pull.todo /\ pull'.val = pull.val
        /\ \A v \in Nat : Ahead(v) =>
              \/ Ahead(v)'
              \/ v \in UidsIn(b) /\ KnownHeader(v)
              \/ v \in UidsIn(b) /\ MergeBody(v)
              \/ v \in UidsIn(b) /\ StoreBody(v)
    BY <1>1, <1>3, ScanSteps
  <2>2. mail' = mail /\ eml' = eml /\ purged' = purged
    BY <1>3 DEF FetchHeader, FetchBody, server, local, history
  <2>3. Stored = eml /\ eml \subseteq Stored'
    BY <2>1, <2>2, ShortLists DEF Stored
  <2>4. b \in Mailboxes
    BY <1>1, <2>1, PullFields DEF PullType
  <2> SUFFICES ASSUME NEW m \in mail[b] PROVE Ahead(m[1])' \/ m[2] \in Stored' \cup purged'
    BY <2>1, <2>2 DEF ScanTrue
  <2>5. /\ m[1] \in Nat /\ m[1] \in UidsIn(b) /\ m[2] \in Contents
        /\ m = <<m[1], m[2]>>
    BY <1>1, <2>4 DEF PullType, UidsIn
  <2>6. \A c : <<m[1], c>> \in mail[b] => c = m[2]
    BY <1>1, <2>4 DEF UidsAreUsedOnce
  <2>7. ContentAt(b, m[1]) = m[2]
    BY <1>1, <2>4, <2>5, <2>6, MessageAt
  <2>8. CASE KnownHeader(m[1])
    <3>1. PICK c \in eml : \E l \in Active(meta[c]) :
             l.box = b /\ l.val = pull.val /\ l.uid = m[1]
      BY <2>8 DEF KnownHeader, Known
    <3>2. PICK l \in meta[c] : l.box = b /\ l.val = pull.val /\ l.uid = m[1]
      BY <3>1 DEF Active
    <3>3. c \in Contents /\ Honest(c, meta[c]) /\ pull.val = validity[b]
      BY <1>1, <2>1 DEF PullType, LocationsTrue, ScanInRange
    <3>4. m[2] = c
      BY <3>2, <3>3 DEF Honest
    <3> QED BY <2>3, <3>4
  <2>9. CASE MergeBody(m[1])
    <3>1. m[2] \in eml
      BY <2>7, <2>9 DEF MergeBody
    <3> QED BY <2>3, <3>1
  <2>10. CASE StoreBody(m[1])
    <3> DEFINE locs == {Here(m[1])}
    <3>1. writes' = StoreWrites(m[2], ImportAs[b], locs)
      BY <2>7, <2>10 DEF StoreBody, StoreWrites, Here
    <3>2. locs \in SUBSET Place /\ ImportAs[b] \in Dispositions
      <4>1. pull.val \in Nat
        BY <1>1, PullFields
      <4> QED BY <2>4, <2>5, <4>1, PullAssumption DEF Here, Place
    <3> HIDE DEF locs
    <3>3. Eml(m[2]) \in ToSet(writes')
      BY <2>5, <3>1, <3>2, StoringWrites
    <3> QED BY <2>5, <3>3 DEF Stored
  <2>11. Ahead(m[1]) \/ m[2] \in eml \cup purged
    BY <1>1, <2>1, <2>3 DEF ScanTrue
  <2> QED BY <2>1, <2>2, <2>3, <2>5, <2>8, <2>9, <2>10, <2>11
<1>4. CASE /\ pc = "scan" /\ pull' = pull /\ UNCHANGED <<purged, leftOut, refs, cursors, aborts>>
           /\ validity'[b] = validity[b]
           /\ \/ MakeWrite /\ UNCHANGED server
              \/ UNCHANGED <<local, writes>>
  <2>1. /\ ScanInRange'
        /\ \A m \in mail'[b] : m \in mail[b] \/ Ahead(m[1])'
        /\ \A m \in mail[b] : Ahead(m[1]) => Ahead(m[1])'
    BY <1>1, <1>4, ScanWaits
  <2>2. Stored' = Stored
    BY <1>1, <1>4, MakingKeepsStored DEF local, Stored
  <2> QED BY <1>1, <1>4, <2>1, <2>2 DEF ScanTrue
<1> QED BY <1>1, <1>2, <1>3, <1>4, ScanCases

-----------------------------------------------------------------------------
LEMMA SkipInit == Init => SkipInv
<1> SUFFICES ASSUME Init PROVE SkipInv
  OBVIOUS
<1>1. PullType
  BY InitType
<1>2. \A b \in Mailboxes : InitialMail[b] \in Seq(Contents)
  BY PullAssumption
<1>3. UidsAreUsedOnce
  <2> SUFFICES ASSUME NEW b \in Mailboxes
               PROVE  /\ 1 <= nextUid[b]
                      /\ \A m \in mail[b] : 1 <= m[1] /\ m[1] < nextUid[b]
                      /\ \A m, n \in mail[b] : m[1] = n[1] => m = n
    BY DEF UidsAreUsedOnce
  <2> DEFINE s == InitialMail[b]
  <2>1. s \in Seq(Contents) /\ Len(s) \in Nat /\ DOMAIN s = 1..Len(s)
    BY <1>2
  <2>2. nextUid[b] = Len(s) + 1 /\ mail[b] = {<<i, s[i]>> : i \in DOMAIN s}
    BY DEF Init
  <2> HIDE DEF s
  <2> QED BY <2>1, <2>2
<1>4. writes = <<>> /\ ToSet(writes) = {} /\ pc = "idle"
  BY ShortLists DEF Init
<1>5. LocationsTrue
  BY <1>4 DEF Init, LocationsTrue, Honest
<1>6. CursorsTrue /\ UpdatesTrue
  BY DEF Init, CursorsTrue, UpdatesTrue, NoPull
<1> QED BY <1>1, <1>3, <1>4, <1>5, <1>6 DEF SkipInv, ScanInRange, ScanTrue

LEMMA SkipNext ==
    ASSUME SkipInv, [Next]_vars
    PROVE  SkipInv'
<1>1. PullType' /\ UidsAreUsedOnce'
  BY TypeNext, ServerMoves DEF SkipInv
<1> QED BY <1>1, LocationsNext, CursorsNext, UpdatesNext, ScanNext DEF SkipInv

LEMMA SkipInvariant == Spec => []SkipInv
<1>1. Init => SkipInv
  BY SkipInit
<1>2. SkipInv /\ [Next]_vars => SkipInv'
  BY SkipNext
<1> QED BY <1>1, <1>2, PTL DEF Spec

(* The cursor of a mailbox never passes a message that is on the server and *)
(* was not stored, purged or left out for its age.                          *)
THEOREM NoMessageSkipped == Spec => []NothingSkipped
<1>1. SkipInv => NothingSkipped
  BY DEF SkipInv, CursorsTrue, Passed, NothingSkipped
<1> QED BY <1>1, SkipInvariant, PTL
-----------------------------------------------------------------------------
(* What a case or queue item refers to.                                      *)

(* What a body fetched at UID u makes the pull write. *)
LEMMA BodyWrites ==
    ASSUME PullType, FetchBody, writes' # <<>>
    PROVE  LET b == Head(pull.todo)
               u == LeastUid(pull.cand)
               c == ContentAt(b, u)
               merged == {l \in meta[c] : <<l.box, l.val, l.uid>> # <<b, pull.val, u>>}
                            \cup {Here(u)}
           IN  /\ b \in Mailboxes /\ u \in UidsIn(b) /\ c \in Contents
               /\ Here(u) \in Place /\ merged \in SUBSET Place
               /\ ImportAs[b] \in Dispositions \ {"deleted_remote"}
               /\ \/ /\ MergeBody(u) /\ c \in eml
                     /\ writes' = Artifacts(c, merged) \o RestoreWrites(c, ImportAs[b], merged)
                  \/ /\ StoreBody(u) /\ c \notin eml
                     /\ writes' = StoreWrites(c, ImportAs[b], {Here(u)})
<1> DEFINE b == Head(pull.todo)
           u == LeastUid(pull.cand)
           c == ContentAt(b, u)
           merged == {l \in meta[c] : <<l.box, l.val, l.uid>> # <<b, pull.val, u>>}
                        \cup {Here(u)}
<1>1. /\ b \in Mailboxes
      /\ NoBody(u) \/ MergeBody(u) \/ StoreBody(u)
      /\ Here(u) \in Place
      /\ u \in UidsIn(b) => c \in Contents
  BY BodyFields
<1>2. MergeBody(u) \/ StoreBody(u)
  BY <1>1 DEF NoBody
<1>3. u \in UidsIn(b)
  BY <1>2 DEF MergeBody, StoreBody
<1>4. c \in Contents
  BY <1>1, <1>3
<1>5. meta[c] \in SUBSET Place
  BY <1>4 DEF PullType
<1>6. merged \in SUBSET Place
  BY <1>1, <1>5
<1>7. ImportAs[b] \in Dispositions \ {"deleted_remote"}
  BY <1>1, PullAssumption
<1>8. MergeBody(u) => /\ c \in eml
                      /\ writes' = Artifacts(c, merged) \o RestoreWrites(c, ImportAs[b], merged)
  BY DEF MergeBody, Here
<1>9. StoreBody(u) => c \notin eml /\ writes' = StoreWrites(c, ImportAs[b], {Here(u)})
  BY DEF StoreBody, Here, StoreWrites
<1> QED BY <1>1, <1>2, <1>3, <1>4, <1>6, <1>7, <1>8, <1>9

(* A scan marks nothing. *)
LEMMA ScansMarkNothing ==
    ASSUME PullType, FetchHeader \/ FetchBody, NEW w \in ToSet(writes'), w.file = "disp"
    PROVE  w.disp # "deleted_remote"
<1>1. writes' # <<>>
  BY ShortLists
<1>2. CASE FetchHeader
  <2> DEFINE u == LeastUid(pull.uids)
  <2>1. NoHeader(u) \/ KnownHeader(u) \/ AdmitHeader(u) \/ OverBudget(u)
    BY <1>2 DEF FetchHeader
  <2> HIDE DEF u
  <2>2. PICK c \in Contents : writes' = Artifacts(c, meta[c])
    BY <1>1, <2>1 DEF NoHeader, KnownHeader, AdmitHeader, OverBudget, Known, PullType
  <2>3. meta[c] \in SUBSET Place
    BY DEF PullType
  <2>4. w \in {Meta(c, meta[c]), Cache(c, meta[c])}
    BY <2>2, <2>3, ArtifactWrites
  <2> QED BY <2>4 DEF Meta, Cache
<1>3. CASE FetchBody
  <2> DEFINE b == Head(pull.todo)
             u == LeastUid(pull.cand)
             c == ContentAt(b, u)
             d == ImportAs[b]
             merged == {l \in meta[c] : <<l.box, l.val, l.uid>> # <<b, pull.val, u>>}
                          \cup {Here(u)}
  <2>1. /\ c \in Contents /\ Here(u) \in Place /\ merged \in SUBSET Place
        /\ d \in Dispositions /\ d # "deleted_remote"
        /\ \/ writes' = Artifacts(c, merged) \o RestoreWrites(c, d, merged)
           \/ writes' = StoreWrites(c, d, {Here(u)})
    BY <1>1, <1>3, BodyWrites
  <2> DEFINE here == {Here(u)}
  <2>2. here \in SUBSET Place
    BY <2>1
  <2> HIDE DEF c, d, merged, here
  <2>3. \/ w \in {Disp(c, "none"), Disp(c, d), Meta(c, merged), Cache(c, merged)}
        \/ w \in {Disp(c, "none"), Disp(c, d), Meta(c, here), Cache(c, here), Eml(c)}
    <3>1. CASE writes' = Artifacts(c, merged) \o RestoreWrites(c, d, merged)
      BY <2>1, <3>1, MergingWrites
    <3>2. CASE writes' = StoreWrites(c, d, here)
      BY <2>1, <2>2, <3>2, StoringWrites
    <3> QED BY <2>1, <3>1, <3>2 DEF here
  <2> QED BY <2>1, <2>3 DEF Meta, Cache, Disp, Eml
<1> QED BY <1>2, <1>3

(* Reconciliation marks what has no active location left and no case needs. *)
LEMMA MarksAreDue ==
    ASSUME PullType, Reconcile, NEW w \in ToSet(writes'),
           w.file = "disp", w.disp = "deleted_remote"
    PROVE  w.c \in ToMark /\ Active(Marked(w.c)) = {} /\ w.c \notin refs
<1>1. PICK c \in ToMark : w \in ToSet(ReconcileWrites(c, Marked(c)))
  BY MarkingAll
<1>2. c \in Contents /\ cache[c] # None
  BY DEF ToMark
<1>3. Marked(c) \in SUBSET Place
  BY <1>2, MarkedLocations
<1>4. /\ w \in {Disp(c, "none"), Disp(c, "deleted_remote"),
                Meta(c, Marked(c)), Cache(c, Marked(c))}
      /\ Disp(c, "deleted_remote") \in ToSet(ReconcileWrites(c, Marked(c))) =>
            Active(Marked(c)) = {} /\ c \notin refs
  BY <1>1, <1>2, <1>3, MarkingWrites
<1>5. w = Disp(c, "deleted_remote")
  BY <1>4 DEF Disp, Meta, Cache
<1>6. w.c = c
  BY <1>5 DEF Disp
<1> QED BY <1>1, <1>4, <1>5, <1>6

LEMMA RefNext ==
    ASSUME PullType, RefInv, [Next]_vars
    PROVE  RefInv'
<1>1. /\ \A c \in refs : c \in eml /\ disp[c] # "deleted_remote"
      /\ \A w \in ToSet(writes) :
            w.file = "disp" /\ w.disp = "deleted_remote" => w.c \notin refs
  BY DEF RefInv, ReferencedIsKept, MarksSpareReferenced
<1>2. disp \in [Contents -> Dispositions] /\ eml \subseteq Contents
  BY DEF PullType
<1>3. ASSUME UNCHANGED <<eml, disp, refs>>, writes' = writes \/ writes' = <<>>
      PROVE  RefInv'
  BY <1>1, <1>3, ShortLists DEF RefInv, ReferencedIsKept, MarksSpareReferenced
<1>4. CASE FetchHeader \/ FetchBody
  <2>1. UNCHANGED <<eml, disp, refs>>
    BY <1>4 DEF FetchHeader, FetchBody, local
  <2>2. \A w \in ToSet(writes') : w.file = "disp" => w.disp # "deleted_remote"
    BY <1>4, ScansMarkNothing
  <2> QED BY <1>1, <2>1, <2>2 DEF RefInv, ReferencedIsKept, MarksSpareReferenced
<1>5. CASE Reconcile
  <2>1. UNCHANGED <<eml, disp, refs>>
    BY <1>5 DEF Reconcile, local
  <2>2. \A w \in ToSet(writes') :
           w.file = "disp" /\ w.disp = "deleted_remote" => w.c \notin refs
    BY <1>5, MarksAreDue
  <2> QED BY <1>1, <2>1, <2>2 DEF RefInv, ReferencedIsKept, MarksSpareReferenced
<1>6. CASE MakeWrite
  <2> DEFINE w == Head(writes)
  <2>1. writes \in Seq(FileWrite) /\ writes # <<>>
    BY <1>6 DEF PullType, MakeWrite
  <2>2. w \in ToSet(writes) /\ ToSet(writes') \subseteq ToSet(writes)
    BY <1>6, <2>1, HeadAndTail DEF MakeWrite
  <2>3. /\ refs' = refs /\ eml \subseteq eml'
        /\ disp' = IF w.file = "disp" THEN [disp EXCEPT ![w.c] = w.disp] ELSE disp
    BY <1>6 DEF MakeWrite
  <2> HIDE DEF w
  <2>4. \A c \in refs : disp'[c] # "deleted_remote"
    BY <1>1, <1>2, <2>2, <2>3
  <2> QED BY <1>1, <2>2, <2>3, <2>4 DEF RefInv, ReferencedIsKept, MarksSpareReferenced
<1>7. ASSUME NEW c \in Contents, AddToCase(c) \/ Purge(c) PROVE RefInv'
  <2>1. writes = <<>> /\ writes' = <<>>
    BY <1>7 DEF AddToCase, Purge, PullType
  <2>2. \A x \in refs' : x \in eml' /\ disp'[x] # "deleted_remote"
    BY <1>1, <1>2, <1>7 DEF AddToCase, Purge, local
  <2> QED BY <2>1, <2>2, ShortLists DEF RefInv, ReferencedIsKept, MarksSpareReferenced
<1>8. CASE PullStep
  BY <1>3, <1>4, <1>5, <1>6, <1>8
     DEF PullStep, SelectMailbox, MailboxDone, TakeSnapshot, CommitCursors, Render, local
<1>9. CASE \/ \E l \in TargetLists, h \in Histories : StartPull(l, h)
           \/ Abort \/ UNCHANGED vars
  BY <1>3, <1>9 DEF StartPull, Abort, vars, local
<1>10. CASE Environment
  BY <1>3, <1>7, <1>10
     DEF Environment, Deliver, Move, Expunge, Renumber, Age, CursorsLost, local
<1> QED BY <1>8, <1>9, <1>10 DEF Next

(* A message that a case or queue item refers to is stored and never marked *)
(* deleted_remote.                                                          *)
THEOREM ReferencedNeverMarked == Spec => []ReferencedIsKept
<1>1. Init => RefInv
  BY ShortLists DEF Init, RefInv, ReferencedIsKept, MarksSpareReferenced
<1>2. SkipInv /\ RefInv /\ [Next]_vars => RefInv'
  BY RefNext DEF SkipInv
<1>3. RefInv => ReferencedIsKept
  BY DEF RefInv
<1> QED BY <1>1, <1>2, <1>3, SkipInvariant, PTL DEF Spec
-----------------------------------------------------------------------------
(* What is marked although it is on the server will be looked at again.      *)

LEMMA CopiesNext ==
    ASSUME PullType, CopiesAreOne, [Next]_vars
    PROVE  CopiesAreOne'
<1>1. \A b \in Mailboxes : \A m \in mail[b] : m = <<m[1], m[2]>> /\ m[2] \in Contents
  BY DEF PullType
<1>2. mail \in [Mailboxes -> SUBSET (Nat \X Contents)]
  BY DEF PullType
<1>3. ASSUME NEW b \in Mailboxes, NEW c \in Contents, Deliver(b, c) PROVE CopiesAreOne'
  <2> DEFINE n == <<nextUid[b], c>>
  <2>1. /\ mail'[b] = mail[b] \cup {n}
        /\ \A d \in Mailboxes \ {b} : mail'[d] = mail[d]
        /\ \A d \in Mailboxes : \A m \in mail[d] : m[2] # c
    BY <1>2, <1>3 DEF Deliver, OnServer
  <2>2. n[2] = c
    OBVIOUS
  <2> HIDE DEF n
  <2>3. \A d \in Mailboxes : \A m \in mail'[d] : m \in mail[d] \/ (d = b /\ m = n)
    BY <2>1
  <2> QED BY <2>1, <2>2, <2>3 DEF CopiesAreOne
<1>4. ASSUME NEW b \in Mailboxes, NEW d \in Mailboxes, NEW u \in Uids, Move(b, u, d)
      PROVE  CopiesAreOne'
  <2> DEFINE c == ContentAt(b, u)
             n == <<nextUid[d], c>>
  <2>1. /\ b # d /\ u \in UidsIn(b)
        /\ mail'[b] = {m \in mail[b] : m[1] # u}
        /\ mail'[d] = mail[d] \cup {n}
        /\ \A x \in Mailboxes \ {b, d} : mail'[x] = mail[x]
    BY <1>2, <1>4 DEF Move
  <2>2. <<u, c>> \in mail[b] /\ n[2] = c
    BY <2>1, MessageAt
  <2> HIDE DEF n, c
  <2>3. \A x \in Mailboxes : \A m \in mail'[x] : (m \in mail[x] /\ m # <<u, c>>) \/ (x = d /\ m = n)
    <3>1. \A m \in mail[d] : m # <<u, c>>
      BY <2>1, <2>2 DEF CopiesAreOne
    <3>2. \A x \in Mailboxes \ {b, d} : \A m \in mail[x] : m # <<u, c>>
      BY <2>1, <2>2 DEF CopiesAreOne
    <3> QED BY <2>1, <3>1, <3>2
  <2>4. \A x \in Mailboxes : \A m \in mail[x] : m # <<u, c>> => m[2] # c
    BY <2>2 DEF CopiesAreOne
  <2> QED BY <2>2, <2>3, <2>4 DEF CopiesAreOne
<1>5. ASSUME NEW b \in Mailboxes, NEW u \in Uids, Expunge(b, u) PROVE CopiesAreOne'
  <2>1. \A d \in Mailboxes : mail'[d] \subseteq mail[d]
    BY <1>2, <1>5 DEF Expunge
  <2> QED BY <2>1 DEF CopiesAreOne
<1>6. ASSUME NEW b \in Mailboxes, Renumber(b) PROVE CopiesAreOne'
  <2> DEFINE rank(u) == Cardinality({v \in UidsIn(b) : v <= u})
             moved(m) == <<rank(m[1]), m[2]>>
  <2>1. /\ mail'[b] = {moved(m) : m \in mail[b]}
        /\ \A d \in Mailboxes \ {b} : mail'[d] = mail[d]
    BY <1>2, <1>6 DEF Renumber
  <2>2. \A m : moved(m)[2] = m[2]
    OBVIOUS
  <2> HIDE DEF moved
  <2>3. \A d \in Mailboxes : \A m \in mail'[d] :
           \E n \in mail[d] : n[2] = m[2] /\ (IF d = b THEN m = moved(n) ELSE m = n)
    BY <2>1, <2>2
  <2> SUFFICES ASSUME NEW x \in Mailboxes, NEW y \in Mailboxes,
                      NEW m \in mail'[x], NEW n \in mail'[y], m[2] = n[2]
               PROVE  x = y /\ m = n
    BY DEF CopiesAreOne
  <2>4. PICK k \in mail[x] : k[2] = m[2] /\ (IF x = b THEN m = moved(k) ELSE m = k)
    BY <2>3
  <2>5. PICK l \in mail[y] : l[2] = n[2] /\ (IF y = b THEN n = moved(l) ELSE n = l)
    BY <2>3
  <2>6. x = y /\ k = l
    BY <2>4, <2>5 DEF CopiesAreOne
  <2> QED BY <2>4, <2>5, <2>6
<1>7. ASSUME mail' = mail PROVE CopiesAreOne'
  BY <1>7 DEF CopiesAreOne
<1>8. CASE PullStep
  BY <1>7, <1>8 DEF PullStep, MakeWrite, SelectMailbox, FetchHeader, FetchBody, MailboxDone,
                    TakeSnapshot, Reconcile, CommitCursors, Render, server
<1>9. CASE \/ \E l \in TargetLists, h \in Histories : StartPull(l, h)
           \/ Abort \/ UNCHANGED vars
  BY <1>7, <1>9 DEF StartPull, Abort, vars, server
<1>10. CASE Environment
  BY <1>3, <1>4, <1>5, <1>6, <1>7, <1>10, PullAssumption
     DEF Environment, Age, AddToCase, Purge, CursorsLost, server
<1> QED BY <1>8, <1>9, <1>10 DEF Next

(* Making a write changes none of the locations a message ends up with. *)
LEMMA MakingKeepsFinal ==
    ASSUME PullType, MakeWrite, WritesAgree, NEW c \in Contents
    PROVE  Final(c)' = Final(c)
<1> DEFINE w == Head(writes)
<1>1. writes \in Seq(FileWrite) /\ writes # <<>> /\ writes' = Tail(writes)
  BY DEF PullType, MakeWrite
<1>2. w \in FileWrite /\ ToSet(writes) = {w} \cup ToSet(writes')
  BY <1>1, HeadAndTail
<1>3. meta' = IF w.file = "meta" THEN [meta EXCEPT ![w.c] = w.locs] ELSE meta
  BY DEF MakeWrite
<1>4. meta \in [Contents -> SUBSET Place]
  BY DEF PullType
<1>5. \A x \in Pending("meta", c) : x.locs = Final(c)
  BY DEF WritesAgree, Pending
<1> HIDE DEF w
<1>6. Pending("meta", c)' \subseteq Pending("meta", c)
  BY <1>2 DEF Pending
<1>7. CASE Pending("meta", c)' # {}
  <2>1. Final(c)' = (CHOOSE x \in Pending("meta", c)' : TRUE).locs
    BY <1>7 DEF Final
  <2>2. (CHOOSE x \in Pending("meta", c)' : TRUE) \in Pending("meta", c)'
    BY <1>7
  <2> QED BY <1>5, <1>6, <2>1, <2>2
<1>8. CASE Pending("meta", c)' = {} /\ w \in Pending("meta", c)
  <2>1. Final(c)' = meta'[c]
    BY <1>8 DEF Final
  <2>2. meta'[c] = w.locs
    BY <1>3, <1>4, <1>8 DEF Pending
  <2> QED BY <1>5, <1>8, <2>1, <2>2
<1>9. CASE Pending("meta", c)' = {} /\ w \notin Pending("meta", c)
  <2>1. Pending("meta", c) = {}
    BY <1>2, <1>9 DEF Pending
  <2>2. ~(w.file = "meta" /\ w.c = c)
    BY <1>2, <1>9 DEF Pending
  <2>3. meta'[c] = meta[c]
    BY <1>3, <1>4, <2>2
  <2> QED BY <1>9, <2>1, <2>3 DEF Final
<1> QED BY <1>7, <1>8, <1>9

LEMMA MakingAgrees ==
    ASSUME PullType, MakeWrite, WritesAgree, MarkedIsGone
    PROVE  WritesAgree' /\ MarkedIsGone'
<1> DEFINE w == Head(writes)
<1>1. writes \in Seq(FileWrite) /\ writes # <<>> /\ writes' = Tail(writes)
  BY DEF PullType, MakeWrite
<1>2. w \in FileWrite /\ ToSet(writes) = {w} \cup ToSet(writes')
  BY <1>1, HeadAndTail
<1>3. /\ cache' = IF w.file = "cache" THEN [cache EXCEPT ![w.c] = w.locs] ELSE cache
      /\ disp' = IF w.file = "disp" THEN [disp EXCEPT ![w.c] = w.disp] ELSE disp
  BY DEF MakeWrite
<1>4. /\ cache \in [Contents -> (SUBSET Place) \cup {None}]
      /\ disp \in [Contents -> Dispositions]
  BY DEF PullType
<1>5. Stored' = Stored /\ \A c \in Contents : Final(c)' = Final(c)
  BY MakingKeepsStored, MakingKeepsFinal
<1>6. \A x \in ToSet(writes) :
         x \in FileWrite /\ (x.file \in {"meta", "cache", "disp"} => x.c \in Contents)
  BY <1>1 DEF ToSet, FileWrite
<1>7. Stored \subseteq Contents
  BY DEF Stored, PullType
<1> HIDE DEF w
<1>8. \A x \in ToSet(writes') :
         x.file \in {"meta", "cache"} => x.c \in Stored' /\ x.locs = Final(x.c)'
  BY <1>2, <1>5, <1>6 DEF WritesAgree
<1>9. ASSUME NEW c \in Stored, Pending("cache", c)' = {} PROVE cache'[c] = Final(c)'
  <2>1. CASE w \in Pending("cache", c)
    BY <1>3, <1>4, <1>5, <1>7, <2>1 DEF Pending, WritesAgree
  <2>2. CASE w \notin Pending("cache", c)
    <3>1. Pending("cache", c) = {} /\ ~(w.file = "cache" /\ w.c = c)
      BY <1>2, <1>9, <2>2 DEF Pending
    <3> QED BY <1>3, <1>4, <1>5, <1>7, <3>1 DEF WritesAgree
  <2> QED BY <2>1, <2>2
<1>10. ASSUME NEW c \in Contents \ Stored PROVE cache'[c] = None
  <2>1. cache[c] = None /\ ~(w.file = "cache" /\ w.c = c)
    BY <1>2 DEF WritesAgree
  <2> QED BY <1>3, <1>4, <2>1
<1>11. WritesAgree'
  BY <1>5, <1>8, <1>9, <1>10 DEF WritesAgree
<1>12. ASSUME NEW c \in Contents, disp'[c] = "deleted_remote", Pending("disp", c)' = {}
       PROVE  c \in Stored /\ Active(Final(c)) = {}
  <2>1. CASE w \in Pending("disp", c)
    BY <1>3, <1>4, <1>12, <2>1 DEF Pending, MarkedIsGone
  <2>2. CASE w \notin Pending("disp", c)
    <3>1. Pending("disp", c) = {} /\ ~(w.file = "disp" /\ w.c = c)
      BY <1>2, <1>12, <2>2 DEF Pending
    <3>2. disp[c] = "deleted_remote"
      BY <1>3, <1>4, <1>12, <3>1
    <3> QED BY <3>1, <3>2 DEF MarkedIsGone
  <2> QED BY <2>1, <2>2
<1>13. ASSUME NEW x \in ToSet(writes'), x.file = "disp", x.disp = "deleted_remote"
       PROVE  x.c \in Stored /\ Active(Final(x.c)) = {}
  BY <1>2, <1>13 DEF MarkedIsGone
<1>14. \A c \in Contents : Active(Final(c))' = Active(Final(c))
  BY <1>5 DEF Active
<1>15. \A x \in ToSet(writes') : x.file = "disp" => x.c \in Contents
  BY <1>2, <1>6
<1>16. MarkedIsGone'
  BY <1>5, <1>12, <1>13, <1>14, <1>15 DEF MarkedIsGone
<1> QED BY <1>11, <1>16

(* The writes a step decides on: F is what it gives the messages of S. *)
LEMMA DecidedWrites ==
    ASSUME PullType, WritesAgree, writes = <<>>, UNCHANGED <<eml, meta, cache>>,
           NEW S \in SUBSET Contents, NEW F \in [S -> SUBSET Place],
           \A w \in ToSet(writes') :
              w.file \in {"meta", "cache"} => w.c \in S /\ w.locs = F[w.c],
           \A c \in S : Meta(c, F[c]) \in ToSet(writes') /\ Cache(c, F[c]) \in ToSet(writes'),
           S \subseteq Stored', Stored' \subseteq eml \cup S
    PROVE  /\ WritesAgree'
           /\ Stored = eml /\ eml \subseteq Stored'
           /\ \A c \in S : Final(c)' = F[c]
           /\ \A c \in Contents \ S : Final(c)' = meta[c]
           /\ \A c \in Contents : Final(c) = meta[c]
<1>1. ToSet(writes) = {}
  BY ShortLists
<1>2. Stored = eml /\ eml \subseteq Stored'
  BY <1>1 DEF Stored
<1>3. \A c \in Contents : Final(c) = meta[c] /\ Pending("cache", c) = {}
  BY <1>1 DEF Final, Pending
<1>4. ASSUME NEW c \in S PROVE Final(c)' = F[c] /\ Pending("cache", c)' # {}
  <2> DEFINE P == Pending("meta", c)'
  <2>1. Meta(c, F[c]) \in P /\ Cache(c, F[c]) \in Pending("cache", c)'
    BY DEF Pending, Meta, Cache
  <2>2. \A w \in P : w.locs = F[c]
    BY DEF Pending
  <2>3. Final(c)' = (CHOOSE w \in P : TRUE).locs
    BY <2>1 DEF Final
  <2>4. (CHOOSE w \in P : TRUE) \in P
    BY <2>1
  <2> HIDE DEF P
  <2> QED BY <2>1, <2>2, <2>3, <2>4
<1>5. ASSUME NEW c \in Contents \ S PROVE Final(c)' = meta[c]
  <2>1. Pending("meta", c)' = {}
    BY DEF Pending
  <2> QED BY <2>1 DEF Final
<1>6. \A c \in Stored' : Pending("cache", c)' = {} => cache'[c] = Final(c)'
  <2> SUFFICES ASSUME NEW c \in Stored', Pending("cache", c)' = {} PROVE cache'[c] = Final(c)'
    OBVIOUS
  <2>1. c \in eml /\ c \in Contents \ S
    BY <1>4 DEF PullType
  <2>2. cache[c] = Final(c)
    BY <1>2, <1>3, <2>1 DEF WritesAgree
  <2> QED BY <1>3, <1>5, <2>1, <2>2
<1>7. \A c \in Contents \ Stored' : cache'[c] = None
  BY <1>2 DEF WritesAgree
<1>8. \A w \in ToSet(writes') :
         w.file \in {"meta", "cache"} => w.c \in Stored' /\ w.locs = Final(w.c)'
  BY <1>4
<1>9. WritesAgree'
  BY <1>6, <1>7, <1>8 DEF WritesAgree
<1> QED BY <1>2, <1>3, <1>4, <1>5, <1>9

(* An active location of a message that is stored stays active, and a message *)
(* that is stored now has one where it is.                                     *)
SeenKept ==
    \A b \in Mailboxes, v \in Nat : \A m \in mail[b] :
        /\ v = validity[b]
        /\ m[2] \in Stored'
        /\ m[2] \in Stored => Seen(b, v, m)
        => Seen(b, v, m)'

LEMMA SameFinal ==
    ASSUME PullType, Stored' \subseteq Stored, \A c \in Stored' : Final(c)' = Final(c)
    PROVE  SeenKept
BY DEF SeenKept, Seen

LEMMA SameFiles ==
    ASSUME PullType, WritesAgree, MarkedIsGone, UNCHANGED <<eml, meta, cache, disp, writes>>
    PROVE  WritesAgree' /\ MarkedIsGone' /\ SeenKept
<1>1. Stored' = Stored /\ \A c : Final(c)' = Final(c)
  BY DEF Stored, Final, Pending
<1>2. WritesAgree'
  BY <1>1 DEF WritesAgree, Pending
<1>3. MarkedIsGone'
  BY <1>1 DEF MarkedIsGone, Pending, Active
<1> QED BY <1>1, <1>2, <1>3, SameFinal

LEMMA HeaderEffects ==
    ASSUME PullType, WritesAgree, MarkedIsGone, FetchHeader
    PROVE  WritesAgree' /\ MarkedIsGone' /\ SeenKept
<1>1. writes = <<>> /\ UNCHANGED <<eml, meta, cache, disp>>
  BY DEF FetchHeader, At, local
<1>2. CASE writes' = <<>>
  BY <1>1, <1>2, SameFiles
<1>3. CASE writes' # <<>>
  <2> DEFINE u == LeastUid(pull.uids)
  <2>1. NoHeader(u) \/ KnownHeader(u) \/ AdmitHeader(u) \/ OverBudget(u)
    BY DEF FetchHeader
  <2> HIDE DEF u
  <2>2. PICK c \in eml : writes' = Artifacts(c, meta[c])
    BY <1>3, <2>1 DEF NoHeader, KnownHeader, AdmitHeader, OverBudget, Known
  <2>3. c \in Contents /\ meta[c] \in SUBSET Place
    BY DEF PullType
  <2> DEFINE S == {c}
             F == [x \in S |-> meta[x]]
  <2>4. ToSet(writes') = {Meta(c, meta[c]), Cache(c, meta[c])}
    BY <2>2, <2>3, ArtifactWrites
  <2>5. Stored' = eml
    BY <1>1, <2>4 DEF Stored, Eml, Meta, Cache
  <2>6. /\ S \in SUBSET Contents /\ F \in [S -> SUBSET Place]
        /\ S \subseteq Stored' /\ Stored' \subseteq eml \cup S
    BY <2>3, <2>5
  <2>7. \A w \in ToSet(writes') :
           /\ w.file \in {"meta", "cache"} => w.c \in S /\ w.locs = F[w.c]
           /\ w.file # "disp"
    BY <2>4 DEF Meta, Cache
  <2>8. \A x \in S : Meta(x, F[x]) \in ToSet(writes') /\ Cache(x, F[x]) \in ToSet(writes')
    BY <2>4
  <2>9. F[c] = meta[c]
    OBVIOUS
  <2> HIDE DEF S, F
  <2>10. /\ WritesAgree'
         /\ Stored = eml
         /\ \A x \in S : Final(x)' = F[x]
         /\ \A x \in Contents \ S : Final(x)' = meta[x]
         /\ \A x \in Contents : Final(x) = meta[x]
    BY <1>1, <2>6, <2>7, <2>8, DecidedWrites
  <2>11. \A x \in Contents : Final(x)' = Final(x)
    BY <2>9, <2>10 DEF S
  <2>12. Stored' = Stored /\ Stored \subseteq Contents
    BY <2>5, <2>10 DEF PullType
  <2>13. SeenKept
    BY <2>11, <2>12, SameFinal
  <2>14. Pending("disp", c) = {} /\ \A x : Pending("disp", x) = {}
    BY <1>1, ShortLists DEF Pending
  <2>15. MarkedIsGone'
    BY <1>1, <2>7, <2>11, <2>12, <2>14 DEF MarkedIsGone, Active
  <2> QED BY <2>10, <2>13, <2>15
<1> QED BY <1>2, <1>3

(* The message of a UID of mailbox b. *)
LEMMA TheMessageAt ==
    ASSUME PullType, UidsAreUsedOnce, NEW b \in Mailboxes, NEW m \in mail[b]
    PROVE  m[1] \in UidsIn(b) /\ ContentAt(b, m[1]) = m[2] /\ m = <<m[1], m[2]>>
<1>1. m[1] \in UidsIn(b) /\ m = <<m[1], m[2]>>
  BY DEF UidsIn, PullType
<1>2. \A c : <<m[1], c>> \in mail[b] => c = m[2]
  BY DEF UidsAreUsedOnce
<1> QED BY <1>1, <1>2, MessageAt

LEMMA MergeEffects ==
    ASSUME PullType, WritesAgree, MarkedIsGone, FetchBody, writes' # <<>>,
           MergeBody(LeastUid(pull.cand))
    PROVE  WritesAgree' /\ MarkedIsGone' /\ SeenKept
<1>1. writes = <<>> /\ UNCHANGED <<eml, meta, cache, disp>>
  BY DEF FetchBody, At, local
<1>2. PICK c \in Contents, d \in Dispositions, k \in Place, merged \in SUBSET Place :
         /\ c \in eml /\ d # "deleted_remote" /\ k.missing = FALSE /\ k \in merged
         /\ \A l \in meta[c] :
               l \in merged \/ (l.box = k.box /\ l.val = k.val /\ l.uid = k.uid)
         /\ writes' = Artifacts(c, merged) \o RestoreWrites(c, d, merged)
  <2> DEFINE b == Head(pull.todo)
             u == LeastUid(pull.cand)
             c == ContentAt(b, u)
             merged == {l \in meta[c] : <<l.box, l.val, l.uid>> # <<b, pull.val, u>>}
                          \cup {Here(u)}
  <2>1. /\ c \in Contents /\ Here(u) \in Place /\ merged \in SUBSET Place
        /\ ImportAs[b] \in Dispositions /\ ImportAs[b] # "deleted_remote" /\ c \in eml
        /\ writes' = Artifacts(c, merged) \o RestoreWrites(c, ImportAs[b], merged)
    BY BodyWrites DEF MergeBody, StoreBody
  <2>2. /\ Here(u).missing = FALSE /\ Here(u).box = b /\ Here(u).val = pull.val
        /\ Here(u).uid = u
    BY DEF Here
  <2>3. /\ Here(u) \in merged
        /\ \A l \in meta[c] :
              \/ l \in merged
              \/ l.box = Here(u).box /\ l.val = Here(u).val /\ l.uid = Here(u).uid
    BY <2>2
  <2> HIDE DEF b, u, c, merged
  <2> QED BY <2>1, <2>2, <2>3
<1>3. \A l \in meta[c] : ~l.missing => l \in merged
  <2> SUFFICES ASSUME NEW l \in meta[c], ~l.missing, l \notin merged PROVE FALSE
    OBVIOUS
  <2>1. l \in Place /\ l.box = k.box /\ l.val = k.val /\ l.uid = k.uid
    BY <1>2 DEF PullType
  <2>2. l.missing = FALSE
    BY <2>1 DEF Place
  <2>3. l = k
    BY <1>2, <2>1, <2>2 DEF Place
  <2> QED BY <1>2, <2>3
<1> DEFINE S == {c}
           F == [x \in S |-> merged]
<1>4. /\ ToSet(writes') \subseteq {Disp(c, "none"), Disp(c, d), Meta(c, merged), Cache(c, merged)}
      /\ {Meta(c, merged), Cache(c, merged)} \subseteq ToSet(writes')
      /\ disp[c] = "deleted_remote" => Disp(c, "none") \in ToSet(writes')
  BY <1>2, MergingWrites
<1>5. Stored' = eml
  BY <1>1, <1>4 DEF Stored, Eml, Meta, Cache, Disp
<1>6. /\ S \in SUBSET Contents /\ F \in [S -> SUBSET Place]
      /\ S \subseteq Stored' /\ Stored' \subseteq eml \cup S
  BY <1>2, <1>5
<1>7. \A w \in ToSet(writes') :
         w.file \in {"meta", "cache"} => w.c \in S /\ w.locs = F[w.c]
  BY <1>4 DEF Meta, Cache, Disp
<1>8. \A w \in ToSet(writes') : w.file = "disp" => w.disp # "deleted_remote"
  BY <1>2, <1>4 DEF Meta, Cache, Disp
<1>9. \A x \in S : Meta(x, F[x]) \in ToSet(writes') /\ Cache(x, F[x]) \in ToSet(writes')
  BY <1>4
<1>10. F[c] = merged
  OBVIOUS
<1> HIDE DEF S, F
<1>11. /\ WritesAgree'
       /\ Stored = eml
       /\ \A x \in S : Final(x)' = F[x]
       /\ \A x \in Contents \ S : Final(x)' = meta[x]
       /\ \A x \in Contents : Final(x) = meta[x]
  BY <1>1, <1>6, <1>7, <1>9, DecidedWrites
<1>12. /\ Final(c)' = merged
       /\ \A x \in Contents : x # c => Final(x)' = Final(x)
  BY <1>10, <1>11 DEF S
<1>13. disp[c] = "deleted_remote" => Pending("disp", c)' # {}
  BY <1>4 DEF Pending, Disp
<1>14. \A x : Pending("disp", x) = {}
  BY <1>1, ShortLists DEF Pending
<1>15. MarkedIsGone'
  BY <1>1, <1>5, <1>8, <1>11, <1>12, <1>13, <1>14 DEF MarkedIsGone, Active
<1>16. SeenKept
  <2> SUFFICES ASSUME NEW x \in Mailboxes, NEW v \in Nat, NEW m \in mail[x],
                      m[2] \in eml, Seen(x, v, m)
               PROVE  Seen(x, v, m)'
    BY <1>5, <1>11 DEF SeenKept
  <2> DEFINE l == [box |-> x, val |-> v, uid |-> m[1], missing |-> FALSE]
  <2>1. m[2] \in Contents /\ l \in meta[m[2]]
    BY <1>11 DEF Seen, PullType
  <2>2. CASE m[2] = c
    <3>1. l \in merged
      BY <1>3, <2>1, <2>2
    <3> QED BY <1>12, <2>2, <3>1 DEF Seen
  <2>3. CASE m[2] # c
    BY <1>11, <1>12, <2>1, <2>3 DEF Seen
  <2> QED BY <2>2, <2>3
<1> QED BY <1>11, <1>15, <1>16

LEMMA StoreEffects ==
    ASSUME PullType, UidsAreUsedOnce, ScanInRange, CopiesAreOne, WritesAgree, MarkedIsGone,
           FetchBody, writes' # <<>>, StoreBody(LeastUid(pull.cand))
    PROVE  WritesAgree' /\ MarkedIsGone' /\ SeenKept
<1>1. writes = <<>> /\ UNCHANGED <<eml, meta, cache, disp>> /\ pc = "scan"
  BY DEF FetchBody, At, local
<1>2. PICK b \in Mailboxes, u \in Nat, c \in Contents, d \in Dispositions, k \in Place,
           here \in SUBSET Place :
         /\ c \notin eml /\ d # "deleted_remote"
         /\ <<u, c>> \in mail[b]
         /\ k = [box |-> b, val |-> validity[b], uid |-> u, missing |-> FALSE]
         /\ here = {k}
         /\ writes' = StoreWrites(c, d, here)
  <2> DEFINE b == Head(pull.todo)
             u == LeastUid(pull.cand)
             c == ContentAt(b, u)
  <2>1. /\ b \in Mailboxes /\ u \in UidsIn(b) /\ c \in Contents /\ Here(u) \in Place
        /\ ImportAs[b] \in Dispositions /\ ImportAs[b] # "deleted_remote" /\ c \notin eml
        /\ writes' = StoreWrites(c, ImportAs[b], {Here(u)})
    BY BodyWrites DEF MergeBody, StoreBody
  <2>2. <<u, c>> \in mail[b] /\ u \in Nat /\ pull.val = validity[b]
    BY <1>1, <2>1, MessageAt DEF ScanInRange
  <2>3. Here(u) = [box |-> b, val |-> validity[b], uid |-> u, missing |-> FALSE]
    BY <2>2 DEF Here
  <2>4. {Here(u)} \in SUBSET Place
    BY <2>1
  <2> HIDE DEF b, u, c
  <2> QED BY <2>1, <2>2, <2>3, <2>4
<1>3. k \in here
  BY <1>2
<1> DEFINE S == {c}
           F == [x \in S |-> here]
<1>6. /\ ToSet(writes') \subseteq {Meta(c, here), Cache(c, here), Eml(c),
                                   Disp(c, "none"), Disp(c, d)}
      /\ {Meta(c, here), Cache(c, here), Eml(c)} \subseteq ToSet(writes')
  BY <1>2, StoringWrites
<1>7. Stored' = eml \cup {c}
  BY <1>1, <1>2, <1>6 DEF Stored, Eml, Meta, Cache, Disp
<1>8. /\ S \in SUBSET Contents /\ F \in [S -> SUBSET Place]
      /\ S \subseteq Stored' /\ Stored' \subseteq eml \cup S
  BY <1>2, <1>7
<1>9. \A w \in ToSet(writes') :
         w.file \in {"meta", "cache"} => w.c \in S /\ w.locs = F[w.c]
  BY <1>6 DEF Meta, Cache, Disp, Eml
<1>10. \A w \in ToSet(writes') : w.file = "disp" => w.disp # "deleted_remote"
  <2>1. d # "deleted_remote"
    BY <1>2
  <2> QED BY <1>6, <2>1 DEF Meta, Cache, Disp, Eml
<1>11. \A x \in S : Meta(x, F[x]) \in ToSet(writes') /\ Cache(x, F[x]) \in ToSet(writes')
  BY <1>6
<1>12. F[c] = here
  OBVIOUS
<1> HIDE DEF S, F
<1>13. /\ WritesAgree'
       /\ Stored = eml
       /\ \A x \in S : Final(x)' = F[x]
       /\ \A x \in Contents \ S : Final(x)' = meta[x]
       /\ \A x \in Contents : Final(x) = meta[x]
  BY <1>1, <1>8, <1>9, <1>11, DecidedWrites
<1>14. /\ Final(c)' = here
       /\ \A x \in Contents : x # c => Final(x)' = Final(x)
  BY <1>12, <1>13 DEF S
<1>15. \A x : Pending("disp", x) = {}
  BY <1>1, ShortLists DEF Pending
<1>16. disp[c] # "deleted_remote"
  BY <1>2, <1>13, <1>15 DEF MarkedIsGone
<1>17. MarkedIsGone'
  BY <1>1, <1>7, <1>10, <1>13, <1>14, <1>15, <1>16 DEF MarkedIsGone, Active
<1>18. SeenKept
  <2> SUFFICES ASSUME NEW x \in Mailboxes, NEW v \in Nat, NEW m \in mail[x],
                      v = validity[x], m[2] \in Stored', m[2] \in Stored => Seen(x, v, m)
               PROVE  Seen(x, v, m)'
    BY DEF SeenKept
  <2>1. CASE m[2] = c
    <3>1. x = b /\ m = <<u, c>>
      BY <1>2, <2>1 DEF CopiesAreOne
    <3>2. k = [box |-> x, val |-> v, uid |-> m[1], missing |-> FALSE]
      BY <1>2, <3>1
    <3> QED BY <1>3, <1>14, <2>1, <3>2 DEF Seen
  <2>2. CASE m[2] # c
    <3>1. m[2] \in eml /\ m[2] \in Contents
      BY <1>7, <2>2 DEF PullType
    <3> QED BY <1>13, <1>14, <2>2, <3>1 DEF Seen
  <2> QED BY <2>1, <2>2
<1> QED BY <1>13, <1>17, <1>18

(* Reconciliation gives the messages it marks their marked locations. *)
LEMMA ReconcileEffects ==
    ASSUME PullType, WritesAgree, MarkedIsGone, Reconcile
    PROVE  /\ WritesAgree' /\ MarkedIsGone'
           /\ Stored' = eml /\ Stored = eml /\ ToMark \subseteq eml
           /\ \A c \in ToMark : Final(c)' = Marked(c) /\ cache[c] = meta[c]
           /\ \A c \in Contents \ ToMark : Final(c)' = meta[c]
           /\ \A c \in Contents : Final(c) = meta[c]
<1>1. writes = <<>> /\ UNCHANGED <<eml, meta, cache, disp>>
  BY DEF Reconcile, At, local
<1>2. \A x : Pending("disp", x) = {} /\ Pending("cache", x) = {} /\ Pending("meta", x) = {}
  BY <1>1, ShortLists DEF Pending
<1>3. Stored = eml
  BY <1>1, ShortLists DEF Stored
<1>4. \A c \in ToMark : c \in Contents /\ cache[c] # None
  BY DEF ToMark
<1>5. ToMark \subseteq eml
  BY <1>3, <1>4 DEF WritesAgree
<1>6. ASSUME NEW c \in ToMark
      PROVE  /\ Marked(c) \in SUBSET Place
             /\ ToSet(ReconcileWrites(c, Marked(c))) \subseteq
                   {Disp(c, "none"), Disp(c, "deleted_remote"),
                    Meta(c, Marked(c)), Cache(c, Marked(c))}
             /\ {Meta(c, Marked(c)), Cache(c, Marked(c))}
                   \subseteq ToSet(ReconcileWrites(c, Marked(c)))
  BY <1>4, MarkedLocations, MarkingWrites
<1> DEFINE F == [c \in ToMark |-> Marked(c)]
<1>7. /\ ToMark \in SUBSET Contents /\ F \in [ToMark -> SUBSET Place]
      /\ \A c \in ToMark : F[c] = Marked(c)
  BY <1>4, <1>6
<1> HIDE DEF F
<1>8. \A w \in ToSet(writes') :
         \E c \in ToMark : w \in {Disp(c, "none"), Disp(c, "deleted_remote"),
                                  Meta(c, Marked(c)), Cache(c, Marked(c))}
  BY <1>6, MarkingAll
<1>9. \A w \in ToSet(writes') :
         w.file \in {"meta", "cache"} => w.c \in ToMark /\ w.locs = F[w.c]
  BY <1>7, <1>8 DEF Meta, Cache, Disp
<1>10. \A c \in ToMark : Meta(c, F[c]) \in ToSet(writes') /\ Cache(c, F[c]) \in ToSet(writes')
  BY <1>6, <1>7, MarkingAll
<1>11. Stored' = eml
  BY <1>1, <1>8 DEF Stored, Eml, Meta, Cache, Disp
<1>12. ToMark \subseteq Stored' /\ Stored' \subseteq eml \cup ToMark
  BY <1>5, <1>11
<1>13. /\ WritesAgree'
       /\ \A c \in ToMark : Final(c)' = F[c]
       /\ \A c \in Contents \ ToMark : Final(c)' = meta[c]
       /\ \A c \in Contents : Final(c) = meta[c]
  BY <1>1, <1>7, <1>9, <1>10, <1>12, DecidedWrites
<1>14. ASSUME NEW c \in ToMark PROVE Final(c)' = Marked(c) /\ cache[c] = meta[c]
  BY <1>2, <1>3, <1>4, <1>5, <1>7, <1>13 DEF WritesAgree
<1>15. ASSUME NEW c \in Contents, disp[c] = "deleted_remote"
       PROVE  c \in eml /\ Active(Final(c)') = {}
  <2>1. c \in eml /\ Active(meta[c]) = {}
    BY <1>2, <1>3, <1>13, <1>15 DEF MarkedIsGone
  <2>2. CASE c \in ToMark
    <3>1. \A l \in Marked(c) : ~l.missing => \E k \in meta[c] : ~k.missing
      BY <1>4, <1>14, <2>2, MarkedLocations
    <3> QED BY <1>14, <2>1, <2>2, <3>1 DEF Active
  <2>3. CASE c \notin ToMark
    BY <1>13, <2>1, <2>3
  <2> QED BY <2>1, <2>2, <2>3
<1>16. ASSUME NEW w \in ToSet(writes'), w.file = "disp", w.disp = "deleted_remote"
       PROVE  w.c \in eml /\ Active(Final(w.c)') = {}
  <2>1. w.c \in ToMark /\ Active(Marked(w.c)) = {}
    BY <1>16, MarksAreDue
  <2> QED BY <1>5, <1>14, <2>1
<1>17. MarkedIsGone'
  BY <1>1, <1>11, <1>15, <1>16 DEF MarkedIsGone, Active
<1> QED BY <1>3, <1>5, <1>11, <1>13, <1>14, <1>17

(* What every step but a reconciliation and a failure does. *)
LEMMA EffectsNext ==
    ASSUME SkipInv, CopiesAreOne, WritesAgree, MarkedIsGone, [Next]_vars, aborts' = aborts
    PROVE  WritesAgree' /\ MarkedIsGone' /\ (Reconcile \/ SeenKept)
<1> DEFINE Goal == WritesAgree' /\ MarkedIsGone' /\ (Reconcile \/ SeenKept)
<1> SUFFICES Goal
  OBVIOUS
<1>1. PullType /\ UidsAreUsedOnce /\ ScanInRange
  BY DEF SkipInv
<1>2. ASSUME UNCHANGED <<eml, meta, cache, disp, writes>> PROVE Goal
  BY <1>1, <1>2, SameFiles
<1>3. CASE MakeWrite
  <2>1. Stored' = Stored /\ Stored \subseteq Contents
    BY <1>1, <1>3, MakingKeepsStored DEF Stored, PullType
  <2>2. SeenKept
    BY <1>1, <1>3, <2>1, MakingKeepsFinal, SameFinal
  <2> QED BY <1>1, <1>3, <2>2, MakingAgrees
<1>4. CASE FetchHeader
  BY <1>1, <1>4, HeaderEffects
<1>5. CASE FetchBody
  <2>1. writes = <<>> /\ UNCHANGED <<eml, meta, cache, disp>>
    BY <1>5 DEF FetchBody, At, local
  <2>2. \/ NoBody(LeastUid(pull.cand))
        \/ MergeBody(LeastUid(pull.cand)) \/ StoreBody(LeastUid(pull.cand))
    BY <1>5 DEF FetchBody
  <2>3. CASE writes' = <<>>
    BY <1>2, <2>1, <2>3
  <2>4. CASE writes' # <<>>
    BY <1>1, <1>5, <2>2, <2>4, MergeEffects, StoreEffects DEF NoBody
  <2> QED BY <2>3, <2>4
<1>6. CASE Reconcile
  BY <1>1, <1>6, ReconcileEffects
<1>7. ASSUME writes = <<>>, writes' = writes
      PROVE  /\ ToSet(writes) = {} /\ ToSet(writes') = {}
             /\ Stored = eml /\ Stored' = eml'
             /\ \A c \in Contents : Final(c) = meta[c] /\ Final(c)' = meta'[c]
             /\ \A f, c : Pending(f, c) = {} /\ Pending(f, c)' = {}
  BY <1>7, ShortLists DEF Stored, Final, Pending
<1>8. CASE Render
  <2>1. /\ writes = <<>> /\ writes' = writes /\ UNCHANGED <<eml, meta, disp>>
        /\ cache' = [c \in Contents |-> IF c \in eml THEN meta[c] ELSE cache[c]]
    BY <1>8 DEF Render, At
  <2>2. /\ ToSet(writes) = {} /\ ToSet(writes') = {}
        /\ Stored = eml /\ Stored' = eml /\ eml \subseteq Contents
        /\ \A c \in Contents : Final(c) = meta[c] /\ Final(c)' = meta[c]
        /\ \A f, c : Pending(f, c) = {} /\ Pending(f, c)' = {}
    BY <1>1, <1>7, <2>1 DEF PullType
  <2>3. WritesAgree'
    BY <2>1, <2>2 DEF WritesAgree
  <2>4. MarkedIsGone'
    BY <2>1, <2>2 DEF MarkedIsGone, Active
  <2>5. SeenKept
    BY <1>1, <2>2, SameFinal
  <2> QED BY <2>3, <2>4, <2>5
<1>9. ASSUME NEW c \in Contents, AddToCase(c) PROVE Goal
  <2>1. /\ writes = <<>> /\ writes' = writes /\ UNCHANGED <<eml, meta>> /\ c \in eml
        /\ cache' = [cache EXCEPT ![c] = meta[c]] /\ disp' = [disp EXCEPT ![c] = "none"]
    BY <1>1, <1>9 DEF AddToCase, PullType
  <2>2. /\ ToSet(writes) = {} /\ ToSet(writes') = {}
        /\ Stored = eml /\ Stored' = eml /\ eml \subseteq Contents
        /\ \A x \in Contents : Final(x) = meta[x] /\ Final(x)' = meta[x]
        /\ \A f, x : Pending(f, x) = {} /\ Pending(f, x)' = {}
    BY <1>1, <1>7, <2>1 DEF PullType
  <2>3. /\ cache \in [Contents -> (SUBSET Place) \cup {None}]
        /\ disp \in [Contents -> Dispositions]
    BY <1>1 DEF PullType
  <2>4. WritesAgree'
    BY <2>1, <2>2, <2>3 DEF WritesAgree
  <2>5. MarkedIsGone'
    BY <2>1, <2>2, <2>3 DEF MarkedIsGone, Active
  <2>6. SeenKept
    BY <1>1, <2>2, SameFinal
  <2> QED BY <2>4, <2>5, <2>6
<1>10. ASSUME NEW c \in Contents, Purge(c) PROVE Goal
  <2>1. /\ writes = <<>> /\ writes' = writes /\ eml' = eml \ {c}
        /\ meta' = [meta EXCEPT ![c] = {}] /\ cache' = [cache EXCEPT ![c] = None]
        /\ disp' = [disp EXCEPT ![c] = "none"]
    BY <1>1, <1>10 DEF Purge, PullType
  <2>2. /\ cache \in [Contents -> (SUBSET Place) \cup {None}]
        /\ disp \in [Contents -> Dispositions] /\ meta \in [Contents -> SUBSET Place]
        /\ eml \subseteq Contents
    BY <1>1 DEF PullType
  <2>3. /\ ToSet(writes) = {} /\ ToSet(writes') = {}
        /\ Stored = eml /\ Stored' = eml'
        /\ \A x \in Contents : Final(x) = meta[x] /\ Final(x)' = meta'[x]
        /\ \A f, x : Pending(f, x) = {} /\ Pending(f, x)' = {}
    BY <1>7, <2>1
  <2>4. \A x \in Contents : x # c => /\ meta'[x] = meta[x] /\ cache'[x] = cache[x]
                                     /\ disp'[x] = disp[x] /\ (x \in eml' <=> x \in eml)
    BY <2>1, <2>2
  <2>5. cache'[c] = None /\ disp'[c] = "none" /\ c \notin eml'
    BY <2>1, <2>2
  <2>6. WritesAgree'
    BY <2>1, <2>2, <2>3, <2>4, <2>5 DEF WritesAgree
  <2>7. MarkedIsGone'
    BY <2>2, <2>3, <2>4, <2>5 DEF MarkedIsGone, Active
  <2>8. SeenKept
    <3>1. Stored' \subseteq Stored /\ \A x \in Stored' : Final(x)' = Final(x)
      BY <2>1, <2>2, <2>3, <2>4, <2>5
    <3> QED BY <1>1, <3>1, SameFinal
  <2> QED BY <2>6, <2>7, <2>8
<1>11. CASE PullStep
  BY <1>2, <1>3, <1>4, <1>5, <1>6, <1>8, <1>11
     DEF PullStep, SelectMailbox, MailboxDone, TakeSnapshot, CommitCursors, local
<1>12. CASE \/ \E l \in TargetLists, h \in Histories : StartPull(l, h)
            \/ UNCHANGED vars
  BY <1>2, <1>12 DEF StartPull, vars, local
<1>13. CASE Abort
  BY <1>1, <1>13 DEF Abort, PullType
<1>14. CASE Environment
  BY <1>2, <1>9, <1>10, <1>14
     DEF Environment, Deliver, Move, Expunge, Renumber, Age, CursorsLost, local
<1> QED BY <1>11, <1>12, <1>13, <1>14 DEF Next

(* A cursor that is followed stays so if what it passed stays seen. *)
LEMMA FollowedLater ==
    ASSUME PullType, UidsAreUsedOnce, [Next]_vars, NEW b \in Mailboxes,
           NEW v \in Nat, NEW h \in Nat, Passed(b, v, h), Followed(b, v, h),
           \A m \in mail[b] :
              /\ v = validity[b] /\ m[1] <= h /\ <<b, v, m[1]>> \notin leftOut
              /\ m[2] \in Stored'
              /\ m[2] \in Stored => Seen(b, v, m)
              => Seen(b, v, m)'
    PROVE  Followed(b, v, h)'
<1>1. ServerTypes /\ ServerTypes' /\ Later /\ leftOut \subseteq leftOut'
  BY TypeParts, ServerMoves, Grows
<1>2. /\ validity[b] \in Nat /\ validity'[b] \in Nat /\ nextUid[b] \in Nat
      /\ \A m \in mail'[b] : m[1] \in Nat
  BY <1>1 DEF ServerTypes
<1> SUFFICES ASSUME v = validity'[b], NEW m \in mail'[b], m[1] <= h,
                    <<b, v, m[1]>> \notin leftOut', m[2] \in Stored'
             PROVE  Seen(b, v, m)'
  BY DEF Followed
<1>3. v = validity[b] /\ validity'[b] = validity[b]
  BY <1>1, <1>2 DEF Later, Passed
<1>4. m \in mail[b]
  <2>1. h < nextUid[b]
    BY <1>3 DEF Passed
  <2> QED BY <1>1, <1>2, <1>3, <2>1 DEF Later
<1>5. m[2] \in Stored => Seen(b, v, m)
  BY <1>1, <1>3, <1>4 DEF Followed
<1> QED BY <1>1, <1>3, <1>4, <1>5

(* A snapshot of mailbox b that shows what a cursor passed keeps its messages. *)
LEMMA ShownIsKept ==
    ASSUME PullType, WritesAgree, MarkedIsGone, SnapsTrue, Reconcile,
           NEW b \in Mailboxes, NEW v \in Nat, NEW h \in Nat,
           \A k \in DOMAIN pull.snaps : pull.snaps[k].box = b => Shows(pull.snaps[k], v, h),
           NEW m \in mail[b], v = validity[b], m[1] <= h, m[2] \in Stored,
           Seen(b, v, m)
    PROVE  Seen(b, v, m)'
<1> DEFINE l == [box |-> b, val |-> v, uid |-> m[1], missing |-> FALSE]
<1>1. /\ \A c \in ToMark : Final(c)' = Marked(c) /\ cache[c] = meta[c]
      /\ \A c \in Contents \ ToMark : Final(c)' = meta[c]
      /\ \A c \in Contents : Final(c) = meta[c]
  BY ReconcileEffects
<1>2. m[2] \in Contents /\ l \in meta[m[2]]
  BY <1>1 DEF Seen, PullType
<1>3. pc = "select" /\ pull.snaps \in Seq(Snapshot) /\ validity[b] \in Nat
  BY PullFields DEF Reconcile, At, PullType
<1>4. ASSUME NEW k \in DOMAIN pull.snaps PROVE ~GoneFrom(l, pull.snaps[k])
  <2> DEFINE snap == pull.snaps[k]
  <2>1. snap \in Snapshot /\ snap.val \in Nat
    <3>1. snap \in Snapshot
      BY <1>3
    <3> QED BY <3>1 DEF Snapshot
  <2>2. snap.val <= validity[snap.box]
    BY <1>3 DEF SnapsTrue, ShowsPassed
  <2>3. CASE snap.box = b
    <3>1. v <= snap.val /\ m[1] \in snap.uids
      BY <2>3 DEF Shows
    <3>2. v = snap.val
      BY <1>3, <2>1, <2>2, <2>3, <3>1
    <3> QED BY <3>1, <3>2 DEF GoneFrom
  <2>4. CASE snap.box # b
    BY <2>4 DEF GoneFrom
  <2> QED BY <2>3, <2>4
<1>5. CASE m[2] \in ToMark
  <2>1. cache[m[2]] # None /\ l \in cache[m[2]] /\ ~l.missing
    BY <1>1, <1>2, <1>5 DEF ToMark
  <2> HIDE DEF l
  <2>2. l \in Marked(m[2])
    BY <1>2, <1>4, <2>1, MarkedLocations
  <2> QED BY <1>1, <1>5, <2>2 DEF Seen, l
<1>6. CASE m[2] \notin ToMark
  BY <1>1, <1>2, <1>6 DEF Seen
<1> QED BY <1>5, <1>6

(* A cursor that the running pull's snapshots show is followed later. *)
LEMMA FollowedNext ==
    ASSUME SkipInv, FollowInv, [Next]_vars, aborts = 0, aborts' = aborts,
           NEW b \in Mailboxes, NEW v \in Nat, NEW h \in Nat,
           Passed(b, v, h), Followed(b, v, h),
           pc = "select" => \A k \in DOMAIN pull.snaps :
              pull.snaps[k].box = b => Shows(pull.snaps[k], v, h)
    PROVE  Followed(b, v, h)'
<1>1. /\ PullType /\ UidsAreUsedOnce /\ CopiesAreOne /\ WritesAgree /\ MarkedIsGone /\ SnapsTrue
  BY DEF SkipInv, FollowInv
<1> SUFFICES ASSUME NEW m \in mail[b], v = validity[b], m[1] <= h, m[2] \in Stored',
                    m[2] \in Stored => Seen(b, v, m)
             PROVE  Seen(b, v, m)'
  BY <1>1, FollowedLater
<1>2. CASE SeenKept
  BY <1>2 DEF SeenKept
<1>3. CASE Reconcile
  <2>1. pc = "select" /\ m[2] \in Stored
    BY <1>1, <1>3, ReconcileEffects DEF Reconcile, At
  <2> QED BY <1>1, <1>3, <2>1, ShownIsKept
<1> QED BY <1>1, <1>2, <1>3, EffectsNext

LEMMA CursorsFollowedNext ==
    ASSUME SkipInv, FollowInv, [Next]_vars, aborts = 0, aborts' = aborts
    PROVE  CursorsFollowed'
<1>1. /\ PullType /\ CursorsTrue /\ UpdatesTrue
      /\ CursorsFollowed /\ UpdatesFollowed /\ SnapsTrue
  BY DEF SkipInv, FollowInv
<1> SUFFICES ASSUME NEW b \in Mailboxes, cursors'[b] # None
             PROVE  Followed(b, cursors[b].val, cursors[b].highest)'
  BY DEF CursorsFollowed
<1>2. ASSUME cursors'[b] = cursors[b]
      PROVE  Followed(b, cursors[b].val, cursors[b].highest)'
  <2> DEFINE v == cursors[b].val
             h == cursors[b].highest
  <2>1. /\ v \in Nat /\ h \in Nat /\ Passed(b, v, h) /\ Followed(b, v, h)
        /\ pc = "select" => \A k \in DOMAIN pull.snaps :
              pull.snaps[k].box = b => Shows(pull.snaps[k], v, h)
    BY <1>1, <1>2 DEF CursorsTrue, CursorsFollowed, PullType, SnapsTrue, ShowsPassed
  <2> SUFFICES ASSUME NEW x \in Nat, NEW y \in Nat, x = v, y = h
               PROVE  Followed(b, x, y)'
    BY <1>2, <2>1 DEF Followed
  <2> QED BY <2>1, FollowedNext
<1>3. CASE CommitCursors
  <2> DEFINE upd == {i \in DOMAIN pull.updates : pull.updates[i].box = b}
             j == CHOOSE i \in upd : TRUE
             r == pull.updates[j]
  <2>1. CASE upd = {}
    <3>1. cursors'[b] = cursors[b]
      BY <1>3, <2>1 DEF CommitCursors
    <3> QED BY <1>2, <3>1
  <2>2. CASE upd # {}
    <3>1. cursors'[b].val = r.val /\ cursors'[b].highest = r.highest
      BY <1>3, <2>2 DEF CommitCursors
    <3>2. j \in DOMAIN pull.updates /\ pull.updates[j].box = b
      <4>1. j \in upd
        BY <2>2
      <4> QED BY <4>1
    <3> HIDE DEF j
    <3>3. r \in Update /\ r.box = b /\ Passed(b, r.val, r.highest) /\ Followed(b, r.val, r.highest)
      <4>1. r \in Update
        BY <1>1, <3>2, PullFields
      <4> QED BY <1>1, <3>2, <4>1 DEF UpdatesTrue, UpdatesFollowed
    <3>4. r.val \in Nat /\ r.highest \in Nat /\ pc # "select"
      BY <1>3, <3>3 DEF Update, CommitCursors, At
    <3> HIDE DEF r
    <3> SUFFICES ASSUME NEW x \in Nat, NEW y \in Nat, x = r.val, y = r.highest
                 PROVE  Followed(b, x, y)'
      BY <3>1, <3>4 DEF Followed
    <3> QED BY <3>3, <3>4, FollowedNext
  <2> QED BY <2>1, <2>2
<1> QED BY <1>2, <1>3, CursorsMove

(* What a finished scan has passed has an active location. *)
LEMMA ScanIsFollowed ==
    ASSUME SkipInv, ScanFollowed, MailboxDone
    PROVE  Followed(Head(pull.todo), pull.val, NewHighest(pull))
<1> DEFINE b == Head(pull.todo)
           h == NewHighest(pull)
<1>1. /\ PullType /\ UidsAreUsedOnce /\ ScanInRange /\ pc = "scan"
      /\ pull.uids = {} /\ pull.cand = {}
  BY DEF SkipInv, MailboxDone, At
<1>2. /\ b \in Mailboxes /\ pull.prev \in Nat /\ pull.high \in Nat /\ pull.blocked \in Nat
      /\ pull.prev <= pull.high
      /\ pull.blocked # 0 => pull.prev < pull.blocked
      /\ \A m \in mail[b] : m[1] \in Nat
  BY <1>1, ScanFields
<1>3. h = IF pull.blocked # 0 THEN pull.blocked - 1 ELSE pull.high
  BY <1>2 DEF NewHighest, Largest
<1> SUFFICES ASSUME NEW m \in mail[b], m[1] <= h, <<b, pull.val, m[1]>> \notin leftOut,
                    m[2] \in Stored
             PROVE  Seen(b, pull.val, m)
  BY DEF Followed
<1>4. Ahead(m[1]) \/ Seen(b, pull.val, m)
  BY <1>1 DEF ScanFollowed
<1>5. CASE pull.blocked # 0 /\ pull.blocked <= m[1]
  BY <1>2, <1>3, <1>5
<1>6. CASE Fresh(m[1])
  BY <1>2, <1>3, <1>6 DEF Fresh
<1> QED BY <1>1, <1>4, <1>5, <1>6 DEF Ahead

LEMMA UpdatesFollowedNext ==
    ASSUME SkipInv, FollowInv, [Next]_vars, aborts = 0, aborts' = aborts
    PROVE  UpdatesFollowed'
<1>1. /\ PullType /\ UidsAreUsedOnce /\ UpdatesTrue
      /\ UpdatesFollowed /\ ScanFollowed /\ SnapsTrue
  BY DEF SkipInv, FollowInv
<1>2. ASSUME NEW r \in Update, Passed(r.box, r.val, r.highest), Followed(r.box, r.val, r.highest),
             pc = "select" => \A k \in DOMAIN pull.snaps :
                pull.snaps[k].box = r.box => Shows(pull.snaps[k], r.val, r.highest)
      PROVE  Followed(r.box, r.val, r.highest)'
  <2>1. r.box \in Mailboxes /\ r.val \in Nat /\ r.highest \in Nat
    BY DEF Update
  <2> QED BY <1>2, <2>1, FollowedNext
<1>3. ASSUME NEW i \in DOMAIN pull.updates, NEW r, r = pull.updates[i]
      PROVE  r \in Update /\ Followed(r.box, r.val, r.highest)'
  <2>1. r \in Update
    BY <1>1, <1>3, PullFields
  <2>2. /\ Passed(r.box, r.val, r.highest) /\ Followed(r.box, r.val, r.highest)
        /\ pc = "select" => \A k \in DOMAIN pull.snaps :
              pull.snaps[k].box = r.box => Shows(pull.snaps[k], r.val, r.highest)
    BY <1>1, <1>3 DEF UpdatesTrue, UpdatesFollowed, SnapsTrue, ShowsPassed
  <2> QED BY <1>2, <2>1, <2>2
<1>4. CASE pull'.updates = pull.updates
  BY <1>3, <1>4 DEF UpdatesFollowed, Followed
<1>5. CASE pull'.updates = <<>>
  BY <1>5 DEF UpdatesFollowed
<1>6. CASE MailboxDone
  <2> DEFINE r == [box |-> Head(pull.todo), val |-> pull.val, highest |-> NewHighest(pull)]
             s == pull.updates
  <2>1. r \in Update
    <3>1. Head(pull.todo) \in Mailboxes
      BY <1>1, <1>6, PullFields DEF PullType, MailboxDone, At
    <3>2. NewHighest(pull) \in Nat
      BY <1>1, PullFields DEF NewHighest, Largest
    <3> QED BY <1>1, <3>1, <3>2, PullFields DEF Update
  <2>2. pull'.updates = Append(s, r)
    BY <1>1, <1>6, PullFields DEF MailboxDone, PullRecord
  <2>3. Passed(r.box, r.val, r.highest) /\ Followed(r.box, r.val, r.highest) /\ pc # "select"
    BY <1>1, <1>6, ScanIsPassed, ScanIsFollowed DEF MailboxDone, At
  <2>4. s \in Seq(Update)
    BY <1>1, PullFields
  <2>5. ASSUME NEW i \in DOMAIN s, NEW x, x = s[i]
        PROVE  Followed(x.box, x.val, x.highest)'
    BY <1>3, <2>5
  <2> HIDE DEF r, s
  <2>6. ASSUME NEW x \in Update, x = r PROVE Followed(x.box, x.val, x.highest)'
    BY <1>2, <2>3, <2>6
  <2>7. \A i \in DOMAIN Append(s, r) :
           Append(s, r)[i] = r \/ (i \in DOMAIN s /\ Append(s, r)[i] = s[i])
    BY <2>1, <2>4, Appended
  <2> SUFFICES ASSUME NEW i \in DOMAIN Append(s, r), NEW x, x = Append(s, r)[i]
               PROVE  Followed(x.box, x.val, x.highest)'
    BY <2>2 DEF UpdatesFollowed, Followed
  <2> QED BY <2>1, <2>5, <2>6, <2>7
<1> QED BY <1>1, <1>4, <1>5, <1>6, UpdatesMove

LEMMA ScanFollowedNext ==
    ASSUME SkipInv, FollowInv, [Next]_vars, aborts = 0, aborts' = aborts
    PROVE  ScanFollowed'
<1>1. /\ PullType /\ UidsAreUsedOnce /\ LocationsTrue /\ ScanInRange
      /\ CopiesAreOne /\ WritesAgree /\ MarkedIsGone /\ CursorsFollowed /\ ScanFollowed
  BY DEF SkipInv, FollowInv
<1> SUFFICES ASSUME pc' = "scan" PROVE ScanFollowed'
  BY DEF ScanFollowed
<1>2. WritesAgree' /\ SeenKept
  <2>1. ~Reconcile
    BY DEF Reconcile
  <2> QED BY <1>1, <2>1, EffectsNext
<1>3. CASE SelectMailbox
  <2>1. PICK b \in Mailboxes, v \in Nat :
           /\ b = Head(pull.todo) /\ v = validity[b]
           /\ pull'.todo = pull.todo /\ pull'.val = v
           /\ mail' = mail /\ leftOut \subseteq leftOut'
           /\ \A m \in mail[b] :
                 \/ Ahead(m[1])'
                 \/ /\ cursors[b] # None /\ cursors[b].val = validity[b]
                    /\ m[1] <= cursors[b].highest
    <3>1. Head(pull.todo) \in Mailboxes /\ validity[Head(pull.todo)] \in Nat
      BY <1>1, <1>3, ScanBegins DEF PullType
    <3> QED BY <1>1, <1>3, <3>1, ScanBegins, Grows DEF server
  <2> SUFFICES ASSUME NEW m \in mail[b], ~Ahead(m[1])', m[2] \in Stored'
               PROVE  Seen(b, v, m)'
    BY <2>1 DEF ScanFollowed, Seen
  <2>2. /\ cursors[b] # None /\ cursors[b].val = v /\ m[1] <= cursors[b].highest
        /\ <<b, v, m[1]>> \notin leftOut
    BY <2>1 DEF Ahead
  <2>3. m[2] \in Stored => Seen(b, v, m)
    BY <1>1, <2>1, <2>2 DEF CursorsFollowed, Followed
  <2> QED BY <1>2, <2>1, <2>3 DEF SeenKept
<1>4. CASE FetchHeader \/ FetchBody
  <2>1. PICK b \in Mailboxes, v \in Nat :
           /\ b = Head(pull.todo) /\ v = pull.val /\ v = validity[b]
           /\ pull'.todo = pull.todo /\ pull'.val = v
           /\ mail' = mail /\ pc = "scan" /\ writes = <<>>
           /\ \A x \in Nat : Ahead(x) =>
                 \/ Ahead(x)'
                 \/ x \in UidsIn(b) /\ KnownHeader(x)
                 \/ x \in UidsIn(b) /\ MergeBody(x)
                 \/ x \in UidsIn(b) /\ StoreBody(x)
    <3>1. pc = "scan"
      BY <1>4 DEF FetchHeader, FetchBody, At
    <3>2. /\ Head(pull.todo) \in Mailboxes /\ pull.val = validity[Head(pull.todo)]
          /\ pull.val \in Nat
      BY <1>1, <3>1, ScanFields
    <3>3. mail' = mail
      BY <1>4 DEF FetchHeader, FetchBody, server
    <3> QED BY <1>1, <1>4, <3>2, <3>3, ScanSteps
  <2> SUFFICES ASSUME NEW m \in mail[b], ~Ahead(m[1])', m[2] \in Stored'
               PROVE  Seen(b, v, m)'
    BY <2>1 DEF ScanFollowed, Seen
  <2>2. /\ m[1] \in Nat /\ m[2] \in Contents /\ m[1] \in UidsIn(b)
        /\ ContentAt(b, m[1]) = m[2]
    BY <1>1, TheMessageAt DEF PullType
  <2>3. CASE ~Ahead(m[1])
    <3>1. m[2] \in Stored => Seen(b, v, m)
      BY <1>1, <2>1, <2>3 DEF ScanFollowed
    <3> QED BY <1>2, <2>1, <3>1 DEF SeenKept
  <2>4. CASE KnownHeader(m[1])
    <3>1. PICK c \in eml : \E l \in Active(meta[c]) : l.box = b /\ l.val = v /\ l.uid = m[1]
      BY <2>1, <2>4 DEF KnownHeader, Known
    <3>2. PICK l \in meta[c] : l.box = b /\ l.val = v /\ l.uid = m[1] /\ ~l.missing
      BY <3>1 DEF Active
    <3>3. c \in Contents /\ Honest(c, meta[c]) /\ l \in Place
      BY <1>1, <3>2 DEF PullType, LocationsTrue
    <3>4. m[2] = c
      BY <2>1, <3>2, <3>3 DEF Honest
    <3>5. l = [box |-> b, val |-> v, uid |-> m[1], missing |-> FALSE]
      BY <3>2, <3>3 DEF Place
    <3>6. Final(c) = meta[c]
      BY <2>1, ShortLists DEF Final, Pending
    <3>7. Seen(b, v, m)
      BY <3>2, <3>4, <3>5, <3>6 DEF Seen
    <3> QED BY <1>2, <2>1, <3>7 DEF SeenKept
  <2> DEFINE here == [box |-> b, val |-> v, uid |-> m[1], missing |-> FALSE]
  <2>5. here \in Place /\ ImportAs[b] \in Dispositions /\ meta[m[2]] \in SUBSET Place
    BY <1>1, <2>2, PullAssumption DEF Place, PullType
  <2>6. CASE MergeBody(m[1])
    <3>1. PICK locs \in SUBSET Place :
             /\ here \in locs
             /\ writes' = Artifacts(m[2], locs) \o RestoreWrites(m[2], ImportAs[b], locs)
      <4> DEFINE locs == {l \in meta[m[2]] : <<l.box, l.val, l.uid>> # <<b, v, m[1]>>}
                            \cup {here}
      <4>1. writes' = Artifacts(m[2], locs) \o RestoreWrites(m[2], ImportAs[b], locs)
        BY <2>1, <2>2, <2>6 DEF MergeBody
      <4>2. locs \in SUBSET Place /\ here \in locs
        BY <2>5
      <4> HIDE DEF locs, here
      <4> QED BY <4>1, <4>2
    <3>2. Meta(m[2], locs) \in ToSet(writes')
      BY <2>2, <2>5, <3>1, MergingWrites
    <3>3. locs = Final(m[2])'
      BY <1>2, <3>2 DEF WritesAgree, Meta
    <3> QED BY <3>1, <3>3 DEF Seen
  <2>7. CASE StoreBody(m[1])
    <3>1. PICK locs \in SUBSET Place :
             /\ here \in locs
             /\ writes' = StoreWrites(m[2], ImportAs[b], locs)
      <4> DEFINE locs == {here}
      <4>1. writes' = StoreWrites(m[2], ImportAs[b], locs)
        BY <2>1, <2>2, <2>7 DEF StoreBody, StoreWrites
      <4>2. locs \in SUBSET Place /\ here \in locs
        BY <2>5
      <4> HIDE DEF locs, here
      <4> QED BY <4>1, <4>2
    <3>2. Meta(m[2], locs) \in ToSet(writes')
      BY <2>2, <2>5, <3>1, StoringWrites
    <3>3. locs = Final(m[2])'
      BY <1>2, <3>2 DEF WritesAgree, Meta
    <3> QED BY <3>1, <3>3 DEF Seen
  <2> QED BY <2>1, <2>2, <2>3, <2>4, <2>6, <2>7
<1>5. CASE /\ pc = "scan" /\ pull' = pull
           /\ validity'[Head(pull.todo)] = validity[Head(pull.todo)]
  <2>1. PICK b \in Mailboxes, v \in Nat :
           /\ b = Head(pull.todo) /\ v = pull.val /\ v = validity[b]
           /\ \A m \in mail'[b] : m \in mail[b] \/ Ahead(m[1])'
           /\ \A m \in mail[b] : Ahead(m[1]) => Ahead(m[1])'
    <3>1. /\ Head(pull.todo) \in Mailboxes /\ pull.val = validity[Head(pull.todo)]
          /\ pull.val \in Nat
      BY <1>1, <1>5, ScanFields
    <3> QED BY <1>1, <1>5, <3>1, ScanWaits
  <2> SUFFICES ASSUME NEW m \in mail[b], ~Ahead(m[1]), m[2] \in Stored'
               PROVE  Seen(b, v, m)'
    BY <1>5, <2>1 DEF ScanFollowed, Seen
  <2>2. m[2] \in Stored => Seen(b, v, m)
    BY <1>1, <1>5, <2>1 DEF ScanFollowed
  <2> QED BY <1>2, <2>1, <2>2 DEF SeenKept
<1> QED BY <1>1, <1>3, <1>4, <1>5, ScanCases
-----------------------------------------------------------------------------
(* What a snapshot shows of what a cursor passed it still shows later. *)
LEMMA ShowsLater ==
    ASSUME PullType, UidsAreUsedOnce, [Next]_vars, NEW snap \in Snapshot,
           NEW v \in Nat, NEW h \in Nat, Passed(snap.box, v, h), Shows(snap, v, h)
    PROVE  Shows(snap, v, h)'
<1> DEFINE b == snap.box
<1>1. ServerTypes /\ ServerTypes' /\ Later /\ b \in Mailboxes
  BY TypeParts, ServerMoves DEF Snapshot
<1>2. /\ validity[b] \in Nat /\ validity'[b] \in Nat /\ nextUid[b] \in Nat
      /\ \A m \in mail'[b] : m[1] \in Nat
  BY <1>1 DEF ServerTypes
<1> SUFFICES ASSUME v = validity'[b], NEW m \in mail'[b], m[1] <= h
             PROVE  m[1] \in snap.uids
  BY DEF Shows
<1>3. v = validity[b] /\ validity'[b] = validity[b]
  BY <1>1, <1>2 DEF Later, Passed
<1>4. m \in mail[b]
  <2>1. h < nextUid[b]
    BY <1>3 DEF Passed
  <2> QED BY <1>1, <1>2, <1>3, <2>1 DEF Later
<1> QED BY <1>3, <1>4 DEF Shows

LEMMA ShowsPassedLater ==
    ASSUME SkipInv, [Next]_vars, cursors' = cursors, pull'.updates = pull.updates,
           NEW snap \in Snapshot, ShowsPassed(snap)
    PROVE  ShowsPassed(snap)'
<1> DEFINE b == snap.box
<1>1. PullType /\ UidsAreUsedOnce /\ CursorsTrue /\ UpdatesTrue
  BY DEF SkipInv
<1>2. b \in Mailboxes /\ snap.val \in Nat
  BY DEF Snapshot
<1>3. ASSUME NEW v \in Nat, NEW h \in Nat, Passed(b, v, h), Shows(snap, v, h)
      PROVE  Shows(snap, v, h)'
  BY <1>1, <1>3, ShowsLater
<1>4. snap.val <= validity'[b]
  <2>1. /\ validity[b] <= validity'[b] /\ validity[b] \in Nat /\ validity'[b] \in Nat
    BY <1>1, <1>2, ServerMoves DEF Later, ServerTypes, PullType
  <2> QED BY <1>2, <2>1 DEF ShowsPassed
<1>5. ASSUME cursors[b] # None, NEW v, NEW h, v = cursors[b].val, h = cursors[b].highest
      PROVE  Shows(snap, v, h)'
  <2>1. v \in Nat /\ h \in Nat /\ Passed(b, v, h) /\ Shows(snap, v, h)
    BY <1>1, <1>2, <1>5 DEF PullType, CursorsTrue, ShowsPassed
  <2> QED BY <1>3, <2>1
<1>6. ASSUME NEW i \in DOMAIN pull.updates, NEW r, r = pull.updates[i], r.box = b
      PROVE  Shows(snap, r.val, r.highest)'
  <2>1. r \in Update
    BY <1>1, <1>6, PullFields
  <2>2. /\ r.val \in Nat /\ r.highest \in Nat /\ Passed(b, r.val, r.highest)
        /\ Shows(snap, r.val, r.highest)
    BY <1>1, <1>6, <2>1 DEF Update, UpdatesTrue, ShowsPassed
  <2> QED BY <1>3, <2>2
<1> QED BY <1>4, <1>5, <1>6 DEF ShowsPassed, Shows

LEMMA NewSnapshotShows ==
    ASSUME SkipInv, NEW b \in Mailboxes, NEW snap \in Snapshot,
           snap = [box |-> b, val |-> validity[b], uids |-> UidsIn(b)]
    PROVE  ShowsPassed(snap)
<1>1. PullType /\ CursorsTrue /\ UpdatesTrue
  BY DEF SkipInv
<1>2. snap.box = b /\ snap.val = validity[b] /\ snap.uids = UidsIn(b) /\ validity[b] \in Nat
  BY <1>1 DEF PullType
<1>3. \A m \in mail[b] : m[1] \in UidsIn(b)
  BY DEF UidsIn
<1> QED BY <1>1, <1>2, <1>3 DEF ShowsPassed, Shows, CursorsTrue, UpdatesTrue, Passed

(* How the pull comes to choose its next step. *)
LEMMA SnapCases ==
    ASSUME PullType, SnapsTrue, [Next]_vars
    PROVE  \/ pull'.snaps = <<>>
           \/ TakeSnapshot
           \/ /\ pull' = pull /\ cursors' = cursors
              /\ pc' = pc \/ (pc = "select" /\ pc' = "commit")
           \/ pull' = pull /\ pc = "commit" /\ pc' = "render"
<1>1. CASE PullStep
  <2>1. CASE SelectMailbox
    BY <2>1, PullFields DEF SelectMailbox, SnapsTrue, PullRecord
  <2>2. CASE FetchHeader
    BY <2>2, PullFields
       DEF FetchHeader, NoHeader, KnownHeader, AdmitHeader, OverBudget, PullRecord, SnapsTrue, At
  <2>3. CASE FetchBody
    BY <2>3, PullFields DEF FetchBody, NoBody, MergeBody, StoreBody, PullRecord, SnapsTrue, At
  <2>4. CASE MailboxDone
    BY <2>4, PullFields DEF MailboxDone, PullRecord, SnapsTrue, At
  <2>5. CASE MakeWrite
    BY <2>5 DEF MakeWrite
  <2>6. CASE Reconcile
    BY <2>6 DEF Reconcile, At, local
  <2>7. CASE CommitCursors
    BY <2>7 DEF CommitCursors, At
  <2>8. CASE Render
    BY <2>8 DEF Render, NoPull
  <2> QED BY <1>1, <2>1, <2>2, <2>3, <2>4, <2>5, <2>6, <2>7, <2>8 DEF PullStep
<1>2. CASE \E l \in TargetLists, h \in Histories : StartPull(l, h)
  BY <1>2 DEF StartPull, NoPull
<1>3. CASE Abort
  BY <1>3 DEF Abort, NoPull
<1>4. CASE CursorsLost
  <2>1. pull.snaps = <<>> /\ pull' = pull
    BY <1>4 DEF CursorsLost, SnapsTrue
  <2> QED BY <2>1
<1>5. CASE Environment /\ ~CursorsLost
  BY <1>5 DEF Environment, Deliver, Move, Expunge, Renumber, Age, AddToCase, Purge, local
<1>6. CASE UNCHANGED vars
  BY <1>6 DEF vars, local
<1> QED BY <1>1, <1>2, <1>3, <1>4, <1>5, <1>6 DEF Next

LEMMA SnapsNext ==
    ASSUME SkipInv, FollowInv, [Next]_vars, aborts = 0
    PROVE  SnapsTrue'
<1>1. PullType /\ SnapsTrue
  BY DEF SkipInv, FollowInv
<1>2. CASE pull'.snaps = <<>>
  BY <1>2 DEF SnapsTrue
<1>3. CASE TakeSnapshot
  <2> DEFINE b == pull.targets[Len(pull.snaps) + 1]
             new == [box |-> b, val |-> validity[b], uids |-> UidsIn(b)]
             s == pull.snaps
  <2>1. /\ pc' = pc /\ pc = "select" /\ pull.todo = <<>> /\ cursors' = cursors
        /\ pull' = [pull EXCEPT !.snaps = Append(s, new)]
    BY <1>3 DEF TakeSnapshot, At, local
  <2>2. b \in Mailboxes
    <3>1. Len(pull.snaps) < Len(pull.targets)
      BY <1>3 DEF TakeSnapshot
    <3>2. /\ Len(pull.snaps) \in Nat /\ Len(pull.targets) \in Nat
          /\ pull.targets \in Seq(Mailboxes)
      BY <1>1, PullFields
    <3> QED BY <3>1, <3>2
  <2>3. new \in Snapshot
    BY <1>1, <2>2, SetOfUids DEF Snapshot, PullType
  <2>4. ShowsPassed(new)
    <3> HIDE DEF b
    <3> SUFFICES ASSUME NEW x, x = new PROVE ShowsPassed(x)
      OBVIOUS
    <3> QED BY <2>2, <2>3, NewSnapshotShows
  <2>5. s \in Seq(Snapshot) /\ \A k \in DOMAIN s : ShowsPassed(s[k])
    BY <1>1, <2>1, PullFields DEF SnapsTrue
  <2> HIDE DEF new, s
  <2>6. pull'.snaps = Append(s, new) /\ pull'.todo = <<>> /\ pull'.updates = pull.updates
    BY <1>1, <2>1, PullFields DEF PullRecord
  <2>7. \A k \in DOMAIN Append(s, new) :
           Append(s, new)[k] = new \/ (k \in DOMAIN s /\ Append(s, new)[k] = s[k])
    BY <2>3, <2>5, Appended
  <2> SUFFICES ASSUME NEW k \in DOMAIN Append(s, new), NEW x, x = Append(s, new)[k]
               PROVE  ShowsPassed(x)'
    BY <2>1, <2>6 DEF SnapsTrue, ShowsPassed, Shows
  <2>8. x \in Snapshot /\ ShowsPassed(x)
    BY <2>3, <2>4, <2>5, <2>7
  <2> QED BY <2>1, <2>6, <2>8, ShowsPassedLater
<1>4. CASE /\ pull' = pull /\ cursors' = cursors
           /\ pc' = pc \/ (pc = "select" /\ pc' = "commit")
  <2>1. pull.snaps # <<>> => pc' \in {"select", "commit", "render"} /\ pull'.todo = <<>>
    BY <1>1, <1>4 DEF SnapsTrue
  <2>2. ASSUME pc' = "select", NEW k \in DOMAIN pull.snaps, NEW x, x = pull.snaps[k]
        PROVE  ShowsPassed(x)'
    <3>1. x \in Snapshot
      BY <1>1, <2>2, PullFields
    <3>2. ShowsPassed(x)
      BY <1>1, <1>4, <2>2 DEF SnapsTrue
    <3> QED BY <1>4, <3>1, <3>2, ShowsPassedLater
  <2> QED BY <1>4, <2>1, <2>2 DEF SnapsTrue, ShowsPassed, Shows
<1>5. CASE pull' = pull /\ pc = "commit" /\ pc' = "render"
  BY <1>1, <1>5 DEF SnapsTrue
<1> QED BY <1>1, <1>2, <1>3, <1>4, <1>5, SnapCases
-----------------------------------------------------------------------------
LEMMA FollowInit ==
    ASSUME OneCopy, Init
    PROVE  FollowInv
<1>1. CopiesAreOne
  <2>1. \A b \in Mailboxes : mail[b] = {<<i, InitialMail[b][i]>> : i \in DOMAIN InitialMail[b]}
    BY DEF Init
  <2> SUFFICES ASSUME NEW b \in Mailboxes, NEW d \in Mailboxes,
                      NEW m \in mail[b], NEW n \in mail[d], m[2] = n[2]
               PROVE  b = d /\ m = n
    BY DEF CopiesAreOne
  <2>2. PICK i \in DOMAIN InitialMail[b] : m = <<i, InitialMail[b][i]>>
    BY <2>1
  <2>3. PICK j \in DOMAIN InitialMail[d] : n = <<j, InitialMail[d][j]>>
    BY <2>1
  <2>4. b = d /\ i = j
    BY <2>2, <2>3 DEF OneCopy
  <2> QED BY <2>2, <2>3, <2>4
<1>2. /\ writes = <<>> /\ ToSet(writes) = {} /\ pc = "idle" /\ pull = NoPull /\ eml = {}
      /\ \A c \in Contents : disp[c] = "none" /\ cache[c] = None
      /\ \A b \in Mailboxes : cursors[b] = None
  BY ShortLists DEF Init
<1>3. Stored = {}
  BY <1>2 DEF Stored
<1>4. WritesAgree /\ MarkedIsGone
  BY <1>2, <1>3 DEF WritesAgree, MarkedIsGone
<1>5. CursorsFollowed /\ ScanFollowed
  BY <1>2 DEF CursorsFollowed, ScanFollowed
<1>6. UpdatesFollowed /\ SnapsTrue
  BY <1>2 DEF UpdatesFollowed, SnapsTrue, NoPull
<1> QED BY <1>1, <1>4, <1>5, <1>6 DEF FollowInv

LEMMA FollowNext ==
    ASSUME SkipInv, FollowInv, [Next]_vars
    PROVE  FollowInv'
<1>1. PullType /\ CopiesAreOne
  BY DEF SkipInv, FollowInv
<1>2. CopiesAreOne'
  BY <1>1, CopiesNext
<1>3. ASSUME aborts' = 0
      PROVE  /\ WritesAgree' /\ MarkedIsGone' /\ CursorsFollowed' /\ UpdatesFollowed'
             /\ ScanFollowed' /\ SnapsTrue'
  <2>1. aborts' = aborts \/ aborts' = aborts + 1
    <3>1. CASE PullStep
      BY <3>1 DEF PullStep, MakeWrite, SelectMailbox, FetchHeader, FetchBody, MailboxDone,
                  TakeSnapshot, Reconcile, CommitCursors, Render, bounds
    <3>2. CASE \E l \in TargetLists, h \in Histories : StartPull(l, h)
      BY <3>2 DEF StartPull, bounds
    <3>3. CASE Abort
      BY <3>3 DEF Abort
    <3>4. CASE Environment
      BY <3>4 DEF Environment, Deliver, Move, Expunge, Renumber, Age, AddToCase, Purge,
                  CursorsLost, bounds
    <3>5. CASE UNCHANGED vars
      BY <3>5 DEF vars, bounds
    <3> QED BY <3>1, <3>2, <3>3, <3>4, <3>5 DEF Next
  <2>2. aborts = 0 /\ aborts' = aborts
    BY <1>1, <1>3, <2>1 DEF PullType
  <2>3. WritesAgree /\ MarkedIsGone
    BY <2>2 DEF FollowInv
  <2>4. WritesAgree' /\ MarkedIsGone'
    BY <1>1, <2>2, <2>3, EffectsNext
  <2> QED BY <2>2, <2>4, CursorsFollowedNext, UpdatesFollowedNext, ScanFollowedNext, SnapsNext
<1> QED BY <1>2, <1>3 DEF FollowInv

(* While no pull has died, a message marked deleted_remote that is on the   *)
(* server after all is above the cursor of its mailbox, or was left out by  *)
(* a windowed scan: the next pull selects it and can restore it.  Messages  *)
(* have one copy on the server: with two, a message that was purged and is  *)
(* stored again from its second copy is marked when that copy goes, and the *)
(* cursor of the first has passed it.                                       *)
THEOREM MarkedWillBeRevisited ==
    ASSUME OneCopy
    PROVE  Spec => []DeletedIsRevisited
<1>1. Init => SkipInv /\ FollowInv
  BY SkipInit, FollowInit
<1>2. SkipInv /\ FollowInv /\ [Next]_vars => SkipInv' /\ FollowInv'
  BY SkipNext, FollowNext
<1>3. SkipInv /\ FollowInv => DeletedIsRevisited
  <2> SUFFICES ASSUME SkipInv, FollowInv, pc = "idle", aborts = 0,
                      NEW b \in Mailboxes, NEW m \in mail[b],
                      m[2] \in eml, disp[m[2]] = "deleted_remote",
                      cursors[b] # None, cursors[b].val = validity[b],
                      ~(m[1] > cursors[b].highest),
                      <<b, validity[b], m[1]>> \notin leftOut
               PROVE  FALSE
    BY DEF DeletedIsRevisited
  <2>1. PullType /\ MarkedIsGone /\ CursorsFollowed
    BY DEF SkipInv, FollowInv
  <2>2. writes = <<>> /\ m[1] \in Nat /\ cursors[b].highest \in Nat /\ m[2] \in Contents
    BY <2>1 DEF PullType
  <2>3. Stored = eml /\ Pending("disp", m[2]) = {}
    BY <2>2, ShortLists DEF Stored, Pending
  <2>4. Active(Final(m[2])) = {}
    BY <2>1, <2>2, <2>3 DEF MarkedIsGone
  <2>5. Seen(b, cursors[b].val, m)
    BY <2>1, <2>2, <2>3 DEF CursorsFollowed, Followed
  <2> QED BY <2>4, <2>5 DEF Seen, Active
<1> QED BY <1>1, <1>2, <1>3, PTL DEF Spec
=============================================================================
