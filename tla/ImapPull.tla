------------------------------ MODULE ImapPull ------------------------------
(***************************************************************************)
(* `afmail pull` from IMAP mailboxes: the UID cursors, the shared budget,  *)
(* the ingestion of message bodies, and the reconciliation that marks      *)
(* messages whose remote copies disappeared as deleted_remote.             *)
(*                                                                         *)
(* A pull is a sequence of server reads and of local file writes.  Mail    *)
(* arrives, moves and disappears on the server between any two reads; the  *)
(* pull may fail or its process die between any two writes.  The workspace *)
(* lock is held for the whole pull, so local files change only by its own  *)
(* writes, and the other commands run only while no pull does.             *)
(***************************************************************************)
EXTENDS Naturals, Sequences, FiniteSets, SequencesExt

CONSTANTS
    Mailboxes,       \* configured mailboxes
    Contents,        \* messages: a message is its raw bytes
    ImportAs,        \* mailbox -> the disposition its new messages are given
    TargetLists,     \* the mailbox lists a pull may be asked for
    Histories,       \* the --all-history choices a pull may be given
    InitialMail,     \* mailbox -> the old messages it holds at the start
    Arrivals,        \* bound: mailboxes new mail arrives in
    Aging,           \* contents that may leave the pull window later
    MaxNewMessages,  \* --max-new-messages
    FullInterval,    \* FULL_RECONCILE_INTERVAL
    MaxUid,          \* bound: UIDs assigned per mailbox
    MaxValidity,     \* bound: UIDVALIDITY values per mailbox
    MaxChanges,      \* bound: moves, expunges and renumberings on the server,
                     \*   messages that age and lost cursor files
    MaxAborts,       \* bound: pulls that fail or die
    MaxSkips,        \* bound: messages on the server that are skipped anyway:
                     \*   not answered for, too large, or over the byte budget
    MaxTroubles,     \* bound: these, failed pulls and skipped messages together
    None

(* Local dispositions: the collections spam, trash and deleted.  A message  *)
(* in none of them is in triage or in a case.                               *)
Dispositions == {"none", "spam", "trashed", "deleted_remote"}

ASSUME PullAssumption ==
    /\ ImportAs \in [Mailboxes -> Dispositions \ {"deleted_remote"}]
    /\ IsFiniteSet(Contents)
    /\ Histories \subseteq BOOLEAN
    /\ Aging \subseteq Contents /\ Arrivals \subseteq Mailboxes
    /\ InitialMail \in [Mailboxes -> Seq(Contents)]
    /\ MaxNewMessages \in Nat \ {0}
    /\ FullInterval \in Nat \ {0}
    /\ {MaxUid, MaxValidity, MaxChanges, MaxAborts, MaxSkips, MaxTroubles} \subseteq Nat
    /\ \A l \in TargetLists : l \in Seq(Mailboxes) /\ IsInjective(l)

Uids == 1..MaxUid
Validities == 1..MaxValidity

(* RemoteLocation: a place a message was seen at, and whether it has since  *)
(* gone missing (missing_rfc3339).                                          *)
Location == [box : Mailboxes, val : Validities, uid : Uids, missing : BOOLEAN]

(* PullMailboxCursor. *)
Cursor == [val : Validities, highest : 0..MaxUid, count : 0..FullInterval]

Key == Mailboxes \X Validities \X Uids

VARIABLES
    mail,       \* server: mailbox -> the <<uid, content>> pairs in it
    validity,   \* server: mailbox -> its UIDVALIDITY
    nextUid,    \* server: mailbox -> the next UID it assigns
    old,        \* contents older than the pull window
    eml,        \* .afmail/messages/<id>.eml: contents whose evidence is stored
    meta,       \* .afmail/messages/<id>.json: content -> its remote locations
    cache,      \* messages/<id>.json: content -> locations, or None
    disp,       \* the disposition collections
    refs,       \* contents a case or queue item refers to
    cursors,    \* .afmail/pull/cursors.json: mailbox -> Cursor or None
    pc, pull,   \* the running pull
    writes,     \* file writes it has decided on and not made yet
    changes, aborts, skips,    \* uses of the bounds
    leftOut,    \* history: keys a windowed scan left out for their age
    purged      \* history: contents a purge removed

server   == <<mail, validity, nextUid, old>>
local    == <<eml, meta, cache, disp, refs, cursors>>
history  == <<leftOut, purged>>
bounds   == <<changes, aborts, skips>>
vars     == <<server, local, pc, pull, writes, bounds, history>>

NoPull == [all |-> FALSE, targets |-> <<>>, todo |-> <<>>, val |-> 1, uids |-> {},
           prev |-> 0, blocked |-> 0, high |-> 0, cand |-> {}, budget |-> 0,
           incremental |-> TRUE, updates |-> <<>>, snaps |-> <<>>]

UidsIn(b) == {m[1] : m \in mail[b]}

ContentAt(b, u) == (CHOOSE m \in mail[b] : m[1] = u)[2]

OnServer(b, c) == \E m \in mail[b] : m[2] = c

LeastUid(S) == CHOOSE u \in S : \A v \in S : u <= v

Largest(a, b) == IF a >= b THEN a ELSE b

(* The blocked cursor UID after another UID is skipped; 0 is no blocked UID. *)
Blocked(p, u) == IF p.blocked = 0 \/ u < p.blocked THEN u ELSE p.blocked

Active(locs) == {l \in locs : ~l.missing}

Known_Bug(b, v, u) ==
    {c \in Contents : \E l \in Active(meta[c]) : l.box = b /\ l.val = v /\ l.uid = u}

(* load_existing_remote_index: the messages with stored evidence, by the    *)
(* active remote locations of their canonical metadata.                     *)
Known(b, v, u) ==
    {c \in eml : \E l \in Active(meta[c]) : l.box = b /\ l.val = v /\ l.uid = u}

(* One file write.  persist_message_metadata and the materialized cache are *)
(* written from the same message.                                           *)
Meta(c, locs)  == [file |-> "meta", c |-> c, locs |-> locs]
Cache(c, locs) == [file |-> "cache", c |-> c, locs |-> locs]
Eml(c)         == [file |-> "eml", c |-> c]
Disp(c, d)     == [file |-> "disp", c |-> c, disp |-> d]
Artifacts(c, locs) == <<Meta(c, locs), Cache(c, locs)>>

(* set_message_disposition clears the other collections and then enters the *)
(* message into its own; clear_message_disposition only removes it.         *)
EnterDisposition(c, d) ==
    (IF disp[c] \notin {"none", d} THEN <<Disp(c, "none")>> ELSE <<>>) \o <<Disp(c, d)>>

Init ==
    /\ mail = [b \in Mailboxes |->
                 {<<i, InitialMail[b][i]>> : i \in DOMAIN InitialMail[b]}]
    /\ validity = [b \in Mailboxes |-> 1]
    /\ nextUid = [b \in Mailboxes |-> Len(InitialMail[b]) + 1]
    /\ old = UNION {ToSet(InitialMail[b]) : b \in Mailboxes}
    /\ eml = {}
    /\ meta = [c \in Contents |-> {}]
    /\ cache = [c \in Contents |-> None]
    /\ disp = [c \in Contents |-> "none"]
    /\ refs = {}
    /\ cursors = [b \in Mailboxes |-> None]
    /\ pc = "idle" /\ pull = NoPull /\ writes = <<>>
    /\ changes = 0 /\ aborts = 0 /\ skips = 0
    /\ leftOut = {} /\ purged = {}
-----------------------------------------------------------------------------
MayGoWrong == changes + aborts + skips < MaxTroubles
Change == changes < MaxChanges /\ MayGoWrong /\ changes' = changes + 1

(* The server and the people who use it.  The pull's own file writes read    *)
(* nothing of the server, so nothing is lost by letting the server change    *)
(* only between them and the next read.                                      *)

(* New mail arrives. *)
Deliver(b, c) ==
    /\ writes = <<>>
    /\ nextUid[b] <= MaxUid
    /\ c \notin eml \cup purged
    /\ \A d \in Mailboxes : ~OnServer(d, c)
    /\ c \notin old
    /\ mail' = [mail EXCEPT ![b] = @ \cup {<<nextUid[b], c>>}]
    /\ nextUid' = [nextUid EXCEPT ![b] = @ + 1]
    /\ UNCHANGED <<validity, old, local, pc, pull, writes, bounds, history>>

(* Another client moves a message to another mailbox. *)
Move(b, u, d) ==
    /\ writes = <<>>
    /\ Change
    /\ b # d /\ u \in UidsIn(b) /\ nextUid[d] <= MaxUid
    /\ mail' = [mail EXCEPT ![b] = {m \in @ : m[1] # u},
                            ![d] = @ \cup {<<nextUid[d], ContentAt(b, u)>>}]
    /\ nextUid' = [nextUid EXCEPT ![d] = @ + 1]
    /\ UNCHANGED <<validity, old, local, pc, pull, writes, aborts, skips, history>>

Expunge(b, u) ==
    /\ writes = <<>>
    /\ Change
    /\ u \in UidsIn(b)
    /\ mail' = [mail EXCEPT ![b] = {m \in @ : m[1] # u}]
    /\ UNCHANGED <<validity, nextUid, old, local, pc, pull, writes, aborts, skips, history>>

(* Time passes: a message leaves the pull window. *)
Age(c) ==
    /\ writes = <<>>
    /\ Change /\ c \in Aging \ old
    /\ \E b \in Mailboxes : OnServer(b, c)
    /\ old' = old \cup {c}
    /\ UNCHANGED <<mail, validity, nextUid, local, pc, pull, writes, aborts, skips, history>>

(* The server renumbers a mailbox, which it cannot do while the mailbox is  *)
(* open in the session of the pull.                                         *)
Renumber(b) ==
    /\ writes = <<>>
    /\ Change
    /\ validity[b] < MaxValidity
    /\ ~(pc = "scan" /\ b = Head(pull.todo))
    /\ validity' = [validity EXCEPT ![b] = @ + 1]
    /\ LET rank(u) == Cardinality({v \in UidsIn(b) : v <= u})
       IN  mail' = [mail EXCEPT ![b] = {<<rank(m[1]), m[2]>> : m \in @}]
    /\ nextUid' = [nextUid EXCEPT ![b] = Cardinality(UidsIn(b)) + 1]
    /\ UNCHANGED <<old, local, pc, pull, writes, aborts, skips, history>>
-----------------------------------------------------------------------------
(* The other commands of afmail that matter here; each holds the lock.      *)

(* case add: the message is referred to and leaves every disposition. *)
AddToCase(c) ==
    /\ pc = "idle" /\ c \in eml \ refs
    /\ refs' = refs \cup {c}
    /\ disp' = [disp EXCEPT ![c] = "none"]
    /\ cache' = [cache EXCEPT ![c] = meta[c]]
    /\ UNCHANGED <<server, eml, meta, cursors, pc, pull, writes, bounds, history>>

(* purge --confirm, of a message whose disposition is old enough. *)
Purge(c) ==
    /\ pc = "idle" /\ c \in eml \ refs /\ disp[c] # "none"
    /\ eml' = eml \ {c}
    /\ meta' = [meta EXCEPT ![c] = {}]
    /\ cache' = [cache EXCEPT ![c] = None]
    /\ disp' = [disp EXCEPT ![c] = "none"]
    /\ purged' = purged \cup {c}
    /\ UNCHANGED <<server, refs, cursors, pc, pull, writes, bounds, leftOut>>

(* load_pull_cursors: an unreadable cursor file is set aside. *)
CursorsLost ==
    /\ pc = "idle" /\ Change
    /\ cursors' = [b \in Mailboxes |-> None]
    /\ UNCHANGED <<server, eml, meta, cache, disp, refs, pc, pull, writes, aborts, skips, history>>
-----------------------------------------------------------------------------
(* The pull.                                                                *)

(* Every step of the pull first makes the writes the step before decided on. *)
MakeWrite ==
    /\ writes # <<>>
    /\ LET w == Head(writes)
       IN  /\ meta' = IF w.file = "meta" THEN [meta EXCEPT ![w.c] = w.locs] ELSE meta
           /\ cache' = IF w.file = "cache" THEN [cache EXCEPT ![w.c] = w.locs] ELSE cache
           /\ eml' = IF w.file = "eml" THEN eml \cup {w.c} ELSE eml
           /\ disp' = IF w.file = "disp" THEN [disp EXCEPT ![w.c] = w.disp] ELSE disp
    /\ writes' = Tail(writes)
    /\ UNCHANGED <<server, refs, cursors, pc, pull, bounds, history>>

At(label) == pc = label /\ writes = <<>>

(* The last place of the budget is never given away. *)
StartPull_Bug(targets, all) ==
    /\ pc = "idle"
    /\ pc' = "select"
    /\ pull' = [NoPull EXCEPT !.all = all, !.targets = targets, !.todo = targets,
                              !.budget = MaxNewMessages - 1]
    /\ UNCHANGED <<server, local, writes, bounds, history>>

StartPull(targets, all) ==
    /\ pc = "idle"
    /\ pc' = "select"
    /\ pull' = [NoPull EXCEPT !.all = all, !.targets = targets, !.todo = targets,
                              !.budget = MaxNewMessages]
    /\ UNCHANGED <<server, local, writes, bounds, history>>

(* The pull fails or its process dies; decided writes are not made. *)
Abort ==
    /\ pc # "idle" /\ aborts < MaxAborts /\ MayGoWrong
    /\ pc' = "idle" /\ pull' = NoPull /\ writes' = <<>>
    /\ aborts' = aborts + 1
    /\ UNCHANGED <<server, local, changes, skips, history>>

(* pull_cursor_for_target: a cursor is not used once FullInterval pulls     *)
(* were made with it.                                                       *)
CursorFor(b) ==
    IF cursors[b] # None /\ cursors[b].count < FullInterval THEN cursors[b] ELSE None

(* select_mailbox_header_uids. *)
SelectUids(b, cur, all) ==
    LET valid == cur # None /\ cur.val = validity[b]
        reset == cur # None /\ cur.val # validity[b]
    IN  {u \in UidsIn(b) :
            IF valid THEN u > cur.highest
            ELSE all \/ reset \/ ContentAt(b, u) \notin old}

SelectMailbox ==
    /\ At("select") /\ pull.todo # <<>>
    /\ LET b     == Head(pull.todo)
           cur   == CursorFor(b)
           valid == cur # None /\ cur.val = validity[b]
           sel   == SelectUids(b, cur, pull.all)
           prev  == IF valid THEN cur.highest ELSE 0
       IN  /\ pull' = [pull EXCEPT !.val = validity[b], !.uids = sel, !.prev = prev,
                                   !.blocked = 0, !.high = prev, !.cand = {},
                                   !.incremental = @ /\ valid]
           /\ leftOut' = IF valid THEN leftOut
                         ELSE leftOut \cup {<<b, validity[b], u>> : u \in UidsIn(b) \ sel}
    /\ pc' = "scan"
    /\ UNCHANGED <<server, local, writes, bounds, purged>>

(* The envelope of one selected UID, in ascending order.  The server may    *)
(* leave the UID out of its answer: it was expunged, or it omits it.        *)
NoHeader(u) ==
    /\ u \in UidsIn(Head(pull.todo)) => skips < MaxSkips /\ MayGoWrong
    /\ skips' = IF u \in UidsIn(Head(pull.todo)) THEN skips + 1 ELSE skips
    /\ pull' = [pull EXCEPT !.uids = @ \ {u}, !.blocked = Blocked(pull, u)]
    /\ writes' = <<>>

(* A known location: update_remote_location_flags_from_envelope writes the  *)
(* message again if its flags changed.                                      *)
KnownHeader(u) ==
    LET known == Known(Head(pull.todo), pull.val, u)
    IN  /\ u \in UidsIn(Head(pull.todo)) /\ known # {}
        /\ pull' = [pull EXCEPT !.uids = @ \ {u}, !.high = Largest(@, u)]
        /\ LET c == CHOOSE x \in known : TRUE
           IN  writes' \in {<<>>, Artifacts(c, meta[c])}
        /\ UNCHANGED skips

(* A new message takes a place in the budget all mailboxes share. *)
AdmitHeader(u) ==
    /\ u \in UidsIn(Head(pull.todo)) /\ Known(Head(pull.todo), pull.val, u) = {}
    /\ pull.budget > 0
    /\ pull' = [pull EXCEPT !.uids = @ \ {u}, !.high = Largest(@, u),
                            !.cand = @ \cup {u}, !.budget = @ - 1]
    /\ writes' = <<>>
    /\ UNCHANGED skips

(* A new message the count or the byte budget has no place for. *)
OverBudget(u) ==
    /\ u \in UidsIn(Head(pull.todo)) /\ Known(Head(pull.todo), pull.val, u) = {}
    /\ pull.budget > 0 => skips < MaxSkips /\ MayGoWrong
    /\ skips' = IF pull.budget > 0 THEN skips + 1 ELSE skips
    /\ pull' = [pull EXCEPT !.uids = @ \ {u}, !.high = Largest(@, u),
                            !.blocked = Blocked(pull, u)]
    /\ writes' = <<>>

FetchHeader ==
    /\ At("scan") /\ pull.uids # {}
    /\ LET u == LeastUid(pull.uids)
       IN  NoHeader(u) \/ KnownHeader(u) \/ AdmitHeader(u) \/ OverBudget(u)
    /\ UNCHANGED <<server, local, pc, changes, aborts, history>>

(* A body that is missing, larger than the limit, or larger than announced  *)
(* and over the byte budget, is skipped; its place in the count budget is   *)
(* not given back.                                                          *)
NoBody(u) ==
    /\ u \in UidsIn(Head(pull.todo)) => skips < MaxSkips /\ MayGoWrong
    /\ skips' = IF u \in UidsIn(Head(pull.todo)) THEN skips + 1 ELSE skips
    /\ pull' = [pull EXCEPT !.cand = @ \ {u}, !.blocked = Blocked(pull, u)]
    /\ writes' = <<>>

Here(u) == [box |-> Head(pull.todo), val |-> pull.val, uid |-> u, missing |-> FALSE]

RestoreWrites_Bug(c, d, locs) ==
    IF disp[c] # "deleted_remote" \/ d = "none" THEN <<>>
    ELSE <<Disp(c, "none"), Disp(c, d)>> \o Artifacts(c, locs)

(* restore_remote_deleted_message: what a pull that meets a message marked  *)
(* deleted_remote again writes for it.                                      *)
RestoreWrites(c, d, locs) ==
    IF disp[c] # "deleted_remote" THEN <<>>
    ELSE <<Disp(c, "none")>> \o (IF d # "none" THEN <<Disp(c, d)>> ELSE <<>>)
         \o Artifacts(c, locs)

(* ingest_message of bytes that are stored already: the location is added,  *)
(* or becomes active again, the budget is given back, and the message is    *)
(* restored.                                                                *)
MergeBody(u) ==
    LET b    == Head(pull.todo)
        c    == ContentAt(b, u)
        here == [box |-> b, val |-> pull.val, uid |-> u, missing |-> FALSE]
        locs == {l \in meta[c] : <<l.box, l.val, l.uid>> # <<b, pull.val, u>>} \cup {here}
    IN  /\ u \in UidsIn(b) /\ c \in eml
        /\ pull' = [pull EXCEPT !.cand = @ \ {u}, !.budget = @ + 1]
        /\ writes' = Artifacts(c, locs) \o RestoreWrites(c, ImportAs[b], locs)
        /\ UNCHANGED skips

(* ingest_message of new bytes: metadata, disposition, evidence, cache. *)
StoreBody(u) ==
    LET b    == Head(pull.todo)
        c    == ContentAt(b, u)
        locs == {[box |-> b, val |-> pull.val, uid |-> u, missing |-> FALSE]}
    IN  /\ u \in UidsIn(b) /\ c \notin eml
        /\ pull' = [pull EXCEPT !.cand = @ \ {u}]
        /\ writes' = <<Meta(c, locs)>>
                     \o (IF ImportAs[b] # "none" THEN EnterDisposition(c, ImportAs[b]) ELSE <<>>)
                     \o <<Eml(c), Cache(c, locs)>>
        /\ UNCHANGED skips

FetchBody ==
    /\ At("scan") /\ pull.uids = {} /\ pull.cand # {}
    /\ LET u == LeastUid(pull.cand)
       IN  NoBody(u) \/ MergeBody(u) \/ StoreBody(u)
    /\ UNCHANGED <<server, local, pc, changes, aborts, history>>

(* The cursor this mailbox will be given: below the least skipped UID. *)
NewHighest(p) == Largest(IF p.blocked # 0 THEN p.blocked - 1 ELSE p.high, p.prev)

MailboxDone ==
    /\ At("scan") /\ pull.uids = {} /\ pull.cand = {}
    /\ pull' = [pull EXCEPT
                  !.todo = Tail(@), !.val = 1, !.prev = 0, !.blocked = 0, !.high = 0,
                  !.updates = Append(@, [box |-> Head(pull.todo), val |-> pull.val,
                                         highest |-> NewHighest(pull)])]
    /\ pc' = "select"
    /\ UNCHANGED <<server, local, writes, bounds, history>>

(* reconcile_remote_missing: the UIDs of each selected mailbox, one after   *)
(* another, in a session of its own.                                        *)
TakeSnapshot ==
    /\ At("select") /\ pull.todo = <<>> /\ Len(pull.snaps) < Len(pull.targets)
    /\ LET b == pull.targets[Len(pull.snaps) + 1]
       IN  pull' = [pull EXCEPT !.snaps = Append(@, [box |-> b, val |-> validity[b],
                                                     uids |-> UidsIn(b)])]
    /\ UNCHANGED <<server, local, pc, writes, bounds, history>>

(* remote_location_missing. *)
GoneFrom(l, snap) == l.box = snap.box /\ (l.val # snap.val \/ l.uid \notin snap.uids)

MarkMissing(locs, snaps) ==
    {[l EXCEPT !.missing = @ \/ \E i \in DOMAIN snaps : GoneFrom(l, snaps[i])] : l \in locs}

ReconcileWrites_Bug(c, locs) ==
    (IF Active(locs) = {} THEN EnterDisposition(c, "deleted_remote") ELSE <<>>)
    \o Artifacts(c, locs)

(* What reconciliation writes for a message whose cached locations are not  *)
(* all on the server any more.                                              *)
ReconcileWrites(c, locs) ==
    (IF Active(locs) = {} /\ c \notin refs
     THEN EnterDisposition(c, "deleted_remote") ELSE <<>>) \o Artifacts(c, locs)

Reconcile ==
    /\ At("select") /\ pull.todo = <<>> /\ Len(pull.snaps) = Len(pull.targets)
    /\ LET now(c)  == MarkMissing(cache[c], pull.snaps)
           changed == {c \in Contents : cache[c] # None /\ now(c) # cache[c]}
           kept    == {c \in changed : Active(now(c)) # {}}
           order   == SetToSeq(kept) \o SetToSeq(changed \ kept)
       IN  writes' = FlattenSeq([i \in DOMAIN order |->
                                    ReconcileWrites(order[i], now(order[i]))])
    /\ pc' = "commit"
    /\ UNCHANGED <<server, local, pull, bounds, history>>

(* commit_pull_cursor_updates. *)
CommitCursors ==
    /\ At("commit")
    /\ LET upd(b) == {i \in DOMAIN pull.updates : pull.updates[i].box = b}
           count(b) == IF pull.incremental THEN cursors[b].count + 1 ELSE 0
       IN  cursors' = [b \in Mailboxes |->
                         IF upd(b) = {} THEN cursors[b]
                         ELSE LET r == pull.updates[CHOOSE i \in upd(b) : TRUE]
                              IN  [val |-> r.val, highest |-> r.highest, count |-> count(b)]]
    /\ pc' = "render"
    /\ UNCHANGED <<server, eml, meta, cache, disp, refs, pull, writes, bounds, history>>

(* prepare_render_context rebuilds the cache of every stored message. *)
Render ==
    /\ At("render")
    /\ cache' = [c \in Contents |-> IF c \in eml THEN meta[c] ELSE cache[c]]
    /\ pc' = "idle" /\ pull' = NoPull
    /\ UNCHANGED <<server, eml, meta, disp, refs, cursors, writes, bounds, history>>

PullStep ==
    \/ MakeWrite \/ SelectMailbox \/ FetchHeader \/ FetchBody
    \/ MailboxDone \/ TakeSnapshot \/ Reconcile
    \/ CommitCursors \/ Render

Environment ==
    \/ \E b \in Arrivals, c \in Contents : Deliver(b, c)
    \/ \E b, d \in Mailboxes, u \in Uids : Move(b, u, d)
    \/ \E b \in Mailboxes, u \in Uids : Expunge(b, u)
    \/ \E b \in Mailboxes : Renumber(b)
    \/ \E c \in Contents : Age(c) \/ AddToCase(c) \/ Purge(c)
    \/ CursorsLost

Next ==
    \/ PullStep
    \/ \E l \in TargetLists, h \in Histories : StartPull(l, h)
    \/ Abort
    \/ Environment

Spec == Init /\ [][Next]_vars

(* Someone keeps pulling each list of mailboxes, and a pull that runs makes  *)
(* progress: it is one sequential process.                                   *)
FairSpec ==
    /\ Spec
    /\ WF_vars(PullStep)
    /\ \A l \in TargetLists : SF_vars(\E h \in Histories : StartPull(l, h))
-----------------------------------------------------------------------------
(* Every variable keeps the shape the code gives its file, field or server. *)
TypeOK ==
    /\ mail \in [Mailboxes -> SUBSET (Uids \X Contents)]
    /\ validity \in [Mailboxes -> Validities]
    /\ nextUid \in [Mailboxes -> 1..(MaxUid + 1)]
    /\ old \subseteq Contents
    /\ eml \subseteq Contents
    /\ meta \in [Contents -> SUBSET Location]
    /\ cache \in [Contents -> SUBSET Location \cup {None}]
    /\ disp \in [Contents -> Dispositions]
    /\ refs \subseteq Contents
    /\ cursors \in [Mailboxes -> Cursor \cup {None}]

(* The cursor of a mailbox never passes a message that is on the server and *)
(* was not stored, except one a windowed scan left out for its age.  Held   *)
(* by the blocked-UID rule of pull_workspace_session under every mixture of *)
(* skipped headers and bodies, budgets, expunges, renumbering and crashes.  *)
NothingSkipped ==
    \A b \in Mailboxes :
        cursors[b] # None /\ cursors[b].val = validity[b] =>
            \A m \in mail[b] :
                \/ m[1] > cursors[b].highest
                \/ m[2] \in eml \cup purged
                \/ <<b, validity[b], m[1]>> \in leftOut

(* A message a case or queue item refers to is never marked deleted_remote: *)
(* reconcile_remote_missing keeps it, and case add clears the mark.         *)
ReferencedIsKept ==
    \A c \in refs : c \in eml /\ disp[c] # "deleted_remote"

(* While no pull has died, a message marked deleted_remote that is on the   *)
(* server after all is one that the next pull of its mailbox will select:   *)
(* the cursor has not passed it, unless a windowed scan left it out.        *)
(* Otherwise the mark is permanent and the message is open to purge.  It    *)
(* speaks of messages with one copy on the server, as those of MCImapPull.  *)
DeletedIsRevisited ==
    pc = "idle" /\ aborts = 0 =>
        \A b \in Mailboxes : \A m \in mail[b] :
            m[2] \in eml /\ disp[m[2]] = "deleted_remote" =>
                \/ cursors[b] = None
                \/ cursors[b].val # validity[b]
                \/ m[1] > cursors[b].highest
                \/ <<b, validity[b], m[1]>> \in leftOut

(* A message that stays on the server is stored in the end, however often   *)
(* headers, bodies or budgets made a pull skip it: the blocked UID keeps    *)
(* the cursor below it.  A message a windowed scan left out is not promised.*)
EventuallyStored ==
    \A c \in Contents :
        (\E b \in Mailboxes : OnServer(b, c))
            ~> \/ c \in eml \cup purged
               \/ \A b \in Mailboxes : ~OnServer(b, c)
               \/ \E b \in Mailboxes : \E m \in mail[b] :
                     m[2] = c /\ <<b, validity[b], m[1]>> \in leftOut
=============================================================================
