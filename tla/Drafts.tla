------------------------------- MODULE Drafts -------------------------------
(***************************************************************************)
(* The draft files of one case: `case draft new/reply/change/attach/remove *)
(* /send/upload`, the marker schema of a draft, the identity footers, the  *)
(* attachments under files/, and the message a push builds from them.      *)
(*                                                                         *)
(* A draft is Markdown that a person or an agent also edits with an        *)
(* editor, without the workspace lock, before and after it was queued.     *)
(* The push itself is one step here; what may go wrong inside it is the    *)
(* subject of OutboundPush.                                                *)
(***************************************************************************)
EXTENDS Naturals, Sequences, FiniteSets, SequencesExt

CONSTANTS
    Identities,   \* the send personas of the configuration
    Default,      \* the default identity, that of a draft created without one
    Footers,      \* footers an identity file may hold
    IdentityFile, \* identity -> the footer its file holds at first, or None
    None,         \* no draft, no footer, no file
    MaxCreated,   \* bound: drafts created
    MaxChanges,   \* bound: draft change and attach commands
    MaxEdits,     \* bound: changes made by hand
    MaxFaults     \* bound: crashes

ASSUME DraftsAssumption ==
    /\ Default \in Identities /\ None \notin Footers
    /\ IdentityFile \in [Identities -> Footers \cup {None}]
    /\ \A b \in {MaxCreated, MaxChanges, MaxEdits, MaxFaults} : b \in Nat

\* Two names for `draft new` with one subject, one for the reply.
NewNames == <<"new", "new-2">>
ReplyName == "reply"
Names == Range(NewNames) \cup {ReplyName}

\* files/report, files/1-report, and a file of the case outside files/.
Managed == <<"report", "1-report">>
InCase == "notes"
Paths == Range(Managed) \cup {InCase}
Link == "link"

(* Lines of a body.  Text is what a reader sees, Comment an HTML comment,   *)
(* Quoted the history of a reply; a footer is one block at the end.         *)
ComposeStart == "compose:start"
ComposeEnd   == "compose:end"
QuoteStart   == "quote:start"
QuoteEnd     == "quote:end"
Markers == {ComposeStart, ComposeEnd, QuoteStart, QuoteEnd}
Text == "text"
Comment == "comment"
Quoted == "quoted"
Heading == "heading"
Lines == Markers \cup {Text, Comment, Quoted, Heading} \cup Footers

\* What --body or --body-file may hold; the last one has a marker pasted in.
\* A command without --body or without --identity has None there.
Bodies == {<<Text>>, <<Text, ComposeEnd>>}

VARIABLES
    draft,      \* name -> the draft file, or None
    item,       \* names with a queue item
    footer,     \* identity -> the footer of its identity file, or None
    file,       \* path -> content of a file of the case, Link, or None
    source,     \* content of the file outside the case that is attached
    tx,         \* a draft_queue transaction was left behind
    created, changes, edits, faults,  \* counters of the bounds
    asked,      \* drafts for which send is the last queue command
    sent        \* the message last handed to the sender, if any

vars == <<draft, item, footer, file, source, tx, created, changes, edits,
          faults, asked, sent>>

-----------------------------------------------------------------------------
(* The marker schema. *)

At(lines, marker) == {i \in DOMAIN lines : lines[i] = marker}
The(lines, marker) == CHOOSE i \in DOMAIN lines : lines[i] = marker
Unique(lines, marker) == Cardinality(At(lines, marker)) = 1
Ordered(lines, start, end) == The(lines, start) < The(lines, end)

\* One compose pair, and no quote pair or one after the compose section.
Parses(lines) ==
    /\ Unique(lines, ComposeStart) /\ Unique(lines, ComposeEnd)
    /\ Ordered(lines, ComposeStart, ComposeEnd)
    /\ \/ At(lines, QuoteStart) = {} /\ At(lines, QuoteEnd) = {}
       \/ /\ Unique(lines, QuoteStart) /\ Unique(lines, QuoteEnd)
          /\ Ordered(lines, QuoteStart, QuoteEnd)
          /\ Ordered(lines, ComposeEnd, QuoteStart)

Compose(lines) ==
    SubSeq(lines, The(lines, ComposeStart) + 1, The(lines, ComposeEnd) - 1)

\* Some line of the compose section is more than a comment.
Complete(lines) == \E i \in DOMAIN Compose(lines) : Compose(lines)[i] # Comment

ReplaceAuthoredText(lines, text) ==
    SubSeq(lines, 1, The(lines, ComposeStart)) \o text
        \o SubSeq(lines, The(lines, ComposeEnd), Len(lines))

\* The heading and the marker lines stay behind.
OutboundBody(lines) ==
    SelectSeq(SubSeq(lines, The(lines, ComposeStart) + 1, Len(lines)),
              LAMBDA line : line \notin Markers \ {ComposeStart})

-----------------------------------------------------------------------------
(* Identity footers. *)

HasFooter(lines, f) == lines # <<>> /\ Last(lines) = f

EnsureFooter(lines, f) ==
    IF f = None \/ HasFooter(lines, f) THEN lines ELSE Append(lines, f)

RemoveFooter(lines, f) ==
    IF f # None /\ HasFooter(lines, f) THEN Front(lines) ELSE lines

ReplaceFooter(lines, old, new) == EnsureFooter(RemoveFooter(lines, old), new)

-----------------------------------------------------------------------------
(* Validation *)

\* Only a regular file directly under files/ is opened.
OpenDraftAttachment(p) ==
    p \in Range(Managed) /\ file[p] \notin {None, Link}

Valid(d) ==
    /\ Parses(d.lines)
    /\ \A a \in d.attachments : OpenDraftAttachment(a.path)

ValidForPush(d) == Valid(d) /\ (d.intent = "send" => Complete(d.lines))

-----------------------------------------------------------------------------
NewScaffold == <<Heading, ComposeStart, ComposeEnd>>
ReplyScaffold ==
    <<Heading, ComposeStart, ComposeEnd, QuoteStart, Quoted, QuoteEnd>>

Init ==
    /\ draft = [n \in Names |-> None]
    /\ item = {}
    /\ footer = IdentityFile
    /\ file = [p \in Paths |-> IF p = InCase THEN "v1" ELSE None]
    /\ source = "v1"
    /\ tx = FALSE
    /\ created = 0 /\ changes = 0 /\ edits = 0 /\ faults = 0
    /\ asked = {} /\ sent = {}

\* Commands hold the exclusive lock and stop at an incomplete transaction.
Runs == ~tx
Put(n, d) == draft' = [draft EXCEPT ![n] = d]
Fault == faults < MaxFaults /\ faults' = faults + 1

Scaffold(lines, body) == IF body = None THEN lines ELSE ReplaceAuthoredText(lines, body)

\* `by` is "hand" once an editor changed the file, `uid` tells two drafts with
\* the same name apart, `shown` is the footer the last command put there.
NewDraft(scaffold, body) ==
    [uid |-> created + 1,
     lines |-> EnsureFooter(Scaffold(scaffold, body), footer[Default]),
     identity |-> Default, attachments |-> {}, intent |-> "none",
     by |-> "afmail", shown |-> footer[Default],
     reply |-> scaffold = ReplyScaffold]

Create(n, scaffold, body) ==
    /\ Runs /\ created < MaxCreated
    /\ draft[n] = None
    /\ Parses(Scaffold(scaffold, body))
    /\ Put(n, NewDraft(scaffold, body))
    /\ created' = created + 1
    /\ UNCHANGED <<item, footer, file, source, tx, changes, edits, faults, asked,
                   sent>>

\* The first name no file has; the queue is not asked.
CreateDraft(body) ==
    \E i \in DOMAIN NewNames :
        /\ \A j \in 1..(i - 1) : draft[NewNames[j]] # None
        /\ Create(NewNames[i], NewScaffold, body)

ReplyToMessage(body) == Create(ReplyName, ReplyScaffold, body)

\* --body replaces the compose section and ensures the footer of the identity
\* the draft will have; --identity then exchanges the footers.  The whole draft
\* is validated before it is written.
ChangeDraft(n, body, identity) ==
    /\ Runs /\ changes < MaxChanges /\ draft[n] # None
    /\ body # None \/ identity # None
    /\ LET d == draft[n]
           new == IF identity = None THEN d.identity ELSE identity
           text == IF body = None THEN d.lines
                   ELSE EnsureFooter(ReplaceAuthoredText(d.lines, body), footer[new])
           lines == IF identity = None THEN text
                    ELSE ReplaceFooter(text, footer[d.identity], footer[new])
           shown == IF body = None /\ identity = None THEN d.shown ELSE footer[new]
       IN  /\ body # None => Parses(d.lines)
           /\ Valid([d EXCEPT !.lines = lines])
           /\ Put(n, [d EXCEPT !.lines = lines, !.identity = new, !.shown = shown])
    /\ changes' = changes + 1
    /\ UNCHANGED <<item, footer, file, source, tx, created, edits, faults, asked,
                   sent>>

-----------------------------------------------------------------------------
(* Attachments *)

\* The copy goes to the name of the source, whatever is there.
UniqueDestPath_Bug == Managed[1]

\* A copy never lands on a file that is there.
UniqueDestPath ==
    Managed[CHOOSE i \in DOMAIN Managed :
              /\ file[Managed[i]] = None
              /\ \A j \in 1..(i - 1) : file[Managed[j]] # None]

\* `content` is what the file held when the command recorded it.
Attached(n, p, content) ==
    IF \E a \in draft[n].attachments : a.path = p
      THEN UNCHANGED draft
      ELSE Put(n, [draft[n] EXCEPT !.attachments =
                     @ \cup {[path |-> p, content |-> content]}])

\* A file from outside is copied, unless the draft already names the copy.
AttachOutside(n) ==
    /\ Runs /\ changes < MaxChanges /\ changes' = changes + 1
    /\ draft[n] # None
    /\ LET p == Managed[1]
       IN  \/ /\ \E a \in draft[n].attachments : a.path = p
              /\ file[p] # None
              /\ UNCHANGED <<draft, file>>
           \/ /\ ~(file[p] # None /\ \E a \in draft[n].attachments : a.path = p)
              /\ \E q \in Range(Managed) : file[q] = None
              /\ file' = [file EXCEPT ![UniqueDestPath] = source]
              /\ Attached(n, UniqueDestPath, source)
    /\ UNCHANGED <<item, footer, source, tx, created, edits, faults,
                   asked, sent>>

\* A file of the case is named where it is.
AttachInside(n, p) ==
    /\ Runs /\ changes < MaxChanges /\ changes' = changes + 1
    /\ draft[n] # None /\ file[p] \notin {None, Link}
    /\ Attached(n, p, file[p])
    /\ UNCHANGED <<item, footer, file, source, tx, created, edits, faults,
                   asked, sent>>

-----------------------------------------------------------------------------
(* The queue and the push *)

Queued(n, action) == [draft[n] EXCEPT !.intent = action]

\* draft send and draft upload; the draft is written first, the item last.
QueueDraft(n, action) ==
    /\ Runs /\ draft[n] # None
    /\ ValidForPush(Queued(n, action))
    /\ Put(n, Queued(n, action))
    /\ asked' = IF action = "send" THEN asked \cup {draft[n].uid}
                ELSE asked \ {draft[n].uid}
    /\ \/ /\ item' = item \cup {n}
          /\ UNCHANGED <<tx, faults>>
       \/ /\ Fault
          /\ tx' = TRUE
          /\ UNCHANGED item
    /\ UNCHANGED <<footer, file, source, created, changes, edits, sent>>

\* The file goes, the item stays in the queue.
RemoveDraft_Bug(n) ==
    /\ Runs /\ draft[n] # None /\ Put(n, None)
    /\ asked' = asked \ {draft[n].uid}
    /\ UNCHANGED <<item, footer, file, source, tx, created, changes, edits, faults, sent>>

\* The item goes first: a crash leaves a draft that says it is queued.
RemoveDraft(n) ==
    /\ Runs
    /\ draft[n] # None \/ n \in item
    /\ item' = item \ {n}
    /\ \/ /\ Put(n, None)
          /\ asked' = IF draft[n] = None THEN asked ELSE asked \ {draft[n].uid}
          /\ UNCHANGED faults
       \/ /\ Fault
          /\ UNCHANGED <<draft, asked>>
    /\ UNCHANGED <<footer, file, source, tx, created, changes, edits, sent>>

\* The queue item alone decides.
Planned_Bug(n) == n \in item /\ draft[n] # None

\* A draft that is gone or was not queued itself plans nothing.
Planned(n) == n \in item /\ draft[n] # None /\ draft[n].intent # "none"

DropItem(n) ==
    /\ Runs /\ n \in item /\ ~Planned(n)
    /\ item' = item \ {n}
    /\ UNCHANGED <<draft, footer, file, source, tx, created, changes, edits, faults,
                   asked, sent>>

Message(d) ==
    [uid |-> d.uid, body |-> OutboundBody(d.lines), identity |-> d.identity,
     reply |-> d.reply, by |-> d.by, shown |-> d.shown,
     attachments |-> {[attached |-> a.content, content |-> file[a.path]] :
                        a \in d.attachments}]

\* The draft is read and validated again, sent or uploaded, and consumed.
Push(n) ==
    /\ Runs /\ Planned(n) /\ ValidForPush(draft[n])
    /\ sent' = IF draft[n].intent = "save" THEN sent
               ELSE {Message(draft[n])}
    /\ Put(n, None)
    /\ item' = item \ {n}
    /\ UNCHANGED <<footer, file, source, tx, created, changes, edits, faults, asked>>

-----------------------------------------------------------------------------
(* What draft list, draft show and doctor say. *)

Status(n) ==
    CASE draft[n].intent = "none" /\ n \notin item -> "editable"
      [] draft[n].intent # "none" /\ n \notin item -> "intent_without_push"
      [] draft[n].intent = "none" /\ n \in item -> "push_without_intent"
      [] draft[n].intent = "send" /\ n \in item -> "queued_send"
      [] OTHER -> "queued_upload"

DraftQueueIssues ==
    {n \in Names : draft[n] # None
        /\ Status(n) \in {"intent_without_push", "push_without_intent"}}

Showable(n) == Parses(draft[n].lines) /\ n \notin DraftQueueIssues

\* One draft that cannot be shown fails the list of the case.
Listable == \A n \in Names : draft[n] # None => Showable(n)

-----------------------------------------------------------------------------
(* What people do without the lock. *)

Edit == edits < MaxEdits /\ edits' = edits + 1

\* The schema broken, the compose section emptied or commented out, the last
\* block deleted.
EditedLines(lines) ==
    {lines \o <<ComposeEnd>>}
      \cup (IF Parses(lines)
              THEN {ReplaceAuthoredText(lines, text) : text \in {<<>>, <<Comment>>, <<Text>>}}
                     \cup {Front(lines)}
              ELSE {})

EditDraft(n) ==
    /\ Edit /\ draft[n] # None
    /\ \E lines \in EditedLines(draft[n].lines) :
          Put(n, [draft[n] EXCEPT !.lines = lines, !.by = "hand"])
    /\ UNCHANGED <<item, footer, file, source, tx, created, changes, faults, asked,
                   sent>>

NameAttachment(n, p) ==
    /\ Edit /\ draft[n] # None
    /\ \A a \in draft[n].attachments : a.path # p
    /\ Put(n, [draft[n] EXCEPT !.by = "hand",
                 !.attachments = @ \cup {[path |-> p, content |-> None]}])
    /\ UNCHANGED <<item, footer, file, source, tx, created, changes, faults, asked,
                   sent>>

DeleteDraftFile(n) ==
    /\ Edit /\ draft[n] # None
    /\ Put(n, None)
    /\ UNCHANGED <<item, footer, file, source, tx, created, changes, faults, asked,
                   sent>>

\* A file of the case deleted or exchanged for a link, a new version of the
\* file outside, an identity file deleted.
ChangeFile(p) ==
    /\ Edit /\ file[p] # None
    /\ \E content \in {None, Link} : file' = [file EXCEPT ![p] = content]
    /\ UNCHANGED <<draft, item, footer, source, tx, created, changes, faults, asked,
                   sent>>

ChangeSource ==
    /\ Edit /\ source = "v1" /\ source' = "v2"
    /\ UNCHANGED <<draft, item, footer, file, tx, created, changes, faults, asked,
                   sent>>

RemoveFooterFile(i) ==
    /\ Edit /\ footer[i] # None
    /\ footer' = [footer EXCEPT ![i] = None]
    /\ UNCHANGED <<draft, item, file, source, tx, created, changes, faults, asked,
                   sent>>

\* A person removes the record of a transaction doctor cannot repair.
ClearTransaction ==
    /\ tx /\ tx' = FALSE
    /\ UNCHANGED <<draft, item, footer, file, source, created, changes, edits,
                   faults, asked, sent>>

-----------------------------------------------------------------------------
ByCommand ==
    \/ \E body \in Bodies \cup {None} : CreateDraft(body) \/ ReplyToMessage(body)
    \/ \E n \in Names :
          \/ \E body \in Bodies \cup {None}, i \in Identities \cup {None} :
                ChangeDraft(n, body, i)
          \/ AttachOutside(n)
          \/ \E p \in Paths : AttachInside(n, p)
          \/ \E action \in {"send", "save"} : QueueDraft(n, action)
          \/ RemoveDraft(n)
          \/ DropItem(n)
          \/ Push(n)

ByHand ==
    \/ \E n \in Names :
          \/ EditDraft(n) \/ DeleteDraftFile(n)
          \/ \E p \in Paths : NameAttachment(n, p)
    \/ \E p \in Paths : ChangeFile(p)
    \/ \E i \in Identities : RemoveFooterFile(i)
    \/ ChangeSource
    \/ ClearTransaction

Next == ByCommand \/ ByHand

Spec == Init /\ [][Next]_vars

-----------------------------------------------------------------------------
(* Properties *)

\* Drafts keep their shape, and a transaction is only left behind by a crash.
TypeOK ==
    /\ \A n \in Names : draft[n] # None =>
          /\ draft[n].uid \in 1..created
          /\ draft[n].lines \in Seq(Lines)
          /\ draft[n].identity \in Identities
          /\ draft[n].intent \in {"none", "save", "send"}
          /\ \A a \in draft[n].attachments : a.path \in Paths
    /\ \A m, n \in Names : m # n /\ draft[m] # None /\ draft[n] # None =>
          draft[m].uid # draft[n].uid
    /\ item \subseteq Names
    /\ footer \in [Identities -> Footers \cup {None}]
    /\ DOMAIN file = Paths
    /\ tx => faults > 0

\* What leaves the workspace was queued for sending itself: a new draft under
\* the name of one that was queued and then deleted by hand is not sent by the
\* item the old one left in the queue.
SentWasQueued == \A m \in sent : m.uid \in asked

\* A message that was sent says something: a queued draft that was emptied by
\* hand afterwards is not sent, and no line of the editing schema is.
SentIsAuthored ==
    \A m \in sent :
        /\ \E i \in DOMAIN m.body : m.body[i] = Text
        /\ \A i \in DOMAIN m.body : m.body[i] \notin Markers \cup {Heading}

\* Replacing the authored text of a reply keeps its history: a reply that was
\* never edited by hand is sent with the quoted message.
ReplyKeepsHistory ==
    \A m \in sent : m.reply /\ m.by = "afmail" =>
        \E i \in DOMAIN m.body : m.body[i] = Quoted

\* The footer a reviewer saw last in the draft is the footer that is sent, and
\* nothing is added to it at send time.
FooterIsShown ==
    \A m \in sent : m.by = "afmail" /\ m.shown # None =>
        m.body # <<>> /\ Last(m.body) = m.shown

\* The text that is sent is the text of a draft that was queued for it, as its
\* author wrote and saw it.
SentIsWhatWasWritten == SentWasQueued /\ SentIsAuthored /\ ReplyKeepsHistory /\ FooterIsShown

\* Only regular files under files/ leave the workspace, even when a file was
\* exchanged for a link after the draft was validated and queued.
OnlyManagedFilesAreSent ==
    \A m \in sent : \A a \in m.attachments : a.content \notin {None, Link}

\* An attachment is sent as it was when it was attached: attaching a newer file
\* of the same name to another draft does not change it.
AttachedIsSent ==
    \A m \in sent : \A a \in m.attachments : a.attached # None => a.content = a.attached

\* The files that are sent are those that were attached.
SentFilesWereAttached == OnlyManagedFilesAreSent /\ AttachedIsSent

\* Commands alone never bring a draft and the queue out of step: as long as
\* nothing was changed by hand and nothing crashed, every draft can be listed
\* and shown, and doctor has nothing to say about it.
CommandsKeepDraftsListable == edits = 0 /\ faults = 0 => Listable
=============================================================================
