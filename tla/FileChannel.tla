---------------------------- MODULE FileChannel ----------------------------
(***************************************************************************)
(* The file channel and the message store beneath it.  A producer writes   *)
(* JSON inputs into a directory, `pull --files` imports them as immutable  *)
(* evidence, and the generated message views are rebuilt from evidence,    *)
(* metadata and the place the workspace filed the message in.  A reply is  *)
(* published once into an output directory and recorded as sent.           *)
(*                                                                         *)
(* A message is identified by its source and its external id.  A pull      *)
(* holds the workspace lock, so pull, push and filing never overlap; the   *)
(* producer and the consumer of the directories work at any time.  The     *)
(* configuration is read once by each command and may be changed between   *)
(* two commands; a source keeps its name.                                  *)
(***************************************************************************)
EXTENDS Naturals, FiniteSets

CONSTANTS
    Sources,    \* configured file sources
    Dirs,       \* directories of producers and consumers
    Managed,    \* directories afmail keeps its own state in
    Ids,        \* external message ids
    Texts,      \* input bytes; Broken is input that does not parse
    Broken,
    Own,        \* the external id and the text of the reply afmail sends
    Sent,       \* the message id afmail records that reply under
    None,
    MaxFiles,   \* bound on inputs written
    MaxNew,     \* the pull's budget of new messages
    MaxInputs,  \* max_input_files of a source
    MaxFaults,  \* bound on crashes and failed writes
    MaxChanges, \* bound on purged messages and new configurations together
    MaxMistakes \* bound on wrong statements to push recover

ASSUME FileChannelAssumption ==
    /\ Managed \subseteq Dirs
    /\ Own \notin Ids \cup Texts /\ None \notin Texts \cup {Own}
    /\ Sent \notin Ids \cup {Own}
    /\ MaxNew \in Nat \ {0} /\ MaxInputs \in Nat \ {0}

VARIABLES
    inboxOf, outboxOf,  \* the configured paths, resolved
    configs,            \* changes of the configuration so far
    inputs,             \* files in the input directories
    written,            \* inputs written so far; their names sort in this order
    evidence,           \* .afmail/messages/<id>.message
    meta,               \* .afmail/messages/<id>.json exists
    place,              \* where cases and dispositions file the message
    view,               \* messages/<id>.json
    pc, pull,           \* the pull in progress
    report,             \* what the last completed pull told the producer
    outputs,            \* output files
    send,               \* the push item of the reply
    faults, purges,
    retired, ever, importedAs,  \* history of the inputs
    published, placed,          \* history of the output: how often and where
    wrong                       \* wrong statements about it to push recover

Messages == Sources \X (Ids \cup {Own, Sent})
Places == {"triage", "case", "spam"}

config == <<inboxOf, outboxOf, configs>>
store == <<evidence, meta, place, view>>
channel == <<inputs, written, retired>>
tally == <<published, placed, wrong>>
out == <<outputs, send, tally>>
vars == <<config, store, channel, out, pc, pull, report, faults, purges, ever,
          importedAs>>

NoPull == [sources |-> {}, source |-> None, todo |-> {}, file |-> None,
           left |-> MaxNew, skipped |-> {}, warned |-> {}, mark |-> 0]

Fault == faults < MaxFaults /\ faults' = faults + 1

-----------------------------------------------------------------------------
(* Configuration *)

\* A source whose input or output directory lies in managed state, whose input
\* directory another source reads, or whose output directory is an input
\* directory, takes no part; both sources of a conflict are named.
PathConflicts(s) ==
    \/ {inboxOf[s], outboxOf[s]} \cap Managed # {}
    \/ \E t \in Sources \ {s} : inboxOf[s] = inboxOf[t]
    \/ \E t \in Sources : outboxOf[s] = inboxOf[t] \/ outboxOf[t] = inboxOf[s]

Init ==
    /\ inboxOf \in [Sources -> Dirs] /\ outboxOf \in [Sources -> Dirs]
    /\ configs = 0
    /\ inputs = {} /\ written = 0
    /\ evidence = [k \in Messages |-> None]
    /\ meta = [k \in Messages |-> FALSE]
    /\ place = [k \in Messages |-> "triage"]
    /\ view = [k \in Messages |-> None]
    /\ pc = "idle" /\ pull = NoPull
    /\ report = [left |-> {}, mark |-> 0, inbox |-> inboxOf]
    /\ outputs = {} /\ published = 0 /\ placed = {}
    /\ wrong = [sent |-> 0, notSent |-> 0]
    /\ send = [source |-> None, state |-> "none"]
    /\ faults = 0 /\ purges = 0
    /\ retired = {} /\ ever = {} /\ importedAs = {}

\* No command is running: a push writes its item's state as it goes.
Idle == pc = "idle" /\ send.state \notin {"started", "visible", "recording", "recorded"}

\* A source gets other directories, also ones another source used before.
Configure(s, inbox, outbox) ==
    /\ Idle /\ configs + purges < MaxChanges
    /\ configs' = configs + 1
    /\ inboxOf' = [inboxOf EXCEPT ![s] = inbox]
    /\ outboxOf' = [outboxOf EXCEPT ![s] = outbox]
    /\ UNCHANGED <<store, channel, out, pc, pull, report, faults, purges, ever,
                   importedAs>>

-----------------------------------------------------------------------------
(* The producer and the consumer (external). *)

Produce(d, id, text) ==
    /\ written < MaxFiles
    /\ written' = written + 1
    /\ inputs' = inputs \cup {[n |-> written + 1, dir |-> d, id |-> id, text |-> text]}
    /\ UNCHANGED <<config, store, out, pc, pull, report, faults, purges, retired,
                   ever, importedAs>>

\* docs/channels.md: the producer retires inputs after checking a pull's result,
\* neither skipped ones nor ones a warning names, and only inputs that were in
\* the directory its source read before that pull began.
Retire(s, f) ==
    /\ f \in inputs /\ f.n <= report.mark /\ f.n \notin report.left
    /\ report.inbox[s] = f.dir
    /\ inputs' = inputs \ {f}
    /\ retired' = retired \cup {<<s, f>>}
    /\ UNCHANGED <<config, store, out, written, pc, pull, report, faults, purges,
                   ever, importedAs>>

\* The consumer processes an output and removes it.
Consume(o) ==
    /\ o \in outputs
    /\ outputs' = outputs \ {o}
    /\ UNCHANGED <<config, store, channel, send, tally, pc, pull, report,
                   faults, purges, ever, importedAs>>

\* What a directory holds: the producer's inputs and afmail's own outputs.
Listing(d) ==
    {f \in inputs : f.dir = d}
    \cup {[n |-> 0, dir |-> d, id |-> Own, text |-> Own] : o \in {x \in outputs : x = d}}

-----------------------------------------------------------------------------
(* pull --files *)

\* A dry run changes nothing and is left out.
BeginPull ==
    /\ Idle
    /\ pc' = "sources"
    /\ pull' = [NoPull EXCEPT !.sources = Sources, !.mark = written]
    /\ UNCHANGED <<config, store, channel, out, report, faults, purges, ever,
                   importedAs>>

\* A source with a path conflict, an inbox that cannot be listed or too many
\* inputs is a warning; the other sources are still pulled.
Unlistable(s) ==
    \/ PathConflicts(s)
    \/ Cardinality(Listing(inboxOf[s])) > MaxInputs

TakeSource(s) ==
    /\ pc = "sources" /\ s \in pull.sources
    /\ pull' = IF Unlistable(s)
                 THEN [pull EXCEPT !.sources = @ \ {s},
                         !.warned = @ \cup {f.n : f \in Listing(inboxOf[s])}]
                 ELSE [pull EXCEPT !.sources = @ \ {s}, !.source = s,
                         !.todo = Listing(inboxOf[s])]
    /\ pc' = IF Unlistable(s) THEN "sources" ELSE "files"
    /\ UNCHANGED <<config, store, channel, out, report, faults, purges, ever,
                   importedAs>>

\* Inputs are taken in the order of their names.
First(f) == f \in pull.todo /\ \A g \in pull.todo : f.n <= g.n

\* Inputs left by the budget are counted and not named.
Leave_Bug(f, field) ==
    pull' = [pull EXCEPT !.todo = @ \ {f},
                         !.warned = IF field = "warned" THEN @ \cup {f.n} ELSE @]

Leave(f, field) ==
    pull' = [pull EXCEPT !.todo = @ \ {f}, ![field] = @ \cup {f.n}]

\* An input that is gone, unreadable or invalid, or whose id already belongs to
\* different bytes, is a warning.
Rejected(f) ==
    \/ f \notin Listing(f.dir) \/ f.text = Broken
    \/ evidence[<<pull.source, f.id>>] \notin {None, f.text}

TakeFile(f) ==
    /\ pc = "files" /\ First(f)
    /\ LET known == evidence[<<pull.source, f.id>>] # None
       IN  \/ Rejected(f) /\ Leave(f, "warned") /\ pc' = pc
           \/ /\ ~Rejected(f) /\ known
              /\ pull' = [pull EXCEPT !.todo = @ \ {f}]
              /\ pc' = pc
           \/ /\ ~Rejected(f) /\ ~known /\ pull.left = 0
              /\ Leave(f, "skipped") /\ pc' = pc
           \/ /\ ~Rejected(f) /\ ~known /\ pull.left > 0
              /\ pull' = [pull EXCEPT !.todo = @ \ {f}, !.file = f]
              /\ pc' = "metadata"
    /\ UNCHANGED <<config, store, channel, out, report, faults, purges, ever,
                   importedAs>>

SourceDone ==
    /\ pc = "files" /\ pull.todo = {}
    /\ pc' = "sources"
    /\ UNCHANGED <<config, store, channel, out, pull, report, faults, purges, ever,
                   importedAs>>

Current == <<pull.source, pull.file.id>>

\* The evidence is published before the metadata is written.
ImportMetadata_Bug ==
    /\ pc = "metadata"
    /\ evidence' = [evidence EXCEPT ![Current] = pull.file.text]
    /\ pc' = "evidence"
    /\ UNCHANGED <<config, meta, place, view, channel, out, pull, report,
                   faults, purges, ever, importedAs>>

\* The metadata goes first: evidence without it cannot be rendered.
ImportMetadata ==
    /\ pc = "metadata"
    /\ meta' = [meta EXCEPT ![Current] = TRUE]
    /\ pc' = "evidence"
    /\ UNCHANGED <<config, evidence, place, view, channel, out, pull, report,
                   faults, purges, ever, importedAs>>

\* The evidence is published by a hard link that never replaces a file; only
\* then is the budget used.
ImportEvidence ==
    /\ pc = "evidence"
    /\ evidence' = [evidence EXCEPT ![Current] = pull.file.text]
    /\ ever' = ever \cup {<<Current, pull.file.text>>}
    /\ importedAs' = importedAs \cup
           {[file |-> pull.file, source |-> pull.source, epoch |-> configs]}
    /\ pull' = [pull EXCEPT !.left = @ - 1]
    /\ pc' = "artifacts"
    /\ UNCHANGED <<config, meta, place, view, channel, out, report, faults, purges>>

ImportArtifacts ==
    /\ pc = "artifacts"
    /\ view' = [view EXCEPT ![Current] = <<pull.file.text, "triage">>]
    /\ pc' = "files"
    /\ UNCHANGED <<config, evidence, meta, place, channel, out, pull, report,
                   faults, purges, ever, importedAs>>

\* A write that fails is a warning of its input.
ImportFails ==
    /\ pc \in {"metadata", "evidence", "artifacts"}
    /\ Fault
    /\ pull' = [pull EXCEPT !.warned = @ \cup {pull.file.n}]
    /\ pc' = "files"
    /\ UNCHANGED <<config, store, channel, out, report, purges, ever, importedAs>>

-----------------------------------------------------------------------------
(* Views are generated from evidence, metadata and the place of the message. *)

\* One message without its metadata stops every view.
CanRender == \A k \in Messages : evidence[k] # None => meta[k]

\* Views without evidence keep their text and follow the place.
Materialize(k) ==
    IF evidence[k] # None THEN <<evidence[k], place[k]>>
    ELSE IF view[k] # None THEN <<view[k][1], place[k]>> ELSE None

\* render refresh ends a pull, also when nothing was imported, and is a command
\* of its own and the last part of doctor repair.
EndPull ==
    /\ pc = "sources" /\ pull.sources = {}
    /\ pc' = "idle" /\ pull' = NoPull
    /\ view' = IF CanRender THEN [k \in Messages |-> Materialize(k)] ELSE view
    /\ report' = IF CanRender
                   THEN [left |-> pull.skipped \cup pull.warned, mark |-> pull.mark,
                         inbox |-> inboxOf]
                   ELSE report
    /\ UNCHANGED <<config, evidence, meta, place, channel, out, faults, purges,
                   ever, importedAs>>

RenderRefresh ==
    /\ Idle /\ CanRender
    /\ view' = [k \in Messages |-> Materialize(k)]
    /\ UNCHANGED <<config, evidence, meta, place, channel, out, pc, pull, report,
                   faults, purges, ever, importedAs>>

\* Filing a message changes its place and its view.
File(k, p) ==
    /\ Idle /\ view[k] # None /\ k[2] # Sent
    /\ place[k] = "triage" /\ p # "triage"
    /\ place' = [place EXCEPT ![k] = p]
    /\ view' = [view EXCEPT ![k] = <<@[1], p>>]
    /\ UNCHANGED <<config, evidence, meta, channel, out, pc, pull, report, faults,
                   purges, ever, importedAs>>

\* purge spam removes what the message left; the input may still be there.
Purge(k) ==
    /\ Idle /\ place[k] = "spam" /\ configs + purges < MaxChanges
    /\ purges' = purges + 1
    /\ evidence' = [evidence EXCEPT ![k] = None]
    /\ meta' = [meta EXCEPT ![k] = FALSE]
    /\ view' = [view EXCEPT ![k] = None]
    /\ place' = [place EXCEPT ![k] = "triage"]
    /\ UNCHANGED <<config, channel, out, pc, pull, report, faults, ever, importedAs>>

-----------------------------------------------------------------------------
(* The reply *)

\* A reply inherits the route of the message it answers.
QueueReply(s) ==
    /\ pc = "idle" /\ send.state = "none"
    /\ \E id \in Ids : place[<<s, id>>] = "case" /\ evidence[<<s, id>>] # None
    /\ send' = [source |-> s, state |-> "queued"]
    /\ UNCHANGED <<config, store, channel, outputs, tally, pc, pull, report,
                   faults, purges, ever, importedAs>>

Sending(state) == send.state = state /\ pc = "idle"
SendState(state) == send' = [send EXCEPT !.state = state]

\* The attempt is recorded before the output directory is touched.
StartSend ==
    /\ Sending("queued")
    /\ SendState("started")
    /\ UNCHANGED <<config, store, channel, outputs, tally, pc, pull, report,
                   faults, purges, ever, importedAs>>

\* The hard link makes the output visible, or an identical one already is.  A
\* path conflict, and any failure before the link, leaves it unpublished for
\* certain and the item can be tried again.
Publish ==
    /\ Sending("started")
    /\ \/ /\ ~PathConflicts(send.source)
          /\ outputs' = outputs \cup {outboxOf[send.source]}
          /\ published' = IF outboxOf[send.source] \in outputs
                            THEN published ELSE published + 1
          /\ placed' = placed \cup {<<outboxOf[send.source], configs>>}
          /\ SendState("visible")
          /\ UNCHANGED faults
       \/ /\ PathConflicts(send.source)
          /\ SendState("queued")
          /\ UNCHANGED <<outputs, published, placed, faults>>
       \/ /\ Fault
          /\ SendState("queued")
          /\ UNCHANGED <<outputs, published, placed>>
    /\ UNCHANGED <<config, store, channel, wrong, pc, pull, report, purges, ever,
                   importedAs>>

\* After a failure or a crash once the output may be visible, only the output
\* itself proves that it was sent.
Reconcile ==
    /\ Sending("unknown")
    /\ outboxOf[send.source] \in outputs
    /\ SendState("sent")
    /\ UNCHANGED <<config, store, channel, outputs, tally, pc, pull, report,
                   faults, purges, ever, importedAs>>

\* push recover: a person says what became of an uncertain send, after looking
\* or without.  A statement that is not true is counted.
Says(kind, true) ==
    IF true THEN UNCHANGED wrong
    ELSE /\ wrong.sent + wrong.notSent < MaxMistakes
         /\ wrong' = [wrong EXCEPT ![kind] = @ + 1]

\* --sent settles the step without its output.
SettleSent ==
    /\ Sending("unknown")
    /\ Says("sent", published > 0)
    /\ SendState("sent")
    /\ UNCHANGED <<config, store, channel, outputs, published, placed, pc, pull,
                   report, faults, purges, ever, importedAs>>

\* --not-sent is refused while the output lies in the directory configured now;
\* otherwise the step is pending again and the next push repeats it.
SettleNotSent ==
    /\ Sending("unknown")
    /\ outboxOf[send.source] \notin outputs
    /\ Says("notSent", published = 0)
    /\ SendState("queued")
    /\ UNCHANGED <<config, store, channel, outputs, published, placed, pc, pull,
                   report, faults, purges, ever, importedAs>>

SendDone ==
    /\ Sending("visible")
    /\ \/ SendState("sent") /\ UNCHANGED faults
       \/ Fault /\ SendState("unknown")
    /\ UNCHANGED <<config, store, channel, outputs, tally, pc, pull, report,
                   purges, ever, importedAs>>

SentKey == <<send.source, Sent>>

\* record_sent writes the same files in the same order as an import, then the
\* case; a crash repeats it from the start.
RecordMetadata ==
    /\ Sending("sent")
    /\ meta' = [meta EXCEPT ![SentKey] = TRUE]
    /\ SendState("recording")
    /\ UNCHANGED <<config, evidence, place, view, channel, outputs, tally, pc,
                   pull, report, faults, purges, ever, importedAs>>

RecordEvidence ==
    /\ Sending("recording")
    /\ evidence' = [evidence EXCEPT ![SentKey] = Own]
    /\ SendState("recorded")
    /\ UNCHANGED <<config, meta, place, view, channel, outputs, tally, pc,
                   pull, report, faults, purges, ever, importedAs>>

RecordInCase ==
    /\ Sending("recorded")
    /\ place' = [place EXCEPT ![SentKey] = "case"]
    /\ view' = [view EXCEPT ![SentKey] = <<Own, "case">>]
    /\ SendState("done")
    /\ UNCHANGED <<config, evidence, meta, channel, outputs, tally, pc, pull,
                   report, faults, purges, ever, importedAs>>

\* An attempt that was interrupted is taken for one that never started.
Crash_Bug ==
    /\ Fault
    /\ pc' = "idle" /\ pull' = NoPull
    /\ send' = [send EXCEPT !.state =
                   IF @ \in {"started", "visible"} THEN "queued"
                   ELSE IF @ \in {"recording", "recorded"} THEN "sent" ELSE @]
    /\ UNCHANGED <<config, store, channel, outputs, tally, report, purges,
                   ever, importedAs>>

-----------------------------------------------------------------------------
\* The afmail process dies.  A push that had started may have published.
Crash ==
    /\ Fault
    /\ pc' = "idle" /\ pull' = NoPull
    /\ send' = [send EXCEPT !.state =
                   IF @ \in {"started", "visible"} THEN "unknown"
                   ELSE IF @ \in {"recording", "recorded"} THEN "sent" ELSE @]
    /\ UNCHANGED <<config, store, channel, outputs, tally, report, purges,
                   ever, importedAs>>

PullStep ==
    \/ \E s \in Sources : TakeSource(s)
    \/ \E f \in pull.todo : TakeFile(f)
    \/ SourceDone \/ ImportMetadata \/ ImportEvidence \/ ImportArtifacts
    \/ EndPull

PushStep == \/ StartSend \/ Publish \/ SendDone \/ Reconcile
            \/ SettleSent \/ SettleNotSent
            \/ RecordMetadata \/ RecordEvidence \/ RecordInCase

Next ==
    \/ \E d \in Dirs, id \in Ids, t \in Texts : Produce(d, id, t)
    \/ \E s \in Sources, inbox, outbox \in Dirs : Configure(s, inbox, outbox)
    \/ \E s \in Sources, f \in inputs : Retire(s, f)
    \/ \E o \in outputs : Consume(o)
    \/ BeginPull
    \/ PullStep \/ ImportFails \/ RenderRefresh
    \/ \E k \in Messages : Purge(k) \/ \E p \in Places : File(k, p)
    \/ \E s \in Sources : QueueReply(s)
    \/ PushStep \/ Crash

Spec == Init /\ [][Next]_vars

-----------------------------------------------------------------------------
(* Properties. *)

\* Every variable has its type.
TypeOK ==
    /\ \A f \in inputs : f.dir \in Dirs /\ f.id \in Ids /\ f.text \in Texts
    /\ \A k \in Messages : evidence[k] \in Texts \cup {None, Own}
    /\ meta \in [Messages -> BOOLEAN] /\ place \in [Messages -> Places]
    /\ pull.left \in 0 .. MaxNew
    /\ pc \in {"idle", "sources", "files", "metadata", "evidence", "artifacts"}
    /\ faults \in 0 .. MaxFaults /\ configs + purges \in 0 .. MaxChanges

\* A producer that retires what a completed pull neither skipped nor warned
\* about loses nothing: each retired input was imported for its source with its
\* own bytes, whatever budgets, conflicts, crashes, failed writes and changed
\* directories there were.
NoInputLost ==
    \A r \in retired : <<<<r[1], r[2].id>>, r[2].text>> \in ever

\* When a pull has ended, the view of every message with evidence shows its
\* text and the place it is filed in, the messages an earlier pull left half
\* imported included: wherever an import or a recording of a sent message
\* stops, the views can still be generated.
ViewsFollowEvidence ==
    [][pc = "sources" /\ pc' = "idle" /\ faults' = faults =>
         \A k \in Messages :
            evidence[k] # None => view'[k] = <<evidence[k], place[k]>>]_vars

\* As long as the directories stay as they are, an input is imported for one
\* source only, and a directory afmail published into is not imported from.
\* Once they change both can happen: identity is per source, and a file in a
\* former output directory is an input like any other.
ImportedOnce ==
    /\ \A a, b \in importedAs : a.file = b.file /\ a.epoch = b.epoch => a.source = b.source
    /\ \A a \in importedAs : a.file.id = Own => <<a.file.dir, a.epoch>> \notin placed

\* The reply becomes visible to its consumer at most once, also when the
\* consumer removes it before afmail knows that it was published, and once more
\* only for each time a person said --not-sent of one that was.
PublishedOnce == published <= 1 + wrong.notSent

\* A reply in the store was published, unless a person wrongly said --sent.
RecordedWasPublished ==
    \A s \in Sources : evidence[<<s, Sent>>] # None => published > 0 \/ wrong.sent > 0

\* Nothing passes the channel twice, in either direction, and what is recorded
\* as passed did pass.
NothingTwice == ImportedOnce /\ PublishedOnce /\ RecordedWasPublished

=============================================================================
