------------------------------- MODULE Review -------------------------------
(***************************************************************************)
(* A review session: the local page on which a person reads a case, a      *)
(* notification, a triage message or a draft, edits its text and settles   *)
(* the agent's suggestion (src/runner/review.rs, src/runner/review/host.rs,*)
(* src/runner/review_runtime.js and src/store/suggestions.rs).             *)
(*                                                                         *)
(* Three parties share one subject.  The workspace holds its content and   *)
(* the pair of suggestions; the host process holds the trusted model it    *)
(* last read and runs one call at a time; the page holds what was last     *)
(* drawn, the text being typed, and the calls it is waiting for.  The      *)
(* agent changes the workspace at any time with its own commands and talks *)
(* to the host over its standard input.                                    *)
(*                                                                         *)
(* A text is a number: every input on the page and every foreign edit      *)
(* writes a new one, so equal numbers are equal hashes.  The generation    *)
(* counters of the page are kept as what they are compared for: a refresh  *)
(* is wanted, one is in flight, and whether an edit or another wish came   *)
(* in the meantime.                                                        *)
(***************************************************************************)
EXTENDS Integers, FiniteSets

CONSTANTS
    MaxAgent,    \* commands of the agent
    MaxInputs,   \* inputs of the person in the editor
    MaxPerson,   \* clicks, questions and reloads of the person
    MaxFaults,   \* failures of the lock, of a write, of a render or of the controller
    MaxTotal     \* all of these in one session

ASSUME ReviewAssumption == {MaxAgent, MaxInputs, MaxPerson, MaxFaults, MaxTotal} \subseteq Nat

None == 0
NoSuggestion == [uid |-> None]
NoCall == [kind |-> "none"]

VARIABLES
    surface,     \* what kind of subject the session is about
    doc,         \* workspace: the notes or the draft the page can edit
    other,       \* workspace: everything else the review hash covers
    agent,       \* workspace: agent_suggestion
    human,       \* workspace: human_suggestion
    model,       \* host: the trusted model, [doc, other, round]
    open,        \* host: the session has not ended
    pending,     \* host: the agent message waiting for an answer, or None
    controller,  \* host: the controller's input is open
    shown,       \* page: the model it was drawn from
    form,        \* page: the editor, [text, base, dirty, timer]
    refresh,     \* page: [wanted, flying, edited, again]
    settle,      \* page: the settle form, [click, state]
    asking,      \* page: the composer, [page, state]
    net,         \* calls, replies and the retained state on their way
    used,        \* how much of each bound is used
    typed,       \* history: the texts typed on the page
    stored,      \* history: the texts the workspace ever held
    seen,        \* history: the texts the page displayed or stored
    rendered,    \* history: the contents drawn, with the page's saves
    undrawn,     \* history: the contents read for a drawing that failed, likewise
    written      \* history: the clicks that wrote a human suggestion

vars == <<surface, doc, other, agent, human, model, open, pending, controller, shown, form,
          refresh, settle, asking, net, used, typed, stored, seen, rendered, undrawn, written>>

workspace == <<doc, other, agent, human>>
host == <<model, open, pending, controller>>
page == <<shown, form, refresh, settle, asking>>
history == <<typed, stored, seen, rendered, undrawn, written>>

Surfaces == {"triage", "case", "notification", "draft"}
Content == [doc |-> doc, other |-> other]

(***************************************************************************)
(* The review hash: a case hashes its collection, notes and drafts, a      *)
(* notification its collection and notes, a message only itself.  The      *)
(* suggestions are never part of it.                                       *)
(***************************************************************************)
ReviewBaseHash(c) == IF surface = "triage" THEN [c EXCEPT !.doc = 0] ELSE c

\* The round a page shows is the uid of the agent suggestion it was built with.
Round == agent.uid

(***************************************************************************)
(* Reading the pair of suggestions: a human one that answers an agent one  *)
(* names the current suggestion and its content; accepting and changing    *)
(* answer, deciding does not.  Anything else is not readable.              *)
(***************************************************************************)
BindHumanToAgent == human.based # None => human.based = agent.uid /\ human.hash = agent.hash

OutcomeFitsBase(h) ==
    /\ h.outcome \in {"accept", "override"} => h.based # None
    /\ h.outcome = "decide" => h.based = None

PairIsValid == human # NoSuggestion => BindHumanToAgent /\ OutcomeFitsBase(human)

\* The model of a surface, read under a shared lock.
RenderDocument == [doc |-> doc, other |-> other, round |-> Round]
ModelContent == [doc |-> model.doc, other |-> model.other]

(***************************************************************************)
(* The page's form is drawn from a model: nothing typed, nothing clicked.  *)
(***************************************************************************)
NoModel == [doc |-> 0, other |-> 0, round |-> None]
CleanForm(m) == [text |-> m.doc, base |-> m.doc, dirty |-> FALSE, timer |-> FALSE]
NoClick == [click |-> 0, state |-> "idle"]
NoQuestion(n) == [page |-> n, state |-> "no"]

BindReviewContent(m) ==
    /\ shown' = m
    /\ form' = CleanForm(m)
    /\ settle' = NoClick
    /\ seen' = seen \cup {m.doc}

Texts == Cardinality(typed \cup stored)
AskCall == [kind |-> "ask", text |-> form.text, page |-> asking.page]
Composer(state) == asking' = [asking EXCEPT !.state = state]
\* A page that could not be loaded is a line of error text.
PageIsThere == asking.state # "gone"
\* The state the host retains and a page that connects is given.
Changed == [kind |-> "changed"]
NoRefresh == [wanted |-> FALSE, flying |-> FALSE, edited |-> FALSE, again |-> FALSE]
Total == used.agent + used.person + used.faults + Cardinality(typed)
AgentActs == used.agent < MaxAgent /\ Total < MaxTotal /\ used' = [used EXCEPT !.agent = @ + 1]
PersonActs == used.person < MaxPerson /\ Total < MaxTotal /\ used' = [used EXCEPT !.person = @ + 1]
Fault == used.faults < MaxFaults /\ Total < MaxTotal /\ used' = [used EXCEPT !.faults = @ + 1]

Init ==
    /\ surface \in Surfaces
    /\ doc = 0 /\ other = 0 /\ human = NoSuggestion
    /\ agent \in {NoSuggestion} \cup
                 IF surface = "draft" THEN {} ELSE {[uid |-> 1, hash |-> [doc |-> 0, other |-> 0]]}
    /\ model = [NoModel EXCEPT !.round = agent.uid]
    /\ open = TRUE /\ pending = NoCall /\ controller = TRUE
    /\ shown = model /\ form = CleanForm(NoModel) /\ refresh = NoRefresh
    /\ settle = NoClick /\ asking = NoQuestion(0) /\ net = {Changed}
    /\ used = [agent |-> 0, person |-> 0, faults |-> 0]
    /\ typed = {} /\ stored = {0} /\ seen = {0}
    /\ rendered = {[doc |-> 0, other |-> 0]} /\ undrawn = {} /\ written = {}

-----------------------------------------------------------------------------
(***************************************************************************)
(* The agent's commands, each under the exclusive lock.  A suggestion is   *)
(* accepted only against the current content; replacing or clearing it     *)
(* clears the human one.                                                   *)
(***************************************************************************)
ReplacePair(a) ==
    /\ open /\ AgentActs
    /\ agent' = a /\ human' = NoSuggestion
    /\ UNCHANGED <<surface, doc, other, host, page, net, history>>

NewSuggestion == [uid |-> used.agent + 2, hash |-> ReviewBaseHash(Content)]

SetMessageAgentSuggestion == surface = "triage" /\ ReplacePair(NewSuggestion)
SetCaseAgentSuggestion == surface = "case" /\ ReplacePair(NewSuggestion)
SetNotificationAgentSuggestion == surface = "notification" /\ ReplacePair(NewSuggestion)

HasSuggestion == agent # NoSuggestion

ClearMessageSuggestion == surface = "triage" /\ HasSuggestion /\ ReplacePair(NoSuggestion)
ClearCaseSuggestion == surface = "case" /\ HasSuggestion /\ ReplacePair(NoSuggestion)
ClearNotificationSuggestion == surface = "notification" /\ HasSuggestion /\ ReplacePair(NoSuggestion)

ForeignEdit ==
    /\ open /\ AgentActs
    /\ doc' = Texts
    /\ stored' = stored \cup {Texts}
    /\ UNCHANGED <<surface, other, agent, human, host, page, net, typed, seen, rendered, undrawn, written>>

ForeignChange ==
    /\ open /\ AgentActs
    /\ other' = other + 1
    /\ UNCHANGED <<surface, doc, agent, human, host, page, net, history>>

-----------------------------------------------------------------------------
(***************************************************************************)
(* The host: one call at a time, or the controller's next line.            *)
(***************************************************************************)
Reply(call, reply) == net' = (net \ {call}) \cup {reply}

\* A call that changes nothing but its reply: the lock is held by another
\* command, a transaction is incomplete, a file cannot be read.
CallFails(c) ==
    /\ open /\ c \in net /\ c.kind \in {"save", "settle", "refresh"}
    /\ Fault
    /\ Reply(c, [kind |-> "failed", call |-> c])
    /\ UNCHANGED <<surface, workspace, host, page, history>>

\* The model has moved when drawing it fails, by a template that breaks a rule
\* or for want of room for the page: what was drawn last is on the page still.
DrawFails(c) ==
    /\ open /\ c \in net /\ c.kind = "refresh" /\ PairIsValid
    /\ Fault
    /\ model' = RenderDocument
    /\ undrawn' = undrawn \cup {Content}
    /\ Reply(c, [kind |-> "failed", call |-> c])
    /\ UNCHANGED <<surface, workspace, open, pending, controller, page, typed, stored, seen, rendered, written>>

\* The form's base hash is compared with the document as it is now.
SaveIsStale(c) ==
    /\ open /\ c \in net /\ c.kind = "save" /\ c.base # doc
    /\ Reply(c, [kind |-> "failed", call |-> c])
    /\ UNCHANGED <<surface, workspace, host, page, used, history>>

ApplySavedEditToModel_Bug(text) == model' = [RenderDocument EXCEPT !.doc = text]

\* Only the written document advances in the trusted model.
ApplySavedEditToModel(text) == model' = [model EXCEPT !.doc = text]

\* The check of the base hash is left out.
SaveInWorkspace_Bug(c) ==
    /\ open /\ c \in net /\ c.kind = "save"
    /\ doc' = c.text
    /\ ApplySavedEditToModel(c.text)
    /\ Reply(c, [kind |-> "saved", call |-> c, hash |-> c.text])
    /\ stored' = stored \cup {c.text}
    /\ seen' = seen \cup {c.text}
    /\ rendered' = rendered \cup {[r EXCEPT !.doc = c.text] : r \in rendered}
    /\ undrawn' = undrawn \cup {[r EXCEPT !.doc = c.text] : r \in undrawn}
    /\ UNCHANGED <<surface, other, agent, human, open, pending, controller, page, used, typed, written>>

SaveInWorkspace(c) ==
    /\ open /\ c \in net /\ c.kind = "save" /\ c.base = doc
    /\ doc' = c.text
    /\ ApplySavedEditToModel(c.text)
    /\ Reply(c, [kind |-> "saved", call |-> c, hash |-> c.text])
    /\ stored' = stored \cup {c.text}
    /\ seen' = seen \cup {c.text}
    /\ rendered' = rendered \cup {[r EXCEPT !.doc = c.text] : r \in rendered}
    /\ undrawn' = undrawn \cup {[r EXCEPT !.doc = c.text] : r \in undrawn}
    /\ UNCHANGED <<surface, other, agent, human, open, pending, controller, page, used, typed, written>>

\* The page is reread and drawn anew; the model moves with it.
RefreshModel(c) ==
    /\ open /\ c \in net /\ c.kind = "refresh" /\ PairIsValid
    /\ model' = RenderDocument
    /\ rendered' = rendered \cup {Content}
    /\ Reply(c, [kind |-> "page", call |-> c, model |-> RenderDocument])
    /\ UNCHANGED <<surface, workspace, open, pending, controller, page, used, typed, stored, seen, undrawn, written>>

(***************************************************************************)
(* Settling.  The round the model was built with must still be the current *)
(* one, its content must still be the current content, and a decision that *)
(* answers the agent needs a suggestion made for that content.  Accepting  *)
(* takes the agent's action, changing needs another one, rejecting has     *)
(* none and deciding answers nothing.  Only a message can be given another *)
(* action in answer to the agent's, and a draft has nothing to settle.     *)
(***************************************************************************)
MessageDecisions == {"accept", "reject", "override", "decide"}
CaseDecisions == {"accept", "reject", "decide"}
NotificationDecisions == {"accept", "reject", "decide"}
DecisionsOf ==
    [triage |-> MessageDecisions, case |-> CaseDecisions,
     notification |-> NotificationDecisions, draft |-> {}]

AnswersAgent(c) == c.decision # "decide" /\ HasSuggestion
CurrentRound == model.round = Round

ValidHumanFields(c) ==
    \/ c.decision = "accept" /\ HasSuggestion
    \/ c.decision = "override" /\ HasSuggestion /\ c.differs
    \/ c.decision \in {"reject", "decide"}

CanSettle(c) ==
    /\ PairIsValid
    /\ CurrentRound
    /\ c.decision \in DecisionsOf[surface]
    /\ ReviewBaseHash(ModelContent) = ReviewBaseHash(Content)
    /\ AnswersAgent(c) => agent.hash = ReviewBaseHash(ModelContent)
    /\ ValidHumanFields(c)

HumanSuggestion(c) ==
    [uid |-> c.click,
     based |-> IF AnswersAgent(c) THEN agent.uid ELSE None,
     hash |-> ReviewBaseHash(ModelContent),
     outcome |-> c.decision]

SettleRefused(c) ==
    /\ open /\ c \in net /\ c.kind = "settle" /\ ~CanSettle(c)
    /\ Reply(c, [kind |-> "failed", call |-> c])
    /\ UNCHANGED <<surface, workspace, host, page, used, history>>

SettleInWorkspace(c) ==
    /\ open /\ c \in net /\ c.kind = "settle" /\ CanSettle(c)
    /\ human' = HumanSuggestion(c)
    /\ Reply(c, [kind |-> "settled", call |-> c, repair |-> FALSE])
    /\ written' = written \cup {c.click}
    /\ UNCHANGED <<surface, doc, other, agent, host, page, used, typed, stored, seen, rendered, undrawn>>

\* The suggestion is on disk, its projection or its audit record is not: the
\* reply still says that the item is settled.
SettleFollowupFails(c) ==
    /\ open /\ c \in net /\ c.kind = "settle" /\ CanSettle(c)
    /\ Fault
    /\ human' = HumanSuggestion(c)
    /\ Reply(c, [kind |-> "settled", call |-> c, repair |-> TRUE])
    /\ written' = written \cup {c.click}
    /\ UNCHANGED <<surface, doc, other, agent, host, page, typed, stored, seen, rendered, undrawn>>

\* One message waits for the agent; a second one is refused.
AcceptAgentMessage(c) ==
    /\ open /\ c \in net /\ c.kind = "ask"
    /\ IF pending = NoCall
       THEN pending' = c /\ net' = net \ {c}
       ELSE pending' = pending /\ Reply(c, [kind |-> "failed", call |-> c])
    /\ UNCHANGED <<surface, workspace, model, open, controller, page, used, history>>

\* The controller answers, and may say that the review changed; an answer
\* nobody waits for is ignored.
ReviewResponse(changed) ==
    /\ open /\ controller /\ pending # NoCall
    /\ pending' = NoCall
    /\ net' = net \cup {[kind |-> "answered", call |-> pending]}
                  \cup (IF changed THEN {Changed} ELSE {})
    /\ UNCHANGED <<surface, workspace, model, open, controller, page, used, history>>

FailPendingAgent_Bug ==
    /\ open /\ controller /\ pending # NoCall
    /\ Fault
    /\ pending' = NoCall
    /\ UNCHANGED <<surface, workspace, model, open, controller, page, net, history>>

FailPendingAgent ==
    /\ open /\ controller /\ pending # NoCall
    /\ Fault
    /\ pending' = NoCall
    /\ net' = net \cup {[kind |-> "failed", call |-> pending]}
    /\ UNCHANGED <<surface, workspace, model, open, controller, page, history>>

ControllerEnds ==
    /\ open /\ controller
    /\ Fault
    /\ controller' = FALSE
    /\ UNCHANGED <<surface, workspace, model, open, pending, page, net, history>>

\* The window is closed: what was written stays, the host and the page are gone
\* with what is in flight.
EndSession ==
    /\ open
    /\ open' = FALSE
    /\ model' = NoModel /\ pending' = NoCall /\ controller' = FALSE
    /\ shown' = NoModel /\ form' = CleanForm(NoModel) /\ refresh' = NoRefresh
    /\ settle' = NoClick /\ asking' = NoQuestion(0) /\ net' = {}
    /\ UNCHANGED <<surface, workspace, used, history>>

-----------------------------------------------------------------------------
(***************************************************************************)
(* The page.                                                               *)
(***************************************************************************)
RefreshCall == [kind |-> "refresh"]

\* A refresh starts when one is wanted, none is in flight and nothing typed
\* waits to be saved.  r and n are the state and the network it starts from.
RefreshWhenSafe(r, dirty, n) ==
    IF r.wanted /\ ~r.flying /\ ~dirty
    THEN /\ refresh' = [r EXCEPT !.flying = TRUE, !.edited = FALSE, !.again = FALSE]
         /\ net' = n \cup {RefreshCall}
    ELSE /\ refresh' = r
         /\ net' = n

RequestReviewRefresh(dirty, n) ==
    RefreshWhenSafe([refresh EXCEPT !.wanted = TRUE, !.again = TRUE], dirty, n)

\* An input: the form is dirty and its save is scheduled.
Type ==
    /\ open /\ PageIsThere /\ surface # "triage"
    /\ Cardinality(typed) < MaxInputs /\ Total < MaxTotal
    /\ form' = [form EXCEPT !.text = Texts, !.dirty = TRUE, !.timer = TRUE]
    /\ refresh' = [refresh EXCEPT !.edited = TRUE]
    /\ typed' = typed \cup {Texts}
    /\ UNCHANGED <<surface, workspace, host, shown, settle, asking, net, used, stored, seen, rendered, undrawn, written>>

SaveCall(by) == [kind |-> "save", text |-> form.text, base |-> form.base, by |-> by]

\* The save timer fires: the text and base hash of now are sent.
Persist ==
    /\ open /\ form.timer
    /\ form' = [form EXCEPT !.timer = FALSE]
    /\ net' = net \cup {SaveCall("timer")}
    /\ UNCHANGED <<surface, workspace, host, shown, refresh, settle, asking, used, history>>

\* A save is confirmed: the base hash moves, and the form is clean unless
\* something was typed meanwhile.
Saved(r) ==
    LET clean == r.call.text = form.text
        dirty == form.dirty /\ ~clean
    IN  /\ form' = [form EXCEPT !.base = r.hash, !.dirty = dirty,
                                !.timer = @ \/ ~clean]
        /\ IF r.call.by = "flush" /\ ~dirty
           THEN /\ RequestReviewRefresh(dirty, (net \ {r}) \cup {AskCall})
                /\ Composer("waiting")
           ELSE /\ RequestReviewRefresh(dirty, net \ {r})
                /\ Composer(IF r.call.by = "flush" THEN "no" ELSE asking.state)

PersistSucceeds(r) ==
    /\ open /\ r \in net /\ r.kind = "saved"
    /\ Saved(r)
    /\ UNCHANGED <<surface, workspace, host, shown, settle, used, history>>

\* A save is refused or fails: the form stays dirty and nothing is scheduled.
PersistFails(r) ==
    /\ open /\ r \in net /\ r.kind = "failed" /\ r.call.kind = "save"
    /\ net' = net \ {r}
    /\ Composer(IF r.call.by = "flush" THEN "no" ELSE asking.state)
    /\ UNCHANGED <<surface, workspace, host, shown, form, refresh, settle, used, history>>

(***************************************************************************)
(* The answer to a refresh.  It is drawn only when nothing was typed since *)
(* it was asked for; otherwise it is dropped and the wish remains.  In     *)
(* either case the next refresh is tried at once.                          *)
(***************************************************************************)
Landed(wanted) == [refresh EXCEPT !.flying = FALSE, !.wanted = wanted]

\* The answer is drawn whatever was typed meanwhile.
RefreshReview_Bug(r) ==
    /\ open /\ r \in net /\ r.kind = "page"
    /\ BindReviewContent(r.model)
    /\ RefreshWhenSafe(Landed(refresh.again), FALSE, net \ {r})
    /\ UNCHANGED <<surface, workspace, host, asking, used, typed, stored, rendered, undrawn, written>>

RefreshReview(r) ==
    /\ open /\ r \in net /\ r.kind = "page"
    /\ IF form.dirty \/ refresh.edited
       THEN /\ RefreshWhenSafe(Landed(TRUE), form.dirty, net \ {r})
            /\ UNCHANGED <<shown, form, settle, seen>>
       ELSE /\ BindReviewContent(r.model)
            /\ RefreshWhenSafe(Landed(refresh.again), FALSE, net \ {r})
    /\ UNCHANGED <<surface, workspace, host, asking, used, typed, stored, rendered, undrawn, written>>

\* A failed refresh counts as applied: it is not repeated.
RefreshFails(r) ==
    /\ open /\ r \in net /\ r.kind = "failed" /\ r.call.kind = "refresh"
    /\ RefreshWhenSafe(Landed(refresh.again), form.dirty, net \ {r})
    /\ UNCHANGED <<surface, workspace, host, shown, form, settle, asking, used, history>>

\* The retained state says the review changed.
OnState ==
    /\ open /\ PageIsThere /\ Changed \in net
    /\ RequestReviewRefresh(form.dirty, net \ {Changed})
    /\ UNCHANGED <<surface, workspace, host, shown, form, settle, asking, used, history>>

(***************************************************************************)
(* The settle form.  A page without a suggestion offers nothing to accept  *)
(* or to change.  The call says what was decided, not what it was about.   *)
(***************************************************************************)
Decisions ==
    {d \in [decision : DecisionsOf[surface], differs : BOOLEAN] :
       d.differs => d.decision = "override"}

ClickSettle(d) ==
    /\ open /\ PageIsThere /\ PersonActs
    /\ settle.state \notin {"flying", "locked"}
    /\ d.decision \in {"accept", "override"} => shown.round # None
    /\ settle' = [click |-> used.person + 1, state |-> "flying"]
    /\ net' = net \cup {[kind |-> "settle", click |-> used.person + 1, decision |-> d.decision,
                         differs |-> d.differs, round |-> shown.round]}
    /\ UNCHANGED <<surface, workspace, host, shown, form, refresh, asking, history>>

\* The reply of the form that is still on the page is displayed.
SettleReply(r) ==
    /\ open /\ r \in net
    /\ r.kind = "settled" \/ (r.kind = "failed" /\ r.call.kind = "settle")
    /\ net' = net \ {r}
    /\ settle' = IF settle.click # r.call.click THEN settle
                 ELSE [settle EXCEPT !.state = IF r.kind = "failed" THEN "error"
                                               ELSE IF r.repair THEN "locked" ELSE "settled"]
    /\ UNCHANGED <<surface, workspace, host, shown, form, refresh, asking, used, history>>

\* The composer: what was typed is saved before the agent is asked.
SubmitQuestion ==
    /\ open /\ asking.state = "no" /\ PersonActs
    /\ IF form.dirty
       THEN /\ Composer("flushing")
            /\ form' = [form EXCEPT !.timer = FALSE]
            /\ net' = net \cup {SaveCall("flush")}
       ELSE /\ Composer("waiting")
            /\ net' = net \cup {AskCall}
            /\ form' = form
    /\ UNCHANGED <<surface, workspace, host, shown, refresh, settle, history>>

QuestionEnds(r) ==
    /\ open /\ r \in net
    /\ r.kind = "answered" \/ (r.kind = "failed" /\ r.call.kind = "ask")
    /\ net' = net \ {r}
    /\ Composer(IF asking.state = "waiting" /\ r.call.page = asking.page THEN "no" ELSE asking.state)
    /\ UNCHANGED <<surface, workspace, host, shown, form, refresh, settle, used, history>>

\* The document is requested anew.  With something unsaved the browser asks
\* first; replies to the old page reach nobody, and what it still had to save
\* was saved by another call.
Reload ==
    /\ open /\ ~form.dirty /\ PairIsValid /\ PersonActs
    /\ model' = RenderDocument
    /\ rendered' = rendered \cup {Content}
    /\ BindReviewContent(RenderDocument)
    /\ refresh' = NoRefresh
    /\ asking' = NoQuestion(used.person)
    /\ net' = {c \in net : c.kind \in {"settle", "ask"}} \cup {Changed}
    /\ UNCHANGED <<surface, workspace, open, pending, controller, typed, stored, undrawn, written>>

\* The document cannot be read, or not drawn once it is read.  The browser
\* shows the error; the old page is gone, what it sent is still carried out.
ReloadFails ==
    /\ open /\ ~form.dirty /\ Fault
    /\ \/ UNCHANGED <<model, undrawn>>
       \/ PairIsValid /\ model' = RenderDocument /\ undrawn' = undrawn \cup {Content}
    /\ shown' = NoModel /\ form' = CleanForm(NoModel) /\ refresh' = NoRefresh /\ settle' = NoClick
    /\ asking' = [asking EXCEPT !.state = "gone"]
    /\ net' = {c \in net : c.kind \in {"settle", "ask"}}
    /\ UNCHANGED <<surface, workspace, open, pending, controller, typed, stored, seen, rendered, written>>

-----------------------------------------------------------------------------
AgentCommand ==
    \/ SetMessageAgentSuggestion \/ ClearMessageSuggestion
    \/ SetCaseAgentSuggestion \/ ClearCaseSuggestion
    \/ SetNotificationAgentSuggestion \/ ClearNotificationSuggestion
    \/ ForeignEdit
    \/ ForeignChange

HostCall ==
    \E c \in net : \/ SaveIsStale(c) \/ SaveInWorkspace(c) \/ RefreshModel(c)
                   \/ SettleRefused(c) \/ SettleInWorkspace(c) \/ AcceptAgentMessage(c)

HostFault ==
    \/ \E c \in net : CallFails(c) \/ DrawFails(c) \/ SettleFollowupFails(c)
    \/ ReloadFails
    \/ FailPendingAgent
    \/ ControllerEnds

PageReply ==
    \/ OnState
    \/ \E r \in net : \/ PersistSucceeds(r) \/ PersistFails(r) \/ RefreshReview(r)
                      \/ RefreshFails(r) \/ SettleReply(r) \/ QuestionEnds(r)

Person ==
    \/ Type
    \/ \E d \in Decisions : ClickSettle(d)
    \/ SubmitQuestion
    \/ Reload
    \/ EndSession

Next ==
    \/ AgentCommand
    \/ HostCall
    \/ HostFault
    \/ \E changed \in BOOLEAN : ReviewResponse(changed)
    \/ Persist
    \/ PageReply
    \/ Person

Answer == \E changed \in BOOLEAN : ReviewResponse(changed)

Spec == Init /\ [][Next]_vars

(***************************************************************************)
(* The host's loop takes every call, the browser fires its timers and      *)
(* delivers every reply, and a controller that is still there answers.     *)
(***************************************************************************)
FairSpec == Spec /\ WF_vars(HostCall) /\ WF_vars(PageReply) /\ WF_vars(Persist) /\ WF_vars(Answer)

-----------------------------------------------------------------------------
Models == [doc : 0..(MaxAgent + MaxInputs), other : 0..MaxAgent, round : 0..(MaxAgent + 1)]

\* Every variable holds a value of its kind; while a refresh is in flight there
\* is exactly one call or reply for it, and a locked settle form was settled.
TypeOK ==
    /\ surface \in Surfaces
    /\ Content \in [doc : 0..(MaxAgent + MaxInputs), other : 0..MaxAgent]
    /\ agent = NoSuggestion \/ agent.uid \in 1..(MaxAgent + 1)
    /\ human = NoSuggestion \/ human.uid \in 1..MaxPerson
    /\ model \in Models /\ shown \in Models
    /\ {open, controller, form.dirty, form.timer} \subseteq BOOLEAN
    /\ {form.text, form.base} \subseteq 0..(MaxAgent + MaxInputs)
    /\ refresh \in [wanted : BOOLEAN, flying : BOOLEAN, edited : BOOLEAN, again : BOOLEAN]
    /\ asking \in [page : 0..MaxPerson, state : {"no", "flushing", "waiting", "gone"}]
    /\ open => Cardinality({m \in net : m.kind \in {"refresh", "page"}
                                      \/ (m.kind = "failed" /\ m.call.kind = "refresh")})
                = (IF refresh.flying THEN 1 ELSE 0)
    /\ settle.state = "locked" => settle.click \in written

\* What a person typed last is in the workspace, or still in the editor and
\* marked as unsaved: no refresh, late reply or save in flight takes it away
\* (refreshReviewContentWhenSafe and persist in review_runtime.js).
NoEditIsLost ==
    open => \A t \in typed : \/ \E u \in typed : u > t
                             \/ t \in stored
                             \/ form.text = t /\ form.dirty

\* A save of the page never replaces a text the page has neither displayed nor
\* written: another command's edit is not overwritten unread (the base hash in
\* save_notes_in_workspace and save_draft_in_workspace).
NoUnseenOverwrite == [][doc' # doc /\ doc' \in typed => doc \in seen]_vars

\* A human suggestion that answers the agent is bound to the suggestion that is
\* still there and to the content it was made for, so reading the pair never
\* fails (bind_human_to_agent: "this can only happen to a hand-edited or
\* corrupted file").
HumanIsBoundToAgent == PairIsValid

\* What a settlement is bound to is a content the host drew, or had read for a
\* drawing that failed, up to the page's own saves: a save never makes the
\* model adopt another command's changes (apply_saved_edit_to_model).
SettledWasRendered ==
    human # NoSuggestion => human.hash \in {ReviewBaseHash(c) : c \in rendered \cup undrawn}

\* A click the page reports as failed wrote nothing: a settlement that is on
\* disk is reported as settled although its follow-up failed
\* (report_persisted_settlement_followup_errors, execute_review_action).
ErrorMeansNotSettled == settle.state = "error" => settle.click \notin written

\* A settlement answers the suggestion that is there, for a content the host
\* read as a whole to draw it, and for a click that was not reported as failed.
SettlementIsBound == HumanIsBoundToAgent /\ SettledWasRendered /\ ErrorMeansNotSettled

\* When the agent is asked, what the person had typed before asking is in the
\* workspace the agent reads (the flush before askAgent).
AgentReadsWhatWasTyped == pending # NoCall => pending.text \in stored

\* No text that a person typed is lost on its way to the workspace or missing
\* there when the agent is asked about it.
TypedTextIsKept == NoEditIsLost /\ AgentReadsWhatWasTyped

\* A refresh that is wanted is finally drawn, unless the session ends or the
\* editor is left with a save that was refused and that nobody repeats.
RefreshIsDrawn ==
    refresh.wanted ~> \/ ~refresh.wanted \/ ~open
                      \/ form.dirty /\ ~form.timer /\ \A m \in net : m.kind # "save"

\* A question to the agent ends with an answer or an error while the session
\* and its controller live, so the composer does not stay closed.
QuestionIsAnswered == asking.state = "waiting" ~> asking.state # "waiting" \/ ~open \/ ~controller

\* Neither a refresh nor a question waits forever.
PageIsNeverStuck == RefreshIsDrawn /\ QuestionIsAnswered

=============================================================================
