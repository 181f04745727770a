---------------------------- MODULE ReviewProofs ----------------------------
(***************************************************************************)
(* Proofs about Review for every number of commands, inputs, clicks and    *)
(* faults: no typed text is lost between the page and the workspace, no    *)
(* save replaces a text the page has not seen, and a settlement is bound   *)
(* to the suggestion that is there and to a content the host read as a     *)
(* whole.                                                                  *)
(***************************************************************************)
EXTENDS Review, FiniteSetTheorems, TLAPS

SettleStates == {"idle", "flying", "error", "locked", "settled"}

(* What the counters and the forms can be.                                 *)
CountsOK ==
    /\ other \in Nat
    /\ agent.uid \in Nat
    /\ agent # NoSuggestion => agent.uid # None
    /\ used \in [agent : Nat, person : Nat, faults : Nat]
    /\ settle \in [click : Nat, state : SettleStates]

(* Every number up to the last text was typed or stored, so that the next  *)
(* text is new.                                                            *)
TextsAreCounted == \E last \in Nat : typed \cup stored = 0..last

(* What a message on its way says of the texts: one to be saved is known   *)
(* and based on a text seen; one saved, drawn or asked about is stored.    *)
Sound(m, known, kept, displayed) ==
    /\ m.kind = "save" => m.text \in known /\ m.base \in displayed
    /\ m.kind = "saved" => m.call.text \in kept /\ m.hash \in displayed
    /\ m.kind = "page" => m.model \in [doc : kept, other : Nat, round : Nat]
    /\ m.kind = "ask" => m.text \in kept

TextsOK ==
    /\ TextsAreCounted
    /\ 0 \in seen /\ seen \subseteq stored
    /\ doc \in stored
    /\ model \in [doc : stored, other : Nat, round : Nat]
    /\ form \in [text : typed \cup stored, base : seen, dirty : BOOLEAN, timer : BOOLEAN]
    /\ ~form.dirty => form.text \in stored
    /\ \A m \in net : Sound(m, typed \cup stored, stored, seen)

TextInv == TextsOK /\ NoEditIsLost /\ AgentReadsWhatWasTyped

(* The contents the host read as a whole, up to the saves of its page.     *)
Adopted == rendered \cup undrawn

(* What the host would settle now was read to be drawn.                    *)
BoundInv ==
    /\ ModelContent \in Adopted /\ [doc |-> 0, other |-> 0] \in Adopted
    /\ Adopted \subseteq [doc : stored, other : Nat]
    /\ HumanIsBoundToAgent
    /\ SettledWasRendered

(* A click is in one message at most, and on disk only when its call is    *)
(* gone and its reply is no failure.                                       *)
OfSettle(m) ==
    \/ m.kind \in {"settle", "settled"}
    \/ m.kind = "failed" /\ m.call.kind = "settle"

ClickOf(m) == IF m.kind = "settle" THEN m.click ELSE m.call.click

ClicksOK ==
    /\ pending.kind # "settle"
    /\ written \subseteq 1..used.person
    /\ \A m \in net : OfSettle(m) => ClickOf(m) \in 1..used.person
    /\ \A m, n \in net : OfSettle(m) /\ OfSettle(n) /\ ClickOf(m) = ClickOf(n) => m = n
    /\ \A m \in net : OfSettle(m) /\ m.kind # "settled" => ClickOf(m) \notin written
    /\ settle.state = "error" => \A c \in net : c.kind = "settle" => c.click # settle.click

ClickInv == ClicksOK /\ ErrorMeansNotSettled

-----------------------------------------------------------------------------
(***************************************************************************)
(* Lemmas.                                                                 *)
(***************************************************************************)
(* A new text is greater than every text typed or stored.                  *)
LEMMA TextIsNew ==
    ASSUME TextsAreCounted
    PROVE  /\ Texts \in Nat
           /\ \A t \in typed \cup stored : t \in Nat /\ t < Texts
           /\ typed \cup stored \cup {Texts} = 0..Texts
<1>1. PICK last \in Nat : typed \cup stored = 0..last
  BY DEF TextsAreCounted
<1>2. Cardinality(0..last) = IF 0 > last THEN 0 ELSE last - 0 + 1
  BY FS_Interval
<1>3. Cardinality(0..last) = last + 1
  BY <1>2
<1>4. Texts = last + 1
  BY <1>1, <1>3 DEF Texts
<1> QED BY <1>1, <1>4

(* Messages stay sound when more is known, stored and seen.                *)
LEMMA SoundGrows ==
    ASSUME NEW m, NEW k1, NEW k2, NEW s1, NEW s2, NEW d1, NEW d2,
           k1 \subseteq k2, s1 \subseteq s2, d1 \subseteq d2, Sound(m, k1, s1, d1)
    PROVE  Sound(m, k2, s2, d2)
BY DEF Sound

(* Starting a refresh adds its call and nothing else.                      *)
LEMMA RefreshAddsItsCall ==
    ASSUME NEW r, NEW dirty, NEW n, RefreshWhenSafe(r, dirty, n)
    PROVE  net' = n \/ net' = n \cup {RefreshCall}
BY DEF RefreshWhenSafe

-----------------------------------------------------------------------------
(***************************************************************************)
(* The counters and the forms.                                             *)
(***************************************************************************)
LEMMA CountsAtInit == Init => CountsOK
BY DEF Init, CountsOK, NoClick, SettleStates, NoSuggestion, None

LEMMA CountsKept == CountsOK /\ [Next]_vars => CountsOK'
<1> SUFFICES ASSUME CountsOK, [Next]_vars PROVE CountsOK'
  OBVIOUS
<1> USE DEF CountsOK, SettleStates
<1>1. CASE AgentCommand
  <2>1. NewSuggestion.uid \in Nat \ {0}
    BY DEF NewSuggestion
  <2>2. AgentActs /\ UNCHANGED settle
    BY <1>1 DEF AgentCommand, SetMessageAgentSuggestion, SetCaseAgentSuggestion,
                SetNotificationAgentSuggestion, ClearMessageSuggestion, ClearCaseSuggestion,
                ClearNotificationSuggestion, ReplacePair, ForeignEdit, ForeignChange, page
  <2>3. used' \in [agent : Nat, person : Nat, faults : Nat]
    BY <2>2 DEF AgentActs
  <2>4. UNCHANGED other \/ other' = other + 1
    BY <1>1 DEF AgentCommand, SetMessageAgentSuggestion, SetCaseAgentSuggestion,
                SetNotificationAgentSuggestion, ClearMessageSuggestion, ClearCaseSuggestion,
                ClearNotificationSuggestion, ReplacePair, ForeignEdit, ForeignChange
  <2>5. agent' \in {agent, NoSuggestion, NewSuggestion}
    BY <1>1 DEF AgentCommand, SetMessageAgentSuggestion, SetCaseAgentSuggestion,
                SetNotificationAgentSuggestion, ClearMessageSuggestion, ClearCaseSuggestion,
                ClearNotificationSuggestion, ReplacePair, ForeignEdit, ForeignChange
  <2> QED BY <2>1, <2>2, <2>3, <2>4, <2>5 DEF NoSuggestion, None
<1>2. CASE HostCall
  <2>1. UNCHANGED <<other, agent, used, settle>>
    BY <1>2 DEF HostCall, SaveIsStale, SaveInWorkspace, RefreshModel, SettleRefused,
                SettleInWorkspace, AcceptAgentMessage, workspace, page
  <2> QED BY <2>1
<1>3. CASE HostFault
  <2>1. UNCHANGED <<other, agent>> /\ settle' \in {settle, NoClick} /\ Fault
    BY <1>3 DEF HostFault, CallFails, DrawFails, SettleFollowupFails, FailPendingAgent,
                ControllerEnds, ReloadFails, workspace, page
  <2> QED BY <2>1 DEF Fault, NoClick
<1>4. CASE Answer
  BY <1>4 DEF Answer, ReviewResponse, workspace, host, page
<1>5. CASE Persist
  BY <1>5 DEF Persist, workspace
<1>6. CASE PageReply
  <2>1. UNCHANGED <<other, agent, used>>
    BY <1>6 DEF PageReply, OnState, PersistSucceeds, PersistFails, RefreshReview, RefreshFails,
                SettleReply, QuestionEnds, workspace
  <2>2. \/ settle' \in {settle, NoClick}
        \/ \E state \in SettleStates : settle' = [settle EXCEPT !.state = state]
    <3>1. ASSUME NEW r, SettleReply(r)
          PROVE  \/ settle' = settle
                 \/ \E state \in SettleStates : settle' = [settle EXCEPT !.state = state]
      BY <3>1 DEF SettleReply
    <3> QED BY <1>6, <3>1 DEF PageReply, OnState, PersistSucceeds, PersistFails, RefreshReview,
                              RefreshFails, QuestionEnds, BindReviewContent
  <2> QED BY <2>1, <2>2 DEF NoClick
<1>7. CASE Person
  <2>1. UNCHANGED <<other, agent>>
    BY <1>7 DEF Person, Type, ClickSettle, SubmitQuestion, Reload, EndSession, workspace
  <2>2. used' \in [agent : Nat, person : Nat, faults : Nat]
    BY <1>7 DEF Person, Type, ClickSettle, SubmitQuestion, Reload, EndSession, PersonActs
  <2>3. settle' \in [click : Nat, state : SettleStates]
    BY <1>7 DEF Person, Type, ClickSettle, SubmitQuestion, Reload, EndSession, BindReviewContent,
                NoClick
  <2> QED BY <2>1, <2>2, <2>3
<1>8. CASE UNCHANGED vars
  BY <1>8 DEF vars
<1> QED BY <1>1, <1>2, <1>3, <1>4, <1>5, <1>6, <1>7, <1>8 DEF Next, Answer

-----------------------------------------------------------------------------
(***************************************************************************)
(* Texts.                                                                  *)
(***************************************************************************)
LEMMA TextsAtInit == Init => TextInv
<1> SUFFICES ASSUME Init PROVE TextInv
  OBVIOUS
<1>1. typed \cup stored = 0..0
  BY DEF Init
<1>2. model \in [doc : stored, other : Nat, round : Nat]
  BY DEF Init, NoModel, NoSuggestion, None
<1> QED
  BY <1>1, <1>2 DEF Init, TextInv, TextsOK, TextsAreCounted, NoEditIsLost, AgentReadsWhatWasTyped,
     Sound, CleanForm, NoModel, Changed

(* Messages that say nothing of a text.                                    *)
Harmless(m) == m.kind \notin {"save", "saved", "page", "ask"}

(* A step that leaves the texts, the model and the form alone.             *)
LEMMA QuietStep ==
    ASSUME TextInv, UNCHANGED <<doc, model, form, typed, stored, seen, open>>,
           pending' \in {pending, NoCall},
           \A m \in net' : m \in net \/ Harmless(m)
    PROVE  TextInv'
<1>1. ASSUME NEW m \in net' PROVE Sound(m, typed \cup stored, stored, seen)
  BY <1>1 DEF TextInv, TextsOK, Harmless, Sound
<1>2. TextsOK'
  BY <1>1 DEF TextInv, TextsOK, TextsAreCounted
<1>3. NoEditIsLost' /\ AgentReadsWhatWasTyped'
  BY DEF TextInv, NoEditIsLost, AgentReadsWhatWasTyped
<1> QED BY <1>2, <1>3 DEF TextInv

(* The steps that leave the texts alone.                                   *)
LEMMA QuietActions ==
    ASSUME TextInv,
           \/ SetMessageAgentSuggestion \/ ClearMessageSuggestion
           \/ SetCaseAgentSuggestion \/ ClearCaseSuggestion
           \/ SetNotificationAgentSuggestion \/ ClearNotificationSuggestion
           \/ ForeignChange \/ FailPendingAgent \/ ControllerEnds \/ OnState \/ Answer
           \/ \E d \in Decisions : ClickSettle(d)
           \/ \E c \in net : \/ CallFails(c) \/ SaveIsStale(c) \/ SettleRefused(c)
                             \/ SettleInWorkspace(c) \/ SettleFollowupFails(c)
                             \/ PersistFails(c) \/ RefreshFails(c) \/ SettleReply(c)
                             \/ QuestionEnds(c)
    PROVE  TextInv'
<1>1. CASE \/ SetMessageAgentSuggestion \/ ClearMessageSuggestion
           \/ SetCaseAgentSuggestion \/ ClearCaseSuggestion
           \/ SetNotificationAgentSuggestion \/ ClearNotificationSuggestion
           \/ ForeignChange
  BY <1>1, QuietStep
     DEF SetMessageAgentSuggestion, ClearMessageSuggestion, SetCaseAgentSuggestion,
         ClearCaseSuggestion, SetNotificationAgentSuggestion, ClearNotificationSuggestion,
         ForeignChange, ReplacePair, host, page, history
<1>2. CASE FailPendingAgent \/ ControllerEnds \/ Answer
  BY <1>2, QuietStep
     DEF FailPendingAgent, ControllerEnds, Answer, ReviewResponse, Harmless, Changed, workspace,
         page, history
<1>3. CASE OnState
  <2>1. net' = net \ {Changed} \/ net' = (net \ {Changed}) \cup {RefreshCall}
    BY <1>3, RefreshAddsItsCall DEF OnState, RequestReviewRefresh
  <2> QED BY <1>3, <2>1, QuietStep
             DEF OnState, RefreshCall, Harmless, workspace, host, history
<1>4. ASSUME NEW d \in Decisions, ClickSettle(d) PROVE TextInv'
  BY <1>4, QuietStep DEF ClickSettle, Harmless, workspace, host, history
<1>5. ASSUME NEW c \in net, \/ CallFails(c) \/ SaveIsStale(c) \/ SettleRefused(c)
                            \/ SettleInWorkspace(c) \/ SettleFollowupFails(c)
      PROVE  TextInv'
  <2>1. \A m \in net' : m \in net \/ Harmless(m)
    BY <1>5 DEF CallFails, SaveIsStale, SettleRefused, SettleInWorkspace, SettleFollowupFails,
                Reply, Harmless
  <2>2. UNCHANGED <<doc, host, page, typed, stored, seen>>
    BY <1>5 DEF CallFails, SaveIsStale, SettleRefused, SettleInWorkspace, SettleFollowupFails,
                workspace, history
  <2> QED BY <2>1, <2>2, QuietStep DEF host, page
<1>6. ASSUME NEW r \in net, \/ PersistFails(r) \/ RefreshFails(r) \/ SettleReply(r)
                            \/ QuestionEnds(r)
      PROVE  TextInv'
  <2>1. \A m \in net' : m \in net \/ Harmless(m)
    BY <1>6, RefreshAddsItsCall DEF PersistFails, RefreshFails, SettleReply, QuestionEnds,
                                    RefreshCall, Harmless
  <2>2. UNCHANGED <<doc, host, form, typed, stored, seen>>
    BY <1>6 DEF PersistFails, RefreshFails, SettleReply, QuestionEnds, workspace, history
  <2> QED BY <2>1, <2>2, QuietStep DEF host
<1> QED BY <1>1, <1>2, <1>3, <1>4, <1>5, <1>6

(* Another command writes a text nobody typed.                             *)
LEMMA ForeignEditKeepsTexts == TextInv /\ ForeignEdit => TextInv'
<1> SUFFICES ASSUME TextInv, ForeignEdit PROVE TextInv'
  OBVIOUS
<1>1. /\ doc' = Texts /\ stored' = stored \cup {Texts}
      /\ UNCHANGED <<model, form, typed, seen, open, pending, net>>
  BY DEF ForeignEdit, host, page
<1>2. Texts \in Nat /\ typed \cup stored \cup {Texts} = 0..Texts
  BY TextIsNew DEF TextInv, TextsOK
<1>3. TextsAreCounted'
  BY <1>1, <1>2 DEF TextsAreCounted
<1>4. ASSUME NEW m \in net' PROVE Sound(m, typed' \cup stored', stored', seen')
  BY <1>1, <1>4, SoundGrows DEF TextInv, TextsOK
<1>5. TextsOK'
  BY <1>1, <1>3, <1>4 DEF TextInv, TextsOK
<1>6. NoEditIsLost' /\ AgentReadsWhatWasTyped'
  BY <1>1 DEF TextInv, NoEditIsLost, AgentReadsWhatWasTyped
<1> QED BY <1>5, <1>6 DEF TextInv

(* The person types a new text; it is in the editor and unsaved.           *)
LEMMA TypeKeepsTexts == TextInv /\ Type => TextInv'
<1> SUFFICES ASSUME TextInv, Type PROVE TextInv'
  OBVIOUS
<1>1. /\ form' = [form EXCEPT !.text = Texts, !.dirty = TRUE, !.timer = TRUE]
      /\ typed' = typed \cup {Texts}
      /\ UNCHANGED <<doc, model, stored, seen, open, pending, net>>
  BY DEF Type, workspace, host
<1>2. /\ Texts \in Nat /\ typed \cup stored \cup {Texts} = 0..Texts
      /\ \A t \in typed \cup stored : t \in Nat /\ t < Texts
  BY TextIsNew DEF TextInv, TextsOK
<1>3. TextsAreCounted'
  BY <1>1, <1>2 DEF TextsAreCounted
<1>4. ASSUME NEW m \in net' PROVE Sound(m, typed' \cup stored', stored', seen')
  BY <1>1, <1>4, SoundGrows DEF TextInv, TextsOK
<1>5. /\ form' \in [text : typed' \cup stored', base : seen', dirty : BOOLEAN, timer : BOOLEAN]
      /\ form'.text = Texts /\ form'.dirty
  BY <1>1 DEF TextInv, TextsOK
<1>6. TextsOK'
  BY <1>1, <1>3, <1>4, <1>5 DEF TextInv, TextsOK
<1>7. NoEditIsLost'
  BY <1>1, <1>2, <1>5 DEF TextInv, NoEditIsLost
<1>8. AgentReadsWhatWasTyped'
  BY <1>1 DEF TextInv, AgentReadsWhatWasTyped
<1> QED BY <1>6, <1>7, <1>8 DEF TextInv

(* The workspace takes a text of the page; only what is stored grows.      *)
LEMMA SaveKeepsTexts ==
    ASSUME TextInv, NEW c \in net, SaveInWorkspace(c) PROVE TextInv'
<1>1. /\ c \in net /\ c.kind = "save" /\ c.base = doc
      /\ doc' = c.text /\ model' = [model EXCEPT !.doc = c.text]
      /\ net' = (net \ {c}) \cup {[kind |-> "saved", call |-> c, hash |-> c.text]}
      /\ stored' = stored \cup {c.text} /\ seen' = seen \cup {c.text}
      /\ UNCHANGED <<form, typed, open, pending>>
  BY DEF SaveInWorkspace, ApplySavedEditToModel, Reply, page
<1>2. c.text \in typed \cup stored
  BY <1>1 DEF TextInv, TextsOK, Sound
<1>3. typed' \cup stored' = typed \cup stored
  BY <1>1, <1>2
<1>4. TextsAreCounted'
  BY <1>3 DEF TextInv, TextsOK, TextsAreCounted
<1>5. ASSUME NEW m \in net' PROVE Sound(m, typed' \cup stored', stored', seen')
  <2>1. CASE m \in net
    BY <1>1, <2>1, SoundGrows DEF TextInv, TextsOK
  <2>2. CASE m = [kind |-> "saved", call |-> c, hash |-> c.text]
    BY <1>1, <2>2 DEF Sound
  <2> QED BY <1>1, <1>5, <2>1, <2>2
<1>6. model' \in [doc : stored', other : Nat, round : Nat]
  BY <1>1 DEF TextInv, TextsOK
<1>7. form' \in [text : typed' \cup stored', base : seen', dirty : BOOLEAN, timer : BOOLEAN]
  BY <1>1, <1>3 DEF TextInv, TextsOK
<1>8. TextsOK'
  BY <1>1, <1>4, <1>5, <1>6, <1>7 DEF TextInv, TextsOK
<1>9. NoEditIsLost' /\ AgentReadsWhatWasTyped'
  BY <1>1 DEF TextInv, NoEditIsLost, AgentReadsWhatWasTyped
<1> QED BY <1>8, <1>9 DEF TextInv

(* The model is read anew: its text is the one stored now.                 *)
LEMMA ModelIsRead ==
    ASSUME CountsOK, TextInv
    PROVE  RenderDocument \in [doc : stored, other : Nat, round : Nat]
BY DEF RenderDocument, Round, CountsOK, TextInv, TextsOK

LEMMA RefreshModelKeepsTexts ==
    ASSUME CountsOK, TextInv, NEW c \in net, RefreshModel(c) PROVE TextInv'
<1>1. /\ model' = RenderDocument
      /\ net' = (net \ {c}) \cup {[kind |-> "page", call |-> c, model |-> RenderDocument]}
      /\ UNCHANGED <<doc, form, typed, stored, seen, open, pending>>
  BY DEF RefreshModel, Reply, workspace, page
<1>2. RenderDocument \in [doc : stored, other : Nat, round : Nat]
  BY ModelIsRead
<1>3. ASSUME NEW m \in net' PROVE Sound(m, typed \cup stored, stored, seen)
  BY <1>1, <1>2, <1>3 DEF TextInv, TextsOK, Sound
<1>4. TextsOK'
  BY <1>1, <1>2, <1>3 DEF TextInv, TextsOK, TextsAreCounted
<1>5. NoEditIsLost' /\ AgentReadsWhatWasTyped'
  BY <1>1 DEF TextInv, NoEditIsLost, AgentReadsWhatWasTyped
<1> QED BY <1>4, <1>5 DEF TextInv

(* The model moves, the page does not.                                     *)
LEMMA DrawFailsKeepsTexts ==
    ASSUME CountsOK, TextInv, NEW c \in net, DrawFails(c) PROVE TextInv'
<1>1. /\ model' = RenderDocument
      /\ net' = (net \ {c}) \cup {[kind |-> "failed", call |-> c]}
      /\ UNCHANGED <<doc, form, typed, stored, seen, open, pending>>
  BY DEF DrawFails, Reply, workspace, page
<1>2. RenderDocument \in [doc : stored, other : Nat, round : Nat]
  BY ModelIsRead
<1>3. ASSUME NEW m \in net' PROVE Sound(m, typed \cup stored, stored, seen)
  BY <1>1, <1>3 DEF TextInv, TextsOK, Sound
<1>4. TextsOK'
  BY <1>1, <1>2, <1>3 DEF TextInv, TextsOK, TextsAreCounted
<1>5. NoEditIsLost' /\ AgentReadsWhatWasTyped'
  BY <1>1 DEF TextInv, NoEditIsLost, AgentReadsWhatWasTyped
<1> QED BY <1>4, <1>5 DEF TextInv

(* The agent's question waits; its text is stored.                         *)
LEMMA AcceptKeepsTexts ==
    ASSUME TextInv, NEW c \in net, AcceptAgentMessage(c) PROVE TextInv'
<1>1. /\ c.kind = "ask" /\ pending' \in {pending, c}
      /\ \A m \in net' : m \in net \/ Harmless(m)
      /\ UNCHANGED <<doc, model, form, typed, stored, seen, open>>
  BY DEF AcceptAgentMessage, Reply, Harmless, workspace, page, history
<1>2. c.text \in stored
  BY <1>1 DEF TextInv, TextsOK, Sound
<1>3. ASSUME NEW m \in net' PROVE Sound(m, typed \cup stored, stored, seen)
  BY <1>1, <1>3 DEF TextInv, TextsOK, Harmless, Sound
<1>4. TextsOK'
  BY <1>1, <1>3 DEF TextInv, TextsOK, TextsAreCounted
<1>5. NoEditIsLost' /\ AgentReadsWhatWasTyped'
  BY <1>1, <1>2 DEF TextInv, NoEditIsLost, AgentReadsWhatWasTyped
<1> QED BY <1>4, <1>5 DEF TextInv

(* The save timer fires: the text on its way is the one in the editor.     *)
LEMMA PersistKeepsTexts == TextInv /\ Persist => TextInv'
<1> SUFFICES ASSUME TextInv, Persist PROVE TextInv'
  OBVIOUS
<1>1. /\ form' = [form EXCEPT !.timer = FALSE]
      /\ net' = net \cup {SaveCall("timer")}
      /\ UNCHANGED <<doc, model, typed, stored, seen, open, pending>>
  BY DEF Persist, workspace, host, history
<1>2. /\ form' \in [text : typed \cup stored, base : seen, dirty : BOOLEAN, timer : BOOLEAN]
      /\ form'.text = form.text /\ form'.dirty = form.dirty
  BY <1>1 DEF TextInv, TextsOK
<1>3. Sound(SaveCall("timer"), typed \cup stored, stored, seen)
  BY DEF SaveCall, Sound, TextInv, TextsOK
<1>4. TextsOK'
  BY <1>1, <1>2, <1>3 DEF TextInv, TextsOK, TextsAreCounted
<1>5. NoEditIsLost' /\ AgentReadsWhatWasTyped'
  BY <1>1, <1>2 DEF TextInv, NoEditIsLost, AgentReadsWhatWasTyped
<1> QED BY <1>4, <1>5 DEF TextInv

(* A question sends what is unsaved first, or is about a stored text.      *)
LEMMA QuestionKeepsTexts == TextInv /\ SubmitQuestion => TextInv'
<1> SUFFICES ASSUME TextInv, SubmitQuestion PROVE TextInv'
  OBVIOUS
<1>1. /\ \/ form' = [form EXCEPT !.timer = FALSE] /\ net' = net \cup {SaveCall("flush")}
         \/ form' = form /\ net' = net \cup {AskCall} /\ ~form.dirty
      /\ UNCHANGED <<doc, model, typed, stored, seen, open, pending>>
  BY DEF SubmitQuestion, workspace, host, history
<1>2. /\ form' \in [text : typed \cup stored, base : seen, dirty : BOOLEAN, timer : BOOLEAN]
      /\ form'.text = form.text /\ form'.dirty = form.dirty
  BY <1>1 DEF TextInv, TextsOK
<1>3. Sound(SaveCall("flush"), typed \cup stored, stored, seen)
  BY DEF SaveCall, Sound, TextInv, TextsOK
<1>4. ~form.dirty => Sound(AskCall, typed \cup stored, stored, seen)
  BY DEF AskCall, Sound, TextInv, TextsOK
<1>5. \A m \in net' : Sound(m, typed \cup stored, stored, seen)
  BY <1>1, <1>3, <1>4 DEF TextInv, TextsOK
<1>6. TextsOK'
  BY <1>1, <1>2, <1>5 DEF TextInv, TextsOK, TextsAreCounted
<1>7. NoEditIsLost' /\ AgentReadsWhatWasTyped'
  BY <1>1, <1>2 DEF TextInv, NoEditIsLost, AgentReadsWhatWasTyped
<1> QED BY <1>6, <1>7 DEF TextInv

(* A confirmed save makes the form clean only when its text is the one in  *)
(* the editor, and that text is stored.                                    *)
LEMMA SavedKeepsTexts ==
    ASSUME TextInv, NEW r \in net, PersistSucceeds(r) PROVE TextInv'
<1> DEFINE clean == r.call.text = form.text
           dirty == form.dirty /\ ~clean
<1>1. r.kind = "saved" /\ Saved(r) /\ UNCHANGED <<doc, host, typed, stored, seen>>
  BY DEF PersistSucceeds, workspace, history
<1>2. r.call.text \in stored /\ r.hash \in seen
  BY <1>1 DEF TextInv, TextsOK, Sound
<1>3. form' = [form EXCEPT !.base = r.hash, !.dirty = dirty, !.timer = @ \/ ~clean]
  BY <1>1 DEF Saved
<1>4. /\ form' \in [text : typed \cup stored, base : seen, dirty : BOOLEAN, timer : BOOLEAN]
      /\ form'.text = form.text /\ (form'.dirty <=> dirty)
  <2>1. form.timer \in BOOLEAN /\ dirty \in BOOLEAN /\ (form.timer \/ ~clean) \in BOOLEAN
    BY DEF TextInv, TextsOK
  <2> QED BY <1>2, <1>3, <2>1 DEF TextInv, TextsOK
<1>5. \/ dirty /\ \A m \in net' : m \in net \cup {RefreshCall}
      \/ ~dirty /\ \A m \in net' : m \in net \cup {AskCall, RefreshCall}
  <2>1. \A n : RequestReviewRefresh(dirty, n) => net' = n \/ net' = n \cup {RefreshCall}
    BY RefreshAddsItsCall DEF RequestReviewRefresh
  <2>2. \/ ~dirty /\ RequestReviewRefresh(dirty, (net \ {r}) \cup {AskCall})
        \/ RequestReviewRefresh(dirty, net \ {r})
    BY <1>1 DEF Saved
  <2> QED BY <2>1, <2>2
<1>6. ~dirty => form.text \in stored
  BY <1>2 DEF TextInv, TextsOK
<1>7. Sound(RefreshCall, typed \cup stored, stored, seen)
  BY DEF RefreshCall, Sound
<1>8. ~dirty => Sound(AskCall, typed \cup stored, stored, seen)
  BY <1>6 DEF AskCall, Sound
<1> HIDE DEF dirty, clean
<1>9. \A m \in net' : Sound(m, typed \cup stored, stored, seen)
  BY <1>5, <1>7, <1>8 DEF TextInv, TextsOK
<1>10. TextsOK'
  BY <1>1, <1>4, <1>6, <1>9 DEF TextInv, TextsOK, TextsAreCounted, host
<1>11. NoEditIsLost'
  BY <1>1, <1>4, <1>6 DEF TextInv, NoEditIsLost, TextsOK, host, dirty
<1>12. AgentReadsWhatWasTyped'
  BY <1>1 DEF TextInv, AgentReadsWhatWasTyped, host
<1> QED BY <1>10, <1>11, <1>12 DEF TextInv

(* A form drawn from a sound model is clean and its text is stored.        *)
LEMMA DrawnForm ==
    ASSUME TextInv, NEW m \in [doc : stored, other : Nat, round : Nat], BindReviewContent(m)
    PROVE  /\ seen' = seen \cup {m.doc}
           /\ form' \in [text : typed \cup stored, base : seen', dirty : BOOLEAN, timer : BOOLEAN]
           /\ form'.text \in stored /\ ~form'.dirty
BY DEF BindReviewContent, CleanForm

(* The answer to a refresh is dropped, or drawn over a clean form.         *)
LEMMA DrawingKeepsTexts ==
    ASSUME TextInv, NEW r \in net, RefreshReview(r) PROVE TextInv'
<1>1. /\ r.kind = "page"
      /\ UNCHANGED <<doc, host, typed, stored>>
      /\ \A m \in net' : m \in net \/ m = RefreshCall
  <2>1. \/ RefreshWhenSafe(Landed(TRUE), form.dirty, net \ {r})
        \/ RefreshWhenSafe(Landed(refresh.again), FALSE, net \ {r})
    BY DEF RefreshReview
  <2>2. net' = net \ {r} \/ net' = (net \ {r}) \cup {RefreshCall}
    BY <2>1, RefreshAddsItsCall
  <2> QED BY <2>2 DEF RefreshReview, workspace
<1>2. r.model \in [doc : stored, other : Nat, round : Nat]
  BY <1>1 DEF TextInv, TextsOK, Sound
<1>3. \/ UNCHANGED <<form, seen>>
      \/ ~form.dirty /\ BindReviewContent(r.model)
  BY DEF RefreshReview
<1>4. Sound(RefreshCall, typed \cup stored, stored, seen)
  BY DEF RefreshCall, Sound
<1>5. CASE UNCHANGED <<form, seen>>
  <2>1. TextsOK'
    BY <1>1, <1>4, <1>5 DEF TextInv, TextsOK, TextsAreCounted, host
  <2>2. NoEditIsLost' /\ AgentReadsWhatWasTyped'
    BY <1>1, <1>5 DEF TextInv, NoEditIsLost, AgentReadsWhatWasTyped, host
  <2> QED BY <2>1, <2>2 DEF TextInv
<1>6. CASE ~form.dirty /\ BindReviewContent(r.model)
  <2>1. /\ seen' = seen \cup {r.model.doc}
        /\ form' \in [text : typed \cup stored, base : seen', dirty : BOOLEAN, timer : BOOLEAN]
        /\ form'.text \in stored /\ ~form'.dirty
    BY <1>2, <1>6, DrawnForm
  <2>2. ASSUME NEW m \in net' PROVE Sound(m, typed \cup stored, stored, seen')
    BY <1>1, <1>4, <2>1, <2>2, SoundGrows DEF TextInv, TextsOK
  <2>3. TextsOK'
    BY <1>1, <1>2, <2>1, <2>2 DEF TextInv, TextsOK, TextsAreCounted, host
  <2>4. NoEditIsLost' /\ AgentReadsWhatWasTyped'
    BY <1>1, <1>6 DEF TextInv, NoEditIsLost, AgentReadsWhatWasTyped, host
  <2> QED BY <2>3, <2>4 DEF TextInv
<1> QED BY <1>3, <1>5, <1>6

(* A clean page may be loaded anew.                                        *)
LEMMA ReloadKeepsTexts == CountsOK /\ TextInv /\ Reload => TextInv'
<1> SUFFICES ASSUME CountsOK, TextInv, Reload PROVE TextInv'
  OBVIOUS
<1>1. /\ ~form.dirty /\ model' = RenderDocument /\ BindReviewContent(RenderDocument)
      /\ \A m \in net' : m \in net \/ m = Changed
      /\ UNCHANGED <<doc, open, pending, typed, stored>>
  BY DEF Reload, workspace
<1>2. RenderDocument \in [doc : stored, other : Nat, round : Nat]
  BY ModelIsRead
<1>3. /\ seen' = seen \cup {RenderDocument.doc}
      /\ form' \in [text : typed \cup stored, base : seen', dirty : BOOLEAN, timer : BOOLEAN]
      /\ form'.text \in stored /\ ~form'.dirty
  BY <1>1, <1>2, DrawnForm
<1>4. Sound(Changed, typed \cup stored, stored, seen)
  BY DEF Changed, Sound
<1>5. ASSUME NEW m \in net' PROVE Sound(m, typed \cup stored, stored, seen')
  BY <1>1, <1>3, <1>4, <1>5, SoundGrows DEF TextInv, TextsOK
<1>6. TextsOK'
  BY <1>1, <1>2, <1>3, <1>5 DEF TextInv, TextsOK, TextsAreCounted
<1>7. NoEditIsLost' /\ AgentReadsWhatWasTyped'
  BY <1>1 DEF TextInv, NoEditIsLost, AgentReadsWhatWasTyped
<1> QED BY <1>6, <1>7 DEF TextInv

(* A clean page that cannot be loaded leaves nothing unsaved behind.       *)
LEMMA ReloadFailsKeepsTexts == CountsOK /\ TextInv /\ ReloadFails => TextInv'
<1> SUFFICES ASSUME CountsOK, TextInv, ReloadFails PROVE TextInv'
  OBVIOUS
<1>1. /\ ~form.dirty /\ model' \in {model, RenderDocument} /\ form' = CleanForm(NoModel)
      /\ net' \subseteq net
      /\ UNCHANGED <<doc, open, pending, typed, stored, seen>>
  BY DEF ReloadFails, workspace
<1>2. model' \in [doc : stored, other : Nat, round : Nat]
  BY <1>1, ModelIsRead DEF TextInv, TextsOK
<1>3. /\ form' \in [text : typed \cup stored, base : seen, dirty : BOOLEAN, timer : BOOLEAN]
      /\ form'.text \in stored /\ ~form'.dirty
  BY <1>1 DEF CleanForm, NoModel, TextInv, TextsOK
<1>4. TextsOK'
  BY <1>1, <1>2, <1>3 DEF TextInv, TextsOK, TextsAreCounted
<1>5. NoEditIsLost' /\ AgentReadsWhatWasTyped'
  BY <1>1 DEF TextInv, NoEditIsLost, AgentReadsWhatWasTyped
<1> QED BY <1>4, <1>5 DEF TextInv

(* The session ends: nothing is on its way, nothing is claimed of the page.*)
LEMMA EndKeepsTexts == TextInv /\ EndSession => TextInv'
<1> SUFFICES ASSUME TextInv, EndSession PROVE TextInv'
  OBVIOUS
<1>1. /\ ~open' /\ model' = NoModel /\ pending' = NoCall /\ form' = CleanForm(NoModel)
      /\ net' = {} /\ UNCHANGED <<doc, typed, stored, seen>>
  BY DEF EndSession, workspace, history
<1>2. model' \in [doc : stored, other : Nat, round : Nat]
  BY <1>1 DEF NoModel, None, TextInv, TextsOK
<1>3. /\ form' \in [text : typed \cup stored, base : seen, dirty : BOOLEAN, timer : BOOLEAN]
      /\ form'.text \in stored
  BY <1>1 DEF CleanForm, NoModel, TextInv, TextsOK
<1> QED BY <1>1, <1>2, <1>3 DEF TextInv, TextsOK, TextsAreCounted, NoEditIsLost,
                                AgentReadsWhatWasTyped

LEMMA TextsKept == CountsOK /\ TextInv /\ [Next]_vars => TextInv'
<1> SUFFICES ASSUME CountsOK, TextInv, [Next]_vars PROVE TextInv'
  OBVIOUS
<1>1. CASE AgentCommand
  BY <1>1, QuietActions, ForeignEditKeepsTexts DEF AgentCommand
<1>2. CASE HostCall
  BY <1>2, QuietActions, SaveKeepsTexts, RefreshModelKeepsTexts, AcceptKeepsTexts DEF HostCall
<1>3. CASE HostFault
  BY <1>3, QuietActions, DrawFailsKeepsTexts, ReloadFailsKeepsTexts DEF HostFault
<1>4. CASE Answer
  BY <1>4, QuietActions
<1>5. CASE Persist
  BY <1>5, PersistKeepsTexts
<1>6. CASE PageReply
  BY <1>6, QuietActions, SavedKeepsTexts, DrawingKeepsTexts DEF PageReply
<1>7. CASE Person
  BY <1>7, QuietActions, TypeKeepsTexts, QuestionKeepsTexts, ReloadKeepsTexts, EndKeepsTexts
     DEF Person
<1>8. CASE UNCHANGED vars
  BY <1>8, QuietStep DEF vars
<1> QED BY <1>1, <1>2, <1>3, <1>4, <1>5, <1>6, <1>7, <1>8 DEF Next, Answer

-----------------------------------------------------------------------------
(***************************************************************************)
(* What a settlement is bound to.                                          *)
(***************************************************************************)
LEMMA BoundAtInit == Init => BoundInv
BY DEF Init, BoundInv, Adopted, ModelContent, NoModel, HumanIsBoundToAgent, PairIsValid,
       SettledWasRendered

(* A step that leaves the suggestions alone and counts what it reads.      *)
LEMMA BoundWithoutSettling ==
    ASSUME BoundInv, UNCHANGED <<surface, human, agent>>,
           Adopted \subseteq Adopted', Adopted' \subseteq [doc : stored', other : Nat],
           ModelContent' \in Adopted'
    PROVE  BoundInv'
<1>1. HumanIsBoundToAgent'
  BY DEF BoundInv, HumanIsBoundToAgent, PairIsValid, BindHumanToAgent, OutcomeFitsBase
<1>2. SettledWasRendered'
  BY DEF BoundInv, Adopted, SettledWasRendered, ReviewBaseHash
<1> QED BY <1>1, <1>2 DEF BoundInv

(* A step that concerns neither the suggestions nor the model.             *)
LEMMA BoundElsewhere ==
    ASSUME BoundInv, UNCHANGED <<surface, human, agent, model, rendered, undrawn>>,
           stored \subseteq stored'
    PROVE  BoundInv'
<1>1. /\ ModelContent' = ModelContent /\ Adopted' = Adopted
      /\ Adopted \subseteq [doc : stored', other : Nat]
  BY DEF BoundInv, Adopted, ModelContent
<1> QED BY <1>1, BoundWithoutSettling DEF BoundInv

(* Another suggestion of the agent, or none: the human one goes.           *)
LEMMA BoundAfterReplacement ==
    ASSUME BoundInv, NEW a, ReplacePair(a)
    PROVE  BoundInv'
<1>1. human' = NoSuggestion /\ UNCHANGED <<model, rendered, undrawn, stored>>
  BY DEF ReplacePair, host, history
<1>2. HumanIsBoundToAgent' /\ SettledWasRendered'
  BY <1>1 DEF HumanIsBoundToAgent, PairIsValid, SettledWasRendered, NoSuggestion
<1> QED BY <1>1, <1>2 DEF BoundInv, Adopted, ModelContent

(* A decision that is written answers the suggestion that is there, or     *)
(* none, and its content is the one the model was read with.               *)
LEMMA BoundAfterSettling ==
    ASSUME CountsOK, BoundInv, NEW c, CanSettle(c), human' = HumanSuggestion(c),
           UNCHANGED <<surface, agent, model, rendered, undrawn, stored>>
    PROVE  BoundInv'
<1>1. /\ human'.outcome = c.decision
      /\ human'.hash = ReviewBaseHash(ModelContent)
      /\ human'.based = IF AnswersAgent(c) THEN agent.uid ELSE None
  BY DEF HumanSuggestion
<1>2. AnswersAgent(c) => agent.hash = ReviewBaseHash(ModelContent)
  BY DEF CanSettle
<1>3. c.decision \in {"accept", "override"} => AnswersAgent(c)
  BY DEF CanSettle, ValidHumanFields, AnswersAgent
<1>4. AnswersAgent(c) => agent.uid # None
  BY DEF AnswersAgent, HasSuggestion, CountsOK
<1>5. c.decision = "decide" => ~AnswersAgent(c)
  BY DEF AnswersAgent
<1>6. BindHumanToAgent'
  BY <1>1, <1>2 DEF BindHumanToAgent
<1>7. OutcomeFitsBase(human)'
  BY <1>1, <1>3, <1>4, <1>5 DEF OutcomeFitsBase
<1>8. HumanIsBoundToAgent'
  BY <1>6, <1>7 DEF HumanIsBoundToAgent, PairIsValid
<1>9. SettledWasRendered'
  BY <1>1 DEF BoundInv, Adopted, SettledWasRendered, ReviewBaseHash
<1> QED BY <1>8, <1>9 DEF BoundInv, Adopted, ModelContent

(* A save moves the document of the model and of everything read before.   *)
LEMMA BoundAfterSave ==
    ASSUME TextInv, BoundInv, NEW c \in net, SaveInWorkspace(c)
    PROVE  BoundInv'
<1>1. /\ model' = [model EXCEPT !.doc = c.text]
      /\ stored' = stored \cup {c.text}
      /\ Adopted' = Adopted \cup {[r EXCEPT !.doc = c.text] : r \in Adopted}
      /\ UNCHANGED <<surface, human, agent>>
  BY DEF SaveInWorkspace, ApplySavedEditToModel, Adopted
<1>2. ModelContent' = [ModelContent EXCEPT !.doc = c.text]
  BY <1>1 DEF ModelContent, TextInv, TextsOK
<1>3. ASSUME NEW r \in Adopted
      PROVE  [r EXCEPT !.doc = c.text] \in [doc : stored', other : Nat]
  BY <1>1 DEF BoundInv
<1>4. /\ Adopted \subseteq Adopted' /\ ModelContent' \in Adopted'
      /\ Adopted' \subseteq [doc : stored', other : Nat]
  BY <1>1, <1>2, <1>3 DEF BoundInv
<1> QED BY <1>1, <1>4, BoundWithoutSettling

(* What is read anew is drawn, or the drawing fails.                       *)
LEMMA BoundAfterReading ==
    ASSUME CountsOK, TextInv, BoundInv, model' = RenderDocument,
           Adopted' = Adopted \cup {Content}, UNCHANGED <<surface, human, agent, stored>>
    PROVE  BoundInv'
<1>1. ModelContent' = Content
  BY DEF ModelContent, RenderDocument, Content
<1>2. Content \in [doc : stored, other : Nat]
  BY DEF Content, CountsOK, TextInv, TextsOK
<1>3. Adopted' \subseteq [doc : stored', other : Nat]
  BY <1>2 DEF BoundInv
<1> QED BY <1>1, <1>3, BoundWithoutSettling

LEMMA BoundAfterEnd ==
    ASSUME BoundInv, EndSession
    PROVE  BoundInv'
<1>1. model' = NoModel /\ Adopted' = Adopted /\ UNCHANGED <<surface, human, agent, stored>>
  BY DEF EndSession, Adopted, workspace, history
<1>2. ModelContent' = [doc |-> 0, other |-> 0]
  BY <1>1 DEF ModelContent, NoModel
<1> QED BY <1>1, <1>2, BoundWithoutSettling DEF BoundInv

LEMMA BoundKept == CountsOK /\ TextInv /\ BoundInv /\ [Next]_vars => BoundInv'
<1> SUFFICES ASSUME CountsOK, TextInv, BoundInv, [Next]_vars PROVE BoundInv'
  OBVIOUS
<1>1. CASE AgentCommand
  <2>1. CASE ForeignEdit \/ ForeignChange
    BY <2>1, BoundElsewhere DEF ForeignEdit, ForeignChange, host, history
  <2>2. CASE \E a : ReplacePair(a)
    BY <2>2, BoundAfterReplacement
  <2> QED BY <1>1, <2>1, <2>2
             DEF AgentCommand, SetMessageAgentSuggestion, ClearMessageSuggestion,
                 SetCaseAgentSuggestion, ClearCaseSuggestion, SetNotificationAgentSuggestion,
                 ClearNotificationSuggestion
<1>2. CASE HostCall
  <2>1. ASSUME NEW c \in net, \/ SaveIsStale(c) \/ SettleRefused(c) \/ AcceptAgentMessage(c)
        PROVE  BoundInv'
    BY <2>1, BoundElsewhere DEF SaveIsStale, SettleRefused, AcceptAgentMessage, workspace, host,
                                history
  <2>2. ASSUME NEW c \in net, SettleInWorkspace(c) PROVE BoundInv'
    BY <2>2, BoundAfterSettling DEF SettleInWorkspace, host
  <2>3. ASSUME NEW c \in net, RefreshModel(c) PROVE BoundInv'
    BY <2>3, BoundAfterReading DEF RefreshModel, Adopted, workspace
  <2> QED BY <1>2, <2>1, <2>2, <2>3, BoundAfterSave DEF HostCall
<1>3. CASE HostFault
  <2>1. ASSUME NEW c \in net, SettleFollowupFails(c) PROVE BoundInv'
    BY <2>1, BoundAfterSettling DEF SettleFollowupFails, host
  <2>2. CASE FailPendingAgent \/ ControllerEnds \/ \E c \in net : CallFails(c)
    BY <2>2, BoundElsewhere DEF FailPendingAgent, ControllerEnds, CallFails, workspace, host,
                                history
  <2>3. ASSUME NEW c \in net, DrawFails(c) PROVE BoundInv'
    BY <2>3, BoundAfterReading DEF DrawFails, Adopted, workspace
  <2>4. CASE ReloadFails
    <3>1. CASE UNCHANGED <<model, undrawn>>
      BY <2>4, <3>1, BoundElsewhere DEF ReloadFails, workspace
    <3>2. CASE model' = RenderDocument /\ undrawn' = undrawn \cup {Content}
      BY <2>4, <3>2, BoundAfterReading DEF ReloadFails, Adopted, workspace
    <3> QED BY <2>4, <3>1, <3>2 DEF ReloadFails
  <2> QED BY <1>3, <2>1, <2>2, <2>3, <2>4 DEF HostFault
<1>4. CASE Answer \/ Persist
  BY <1>4, BoundElsewhere DEF Answer, ReviewResponse, Persist, workspace, host, history
<1>5. CASE PageReply
  <2>1. UNCHANGED <<surface, workspace, host, rendered, undrawn, stored>>
    BY <1>5 DEF PageReply, OnState, PersistSucceeds, PersistFails, RefreshReview, RefreshFails,
                SettleReply, QuestionEnds, history
  <2> QED BY <2>1, BoundElsewhere DEF workspace, host
<1>6. CASE Person
  <2>1. CASE Type \/ SubmitQuestion \/ \E d \in Decisions : ClickSettle(d)
    BY <2>1, BoundElsewhere DEF Type, SubmitQuestion, ClickSettle, workspace, host, history
  <2>2. CASE Reload
    BY <2>2, BoundAfterReading DEF Reload, Adopted, workspace
  <2> QED BY <1>6, <2>1, <2>2, BoundAfterEnd DEF Person
<1>7. CASE UNCHANGED vars
  BY <1>7, BoundElsewhere DEF vars
<1> QED BY <1>1, <1>2, <1>3, <1>4, <1>5, <1>6, <1>7 DEF Next, Answer

-----------------------------------------------------------------------------
(***************************************************************************)
(* Clicks.                                                                 *)
(***************************************************************************)
LEMMA ClicksAtInit == Init => ClickInv
BY DEF Init, ClickInv, ClicksOK, ErrorMeansNotSettled, NoClick, NoCall, Changed,
       OfSettle

(* A step with no new message about a settlement and no new error.         *)
LEMMA ClicksElsewhere ==
    ASSUME CountsOK, CountsOK', ClickInv, UNCHANGED written,
           settle' = settle \/ settle'.state # "error",
           used'.person >= used.person,
           pending' = pending \/ pending'.kind # "settle",
           \A m \in net' : m \in net \/ ~OfSettle(m)
    PROVE  ClickInv'
<1>1. /\ used.person \in Nat /\ used'.person \in Nat
      /\ 1..used.person \subseteq 1..used'.person
  BY DEF CountsOK
<1>2. written' \subseteq 1..used'.person
  BY <1>1 DEF ClickInv, ClicksOK
<1>3. \A m \in net' : OfSettle(m) => m \in net
  OBVIOUS
<1>4. \A m \in net' : OfSettle(m) => ClickOf(m) \in 1..used'.person
  BY <1>1, <1>3 DEF ClickInv, ClicksOK
<1>5. \A m, n \in net' : OfSettle(m) /\ OfSettle(n) /\ ClickOf(m) = ClickOf(n) => m = n
  BY <1>3 DEF ClickInv, ClicksOK
<1>6. \A m \in net' : OfSettle(m) /\ m.kind # "settled" => ClickOf(m) \notin written'
  BY <1>3 DEF ClickInv, ClicksOK
<1>7. settle'.state = "error" => \A c \in net' : c.kind = "settle" => c.click # settle'.click
  BY DEF ClickInv, ClicksOK, OfSettle
<1>8. ClicksOK'
  BY <1>2, <1>4, <1>5, <1>6, <1>7 DEF ClickInv, ClicksOK, OfSettle, ClickOf
<1>9. ErrorMeansNotSettled'
  BY DEF ClickInv, ErrorMeansNotSettled
<1> QED BY <1>8, <1>9 DEF ClickInv

(* A call is exchanged for its reply: a failure when nothing was written,  *)
(* settled when the click is on disk.                                      *)
LEMMA ClicksAfterCall ==
    ASSUME ClickInv, NEW c \in net, c.kind = "settle",
           UNCHANGED <<settle, pending>>, used'.person = used.person,
           NEW reply, reply.call = c, net' = (net \ {c}) \cup {reply},
           \/ reply.kind = "failed" /\ written' = written
           \/ reply.kind = "settled" /\ written' = written \cup {c.click}
    PROVE  ClickInv'
<1>1. OfSettle(c) /\ ClickOf(c) = c.click /\ OfSettle(reply) /\ ClickOf(reply) = c.click
  BY DEF OfSettle, ClickOf
<1>2. c.click \in 1..used.person /\ c.click \notin written
  BY <1>1 DEF ClickInv, ClicksOK
<1>3. \A m \in net : OfSettle(m) /\ m # c => ClickOf(m) # c.click
  BY <1>1 DEF ClickInv, ClicksOK
<1>4. written' \subseteq 1..used'.person
  BY <1>2 DEF ClickInv, ClicksOK
<1>5. \A m \in net' : OfSettle(m) => ClickOf(m) \in 1..used'.person
  BY <1>1, <1>2 DEF ClickInv, ClicksOK
<1>6. \A m, n \in net' : OfSettle(m) /\ OfSettle(n) /\ ClickOf(m) = ClickOf(n) => m = n
  <2> SUFFICES ASSUME NEW m \in net', NEW n \in net', OfSettle(m), OfSettle(n),
                      ClickOf(m) = ClickOf(n)
               PROVE  m = n
    OBVIOUS
  <2>1. (m \in net /\ m # c) \/ m = reply
    OBVIOUS
  <2>2. (n \in net /\ n # c) \/ n = reply
    OBVIOUS
  <2> QED BY <1>1, <1>3, <2>1, <2>2 DEF ClickInv, ClicksOK
<1>7. \A m \in net' : OfSettle(m) /\ m.kind # "settled" => ClickOf(m) \notin written'
  BY <1>1, <1>2, <1>3 DEF ClickInv, ClicksOK
<1>8. settle'.state = "error" => \A d \in net' : d.kind = "settle" => d.click # settle'.click
  BY DEF ClickInv, ClicksOK
<1>9. ClicksOK'
  BY <1>4, <1>5, <1>6, <1>7, <1>8 DEF ClickInv, ClicksOK, OfSettle, ClickOf
<1>10. settle.state = "error" => c.click # settle.click
  BY DEF ClickInv, ClicksOK
<1>11. ErrorMeansNotSettled'
  BY <1>10 DEF ClickInv, ErrorMeansNotSettled
<1> QED BY <1>9, <1>11 DEF ClickInv

LEMMA ClicksAfterFailure ==
    ASSUME ClickInv, NEW c \in net, c.kind = "settle",
           UNCHANGED <<settle, pending, written>>, used'.person = used.person,
           Reply(c, [kind |-> "failed", call |-> c])
    PROVE  ClickInv'
<1> DEFINE reply == [kind |-> "failed", call |-> c]
<1>1. reply.kind = "failed" /\ reply.call = c /\ net' = (net \ {c}) \cup {reply}
  BY DEF Reply
<1> HIDE DEF reply
<1> QED BY <1>1, ClicksAfterCall

LEMMA ClicksAfterSettling ==
    ASSUME ClickInv, NEW c \in net, c.kind = "settle",
           UNCHANGED <<settle, pending>>, used'.person = used.person,
           NEW repair, Reply(c, [kind |-> "settled", call |-> c, repair |-> repair]),
           written' = written \cup {c.click}
    PROVE  ClickInv'
<1> DEFINE reply == [kind |-> "settled", call |-> c, repair |-> repair]
<1>1. reply.kind = "settled" /\ reply.call = c /\ net' = (net \ {c}) \cup {reply}
  BY DEF Reply
<1> HIDE DEF reply
<1> QED BY <1>1, ClicksAfterCall

(* A click has a number of its own.                                        *)
LEMMA ClicksAfterClick ==
    ASSUME CountsOK, ClickInv, NEW d \in Decisions, ClickSettle(d)
    PROVE  ClickInv'
<1> DEFINE click == used.person + 1
           call == [kind |-> "settle", click |-> click, decision |-> d.decision,
                    differs |-> d.differs, round |-> shown.round]
<1>1. /\ used' = [used EXCEPT !.person = @ + 1]
      /\ settle' = [click |-> click, state |-> "flying"]
      /\ net' = net \cup {call}
      /\ UNCHANGED <<pending, written>>
  BY DEF ClickSettle, PersonActs, host, history
<1>2. used.person \in Nat /\ used'.person = click
  BY <1>1 DEF CountsOK
<1>3. OfSettle(call) /\ ClickOf(call) = click
  BY DEF OfSettle, ClickOf
<1>4. \A m \in net : OfSettle(m) => ClickOf(m) \in 1..used.person
  BY DEF ClickInv, ClicksOK
<1>5. click \notin 1..used.person /\ 1..used.person \subseteq 1..click /\ click \in 1..click
  BY <1>2
<1> HIDE DEF call, click
<1>6. written' \subseteq 1..used'.person
  BY <1>1, <1>2, <1>5 DEF ClickInv, ClicksOK
<1>7. \A m \in net' : OfSettle(m) => ClickOf(m) \in 1..used'.person
  BY <1>1, <1>2, <1>3, <1>4, <1>5
<1>8. \A m, n \in net' : OfSettle(m) /\ OfSettle(n) /\ ClickOf(m) = ClickOf(n) => m = n
  BY <1>1, <1>3, <1>4, <1>5 DEF ClickInv, ClicksOK
<1>9. \A m \in net' : OfSettle(m) /\ m.kind # "settled" => ClickOf(m) \notin written'
  <2>1. click \notin written
    BY <1>5 DEF ClickInv, ClicksOK
  <2> QED BY <1>1, <1>3, <2>1 DEF ClickInv, ClicksOK
<1>10. settle'.state # "error"
  BY <1>1
<1>11. ClicksOK'
  BY <1>1, <1>6, <1>7, <1>8, <1>9, <1>10 DEF ClickInv, ClicksOK, OfSettle, ClickOf
<1> QED BY <1>10, <1>11 DEF ClickInv, ErrorMeansNotSettled

(* A reply is displayed when its form is still on the page.                *)
LEMMA ClicksAfterReply ==
    ASSUME CountsOK, ClickInv, NEW r \in net, SettleReply(r)
    PROVE  ClickInv'
<1>1. /\ OfSettle(r) /\ r.kind # "settle" /\ ClickOf(r) = r.call.click
      /\ net' = net \ {r} /\ UNCHANGED <<pending, used, written>>
  BY DEF SettleReply, OfSettle, ClickOf, host, history
<1>2. \/ settle' = settle
      \/ settle'.state # "error"
      \/ r.kind = "failed" /\ settle'.click = r.call.click
  BY DEF SettleReply, CountsOK
<1>3. r.kind = "failed" => r.call.click \notin written
  BY <1>1 DEF ClickInv, ClicksOK
<1>4. \A m \in net' : OfSettle(m) => ClickOf(m) # r.call.click
  BY <1>1 DEF ClickInv, ClicksOK
<1>5. settle'.state = "error" => \A c \in net' : c.kind = "settle" => c.click # settle'.click
  <2>1. \A c \in net' : c.kind = "settle" => OfSettle(c) /\ ClickOf(c) = c.click
    BY DEF OfSettle, ClickOf
  <2> QED BY <1>1, <1>2, <1>4, <2>1 DEF ClickInv, ClicksOK
<1>6. ClicksOK'
  BY <1>1, <1>5 DEF ClickInv, ClicksOK, OfSettle, ClickOf
<1>7. ErrorMeansNotSettled'
  BY <1>1, <1>2, <1>3 DEF ClickInv, ErrorMeansNotSettled
<1> QED BY <1>6, <1>7 DEF ClickInv

LEMMA ClicksKept == CountsOK /\ CountsOK' /\ ClickInv /\ [Next]_vars => ClickInv'
<1> SUFFICES ASSUME CountsOK, CountsOK', ClickInv, [Next]_vars PROVE ClickInv'
  OBVIOUS
<1>0. used.person \in Nat /\ used.person >= used.person
  BY DEF CountsOK
<1>1. CASE AgentCommand
  <2>1. AgentActs /\ UNCHANGED <<settle, pending, written, net>>
    BY <1>1 DEF AgentCommand, SetMessageAgentSuggestion, SetCaseAgentSuggestion,
                SetNotificationAgentSuggestion, ClearMessageSuggestion, ClearCaseSuggestion,
                ClearNotificationSuggestion, ReplacePair, ForeignEdit, ForeignChange, host,
                page, history
  <2>2. used'.person = used.person
    BY <2>1 DEF AgentActs, CountsOK
  <2> QED BY <1>0, <2>1, <2>2, ClicksElsewhere
<1>2. CASE HostCall
  <2>1. ASSUME NEW c \in net, \/ SaveIsStale(c) \/ SaveInWorkspace(c) \/ RefreshModel(c)
                              \/ AcceptAgentMessage(c)
        PROVE  ClickInv'
    <3>1. \A m \in net' : m \in net \/ ~OfSettle(m)
      BY <2>1 DEF SaveIsStale, SaveInWorkspace, RefreshModel, AcceptAgentMessage, Reply, OfSettle
    <3>2. UNCHANGED <<settle, written, used>>
      BY <2>1 DEF SaveIsStale, SaveInWorkspace, RefreshModel, AcceptAgentMessage, page, history
    <3>3. pending' = pending \/ pending'.kind # "settle"
      BY <2>1 DEF SaveIsStale, SaveInWorkspace, RefreshModel, AcceptAgentMessage, host
    <3> QED BY <1>0, <3>1, <3>2, <3>3, ClicksElsewhere
  <2>2. ASSUME NEW c \in net, SettleRefused(c) PROVE ClickInv'
    BY <2>2, ClicksAfterFailure DEF SettleRefused, host, page, history
  <2>3. ASSUME NEW c \in net, SettleInWorkspace(c) PROVE ClickInv'
    BY <2>3, ClicksAfterSettling DEF SettleInWorkspace, host, page
  <2> QED BY <1>2, <2>1, <2>2, <2>3 DEF HostCall
<1>3. CASE HostFault
  <2>1. used'.person = used.person
    <3>1. Fault
      BY <1>3 DEF HostFault, CallFails, DrawFails, SettleFollowupFails, FailPendingAgent,
                  ControllerEnds, ReloadFails
    <3> QED BY <3>1 DEF Fault, CountsOK
  <2>2. ASSUME NEW c \in net, CallFails(c), c.kind = "settle" PROVE ClickInv'
    BY <2>1, <2>2, ClicksAfterFailure DEF CallFails, host, page, history
  <2>3. ASSUME NEW c \in net, CallFails(c), c.kind # "settle" PROVE ClickInv'
    <3>1. \A m \in net' : m \in net \/ ~OfSettle(m)
      BY <2>3 DEF CallFails, Reply, OfSettle
    <3>2. UNCHANGED <<settle, pending, written>>
      BY <2>3 DEF CallFails, host, page, history
    <3> QED BY <1>0, <2>1, <3>1, <3>2, ClicksElsewhere
  <2>4. ASSUME NEW c \in net, SettleFollowupFails(c) PROVE ClickInv'
    BY <2>1, <2>4, ClicksAfterSettling DEF SettleFollowupFails, host, page
  <2>5. CASE FailPendingAgent \/ ControllerEnds
    <3>1. \A m \in net' : m \in net \/ ~OfSettle(m)
      BY <2>5 DEF FailPendingAgent, ControllerEnds, OfSettle, ClickInv, ClicksOK
    <3>2. UNCHANGED <<settle, written>> /\ pending' \in {pending, NoCall}
      BY <2>5 DEF FailPendingAgent, ControllerEnds, page, history
    <3> QED BY <1>0, <2>1, <3>1, <3>2, ClicksElsewhere DEF NoCall
  <2>6. ASSUME NEW c \in net, DrawFails(c) PROVE ClickInv'
    <3>1. \A m \in net' : m \in net \/ ~OfSettle(m)
      BY <2>6 DEF DrawFails, Reply, OfSettle
    <3>2. UNCHANGED <<settle, pending, written>>
      BY <2>6 DEF DrawFails, page
    <3> QED BY <1>0, <2>1, <3>1, <3>2, ClicksElsewhere
  <2>7. CASE ReloadFails
    <3>1. /\ \A m \in net' : m \in net
          /\ settle' = NoClick /\ UNCHANGED <<pending, written>>
      BY <2>7 DEF ReloadFails
    <3> QED BY <1>0, <2>1, <3>1, ClicksElsewhere DEF NoClick
  <2> QED BY <1>3, <2>2, <2>3, <2>4, <2>5, <2>6, <2>7 DEF HostFault
<1>4. CASE Answer \/ Persist
  <2>1. /\ \A m \in net' : m \in net \/ ~OfSettle(m)
        /\ UNCHANGED <<settle, written, used>> /\ pending' \in {pending, NoCall}
    BY <1>4 DEF Answer, ReviewResponse, Persist, SaveCall, Changed, OfSettle, host, page, history
  <2> QED BY <1>0, <2>1, ClicksElsewhere DEF NoCall
<1>5. CASE PageReply
  <2>1. ASSUME NEW n, NEW r, NEW dirty, RefreshWhenSafe(r, dirty, n)
        PROVE  \A m \in net' : m \in n \/ ~OfSettle(m)
    BY <2>1, RefreshAddsItsCall DEF RefreshCall, OfSettle
  <2>2. ASSUME NEW n, NEW dirty, RequestReviewRefresh(dirty, n)
        PROVE  \A m \in net' : m \in n \/ ~OfSettle(m)
    BY <2>1, <2>2 DEF RequestReviewRefresh
  <2>3. CASE OnState
    BY <1>0, <2>2, <2>3, ClicksElsewhere DEF OnState, host, history
  <2>4. ASSUME NEW r \in net, PersistSucceeds(r) PROVE ClickInv'
    <3>1. \A m \in net' : m \in (net \ {r}) \cup {AskCall} \/ ~OfSettle(m)
      BY <2>2, <2>4 DEF PersistSucceeds, Saved
    <3>2. ~OfSettle(AskCall)
      BY DEF AskCall, OfSettle
    <3> QED BY <1>0, <2>4, <3>1, <3>2, ClicksElsewhere DEF PersistSucceeds, host, history
  <2>5. ASSUME NEW r \in net, RefreshReview(r) PROVE ClickInv'
    <3>1. \A m \in net' : m \in net \/ ~OfSettle(m)
      BY <2>1, <2>5 DEF RefreshReview
    <3>2. settle' \in {settle, NoClick} /\ UNCHANGED <<written, used, pending>>
      BY <2>5 DEF RefreshReview, BindReviewContent, host
    <3> QED BY <1>0, <3>1, <3>2, ClicksElsewhere DEF NoClick
  <2>6. ASSUME NEW r \in net, PersistFails(r) \/ RefreshFails(r) \/ QuestionEnds(r)
        PROVE  ClickInv'
    <3>1. \A m \in net' : m \in net \/ ~OfSettle(m)
      BY <2>1, <2>6 DEF PersistFails, RefreshFails, QuestionEnds
    <3>2. UNCHANGED <<settle, written, used, pending>>
      BY <2>6 DEF PersistFails, RefreshFails, QuestionEnds, host, history
    <3> QED BY <1>0, <3>1, <3>2, ClicksElsewhere
  <2> QED BY <1>5, <2>3, <2>4, <2>5, <2>6, ClicksAfterReply DEF PageReply
<1>6. CASE Person
  <2>1. PersonActs => used'.person >= used.person
    BY DEF PersonActs, CountsOK
  <2>2. CASE Type \/ SubmitQuestion
    <3>1. \A m \in net' : m \in net \/ ~OfSettle(m)
      BY <2>2 DEF Type, SubmitQuestion, SaveCall, AskCall, OfSettle
    <3>2. UNCHANGED <<settle, written, pending>> /\ used'.person >= used.person
      BY <1>0, <2>1, <2>2 DEF Type, SubmitQuestion, host, history
    <3> QED BY <3>1, <3>2, ClicksElsewhere
  <2>3. CASE Reload
    <3>1. \A m \in net' : m \in net \/ ~OfSettle(m)
      BY <2>3 DEF Reload, Changed, OfSettle
    <3>2. settle' = NoClick /\ UNCHANGED <<written, pending>> /\ used'.person >= used.person
      BY <2>1, <2>3 DEF Reload, BindReviewContent
    <3> QED BY <3>1, <3>2, ClicksElsewhere DEF NoClick
  <2>4. CASE EndSession
    BY <1>0, <2>4, ClicksElsewhere DEF EndSession, NoClick, NoCall, history
  <2> QED BY <1>6, <2>2, <2>3, <2>4, ClicksAfterClick DEF Person
<1>7. CASE UNCHANGED vars
  BY <1>0, <1>7, ClicksElsewhere DEF vars
<1> QED BY <1>1, <1>2, <1>3, <1>4, <1>5, <1>6, <1>7 DEF Next, Answer

-----------------------------------------------------------------------------
(***************************************************************************)
(* The theorems.                                                           *)
(***************************************************************************)
(* A step changes the document to a typed text only over a text seen.      *)
LEMMA StepOverwritesSeen ==
    CountsOK /\ TextInv /\ [Next]_vars => (doc' # doc /\ doc' \in typed => doc \in seen)
<1> SUFFICES ASSUME TextInv, [Next]_vars, doc' # doc, doc' \in typed PROVE doc \in seen
  OBVIOUS
<1>1. ASSUME NEW c \in net, SaveInWorkspace(c) PROVE doc \in seen
  BY <1>1 DEF SaveInWorkspace, TextInv, TextsOK, Sound
<1>2. ~ForeignEdit
  <2> SUFFICES ASSUME ForeignEdit PROVE FALSE
    OBVIOUS
  <2>1. doc' = Texts
    BY DEF ForeignEdit
  <2>2. \A t \in typed : t \in Nat /\ t < Texts
    BY TextIsNew DEF TextInv, TextsOK
  <2>3. Texts \in Nat /\ Texts < Texts
    BY <2>1, <2>2
  <2> QED BY <2>3
<1>3. CASE AgentCommand
  BY <1>2, <1>3 DEF AgentCommand, SetMessageAgentSuggestion, SetCaseAgentSuggestion,
                    SetNotificationAgentSuggestion, ClearMessageSuggestion, ClearCaseSuggestion,
                    ClearNotificationSuggestion, ReplacePair, ForeignChange
<1>4. CASE HostCall
  BY <1>1, <1>4 DEF HostCall, SaveIsStale, RefreshModel, SettleRefused, SettleInWorkspace,
                    AcceptAgentMessage, workspace
<1>5. CASE HostFault \/ Answer \/ Persist
  BY <1>5 DEF HostFault, CallFails, DrawFails, SettleFollowupFails, FailPendingAgent,
              ControllerEnds, ReloadFails, Answer, ReviewResponse, Persist, workspace
<1>6. CASE PageReply
  BY <1>6 DEF PageReply, OnState, PersistSucceeds, PersistFails, RefreshReview, RefreshFails,
              SettleReply, QuestionEnds, workspace
<1>7. CASE Person
  BY <1>7 DEF Person, Type, ClickSettle, SubmitQuestion, Reload, EndSession, workspace
<1>8. CASE UNCHANGED vars
  BY <1>8 DEF vars
<1> QED BY <1>3, <1>4, <1>5, <1>6, <1>7, <1>8 DEF Next, Answer

(* The invariant the theorems rest on.                                     *)
ReviewInv == CountsOK /\ TextInv /\ BoundInv /\ ClickInv

LEMMA ReviewInvariant == Spec => []ReviewInv
<1>1. Init => ReviewInv
  BY CountsAtInit, TextsAtInit, BoundAtInit, ClicksAtInit DEF ReviewInv
<1>2. ReviewInv /\ [Next]_vars => ReviewInv'
  BY CountsKept, TextsKept, BoundKept, ClicksKept DEF ReviewInv
<1> QED BY <1>1, <1>2, PTL DEF Spec

(* What a person typed last is in the workspace or in the editor and       *)
(* unsaved, and what the agent is asked about is in the workspace          *)
(* (persist, refreshReviewContentWhenSafe and askAgent in                  *)
(* review_runtime.js).                                                     *)
THEOREM TypedTextCorrect == Spec => []TypedTextIsKept
<1>1. ReviewInv => TypedTextIsKept
  BY DEF ReviewInv, TextInv, TypedTextIsKept
<1> QED BY <1>1, ReviewInvariant, PTL

(* A save of the page replaces only a text the page displayed or wrote     *)
(* (the base hash in save_notes_in_workspace and save_draft_in_workspace). *)
THEOREM OverwriteCorrect == Spec => NoUnseenOverwrite
<1>1. ReviewInv /\ [Next]_vars => [doc' # doc /\ doc' \in typed => doc \in seen]_vars
  BY StepOverwritesSeen DEF ReviewInv
<1> QED BY <1>1, ReviewInvariant, PTL DEF Spec, NoUnseenOverwrite

(* A human suggestion answers the agent suggestion that is there, its      *)
(* content is one the host drew or had read for a drawing that failed, up  *)
(* to the page's own saves, and no click reported as failed is on disk     *)
(* (bind_human_to_agent, refresh_model, apply_saved_edit_to_model and      *)
(* execute_review_action).                                                 *)
THEOREM SettlementCorrect == Spec => []SettlementIsBound
<1>1. ReviewInv => SettlementIsBound
  BY DEF ReviewInv, BoundInv, ClickInv, SettlementIsBound
<1> QED BY <1>1, ReviewInvariant, PTL
=============================================================================
