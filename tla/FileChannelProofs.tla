-------------------------- MODULE FileChannelProofs --------------------------
(***************************************************************************)
(* Proofs about FileChannel for every set of sources, directories, ids and *)
(* texts, every configuration of paths and every number of inputs, faults  *)
(* and purges: nothing passes the channel twice, a producer that retires   *)
(* what a pull reported loses no input, and the views follow the evidence. *)
(***************************************************************************)
EXTENDS FileChannel, TLAPS

Input == [n : Nat, dir : Dirs, id : Ids \cup {Own}, text : Texts \cup {Own}]

Pull == [sources : SUBSET Sources, source : Sources \cup {None}, todo : SUBSET Input,
         file : Input \cup {None}, left : Nat,
         skipped : SUBSET Nat, warned : SUBSET Nat, mark : Nat]

Importing == {"metadata", "evidence", "artifacts"}

SendStates == {"none", "queued", "started", "visible", "unknown", "sent",
               "recording", "recorded", "done"}

(* What the variables and the program counter of the pull can be. *)
ChannelType ==
    /\ inboxOf \in [Sources -> Dirs] /\ outboxOf \in [Sources -> Dirs]
    /\ inputs \subseteq Input /\ written \in Nat
    /\ evidence \in [Messages -> Texts \cup {None, Own}]
    /\ meta \in [Messages -> BOOLEAN]
    /\ place \in [Messages -> Places]
    /\ DOMAIN view = Messages
    /\ pc \in {"idle", "sources", "files"} \cup Importing
    /\ pull \in Pull
    /\ report \in [left : SUBSET Nat, mark : Nat, inbox : [Sources -> Dirs]]
    /\ send \in [source : Sources \cup {None}, state : SendStates]
    /\ send.state # "none" => send.source \in Sources
    /\ wrong \in [sent : Nat, notSent : Nat] /\ outputs \subseteq Dirs
    /\ faults \in Nat /\ published \in Nat /\ configs \in Nat

(* A pull reads one source at a time, and only a source without a conflict. *)
PullInOrder ==
    /\ pc \in {"files"} \cup Importing =>
          /\ pull.source \in Sources \ pull.sources
          /\ ~PathConflicts(pull.source)
          /\ \A f \in pull.todo : f.dir = inboxOf[pull.source]
    /\ pc \in {"idle", "sources"} => pull.todo = {}
    /\ pc \in Importing => pull.file \in Input /\ pull.file.dir = inboxOf[pull.source]
    /\ pc \in {"metadata", "evidence"} => pull.left > 0
    /\ pull.mark <= written /\ report.mark <= written

(* What afmail published under the directories of now went where no source   *)
(* reads.                                                                    *)
OutputsApart ==
    /\ placed \subseteq Dirs \X Nat
    /\ \A p \in placed :
          /\ p[2] <= configs
          /\ p[2] = configs => \E s \in Sources : outboxOf[s] = p[1] /\ ~PathConflicts(s)

(* An input imported under the directories of now came from the one its      *)
(* source reads.                                                             *)
ImportsHonest ==
    /\ importedAs \subseteq [file : Input, source : Sources, epoch : Nat]
    /\ \A a \in importedAs :
          /\ a.epoch <= configs
          /\ a.epoch = configs => inboxOf[a.source] = a.file.dir /\ ~PathConflicts(a.source)

(* Before the link each publication so far was denied by a person, after it  *)
(* one may be accepted; and a step that counts as sent was published, unless *)
(* a person wrongly said so.                                                 *)
SentInOrder ==
    /\ send.state \in {"none", "queued", "started"} => published <= wrong.notSent
    /\ published <= 1 + wrong.notSent
    /\ outputs # {} => published > 0
    /\ send.state \in {"visible", "sent", "recording", "recorded", "done"} =>
          published > 0 \/ wrong.sent > 0

OnceInv ==
    /\ PullInOrder /\ OutputsApart /\ ImportsHonest /\ SentInOrder
    /\ NothingTwice

(* What a source keeps of an input, once it was imported. *)
Kept(s, f) == <<<<s, f.id>>, f.text>> \in ever

(* The pull that is running has imported, named or still has before it each  *)
(* input of the sources it has taken up.                                     *)
PullTrue ==
    pc # "idle" =>
       \A f \in inputs, s \in Sources \ pull.sources :
          f.n <= pull.mark /\ inboxOf[s] = f.dir =>
             \/ f.n \in pull.skipped \cup pull.warned
             \/ Kept(s, f)
             \/ pc # "sources" /\ s = pull.source /\ f \in pull.todo
             \/ pc \in {"metadata", "evidence"} /\ s = pull.source /\ f = pull.file

(* The last report names every input of a source that is not kept. *)
ReportTrue ==
    \A f \in inputs, s \in Sources :
       f.n <= report.mark /\ report.inbox[s] = f.dir => f.n \in report.left \/ Kept(s, f)

(* Evidence of an input was there before it could be rejected as known. *)
EvidenceTrue ==
    /\ \A k \in Messages : k[2] # Sent /\ evidence[k] # None => <<k, evidence[k]>> \in ever
    /\ pc = "artifacts" => Kept(pull.source, pull.file)

LossInv == PullTrue /\ ReportTrue /\ EvidenceTrue /\ NoInputLost

(* Metadata is there before the evidence, for inputs and for the reply. *)
MetadataFirst ==
    /\ CanRender
    /\ pc \in {"evidence", "artifacts"} => meta[Current]
    /\ send.state \in {"recording", "recorded"} => meta[SentKey]
    /\ \A k \in Messages : place[k] = "spam" => k[2] # Sent
-----------------------------------------------------------------------------
(* The types.                                                                *)

LEMMA PullFields ==
  ASSUME ChannelType
  PROVE  /\ pull \in Pull
         /\ pull.sources \subseteq Sources /\ pull.todo \subseteq Input
         /\ pull.left \in Nat /\ pull.mark \in Nat
         /\ pull.skipped \subseteq Nat /\ pull.warned \subseteq Nat
BY DEF ChannelType, Pull

(* The paths change only between two commands, and nothing else with them. *)
Configures == \E s \in Sources, inbox, outbox \in Dirs : Configure(s, inbox, outbox)

LEMMA ConfigKept ==
  ASSUME [Next]_vars, ~Configures
  PROVE  /\ UNCHANGED <<inboxOf, outboxOf, configs>>
         /\ \A s : PathConflicts(s)' <=> PathConflicts(s)
<1>1. UNCHANGED config
  BY DEF vars, Next, PullStep, PushStep, Produce, Retire, Consume, BeginPull, TakeSource,
     TakeFile, SourceDone, ImportMetadata, ImportEvidence, ImportArtifacts, ImportFails,
     EndPull, RenderRefresh, File, Purge, QueueReply, StartSend, Publish, Reconcile, SendDone,
     SettleSent, SettleNotSent, RecordMetadata, RecordEvidence, RecordInCase, Crash, Configures
<1>2. UNCHANGED <<inboxOf, outboxOf, configs>>  BY <1>1 DEF config
<1>3. QED  BY <1>2 DEF PathConflicts

LEMMA ConfigChanged ==
  ASSUME ChannelType, Configures
  PROVE  /\ inboxOf' \in [Sources -> Dirs] /\ outboxOf' \in [Sources -> Dirs]
         /\ configs' = configs + 1 /\ pc = "idle"
         /\ UNCHANGED <<inputs, written, retired, evidence, meta, place, view, outputs, send,
                        published, placed, wrong, pc, pull, report, faults, purges, ever,
                        importedAs>>
<1> USE DEF store, channel, out, tally
<1>1. QED  BY DEF Configures, Configure, Idle, ChannelType

(* What a directory holds are inputs, those afmail wrote itself among them. *)
LEMMA Lists ==
  ASSUME ChannelType, NEW d \in Dirs
  PROVE  \A f \in Listing(d) : f \in Input /\ f.n \in Nat /\ f.dir = d
<1> DEFINE own == [n |-> 0, dir |-> d, id |-> Own, text |-> Own]
<1>1. own \in Input /\ own.n \in Nat /\ own.dir = d  BY DEF Input
<1> HIDE DEF own
<1>2. \A f \in Listing(d) : f = own \/ (f \in inputs /\ f.dir = d)
  BY DEF Listing, own
<1>3. \A f \in inputs : f \in Input /\ f.n \in Nat  BY DEF ChannelType, Input
<1>4. QED  BY <1>1, <1>2, <1>3

LEMMA SourceTaken ==
  ASSUME ChannelType, PullInOrder, NEW s \in Sources, TakeSource(s)
  PROVE  /\ pull' \in Pull /\ pull'.sources = pull.sources \ {s}
         /\ UNCHANGED <<pull.skipped, pull.mark, pull.left, pull.file>>
         /\ \/ /\ Unlistable(s) /\ pc' = "sources" /\ pull'.todo = {}
                /\ pull'.warned = pull.warned \cup {f.n : f \in Listing(inboxOf[s])}
             \/ /\ ~PathConflicts(s) /\ pc' = "files"
                /\ pull'.source = s /\ pull'.todo = Listing(inboxOf[s])
                /\ UNCHANGED pull.warned
<1>1. pc = "sources" /\ pull \in Pull /\ pull.todo = {}
  BY PullFields DEF TakeSource, PullInOrder
<1>2. CASE Unlistable(s)
  <2> DEFINE new == {f.n : f \in Listing(inboxOf[s])}
  <2>1. new \subseteq Nat  BY Lists DEF ChannelType
  <2>2. /\ pc' = "sources"
        /\ pull' = [pull EXCEPT !.sources = pull.sources \ {s}, !.warned = pull.warned \cup new]
    BY <1>2 DEF TakeSource
  <2> HIDE DEF new
  <2>3. pull.sources \ {s} \subseteq Sources /\ pull.warned \cup new \subseteq Nat
    BY <2>1, PullFields
  <2>4. pull' \in Pull  BY <1>1, <2>2, <2>3 DEF Pull
  <2>5. /\ pull'.sources = pull.sources \ {s} /\ pull'.warned = pull.warned \cup new
        /\ pull'.todo = pull.todo
        /\ UNCHANGED <<pull.skipped, pull.mark, pull.left, pull.file>>
    BY <1>1, <2>2 DEF Pull
  <2>6. QED  BY <1>1, <1>2, <2>2, <2>4, <2>5 DEF new
<1>3. CASE ~Unlistable(s)
  <2> DEFINE new == Listing(inboxOf[s])
  <2>1. ~PathConflicts(s)  BY <1>3 DEF Unlistable
  <2>2. new \subseteq Input  BY Lists DEF ChannelType
  <2>3. /\ pc' = "files"
        /\ pull' = [pull EXCEPT !.sources = pull.sources \ {s}, !.source = s, !.todo = new]
    BY <1>3 DEF TakeSource
  <2> HIDE DEF new
  <2>4. pull.sources \ {s} \subseteq Sources  BY PullFields
  <2>5. pull' \in Pull  BY <1>1, <2>2, <2>3, <2>4 DEF Pull
  <2>6. /\ pull'.sources = pull.sources \ {s} /\ pull'.source = s /\ pull'.todo = new
        /\ UNCHANGED <<pull.skipped, pull.warned, pull.mark, pull.left, pull.file>>
    BY <1>1, <2>3 DEF Pull
  <2>7. QED  BY <2>1, <2>3, <2>5, <2>6 DEF new
<1>4. QED  BY <1>2, <1>3

LEMMA FileTaken ==
  ASSUME ChannelType, PullInOrder, NEW f \in pull.todo, TakeFile(f)
  PROVE  /\ pull' \in Pull /\ pull'.todo = pull.todo \ {f}
         /\ UNCHANGED <<pull.sources, pull.source, pull.mark, pull.left>>
         /\ \/ /\ pc' = "files" /\ f.n \in pull'.skipped \cup pull'.warned
                /\ pull.skipped \cup pull.warned \subseteq pull'.skipped \cup pull'.warned
             \/ /\ pc' = "files" /\ UNCHANGED <<pull.skipped, pull.warned>>
                /\ ~Rejected(f) /\ evidence[<<pull.source, f.id>>] # None
             \/ /\ pc' = "metadata" /\ UNCHANGED <<pull.skipped, pull.warned>>
                /\ pull'.file = f /\ pull.left > 0
<1>1. pc = "files" /\ pull \in Pull /\ f \in Input /\ f.n \in Nat
  BY PullFields DEF TakeFile, Input
<1> DEFINE rest == pull.todo \ {f}
<1>2. rest \subseteq Input  BY PullFields
<1>3. CASE Leave(f, "warned") /\ pc' = pc
  <2>1. pull' = [pull EXCEPT !.todo = rest, !.warned = pull.warned \cup {f.n}]
    BY <1>3 DEF Leave
  <2>2. pull.warned \cup {f.n} \subseteq Nat  BY <1>1, PullFields
  <2> HIDE DEF rest
  <2>3. pull' \in Pull  BY <1>1, <1>2, <2>1, <2>2 DEF Pull
  <2>4. /\ pull'.todo = rest /\ pull'.warned = pull.warned \cup {f.n}
        /\ UNCHANGED <<pull.sources, pull.source, pull.mark, pull.left, pull.skipped>>
    BY <1>1, <2>1 DEF Pull
  <2>5. QED  BY <1>1, <1>3, <2>3, <2>4 DEF rest
<1>4. CASE Leave(f, "skipped") /\ pc' = pc
  <2>1. pull' = [pull EXCEPT !.todo = rest, !.skipped = pull.skipped \cup {f.n}]
    BY <1>4 DEF Leave
  <2>2. pull.skipped \cup {f.n} \subseteq Nat  BY <1>1, PullFields
  <2> HIDE DEF rest
  <2>3. pull' \in Pull  BY <1>1, <1>2, <2>1, <2>2 DEF Pull
  <2>4. /\ pull'.todo = rest /\ pull'.skipped = pull.skipped \cup {f.n}
        /\ UNCHANGED <<pull.sources, pull.source, pull.mark, pull.left, pull.warned>>
    BY <1>1, <2>1 DEF Pull
  <2>5. QED  BY <1>1, <1>4, <2>3, <2>4 DEF rest
<1>5. CASE /\ pull' = [pull EXCEPT !.todo = pull.todo \ {f}] /\ pc' = pc
           /\ ~Rejected(f) /\ evidence[<<pull.source, f.id>>] # None
  <2>1. pull' = [pull EXCEPT !.todo = rest]  BY <1>5
  <2> HIDE DEF rest
  <2>2. pull' \in Pull  BY <1>1, <1>2, <2>1 DEF Pull
  <2>3. /\ pull'.todo = rest
        /\ UNCHANGED <<pull.sources, pull.source, pull.mark, pull.left, pull.skipped, pull.warned>>
    BY <1>1, <2>1 DEF Pull
  <2>4. QED  BY <1>1, <1>5, <2>2, <2>3 DEF rest
<1>6. CASE /\ pull' = [pull EXCEPT !.todo = pull.todo \ {f}, !.file = f]
           /\ pc' = "metadata" /\ pull.left > 0
  <2>1. pull' = [pull EXCEPT !.todo = rest, !.file = f]  BY <1>6
  <2> HIDE DEF rest
  <2>2. pull' \in Pull  BY <1>1, <1>2, <2>1 DEF Pull
  <2>3. /\ pull'.todo = rest /\ pull'.file = f
        /\ UNCHANGED <<pull.sources, pull.source, pull.mark, pull.left, pull.skipped, pull.warned>>
    BY <1>1, <2>1 DEF Pull
  <2>4. QED  BY <1>6, <2>2, <2>3 DEF rest
<1>7. QED  BY <1>3, <1>4, <1>5, <1>6 DEF TakeFile

(* The other steps of a pull. *)
LEMMA ImportTaken ==
  ASSUME ChannelType, PullInOrder, pc \in Importing
  PROVE  /\ pull.file \in Input /\ pull.file.n \in Nat /\ pull.file.id \in Ids \cup {Own}
         /\ pull.file.text \in Texts \cup {Own} /\ pull.file.text # None
         /\ pull.source \in Sources /\ Current \in Messages /\ Current[2] # Sent
         /\ ImportEvidence => /\ pull' \in Pull
                              /\ UNCHANGED <<pull.sources, pull.source, pull.todo, pull.file,
                                            pull.skipped, pull.warned, pull.mark>>
         /\ ImportFails => /\ pull' \in Pull /\ pull'.warned = pull.warned \cup {pull.file.n}
                           /\ UNCHANGED <<pull.sources, pull.source, pull.todo, pull.file,
                                         pull.skipped, pull.mark>>
<1>1. /\ pull.file \in Input /\ pull.file.n \in Nat /\ pull.file.id \in Ids \cup {Own}
      /\ pull.file.text \in Texts \cup {Own} /\ pull.source \in Sources
  BY DEF PullInOrder, Input
<1>2. pull.file.text # None /\ pull.file.id # Sent
  BY <1>1, FileChannelAssumption
<1>3. Current \in Messages /\ Current[2] # Sent
  BY <1>1, <1>2 DEF Current, Messages
<1>4. ASSUME ImportEvidence
      PROVE  /\ pull' \in Pull
             /\ UNCHANGED <<pull.sources, pull.source, pull.todo, pull.file, pull.skipped,
                           pull.warned, pull.mark>>
  <2>1. pull' = [pull EXCEPT !.left = pull.left - 1] /\ pull.left - 1 \in Nat
    BY <1>4, PullFields DEF ImportEvidence, PullInOrder
  <2>2. pull \in Pull  BY PullFields
  <2>3. pull' \in Pull  BY <2>1, <2>2 DEF Pull
  <2>4. QED  BY <2>1, <2>2, <2>3 DEF Pull
<1>5. ASSUME ImportFails
      PROVE  /\ pull' \in Pull /\ pull'.warned = pull.warned \cup {pull.file.n}
             /\ UNCHANGED <<pull.sources, pull.source, pull.todo, pull.file, pull.skipped,
                           pull.mark>>
  <2>1. pull' = [pull EXCEPT !.warned = pull.warned \cup {pull.file.n}]
    BY <1>5 DEF ImportFails
  <2>2. pull \in Pull /\ pull.warned \cup {pull.file.n} \subseteq Nat  BY <1>1, PullFields
  <2>3. pull' \in Pull  BY <2>1, <2>2 DEF Pull
  <2>4. QED  BY <2>1, <2>2, <2>3 DEF Pull
<1>6. QED  BY <1>1, <1>2, <1>3, <1>4, <1>5

LEMMA PullBegun ==
  ASSUME ChannelType, BeginPull
  PROVE  /\ pull' \in Pull /\ pull'.sources = Sources /\ pull'.todo = {}
         /\ pull'.mark = written
BY FileChannelAssumption DEF BeginPull, NoPull, Pull, ChannelType

LEMMA NoPullFields ==
  NoPull \in Pull /\ NoPull.todo = {} /\ NoPull.mark = 0
BY FileChannelAssumption DEF NoPull, Pull

LEMMA TypeInit == Init => ChannelType
<1> SUFFICES ASSUME Init PROVE ChannelType
  OBVIOUS
<1>1. pull \in Pull  BY NoPullFields DEF Init
<1>2. /\ inboxOf \in [Sources -> Dirs] /\ outboxOf \in [Sources -> Dirs]
      /\ inputs \subseteq Input /\ written \in Nat /\ faults \in Nat /\ published \in Nat
      /\ configs \in Nat /\ wrong \in [sent : Nat, notSent : Nat] /\ outputs \subseteq Dirs
      /\ pc \in {"idle", "sources", "files"} \cup Importing
      /\ report \in [left : SUBSET Nat, mark : Nat, inbox : [Sources -> Dirs]]
      /\ send \in [source : Sources \cup {None}, state : SendStates]
      /\ send.state = "none"
  BY DEF Init, SendStates
<1>3. /\ evidence \in [Messages -> Texts \cup {None, Own}]
      /\ meta \in [Messages -> BOOLEAN] /\ place \in [Messages -> Places]
      /\ DOMAIN view = Messages
  BY DEF Init, Places
<1>4. QED  BY <1>1, <1>2, <1>3 DEF ChannelType

LEMMA TypeStep ==
  ASSUME ChannelType, PullInOrder, [Next]_vars
  PROVE  ChannelType'
<1> USE DEF config, store, channel, out, tally
<1>c. CASE Configures
  BY <1>c, ConfigChanged DEF ChannelType
<1>s. SUFFICES ASSUME ~Configures PROVE ChannelType'
  BY <1>c
<1>0. UNCHANGED <<inboxOf, outboxOf, configs>>  BY <1>s, ConfigKept
<1>1. ASSUME NEW d \in Dirs, NEW id \in Ids, NEW t \in Texts, Produce(d, id, t)
      PROVE  ChannelType'
  <2>1. [n |-> written + 1, dir |-> d, id |-> id, text |-> t] \in Input /\ written + 1 \in Nat
    BY DEF Input, ChannelType
  <2>2. inputs' \subseteq Input /\ written' \in Nat
    BY <1>1, <2>1 DEF Produce, ChannelType
  <2>3. QED  BY <1>1, <2>2 DEF Produce, ChannelType
<1>2. CASE \/ \E s \in Sources, f \in inputs : Retire(s, f)
           \/ \E o \in outputs : Consume(o)
           \/ SourceDone \/ UNCHANGED vars
  BY <1>0, <1>2 DEF Retire, Consume, SourceDone, vars, ChannelType
<1>3. CASE BeginPull
  BY <1>3, PullBegun DEF BeginPull, ChannelType
<1>4. ASSUME NEW s \in Sources, TakeSource(s) PROVE ChannelType'
  <2>1. pull' \in Pull /\ pc' \in {"sources", "files"}  BY <1>4, SourceTaken
  <2>2. QED  BY <1>4, <2>1 DEF TakeSource, ChannelType
<1>5. ASSUME NEW f \in pull.todo, TakeFile(f) PROVE ChannelType'
  <2>1. pull' \in Pull /\ pc' \in {"files", "metadata"}  BY <1>5, FileTaken
  <2>2. QED  BY <1>5, <2>1 DEF TakeFile, ChannelType, Importing
<1>6. CASE ImportMetadata \/ ImportEvidence \/ ImportArtifacts \/ ImportFails
  <2>1. pc \in Importing  BY <1>6 DEF ImportMetadata, ImportEvidence, ImportArtifacts,
                                    ImportFails, Importing
  <2>2. Current \in Messages /\ pull.file.text \in Texts \cup {Own}  BY <2>1, ImportTaken
  <2>3. CASE ImportMetadata
    BY <2>2, <2>3 DEF ImportMetadata, ChannelType, Importing
  <2>4. CASE ImportEvidence
    BY <2>1, <2>2, <2>4, ImportTaken DEF ImportEvidence, ChannelType, Importing
  <2>5. CASE ImportArtifacts
    BY <2>2, <2>5 DEF ImportArtifacts, ChannelType
  <2>6. CASE ImportFails
    BY <2>1, <2>6, ImportTaken DEF ImportFails, Fault, ChannelType
  <2>7. QED  BY <1>6, <2>3, <2>4, <2>5, <2>6
<1>7. CASE EndPull
  <2>1. pull.skipped \cup pull.warned \subseteq Nat /\ pull.mark \in Nat
    BY PullFields
  <2>2. report' \in [left : SUBSET Nat, mark : Nat, inbox : [Sources -> Dirs]]
    BY <1>7, <2>1 DEF EndPull, ChannelType
  <2>3. DOMAIN view' = Messages  BY <1>7 DEF EndPull, ChannelType
  <2>4. QED  BY <1>7, <2>2, <2>3, NoPullFields DEF EndPull, ChannelType
<1>8. CASE RenderRefresh
  BY <1>8 DEF RenderRefresh, ChannelType
<1>9. ASSUME NEW k \in Messages, NEW p \in Places, File(k, p) PROVE ChannelType'
  BY <1>9 DEF File, ChannelType
<1>10. ASSUME NEW k \in Messages, Purge(k) PROVE ChannelType'
  BY <1>10 DEF Purge, ChannelType, Places
<1>11. CASE \E s \in Sources : QueueReply(s)
  BY <1>11 DEF QueueReply, ChannelType, SendStates
<1>12. CASE StartSend \/ Publish \/ SendDone \/ Reconcile \/ SettleSent \/ SettleNotSent
  <2>1. /\ send.source \in Sources /\ send'.source = send.source /\ send'.state # "none"
        /\ send' \in [source : Sources \cup {None}, state : SendStates]
    BY <1>12 DEF StartSend, Publish, SendDone, Reconcile, SettleSent, SettleNotSent, Sending,
         SendState, ChannelType, SendStates
  <2>2. faults' \in Nat /\ published' \in Nat
    BY <1>12 DEF StartSend, Publish, SendDone, Reconcile, SettleSent, SettleNotSent, Fault,
         ChannelType
  <2>3. UNCHANGED <<inputs, written, store, pc, pull, report>>
    BY <1>12 DEF StartSend, Publish, SendDone, Reconcile, SettleSent, SettleNotSent
  <2>4. outputs' \subseteq Dirs
    BY <1>12, <2>1 DEF StartSend, Publish, SendDone, Reconcile, SettleSent, SettleNotSent,
         ChannelType
  <2>5. wrong' \in [sent : Nat, notSent : Nat]
    BY <1>12 DEF StartSend, Publish, SendDone, Reconcile, SettleSent, SettleNotSent, Says,
         ChannelType
  <2>6. QED  BY <1>0, <2>1, <2>2, <2>3, <2>4, <2>5 DEF ChannelType
<1>13. CASE RecordMetadata \/ RecordEvidence \/ RecordInCase
  <2>1. /\ send.source \in Sources /\ send'.source = send.source /\ send'.state # "none"
        /\ send' \in [source : Sources \cup {None}, state : SendStates]
    BY <1>13 DEF RecordMetadata, RecordEvidence, RecordInCase, Sending, SendState, ChannelType,
         SendStates
  <2>2. SentKey \in Messages  BY <2>1 DEF SentKey, Messages
  <2>3. /\ evidence' \in [Messages -> Texts \cup {None, Own}]
        /\ meta' \in [Messages -> BOOLEAN]
        /\ place' \in [Messages -> Places]
        /\ DOMAIN view' = Messages
    BY <1>13, <2>2 DEF RecordMetadata, RecordEvidence, RecordInCase, ChannelType, Places
  <2>4. UNCHANGED <<inputs, written, pc, pull, report, faults, outputs, published, wrong>>
    BY <1>13 DEF RecordMetadata, RecordEvidence, RecordInCase
  <2>5. QED  BY <1>0, <2>1, <2>3, <2>4 DEF ChannelType
<1>14. CASE Crash
  <2>1. /\ send' \in [source : Sources \cup {None}, state : SendStates]
        /\ send'.source = send.source
        /\ send'.state = "none" => send.state = "none"
    BY <1>14 DEF Crash, ChannelType, SendStates
  <2>2. faults' \in Nat /\ pull' \in Pull
    BY <1>14, NoPullFields DEF Crash, Fault, ChannelType
  <2>3. QED  BY <1>0, <1>14, <2>1, <2>2 DEF Crash, ChannelType
<1>15. QED
  BY <1>s, <1>1, <1>2, <1>3, <1>4, <1>5, <1>6, <1>7, <1>8, <1>9, <1>10, <1>11, <1>12, <1>13,
     <1>14 DEF Next, PullStep, PushStep, Configures
-----------------------------------------------------------------------------
(* Nothing passes twice.                                                     *)

LEMMA OnceInit == Init => OnceInv
<1> SUFFICES ASSUME Init PROVE OnceInv
  OBVIOUS
<1>1. PullInOrder
  BY NoPullFields DEF Init, PullInOrder, Importing
<1>2. OutputsApart /\ ImportsHonest /\ SentInOrder
  BY DEF Init, OutputsApart, ImportsHonest, SentInOrder
<1>3. NothingTwice
  BY DEF Init, NothingTwice, ImportedOnce, PublishedOnce, RecordedWasPublished, Messages
<1>4. QED  BY <1>1, <1>2, <1>3 DEF OnceInv

LEMMA OrderStep ==
  ASSUME ChannelType, PullInOrder, [Next]_vars
  PROVE  PullInOrder'
<1> USE DEF config, store, channel, out, tally
<1>c. CASE Configures
  BY <1>c, ConfigChanged DEF PullInOrder, Importing
<1>s. SUFFICES ASSUME ~Configures PROVE PullInOrder'
  BY <1>c
<1>0. UNCHANGED <<inboxOf, outboxOf>> /\ \A s : PathConflicts(s)' <=> PathConflicts(s)
  BY <1>s, ConfigKept
<1>t. pull.mark \in Nat /\ report.mark \in Nat /\ written \in Nat
  BY PullFields DEF ChannelType
<1>1. CASE BeginPull
  BY <1>1, <1>t, PullBegun DEF BeginPull, PullInOrder, Importing
<1>2. ASSUME NEW s \in Sources, TakeSource(s) PROVE PullInOrder'
  <2>1. UNCHANGED <<written, report>>  BY <1>2 DEF TakeSource
  <2>2. CASE pc' = "sources"
    BY <1>2, <2>1, <2>2, SourceTaken DEF PullInOrder, Importing
  <2>3. CASE pc' # "sources"
    <3>1. /\ ~PathConflicts(s) /\ pc' = "files" /\ pull'.source = s
          /\ pull'.todo = Listing(inboxOf[s]) /\ pull'.sources = pull.sources \ {s}
          /\ pull'.mark = pull.mark
      BY <1>2, <2>3, SourceTaken
    <3>2. \A f \in pull'.todo : f.dir = inboxOf[s]  BY <3>1, Lists DEF ChannelType
    <3>3. QED  BY <1>0, <2>1, <3>1, <3>2 DEF PullInOrder, Importing
  <2>4. QED  BY <2>2, <2>3
<1>3. ASSUME NEW f \in pull.todo, TakeFile(f) PROVE PullInOrder'
  <2>1. pc = "files" /\ UNCHANGED <<written, report>>  BY <1>3 DEF TakeFile
  <2>2. /\ pull'.todo = pull.todo \ {f}
        /\ UNCHANGED <<pull.sources, pull.source, pull.mark, pull.left>>
        /\ pc' = "files" \/ (pc' = "metadata" /\ pull'.file = f /\ pull.left > 0)
    BY <1>3, FileTaken
  <2>3. f \in Input /\ f.dir = inboxOf[pull.source]  BY <2>1, PullFields DEF PullInOrder
  <2>4. QED  BY <1>0, <2>1, <2>2, <2>3 DEF PullInOrder, Importing
<1>4. CASE SourceDone
  BY <1>4 DEF SourceDone, PullInOrder, Importing
<1>5. CASE ImportMetadata \/ ImportArtifacts
  BY <1>0, <1>5 DEF ImportMetadata, ImportArtifacts, PullInOrder, Importing
<1>6. CASE ImportEvidence \/ ImportFails
  <2>1. /\ pc \in Importing /\ pc' \in {"artifacts", "files"} /\ UNCHANGED <<written, report>>
    BY <1>6 DEF ImportEvidence, ImportFails, Importing
  <2>2. UNCHANGED <<pull.sources, pull.source, pull.todo, pull.file, pull.mark>>
    BY <1>6, <2>1, ImportTaken
  <2>3. QED  BY <1>0, <2>1, <2>2 DEF PullInOrder, Importing
<1>7. CASE EndPull \/ Crash
  <2>1. /\ pc' = "idle" /\ pull' = NoPull /\ written' = written
        /\ report'.mark \in {report.mark, pull.mark}
    BY <1>7 DEF EndPull, Crash
  <2>2. QED  BY <1>t, <2>1, NoPullFields DEF PullInOrder, Importing
<1>8. CASE \/ \E d \in Dirs, id \in Ids, t \in Texts : Produce(d, id, t)
           \/ \E s \in Sources, f \in inputs : Retire(s, f)
           \/ \E o \in outputs : Consume(o)
           \/ RenderRefresh
           \/ \E k \in Messages : Purge(k) \/ \E p \in Places : File(k, p)
           \/ \E s \in Sources : QueueReply(s)
           \/ PushStep \/ UNCHANGED vars
  <2>1. UNCHANGED <<pc, pull, report>> /\ written' \in {written, written + 1}
    BY <1>8 DEF Produce, Retire, Consume, RenderRefresh, Purge, File, QueueReply, PushStep,
         StartSend, Publish, SendDone, Reconcile, SettleSent, SettleNotSent, RecordMetadata,
         RecordEvidence, RecordInCase, vars
  <2>2. QED  BY <1>0, <1>t, <2>1 DEF PullInOrder
<1>9. QED
  BY <1>s, <1>1, <1>2, <1>3, <1>4, <1>5, <1>6, <1>7, <1>8 DEF Next, PullStep, Configures

(* Outputs are recorded as placed in one place. *)
LEMMA PlacedFrame ==
  ASSUME [Next]_vars
  PROVE  placed' = placed \/ (Publish /\ placed' = placed \cup {<<outboxOf[send.source], configs>>})
<1> USE DEF config, store, channel, out, tally
<1>1. CASE Publish  BY <1>1 DEF Publish
<1>2. QED
  BY <1>1 DEF Next, PullStep, PushStep, Produce, Retire, Consume, BeginPull, TakeSource,
     TakeFile, SourceDone, ImportMetadata, ImportEvidence, ImportArtifacts, ImportFails,
     EndPull, RenderRefresh, File, Purge, QueueReply, StartSend, Reconcile, SendDone,
     SettleSent, SettleNotSent, RecordMetadata, RecordEvidence, RecordInCase, Crash, Configure,
     vars

LEMMA OutputsStep ==
  ASSUME ChannelType, OutputsApart, [Next]_vars
  PROVE  OutputsApart'
<1>c. CASE Configures
  <2>1. configs' = configs + 1 /\ placed' = placed /\ configs \in Nat
    BY <1>c, ConfigChanged DEF ChannelType
  <2>2. \A p \in placed : p[2] \in Nat /\ p[2] <= configs  BY DEF OutputsApart
  <2>3. \A p \in placed : p[2] <= configs + 1 /\ p[2] # configs + 1  BY <2>1, <2>2
  <2>4. QED  BY <2>1, <2>3 DEF OutputsApart
<1>s. SUFFICES ASSUME ~Configures PROVE OutputsApart'
  BY <1>c
<1>0. /\ UNCHANGED <<inboxOf, outboxOf, configs>>
      /\ \A s : PathConflicts(s)' <=> PathConflicts(s)
  BY <1>s, ConfigKept
<1>1. CASE placed' = placed
  BY <1>0, <1>1 DEF OutputsApart
<1>2. CASE Publish
  <2> DEFINE new == <<outboxOf[send.source], configs>>
  <2>1. send.source \in Sources /\ configs \in Nat /\ outboxOf[send.source] \in Dirs
    BY <1>2 DEF Publish, Sending, ChannelType
  <2>2. placed' = placed \/ (~PathConflicts(send.source) /\ placed' = placed \cup {new})
    BY <1>2 DEF Publish
  <2>3. new \in Dirs \X Nat /\ new[1] = outboxOf[send.source] /\ new[2] = configs
    BY <2>1
  <2> HIDE DEF new
  <2>4. CASE ~PathConflicts(send.source) /\ placed' = placed \cup {new}
    BY <1>0, <2>1, <2>3, <2>4 DEF OutputsApart
  <2>5. QED  BY <1>1, <2>2, <2>4
<1>3. QED  BY <1>1, <1>2, PlacedFrame

(* Inputs are recorded as imported in one place. *)
LEMMA ImportsFrame ==
  ASSUME [Next]_vars
  PROVE  importedAs' = importedAs \/ ImportEvidence
<1> USE DEF config, store, channel, out, tally
<1>1. QED
  BY DEF Next, PullStep, PushStep, Produce, Retire, Consume, BeginPull, TakeSource,
     TakeFile, SourceDone, ImportMetadata, ImportArtifacts, ImportFails,
     EndPull, RenderRefresh, File, Purge, QueueReply, StartSend, Publish, Reconcile, SendDone,
     SettleSent, SettleNotSent, RecordMetadata, RecordEvidence, RecordInCase, Crash, Configure,
     vars

LEMMA ImportsStep ==
  ASSUME ChannelType, PullInOrder, ImportsHonest, [Next]_vars
  PROVE  ImportsHonest'
<1>t. configs \in Nat  BY DEF ChannelType
<1>c. CASE Configures
  <2>1. configs' = configs + 1 /\ importedAs' = importedAs
    BY <1>c, ConfigChanged
  <2>2. \A a \in importedAs : a.epoch \in Nat /\ a.epoch <= configs  BY DEF ImportsHonest
  <2>3. \A a \in importedAs : a.epoch <= configs + 1 /\ a.epoch # configs + 1
    BY <1>t, <2>2
  <2>4. QED  BY <2>1, <2>3 DEF ImportsHonest
<1>s. SUFFICES ASSUME ~Configures PROVE ImportsHonest'
  BY <1>c
<1>0. /\ UNCHANGED <<inboxOf, outboxOf, configs>>
      /\ \A s : PathConflicts(s)' <=> PathConflicts(s)
  BY <1>s, ConfigKept
<1>1. CASE importedAs' = importedAs
  BY <1>0, <1>1 DEF ImportsHonest
<1>2. CASE ImportEvidence
  <2> DEFINE new == [file |-> pull.file, source |-> pull.source, epoch |-> configs]
  <2>1. pc = "evidence" /\ pc \in Importing /\ importedAs' = importedAs \cup {new}
    BY <1>2 DEF ImportEvidence, Importing
  <2>2. /\ pull.file \in Input /\ pull.source \in Sources /\ ~PathConflicts(pull.source)
        /\ inboxOf[pull.source] = pull.file.dir
    BY <2>1 DEF PullInOrder
  <2>3. /\ new \in [file : Input, source : Sources, epoch : Nat]
        /\ new.file = pull.file /\ new.source = pull.source /\ new.epoch = configs
    BY <1>t, <2>2
  <2> HIDE DEF new
  <2>4. new.epoch <= configs  BY <1>t, <2>3
  <2>5. inboxOf[new.source] = new.file.dir /\ ~PathConflicts(new.source)
    BY <2>2, <2>3
  <2>6. QED  BY <1>0, <2>1, <2>3, <2>4, <2>5 DEF ImportsHonest
<1>3. QED  BY <1>1, <1>2, ImportsFrame

LEMMA SentStep ==
  ASSUME ChannelType, SentInOrder, [Next]_vars
  PROVE  /\ SentInOrder'
         /\ published > 0 \/ wrong.sent > 0 => published' > 0 \/ wrong'.sent > 0
<1> USE DEF config, store, channel, out, tally
<1>t. /\ published \in Nat /\ wrong.sent \in Nat /\ wrong.notSent \in Nat
      /\ wrong \in [sent : Nat, notSent : Nat]
  BY DEF ChannelType
<1>1. CASE Publish
  <2>1. /\ send.state = "started" /\ published <= wrong.notSent /\ wrong' = wrong
        /\ \/ /\ send'.state = "visible"
              /\ \/ published' = published + 1
                 \/ published' = published /\ outputs # {}
           \/ send'.state = "queued" /\ UNCHANGED <<published, outputs>>
    BY <1>1 DEF Publish, Sending, SendState, ChannelType, SentInOrder
  <2>2. CASE published' = published
    BY <1>t, <2>1, <2>2 DEF SentInOrder
  <2>3. CASE published' = published + 1 /\ send'.state = "visible"
    <3>1. published' > 0 /\ published' <= 1 + wrong'.notSent  BY <1>t, <2>1, <2>3
    <3>2. QED  BY <2>3, <3>1 DEF SentInOrder
  <2>4. QED  BY <2>1, <2>2, <2>3
<1>2. CASE SettleSent
  <2>1. /\ send'.state = "sent" /\ UNCHANGED <<published, outputs>>
        /\ \/ wrong' = wrong /\ published > 0
           \/ wrong' = [wrong EXCEPT !.sent = wrong.sent + 1]
    BY <1>2 DEF SettleSent, Sending, SendState, Says, ChannelType
  <2>2. wrong'.notSent = wrong.notSent /\ wrong'.sent >= wrong.sent
        /\ (published > 0 \/ wrong'.sent > 0)
    BY <1>t, <2>1
  <2>3. QED  BY <1>t, <2>1, <2>2 DEF SentInOrder
<1>3. CASE SettleNotSent
  <2>1. /\ send'.state = "queued" /\ UNCHANGED <<published, outputs>>
        /\ \/ wrong' = wrong /\ published = 0
           \/ wrong' = [wrong EXCEPT !.notSent = wrong.notSent + 1]
    BY <1>3 DEF SettleNotSent, Sending, SendState, Says, ChannelType
  <2>2. wrong'.sent = wrong.sent /\ published <= wrong'.notSent
    BY <1>t, <2>1 DEF SentInOrder
  <2>3. wrong'.notSent \in Nat  BY <1>t, <2>1
  <2>4. QED  BY <1>t, <2>1, <2>2, <2>3 DEF SentInOrder
<1>4. CASE StartSend \/ SendDone \/ RecordMetadata \/ RecordEvidence
           \/ RecordInCase \/ Crash \/ \E s \in Sources : QueueReply(s)
  <2>1. /\ UNCHANGED <<published, outputs, wrong>>
        /\ send'.state \in {"none", "queued", "started"} =>
              send.state \in {"none", "queued", "started"}
        /\ send'.state \in {"visible", "sent", "recording", "recorded", "done"} =>
              send.state \in {"visible", "sent", "recording", "recorded", "done"}
    BY <1>4 DEF StartSend, SendDone, RecordMetadata, RecordEvidence, RecordInCase,
         Crash, QueueReply, Sending, SendState, ChannelType
  <2>2. QED  BY <2>1 DEF SentInOrder
<1>5. CASE Reconcile
  <2>1. UNCHANGED <<published, outputs, wrong>> /\ outputs # {} /\ send'.state = "sent"
    BY <1>5 DEF Reconcile, Sending, SendState, ChannelType
  <2>2. QED  BY <2>1 DEF SentInOrder
<1>6. CASE UNCHANGED <<send, published, wrong>> /\ outputs' \subseteq outputs
  BY <1>6 DEF SentInOrder
<1>7. QED
  BY <1>1, <1>2, <1>3, <1>4, <1>5, <1>6 DEF Next, PullStep, PushStep, Produce, Retire, Consume,
     BeginPull, TakeSource, TakeFile, SourceDone, ImportMetadata, ImportEvidence,
     ImportArtifacts, ImportFails, EndPull, RenderRefresh, File, Purge, Configure, vars

(* What the store holds changes in one place per kind of write. *)
LEMMA EvidenceFrame ==
  ASSUME ChannelType, [Next]_vars
  PROVE  \/ UNCHANGED <<evidence, ever>>
         \/ ImportEvidence
         \/ \E k \in Messages : Purge(k)
         \/ RecordEvidence /\ ever' = ever /\ SentKey \in Messages /\ SentKey[2] = Sent
<1> USE DEF config, store, channel, out, tally
<1>1. CASE RecordEvidence
  BY <1>1 DEF RecordEvidence, Sending, SentKey, Messages, ChannelType
<1>2. QED
  BY <1>1 DEF Next, PullStep, PushStep, Produce, Retire, Consume, BeginPull, TakeSource,
     TakeFile, SourceDone, ImportMetadata, ImportArtifacts, ImportFails, EndPull,
     RenderRefresh, File, QueueReply, StartSend, Publish, Reconcile, SendDone,
     SettleSent, SettleNotSent, RecordMetadata, RecordInCase, Crash, Configure, vars

(* A reply gets into the store by being recorded. *)
LEMMA RecordedStep ==
  ASSUME ChannelType, PullInOrder, SentInOrder, RecordedWasPublished, [Next]_vars
  PROVE  RecordedWasPublished'
<1>1. published > 0 \/ wrong.sent > 0 => published' > 0 \/ wrong'.sent > 0
  BY SentStep
<1>2. CASE RecordEvidence
  BY <1>1, <1>2 DEF RecordEvidence, Sending, SentInOrder, RecordedWasPublished
<1>3. CASE ~RecordEvidence
  <2>1. ASSUME NEW s \in Sources
        PROVE  evidence'[<<s, Sent>>] # None => evidence[<<s, Sent>>] # None
    <3> DEFINE k == <<s, Sent>>
    <3>1. k \in Messages /\ k[2] = Sent  BY DEF Messages
    <3> HIDE DEF k
    <3>2. CASE ImportEvidence
      <4>1. pc \in Importing /\ evidence' = [evidence EXCEPT ![Current] = pull.file.text]
        BY <3>2 DEF ImportEvidence, Importing
      <4>2. Current # k  BY <3>1, <4>1, ImportTaken
      <4>3. evidence'[k] = evidence[k]  BY <3>1, <4>1, <4>2 DEF ChannelType
      <4>4. QED  BY <4>3 DEF k
    <3>3. ASSUME NEW j \in Messages, Purge(j)
          PROVE  evidence'[k] # None => evidence[k] # None
      BY <3>1, <3>3 DEF Purge, ChannelType
    <3>4. QED  BY <1>3, <3>2, <3>3, EvidenceFrame DEF k
  <2>2. QED  BY <1>1, <2>1 DEF RecordedWasPublished
<1>4. QED  BY <1>2, <1>3

LEMMA TwiceStep ==
  ASSUME ChannelType, OnceInv, [Next]_vars
  PROVE  NothingTwice'
<1>0. PullInOrder /\ OutputsApart /\ ImportsHonest /\ SentInOrder /\ NothingTwice
  BY DEF OnceInv
<1>1. PublishedOnce' /\ RecordedWasPublished'
  BY <1>0, SentStep, RecordedStep DEF SentInOrder, PublishedOnce, NothingTwice
<1>2. OutputsApart' /\ ImportsHonest'
  BY <1>0, OutputsStep, ImportsStep
<1>3. (\A a, b \in importedAs : a.file = b.file /\ a.epoch = b.epoch => a.source = b.source)'
  <2>1. CASE importedAs' = importedAs
    BY <1>0, <2>1 DEF NothingTwice, ImportedOnce
  <2>2. CASE ImportEvidence
    <3> DEFINE new == [file |-> pull.file, source |-> pull.source, epoch |-> configs]
    <3>1. pc \in Importing /\ importedAs' = importedAs \cup {new}
      BY <2>2 DEF ImportEvidence, Importing
    <3>2. pull.source \in Sources /\ inboxOf[pull.source] = pull.file.dir
      BY <1>0, <3>1 DEF PullInOrder
    <3>3. new.file = pull.file /\ new.source = pull.source /\ new.epoch = configs
      OBVIOUS
    <3> HIDE DEF new
    <3>4. ASSUME NEW a \in importedAs, a.file = new.file, a.epoch = new.epoch
          PROVE  a.source = new.source
      <4>1. a.source \in Sources /\ inboxOf[a.source] = a.file.dir /\ ~PathConflicts(a.source)
        BY <1>0, <3>3, <3>4 DEF ImportsHonest
      <4>2. QED  BY <3>2, <3>3, <3>4, <4>1 DEF PathConflicts
    <3>5. QED  BY <1>0, <3>1, <3>4 DEF NothingTwice, ImportedOnce
  <2>3. QED  BY <2>1, <2>2, ImportsFrame
<1>4. (\A a \in importedAs : a.file.id = Own => <<a.file.dir, a.epoch>> \notin placed)'
  <2>1. SUFFICES ASSUME NEW a \in importedAs', <<a.file.dir, a.epoch>> \in placed'
                 PROVE  a.file.id # Own
    OBVIOUS
  <2>2. CASE Configures
    <3>1. placed' = placed /\ importedAs' = importedAs  BY <2>2, ConfigChanged
    <3>2. QED  BY <1>0, <2>1, <3>1 DEF NothingTwice, ImportedOnce
  <2>3. CASE ~Configures /\ a.epoch = configs
    <3>1. a.epoch = configs'  BY <2>3, ConfigKept
    <3>2. a.source \in Sources /\ inboxOf'[a.source] = a.file.dir
      BY <1>2, <2>1, <3>1 DEF ImportsHonest
    <3> DEFINE p == <<a.file.dir, a.epoch>>
    <3>3. p \in placed' /\ p[1] = a.file.dir /\ p[2] = a.epoch  BY <2>1
    <3> HIDE DEF p
    <3>4. PICK s \in Sources : outboxOf'[s] = p[1] /\ ~PathConflicts(s)'
      BY <1>2, <3>1, <3>3 DEF OutputsApart
    <3>5. FALSE  BY <3>2, <3>3, <3>4 DEF PathConflicts
    <3>6. QED  BY <3>5
  <2>4. CASE ~Configures /\ a.epoch # configs
    <3>1. a \in importedAs
      <4>1. ImportEvidence =>
              importedAs' = importedAs \cup {[file |-> pull.file, source |-> pull.source,
                                              epoch |-> configs]}
        BY DEF ImportEvidence
      <4>2. QED  BY <2>1, <2>4, <4>1, ImportsFrame
    <3>2. <<a.file.dir, a.epoch>> \in placed
      BY <2>1, <2>4, PlacedFrame
    <3>3. QED  BY <1>0, <3>1, <3>2 DEF NothingTwice, ImportedOnce
  <2>5. QED  BY <2>2, <2>3, <2>4
<1>5. QED  BY <1>1, <1>3, <1>4 DEF NothingTwice, ImportedOnce

LEMMA OnceStep ==
  ChannelType /\ OnceInv /\ [Next]_vars => ChannelType' /\ OnceInv'
<1> SUFFICES ASSUME ChannelType, OnceInv, [Next]_vars PROVE ChannelType' /\ OnceInv'
  OBVIOUS
<1>1. PullInOrder /\ OutputsApart /\ ImportsHonest /\ SentInOrder
  BY DEF OnceInv
<1>2. QED
  BY <1>1, TypeStep, OrderStep, OutputsStep, ImportsStep, SentStep, TwiceStep
  DEF OnceInv

(* Nothing passes the channel twice: under unchanged directories an input is *)
(* imported for one source and what afmail published is not imported; a      *)
(* reply becomes visible once, and again only for a person's wrong           *)
(* --not-sent; and what is recorded as sent was published, unless a person   *)
(* wrongly said --sent.  Pulls and pushes may be interrupted anywhere and    *)
(* the directories changed between any two commands.                         *)
THEOREM NothingPassesTwice == Spec => []NothingTwice
<1>1. Init => ChannelType /\ OnceInv  BY TypeInit, OnceInit
<1>2. OnceInv => NothingTwice  BY DEF OnceInv
<1>3. QED  BY <1>1, <1>2, OnceStep, PTL DEF Spec
-----------------------------------------------------------------------------
(* No input is lost.                                                         *)

LEMMA LossInit == Init => LossInv
BY DEF Init, LossInv, PullTrue, ReportTrue, EvidenceTrue, NoInputLost

(* What was imported stays known as imported. *)
LEMMA EverGrows ==
  ASSUME ChannelType, [Next]_vars
  PROVE  ever \subseteq ever' /\ \A s, f : Kept(s, f) => Kept(s, f)'
<1>1. ever \subseteq ever'
  BY EvidenceFrame DEF ImportEvidence, Purge
<1>2. QED  BY <1>1 DEF Kept

LEMMA EvidenceStep ==
  ASSUME ChannelType, PullInOrder, EvidenceTrue, [Next]_vars
  PROVE  EvidenceTrue'
<1>0. ever \subseteq ever'  BY EverGrows
<1>1. (\A k \in Messages : k[2] # Sent /\ evidence[k] # None => <<k, evidence[k]>> \in ever)'
  <2>1. CASE UNCHANGED <<evidence, ever>>
    BY <2>1 DEF EvidenceTrue
  <2>2. CASE ImportEvidence
    <3>1. /\ pc \in Importing /\ evidence' = [evidence EXCEPT ![Current] = pull.file.text]
          /\ ever' = ever \cup {<<Current, pull.file.text>>}
      BY <2>2 DEF ImportEvidence, Importing
    <3>2. Current \in Messages  BY <3>1, ImportTaken
    <3>3. QED  BY <3>1, <3>2 DEF EvidenceTrue, ChannelType
  <2>3. ASSUME NEW k \in Messages, Purge(k)
        PROVE  \A j \in Messages : j[2] # Sent /\ evidence'[j] # None => <<j, evidence'[j]>> \in ever'
    BY <1>0, <2>3 DEF Purge, EvidenceTrue, ChannelType
  <2>4. CASE RecordEvidence /\ SentKey[2] = Sent
    BY <1>0, <2>4 DEF RecordEvidence, EvidenceTrue, ChannelType
  <2>5. QED  BY <2>1, <2>2, <2>3, <2>4, EvidenceFrame
<1>2. pc' = "artifacts" => Kept(pull.source, pull.file)'
  <2> USE DEF config, store, channel, out, tally
  <2>1. CASE ImportEvidence
    <3>1. /\ pc \in Importing
          /\ ever' = ever \cup {<<<<pull.source, pull.file.id>>, pull.file.text>>}
      BY <2>1 DEF ImportEvidence, Importing, Current
    <3>2. UNCHANGED <<pull.source, pull.file>>  BY <2>1, <3>1, ImportTaken
    <3>3. QED  BY <3>1, <3>2 DEF Kept
  <2>2. ASSUME NEW s \in Sources, TakeSource(s) PROVE pc' # "artifacts"
    BY <2>2 DEF TakeSource
  <2>3. ASSUME NEW f \in pull.todo, TakeFile(f) PROVE pc' # "artifacts"
    BY <2>3 DEF TakeFile
  <2>4. CASE BeginPull \/ SourceDone \/ ImportMetadata \/ ImportArtifacts \/ ImportFails \/ EndPull
             \/ Crash
    BY <2>4 DEF BeginPull, SourceDone, ImportMetadata, ImportArtifacts, ImportFails, EndPull,
       Crash
  <2>5. CASE UNCHANGED <<pc, pull>>
    BY <1>0, <2>5 DEF EvidenceTrue, Kept
  <2>6. QED
    BY <2>1, <2>2, <2>3, <2>4, <2>5 DEF Next, PullStep, PushStep, Produce, Retire, Consume,
       RenderRefresh, File, Purge, QueueReply, StartSend, Publish, Reconcile, SendDone,
       SettleSent, SettleNotSent, RecordMetadata, RecordEvidence, RecordInCase, Configure, vars
<1>3. QED  BY <1>1, <1>2 DEF EvidenceTrue

(* An input that was not there before is newer than any pull or report.      *)
LEMMA NewInputs ==
  ASSUME ChannelType, PullInOrder, [Next]_vars, NEW f \in inputs', f \notin inputs
  PROVE  ~(f.n <= pull.mark) /\ ~(f.n <= report.mark) /\ UNCHANGED <<pc, pull, report>>
<1> USE DEF config, store, channel, out, tally
<1>1. PICK d \in Dirs, id \in Ids, t \in Texts : Produce(d, id, t)
  BY DEF Next, PullStep, PushStep, Retire, Consume, BeginPull, TakeSource, TakeFile, SourceDone,
     ImportMetadata, ImportEvidence, ImportArtifacts, ImportFails, EndPull, RenderRefresh, File,
     Purge, QueueReply, StartSend, Publish, Reconcile, SendDone, SettleSent, SettleNotSent,
     RecordMetadata, RecordEvidence, RecordInCase, Crash, Configure, vars
<1>2. f.n = written + 1 /\ UNCHANGED <<pc, pull, report>>  BY <1>1 DEF Produce
<1>3. /\ written \in Nat /\ pull.mark \in Nat /\ report.mark \in Nat
      /\ pull.mark <= written /\ report.mark <= written
  BY PullFields DEF ChannelType, PullInOrder
<1>4. QED  BY <1>2, <1>3

LEMMA PullStepTrue ==
  ASSUME ChannelType, PullInOrder, PullTrue, EvidenceTrue, [Next]_vars,
         pc' # "idle",
         NEW f \in inputs', NEW s \in Sources, s \notin pull'.sources,
         f.n <= pull'.mark, inboxOf[s] = f.dir
  PROVE  \/ f.n \in pull'.skipped \cup pull'.warned
         \/ Kept(s, f)'
         \/ pc' # "sources" /\ s = pull'.source /\ f \in pull'.todo
         \/ pc' \in {"metadata", "evidence"} /\ s = pull'.source /\ f = pull'.file
<1> USE DEF config, store, channel, out, tally
<1>0. Kept(s, f) => Kept(s, f)'  BY EverGrows
<1>1. f \in inputs
  <2>1. SUFFICES ASSUME f \notin inputs PROVE FALSE
    OBVIOUS
  <2>2. QED  BY <2>1, NewInputs
<1>2. pc # "idle" /\ s \notin pull.sources /\ f.n <= pull.mark =>
        \/ f.n \in pull.skipped \cup pull.warned
        \/ Kept(s, f)
        \/ pc # "sources" /\ s = pull.source /\ f \in pull.todo
        \/ pc \in {"metadata", "evidence"} /\ s = pull.source /\ f = pull.file
  BY <1>1 DEF PullTrue
<1>3. CASE BeginPull
  BY <1>3, PullBegun
<1>4. ASSUME NEW t \in Sources, TakeSource(t)
      PROVE  \/ f.n \in pull'.skipped \cup pull'.warned
             \/ Kept(s, f)'
             \/ pc' # "sources" /\ s = pull'.source /\ f \in pull'.todo
  <2>1. pc = "sources" /\ pull'.sources = pull.sources \ {t} /\ pull'.mark = pull.mark
        /\ pull'.skipped = pull.skipped /\ pull.warned \subseteq pull'.warned
    BY <1>4, SourceTaken DEF TakeSource
  <2>2. CASE s # t
    BY <1>0, <1>2, <2>1, <2>2
  <2>3. CASE s = t
    <3>1. f \in Listing(inboxOf[t])  BY <1>1, <2>3 DEF Listing
    <3>2. QED  BY <1>4, <2>3, <3>1, SourceTaken
  <2>4. QED  BY <2>2, <2>3
<1>5. ASSUME NEW g \in pull.todo, TakeFile(g)
      PROVE  \/ f.n \in pull'.skipped \cup pull'.warned
             \/ Kept(s, f)'
             \/ pc' # "sources" /\ s = pull'.source /\ f \in pull'.todo
             \/ pc' \in {"metadata", "evidence"} /\ s = pull'.source /\ f = pull'.file
  <2>1. pc = "files" /\ pc' # "sources"  BY <1>5 DEF TakeFile
  <2>2. /\ pull'.todo = pull.todo \ {g}
        /\ UNCHANGED <<pull.sources, pull.source, pull.mark>>
        /\ pull.skipped \cup pull.warned \subseteq pull'.skipped \cup pull'.warned
    BY <1>5, FileTaken
  <2>3. CASE f = g /\ s = pull.source
    <3>1. CASE f.n \in pull'.skipped \cup pull'.warned
      BY <3>1
    <3>2. CASE pc' = "metadata" /\ pull'.file = f
      BY <2>2, <2>3, <3>2
    <3>3. CASE ~Rejected(f) /\ evidence[<<pull.source, f.id>>] # None
      <4>1. evidence[<<pull.source, f.id>>] = f.text  BY <3>3 DEF Rejected
      <4>2. f \in Input /\ f.id \in Ids \cup {Own} /\ f.id # Sent
        BY <1>5, <2>3, PullFields, FileChannelAssumption DEF Input
      <4>3. <<pull.source, f.id>> \in Messages /\ <<pull.source, f.id>>[2] = f.id
        BY <2>3, <4>2 DEF Messages
      <4>4. Kept(s, f)
        BY <2>3, <3>3, <4>1, <4>2, <4>3 DEF EvidenceTrue, Kept
      <4>5. QED  BY <1>0, <4>4
    <3>4. QED  BY <1>5, <2>3, <3>1, <3>2, <3>3, FileTaken
  <2>4. CASE ~(f = g /\ s = pull.source)
    BY <1>0, <1>2, <2>1, <2>2, <2>4
  <2>5. QED  BY <2>3, <2>4
<1>6. CASE SourceDone
  BY <1>0, <1>2, <1>6 DEF SourceDone
<1>7. CASE ImportMetadata \/ ImportArtifacts
  BY <1>0, <1>2, <1>7 DEF ImportMetadata, ImportArtifacts
<1>8. CASE ImportEvidence
  <2>1. /\ pc = "evidence" /\ pc' = "artifacts" /\ pc \in Importing
        /\ ever' = ever \cup {<<<<pull.source, pull.file.id>>, pull.file.text>>}
    BY <1>8 DEF ImportEvidence, Importing, Current
  <2>2. UNCHANGED <<pull.sources, pull.source, pull.todo, pull.file, pull.skipped, pull.warned,
                  pull.mark>>
    BY <1>8, <2>1, ImportTaken
  <2>3. s = pull.source /\ f = pull.file => Kept(s, f)'  BY <2>1 DEF Kept
  <2>4. QED  BY <1>0, <1>2, <2>1, <2>2, <2>3
<1>9. CASE ImportFails
  <2>1. pc \in Importing /\ pc' = "files"  BY <1>9 DEF ImportFails, Importing
  <2>2. /\ pull'.warned = pull.warned \cup {pull.file.n}
        /\ UNCHANGED <<pull.sources, pull.source, pull.todo, pull.file, pull.skipped, pull.mark>>
    BY <1>9, <2>1, ImportTaken
  <2>3. pc # "idle" /\ pc # "sources"  BY <2>1 DEF Importing
  <2>4. QED  BY <1>0, <1>2, <2>1, <2>2, <2>3
<1>10. CASE UNCHANGED <<pc, pull>>
  BY <1>0, <1>2, <1>10
<1>11. QED
  BY <1>3, <1>4, <1>5, <1>6, <1>7, <1>8, <1>9, <1>10 DEF Next, PullStep, PushStep, Produce,
     Retire, Consume, EndPull, RenderRefresh, File, Purge, QueueReply, StartSend, Publish,
     Reconcile, SendDone, SettleSent, SettleNotSent, RecordMetadata, RecordEvidence,
     RecordInCase, Crash, Configure, vars

LEMMA ReportStep ==
  ASSUME ChannelType, PullInOrder, PullTrue, ReportTrue, [Next]_vars
  PROVE  ReportTrue'
<1> USE DEF config, store, channel, out, tally
<1>2. ASSUME NEW f \in inputs', NEW s \in Sources, f.n <= report'.mark,
             report'.inbox[s] = f.dir
      PROVE  f.n \in report'.left \/ Kept(s, f)'
  <2>1. Kept(s, f) => Kept(s, f)'  BY EverGrows
  <2>2. CASE EndPull /\ CanRender
    <3>1. /\ pc = "sources" /\ pull.sources = {} /\ inputs' = inputs
          /\ report' = [left |-> pull.skipped \cup pull.warned, mark |-> pull.mark,
                        inbox |-> inboxOf]
      BY <2>2 DEF EndPull
    <3>2. QED  BY <1>2, <2>1, <3>1 DEF PullTrue
  <2>3. CASE UNCHANGED report
    <3>1. f \in inputs
      <4>1. SUFFICES ASSUME f \notin inputs PROVE FALSE
        OBVIOUS
      <4>2. QED  BY <1>2, <2>3, <4>1, NewInputs
    <3>2. QED  BY <1>2, <2>1, <2>3, <3>1 DEF ReportTrue
  <2>4. QED
    BY <2>2, <2>3 DEF Next, PullStep, PushStep, Produce, Retire, Consume, BeginPull, TakeSource,
       TakeFile, SourceDone, ImportMetadata, ImportEvidence, ImportArtifacts, ImportFails,
       EndPull, RenderRefresh, File, Purge, QueueReply, StartSend, Publish, Reconcile, SendDone,
       SettleSent, SettleNotSent, RecordMetadata, RecordEvidence, RecordInCase, Crash, Configure,
       vars
<1>3. QED  BY <1>2 DEF ReportTrue

LEMMA RetiredStep ==
  ASSUME ChannelType, ReportTrue, NoInputLost, [Next]_vars
  PROVE  NoInputLost'
<1> USE DEF config, store, channel, out, tally
<1>2. ever \subseteq ever'  BY EverGrows
<1>3. CASE UNCHANGED retired
  BY <1>2, <1>3 DEF NoInputLost
<1>4. UNCHANGED retired \/ \E s \in Sources, f \in inputs :
         /\ f.n <= report.mark /\ f.n \notin report.left /\ report.inbox[s] = f.dir
         /\ retired' = retired \cup {<<s, f>>}
  BY DEF Next, PullStep, PushStep, Produce, Retire, Consume, BeginPull, TakeSource,
     TakeFile, SourceDone, ImportMetadata, ImportEvidence, ImportArtifacts, ImportFails,
     EndPull, RenderRefresh, File, Purge, QueueReply, StartSend, Publish, Reconcile, SendDone,
     SettleSent, SettleNotSent, RecordMetadata, RecordEvidence, RecordInCase, Crash, Configure,
     vars
<1>5. ASSUME NEW s \in Sources, NEW f \in inputs,
             f.n <= report.mark, f.n \notin report.left, report.inbox[s] = f.dir,
             retired' = retired \cup {<<s, f>>}
      PROVE  NoInputLost'
  <2>1. <<<<s, f.id>>, f.text>> \in ever'
    BY <1>2, <1>5 DEF ReportTrue, Kept
  <2> DEFINE new == <<s, f>>
  <2>2. <<<<new[1], new[2].id>>, new[2].text>> \in ever' /\ retired' = retired \cup {new}
    BY <1>5, <2>1
  <2> HIDE DEF new
  <2>3. QED  BY <1>2, <2>2 DEF NoInputLost
<1>6. QED  BY <1>3, <1>4, <1>5

LEMMA LossStep ==
  ChannelType /\ OnceInv /\ LossInv /\ [Next]_vars => LossInv'
<1> SUFFICES ASSUME ChannelType, OnceInv, LossInv, [Next]_vars PROVE LossInv'
  OBVIOUS
<1>1. PullInOrder /\ PullTrue /\ ReportTrue /\ EvidenceTrue /\ NoInputLost
  BY DEF OnceInv, LossInv
<1>2. PullTrue'
  <2>1. CASE Configures
    BY <2>1, ConfigChanged DEF PullTrue
  <2>2. CASE ~Configures
    <3>1. UNCHANGED inboxOf  BY <2>2, ConfigKept
    <3>2. QED  BY <1>1, <3>1, PullStepTrue DEF PullTrue
  <2>3. QED  BY <2>1, <2>2
<1>3. QED  BY <1>1, <1>2, ReportStep, RetiredStep, EvidenceStep DEF LossInv

(* A producer that retires what a completed pull neither skipped nor warned  *)
(* about loses nothing: each retired input was imported for its source with  *)
(* its own bytes, for every budget, conflict of paths, crash, failed write   *)
(* and change of the directories.                                            *)
THEOREM RetiredIsKept == Spec => []NoInputLost
<1>1. Init => ChannelType /\ OnceInv /\ LossInv  BY TypeInit, OnceInit, LossInit
<1>2. ChannelType /\ OnceInv /\ LossInv /\ [Next]_vars => ChannelType' /\ OnceInv' /\ LossInv'
  BY OnceStep, LossStep
<1>3. LossInv => NoInputLost  BY DEF LossInv
<1>4. QED  BY <1>1, <1>2, <1>3, PTL DEF Spec
-----------------------------------------------------------------------------
(* The views follow the evidence.                                            *)

LEMMA MetadataInit == Init => MetadataFirst
BY DEF Init, MetadataFirst, CanRender

LEMMA MetadataStep ==
  ASSUME ChannelType, PullInOrder, MetadataFirst, [Next]_vars
  PROVE  MetadataFirst'
<1> USE DEF config, store, channel, out, tally
<1>1. CASE ImportMetadata \/ ImportEvidence \/ ImportArtifacts \/ ImportFails
  <2>1. pc \in Importing
    BY <1>1 DEF ImportMetadata, ImportEvidence, ImportArtifacts, ImportFails, Importing
  <2>2. Current \in Messages /\ Current' = Current
    BY <1>1, <2>1, ImportTaken DEF ImportMetadata, ImportArtifacts, Current
  <2>3. CASE ImportMetadata
    <3>1. /\ meta' = [meta EXCEPT ![Current] = TRUE] /\ UNCHANGED <<evidence, place, send>>
      BY <2>3 DEF ImportMetadata
    <3>2. meta'[Current] /\ \A k \in Messages : meta[k] => meta'[k]
      BY <2>2, <3>1 DEF ChannelType
    <3>3. send.state \in {"recording", "recorded"} => SentKey \in Messages
      BY DEF ChannelType, SentKey, Messages
    <3>4. QED  BY <2>2, <3>1, <3>2, <3>3 DEF MetadataFirst, CanRender, SentKey
  <2>4. CASE ImportEvidence
    <3>1. /\ evidence' = [evidence EXCEPT ![Current] = pull.file.text]
          /\ pc = "evidence" /\ pc' = "artifacts" /\ UNCHANGED <<meta, place, send>>
      BY <2>4 DEF ImportEvidence
    <3>2. meta[Current] /\ \A k \in Messages : evidence'[k] # None => meta[k]
      BY <2>2, <3>1 DEF MetadataFirst, CanRender, ChannelType
    <3>3. QED  BY <2>2, <3>1, <3>2 DEF MetadataFirst, CanRender, SentKey
  <2>5. CASE ImportArtifacts \/ ImportFails
    BY <2>5 DEF ImportArtifacts, ImportFails, MetadataFirst, CanRender, SentKey
  <2>6. QED  BY <1>1, <2>3, <2>4, <2>5
<1>2. ASSUME NEW k \in Messages, Purge(k) PROVE MetadataFirst'
  <2>1. /\ evidence' = [evidence EXCEPT ![k] = None] /\ meta' = [meta EXCEPT ![k] = FALSE]
        /\ place' = [place EXCEPT ![k] = "triage"] /\ pc = "idle" /\ pc' = "idle"
        /\ UNCHANGED send /\ place[k] = "spam"
    BY <1>2 DEF Purge, Idle
  <2>2. k[2] # Sent  BY <2>1 DEF MetadataFirst
  <2>3. SentKey # k  BY <2>2 DEF SentKey
  <2>4. send.state \in {"recording", "recorded"} => SentKey \in Messages
    BY DEF ChannelType, SentKey, Messages
  <2>5. CanRender'  BY <2>1 DEF MetadataFirst, CanRender, ChannelType
  <2>6. send.state \in {"recording", "recorded"} => meta'[SentKey]
    BY <2>1, <2>3, <2>4 DEF MetadataFirst, ChannelType
  <2>7. \A j \in Messages : place'[j] = "spam" => j[2] # Sent
    BY <2>1 DEF MetadataFirst, ChannelType
  <2>8. QED  BY <2>1, <2>5, <2>6, <2>7 DEF MetadataFirst, SentKey
<1>3. ASSUME NEW k \in Messages, NEW p \in Places, File(k, p) PROVE MetadataFirst'
  <2>1. /\ k[2] # Sent /\ place' = [place EXCEPT ![k] = p] /\ pc = "idle" /\ pc' = "idle"
        /\ UNCHANGED <<evidence, meta, send>>
    BY <1>3 DEF File, Idle
  <2>2. \A j \in Messages : place'[j] = "spam" => j[2] # Sent
    BY <2>1 DEF MetadataFirst, ChannelType
  <2>3. QED  BY <2>1, <2>2 DEF MetadataFirst, CanRender, SentKey
<1>4. CASE RecordMetadata \/ RecordEvidence \/ RecordInCase
  <2>1. send.source \in Sources /\ SentKey' = SentKey /\ UNCHANGED <<pc, pull>> /\ pc = "idle"
    BY <1>4 DEF RecordMetadata, RecordEvidence, RecordInCase, Sending, SendState, SentKey,
         ChannelType
  <2>2. SentKey \in Messages  BY <2>1 DEF SentKey, Messages
  <2>3. CASE RecordMetadata
    <3>1. meta' = [meta EXCEPT ![SentKey] = TRUE] /\ UNCHANGED <<evidence, place>>
      BY <2>3 DEF RecordMetadata
    <3>2. meta'[SentKey] /\ \A k \in Messages : meta[k] => meta'[k]
      BY <2>2, <3>1 DEF ChannelType
    <3>3. QED  BY <2>1, <3>1, <3>2 DEF MetadataFirst, CanRender
  <2>4. CASE RecordEvidence
    <3>1. /\ evidence' = [evidence EXCEPT ![SentKey] = Own] /\ UNCHANGED <<meta, place>>
          /\ send.state = "recording"
      BY <2>4 DEF RecordEvidence, Sending
    <3>2. meta[SentKey] /\ \A k \in Messages : evidence'[k] # None => meta[k]
      BY <2>2, <3>1 DEF MetadataFirst, CanRender, ChannelType
    <3>3. QED  BY <2>1, <3>1, <3>2 DEF MetadataFirst, CanRender
  <2>5. CASE RecordInCase
    <3>1. /\ place' = [place EXCEPT ![SentKey] = "case"] /\ UNCHANGED <<evidence, meta>>
          /\ send'.state = "done"
      BY <2>5 DEF RecordInCase, Sending, SendState, ChannelType
    <3>2. QED  BY <2>1, <2>2, <3>1 DEF MetadataFirst, CanRender, ChannelType
  <2>6. QED  BY <1>4, <2>3, <2>4, <2>5
<1>5. CASE \/ StartSend \/ Publish \/ SendDone \/ Reconcile \/ SettleSent \/ SettleNotSent
           \/ Crash
           \/ \E s \in Sources : QueueReply(s)
  <2>1. /\ UNCHANGED <<evidence, meta, place>> /\ pc' = "idle"
        /\ send'.state \notin {"recording", "recorded"}
    BY <1>5 DEF StartSend, Publish, SendDone, Reconcile, SettleSent, SettleNotSent, Crash,
         QueueReply, Sending, SendState, ChannelType
  <2>2. QED  BY <2>1 DEF MetadataFirst, CanRender
<1>6. CASE \/ \E s \in Sources : TakeSource(s)
           \/ \E f \in pull.todo : TakeFile(f)
           \/ BeginPull \/ SourceDone \/ EndPull
  <2>1. /\ UNCHANGED <<evidence, meta, place, send>>
        /\ pc' \notin {"evidence", "artifacts"}
    BY <1>6 DEF TakeSource, TakeFile, BeginPull, SourceDone, EndPull
  <2>2. QED  BY <2>1 DEF MetadataFirst, CanRender, SentKey
<1>7. CASE UNCHANGED <<evidence, meta, place, send, pc, pull>>
  BY <1>7 DEF MetadataFirst, CanRender, SentKey, Current
<1>8. QED
  BY <1>1, <1>2, <1>3, <1>4, <1>5, <1>6, <1>7 DEF Next, PullStep, PushStep, Produce, Retire,
     Consume, RenderRefresh, Configure, vars

(* When a pull has ended, the view of every message with evidence shows its  *)
(* text and its place: wherever an import or the recording of a sent message *)
(* stopped, no evidence is left that cannot be rendered.                     *)
THEOREM ViewsAreRebuilt == Spec => ViewsFollowEvidence
<1> DEFINE Rebuilt == pc = "sources" /\ pc' = "idle" /\ faults' = faults =>
                        \A k \in Messages :
                           evidence[k] # None => view'[k] = <<evidence[k], place[k]>>
<1>1. Init => ChannelType /\ OnceInv /\ MetadataFirst  BY TypeInit, OnceInit, MetadataInit
<1>2. ChannelType /\ OnceInv /\ MetadataFirst /\ [Next]_vars
        => ChannelType' /\ OnceInv' /\ MetadataFirst'
  BY OnceStep, MetadataStep DEF OnceInv
<1>3. ASSUME ChannelType, MetadataFirst, Next PROVE Rebuilt
  <2>1. SUFFICES ASSUME pc = "sources", pc' = "idle", faults' = faults
                 PROVE  \A k \in Messages :
                           evidence[k] # None => view'[k] = <<evidence[k], place[k]>>
    OBVIOUS
  <2>2. EndPull
    <3>1. faults \in Nat  BY <1>3 DEF ChannelType
    <3>2. ~Crash  BY <2>1, <3>1 DEF Crash, Fault
    <3>3. QED
      BY <1>3, <2>1, <3>2 DEF Next, PullStep, PushStep, Produce, Retire, Consume, BeginPull,
         TakeSource, TakeFile, SourceDone, ImportMetadata, ImportEvidence, ImportArtifacts,
         ImportFails, RenderRefresh, File, Purge, QueueReply, StartSend, Publish, Reconcile,
         SendDone, SettleSent, SettleNotSent, RecordMetadata, RecordEvidence, RecordInCase,
         Configure, Idle, Sending
  <2>3. CanRender  BY <1>3 DEF MetadataFirst
  <2>4. view' = [k \in Messages |-> Materialize(k)]  BY <2>2, <2>3 DEF EndPull
  <2>5. QED  BY <2>4 DEF Materialize
<1>4. ChannelType /\ MetadataFirst /\ [Next]_vars => [Rebuilt]_vars
  BY <1>3
<1>5. Spec => [][Rebuilt]_vars
  <2> HIDE DEF Rebuilt
  <2>1. QED  BY <1>1, <1>2, <1>4, PTL DEF Spec
<1>6. QED  BY <1>5 DEF ViewsFollowEvidence
=============================================================================
