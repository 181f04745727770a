-------------------------------- MODULE Setup --------------------------------
(***************************************************************************)
(* The life of one workspace directory: `init` of a new one and the        *)
(* upgrade of an older layout, `doctor` and `doctor repair`, the identity  *)
(* commands of `config`, and the managed block of .gitignore.              *)
(*                                                                         *)
(* init writes one file after another under the exclusive lock and may     *)
(* stop between any two of them; the next command finds what it left.      *)
(* Pull stands for every command that moves the workspace on in between.   *)
(***************************************************************************)
EXTENDS Naturals, Sequences, FiniteSets, SequencesExt

CONSTANTS
    Messages,   \* message ids
    Slugs,      \* identity slugs
    Me,         \* the slug of the default configuration
    MaxPulls,   \* bound: pulls
    MaxConfigs, \* bound: configuration commands
    MaxDamage,  \* bound: files changed by hand or left by another command
    MaxFaults   \* bound: crashes

ASSUME SetupAssumption ==
    /\ Me \in Slugs
    /\ \A b \in {MaxPulls, MaxConfigs, MaxDamage, MaxFaults} : b \in Nat

Current == 3      \* schema_version of message metadata
Layout == 2       \* layout and schema version of workspace.json
Absent == 0       \* no such file, no such version
Kinds == {"collections", "dispositions"}  \* case and notification files; views

\* Tokens of .gitignore.
Begin == "begin"
End == "end"
User == "user"
WorkspaceBody == "workspace"
SkillBody == "skill"

VARIABLES
    identity,   \* .afmail/workspace.json: [v, uid]
    data,       \* .afmail holds more than the lock
    msg,        \* message -> its files
    coll,       \* kind -> what its collection files look like
    cursor,     \* [legacy, current]: the two places of the pull cursors
    cfg,        \* .afmail/config.json and the files of identities/
    gitignore,
    pc,         \* the phase of the command that holds the lock
    reported,   \* what doctor repair found repairable
    known, bound, lastCursor, mine,       \* what must not be lost
    pulls, configs, damage, faults        \* counters of the bounds

files == <<identity, data, msg, coll, cursor, cfg, gitignore>>
history == <<known, bound, lastCursor, mine>>
counters == <<pulls, configs, damage, faults>>
vars == <<files, pc, reported, history, counters>>

-----------------------------------------------------------------------------
NoMessage ==
    [eml |-> FALSE, meta |-> [v |-> Absent, remote |-> 0], legacy |-> 0,
     cache |-> [st |-> "none", remote |-> 0], behind |-> FALSE,
     sidecar |-> FALSE, drift |-> FALSE]

\* Messages as releases of this layout and of the one before left them; remote
\* 1 is where the mail was last seen, 0 is nowhere.
OldMessages ==
    {NoMessage}
      \cup {[NoMessage EXCEPT !.eml = TRUE, !.legacy = 1, !.cache.st = st,
               !.sidecar = side] : st \in {"none", "invalid"}, side \in BOOLEAN}
      \cup {[NoMessage EXCEPT !.eml = TRUE, !.meta = [v |-> v, remote |-> 1],
               !.cache.st = "invalid"] : v \in {1, 2}}

CurrentMessages ==
    {NoMessage}
      \cup {[NoMessage EXCEPT !.eml = TRUE, !.meta = [v |-> v, remote |-> 1],
               !.cache = [st |-> "ok", remote |-> 1]] : v \in {2, Current}}

DefaultConfig == [ids |-> {Me}, dflt |-> {Me}, files |-> {}, there |-> TRUE]

\* A new directory, a workspace of layout 1, one of layout 2, a newer one.
Init ==
    /\ \E v \in 0..(Layout + 1) :
          /\ identity = [v |-> v, uid |-> IF v = 0 THEN 0 ELSE 1]
          /\ data = (v > 0)
          /\ msg \in [Messages -> CASE v = 0 -> {NoMessage}
                                    [] v = 1 -> OldMessages
                                    [] OTHER -> CurrentMessages]
          /\ coll \in [Kinds -> CASE v = 0 -> {"current"}
                                   [] v = 1 -> {"old", "conflict"}
                                   [] OTHER -> {"old", "current"}]
          /\ cursor = [legacy |-> IF v = 1 THEN 1 ELSE 0,
                       current |-> IF v > 1 THEN 1 ELSE 0]
          /\ cfg = [DefaultConfig EXCEPT !.there = v > 0]
          /\ lastCursor = IF v = 0 THEN 0 ELSE 1
    /\ gitignore \in {<<User>>, <<User, Begin, WorkspaceBody, End, User>>}
    /\ pc = "idle" /\ reported = {}
    /\ known = identity.uid
    /\ bound = [m \in Messages |->
                  IF msg[m].legacy # 0 THEN msg[m].legacy ELSE msg[m].meta.remote]
    /\ mine = SelectSeq(gitignore, LAMBDA line : line = User)
    /\ pulls = 0 /\ configs = 0 /\ damage = 0 /\ faults = 0

-----------------------------------------------------------------------------
(* Configuration *)

\* Every file of identities/ belongs to a configured identity.
FilesAreKnown(c) == c.files \subseteq c.ids

\* Exactly one identity is the default.
Valid(c) ==
    /\ c.there
    /\ c.dflt \subseteq c.ids
    /\ Cardinality(c.dflt) = 1
    /\ FilesAreKnown(c)

Loads == Valid(cfg)

\* Ordinary commands validate the version and never migrate.
Admitted == pc = "idle" /\ identity.v = Layout

Configure(candidate) ==
    /\ Admitted /\ configs < MaxConfigs
    /\ Valid(candidate)
    /\ cfg' = candidate
    /\ configs' = configs + 1
    /\ UNCHANGED <<identity, data, msg, coll, cursor, gitignore, pc, reported, history,
                   pulls, damage, faults>>

\* A new default identity takes the flag from the others.
ConfigAdd(slug, default) ==
    /\ slug \notin cfg.ids
    /\ Configure([cfg EXCEPT !.ids = @ \cup {slug},
                             !.dflt = IF default THEN {slug} ELSE @])

ConfigRemove(slug) ==
    Configure([cfg EXCEPT !.ids = @ \ {slug}, !.dflt = @ \ {slug}])

-----------------------------------------------------------------------------
(* The managed block of .gitignore *)

First(lines, token) ==
    CHOOSE i \in DOMAIN lines :
        lines[i] = token /\ \A j \in 1..(i - 1) : lines[j] # token

EndOf(lines) ==
    CHOOSE i \in First(lines, Begin)..Len(lines) :
        lines[i] = End /\ \A j \in First(lines, Begin)..(i - 1) : lines[j] # End

BlockIsClosed(lines) ==
    Begin \in Range(lines) => \E i \in First(lines, Begin)..Len(lines) : lines[i] = End

\* The block is exchanged where it is, or appended.
ManagedBlock(lines, body) ==
    LET block == <<Begin>> \o body \o <<End>>
    IN  IF Begin \in Range(lines)
          THEN SubSeq(lines, 1, First(lines, Begin) - 1) \o block
                 \o SubSeq(lines, EndOf(lines) + 1, Len(lines))
          ELSE lines \o block

\* skill install --scope workspace.
SkillInstall ==
    /\ pc = "idle" /\ configs < MaxConfigs /\ configs' = configs + 1
    /\ BlockIsClosed(gitignore)
    /\ gitignore' = ManagedBlock(gitignore,
                      <<SkillBody>> \o IF data \/ WorkspaceBody \in Range(gitignore)
                                         THEN <<WorkspaceBody>> ELSE <<>>)
    /\ UNCHANGED <<identity, data, msg, coll, cursor, cfg, pc, reported, history,
                   pulls, damage, faults>>

-----------------------------------------------------------------------------
(* init *)

\* Without workspace.json only an empty directory is new; nothing is done to the
\* workspace of a newer release.
IdentityForInit == identity.v <= Layout /\ (identity.v = 0 => ~data)

\* Messages with evidence or an old sidecar; metadata alone is left as it is.
ToMigrate == {m \in Messages : msg[m].eml \/ msg[m].legacy # 0}

\* An old file and its replacement may both be there, when they agree.
MetadataAgrees(m) ==
    /\ msg[m].meta.v \in 0..Current
    /\ msg[m].legacy # 0 /\ msg[m].meta.v # Absent => msg[m].meta.remote = msg[m].legacy

CursorsAgree == cursor.legacy # 0 /\ cursor.current # 0 => cursor.legacy = cursor.current

\* Counts that newer releases derive agree with the items they counted.
CollectionIsSound(kind) == coll[kind] # "conflict"

Preflight ==
    /\ \A m \in ToMigrate : msg[m].eml /\ MetadataAgrees(m)
    /\ \A kind \in Kinds : CollectionIsSound(kind)
    /\ CursorsAgree

Rewritten == {m \in ToMigrate : msg[m].meta.v # Current}

\* The cursors are moved when the workspace has its new version.
Following_Bug(phase) ==
    CASE phase = "meta" -> "coll" [] phase = "coll" -> "layout"
      [] phase = "layout" -> "identity" [] phase = "identity" -> "cursor"
      [] phase = "cursor" -> "config" [] phase = "config" -> "remove"
      [] OTHER -> "render"

\* The order of the writes; the version is written when everything it promises
\* is in place, the old files go last.
Following(phase) ==
    CASE phase = "meta" -> "coll" [] phase = "coll" -> "cursor"
      [] phase = "cursor" -> "layout" [] phase = "layout" -> "identity"
      [] phase = "identity" -> "config" [] phase = "config" -> "remove"
      [] OTHER -> "render"

Enter(phase) == pc' = phase /\ UNCHANGED <<reported, counters>>
Stop == pc' = "idle" /\ reported' = {} /\ UNCHANGED <<files, history, counters>>

InitBegins ==
    /\ pc = "idle" /\ IdentityForInit /\ Preflight
    /\ pc' = "meta"
    /\ UNCHANGED <<files, reported, history, counters>>

\* Metadata is made from the sidecar, or gets the new version.
MigrateMessage(m) ==
    /\ pc = "meta" /\ m \in Rewritten
    /\ msg' = [msg EXCEPT
         ![m].meta = [v |-> Current, remote |-> IF @.v = Absent THEN msg[m].legacy ELSE @.remote],
         ![m].behind = TRUE]
    /\ UNCHANGED <<identity, data, coll, cursor, cfg, gitignore, pc, reported, history,
                   counters>>

MessagesMigrated ==
    /\ pc = "meta" /\ Rewritten = {}
    /\ Enter(Following(pc)) /\ UNCHANGED <<files, history>>

MigrateCollection(kind) ==
    /\ pc = "coll" /\ coll[kind] = "old"
    /\ coll' = [coll EXCEPT ![kind] = "current"]
    /\ UNCHANGED <<identity, data, msg, cursor, cfg, gitignore, pc, reported, history,
                   counters>>

CollectionsMigrated ==
    /\ pc = "coll" /\ \A kind \in Kinds : coll[kind] = "current"
    /\ Enter(Following(pc)) /\ UNCHANGED <<files, history>>

CopyCursors ==
    /\ pc = "cursor" /\ Enter(Following(pc))
    /\ cursor' = [cursor EXCEPT !.current = IF @ = 0 THEN cursor.legacy ELSE @]
    /\ UNCHANGED <<identity, data, msg, coll, cfg, gitignore, history>>

\* Directories, config.json and the audit log, where they are missing.
CreateLayout ==
    /\ pc = "layout" /\ Enter(Following(pc))
    /\ data' = TRUE
    /\ cfg' = [cfg EXCEPT !.there = TRUE]
    /\ UNCHANGED <<identity, msg, coll, cursor, gitignore, history>>

WriteIdentity ==
    /\ pc = "identity" /\ Enter(Following(pc))
    /\ LET uid == IF identity.v = 0 THEN known + 1 ELSE identity.uid
       IN  /\ identity' = [v |-> Layout, uid |-> uid]
           /\ known' = IF known = 0 THEN uid ELSE known
    /\ UNCHANGED <<data, msg, coll, cursor, cfg, gitignore, bound, lastCursor, mine>>

WriteGitignore ==
    /\ pc = "config" /\ Loads /\ BlockIsClosed(gitignore)
    /\ gitignore' = ManagedBlock(gitignore, <<WorkspaceBody>>)
    /\ Enter(Following(pc))
    /\ UNCHANGED <<identity, data, msg, coll, cursor, cfg, history>>

\* An invalid configuration or an open block ends init after the version.
ConfigStops == pc = "config" /\ ~(Loads /\ BlockIsClosed(gitignore)) /\ Stop

\* The sidecar goes without a look at the metadata that replaced it.
RemoveSidecar(m) ==
    /\ pc = "remove" /\ msg[m].legacy # 0
    /\ msg' = [msg EXCEPT ![m].legacy = 0]
    /\ UNCHANGED <<identity, data, coll, cursor, cfg, gitignore, pc, reported, history,
                   counters>>

RemoveFlatFiles ==
    /\ pc = "remove" /\ \A m \in Messages : msg[m].legacy = 0
    /\ cursor' = [cursor EXCEPT !.legacy = 0]
    /\ Enter(Following(pc))
    /\ UNCHANGED <<identity, data, msg, coll, cfg, gitignore, history>>

-----------------------------------------------------------------------------
(* The message cache *)

\* Evidence, canonical metadata of the current version, and the configuration.
Rebuildable(m) == msg[m].eml /\ msg[m].meta.v = Current /\ Loads

FromEvidence(f) ==
    [f EXCEPT !.cache = [st |-> "ok", remote |-> f.meta.remote], !.behind = FALSE,
              !.drift = FALSE, !.sidecar = FALSE]

CanRefresh ==
    /\ identity.v = Layout /\ Loads
    /\ \A m \in Messages :
          /\ msg[m].eml => Rebuildable(m)
          /\ ~msg[m].eml /\ msg[m].cache.st # "none" =>
                msg[m].cache.st = "ok" /\ msg[m].meta.v \in {Absent, Current}

Refreshed ==
    [m \in Messages |->
        IF msg[m].eml THEN FromEvidence(msg[m])
        ELSE IF msg[m].cache.st = "ok"
          THEN [msg[m] EXCEPT !.drift = FALSE, !.sidecar = FALSE]
          ELSE msg[m]]

\* The last step of init and of a repair, and a command of its own.
RenderRefresh ==
    /\ pc \in {"render", "refresh"} \/ Admitted
    /\ CanRefresh
    /\ msg' = Refreshed
    /\ pc' = CASE pc = "render" -> "initialised" [] pc = "refresh" -> "repaired"
               [] OTHER -> "idle"
    /\ UNCHANGED <<identity, data, coll, cursor, cfg, gitignore, reported, history,
                   counters>>

RenderStops == pc \in {"render", "refresh"} /\ ~CanRefresh /\ Stop

Finish == pc \in {"initialised", "repaired"} /\ Stop

-----------------------------------------------------------------------------
(* doctor *)

Issue(code, m, repairable) == [code |-> code, of |-> m, repairable |-> repairable]

\* Metadata without a cache is always reported as repairable.
MessageIssues_Bug(m) ==
    IF msg[m].cache.st = "none" /\ msg[m].meta.v # Absent
      THEN {Issue("message_metadata_orphaned", m, TRUE)} ELSE {}

\* What is wrong with the files of a message, and whether repair mends it.
MessageIssues(m) ==
    LET f == msg[m]
        Has(condition, code, repairable) ==
            IF condition THEN {Issue(code, m, repairable)} ELSE {}
    IN  UNION {Has(f.cache.st = "invalid", "message_cache_invalid", Rebuildable(m)),
               Has(f.cache.st = "ok" /\ ~f.eml, "message_eml_missing", FALSE),
               Has(f.cache.st = "ok" /\ f.meta.v = Absent, "message_metadata_missing", TRUE),
               Has(f.sidecar, "message_state_deprecated", TRUE),
               Has(f.cache.st = "none" /\ f.meta.v # Absent, "message_metadata_orphaned", f.eml)}

OverlayIssues ==
    {Issue("push_overlay_drift", m, TRUE) :
        m \in {n \in Messages : msg[n].cache.st = "ok" /\ msg[n].drift}}

LayoutIssues ==
    IF cursor.legacy # 0 THEN {Issue("workspace_layout_outdated", "", FALSE)} ELSE {}

Issues == UNION {MessageIssues(m) : m \in Messages} \cup OverlayIssues \cup LayoutIssues

\* doctor needs a directory and a configuration, not the right version.  The
\* deprecated sidecars go first.
DoctorRepair ==
    /\ pc = "idle" /\ data /\ Loads
    /\ pc' = "rebuild"
    /\ reported' = {i \in Issues : i.repairable}
    /\ msg' = [m \in Messages |-> [msg[m] EXCEPT !.sidecar = FALSE]]
    /\ UNCHANGED <<identity, data, coll, cursor, cfg, gitignore, history, counters>>

\* The cache only has to be younger than the mail.
NeedsMaterialize_Bug(m) == msg[m].eml /\ msg[m].cache.st # "ok"

\* A cache that is missing, unreadable or older than its inputs.
NeedsMaterialize(m) == msg[m].eml /\ (msg[m].cache.st # "ok" \/ msg[m].behind)

RebuildCache(m) ==
    /\ pc = "rebuild" /\ NeedsMaterialize(m) /\ Rebuildable(m)
    /\ msg' = [msg EXCEPT ![m] = FromEvidence(@)]
    /\ UNCHANGED <<identity, data, coll, cursor, cfg, gitignore, pc, reported, history,
                   counters>>

RebuildStops ==
    pc = "rebuild" /\ (\E m \in Messages : NeedsMaterialize(m) /\ ~Rebuildable(m)) /\ Stop

CachesRebuilt ==
    /\ pc = "rebuild" /\ \A m \in Messages : ~NeedsMaterialize(m)
    /\ Enter("persist") /\ UNCHANGED <<files, history>>

Persisted(m) == [v |-> Current, remote |-> msg[m].cache.remote]

\* Metadata of another version is refused, it is init's to migrate.
Persistable(m) == msg[m].cache.st = "ok" /\ msg[m].meta.v \in {Absent, Current}

PersistMetadata(m) ==
    /\ pc = "persist" /\ Persistable(m) /\ msg[m].meta # Persisted(m)
    /\ msg' = [msg EXCEPT ![m].meta = Persisted(m)]
    /\ UNCHANGED <<identity, data, coll, cursor, cfg, gitignore, pc, reported, history,
                   counters>>

PersistStops ==
    /\ pc = "persist"
    /\ \E m \in Messages : msg[m].cache.st = "ok" /\ ~Persistable(m)
    /\ Stop

MetadataPersisted ==
    /\ pc = "persist"
    /\ \A m \in Messages : msg[m].cache.st = "ok" => msg[m].meta = Persisted(m)
    /\ Enter("refresh") /\ UNCHANGED <<files, history>>

-----------------------------------------------------------------------------
(* What else happens to the workspace *)

\* A new message, or a new place of one that is there: metadata, evidence,
\* cache, and the cursor at the end.  `saved` is how far a crash let it come.
Pull(m) ==
    /\ Admitted /\ Loads /\ pulls < MaxPulls /\ pulls' = pulls + 1
    /\ msg[m].eml => msg[m].meta.v = Current
    /\ msg[m].meta.v # Absent \/ msg[m].cache.st # "none" => msg[m].eml
    /\ LET seen == pulls + 2
           meta == [v |-> Current, remote |-> seen]
       IN  \E saved \in {"metadata", "evidence", "all"} :
             /\ msg' = [msg EXCEPT ![m] =
                  IF saved = "all"
                    THEN FromEvidence([msg[m] EXCEPT !.meta = meta, !.eml = TRUE])
                    ELSE [msg[m] EXCEPT !.meta = meta, !.behind = TRUE,
                                        !.eml = @ \/ saved = "evidence"]]
             /\ bound' = [bound EXCEPT ![m] = seen]
             /\ IF saved = "all"
                  THEN /\ cursor' = [cursor EXCEPT !.current = seen]
                       /\ lastCursor' = seen /\ UNCHANGED faults
                  ELSE /\ faults < MaxFaults /\ faults' = faults + 1
                       /\ UNCHANGED <<cursor, lastCursor>>
    /\ UNCHANGED <<identity, data, coll, cfg, gitignore, pc, reported, known, mine,
                   configs, damage>>

Crash ==
    /\ pc \notin {"idle", "initialised", "repaired"}
    /\ faults < MaxFaults /\ faults' = faults + 1
    /\ pc' = "idle" /\ reported' = {}
    /\ UNCHANGED <<files, history, pulls, configs, damage>>

Damage ==
    /\ pc = "idle" /\ damage < MaxDamage /\ damage' = damage + 1
    /\ UNCHANGED <<coll, data, pc, reported, known, lastCursor, pulls, configs,
                   faults, cursor>>

\* Files deleted, a cache made unreadable, a push overlay left behind.
DamageMessage(m) ==
    /\ Damage
    /\ \/ /\ msg[m].cache.st # "none"
          /\ \E st \in {"none", "invalid"} :
                msg' = [msg EXCEPT ![m].cache = [st |-> st, remote |-> 0]]
          /\ UNCHANGED bound
       \/ /\ msg[m].meta.v # Absent
          /\ msg' = [msg EXCEPT ![m].meta = NoMessage.meta, ![m].behind = FALSE]
          /\ bound' = [bound EXCEPT ![m] = msg[m].legacy]
       \/ /\ msg[m].eml
          /\ msg' = [msg EXCEPT ![m].eml = FALSE]
          /\ UNCHANGED bound
       \/ /\ msg[m].cache.st = "ok"
          /\ msg' = [msg EXCEPT ![m].drift = TRUE]
          /\ UNCHANGED bound
    /\ UNCHANGED <<identity, cfg, gitignore, mine>>

DeleteIdentity ==
    /\ Damage /\ identity.v # 0
    /\ identity' = [v |-> 0, uid |-> 0]
    /\ UNCHANGED <<msg, cfg, gitignore, bound, mine>>

\* From a backup, with the version that fits the files.
RestoreIdentity ==
    /\ Damage /\ identity.v = 0 /\ known # 0
    /\ identity' = [v |-> IF cursor.legacy # 0 THEN 1 ELSE Layout, uid |-> known]
    /\ UNCHANGED <<msg, cfg, gitignore, bound, mine>>

AddIdentityFile(slug) ==
    /\ Damage /\ slug \notin cfg.files
    /\ cfg' = [cfg EXCEPT !.files = @ \cup {slug}]
    /\ UNCHANGED <<identity, msg, gitignore, bound, mine>>

EditGitignore ==
    /\ Damage
    /\ \/ /\ gitignore' = Append(gitignore, User)
          /\ mine' = Append(mine, User)
       \/ /\ End \in Range(gitignore)
          /\ gitignore' = SelectSeq(gitignore, LAMBDA line : line # End)
          /\ UNCHANGED mine
    /\ UNCHANGED <<identity, msg, cfg, bound>>

-----------------------------------------------------------------------------
InitCommand ==
    \/ InitBegins \/ MessagesMigrated \/ CollectionsMigrated \/ CopyCursors \/ CreateLayout
    \/ WriteIdentity \/ WriteGitignore \/ ConfigStops \/ RemoveFlatFiles
    \/ \E m \in Messages : MigrateMessage(m) \/ RemoveSidecar(m)
    \/ \E kind \in Kinds : MigrateCollection(kind)

DoctorCommand ==
    \/ DoctorRepair \/ RebuildStops \/ CachesRebuilt \/ PersistStops \/ MetadataPersisted
    \/ \E m \in Messages : RebuildCache(m) \/ PersistMetadata(m)

ByHand ==
    \/ \E m \in Messages : DamageMessage(m)
    \/ \E slug \in Slugs : AddIdentityFile(slug)
    \/ DeleteIdentity \/ RestoreIdentity \/ EditGitignore

Next ==
    \/ InitCommand \/ DoctorCommand
    \/ RenderRefresh \/ RenderStops \/ Finish
    \/ \E slug \in Slugs : ConfigRemove(slug) \/ \E d \in BOOLEAN : ConfigAdd(slug, d)
    \/ SkillInstall
    \/ \E m \in Messages : Pull(m)
    \/ ByHand \/ Crash

Spec == Init /\ [][Next]_vars

-----------------------------------------------------------------------------
(* Properties *)

Phases == {"idle", "meta", "coll", "cursor", "layout", "identity", "config", "remove",
           "render", "initialised", "rebuild", "persist", "refresh", "repaired"}

\* Every file has a shape a release wrote, and the configuration is only ever
\* unreadable because of a file somebody put into identities/ by hand.
TypeOK ==
    /\ identity \in [v : 0..(Layout + 1), uid : Nat]
    /\ pc \in Phases
    /\ \A m \in Messages :
          /\ msg[m].meta.v \in 0..Current
          /\ msg[m].cache.st \in {"none", "invalid", "ok"}
          /\ msg[m].eml \in BOOLEAN /\ msg[m].legacy \in Nat
    /\ coll \in [Kinds -> {"old", "conflict", "current"}]
    /\ Range(gitignore) \subseteq {Begin, End, User, WorkspaceBody, SkillBody}
    /\ cfg.ids \subseteq Slugs /\ cfg.files \subseteq Slugs
    /\ cfg.there /\ cfg.files \subseteq cfg.ids => Loads

\* A workspace keeps its uid for life: neither an init that was interrupted nor
\* one that finds workspace.json missing gives it another.
UidIsKept == identity.uid \in {0, known}

\* Where a message was last seen on the server is never forgotten by an
\* upgrade, a repair or a crash in either, as long as the mail itself is there:
\* it is in the metadata, or still in the sidecar it came from.
BindingIsKept ==
    \A m \in Messages :
        msg[m].eml /\ bound[m] # 0 => bound[m] \in {msg[m].meta.remote, msg[m].legacy}

\* A pull goes on from the last cursor that was saved, also in a workspace whose
\* upgrade was interrupted.
PullContinues == [][pulls' # pulls => cursor.current = lastCursor]_vars

\* When init reports success nothing old is left, however often it was
\* interrupted before.
InitIsComplete ==
    pc = "initialised" =>
        /\ identity.v = Layout /\ cursor.legacy = 0
        /\ \A kind \in Kinds : coll[kind] = "current"
        /\ \A m \in Messages :
              /\ msg[m].legacy = 0
              /\ msg[m].eml => msg[m].meta.v = Current /\ msg[m].cache.st = "ok"
        /\ BlockIsClosed(gitignore) /\ WorkspaceBody \in Range(gitignore)

\* What doctor called repairable is gone when the repair has finished.
RepairKeepsItsPromise == pc = "repaired" => reported \cap Issues = {}

\* The lines of .gitignore that are not afmail's stay, in their order, and
\* there is one managed block.
UserLinesAreKept ==
    /\ SelectSeq(gitignore, LAMBDA line : line = User) = mine
    /\ Cardinality({i \in DOMAIN gitignore : gitignore[i] = Begin}) <= 1

\* Neither an upgrade nor a repair nor a crash in one loses what the workspace
\* had: its uid, where its messages are on the server, and the user's lines.
KnownIsKept == UidIsKept /\ BindingIsKept /\ UserLinesAreKept

\* When init or a repair says that it has finished, nothing is left to do.
FinishedMeansDone == InitIsComplete /\ RepairKeepsItsPromise
=============================================================================
