-------------------------------- MODULE Combos --------------------------------
(***************************************************************************)
(* The user's combos, combo templates and settings: their edits on the     *)
(* client (config/service.go), the commands that make or change a combo in *)
(* several calls of it (app.go), their migration when the application      *)
(* starts, and their copies in the user's account on the platform, pushed  *)
(* at sign-in and sign-out while edits go on (app.go, auth/platform.go,    *)
(* platform-api user/optimization.go).                                     *)
(***************************************************************************)
EXTENDS Naturals, Sequences, FiniteSets, SequencesExt

CONSTANTS
    Users,      \* accounts on the platform
    Drafts,     \* what a user may save: name, steps, models, whether it has a logical name
    TierOf,     \* modelTier, of each model
    CostOf,     \* modelCost, of each model, as a rank
    Old,        \* combos in the file of an older release
    Builtin,    \* the built-in template
    MaxEdits,   \* bound: commands of the user
    MaxPushed   \* bound: combos pushed

VARIABLES
    up,         \* whether the application runs
    combos,     \* config.ModelCombos
    templates,  \* config.ComboTemplates
    settings,   \* optimization, rate limit and routing settings
    file,       \* config.json
    command,    \* what is left to do of a command: [todo, combo, preset]
    session,    \* the account that is signed in, or "none"
    sync,       \* syncLocalDataToCloud: [run, all, left, user]
    cloud,      \* the accounts' combos: [user, id, name, steps, archived]
    cloudSettings, \* users.optimization_config
    edits       \* commands so far

vars == <<up, combos, templates, settings, file, command, session, sync, cloud, cloudSettings,
          edits>>

Models == DOMAIN TierOf
Step(channel, model) == [channel |-> channel, model |-> model]
Combo(name, steps, models, named) ==
    [name |-> name, steps |-> steps, models |-> models, named |-> named]

-----------------------------------------------------------------------------
(* Normal forms.                                                           *)
NormalizeComboSteps(steps) ==
    FoldLeft(LAMBDA done, s : IF s.model = "" \/ s \in ToSet(done) THEN done ELSE Append(done, s),
             <<>>, steps)
NormalizeModels(models) ==
    FoldLeft(LAMBDA done, m : IF m = "" \/ m \in ToSet(done) THEN done ELSE Append(done, m),
             <<>>, models)
ModelsOf(steps) == [k \in 1..Len(steps) |-> steps[k].model]

(* Mutant of Normalized: models that are given are kept. *)
NormalizedOnce(c) ==
    LET own == NormalizeComboSteps(c.steps)
        models == NormalizeModels(c.models)
        steps == IF own # <<>> THEN own ELSE [k \in 1..Len(models) |-> Step("", models[k])]
    IN [c EXCEPT !.steps = steps, !.models = IF models # <<>> THEN models ELSE ModelsOf(steps)]

(* Steps are made of the models of a combo that has none. *)
Normalized(c) ==
    LET own == NormalizeComboSteps(c.steps)
        models == NormalizeModels(c.models)
        steps == IF own # <<>> THEN own ELSE [k \in 1..Len(models) |-> Step("", models[k])]
    IN [c EXCEPT !.steps = steps, !.models = ModelsOf(steps)]

Acceptable(c) == Normalized(c).steps # <<>>

(* In the place of the first of that name, or at the end. *)
Upserted(list, c) ==
    LET at == {k \in 1..Len(list) : list[k].name = c.name}
    IN IF at = {} THEN Append(list, Normalized(c))
       ELSE [list EXCEPT ![CHOOSE k \in at : \A j \in at : k <= j] = Normalized(c)]
Without(list, name) == SelectSeq(list, LAMBDA c : c.name # name)

(* Stable sorts by the rank of the steps' models, and the models with them.*)
ByRank(steps, ranks, rank) ==
    FlattenSeq([k \in 1..Len(ranks) |-> SelectSeq(steps, LAMBDA s : rank[s.model] = ranks[k])])
Sorted(steps, preset) ==
    CASE preset = "intelligence" -> ByRank(steps, <<3, 2, 1>>, TierOf)
      [] preset = "speed" -> ByRank(steps, <<1, 2, 3>>, TierOf)
      [] OTHER -> ByRank(steps, <<1, 2, 3>>, CostOf)
WithSorted(list, name, preset) ==
    [k \in 1..Len(list) |->
        IF list[k].name = name /\ Len(list[k].steps) > 1
           /\ \A j \in 1..(k - 1) : list[j].name # name
        THEN LET steps == Sorted(list[k].steps, preset)
             IN [list[k] EXCEPT !.steps = steps, !.models = ModelsOf(steps)]
        ELSE list[k]]

-----------------------------------------------------------------------------
NoCommand == [todo |-> "nothing", combo |-> Builtin, preset |-> "budget"]
NoSync == [run |-> "idle", all |-> <<>>, left |-> <<>>, user |-> "none"]

(* The optimization's mode and one of its numbers, the rate, the strategy. *)
DefaultSettings == [mode |-> "value_first", number |-> "default", rpm |-> 60, strategy |-> "fallback"]

Saved(c, t, s) == file' = [combos |-> c, templates |-> t, settings |-> s]

(* What the next start finds: migrateModelCombos names every combo, and a  *)
(* built-in template is added if none has its name.                        *)
Migrated(list) == [k \in 1..Len(list) |-> [list[k] EXCEPT !.named = TRUE]]
WithBuiltin(list) ==
    IF \E k \in 1..Len(list) : list[k].name = Builtin.name THEN list ELSE Append(list, Builtin)

Init ==
    /\ up = FALSE /\ combos = <<>> /\ templates = <<>> /\ settings = DefaultSettings
    /\ file = [combos |-> Old, templates |-> <<>>, settings |-> DefaultSettings]
    /\ command = NoCommand /\ session = "none" /\ sync = NoSync /\ cloud = <<>>
    /\ cloudSettings = [u \in Users |-> "none"] /\ edits = 0

Boot ==
    /\ ~ up /\ up' = TRUE
    /\ combos' = Migrated(file.combos) /\ templates' = WithBuiltin(file.templates)
    /\ settings' = file.settings
    /\ Saved(combos', templates', settings')
    /\ UNCHANGED <<command, session, sync, cloud, cloudSettings, edits>>

(* The session is kept in the keychain. *)
ProcessEnds ==
    /\ up /\ up' = FALSE
    /\ command' = NoCommand /\ sync' = NoSync
    /\ UNCHANGED <<combos, templates, settings, file, session, cloud, cloudSettings, edits>>

-----------------------------------------------------------------------------
(* Edits; each saves the file before it returns.                           *)
Edit == up /\ edits < MaxEdits /\ edits' = edits + 1
SetCombos(list) ==
    combos' = list /\ Saved(list, templates, settings) /\ UNCHANGED <<templates, settings>>
SetTemplates(list) ==
    templates' = list /\ Saved(combos, list, settings) /\ UNCHANGED <<combos, settings>>
SetSettings(s) ==
    settings' = s /\ Saved(combos, templates, s) /\ UNCHANGED <<combos, templates>>
Others == UNCHANGED <<up, session, sync, cloud, cloudSettings>>

SaveModelCombo(c) == Acceptable(c) /\ SetCombos(Upserted(combos, c))

UserSavesCombo ==
    /\ Edit /\ \E c \in Drafts : SaveModelCombo(c)
    /\ UNCHANGED command /\ Others
DeleteModelCombo ==
    /\ Edit /\ \E k \in 1..Len(combos) : SetCombos(Without(combos, combos[k].name))
    /\ UNCHANGED command /\ Others

ApplyComboSortPreset(name, preset) ==
    /\ \E k \in 1..Len(combos) : combos[k].name = name
    /\ SetCombos(WithSorted(combos, name, preset))
UserSortsCombo ==
    /\ Edit
    /\ \E k \in 1..Len(combos), p \in {"intelligence", "speed", "budget"} :
           ApplyComboSortPreset(combos[k].name, p)
    /\ UNCHANGED command /\ Others

SaveComboTemplate ==
    /\ Edit /\ \E c \in Drafts : Acceptable(c) /\ SetTemplates(Upserted(templates, c))
    /\ UNCHANGED command /\ Others
DeleteComboTemplate ==
    /\ Edit /\ \E k \in 1..Len(templates) : SetTemplates(Without(templates, templates[k].name))
    /\ UNCHANGED command /\ Others
(* The first of the old name; the new one may be taken already. *)
RenameComboTemplate ==
    /\ Edit
    /\ \E k \in 1..Len(templates), c \in Drafts :
           /\ \A j \in 1..(k - 1) : templates[j].name # templates[k].name
           /\ SetTemplates([templates EXCEPT ![k].name = c.name])
    /\ UNCHANGED command /\ Others

(* A JSON number is no int in SetOptimizationConfig; toInt takes it for    *)
(* the rates. An empty mode or strategy is replaced.                       *)
SetOptimizationConfig ==
    /\ Edit /\ \E m \in {"", "quality_first"} :
           SetSettings([settings EXCEPT !.mode = IF m = "" THEN "value_first" ELSE m, !.number = "zero"])
    /\ UNCHANGED command /\ Others
SetRateLimitConfig ==
    /\ Edit /\ SetSettings([settings EXCEPT !.rpm = 5])
    /\ UNCHANGED command /\ Others
UpdateRoutingSettings ==
    /\ Edit /\ \E s \in {"", "round_robin"} :
           SetSettings([settings EXCEPT !.strategy = IF s = "" THEN "fallback" ELSE s])
    /\ UNCHANGED command /\ Others

-----------------------------------------------------------------------------
(* Commands that take several calls. The optimizer's advice, from one      *)
(* model to another, is any.                                               *)
Idle == command.todo = "nothing"
OneStep(name, model) == Combo(name, <<Step("", model)>>, <<>>, FALSE)

ApplyRecommendation ==
    /\ Edit /\ Idle
    /\ \E m \in Models : command' = [todo |-> "save", combo |-> OneStep(<<"recommended", m>>, m),
                                     preset |-> "budget"]
    /\ UNCHANGED <<combos, templates, settings, file>> /\ Others

(* FindComboByModel copies the first combo with the model to be replaced.  *)
Has(c, m) == m \in ToSet(ModelsOf(c.steps)) \cup ToSet(c.models)
FindComboByModel(m) ==
    LET at == {k \in 1..Len(combos) : Has(combos[k], m)}
    IN IF at = {} THEN {} ELSE {Normalized(combos[CHOOSE k \in at : \A j \in at : k <= j])}

ApplyComboOptimization ==
    /\ Edit /\ Idle
    /\ \E from, to \in Models, update \in BOOLEAN :
           LET found == IF update THEN FindComboByModel(from) ELSE {}
               c == IF found = {} THEN OneStep(<<"optimized", to>>, to)
                    ELSE [(CHOOSE f \in found : TRUE) EXCEPT !.steps = <<Step("", to)>>]
           IN command' = [todo |-> "save", combo |-> c, preset |-> "speed"]
    /\ UNCHANGED <<combos, templates, settings, file>> /\ Others

CommandSaves ==
    /\ up /\ command.todo = "save"
    /\ SaveModelCombo(command.combo)
    /\ command' = [command EXCEPT !.todo = "sort"]
    /\ UNCHANGED edits /\ Others
(* The combo may be gone, which is an error. *)
CommandSorts ==
    /\ up /\ command.todo = "sort"
    /\ \/ ApplyComboSortPreset(command.combo.name, command.preset)
       \/ /\ \A k \in 1..Len(combos) : combos[k].name # command.combo.name
          /\ UNCHANGED <<combos, templates, settings, file>>
    /\ command' = NoCommand
    /\ UNCHANGED edits /\ Others

-----------------------------------------------------------------------------
(* The account.                                                            *)
Kept == UNCHANGED <<up, combos, templates, settings, file, command>>

(* A sync is started after a sign-in, before a sign-out and on demand. A   *)
(* custom channel makes it fail before any combo: the platform has no such *)
(* route. Else the combos are copied, and pushed one after the other to    *)
(* the account that is then signed in.                                     *)
StartSync(user) ==
    sync' = IF combos = <<>> THEN NoSync
            ELSE [run |-> "pushing", all |-> [k \in 1..Len(combos) |-> Normalized(combos[k])],
                  left |-> [k \in 1..Len(combos) |-> Normalized(combos[k])], user |-> user]

Login ==
    /\ up /\ session = "none" /\ sync.run # "pushing"
    /\ \E u \in Users : session' = u /\ (StartSync(u) \/ sync' = NoSync)
    /\ UNCHANGED <<cloud, cloudSettings, edits>> /\ Kept
SyncLocalDataToCloud ==
    /\ up /\ session # "none" /\ sync.run # "pushing"
    /\ StartSync(session)
    /\ UNCHANGED <<session, cloud, cloudSettings, edits>> /\ Kept
(* Its own sync is over; one of another command may still be under way.    *)
Logout ==
    /\ up /\ session # "none" /\ session' = "none"
    /\ UNCHANGED <<sync, cloud, cloudSettings, edits>> /\ Kept

(* The platform creates a row each time, and refuses a combo without a     *)
(* logical name; an error is ignored.                                      *)
Push(ok) ==
    LET c == Head(sync.left)
    IN /\ sync' = [sync EXCEPT !.left = Tail(@), !.run = IF Tail(sync.left) = <<>> THEN "done" ELSE @,
                               !.user = IF ok /\ session = @ THEN @ ELSE "none"]
       /\ cloud' = IF ok /\ c.named
                   THEN Append(cloud, [user |-> session, id |-> Len(cloud) + 1, name |-> c.name,
                                       steps |-> c.steps, archived |-> FALSE])
                   ELSE cloud
PushCloudCombo ==
    /\ up /\ sync.run = "pushing" /\ Len(cloud) < MaxPushed
    /\ \E ok \in IF session = "none" THEN {FALSE} ELSE BOOLEAN : Push(ok)
    /\ UNCHANGED <<session, cloudSettings, edits>> /\ Kept

UpdateCloudCombo ==
    /\ up /\ edits < MaxEdits /\ edits' = edits + 1
    /\ \E k \in 1..Len(cloud), c \in Drafts :
           cloud[k].user = session /\ cloud' = [cloud EXCEPT ![k].steps = c.steps]
    /\ UNCHANGED <<session, sync, cloudSettings>> /\ Kept
DeleteCloudCombo ==
    /\ up /\ edits < MaxEdits /\ edits' = edits + 1
    /\ \E k \in 1..Len(cloud) :
           cloud[k].user = session /\ cloud' = [cloud EXCEPT ![k].archived = TRUE]
    /\ UNCHANGED <<session, sync, cloudSettings>> /\ Kept

(* The whole optimization is pushed, of which the mode stands for all.     *)
Pushed(s) == s.mode
PushCloudOptimizationConfig ==
    /\ up /\ session # "none"
    /\ cloudSettings' = [cloudSettings EXCEPT ![session] = Pushed(settings)]
    /\ UNCHANGED <<session, sync, cloud, edits>> /\ Kept

(* FetchCloudOptimizationConfig returns the settings without the "config"  *)
(* around them, in which they are then looked for: nothing is taken over.  *)
Fetched(user) == [mode |-> cloudSettings[user]]
SyncOptimizationConfigFromCloud ==
    /\ Edit /\ session # "none" /\ cloudSettings[session] # "none"
    /\ LET parsed == Fetched(session)
       IN IF "config" \in DOMAIN parsed
          THEN SetSettings([settings EXCEPT !.mode = parsed.config.mode])
          ELSE UNCHANGED <<combos, templates, settings, file>>
    /\ UNCHANGED command /\ Others

Next ==
    \/ Boot \/ ProcessEnds
    \/ UserSavesCombo \/ DeleteModelCombo \/ UserSortsCombo
    \/ SaveComboTemplate \/ DeleteComboTemplate \/ RenameComboTemplate
    \/ SetOptimizationConfig \/ SetRateLimitConfig \/ UpdateRoutingSettings
    \/ ApplyRecommendation \/ ApplyComboOptimization \/ CommandSaves \/ CommandSorts
    \/ Login \/ SyncLocalDataToCloud \/ Logout \/ PushCloudCombo
    \/ UpdateCloudCombo \/ DeleteCloudCombo \/ PushCloudOptimizationConfig
    \/ SyncOptimizationConfigFromCloud

Spec == Init /\ [][Next]_vars

-----------------------------------------------------------------------------
ConstantsOK ==
    /\ DOMAIN CostOf = Models /\ \A m \in Models : TierOf[m] \in 1..3 /\ CostOf[m] \in 1..3
    /\ \A c \in Drafts \cup ToSet(Old) : ToSet(ModelsOf(c.steps)) \cup ToSet(c.models) \subseteq Models \cup {""}
    /\ Acceptable(Builtin) /\ MaxEdits \in Nat /\ MaxPushed \in Nat /\ "none" \notin Users

TypeOK ==
    /\ up \in BOOLEAN /\ session \in Users \cup {"none"}
    /\ \A list \in {combos, templates, sync.all} : \A k \in 1..Len(list) :
           ToSet(ModelsOf(list[k].steps)) \cup ToSet(list[k].models) \subseteq Models \cup {""}
    /\ settings.mode \in {"value_first", "quality_first"} /\ settings.strategy # ""
    /\ command.todo \in {"nothing", "save", "sort"}
    /\ sync.run \in {"idle", "pushing", "done"} /\ Len(sync.left) <= Len(sync.all)
    /\ \A k \in 1..Len(cloud) : cloud[k].user \in Users /\ cloud[k].id = k
    /\ edits \in 0..MaxEdits

(* As readers see them, the combos have different names, and each has      *)
(* different steps, one at least; a combo found by a model has it among    *)
(* its steps, so that what is optimised is what the router would use.      *)
Read(c) == Normalized(c)
CombosSound ==
    /\ \A j, k \in 1..Len(combos) : combos[j].name = combos[k].name => j = k
    /\ \A k \in 1..Len(combos) : LET steps == Read(combos[k]).steps
                                 IN steps # <<>> /\ Cardinality(ToSet(steps)) = Len(steps)
    /\ \A m \in Models : \A c \in FindComboByModel(m) : \E k \in 1..Len(c.steps) : c.steps[k].model = m

(* A sync whose pushes went well has brought every combo with a logical    *)
(* name that there was when it began to the account it began for, whatever *)
(* was edited or deleted on the client meanwhile.                          *)
SyncCovers ==
    sync.run = "done" /\ sync.user # "none" =>
        \A k \in 1..Len(sync.all) : sync.all[k].named =>
            \E j \in 1..Len(cloud) : cloud[j].user = sync.user /\ cloud[j].name = sync.all[k].name

(* A restart brings back combos, templates and settings.                   *)
KeepsCombos ==
    ~ up /\ up' /\ (combos # <<>> \/ templates # <<>>) =>
        /\ [k \in 1..Len(combos') |-> Read(combos'[k]).steps] = [k \in 1..Len(combos) |-> Read(combos[k]).steps]
        /\ [k \in 1..Len(combos') |-> combos'[k].name] = [k \in 1..Len(combos) |-> combos[k].name]
        /\ IsPrefix(templates, templates') /\ settings' = settings
=============================================================================
