--------------------------- MODULE SettingsProofs ---------------------------
(***************************************************************************)
(* Theorems about Settings as Selection runs it: any number of editors,    *)
(* keys, directories and edits, beside any other command.                  *)
(***************************************************************************)
EXTENDS Selection, FiniteSetTheorems, TLAPS

-----------------------------------------------------------------------------
(* The inductive invariant *)

Paths == [Key -> Directory \cup {Unset}]

Edit == [step : Steps, effective : [Key -> Directory], document : Paths,
         checked : BOOLEAN, stale : BOOLEAN]

\* A file that says where every directory is, and keeps them apart.
Complete(file) == file \in [Key -> Directory] /\ Distinct(file)

\* An edit that was checked against the file, which nobody has written since.
Careful(e) == edit[e].checked /\ ~edit[e].stale

\* It knows the file as it is, and will write one that can be loaded.
EditFits(e) ==
    /\ edit[e].step \in {"loaded", "read"} => edit[e].effective = config
    /\ edit[e].step = "read" => edit[e].document = config
    /\ edit[e].step \in {"backing", "writing"} => Complete(edit[e].document)

SettingsTypes ==
    /\ config \in Paths /\ edit \in [Editor -> Edit]
    /\ settings \in 0..MaxSettings /\ loose \in BOOLEAN

SettingsIInv ==
    /\ SettingsTypes
    /\ ~loose => Complete(config) /\ \A e \in Editor : Careful(e) => EditFits(e)

-----------------------------------------------------------------------------
(* load_configuration *)

\* What a command takes for its directories when it starts has none unset.
LEMMA EffectiveTyped ==
    ASSUME NEW o \in Paths, NEW file \in Paths
    PROVE  Effective(o, file) \in [Key -> Directory]
  BY SettingsAssumption DEF Effective, Paths

\* Without overrides, a file that says everything is what the command takes.
LEMMA EffectiveIsFile ==
    ASSUME NEW file \in [Key -> Directory]
    PROVE  Effective(NoOverrides, file) = file
<1>1. \A k \in Key : file[k] # Unset
  BY SettingsAssumption
<1>2. \A k \in Key : NoOverrides[k] = Unset
  BY DEF NoOverrides
<1> QED
  BY <1>1, <1>2 DEF Effective

LEMMA NoOverridesTyped == NoOverrides \in Paths
  BY DEF NoOverrides, Paths

\* A complete file with one directory put where it is clear of the others is complete.
LEMMA SetKeepsComplete ==
    ASSUME NEW file, Complete(file), NEW key \in Key, NEW value \in Directory,
           Clear(file, key, value)
    PROVE  Complete([file EXCEPT ![key] = value])
<1> DEFINE after == [file EXCEPT ![key] = value]
<1>1. after \in [Key -> Directory] /\ after[key] = value /\ \A k \in Key \ {key} : after[k] = file[k]
  BY DEF Complete
<1>2. ASSUME NEW k \in Key, NEW l \in Key, k # l
      PROVE  ~Overlap(after[k], after[l])
  <2>1. CASE k = key
    BY <1>1, <1>2, <2>1 DEF Clear
  <2>2. CASE l = key
    <3>1. ~Overlap(value, file[k])
      BY <1>2, <2>2 DEF Clear
    <3> QED
      BY <1>1, <1>2, <2>2, <3>1 DEF Overlap
  <2>3. CASE k # key /\ l # key
    BY <1>1, <1>2, <2>3 DEF Complete, Distinct
  <2> QED
    BY <2>1, <2>2, <2>3
<1> QED
  BY <1>1, <1>2 DEF Complete, Distinct

-----------------------------------------------------------------------------
(* The steps of an edit *)

LEMMA NoEditTyped == NoEdit \in Edit
  BY SettingsAssumption, NoOverridesTyped DEF NoEdit, Edit, Steps

\* An edit that ends claims nothing.
LEMMA IdleFits ==
    ASSUME NEW e, edit[e] = NoEdit
    PROVE  EditFits(e)
  BY DEF EditFits, NoEdit

LEMMA InitialSettings == Init => SettingsIInv
<1> SUFFICES ASSUME SettingsInit PROVE SettingsIInv
  BY DEF Init
<1>1. SettingsTypes
  <2>1. config \in Paths /\ edit \in [Editor -> Edit]
    BY SettingsAssumption, NoEditTyped DEF SettingsInit, Paths
  <2>2. settings \in 0..MaxSettings
    BY SettingsAssumption DEF SettingsInit
  <2>3. loose \in BOOLEAN
    BY Zenon DEF SettingsInit
  <2> QED
    BY <2>1, <2>2, <2>3 DEF SettingsTypes
<1>2. Complete(config)
  BY SettingsAssumption, DefaultAssumption DEF SettingsInit, Complete
<1>3. \A e \in Editor : EditFits(e)
  BY IdleFits DEF SettingsInit
<1> QED
  BY <1>1, <1>2, <1>3 DEF SettingsIInv

\* A step of editor e that writes no file, and leaves e an edit that fits.
LEMMA OneEdit ==
    ASSUME SettingsIInv, NEW e \in Editor, NEW new \in Edit,
           edit' = [edit EXCEPT ![e] = new], UNCHANGED <<config, loose>>,
           settings' \in 0..MaxSettings,
           ~loose => (Careful(e)' => EditFits(e)')
    PROVE  SettingsIInv'
<1>1. SettingsTypes'
  BY DEF SettingsIInv, SettingsTypes
<1>2. \A f \in Editor \ {e} : edit'[f] = edit[f]
  BY DEF SettingsIInv, SettingsTypes
<1>3. \A f \in Editor \ {e} : (Careful(f)' <=> Careful(f)) /\ (EditFits(f)' <=> EditFits(f))
  BY <1>2 DEF Careful, EditFits, Complete
<1> QED
  BY <1>1, <1>3 DEF SettingsIInv, Complete

LEMMA LoadKeeps ==
    ASSUME SettingsIInv, NEW e \in Editor, Load(e)
    PROVE  SettingsIInv'
<1>1. PICK overrides \in {NoOverrides} \cup Told :
        edit' = [edit EXCEPT ![e] = [NoEdit EXCEPT !.step = "loaded",
                   !.effective = Effective(overrides, config), !.checked = overrides = NoOverrides]]
  BY DEF Load
<1> DEFINE new == [NoEdit EXCEPT !.step = "loaded",
                     !.effective = Effective(overrides, config), !.checked = overrides = NoOverrides]
<1>2. overrides \in Paths
  BY <1>1, NoOverridesTyped, SettingsAssumption DEF Paths, Told
<1>3. Effective(overrides, config) \in [Key -> Directory]
  BY <1>2, EffectiveTyped DEF SettingsIInv, SettingsTypes
<1>4. /\ new \in Edit
      /\ new.step = "loaded" /\ new.effective = Effective(overrides, config)
      /\ new.checked = (overrides = NoOverrides)
  <2> DEFINE effective == Effective(overrides, config)
             plain == (overrides = NoOverrides)
             wide == [NoEdit EXCEPT !.step = "loaded", !.effective = effective, !.checked = plain]
  <2>1. effective \in [Key -> Directory] /\ plain \in BOOLEAN
    BY <1>3
  <2> HIDE DEF effective, plain
  <2>2. wide \in Edit /\ wide.step = "loaded" /\ wide.effective = effective /\ wide.checked = plain
    BY <2>1, NoEditTyped DEF Edit, Steps
  <2> QED
    BY <2>2 DEF effective, plain
<1>5. edit'[e] = new
  BY <1>1 DEF SettingsIInv, SettingsTypes
<1>6. ASSUME ~loose, Careful(e)' PROVE EditFits(e)'
  <2>1. config \in [Key -> Directory]
    BY <1>6 DEF SettingsIInv, Complete
  <2>2. new.effective = config
    BY <1>4, <1>5, <1>6, <2>1, EffectiveIsFile DEF Careful
  <2> QED
    BY <1>4, <1>5, <2>2 DEF EditFits, Load
<1>7. UNCHANGED <<config, loose>> /\ settings' \in 0..MaxSettings
  BY SettingsAssumption DEF Load, SettingsIInv, SettingsTypes
<1>8. edit' = [edit EXCEPT ![e] = new]
  BY <1>1
<1> HIDE DEF new
<1> QED
  BY <1>4, <1>6, <1>7, <1>8, OneEdit

LEMMA ReadKeeps ==
    ASSUME SettingsIInv, NEW e \in Editor, ReadConfig(e)
    PROVE  SettingsIInv'
<1> DEFINE new == [edit[e] EXCEPT !.step = "read", !.document = config]
<1>1. edit[e] \in Edit /\ config \in Paths
  BY DEF SettingsIInv, SettingsTypes
<1>2. /\ new \in Edit /\ new.step = "read" /\ new.document = config
      /\ new.effective = edit[e].effective /\ new.checked = edit[e].checked /\ new.stale = edit[e].stale
  BY <1>1 DEF Edit, Steps
<1>3. edit' = [edit EXCEPT ![e] = new] /\ edit'[e] = new
  BY DEF ReadConfig, SettingsIInv, SettingsTypes
<1> HIDE DEF new
<1>4. UNCHANGED <<config, loose>> /\ settings' \in 0..MaxSettings
  BY DEF ReadConfig, SettingsIInv, SettingsTypes
<1>5. ASSUME ~loose, Careful(e)' PROVE EditFits(e)'
  <2>1. EditFits(e)
    BY <1>2, <1>3, <1>5 DEF SettingsIInv, Careful
  <2> QED
    BY <1>2, <1>3, <1>4, <2>1 DEF EditFits, ReadConfig
<1> QED
  BY <1>2, <1>3, <1>4, <1>5, OneEdit

LEMMA TakeKeeps ==
    ASSUME SettingsIInv, NEW e \in Editor, TakeRegistry(e)
    PROVE  SettingsIInv'
<1>1. UNCHANGED <<config, loose>> /\ settings' \in 0..MaxSettings
  BY DEF TakeRegistry, SettingsIInv, SettingsTypes
<1>2. CASE edit' = [edit EXCEPT ![e] = NoEdit]
  <2>1. edit'[e] = NoEdit
    BY <1>2 DEF SettingsIInv, SettingsTypes
  <2>2. EditFits(e)'
    BY <2>1 DEF EditFits, NoEdit
  <2> QED
    BY <1>1, <1>2, <2>2, NoEditTyped, OneEdit
<1>3. ASSUME NEW key \in Key, NEW value \in Directory \cup {Unset},
             ~(value # Unset /\ ~Clear(edit[e].effective, key, value)),
             edit' = [edit EXCEPT ![e] = [@ EXCEPT !.step = "backing", !.effective = Default,
                        !.document = [edit[e].document EXCEPT ![key] = value],
                        !.checked = edit[e].checked /\ value # Unset]]
      PROVE  SettingsIInv'
  <2> DEFINE document == [edit[e].document EXCEPT ![key] = value]
             new == [edit[e] EXCEPT !.step = "backing", !.effective = Default,
                        !.document = document, !.checked = edit[e].checked /\ value # Unset]
  <2>1. edit[e] \in Edit /\ document \in Paths
    BY DEF SettingsIInv, SettingsTypes, Edit, Paths
  <2>2. /\ new \in Edit /\ new.step = "backing" /\ new.document = document
        /\ new.checked <=> (edit[e].checked /\ value # Unset)
        /\ new.stale = edit[e].stale
    <3> HIDE DEF document
    <3> QED BY <2>1, SettingsAssumption DEF Edit, Steps
  <2>3. edit' = [edit EXCEPT ![e] = new] /\ edit'[e] = new
    <3>1. edit' = [edit EXCEPT ![e] = new]
      BY <1>3
    <3> HIDE DEF new
    <3> QED
      BY <3>1 DEF SettingsIInv, SettingsTypes
  <2>4. ASSUME ~loose, Careful(e)' PROVE EditFits(e)'
    <3>1. Careful(e) /\ value # Unset
      BY <2>2, <2>3, <2>4 DEF Careful
    <3>2. edit[e].step = "read" /\ EditFits(e)
      BY <2>4, <3>1 DEF SettingsIInv, TakeRegistry
    <3>3. edit[e].document = config /\ edit[e].effective = config /\ Complete(config)
      BY <2>4, <3>2 DEF EditFits, SettingsIInv
    <3>4. Complete(document)
      BY <1>3, <3>1, <3>3, SetKeepsComplete
    <3> QED
      BY <2>2, <2>3, <3>4 DEF EditFits, Complete
  <2> HIDE DEF new
  <2> QED
    BY <1>1, <2>2, <2>3, <2>4, OneEdit
<1> QED
  BY <1>2, <1>3 DEF TakeRegistry

LEMMA BackupKeeps ==
    ASSUME SettingsIInv, NEW e \in Editor, WriteBackup(e)
    PROVE  SettingsIInv'
<1> DEFINE new == [edit[e] EXCEPT !.step = "writing"]
<1>1. edit[e] \in Edit
  BY DEF SettingsIInv, SettingsTypes
<1>2. /\ new \in Edit /\ new.step = "writing" /\ new.document = edit[e].document
      /\ new.checked = edit[e].checked /\ new.stale = edit[e].stale
  BY <1>1 DEF Edit, Steps
<1>3. edit' = [edit EXCEPT ![e] = new] /\ edit'[e] = new
  BY DEF WriteBackup, SettingsIInv, SettingsTypes
<1> HIDE DEF new
<1>4. UNCHANGED <<config, loose>> /\ settings' \in 0..MaxSettings
  BY DEF WriteBackup, SettingsIInv, SettingsTypes
<1>5. ASSUME ~loose, Careful(e)' PROVE EditFits(e)'
  <2>1. EditFits(e)
    BY <1>2, <1>3, <1>5 DEF SettingsIInv, Careful
  <2> QED
    BY <1>2, <1>3, <2>1 DEF EditFits, WriteBackup, Complete
<1> QED
  BY <1>2, <1>3, <1>4, <1>5, OneEdit

LEMMA WriteKeeps ==
    ASSUME SettingsIInv, NEW e \in Editor, WriteConfig(e)
    PROVE  SettingsIInv'
<1>1. ASSUME NEW f \in Editor
      PROVE  edit'[f] \in Edit /\ (edit'[f] = NoEdit \/ edit'[f].stale)
  <2>1. edit[f] \in Edit
    BY DEF SettingsIInv, SettingsTypes
  <2>2. edit'[f] = NoEdit \/ edit'[f] = [edit[f] EXCEPT !.stale = TRUE]
    BY DEF WriteConfig
  <2> QED
    BY <2>1, <2>2, NoEditTyped DEF Edit
<1>2. edit' \in [Editor -> Edit]
  BY <1>1 DEF WriteConfig
<1>3. edit[e] \in Edit /\ config' \in Paths
  BY DEF WriteConfig, SettingsIInv, SettingsTypes, Edit
<1>4. SettingsTypes'
  BY <1>2, <1>3 DEF WriteConfig, SettingsIInv, SettingsTypes, Edit
<1>5. ASSUME ~loose' PROVE Complete(config')
  <2>1. ~loose /\ Careful(e)
    BY <1>3, <1>5 DEF WriteConfig, Careful, Edit, SettingsIInv, SettingsTypes
  <2> QED
    BY <2>1 DEF WriteConfig, SettingsIInv, EditFits
<1>6. \A f \in Editor : Careful(f)' => EditFits(f)'
  BY <1>1 DEF Careful, EditFits, NoEdit
<1> QED
  BY <1>4, <1>5, <1>6 DEF SettingsIInv, Complete

LEMMA StopKeeps ==
    ASSUME SettingsIInv, NEW e \in Editor, StopEdit(e)
    PROVE  SettingsIInv'
<1>1. edit' = [edit EXCEPT ![e] = NoEdit] /\ UNCHANGED <<config, loose>> /\ settings' \in 0..MaxSettings
  BY DEF StopEdit, SettingsIInv, SettingsTypes
<1>2. edit'[e] = NoEdit
  BY <1>1 DEF SettingsIInv, SettingsTypes
<1>3. EditFits(e)'
  BY <1>2 DEF EditFits, NoEdit
<1> QED
  BY <1>1, <1>3, NoEditTyped, OneEdit

-----------------------------------------------------------------------------
(* Steps of other commands *)

\* Only an edit of the configuration changes what this module is about.
LEMMA EditsAlone ==
    ASSUME Next
    PROVE  SettingsNext \/ UNCHANGED settingVars
<1>1. ASSUME NEW q \in Pid, Spawn(q) \/ Exit(q) \/ Start(q) PROVE UNCHANGED settingVars
  BY <1>1 DEF Spawn, Exit, Start, others
<1>2. ASSUME NEW q \in Pid, Step(q) PROVE UNCHANGED settingVars
  BY <1>2 DEF Step, Snapshot, Walk, Validate, ReadSession, Resolve, Search, Finish, Write,
              CheckFile, RemoveFile, Keeps, others
<1>3. ASSUME Tick PROVE UNCHANGED settingVars
  BY <1>3 DEF Tick, others
<1>4. ASSUME Register \/ Unregister \/ Breaks \/ Spoil PROVE UNCHANGED settingVars
  BY <1>4 DEF Register, Unregister, Breaks, Spoil, Changes, others
<1> QED
  BY <1>1, <1>2, <1>3, <1>4 DEF Next

LEMMA StutterSettings ==
    ASSUME SettingsIInv, UNCHANGED settingVars
    PROVE  SettingsIInv'
  BY DEF settingVars, SettingsIInv, SettingsTypes, Careful, EditFits, Complete

LEMMA SettingsStep == SettingsIInv /\ [Next]_vars => SettingsIInv'
<1> SUFFICES ASSUME SettingsIInv, [Next]_vars PROVE SettingsIInv'
  OBVIOUS
<1>1. CASE SettingsNext
  BY <1>1, LoadKeeps, ReadKeeps, TakeKeeps, BackupKeeps, WriteKeeps, StopKeeps DEF SettingsNext
<1>2. CASE UNCHANGED settingVars
  BY <1>2, StutterSettings
<1>3. CASE UNCHANGED vars
  BY <1>3, StutterSettings DEF vars, others
<1> QED
  BY <1>1, <1>2, <1>3, EditsAlone

\* The inductive invariant of config.toml: as long as every write was checked against
\* the file it replaced, the file says where every directory is and keeps them apart,
\* and every edit under way that nobody overtook knows the file as it is or writes
\* such a file (App::config, config.rs:14-107).
THEOREM SettingsHold == Spec => []SettingsIInv
  BY InitialSettings, SettingsStep, PTL DEF Spec

\* However many processes edit config.toml at once, are killed or leave a backup only,
\* the next command accepts the file, unless a write was not checked against it
\* (config.rs:59-77, app.rs:136-146).
THEOREM SettingsAlwaysLoad == Spec => []SettingsLoad
<1>1. SettingsIInv => SettingsLoad
  <2> SUFFICES ASSUME SettingsIInv, ~loose PROVE Loads(NoOverrides)
    BY DEF SettingsLoad
  <2>1. Complete(config)
    BY DEF SettingsIInv
  <2> QED
    BY <2>1, EffectiveIsFile DEF Loads, Complete
<1> QED
  BY <1>1, SettingsHold, PTL
=============================================================================
