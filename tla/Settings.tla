------------------------------ MODULE Settings -------------------------------
(***************************************************************************)
(* config.toml: `config set' and `config unset' (config.rs), and what      *)
(* every command makes of the file when it starts (config/file.rs,         *)
(* App::load).                                                             *)
(*                                                                         *)
(* The effective directories are read when the command starts, the file is *)
(* read again before the registry lock is taken, and written under it.     *)
(***************************************************************************)
EXTENDS Registry, Naturals, Sequences, FiniteSets

CONSTANTS
    Editor,         \* processes that edit the configuration
    Key,            \* directories that can be configured
    Default,        \* and where they are otherwise
    Directory,      \* places a user may choose, as sequences of components
    Overridable,    \* those that a command may be told otherwise
    MaxSettings     \* edits in a behaviour, at most

Unset == <<>>

ASSUME SettingsAssumption ==
    /\ None \notin Editor
    /\ Default \in [Key -> Directory] /\ Unset \notin Directory
    /\ Overridable \subseteq Key /\ MaxSettings \in Nat

VARIABLES
    config,         \* the paths of config.toml
    edit,           \* the edits under way
    settings,       \* edits so far
    loose           \* ghost: a write that was not checked against this file

settingVars == <<config, edit, settings, loose>>

-----------------------------------------------------------------------------
(* load_configuration *)

\* CLI and environment, then the file, then the default.
Effective(overrides, file) ==
    [k \in Key |-> IF overrides[k] # Unset THEN overrides[k]
                   ELSE IF file[k] # Unset THEN file[k] ELSE Default[k]]

Under(a, b) == Len(a) >= Len(b) /\ SubSeq(a, 1, Len(b)) = b
Overlap(a, b) == Under(a, b) \/ Under(b, a)

Distinct(paths) == \A k, l \in Key : k # l => ~Overlap(paths[k], paths[l])

\* What setup writes it was started with.
ASSUME DefaultAssumption == Distinct(Default)

NoOverrides == [k \in Key |-> Unset]

\* A command starts only where no directory lies in another.
Loads(overrides) == Distinct(Effective(overrides, config))

-----------------------------------------------------------------------------
(* App::config *)

Steps == {"idle", "loaded", "read", "backing", "writing"}
NoEdit == [step |-> "idle", effective |-> Default, document |-> NoOverrides,
           checked |-> TRUE, stale |-> FALSE]

SettingsTypeOK ==
    /\ config \in [Key -> Directory \cup {Unset}]
    /\ \A e \in Editor : edit[e].step \in Steps
    /\ \A e \in Editor : registry_lock = e <=> edit[e].step \in {"backing", "writing"}
    /\ settings \in 0..MaxSettings /\ loose \in BOOLEAN

\* setup wrote every directory into the file.
SettingsInit ==
    /\ config = Default
    /\ edit = [e \in Editor |-> NoEdit]
    /\ settings = 0 /\ loose = FALSE

\* One directory given for this command only.
Told == {[NoOverrides EXCEPT ![k] = d] : k \in Overridable, d \in Directory}

\* The command starts, perhaps with --cache-dir or PYRUDDER_CACHE_DIR.
Load(e) ==
    /\ edit[e].step = "idle" /\ settings < MaxSettings
    /\ \E overrides \in {NoOverrides} \cup Told :
         /\ Loads(overrides)
         /\ edit' = [edit EXCEPT ![e] = [NoEdit EXCEPT !.step = "loaded",
                       !.effective = Effective(overrides, config), !.checked = overrides = NoOverrides]]
    /\ settings' = settings + 1
    /\ UNCHANGED <<runtimes, registry_lock, config, loose>>

ReadConfig(e) ==
    /\ edit[e].step = "loaded"
    /\ edit' = [edit EXCEPT ![e] = [@ EXCEPT !.step = "read", !.document = config]]
    /\ UNCHANGED <<runtimes, registry_lock, config, settings, loose>>

\* Runtimes stay where they are once one is managed.
Protected(k) == k = "runtimes_dir" /\ \E r \in runtimes : r.managed

\* Mutant: only a directory inside another one is refused, not one around it.
ClearInside(effective, key, value) == \A k \in Key \ {key} : ~Under(value, effective[k])

\* The new directory against the others.
Clear(effective, key, value) == \A k \in Key \ {key} : ~Overlap(value, effective[k])

\* With the registry locked the new value is checked; unset asks nothing.
TakeRegistry(e) ==
    /\ edit[e].step = "read"
    /\ \E key \in Key, value \in Directory \cup {Unset} :
         IF registry_lock # None \/ Protected(key) \/ (value # Unset /\ ~Clear(edit[e].effective, key, value))
         THEN edit' = [edit EXCEPT ![e] = NoEdit] /\ UNCHANGED registry_lock
         ELSE /\ edit' = [edit EXCEPT ![e] = [@ EXCEPT !.step = "backing", !.effective = Default,
                             !.document = [edit[e].document EXCEPT ![key] = value],
                             !.checked = edit[e].checked /\ value # Unset]]
              /\ registry_lock' = e
    /\ UNCHANGED <<runtimes, config, settings, loose>>

\* config.toml.backup is what was read; nothing reads it again.
WriteBackup(e) ==
    /\ edit[e].step = "backing"
    /\ edit' = [edit EXCEPT ![e].step = "writing"]
    /\ UNCHANGED <<runtimes, registry_lock, config, settings, loose>>

\* Mutant: the registry stays locked.
WriteConfigHolding(e) ==
    /\ edit[e].step = "writing"
    /\ config' = edit[e].document
    /\ edit' = [edit EXCEPT ![e] = NoEdit]
    /\ UNCHANGED <<runtimes, registry_lock, settings, loose>>

WriteConfig(e) ==
    /\ edit[e].step = "writing"
    /\ config' = edit[e].document
    /\ loose' = (loose \/ edit[e].stale \/ ~edit[e].checked)
    /\ edit' = [f \in Editor |-> IF f = e \/ edit[f].step = "idle" THEN NoEdit
                                 ELSE [edit[f] EXCEPT !.stale = TRUE]]
    /\ registry_lock' = None
    /\ UNCHANGED <<runtimes, settings>>

\* Killed, or a write fails: both files are replaced as a whole.
StopEdit(e) ==
    /\ edit[e].step # "idle"
    /\ edit' = [edit EXCEPT ![e] = NoEdit]
    /\ registry_lock' = IF registry_lock = e THEN None ELSE registry_lock
    /\ UNCHANGED <<runtimes, config, settings, loose>>

SettingsNext ==
    \E e \in Editor :
        \/ Load(e) \/ ReadConfig(e) \/ TakeRegistry(e) \/ WriteBackup(e) \/ WriteConfig(e) \/ StopEdit(e)

-----------------------------------------------------------------------------
(* Properties *)

\* "Use absolute local paths that do not contain or overlap other configured
\* directories" (README.md:137): a config set leaves a file the next command
\* accepts, as its check intends (config.rs:59-70, app.rs:136-146), unless the
\* file changed after the command started, a directory was overridden for that
\* command, or a key was unset: these three are not checked against the file.
SettingsLoad == ~loose => Loads(NoOverrides)
=============================================================================
