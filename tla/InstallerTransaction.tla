------------------------ MODULE InstallerTransaction ------------------------
(***************************************************************************)
(* In-place upgrade of an installation: the helper phases of               *)
(* installer_transaction.rs, the Inno Setup script that drives them, and   *)
(* the shared_access check that keeps ordinary PyRudder processes out      *)
(* while files are half replaced.                                          *)
(*                                                                         *)
(* A file's content is the version that wrote it; config/registry.json     *)
(* also carries the number of edits users made to it.  One Setup runs at a *)
(* time (SetupMutex); any helper or the whole of Setup may be killed, and  *)
(* operations may fail, MaxFaults times in all.  Deaths inside a compound  *)
(* step (a staged write, create-then-record, unlink-then-remove) are       *)
(* included when TornKills holds.                                          *)
(***************************************************************************)
EXTENDS Naturals

CONSTANTS
    Program,        \* files Inno writes
    Shim,           \* files `finish' publishes before the registry
    Registry,       \* config/registry.json
    BuildInfo,      \* BUILD-INFO.json, the file that names the installed version
    Added,          \* files that version 0 does not have
    Cli,            \* ordinary PyRudder processes and the Pythons they run
    Absent,         \* no such file
    MaxVersion, MaxEdits, MaxFaults, TornKills

Item == Program \cup Shim \cup {Registry}
Version == 0..MaxVersion

ASSUME InstallerAssumption ==
    /\ Program \cap Shim = {}
    /\ Registry \notin Program \cup Shim
    /\ BuildInfo \in Program \ Added
    /\ Added \subseteq Program \cup Shim
    /\ MaxVersion \in Nat /\ MaxEdits \in Nat /\ MaxFaults \in Nat
    /\ TornKills \in BOOLEAN
    /\ Absent \notin [version : Version, edits : 0..MaxEdits]

VARIABLES
    installed,  \* the replaceable files of the installation
    backup,     \* .pyrudder-upgrade-backup
    display,    \* DisplayVersion of the uninstall registration
    target,     \* version of the Setup that runs
    pc,         \* what Setup is doing
    goal,       \* on whose behalf the running helper works
    todo,       \* files the running loop has not reached
    running,    \* processes inside shared_access
    faults      \* failures so far

vars == <<installed, backup, display, target, pc, goal, todo, running, faults>>

-----------------------------------------------------------------------------
(* Data. *)

Content == [version : Version, edits : 0..MaxEdits] \cup {Absent}

\* What version v puts at i; registry.json keeps its edits.
Fresh(v, i, edits) ==
    IF v = 0 /\ i \in Added THEN Absent
    ELSE [version |-> v, edits |-> IF i = Registry THEN edits ELSE 0]

Release(v, edits) == [i \in Item |-> Fresh(v, i, edits)]

Phases == {"preparing", "prepared", "restoring", "rolled_back", "committed"}
Nothing == [i \in Item |-> Absent]
Unrecorded == [phase |-> "missing", from |-> 0, entries |-> Nothing]

\* `copies' holds Absent where there is no .bak file (an absent original has
\* none); `junk' is a staged file whose writer was killed.
NoBackup == [exists |-> FALSE, journal |-> Unrecorded, copies |-> Nothing, junk |-> FALSE]

Backup ==
    [exists : BOOLEAN,
     journal : [phase : Phases \cup {"missing"}, from : Version, entries : [Item -> Content]],
     copies : [Item -> Content],
     junk : BOOLEAN]

Idle == "off"
Exclusive == {"restoring", "cleanup", "capture", "copying", "finishing"}
Activities == Exclusive \cup
    {Idle, "recover", "register_old", "acknowledge", "check", "prepare",
     "replacing", "register_new", "commit"}
Goals == {"check", "post", "deinit", "prepare", "undo", "undo_prepared", "commit"}

TypeOK ==
    /\ installed \in [Item -> Content] /\ installed[Registry] # Absent
    /\ backup \in Backup
    /\ display \in Version /\ target \in Version
    /\ pc \in Activities /\ goal \in Goals
    /\ todo \subseteq Item
    /\ running \subseteq Cli
    /\ faults \in 0..MaxFaults

Init ==
    /\ installed = Release(0, 0)
    /\ backup = NoBackup
    /\ display = 0 /\ target = 0
    /\ pc = Idle /\ goal = "check" /\ todo = {}
    /\ running = {}
    /\ faults = 0

-----------------------------------------------------------------------------
(* Where Setup goes when a helper returns. *)

Goto(where, why, what) == pc' = where /\ goal' = why /\ todo' = what

\* PrepareToInstall goes on to `check'; a recovery that fails there ends Setup.
\* FailPostInstallUpdate leaves UpgradePrepared set when recovery fails, so
\* DeinitializeSetup tries again.  A failed `prepare' always ends in
\* DeinitializeSetup; cleanup after `commit' is allowed to fail.
Return(ok) ==
    \/ /\ goal = "check"
       /\ Goto(IF ok THEN "check" ELSE Idle, "check", {})
    \/ /\ goal = "post"
       /\ IF ok THEN Goto(Idle, "check", {}) ELSE Goto("recover", "deinit", {})
    \/ /\ goal \in {"deinit", "commit"}
       /\ Goto(Idle, "check", {})
    \/ /\ goal = "prepare"
       /\ IF ok THEN Goto("capture", "prepare", {}) ELSE Goto("recover", "deinit", {})
    \/ /\ goal \in {"undo", "undo_prepared"}
       /\ Goto("recover", "deinit", {})

\* The helper dies or reports an error in the middle of its work.
HelperFails ==
    IF pc \in {"commit", "cleanup"} /\ goal = "commit"
    THEN Goto("recover", "post", {})
    ELSE Return(FALSE)

Unchanged(keep) == UNCHANGED <<display, target, running, faults, keep>>

-----------------------------------------------------------------------------
(* cleanup *)

Stored == {i \in Item : backup.copies[i] # Absent}

\* inventory() runs first: one unknown file and nothing is removed.
EnterCleanup(why) ==
    /\ ~backup.junk
    /\ Goto("cleanup", why, Stored)

RemoveBackup(i) ==
    /\ pc = "cleanup" /\ i \in todo
    /\ backup' = [backup EXCEPT !.copies[i] = Absent]
    /\ todo' = todo \ {i}
    /\ UNCHANGED <<pc, goal>> /\ Unchanged(installed)

\* The journal, then the directory.
RemoveDirectory ==
    /\ pc = "cleanup" /\ todo = {}
    /\ backup' = NoBackup
    /\ Return(TRUE)
    /\ Unchanged(installed)

\* The directory is held open: the journal this helper has in memory is saved
\* again.
DirectoryHeld ==
    /\ pc = "cleanup" /\ todo = {}
    /\ faults < MaxFaults
    /\ faults' = faults + 1
    /\ backup' = IF goal = "undo_prepared" THEN [backup EXCEPT !.journal.phase = "prepared"]
                                           ELSE backup
    /\ Return(FALSE)
    /\ UNCHANGED <<installed, display, target, running>>

-----------------------------------------------------------------------------
(* recover and acknowledge_recovery *)

\* Mutant: an interrupted rollback is not taken up again.
UndoableOnce == {"prepared"}

\* Mutant: a finished rollback is repeated.
UndoableAgain == {"prepared", "restoring", "rolled_back"}

\* Mutant: a committed upgrade is rolled back like a prepared one.
UndoableCommitted == {"prepared", "restoring", "committed"}

\* The phases in which the original files are to be put back.
Undoable == {"prepared", "restoring"}

Intact ==
    /\ ~backup.junk
    /\ backup.copies = backup.journal.entries

\* The rollback helper: it needs both locks, and a readable journal.
Recover ==
    /\ pc = "recover"
    /\ \/ /\ ~backup.exists
          /\ Return(TRUE) /\ UNCHANGED backup
       \/ /\ backup.exists /\ (running # {} \/ backup.journal.phase = "missing")
          /\ Return(FALSE) /\ UNCHANGED backup
       \/ /\ running = {} /\ backup.journal.phase \in {"committed", "preparing"}
          /\ IF backup.junk THEN Return(FALSE) ELSE EnterCleanup(goal)
          /\ UNCHANGED backup
       \/ /\ running = {} /\ backup.journal.phase = "rolled_back"
          /\ Goto("register_old", goal, {}) /\ UNCHANGED backup
       \/ /\ running = {} /\ backup.journal.phase \in Undoable
          /\ ~Intact
          /\ Return(FALSE) /\ UNCHANGED backup
       \/ /\ running = {} /\ backup.journal.phase \in Undoable
          /\ Intact
          /\ backup' = [backup EXCEPT !.journal.phase = "restoring"]
          /\ Goto("restoring", goal, Item)
    /\ Unchanged(installed)

\* The old routing snapshot comes last.
RestoreEntry(i) ==
    /\ pc = "restoring" /\ i \in todo
    /\ i = Registry => todo = {Registry}
    /\ installed' = [installed EXCEPT ![i] = backup.copies[i]]
    /\ todo' = todo \ {i}
    /\ UNCHANGED <<pc, goal>> /\ Unchanged(backup)

\* Mutant: the backup is removed without telling Windows the old version.
FinishRestoreForgets ==
    /\ pc = "restoring" /\ todo = {}
    /\ EnterCleanup(goal)
    /\ UNCHANGED backup /\ Unchanged(installed)

FinishRestore ==
    /\ pc = "restoring" /\ todo = {}
    /\ backup' = [backup EXCEPT !.journal.phase = "rolled_back"]
    /\ Goto("register_old", goal, {})
    /\ Unchanged(installed)

\* Inno writes the restored version back to the uninstall registration.
RegisterOld ==
    /\ pc = "register_old"
    /\ display' = backup.journal.from
    /\ pc' = "acknowledge"
    /\ UNCHANGED <<installed, backup, target, goal, todo, running, faults>>

AcknowledgeRecovery ==
    /\ pc = "acknowledge"
    /\ IF running = {} /\ backup.journal.phase = "rolled_back" /\ ~backup.junk
       THEN EnterCleanup(goal) ELSE Return(FALSE)
    /\ UNCHANGED backup /\ Unchanged(installed)

-----------------------------------------------------------------------------
(* Setup: PrepareToInstall, the installation itself, CurStepChanged. *)

StartSetup(version) ==
    /\ pc = Idle
    /\ target' = version
    /\ Goto(IF backup.exists THEN "recover" ELSE "check", "check", {})
    /\ UNCHANGED <<installed, backup, display, running, faults>>

\* check_installation; afterwards UpgradePrepared is set, so whatever happens
\* from here on ends in a recovery or in the commit.
Check ==
    /\ pc = "check"
    /\ IF /\ running = {}
          /\ target >= display
          /\ installed[BuildInfo] = Fresh(display, BuildInfo, 0)
          /\ installed[Registry] # Absent
       THEN Goto("prepare", "prepare", {}) ELSE Goto(Idle, "check", {})
    /\ UNCHANGED backup /\ Unchanged(installed)

\* prepare: a finished backup is removed, an unfinished one is refused.
Prepare ==
    /\ pc = "prepare"
    /\ \/ /\ running = {} /\ ~backup.exists
          /\ Goto("capture", "prepare", {})
       \/ /\ running = {} /\ backup.journal.phase = "committed" /\ ~backup.junk
          /\ EnterCleanup("prepare")
       \/ /\ \/ running # {}
             \/ backup.exists /\ (backup.journal.phase # "committed" \/ backup.junk)
          /\ Return(FALSE)
    /\ UNCHANGED backup /\ Unchanged(installed)

\* create_dir, then the Preparing journal with the digests of what is there now.
Capture ==
    /\ pc = "capture"
    /\ backup' = [NoBackup EXCEPT
                    !.exists = TRUE,
                    !.journal = [phase |-> "preparing", from |-> display, entries |-> installed]]
    /\ Goto("copying", "prepare", {i \in Item : installed[i] # Absent})
    /\ Unchanged(installed)

CopyBackup(i) ==
    /\ pc = "copying" /\ i \in todo
    /\ backup' = [backup EXCEPT !.copies[i] = installed[i]]
    /\ todo' = todo \ {i}
    /\ UNCHANGED <<pc, goal>> /\ Unchanged(installed)

\* Mutant: Prepared is recorded before every copy is made.
MarkPreparedEarly ==
    /\ pc = "copying"
    /\ backup' = [backup EXCEPT !.journal.phase = "prepared"]
    /\ Goto("replacing", "prepare", Program)
    /\ Unchanged(installed)

MarkPrepared ==
    /\ pc = "copying" /\ todo = {}
    /\ backup' = [backup EXCEPT !.journal.phase = "prepared"]
    /\ Goto("replacing", "prepare", Program)
    /\ Unchanged(installed)

\* A copy or the second save fails: the preparation is undone, with the phase
\* the journal in memory has by then.
PreparationFails ==
    /\ pc = "copying"
    /\ faults < MaxFaults
    /\ faults' = faults + 1
    /\ EnterCleanup(IF todo = {} THEN "undo_prepared" ELSE "undo")
    /\ UNCHANGED <<installed, backup, display, target, running>>

InnoWrite(i) ==
    /\ pc = "replacing" /\ i \in todo
    /\ installed' = [installed EXCEPT ![i] = Fresh(target, i, 0)]
    /\ todo' = todo \ {i}
    /\ UNCHANGED <<pc, goal>> /\ Unchanged(backup)

\* After the last file Inno runs the installed program's `finish' phase.
StartFinish ==
    /\ pc = "replacing" /\ todo = {}
    /\ Goto("finishing", "prepare", Shim \cup {Registry})
    /\ UNCHANGED backup /\ Unchanged(installed)

\* setup() publishes: physical files first, registry.json last.
FinishWrite(i) ==
    /\ pc = "finishing" /\ i \in todo
    /\ i = Registry => todo = {Registry}
    /\ installed' = [installed EXCEPT ![i] = Fresh(target, i, installed[Registry].edits)]
    /\ todo' = todo \ {i}
    /\ UNCHANGED <<pc, goal>> /\ Unchanged(backup)

\* Mutant: Inno's rollback removes the registry as if Inno had written it.
InnoAbortRemovesAll ==
    /\ pc \in {"replacing", "finishing"}
    /\ \E gone \in SUBSET Item :
         installed' = [i \in Item |-> IF i \in gone \ todo THEN Absent ELSE installed[i]]
    /\ Goto("recover", "deinit", {})
    /\ Unchanged(backup)

\* The installation step fails or is cancelled.  Inno rolls back first: files
\* it wrote may be left, or removed.
InnoAbort ==
    /\ pc \in {"replacing", "finishing"}
    /\ \E gone \in SUBSET Program :
         installed' = [i \in Item |-> IF i \in gone \ todo THEN Absent ELSE installed[i]]
    /\ Goto("recover", "deinit", {})
    /\ Unchanged(backup)

\* Inno writes its uninstall registration.
RegisterNew ==
    /\ pc = "finishing" /\ todo = {}
    /\ display' = target
    /\ Goto("commit", "commit", {})
    /\ UNCHANGED <<installed, backup, target, running, faults>>

\* The commit helper; an error sends Setup to FailPostInstallUpdate.
Commit ==
    /\ pc = "commit"
    /\ IF running = {} /\ backup.journal.phase = "prepared" /\ Intact
       THEN /\ backup' = [backup EXCEPT !.journal.phase = "committed"]
            /\ EnterCleanup("commit")
       ELSE /\ UNCHANGED backup
            /\ Goto("recover", "post", {})
    /\ Unchanged(installed)

-----------------------------------------------------------------------------
(* Deaths.  A killed helper is an error to Setup; Setup itself may die too. *)

\* A write_atomic into the backup directory may be under way.
StagesFile ==
    \/ pc \in {"copying", "commit"}
    \/ pc = "restoring" /\ todo = {}
    \/ pc = "recover" /\ backup.journal.phase \in {"prepared", "restoring"}

\* What a death can leave of the backup directory.
Remains ==
    {backup} \cup
    IF ~TornKills THEN {}
    ELSE (IF StagesFile /\ backup.exists THEN {[backup EXCEPT !.junk = TRUE]} ELSE {})
         \cup (IF pc = "capture" THEN {[NoBackup EXCEPT !.exists = TRUE, !.junk = torn] :
                                          torn \in BOOLEAN}
               ELSE {})
         \cup (IF pc = "cleanup" /\ todo = {} THEN {[NoBackup EXCEPT !.exists = TRUE]} ELSE {})

HelperDies ==
    /\ pc \in (Exclusive \ {"finishing"}) \cup
                {"recover", "acknowledge", "check", "prepare", "commit"}
    /\ faults < MaxFaults
    /\ faults' = faults + 1
    /\ backup' \in Remains
    /\ IF pc = "check" THEN Goto(Idle, "check", {}) ELSE HelperFails
    /\ UNCHANGED <<installed, display, target, running>>

SetupDies ==
    /\ pc # Idle
    /\ faults < MaxFaults
    /\ faults' = faults + 1
    /\ backup' \in Remains
    /\ Goto(Idle, "check", {})
    /\ UNCHANGED <<installed, display, target, running>>

-----------------------------------------------------------------------------
(* Ordinary PyRudder processes *)

\* Mutant: the lease alone admits.
AdmittedByLease == pc \notin Exclusive

\* shared_access: the shared lease, then no backup or a terminal phase.
Admitted ==
    /\ pc \notin Exclusive
    /\ backup.exists => backup.journal.phase \in {"committed", "rolled_back"}

EnterShared(c) ==
    /\ c \notin running
    /\ Admitted
    /\ running' = running \cup {c}
    /\ UNCHANGED <<installed, backup, display, target, pc, goal, todo, faults>>

\* A registration, selection or rehash is committed to registry.json.
EditRegistry(c) ==
    /\ c \in running
    /\ installed[Registry].edits < MaxEdits
    /\ installed' = [installed EXCEPT ![Registry].edits = @ + 1]
    /\ UNCHANGED <<backup, display, target, pc, goal, todo, running, faults>>

LeaveShared(c) ==
    /\ c \in running
    /\ running' = running \ {c}
    /\ UNCHANGED <<installed, backup, display, target, pc, goal, todo, faults>>

Helper ==
    \/ Recover \/ FinishRestore \/ AcknowledgeRecovery \/ RemoveDirectory
    \/ Check \/ Prepare \/ Capture \/ MarkPrepared \/ Commit
    \/ \E i \in Item : RemoveBackup(i) \/ RestoreEntry(i) \/ CopyBackup(i) \/ FinishWrite(i)

Inno == RegisterOld \/ StartFinish \/ RegisterNew \/ \E i \in Item : InnoWrite(i)

Failure == DirectoryHeld \/ PreparationFails \/ InnoAbort \/ HelperDies \/ SetupDies

Next ==
    \/ Helper \/ Inno \/ Failure
    \/ \E version \in Version : StartSetup(version)
    \/ \E c \in Cli : EnterShared(c) \/ EditRegistry(c) \/ LeaveShared(c)

Spec == Init /\ [][Next]_vars

\* Setup and its helpers keep running, ordinary processes end, and a user whose
\* installation refuses to start runs Setup again, as its message asks.
Fairness ==
    /\ WF_vars(Helper \/ Inno)
    /\ WF_vars(~Admitted /\ \E version \in Version : StartSetup(version))
    /\ \A c \in Cli : WF_vars(LeaveShared(c))

FairSpec == Spec /\ Fairness

-----------------------------------------------------------------------------
(* Properties *)

\* All replaceable files belong to one version.
Coherent == \E v \in Version : installed = Release(v, installed[Registry].edits)

\* No half-replaced installation ever runs: while any ordinary process is
\* admitted, every file is of one and the same version (installation.rs:13-34
\* against installer_transaction.rs:429-630).
NoMixedRun == running # {} => Coherent

\* As soon as anything is replaced and until the outcome is recorded, every
\* replaced file has an intact original in the backup, whatever died or failed
\* on the way (installer_transaction.rs:454-480, 532-572).
ReplacedIsRecoverable ==
    backup.journal.phase \notin {"committed", "rolled_back"} /\ ~Coherent
        => /\ backup.journal.phase \in {"prepared", "restoring"}
           /\ backup.copies = backup.journal.entries

\* When no Setup is at work and no transaction is recorded, the version Windows
\* shows is the version installed: the rolled-back journal is kept until both
\* agree (pyrudder.iss:273-286, installer_transaction.rs:574-595).
VersionAgrees ==
    pc = Idle /\ ~backup.exists =>
        installed = Release(display, installed[Registry].edits)

\* "Committed data must never be rolled back" (installer_transaction.rs:546):
\* once Committed is on disk the transaction can only be removed, no file of the
\* installation changes before it is, and a death in between changes neither.
CommittedStands ==
    [][backup.journal.phase = "committed" =>
         /\ backup'.journal.phase \in {"committed", "missing"}
         /\ \A i \in Item \ {Registry} : installed'[i] = installed[i]]_vars

\* No user edit of the registry is lost: not by the upgrade, not by a rollback
\* that is interrupted, resumed or acknowledged after users worked again.
EditsSurvive ==
    [][/\ installed'[Registry] # Absent
       /\ installed'[Registry].edits >= installed[Registry].edits]_vars

\* "A held directory must not lose its terminal marker and block the working
\* version" and "retry installer recovery" (installer_transaction.rs:108, 355):
\* a backup left without a Setup at work is one recovery can read.
BackupIsReadable ==
    pc = Idle /\ backup.exists => backup.journal.phase # "missing" /\ ~backup.junk

\* An installation that refuses to run is repaired by running Setup again.
EventuallyAdmitted == ~Admitted ~> Admitted
=============================================================================
