# PyRudder: a TLA+ verification project

PyRudder manages Python runtimes on Windows. It keeps one registry of runtimes
(`registry.json`), publishes one *shim* executable per command name into a
directory on PATH, and routes every call of a shim to the runtime selected for
the calling directory, shell or user. Its difficulty is not in any one function:
it lies in many short-lived processes that share files, may be killed anywhere
and promise never to lose, overwrite or half-publish anything. This project
models those promises, checks them with TLC and proves every safety property among
them with TLAPS. Line numbers refer to files under `src/`; the paths are in `PROJECT.json`.

## Reading guide

| module | about | checked by | proved in |
|---|---|---|---|
| `RoutingIndex` | what routing promises, abstractly | `ImplementsRoutingIndex` | `PublicationProofs` |
| `Publication` | `publication.rs` on `registry.rs` | `MCPublication` | `PublicationProofs` |
| `InstallerTransaction` | `installer_transaction.rs`, `pyrudder.iss`, `installation.rs` | `MCInstaller*.cfg` | `InstallerProofs` |
| `RuntimeLifecycle` | `managed.rs`, `app.rs`, `router.rs` | `MCLifecycle*.cfg` | `LifecycleProofs` |
| `Provider` | `feed.rs`, `transfer.rs`, `archive.rs`, the cache commands | `MCProvider` | `ProviderProofs` |
| `PathEdits` | `system_path.rs`, `path.rs`, `store_path.rs`, `store_path/state.rs` | `MCPathEdits` | `PathEditsProofs` |
| `Registry` | what the next four share: the runtimes and `registry.lock` | | |
| `Versions` | `version.rs`, `selector.rs`, `state.rs`: selectors and their choice | through `Selection` | `SelectionProofs` |
| `Settings` | `config.rs`, `config/file.rs`, `App::load` | through `Selection` | `SettingsProofs` |
| `Commands` | `commands.rs`, `manifest.rs`, `plan`, `refresh_after`, `rehash` | through `Selection` | `CommandsProofs` |
| `Selection` | `session.rs`, `shell.rs`, `resolver.rs`; composes the four above | `MCSelection` | `SelectionProofs` |

## Inventory

Processes share state only through files, named below; every lock is a file
opened without sharing (`storage.rs`, `FileLease`), taken by trying once, and
freed by Windows when its process ends. Every state file is replaced by
`write_atomic` (`pyrudder-platform-windows/src/state.rs`): readers see the old
or the new content, a killed writer may leave a `.tmp` file.

**Registry and shim publication** (`registry.rs`, `publication.rs`).
State: `registry.json` (generation, runtimes, command manifests, routing index
`shims`, `pending_cleanup`), the files of the shims directory, the ownership
journal `pyrudder-publication.json`. Operations: `Registry::transaction`/`commit`,
`plan`, `publish`, `finish_cleanup`, called by every command that changes what
can be routed. Hard: many files and one snapshot must look like one change;
the process may die between any two files; cleanup runs in a second
transaction, after others may have published; users put files of their own into
the directory. Correct when: no commit undoes another; an exposed index has all
its files; nothing foreign is touched, outside two windows between a check and what
follows it; everything PyRudder wrote stays provably its own.

**Installer transaction** (`installer_transaction.rs`, `installer.rs`,
`installation.rs`, `setup.rs`, `scripts/installer/pyrudder.iss`).
State: the installed files, `.pyrudder-upgrade-backup` (journal and copies), the
uninstall registration. Operations: the helper phases check, prepare, finish,
commit, rollback and recovery-complete, each a process of its own, ordered by
the Inno Setup script; `shared_access` of every ordinary process. Hard: the
helper, Setup or the machine may die anywhere, recovery included; ordinary
processes come and go between the phases. Correct when: nobody runs a mixture of
two versions; whatever was replaced can be put back; the version Windows shows
is the one installed; no edit of the registry is lost; an installation that
refuses to run can be repaired.

**Managed runtimes** (`managed.rs`). State: the record of a runtime, the tree at
its root with its sentinel `pyrudder-owner.json`, staging directories and
`install-<id>-<attempt>.json`. Operations: `install_release`, `stage_release`,
`uninstall`, `remove_owned_tree`, `recover`. Hard: three locks taken in turn,
registry released during long work, resumption after an interruption, users'
own directories at the same place. Correct when: a Ready runtime is whole, an
interrupted one can be resumed or removed, nothing foreign is touched.

**Registration, selection, routing** (`app.rs`, `router.rs`). State: external
records, `global-version`, leases of running commands. Operations: `register`,
`unregister`, `selection`, `execute`. Hard: a command resolves without a lock and
must not run in a runtime that is being removed; selection and removal race; a
command outlives a dispatcher that is killed, its lease does not.

**Version resolution** (`selector.rs`, `resolver.rs`, `state.rs`). State: the
selection files `.python-version`, `global-version` and those of terminals.
Operations: resolving a command, pinning a choice. Hard: several files and two
reads of the registry make one decision while others write. Correct when the
runtime chosen is the one the documented precedence singles out, or none, and a
choice once pinned means the same runtime for ever.

**Command manifest and routing table** (`commands.rs`, `manifest.rs`, `names.rs`,
`publication.rs` `plan`, `router.rs` `refresh_after`, `app.rs` `rehash`). State: the
directories of each runtime, the inventories and the table in the registry.
Hard: commands install commands while they run, several at once; one shim file
answers a bare and an exact name for all runtimes. Correct when a name starts
the same program however typed, and the registry catches up with the disk.

**System PATH** (`system_path.rs`, `path.rs`) and **Store PATH correction**
(`store_path.rs`, `store_path/state.rs`). State: `Path` of the machine and of the
user, `system-path.json`, `user-path.json`, `store-path.json` and their locks.
Hard: PATH belongs to everybody; kills between journal and PATH; deciding later,
from an edited PATH, what happened and where an entry belongs. Correct when
nothing of others is lost, what PyRudder added is claimed, and a removal
restores the Store entry in its place.

**Download and feed** (`transfer.rs`, `feed.rs`, `archive.rs`, `managed.rs` `cache`).
State: cached index pages and signatures, `.part`, `.etag` and archive files.
Hard: servers that ignore ranges, archives that change between attempts, a kill
between two writes, caches cleared under a reader. Correct when only what is
signed is unpacked, bodies never mix, and a retry always helps.

**Shell sessions** (`session.rs`, `shell.rs`). State: one file per terminal, named by
process number and creation time. Hard: numbers are used again while a process
looks for its terminal. Correct when no stranger's selection is read or written.

**Configuration** (`config.rs`, `config/file.rs`). State: `config.toml`. Hard: it is
read twice before the lock is taken. Correct when the next command accepts it.

Process launch, elevation and signature checks, the registry's wire format,
argument parsing and output, the two shim mains and the packaging scripts keep
no shared state; they are listed as not modelled in `PROJECT.json`.

Interactions: installer → publication (`finish` runs `App::setup`, which
publishes) and → every ordinary process (`shared_access`); managed runtimes →
publication (each publishes through a registry transaction) and → routing
(runtime leases); routing → registry (read without lock) → publication (the shim
file itself is the caller). In `RuntimeLifecycle` a publication is one atomic
step, and in `Commands` too; that this is a fair view of it is what
`ImplementsRoutingIndex` shows. The configuration is read by every command, and
`config` by its edits; `Settings`, `Commands` and `Selection` share `runtimes` and
`registry_lock` (`Registry`). `Provider` hands a whole archive to the `Extract` of
`RuntimeLifecycle`. `PathEdits` runs apart: it shares no file with the others.

## Correspondence of model and code

### Publication

| code | model |
|---|---|
| `registry.json` | `registry` (`generation`, `shims`, `pending`) |
| `pyrudder-publication.json` | `journal`: its set of entries, and the last entry per name, which is what a map built from the list keeps |
| contents of the shims directory | `disk`, a digest per file name, `Foreign` for anything else |
| `registry.lock` | `lock` |
| a `Transaction` and `publish`'s locals | `pc`, `txn` |

`Begin` is `Registry::transaction` plus `plan`; `want` ranges over every index,
so no assumption is made on what the edit was. `WriteJournal`/`Refuse` are the
destination check and the journal; `Install` is one `install_artifact`;
`LinkMismatch` its error after the hard link was made; `Commit` the end of
`publish`; `CommitRecord` a commit without publication (`install_release`);
`SkipCleanup` … `CommitCleanup` are `finish_cleanup`. For each pending entry,
`CleanFile` takes the digest and `RemoveFile` removes by path, two steps, since
`sha256_file` has closed its handle by then; `doomed` in `txn` is the file between
the two. `Stop` is an error or a kill anywhere. `Outsider` is another program.
`raced` is a ghost: it remembers which files others changed in the two windows the
code leaves, between the check of the destinations and the end of the publication,
and between the digest of a stale file and its removal. A file whose digest is none
PyRudder publishes is `Foreign`; a file that cannot be read, or cannot be removed
because it is in use, is retained, which `CleanFile` and `RemoveFile` may choose at
any time.

`RoutingIndex` states what a reader of the shims directory may rely on: a table
is exposed as a whole; on exposure every name in it answers, except names someone
else disturbed in between; what does not match does not answer.

### InstallerTransaction

`installed` gives each replaceable file the version that wrote it; the registry
also counts user edits, so that losing one shows. `backup` has the journal with
its phase and the digests it recorded, the copies present, and `junk` for a
stray staged file. `pc`, `goal` and `todo` are what Setup or its current helper
does, on whose behalf and with which files left. `Return` holds the control flow
of `PrepareToInstall`, `CurStepChanged`, `FailPostInstallUpdate` and
`DeinitializeSetup`. `StartSetup … RegisterNew, Commit` are the way forward,
`Recover … AcknowledgeRecovery` the way back, `EnterCleanup … DirectoryHeld` the
removal of the backup. `HelperDies` and `SetupDies` stop the helper or everything,
leaving any of `Remains`: with `TornKills`, also the torn states inside one step
(directory made but not recorded, a `.tmp` file, journal gone but directory
left). Files are handled in any order, except the registry, which is last on
both ways. A backup with copies other than those its journal lists is refused
(`Intact`). First installations, the layout check and uninstallation are left out.

### RuntimeLifecycle

`records` holds health and owner identity per runtime, `trees` the directory at
each managed root (a ghost `kind` says who made it; the code sees existence,
sentinel and files), `stagings` the staging directories and their journals,
`global` the selection. `install_lock` and `registry_lock` are locks held across
steps; leases of a runtime are derived from `pc` and `job`, since they end with
the process. They end with the dispatcher, that is, not with the command it
started: the child belongs to no job object and inherits no lease, so
`KillDispatcher` leaves it "orphaned", running without a lease until its own `Exit`.
A dispatcher that fails to wait for its child terminates it (`Stop`). Each handler is cut where it gives up a lock or changes a file:
`InstallBegin … PublishReady`, `UninstallBegin … PublishRemoval` (with `RootHeld`,
the sentinel put back because the directory is in use), `DiscardBegin`,
`DiscardStaging`, `Register`, `Unregister…`, `Select…`, `Unset`, and `Resolve`,
`AcquireLease`, `Dispatch`, `KillDispatcher`, `Exit` for a command. A caller that finds a lock taken
reports Busy and changes nothing: no step. A retired external record stays, since
its random identity is never drawn again.

### Provider

`served` is the index generation the server publishes and `origin` the body it
delivers for each version; `index` and `signature` are the cached files per page, by
the generation they were written for; `part`, `etag` and `target` the files named
after a digest, an archive being a sequence of blocks each of which knows its
body. `Begin … ReadPage` are `releases` and `select`: lock, page by page index,
signature, two writes, conversion, the walk along links. `StartDownload …
Publish` are `download_with_progress`: `NextAttempt` reads length and tag, the three
answers are 200 (`AnswerWhole`), 206 (`AnswerRange`) and 416
(`AnswerUnsatisfiable`), then `Truncate`, `SaveTag`, `Receive` block by block, and
`Publish` which checks the digest. `OpenArchive` is `extract`, without the download
lock. `CacheRemove` holds the commands on caches, `ClearCorrupt` is what the message
about a corrupt archive asks the user to do. `Stop`, `Tamper` and
`ServerMoves` are failures or kills, other programs and the server. The ghost
`loose` marks parts whose tag was lost or never given, for which the code relies on
the digest alone.

### PathEdits

`path` holds both PATHs as sequences of entries; `claims` the two ownership files;
`store` the Store journal. A command takes a lock, reads, and compares before it
writes (`Compare`, then `Set`; `CompareRepair`, then `Remove`; `CompareRestore`, then
`Restore`): the instant between is visible, since `Outsider` edits PATH at any time.
`Claim` precedes the write and `RollBack` follows a refused one. `Rebuilt`,
`Ambiguous`, `Left`, `Right` and `Inserted` are the cases of
`Journal::restoration`. `Stop` is a failure or kill. Ghosts: `ours` and `taken` say
what PyRudder really added and removed, `stale` which claims outlived a kill or
their entry, `raced` that a write fell into somebody's instant, which no code
could tell. `alone`, in a job, says that no other command ran meanwhile. Kinds of
registry values and variables in entries are left out. Three parts of the code
are never reached and not modelled apart: `update_user_path` adding, and the
Store journal without elevation (`store_path.rs:61-98`, `225-242`).

### Versions, Settings, Commands, Selection

A runtime is a record of its id (three numbers of the version and the
installation), aliases, readiness and whether it is managed; a selection is a
kind and what it names. `Select` and `Pinned` are the code's choice and what it
writes.

`Settings`: `Load` is the start of a command with the directories effective then,
`ReadConfig` the second read of the file, `TakeRegistry` the lock and the check,
then two writes. Two directories stand for the six, one protected by managed
runtimes and one that the command line can override. The ghost `loose` marks
files written without a check against what they say; it is the exception that
`SettingsLoad` makes.

`Commands`: a file has a directory, a stem, an extension, a kind, and the change
that wrote it, which stands for size, times and attributes; a runtime's
directories have the last change, which stands for their times. `Type`, `Prepare`,
`Return`, `Rescan`, `Publish` follow a command from its shim to the refresh, `Work` and
`Copies` change directories meanwhile. A scan is one step; one that notices a
change under it fails (`Dies`). The dispatcher file for scripts and digests of
shims are left to `Publication`. The ghost `missed` holds runtimes whose refresh
failed, or which others changed, commands whose dispatcher was killed among them;
`fresh`, in a call, that no publication fell between its two reads and that at the
second, in `Prepare`, the inventory was what is on disk.

`Selection`: `process` is the process table with, for each, its number, creation
time, the parent's number and, as a ghost, the true `line` of its ancestors. `Walk`
opens one ancestor, `Validate` asks which handles still live, `ReadSession`,
`Resolve` and `Search` read one file each. `quiet`, in a job, is a ghost: nothing a
command may have seen has changed since it started. `mix`, chosen at first, says
which kinds of command a behaviour has: all at once would be too many, and
terminals, for example, never touch what `config` does.

## Runs

| run | instance | question |
|---|---|---|
| `publication` | 2 processes, 2 file names, 2 digests, 4 generations, symmetric in all three | All seven properties of publication. 220 991 states. |
| `publication_evidence` | 1 process, 1 name, 2 digests | Does PyRudder always know what it wrote? No (finding). |
| `installer` | 4 files, versions 0 and 1, 2 ordinary processes, 2 edits, 3 failures, torn kills | Safety of upgrades. 51 510 states. |
| `installer_liveness` | 1 ordinary process, 1 edit, 1 failure, no torn kills, fair | Is a refusing installation always repaired? |
| `installer_stranded` | 1 failure, torn kills | Can recovery read every backup left behind? No (finding). |
| `installer_undo` | 2 failures, no torn kills, fair | The same question as `installer_liveness` with one failure more. No (finding). |
| `lifecycle` | 2 processes, 1 managed and 1 external runtime, 3 identities, 2 failures | All eight properties of the lifecycle. 182 958 states. |
| `provider` | 2 processes, 2 pages, 3 index generations, bodies of 1 and 2 blocks, 2 events, fair | Signed, unmixed, and retries succeed. 177 233 states. |
| `paths` | 2 processes, 2 entries of others, 2 initial PATHs, 1 failure, 1 edit by others, PATHs of at most 5 entries, symmetric in processes | All seven properties of the two PATH edits. 2 640 417 states. |
| `selection` | 3 process numbers, 2 creation times, 2 starts of other processes, 2 PyRudder commands, 1 change of runtimes, 3 runtimes, 2 directories; 2 edits of the configuration; 2 runtimes with programs of one stem, 2 callers, 2 changes; symmetric in numbers and editors | Which Python, which program, which configuration. 898 593 states. |
| `lifecycle_staging`, `lifecycle_pending` | the same | Two statements of comments and messages. No (findings). |

Why the bounds are enough. *Publication*: two processes are enough for one to
overtake another between commit and cleanup, which is the only place where a
process works without having held the lock all along; two names distinguish
"this file" from "another one"; two digests allow a file to be journaled under
two images; four generations allow two publications with both cleanups. A stop
needs no counter. *Installer*: the four files are one of each sort the code
distinguishes: the file that identifies the version, one only the new version
has, one written by `finish`, and the registry; two versions let every upgrade,
reinstallation and refused downgrade occur; three failures allow a failure of
the upgrade, of its rollback and of the resumed rollback. *Lifecycle*: all
contention is per runtime or on the two global locks, so one runtime of each
sort and two processes meet every pair of handlers; three identities are a
registration with two attempts, or a registration, its removal and another one.

*Provider*: two processes for
each pair of refresh, download, extraction and clearing; three generations, of
which two name different bodies for a version and the third has a page that links
to itself, an entry that does not convert and a link that leaves the site; two
blocks are the shortest body that can be resumed. *Paths*: one failure and one
foreign edit can fall into every gap of both commands; five entries hold both
targets, the Store entry and two neighbours. *Selection*: three numbers are a
terminal, a process in it and one that takes over the number of either, with
times that tie or differ; two patches of a minor version, a second installation of
the newer one, an alias; two edits are the fewest that can overtake one another;
four files of one stem (a script and a rejected program before two programs of
both subsystems) meet every conflict of `plan`, two changes let one caller change
what another has read.

Deadlock is checked except in the lifecycle and selection runs. There the system may
rest: with the identities used up and the registry refusing what remains, no
command changes anything any more; `selection` rests when its budgets are spent.
Generations are spent in `publication` too, but
`Begin` followed by a failure always remains possible.

Symmetry is used in `publication`, `paths` and `selection`, whose properties are all
safety: invariants and action properties that name no process.

### Fairness

`FairSpec` of `InstallerTransaction` is fair. (1) A running helper and Inno
take their next step: sequential programs without waiting for one another,
except that Setup waits for its helper. (2) While ordinary processes are refused,
the user runs Setup again: that is what the refusal's message asks, and without
it nothing can repair the installation. (3) Ordinary processes end: Setup asks
to close them and cannot proceed otherwise.

`Spec` of `Provider` is fair: (1) a running command takes its next step, as a
sequential program that waits for no lock does; (2) the user again and again tries
online, strongly fair because a try needs both locks free and others come and go;
(3) he removes an archive reported as corrupt, as the message tells him. Failures,
other programs and the server are never fair, in either module.

## Properties worth a comment

- `SnapshotIsCurrent`: includes the transaction cleanup starts by itself.
- `WriteAhead`: also covers what another process still had to clean up.
- `EvidenceLostOnlyByRewrite`: narrows the finding on ownership evidence to one
  step of the code; everywhere else evidence survives errors and kills.
- `NoMixedRun`: no lease is held while Inno replaces files, so it rests on the
  phase in the journal alone.
- `VersionAgrees`: the reason for the two-step end of a rollback.
- `ForeignSurvives`: what others change outside the two windows of `raced` is safe
  from publications, cleanups and their failures; inside them it is lost, see below.
- `RunsComplete`: holds thanks to the second read under the lease, and as long as the
  dispatcher lives to hold that lease; it promises nothing to an orphaned command.
- `StagingIsKept` and `SelectionStaysReady`: hold thanks to which locks exclude
  which, over several steps.

- `UnpackedIsSigned`: download and extraction share no lock; it rests on the
  digest taken once more from a handle that denies writing.
- `NoSplice`: true because truncating comes before tagging and tagging before the
  first block, over any number of kills in between.
- `RetriesSucceed`: no leftover of any interruption may need more than a retry,
  or the removal that a message asks for.
- `AddedIsClaimed`, `ClaimsAreOurs`: pull in opposite directions; claiming
  everything would break the second, claiming late the first.
- `RestoredInPlace`: judges the result by positions in the old and new PATH, where
  the code searches for anchors.
- `NoStranger`: relates what a process believes to be its terminal to its true
  ancestors, which no process can see.
- `ResolutionIsExact`: compares many steps over several files with one declarative
  choice of the nearest source.
- `TypedIsRun`: relates the name of a shim to the program that runs through the
  table, the inventory and the disk, read at three times. It is about calls that are
  `fresh`: what is on disk and not yet in the inventory is not looked at by the code,
  and a name typed then means what the inventory says. Requests that `command_union`
  does not offer, such as a masked bare `pip`, are outside it.
- `FreshWhenQuiet`: `refresh_after` compares with what was read before the start,
  and is right only because the comparison covers times.

## Findings

Each is the counterexample of a violation run, and quotes the statement it
contradicts in `PROJECT.json`.

1. `publication_evidence`: after an interrupted publication, cleanup may look for
   the wrong digest of a file and then drop the journal entry with the right one.
   The file stays, unowned, and blocks its name.
2. `installer_stranded`: a kill of Setup in one of three short windows leaves a
   backup directory without a journal, or with a stray file, that recovery
   refuses for ever, while ordinary processes refuse to start.
3. `installer_undo`: saving `Prepared` fails, the emptied backup cannot be
   removed, and cleanup then writes `Prepared` over a backup without copies.
4. `lifecycle_staging`: a staging directory exists before its journal, so a
   failure in between leaves one that nothing lists.
5. `lifecycle_pending`: the sentinel goes before its directory, so a kill in
   between leaves a root that neither uninstall nor install accepts.

Noticed while modelling, without a run of their own:

- `finish_cleanup` compares a digest and then removes by path
  (`publication.rs:276-277`): a file another program puts there in between is
  deleted, though it is none of PyRudder's. The model has it; `ForeignSurvives`
  names it as its second exception, next to the window of `publish`.
- A dispatcher that is killed takes the lease of its runtime with it, while the command
  goes on (`router.rs:150`, `native_process.rs:283-313`): `uninstall` then finds
  the runtime unleased and removes what it can of it under the running command. The
  model has it, as "orphaned".
- `config unset` checks nothing (`config.rs:50-79`): set `cache_dir` elsewhere, set
  `temp_dir` to the default of `cache_dir`, unset `cache_dir`, and `App::load`
  (`app.rs:136-146`) refuses every later command, `config` among them. In the same
  way `config set` judges by the directories of this command, overrides included,
  and by those loaded before it read the file and took the lock. These three are
  what `SettingsLoad` excepts, and `loose` marks them.
- When every runtime's first candidate for `pip` is rejected, but `pip.exe` is not,
  `pip.exe` is published as the exact request, and typing `pip` starts it, although
  for the bare request it is masked (`manifest.rs:249`, `publication.rs:69-89`).
- A runtime with `pip.cmd` in its root and `Scripts\pip.exe` makes every
  publication fail with a conflict, for all runtimes, until one of them goes.

## Proofs

Every theorem holds for any values of the constants that satisfy the assumptions of
its module: any number of processes, files, versions, blocks, entries, and any
bounds. The assumptions are stated where the constants are declared; TLC evaluates
them on every run. Each module strengthens its properties to one inductive
invariant, usually `IInv`, shows for every action which parts of it the action can
disturb, and derives the properties from it. Each of these invariants was checked
by TLC on the instance of its run before it was proved.

| module | theorems | states |
|---|---|---|
| `PublicationProofs` | `TypeCorrect`, `CommitsAreCurrent`, `JournalAhead`, `CleanupIsSafe`, `ForeignIsSafe`, `EvidenceIsKept`, `PublicationImplementsRoutingIndex` | all properties of `publication` |
| `LifecycleProofs` | `InvariantHolds`, `TypeCorrect`, `ReadyCorrect`, `RunsCorrect`, `SealedCorrect`, `ResumableCorrect`, `StagingCorrect`, `ForeignSafe`, `SelectionCorrect` | all properties of `lifecycle` |
| `InstallerProofs` | `InvariantHolds`, `TypeCorrect`, `NoMixture`, `Recoverable`, `VersionsAgree`, `CommitsStand`, `EditsAreKept` | all properties of `installer` |
| `ProviderProofs` | `InvariantHolds`, `TypeCorrect`, `UnpackedCorrect`, `SpliceCorrect` | all of `provider` but `RetriesSucceed` |
| `PathEditsProofs` | `RebuiltIsBefore`, `InsertedInPlace`, `InvariantHolds`, `TypeCorrect`, `AddedClaimed`, `ClaimsOurs`, `StoreRecoverable`, `RestoreInPlace`, `RemoveCompletes`, `OthersAreKept` | all properties of `paths` |
| `SettingsProofs` | `SettingsHold`, `SettingsAlwaysLoad` | `SettingsLoad` |
| `CommandsProofs` | `CommandsHold`, `AlwaysTypedIsRun`, `AlwaysFreshWhenQuiet` | `TypedIsRun`, `FreshWhenQuiet` |
| `SelectionProofs` | `SelectionHolds`, `SelectionTypeCorrect`, `NeverAStranger`, `PinsStayStable`, `SelectIsBest`, `ResolvesExactly` | the other properties of `selection` |

### Publication

From `PublicationAssumption` alone: `Absent`, `Foreign`, `NoProc` are markers, no digests
and no processes.

- `CommitsAreCurrent` – `SnapshotIsCurrent` is not inductive: it does not say why
  nobody else can commit. `Discipline` adds that exactly the holder of
  `registry.lock` is inside a transaction, and that a transaction's base is the
  registry, up to the pending entries its cleanup has already dealt with.
- `JournalAhead` – `WriteAhead`, relative to `Discipline`.
- `CleanupIsSafe` – needs `Disjoint`: pending entries are never names of the
  index they are committed with, and what is about to be removed is pending. It holds
  of every commit because `Stale` leaves out what the new index names, and is kept by
  the transaction in progress.
- `ForeignIsSafe` – needs `Checked`: from the check to the end of the
  publication, a planned file outside `raced` holds nothing foreign, and holds the
  planned image as soon as it is installed; and `RemovalChecked`: a file whose digest
  cleanup has taken, and which it is about to remove, holds nothing foreign either,
  unless it is in `raced`. So what can be lost is exactly what came in a window.
- `EvidenceIsKept` – a commit drops the old table and its pending entries, but `WriteAhead`
  has them all in the journal; the commit of a cleanup drops entries, but `Forgotten` says
  that what stands there since is not PyRudder's: only a publication writes images, and none
  can run before the cleanup gives up `registry.lock`.
- `PublicationImplementsRoutingIndex` – the step simulation, from all of these:
  `Commit` maps to `Expose`, the other commits to `Resave`, `Outsider` to
  `Interfere`, file steps to `Drift`, the rest to stuttering.

### Lifecycle

From `LifecycleAssumption`: managed and external runtimes are disjoint. What a process
has read is true as long as it holds the lock or the lease that protects it, so the
invariant first says who holds what at which step (`LocksHeld`, `LeasesHeld`, `JobsNamed`),
and then what that makes true: a staging directory about to be renamed is the
installer's own and complete (`StagingMatches`), what a process knows of its runtime
(`Progress`), what a command and a selection rely on (`Chosen`). `TreesAgree` relates
record and directory; its clause on `Unchecked` says that a tree is renamed into
place only whole and with the registered owner, which is what makes resumption
possible and `Ready` trustworthy. None of the properties is inductive without the locks:
`RunsComplete`, for example, needs that the second read happens under a lease
that no remover can hold at the same time, and ends where that lease does: once the
dispatcher is killed, nothing is claimed of its command. `ForeignUntouched` is stated without any
exception: only a user's own removal, which moves no process, ends a foreign directory.

### Installer

From `InstallerAssumption`: the sorts of files are disjoint, the file that identifies the
version is a program file that every version has. The argument is that the phase in the
journal on disk is enough to know everything else, since whoever takes over after a
death has nothing but the disk: `Originals` says what a journal recorded is one version, with
the edits users had made, `Installed` which version is there in each phase that
admits ordinary processes or is about to, `Reached` how far the helper at work has
got. `Uniform` (all files one version's) is what all three speak of; `CleanupSettled` is
the reason why a backup may go. The theorems are for any number of failures,
including those of recovery itself. Whether recovery can always *proceed* is another
question, and the answer is no (`installer_stranded`, `installer_undo`).

### Provider

From `ProviderAssumption`: bodies have at least one block, documents are made of entries,
and there are fewer pages than the sixteen the code follows. `JobFits` says that a
command wants only what a signed page names, which comes from the conversion of a
page after its signature was checked. `PartMatches` is the missing half of `NoSplice`:
truncation, tag and first block are three steps, and it says what the part and the
tag are at each of them; blocks of another body fall out because the download lock
keeps everybody else away (`Alone`). `HoldsWhole` needs no lock: an archive being read is
denied to writers, and `Publish` puts a whole archive where a whole one stands. A body is
a sequence of any length; what another program puts in place of an archive is `Corrupt`, which
is no body's archive.

### PATH

From `PathAssumption`: PyRudder's entries, the Store's and others' are different. The
repair is an algorithm on sequences, and is proved as such, for PATHs of any length:

- `RebuiltIsBefore` – whatever number of times the Store entry stood anywhere in PATH, the
  PATH that is rebuilt from the journal, if nobody edited it, is the one before.
- `InsertedInPlace` – if somebody did, the entry comes between its old neighbours, as
  far as each of them stands there once, and in that order.

They rest on lemmas about `Without` (what it leaves, that it distributes over
concatenation, where each entry that is left stood before: `StoreShifts`), each proved
by taking a least counterexample, since induction theorems cannot be instantiated:
`AllSequences` says that a set of sequences with the empty one and closed under `Append`
has all. `Without` is a recursive function, which TLAPS can unfold by its definition;
`PrefixesExist` shows that it is one.

In the invariant, `Fits` says of each command that its locks protect what it read, that it
will write what it should of what it read (`Planned`), and that it can still take
back its claims (`ClaimsKnown`); `Present` that what is there on PyRudder's account is
there. The ghost `raced` excepts only what a write into somebody's instant destroys;
`AddedIsClaimed` and `StoreIsRecoverable` hold without that exception. `Undone` is about a
removal that ran alone: each step it has passed has undone its part, and
nobody has put anything back.

### Configuration

From `SettingsAssumption` and `DefaultAssumption`: the default directories are apart, as those of
`config.rs` are, and `Unset` is no directory. `SettingsLoad` is about the file only; the invariant
adds what an editor that nobody overtook knows of it (`EditFits`). The theorem is
conditional on `~loose`, as the property is, for the three reasons given under Findings.

### Command routing

From `CommandsAssumption`: a directory has one file of a name, as a file system sees to.
`TypedIsRun` needs that the table in the registry is the plan of the inventories
(`Routed`) and that a call whose reads no publication divided has read one
consistent pair of both (`RouteFits`); the rest is the order on files: `OneWinner` says
that directories and extensions single out one file, and `Conflict` that requests which
share a shim agree. `FreshWhenQuiet` is about several callers: `Noticed` says
that any difference between a runtime's directories and the registry is still
to be looked at by somebody, and that a publication about to write a listing which has
become old leaves somebody who will compare again. It needs the order of stamps
(`DiskOrdered`, `CallFits`): an older listing is never published over a newer one, because
scans happen under `registry.lock`.

### Selection

From `SelectionAssumption`: finitely many processes and runtimes, an installation has one
record, and PyRudder writes only selections of one installation, tombstones or nothing. Two
invariants, the second relative to the first.

`SelectionIInv` is about identity. A process is its number and creation time; the parent a
process remembers is a number only, and may be borne by somebody else. `AncestorFits` says
that an ancestor in the true line of a process is either alive with exactly the rest of the
line for its own, or gone for good: its number and creation time never come together
again, since the clock has passed (`LinesDead`). `ParentFits` says that whoever bears a
parent's number without being the parent is not older than the child. So the test of the
code, "created before its child", is exact, and `WalkFits` follows: the snapshot of
parents is right about every process older than the walker, so the walk stays on the
line whatever happens meanwhile. `NeverAStranger` is an immediate consequence.
`PinsStayStable` needs `Settled` (what PyRudder wrote names one installation) and
`OneOfAnId` (which is registered once).

`ExactIInv` is about a command that nothing has disturbed. By then it has followed live
ancestors with descending creation times (`Followed`), listed exactly the terminals among
them, nearest first (`Listed`), and where it stopped nobody beyond could be trusted
(`Blocked`); those asked so far said nothing (`Asking`). That the walk never stops for
having found enough is counting: the terminals listed are fewer than the processes
(`NeverEnough`). `SelectIsBest` is the order on versions: "newest matching, unless two
installations have it" is the one runtime above all others. What others do
meanwhile without disturbing it, processes starting and PyRudder's own ending, leaves the
command's view of its terminals as it was (`ViewStays` and the lemmas after it).

### Only model-checked

The liveness properties `EventuallyAdmitted` (`installer_liveness`) and `RetriesSucceed`
(`provider`): TLAPS has no rules for fairness and ENABLED here. Every safety property of a
passing run is proved.

### What the proofs asked of the models

Some definitions were restated so that the theorems say all that is meant. `NoSplice` and
`ForeignUntouched` each lost an exception they did not need (`NoSplice` keeps `loose`, which is
the code's own reliance on the digest); the blocks of a download are sequences of
any length. `PinsAreStable` also covers a selection whose
runtime is gone, and the run has one. `Trusted`, the cut after the first ancestor that ended, is
a definition of its own. An environment never has the tombstone of a session file for a
selection: `PYRUDDER_VERSION` is set to a version or not at all. The assumptions on the
constants of `Settings`, `Commands` and `Selection` are those named above.

## Plan

Every property the runs check has its proof, except the two beyond the prover's reach. What
could be added: an abstract specification of the lifecycle (a runtime is usable or not, and
what is used stays) that `RuntimeLifecycle` implements, as `RoutingIndex` is of
`Publication`; the publication's file operations inside `Commands`, in place of the
atomic step.

## Not modelled, and why

Elevation and signature checks, the registry's wire format, argument parsing,
prompts, output, the two shim mains and the packaging scripts keep no state that
processes share. Of process launch only the checks before the start and the death of
the dispatcher are modelled; the probes and the pip bootstrap that `install` starts
are taken to end with it when it is killed.

Journal growth past its 131 072 entries, install journals past 10 000, the
wizard's Back button and the unlocked removal of `global-version` are hazards listed
without a property, with the reason there. Path normalisation, reparse points and digests are taken as exact: the
model compares contents where the code compares SHA-256. Power loss with
unflushed file systems is outside: a completed rename is taken as durable.
