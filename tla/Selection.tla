------------------------------ MODULE Selection ------------------------------
(***************************************************************************)
(* Which Python a command means: the selections of terminals               *)
(* (session.rs, shell.rs), of projects and of the user (app.rs), and the   *)
(* resolution of a command among them (resolver.rs, router.rs).            *)
(*                                                                         *)
(* A terminal is the nearest live PowerShell or CMD among the ancestors    *)
(* of a process.  Windows keeps only the parent's number, which another    *)
(* process may bear by now; a saved selection is named after a number and  *)
(* a creation time.                                                        *)
(***************************************************************************)
EXTENDS Versions, Settings, Commands

CONSTANTS
    Pid,            \* numbers of processes
    MaxClock,       \* creation times
    MaxSpawns,      \* other processes started, at most
    MaxCommands,    \* PyRudder commands in a behaviour, at most
    MaxChanges,     \* changes of the registry, at most
    Directories,    \* the working directory and its ancestors, nearest first
    Wanted,         \* selectors users type
    Local,          \* what .python-version files users have written
    Saved,          \* what the first terminal may have selected
    Initial,        \* the runtimes at first
    Later,          \* runtimes registered later
    Mixes           \* the kinds of command a behaviour mixes

Identity == Pid \X (0..MaxClock)
Place == {Directories[i] : i \in DOMAIN Directories}

ASSUME SelectionAssumption ==
    /\ None \notin Pid /\ IsFiniteSet(Pid) /\ Editor \cap Caller = {}
    /\ MaxClock \in Nat \ {0} /\ MaxSpawns \in Nat /\ MaxCommands \in Nat /\ MaxChanges \in Nat
    /\ Directories \in Seq(Place)
    /\ IsFiniteSet(Initial \cup Later)
    /\ \A r \in Initial \cup Later :    \* a version and an installation, borne once
         /\ r \in [id : [1..4 -> Nat], aliases : {r.aliases}, ready : BOOLEAN, managed : BOOLEAN]
         /\ \A s \in Initial \cup Later : r.id = s.id => r = s
    /\ \A content \in Saved :           \* PyRudder writes no other
         content \in {Absent, Cleared} \/ content = ById(content.of)
    /\ \A mix \in Mixes : mix \subseteq {"terminals", "shell", "files", "registry", "settings", "commands"}

VARIABLES
    process,        \* the process table
    clock,
    session,        \* config/sessions
    local,          \* .python-version
    global,         \* global-version
    job,            \* what a PyRudder process does
    spawns, commands, changes, mix

selectionVars == <<process, clock, session, local, global, job, spawns, commands, changes, mix>>
budget == <<spawns, commands, mix>>
others == <<settingVars, commandVars>>
vars == <<runtimes, registry_lock, others, selectionVars>>
tables == <<process, clock, budget>>
saved == <<session, local, global>>

-----------------------------------------------------------------------------
(* Processes *)

Image == {"shell", "other", "guarded", "pyrudder"}
Gone == [image |-> "gone", created |-> 0, parent |-> None, line |-> <<>>, env |-> Absent]

Alive(q) == process[q] # Gone
Id(q) == <<q, process[q].created>>
Lives(id) == Alive(id[1]) /\ process[id[1]].created = id[2]

NoParents == [q \in Pid |-> None]

NoJob == [command |-> "none", wanted |-> Absent, step |-> "none", parents |-> NoParents,
          chain |-> <<>>, paths |-> <<>>, at |-> 0, snapshot |-> {}, result |-> {}, quiet |-> TRUE]

\* Something changed that a command under way may have seen, or not.
Disturbed(jobs) == [q \in Pid |-> IF jobs[q] = NoJob THEN NoJob ELSE [jobs[q] EXCEPT !.quiet = FALSE]]

\* A child remembers its parent's number, and inherits PYRUDDER_VERSION.
Child(q, image) ==
    [image |-> image, created |-> clock, parent |-> q, line |-> <<Id(q)>> \o process[q].line,
     env |-> process[q].env]

Free == {q \in Pid : ~Alive(q)}

\* A user or a program starts a process.
Spawn(q) ==
    /\ "terminals" \in mix
    /\ Alive(q) /\ process[q].image # "pyrudder" /\ spawns < MaxSpawns
    /\ \E p \in Free, image \in Image \ {"pyrudder"} : process' = [process EXCEPT ![p] = Child(q, image)]
    /\ spawns' = spawns + 1
    /\ UNCHANGED <<runtimes, registry_lock, others, clock, saved, job, commands, mix, changes>>

\* No process ends within the tick it was created in.
Exit(q) ==
    /\ "terminals" \in mix
    /\ Alive(q) /\ process[q].image # "pyrudder" /\ process[q].created < clock
    /\ process' = [process EXCEPT ![q] = Gone]
    /\ job' = Disturbed(job)
    /\ UNCHANGED <<runtimes, registry_lock, others, clock, saved, budget, changes>>

Tick ==
    /\ "terminals" \in mix /\ clock < MaxClock
    /\ clock' = clock + 1
    /\ UNCHANGED <<runtimes, registry_lock, others, process, saved, job, budget, changes>>

-----------------------------------------------------------------------------
(* Commands *)

Keeps == UNCHANGED <<runtimes, registry_lock, others, tables, saved, changes>>

Goes(p, step) == job' = [job EXCEPT ![p].step = step]

\* The process ends with its command; what it wrote disturbs the others.
Ends(p) ==
    /\ process' = [process EXCEPT ![p] = Gone]
    /\ job' = [job EXCEPT ![p] = NoJob]

EndsWriting(p) ==
    /\ process' = [process EXCEPT ![p] = Gone]
    /\ job' = [Disturbed(job) EXCEPT ![p] = NoJob]

\* A command, or a Python shim, starts.  A shim reads no configuration.
Start(q) ==
    /\ mix # {"commands"}
    /\ Alive(q) /\ process[q].image # "pyrudder" /\ commands < MaxCommands
    /\ \E p \in Free,
          command \in {"run"} \cup (IF "shell" \in mix THEN {"shell", "unset shell"} ELSE {})
                              \cup (IF "files" \in mix THEN {"global", "unset global",
                                                             "local", "unset local"} ELSE {}) :
         /\ command # "run" => Loads(NoOverrides)
         /\ process' = [process EXCEPT ![p] = Child(q, "pyrudder")]
         /\ job' = [job EXCEPT ![p] = [NoJob EXCEPT !.command = command, !.step = "start"]]
    /\ commands' = commands + 1
    /\ UNCHANGED <<runtimes, registry_lock, others, clock, saved, spawns, changes, mix>>

NoSessions == \A id \in Identity : session[id] = Absent

\* selection_value, shell_selection and selection, as far as the process snapshot.
Snapshot(p) ==
    LET j == job[p]
        terminal == j.command \in {"run", "shell", "unset shell"}
    IN  /\ j.step = "start"
        /\ CASE terminal /\ process[p].env # Absent ->
                  IF j.command = "run"
                  THEN /\ job' = [job EXCEPT ![p] = [@ EXCEPT !.step = "resolving", !.wanted = process[p].env]]
                       /\ UNCHANGED process
                  ELSE Ends(p)
             [] j.command = "run" /\ process[p].env = Absent /\ NoSessions ->
                  Goes(p, "resolving") /\ UNCHANGED process
             [] terminal /\ process[p].env = Absent /\ ~(j.command = "run" /\ NoSessions) ->
                  /\ job' = [job EXCEPT ![p] = [@ EXCEPT !.step = "walking", !.chain = <<Id(p)>>,
                               !.parents = [q \in Pid |-> process[q].parent]]]
                  /\ UNCHANGED process
             [] j.command \in {"global", "local"} -> Goes(p, "writing") /\ UNCHANGED process
             [] OTHER -> Goes(p, "checking") /\ UNCHANGED process
        /\ UNCHANGED <<runtimes, registry_lock, others, clock, budget, saved, changes>>

Limit(j) == IF j.command = "run" THEN Cardinality(Pid) ELSE 1

\* Mutant: whoever bears the number now is the parent.
BornBeforeAnyway(q, child) == TRUE

BornBefore(q, child) == process[q].created < child[2]

\* One ancestor is opened, if it can be and is older than its child.
Walk(p) ==
    LET j == job[p]
        child == j.chain[Len(j.chain)]
        q == j.parents[child[1]]
        opened == /\ q # None /\ \A i \in DOMAIN j.chain : j.chain[i][1] # q
                  /\ Alive(q) /\ process[q].image # "guarded"
                  /\ BornBefore(q, child)
        chain == Append(j.chain, Id(q))
        paths == IF process[q].image = "shell" THEN Append(j.paths, [id |-> Id(q), count |-> Len(chain)])
                 ELSE j.paths
    IN  /\ j.step = "walking"
        /\ IF opened
           THEN job' = [job EXCEPT ![p] = [@ EXCEPT !.chain = chain, !.paths = paths,
                          !.step = IF Len(paths) >= Limit(j) THEN "validating" ELSE "walking"]]
           ELSE Goes(p, "validating")
        /\ Keeps

\* Handles of ended processes say so, whoever has their numbers.
LiveAncestors(chain) ==
    Cardinality({n \in DOMAIN chain : \A i \in 1..n : Lives(chain[i])})

\* The candidates whose whole path is alive come first.
Trusted(paths, live) ==
    Cardinality({n \in DOMAIN paths : \A i \in 1..n : paths[i].count <= live})

Validate(p) ==
    LET j == job[p]
        paths == SubSeq(j.paths, 1, Trusted(j.paths, LiveAncestors(j.chain)))
    IN  /\ j.step = "validating"
        /\ IF j.command # "run" /\ paths = <<>> THEN Ends(p)
           ELSE /\ job' = [job EXCEPT ![p] = [@ EXCEPT !.paths = paths, !.at = 1,
                             !.parents = NoParents, !.chain = <<>>, !.step = IF j.command = "run" THEN "reading" ELSE "writing"]]
                /\ UNCHANGED process
        /\ UNCHANGED <<runtimes, registry_lock, others, clock, budget, saved, changes>>

-----------------------------------------------------------------------------
(* Resolution *)

Fails(p) == job' = [job EXCEPT ![p] = [@ EXCEPT !.step = "done", !.snapshot = {}]]

\* Mutant: a cleared terminal has the selection of the one around it.
ReadSessionThrough(p) ==
    LET j == job[p]
        content == session[j.paths[j.at].id]
    IN  /\ j.step = "reading"
        /\ IF j.at > Len(j.paths) THEN Goes(p, "resolving")
           ELSE CASE content \in {Absent, Cleared} -> job' = [job EXCEPT ![p].at = @ + 1]
                  [] content = Corrupt -> Fails(p)
                  [] OTHER -> job' = [job EXCEPT ![p] = [@ EXCEPT !.step = "resolving", !.wanted = content]]
        /\ Keeps

\* The nearest terminal that says something.
ReadSession(p) ==
    LET j == job[p]
        content == session[j.paths[j.at].id]
    IN  /\ j.step = "reading"
        /\ IF j.at > Len(j.paths) THEN Goes(p, "resolving")
           ELSE CASE content = Absent -> job' = [job EXCEPT ![p].at = @ + 1]
                  [] content = Cleared -> Goes(p, "resolving")
                  [] content = Corrupt -> Fails(p)
                  [] OTHER -> job' = [job EXCEPT ![p] = [@ EXCEPT !.step = "resolving", !.wanted = content]]
        /\ Keeps

\* The registry is read after the terminal's choice, and before any file.
Resolve(p) ==
    LET j == job[p]
    IN  /\ j.step = "resolving"
        /\ job' = [job EXCEPT ![p] =
             IF j.wanted # Absent THEN [@ EXCEPT !.step = "done", !.result = Select(j.wanted, runtimes)]
             ELSE [@ EXCEPT !.step = "searching", !.at = 1, !.snapshot = runtimes]]
        /\ Keeps

\* .python-version here and upwards, then global-version; the first file decides.
Search(p) ==
    LET j == job[p]
        content == IF j.at > Len(Directories) THEN global ELSE local[Directories[j.at]]
    IN  /\ j.step = "searching"
        /\ IF content = Absent
           THEN IF j.at > Len(Directories) THEN Fails(p) ELSE job' = [job EXCEPT ![p].at = @ + 1]
           ELSE job' = [job EXCEPT ![p] = [@ EXCEPT !.step = "done", !.snapshot = {},
                                             !.result = Select(content, j.snapshot)]]
        /\ Keeps

Finish(p) ==
    /\ job[p].step = "done"
    /\ Ends(p)
    /\ UNCHANGED <<runtimes, registry_lock, others, clock, budget, saved, changes>>

-----------------------------------------------------------------------------
(* Selections *)

\* What a command may write: the exact runtimes that users ask for, or a tombstone.
Pins(j) ==
    IF j.command = "unset shell" THEN {Cleared} ELSE UNION {Pinned(wanted, runtimes) : wanted \in Wanted}

\* Under the registry lock.
Write(p) ==
    LET j == job[p]
    IN  /\ j.step = "writing"
        /\ \/ Ends(p) /\ UNCHANGED saved
           \/ /\ registry_lock = None
              /\ EndsWriting(p)
              /\ \E content \in Pins(j) :
                   CASE j.command = "global" -> global' = content /\ UNCHANGED <<session, local>>
                     [] j.command = "local" -> /\ local' = [local EXCEPT ![Directories[1]] = content]
                                               /\ UNCHANGED <<session, global>>
                     [] OTHER -> /\ session' = [session EXCEPT ![j.paths[1].id] = content]
                                 /\ UNCHANGED <<local, global>>
        /\ UNCHANGED <<runtimes, registry_lock, others, clock, budget, changes>>

File(j) == IF j.command = "unset global" THEN global ELSE local[Directories[1]]

\* global --unset and local --unset take no lock, and remove only a valid file.
CheckFile(p) ==
    LET j == job[p]
    IN  /\ j.step = "checking"
        /\ IF File(j) \in {Absent, Corrupt} THEN Ends(p) ELSE Goes(p, "removing") /\ UNCHANGED process
        /\ UNCHANGED <<runtimes, registry_lock, others, clock, budget, saved, changes>>

RemoveFile(p) ==
    LET j == job[p]
    IN  /\ j.step = "removing"
        /\ EndsWriting(p)
        /\ IF j.command = "unset global" THEN global' = Absent /\ UNCHANGED local
           ELSE local' = [local EXCEPT ![Directories[1]] = Absent] /\ UNCHANGED global
        /\ UNCHANGED <<runtimes, registry_lock, others, clock, budget, session, changes>>

-----------------------------------------------------------------------------
(* The registry, as other commands change it, and the whole *)

Changes(next) ==
    /\ "registry" \in mix /\ changes < MaxChanges /\ registry_lock = None
    /\ runtimes' = next
    /\ changes' = changes + 1
    /\ job' = Disturbed(job)
    /\ UNCHANGED <<registry_lock, others, process, clock, budget, saved>>

Register == \E r \in Later : r.id \notin {s.id : s \in runtimes} /\ Changes(runtimes \cup {r})

Unregister == \E r \in runtimes : Changes(runtimes \ {r})

Breaks == \E r \in runtimes : Changes((runtimes \ {r}) \cup {[r EXCEPT !.ready = FALSE]})

\* Somebody spoils a terminal's file.
Spoil ==
    /\ {"shell", "registry"} \subseteq mix /\ changes < MaxChanges
    /\ \E id \in Identity : session[id] # Absent /\ session' = [session EXCEPT ![id] = Corrupt]
    /\ changes' = changes + 1
    /\ job' = Disturbed(job)
    /\ UNCHANGED <<runtimes, registry_lock, others, process, clock, budget, local, global>>

\* One terminal is open, perhaps with a selection, or started by a Python that
\* PyRudder runs.
Init ==
    /\ mix \in Mixes
    /\ registry_lock = None
    /\ SettingsInit /\ CommandsInit
    /\ "commands" \notin mix => DOMAIN index = {}
    /\ \E more \in IF "settings" \in mix THEN SUBSET Later ELSE {{}} : runtimes = Initial \cup more
    /\ clock = 1
    /\ \E q \in Pid :
         /\ \E env \in IF mix \cap {"terminals", "settings", "commands"} = {} THEN Saved \ {Cleared} ELSE {Absent} :
              process = [p \in Pid |-> IF p = q THEN [Gone EXCEPT !.image = "shell", !.env = env] ELSE Gone]
         /\ \E content \in IF "shell" \in mix THEN Saved ELSE {Absent} :
              session = [id \in Identity |-> IF id = <<q, 0>> THEN content ELSE Absent]
    /\ local \in [Place -> IF "files" \in mix THEN Local ELSE {Absent}]
    /\ global = Absent
    /\ job = [p \in Pid |-> NoJob]
    /\ spawns = 0 /\ commands = 0 /\ changes = 0

Step(p) ==
    \/ Snapshot(p) \/ Walk(p) \/ Validate(p) \/ ReadSession(p) \/ Resolve(p) \/ Search(p) \/ Finish(p)
    \/ Write(p) \/ CheckFile(p) \/ RemoveFile(p)

Next ==
    \/ \E q \in Pid : Spawn(q) \/ Exit(q) \/ Start(q) \/ Step(q)
    \/ Tick
    \/ Register \/ Unregister \/ Breaks \/ Spoil
    \/ "settings" \in mix /\ SettingsNext /\ UNCHANGED <<selectionVars, commandVars>>
    \/ "commands" \in mix /\ CommandsNext /\ UNCHANGED <<selectionVars, settingVars>>

Spec == Init /\ [][Next]_vars

-----------------------------------------------------------------------------
(* Properties *)

Content == {Absent, Cleared, Corrupt} \cup Local \cup Saved \cup {ById(r.id) : r \in Initial \cup Later}

TypeOK ==
    /\ SettingsTypeOK /\ CommandsTypeOK
    /\ registry_lock \in Editor \cup Caller \cup {None}
    /\ runtimes \subseteq Initial \cup Later \cup {[r EXCEPT !.ready = FALSE] : r \in Initial \cup Later}
    /\ \A r, s \in runtimes : r.id = s.id => r = s
    /\ \A q \in Pid : process[q].image \in Image \cup {"gone"} /\ process[q].created <= clock
    /\ \A q \in Pid : job[q] # NoJob <=> process[q].image = "pyrudder"
    /\ clock \in 0..MaxClock
    /\ session \in [Identity -> Content] /\ local \in [Place -> Content] /\ global \in Content
    /\ spawns \in 0..MaxSpawns /\ commands \in 0..MaxCommands /\ changes \in 0..MaxChanges /\ mix \in Mixes

\* "A recycled parent PID must never select an unrelated terminal's state"
\* (session.rs:132): whatever a command reads or writes as its
\* terminal's belongs to a process that really is an ancestor of it, however
\* numbers are used again while it looks for it.
NoStranger ==
    \A p \in Pid : \A i \in DOMAIN job[p].paths :
        \E n \in DOMAIN process[p].line : process[p].line[n] = job[p].paths[i].id

\* The ancestors that can still be trusted, up to the n-th.
Reaches(p, n) ==
    LET line == process[p].line
    IN  \A i \in 1..n :
          /\ Lives(line[i]) /\ process[line[i][1]].image # "guarded"
          /\ line[i][2] < IF i = 1 THEN process[p].created ELSE line[i - 1][2]

\* The choice of the nearest terminal that has one.
TerminalChoice(p) ==
    LET line == process[p].line
        choosing == {n \in DOMAIN line : /\ Reaches(p, n) /\ process[line[n][1]].image = "shell"
                                         /\ session[line[n]] # Absent}
    IN  IF process[p].env # Absent THEN process[p].env
        ELSE IF choosing = {} THEN Absent
        ELSE session[line[CHOOSE n \in choosing : \A m \in choosing : n <= m]]

\* The choice of the nearest project that has one, or else the user's.
FileChoice ==
    LET found == {i \in DOMAIN Directories : local[Directories[i]] # Absent}
    IN  IF found = {} THEN global ELSE local[Directories[CHOOSE i \in found : \A k \in found : i <= k]]

\* The ready runtime that is the only best match.
Best(content) ==
    {r \in runtimes : /\ r.ready /\ Matches(content, r)
                      /\ \A s \in runtimes \ {r} : Matches(content, s) =>
                            content.kind = "minor" /\ Older(Version(s), Version(r))}

\* "Precedence is explicit > current terminal > nearest project > global"
\* (README.md:125), a corrupt, missing, ambiguous or broken choice never gives
\* way to another one, and a cleared terminal does not inherit
\* (session.rs:66-82, resolver.rs:140-193, selector.rs:60-113): when nothing
\* changes meanwhile, the runtime run is the one these rules single out.
ResolutionIsExact ==
    \A p \in Pid : job[p].step = "done" /\ job[p].quiet =>
        LET terminal == TerminalChoice(p)
        IN  job[p].result = Best(IF terminal \in {Absent, Cleared} THEN FileChoice ELSE terminal)

\* "Aliases and short versions are pinned to the installation selected at that
\* time; installing a newer version does not update the selection"
\* (README.md:125, state.rs:129-145): a registration changes nothing for a
\* terminal or for the user whose choice is registered, and brings no other
\* installation than the one they had to whose is not.
PinsAreStable ==
    [][runtimes \subseteq runtimes' =>
         \A content \in {session[id] : id \in Identity} \cup {global} :
            IF Candidates(content, runtimes) # {}
            THEN Select(content, runtimes') = Select(content, runtimes)
            ELSE \A r \in Select(content, runtimes') : content = ById(r.id)]_vars
=============================================================================
