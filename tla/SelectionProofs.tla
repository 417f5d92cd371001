--------------------------- MODULE SelectionProofs ---------------------------
(***************************************************************************)
(* Theorems about Selection, for any number of processes, terminals,       *)
(* projects, runtimes, selections and events.                              *)
(***************************************************************************)
EXTENDS CommandsProofs, SequenceTheorems

-----------------------------------------------------------------------------
(* The inductive invariant *)

Command == {"none", "run", "shell", "unset shell", "global", "unset global", "local", "unset local"}

JobStep == {"none", "start", "resolving", "walking", "validating", "reading", "searching",
            "writing", "checking", "removing", "done"}

Process == [image : Image \cup {"gone"}, created : 0..MaxClock, parent : Pid \cup {None},
            line : Seq(Identity), env : Content]

Candidate == [id : Identity, count : Nat]

Known == Initial \cup Later \cup {[r EXCEPT !.ready = FALSE] : r \in Initial \cup Later}

Job == [command : Command, wanted : Content, step : JobStep, parents : [Pid -> Pid \cup {None}],
        chain : Seq(Identity), paths : Seq(Candidate), at : Nat, snapshot : SUBSET Known,
        result : SUBSET Known, quiet : BOOLEAN]

SelectionTypes ==
    /\ process \in [Pid -> Process] /\ job \in [Pid -> Job]
    /\ clock \in 0..MaxClock
    /\ session \in [Identity -> Content] /\ local \in [Place -> Content] /\ global \in Content
    /\ runtimes \subseteq Known /\ IsFiniteSet(runtimes)
    /\ spawns \in 0..MaxSpawns /\ commands \in 0..MaxCommands /\ changes \in 0..MaxChanges /\ mix \in Mixes

OneOfAnId == \A r, s \in runtimes : r.id = s.id => r = s

\* A selection that PyRudder wrote, or that somebody spoilt.
Settled(content) == content \in {Absent, Cleared, Corrupt} \/ content = ById(content.of)

AllSettled == Settled(global) /\ \A id \in Identity : Settled(session[id])

\* Processes of PyRudder have a job, no others do.
Agree(q) ==
    /\ process[q].created <= clock
    /\ process[q].image = "gone" => process[q] = Gone
    /\ IF process[q].image = "pyrudder" THEN job[q].command # "none" ELSE job[q] = NoJob

LivesIn(table, id) == table[id[1]] # Gone /\ table[id[1]].created = id[2]

\* The n-th ancestor of a process, if it lives, has what follows for a line; nobody else
\* has been, or will be, who it was.
AncestorFits(table, now, p, n) ==
    LET line == table[p].line
        above == table[line[n][1]]
    IN  /\ line[n][2] <= table[p].created
        /\ LivesIn(table, line[n]) =>
             /\ above.image # "pyrudder"
             /\ Len(line) = n + Len(above.line)
             /\ \A m \in 1..Len(above.line) : above.line[m] = line[n + m]
        /\ ~LivesIn(table, line[n]) => line[n][2] < now

\* Whoever bears the parent's number is the parent, or is not older.
ParentFits(table, p) ==
    LET line == table[p].line
        parent == table[p].parent
    IN  /\ parent = None => line = <<>>
        /\ parent # None => line # <<>> /\ line[1][1] = parent
        /\ parent # None /\ table[parent] # Gone =>
             LivesIn(table, line[1]) \/ table[p].created <= table[parent].created

LineFits(p) ==
    /\ \A n \in DOMAIN process[p].line : AncestorFits(process, clock, p, n)
    /\ ParentFits(process, p)

\* The process that bears the next number of a walk, if it is older than the last one
\* reached, is the next of the line.
NextFits(table, p, j, k) ==
    LET q == j.parents[j.chain[k][1]]
    IN  q # None /\ table[q] # Gone /\ table[q].created < j.chain[k][2] =>
          k \in DOMAIN table[p].line /\ table[p].line[k] = <<q, table[q].created>>

\* A walk has followed the line, and its snapshot is right about all that are older.
WalkFits(table, p, j) ==
    LET k == Len(j.chain)
    IN  /\ k # 0 /\ j.chain[k][2] <= table[p].created
        /\ \/ k = 1 /\ j.chain[k] = <<p, table[p].created>>
           \/ k - 1 \in DOMAIN table[p].line /\ j.chain[k] = table[p].line[k - 1]
        /\ \A q \in Pid : table[q] # Gone /\ table[q].created < table[p].created =>
             j.parents[q] = table[q].parent
        /\ NextFits(table, p, j, k)

Ancestor(table, p, id) == \E n \in DOMAIN table[p].line : table[p].line[n] = id

JobIn(table, p, j) ==
    /\ j.step = "walking" => WalkFits(table, p, j)
    /\ \A i \in DOMAIN j.paths : Ancestor(table, p, j.paths[i].id)
    /\ j.step \in {"reading", "searching"} => j.at # 0

JobFits(p) == JobIn(process, p, job[p])

SelectionIInv ==
    /\ SelectionTypes /\ OneOfAnId /\ AllSettled
    /\ \A p \in Pid : Agree(p) /\ LineFits(p) /\ JobFits(p)

-----------------------------------------------------------------------------
(* The second inductive invariant: a command that nothing disturbs finds what is so *)

\* What the process should be told.
Aim(p) == IF TerminalChoice(p) \in {Absent, Cleared} THEN FileChoice ELSE TerminalChoice(p)

\* A walk has passed live ancestors only.
Followed(p, j) ==
    LET k == Len(j.chain)
    IN  /\ k # 0 /\ j.chain[1] = Id(p) /\ j.parents[p] = process[p].parent
        /\ k - 1 <= Len(process[p].line) /\ Reaches(p, k - 1)
        /\ \A n \in 2..k : j.chain[n] = process[p].line[n - 1]
        /\ \A n, m \in 1..k : n < m => j.chain[m][2] < j.chain[n][2]

\* The terminals among the first k ancestors, nearest first.
Listed(p, paths, k) ==
    /\ \A i \in DOMAIN paths :
         /\ paths[i].count - 1 \in 1..k /\ paths[i].id = process[p].line[paths[i].count - 1]
         /\ process[process[p].line[paths[i].count - 1][1]].image = "shell"
    /\ \A n \in 1..k : process[process[p].line[n][1]].image = "shell" =>
         \E i \in DOMAIN paths : paths[i].count = n + 1
    /\ \A i, l \in DOMAIN paths : i < l => paths[i].count < paths[l].count

\* Nobody beyond them can be trusted.
Blocked(p, k) == \A n \in DOMAIN process[p].line : Reaches(p, n) => n <= k

\* All terminals that may choose, and those asked so far say nothing.
Asking(p, j) ==
    /\ \E k \in 0..Len(process[p].line) : Reaches(p, k) /\ Listed(p, j.paths, k) /\ Blocked(p, k)
    /\ \A i \in DOMAIN j.paths : i < j.at => session[j.paths[i].id] = Absent

Quiet(p, j) ==
    /\ j.step \in {"walking", "validating", "reading"} => process[p].env = Absent
    /\ j.step \in {"walking", "validating"} =>
         Followed(p, j) /\ Listed(p, j.paths, Len(j.chain) - 1)
    /\ j.step = "validating" => Blocked(p, Len(j.chain) - 1)
    /\ j.step = "reading" => Asking(p, j)
    /\ j.step = "resolving" =>
         IF j.wanted = Absent THEN TerminalChoice(p) \in {Absent, Cleared}
         ELSE j.wanted = TerminalChoice(p) /\ j.wanted # Cleared
    /\ j.step = "searching" =>
         /\ TerminalChoice(p) \in {Absent, Cleared} /\ j.snapshot = runtimes
         /\ \A i \in DOMAIN Directories : i < j.at => local[Directories[i]] = Absent
    /\ j.step = "done" => j.result = Best(Aim(p))

ExactIn(p, j) ==
    /\ j.step \in {"reading", "resolving", "searching", "done"} => j.command = "run"
    /\ j.step # "done" => j.result = {}
    /\ j.step \in {"start", "walking", "validating", "reading"} => j.wanted = Absent
    /\ j.step = "start" => j.paths = <<>>
    /\ j.quiet /\ j.command = "run" => Quiet(p, j)

ExactIInv == \A p \in Pid : process[p].env # Cleared /\ ExactIn(p, job[p])

-----------------------------------------------------------------------------
(* Sequences *)

\* A sequence with one more element in front.
LEMMA Consed ==
    ASSUME NEW S, NEW a \in S, NEW s \in Seq(S)
    PROVE  /\ <<a>> \o s \in Seq(S) /\ Len(<<a>> \o s) = Len(s) + 1 /\ Len(s) \in Nat
           /\ (<<a>> \o s)[1] = a /\ \A n \in 1..Len(s) : (<<a>> \o s)[n + 1] = s[n]
           /\ DOMAIN (<<a>> \o s) = 1..Len(s) + 1 /\ DOMAIN s = 1..Len(s)
<1>1. <<a>> \in Seq(S) /\ Len(<<a>>) = 1 /\ <<a>>[1] = a
  OBVIOUS
<1>2. /\ <<a>> \o s \in Seq(S) /\ Len(<<a>> \o s) = 1 + Len(s) /\ Len(s) \in Nat
      /\ \A i \in 1..1 + Len(s) : (<<a>> \o s)[i] = IF i <= 1 THEN <<a>>[i] ELSE s[i - 1]
  BY <1>1, ConcatProperties, LenProperties
<1>3. DOMAIN (<<a>> \o s) = 1..Len(<<a>> \o s) /\ DOMAIN s = 1..Len(s)
  BY <1>2, LenProperties
<1>4. (<<a>> \o s)[1] = a
  BY <1>1, <1>2
<1>5. \A n \in 1..Len(s) : (<<a>> \o s)[n + 1] = s[n]
  BY <1>2
<1> QED
  BY <1>2, <1>3, <1>4, <1>5

\* A sequence with one more element behind.
LEMMA Appended ==
    ASSUME NEW S, NEW s \in Seq(S), NEW e \in S
    PROVE  /\ Append(s, e) \in Seq(S) /\ Len(Append(s, e)) = Len(s) + 1 /\ Len(s) \in Nat
           /\ Append(s, e)[Len(s) + 1] = e /\ \A i \in 1..Len(s) : Append(s, e)[i] = s[i]
           /\ DOMAIN Append(s, e) = 1..Len(s) + 1 /\ DOMAIN s = 1..Len(s)
<1>1. /\ Append(s, e) \in Seq(S) /\ Len(Append(s, e)) = Len(s) + 1
      /\ Append(s, e)[Len(s) + 1] = e /\ \A i \in 1..Len(s) : Append(s, e)[i] = s[i]
  BY AppendProperties
<1>2. Len(s) \in Nat /\ DOMAIN s = 1..Len(s) /\ DOMAIN Append(s, e) = 1..Len(Append(s, e))
  BY <1>1, LenProperties
<1> QED
  BY <1>1, <1>2

\* The last elements of a list, dropped.
LEMMA Shortened ==
    ASSUME NEW S, NEW s \in Seq(S), NEW n \in 0..Len(s)
    PROVE  /\ SubSeq(s, 1, n) \in Seq(S) /\ Len(SubSeq(s, 1, n)) = n
           /\ \A i \in 1..n : SubSeq(s, 1, n)[i] = s[i]
           /\ DOMAIN SubSeq(s, 1, n) = 1..n /\ DOMAIN s = 1..Len(s)
<1>1. Len(s) \in Nat /\ DOMAIN s = 1..Len(s)
  BY LenProperties
<1>2. \A i \in 1..n : s[i] \in S
  BY <1>1, ElementOfSeq
<1>3. /\ SubSeq(s, 1, n) \in Seq(S)
      /\ Len(SubSeq(s, 1, n)) = IF 1 <= n THEN n - 1 + 1 ELSE 0
      /\ \A i \in 1..n - 1 + 1 : SubSeq(s, 1, n)[i] = s[1 + i - 1]
  BY <1>1, <1>2, SubSeqProperties
<1>4. DOMAIN SubSeq(s, 1, n) = 1..Len(SubSeq(s, 1, n))
  BY <1>3, LenProperties
<1> QED
  BY <1>1, <1>3, <1>4

-----------------------------------------------------------------------------
(* Types *)

LEMMA ContentTyped ==
    /\ Absent \in Content /\ Cleared \in Content /\ Corrupt \in Content
    /\ Local \subseteq Content /\ Saved \subseteq Content
  BY DEF Content

LEMMA NoJobTyped == NoJob \in Job /\ NoJob.command = "none" /\ NoJob.step = "none"
                      /\ NoJob.paths = <<>>
<1>1. NoParents \in [Pid -> Pid \cup {None}]
  BY DEF NoParents
<1>2. <<>> \in Seq(Identity) /\ <<>> \in Seq(Candidate)
  BY EmptySeq
<1> QED
  BY <1>1, <1>2, ContentTyped DEF NoJob, Job, Command, JobStep

LEMMA GoneTyped == Gone \in Process /\ Gone.image = "gone" /\ Gone.parent = None /\ Gone.line = <<>>
                     /\ Gone.created = 0
<1>1. <<>> \in Seq(Identity) /\ 0 \in 0..MaxClock
  BY EmptySeq, SelectionAssumption
<1> QED
  BY <1>1, ContentTyped DEF Gone, Process, Image

\* The registry knows a runtime as it was registered, or as not ready.
LEMMA KnownIs ==
    ASSUME NEW r \in Known
    PROVE  /\ r.id \in [1..4 -> Nat] /\ r.ready \in BOOLEAN
           /\ \E base \in Initial \cup Later :
                r.id = base.id /\ (r = base \/ r = [base EXCEPT !.ready = FALSE])
           /\ [r EXCEPT !.ready = FALSE] \in Known /\ [r EXCEPT !.ready = FALSE].id = r.id
           /\ [r EXCEPT !.ready = FALSE].ready = FALSE
<1>1. PICK base \in Initial \cup Later : r = base \/ r = [base EXCEPT !.ready = FALSE]
  BY DEF Known
<1>2. base \in [id : [1..4 -> Nat], aliases : {base.aliases}, ready : BOOLEAN, managed : BOOLEAN]
  BY SelectionAssumption
<1>3. /\ r.id = base.id /\ r.id \in [1..4 -> Nat] /\ r.ready \in BOOLEAN
      /\ [r EXCEPT !.ready = FALSE] = [base EXCEPT !.ready = FALSE]
      /\ [base EXCEPT !.ready = FALSE].id = base.id /\ [base EXCEPT !.ready = FALSE].ready = FALSE
  BY <1>1, <1>2
<1>4. [base EXCEPT !.ready = FALSE] \in Known
  BY DEF Known
<1> QED
  BY <1>1, <1>3, <1>4

\* What a command writes is a selection the registry knew.
LEMMA PinsTyped ==
    ASSUME SelectionTypes, NEW j, NEW content \in Pins(j)
    PROVE  content \in Content /\ Settled(content)
<1>1. CASE content = Cleared
  BY <1>1, ContentTyped DEF Settled
<1>2. CASE content # Cleared
  <2>1. PICK wanted \in Wanted : content \in Pinned(wanted, runtimes)
    BY <1>2 DEF Pins
  <2>2. PICK r \in Select(wanted, runtimes) : content = ById(r.id)
    BY <2>1 DEF Pinned
  <2>3. r \in Known
    BY <2>2 DEF Select, Candidates, SelectionTypes
  <2>4. \E base \in Initial \cup Later : content = ById(base.id)
    BY <2>2, <2>3, KnownIs
  <2> QED
    BY <2>2, <2>4 DEF Content, Settled, ById
<1> QED
  BY <1>1, <1>2

LEMMA IdTyped ==
    ASSUME SelectionTypes, NEW q \in Pid
    PROVE  Id(q) \in Identity /\ Id(q)[1] = q /\ Id(q)[2] = process[q].created
             /\ process[q].created \in 0..MaxClock
<1>1. process[q].created \in 0..MaxClock
  BY DEF SelectionTypes, Process
<1> QED
  BY <1>1 DEF Id, Identity

LEMMA ProcessTyped ==
    ASSUME SelectionTypes, NEW q \in Pid
    PROVE  /\ process[q].line \in Seq(Identity) /\ Len(process[q].line) \in Nat
           /\ DOMAIN process[q].line = 1..Len(process[q].line)
           /\ \A n \in DOMAIN process[q].line :
                /\ process[q].line[n] \in Identity
                /\ process[q].line[n][1] \in Pid /\ process[q].line[n][2] \in 0..MaxClock
           /\ process[q].created \in 0..MaxClock /\ process[q].parent \in Pid \cup {None}
           /\ process[q].env \in Content /\ process[q].image \in Image \cup {"gone"}
<1>1. process[q] \in Process
  BY DEF SelectionTypes
<1>2. process[q].line \in Seq(Identity)
  BY <1>1 DEF Process
<1>3. Len(process[q].line) \in Nat /\ DOMAIN process[q].line = 1..Len(process[q].line)
  BY <1>2, LenProperties
<1>4. \A n \in DOMAIN process[q].line : process[q].line[n] \in Identity
  BY <1>2, <1>3, ElementOfSeq
<1>5. \A id \in Identity : id[1] \in Pid /\ id[2] \in 0..MaxClock
  BY DEF Identity
<1> QED
  BY <1>1, <1>2, <1>3, <1>4, <1>5 DEF Process

-----------------------------------------------------------------------------
(* What a step does to the process table *)

Same == process' = process /\ clock <= clock'

Born(x, q, image) ==
    /\ ~Alive(x) /\ Alive(q) /\ process[q].image # "pyrudder"
    /\ image # "gone" /\ clock' = clock
    /\ process' = [process EXCEPT ![x] = Child(q, image)]

Dead(x) ==
    /\ process[x].image = "pyrudder" \/ process[x].created < clock
    /\ process' = [process EXCEPT ![x] = Gone] /\ clock' = clock

Moves ==
    \/ Same
    \/ \E x, q \in Pid, image \in Image : Born(x, q, image)
    \/ \E x \in Pid : Dead(x)

LEMMA ChildTyped ==
    ASSUME SelectionTypes, NEW q \in Pid, NEW image \in Image
    PROVE  /\ Child(q, image) \in Process /\ Child(q, image).created = clock
           /\ Child(q, image).parent = q /\ Child(q, image).image = image
           /\ Child(q, image).line = <<Id(q)>> \o process[q].line
           /\ Child(q, image).env = process[q].env
<1>1. <<Id(q)>> \o process[q].line \in Seq(Identity)
  BY ProcessTyped, IdTyped, Consed
<1>2. clock \in 0..MaxClock
  BY DEF SelectionTypes
<1> QED
  BY <1>1, <1>2, ProcessTyped DEF Child, Process

\* A step that leaves the table alone leaves every line right.
LEMMA LinesSame ==
    ASSUME SelectionIInv, Same, clock' \in 0..MaxClock, NEW p \in Pid
    PROVE  LineFits(p)'
<1>1. process' = process /\ clock <= clock'
  BY DEF Same
<1>2. SelectionTypes /\ LineFits(p)
  BY DEF SelectionIInv
<1>3. clock \in 0..MaxClock /\ \A n \in DOMAIN process[p].line : process[p].line[n][2] \in 0..MaxClock
  BY <1>2, ProcessTyped DEF SelectionTypes
<1>4. \A n \in DOMAIN process[p].line :
        process[p].line[n][2] < clock => process[p].line[n][2] < clock'
  BY <1>1, <1>3
<1> QED
  BY <1>1, <1>2, <1>4 DEF LineFits, AncestorFits

\* A step that touches neither a process, nor its n-th ancestor if that lives, leaves
\* what is said about that ancestor true.
LEMMA AncestorStays ==
    ASSUME NEW table, NEW after, NEW now, NEW p, NEW n,
           AncestorFits(table, now, p, n), after[p] = table[p],
           LivesIn(table, table[p].line[n]) =>
              after[table[p].line[n][1]] = table[table[p].line[n][1]],
           LivesIn(after, table[p].line[n]) => LivesIn(table, table[p].line[n]),
           ~LivesIn(after, table[p].line[n]) => table[p].line[n][2] < now
    PROVE  AncestorFits(after, now, p, n)
  BY DEF AncestorFits

\* As long as the number of the parent is with the same process.
LEMMA ParentStays ==
    ASSUME NEW table, NEW after, NEW p, ParentFits(table, p), after[p] = table[p],
           table[p].parent # None => after[table[p].parent] = table[table[p].parent]
    PROVE  ParentFits(after, p)
  BY DEF ParentFits, LivesIn

\* A birth: nobody's ancestors are brought back to life, the child has its parent's line.
LEMMA LinesBorn ==
    ASSUME SelectionIInv, NEW x \in Pid, NEW q \in Pid, NEW image \in Image, Born(x, q, image),
           NEW p \in Pid
    PROVE  LineFits(p)'
<1>0. SelectionTypes /\ \A r \in Pid : Agree(r) /\ LineFits(r)
  BY DEF SelectionIInv
<1>1. /\ process[x] = Gone /\ process[q] # Gone /\ q # x /\ process[q].image # "pyrudder"
      /\ image # "gone" /\ clock' = clock /\ clock \in 0..MaxClock
  BY <1>0 DEF Born, Alive, SelectionTypes
<1>2. /\ \A r \in Pid \ {x} : process'[r] = process[r]
      /\ process'[x] = Child(q, image)
  BY <1>0 DEF Born, SelectionTypes
<1>3. /\ Child(q, image).created = clock /\ Child(q, image).image = image
      /\ Child(q, image).parent = q /\ Child(q, image).line = <<Id(q)>> \o process[q].line
  BY <1>0, ChildTyped
<1>4. process'[x] # Gone /\ process'[x].created = clock
  BY <1>1, <1>2, <1>3, GoneTyped
<1>5. ASSUME NEW r \in Pid, NEW n \in DOMAIN process[r].line
      PROVE  LET id == process[r].line[n]
             IN  /\ LivesIn(process', id) <=> LivesIn(process, id)
                 /\ LivesIn(process, id) => process'[id[1]] = process[id[1]]
                 /\ ~LivesIn(process, id) => id[2] < clock
                 /\ id[2] \in 0..MaxClock /\ AncestorFits(process, clock, r, n)
  <2> DEFINE id == process[r].line[n]
  <2>1. id[1] \in Pid /\ id[2] \in 0..MaxClock /\ AncestorFits(process, clock, r, n)
    BY <1>0, ProcessTyped DEF LineFits
  <2>2. ~LivesIn(process, id) => id[2] < clock
    BY <2>1 DEF AncestorFits
  <2> HIDE DEF id
  <2>3. id[1] = x => ~LivesIn(process, id) /\ ~LivesIn(process', id)
    <3> SUFFICES ASSUME id[1] = x
                 PROVE  ~LivesIn(process, id) /\ ~LivesIn(process', id)
      OBVIOUS
    <3>1. ~LivesIn(process, id)
      BY <1>1 DEF LivesIn
    <3>2. id[2] # clock
      BY <1>1, <2>1, <2>2, <3>1
    <3> QED
      BY <1>4, <3>1, <3>2 DEF LivesIn
  <2>4. id[1] # x => process'[id[1]] = process[id[1]]
    BY <1>2, <2>1
  <2>5. /\ LivesIn(process', id) <=> LivesIn(process, id)
        /\ LivesIn(process, id) => process'[id[1]] = process[id[1]]
    BY <2>3, <2>4 DEF LivesIn
  <2> QED
    BY <2>1, <2>2, <2>5 DEF id
<1>6. CASE p # x
  <2>1. process'[p] = process[p] /\ LineFits(p)
    BY <1>0, <1>2, <1>6
  <2>2. ASSUME NEW n \in DOMAIN process[p].line
        PROVE  AncestorFits(process', clock, p, n)
    BY <1>5, <2>1, AncestorStays
  <2>3. ASSUME process[p].parent = x
        PROVE  ParentFits(process', p)
    <3>1. process[p].created <= clock
      BY <1>0 DEF Agree
    <3> QED
      BY <1>4, <2>1, <2>3, <3>1 DEF LineFits, ParentFits
  <2>4. ASSUME process[p].parent # x
        PROVE  ParentFits(process', p)
    <3>1. process[p].parent \in Pid \cup {None}
      BY <1>0, ProcessTyped
    <3>2. process[p].parent # None => process'[process[p].parent] = process[process[p].parent]
      BY <1>2, <2>4, <3>1
    <3> QED
      BY <2>1, <3>2, ParentStays DEF LineFits
  <2>5. ParentFits(process', p)
    BY <2>3, <2>4
  <2> QED
    BY <1>1, <2>1, <2>2, <2>5 DEF LineFits
<1>7. CASE p = x
  <2> DEFINE line == process'[x].line
             old == process[q].line
  <2>1. /\ line = <<Id(q)>> \o old /\ process'[x].parent = q /\ process'[x].created = clock
        /\ process'[q] = process[q]
    BY <1>1, <1>2, <1>3
  <2>2. /\ old \in Seq(Identity) /\ Id(q) \in Identity /\ Id(q)[1] = q
        /\ Id(q)[2] = process[q].created /\ process[q].created \in 0..MaxClock
        /\ process[q].created <= clock
    BY <1>0, ProcessTyped, IdTyped DEF Agree
  <2>3. /\ line # <<>> /\ line[1] = Id(q) /\ Len(line) = Len(old) + 1 /\ Len(old) \in Nat
        /\ DOMAIN line = 1..Len(old) + 1 /\ DOMAIN old = 1..Len(old)
        /\ \A n \in 1..Len(old) : line[n + 1] = old[n]
    <3> HIDE DEF line, old
    <3>1. /\ line \in Seq(Identity) /\ line[1] = Id(q)
          /\ Len(line) = Len(old) + 1 /\ Len(old) \in Nat
          /\ DOMAIN line = 1..Len(old) + 1 /\ DOMAIN old = 1..Len(old)
          /\ \A n \in 1..Len(old) : line[n + 1] = old[n]
      BY <2>1, <2>2, Consed
    <3>2. line # <<>>
      BY <3>1, EmptySeq
    <3> QED
      BY <3>1, <3>2
  <2>4. LivesIn(process', Id(q))
    BY <1>1, <2>1, <2>2 DEF LivesIn
  <2>5. AncestorFits(process', clock, x, 1)
    <3>1. \A m \in 1..Len(old) : line[1 + m] = old[m]
      BY <2>3
    <3> QED
      BY <1>1, <2>1, <2>2, <2>3, <2>4, <3>1 DEF AncestorFits
  <2>6. ASSUME NEW k \in DOMAIN old
        PROVE  AncestorFits(process', clock, x, k + 1)
    <3> DEFINE id == old[k]
               above == process[id[1]]
    <3>1. /\ LivesIn(process', id) <=> LivesIn(process, id)
          /\ LivesIn(process, id) => process'[id[1]] = above
          /\ ~LivesIn(process, id) => id[2] < clock
          /\ id[2] \in 0..MaxClock /\ AncestorFits(process, clock, q, k)
      BY <1>5
    <3>2. line[k + 1] = id /\ k \in 1..Len(old) /\ Len(above.line) \in Nat
      <4>1. id[1] \in Pid
        BY <1>0, ProcessTyped
      <4> QED
        BY <1>0, <2>3, <4>1, ProcessTyped
    <3>3. id[2] <= process[q].created
      BY <3>1 DEF AncestorFits
    <3>4. id[2] <= clock
      BY <1>1, <2>2, <3>1, <3>3
    <3>5. ASSUME LivesIn(process, id)
          PROVE  /\ above.image # "pyrudder"
                 /\ Len(old) = k + Len(above.line)
                 /\ \A m \in 1..Len(above.line) : above.line[m] = old[k + m]
      BY <3>1, <3>5 DEF AncestorFits
    <3> HIDE DEF line, old, id, above
    <3>6. ASSUME LivesIn(process, id)
          PROVE  /\ Len(line) = (k + 1) + Len(above.line)
                 /\ \A m \in 1..Len(above.line) : above.line[m] = line[(k + 1) + m]
      <4>1. Len(old) = k + Len(above.line)
        BY <3>5, <3>6
      <4>2. ASSUME NEW m \in 1..Len(above.line)
            PROVE  above.line[m] = line[(k + 1) + m]
        <5>1. k + m \in 1..Len(old) /\ (k + 1) + m = (k + m) + 1
          <6> DEFINE a == Len(old)
                     b == Len(above.line)
          <6>1. a \in Nat /\ b \in Nat /\ k \in 1..a /\ m \in 1..b /\ a = k + b
            BY <2>3, <3>2, <4>1
          <6> HIDE DEF a, b
          <6>2. k + m \in 1..a /\ (k + 1) + m = (k + m) + 1
            BY <6>1
          <6> QED
            BY <6>2 DEF a
        <5>2. line[(k + m) + 1] = old[k + m]
          BY <2>3, <5>1
        <5> QED
          BY <3>5, <3>6, <5>1, <5>2
      <4> QED
        BY <2>3, <3>2, <4>1, <4>2
    <3>7. CASE LivesIn(process, id)
      <4>1. LivesIn(process', line[k + 1]) /\ process'[line[k + 1][1]] = above
        BY <3>1, <3>2, <3>7
      <4> QED
        BY <2>1, <3>2, <3>4, <3>5, <3>6, <3>7, <4>1 DEF AncestorFits, line
    <3>8. CASE ~LivesIn(process, id)
      BY <2>1, <3>1, <3>2, <3>4, <3>8 DEF AncestorFits, line
    <3> QED
      BY <3>7, <3>8
  <2>7. ASSUME NEW n \in DOMAIN line
        PROVE  AncestorFits(process', clock, x, n)
    <3>1. n = 1 \/ (n - 1 \in DOMAIN old /\ n = (n - 1) + 1)
      BY <2>3
    <3> HIDE DEF line, old
    <3> QED
      BY <2>5, <2>6, <3>1
  <2>8. ParentFits(process', x)
    BY <2>1, <2>2, <2>3, <2>4, SelectionAssumption DEF ParentFits
  <2> QED
    BY <1>1, <1>7, <2>7, <2>8 DEF LineFits
<1> QED
  BY <1>6, <1>7

\* A death: nobody will bear the same number and the same creation time again.
LEMMA LinesDead ==
    ASSUME SelectionIInv, NEW x \in Pid, Dead(x), NEW p \in Pid
    PROVE  LineFits(p)'
<1>0. SelectionTypes /\ LineFits(p)
  BY DEF SelectionIInv
<1>1. /\ process[x].image = "pyrudder" \/ process[x].created < clock
      /\ clock' = clock /\ process'[x] = Gone
      /\ \A r \in Pid \ {x} : process'[r] = process[r]
  BY <1>0 DEF Dead, SelectionTypes
<1>2. CASE p = x
  <2>1. process'[p].line = <<>> /\ process'[p].parent = None
    BY <1>1, <1>2, GoneTyped
  <2>2. DOMAIN process'[p].line = {}
    BY <2>1
  <2> QED
    BY <2>1, <2>2 DEF LineFits, ParentFits
<1>3. CASE p # x
  <2>1. process'[p] = process[p]
    BY <1>1, <1>3
  <2>2. ASSUME NEW n \in DOMAIN process[p].line
        PROVE  /\ AncestorFits(process', clock, p, n)
               /\ process[p].line[n][1] # x =>
                    (LivesIn(process, process[p].line[n]) <=> LivesIn(process', process[p].line[n]))
    <3> DEFINE id == process[p].line[n]
               above == process[id[1]]
    <3>1. id[1] \in Pid /\ AncestorFits(process, clock, p, n)
      BY <1>0, ProcessTyped DEF LineFits
    <3>2. /\ LivesIn(process, id) => above.image # "pyrudder"
          /\ ~LivesIn(process, id) => id[2] < clock
      BY <3>1 DEF AncestorFits
    <3> HIDE DEF id, above
    <3>3. id[1] = x => ~LivesIn(process', id)
      BY <1>1 DEF LivesIn
    <3>4. id[1] = x => id[2] < clock
      <4> SUFFICES ASSUME id[1] = x, LivesIn(process, id)
                   PROVE  id[2] < clock
        BY <3>2
      <4>1. process[x].created = id[2] /\ above = process[x]
        BY DEF LivesIn, above
      <4> QED
        BY <1>1, <3>2, <4>1
    <3>5. id[1] # x => process'[id[1]] = process[id[1]]
      BY <1>1, <3>1
    <3>6. id[1] # x => (LivesIn(process, id) <=> LivesIn(process', id))
      BY <3>5 DEF LivesIn
    <3>7. CASE id[1] = x
      <4> QED
        BY <2>1, <3>1, <3>3, <3>4, <3>6, <3>7 DEF AncestorFits, id
    <3>8. CASE id[1] # x
      BY <2>1, <3>1, <3>2, <3>5, <3>6, <3>8, AncestorStays DEF id
    <3> QED
      BY <3>6, <3>7, <3>8 DEF id
  <2>3. ASSUME process[p].parent # x
        PROVE  ParentFits(process', p)
    <3>1. process[p].parent \in Pid \cup {None}
      BY <1>0, ProcessTyped
    <3>2. process[p].parent # None => process'[process[p].parent] = process[process[p].parent]
      BY <1>1, <2>3, <3>1
    <3> QED
      BY <1>0, <2>1, <3>2, ParentStays DEF LineFits
  <2>4. ASSUME process[p].parent = x
        PROVE  ParentFits(process', p)
    BY <1>0, <1>1, <2>1, <2>4 DEF LineFits, ParentFits
  <2>5. ParentFits(process', p)
    BY <2>3, <2>4
  <2> QED
    BY <1>1, <2>1, <2>2, <2>5 DEF LineFits
<1> QED
  BY <1>2, <1>3

LEMMA LinesStay ==
    ASSUME SelectionIInv, Moves, clock' \in 0..MaxClock, NEW p \in Pid
    PROVE  LineFits(p)'
<1>1. CASE Same
  BY <1>1, LinesSame
<1>2. CASE \E x, q \in Pid, image \in Image : Born(x, q, image)
  BY <1>2, LinesBorn
<1>3. CASE \E x \in Pid : Dead(x)
  BY <1>3, LinesDead
<1> QED
  BY <1>1, <1>2, <1>3 DEF Moves

\* Whoever is older than a process that stays, stays or ends.
LEMMA OldStay ==
    ASSUME SelectionIInv, Moves, NEW p \in Pid, NEW q \in Pid,
           process'[q] # Gone, process'[q].created < process[p].created
    PROVE  process'[q] = process[q]
<1>1. SelectionTypes /\ Agree(p) /\ process[p].created \in 0..MaxClock /\ clock \in 0..MaxClock
  BY ProcessTyped DEF SelectionIInv, SelectionTypes
<1>2. CASE Same
  BY <1>2 DEF Same
<1>3. ASSUME NEW x \in Pid, NEW r \in Pid, NEW image \in Image, Born(x, r, image)
      PROVE  process'[q] = process[q]
  <2>1. process'[x] = Child(r, image) /\ Child(r, image).created = clock
    BY <1>1, <1>3, ChildTyped DEF Born, SelectionTypes
  <2>2. q # x
    BY <1>1, <2>1 DEF Agree
  <2> QED
    BY <1>1, <1>3, <2>2 DEF Born, SelectionTypes
<1>4. ASSUME NEW x \in Pid, Dead(x)
      PROVE  process'[q] = process[q]
  BY <1>1, <1>4 DEF Dead, SelectionTypes
<1> QED
  BY <1>2, <1>3, <1>4 DEF Moves

\* What a process does about the terminals it has found, when it does not walk on.
Onward(p) ==
    /\ process'[p] = process[p]
    /\ \A i \in DOMAIN job'[p].paths : i \in DOMAIN job[p].paths /\ job'[p].paths[i] = job[p].paths[i]
    /\ job'[p].step = "walking" =>
         job[p].step = "walking" /\ job'[p].chain = job[p].chain /\ job'[p].parents = job[p].parents
    /\ job'[p].step \in {"reading", "searching"} => job'[p].at # 0

LEMMA JobStays ==
    ASSUME SelectionIInv, Moves, NEW p \in Pid, Onward(p)
    PROVE  JobFits(p)'
<1>1. /\ JobIn(process, p, job[p]) /\ process'[p] = process[p]
      /\ process[p].created \in 0..MaxClock
      /\ \A q \in Pid : process'[q].created \in 0..MaxClock \/ process'[q] = process[q]
  <2>1. SelectionTypes /\ JobFits(p) /\ clock \in 0..MaxClock
    BY DEF SelectionIInv, SelectionTypes
  <2>2. ASSUME NEW q \in Pid
        PROVE  process'[q].created \in 0..MaxClock \/ process'[q] = process[q]
    <3>1. CASE Same
      BY <3>1 DEF Same
    <3>2. ASSUME NEW x \in Pid, NEW r \in Pid, NEW image \in Image, Born(x, r, image)
          PROVE  process'[q].created \in 0..MaxClock \/ process'[q] = process[q]
      BY <2>1, <3>2, ChildTyped DEF Born, SelectionTypes
    <3>3. ASSUME NEW x \in Pid, Dead(x)
          PROVE  process'[q].created \in 0..MaxClock \/ process'[q] = process[q]
      BY <2>1, <3>3, GoneTyped, SelectionAssumption DEF Dead, SelectionTypes
    <3> QED
      BY <3>1, <3>2, <3>3 DEF Moves
  <2> QED
    BY <2>1, <2>2, ProcessTyped DEF JobFits, Onward
<1>2. ASSUME NEW i \in DOMAIN job'[p].paths
      PROVE  Ancestor(process', p, job'[p].paths[i].id)
  BY <1>1 DEF Onward, JobIn, Ancestor
<1>3. ASSUME job'[p].step = "walking"
      PROVE  WalkFits(process', p, job'[p])
  <2>1. /\ WalkFits(process, p, job[p])
        /\ job'[p].chain = job[p].chain /\ job'[p].parents = job[p].parents
    BY <1>1, <1>3 DEF Onward, JobIn
  <2> DEFINE k == Len(job[p].chain)
  <2>2. \A q \in Pid : process'[q] # Gone /\ process'[q].created < process[p].created =>
          process'[q] = process[q]
    BY OldStay
  <2>3. NextFits(process', p, job'[p], k)
    <3> DEFINE child == job[p].chain[k]
               q == job[p].parents[child[1]]
    <3> SUFFICES ASSUME q # None, process'[q] # Gone, process'[q].created < child[2]
                 PROVE  k \in DOMAIN process[p].line
                          /\ process[p].line[k] = <<q, process'[q].created>>
      BY <1>1, <2>1 DEF NextFits
    <3>1. /\ job[p].parents \in [Pid -> Pid \cup {None}] /\ job[p].chain \in Seq(Identity)
          /\ SelectionTypes
      BY DEF SelectionIInv, SelectionTypes, Job
    <3>2. k \in Nat \ {0} /\ child[2] <= process[p].created
      BY <2>1, <3>1, LenProperties DEF WalkFits
    <3>3. child \in Identity
      BY <3>1, <3>2, ElementOfSeq
    <3>4. q \in Pid /\ child[2] \in 0..MaxClock
      BY <3>1, <3>3 DEF Identity
    <3>5. process[q].created \in 0..MaxClock
      BY <3>1, <3>4, ProcessTyped
    <3>6. process'[q].created < process[p].created
      BY <1>1, <3>2, <3>4, <3>5
    <3>7. process'[q] = process[q]
      BY <2>2, <3>4, <3>6
    <3> QED
      BY <2>1, <3>7 DEF WalkFits, NextFits
  <2> QED
    BY <1>1, <2>1, <2>2, <2>3 DEF WalkFits
<1> QED
  BY <1>2, <1>3 DEF JobFits, JobIn, Onward

\* What is left to show of a step.
LEMMA Whole ==
    ASSUME SelectionIInv, Moves, SelectionTypes', OneOfAnId', AllSettled',
           \A p \in Pid : Agree(p)',
           \A p \in Pid : job'[p] = NoJob \/ Onward(p) \/ JobFits(p)'
    PROVE  SelectionIInv'
<1>1. clock' \in 0..MaxClock
  BY DEF SelectionTypes
<1>2. \A p \in Pid : LineFits(p)'
  BY <1>1, LinesStay
<1>3. ASSUME NEW p \in Pid
      PROVE  JobFits(p)'
  <2>1. CASE job'[p] = NoJob
    <3>1. DOMAIN job'[p].paths = {}
      BY <2>1, NoJobTyped
    <3> QED
      BY <2>1, <3>1, NoJobTyped DEF JobFits, JobIn
  <2> QED
    BY <2>1, JobStays
<1> QED
  BY <1>2, <1>3 DEF SelectionIInv

-----------------------------------------------------------------------------
(* Steps of one command *)

LEMMA OneJob ==
    ASSUME SelectionTypes, NEW p \in Pid, NEW new \in Job, job' = [job EXCEPT ![p] = new]
    PROVE  /\ job' \in [Pid -> Job] /\ job'[p] = new
           /\ \A q \in Pid \ {p} : job'[q] = job[q]
  BY DEF SelectionTypes

\* What a disturbance leaves as it was.
Undisturbed(q, after) ==
    /\ job[q] = NoJob => after[q] = NoJob
    /\ after[q].command = job[q].command /\ after[q].step = job[q].step
    /\ after[q].paths = job[q].paths /\ after[q].chain = job[q].chain
    /\ after[q].parents = job[q].parents /\ after[q].at = job[q].at

LEMMA DisturbedTyped ==
    ASSUME SelectionTypes
    PROVE  /\ Disturbed(job) \in [Pid -> Job]
           /\ \A q \in Pid : Undisturbed(q, Disturbed(job))
<1>1. ASSUME NEW q \in Pid
      PROVE  Disturbed(job)[q] \in Job /\ Undisturbed(q, Disturbed(job))
  <2>1. job[q] \in Job
    BY DEF SelectionTypes
  <2>2. CASE job[q] = NoJob
    BY <2>1, <2>2 DEF Disturbed, Undisturbed
  <2>3. CASE job[q] # NoJob
    <3>1. Disturbed(job)[q] = [job[q] EXCEPT !.quiet = FALSE]
      BY <2>3 DEF Disturbed
    <3> QED
      BY <2>1, <2>3, <3>1 DEF Undisturbed, Job
  <2> QED
    BY <2>2, <2>3
<1>2. Disturbed(job) = [q \in Pid |-> Disturbed(job)[q]]
  BY DEF Disturbed
<1> QED
  BY <1>1, <1>2

\* Who does not move, and is disturbed at most, goes on as before.
LEMMA OthersGoOn ==
    ASSUME SelectionIInv, NEW q \in Pid, process'[q] = process[q],
           job'[q] = job[q] \/ (job'[q] = Disturbed(job)[q])
    PROVE  Onward(q)
<1>1. JobIn(process, q, job[q]) /\ Undisturbed(q, Disturbed(job))
  BY DisturbedTyped DEF SelectionIInv, JobFits
<1> QED
  BY <1>1 DEF Onward, JobIn, Undisturbed

\* A process that has something to do is a live one of PyRudder.
LEMMA Busy ==
    ASSUME SelectionIInv, NEW p \in Pid, job[p].step # "none"
    PROVE  /\ process[p].image = "pyrudder" /\ job[p].command # "none" /\ job[p] # NoJob
           /\ Alive(p) /\ job[p] \in Job /\ JobIn(process, p, job[p])
<1>1. Agree(p) /\ job[p] \in Job /\ JobIn(process, p, job[p])
  BY DEF SelectionIInv, SelectionTypes, JobFits
<1>2. job[p] # NoJob /\ process[p].image = "pyrudder" /\ job[p].command # "none"
  BY <1>1, NoJobTyped DEF Agree
<1> QED
  BY <1>1, <1>2, GoneTyped DEF Alive

Budget == UNCHANGED <<spawns, commands, changes, mix>>

\* A command goes on, and nothing else happens.
LEMMA CommandGoes ==
    ASSUME SelectionIInv, NEW p \in Pid, NEW new \in Job, job[p].step # "none",
           job' = [job EXCEPT ![p] = new], new.command = job[p].command,
           JobIn(process, p, new),
           UNCHANGED <<process, clock, session, local, global, runtimes>>, Budget
    PROVE  SelectionIInv'
<1>1. /\ SelectionTypes /\ OneOfAnId /\ AllSettled
      /\ \A q \in Pid : Agree(q)
  BY DEF SelectionIInv
<1>2. /\ job' \in [Pid -> Job] /\ job'[p] = new
      /\ \A q \in Pid \ {p} : job'[q] = job[q]
  BY <1>1, OneJob
<1>3. SelectionTypes' /\ OneOfAnId' /\ AllSettled' /\ Moves
  BY <1>1, <1>2 DEF SelectionTypes, OneOfAnId, AllSettled, Budget, Moves, Same
<1>4. ASSUME NEW q \in Pid
      PROVE  Agree(q)'
  BY <1>1, <1>2, Busy DEF Agree
<1>5. ASSUME NEW q \in Pid
      PROVE  Onward(q) \/ JobFits(q)'
  <2>1. CASE q = p
    BY <1>2, <2>1 DEF JobFits
  <2>2. CASE q # p
    BY <1>2, <2>2, OthersGoOn
  <2> QED
    BY <2>1, <2>2
<1> QED
  BY <1>3, <1>4, <1>5, Whole

\* A command ends, and may have written a selection.
LEMMA CommandEnds ==
    ASSUME SelectionIInv, NEW p \in Pid, job[p].step # "none", Ends(p) \/ EndsWriting(p),
           clock' = clock, runtimes' = runtimes, Budget,
           session' \in [Identity -> Content], local' \in [Place -> Content], global' \in Content,
           AllSettled'
    PROVE  SelectionIInv'
<1>1. /\ SelectionTypes /\ OneOfAnId
      /\ \A q \in Pid : Agree(q)
  BY DEF SelectionIInv
<1>2. /\ process' = [process EXCEPT ![p] = Gone]
      /\ process' \in [Pid -> Process] /\ process'[p] = Gone
      /\ \A q \in Pid \ {p} : process'[q] = process[q]
  BY <1>1, GoneTyped DEF Ends, EndsWriting, SelectionTypes
<1>3. /\ job' \in [Pid -> Job] /\ job'[p] = NoJob
      /\ \A q \in Pid \ {p} : job'[q] = job[q] \/ job'[q] = Disturbed(job)[q]
  <2>1. CASE Ends(p)
    BY <1>1, <2>1, NoJobTyped DEF Ends, SelectionTypes
  <2>2. CASE EndsWriting(p)
    BY <1>1, <2>2, NoJobTyped, DisturbedTyped DEF EndsWriting
  <2> QED
    BY <2>1, <2>2
<1>4. Moves
  BY <1>2, Busy DEF Moves, Dead
<1>5. SelectionTypes' /\ OneOfAnId'
  BY <1>1, <1>2, <1>3 DEF SelectionTypes, OneOfAnId, Budget
<1>6. ASSUME NEW q \in Pid
      PROVE  Agree(q)'
  <2>1. CASE q = p
    BY <1>1, <1>2, <1>3, <2>1, GoneTyped DEF Agree, SelectionTypes
  <2>2. CASE q # p
    BY <1>1, <1>2, <1>3, <2>2, DisturbedTyped DEF Agree, Undisturbed
  <2> QED
    BY <2>1, <2>2
<1>7. ASSUME NEW q \in Pid
      PROVE  job'[q] = NoJob \/ Onward(q)
  BY <1>2, <1>3, OthersGoOn
<1> QED
  BY <1>4, <1>5, <1>6, <1>7, Whole

\* A process that PyRudder is not ends or starts, or the registry or a file changes.
LEMMA Elsewhere ==
    ASSUME SelectionIInv, Moves, SelectionTypes', OneOfAnId', AllSettled',
           job' = job \/ job' = Disturbed(job),
           \A q \in Pid : process'[q] = process[q]
              \/ (job[q] = NoJob /\ process'[q].image # "pyrudder" /\ process'[q].created <= clock'
                    /\ (process'[q].image = "gone" => process'[q] = Gone))
    PROVE  SelectionIInv'
<1>1. /\ SelectionTypes /\ \A q \in Pid : Agree(q)
      /\ \A q \in Pid : Undisturbed(q, Disturbed(job))
  BY DisturbedTyped DEF SelectionIInv
<1>2. clock <= clock'
  BY <1>1 DEF Moves, Same, Born, Dead, SelectionTypes
<1>3. \A q \in Pid : /\ job[q] = NoJob => job'[q] = NoJob
                     /\ job'[q].command = job[q].command
                     /\ job'[q] = job[q] \/ job'[q] = Disturbed(job)[q]
  BY <1>1 DEF Undisturbed
<1>4. \A q \in Pid : process[q].created \in 0..MaxClock /\ clock \in 0..MaxClock /\ clock' \in 0..MaxClock
  BY <1>1, ProcessTyped DEF SelectionTypes
<1>5. ASSUME NEW q \in Pid
      PROVE  Agree(q)'
  <2>1. CASE process'[q] = process[q]
    BY <1>1, <1>2, <1>3, <1>4, <2>1 DEF Agree
  <2>2. CASE process'[q] # process[q]
    BY <1>3, <2>2 DEF Agree
  <2> QED
    BY <2>1, <2>2
<1>6. ASSUME NEW q \in Pid
      PROVE  job'[q] = NoJob \/ Onward(q)
  BY <1>3, OthersGoOn
<1> QED
  BY <1>5, <1>6, Whole

-----------------------------------------------------------------------------
(* The steps, one by one *)

LEMMA ExitKeeps ==
    ASSUME SelectionIInv, NEW q \in Pid, Exit(q)
    PROVE  SelectionIInv'
<1>1. /\ SelectionTypes /\ OneOfAnId /\ AllSettled /\ Agree(q)
  BY DEF SelectionIInv
<1>2. /\ process' = [process EXCEPT ![q] = Gone] /\ process' \in [Pid -> Process]
      /\ process'[q] = Gone /\ \A p \in Pid \ {q} : process'[p] = process[p]
  BY <1>1, GoneTyped DEF Exit, SelectionTypes
<1>3. Moves
  BY <1>2 DEF Exit, Moves, Dead
<1>4. SelectionTypes' /\ OneOfAnId' /\ AllSettled'
  BY <1>1, <1>2, DisturbedTyped DEF Exit, SelectionTypes, OneOfAnId, AllSettled, budget, saved
<1>5. ASSUME NEW p \in Pid
      PROVE  \/ process'[p] = process[p]
             \/ job[p] = NoJob /\ process'[p].image # "pyrudder" /\ process'[p].created <= clock'
                  /\ (process'[p].image = "gone" => process'[p] = Gone)
  <2>1. CASE p = q
    BY <1>1, <1>2, <2>1, GoneTyped DEF Exit, Agree, SelectionTypes
  <2>2. CASE p # q
    BY <1>2, <2>2
  <2> QED
    BY <2>1, <2>2
<1> QED
  BY <1>1, <1>3, <1>4, <1>5, Elsewhere DEF Exit

LEMMA SpawnKeeps ==
    ASSUME SelectionIInv, NEW q \in Pid, Spawn(q)
    PROVE  SelectionIInv'
<1>1. /\ SelectionTypes /\ OneOfAnId /\ AllSettled /\ \A p \in Pid : Agree(p)
  BY DEF SelectionIInv
<1>2. PICK x \in Free, image \in Image \ {"pyrudder"} :
        process' = [process EXCEPT ![x] = Child(q, image)]
  BY DEF Spawn
<1>3. x \in Pid /\ ~Alive(x) /\ image \in Image /\ image # "gone" /\ clock' = clock
  BY <1>2 DEF Free, Spawn, Image
<1>4. /\ process'[x] = Child(q, image) /\ \A p \in Pid \ {x} : process'[p] = process[p]
      /\ process' \in [Pid -> Process]
      /\ Child(q, image).image = image /\ Child(q, image).created = clock
  BY <1>1, <1>2, <1>3, ChildTyped DEF SelectionTypes
<1>5. Moves
  BY <1>2, <1>3 DEF Spawn, Moves, Born
<1>6. spawns' \in 0..MaxSpawns
  BY <1>1, SelectionAssumption DEF Spawn, SelectionTypes
<1>7. SelectionTypes' /\ OneOfAnId' /\ AllSettled'
  BY <1>1, <1>4, <1>6 DEF Spawn, SelectionTypes, OneOfAnId, AllSettled, saved
<1>8. job[x] = NoJob
  BY <1>1, <1>3, GoneTyped DEF Agree, Alive
<1>9. clock \in 0..MaxClock
  BY <1>1 DEF SelectionTypes
<1>10. ASSUME NEW p \in Pid
       PROVE  \/ process'[p] = process[p]
              \/ job[p] = NoJob /\ process'[p].image # "pyrudder" /\ process'[p].created <= clock'
                   /\ (process'[p].image = "gone" => process'[p] = Gone)
  BY <1>2, <1>3, <1>4, <1>8, <1>9
<1> QED
  BY <1>5, <1>7, <1>10, Elsewhere DEF Spawn

LEMMA TickKeeps ==
    ASSUME SelectionIInv, Tick
    PROVE  SelectionIInv'
<1>1. /\ SelectionTypes /\ OneOfAnId /\ AllSettled
  BY DEF SelectionIInv
<1>2. clock' \in 0..MaxClock /\ clock <= clock'
  BY <1>1, SelectionAssumption DEF Tick, SelectionTypes
<1>3. SelectionTypes' /\ OneOfAnId' /\ AllSettled' /\ Moves
  BY <1>1, <1>2 DEF Tick, SelectionTypes, OneOfAnId, AllSettled, saved, budget, Moves, Same
<1> QED
  BY <1>3, Elsewhere DEF Tick

\* The registry and the files change, processes do not.
LEMMA DataKeeps ==
    ASSUME SelectionIInv, UNCHANGED <<process, clock, spawns, commands, mix>>, job' = Disturbed(job),
           changes < MaxChanges, changes' = changes + 1,
           runtimes' \subseteq Known, IsFiniteSet(runtimes'), OneOfAnId',
           session' \in [Identity -> Content], UNCHANGED <<local, global>>, AllSettled'
    PROVE  SelectionIInv'
<1>1. SelectionTypes
  BY DEF SelectionIInv
<1>2. changes' \in 0..MaxChanges /\ clock <= clock
  BY <1>1, SelectionAssumption DEF SelectionTypes
<1>3. SelectionTypes' /\ Moves
  BY <1>1, <1>2, DisturbedTyped DEF SelectionTypes, Moves, Same
<1> QED
  BY <1>3, Elsewhere

LEMMA RegisterKeeps ==
    ASSUME SelectionIInv, Register
    PROVE  SelectionIInv'
<1>1. PICK r \in Later : r.id \notin {s.id : s \in runtimes} /\ Changes(runtimes \cup {r})
  BY DEF Register
<1>2. /\ runtimes' = runtimes \cup {r} /\ UNCHANGED <<process, clock, budget, saved>>
      /\ job' = Disturbed(job) /\ changes < MaxChanges /\ changes' = changes + 1
  BY <1>1 DEF Changes
<1>3. SelectionTypes /\ OneOfAnId /\ AllSettled
  BY DEF SelectionIInv
<1>4. runtimes' \subseteq Known /\ IsFiniteSet(runtimes')
  BY <1>2, <1>3, FS_AddElement DEF SelectionTypes, Known
<1>5. OneOfAnId' /\ AllSettled' /\ session' \in [Identity -> Content]
  BY <1>1, <1>2, <1>3 DEF OneOfAnId, AllSettled, saved, SelectionTypes
<1> QED
  BY <1>2, <1>4, <1>5, DataKeeps DEF budget, saved

LEMMA UnregisterKeeps ==
    ASSUME SelectionIInv, Unregister
    PROVE  SelectionIInv'
<1>1. PICK r \in runtimes : Changes(runtimes \ {r})
  BY DEF Unregister
<1>2. /\ runtimes' = runtimes \ {r} /\ UNCHANGED <<process, clock, budget, saved>>
      /\ job' = Disturbed(job) /\ changes < MaxChanges /\ changes' = changes + 1
  BY <1>1 DEF Changes
<1>3. SelectionTypes /\ OneOfAnId /\ AllSettled
  BY DEF SelectionIInv
<1>4. runtimes' \subseteq Known /\ IsFiniteSet(runtimes')
  BY <1>2, <1>3, FS_RemoveElement DEF SelectionTypes
<1>5. OneOfAnId' /\ AllSettled' /\ session' \in [Identity -> Content]
  BY <1>1, <1>2, <1>3 DEF OneOfAnId, AllSettled, saved, SelectionTypes
<1> QED
  BY <1>2, <1>4, <1>5, DataKeeps DEF budget, saved

LEMMA BreaksKeeps ==
    ASSUME SelectionIInv, Breaks
    PROVE  SelectionIInv'
<1>1. PICK r \in runtimes : Changes((runtimes \ {r}) \cup {[r EXCEPT !.ready = FALSE]})
  BY DEF Breaks
<1> DEFINE broken == [r EXCEPT !.ready = FALSE]
<1>2. /\ runtimes' = (runtimes \ {r}) \cup {broken} /\ UNCHANGED <<process, clock, budget, saved>>
      /\ job' = Disturbed(job) /\ changes < MaxChanges /\ changes' = changes + 1
  BY <1>1 DEF Changes
<1>3. SelectionTypes /\ OneOfAnId /\ AllSettled
  BY DEF SelectionIInv
<1>4. broken \in Known /\ broken.id = r.id
  BY <1>3, KnownIs DEF SelectionTypes
<1> HIDE DEF broken
<1>5. runtimes' \subseteq Known
  BY <1>2, <1>3, <1>4 DEF SelectionTypes
<1>6. IsFiniteSet(runtimes')
  <2>1. IsFiniteSet(runtimes \ {r})
    BY <1>3, FS_RemoveElement DEF SelectionTypes
  <2> QED
    BY <1>2, <2>1, FS_AddElement
<1>7. OneOfAnId'
  <2> SUFFICES ASSUME NEW s \in runtimes', NEW t \in runtimes', s.id = t.id
               PROVE  s = t
    BY DEF OneOfAnId
  <2>1. \A u \in runtimes' : u = broken \/ (u \in runtimes /\ u.id # r.id)
    BY <1>2, <1>3 DEF OneOfAnId
  <2> QED
    BY <1>3, <1>4, <2>1 DEF OneOfAnId
<1>8. AllSettled' /\ session' \in [Identity -> Content]
  BY <1>2, <1>3 DEF AllSettled, saved, SelectionTypes
<1> QED
  BY <1>2, <1>5, <1>6, <1>7, <1>8, DataKeeps DEF budget, saved

LEMMA SpoilKeeps ==
    ASSUME SelectionIInv, Spoil
    PROVE  SelectionIInv'
<1>1. PICK id \in Identity : session' = [session EXCEPT ![id] = Corrupt]
  BY DEF Spoil
<1>2. SelectionTypes /\ OneOfAnId /\ AllSettled
  BY DEF SelectionIInv
<1>3. session' \in [Identity -> Content]
  BY <1>1, <1>2, ContentTyped DEF SelectionTypes
<1>4. \A other \in Identity : session'[other] = Corrupt \/ session'[other] = session[other]
  BY <1>1, <1>2 DEF SelectionTypes
<1>5. Settled(Corrupt)
  BY DEF Settled
<1>6. AllSettled' /\ runtimes' = runtimes
  BY <1>2, <1>4, <1>5 DEF AllSettled, Spoil
<1>7. OneOfAnId' /\ runtimes' \subseteq Known /\ IsFiniteSet(runtimes')
  BY <1>2, <1>6 DEF OneOfAnId, SelectionTypes
<1> QED
  BY <1>3, <1>6, <1>7, DataKeeps DEF Spoil, budget

LEMMA StartKeeps ==
    ASSUME SelectionIInv, NEW q \in Pid, Start(q)
    PROVE  SelectionIInv'
<1>1. /\ SelectionTypes /\ OneOfAnId /\ AllSettled /\ \A p \in Pid : Agree(p)
  BY DEF SelectionIInv
<1>2. PICK x \in Free, command \in Command \ {"none"} :
        /\ process' = [process EXCEPT ![x] = Child(q, "pyrudder")]
        /\ job' = [job EXCEPT ![x] = [NoJob EXCEPT !.command = command, !.step = "start"]]
  BY DEF Start, Command
<1> DEFINE new == [NoJob EXCEPT !.command = command, !.step = "start"]
<1>3. /\ new \in Job /\ new.command = command /\ new.step = "start" /\ new.paths = <<>>
  BY NoJobTyped DEF Job, JobStep
<1>4. job' = [job EXCEPT ![x] = new]
  BY <1>2
<1> HIDE DEF new
<1>5. x \in Pid /\ ~Alive(x) /\ "pyrudder" \in Image /\ clock' = clock
  BY <1>2 DEF Free, Start, Image
<1>6. /\ process'[x] = Child(q, "pyrudder") /\ \A p \in Pid \ {x} : process'[p] = process[p]
      /\ process' \in [Pid -> Process]
      /\ Child(q, "pyrudder").image = "pyrudder" /\ Child(q, "pyrudder").created = clock
  BY <1>1, <1>2, <1>5, ChildTyped DEF SelectionTypes
<1>7. /\ job' \in [Pid -> Job] /\ job'[x] = new /\ \A p \in Pid \ {x} : job'[p] = job[p]
  BY <1>1, <1>3, <1>4, <1>5, OneJob
<1>8. Moves
  BY <1>2, <1>5 DEF Start, Moves, Born
<1>9. commands' \in 0..MaxCommands
  <2>1. commands < MaxCommands /\ commands' = commands + 1
    BY DEF Start
  <2> QED
    BY <1>1, <2>1, SelectionAssumption DEF SelectionTypes
<1>10. SelectionTypes' /\ OneOfAnId' /\ AllSettled'
  BY <1>1, <1>6, <1>7, <1>9 DEF Start, SelectionTypes, OneOfAnId, AllSettled, saved
<1>11. clock \in 0..MaxClock
  BY <1>1 DEF SelectionTypes
<1>12. ASSUME NEW p \in Pid
       PROVE  Agree(p)' /\ (Onward(p) \/ JobFits(p)')
  <2>1. CASE p = x
    <3>1. JobFits(x)'
      <4>1. DOMAIN job'[x].paths = {}
        BY <1>3, <1>7
      <4> QED
        BY <1>3, <1>7, <4>1 DEF JobFits, JobIn
    <3> QED
      BY <1>2, <1>3, <1>5, <1>6, <1>7, <1>11, <2>1, <3>1 DEF Agree
  <2>2. CASE p # x
    BY <1>1, <1>5, <1>6, <1>7, <2>2, OthersGoOn DEF Agree
  <2> QED
    BY <2>1, <2>2
<1> QED
  BY <1>8, <1>10, <1>12, Whole

\* A command takes up what to do next, and keeps the terminals it has found.
LEMMA StepsTo ==
    ASSUME SelectionIInv, NEW p \in Pid, job[p].step # "none",
           NEW new \in Job, job' = [job EXCEPT ![p] = new], new.command = job[p].command,
           new.step # "walking", new.paths = job[p].paths,
           new.step \in {"reading", "searching"} => new.at # 0,
           UNCHANGED <<process, clock, session, local, global, runtimes>>, Budget
    PROVE  SelectionIInv'
<1>1. JobIn(process, p, new)
  BY Busy DEF JobIn
<1> QED
  BY <1>1, CommandGoes

\* A plain change of what to do next.
LEMMA GoesTo ==
    ASSUME SelectionIInv, NEW p \in Pid, job[p].step # "none", NEW step \in JobStep, Goes(p, step),
           step \notin {"walking", "reading", "searching"},
           UNCHANGED <<process, clock, session, local, global, runtimes>>, Budget
    PROVE  SelectionIInv'
<1> DEFINE new == [job[p] EXCEPT !.step = step]
<1>1. job[p] \in Job
  BY Busy
<1>2. /\ new \in Job /\ new.command = job[p].command /\ new.step = step
      /\ new.paths = job[p].paths
  BY <1>1 DEF Job
<1>3. job' = [job EXCEPT ![p] = new]
  BY <1>1 DEF Goes, SelectionIInv, SelectionTypes
<1> HIDE DEF new
<1> QED
  BY <1>2, <1>3, StepsTo

LEMMA EndsUnchanged ==
    ASSUME SelectionIInv, NEW p \in Pid, job[p].step # "none", Ends(p),
           UNCHANGED <<clock, session, local, global, runtimes>>, Budget
    PROVE  SelectionIInv'
<1>1. SelectionTypes /\ AllSettled
  BY DEF SelectionIInv
<1>2. /\ session' \in [Identity -> Content] /\ local' \in [Place -> Content]
      /\ global' \in Content /\ AllSettled'
  BY <1>1 DEF SelectionTypes, AllSettled
<1> QED
  BY <1>2, CommandEnds

\* The walk starts from the process itself, with a snapshot of all parents.
LEMMA WalkStarts ==
    ASSUME SelectionIInv, NEW p \in Pid, Alive(p), NEW j, j.chain = <<Id(p)>>,
           j.parents = [q \in Pid |-> process[q].parent]
    PROVE  WalkFits(process, p, j)
<1>1. SelectionTypes /\ LineFits(p)
  BY DEF SelectionIInv
<1>2. Len(j.chain) = 1 /\ j.chain[1] = <<p, process[p].created>>
  BY DEF Id
<1>3. process[p].created \in 0..MaxClock /\ process[p].parent \in Pid \cup {None}
  BY <1>1, ProcessTyped
<1>4. NextFits(process, p, j, 1)
  <2> DEFINE q == process[p].parent
  <2>1. j.parents[j.chain[1][1]] = q
    BY <1>2
  <2> SUFFICES ASSUME q # None, process[q] # Gone, process[q].created < process[p].created
               PROVE  1 \in DOMAIN process[p].line /\ process[p].line[1] = <<q, process[q].created>>
    BY <1>2, <2>1 DEF NextFits
  <2>2. q \in Pid /\ process[q].created \in 0..MaxClock
    BY <1>1, <1>3, ProcessTyped
  <2>3. /\ process[p].line # <<>> /\ process[p].line[1][1] = q
        /\ LivesIn(process, process[p].line[1]) \/ process[p].created <= process[q].created
    BY <1>1 DEF LineFits, ParentFits
  <2>4. LivesIn(process, process[p].line[1])
    BY <1>3, <2>2, <2>3
  <2>5. 1 \in DOMAIN process[p].line
    BY <1>1, <2>3, ProcessTyped, EmptySeq
  <2>6. process[p].line[1] \in Identity
    BY <1>1, <2>5, ProcessTyped
  <2>7. process[p].line[1] = <<process[p].line[1][1], process[p].line[1][2]>>
    BY <2>6 DEF Identity
  <2> QED
    BY <2>3, <2>4, <2>5, <2>7 DEF LivesIn
<1> QED
  BY <1>2, <1>3, <1>4 DEF WalkFits

LEMMA SnapshotKeeps ==
    ASSUME SelectionIInv, NEW p \in Pid, Snapshot(p)
    PROVE  SelectionIInv'
<1>1. /\ job[p].step = "start" /\ SelectionTypes
      /\ UNCHANGED <<clock, session, local, global, runtimes>> /\ Budget
  BY DEF Snapshot, SelectionIInv, budget, saved, Budget
<1>2. /\ process[p].env \in Content /\ job[p] \in Job /\ Alive(p)
      /\ JobIn(process, p, job[p])
  BY <1>1, ProcessTyped, Busy
<1> DEFINE resolving == [job[p] EXCEPT !.step = "resolving", !.wanted = process[p].env]
           walking == [job[p] EXCEPT !.step = "walking", !.chain = <<Id(p)>>,
                         !.parents = [q \in Pid |-> process[q].parent]]
<1>3. \/ job' = [job EXCEPT ![p] = resolving] /\ UNCHANGED process
      \/ Ends(p)
      \/ \E step \in {"resolving", "writing", "checking"} : Goes(p, step) /\ UNCHANGED process
      \/ job' = [job EXCEPT ![p] = walking] /\ UNCHANGED process
  BY DEF Snapshot
<1>4. CASE job' = [job EXCEPT ![p] = resolving] /\ UNCHANGED process
  <2>1. /\ resolving \in Job /\ resolving.command = job[p].command /\ resolving.step = "resolving"
        /\ resolving.paths = job[p].paths
    BY <1>2 DEF Job, JobStep
  <2> HIDE DEF resolving
  <2> QED
    BY <1>1, <1>4, <2>1, StepsTo
<1>5. CASE Ends(p)
  BY <1>1, <1>5, EndsUnchanged
<1>6. CASE \E step \in {"resolving", "writing", "checking"} : Goes(p, step) /\ UNCHANGED process
  BY <1>1, <1>6, GoesTo DEF JobStep
<1>7. CASE job' = [job EXCEPT ![p] = walking] /\ UNCHANGED process
  <2>1. <<Id(p)>> \in Seq(Identity) /\ [q \in Pid |-> process[q].parent] \in [Pid -> Pid \cup {None}]
    BY <1>1, IdTyped, ProcessTyped
  <2>2. /\ walking \in Job /\ walking.command = job[p].command /\ walking.step = "walking"
        /\ walking.paths = job[p].paths /\ walking.chain = <<Id(p)>>
        /\ walking.parents = [q \in Pid |-> process[q].parent]
    BY <1>2, <2>1 DEF Job, JobStep
  <2> HIDE DEF walking
  <2>3. WalkFits(process, p, walking)
    BY <1>2, <2>2, WalkStarts
  <2>4. JobIn(process, p, walking)
    BY <1>2, <2>2, <2>3 DEF JobIn
  <2> QED
    BY <1>1, <1>7, <2>2, <2>4, CommandGoes
<1> QED
  BY <1>3, <1>4, <1>5, <1>6, <1>7

\* The next ancestor opened is the next of the line, and so is whoever may follow it.
LEMMA WalkGoesOn ==
    ASSUME SelectionIInv, NEW p \in Pid, NEW j \in Job, WalkFits(process, p, j),
           NEW q, q = j.parents[j.chain[Len(j.chain)][1]],
           q # None, Alive(q), process[q].created < j.chain[Len(j.chain)][2],
           NEW new, new.chain = Append(j.chain, Id(q)), new.parents = j.parents
    PROVE  /\ q \in Pid /\ Id(q) \in Identity /\ WalkFits(process, p, new)
           /\ Ancestor(process, p, Id(q))
<1> DEFINE k == Len(j.chain)
           child == j.chain[k]
           line == process[p].line
           above == process[q].line
<1>1. /\ SelectionTypes /\ LineFits(p) /\ j.chain \in Seq(Identity)
      /\ j.parents \in [Pid -> Pid \cup {None}]
  BY DEF SelectionIInv, Job
<1>2. /\ k \in Nat \ {0} /\ child[2] <= process[p].created /\ NextFits(process, p, j, k)
      /\ \A r \in Pid : process[r] # Gone /\ process[r].created < process[p].created =>
           j.parents[r] = process[r].parent
      /\ q = j.parents[child[1]] /\ process[q].created < child[2] /\ process[q] # Gone
  BY <1>1, LenProperties DEF WalkFits, Alive
<1>3. child \in Identity
  BY <1>1, <1>2, ElementOfSeq
<1>4. /\ q \in Pid /\ child[2] \in 0..MaxClock
  BY <1>1, <1>2, <1>3 DEF Identity
<1>5. /\ Id(q) \in Identity /\ Id(q) = <<q, process[q].created>> /\ process[q].created \in 0..MaxClock
      /\ process[p].created \in 0..MaxClock /\ Len(line) \in Nat /\ DOMAIN line = 1..Len(line)
      /\ Id(q)[1] = q /\ Id(q)[2] = process[q].created
  BY <1>1, <1>4, IdTyped, ProcessTyped DEF Id
<1>6. k \in DOMAIN line /\ line[k] = Id(q)
  BY <1>2, <1>5 DEF NextFits
<1>7. /\ Len(new.chain) = k + 1 /\ new.chain[k + 1] = Id(q)
  <2> HIDE DEF child, line, above
  <2>1. ASSUME NEW e \in Identity
        PROVE  Len(Append(j.chain, e)) = k + 1 /\ Append(j.chain, e)[k + 1] = e
    BY <1>1, Appended
  <2> QED
    BY <1>5, <2>1
<1>8. process[q].created < process[p].created
  <2> HIDE DEF k, child, line, above
  <2> QED
    BY <1>2, <1>4, <1>5
<1>9. /\ AncestorFits(process, clock, p, k) /\ LivesIn(process, line[k])
      /\ LineFits(q) /\ line[k][1] = q
  <2>1. LivesIn(process, Id(q))
    BY <1>2, <1>5 DEF LivesIn
  <2>2. LineFits(q)
    BY <1>4 DEF SelectionIInv
  <2> QED
    BY <1>1, <1>5, <1>6, <2>1, <2>2 DEF LineFits
<1>10. /\ Len(line) = k + Len(above)
       /\ \A m \in 1..Len(above) : above[m] = line[k + m]
  BY <1>9 DEF AncestorFits
<1>11. /\ process[q].parent \in Pid \cup {None} /\ Len(above) \in Nat
       /\ DOMAIN above = 1..Len(above)
       /\ \A m \in DOMAIN above : above[m] \in Identity
       /\ ParentFits(process, q)
  BY <1>1, <1>4, <1>9, ProcessTyped DEF LineFits
<1>12. NextFits(process, p, new, k + 1)
  <2> DEFINE r == process[q].parent
  <2>1. j.parents[q] = r
    BY <1>2, <1>4, <1>8
  <2>2. new.parents[new.chain[k + 1][1]] = r /\ new.chain[k + 1][2] = process[q].created
    BY <1>5, <1>7, <2>1
  <2>3. ASSUME r # None, process[r] # Gone, process[r].created < process[q].created
        PROVE  k + 1 \in DOMAIN line /\ line[k + 1] = <<r, process[r].created>>
    <3>1. process[r].created \in 0..MaxClock
      BY <1>1, <1>11, <2>3, ProcessTyped
    <3>2. /\ above # <<>> /\ above[1][1] = r
          /\ LivesIn(process, above[1]) \/ process[q].created <= process[r].created
      BY <1>11, <2>3 DEF ParentFits
    <3> HIDE DEF k, child, line, above, r
    <3>3. LivesIn(process, above[1])
      BY <1>5, <2>3, <3>1, <3>2
    <3>4. Len(above) # 0
      <4>1. above \in Seq(Identity)
        BY <1>1, <1>4, ProcessTyped DEF above
      <4> QED
        BY <3>2, <4>1, EmptySeq
    <3>5. 1 \in 1..Len(above)
      BY <1>11, <3>4
    <3>6. above[1] \in Identity
      BY <1>11, <3>5
    <3>7. above[1] = <<above[1][1], above[1][2]>>
      BY <3>6 DEF Identity
    <3>8. above[1] = <<r, process[r].created>>
      BY <3>2, <3>3, <3>7 DEF LivesIn
    <3>9. k + 1 \in 1..Len(line)
      BY <1>2, <1>5, <1>10, <1>11, <3>4
    <3> QED
      BY <1>5, <1>10, <3>5, <3>8, <3>9
  <2> QED
    BY <2>2, <2>3 DEF NextFits
<1>13. k + 1 # 0 /\ (k + 1) - 1 = k /\ process[q].created <= process[p].created
  <2> HIDE DEF k, child, line, above
  <2> QED
    BY <1>2, <1>5, <1>8
<1>14. WalkFits(process, p, new)
  <2>1. \A r \in Pid : process[r] # Gone /\ process[r].created < process[p].created =>
          new.parents[r] = process[r].parent
    BY <1>2
  <2> HIDE DEF k, child, above
  <2> QED
    BY <1>5, <1>6, <1>7, <1>12, <1>13, <2>1 DEF WalkFits
<1> QED
  BY <1>4, <1>5, <1>6, <1>14 DEF Ancestor

LEMMA WalkKeeps ==
    ASSUME SelectionIInv, NEW p \in Pid, Walk(p)
    PROVE  SelectionIInv'
<1> DEFINE j == job[p]
           k == Len(j.chain)
           q == j.parents[j.chain[k][1]]
           chain == Append(j.chain, Id(q))
           found == [id |-> Id(q), count |-> Len(chain)]
           paths == IF process[q].image = "shell" THEN Append(j.paths, found) ELSE j.paths
           step == IF Len(paths) >= Limit(j) THEN "validating" ELSE "walking"
           new == [j EXCEPT !.chain = chain, !.paths = paths, !.step = step]
<1>1. /\ j.step = "walking" /\ SelectionTypes
      /\ UNCHANGED <<process, clock, session, local, global, runtimes>> /\ Budget
  BY DEF Walk, Keeps, SelectionIInv, tables, budget, saved, Budget
<1>2. /\ j \in Job /\ JobIn(process, p, j)
  BY <1>1, Busy
<1>3. \/ Goes(p, "validating")
      \/ /\ q # None /\ Alive(q) /\ process[q].created < j.chain[k][2]
         /\ job' = [job EXCEPT ![p] = new]
  BY DEF Walk, BornBefore
<1>4. CASE Goes(p, "validating")
  BY <1>1, <1>4, GoesTo DEF JobStep
<1>5. CASE /\ q # None /\ Alive(q) /\ process[q].created < j.chain[k][2]
           /\ job' = [job EXCEPT ![p] = new]
  <2>1. WalkFits(process, p, j)
    BY <1>1, <1>2 DEF JobIn
  <2>2. new.chain = chain /\ new.parents = j.parents /\ new.paths = paths
          /\ new.command = j.command /\ new.step = step
    BY <1>2 DEF Job
  <2>3. /\ q \in Pid /\ Id(q) \in Identity /\ WalkFits(process, p, new)
        /\ Ancestor(process, p, Id(q))
    <3> HIDE DEF j, new
    <3> QED
      BY <1>2, <1>5, <2>1, <2>2, WalkGoesOn
  <2>4. chain \in Seq(Identity) /\ Len(chain) \in Nat
    <3> HIDE DEF q, k
    <3>1. j.chain \in Seq(Identity)
      BY <1>2 DEF Job
    <3> QED
      BY <2>3, <3>1, Appended, LenProperties
  <2>5. found \in Candidate /\ found.id = Id(q)
    BY <2>3, <2>4 DEF Candidate
  <2>6. paths \in Seq(Candidate) /\ \A i \in DOMAIN paths : Ancestor(process, p, paths[i].id)
    <3> HIDE DEF q, k, found, chain
    <3>1. /\ j.paths \in Seq(Candidate)
          /\ \A i \in DOMAIN j.paths : Ancestor(process, p, j.paths[i].id)
      BY <1>2 DEF Job, JobIn
    <3>2. /\ Append(j.paths, found) \in Seq(Candidate)
          /\ DOMAIN Append(j.paths, found) = 1..Len(j.paths) + 1 /\ Len(j.paths) \in Nat
          /\ Append(j.paths, found)[Len(j.paths) + 1] = found
          /\ \A i \in 1..Len(j.paths) : Append(j.paths, found)[i] = j.paths[i]
          /\ DOMAIN j.paths = 1..Len(j.paths)
      BY <2>5, <3>1, Appended
    <3>3. ASSUME NEW i \in DOMAIN Append(j.paths, found)
          PROVE  Ancestor(process, p, Append(j.paths, found)[i].id)
      <4>1. i \in 1..Len(j.paths) \/ i = Len(j.paths) + 1
        BY <3>2
      <4> QED
        BY <2>3, <2>5, <3>1, <3>2, <4>1
    <3> QED
      BY <3>1, <3>2, <3>3
  <2>7. step \in {"validating", "walking"} /\ step \in JobStep
    BY DEF JobStep
  <2>8. new \in Job
    <3> HIDE DEF chain, paths, step
    <3> QED
      BY <1>2, <2>4, <2>6, <2>7 DEF Job
  <2> HIDE DEF new, chain, paths, step
  <2>9. JobIn(process, p, new)
    BY <2>2, <2>3, <2>6, <2>7 DEF JobIn
  <2>10. new.command = job[p].command
    BY <2>2
  <2> QED
    BY <1>1, <1>5, <2>8, <2>9, <2>10, CommandGoes
<1> QED
  BY <1>3, <1>4, <1>5

\* At most all candidates are kept, and the first ones are.
LEMMA TrustedFits ==
    ASSUME NEW paths \in Seq(Candidate), NEW live
    PROVE  Trusted(paths, live) \in 0..Len(paths)
<1>1. Len(paths) \in Nat /\ DOMAIN paths = 1..Len(paths)
  BY LenProperties
<1> DEFINE kept == {n \in DOMAIN paths : \A i \in 1..n : paths[i].count <= live}
<1>2. IsFiniteSet(1..Len(paths)) /\ Cardinality(1..Len(paths)) = Len(paths)
  BY <1>1, FS_Interval
<1>3. kept \subseteq 1..Len(paths)
  BY <1>1
<1> HIDE DEF kept
<1>4. IsFiniteSet(kept) /\ Cardinality(kept) <= Len(paths) /\ Cardinality(kept) \in Nat
  BY <1>2, <1>3, FS_Subset, FS_CardinalityType
<1> QED
  BY <1>1, <1>4 DEF Trusted, kept

LEMMA ValidateKeeps ==
    ASSUME SelectionIInv, NEW p \in Pid, Validate(p)
    PROVE  SelectionIInv'
<1> DEFINE j == job[p]
           paths == SubSeq(j.paths, 1, Trusted(j.paths, LiveAncestors(j.chain)))
           step == IF j.command = "run" THEN "reading" ELSE "writing"
           new == [j EXCEPT !.paths = paths, !.at = 1, !.parents = NoParents, !.chain = <<>>,
                            !.step = step]
<1>1. /\ j.step = "validating" /\ UNCHANGED <<clock, session, local, global, runtimes>> /\ Budget
      /\ Ends(p) \/ (job' = [job EXCEPT ![p] = new] /\ UNCHANGED process)
  BY DEF Validate, saved, budget, Budget
<1>2. /\ j \in Job /\ JobIn(process, p, j)
  BY <1>1, Busy
<1>3. CASE Ends(p)
  BY <1>1, <1>3, EndsUnchanged
<1>4. CASE job' = [job EXCEPT ![p] = new] /\ UNCHANGED process
  <2>1. j.paths \in Seq(Candidate)
    BY <1>2 DEF Job
  <2>2. /\ paths \in Seq(Candidate)
        /\ \A i \in DOMAIN paths : i \in DOMAIN j.paths /\ paths[i] = j.paths[i]
    <3> DEFINE n == Trusted(j.paths, LiveAncestors(j.chain))
    <3>1. n \in 0..Len(j.paths) /\ Len(j.paths) \in Nat
      BY <2>1, TrustedFits, LenProperties
    <3> HIDE DEF n
    <3>2. /\ SubSeq(j.paths, 1, n) \in Seq(Candidate)
          /\ \A i \in 1..n : SubSeq(j.paths, 1, n)[i] = j.paths[i]
          /\ DOMAIN SubSeq(j.paths, 1, n) = 1..n /\ DOMAIN j.paths = 1..Len(j.paths)
      BY <2>1, <3>1, Shortened
    <3> QED
      BY <3>1, <3>2 DEF n
  <2>3. NoParents \in [Pid -> Pid \cup {None}] /\ <<>> \in Seq(Identity)
    BY EmptySeq DEF NoParents
  <2>4. step \in {"reading", "writing"} /\ step \in JobStep
    BY DEF JobStep
  <2> HIDE DEF paths, step
  <2>5. new \in Job /\ new.command = j.command /\ new.step = step /\ new.paths = paths /\ new.at = 1
    BY <1>2, <2>2, <2>3, <2>4 DEF Job
  <2> HIDE DEF new
  <2>6. JobIn(process, p, new)
    BY <1>2, <2>2, <2>4, <2>5 DEF JobIn
  <2> QED
    BY <1>1, <1>4, <2>5, <2>6, CommandGoes
<1> QED
  BY <1>1, <1>3, <1>4

LEMMA ReadSessionKeeps ==
    ASSUME SelectionIInv, NEW p \in Pid, ReadSession(p)
    PROVE  SelectionIInv'
<1> DEFINE j == job[p]
           content == session[j.paths[j.at].id]
           further == [j EXCEPT !.at = j.at + 1]
           failed == [j EXCEPT !.step = "done", !.snapshot = {}]
           chosen == [j EXCEPT !.step = "resolving", !.wanted = content]
<1>1. /\ j.step = "reading" /\ SelectionTypes
      /\ UNCHANGED <<process, clock, session, local, global, runtimes>> /\ Budget
  BY DEF ReadSession, Keeps, SelectionIInv, tables, budget, saved, Budget
<1>2. j \in Job /\ JobIn(process, p, j)
  BY <1>1, Busy
<1>3. \/ Goes(p, "resolving")
      \/ job' = [job EXCEPT ![p].at = @ + 1]
      \/ job' = [job EXCEPT ![p] = [@ EXCEPT !.step = "done", !.snapshot = {}]]
      \/ ~(j.at > Len(j.paths)) /\ job' = [job EXCEPT ![p] = [@ EXCEPT !.step = "resolving", !.wanted = content]]
  BY DEF ReadSession, Fails
<1>4. job \in [Pid -> Job]
  BY <1>1 DEF SelectionTypes
<1>5. CASE Goes(p, "resolving")
  BY <1>1, <1>5, GoesTo DEF JobStep
<1>6. CASE job' = [job EXCEPT ![p].at = @ + 1]
  <2>1. job' = [job EXCEPT ![p] = further]
    BY <1>4, <1>6
  <2>2. /\ further \in Job /\ further.command = j.command /\ further.step = "reading"
        /\ further.paths = j.paths /\ further.at # 0
    BY <1>1, <1>2 DEF Job
  <2> HIDE DEF further
  <2> QED
    BY <1>1, <2>1, <2>2, StepsTo
<1>7. CASE job' = [job EXCEPT ![p] = [@ EXCEPT !.step = "done", !.snapshot = {}]]
  <2>1. job' = [job EXCEPT ![p] = failed]
    BY <1>4, <1>7
  <2>2. /\ failed \in Job /\ failed.command = j.command /\ failed.step = "done"
        /\ failed.paths = j.paths
    BY <1>1, <1>2 DEF Job, JobStep
  <2> HIDE DEF failed
  <2> QED
    BY <1>1, <2>1, <2>2, StepsTo
<1>8. CASE ~(j.at > Len(j.paths)) /\ job' = [job EXCEPT ![p] = [@ EXCEPT !.step = "resolving", !.wanted = content]]
  <2>1. job' = [job EXCEPT ![p] = chosen]
    BY <1>4, <1>8
  <2>2. j.paths \in Seq(Candidate) /\ j.at \in Nat \ {0}
    BY <1>1, <1>2 DEF Job, JobIn
  <2>3. j.paths[j.at] \in Candidate
    BY <1>8, <2>2, LenProperties, ElementOfSeq
  <2>4. content \in Content
    BY <1>1, <2>3 DEF Candidate, SelectionTypes
  <2> HIDE DEF content
  <2>5. /\ chosen \in Job /\ chosen.command = j.command /\ chosen.step = "resolving"
        /\ chosen.paths = j.paths
    BY <1>1, <1>2, <2>4 DEF Job, JobStep
  <2> HIDE DEF chosen
  <2> QED
    BY <1>1, <2>1, <2>5, StepsTo
<1> QED
  BY <1>3, <1>5, <1>6, <1>7, <1>8

LEMMA SelectIs ==
    ASSUME NEW known, NEW content, NEW registry \in SUBSET known
    PROVE  Select(content, registry) \in SUBSET known
  BY DEF Select, Candidates

LEMMA ResolveKeeps ==
    ASSUME SelectionIInv, NEW p \in Pid, Resolve(p)
    PROVE  SelectionIInv'
<1> DEFINE j == job[p]
           done == [j EXCEPT !.step = "done", !.result = Select(j.wanted, runtimes)]
           searching == [j EXCEPT !.step = "searching", !.at = 1, !.snapshot = runtimes]
<1>1. /\ j.step = "resolving" /\ SelectionTypes
      /\ UNCHANGED <<process, clock, session, local, global, runtimes>> /\ Budget
      /\ job' = [job EXCEPT ![p] = done] \/ job' = [job EXCEPT ![p] = searching]
  BY DEF Resolve, Keeps, SelectionIInv, SelectionTypes, tables, budget, saved, Budget
<1>2. j \in Job
  BY <1>1, Busy
<1>3. runtimes \in SUBSET Known /\ Select(j.wanted, runtimes) \in SUBSET Known
  BY <1>1, SelectIs DEF SelectionTypes
<1>4. /\ done \in Job /\ done.command = j.command /\ done.step = "done" /\ done.paths = j.paths
  BY <1>2, <1>3 DEF Job, JobStep
<1>7. /\ searching \in Job /\ searching.command = j.command /\ searching.step = "searching"
      /\ searching.paths = j.paths /\ searching.at # 0
  <2>1. runtimes \in SUBSET Known /\ "searching" \in JobStep /\ 1 \in Nat
    BY <1>3 DEF JobStep
  <2>2. /\ searching.command = j.command /\ searching.step = "searching"
        /\ searching.paths = j.paths /\ searching.at = 1
    BY <1>2 DEF Job
  <2>3. searching \in Job
    BY <1>2, <2>1 DEF Job
  <2> QED
    BY <2>2, <2>3
<1> HIDE DEF done, searching
<1>5. CASE job' = [job EXCEPT ![p] = done]
  BY <1>1, <1>4, <1>5, StepsTo
<1>6. CASE job' = [job EXCEPT ![p] = searching]
  BY <1>1, <1>7, <1>6, StepsTo
<1> QED
  BY <1>1, <1>5, <1>6

LEMMA SearchKeeps ==
    ASSUME SelectionIInv, NEW p \in Pid, Search(p)
    PROVE  SelectionIInv'
<1> DEFINE j == job[p]
           content == IF j.at > Len(Directories) THEN global ELSE local[Directories[j.at]]
           further == [j EXCEPT !.at = j.at + 1]
           failed == [j EXCEPT !.step = "done", !.snapshot = {}]
           done == [j EXCEPT !.step = "done", !.snapshot = {},
                             !.result = Select(content, j.snapshot)]
<1>1. /\ j.step = "searching" /\ SelectionTypes
      /\ UNCHANGED <<process, clock, session, local, global, runtimes>> /\ Budget
      /\ \/ job' = [job EXCEPT ![p] = further] \/ job' = [job EXCEPT ![p] = failed]
         \/ job' = [job EXCEPT ![p] = done]
  BY DEF Search, Fails, Keeps, SelectionIInv, SelectionTypes, tables, budget, saved, Budget
<1>2. j \in Job
  BY <1>1, Busy
<1>3. j.snapshot \in SUBSET Known
  BY <1>2 DEF Job
<1>4. Select(content, j.snapshot) \in SUBSET Known
  BY <1>3, SelectIs
<1> HIDE DEF content
<1>5. /\ done \in Job /\ done.command = j.command /\ done.step = "done" /\ done.paths = j.paths
  BY <1>2, <1>4 DEF Job, JobStep
<1>6. /\ failed \in Job /\ failed.command = j.command /\ failed.step = "done"
      /\ failed.paths = j.paths
  BY <1>2 DEF Job, JobStep
<1>7. /\ further \in Job /\ further.command = j.command /\ further.step = "searching"
      /\ further.paths = j.paths /\ further.at # 0
  BY <1>1, <1>2 DEF Job
<1> HIDE DEF done, failed, further
<1>8. CASE job' = [job EXCEPT ![p] = further]
  BY <1>1, <1>7, <1>8, StepsTo
<1>9. CASE job' = [job EXCEPT ![p] = failed]
  BY <1>1, <1>6, <1>9, StepsTo
<1>10. CASE job' = [job EXCEPT ![p] = done]
  BY <1>1, <1>5, <1>10, StepsTo
<1> QED
  BY <1>1, <1>8, <1>9, <1>10

LEMMA FinishKeeps ==
    ASSUME SelectionIInv, NEW p \in Pid, Finish(p)
    PROVE  SelectionIInv'
<1>1. /\ job[p].step # "none" /\ Ends(p) /\ Budget
      /\ UNCHANGED <<clock, session, local, global, runtimes>>
  BY DEF Finish, saved, budget, Budget
<1> QED
  BY <1>1, EndsUnchanged

LEMMA WriteSelectionKeeps ==
    ASSUME SelectionIInv, NEW p \in Pid, Write(p)
    PROVE  SelectionIInv'
<1>1. /\ job[p].step = "writing" /\ SelectionTypes /\ AllSettled
      /\ UNCHANGED <<clock, runtimes>> /\ Budget
  BY DEF Write, SelectionIInv, budget, Budget
<1>2. CASE Ends(p) /\ UNCHANGED saved
  BY <1>1, <1>2, EndsUnchanged DEF saved
<1>3. CASE ~(Ends(p) /\ UNCHANGED saved)
  <2>1. EndsWriting(p)
    BY <1>3 DEF Write
  <2>2. PICK content \in Pins(job[p]) :
          \/ global' = content /\ UNCHANGED <<session, local>>
          \/ local' = [local EXCEPT ![Directories[1]] = content] /\ UNCHANGED <<session, global>>
          \/ session' = [session EXCEPT ![job[p].paths[1].id] = content] /\ UNCHANGED <<local, global>>
    BY <1>3 DEF Write
  <2>3. content \in Content /\ Settled(content)
    BY <1>1, PinsTyped
  <2>4. /\ session' \in [Identity -> Content] /\ local' \in [Place -> Content] /\ global' \in Content
        /\ \A id \in Identity : session'[id] \in {content, session[id]}
        /\ global' \in {content, global}
    BY <1>1, <2>2, <2>3 DEF SelectionTypes
  <2>5. AllSettled'
    BY <1>1, <2>3, <2>4 DEF AllSettled
  <2> QED
    BY <1>1, <2>1, <2>4, <2>5, CommandEnds
<1> QED
  BY <1>2, <1>3

LEMMA CheckFileKeeps ==
    ASSUME SelectionIInv, NEW p \in Pid, CheckFile(p)
    PROVE  SelectionIInv'
<1>1. /\ job[p].step = "checking" /\ Budget
      /\ UNCHANGED <<clock, session, local, global, runtimes>>
      /\ Ends(p) \/ (Goes(p, "removing") /\ UNCHANGED process)
  BY DEF CheckFile, saved, budget, Budget
<1>2. CASE Ends(p)
  BY <1>1, <1>2, EndsUnchanged
<1>3. CASE Goes(p, "removing") /\ UNCHANGED process
  BY <1>1, <1>3, GoesTo DEF JobStep
<1> QED
  BY <1>1, <1>2, <1>3

LEMMA RemoveFileKeeps ==
    ASSUME SelectionIInv, NEW p \in Pid, RemoveFile(p)
    PROVE  SelectionIInv'
<1>1. /\ job[p].step = "removing" /\ SelectionTypes /\ AllSettled /\ EndsWriting(p)
      /\ UNCHANGED <<clock, session, runtimes>> /\ Budget
      /\ \/ global' = Absent /\ UNCHANGED local
         \/ local' = [local EXCEPT ![Directories[1]] = Absent] /\ UNCHANGED global
  BY DEF RemoveFile, SelectionIInv, budget, Budget
<1>2. /\ session' \in [Identity -> Content] /\ local' \in [Place -> Content] /\ global' \in Content
      /\ global' = Absent \/ global' = global
  BY <1>1, ContentTyped DEF SelectionTypes
<1>3. Settled(Absent)
  BY DEF Settled
<1>4. AllSettled'
  BY <1>1, <1>2, <1>3 DEF AllSettled
<1> QED
  BY <1>1, <1>2, <1>4, CommandEnds

-----------------------------------------------------------------------------
(* The whole *)

LEMMA StutterSelection ==
    ASSUME SelectionIInv, UNCHANGED <<runtimes, selectionVars>>
    PROVE  SelectionIInv'
<1>1. UNCHANGED <<runtimes, process, clock, session, local, global, job, spawns, commands, changes, mix>>
  BY DEF selectionVars
<1>2. SelectionTypes' /\ OneOfAnId' /\ AllSettled'
  BY <1>1 DEF SelectionIInv, SelectionTypes, OneOfAnId, AllSettled
<1>3. \A p \in Pid : Agree(p)' /\ LineFits(p)' /\ JobFits(p)'
  BY <1>1 DEF SelectionIInv, Agree, LineFits, JobFits
<1> QED
  BY <1>2, <1>3 DEF SelectionIInv

LEMMA InitialSelection == Init => SelectionIInv
<1> SUFFICES ASSUME Init PROVE SelectionIInv
  OBVIOUS
<1>1. PICK q \in Pid, env \in Saved \cup {Absent}, content \in Saved \cup {Absent} :
        /\ process = [p \in Pid |-> IF p = q THEN [Gone EXCEPT !.image = "shell", !.env = env] ELSE Gone]
        /\ session = [id \in Identity |-> IF id = <<q, 0>> THEN content ELSE Absent]
  <2>1. PICK q \in Pid :
          /\ \E env \in IF mix \cap {"terminals", "settings", "commands"} = {} THEN Saved \ {Cleared} ELSE {Absent} :
               process = [p \in Pid |-> IF p = q THEN [Gone EXCEPT !.image = "shell", !.env = env] ELSE Gone]
          /\ \E content \in IF "shell" \in mix THEN Saved ELSE {Absent} :
               session = [id \in Identity |-> IF id = <<q, 0>> THEN content ELSE Absent]
    BY DEF Init
  <2>2. PICK env \in Saved \cup {Absent} :
          process = [p \in Pid |-> IF p = q THEN [Gone EXCEPT !.image = "shell", !.env = env] ELSE Gone]
    BY <2>1
  <2>3. PICK content \in Saved \cup {Absent} :
          session = [id \in Identity |-> IF id = <<q, 0>> THEN content ELSE Absent]
    BY <2>1
  <2> QED
    BY <2>2, <2>3
<1>2. PICK more \in SUBSET Later : runtimes = Initial \cup more
  BY DEF Init
<1> DEFINE shell == [Gone EXCEPT !.image = "shell", !.env = env]
<1>3. /\ shell \in Process /\ shell.image = "shell" /\ shell.created = 0 /\ shell.parent = None
      /\ shell.line = <<>>
  BY GoneTyped, ContentTyped DEF Process, Image
<1>4. process = [p \in Pid |-> IF p = q THEN shell ELSE Gone]
  BY <1>1
<1> HIDE DEF shell
<1>5. \A p \in Pid : /\ process[p] \in {shell, Gone} /\ process[p] \in Process
                     /\ process[p].created = 0 /\ process[p].line = <<>>
                     /\ process[p].parent = None /\ process[p].image \in {"shell", "gone"}
                     /\ process[p].image = "gone" => process[p] = Gone
  BY <1>3, <1>4, GoneTyped
<1>6. process \in [Pid -> Process] /\ job \in [Pid -> Job] /\ \A p \in Pid : job[p] = NoJob
  BY <1>4, <1>5, NoJobTyped DEF Init
<1>7. /\ clock = 1 /\ clock \in 0..MaxClock /\ global = Absent /\ mix \in Mixes
      /\ spawns \in 0..MaxSpawns /\ commands \in 0..MaxCommands /\ changes \in 0..MaxChanges
  BY SelectionAssumption DEF Init
<1>8. session \in [Identity -> Content] /\ global \in Content /\ local \in [Place -> Content]
  <2>1. local \in [Place -> IF "files" \in mix THEN Local ELSE {Absent}]
    BY DEF Init
  <2> QED
    BY <1>1, <1>7, <2>1, ContentTyped
<1>9. AllSettled
  <2>1. Settled(content) /\ Settled(Absent)
    BY SelectionAssumption DEF Settled
  <2> QED
    BY <1>1, <1>7, <2>1 DEF AllSettled
<1>10. runtimes \subseteq Initial \cup Later
  BY <1>2
<1>11. runtimes \subseteq Known /\ IsFiniteSet(runtimes) /\ OneOfAnId
  BY <1>10, SelectionAssumption, FS_Subset DEF Known, OneOfAnId
<1>12. SelectionTypes
  BY <1>6, <1>7, <1>8, <1>11 DEF SelectionTypes
<1>13. ASSUME NEW p \in Pid
       PROVE  Agree(p) /\ LineFits(p) /\ JobFits(p)
  <2>1. Agree(p)
    BY <1>5, <1>6, <1>7 DEF Agree
  <2>2. LineFits(p)
    <3>1. DOMAIN process[p].line = {}
      BY <1>5
    <3> QED
      BY <1>5, <3>1 DEF LineFits, ParentFits
  <2>3. JobFits(p)
    <3>1. job[p].step = "none" /\ DOMAIN job[p].paths = {}
      BY <1>6, NoJobTyped
    <3> QED
      BY <3>1 DEF JobFits, JobIn
  <2> QED
    BY <2>1, <2>2, <2>3
<1> QED
  BY <1>9, <1>11, <1>12, <1>13 DEF SelectionIInv

\* Configurations and commands' names are changed by steps that leave the registry alone.
LEMMA OthersLeaveRegistry ==
    ASSUME SettingsNext \/ CommandsNext
    PROVE  UNCHANGED runtimes
<1>1. ASSUME NEW e \in Editor, Load(e) \/ ReadConfig(e) \/ TakeRegistry(e) \/ WriteBackup(e)
                                 \/ WriteConfig(e) \/ StopEdit(e)
      PROVE  UNCHANGED runtimes
  BY <1>1 DEF Load, ReadConfig, TakeRegistry, WriteBackup, WriteConfig, StopEdit
<1>2. ASSUME NEW c \in Caller, Prepare(c) \/ Work(c) \/ Return(c) \/ Rescan(c) \/ Rehash(c)
                                 \/ Publish(c) \/ Dies(c)
      PROVE  UNCHANGED runtimes
  BY <1>2 DEF Prepare, Work, Changed, Return, Rescan, Rehash, Publish, Dies
<1>3. ASSUME NEW c \in Caller, NEW name, NEW r, Type(c, name, r)
      PROVE  UNCHANGED runtimes
  BY <1>3 DEF Type
<1>4. ASSUME NEW r \in Runtime, Copies(r)
      PROVE  UNCHANGED runtimes
  BY <1>4 DEF Copies, Changed
<1> QED
  BY <1>1, <1>2, <1>3, <1>4 DEF SettingsNext, CommandsNext

LEMMA SelectionStep == SelectionIInv /\ [Next]_vars => SelectionIInv'
<1> SUFFICES ASSUME SelectionIInv, [Next]_vars PROVE SelectionIInv'
  OBVIOUS
<1>1. ASSUME NEW q \in Pid, Spawn(q) \/ Exit(q) \/ Start(q)
      PROVE  SelectionIInv'
  BY <1>1, SpawnKeeps, ExitKeeps, StartKeeps
<1>2. ASSUME NEW p \in Pid, Step(p)
      PROVE  SelectionIInv'
  BY <1>2, SnapshotKeeps, WalkKeeps, ValidateKeeps, ReadSessionKeeps, ResolveKeeps, SearchKeeps,
     FinishKeeps, WriteSelectionKeeps, CheckFileKeeps, RemoveFileKeeps DEF Step
<1>3. ASSUME Tick \/ Register \/ Unregister \/ Breaks \/ Spoil
      PROVE  SelectionIInv'
  BY <1>3, TickKeeps, RegisterKeeps, UnregisterKeeps, BreaksKeeps, SpoilKeeps
<1>4. ASSUME (SettingsNext \/ CommandsNext) /\ UNCHANGED selectionVars
      PROVE  SelectionIInv'
  BY <1>4, OthersLeaveRegistry, StutterSelection
<1>5. CASE UNCHANGED vars
  BY <1>5, StutterSelection DEF vars
<1> QED
  BY <1>1, <1>2, <1>3, <1>4, <1>5 DEF Next

-----------------------------------------------------------------------------
(* The choice of a runtime *)

Triple(v, w) ==
    \/ v[1] < w[1]
    \/ v[1] = w[1] /\ v[2] < w[2]
    \/ v[1] = w[1] /\ v[2] = w[2] /\ v[3] < w[3]

\* Versions are compared number by number.
LEMMA OlderIs ==
    ASSUME NEW v, NEW w, \A i \in 1..3 : v[i] \in Nat /\ w[i] \in Nat
    PROVE  Older(v, w) <=> Triple(v, w)
<1>1. /\ v[1] \in Nat /\ v[2] \in Nat /\ v[3] \in Nat
      /\ w[1] \in Nat /\ w[2] \in Nat /\ w[3] \in Nat
  OBVIOUS
<1>2. 1..3 = {1, 2, 3} /\ 1..1-1 = {} /\ 1..2-1 = {1} /\ 1..3-1 = {1, 2}
  OBVIOUS
<1>3. Older(v, w) <=> \E i \in {1, 2, 3} : v[i] < w[i] /\ \A j \in 1..i-1 : v[j] = w[j]
  BY <1>2 DEF Older
<1>4. (\A j \in {1} : v[j] = w[j]) <=> v[1] = w[1]
  OBVIOUS
<1>5. (\A j \in {1, 2} : v[j] = w[j]) <=> v[1] = w[1] /\ v[2] = w[2]
  OBVIOUS
<1> QED
  BY <1>2, <1>3, <1>4, <1>5 DEF Triple

LEMMA VersionTyped ==
    ASSUME NEW r \in Known
    PROVE  \A i \in 1..3 : Version(r)[i] \in Nat
<1>1. r.id \in [1..4 -> Nat]
  BY KnownIs
<1>2. r.id \in Seq(Nat) /\ Len(r.id) = 4
  <2> DEFINE id == r.id
  <2>1. id \in [1..4 -> Nat]
    BY <1>1
  <2> HIDE DEF id
  <2>2. id \in Seq(Nat)
    BY <2>1, SeqDef
  <2>3. Len(id) \in Nat /\ 1..Len(id) = 1..4
    BY <2>1, <2>2, LenProperties
  <2>4. Len(id) = 4
    <3>1. 4 \in 1..Len(id)
      BY <2>3
    <3>2. Len(id) \in 1..Len(id)
      BY <2>3, <3>1
    <3>3. Len(id) \in 1..4
      BY <2>3, <3>2
    <3>4. Len(id) \in Nat
      BY <2>3
    <3>5. \A n \in Nat : 4 \in 1..n /\ n \in 1..4 => n = 4
      OBVIOUS
    <3> QED
      BY <3>1, <3>3, <3>4, <3>5
  <2> QED
    BY <2>2, <2>4 DEF id
<1>3. 3 \in 0..Len(r.id)
  BY <1>2
<1>4. SubSeq(r.id, 1, 3) \in Seq(Nat) /\ DOMAIN SubSeq(r.id, 1, 3) = 1..3
  BY <1>2, <1>3, Shortened
<1> QED
  BY <1>4, ElementOfSeq, LenProperties DEF Version

\* The newest patch of a short version, if it is the only one, is newer than all others:
\* no order needs to be followed upwards.
LEMMA SelectIsBest ==
    ASSUME runtimes \subseteq Known, IsFiniteSet(runtimes), NEW content
    PROVE  Select(content, runtimes) = Best(content)
<1> DEFINE M == {r \in runtimes : Matches(content, r)}
           C == Candidates(content, runtimes)
           V(r) == Version(r)
<1>1. /\ M \subseteq runtimes /\ C \subseteq M
      /\ content.kind # "minor" => C = M
      /\ content.kind = "minor" => C = {r \in M : \A s \in M : ~Older(V(r), V(s))}
  BY DEF Candidates
<1>2. IsFiniteSet(C)
  BY <1>1, FS_Subset
<1>3. Cardinality(C) = 1 <=> \E x : C = {x}
  BY <1>2, FS_Singleton
<1>4. Best(content) = {r \in M : r.ready /\ \A s \in M \ {r} : content.kind = "minor" /\ Older(V(s), V(r))}
  BY DEF Best
<1>5. ASSUME NEW r \in M, NEW s \in M
      PROVE  Older(V(r), V(s)) <=> Triple(V(r), V(s))
  BY <1>1, <1>5, VersionTyped, OlderIs
<1>6. \A r \in M : V(r)[1] \in Nat /\ V(r)[2] \in Nat /\ V(r)[3] \in Nat
  BY <1>1, VersionTyped
<1> HIDE DEF M, C, V
<1>7. ASSUME content.kind # "minor"
      PROVE  Select(content, runtimes) = Best(content)
  <2>1. C = M /\ Best(content) = {r \in M : r.ready /\ M \ {r} = {}}
    BY <1>1, <1>4, <1>7
  <2>2. CASE \E x : C = {x}
    <3>1. Select(content, runtimes) = {r \in C : r.ready}
      BY <1>3, <2>2 DEF Select, C
    <3> QED
      BY <2>1, <2>2, <3>1
  <2>3. CASE ~\E x : C = {x}
    <3>1. Select(content, runtimes) = {}
      BY <1>3, <2>3 DEF Select, C
    <3>2. \A r \in M : M \ {r} # {}
      <4> SUFFICES ASSUME NEW r \in M, M \ {r} = {} PROVE FALSE
        OBVIOUS
      <4>1. M = {r}
        OBVIOUS
      <4> QED
        BY <2>1, <2>3, <4>1
    <3> QED
      BY <2>1, <3>1, <3>2
  <2> QED
    BY <2>2, <2>3
<1>8. ASSUME content.kind = "minor"
      PROVE  Select(content, runtimes) = Best(content)
  <2>1. /\ C = {r \in M : \A s \in M : ~Triple(V(r), V(s))}
        /\ Best(content) = {r \in M : r.ready /\ \A s \in M \ {r} : Triple(V(s), V(r))}
    BY <1>1, <1>4, <1>5, <1>8
  <2>2. ASSUME NEW r \in M, \A s \in M \ {r} : Triple(V(s), V(r))
        PROVE  C = {r}
    <3>1. \A s \in M \ {r} : ~Triple(V(r), V(s))
      BY <1>6, <2>2 DEF Triple
    <3>2. ~Triple(V(r), V(r))
      BY <1>6 DEF Triple
    <3> QED
      BY <2>1, <2>2, <3>1, <3>2
  <2>3. ASSUME NEW r, C = {r}
        PROVE  r \in M /\ \A s \in M \ {r} : Triple(V(s), V(r))
    <3>1. r \in M /\ \A s \in M : ~Triple(V(r), V(s))
      BY <2>1, <2>3
    <3>2. ASSUME NEW s \in M \ {r}, ~Triple(V(s), V(r))
          PROVE  FALSE
      <4>1. V(s)[1] = V(r)[1] /\ V(s)[2] = V(r)[2] /\ V(s)[3] = V(r)[3]
        <5>1. ~Triple(V(r), V(s)) /\ ~Triple(V(s), V(r))
          BY <3>1, <3>2
        <5> QED
          BY <1>6, <3>1, <3>2, <5>1 DEF Triple
      <4>2. \A t \in M : ~Triple(V(s), V(t))
        BY <3>1, <4>1 DEF Triple
      <4>3. s \in C
        BY <2>1, <4>2
      <4> QED
        BY <2>3, <3>2, <4>3
    <3> QED
      BY <3>1, <3>2
  <2>4. CASE \E x : C = {x}
    <3>1. PICK x : C = {x}
      BY <2>4
    <3>2. Select(content, runtimes) = {r \in C : r.ready}
      BY <1>3, <2>4 DEF Select, C
    <3>3. x \in M /\ \A s \in M \ {x} : Triple(V(s), V(x))
      BY <2>3, <3>1
    <3>4. \A r \in M : (\A s \in M \ {r} : Triple(V(s), V(r))) => r = x
      BY <2>2, <3>1
    <3> QED
      BY <2>1, <3>1, <3>2, <3>3, <3>4
  <2>5. CASE ~\E x : C = {x}
    <3>1. Select(content, runtimes) = {}
      BY <1>3, <2>5 DEF Select, C
    <3> QED
      BY <2>1, <2>2, <2>5, <3>1
  <2> QED
    BY <2>4, <2>5
<1> QED
  BY <1>7, <1>8

-----------------------------------------------------------------------------
(* What a step leaves of a process's view of its terminals *)

\* The process and its living ancestors are as they were.
ViewKept(p) ==
    /\ process'[p] = process[p]
    /\ \A n \in DOMAIN process[p].line :
         /\ LivesIn(process', process[p].line[n]) <=> LivesIn(process, process[p].line[n])
         /\ LivesIn(process, process[p].line[n]) =>
              process'[process[p].line[n][1]] = process[process[p].line[n][1]]

\* No process but PyRudder's ends.
Gentle ==
    \/ process' = process
    \/ \E x, q \in Pid, image \in Image : Born(x, q, image)
    \/ \E x \in Pid : process[x].image = "pyrudder" /\ process' = [process EXCEPT ![x] = Gone]

\* Nobody's ancestor is PyRudder's, and no number and creation time comes back.
LEMMA ViewStays ==
    ASSUME SelectionIInv, Gentle, NEW p \in Pid, process'[p] = process[p]
    PROVE  ViewKept(p)
<1>0. SelectionTypes /\ LineFits(p)
  BY DEF SelectionIInv
<1> SUFFICES ASSUME NEW n \in DOMAIN process[p].line
             PROVE  LET id == process[p].line[n]
                    IN  /\ LivesIn(process', id) <=> LivesIn(process, id)
                        /\ LivesIn(process, id) => process'[id[1]] = process[id[1]]
  BY DEF ViewKept
<1> DEFINE id == process[p].line[n]
<1>1. /\ id[1] \in Pid /\ id[2] \in 0..MaxClock /\ clock \in 0..MaxClock
      /\ LivesIn(process, id) => process[id[1]].image # "pyrudder"
      /\ ~LivesIn(process, id) => id[2] < clock
  <2>1. AncestorFits(process, clock, p, n)
    BY <1>0 DEF LineFits
  <2> QED
    BY <1>0, <2>1, ProcessTyped DEF AncestorFits, SelectionTypes
<1> HIDE DEF id
<1>2. CASE process' = process
  BY <1>2 DEF id
<1>3. ASSUME NEW x \in Pid, NEW q \in Pid, NEW image \in Image, Born(x, q, image)
      PROVE  /\ LivesIn(process', id) <=> LivesIn(process, id)
             /\ LivesIn(process, id) => process'[id[1]] = process[id[1]]
  <2>1. /\ process[x] = Gone /\ process'[x] = Child(q, image) /\ Child(q, image).created = clock
        /\ \A r \in Pid \ {x} : process'[r] = process[r]
    BY <1>0, <1>3, ChildTyped DEF Born, Alive, SelectionTypes
  <2>2. CASE id[1] = x
    <3>1. ~LivesIn(process, id)
      BY <2>1, <2>2 DEF LivesIn
    <3>2. id[2] # clock
      BY <1>1, <3>1
    <3> QED
      BY <2>1, <2>2, <3>1, <3>2 DEF LivesIn
  <2>3. CASE id[1] # x
    BY <1>1, <2>1, <2>3 DEF LivesIn
  <2> QED
    BY <2>2, <2>3
<1>4. ASSUME NEW x \in Pid, process[x].image = "pyrudder", process' = [process EXCEPT ![x] = Gone]
      PROVE  /\ LivesIn(process', id) <=> LivesIn(process, id)
             /\ LivesIn(process, id) => process'[id[1]] = process[id[1]]
  <2>1. process'[x] = Gone /\ \A r \in Pid \ {x} : process'[r] = process[r]
    BY <1>0, <1>4 DEF SelectionTypes
  <2>2. id[1] = x => ~LivesIn(process, id) /\ ~LivesIn(process', id)
    BY <1>1, <1>4, <2>1 DEF LivesIn
  <2> QED
    BY <1>1, <2>1, <2>2 DEF LivesIn
<1> QED
  BY <1>2, <1>3, <1>4 DEF Gentle, id

\* The trusted ancestors are the same.
LEMMA ReachesStays ==
    ASSUME SelectionTypes, NEW p \in Pid, ViewKept(p)
    PROVE  \A n \in 0..Len(process[p].line) : Reaches(p, n)' <=> Reaches(p, n)
<1> DEFINE line == process[p].line
           Passes(i) == /\ LivesIn(process, line[i]) /\ process[line[i][1]].image # "guarded"
                        /\ line[i][2] < IF i = 1 THEN process[p].created ELSE line[i - 1][2]
           PassesNow(i) == /\ LivesIn(process', line[i]) /\ process'[line[i][1]].image # "guarded"
                           /\ line[i][2] < IF i = 1 THEN process[p].created ELSE line[i - 1][2]
<1>1. process'[p] = process[p] /\ DOMAIN line = 1..Len(line) /\ Len(line) \in Nat
  BY ProcessTyped DEF ViewKept
<1>2. \A n : (Reaches(p, n) <=> \A i \in 1..n : Passes(i))
  BY DEF Reaches, Lives, Alive, LivesIn
<1>3. \A n : (Reaches(p, n)' <=> \A i \in 1..n : PassesNow(i))
  BY <1>1 DEF Reaches, Lives, Alive, LivesIn
<1>4. \A i \in DOMAIN line : PassesNow(i) <=> Passes(i)
  BY DEF ViewKept
<1>5. \A n \in 0..Len(line) : 1..n \subseteq DOMAIN line
  <2> HIDE DEF line
  <2> QED
    BY <1>1
<1> HIDE DEF line, Passes, PassesNow
<1> QED
  BY <1>2, <1>3, <1>4, <1>5 DEF line

\* So are the terminals among them.
LEMMA ListedStays ==
    ASSUME SelectionTypes, NEW p \in Pid, ViewKept(p),
           NEW n \in 0..Len(process[p].line), Reaches(p, n)
    PROVE  \A paths : Listed(p, paths, n)' <=> Listed(p, paths, n)
<1> DEFINE line == process[p].line
<1>1. process'[p] = process[p] /\ DOMAIN line = 1..Len(line) /\ Len(line) \in Nat
  BY ProcessTyped DEF ViewKept
<1>2. \A m \in 1..n : process'[line[m][1]] = process[line[m][1]]
  <2>1. \A m \in 1..n : LivesIn(process, line[m])
    BY DEF Reaches, Lives, Alive, LivesIn
  <2>2. 1..n \subseteq DOMAIN line
    <3> HIDE DEF line
    <3> QED
      BY <1>1 DEF line
  <2> QED
    BY <2>1, <2>2 DEF ViewKept
<1> QED
  BY <1>1, <1>2 DEF Listed

\* So is what they choose.
LEMMA ChoiceStays ==
    ASSUME SelectionTypes, NEW p \in Pid, ViewKept(p), session' = session
    PROVE  TerminalChoice(p)' = TerminalChoice(p)
<1> DEFINE line == process[p].line
           choosing == {n \in DOMAIN line : /\ Reaches(p, n) /\ process[line[n][1]].image = "shell"
                                            /\ session[line[n]] # Absent}
           choosingNow == {n \in DOMAIN line : /\ Reaches(p, n)' /\ process'[line[n][1]].image = "shell"
                                               /\ session[line[n]] # Absent}
           Choice(set) == IF process[p].env # Absent THEN process[p].env
                          ELSE IF set = {} THEN Absent
                          ELSE session[line[CHOOSE n \in set : \A m \in set : n <= m]]
<1>1. process'[p] = process[p] /\ DOMAIN line = 1..Len(line) /\ Len(line) \in Nat
  BY ProcessTyped DEF ViewKept
<1>2. ASSUME NEW n \in DOMAIN line
      PROVE  /\ Reaches(p, n)' <=> Reaches(p, n)
             /\ Reaches(p, n) => process'[line[n][1]] = process[line[n][1]]
  <2>1. n \in 0..Len(line) /\ n \in 1..n
    <3> HIDE DEF line
    <3> QED
      BY <1>1, <1>2
  <2>2. Reaches(p, n)' <=> Reaches(p, n)
    BY <2>1, ReachesStays
  <2>3. Reaches(p, n) => LivesIn(process, line[n])
    BY <2>1 DEF Reaches, Lives, Alive, LivesIn
  <2> QED
    BY <2>2, <2>3 DEF ViewKept
<1>3. choosingNow = choosing
  BY <1>2
<1>4. TerminalChoice(p) = Choice(choosing)
  BY DEF TerminalChoice
<1>5. TerminalChoice(p)' = Choice(choosingNow)
  BY <1>1 DEF TerminalChoice
<1> HIDE DEF choosing, choosingNow, Choice
<1> QED
  BY <1>3, <1>4, <1>5

LEMMA FilesStay ==
    ASSUME UNCHANGED <<local, global, runtimes>>
    PROVE  FileChoice' = FileChoice /\ \A content : Best(content)' = Best(content)
  BY DEF FileChoice, Best

\* What a command knows stays so.
LEMMA QuietStays ==
    ASSUME SelectionTypes, NEW p \in Pid, ViewKept(p), UNCHANGED <<session, local, global, runtimes>>
    PROVE  \A j \in Job : Quiet(p, j) => Quiet(p, j)'
<1> SUFFICES ASSUME NEW j \in Job, Quiet(p, j)
             PROVE  Quiet(p, j)'
  OBVIOUS
<1> DEFINE k == Len(j.chain)
<1>1. /\ process'[p] = process[p] /\ Len(process[p].line) \in Nat
      /\ DOMAIN process[p].line = 1..Len(process[p].line)
  BY ProcessTyped DEF ViewKept
<1>2. TerminalChoice(p)' = TerminalChoice(p) /\ FileChoice' = FileChoice
  BY ChoiceStays, FilesStay
<1>3. Aim(p)' = Aim(p)
  BY <1>2 DEF Aim
<1>4. Best(Aim(p))' = Best(Aim(p))
  BY <1>3, FilesStay
<1>5. ASSUME Followed(p, j)
      PROVE  /\ Followed(p, j)' /\ k - 1 \in 0..Len(process[p].line) /\ Reaches(p, k - 1)
             /\ \A paths : Listed(p, paths, k - 1)' <=> Listed(p, paths, k - 1)
  <2>1. k # 0 /\ k - 1 <= Len(process[p].line) /\ Reaches(p, k - 1) /\ k \in Nat
    BY <1>5, LenProperties DEF Followed, Job
  <2>2. k - 1 \in 0..Len(process[p].line)
    <3> HIDE DEF k
    <3> QED
      BY <1>1, <2>1
  <2>3. Reaches(p, k - 1)' /\ \A paths : Listed(p, paths, k - 1)' <=> Listed(p, paths, k - 1)
    <3> HIDE DEF k
    <3> QED
      BY <2>1, <2>2, ReachesStays, ListedStays
  <2> QED
    BY <1>1, <1>5, <2>1, <2>2, <2>3 DEF Followed, Id
<1>6. ASSUME NEW n
      PROVE  Blocked(p, n) => Blocked(p, n)'
  <2>1. \A m \in DOMAIN process[p].line : Reaches(p, m)' <=> Reaches(p, m)
    BY <1>1, ReachesStays
  <2> QED
    BY <1>1, <2>1 DEF Blocked
<1>7. Asking(p, j) => Asking(p, j)'
  BY <1>1, <1>6, ReachesStays, ListedStays DEF Asking
<1> HIDE DEF k
<1> QED
  BY <1>1, <1>2, <1>4, <1>5, <1>6, <1>7 DEF Quiet, k

LEMMA ExactStays ==
    ASSUME SelectionTypes, NEW p \in Pid, ViewKept(p), UNCHANGED <<session, local, global, runtimes>>
    PROVE  \A j \in Job : ExactIn(p, j) => ExactIn(p, j)'
  BY QuietStays DEF ExactIn

-----------------------------------------------------------------------------
(* Kinds of steps *)

LEMMA NoJobExact == NoJob.result = {} /\ NoJob.wanted = Absent
  BY DEF NoJob

\* A process with nothing to do knows nothing.
LEMMA IdleExact ==
    ASSUME NEW p
    PROVE  ExactIn(p, NoJob) /\ ExactIn(p, NoJob)'
  BY NoJobTyped, NoJobExact DEF ExactIn

\* A command that is disturbed need not know anything.
LEMMA DisturbedExact ==
    ASSUME SelectionTypes, NEW p \in Pid, ExactIn(p, job[p]), job'[p] = Disturbed(job)[p]
    PROVE  ExactIn(p, job[p])'
<1>1. job[p] \in Job
  BY DEF SelectionTypes
<1>2. CASE job[p] = NoJob
  <2>1. job'[p] = NoJob
    BY <1>2 DEF Disturbed
  <2> QED
    BY <2>1, IdleExact
<1>3. CASE job[p] # NoJob
  <2>1. job'[p] = [job[p] EXCEPT !.quiet = FALSE]
    BY <1>3 DEF Disturbed
  <2>2. /\ job'[p].step = job[p].step /\ job'[p].command = job[p].command
        /\ job'[p].result = job[p].result /\ job'[p].wanted = job[p].wanted
        /\ job'[p].paths = job[p].paths /\ job'[p].quiet = FALSE
    BY <1>1, <2>1 DEF Job
  <2> QED
    BY <2>2 DEF ExactIn
<1> QED
  BY <1>2, <1>3

\* A step that ends a command, or disturbs it.
LEMMA ExactDisturbed ==
    ASSUME SelectionTypes, ExactIInv,
           \A q \in Pid : process'[q] = process[q] \/ process'[q] = Gone,
           \A q \in Pid : job'[q] = NoJob \/ job'[q] = Disturbed(job)[q]
    PROVE  ExactIInv'
<1> SUFFICES ASSUME NEW q \in Pid
             PROVE  process'[q].env # Cleared /\ ExactIn(q, job[q])'
  BY DEF ExactIInv
<1>1. process'[q].env # Cleared
  BY DEF ExactIInv, Gone, Absent, Cleared
<1>2. ExactIn(q, job[q])'
  BY IdleExact, DisturbedExact DEF ExactIInv
<1> QED
  BY <1>1, <1>2

\* A step of one command, or of none.
LEMMA ExactMoves ==
    ASSUME SelectionIInv, ExactIInv, Gentle, UNCHANGED <<session, local, global, runtimes>>,
           \A q \in Pid : process'[q].env # Cleared,
           \A q \in Pid : \/ job'[q] = NoJob
                          \/ job'[q] \in Job /\ process'[q] = process[q] /\ ExactIn(q, job'[q])
                          \/ job'[q].step = "start" /\ ExactIn(q, job'[q])
    PROVE  ExactIInv'
<1>0. SelectionTypes
  BY DEF SelectionIInv
<1> SUFFICES ASSUME NEW q \in Pid
             PROVE  ExactIn(q, job[q])'
  BY DEF ExactIInv
<1>1. CASE job'[q] = NoJob
  BY <1>1, IdleExact
<1>2. CASE job'[q] \in Job /\ process'[q] = process[q] /\ ExactIn(q, job'[q])
  <2>1. ViewKept(q)
    BY <1>2, ViewStays
  <2> QED
    BY <1>0, <1>2, <2>1, ExactStays
<1>3. CASE job'[q].step = "start" /\ ExactIn(q, job'[q])
  BY <1>3 DEF ExactIn, Quiet
<1> QED
  BY <1>1, <1>2, <1>3

LEMMA CommandKnows ==
    ASSUME SelectionIInv, ExactIInv, NEW p \in Pid, NEW new \in Job, job' = [job EXCEPT ![p] = new],
           ExactIn(p, new), UNCHANGED <<process, session, local, global, runtimes>>
    PROVE  ExactIInv'
<1>1. SelectionTypes
  BY DEF SelectionIInv
<1>2. job'[p] = new /\ \A q \in Pid \ {p} : job'[q] = job[q] /\ job[q] \in Job
  BY <1>1, OneJob DEF SelectionTypes
<1>3. Gentle /\ \A q \in Pid : process'[q].env # Cleared
  BY DEF Gentle, ExactIInv
<1>4. ASSUME NEW q \in Pid
      PROVE  job'[q] \in Job /\ process'[q] = process[q] /\ ExactIn(q, job'[q])
  <2>1. CASE q = p
    BY <1>2, <2>1
  <2>2. CASE q # p
    <3>1. ExactIn(q, job[q])
      BY DEF ExactIInv
    <3> QED
      BY <1>2, <2>2, <3>1
  <2> QED
    BY <2>1, <2>2
<1> QED
  BY <1>3, <1>4, ExactMoves

LEMMA CommandLeaves ==
    ASSUME SelectionIInv, ExactIInv, NEW p \in Pid, job[p].step # "none", Ends(p),
           UNCHANGED <<session, local, global, runtimes>>
    PROVE  ExactIInv'
<1>1. SelectionTypes
  BY DEF SelectionIInv
<1>2. /\ process' = [process EXCEPT ![p] = Gone] /\ process'[p] = Gone /\ job'[p] = NoJob
      /\ \A q \in Pid \ {p} : process'[q] = process[q] /\ job'[q] = job[q] /\ job[q] \in Job
  BY <1>1 DEF Ends, SelectionTypes
<1>3. Gentle
  BY <1>2, Busy DEF Gentle
<1>4. \A q \in Pid : process'[q].env # Cleared
  BY <1>2 DEF ExactIInv, Gone, Absent, Cleared
<1>5. ASSUME NEW q \in Pid \ {p}
      PROVE  job'[q] \in Job /\ process'[q] = process[q] /\ ExactIn(q, job'[q])
  <2>1. ExactIn(q, job[q])
    BY DEF ExactIInv
  <2> QED
    BY <1>2, <2>1
<1> QED
  BY <1>2, <1>3, <1>4, <1>5, ExactMoves

\* Files and the registry change under a lock, or without one, and who is about is told.
LEMMA ExactElsewhere ==
    ASSUME SelectionIInv, ExactIInv,
           \/ \E q \in Pid : Exit(q)
           \/ Register \/ Unregister \/ Breaks \/ Spoil
    PROVE  ExactIInv'
<1>1. SelectionTypes
  BY DEF SelectionIInv
<1>2. job' = Disturbed(job)
  BY DEF Exit, Register, Unregister, Breaks, Spoil, Changes
<1>3. \A q \in Pid : process'[q] = process[q] \/ process'[q] = Gone
  BY <1>1 DEF Exit, Register, Unregister, Breaks, Spoil, Changes, SelectionTypes
<1> QED
  BY <1>1, <1>2, <1>3, ExactDisturbed

LEMMA ExactWritten ==
    ASSUME SelectionIInv, ExactIInv, NEW p \in Pid, Write(p) \/ RemoveFile(p)
    PROVE  ExactIInv'
<1>1. SelectionTypes
  BY DEF SelectionIInv
<1>2. CASE Write(p) /\ Ends(p) /\ UNCHANGED saved
  BY <1>2, CommandLeaves DEF Write, saved
<1>3. CASE EndsWriting(p)
  <2>1. /\ \A q \in Pid : process'[q] = process[q] \/ process'[q] = Gone
        /\ \A q \in Pid : job'[q] = NoJob \/ job'[q] = Disturbed(job)[q]
    BY <1>1, <1>3, DisturbedTyped DEF EndsWriting, SelectionTypes
  <2> QED
    BY <1>1, <2>1, ExactDisturbed
<1> QED
  BY <1>2, <1>3 DEF Write, RemoveFile

LEMMA ExactSpawned ==
    ASSUME SelectionIInv, ExactIInv, NEW q \in Pid, Spawn(q)
    PROVE  ExactIInv'
<1>1. SelectionTypes /\ \A p \in Pid : Agree(p)
  BY DEF SelectionIInv
<1>2. PICK x \in Free, image \in Image \ {"pyrudder"} :
        process' = [process EXCEPT ![x] = Child(q, image)]
  BY DEF Spawn
<1>3. /\ x \in Pid /\ ~Alive(x) /\ Born(x, q, image) /\ job' = job
      /\ UNCHANGED <<session, local, global, runtimes>>
  BY <1>2 DEF Free, Spawn, Image, Born, saved
<1>4. Gentle
  BY <1>3 DEF Gentle
<1>5. /\ process'[x] = Child(q, image) /\ Child(q, image).env = process[q].env
      /\ \A p \in Pid \ {x} : process'[p] = process[p]
  BY <1>1, <1>2, <1>3, ChildTyped DEF SelectionTypes
<1>6. \A p \in Pid : process'[p].env # Cleared
  BY <1>5 DEF ExactIInv
<1>7. job[x] = NoJob
  BY <1>1, <1>3, GoneTyped DEF Agree, Alive
<1>8. ASSUME NEW p \in Pid \ {x}
      PROVE  job'[p] \in Job /\ process'[p] = process[p] /\ ExactIn(p, job'[p])
  <2>1. ExactIn(p, job[p]) /\ job[p] \in Job
    BY <1>1 DEF ExactIInv, SelectionTypes
  <2> QED
    BY <1>3, <1>5, <2>1
<1> QED
  BY <1>3, <1>4, <1>6, <1>7, <1>8, ExactMoves

LEMMA ExactStarted ==
    ASSUME SelectionIInv, ExactIInv, NEW q \in Pid, Start(q)
    PROVE  ExactIInv'
<1>1. SelectionTypes
  BY DEF SelectionIInv
<1>2. PICK x \in Free, command \in Command \ {"none"} :
        /\ process' = [process EXCEPT ![x] = Child(q, "pyrudder")]
        /\ job' = [job EXCEPT ![x] = [NoJob EXCEPT !.command = command, !.step = "start"]]
  BY DEF Start, Command
<1> DEFINE new == [NoJob EXCEPT !.command = command, !.step = "start"]
<1>3. /\ new.step = "start" /\ new.paths = <<>> /\ new.result = {} /\ new.wanted = Absent
  BY DEF NoJob
<1>4. job' = [job EXCEPT ![x] = new]
  BY <1>2
<1> HIDE DEF new
<1>5. /\ x \in Pid /\ ~Alive(x) /\ Born(x, q, "pyrudder") /\ "pyrudder" \in Image
      /\ UNCHANGED <<session, local, global, runtimes>>
  BY <1>2 DEF Free, Start, Image, Born, saved
<1>6. Gentle
  BY <1>5 DEF Gentle
<1>7. /\ process'[x] = Child(q, "pyrudder") /\ Child(q, "pyrudder").env = process[q].env
      /\ \A p \in Pid \ {x} : process'[p] = process[p]
  BY <1>1, <1>2, <1>5, ChildTyped DEF SelectionTypes
<1>8. \A p \in Pid : process'[p].env # Cleared
  BY <1>7 DEF ExactIInv
<1>9. job'[x] = new /\ \A p \in Pid \ {x} : job'[p] = job[p] /\ job[p] \in Job
  BY <1>1, <1>4, <1>5 DEF SelectionTypes
<1>10. ExactIn(x, new)
  BY <1>3 DEF ExactIn, Quiet
<1>11. ASSUME NEW p \in Pid \ {x}
       PROVE  job'[p] \in Job /\ process'[p] = process[p] /\ ExactIn(p, job'[p])
  <2>1. ExactIn(p, job[p])
    BY DEF ExactIInv
  <2> QED
    BY <1>7, <1>9, <2>1
<1>12. job'[x].step = "start" /\ ExactIn(x, job'[x])
  BY <1>3, <1>9, <1>10
<1> QED
  BY <1>5, <1>6, <1>8, <1>11, <1>12, ExactMoves

LEMMA ExactStutters ==
    ASSUME SelectionIInv, ExactIInv, UNCHANGED <<process, job, session, local, global, runtimes>>
    PROVE  ExactIInv'
<1>1. \A q \in Pid : job'[q] \in Job /\ process'[q] = process[q] /\ ExactIn(q, job'[q])
  BY DEF SelectionIInv, SelectionTypes, ExactIInv
<1>2. Gentle /\ \A q \in Pid : process'[q].env # Cleared
  BY DEF Gentle, ExactIInv
<1> QED
  BY <1>1, <1>2, ExactMoves

-----------------------------------------------------------------------------
(* What the choices are *)

\* The nearest terminal that says something.
LEMMA ChoiceIs ==
    ASSUME SelectionTypes, NEW p \in Pid, process[p].env = Absent, NEW n \in DOMAIN process[p].line,
           Reaches(p, n), process[process[p].line[n][1]].image = "shell",
           session[process[p].line[n]] # Absent,
           \A m \in DOMAIN process[p].line :
             Reaches(p, m) /\ process[process[p].line[m][1]].image = "shell"
               /\ session[process[p].line[m]] # Absent => n <= m
    PROVE  TerminalChoice(p) = session[process[p].line[n]]
<1> DEFINE line == process[p].line
           choosing == {m \in DOMAIN line : /\ Reaches(p, m) /\ process[line[m][1]].image = "shell"
                                            /\ session[line[m]] # Absent}
           first == CHOOSE m \in choosing : \A l \in choosing : m <= l
<1>1. n \in choosing /\ \A m \in choosing : n <= m /\ m \in Nat
  BY ProcessTyped
<1>2. TerminalChoice(p) = IF choosing = {} THEN Absent ELSE session[line[first]]
  BY DEF TerminalChoice
<1> HIDE DEF choosing
<1>3. first \in choosing /\ \A l \in choosing : first <= l
  BY <1>1
<1>4. first = n
  BY <1>1, <1>3
<1> QED
  BY <1>1, <1>2, <1>4

\* Or none does.
LEMMA ChoiceIsNone ==
    ASSUME SelectionTypes, NEW p \in Pid, process[p].env = Absent,
           \A m \in DOMAIN process[p].line :
             Reaches(p, m) /\ process[process[p].line[m][1]].image = "shell" =>
               session[process[p].line[m]] = Absent
    PROVE  TerminalChoice(p) = Absent
  BY DEF TerminalChoice

\* The nearest project that says something, or else the user.
LEMMA FileIs ==
    ASSUME NEW n \in Nat \ {0}, n <= Len(Directories) + 1,
           \A i \in DOMAIN Directories : i < n => local[Directories[i]] = Absent,
           n <= Len(Directories) => local[Directories[n]] # Absent
    PROVE  FileChoice = IF n > Len(Directories) THEN global ELSE local[Directories[n]]
<1> DEFINE found == {i \in DOMAIN Directories : local[Directories[i]] # Absent}
           first == CHOOSE i \in found : \A k \in found : i <= k
<1>1. DOMAIN Directories = 1..Len(Directories) /\ Len(Directories) \in Nat
  BY SelectionAssumption, LenProperties
<1>2. FileChoice = IF found = {} THEN global ELSE local[Directories[first]]
  BY DEF FileChoice
<1>3. \A i \in found : i \in 1..Len(Directories) /\ n <= i
  BY <1>1
<1>4. CASE n > Len(Directories)
  <2>1. found = {}
    BY <1>1, <1>3, <1>4
  <2> QED
    BY <1>2, <1>4, <2>1
<1>5. CASE ~(n > Len(Directories))
  <2>1. n \in found
    BY <1>1, <1>5
  <2> HIDE DEF found
  <2>2. first \in found /\ \A k \in found : first <= k
    BY <1>3, <2>1
  <2> HIDE DEF first
  <2>3. first = n
    BY <1>1, <1>3, <2>1, <2>2
  <2> QED
    BY <1>2, <1>5, <2>1, <2>3
<1> QED
  BY <1>4, <1>5

\* What is no selector selects nothing.
LEMMA BestOfNothing ==
    ASSUME NEW content \in {Absent, Cleared, Corrupt}
    PROVE  Best(content) = {}
<1>1. \A r : ~Matches(content, r)
  BY DEF Matches, Absent, Cleared, Corrupt
<1> QED
  BY <1>1 DEF Best

LEMMA ContentsDiffer == Absent # Cleared /\ Cleared # Corrupt /\ Corrupt # Absent
  BY DEF Absent, Cleared, Corrupt

LEMMA ReachesLess ==
    ASSUME NEW p, NEW n \in Nat, NEW m \in 0..n, Reaches(p, n)
    PROVE  Reaches(p, m)
<1>1. 1..m \subseteq 1..n
  OBVIOUS
<1> QED
  BY <1>1 DEF Reaches

-----------------------------------------------------------------------------
(* The steps of a command *)

LEMMA ExactSnapshot ==
    ASSUME SelectionIInv, ExactIInv, NEW p \in Pid, Snapshot(p)
    PROVE  ExactIInv'
<1> DEFINE j == job[p]
           resolving == [j EXCEPT !.step = "resolving", !.wanted = process[p].env]
           onward(step) == [j EXCEPT !.step = step]
           walking == [j EXCEPT !.step = "walking", !.chain = <<Id(p)>>,
                         !.parents = [q \in Pid |-> process[q].parent]]
<1>1. /\ j.step = "start" /\ SelectionTypes /\ j \in Job /\ ExactIn(p, j) /\ process[p].env # Cleared
      /\ UNCHANGED <<session, local, global, runtimes>>
  BY DEF Snapshot, SelectionIInv, SelectionTypes, ExactIInv, saved
<1>2. process[p].env \in Content /\ j.wanted = Absent /\ j.result = {} /\ j.paths = <<>>
  BY <1>1, ProcessTyped DEF ExactIn
<1>3. \/ Ends(p)
      \/ /\ UNCHANGED process
         /\ \/ process[p].env # Absent /\ job' = [job EXCEPT ![p] = resolving] /\ j.command = "run"
            \/ process[p].env = Absent /\ NoSessions /\ Goes(p, "resolving") /\ j.command = "run"
            \/ process[p].env = Absent /\ job' = [job EXCEPT ![p] = walking]
            \/ j.command # "run" /\ Goes(p, "writing")
            \/ j.command # "run" /\ Goes(p, "checking")
  BY DEF Snapshot
<1>4. ASSUME NEW step, Goes(p, step)
      PROVE  job' = [job EXCEPT ![p] = onward(step)]
  BY <1>1, <1>4 DEF Goes, SelectionTypes
<1>5. ASSUME NEW step \in JobStep
      PROVE  /\ onward(step) \in Job /\ onward(step).command = j.command /\ onward(step).step = step
             /\ onward(step).result = j.result /\ onward(step).wanted = j.wanted
             /\ onward(step).paths = j.paths /\ onward(step).quiet = j.quiet
  BY <1>1 DEF Job
<1> HIDE DEF onward
<1>6. CASE Ends(p)
  BY <1>1, <1>6, CommandLeaves
<1>7. CASE /\ UNCHANGED process /\ process[p].env # Absent
           /\ job' = [job EXCEPT ![p] = resolving] /\ j.command = "run"
  <2>1. /\ resolving \in Job /\ resolving.command = "run" /\ resolving.step = "resolving"
        /\ resolving.result = {} /\ resolving.wanted = process[p].env
    BY <1>1, <1>2, <1>7 DEF Job, JobStep
  <2>2. TerminalChoice(p) = process[p].env
    BY <1>7 DEF TerminalChoice
  <2> HIDE DEF resolving
  <2>3. ExactIn(p, resolving)
    BY <1>1, <1>7, <2>1, <2>2 DEF ExactIn, Quiet
  <2> QED
    BY <1>1, <1>7, <2>1, <2>3, CommandKnows
<1>8. CASE /\ UNCHANGED process /\ process[p].env = Absent /\ NoSessions
           /\ Goes(p, "resolving") /\ j.command = "run"
  <2> DEFINE new == onward("resolving")
  <2>1. job' = [job EXCEPT ![p] = new]
    BY <1>4, <1>8
  <2>2. /\ new \in Job /\ new.command = "run" /\ new.step = "resolving"
        /\ new.result = {} /\ new.wanted = Absent
    BY <1>2, <1>5, <1>8 DEF JobStep
  <2>3. TerminalChoice(p) = Absent
    BY <1>1, <1>8, ProcessTyped, ChoiceIsNone DEF NoSessions
  <2> HIDE DEF new
  <2>4. ExactIn(p, new)
    BY <2>2, <2>3 DEF ExactIn, Quiet
  <2> QED
    BY <1>1, <1>8, <2>1, <2>2, <2>4, CommandKnows
<1>9. CASE UNCHANGED process /\ process[p].env = Absent /\ job' = [job EXCEPT ![p] = walking]
  <2>1. <<Id(p)>> \in Seq(Identity) /\ [q \in Pid |-> process[q].parent] \in [Pid -> Pid \cup {None}]
    BY <1>1, IdTyped, ProcessTyped
  <2>2. /\ walking \in Job /\ walking.command = j.command /\ walking.step = "walking"
        /\ walking.paths = <<>> /\ walking.chain = <<Id(p)>> /\ walking.wanted = Absent
        /\ walking.parents = [q \in Pid |-> process[q].parent] /\ walking.result = {}
    BY <1>1, <1>2, <2>1 DEF Job, JobStep
  <2> HIDE DEF walking
  <2>3. Len(walking.chain) = 1 /\ walking.chain[1] = Id(p)
    BY <2>2
  <2>4. Reaches(p, 0)
    BY DEF Reaches
  <2>5. Followed(p, walking)
    <3>1. Len(process[p].line) \in Nat
      BY <1>1, ProcessTyped
    <3> QED
      BY <2>2, <2>3, <2>4, <3>1 DEF Followed
  <2>6. Listed(p, <<>>, 0)
    BY DEF Listed
  <2>7. ExactIn(p, walking)
    BY <1>9, <2>2, <2>3, <2>5, <2>6 DEF ExactIn, Quiet
  <2> QED
    BY <1>1, <1>9, <2>2, <2>7, CommandKnows
<1>10. ASSUME UNCHANGED process, j.command # "run", NEW step \in {"writing", "checking"}, Goes(p, step)
       PROVE  ExactIInv'
  <2> DEFINE new == onward(step)
  <2>1. job' = [job EXCEPT ![p] = new]
    BY <1>4, <1>10
  <2>2. /\ new \in Job /\ new.command # "run" /\ new.step = step /\ new.result = {}
    BY <1>2, <1>5, <1>10 DEF JobStep
  <2> HIDE DEF new
  <2>3. ExactIn(p, new)
    BY <2>2 DEF ExactIn
  <2> QED
    BY <1>1, <1>10, <2>1, <2>2, <2>3, CommandKnows
<1> QED
  BY <1>3, <1>6, <1>7, <1>8, <1>9, <1>10

\* The first terminal that says something is the nearest that does.
LEMMA AskingFinds ==
    ASSUME SelectionTypes, NEW p \in Pid, NEW j \in Job, Asking(p, j), process[p].env = Absent,
           j.at # 0
    PROVE  /\ j.at > Len(j.paths) => TerminalChoice(p) = Absent
           /\ ~(j.at > Len(j.paths)) /\ session[j.paths[j.at].id] # Absent =>
                TerminalChoice(p) = session[j.paths[j.at].id]
<1> DEFINE line == process[p].line
           paths == j.paths
           at == j.at
           n == paths[at].count - 1
<1>1. PICK k \in 0..Len(line) : Reaches(p, k) /\ Listed(p, paths, k) /\ Blocked(p, k)
  BY DEF Asking
<1>2. /\ \A i \in DOMAIN paths : i < at => session[paths[i].id] = Absent
      /\ paths \in Seq(Candidate) /\ at \in Nat \ {0}
  BY DEF Asking, Job
<1>3. /\ DOMAIN paths = 1..Len(paths) /\ Len(paths) \in Nat
      /\ DOMAIN line = 1..Len(line) /\ Len(line) \in Nat
      /\ \A i \in DOMAIN paths : paths[i] \in Candidate
  BY <1>2, ProcessTyped, LenProperties, ElementOfSeq
<1> HIDE DEF line, paths, at
<1>4. \A i \in DOMAIN paths : paths[i].count \in Nat
  BY <1>3 DEF Candidate
<1>5. ASSUME NEW m \in DOMAIN line, Reaches(p, m), process[line[m][1]].image = "shell"
      PROVE  \E i \in DOMAIN paths : paths[i].count = m + 1 /\ paths[i].id = line[m]
  <2>1. m \in 1..k
    BY <1>1, <1>3, <1>5 DEF Blocked, line
  <2>2. PICK i \in DOMAIN paths : paths[i].count = m + 1
    BY <1>1, <1>5, <2>1 DEF Listed, line
  <2>3. paths[i].id = line[paths[i].count - 1]
    BY <1>1, <2>2 DEF Listed, line
  <2>4. (m + 1) - 1 = m
    BY <1>3
  <2> QED
    BY <2>2, <2>3, <2>4
<1>6. CASE at > Len(paths)
  <2>1. \A i \in DOMAIN paths : session[paths[i].id] = Absent
    BY <1>2, <1>3, <1>6
  <2>2. \A m \in DOMAIN line : Reaches(p, m) /\ process[line[m][1]].image = "shell" =>
          session[line[m]] = Absent
    BY <1>5, <2>1
  <2>3. TerminalChoice(p) = Absent
    BY <2>2, ChoiceIsNone DEF line
  <2> QED
    BY <1>6, <2>3 DEF paths, at
<1>7. CASE ~(at > Len(paths)) /\ session[paths[at].id] # Absent
  <2>1. at \in DOMAIN paths
    BY <1>2, <1>3, <1>7
  <2>2. /\ n \in 1..k /\ paths[at].id = line[n] /\ process[line[n][1]].image = "shell"
        /\ \A i, l \in DOMAIN paths : i < l => paths[i].count < paths[l].count
    BY <1>1, <2>1 DEF Listed, line
  <2>3. n \in DOMAIN line /\ n \in 0..k /\ k \in Nat
    <3> HIDE DEF n
    <3> QED
      BY <1>1, <1>3, <2>2
  <2>4. Reaches(p, n)
    BY <1>1, <2>3, ReachesLess
  <2>5. ASSUME NEW m \in DOMAIN line, Reaches(p, m), process[line[m][1]].image = "shell",
               session[line[m]] # Absent
        PROVE  n <= m
    <3>1. PICK i \in DOMAIN paths : paths[i].count = m + 1 /\ paths[i].id = line[m]
      BY <1>5, <2>5
    <3>2. ~(i < at)
      BY <1>2, <2>5, <3>1
    <3>3. i = at \/ at < i
      BY <1>2, <1>3, <3>2
    <3>4. paths[at].count <= paths[i].count
      BY <1>4, <2>1, <2>2, <3>3
    <3> QED
      BY <1>3, <1>4, <2>1, <3>1, <3>4
  <2>6. TerminalChoice(p) = session[line[n]]
    <3> HIDE DEF n
    <3> QED
      BY <1>7, <2>2, <2>3, <2>4, <2>5, ChoiceIs DEF line
  <2> QED
    BY <1>7, <2>2, <2>6 DEF paths, at
<1> QED
  BY <1>6, <1>7 DEF paths, at

LEMMA ExactReadSession ==
    ASSUME SelectionIInv, ExactIInv, NEW p \in Pid, ReadSession(p)
    PROVE  ExactIInv'
<1> DEFINE j == job[p]
           content == session[j.paths[j.at].id]
           further == [j EXCEPT !.at = j.at + 1]
           failed == [j EXCEPT !.step = "done", !.snapshot = {}]
           chosen == [j EXCEPT !.step = "resolving", !.wanted = content]
           onward == [j EXCEPT !.step = "resolving"]
<1>1. /\ j.step = "reading" /\ SelectionTypes /\ j \in Job /\ ExactIn(p, j)
      /\ UNCHANGED <<process, session, local, global, runtimes>>
  BY DEF ReadSession, Keeps, SelectionIInv, SelectionTypes, tables, saved, ExactIInv
<1>2. /\ j.command = "run" /\ j.result = {} /\ j.wanted = Absent /\ j.at # 0
      /\ j.quiet => process[p].env = Absent /\ Asking(p, j)
  <2>1. JobIn(process, p, j)
    BY <1>1, Busy
  <2> QED
    BY <1>1, <2>1 DEF ExactIn, Quiet, JobIn
<1>3. \/ j.at > Len(j.paths) /\ job' = [job EXCEPT ![p] = onward]
      \/ /\ ~(j.at > Len(j.paths))
         /\ \/ content = Absent /\ job' = [job EXCEPT ![p] = further]
            \/ content = Cleared /\ job' = [job EXCEPT ![p] = onward]
            \/ content = Corrupt /\ job' = [job EXCEPT ![p] = failed]
            \/ /\ content \notin {Absent, Cleared, Corrupt}
               /\ job' = [job EXCEPT ![p] = chosen]
  BY <1>1 DEF ReadSession, Goes, Fails, SelectionTypes
<1>4. j.quiet => /\ j.at > Len(j.paths) => TerminalChoice(p) = Absent
                 /\ ~(j.at > Len(j.paths)) /\ content # Absent => TerminalChoice(p) = content
  BY <1>1, <1>2, AskingFinds
<1>5. CASE job' = [job EXCEPT ![p] = onward] /\ (j.at > Len(j.paths) \/ content = Cleared)
  <2>1. /\ onward \in Job /\ onward.command = "run" /\ onward.step = "resolving"
        /\ onward.result = {} /\ onward.wanted = Absent /\ onward.quiet = j.quiet
    BY <1>1, <1>2 DEF Job, JobStep
  <2>2. j.quiet => TerminalChoice(p) \in {Absent, Cleared}
    BY <1>4, <1>5, ContentsDiffer
  <2> HIDE DEF onward
  <2>3. ExactIn(p, onward)
    BY <2>1, <2>2 DEF ExactIn, Quiet
  <2> QED
    BY <1>1, <1>5, <2>1, <2>3, CommandKnows
<1>6. CASE job' = [job EXCEPT ![p] = further] /\ ~(j.at > Len(j.paths)) /\ content = Absent
  <2>1. /\ further \in Job /\ further.command = "run" /\ further.step = "reading"
        /\ further.result = {} /\ further.wanted = Absent /\ further.quiet = j.quiet
        /\ further.paths = j.paths /\ further.at = j.at + 1 /\ j.at \in Nat
    BY <1>1, <1>2 DEF Job
  <2>2. j.quiet => Asking(p, further)
    <3> SUFFICES ASSUME j.quiet, NEW i \in DOMAIN j.paths, i < j.at + 1
                 PROVE  session[j.paths[i].id] = Absent
      BY <1>2, <2>1 DEF Asking
    <3>1. j.paths \in Seq(Candidate)
      BY <1>1 DEF Job
    <3>2. i \in Nat
      BY <3>1, LenProperties
    <3>3. i < j.at \/ i = j.at
      BY <2>1, <3>2
    <3> QED
      BY <1>2, <1>6, <3>3 DEF Asking
  <2> HIDE DEF further
  <2>3. ExactIn(p, further)
    BY <1>2, <2>1, <2>2 DEF ExactIn, Quiet
  <2> QED
    BY <1>1, <1>6, <2>1, <2>3, CommandKnows
<1>7. CASE job' = [job EXCEPT ![p] = failed] /\ ~(j.at > Len(j.paths)) /\ content = Corrupt
  <2>1. /\ failed \in Job /\ failed.command = "run" /\ failed.step = "done"
        /\ failed.result = {} /\ failed.quiet = j.quiet
    BY <1>1, <1>2 DEF Job, JobStep
  <2>2. j.quiet => Aim(p) = Corrupt
    BY <1>4, <1>7, ContentsDiffer DEF Aim
  <2>3. j.quiet => Best(Aim(p)) = {}
    BY <2>2, BestOfNothing
  <2> HIDE DEF failed
  <2>4. ExactIn(p, failed)
    BY <2>1, <2>3 DEF ExactIn, Quiet
  <2> QED
    BY <1>1, <1>7, <2>1, <2>4, CommandKnows
<1>8. CASE /\ job' = [job EXCEPT ![p] = chosen] /\ ~(j.at > Len(j.paths))
           /\ content \notin {Absent, Cleared, Corrupt}
  <2>1. j.paths \in Seq(Candidate) /\ j.at \in Nat \ {0}
    BY <1>1, <1>2 DEF Job
  <2>2. j.paths[j.at] \in Candidate
    BY <1>8, <2>1, LenProperties, ElementOfSeq
  <2>3. content \in Content
    BY <1>1, <2>2 DEF Candidate, SelectionTypes
  <2> HIDE DEF content
  <2>4. /\ chosen \in Job /\ chosen.command = "run" /\ chosen.step = "resolving"
        /\ chosen.result = {} /\ chosen.wanted = content /\ chosen.quiet = j.quiet
    BY <1>1, <1>2, <2>3 DEF Job, JobStep
  <2> HIDE DEF chosen
  <2>5. ExactIn(p, chosen)
    BY <1>4, <1>8, <2>4 DEF ExactIn, Quiet
  <2> QED
    BY <1>1, <1>8, <2>4, <2>5, CommandKnows
<1> QED
  BY <1>3, <1>5, <1>6, <1>7, <1>8

LEMMA ExactResolve ==
    ASSUME SelectionIInv, ExactIInv, NEW p \in Pid, Resolve(p)
    PROVE  ExactIInv'
<1> DEFINE j == job[p]
           done == [j EXCEPT !.step = "done", !.result = Select(j.wanted, runtimes)]
           searching == [j EXCEPT !.step = "searching", !.at = 1, !.snapshot = runtimes]
<1>1. /\ j.step = "resolving" /\ SelectionTypes /\ j \in Job /\ ExactIn(p, j)
      /\ UNCHANGED <<process, session, local, global, runtimes>>
      /\ runtimes \in SUBSET Known /\ IsFiniteSet(runtimes)
  BY DEF Resolve, Keeps, SelectionIInv, SelectionTypes, tables, saved, ExactIInv
<1>2. \/ j.wanted # Absent /\ job' = [job EXCEPT ![p] = done]
      \/ j.wanted = Absent /\ job' = [job EXCEPT ![p] = searching]
  BY <1>1 DEF Resolve, SelectionTypes
<1>3. /\ j.command = "run" /\ j.result = {}
      /\ j.quiet => IF j.wanted = Absent THEN TerminalChoice(p) \in {Absent, Cleared}
                    ELSE j.wanted = TerminalChoice(p) /\ j.wanted # Cleared
  BY <1>1 DEF ExactIn, Quiet
<1>4. CASE j.wanted # Absent /\ job' = [job EXCEPT ![p] = done]
  <2>1. Select(j.wanted, runtimes) \in SUBSET Known /\ Select(j.wanted, runtimes) = Best(j.wanted)
    BY <1>1, SelectIs, SelectIsBest
  <2>2. /\ done \in Job /\ done.command = "run" /\ done.step = "done"
        /\ done.result = Best(j.wanted) /\ done.quiet = j.quiet
    BY <1>1, <1>3, <2>1 DEF Job, JobStep
  <2> HIDE DEF done
  <2>3. j.quiet => Aim(p) = j.wanted
    BY <1>3, <1>4 DEF Aim
  <2>4. ExactIn(p, done)
    BY <2>2, <2>3 DEF ExactIn, Quiet
  <2> QED
    BY <1>1, <1>4, <2>2, <2>4, CommandKnows
<1>5. CASE j.wanted = Absent /\ job' = [job EXCEPT ![p] = searching]
  <2>1. 1 \in Nat /\ "searching" \in JobStep
    BY DEF JobStep
  <2>2. searching \in Job
    BY <1>1, <2>1 DEF Job
  <2>3. /\ searching.command = "run" /\ searching.step = "searching"
        /\ searching.result = {} /\ searching.quiet = j.quiet /\ searching.at = 1
        /\ searching.snapshot = runtimes
    BY <1>1, <1>3 DEF Job
  <2> HIDE DEF searching
  <2>4. \A i \in DOMAIN Directories : ~(i < 1)
    BY SelectionAssumption, LenProperties
  <2>5. ExactIn(p, searching)
    BY <1>3, <1>5, <2>3, <2>4 DEF ExactIn, Quiet
  <2> QED
    BY <1>1, <1>5, <2>2, <2>5, CommandKnows
<1> QED
  BY <1>2, <1>4, <1>5

LEMMA ExactSearch ==
    ASSUME SelectionIInv, ExactIInv, NEW p \in Pid, Search(p)
    PROVE  ExactIInv'
<1> DEFINE j == job[p]
           content == IF j.at > Len(Directories) THEN global ELSE local[Directories[j.at]]
           further == [j EXCEPT !.at = j.at + 1]
           failed == [j EXCEPT !.step = "done", !.snapshot = {}]
           done == [j EXCEPT !.step = "done", !.snapshot = {},
                             !.result = Select(content, j.snapshot)]
<1>1. /\ j.step = "searching" /\ SelectionTypes /\ j \in Job /\ ExactIn(p, j)
      /\ UNCHANGED <<process, session, local, global, runtimes>>
      /\ runtimes \in SUBSET Known /\ IsFiniteSet(runtimes)
  BY DEF Search, Keeps, SelectionIInv, SelectionTypes, tables, saved, ExactIInv
<1>2. /\ j.command = "run" /\ j.result = {} /\ j.at \in Nat \ {0} /\ j.snapshot \in SUBSET Known
      /\ j.quiet =>
           /\ TerminalChoice(p) \in {Absent, Cleared} /\ j.snapshot = runtimes
           /\ \A i \in DOMAIN Directories : i < j.at => local[Directories[i]] = Absent
  <2>1. JobIn(process, p, j)
    BY <1>1, Busy
  <2> QED
    BY <1>1, <2>1 DEF ExactIn, Quiet, JobIn, Job
<1>3. \/ content = Absent /\ j.at > Len(Directories) /\ job' = [job EXCEPT ![p] = failed]
      \/ content = Absent /\ ~(j.at > Len(Directories)) /\ job' = [job EXCEPT ![p] = further]
      \/ content # Absent /\ job' = [job EXCEPT ![p] = done]
  BY <1>1 DEF Search, Fails, SelectionTypes
<1>4. DOMAIN Directories = 1..Len(Directories) /\ Len(Directories) \in Nat
  BY SelectionAssumption, LenProperties
<1>5. j.quiet /\ (content # Absent \/ j.at > Len(Directories)) =>
        Aim(p) = FileChoice /\ FileChoice = content
  <2> SUFFICES ASSUME j.quiet, content # Absent \/ j.at > Len(Directories)
               PROVE  FileChoice = content
    BY <1>2 DEF Aim
  <2>1. CASE ~(j.at > Len(Directories))
    <3>1. j.at <= Len(Directories) + 1 /\ local[Directories[j.at]] # Absent
      BY <1>2, <1>4, <2>1
    <3> QED
      BY <1>2, <2>1, <3>1, FileIs
  <2>2. CASE j.at > Len(Directories)
    <3> DEFINE n == Len(Directories) + 1
    <3>1. n \in Nat \ {0} /\ n <= Len(Directories) + 1 /\ n > Len(Directories)
          /\ \A i \in DOMAIN Directories : i < n => i < j.at
      BY <1>2, <1>4, <2>2
    <3> HIDE DEF n
    <3>2. FileChoice = global
      BY <1>2, <1>4, <3>1, FileIs
    <3> QED
      BY <2>2, <3>2
  <2> QED
    BY <2>1, <2>2
<1> HIDE DEF content
<1>6. CASE content = Absent /\ j.at > Len(Directories) /\ job' = [job EXCEPT ![p] = failed]
  <2>1. /\ failed \in Job /\ failed.command = "run" /\ failed.step = "done"
        /\ failed.result = {} /\ failed.quiet = j.quiet
    BY <1>1, <1>2 DEF Job, JobStep
  <2>2. j.quiet => Best(Aim(p)) = {}
    BY <1>5, <1>6, BestOfNothing
  <2> HIDE DEF failed
  <2>3. ExactIn(p, failed)
    BY <2>1, <2>2 DEF ExactIn, Quiet
  <2> QED
    BY <1>1, <1>6, <2>1, <2>3, CommandKnows
<1>7. CASE content = Absent /\ ~(j.at > Len(Directories)) /\ job' = [job EXCEPT ![p] = further]
  <2>1. /\ further \in Job /\ further.command = "run" /\ further.step = "searching"
        /\ further.result = {} /\ further.quiet = j.quiet
        /\ further.snapshot = j.snapshot /\ further.at = j.at + 1
    BY <1>1, <1>2 DEF Job
  <2> HIDE DEF further
  <2>2. j.quiet => \A i \in DOMAIN Directories : i < j.at + 1 => local[Directories[i]] = Absent
    <3>1. local[Directories[j.at]] = Absent
      BY <1>7 DEF content
    <3>2. \A i \in DOMAIN Directories : i < j.at + 1 => i < j.at \/ i = j.at
      BY <1>2, <1>4
    <3> QED
      BY <1>2, <3>1, <3>2
  <2>3. ExactIn(p, further)
    BY <1>2, <2>1, <2>2 DEF ExactIn, Quiet
  <2> QED
    BY <1>1, <1>7, <2>1, <2>3, CommandKnows
<1>8. CASE content # Absent /\ job' = [job EXCEPT ![p] = done]
  <2>1. Select(content, j.snapshot) \in SUBSET Known
    BY <1>2, SelectIs
  <2>2. /\ done \in Job /\ done.command = "run" /\ done.step = "done"
        /\ done.result = Select(content, j.snapshot) /\ done.quiet = j.quiet
    BY <1>1, <1>2, <2>1 DEF Job, JobStep
  <2> HIDE DEF done
  <2>3. j.quiet => Select(content, j.snapshot) = Best(Aim(p))
    <3>1. Select(content, runtimes) = Best(content)
      BY <1>1, SelectIsBest
    <3> QED
      BY <1>2, <1>5, <1>8, <3>1
  <2>4. ExactIn(p, done)
    BY <2>2, <2>3 DEF ExactIn, Quiet
  <2> QED
    BY <1>1, <1>8, <2>2, <2>4, CommandKnows
<1> QED
  BY <1>3, <1>6, <1>7, <1>8

LEMMA ExactFinish ==
    ASSUME SelectionIInv, ExactIInv, NEW p \in Pid, Finish(p)
    PROVE  ExactIInv'
  BY CommandLeaves DEF Finish, saved

LEMMA ExactCheckFile ==
    ASSUME SelectionIInv, ExactIInv, NEW p \in Pid, CheckFile(p)
    PROVE  ExactIInv'
<1> DEFINE new == [job[p] EXCEPT !.step = "removing"]
<1>1. /\ job[p].step = "checking" /\ SelectionTypes /\ job[p] \in Job /\ ExactIn(p, job[p])
      /\ UNCHANGED <<session, local, global, runtimes>>
      /\ Ends(p) \/ (job' = [job EXCEPT ![p] = new] /\ UNCHANGED process)
  BY DEF CheckFile, Goes, saved, SelectionIInv, SelectionTypes, ExactIInv
<1>2. CASE Ends(p)
  BY <1>1, <1>2, CommandLeaves
<1>3. CASE job' = [job EXCEPT ![p] = new] /\ UNCHANGED process
  <2>1. /\ new \in Job /\ new.step = "removing" /\ new.result = job[p].result
    BY <1>1 DEF Job, JobStep
  <2>2. new.result = {}
    BY <1>1, <2>1 DEF ExactIn
  <2> HIDE DEF new
  <2>3. ExactIn(p, new)
    BY <2>1, <2>2 DEF ExactIn, Quiet
  <2> QED
    BY <1>1, <1>3, <2>1, <2>3, CommandKnows
<1> QED
  BY <1>1, <1>2, <1>3

\* A walk that follows the line has met live processes only, each older than the last.
LEMMA ChainLives ==
    ASSUME SelectionTypes, NEW p \in Pid, Alive(p), NEW j \in Job, Followed(p, j)
    PROVE  /\ Len(j.chain) \in Nat \ {0} /\ DOMAIN j.chain = 1..Len(j.chain)
           /\ \A n \in 1..Len(j.chain) :
                /\ j.chain[n] \in Identity /\ LivesIn(process, j.chain[n])
                /\ n # 1 => n - 1 \in 1..Len(process[p].line) /\ j.chain[n] = process[p].line[n - 1]
<1> DEFINE k == Len(j.chain)
           line == process[p].line
<1>1. /\ k \in Nat \ {0} /\ DOMAIN j.chain = 1..k /\ \A n \in 1..k : j.chain[n] \in Identity
      /\ j.chain[1] = Id(p) /\ k - 1 <= Len(line) /\ Reaches(p, k - 1)
      /\ \A n \in 2..k : j.chain[n] = line[n - 1]
  BY LenProperties, ElementOfSeq DEF Followed, Job
<1>2. Len(line) \in Nat
  BY ProcessTyped
<1>3. \A i \in 1..k - 1 : LivesIn(process, line[i])
  BY <1>1 DEF Reaches, Lives, Alive, LivesIn
<1>4. LivesIn(process, Id(p))
  BY DEF LivesIn, Id, Alive
<1> HIDE DEF k, line
<1>5. ASSUME NEW n \in 1..k
      PROVE  /\ j.chain[n] \in Identity /\ LivesIn(process, j.chain[n])
             /\ n # 1 => n - 1 \in 1..Len(line) /\ j.chain[n] = line[n - 1]
  <2>1. CASE n = 1
    BY <1>1, <1>4, <2>1
  <2>2. CASE n # 1
    <3>1. n \in 2..k /\ n - 1 \in 1..k - 1 /\ n - 1 \in 1..Len(line)
      BY <1>1, <1>2, <2>2
    <3> QED
      BY <1>1, <1>3, <3>1
  <2> QED
    BY <2>1, <2>2
<1> QED
  BY <1>1, <1>5 DEF k, line

\* The number that a walk goes on with is that of the next ancestor, if that can be trusted.
LEMMA NextIsAsked ==
    ASSUME SelectionIInv, NEW p \in Pid, Alive(p), NEW j \in Job, Followed(p, j),
           WalkFits(process, p, j),
           Len(j.chain) \in DOMAIN process[p].line, Reaches(p, Len(j.chain))
    PROVE  LET k == Len(j.chain)
               id == process[p].line[k]
           IN  /\ j.parents[j.chain[k][1]] = id[1] /\ id[1] \in Pid /\ process[id[1]].created = id[2]
               /\ Alive(id[1]) /\ process[id[1]].image # "guarded"
               /\ id[2] < j.chain[k][2]
<1> DEFINE k == Len(j.chain)
           line == process[p].line
           id == line[k]
           child == j.chain[k]
<1>1. /\ SelectionTypes /\ LineFits(p)
  BY DEF SelectionIInv
<1>2. /\ k \in Nat \ {0} /\ child \in Identity /\ LivesIn(process, child)
      /\ k # 1 => k - 1 \in 1..Len(line) /\ child = line[k - 1]
  <2>1. /\ k \in Nat \ {0}
        /\ \A n \in 1..k :
             /\ j.chain[n] \in Identity /\ LivesIn(process, j.chain[n])
             /\ n # 1 => n - 1 \in 1..Len(line) /\ j.chain[n] = line[n - 1]
    BY <1>1, ChainLives
  <2>2. k \in 1..k
    <3> HIDE DEF k
    <3> QED
      BY <2>1
  <2> QED
    BY <2>1, <2>2
<1>3. /\ j.chain[1] = Id(p) /\ j.parents[p] = process[p].parent
      /\ \A n, m \in 1..k : n < m => j.chain[m][2] < j.chain[n][2]
  BY DEF Followed
<1>4. /\ Len(line) \in Nat /\ DOMAIN line = 1..Len(line) /\ k \in DOMAIN line
      /\ id \in Identity /\ id[1] \in Pid /\ id[2] \in 0..MaxClock
  BY <1>1, ProcessTyped
<1>5. /\ LivesIn(process, id) /\ process[id[1]].image # "guarded"
      /\ id[2] < IF k = 1 THEN process[p].created ELSE line[k - 1][2]
  BY <1>2 DEF Reaches, Lives, Alive, LivesIn
<1>6. id[2] < child[2]
  BY <1>2, <1>3, <1>5 DEF Id
<1>7. j.parents[child[1]] = id[1]
  <2>1. CASE k = 1
    <3>1. child = Id(p) /\ child[1] = p
      BY <1>3, <2>1 DEF Id
    <3>2. line # <<>>
      BY <1>4
    <3>3. line[1][1] = process[p].parent
      BY <1>1, <3>2 DEF LineFits, ParentFits
    <3> QED
      BY <1>3, <2>1, <3>1, <3>3
  <2>2. CASE k # 1
    <3> DEFINE r == child[1]
               above == process[r].line
    <3>1. /\ r \in Pid /\ child = line[k - 1] /\ k - 1 \in DOMAIN line /\ LivesIn(process, child)
          /\ process[r].created = child[2] /\ process[r] # Gone
      BY <1>2, <1>4, <2>2 DEF Identity, LivesIn
    <3>2. AncestorFits(process, clock, p, k - 1)
      BY <1>1, <3>1 DEF LineFits
    <3>3. /\ Len(line) = (k - 1) + Len(above)
          /\ \A m \in 1..Len(above) : above[m] = line[(k - 1) + m]
      BY <3>1, <3>2 DEF AncestorFits
    <3>4. above \in Seq(Identity) /\ Len(above) \in Nat /\ ParentFits(process, r)
      <4>1. LineFits(r)
        BY <3>1 DEF SelectionIInv
      <4> QED
        BY <1>1, <3>1, <4>1, ProcessTyped DEF LineFits
    <3>5. 1 \in 1..Len(above) /\ (k - 1) + 1 = k
      <4> HIDE DEF k, line, above, id, child
      <4> QED
        BY <1>2, <1>4, <3>3, <3>4
    <3>6. above[1] = id /\ above # <<>>
      BY <3>3, <3>5
    <3>7. process[r].parent = id[1]
      BY <3>4, <3>6 DEF ParentFits
    <3>8. process[r].created < process[p].created
      <4>1. 1 \in 1..k /\ k \in 1..k /\ 1 < k
        <5> HIDE DEF k
        <5> QED
          BY <1>2, <2>2
      <4>2. child[2] < Id(p)[2]
        BY <1>3, <4>1
      <4> QED
        BY <3>1, <4>2 DEF Id
    <3> QED
      BY <3>1, <3>7, <3>8 DEF WalkFits
  <2> QED
    BY <2>1, <2>2
<1> QED
  BY <1>4, <1>5, <1>6, <1>7 DEF LivesIn, Alive

\* A walk that goes no further could not be trusted any further.
LEMMA WalkBlocked ==
    ASSUME SelectionIInv, NEW p \in Pid, Alive(p), NEW j \in Job, Followed(p, j),
           WalkFits(process, p, j),
           LET child == j.chain[Len(j.chain)]
               q == j.parents[child[1]]
           IN  ~(/\ q # None /\ \A i \in DOMAIN j.chain : j.chain[i][1] # q
                 /\ Alive(q) /\ process[q].image # "guarded"
                 /\ process[q].created < child[2])
    PROVE  Blocked(p, Len(j.chain) - 1)
<1> DEFINE k == Len(j.chain)
           line == process[p].line
<1>1. SelectionTypes
  BY DEF SelectionIInv
<1>2. /\ k \in Nat \ {0} /\ DOMAIN j.chain = 1..k
      /\ \A n \in 1..k : j.chain[n] \in Identity /\ LivesIn(process, j.chain[n])
      /\ \A n, m \in 1..k : n < m => j.chain[m][2] < j.chain[n][2]
  BY <1>1, ChainLives DEF Followed
<1>3. Len(line) \in Nat /\ DOMAIN line = 1..Len(line)
  BY <1>1, ProcessTyped
<1> SUFFICES ASSUME NEW n \in DOMAIN line, Reaches(p, n), ~(n <= k - 1)
             PROVE  FALSE
  BY DEF Blocked
<1>4. k \in DOMAIN line /\ k \in 0..n /\ n \in Nat /\ k \in 1..k
  <2> HIDE DEF k, line
  <2> QED
    BY <1>2, <1>3
<1>5. Reaches(p, k)
  BY <1>4, ReachesLess
<1> DEFINE id == line[k]
<1>6. /\ j.parents[j.chain[k][1]] = id[1] /\ id[1] \in Pid /\ process[id[1]].created = id[2]
      /\ Alive(id[1]) /\ process[id[1]].image # "guarded"
      /\ id[2] < j.chain[k][2]
  BY <1>4, <1>5, NextIsAsked
<1>7. id[1] # None
  BY <1>6, SelectionAssumption
<1>8. PICK i \in 1..k : j.chain[i][1] = id[1]
  BY <1>2, <1>6, <1>7
<1>9. j.chain[i][2] = id[2]
  BY <1>2, <1>6, <1>8 DEF LivesIn
<1>10. i = k \/ i < k
  BY <1>2
<1>11. id[2] \in 0..MaxClock /\ j.chain[k][2] \in 0..MaxClock /\ j.chain[i][2] \in 0..MaxClock
  BY <1>1, <1>2, <1>4, <1>8, ProcessTyped DEF Identity
<1>12. j.chain[k][2] <= j.chain[i][2]
  BY <1>2, <1>4, <1>10, <1>11
<1> QED
  BY <1>6, <1>9, <1>11, <1>12

\* A walk that goes on follows the line.
LEMMA WalkFollows ==
    ASSUME SelectionIInv, NEW p \in Pid, Alive(p), NEW j \in Job, Followed(p, j),
           WalkFits(process, p, j),
           NEW q, q = j.parents[j.chain[Len(j.chain)][1]],
           q # None, Alive(q), process[q].image # "guarded",
           process[q].created < j.chain[Len(j.chain)][2],
           NEW new, new.chain = Append(j.chain, Id(q)), new.parents = j.parents
    PROVE  /\ Len(new.chain) = Len(j.chain) + 1 /\ Followed(p, new)
           /\ process[p].line[Len(j.chain)] = Id(q)
<1> DEFINE k == Len(j.chain)
           line == process[p].line
<1>1. SelectionTypes /\ j.chain \in Seq(Identity) /\ NextFits(process, p, j, k)
  BY DEF SelectionIInv, Job, WalkFits
<1>2. q \in Pid /\ Id(q) \in Identity
  BY WalkGoesOn
<1>3. /\ k \in DOMAIN line /\ line[k] = Id(q) /\ DOMAIN line = 1..Len(line) /\ Len(line) \in Nat
  BY <1>1, ProcessTyped DEF NextFits, Id, Alive
<1>4. /\ k \in Nat \ {0} /\ DOMAIN j.chain = 1..k
      /\ \A n \in 1..k : /\ j.chain[n] \in Identity
                         /\ n # 1 => n - 1 \in 1..Len(line) /\ j.chain[n] = line[n - 1]
  BY <1>1, ChainLives
<1>5. /\ Len(new.chain) = k + 1 /\ new.chain[k + 1] = Id(q)
      /\ \A n \in 1..k : new.chain[n] = j.chain[n]
  <2> HIDE DEF k
  <2>1. ASSUME NEW e \in Identity
        PROVE  /\ Len(Append(j.chain, e)) = k + 1 /\ Append(j.chain, e)[k + 1] = e
               /\ \A n \in 1..k : Append(j.chain, e)[n] = j.chain[n]
    BY <1>1, Appended DEF k
  <2> QED
    BY <1>2, <2>1
<1>6. /\ j.chain[1] = Id(p) /\ j.parents[p] = process[p].parent /\ Reaches(p, k - 1)
      /\ \A n \in 2..k : j.chain[n] = line[n - 1]
      /\ \A n, m \in 1..k : n < m => j.chain[m][2] < j.chain[n][2]
  BY DEF Followed
<1>7. Id(q)[2] < j.chain[k][2] /\ Id(q)[1] = q /\ Id(q)[2] = process[q].created
  BY DEF Id
<1> HIDE DEF k
<1>8. /\ 1 \in 1..k /\ k \in 1..k /\ (k + 1) - 1 = k /\ k + 1 # 0
      /\ \A n \in 1..k + 1 : n \in 1..k \/ n = k + 1
      /\ \A n \in 2..k + 1 : n \in 2..k \/ n = k + 1
      /\ \A n \in 1..k : n \in 1..k - 1 \/ n = k
      /\ k = 1 \/ (k # 1 /\ k - 1 \in 1..k - 1)
  BY <1>4
<1>9. Reaches(p, k)
  <2>1. LivesIn(process, Id(q))
    BY <1>7 DEF LivesIn, Alive
  <2>2. j.chain[k][2] = IF k = 1 THEN process[p].created ELSE line[k - 1][2]
    <3>1. Id(p)[2] = process[p].created
      BY DEF Id
    <3> HIDE DEF line
    <3> QED
      BY <1>4, <1>6, <1>8, <3>1
  <2>3. /\ LivesIn(process, line[k]) /\ process[line[k][1]].image # "guarded"
        /\ line[k][2] < IF k = 1 THEN process[p].created ELSE line[k - 1][2]
    <3> HIDE DEF line
    <3> QED
      BY <1>3, <1>7, <2>1, <2>2
  <2>4. ASSUME NEW i \in 1..k
        PROVE  /\ Lives(line[i]) /\ process[line[i][1]].image # "guarded"
               /\ line[i][2] < IF i = 1 THEN process[p].created ELSE line[i - 1][2]
    <3>1. CASE i = k
      BY <2>3, <3>1 DEF Lives, Alive, LivesIn
    <3>2. CASE i # k
      <4>1. i \in 1..k - 1
        BY <1>8, <3>2
      <4> QED
        BY <1>6, <4>1 DEF Reaches, line
    <3> QED
      BY <3>1, <3>2
  <2> QED
    BY <2>4 DEF Reaches, line
<1>10. ASSUME NEW n \in 1..k + 1, NEW m \in 1..k + 1, n < m
       PROVE  new.chain[m][2] < new.chain[n][2]
  <2>1. n \in 1..k
    BY <1>4, <1>10
  <2>2. CASE m \in 1..k
    BY <1>5, <1>6, <1>10, <2>1, <2>2
  <2>3. CASE m = k + 1
    <3>1. n = k \/ n < k
      BY <1>4, <2>1
    <3>2. j.chain[n][2] \in 0..MaxClock /\ j.chain[k][2] \in 0..MaxClock /\ Id(q)[2] \in 0..MaxClock
      BY <1>2, <1>4, <1>8, <2>1 DEF Identity
    <3>3. j.chain[k][2] <= j.chain[n][2]
      <4>1. CASE n = k
        BY <3>2, <4>1
      <4>2. CASE n < k
        <5>1. j.chain[k][2] < j.chain[n][2]
          BY <1>6, <1>8, <2>1, <4>2
        <5> QED
          BY <3>2, <5>1
      <4> QED
        BY <3>1, <4>1, <4>2
    <3>4. new.chain[m] = Id(q) /\ new.chain[n] = j.chain[n]
      BY <1>5, <2>1, <2>3
    <3>5. Id(q)[2] < j.chain[k][2]
      BY <1>7
    <3>6. Id(q)[2] < j.chain[n][2]
      <4>1. \A a, b, c \in 0..MaxClock : a < b /\ b <= c => a < c
        OBVIOUS
      <4> QED
        BY <3>2, <3>3, <3>5, <4>1
    <3> QED
      BY <3>4, <3>6
  <2> QED
    BY <1>8, <2>2, <2>3
<1>11. \A n \in 2..k + 1 : new.chain[n] = line[n - 1]
  <2> SUFFICES ASSUME NEW n \in 2..k + 1
               PROVE  new.chain[n] = line[n - 1]
    OBVIOUS
  <2>1. CASE n \in 2..k
    BY <1>4, <1>5, <1>6, <2>1
  <2>2. CASE n = k + 1
    BY <1>3, <1>5, <1>8, <2>2
  <2> QED
    BY <1>8, <2>1, <2>2
<1>12. k <= Len(line)
  BY <1>3
<1>13. new.chain[1] = Id(p)
  BY <1>5, <1>6, <1>8
<1>14. Followed(p, new)
  BY <1>5, <1>6, <1>8, <1>9, <1>10, <1>11, <1>12, <1>13 DEF Followed, line
<1> QED
  BY <1>3, <1>5, <1>14 DEF k, line

\* It lists the terminals it meets.
LEMMA WalkLists ==
    ASSUME SelectionTypes, NEW p \in Pid, NEW paths \in Seq(Candidate), NEW k \in Nat \ {0},
           Listed(p, paths, k - 1), NEW q \in Pid, process[p].line[k] = Id(q),
           NEW after,
           after = IF process[q].image = "shell" THEN Append(paths, [id |-> Id(q), count |-> k + 1])
                   ELSE paths
    PROVE  Listed(p, after, k)
<1> DEFINE line == process[p].line
           Shell(n) == process[line[n][1]].image = "shell"
           found == [id |-> Id(q), count |-> k + 1]
           len == Len(paths)
<1>1. /\ \A i \in DOMAIN paths : /\ paths[i].count - 1 \in 1..k - 1
                                 /\ paths[i].id = line[paths[i].count - 1]
                                 /\ Shell(paths[i].count - 1)
      /\ \A n \in 1..k - 1 : Shell(n) => \E i \in DOMAIN paths : paths[i].count = n + 1
      /\ \A i, l \in DOMAIN paths : i < l => paths[i].count < paths[l].count
  BY DEF Listed
<1>2. Listed(p, after, k) <=>
        /\ \A i \in DOMAIN after : /\ after[i].count - 1 \in 1..k
                                   /\ after[i].id = line[after[i].count - 1]
                                   /\ Shell(after[i].count - 1)
        /\ \A n \in 1..k : Shell(n) => \E i \in DOMAIN after : after[i].count = n + 1
        /\ \A i, l \in DOMAIN after : i < l => after[i].count < after[l].count
  BY DEF Listed
<1>3. Shell(k) <=> process[q].image = "shell"
  BY DEF Id
<1>4. found \in Candidate /\ found.id = line[k] /\ found.count = k + 1
  BY IdTyped DEF Candidate
<1>5. /\ 1..k - 1 \subseteq 1..k /\ k \in 1..k /\ (k + 1) - 1 = k
      /\ \A n \in 1..k : n \in 1..k - 1 \/ n = k
  OBVIOUS
<1>6. \A i \in DOMAIN paths : paths[i].count \in Nat /\ paths[i].count < k + 1
  <2>1. \A i \in DOMAIN paths : paths[i].count \in Nat
    <3>1. \A i \in DOMAIN paths : paths[i] \in Candidate
      BY LenProperties, ElementOfSeq
    <3> QED
      BY <3>1 DEF Candidate
  <2>2. \A c \in Nat : c - 1 \in 1..k - 1 => c < k + 1
    OBVIOUS
  <2> QED
    BY <1>1, <2>1, <2>2
<1>7. CASE process[q].image # "shell"
  <2>1. after = paths
    BY <1>7
  <2> HIDE DEF Shell
  <2> QED
    BY <1>1, <1>2, <1>3, <1>5, <1>7, <2>1
<1>8. CASE process[q].image = "shell"
  <2>1. after = Append(paths, found)
    BY <1>8
  <2> HIDE DEF found, line, Shell, len
  <2>2. /\ len \in Nat /\ DOMAIN after = 1..len + 1 /\ DOMAIN paths = 1..len
        /\ after[len + 1] = found /\ \A i \in 1..len : after[i] = paths[i]
    BY <1>4, <2>1, Appended DEF len
  <2>3. /\ \A i \in 1..len + 1 : i \in 1..len \/ i = len + 1
        /\ len + 1 \in 1..len + 1 /\ 1..len \subseteq 1..len + 1
        /\ \A i, l \in 1..len + 1 : i < l => i \in 1..len
    BY <2>2
  <2>4. ASSUME NEW i \in DOMAIN after
        PROVE  /\ after[i].count - 1 \in 1..k
               /\ after[i].id = line[after[i].count - 1]
               /\ Shell(after[i].count - 1)
    <3>1. CASE i \in 1..len
      BY <1>1, <1>5, <2>2, <3>1
    <3>2. CASE i = len + 1
      BY <1>3, <1>4, <1>5, <1>8, <2>2, <3>2
    <3> QED
      BY <2>2, <2>3, <3>1, <3>2
  <2>5. ASSUME NEW n \in 1..k, Shell(n)
        PROVE  \E i \in DOMAIN after : after[i].count = n + 1
    <3>1. CASE n \in 1..k - 1
      BY <1>1, <2>2, <2>3, <2>5, <3>1
    <3>2. CASE n = k
      BY <1>4, <2>2, <2>3, <3>2
    <3> QED
      BY <1>5, <3>1, <3>2
  <2>6. ASSUME NEW i \in DOMAIN after, NEW l \in DOMAIN after, i < l
        PROVE  after[i].count < after[l].count
    <3>1. i \in 1..len
      BY <2>2, <2>3, <2>6
    <3>2. CASE l \in 1..len
      BY <1>1, <2>2, <2>6, <3>1, <3>2
    <3>3. CASE l = len + 1
      BY <1>4, <1>6, <2>2, <3>1, <3>3
    <3> QED
      BY <2>2, <2>3, <3>2, <3>3
  <2> QED
    BY <1>2, <2>4, <2>5, <2>6
<1> QED
  BY <1>7, <1>8

\* There are fewer terminals than processes: a walk for a command never has enough.
LEMMA NeverEnough ==
    ASSUME SelectionTypes, NEW p \in Pid, Alive(p), NEW j \in Job, Followed(p, j),
           NEW paths \in Seq(Candidate), Listed(p, paths, Len(j.chain) - 1)
    PROVE  Len(paths) < Cardinality(Pid)
<1> DEFINE k == Len(j.chain)
           line == process[p].line
           n == Len(paths)
           Bearer(i) == line[paths[i].count - 1][1]
           f == [i \in 1..n |-> Bearer(i)]
<1>1. /\ k \in Nat \ {0}
      /\ \A m \in 1..k :
           /\ j.chain[m] \in Identity /\ LivesIn(process, j.chain[m])
           /\ m # 1 => m - 1 \in 1..Len(line) /\ j.chain[m] = line[m - 1]
  BY ChainLives
<1>2. /\ j.chain[1] = Id(p)
      /\ \A l, m \in 1..k : l < m => j.chain[m][2] < j.chain[l][2]
  BY DEF Followed
<1>3. /\ \A i \in DOMAIN paths : paths[i].count - 1 \in 1..k - 1
      /\ \A i, l \in DOMAIN paths : i < l => paths[i].count < paths[l].count
  BY DEF Listed
<1>4. n \in Nat /\ DOMAIN paths = 1..n /\ \A i \in DOMAIN paths : paths[i] \in Candidate
  BY LenProperties, ElementOfSeq
<1>5. \A i \in 1..n : paths[i].count \in Nat
  BY <1>4 DEF Candidate
<1> HIDE DEF k, line, n
<1>6. ASSUME NEW i \in 1..n
      PROVE  paths[i].count \in 2..k /\ Bearer(i) = j.chain[paths[i].count][1]
  <2>1. \A c \in Nat : c - 1 \in 1..k - 1 => c \in 2..k /\ c \in 1..k /\ c # 1
    BY <1>1
  <2>2. paths[i].count \in 2..k /\ paths[i].count \in 1..k /\ paths[i].count # 1
    BY <1>3, <1>4, <1>5, <2>1
  <2> QED
    BY <1>1, <2>2
<1>7. ASSUME NEW l \in 1..k, NEW m \in 1..k, l < m
      PROVE  j.chain[l][1] # j.chain[m][1]
  <2>1. j.chain[m][2] < j.chain[l][2]
    BY <1>2, <1>7
  <2>2. j.chain[l][2] \in Nat /\ j.chain[m][2] \in Nat
    BY <1>1, SelectionAssumption DEF Identity
  <2>3. /\ process[j.chain[l][1]].created = j.chain[l][2]
        /\ process[j.chain[m][1]].created = j.chain[m][2]
    BY <1>1 DEF LivesIn
  <2> QED
    BY <2>1, <2>2, <2>3
<1>8. 1 \in 1..k /\ \A c \in 2..k : c \in 1..k /\ 1 < c
  BY <1>1
<1>9. ASSUME NEW i \in 1..n
      PROVE  Bearer(i) \in Pid \ {p}
  <2>1. j.chain[paths[i].count] \in Identity
    BY <1>1, <1>6, <1>8
  <2>2. j.chain[1][1] # j.chain[paths[i].count][1]
    BY <1>6, <1>7, <1>8
  <2> QED
    BY <1>2, <1>6, <2>1, <2>2 DEF Identity, Id
<1>10. ASSUME NEW i \in 1..n, NEW l \in 1..n, i < l
       PROVE  Bearer(i) # Bearer(l)
  <2>1. paths[i].count < paths[l].count
    BY <1>3, <1>4, <1>10
  <2> QED
    BY <1>6, <1>7, <1>8, <2>1
<1>11. ASSUME NEW i \in 1..n, NEW l \in 1..n, i # l
       PROVE  Bearer(i) # Bearer(l)
  <2>1. i < l \/ l < i
    BY <1>4, <1>11
  <2> QED
    BY <1>10, <2>1
<1> HIDE DEF Bearer
<1>12. f \in Injection(1..n, Pid \ {p})
  <2>1. f \in [1..n -> Pid \ {p}]
    BY <1>9
  <2>2. \A i, l \in 1..n : f[i] = f[l] => i = l
    BY <1>11
  <2> QED
    BY <2>1, <2>2 DEF Injection, IsInjective
<1> HIDE DEF f
<1>13. IsFiniteSet(Pid \ {p}) /\ Cardinality(Pid \ {p}) = Cardinality(Pid) - 1
  BY SelectionAssumption, FS_RemoveElement
<1>14. Cardinality(1..n) <= Cardinality(Pid \ {p})
  BY <1>12, <1>13, FS_Injection
<1>15. Cardinality(1..n) = n
  BY <1>4, FS_Interval
<1>16. Cardinality(Pid) \in Nat
  BY SelectionAssumption, FS_CardinalityType
<1> QED
  BY <1>4, <1>13, <1>14, <1>15, <1>16 DEF n

LEMMA ExactWalk ==
    ASSUME SelectionIInv, ExactIInv, NEW p \in Pid, Walk(p)
    PROVE  ExactIInv'
<1> DEFINE j == job[p]
           k == Len(j.chain)
           q == j.parents[j.chain[k][1]]
           opened == /\ q # None /\ \A i \in DOMAIN j.chain : j.chain[i][1] # q
                     /\ Alive(q) /\ process[q].image # "guarded"
                     /\ process[q].created < j.chain[k][2]
           chain == Append(j.chain, Id(q))
           found == [id |-> Id(q), count |-> Len(chain)]
           paths == IF process[q].image = "shell" THEN Append(j.paths, found) ELSE j.paths
           step == IF Len(paths) >= Limit(j) THEN "validating" ELSE "walking"
           new == [j EXCEPT !.chain = chain, !.paths = paths, !.step = step]
           stopped == [j EXCEPT !.step = "validating"]
<1>1. /\ j.step = "walking" /\ SelectionTypes /\ j \in Job /\ ExactIn(p, j)
      /\ UNCHANGED <<process, session, local, global, runtimes>>
  BY DEF Walk, Keeps, SelectionIInv, SelectionTypes, tables, saved, ExactIInv
<1>2. /\ j.result = {} /\ j.wanted = Absent /\ Alive(p) /\ WalkFits(process, p, j)
      /\ j.quiet /\ j.command = "run" =>
           process[p].env = Absent /\ Followed(p, j) /\ Listed(p, j.paths, k - 1)
  <2>1. JobIn(process, p, j) /\ Alive(p)
    BY <1>1, Busy
  <2> QED
    BY <1>1, <2>1 DEF ExactIn, Quiet, JobIn
<1>3. \/ ~opened /\ job' = [job EXCEPT ![p] = stopped]
      \/ opened /\ job' = [job EXCEPT ![p] = new]
  BY <1>1 DEF Walk, BornBefore, Goes
<1>4. CASE ~opened /\ job' = [job EXCEPT ![p] = stopped]
  <2>1. /\ stopped \in Job /\ stopped.command = j.command /\ stopped.step = "validating"
        /\ stopped.result = {} /\ stopped.wanted = Absent /\ stopped.quiet = j.quiet
        /\ stopped.chain = j.chain /\ stopped.parents = j.parents /\ stopped.paths = j.paths
    BY <1>1, <1>2 DEF Job, JobStep
  <2>2. j.quiet /\ j.command = "run" => Blocked(p, k - 1)
    BY <1>1, <1>2, <1>4, WalkBlocked
  <2> HIDE DEF stopped
  <2>3. j.quiet /\ j.command = "run" => Followed(p, stopped)
    BY <1>2, <2>1 DEF Followed
  <2>4. ExactIn(p, stopped)
    BY <1>2, <2>1, <2>2, <2>3 DEF ExactIn, Quiet
  <2> QED
    BY <1>1, <1>4, <2>1, <2>4, CommandKnows
<1>5. CASE opened /\ job' = [job EXCEPT ![p] = new]
  <2>1. step \in {"validating", "walking"} /\ step \in JobStep
    BY DEF JobStep
  <2>2. q \in Pid /\ Id(q) \in Identity
    <3> DEFINE next == [chain |-> Append(j.chain, Id(q)), parents |-> j.parents]
    <3>1. q # None /\ Alive(q) /\ process[q].created < j.chain[k][2]
      BY <1>5
    <3>2. next.chain = Append(j.chain, Id(q)) /\ next.parents = j.parents
      OBVIOUS
    <3> HIDE DEF j, next
    <3> QED
      BY <1>1, <1>2, <3>1, <3>2, WalkGoesOn
  <2>3. j.chain \in Seq(Identity) /\ j.paths \in Seq(Candidate)
    BY <1>1 DEF Job
  <2>4. chain \in Seq(Identity) /\ Len(chain) = k + 1 /\ k \in Nat
    <3> HIDE DEF q
    <3> QED
      BY <2>2, <2>3, Appended
  <2>5. found \in Candidate /\ found = [id |-> Id(q), count |-> k + 1]
    <3> HIDE DEF q, k, chain
    <3> QED
      BY <2>2, <2>4 DEF Candidate
  <2>6. paths \in Seq(Candidate)
    <3> HIDE DEF found
    <3> QED
      BY <2>3, <2>5, Appended
  <2>7. new \in Job
    <3> HIDE DEF chain, paths, step
    <3> QED
      BY <1>1, <2>1, <2>4, <2>6 DEF Job
  <2>8. /\ new.command = j.command /\ new.step = step /\ new.result = {} /\ new.wanted = Absent
        /\ new.quiet = j.quiet /\ new.chain = chain /\ new.paths = paths /\ new.parents = j.parents
    <3> HIDE DEF chain, paths, step
    <3> QED
      BY <1>1, <1>2 DEF Job
  <2> HIDE DEF new
  <2>9. ASSUME j.quiet, j.command = "run"
        PROVE  /\ Followed(p, new) /\ Listed(p, paths, Len(new.chain) - 1) /\ step = "walking"
    <3>1. /\ Len(new.chain) = k + 1 /\ Followed(p, new) /\ process[p].line[k] = Id(q)
      <4> HIDE DEF j
      <4>1. /\ q # None /\ Alive(q) /\ process[q].image # "guarded"
            /\ process[q].created < j.chain[k][2]
        BY <1>5
      <4> QED
        BY <1>1, <1>2, <2>8, <2>9, <4>1, WalkFollows
    <3>2. k \in Nat \ {0} /\ Listed(p, j.paths, k - 1)
      BY <1>2, <2>4, <2>9 DEF Followed
    <3>3. Listed(p, paths, k)
      <4> DEFINE after == IF process[q].image = "shell"
                          THEN Append(j.paths, [id |-> Id(q), count |-> k + 1]) ELSE j.paths
      <4>1. paths = after
        <5> HIDE DEF found
        <5> QED
          BY <2>5
      <4> HIDE DEF q, k, found, chain, paths
      <4>2. Listed(p, after, k)
        BY <1>1, <2>2, <2>3, <3>1, <3>2, WalkLists
      <4> QED
        BY <4>1, <4>2
    <3>4. Len(new.chain) - 1 = k
      <4> HIDE DEF k
      <4> QED
        BY <2>4, <3>1
    <3>5. Len(paths) < Cardinality(Pid)
      <4> HIDE DEF paths, k
      <4> QED
        BY <1>1, <1>2, <2>6, <2>7, <3>1, <3>3, <3>4, NeverEnough
    <3>6. Limit(j) = Cardinality(Pid)
      BY <2>9 DEF Limit
    <3>7. Len(paths) \in Nat /\ Cardinality(Pid) \in Nat
      BY <2>6, LenProperties, SelectionAssumption, FS_CardinalityType
    <3>8. step = "walking"
      <4> HIDE DEF paths
      <4> QED
        BY <3>5, <3>6, <3>7
    <3> HIDE DEF k, paths
    <3> QED
      BY <3>1, <3>3, <3>4, <3>8
  <2> HIDE DEF chain, paths, step
  <2>10. ExactIn(p, new)
    BY <1>2, <2>1, <2>8, <2>9 DEF ExactIn, Quiet
  <2> QED
    BY <1>1, <1>5, <2>7, <2>10, CommandKnows DEF new, chain, paths, step
<1> QED
  BY <1>3, <1>4, <1>5

LEMMA CountedTo ==
    ASSUME NEW n \in Nat
    PROVE  Cardinality(1..n) = n
<1>1. Cardinality(1..n) = IF 1 > n THEN 0 ELSE n - 1 + 1
  BY FS_Interval
<1> QED
  BY <1>1

\* When all are alive, all terminals found are asked.
LEMMA AllTrusted ==
    ASSUME NEW paths \in Seq(Candidate), NEW chain \in Seq(Identity),
           \A n \in DOMAIN chain : Lives(chain[n]),
           \A i \in DOMAIN paths : paths[i].count <= Len(chain)
    PROVE  SubSeq(paths, 1, Trusted(paths, LiveAncestors(chain))) = paths
<1>1. /\ DOMAIN chain = 1..Len(chain) /\ Len(chain) \in Nat
      /\ DOMAIN paths = 1..Len(paths) /\ Len(paths) \in Nat
  BY LenProperties
<1>2. \A n \in 1..Len(chain) : \A i \in 1..n : i \in 1..Len(chain)
  BY <1>1
<1>3. {n \in DOMAIN chain : \A i \in 1..n : Lives(chain[i])} = 1..Len(chain)
  BY <1>1, <1>2
<1>4. LiveAncestors(chain) = Len(chain)
  BY <1>1, <1>3, CountedTo DEF LiveAncestors
<1>5. \A n \in 1..Len(paths) : \A i \in 1..n : i \in 1..Len(paths)
  BY <1>1
<1>6. {n \in DOMAIN paths : \A i \in 1..n : paths[i].count <= Len(chain)} = 1..Len(paths)
  BY <1>1, <1>5
<1>7. Trusted(paths, Len(chain)) = Len(paths)
  BY <1>1, <1>6, CountedTo DEF Trusted
<1>8. Len(paths) \in 0..Len(paths)
  BY <1>1
<1>9. /\ SubSeq(paths, 1, Len(paths)) \in Seq(Candidate)
      /\ Len(SubSeq(paths, 1, Len(paths))) = Len(paths)
      /\ \A i \in 1..Len(paths) : SubSeq(paths, 1, Len(paths))[i] = paths[i]
  BY <1>8, Shortened
<1>10. SubSeq(paths, 1, Len(paths)) = paths
  BY <1>9, SeqEqual
<1> QED
  BY <1>4, <1>7, <1>10

LEMMA ExactValidate ==
    ASSUME SelectionIInv, ExactIInv, NEW p \in Pid, Validate(p)
    PROVE  ExactIInv'
<1> DEFINE j == job[p]
           k == Len(j.chain)
           paths == SubSeq(j.paths, 1, Trusted(j.paths, LiveAncestors(j.chain)))
           step == IF j.command = "run" THEN "reading" ELSE "writing"
           new == [j EXCEPT !.paths = paths, !.at = 1, !.parents = NoParents, !.chain = <<>>,
                            !.step = step]
<1>1. /\ j.step = "validating" /\ SelectionTypes /\ j \in Job /\ ExactIn(p, j) /\ Alive(p)
      /\ UNCHANGED <<session, local, global, runtimes>>
  BY Busy DEF Validate, saved, SelectionIInv, SelectionTypes, ExactIInv
<1>2. /\ j.result = {} /\ j.wanted = Absent
      /\ j.quiet /\ j.command = "run" =>
           /\ process[p].env = Absent /\ Followed(p, j)
           /\ Listed(p, j.paths, k - 1) /\ Blocked(p, k - 1)
  BY <1>1 DEF ExactIn, Quiet
<1>3. Ends(p) \/ (job' = [job EXCEPT ![p] = new] /\ UNCHANGED process)
  BY DEF Validate
<1>4. CASE Ends(p)
  BY <1>1, <1>4, CommandLeaves
<1>5. CASE job' = [job EXCEPT ![p] = new] /\ UNCHANGED process
  <2>1. j.paths \in Seq(Candidate) /\ j.chain \in Seq(Identity)
    BY <1>1 DEF Job
  <2>2. paths \in Seq(Candidate)
    <3> DEFINE n == Trusted(j.paths, LiveAncestors(j.chain))
    <3>1. n \in 0..Len(j.paths)
      BY <2>1, TrustedFits
    <3> HIDE DEF n
    <3> QED
      BY <2>1, <3>1, Shortened DEF n
  <2>3. NoParents \in [Pid -> Pid \cup {None}] /\ <<>> \in Seq(Identity)
    BY EmptySeq DEF NoParents
  <2>4. step \in JobStep
    BY DEF JobStep
  <2> HIDE DEF paths, step
  <2>5. /\ new \in Job /\ new.command = j.command /\ new.step = step /\ new.paths = paths
        /\ new.at = 1 /\ new.result = {} /\ new.wanted = Absent /\ new.quiet = j.quiet
    BY <1>1, <1>2, <2>2, <2>3, <2>4 DEF Job
  <2> HIDE DEF new
  <2>6. ASSUME j.quiet, j.command = "run"
        PROVE  Asking(p, new)
    <3>1. Followed(p, j) /\ Listed(p, j.paths, k - 1) /\ Blocked(p, k - 1) /\ Reaches(p, k - 1)
          /\ k - 1 <= Len(process[p].line)
      BY <1>2, <2>6 DEF Followed
    <3>2. /\ k \in Nat \ {0} /\ DOMAIN j.chain = 1..k
          /\ \A n \in 1..k : LivesIn(process, j.chain[n])
      BY <1>1, <3>1, ChainLives
    <3>3. \A n \in DOMAIN j.chain : Lives(j.chain[n])
      BY <3>2 DEF Lives, Alive, LivesIn
    <3>4. /\ DOMAIN j.paths = 1..Len(j.paths) /\ Len(j.paths) \in Nat
          /\ \A i \in DOMAIN j.paths : j.paths[i] \in Candidate
      BY <2>1, LenProperties, ElementOfSeq
    <3>5. \A i \in DOMAIN j.paths : j.paths[i].count \in Nat /\ j.paths[i].count - 1 \in 1..k - 1
      BY <3>1, <3>4 DEF Listed, Candidate
    <3>6. \A i \in DOMAIN j.paths : j.paths[i].count <= k
      <4> HIDE DEF k
      <4>1. \A c \in Nat : c - 1 \in 1..k - 1 => c <= k
        BY <3>2
      <4> QED
        BY <3>5, <4>1
    <3>7. paths = j.paths
      BY <2>1, <3>3, <3>6, AllTrusted DEF paths
    <3>8. k - 1 \in 0..Len(process[p].line)
      <4>1. Len(process[p].line) \in Nat
        BY <1>1, ProcessTyped
      <4> HIDE DEF k
      <4> QED
        BY <3>1, <3>2, <4>1
    <3>9. \A i \in DOMAIN j.paths : ~(i < 1)
      BY <3>4
    <3> HIDE DEF k
    <3> QED
      BY <2>5, <3>1, <3>7, <3>8, <3>9 DEF Asking
  <2>7. step = IF j.command = "run" THEN "reading" ELSE "writing"
    BY DEF step
  <2>8. ExactIn(p, new)
    BY <1>2, <2>5, <2>6, <2>7 DEF ExactIn, Quiet
  <2> QED
    BY <1>1, <1>5, <2>5, <2>8, CommandKnows DEF new, paths, step
<1> QED
  BY <1>3, <1>4, <1>5

LEMMA InitialExact == Init => ExactIInv
<1> SUFFICES ASSUME Init, NEW p \in Pid
             PROVE  process[p].env # Cleared /\ ExactIn(p, job[p])
  BY DEF ExactIInv
<1>1. PICK q \in Pid, env \in (Saved \ {Cleared}) \cup {Absent} :
        process = [r \in Pid |-> IF r = q THEN [Gone EXCEPT !.image = "shell", !.env = env] ELSE Gone]
  BY DEF Init
<1>2. job[p] = NoJob /\ process[p].env # Cleared
  BY <1>1, ContentsDiffer DEF Init, Gone
<1> QED
  BY <1>2, IdleExact

LEMMA ExactStep == SelectionIInv /\ ExactIInv /\ [Next]_vars => ExactIInv'
<1> SUFFICES ASSUME SelectionIInv, ExactIInv, [Next]_vars PROVE ExactIInv'
  OBVIOUS
<1>1. ASSUME NEW q \in Pid, Spawn(q) \/ Exit(q) \/ Start(q)
      PROVE  ExactIInv'
  BY <1>1, ExactSpawned, ExactElsewhere, ExactStarted
<1>2. ASSUME NEW p \in Pid, Step(p)
      PROVE  ExactIInv'
  BY <1>2, ExactSnapshot, ExactWalk, ExactValidate, ExactReadSession, ExactResolve, ExactSearch,
     ExactFinish, ExactWritten, ExactCheckFile DEF Step
<1>3. ASSUME Register \/ Unregister \/ Breaks \/ Spoil
      PROVE  ExactIInv'
  BY <1>3, ExactElsewhere
<1>4. ASSUME Tick
      PROVE  ExactIInv'
  BY <1>4, ExactStutters DEF Tick, saved
<1>5. ASSUME (SettingsNext \/ CommandsNext) /\ UNCHANGED selectionVars
      PROVE  ExactIInv'
  BY <1>5, OthersLeaveRegistry, ExactStutters DEF selectionVars
<1>6. CASE UNCHANGED vars
  BY <1>6, ExactStutters DEF vars, selectionVars
<1> QED
  BY <1>1, <1>2, <1>3, <1>4, <1>5, <1>6 DEF Next

-----------------------------------------------------------------------------
(* The theorems *)

\* The inductive invariant of selection: every process has its real ancestors for a
\* line, nobody of whom is impersonated, and a command that looks for its terminal has
\* followed that line as far as it got (session.rs:91-187).
THEOREM SelectionHolds == Spec => []SelectionIInv
  BY InitialSelection, SelectionStep, PTL DEF Spec

\* However numbers of processes are used again while a command looks for its terminal,
\* what it reads or writes is a real ancestor's (session.rs:91-187).
THEOREM NeverAStranger == Spec => []NoStranger
<1>1. SelectionIInv => NoStranger
  BY DEF SelectionIInv, JobFits, JobIn, Ancestor, NoStranger
<1> QED
  BY <1>1, SelectionHolds, PTL

\* All of it has its type, one process at most has the registry's lock, no two
\* runtimes have one id, and exactly PyRudder's processes have something to do.
THEOREM SelectionTypeCorrect == Spec => []TypeOK
<1>1. SettingsIInv /\ CommandsIInv => SettingsTypeOK
  BY DEF SettingsIInv, SettingsTypes, CommandsIInv, Locks, SettingsTypeOK, Paths, Edit
<1>2. CommandsIInv => CommandsTypeOK
  <2> SUFFICES ASSUME CommandsIInv PROVE CommandsTypeOK
    OBVIOUS
  <2>1. /\ CommandTypes /\ Locks /\ DiskOrdered /\ writes \in 0..MaxWrites
        /\ \A c \in Caller : CallFits(c)
    BY DEF CommandsIInv, CommandTypes
  <2>2. ASSUME NEW r \in Runtime
        PROVE  disk[r].stamp \in 0..writes /\ manifest[r].stamp \in 0..disk[r].stamp
    <3>1. disk[r].stamp \in Nat /\ manifest[r].stamp \in Nat
      BY <2>1 DEF CommandTypes, Listing
    <3>2. disk[r].stamp <= writes /\ manifest[r].stamp <= disk[r].stamp
      BY <2>1 DEF DiskOrdered, Past
    <3> QED
      BY <2>1, <3>1, <3>2
  <2>3. \A c \in Caller : call[c].step \in CommandSteps
    BY <2>1 DEF CommandTypes, Call
  <2> QED
    BY <2>1, <2>2, <2>3 DEF CommandsTypeOK, CommandTypes, Locks, DiskOrdered, SameName, CallFits
<1>3. SelectionIInv => /\ runtimes \subseteq Known /\ OneOfAnId
                       /\ \A q \in Pid : process[q].image \in Image \cup {"gone"}
                                           /\ process[q].created <= clock
                       /\ \A q \in Pid : job[q] # NoJob <=> process[q].image = "pyrudder"
                       /\ SelectionTypes
  BY NoJobTyped DEF SelectionIInv, SelectionTypes, Process, Agree
<1>4. SettingsIInv /\ CommandsIInv /\ SelectionIInv => TypeOK
  BY <1>1, <1>2, <1>3 DEF TypeOK, SelectionTypes, Known, OneOfAnId, CommandsIInv, Locks
<1> QED
  BY <1>4, SettingsHold, CommandsHold, SelectionHolds, PTL

\* A choice that PyRudder wrote means the runtime it was written for, whatever is
\* registered after it; one whose runtime is gone comes back with that installation and
\* no other (state.rs:129-145, selector.rs:60-113).
THEOREM PinsStayStable == Spec => PinsAreStable
<1> DEFINE Pin(content) ==
      IF Candidates(content, runtimes) # {}
      THEN Select(content, runtimes') = Select(content, runtimes)
      ELSE \A r \in Select(content, runtimes') : content = ById(r.id)
<1>1. ASSUME SelectionIInv, SelectionIInv', runtimes \subseteq runtimes',
             NEW content, Settled(content)
      PROVE  Pin(content)
  <2>1. CASE content \in {Absent, Cleared, Corrupt}
    <3>1. \A r : ~Matches(content, r)
      BY <2>1 DEF Matches, Absent, Cleared, Corrupt
    <3>2. content.kind # "minor"
      BY <2>1 DEF Absent, Cleared, Corrupt
    <3>3. \A known : Candidates(content, known) = {}
      BY <3>1, <3>2 DEF Candidates
    <3>4. Select(content, runtimes') = {}
      BY <3>3 DEF Select
    <3> QED
      BY <3>3, <3>4
  <2>2. CASE content = ById(content.of)
    <3>1. content.kind = "runtime"
      BY <2>2 DEF ById
    <3>2. \A known : Candidates(content, known) = {r \in known : r.id = content.of}
      BY <3>1 DEF Candidates, Matches
    <3>3. CASE Candidates(content, runtimes) # {}
      <4>1. PICK s \in runtimes : s.id = content.of
        BY <3>2, <3>3
      <4>2. \A r \in runtimes' : r.id = content.of => r = s
        BY <1>1, <4>1 DEF SelectionIInv, OneOfAnId
      <4>3. Candidates(content, runtimes') = Candidates(content, runtimes)
        BY <1>1, <3>2, <4>1, <4>2
      <4> QED
        BY <3>3, <4>3 DEF Select
    <3>4. CASE Candidates(content, runtimes) = {}
      <4>1. \A r \in Select(content, runtimes') : r.id = content.of
        BY <3>2 DEF Select
      <4> QED
        BY <2>2, <3>4, <4>1
    <3> QED
      BY <3>3, <3>4
  <2> QED
    BY <1>1, <2>1, <2>2 DEF Settled
<1>2. SelectionIInv /\ SelectionIInv' /\ [Next]_vars =>
        [runtimes \subseteq runtimes' =>
           \A content \in {session[id] : id \in Identity} \cup {global} : Pin(content)]_vars
  <2> SUFFICES ASSUME SelectionIInv, SelectionIInv', runtimes \subseteq runtimes',
                      NEW content \in {session[id] : id \in Identity} \cup {global}
               PROVE  Pin(content)
    OBVIOUS
  <2>1. Settled(content)
    BY DEF SelectionIInv, AllSettled
  <2> HIDE DEF Pin
  <2> QED
    BY <1>1, <2>1
<1> QED
  BY <1>2, SelectionHolds, PTL DEF Spec, PinsAreStable

\* "Precedence is explicit > current terminal > nearest project > global" (README.md:125):
\* a command that nothing disturbs runs the one runtime that the nearest terminal, project
\* or user's choice singles out, however long the walk to its terminal is, and whatever
\* others do meanwhile that does not disturb it.
THEOREM ResolvesExactly == Spec => []ResolutionIsExact
<1>1. SelectionIInv /\ ExactIInv => ResolutionIsExact
  <2> SUFFICES ASSUME SelectionIInv, ExactIInv, NEW p \in Pid, job[p].step = "done", job[p].quiet
               PROVE  LET terminal == TerminalChoice(p)
                      IN  job[p].result =
                            Best(IF terminal \in {Absent, Cleared} THEN FileChoice ELSE terminal)
    BY DEF ResolutionIsExact
  <2>1. job[p].command = "run" /\ job[p].result = Best(Aim(p))
    BY DEF ExactIInv, ExactIn, Quiet
  <2> QED
    BY <2>1 DEF Aim
<1>2. Spec => []ExactIInv
  BY InitialExact, ExactStep, SelectionHolds, PTL DEF Spec
<1> QED
  BY <1>1, <1>2, SelectionHolds, PTL

=============================================================================
