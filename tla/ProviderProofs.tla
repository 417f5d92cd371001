--------------------------- MODULE ProviderProofs ---------------------------
(***************************************************************************)
(* Theorems about Provider, for any number of processes, pages, versions,  *)
(* bodies, index generations and events.                                   *)
(***************************************************************************)
EXTENDS Provider, TLAPS

-----------------------------------------------------------------------------
(* The inductive invariant *)

\* Some signed page names the body for the version.
Signed(v, body) == \E g \in Generation : Lists(g, v, body)

\* What a command knows at each of its steps.
JobFits(p) ==
    /\ pc[p] \in Refreshing =>
         /\ job[p].page \in Page
         /\ \A r \in job[p].found : Signed(r.version, r.body)
    /\ pc[p] \in Refreshing \ {"page"} => job[p].generation \in Generation
    /\ pc[p] \in Downloading \cup {"selected", "cached", "unpacking"} =>
         /\ job[p].version \in Version /\ job[p].want \in Body
         /\ Signed(job[p].version, job[p].want)
    /\ pc[p] \in {"selected", "connecting", "truncating"} => job[p].start = 0
    /\ pc[p] \in {"truncating", "tagging", "receiving"} => job[p].sends \in Body

\* What is read while it is unpacked stays the archive the digest names.
HoldsWhole(p) == pc[p] = "unpacking" => target[job[p].want] = Whole(job[p].want)

\* Unless its tag was lost, a partial download is of the body its tag names, and of
\* the body the running answer continues.
PartMatches(p) ==
    LET d == job[p].want
    IN  /\ pc[p] = "tagging" /\ job[p].start = 0 => part[d] = <<>>
        /\ pc[p] = "tagging" /\ job[p].start = 1 /\ d \notin loose =>
             \A i \in DOMAIN part[d] : part[d][i] = job[p].sends
        /\ pc[p] = "receiving" /\ d \notin loose => etag[d] = job[p].sends

IInv ==
    /\ TypeOK /\ NoSplice
    /\ \A p \in Proc : JobFits(p) /\ HoldsWhole(p) /\ PartMatches(p)

-----------------------------------------------------------------------------
(* Types *)

\* The half of the type invariant about the processes, and the half about the files.
ProcsOK ==
    /\ feed_lock \in Proc \cup {None} /\ download_lock \in Proc \cup {None}
    /\ \A p \in Proc : (feed_lock = p) <=> (pc[p] \in Refreshing)
    /\ \A p \in Proc : (download_lock = p) <=> (pc[p] \in Downloading)
    /\ pc \in [Proc -> Refreshing \cup Downloading \cup {"idle", "selected", "cached", "unpacking"}]
    /\ job \in [Proc -> Job]

FilesOK ==
    /\ served \in Generation
    /\ origin \in [Version -> Body]
    /\ index \in [Page -> 0..MaxGeneration] /\ signature \in [Page -> 0..MaxGeneration]
    /\ part \in [Body -> Blocks] /\ etag \in [Body -> Body \cup {None}]
    /\ target \in [Body -> Blocks \cup {Corrupt}]
    /\ loose \subseteq Body /\ events \in 0..MaxEvents

LEMMA TypeSplits ==
    /\ TypeOK <=> ProcsOK /\ FilesOK
    /\ TypeOK' <=> ProcsOK' /\ FilesOK'
BY DEF TypeOK, ProcsOK, FilesOK

LEMMA NoJobType == NoJob \in Job
BY ProviderAssumption DEF NoJob, Job

LEMMA WholeType ==
    ASSUME NEW d \in Body
    PROVE  /\ Whole(d) \in Blocks /\ Whole(d) # <<>>
           /\ Len(Whole(d)) = Length[d]
           /\ \A i \in DOMAIN Whole(d) : Whole(d)[i] = d
<1>1. Length[d] \in Nat /\ Length[d] # 0
  BY ProviderAssumption
<1>2. Whole(d) \in [1..Length[d] -> Body]
  BY DEF Whole
<1>3. Whole(d) \in Seq(Body)
  BY <1>1, <1>2
<1> QED BY <1>1, <1>2, <1>3 DEF Whole, Blocks

\* An archive another program left is no archive of any body.
LEMMA CorruptDiffers == Corrupt # <<>> /\ \A d \in Body : Corrupt # Whole(d)
<1>1. ASSUME NEW d \in Body, Corrupt = Whole(d)  PROVE FALSE
  <2>1. Corrupt[1] = None /\ 1 \in DOMAIN Corrupt
    BY DEF Corrupt
  <2>2. Corrupt[1] = d
    BY <1>1, <2>1, WholeType
  <2> QED BY <2>1, <2>2, ProviderAssumption
<1> QED BY <1>1 DEF Corrupt

\* A command that ends gives back what it held, and nothing of another command's.
LEMMA EndsGoes ==
    ASSUME ProcsOK, NEW p \in Proc, Ends(p)
    PROVE  /\ ProcsOK'
           /\ pc'[p] = "idle" /\ job'[p] = NoJob
           /\ \A q \in Proc \ {p} : pc'[q] = pc[q] /\ job'[q] = job[q]
<1> USE ProviderAssumption, NoJobType DEF ProcsOK, Ends
<1>1. job' \in [Proc -> Job] /\ None \notin Proc
  OBVIOUS
<1>2. pc'[p] = "idle" /\ \A q \in Proc \ {p} : pc'[q] = pc[q]
  OBVIOUS
<1>3. \A q \in Proc : (feed_lock' = q) <=> (pc'[q] \in Refreshing)
  BY <1>1, <1>2 DEF Refreshing
<1>4. \A q \in Proc : (download_lock' = q) <=> (pc'[q] \in Downloading)
  BY <1>1, <1>2 DEF Downloading
<1> QED BY <1>1, <1>2, <1>3, <1>4

\* A command that goes on within its phase keeps its locks.
LEMMA GoesOn ==
    ASSUME ProcsOK, NEW p \in Proc, NEW step, NEW what \in Job, GoesWith(p, step, what),
           \/ pc[p] \in Refreshing /\ step \in Refreshing
           \/ pc[p] \in Downloading /\ step \in Downloading
           \/ /\ pc[p] \notin Refreshing \cup Downloading
              /\ step \in {"idle", "selected", "cached", "unpacking"}
    PROVE  /\ ProcsOK'
           /\ pc'[p] = step /\ job'[p] = what
           /\ \A q \in Proc \ {p} : pc'[q] = pc[q] /\ job'[q] = job[q]
BY DEF ProcsOK, GoesWith, Refreshing, Downloading, locks

LEMMA GoesIsWith ==
    ASSUME ProcsOK, NEW p \in Proc, NEW step, Goes(p, step)
    PROVE  GoesWith(p, step, job[p]) /\ job[p] \in Job
<1>1. job = [job EXCEPT ![p] = job[p]] /\ job[p] \in Job
  BY DEF ProcsOK
<1> QED BY <1>1 DEF Goes, GoesWith

-----------------------------------------------------------------------------
(* The jobs the actions make *)

LEMMA JobField ==
    ASSUME NEW j \in Job
    PROVE  /\ \A b \in BOOLEAN : [j EXCEPT !.offline = b] \in Job
           /\ \A page \in Page \cup {None} : [j EXCEPT !.page = page] \in Job
           /\ \A pages \in SUBSET Page : [j EXCEPT !.visited = pages] \in Job
           /\ \A g \in 0..MaxGeneration : [j EXCEPT !.generation = g] \in Job
           /\ \A f \in SUBSET [version : Version, body : Body] : [j EXCEPT !.found = f] \in Job
           /\ \A v \in Version : [j EXCEPT !.version = v] \in Job
           /\ \A d \in Body : [j EXCEPT !.want = d] \in Job
           /\ \A a \in 0..3 : [j EXCEPT !.attempt = a] \in Job
           /\ \A d \in Body \cup {None} : [j EXCEPT !.sends = d] \in Job
           /\ [j EXCEPT !.start = 0] \in Job /\ [j EXCEPT !.start = 1] \in Job
           /\ [j EXCEPT !.attempt = 0] \in Job
BY DEF Job

JobStart(b) == [NoJob EXCEPT !.offline = b, !.page = FirstPage]
JobVisit(j, g, page) == [j EXCEPT !.generation = g, !.visited = @ \cup {page}]
JobLearn(j, f, page) == [j EXCEPT !.found = f, !.page = page]
JobSelect(b, v, d) == [NoJob EXCEPT !.offline = b, !.version = v, !.want = d]
JobAttempt(j, a) == [j EXCEPT !.attempt = a, !.sends = None, !.start = 0]
JobWhole(j, d) == [j EXCEPT !.sends = d]
JobRange(j, d) == [j EXCEPT !.sends = d, !.start = 1]
JobTag(j) == [j EXCEPT !.start = 0]
JobReceive(j) == [j EXCEPT !.sends = None, !.attempt = 0]

LEMMA JobBegins ==
    ASSUME NEW b \in BOOLEAN
    PROVE  LET new == JobStart(b)
           IN  /\ new \in Job
               /\ new.page = FirstPage /\ new.found = {}
<1> DEFINE j == [NoJob EXCEPT !.offline = b]
<1>1. j \in Job
  BY NoJobType, JobField
<1> HIDE DEF j
<1>2. [j EXCEPT !.page = FirstPage] \in Job
  BY <1>1, JobField, ProviderAssumption
<1>3. JobStart(b) \in Job
  BY <1>2 DEF j, JobStart
<1> QED BY <1>3 DEF NoJob, JobStart

LEMMA JobVisits ==
    ASSUME NEW j \in Job, NEW g \in Generation, NEW page \in Page
    PROVE  LET new == JobVisit(j, g, page)
           IN  /\ new \in Job
               /\ new.page = j.page /\ new.found = j.found /\ new.generation = g
<1> DEFINE k == [j EXCEPT !.generation = g]
<1>1. g \in 0..MaxGeneration
  BY ProviderAssumption DEF Generation
<1>2. k \in Job
  BY <1>1, JobField
<1>3. k.visited \in SUBSET Page /\ k.visited = j.visited
  BY DEF Job
<1> HIDE DEF k
<1>4. [k EXCEPT !.visited = k.visited \cup {page}] \in Job
  BY <1>2, <1>3, JobField
<1>5. JobVisit(j, g, page) \in Job
  BY <1>4, <1>3 DEF k, JobVisit
<1> QED BY <1>5 DEF Job, JobVisit

LEMMA JobLearns ==
    ASSUME NEW j \in Job, NEW f \in SUBSET [version : Version, body : Body],
           NEW page \in Page
    PROVE  LET new == JobLearn(j, f, page)
           IN  new \in Job /\ new.page = page /\ new.found = f
<1> DEFINE k == [j EXCEPT !.found = f]
<1>1. k \in Job
  BY JobField
<1> HIDE DEF k
<1>2. [k EXCEPT !.page = page] \in Job
  BY <1>1, JobField
<1>3. JobLearn(j, f, page) \in Job
  BY <1>2 DEF k, JobLearn
<1> QED BY <1>3 DEF Job, JobLearn

LEMMA JobSelects ==
    ASSUME NEW b \in BOOLEAN, NEW v \in Version, NEW d \in Body
    PROVE  LET new == JobSelect(b, v, d)
           IN  new \in Job /\ new.version = v /\ new.want = d /\ new.start = 0
<1> DEFINE j == [NoJob EXCEPT !.offline = b]
           k == [j EXCEPT !.version = v]
<1>1. j \in Job
  BY NoJobType, JobField
<1> HIDE DEF j
<1>2. k \in Job
  BY <1>1, JobField
<1> HIDE DEF k
<1>3. [k EXCEPT !.want = d] \in Job
  BY <1>2, JobField
<1>4. JobSelect(b, v, d) \in Job
  BY <1>3 DEF j, k, JobSelect
<1> QED BY <1>4 DEF NoJob, JobSelect

LEMMA JobAttempts ==
    ASSUME NEW j \in Job, NEW a \in 0..3
    PROVE  LET new == JobAttempt(j, a)
           IN  /\ new \in Job /\ new.version = j.version /\ new.want = j.want
               /\ new.start = 0
<1> DEFINE k == [j EXCEPT !.attempt = a]
           l == [k EXCEPT !.sends = None]
<1>1. k \in Job
  BY JobField
<1> HIDE DEF k
<1>2. l \in Job
  BY <1>1, JobField
<1> HIDE DEF l
<1>3. [l EXCEPT !.start = 0] \in Job
  BY <1>2, JobField
<1>4. JobAttempt(j, a) \in Job
  BY <1>3 DEF k, l, JobAttempt
<1> QED BY <1>4 DEF Job, JobAttempt

LEMMA JobAnswered ==
    ASSUME NEW j \in Job, NEW d \in Body
    PROVE  /\ LET new == JobWhole(j, d)
              IN  /\ new \in Job /\ new.version = j.version /\ new.want = j.want
                  /\ new.sends = d /\ new.start = j.start
           /\ LET new == JobRange(j, d)
              IN  /\ new \in Job /\ new.version = j.version /\ new.want = j.want
                  /\ new.sends = d /\ new.start = 1
<1> DEFINE k == [j EXCEPT !.sends = d]
<1>1. k \in Job
  BY JobField
<1>2. k.version = j.version /\ k.want = j.want /\ k.sends = d /\ k.start = j.start
  BY DEF Job
<1> HIDE DEF k
<1>3. [k EXCEPT !.start = 1] \in Job
  BY <1>1, JobField
<1>4. JobRange(j, d) \in Job /\ JobWhole(j, d) \in Job
  BY <1>1, <1>3 DEF k, JobRange, JobWhole
<1>5. LET new == JobRange(j, d)
      IN  new.version = j.version /\ new.want = j.want /\ new.sends = d /\ new.start = 1
  BY DEF Job, JobRange
<1> QED BY <1>2, <1>4, <1>5 DEF k, JobWhole

LEMMA JobTagged ==
    ASSUME NEW j \in Job
    PROVE  LET new == JobTag(j)
           IN  /\ new \in Job /\ new.version = j.version /\ new.want = j.want
               /\ new.sends = j.sends /\ new.start = 0
<1>1. JobTag(j) \in Job
  BY JobField DEF JobTag
<1> QED BY <1>1 DEF Job, JobTag

LEMMA JobReceived ==
    ASSUME NEW j \in Job
    PROVE  LET new == JobReceive(j)
           IN  new \in Job /\ new.version = j.version /\ new.want = j.want
<1> DEFINE k == [j EXCEPT !.sends = None]
<1>1. k \in Job
  BY JobField
<1> HIDE DEF k
<1>2. [k EXCEPT !.attempt = 0] \in Job
  BY <1>1, JobField
<1>3. JobReceive(j) \in Job
  BY <1>2 DEF k, JobReceive
<1> QED BY <1>3 DEF Job, JobReceive

-----------------------------------------------------------------------------
(* Every step keeps the types *)

\* An attempt that fails goes back to the connection, or ends the command.
LEMMA NextAttemptGoes ==
    ASSUME ProcsOK, NEW p \in Proc, pc[p] \in Downloading, NextAttempt(p)
    PROVE  /\ ProcsOK'
           /\ \/ pc'[p] = "idle" /\ job'[p] = NoJob
              \/ /\ pc'[p] = "connecting" /\ job'[p].version = job[p].version
                 /\ job'[p].want = job[p].want /\ job'[p].start = 0
           /\ \A q \in Proc \ {p} : pc'[q] = pc[q] /\ job'[q] = job[q]
<1>1. CASE job[p].attempt = 3
  BY <1>1, EndsGoes DEF NextAttempt
<1>2. CASE job[p].attempt # 3
  <2> DEFINE what == JobAttempt(job[p], job[p].attempt + 1)
  <2>1. job[p] \in Job
    BY DEF ProcsOK
  <2>2. job[p].attempt + 1 \in 0..3
    BY <1>2, <2>1 DEF Job
  <2>3. what \in Job /\ what.version = job[p].version /\ what.want = job[p].want
      /\ what.start = 0
    BY <2>1, <2>2, JobAttempts
  <2>4. GoesWith(p, "connecting", what)
    BY <1>2 DEF NextAttempt, JobAttempt
  <2> HIDE DEF what
  <2> QED BY <2>3, <2>4, GoesOn DEF Downloading
<1> QED BY <1>1, <1>2

\* What a command does with its own job, and with nobody else's.
JobsOfOthers(p) == \A q \in Proc \ {p} : pc'[q] = pc[q] /\ job'[q] = job[q]

\* Every step of a command keeps the types.
LEMMA BeginTypes ==
    ASSUME TypeOK, NEW p \in Proc, NEW offline \in BOOLEAN, Begin(p, offline)
    PROVE  TypeOK' /\ JobsOfOthers(p)
<1> DEFINE what == JobStart(offline)
<1>1. what \in Job
  BY JobBegins
<1>2. /\ pc[p] = "idle" /\ feed_lock = None /\ feed_lock' = p /\ UNCHANGED download_lock
      /\ pc' = [pc EXCEPT ![p] = "page"] /\ job' = [job EXCEPT ![p] = what]
  BY DEF Begin, JobStart
<1>3. ProcsOK /\ FilesOK
  BY TypeSplits
<1> HIDE DEF what
<1>4. ProcsOK'
  <2> USE <1>2, <1>3 DEF ProcsOK
  <2>1. job' \in [Proc -> Job]
    BY <1>1
  <2>2. \A q \in Proc : (feed_lock' = q) <=> (pc'[q] \in Refreshing)
    BY ProviderAssumption DEF Refreshing
  <2>3. \A q \in Proc : (download_lock' = q) <=> (pc'[q] \in Downloading)
    BY DEF Downloading
  <2>4. pc' \in [Proc -> Refreshing \cup Downloading
                          \cup {"idle", "selected", "cached", "unpacking"}]
    BY DEF Refreshing
  <2> QED BY <2>1, <2>2, <2>3, <2>4
<1>5. FilesOK'
  BY <1>3 DEF Begin, FilesOK, server, cache
<1> QED BY <1>2, <1>3, <1>4, <1>5, TypeSplits DEF JobsOfOthers, ProcsOK

LEMMA FetchIndexStep ==
    ASSUME IInv, NEW p \in Proc, FetchIndex(p)
    PROVE  TypeOK' /\ JobsOfOthers(p) /\ JobFits(p)'
<1> DEFINE what == JobVisit(job[p], served, job[p].page)
<1>1. ProcsOK /\ FilesOK /\ job[p] \in Job /\ served \in Generation
  BY TypeSplits DEF IInv, ProcsOK, FilesOK
<1>2. /\ pc[p] = "page" /\ job[p].page \in Page
      /\ \A r \in job[p].found : Signed(r.version, r.body)
  BY DEF IInv, JobFits, FetchIndex, Refreshing
<1>3. what \in Job /\ what.page \in Page /\ what.found = job[p].found
      /\ what.generation \in Generation
  BY <1>1, <1>2, JobVisits
<1>4. FilesOK'
  BY <1>1 DEF FetchIndex, FilesOK, server, cache
<1>5. Ends(p) \/ GoesWith(p, "signing", what)
  BY DEF FetchIndex, JobVisit
<1> HIDE DEF what
<1>6. CASE Ends(p)
  BY <1>1, <1>4, <1>6, EndsGoes, TypeSplits DEF JobsOfOthers, JobFits, Refreshing, Downloading
<1>7. CASE GoesWith(p, "signing", what)
  <2>1. ProcsOK' /\ JobsOfOthers(p) /\ pc'[p] = "signing" /\ job'[p] = what
    BY <1>1, <1>2, <1>3, <1>7, GoesOn DEF Refreshing, JobsOfOthers
  <2> QED BY <1>2, <1>3, <1>4, <2>1, TypeSplits DEF JobFits, Downloading
<1> QED BY <1>5, <1>6, <1>7

LEMMA FetchSignatureStep ==
    ASSUME IInv, NEW p \in Proc, FetchSignature(p)
    PROVE  TypeOK' /\ JobsOfOthers(p) /\ JobFits(p)'
<1>1. ProcsOK /\ FilesOK /\ JobFits(p) /\ pc[p] = "signing"
  BY TypeSplits DEF IInv, FetchSignature
<1>2. FilesOK'
  BY <1>1 DEF FetchSignature, FilesOK, server, cache
<1>3. CASE Ends(p)
  BY <1>1, <1>2, <1>3, EndsGoes, TypeSplits DEF JobsOfOthers, JobFits, Refreshing, Downloading
<1>4. CASE Goes(p, "saving")
  <2>1. ProcsOK' /\ JobsOfOthers(p) /\ pc'[p] = "saving" /\ job'[p] = job[p]
    BY <1>1, <1>4, GoesIsWith, GoesOn DEF Refreshing, JobsOfOthers
  <2> QED BY <1>1, <1>2, <2>1, TypeSplits DEF JobFits, Refreshing, Downloading
<1> QED BY <1>3, <1>4 DEF FetchSignature

LEMMA SaveStep ==
    ASSUME IInv, NEW p \in Proc, SaveIndex(p) \/ SaveSignature(p)
    PROVE  TypeOK' /\ JobsOfOthers(p) /\ JobFits(p)'
<1>1. ProcsOK /\ FilesOK /\ JobFits(p) /\ pc[p] \in {"saving", "sealing"} /\ job[p] \in Job
  BY TypeSplits DEF IInv, SaveIndex, SaveSignature, ProcsOK
<1>2. PICK step \in {"sealing", "reading"} : Goes(p, step)
  BY DEF SaveIndex, SaveSignature
<1>3. ProcsOK' /\ JobsOfOthers(p) /\ pc'[p] \in {"sealing", "reading"} /\ job'[p] = job[p]
  BY <1>1, <1>2, GoesIsWith, GoesOn DEF Refreshing, JobsOfOthers
<1>4. job[p].generation \in 0..MaxGeneration
  BY <1>1 DEF Job
<1>5. FilesOK'
  BY <1>1, <1>4 DEF SaveIndex, SaveSignature, FilesOK, server
<1> QED BY <1>1, <1>3, <1>5, TypeSplits DEF JobFits, Refreshing, Downloading

LEMMA ReadCachedStep ==
    ASSUME IInv, NEW p \in Proc, ReadCached(p)
    PROVE  TypeOK' /\ JobsOfOthers(p) /\ JobFits(p)'
<1> DEFINE page == job[p].page
           what == JobVisit(job[p], index[page], page)
<1>1. ProcsOK /\ FilesOK /\ job[p] \in Job
  BY TypeSplits DEF IInv, ProcsOK
<1>2. /\ pc[p] = "page" /\ job[p].page \in Page
      /\ \A r \in job[p].found : Signed(r.version, r.body)
  BY DEF IInv, JobFits, ReadCached, Refreshing
<1>3. FilesOK'
  BY <1>1 DEF ReadCached, FilesOK, server, cache
<1>4. Ends(p) \/ (index[page] # 0 /\ GoesWith(p, "reading", what))
  <2> DEFINE ready == page \notin job[p].visited /\ index[page] # 0
                      /\ index[page] = signature[page]
  <2>1. IF ready THEN GoesWith(p, "reading", what) ELSE Ends(p)
    BY DEF ReadCached, JobVisit
  <2>2. ready => index[page] # 0
    OBVIOUS
  <2> HIDE DEF ready, what
  <2> QED BY <2>1, <2>2
<1>5. index[page] # 0 => index[page] \in Generation
  BY <1>1, <1>2, ProviderAssumption DEF FilesOK, Generation
<1>6. index[page] # 0 => /\ what \in Job /\ what.page \in Page /\ what.found = job[p].found
                         /\ what.generation \in Generation
  BY <1>1, <1>2, <1>5, JobVisits
<1> HIDE DEF what, page
<1>7. CASE Ends(p)
  BY <1>1, <1>3, <1>7, EndsGoes, TypeSplits DEF JobsOfOthers, JobFits, Refreshing, Downloading
<1>8. CASE index[page] # 0 /\ GoesWith(p, "reading", what)
  <2>1. ProcsOK' /\ JobsOfOthers(p) /\ pc'[p] = "reading" /\ job'[p] = what
    BY <1>1, <1>2, <1>6, <1>8, GoesOn DEF Refreshing, JobsOfOthers
  <2> QED BY <1>2, <1>3, <1>6, <1>8, <2>1, TypeSplits DEF JobFits, Downloading
<1> QED BY <1>4, <1>7, <1>8

\* The artifacts of a signed page are what it names.
LEMMA ConvertedIsSigned ==
    ASSUME NEW g \in Generation, NEW page \in Page,
           NEW r \in Converted(Document[g][page].entries)
    PROVE  r \in [version : Version, body : Body] /\ Signed(r.version, r.body)
<1>1. PICK e \in Document[g][page].entries :
        e.kind = "artifact" /\ r = [version |-> e.version, body |-> e.body]
  BY DEF Converted
<1>2. e \in Entry
  BY ProviderAssumption
<1>3. /\ e = [kind |-> "artifact", version |-> e.version, body |-> e.body]
      /\ e.version \in Version /\ e.body \in Body
  BY <1>1, <1>2 DEF Entry
<1>4. r.version = e.version /\ r.body = e.body
  BY <1>1
<1>5. Lists(g, e.version, e.body)
  BY <1>3 DEF Lists
<1> QED BY <1>1, <1>3, <1>4, <1>5 DEF Signed

LEMMA ReadPageStep ==
    ASSUME IInv, NEW p \in Proc, ReadPage(p)
    PROVE  TypeOK' /\ JobsOfOthers(p) /\ JobFits(p)'
<1> DEFINE document == Document[job[p].generation][job[p].page]
           found == job[p].found \cup Converted(document.entries)
           next == JobLearn(job[p], found, document.next)
           new(r) == JobSelect(job[p].offline, r.version, r.body)
<1>1. ProcsOK /\ FilesOK /\ job[p] \in Job
  BY TypeSplits DEF IInv, ProcsOK
<1>2. /\ pc[p] = "reading" /\ job[p].page \in Page /\ job[p].generation \in Generation
      /\ \A r \in job[p].found : Signed(r.version, r.body)
  BY DEF IInv, JobFits, ReadPage, Refreshing
<1>3. FilesOK'
  BY <1>1 DEF ReadPage, FilesOK, server, cache
<1>4. \A r \in found : r \in [version : Version, body : Body] /\ Signed(r.version, r.body)
  <2>1. job[p].found \subseteq [version : Version, body : Body]
    BY <1>1 DEF Job
  <2> QED BY <1>2, <2>1, ConvertedIsSigned
<1>5. document.next \in Page \cup {None, Elsewhere}
  BY <1>2, ProviderAssumption
<1>6. \/ Ends(p)
      \/ /\ \E r \in found :
              pc' = [pc EXCEPT ![p] = "selected"] /\ job' = [job EXCEPT ![p] = new(r)]
         /\ feed_lock' = None /\ UNCHANGED download_lock
      \/ document.next \in Page /\ GoesWith(p, "page", next)
  BY <1>5 DEF ReadPage, JobLearn, JobSelect
<1>7. document.next \in Page => next \in Job /\ next.page \in Page /\ next.found = found
  BY <1>1, <1>4, JobLearns
<1>8. \A r \in found :
        new(r) \in Job /\ new(r).version = r.version /\ new(r).want = r.body
        /\ new(r).start = 0 /\ r.version \in Version /\ r.body \in Body
  <2> TAKE r \in found
  <2>1. r.version \in Version /\ r.body \in Body /\ job[p].offline \in BOOLEAN
    BY <1>1, <1>4 DEF Job
  <2> QED BY <2>1, JobSelects
<1> HIDE DEF new, next, found, document
<1>9. CASE Ends(p)
  BY <1>1, <1>3, <1>9, EndsGoes, TypeSplits DEF JobsOfOthers, JobFits, Refreshing, Downloading
<1>10. CASE document.next \in Page /\ GoesWith(p, "page", next)
  <2>1. ProcsOK' /\ JobsOfOthers(p) /\ pc'[p] = "page" /\ job'[p] = next
    BY <1>1, <1>2, <1>7, <1>10, GoesOn DEF Refreshing, JobsOfOthers
  <2> QED BY <1>3, <1>4, <1>7, <1>10, <2>1, TypeSplits DEF JobFits, Downloading
<1>11. ASSUME NEW r \in found, pc' = [pc EXCEPT ![p] = "selected"],
              job' = [job EXCEPT ![p] = new(r)], feed_lock' = None, UNCHANGED download_lock
       PROVE  TypeOK' /\ JobsOfOthers(p) /\ JobFits(p)'
  <2> USE <1>1 DEF ProcsOK
  <2>1. job' \in [Proc -> Job] /\ job'[p] = new(r) /\ pc'[p] = "selected"
    BY <1>8, <1>11
  <2>2. JobsOfOthers(p)
    BY <1>11 DEF JobsOfOthers
  <2>3. feed_lock = p
    BY <1>2 DEF Refreshing
  <2>4. \A q \in Proc : (feed_lock' = q) <=> (pc'[q] \in Refreshing)
    BY <1>11, <2>3, ProviderAssumption DEF Refreshing
  <2>5. \A q \in Proc : (download_lock' = q) <=> (pc'[q] \in Downloading)
    BY <1>2, <1>11 DEF Downloading
  <2>6. ProcsOK'
    BY <1>11, <2>1, <2>4, <2>5
  <2> QED BY <1>3, <1>4, <1>8, <2>1, <2>2, <2>6, TypeSplits
          DEF JobFits, Refreshing, Downloading
<1> QED BY <1>6, <1>9, <1>10, <1>11

\* The download lock keeps everybody else out of the partial downloads.
LEMMA Alone ==
    ASSUME ProcsOK, NEW p \in Proc, pc[p] \in Downloading
    PROVE  \A q \in Proc \ {p} : pc[q] \notin Downloading
BY DEF ProcsOK

StepOK(p) ==
    /\ TypeOK' /\ JobsOfOthers(p) /\ NoSplice'
    /\ JobFits(p)' /\ HoldsWhole(p)' /\ PartMatches(p)'

\* A command that stops, or waits for its next attempt, leaves the files alone.
LEMMA QuietStep ==
    ASSUME IInv, NEW p \in Proc, ProcsOK', JobsOfOthers(p), JobFits(p)', FilesOK',
           UNCHANGED <<part, etag, target, loose>>,
           pc'[p] \notin {"tagging", "truncating", "receiving", "unpacking"}
    PROVE  StepOK(p)
<1>1. NoSplice'
  BY DEF IInv, NoSplice
<1> QED BY <1>1, TypeSplits DEF StepOK, HoldsWhole, PartMatches

LEMMA StartDownloadStep ==
    ASSUME IInv, NEW p \in Proc, StartDownload(p)
    PROVE  StepOK(p)
<1>1. ProcsOK /\ FilesOK /\ JobFits(p) /\ pc[p] = "selected" /\ job[p] \in Job
  BY TypeSplits DEF IInv, StartDownload, ProcsOK
<1>2. FilesOK' /\ UNCHANGED <<part, etag, target, loose>>
  BY <1>1 DEF StartDownload, FilesOK, server, cache
<1>3. CASE Ends(p)
  <2>1. ProcsOK' /\ JobsOfOthers(p) /\ pc'[p] = "idle"
    BY <1>1, <1>3, EndsGoes DEF JobsOfOthers
  <2>2. JobFits(p)'
    BY <2>1 DEF JobFits, Refreshing, Downloading
  <2> QED BY <1>2, <2>1, <2>2, QuietStep
<1>4. CASE Goes(p, "cached")
  <2>1. ProcsOK' /\ JobsOfOthers(p) /\ pc'[p] = "cached" /\ job'[p] = job[p]
    BY <1>1, <1>4, GoesIsWith, GoesOn DEF JobsOfOthers, Refreshing, Downloading
  <2>2. JobFits(p)'
    BY <1>1, <2>1 DEF JobFits, Refreshing, Downloading
  <2> QED BY <1>2, <2>1, <2>2, QuietStep
<1>5. CASE /\ download_lock = None /\ download_lock' = p /\ UNCHANGED feed_lock
           /\ pc' = [pc EXCEPT ![p] = "connecting"]
           /\ job' = [job EXCEPT ![p].attempt = 1]
  <2> DEFINE what == [job[p] EXCEPT !.attempt = 1]
  <2>1. what \in Job /\ what.version = job[p].version /\ what.want = job[p].want
        /\ what.start = job[p].start
    <3>1. 1 \in 0..3
      OBVIOUS
    <3> QED BY <1>1, <3>1, JobField DEF Job
  <2>2. job' = [job EXCEPT ![p] = what]
    BY <1>5
  <2> HIDE DEF what
  <2> USE <1>1, <1>5 DEF ProcsOK
  <2>3. job' \in [Proc -> Job] /\ job'[p] = what /\ pc'[p] = "connecting"
    BY <2>1, <2>2
  <2>4. JobsOfOthers(p)
    BY <2>2 DEF JobsOfOthers
  <2>5. \A q \in Proc : (feed_lock' = q) <=> (pc'[q] \in Refreshing)
    BY DEF Refreshing
  <2>6. \A q \in Proc : (download_lock' = q) <=> (pc'[q] \in Downloading)
    BY ProviderAssumption DEF Downloading
  <2>7. ProcsOK'
    <3>1. pc' \in [Proc -> Refreshing \cup Downloading
                            \cup {"idle", "selected", "cached", "unpacking"}]
      BY DEF Downloading
    <3> QED BY <2>3, <2>5, <2>6, <3>1
  <2>8. JobFits(p)'
    BY <2>1, <2>3 DEF JobFits, Refreshing, Downloading
  <2> QED BY <1>2, <2>3, <2>4, <2>7, <2>8, QuietStep
<1> QED BY <1>3, <1>4, <1>5 DEF StartDownload

LEMMA AnswerStep ==
    ASSUME IInv, NEW p \in Proc, AnswerWhole(p) \/ AnswerRange(p)
    PROVE  StepOK(p)
<1> DEFINE d == job[p].want
           sent == origin[job[p].version]
<1>1. ProcsOK /\ FilesOK /\ JobFits(p) /\ NoSplice /\ pc[p] = "connecting" /\ job[p] \in Job
  BY TypeSplits DEF IInv, AnswerWhole, AnswerRange, ProcsOK
<1>2. FilesOK' /\ UNCHANGED <<part, etag, target, loose>>
  BY <1>1 DEF AnswerWhole, AnswerRange, FilesOK, server, cache
<1>3. NoSplice'
  BY <1>1, <1>2 DEF NoSplice
<1>4. sent \in Body /\ d \in Body
  BY <1>1 DEF JobFits, FilesOK, Downloading
<1>5. CASE AnswerWhole(p)
  <2> DEFINE what == JobWhole(job[p], sent)
  <2>1. /\ what \in Job /\ what.version = job[p].version /\ what.want = d
        /\ what.sends = sent /\ what.start = job[p].start
    BY <1>1, <1>4, JobAnswered
  <2>2. GoesWith(p, "truncating", what)
    BY <1>5 DEF AnswerWhole, JobWhole
  <2> HIDE DEF what, sent
  <2>3. ProcsOK' /\ JobsOfOthers(p) /\ pc'[p] = "truncating" /\ job'[p] = what
    BY <1>1, <2>1, <2>2, GoesOn DEF Downloading, JobsOfOthers
  <2>4. JobFits(p)' /\ HoldsWhole(p)'
    BY <1>1, <1>4, <2>1, <2>3 DEF JobFits, HoldsWhole, Refreshing, Downloading
  <2>5. PartMatches(p)'
    BY <2>3 DEF PartMatches
  <2> QED BY <1>2, <1>3, <2>3, <2>4, <2>5, TypeSplits DEF StepOK
<1>6. CASE AnswerRange(p)
  <2> DEFINE what == JobRange(job[p], sent)
  <2>1. /\ what \in Job /\ what.version = job[p].version /\ what.want = d
        /\ what.sends = sent /\ what.start = 1
    BY <1>1, <1>4, JobAnswered
  <2>2. GoesWith(p, "tagging", what)
    BY <1>6 DEF AnswerRange, JobRange
  <2>3. part[d] # <<>> /\ etag[d] \in {None, sent}
    BY <1>6 DEF AnswerRange, Resumable
  <2> HIDE DEF what, sent
  <2>4. ProcsOK' /\ JobsOfOthers(p) /\ pc'[p] = "tagging" /\ job'[p] = what
    BY <1>1, <2>1, <2>2, GoesOn DEF Downloading, JobsOfOthers
  <2>5. JobFits(p)' /\ HoldsWhole(p)'
    BY <1>1, <1>4, <2>1, <2>4 DEF JobFits, HoldsWhole, Refreshing, Downloading
  <2>6. d \notin loose => \A i \in DOMAIN part[d] : part[d][i] = sent
    <3>1. part[d] \in Seq(Body)
      BY <1>1, <1>4 DEF FilesOK, Blocks
    <3>2. 1 \in DOMAIN part[d] /\ part[d][1] \in Body
      BY <2>3, <3>1
    <3> QED BY <1>1, <1>4, <2>3, <3>2, ProviderAssumption DEF NoSplice
  <2>7. PartMatches(p)'
    BY <1>2, <2>1, <2>4, <2>6 DEF PartMatches
  <2> QED BY <1>2, <1>3, <2>4, <2>5, <2>7, TypeSplits DEF StepOK
<1> QED BY <1>5, <1>6

LEMMA UnsatisfiableStep ==
    ASSUME IInv, NEW p \in Proc, AnswerUnsatisfiable(p)
    PROVE  StepOK(p)
<1> DEFINE d == job[p].want
<1>1. ProcsOK /\ FilesOK /\ JobFits(p) /\ NoSplice /\ pc[p] = "connecting" /\ d \in Body
  BY TypeSplits DEF IInv, AnswerUnsatisfiable, JobFits, Downloading
<1>2. part' = [part EXCEPT ![d] = <<>>] /\ UNCHANGED <<etag, target, loose>>
  BY DEF AnswerUnsatisfiable
<1>3. part' \in [Body -> Blocks]
  BY <1>1, <1>2 DEF FilesOK, Blocks
<1>4. FilesOK'
  BY <1>1, <1>3 DEF AnswerUnsatisfiable, FilesOK, server
<1>5. NoSplice'
  BY <1>1, <1>2 DEF NoSplice, FilesOK
<1>6. /\ ProcsOK' /\ JobsOfOthers(p)
      /\ \/ pc'[p] = "idle"
         \/ /\ pc'[p] = "connecting" /\ job'[p].version = job[p].version
            /\ job'[p].want = d /\ job'[p].start = 0
  BY <1>1, NextAttemptGoes DEF AnswerUnsatisfiable, JobsOfOthers, Downloading
<1>7. JobFits(p)'
  BY <1>1, <1>6 DEF JobFits, Refreshing, Downloading
<1> QED BY <1>4, <1>5, <1>6, <1>7, TypeSplits DEF StepOK, HoldsWhole, PartMatches

LEMMA TruncateStep ==
    ASSUME IInv, NEW p \in Proc, Truncate(p)
    PROVE  StepOK(p)
<1> DEFINE d == job[p].want
<1>1. /\ ProcsOK /\ FilesOK /\ JobFits(p) /\ NoSplice /\ pc[p] = "truncating"
      /\ job[p].start = 0 /\ d \in Body
  BY TypeSplits DEF IInv, Truncate, JobFits, Downloading
<1>2. part' = [part EXCEPT ![d] = <<>>] /\ UNCHANGED <<etag, target, loose>>
  BY DEF Truncate
<1>3. part' \in [Body -> Blocks] /\ part'[d] = <<>>
  BY <1>1, <1>2 DEF FilesOK, Blocks
<1>4. FilesOK'
  BY <1>1, <1>3 DEF Truncate, FilesOK, server
<1>5. NoSplice'
  BY <1>1, <1>2 DEF NoSplice, FilesOK
<1>6. ProcsOK' /\ JobsOfOthers(p) /\ pc'[p] = "tagging" /\ job'[p] = job[p]
  BY <1>1, GoesIsWith, GoesOn DEF Truncate, Downloading, JobsOfOthers
<1>7. JobFits(p)'
  BY <1>1, <1>6 DEF JobFits, Refreshing, Downloading
<1> QED BY <1>1, <1>3, <1>4, <1>5, <1>6, <1>7, TypeSplits
        DEF StepOK, HoldsWhole, PartMatches

LEMMA SaveTagStep ==
    ASSUME IInv, NEW p \in Proc, SaveTag(p)
    PROVE  StepOK(p)
<1> DEFINE d == job[p].want
           what == JobTag(job[p])
<1>1. /\ ProcsOK /\ FilesOK /\ JobFits(p) /\ NoSplice /\ PartMatches(p)
      /\ pc[p] = "tagging" /\ job[p] \in Job /\ d \in Body /\ job[p].sends \in Body
      /\ job[p].start \in {0, 1}
  BY TypeSplits DEF IInv, SaveTag, ProcsOK, JobFits, Downloading, Job
<1>2. UNCHANGED <<part, target>>
  BY DEF SaveTag
<1>3. \/ /\ etag' = [etag EXCEPT ![d] = job[p].sends]
         /\ loose' = IF job[p].start = 0 THEN loose \ {d} ELSE loose
      \/ etag' = etag /\ loose' = loose \cup {d}
  BY DEF SaveTag
<1>4. FilesOK'
  BY <1>1, <1>3 DEF SaveTag, FilesOK, server
<1>5. what \in Job /\ what.version = job[p].version /\ what.want = d
      /\ what.sends = job[p].sends
  BY <1>1, JobTagged
<1>6. GoesWith(p, "receiving", what)
  BY DEF SaveTag, JobTag
<1> HIDE DEF what
<1>7. ProcsOK' /\ JobsOfOthers(p) /\ pc'[p] = "receiving" /\ job'[p] = what
  BY <1>1, <1>5, <1>6, GoesOn DEF Downloading, JobsOfOthers
<1>8. JobFits(p)' /\ HoldsWhole(p)'
  BY <1>1, <1>5, <1>7 DEF JobFits, HoldsWhole, Refreshing, Downloading
<1>9. PartMatches(p)'
  <2>1. d \notin loose' => etag'[d] = job[p].sends
    BY <1>1, <1>3 DEF FilesOK
  <2> QED BY <1>5, <1>7, <2>1 DEF PartMatches
<1>10. NoSplice'
  <2>1. ASSUME NEW e \in Body \ loose', NEW i \in DOMAIN part'[e]
        PROVE  part'[e][i] = etag'[e]
    <3>1. CASE e # d
      BY <1>1, <1>2, <1>3, <2>1, <3>1 DEF NoSplice, FilesOK
    <3>2. CASE e = d
      <4>1. etag'[d] = job[p].sends /\ (job[p].start = 1 => d \notin loose)
        BY <1>1, <1>3, <2>1, <3>2 DEF FilesOK
      <4>2. job[p].start = 1
        BY <1>1, <1>2, <2>1, <3>2 DEF PartMatches
      <4> QED BY <1>1, <1>2, <2>1, <3>2, <4>1, <4>2 DEF PartMatches
    <3> QED BY <3>1, <3>2
  <2> QED BY <1>1, <1>2, <2>1 DEF NoSplice
<1> QED BY <1>4, <1>7, <1>8, <1>9, <1>10, TypeSplits DEF StepOK

LEMMA ReceiveStep ==
    ASSUME IInv, NEW p \in Proc, Receive(p)
    PROVE  StepOK(p)
<1> DEFINE d == job[p].want
           sent == job[p].sends
<1>1. /\ ProcsOK /\ FilesOK /\ JobFits(p) /\ NoSplice /\ PartMatches(p)
      /\ pc[p] = "receiving" /\ job[p] \in Job /\ d \in Body /\ sent \in Body
  BY TypeSplits DEF IInv, Receive, ProcsOK, JobFits, Downloading
<1>2. CASE part' = [part EXCEPT ![d] = Append(@, sent)] /\ Goes(p, "receiving")
  <2>1. UNCHANGED <<etag, target, loose>>
    BY DEF Receive
  <2>2. part[d] \in Seq(Body)
    BY <1>1 DEF FilesOK, Blocks
  <2>3. /\ Append(part[d], sent) \in Seq(Body)
        /\ \A i \in DOMAIN Append(part[d], sent) :
             \/ i \in DOMAIN part[d] /\ Append(part[d], sent)[i] = part[d][i]
             \/ Append(part[d], sent)[i] = sent
    BY <1>1, <2>2
  <2>4. part'[d] = Append(part[d], sent) /\ \A e \in Body \ {d} : part'[e] = part[e]
    BY <1>1, <1>2 DEF FilesOK
  <2>5. part' \in [Body -> Blocks]
    BY <1>1, <1>2, <2>3 DEF FilesOK, Blocks
  <2>6. FilesOK'
    BY <1>1, <2>5 DEF Receive, FilesOK, server
  <2>7. NoSplice'
    <3>1. ASSUME d \notin loose, NEW i \in DOMAIN part'[d]
          PROVE  part'[d][i] = etag[d]
      BY <1>1, <2>3, <2>4, <3>1 DEF NoSplice, PartMatches
    <3> QED BY <1>1, <2>1, <2>4, <3>1 DEF NoSplice
  <2>8. ProcsOK' /\ JobsOfOthers(p) /\ pc'[p] = "receiving" /\ job'[p] = job[p]
    BY <1>1, <1>2, GoesIsWith, GoesOn DEF Downloading, JobsOfOthers
  <2>9. JobFits(p)' /\ HoldsWhole(p)' /\ PartMatches(p)'
    BY <1>1, <2>1, <2>8 DEF JobFits, HoldsWhole, PartMatches, Refreshing, Downloading
  <2> QED BY <2>6, <2>7, <2>8, <2>9, TypeSplits DEF StepOK
<1>3. CASE UNCHANGED part /\ GoesWith(p, "verifying", JobReceive(job[p]))
  <2> DEFINE what == JobReceive(job[p])
  <2>1. what \in Job /\ what.version = job[p].version /\ what.want = d
    BY <1>1, JobReceived
  <2>2. GoesWith(p, "verifying", what)
    BY <1>3
  <2> HIDE DEF what
  <2>3. ProcsOK' /\ JobsOfOthers(p) /\ pc'[p] = "verifying" /\ job'[p] = what
    BY <1>1, <2>1, <2>2, GoesOn DEF Downloading, JobsOfOthers
  <2>4. JobFits(p)'
    BY <1>1, <2>1, <2>3 DEF JobFits, Refreshing, Downloading
  <2>5. FilesOK' /\ UNCHANGED <<part, etag, target, loose>>
    BY <1>1, <1>3 DEF Receive, FilesOK, server
  <2> QED BY <2>3, <2>4, <2>5, QuietStep
<1> QED BY <1>2, <1>3 DEF Receive, JobReceive

\* An attempt fails, or the command stops.
LEMMA StopStep ==
    ASSUME IInv, NEW p \in Proc, AttemptFails(p) \/ Stop(p) \/ Unpacked(p)
    PROVE  StepOK(p)
<1>1. ProcsOK /\ FilesOK /\ JobFits(p)
  BY TypeSplits DEF IInv
<1>2. FilesOK' /\ UNCHANGED <<part, etag, target, loose>>
  BY <1>1, ProviderAssumption
     DEF AttemptFails, Stop, Unpacked, Fails, Happens, FilesOK, server, cache
<1>3. CASE AttemptFails(p)
  <2>1. /\ ProcsOK' /\ JobsOfOthers(p)
        /\ \/ pc'[p] = "idle"
           \/ /\ pc'[p] = "connecting" /\ job'[p].version = job[p].version
              /\ job'[p].want = job[p].want /\ job'[p].start = 0
        /\ pc[p] \in Downloading
    BY <1>1, <1>3, NextAttemptGoes DEF AttemptFails, JobsOfOthers, Downloading
  <2>2. JobFits(p)'
    BY <1>1, <2>1 DEF JobFits, Refreshing, Downloading
  <2> QED BY <1>2, <2>1, <2>2, QuietStep
<1>4. CASE Stop(p) \/ Unpacked(p)
  <2>1. ProcsOK' /\ JobsOfOthers(p) /\ pc'[p] = "idle"
    BY <1>1, <1>4, EndsGoes DEF Stop, Unpacked, Fails, JobsOfOthers
  <2>2. JobFits(p)'
    BY <2>1 DEF JobFits, Refreshing, Downloading
  <2> QED BY <1>2, <2>1, <2>2, QuietStep
<1> QED BY <1>3, <1>4

LEMMA PublishStep ==
    ASSUME IInv, NEW p \in Proc, Publish(p)
    PROVE  /\ StepOK(p)
           /\ target' # target =>
                target' = [target EXCEPT ![job[p].want] = Whole(job[p].want)]
<1> DEFINE d == job[p].want
<1>1. /\ ProcsOK /\ FilesOK /\ JobFits(p) /\ NoSplice /\ pc[p] = "verifying" /\ d \in Body
  BY TypeSplits DEF IInv, Publish, JobFits, Downloading
<1>2. CASE /\ part[d] = Whole(d)
           /\ target' = [target EXCEPT ![d] = part[d]]
           /\ part' = [part EXCEPT ![d] = <<>>]
           /\ pc' = [pc EXCEPT ![p] = "cached"] /\ download_lock' = None
           /\ UNCHANGED <<job, feed_lock>>
  <2>1. UNCHANGED <<etag, loose>>
    BY DEF Publish
  <2>2. part' \in [Body -> Blocks] /\ target' \in [Body -> Blocks \cup {Corrupt}]
    BY <1>1, <1>2 DEF FilesOK, Blocks
  <2>3. FilesOK'
    BY <1>1, <2>2 DEF Publish, FilesOK, server
  <2>4. NoSplice'
    BY <1>1, <1>2, <2>1 DEF NoSplice, FilesOK
  <2>5. ProcsOK' /\ JobsOfOthers(p) /\ pc'[p] = "cached" /\ job'[p] = job[p]
    <3> USE <1>1, <1>2 DEF ProcsOK
    <3>1. \A q \in Proc : (feed_lock' = q) <=> (pc'[q] \in Refreshing)
      BY DEF Refreshing
    <3>2. download_lock = p
      BY DEF Downloading
    <3>3. \A q \in Proc : (download_lock' = q) <=> (pc'[q] \in Downloading)
      BY <3>2, ProviderAssumption DEF Downloading
    <3>4. ProcsOK'
      BY <3>1, <3>3
    <3> QED BY <3>4 DEF JobsOfOthers
  <2>6. JobFits(p)'
    BY <1>1, <2>5 DEF JobFits, Refreshing, Downloading
  <2> QED BY <1>2, <2>3, <2>4, <2>5, <2>6, TypeSplits DEF StepOK, HoldsWhole, PartMatches
<1>3. CASE UNCHANGED <<part, target>> /\ Ends(p)
  <2>1. FilesOK' /\ UNCHANGED <<part, etag, target, loose>>
    BY <1>1, <1>3 DEF Publish, FilesOK, server
  <2>2. ProcsOK' /\ JobsOfOthers(p) /\ pc'[p] = "idle"
    BY <1>1, <1>3, EndsGoes DEF JobsOfOthers
  <2>3. JobFits(p)'
    BY <2>2 DEF JobFits, Refreshing, Downloading
  <2> QED BY <2>1, <2>2, <2>3, QuietStep
<1> QED BY <1>2, <1>3 DEF Publish

LEMMA OpenArchiveStep ==
    ASSUME IInv, NEW p \in Proc, OpenArchive(p)
    PROVE  StepOK(p)
<1> DEFINE d == job[p].want
<1>1. /\ ProcsOK /\ FilesOK /\ JobFits(p) /\ NoSplice /\ pc[p] = "cached" /\ d \in Body
  BY TypeSplits DEF IInv, OpenArchive, JobFits, Downloading
<1>2. FilesOK' /\ UNCHANGED <<part, etag, target, loose>>
  BY <1>1 DEF OpenArchive, FilesOK, server, cache
<1>3. CASE Ends(p)
  <2>1. ProcsOK' /\ JobsOfOthers(p) /\ pc'[p] = "idle"
    BY <1>1, <1>3, EndsGoes DEF JobsOfOthers
  <2>2. JobFits(p)'
    BY <2>1 DEF JobFits, Refreshing, Downloading
  <2> QED BY <1>2, <2>1, <2>2, QuietStep
<1>4. CASE target[d] = Whole(d) /\ Goes(p, "unpacking")
  <2>1. ProcsOK' /\ JobsOfOthers(p) /\ pc'[p] = "unpacking" /\ job'[p] = job[p]
    BY <1>1, <1>4, GoesIsWith, GoesOn DEF JobsOfOthers, Refreshing, Downloading
  <2>2. JobFits(p)'
    BY <1>1, <2>1 DEF JobFits, Refreshing, Downloading
  <2>3. NoSplice'
    BY <1>1, <1>2 DEF NoSplice
  <2> QED BY <1>2, <1>4, <2>1, <2>2, <2>3, TypeSplits DEF StepOK, HoldsWhole, PartMatches
<1> QED BY <1>3, <1>4 DEF OpenArchive

LEMMA RefreshStep ==
    ASSUME IInv, NEW p \in Proc,
           \/ \E offline \in BOOLEAN : Begin(p, offline)
           \/ FetchIndex(p) \/ FetchSignature(p) \/ SaveIndex(p) \/ SaveSignature(p)
           \/ ReadCached(p) \/ ReadPage(p)
    PROVE  StepOK(p)
<1>1. ASSUME NEW offline \in BOOLEAN, Begin(p, offline)
      PROVE  TypeOK' /\ JobsOfOthers(p) /\ JobFits(p)' /\ pc'[p] = "page"
  <2>1. TypeOK /\ pc' = [pc EXCEPT ![p] = "page"]
        /\ job' = [job EXCEPT ![p] = JobStart(offline)]
    BY <1>1 DEF IInv, Begin, JobStart
  <2>2. TypeOK' /\ JobsOfOthers(p)
    BY <1>1, <2>1, BeginTypes
  <2>3. pc'[p] = "page" /\ job'[p] = JobStart(offline)
    BY <2>1 DEF TypeOK
  <2> QED BY <2>2, <2>3, JobBegins, ProviderAssumption DEF JobFits, Refreshing, Downloading
<1>2. TypeOK' /\ JobsOfOthers(p) /\ JobFits(p)'
  BY <1>1, FetchIndexStep, FetchSignatureStep, SaveStep, ReadCachedStep, ReadPageStep
<1>3. UNCHANGED <<part, etag, target, loose>>
  BY DEF Begin, FetchIndex, FetchSignature, SaveIndex, SaveSignature, ReadCached, ReadPage,
         cache
<1>4. pc'[p] \in Refreshing \cup {"idle", "selected"}
  <2>1. ProcsOK
    BY TypeSplits DEF IInv
  <2>2. CASE \E offline \in BOOLEAN : Begin(p, offline)
    BY <1>1, <2>2 DEF Refreshing
  <2>3. CASE FetchIndex(p) \/ FetchSignature(p) \/ SaveIndex(p) \/ SaveSignature(p)
             \/ ReadCached(p) \/ ReadPage(p)
    <3>1. pc' = [pc EXCEPT ![p] = "idle"] \/ pc' = [pc EXCEPT ![p] = "selected"]
          \/ \E step \in Refreshing : pc' = [pc EXCEPT ![p] = step]
      BY <2>3 DEF FetchIndex, FetchSignature, SaveIndex, SaveSignature, ReadCached, ReadPage,
                  Ends, Goes, GoesWith, Refreshing
    <3> QED BY <2>1, <3>1 DEF ProcsOK
  <2> QED BY <2>2, <2>3
<1> QED BY <1>2, <1>3, <1>4, QuietStep, TypeSplits DEF Refreshing

LEMMA ProcStep ==
    ASSUME IInv, NEW p \in Proc,
           \/ \E offline \in BOOLEAN : Begin(p, offline)
           \/ Works(p) \/ AttemptFails(p) \/ Stop(p)
    PROVE  IInv'
<1>1. StepOK(p)
  BY RefreshStep, StartDownloadStep, AnswerStep, UnsatisfiableStep, TruncateStep, SaveTagStep,
     ReceiveStep, StopStep, PublishStep, OpenArchiveStep DEF Works
<1>2. \A q \in Proc \ {p} : pc'[q] = pc[q] /\ job'[q] = job[q]
  BY <1>1 DEF StepOK, JobsOfOthers
<1>3. \A q \in Proc \ {p} : JobFits(q)'
  BY <1>2 DEF IInv, JobFits
<1>4. \A q \in Proc \ {p} : HoldsWhole(q)'
  <2>1. CASE UNCHANGED target
    BY <1>2, <2>1 DEF IInv, HoldsWhole
  <2>2. CASE target' = [target EXCEPT ![job[p].want] = Whole(job[p].want)]
    <3>1. TypeOK /\ \A q \in Proc : HoldsWhole(q) /\ JobFits(q)
      BY DEF IInv
    <3>2. ASSUME NEW q \in Proc \ {p}, pc[q] = "unpacking"
          PROVE  target'[job[q].want] = Whole(job[q].want)
      <4>1. job[q].want \in Body /\ target[job[q].want] = Whole(job[q].want)
        BY <3>1, <3>2 DEF JobFits, HoldsWhole
      <4> QED BY <2>2, <3>1, <4>1 DEF TypeOK
    <3> QED BY <1>2, <3>2 DEF HoldsWhole
  <2>3. UNCHANGED target \/ Publish(p)
    BY DEF Works, Begin, FetchIndex, FetchSignature, SaveIndex, SaveSignature, ReadCached,
           ReadPage, StartDownload, AnswerWhole, AnswerRange, AnswerUnsatisfiable, Truncate,
           SaveTag, Receive, OpenArchive, Unpacked, Fails, AttemptFails, Stop, cache
  <2> QED BY <2>1, <2>2, <2>3, PublishStep
<1>5. \A q \in Proc \ {p} : PartMatches(q)'
  <2>1. ProcsOK /\ \A q \in Proc : PartMatches(q)
    BY TypeSplits DEF IInv
  <2>2. CASE pc[p] \in Downloading
    <3>1. \A q \in Proc \ {p} : pc'[q] \notin Downloading
      BY <1>2, <2>1, <2>2, Alone
    <3> QED BY <3>1 DEF PartMatches, Downloading
  <2>3. CASE pc[p] \notin Downloading
    <3>1. UNCHANGED <<part, etag, loose>>
      BY <2>3 DEF Works, Begin, FetchIndex, FetchSignature, SaveIndex, SaveSignature, ReadCached,
           ReadPage, StartDownload, AnswerWhole, AnswerRange, AnswerUnsatisfiable, Truncate,
           SaveTag, Receive, Publish, OpenArchive, Unpacked, Fails, AttemptFails, Stop, cache,
           Downloading
    <3> QED BY <1>2, <2>1, <3>1 DEF PartMatches
  <2> QED BY <2>2, <2>3
<1> QED BY <1>1, <1>3, <1>4, <1>5 DEF StepOK, IInv

\* cache remove, the user, the server and other programs: no command moves.
LEMMA WorldStep ==
    ASSUME IInv,
           \/ \E d \in Body : CacheRemove(d) \/ ClearCorrupt(d) \/ Tamper(d)
           \/ ServerMoves
    PROVE  IInv'
<1>1. UNCHANGED <<pc, job, locks>>
  BY DEF CacheRemove, ClearCorrupt, Tamper, ServerMoves
<1>2. /\ ProcsOK /\ FilesOK /\ NoSplice
      /\ \A p \in Proc : JobFits(p) /\ HoldsWhole(p) /\ PartMatches(p)
  BY TypeSplits DEF IInv
<1>3. ProcsOK'
  BY <1>1, <1>2 DEF ProcsOK, locks
<1>4. \A p \in Proc : JobFits(p)'
  BY <1>1, <1>2 DEF JobFits
<1>5. Happens \/ UNCHANGED events => events' \in 0..MaxEvents
  BY <1>2, ProviderAssumption DEF Happens, FilesOK
<1>6. CASE ServerMoves
  <2>1. FilesOK'
    BY <1>2, <1>5, <1>6 DEF ServerMoves, FilesOK, cache
  <2>2. NoSplice' /\ \A p \in Proc : HoldsWhole(p)' /\ PartMatches(p)'
    BY <1>2, <1>6 DEF ServerMoves, NoSplice, HoldsWhole, PartMatches, cache
  <2> QED BY <1>3, <1>4, <2>1, <2>2, TypeSplits DEF IInv
<1>7. ASSUME NEW d \in Body, ~Held(d), NEW blocks \in {<<>>, Corrupt},
             target' = [target EXCEPT ![d] = blocks],
             UNCHANGED <<server, index, signature, part, etag, loose>>,
             events' \in 0..MaxEvents
      PROVE  IInv'
  <2>1. FilesOK'
    <3>1. <<>> \in Blocks
      BY DEF Blocks
    <3>2. target' \in [Body -> Blocks \cup {Corrupt}]
      BY <1>2, <1>7, <3>1 DEF FilesOK
    <3> QED BY <1>2, <1>7, <3>2 DEF FilesOK, server
  <2>2. NoSplice'
    BY <1>2, <1>7 DEF NoSplice, FilesOK
  <2>3. \A p \in Proc : HoldsWhole(p)'
    BY <1>1, <1>2, <1>7 DEF HoldsWhole, Held, FilesOK
  <2>4. \A p \in Proc : PartMatches(p)'
    BY <1>1, <1>2, <1>7 DEF PartMatches
  <2> QED BY <1>3, <1>4, <2>1, <2>2, <2>3, <2>4, TypeSplits DEF IInv
<1>8. ASSUME NEW d \in Body, RemovePart(d) \/ RemoveTag(d), UNCHANGED server,
             events' \in 0..MaxEvents
      PROVE  IInv'
  <2>1. part' = [part EXCEPT ![d] = <<>>] \/ UNCHANGED part
    BY <1>8 DEF RemovePart, RemoveTag
  <2>2. part' \in [Body -> Blocks]
    <3>1. <<>> \in Blocks
      BY DEF Blocks
    <3> QED BY <1>2, <2>1, <3>1 DEF FilesOK
  <2>3. FilesOK'
    BY <1>2, <1>8, <2>2 DEF RemovePart, RemoveTag, FilesOK, server
  <2>4. NoSplice'
    <3>1. CASE RemovePart(d)
      BY <1>2, <3>1 DEF RemovePart, NoSplice, FilesOK
    <3>2. CASE RemoveTag(d)
      BY <1>2, <3>2 DEF RemoveTag, NoSplice, FilesOK
    <3> QED BY <1>8, <3>1, <3>2
  <2>5. \A p \in Proc : HoldsWhole(p)'
    BY <1>1, <1>2, <1>8 DEF RemovePart, RemoveTag, HoldsWhole
  <2>6. \A p \in Proc : pc[p] \notin Downloading
    BY <1>2, <1>8, ProviderAssumption DEF RemovePart, RemoveTag, ProcsOK
  <2>7. \A p \in Proc : PartMatches(p)'
    BY <1>1, <2>6 DEF PartMatches, Downloading
  <2> QED BY <1>3, <1>4, <2>3, <2>4, <2>5, <2>7, TypeSplits DEF IInv
<1>9. ASSUME NEW d \in Body, CacheRemove(d) \/ ClearCorrupt(d) \/ Tamper(d)  PROVE IInv'
  <2>1. UNCHANGED server /\ events' \in 0..MaxEvents
    BY <1>5, <1>9 DEF CacheRemove, ClearCorrupt, Tamper
  <2>2. CASE RemoveTarget(d)
    BY <1>7, <2>1, <2>2 DEF RemoveTarget
  <2>3. CASE Tamper(d)
    BY <1>7, <2>1, <2>3 DEF Tamper
  <2>4. CASE RemovePart(d) \/ RemoveTag(d)
    BY <1>8, <2>1, <2>4
  <2> QED BY <1>9, <2>2, <2>3, <2>4 DEF CacheRemove, ClearCorrupt
<1> QED BY <1>6, <1>9

-----------------------------------------------------------------------------
(* The theorems *)

LEMMA InitHolds == Init => IInv
<1> SUFFICES ASSUME Init PROVE IInv
  OBVIOUS
<1> USE ProviderAssumption
<1>1. ProcsOK
  BY NoJobType DEF Init, ProcsOK, Refreshing, Downloading
<1>2. FilesOK
  BY DEF Init, FilesOK, Generation, Blocks
<1>3. NoSplice
  BY DEF Init, NoSplice
<1>4. \A p \in Proc : JobFits(p) /\ HoldsWhole(p) /\ PartMatches(p)
  BY DEF Init, JobFits, HoldsWhole, PartMatches, Refreshing, Downloading
<1> QED BY <1>1, <1>2, <1>3, <1>4, TypeSplits DEF IInv

LEMMA StepHolds == IInv /\ [Next]_vars => IInv'
<1> SUFFICES ASSUME IInv, [Next]_vars PROVE IInv'
  OBVIOUS
<1>1. CASE Next
  BY <1>1, ProcStep, WorldStep DEF Next
<1>2. CASE UNCHANGED vars
  BY <1>2 DEF vars, cache, IInv, TypeOK, NoSplice, JobFits, HoldsWhole, PartMatches
<1> QED BY <1>1, <1>2

\* The inductive invariant holds in every reachable state: of any number of commands
\* that refresh, download, unpack and clear the caches (feed.rs, transfer.rs,
\* archive.rs, managed.rs).
THEOREM InvariantHolds == Spec => []IInv
<1> QED BY InitHolds, StepHolds, PTL DEF Spec

\* Every variable keeps its type, and each of the two locks is held by exactly the
\* command that is at work under it (feed.rs:67, transfer.rs:165).
THEOREM TypeCorrect == Spec => []TypeOK
<1>1. IInv => TypeOK
  BY DEF IInv
<1> QED BY <1>1, InvariantHolds, PTL

\* What is unpacked is the whole body a signed page names for the version asked for,
\* for as long as it is read (archive.rs:37-65).
THEOREM UnpackedCorrect == Spec => []UnpackedIsSigned
<1>1. IInv => UnpackedIsSigned
  BY DEF IInv, UnpackedIsSigned, HoldsWhole, JobFits, Signed
<1> QED BY <1>1, InvariantHolds, PTL

\* Blocks of two bodies never come together in a partial download whose tag is its
\* own, and no PyRudder ever publishes an archive that is not whole
\* (transfer.rs:202-208, 277-289).
THEOREM SpliceCorrect == Spec => []NoSplice
<1>1. IInv => NoSplice
  BY DEF IInv
<1> QED BY <1>1, InvariantHolds, PTL

=============================================================================
