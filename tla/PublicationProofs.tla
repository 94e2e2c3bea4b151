--------------------------- MODULE PublicationProofs ---------------------------
(***************************************************************************)
(* Proofs about the publication of projects: that what is at a path is     *)
(* whole and stays, that migrations copy what they name, that a conflict   *)
(* with another state or process is one, and that a call returns a session *)
(* of the project it was asked for.                                        *)
(***************************************************************************)
EXTENDS Publication, TLAPS

(***************************************************************************)
(* The inductive invariant                                                 *)
(***************************************************************************)
CreatePhases == {"create.staged", "create.object", "create.database"}
BuiltPhases == {"migrate.verified", "migrate.cleared"}
StagedPhases == {"migrate.staged", "migrate.copied"} \cup BuiltPhases
ValidatedPhases == {"migrate.validated"} \cup StagedPhases
SourcePhases == {"migrate.leased", "migrate.published"} \cup ValidatedPhases
PublishedPhases == {"create.published", "migrate.published"}
Phases == {"idle", "session", "create.published"} \cup CreatePhases \cup SourcePhases

Jobs == [source : Paths \cup {Nothing}, target : Paths \cup {Nothing},
         doc : Documents \cup {Nothing}, print : Prints \cup {NoOrigin}]
Outcomes == {"none", "ok", "exists", "locked", "refused", "failed"} \cup Conflicts

PublicationTyped ==
  /\ at \in [Paths -> Projects \cup {Nothing}]
  /\ lease \in [Paths -> Procs \cup {Nobody}]
  /\ staging \in [Procs -> Projects \cup {Nothing}]
  /\ phase \in [Procs -> Phases]
  /\ job \in [Procs -> Jobs]
  /\ outcome \in [Procs -> Outcomes]

\* The leases of a call are those its phase needs.
Leases(i) ==
  /\ phase[i] \in {"idle", "create.published"} \cup CreatePhases => \A p \in Paths : lease[p] # i
  /\ phase[i] \in SourcePhases =>
       job[i].source \in Paths /\ \A p \in Paths : lease[p] = i <=> p = job[i].source
  /\ phase[i] = "session" =>
       /\ job[i].target \in Paths /\ ~at[job[i].target].marker
       /\ \A p \in Paths : lease[p] = i <=> p = job[i].target

\* The target is not the migration that process i is making.
Differs(i) ==
  Present(job[i].target) =>
    at[job[i].target].format = V1 \/ at[job[i].target].origin # job[i].print

\* What is at the target answers a call for it with these arguments.
Answers(arguments) ==
  LET p == arguments.target IN
    /\ p \in Paths /\ Present(p)
    /\ arguments.doc # Nothing => at[p].doc = arguments.doc
    /\ arguments.source # Nothing =>
         at[p].format = V2 /\ at[p].doc = arguments.print[1] /\ at[p].origin = arguments.print

Arguments(i) ==
  /\ phase[i] \notin {"idle", "session"} => job[i].target \in Paths
  /\ phase[i] \in CreatePhases => job[i].source = Nothing
  /\ phase[i] \in SourcePhases => job[i].doc = Nothing
  /\ phase[i] \in PublishedPhases \cup {"session"} => Answers(job[i])
  /\ phase[i] \in ValidatedPhases =>
       /\ job[i].print \in Prints
       /\ at[job[i].source].format = V1 /\ job[i].print[1] = at[job[i].source].doc
  /\ phase[i] \in StagedPhases => Differs(i)
  /\ phase[i] = "session" => outcome[i] = "ok"
  /\ phase[i] = "idle" /\ outcome[i] \in {"different", "overtaken"} =>
       job[i].target \in Paths /\ Present(job[i].target) /\ Differs(i)

\* What is built so far, under a document id no project has.
Building(i) ==
  /\ phase[i] \in CreatePhases =>
       /\ staging[i] # Nothing /\ staging[i].format = V1 /\ staging[i].doc = job[i].doc
       /\ \A p \in Paths : Present(p) => at[p].doc # staging[i].doc
  /\ phase[i] \in {"create.object", "create.database"} => staging[i].objects
  /\ phase[i] = "create.database" => staging[i].database
  /\ phase[i] \in StagedPhases => staging[i] # Nothing
  /\ phase[i] \in BuiltPhases =>
       /\ staging[i].objects /\ staging[i].database /\ staging[i].format = V2
       /\ staging[i].origin = job[i].print /\ staging[i].copied = job[i].print
       /\ staging[i].doc = job[i].print[1]

ProcessInv(i) == Leases(i) /\ Arguments(i) /\ Building(i)

\* Two creations never use one document id, and no two v1 projects have one.
CreationsDiffer ==
  \A i, j \in Procs : phase[i] \in CreatePhases /\ phase[j] \in CreatePhases /\ i # j =>
    staging[i].doc # staging[j].doc
OriginalsDiffer ==
  \A p, q \in Paths :
    Present(p) /\ Present(q) /\ p # q /\ at[p].format = V1 /\ at[q].format = V1 =>
      at[p].doc # at[q].doc

LeasedIsPresent == \A p \in Paths : lease[p] # Nobody => Present(p)

PublicationInv ==
  /\ PublicationTyped
  /\ \A i \in Procs : ProcessInv(i)
  /\ CreationsDiffer /\ OriginalsDiffer /\ LeasedIsPresent
  /\ PublishedComplete /\ MigrationFaithful

(***************************************************************************)
(* What a step may do to the paths                                         *)
(***************************************************************************)

\* Every project stays the one it is; only its facts grow and its marker goes.
AtKept ==
  \A p \in Paths : Present(p) =>
    /\ at'[p] \in Projects
    /\ at'[p].doc = at[p].doc /\ at'[p].format = at[p].format
    /\ at'[p].origin = at[p].origin /\ at'[p].copied = at[p].copied
    /\ at'[p].objects = at[p].objects /\ at'[p].database = at[p].database
    /\ at'[p].facts >= at[p].facts
    /\ ~at[p].marker => ~at'[p].marker

\* Nothing is published.
NothingNew == AtKept /\ \A p \in Paths : ~Present(p) => at'[p] = Nothing

\* A present project is a project.
LEMMA PresentIsProject ==
  ASSUME PublicationTyped, NEW p \in Paths
  PROVE  Present(p) <=> at[p] \in Projects
BY NothingAssumption DEF PublicationTyped, Present

\* Steps that leave the paths alone, or change a marker or the facts.
LEMMA QuietPaths ==
  ASSUME PublicationTyped,
         \/ UNCHANGED at
         \/ \E p \in Paths : Present(p) /\ at' = [at EXCEPT ![p].marker = FALSE]
         \/ \E p \in Paths : Present(p) /\ at' = [at EXCEPT ![p].facts = @ + 1]
  PROVE  NothingNew /\ at' \in [Paths -> Projects \cup {Nothing}]
<1>1. \A p \in Paths : Present(p) <=> at[p] \in Projects
  BY PresentIsProject
<1>2. CASE UNCHANGED at
  <2>1. \A p \in Paths : at[p] \in Projects => at[p].facts >= at[p].facts
    BY DEF Projects
  <2> QED BY <1>1, <1>2, <2>1 DEF PublicationTyped, NothingNew, AtKept, Present
<1>3. ASSUME NEW p \in Paths, Present(p), NEW new \in Projects,
             new.doc = at[p].doc, new.format = at[p].format, new.origin = at[p].origin,
             new.copied = at[p].copied, new.objects = at[p].objects,
             new.database = at[p].database, new.facts >= at[p].facts,
             ~at[p].marker => ~new.marker, at' = [at EXCEPT ![p] = new]
      PROVE  NothingNew /\ at' \in [Paths -> Projects \cup {Nothing}]
  <2>1. \A q \in Paths : at[q] \in Projects => at[q].facts >= at[q].facts
    BY DEF Projects
  <2>2. at'[p] = new /\ \A q \in Paths \ {p} : at'[q] = at[q]
    BY <1>3 DEF PublicationTyped
  <2> QED BY <1>1, <1>3, <2>1, <2>2 DEF PublicationTyped, NothingNew, AtKept, Present
<1>4. ASSUME NEW p \in Paths, Present(p), at' = [at EXCEPT ![p].marker = FALSE]
      PROVE  NothingNew /\ at' \in [Paths -> Projects \cup {Nothing}]
  <2> DEFINE new == [at[p] EXCEPT !.marker = FALSE]
  <2>1. at[p] \in Projects
    BY <1>1, <1>4
  <2>2. new \in Projects /\ ~new.marker
    BY <2>1 DEF Projects
  <2>3. /\ new.doc = at[p].doc /\ new.format = at[p].format /\ new.origin = at[p].origin
        /\ new.copied = at[p].copied /\ new.objects = at[p].objects
        /\ new.database = at[p].database /\ new.facts >= at[p].facts
    BY <2>1 DEF Projects
  <2>4. at' = [at EXCEPT ![p] = new]
    BY <1>4
  <2> HIDE DEF new
  <2> QED BY <1>3, <1>4, <2>2, <2>3, <2>4
<1>5. ASSUME NEW p \in Paths, Present(p), at' = [at EXCEPT ![p].facts = @ + 1]
      PROVE  NothingNew /\ at' \in [Paths -> Projects \cup {Nothing}]
  <2> DEFINE new == [at[p] EXCEPT !.facts = at[p].facts + 1]
  <2>1. at[p] \in Projects
    BY <1>1, <1>5
  <2>2. new \in Projects /\ (~at[p].marker => ~new.marker)
    BY <2>1 DEF Projects
  <2>3. /\ new.doc = at[p].doc /\ new.format = at[p].format /\ new.origin = at[p].origin
        /\ new.copied = at[p].copied /\ new.objects = at[p].objects
        /\ new.database = at[p].database /\ new.facts >= at[p].facts
    BY <2>1 DEF Projects
  <2>4. at' = [at EXCEPT ![p] = new]
    BY <1>5
  <2> HIDE DEF new
  <2> QED BY <1>3, <1>5, <2>2, <2>3, <2>4
<1> QED BY <1>2, <1>4, <1>5

\* What the other processes hold, ask and build survives a step, provided a
\* project that appears is not one they are making.
LEMMA OthersKeep ==
  ASSUME PublicationInv, AtKept, NEW j \in Procs,
         phase'[j] = phase[j], job'[j] = job[j], staging'[j] = staging[j],
         outcome'[j] = outcome[j],
         \A p \in Paths : lease'[p] = j <=> lease[p] = j,
         \A p \in Paths : ~Present(p) /\ at'[p] # Nothing =>
           /\ phase[j] \in CreatePhases => at'[p].doc # staging[j].doc
           /\ phase[j] \in StagedPhases /\ job[j].target = p =>
                at'[p].format = V1 \/ at'[p].origin # job[j].print
  PROVE  ProcessInv(j)'
<1>1. ProcessInv(j) /\ PublicationTyped
  BY DEF PublicationInv
<1>2. \A p \in Paths : Present(p) => at'[p] # Nothing
  BY NothingAssumption DEF AtKept
<1>3. \A p \in Paths : lease[p] = j => Present(p)
  BY PublicationAssumption DEF PublicationInv, LeasedIsPresent
<1>4. Leases(j)'
  <2>1. Leases(j)
    BY <1>1 DEF ProcessInv
  <2>2. ASSUME phase[j] = "session"
        PROVE  ~at'[job[j].target].marker
    <3>1. job[j].target \in Paths /\ ~at[job[j].target].marker /\ lease[job[j].target] = j
      BY <2>1, <2>2 DEF Leases
    <3>2. Present(job[j].target)
      BY <1>3, <3>1
    <3> QED BY <3>1, <3>2 DEF AtKept
  <2> QED BY <2>1, <2>2 DEF Leases
<1>5. ASSUME job[j].target \in Paths, Differs(j),
             phase[j] \in StagedPhases \/ Present(job[j].target)
      PROVE  Differs(j)'
  BY <1>5 DEF Differs, Present, AtKept
<1>6. Arguments(j)'
  <2>1. Arguments(j) /\ Leases(j)
    BY <1>1 DEF ProcessInv
  <2>2. phase[j] \in ValidatedPhases => job[j].source \in Paths /\ Present(job[j].source)
    BY <1>3, <2>1 DEF Leases, SourcePhases
  <2>3. phase[j] \in ValidatedPhases =>
          /\ job[j].print \in Prints /\ at'[job[j].source].format = V1
          /\ job[j].print[1] = at'[job[j].source].doc
    BY <2>1, <2>2 DEF Arguments, AtKept
  <2>4. phase[j] \in PublishedPhases \cup {"session"} => Answers(job[j])'
    BY <1>2, <2>1 DEF Arguments, Answers, AtKept, Present
  <2>5. phase[j] \in StagedPhases => Differs(j)'
    BY <1>5, <2>1 DEF Arguments, StagedPhases, BuiltPhases
  <2>6. phase[j] = "idle" /\ outcome[j] \in {"different", "overtaken"} =>
          job[j].target \in Paths /\ at'[job[j].target] # Nothing /\ Differs(j)'
    BY <1>2, <1>5, <2>1 DEF Arguments
  <2> QED BY <2>1, <2>3, <2>4, <2>5, <2>6 DEF Arguments, Present
<1>7. Building(j)'
  <2>1. Building(j)
    BY <1>1 DEF ProcessInv
  <2>2. phase[j] \in CreatePhases =>
          \A p \in Paths : at'[p] # Nothing => at'[p].doc # staging[j].doc
    BY <2>1 DEF Building, AtKept, Present
  <2> QED BY <2>1, <2>2 DEF Building, Present
<1> QED BY <1>4, <1>6, <1>7 DEF ProcessInv

(***************************************************************************)
(* The steps that publish nothing                                          *)
(***************************************************************************)

\* Process i alone moves, and the leases of the others stay theirs.
OnlyMoves(i) ==
  /\ \A j \in Procs \ {i} :
       /\ phase'[j] = phase[j] /\ job'[j] = job[j]
       /\ staging'[j] = staging[j] /\ outcome'[j] = outcome[j]
       /\ \A p \in Paths : lease'[p] = j <=> lease[p] = j

\* What is published stays whole and faithful while nothing is published.
LEMMA QuietProjects ==
  ASSUME PublicationInv, NothingNew
  PROVE  OriginalsDiffer' /\ PublishedComplete' /\ MigrationFaithful'
<1>1. AtKept
  BY DEF NothingNew
<1>2. \A p \in Paths : Present(p) <=> at'[p] # Nothing
  BY NothingAssumption DEF NothingNew, AtKept
<1>3. OriginalsDiffer'
  BY <1>1, <1>2 DEF PublicationInv, OriginalsDiffer, AtKept, Present
<1>4. PublishedComplete' /\ MigrationFaithful'
  BY <1>1, <1>2 DEF PublicationInv, PublishedComplete, MigrationFaithful, Opens, AtKept, Present
<1> QED BY <1>3, <1>4

\* A step of one process that publishes nothing keeps the invariant when it
\* keeps what that process holds, asks and builds.
LEMMA QuietStep ==
  ASSUME PublicationInv, PublicationTyped', NothingNew, NEW i \in Procs, OnlyMoves(i),
         ProcessInv(i)',
         \A p \in Paths : lease'[p] = i => Present(p),
         phase'[i] \in CreatePhases =>
           \/ phase[i] \in CreatePhases /\ staging'[i].doc = staging[i].doc
           \/ staging'[i].doc \notin UsedDocuments
  PROVE  PublicationInv'
<1>1. AtKept
  BY DEF NothingNew
<1>2. \A p \in Paths : Present(p) <=> at'[p] # Nothing
  BY NothingAssumption DEF NothingNew, AtKept
<1>3. ASSUME NEW j \in Procs
      PROVE  ProcessInv(j)'
  <2>1. CASE j = i
    BY <2>1
  <2>2. CASE j # i
    <3>1. /\ phase'[j] = phase[j] /\ job'[j] = job[j] /\ staging'[j] = staging[j]
          /\ outcome'[j] = outcome[j] /\ \A p \in Paths : lease'[p] = j <=> lease[p] = j
      BY <2>2 DEF OnlyMoves
    <3> QED BY <1>1, <1>2, <3>1, OthersKeep
  <2> QED BY <2>1, <2>2
<1>4. CreationsDiffer'
  <2>1. ASSUME NEW j \in Procs, j # i, phase'[i] \in CreatePhases, phase'[j] \in CreatePhases
        PROVE  staging'[i].doc # staging'[j].doc
    <3>1. phase[j] \in CreatePhases /\ staging'[j] = staging[j]
      BY <2>1 DEF OnlyMoves
    <3>2. staging[j] # Nothing
      BY <3>1 DEF PublicationInv, ProcessInv, Building
    <3>3. staging[j].doc \in UsedDocuments
      BY <3>2 DEF UsedDocuments
    <3>4. CASE phase[i] \in CreatePhases /\ staging'[i].doc = staging[i].doc
      BY <2>1, <3>1, <3>4 DEF PublicationInv, CreationsDiffer
    <3> QED BY <2>1, <3>1, <3>3, <3>4
  <2>2. ASSUME NEW j \in Procs \ {i}, NEW k \in Procs \ {i}, j # k,
               phase'[j] \in CreatePhases, phase'[k] \in CreatePhases
        PROVE  staging'[j].doc # staging'[k].doc
    BY <2>2 DEF OnlyMoves, PublicationInv, CreationsDiffer
  <2> QED BY <2>1, <2>2 DEF CreationsDiffer
<1>5. LeasedIsPresent'
  <2>1. ASSUME NEW p \in Paths, lease'[p] # Nobody
        PROVE  Present(p)
    <3>1. lease'[p] \in Procs
      BY <2>1 DEF PublicationTyped
    <3>2. CASE lease'[p] = i
      BY <3>2
    <3>3. CASE lease'[p] # i
      BY <3>1, <3>3, PublicationAssumption DEF OnlyMoves, PublicationInv, LeasedIsPresent
    <3> QED BY <3>2, <3>3
  <2> QED BY <1>2, <2>1 DEF LeasedIsPresent, Present
<1> QED BY <1>3, <1>4, <1>5, QuietProjects DEF PublicationInv

\* Giving leases back leaves those of the others alone.
LEMMA DroppedLeases ==
  ASSUME PublicationTyped, NEW i \in Procs
  PROVE  /\ Dropped(i) \in [Paths -> Procs \cup {Nobody}]
         /\ \A p \in Paths : Dropped(i)[p] # i
         /\ \A j \in Procs \ {i} : \A p \in Paths : Dropped(i)[p] = j <=> lease[p] = j
BY PublicationAssumption DEF PublicationTyped, Dropped

\* A call that returns without a session keeps the invariant; it says that a
\* project differs or was first only of one that differs.
LEMMA ReturnKeeps ==
  ASSUME PublicationInv, NEW i \in Procs,
         NEW result \in Outcomes, result # "ok",
         NothingNew, at' \in [Paths -> Projects \cup {Nothing}],
         outcome' = [outcome EXCEPT ![i] = result], staging' = [staging EXCEPT ![i] = Nothing],
         phase' = [phase EXCEPT ![i] = "idle"], lease' = Dropped(i), job' = job,
         result \in {"different", "overtaken"} =>
           job[i].target \in Paths /\ Present(job[i].target) /\ Differs(i)
  PROVE  PublicationInv'
<1>1. PublicationTyped
  BY DEF PublicationInv
<1>2. PublicationTyped'
  BY <1>1, DroppedLeases DEF PublicationTyped, Phases
<1>3. OnlyMoves(i)
  BY <1>1, DroppedLeases DEF OnlyMoves, PublicationTyped
<1>4. /\ phase'[i] = "idle" /\ outcome'[i] = result /\ \A p \in Paths : lease'[p] # i
  BY <1>1, DroppedLeases DEF PublicationTyped
<1>5. result \in {"different", "overtaken"} =>
        job[i].target \in Paths /\ at'[job[i].target] # Nothing /\ Differs(i)'
  BY NothingAssumption DEF NothingNew, AtKept, Differs, Present
<1>6. Leases(i)'
  BY <1>4 DEF Leases, SourcePhases, ValidatedPhases, StagedPhases, BuiltPhases
<1>7. Arguments(i)'
  BY <1>4, <1>5 DEF Arguments, Present, SourcePhases, ValidatedPhases, StagedPhases,
     BuiltPhases, CreatePhases, PublishedPhases
<1>8. Building(i)'
  BY <1>4 DEF Building, CreatePhases, StagedPhases, BuiltPhases
<1> QED BY <1>2, <1>3, <1>4, <1>6, <1>7, <1>8, QuietStep DEF ProcessInv, CreatePhases

\* So does a call that returns a session of a project that answers it.
LEMMA OpenedKeeps ==
  ASSUME PublicationInv, NEW i \in Procs, NEW p \in Paths, Present(p), lease[p] = Nobody,
         OpenedBy(i, p), NEW arguments \in Jobs, job' = [job EXCEPT ![i] = arguments],
         arguments.target = p, Answers(arguments)
  PROVE  PublicationInv'
<1>1. PublicationTyped
  BY DEF PublicationInv
<1>2. NothingNew /\ at' \in [Paths -> Projects \cup {Nothing}]
  BY <1>1, QuietPaths DEF OpenedBy, Unmarked
<1>3. lease' = [Dropped(i) EXCEPT ![p] = i] /\ Dropped(i) \in [Paths -> Procs \cup {Nobody}]
  BY <1>1, DroppedLeases DEF OpenedBy
<1>4. PublicationTyped'
  BY <1>1, <1>2, <1>3 DEF PublicationTyped, OpenedBy, Goto, Phases, Outcomes
<1>5. \A q \in Paths : lease'[q] = i <=> q = p
  BY <1>1, <1>3, DroppedLeases
<1>6. OnlyMoves(i)
  <2>1. \A j \in Procs \ {i} : \A q \in Paths : lease'[q] = j <=> lease[q] = j
    BY <1>1, <1>3, DroppedLeases, PublicationAssumption
  <2> QED BY <1>1, <2>1 DEF OnlyMoves, PublicationTyped, OpenedBy, Goto
<1>7. phase'[i] = "session" /\ outcome'[i] = "ok" /\ job'[i] = arguments
  BY <1>1 DEF PublicationTyped, OpenedBy, Goto
<1>8. ~at'[p].marker
  <2>1. at[p] \in Projects
    BY <1>1, PresentIsProject
  <2>2. at'[p] = [at[p] EXCEPT !.marker = FALSE]
    BY <1>1 DEF OpenedBy, Unmarked, PublicationTyped
  <2> QED BY <2>1, <2>2 DEF Projects
<1>9. Leases(i)'
  BY <1>5, <1>7, <1>8 DEF Leases, SourcePhases, ValidatedPhases, StagedPhases, BuiltPhases,
     CreatePhases
<1>10. Arguments(i)'
  <2>1. Answers(arguments)'
    BY <1>2, NothingAssumption DEF NothingNew, AtKept, Answers, Present
  <2> QED BY <1>7, <2>1 DEF Arguments, SourcePhases, ValidatedPhases, StagedPhases, BuiltPhases,
      CreatePhases
<1>11. Building(i)'
  BY <1>7 DEF Building, CreatePhases, StagedPhases, BuiltPhases
<1> QED BY <1>2, <1>4, <1>5, <1>6, <1>7, <1>9, <1>10, <1>11, QuietStep
        DEF ProcessInv, CreatePhases

\* So does a step within a call that holds on to its leases.
LEMMA ProgressKeeps ==
  ASSUME PublicationInv, NEW i \in Procs, UNCHANGED <<at, outcome>>,
         NEW f \in Phases, phase' = [phase EXCEPT ![i] = f],
         NEW new \in Projects \cup {Nothing}, staging' = [staging EXCEPT ![i] = new],
         NEW arguments \in Jobs, job' = [job EXCEPT ![i] = arguments],
         UNCHANGED lease, ProcessInv(i)',
         f \in CreatePhases =>
           \/ phase[i] \in CreatePhases /\ new.doc = staging[i].doc
           \/ new.doc \notin UsedDocuments
  PROVE  PublicationInv'
<1>1. PublicationTyped
  BY DEF PublicationInv
<1>2. NothingNew
  BY <1>1, QuietPaths
<1>3. PublicationTyped'
  BY <1>1 DEF PublicationTyped
<1>4. OnlyMoves(i)
  BY <1>1 DEF OnlyMoves, PublicationTyped
<1>5. phase'[i] = f /\ staging'[i] = new
  BY <1>1 DEF PublicationTyped
<1>6. \A p \in Paths : lease'[p] = i => Present(p)
  BY PublicationAssumption DEF PublicationInv, LeasedIsPresent
<1> QED BY <1>2, <1>3, <1>4, <1>5, <1>6, QuietStep

(***************************************************************************)
(* The steps of ProjectStore::create                                       *)
(***************************************************************************)

\* All of them but the rename.
LEMMA CreateKeeps ==
  ASSUME PublicationInv, NEW i \in Procs,
         \/ \E p \in Paths : CreateStage(i, p) \/ CreateExists(i, p)
         \/ CreatePersist(i) \/ CreateDatabase(i) \/ CreateLost(i) \/ CreateOpen(i)
  PROVE  PublicationInv'
<1>1. PublicationTyped /\ ProcessInv(i)
  BY DEF PublicationInv
<1>2. UNCHANGED at => NothingNew /\ at' \in [Paths -> Projects \cup {Nothing}]
  BY <1>1, QuietPaths
<1>3. ASSUME NEW p \in Paths, CreateStage(i, p)
      PROVE  PublicationInv'
  <2>1. PICK d \in Documents \ UsedDocuments :
          /\ staging' = [staging EXCEPT ![i] = Project(d, V1, 0, NoOrigin, NoOrigin)]
          /\ job' = [job EXCEPT ![i] = [NoJob EXCEPT !.target = p, !.doc = d]]
    BY <1>3 DEF CreateStage
  <2> DEFINE new == Project(d, V1, 0, NoOrigin, NoOrigin)
             arguments == [NoJob EXCEPT !.target = p, !.doc = d]
  <2>2. new \in Projects /\ new.doc = d /\ new.format = V1 /\ arguments \in Jobs
        /\ arguments.target = p /\ arguments.doc = d /\ arguments.source = Nothing
    BY DEF Project, Projects, Jobs, NoJob, V1, V2
  <2> HIDE DEF new, arguments
  <2>3. /\ phase' = [phase EXCEPT ![i] = "create.staged"] /\ job' = [job EXCEPT ![i] = arguments]
        /\ UNCHANGED <<at, lease, outcome>> /\ phase[i] = "idle"
    BY <1>3, <2>1 DEF CreateStage, Goto, arguments
  <2>4. phase'[i] = "create.staged" /\ staging'[i] = new /\ job'[i] = arguments
    BY <1>1, <2>1, <2>3 DEF PublicationTyped, new
  <2>5. \A p2 \in Paths : Present(p2) => at[p2].doc # d
    BY <2>1 DEF UsedDocuments
  <2>6. Leases(i)'
    BY <1>1, <2>3, <2>4 DEF ProcessInv, Leases, SourcePhases, ValidatedPhases, StagedPhases,
       BuiltPhases
  <2>7. Arguments(i)'
    BY <2>2, <2>4 DEF Arguments, SourcePhases, ValidatedPhases, StagedPhases, BuiltPhases,
       PublishedPhases
  <2>8. Building(i)'
    BY <2>2, <2>3, <2>4, <2>5, NothingAssumption DEF Building, StagedPhases, BuiltPhases, Present
  <2>9. "create.staged" \in Phases
    BY DEF Phases, CreatePhases
  <2> QED BY <2>1, <2>2, <2>3, <2>6, <2>7, <2>8, <2>9, ProgressKeeps DEF ProcessInv, new
<1>4. ASSUME NEW result \in {"exists", "locked"}, Return(i, result)
      PROVE  PublicationInv'
  BY <1>1, <1>2, <1>4, ReturnKeeps DEF Return, End, Goto, Outcomes
<1>5. ASSUME NEW f \in {"create.object", "create.database"},
             NEW new, new = IF f = "create.object" THEN [staging[i] EXCEPT !.objects = TRUE]
                            ELSE [staging[i] EXCEPT !.database = TRUE],
             phase[i] = (IF f = "create.object" THEN "create.staged" ELSE "create.object"),
             staging' = [staging EXCEPT ![i] = new], phase' = [phase EXCEPT ![i] = f],
             UNCHANGED <<at, lease, job, outcome>>
      PROVE  PublicationInv'
  <2>1. staging[i] \in Projects /\ phase[i] \in CreatePhases /\ job[i] \in Jobs
    BY <1>1, <1>5 DEF PublicationTyped, ProcessInv, Building, CreatePhases
  <2>2. new \in Projects /\ new.doc = staging[i].doc /\ new.format = staging[i].format
    BY <1>5, <2>1 DEF Projects
  <2>3. f = "create.object" => new.objects
    BY <1>5, <2>1 DEF Projects
  <2>4. f = "create.database" => new.database /\ (staging[i].objects => new.objects)
    BY <1>5, <2>1 DEF Projects
  <2>5. phase'[i] = f /\ staging'[i] = new /\ job'[i] = job[i]
    BY <1>1, <1>5 DEF PublicationTyped
  <2>6. Leases(i)'
    BY <1>1, <1>5, <2>1, <2>5 DEF ProcessInv, Leases, SourcePhases, ValidatedPhases, StagedPhases,
       BuiltPhases, CreatePhases
  <2>7. Arguments(i)'
    BY <1>1, <1>5, <2>1, <2>5 DEF ProcessInv, Arguments, SourcePhases, ValidatedPhases,
       StagedPhases, BuiltPhases, PublishedPhases, CreatePhases
  <2>8. Building(i)'
    BY <1>1, <1>5, <2>1, <2>2, <2>3, <2>4, <2>5, NothingAssumption
    DEF ProcessInv, Building, StagedPhases, BuiltPhases, CreatePhases, Present
  <2>9. f \in Phases
    BY DEF Phases, CreatePhases
  <2>10. job' = [job EXCEPT ![i] = job[i]]
    BY <1>1, <1>5 DEF PublicationTyped
  <2> QED BY <1>5, <2>1, <2>2, <2>6, <2>7, <2>8, <2>9, <2>10, ProgressKeeps DEF ProcessInv
<1>6. ASSUME CreatePersist(i)
      PROVE  PublicationInv'
  <2>1. staging' = [staging EXCEPT ![i] = [staging[i] EXCEPT !.objects = TRUE]]
    BY <1>6 DEF CreatePersist
  <2> QED BY <1>5, <1>6, <2>1 DEF CreatePersist, Goto
<1>7. ASSUME CreateDatabase(i)
      PROVE  PublicationInv'
  <2>1. staging' = [staging EXCEPT ![i] = [staging[i] EXCEPT !.database = TRUE]]
    BY <1>7 DEF CreateDatabase
  <2> QED BY <1>5, <1>7, <2>1 DEF CreateDatabase, Goto
<1>8. ASSUME CreateOpen(i)
      PROVE  PublicationInv'
  <2> DEFINE p == job[i].target
  <2>1. phase[i] = "create.published" /\ p \in Paths /\ Present(p)
    BY <1>1, <1>8 DEF CreateOpen, ProcessInv, Arguments, Answers, PublishedPhases
  <2>2. CASE lease[p] # Nobody
    BY <1>4, <1>8, <2>2 DEF CreateOpen
  <2>3. CASE lease[p] = Nobody
    <3>1. OpenedBy(i, p) /\ job' = job
      BY <1>8, <2>3 DEF CreateOpen
    <3>2. job[i] \in Jobs /\ job' = [job EXCEPT ![i] = job[i]]
      BY <1>1, <3>1 DEF PublicationTyped
    <3>3. Answers(job[i])
      BY <1>1, <2>1 DEF ProcessInv, Arguments, PublishedPhases
    <3> QED BY <2>1, <2>3, <3>1, <3>2, <3>3, OpenedKeeps
  <2> QED BY <2>2, <2>3
<1> QED BY <1>3, <1>4, <1>6, <1>7, <1>8 DEF CreateExists, CreateLost

(***************************************************************************)
(* The steps of ProjectStore::migrate_v1_to_v2                             *)
(***************************************************************************)

\* A call that goes on with its source lease, its arguments and no new
\* project keeps the invariant.
LEMMA MigrateProgress ==
  ASSUME PublicationInv, NEW i \in Procs, phase[i] \in SourcePhases,
         NEW f \in ValidatedPhases, phase' = [phase EXCEPT ![i] = f],
         NEW new \in Projects \cup {Nothing}, staging' = [staging EXCEPT ![i] = new],
         NEW arguments \in Jobs, job' = [job EXCEPT ![i] = arguments],
         UNCHANGED <<at, lease, outcome>>,
         arguments.source = job[i].source, arguments.target = job[i].target,
         arguments.doc = job[i].doc,
         arguments.print \in Prints, at[job[i].source].format = V1,
         arguments.print[1] = at[job[i].source].doc,
         f \in StagedPhases =>
           new # Nothing /\
           (Present(arguments.target) =>
              at[arguments.target].format = V1 \/ at[arguments.target].origin # arguments.print),
         f \in BuiltPhases =>
           /\ new.objects /\ new.database /\ new.format = V2
           /\ new.origin = arguments.print /\ new.copied = arguments.print
           /\ new.doc = arguments.print[1]
  PROVE  PublicationInv'
<1>1. PublicationTyped /\ ProcessInv(i)
  BY DEF PublicationInv
<1>2. phase'[i] = f /\ staging'[i] = new /\ job'[i] = arguments
  BY <1>1 DEF PublicationTyped
<1>3. f \in Phases /\ f \notin CreatePhases /\ f \notin PublishedPhases /\ f # "session"
      /\ f # "idle" /\ f # "create.published" /\ f \in SourcePhases
  BY DEF Phases, CreatePhases, SourcePhases, ValidatedPhases, StagedPhases, BuiltPhases,
     PublishedPhases
<1>4. phase[i] \notin {"idle", "session"}
  BY DEF SourcePhases, ValidatedPhases, StagedPhases, BuiltPhases
<1>5. Leases(i)'
  BY <1>1, <1>2, <1>3 DEF ProcessInv, Leases
<1>6. Arguments(i)'
  BY <1>1, <1>2, <1>3, <1>4 DEF ProcessInv, Arguments, Differs, Present
<1>7. Building(i)'
  BY <1>2, <1>3 DEF Building, CreatePhases
<1> QED BY <1>3, <1>5, <1>6, <1>7, ProgressKeeps DEF ProcessInv

\* All steps of a migration but the rename.
LEMMA MigrateKeeps ==
  ASSUME PublicationInv, NEW i \in Procs,
         \/ \E s, t \in Paths : MigrateLease(i, s, t)
         \/ MigrateValidate(i) \/ MigrateExisting(i) \/ MigrateUnusable(i) \/ MigrateStage(i)
         \/ MigrateObjects(i) \/ MigrateTransform(i) \/ MigrateClear(i) \/ MigrateLost(i) \/ MigrateOpen(i)
  PROVE  PublicationInv'
<1> DEFINE s == job[i].source
           t == job[i].target
<1>1. PublicationTyped /\ ProcessInv(i) /\ job[i] \in Jobs
  BY DEF PublicationInv, PublicationTyped
<1>2. UNCHANGED at => NothingNew /\ at' \in [Paths -> Projects \cup {Nothing}]
  BY <1>1, QuietPaths
<1>3. ASSUME phase[i] \in SourcePhases
      PROVE  s \in Paths /\ Present(s) /\ at[s] \in Projects /\ t \in Paths
  <2>1. s \in Paths /\ lease[s] = i
    BY <1>1, <1>3 DEF ProcessInv, Leases
  <2>2. Present(s)
    BY <2>1, PublicationAssumption DEF PublicationInv, LeasedIsPresent
  <2>3. t \in Paths
    BY <1>1, <1>3 DEF ProcessInv, Arguments, SourcePhases, ValidatedPhases, StagedPhases, BuiltPhases
  <2> QED BY <1>1, <2>1, <2>2, <2>3, PresentIsProject
<1>4. ASSUME phase[i] \in ValidatedPhases
      PROVE  /\ phase[i] \in SourcePhases /\ job[i].print \in Prints
             /\ at[s].format = V1 /\ job[i].print[1] = at[s].doc
             /\ job' = job => job' = [job EXCEPT ![i] = job[i]]
             /\ staging' = staging => staging' = [staging EXCEPT ![i] = staging[i]]
             /\ phase[i] \in StagedPhases =>
                  /\ staging[i] # Nothing /\ staging[i] \in Projects
                  /\ Present(t) => at[t].format = V1 \/ at[t].origin # job[i].print
  BY <1>1, <1>4 DEF ProcessInv, Arguments, Building, Differs, SourcePhases, PublicationTyped
<1>5. ASSUME NEW result \in {"refused", "locked"}, Return(i, result)
      PROVE  PublicationInv'
  BY <1>1, <1>2, <1>5, ReturnKeeps DEF Return, End, Goto, Outcomes
<1>6. ASSUME phase[i] \in StagedPhases, Present(t), Return(i, "overtaken")
      PROVE  PublicationInv'
  <2>1. t \in Paths /\ Differs(i)
    BY <1>1, <1>6 DEF ProcessInv, Arguments, StagedPhases, BuiltPhases
  <2> QED BY <1>1, <1>2, <1>6, <2>1, ReturnKeeps DEF Return, End, Goto, Outcomes, Conflicts
<1>7. ASSUME NEW source \in Paths, NEW target \in Paths, MigrateLease(i, source, target)
      PROVE  PublicationInv'
  <2> DEFINE arguments == [NoJob EXCEPT !.source = source, !.target = target]
  <2>1. /\ phase[i] = "idle" /\ Present(source) /\ lease[source] = Nobody
        /\ lease' = [lease EXCEPT ![source] = i] /\ job' = [job EXCEPT ![i] = arguments]
        /\ phase' = [phase EXCEPT ![i] = "migrate.leased"] /\ UNCHANGED <<at, staging, outcome>>
    BY <1>7 DEF MigrateLease, Goto
  <2>2. /\ arguments \in Jobs /\ arguments.source = source /\ arguments.target = target
        /\ arguments.doc = Nothing
    BY DEF Jobs, NoJob
  <2> HIDE DEF arguments
  <2>3. PublicationTyped'
    BY <1>1, <2>1, <2>2 DEF PublicationTyped, Phases, SourcePhases
  <2>4. phase'[i] = "migrate.leased" /\ job'[i] = arguments
    BY <1>1, <2>1 DEF PublicationTyped
  <2>5. \A p \in Paths : lease'[p] = i <=> p = source
    BY <1>1, <2>1 DEF PublicationTyped, ProcessInv, Leases
  <2>6. OnlyMoves(i)
    <3>1. \A j \in Procs \ {i} : \A p \in Paths : lease'[p] = j <=> lease[p] = j
      BY <1>1, <2>1, PublicationAssumption DEF PublicationTyped
    <3> QED BY <1>1, <2>1, <3>1 DEF OnlyMoves, PublicationTyped
  <2>7. Leases(i)' /\ Arguments(i)' /\ Building(i)'
    BY <2>2, <2>4, <2>5 DEF Leases, Arguments, Building, SourcePhases, ValidatedPhases, StagedPhases,
       BuiltPhases, CreatePhases, PublishedPhases
  <2> QED BY <1>2, <2>1, <2>3, <2>4, <2>5, <2>6, <2>7, QuietStep DEF ProcessInv, CreatePhases
<1>8. ASSUME MigrateValidate(i)
      PROVE  PublicationInv'
  <2>1. phase[i] = "migrate.leased" /\ phase[i] \in SourcePhases
    BY <1>8 DEF MigrateValidate, SourcePhases
  <2>2. CASE at[s].format = V1 /\ Opens(s)
    <3> DEFINE arguments == [job[i] EXCEPT !.print = Fingerprint(s)]
    <3>1. /\ job' = [job EXCEPT ![i] = arguments] /\ UNCHANGED <<at, lease, staging, outcome>>
          /\ phase' = [phase EXCEPT ![i] = "migrate.validated"]
      BY <1>8, <2>2 DEF MigrateValidate, Goto
    <3>2. Fingerprint(s) \in Prints /\ Fingerprint(s)[1] = at[s].doc
      BY <1>3, <2>1 DEF Fingerprint, Prints, Projects
    <3>3. /\ arguments \in Jobs /\ arguments.source = s /\ arguments.target = t
          /\ arguments.doc = job[i].doc /\ arguments.print = Fingerprint(s)
      BY <1>1, <3>2 DEF Jobs
    <3> HIDE DEF arguments
    <3>4. staging' = [staging EXCEPT ![i] = staging[i]] /\ staging[i] \in Projects \cup {Nothing}
      BY <1>1, <3>1 DEF PublicationTyped
    <3>5. "migrate.validated" \in ValidatedPhases /\ "migrate.validated" \notin StagedPhases
          /\ "migrate.validated" \notin BuiltPhases
      BY DEF ValidatedPhases, StagedPhases, BuiltPhases
    <3>6. arguments.print \in Prints /\ arguments.print[1] = at[s].doc
      BY <3>2, <3>3
    <3> HIDE DEF s, t
    <3> QED BY <2>1, <2>2, <3>1, <3>3, <3>4, <3>5, <3>6, MigrateProgress DEF s, t
  <2> QED BY <1>5, <1>8, <2>2 DEF MigrateValidate
<1>9. ASSUME MigrateExisting(i)
      PROVE  PublicationInv'
  <2>1. phase[i] \in ValidatedPhases /\ Present(t)
    BY <1>9 DEF MigrateExisting, ValidatedPhases
  <2>2. t \in Paths /\ job[i].print \in Prints
    BY <1>3, <1>4, <2>1
  <2>3. CASE Return(i, "locked")
    BY <1>5, <2>3
  <2>4. CASE lease[t] = Nobody /\ Matches(i, t) /\ OpenedBy(i, t) /\ UNCHANGED job
    <3>1. job' = [job EXCEPT ![i] = job[i]]
      BY <1>1, <2>4 DEF PublicationTyped
    <3>2. Answers(job[i])
      BY <1>1, <1>4, <2>1, <2>2, <2>4 DEF Answers, Matches, ProcessInv, Arguments
    <3> QED BY <1>1, <2>1, <2>2, <2>4, <3>1, <3>2, OpenedKeeps
  <2>5. CASE ~Matches(i, t) /\ at' = Unmarked(t) /\ End(i, "different")
    <3>1. NothingNew /\ at' \in [Paths -> Projects \cup {Nothing}]
      BY <1>1, <2>1, <2>2, <2>5, QuietPaths DEF Unmarked
    <3>2. at[t].format \in {V1, V2}
      BY <1>1, <2>1, <2>2, PresentIsProject DEF Projects
    <3>3. ASSUME at[t].format = V2, at[t].origin = job[i].print
          PROVE  FALSE
      <4>1. at[t].doc = job[i].print[1]
        BY <2>1, <2>2, <3>3 DEF PublicationInv, MigrationFaithful
      <4> QED BY <2>5, <3>3, <4>1 DEF Matches
    <3>4. Differs(i)
      BY <3>2, <3>3 DEF Differs
    <3> QED BY <2>1, <2>2, <2>5, <3>1, <3>4, ReturnKeeps DEF End, Goto, Outcomes, Conflicts
  <2> QED BY <1>9, <2>3, <2>4, <2>5 DEF MigrateExisting
<1>17. ASSUME MigrateUnusable(i)
       PROVE  PublicationInv'
  <2>1. phase[i] \in ValidatedPhases /\ Present(t) /\ End(i, "unusable")
    BY <1>17 DEF MigrateUnusable, ValidatedPhases
  <2>2. t \in Paths
    BY <1>3, <1>4, <2>1
  <2>3. NothingNew /\ at' \in [Paths -> Projects \cup {Nothing}]
    BY <1>1, <1>17, <2>1, <2>2, QuietPaths DEF MigrateUnusable, Unmarked
  <2> QED BY <2>1, <2>3, ReturnKeeps DEF End, Goto, Outcomes, Conflicts
<1>16. ASSUME NEW f \in StagedPhases, NEW new \in Projects, phase[i] \in ValidatedPhases,
              phase' = [phase EXCEPT ![i] = f], staging' = [staging EXCEPT ![i] = new],
              UNCHANGED <<at, lease, job, outcome>>,
              Present(t) => at[t].format = V1 \/ at[t].origin # job[i].print,
              f \in BuiltPhases =>
                /\ new.objects /\ new.database /\ new.format = V2
                /\ new.origin = job[i].print /\ new.copied = job[i].print
                /\ new.doc = job[i].print[1]
       PROVE  PublicationInv'
  <2>1. /\ phase[i] \in SourcePhases /\ job[i].print \in Prints /\ at[s].format = V1
        /\ job[i].print[1] = at[s].doc /\ job' = [job EXCEPT ![i] = job[i]]
    BY <1>4, <1>16
  <2>2. new # Nothing /\ f \in ValidatedPhases
    BY NothingAssumption DEF ValidatedPhases
  <2>3. phase'[i] = f /\ staging'[i] = new /\ job'[i] = job[i]
    BY <1>1, <1>16 DEF PublicationTyped
  <2>4. f \in Phases /\ f \notin CreatePhases /\ f \notin PublishedPhases /\ f # "session"
        /\ f # "idle" /\ f # "create.published" /\ f \in SourcePhases
    BY DEF Phases, CreatePhases, SourcePhases, ValidatedPhases, StagedPhases, BuiltPhases,
       PublishedPhases
  <2>5. Leases(i)'
    BY <1>1, <1>16, <2>1, <2>3, <2>4 DEF ProcessInv, Leases
  <2>6. Arguments(i)'
    <3>1. job[i].doc = Nothing
      BY <1>1, <2>1 DEF ProcessInv, Arguments
    <3> QED BY <1>3, <1>16, <2>1, <2>3, <2>4, <3>1 DEF Arguments, Differs, Present
  <2>7. Building(i)'
    BY <1>16, <2>2, <2>3, <2>4 DEF Building, CreatePhases
  <2> QED BY <1>1, <1>16, <2>1, <2>4, <2>5, <2>6, <2>7, ProgressKeeps DEF ProcessInv
<1>10. ASSUME MigrateStage(i)
       PROVE  PublicationInv'
  <2> DEFINE new == Project(job[i].print[1], V1, 0, NoOrigin, NoOrigin)
  <2>1. phase[i] \in ValidatedPhases /\ ~Present(t)
    BY <1>10 DEF MigrateStage, ValidatedPhases
  <2>2. new \in Projects
    BY <1>4, <2>1 DEF Prints, Project, Projects, V1, V2
  <2>3. /\ staging' = [staging EXCEPT ![i] = new] /\ UNCHANGED <<at, lease, job, outcome>>
        /\ phase' = [phase EXCEPT ![i] = "migrate.staged"]
    BY <1>10 DEF MigrateStage, Goto
  <2>4. "migrate.staged" \in StagedPhases /\ "migrate.staged" \notin BuiltPhases
    BY DEF StagedPhases, BuiltPhases
  <2> HIDE DEF new
  <2> QED BY <1>16, <2>1, <2>2, <2>3, <2>4
<1>11. ASSUME MigrateObjects(i)
       PROVE  PublicationInv'
  <2> DEFINE new == [staging[i] EXCEPT !.objects = at[s].objects]
  <2>1. phase[i] \in ValidatedPhases /\ phase[i] \in StagedPhases
    BY <1>11 DEF MigrateObjects, ValidatedPhases, StagedPhases
  <2>2. at[s].objects \in BOOLEAN
    BY <1>3, <1>4, <2>1 DEF Projects
  <2>3. new \in Projects
    BY <1>4, <2>1, <2>2 DEF Projects
  <2>4. /\ staging' = [staging EXCEPT ![i] = new] /\ UNCHANGED <<at, lease, job, outcome>>
        /\ phase' = [phase EXCEPT ![i] = "migrate.copied"]
    BY <1>11 DEF MigrateObjects, Goto
  <2>5. "migrate.copied" \in StagedPhases /\ "migrate.copied" \notin BuiltPhases
    BY DEF StagedPhases, BuiltPhases
  <2> HIDE DEF new
  <2> QED BY <1>4, <1>16, <2>1, <2>3, <2>4, <2>5
<1>12. ASSUME MigrateTransform(i)
       PROVE  PublicationInv'
  <2>1. phase[i] = "migrate.copied" /\ phase[i] \in ValidatedPhases /\ phase[i] \in StagedPhases
    BY <1>12 DEF MigrateTransform, ValidatedPhases, StagedPhases
  <2>2. CASE Fingerprint(s) = job[i].print /\ staging[i].objects
    <3> DEFINE whole == Project(at[s].doc, V2, at[s].facts, job[i].print, Fingerprint(s))
               new == [whole EXCEPT !.objects = staging[i].objects, !.database = TRUE]
    <3>1. at[s] \in Projects /\ job[i].print \in Prints
      BY <1>3, <1>4, <2>1
    <3>2. whole = [doc |-> at[s].doc, format |-> V2, facts |-> at[s].facts, origin |-> job[i].print,
                   copied |-> job[i].print, objects |-> FALSE, database |-> FALSE, marker |-> TRUE]
      BY <2>2 DEF Project
    <3>3. staging[i].objects \in BOOLEAN
      BY <1>4, <2>1 DEF Projects
    <3> HIDE DEF whole
    <3>9. /\ new.objects = staging[i].objects /\ new.database /\ new.format = V2
          /\ new.origin = job[i].print /\ new.copied = job[i].print /\ new.doc = at[s].doc
      BY <3>2
    <3>4. at[s].doc \in Documents /\ at[s].facts \in Nat
      BY <3>1 DEF Projects
    <3>5. new \in Projects
      BY <3>1, <3>2, <3>3, <3>4 DEF Projects, V2
    <3>6. /\ new.objects /\ new.database /\ new.format = V2 /\ new.origin = job[i].print
          /\ new.copied = job[i].print /\ new.doc = job[i].print[1]
      BY <1>4, <2>1, <2>2, <3>9
    <3>7. /\ staging' = [staging EXCEPT ![i] = new] /\ UNCHANGED <<at, lease, job, outcome>>
          /\ phase' = [phase EXCEPT ![i] = "migrate.verified"]
      BY <1>12, <2>2 DEF MigrateTransform, Goto, whole
    <3>8. "migrate.verified" \in StagedPhases
      BY DEF StagedPhases, BuiltPhases
    <3> HIDE DEF new
    <3> QED BY <1>4, <1>16, <2>1, <3>5, <3>6, <3>7, <3>8
  <2> QED BY <1>5, <1>12, <2>2 DEF MigrateTransform
<1>13. ASSUME MigrateClear(i)
       PROVE  PublicationInv'
  <2>1. phase[i] = "migrate.verified" /\ phase[i] \in ValidatedPhases
        /\ phase[i] \in StagedPhases /\ phase[i] \in BuiltPhases
    BY <1>13 DEF MigrateClear, ValidatedPhases, StagedPhases, BuiltPhases
  <2>2. CASE Present(t)
    BY <1>6, <1>13, <2>1, <2>2 DEF MigrateClear
  <2>3. CASE ~Present(t)
    <3>1. UNCHANGED <<at, lease, staging, job, outcome>> /\ phase' = [phase EXCEPT ![i] = "migrate.cleared"]
      BY <1>13, <2>3 DEF MigrateClear, Goto
    <3>2. "migrate.cleared" \in ValidatedPhases
      BY DEF ValidatedPhases, StagedPhases, BuiltPhases
    <3>3. /\ staging[i].objects /\ staging[i].database /\ staging[i].format = V2
          /\ staging[i].origin = job[i].print /\ staging[i].copied = job[i].print
          /\ staging[i].doc = job[i].print[1]
      BY <1>1, <2>1 DEF ProcessInv, Building
    <3> QED BY <1>1, <1>4, <2>1, <2>3, <3>1, <3>2, <3>3, MigrateProgress
  <2> QED BY <2>2, <2>3
<1>14. ASSUME MigrateLost(i)
       PROVE  PublicationInv'
  BY <1>6, <1>14 DEF MigrateLost, StagedPhases, BuiltPhases
<1>15. ASSUME MigrateOpen(i)
       PROVE  PublicationInv'
  <2>1. t \in Paths /\ Present(t)
    BY <1>1, <1>15 DEF MigrateOpen, ProcessInv, Arguments, Answers, PublishedPhases
  <2>2. CASE lease[t] # Nobody
    BY <1>5, <1>15, <2>2 DEF MigrateOpen
  <2>3. CASE lease[t] = Nobody
    <3>1. OpenedBy(i, t) /\ job' = job /\ phase[i] = "migrate.published"
      BY <1>15, <2>3 DEF MigrateOpen
    <3>2. job' = [job EXCEPT ![i] = job[i]]
      BY <1>1, <3>1 DEF PublicationTyped
    <3>3. Answers(job[i])
      BY <1>1, <3>1 DEF ProcessInv, Arguments, PublishedPhases
    <3> QED BY <1>1, <2>1, <2>3, <3>1, <3>2, <3>3, OpenedKeeps
  <2> QED BY <2>2, <2>3
<1> QED BY <1>7, <1>8, <1>9, <1>10, <1>11, <1>12, <1>13, <1>14, <1>15, <1>17

(***************************************************************************)
(* The renames that publish a project                                      *)
(***************************************************************************)

\* Publishing a whole project whose document id is new, or which is the
\* migration of a source that only this call holds, keeps the invariant.
LEMMA RenameKeeps ==
  ASSUME PublicationInv, NEW i \in Procs, CreateRename(i) \/ MigrateRename(i)
  PROVE  PublicationInv'
<1> DEFINE t == job[i].target
           new == staging[i]
           f == IF phase[i] = "create.database" THEN "create.published" ELSE "migrate.published"
<1>1. PublicationTyped /\ ProcessInv(i) /\ LeasedIsPresent
  BY DEF PublicationInv
<1>2. /\ phase[i] \in {"create.database", "migrate.cleared"} /\ ~Present(t)
      /\ at' = [at EXCEPT ![t] = new] /\ staging' = [staging EXCEPT ![i] = Nothing]
      /\ phase' = [phase EXCEPT ![i] = f] /\ UNCHANGED <<lease, job, outcome>>
  BY DEF CreateRename, MigrateRename, Rename, Goto
<1>3. t \in Paths /\ new \in Projects /\ new # Nothing
  <2>1. t \in Paths
    BY <1>1, <1>2 DEF ProcessInv, Arguments
  <2>2. new # Nothing
    BY <1>1, <1>2 DEF ProcessInv, Building, CreatePhases, StagedPhases, BuiltPhases
  <2> QED BY <1>1, <2>1, <2>2 DEF PublicationTyped
<1>4. new.objects /\ new.database
  BY <1>1, <1>2 DEF ProcessInv, Building, BuiltPhases
<1>6. ASSUME phase[i] = "migrate.cleared"
      PROVE  LET s == job[i].source IN
             /\ s \in Paths /\ lease[s] = i /\ Present(s) /\ at[s].format = V1
             /\ job[i].print \in Prints /\ job[i].print[1] = at[s].doc /\ job[i].doc = Nothing
             /\ new.format = V2 /\ new.doc = at[s].doc
             /\ new.origin = job[i].print /\ new.copied = job[i].print
  <2>1. phase[i] \in SourcePhases /\ phase[i] \in ValidatedPhases /\ phase[i] \in BuiltPhases
    BY <1>6 DEF SourcePhases, ValidatedPhases, StagedPhases, BuiltPhases
  <2>2. job[i].source \in Paths /\ lease[job[i].source] = i
    BY <1>1, <2>1 DEF ProcessInv, Leases
  <2>3. Present(job[i].source)
    BY <1>1, <2>2, PublicationAssumption DEF LeasedIsPresent
  <2> QED BY <1>1, <2>1, <2>2, <2>3 DEF ProcessInv, Arguments, Building
<1>7. ASSUME phase[i] = "create.database"
      PROVE  /\ phase[i] \in CreatePhases /\ new.format = V1
             /\ job[i].source = Nothing /\ new.doc = job[i].doc
             /\ \A p \in Paths : Present(p) => at[p].doc # new.doc
  BY <1>1, <1>7 DEF ProcessInv, Arguments, Building, CreatePhases
<1>8. at'[t] = new /\ \A p \in Paths \ {t} : at'[p] = at[p]
  BY <1>1, <1>2, <1>3 DEF PublicationTyped
<1>9. AtKept
  <2>1. \A p \in Paths : Present(p) <=> at[p] \in Projects
    BY <1>1, PresentIsProject
  <2>2. \A p \in Paths : at[p] \in Projects => at[p].facts >= at[p].facts
    BY DEF Projects
  <2> QED BY <1>2, <1>8, <2>1, <2>2 DEF AtKept
<1>10. f \in Phases /\ f # "idle" /\ f # "session" /\ f \notin CreatePhases
       /\ f \notin ValidatedPhases /\ f \notin StagedPhases /\ f \notin BuiltPhases
  BY DEF Phases, SourcePhases, ValidatedPhases, StagedPhases, BuiltPhases, CreatePhases
<1>11. PublicationTyped'
  BY <1>1, <1>2, <1>3, <1>10 DEF PublicationTyped
<1>12. phase'[i] = f /\ job'[i] = job[i]
  BY <1>1, <1>2 DEF PublicationTyped
<1>13. ProcessInv(i)'
  <2>1. Leases(i)'
    <3>1. CASE phase[i] = "create.database"
      BY <1>1, <1>2, <1>7, <1>12, <3>1
      DEF ProcessInv, Leases, SourcePhases, ValidatedPhases, StagedPhases, BuiltPhases
    <3>2. CASE phase[i] = "migrate.cleared"
      <4>1. \A p \in Paths : lease[p] = i <=> p = job[i].source
        BY <1>1, <3>2 DEF ProcessInv, Leases, SourcePhases, ValidatedPhases, StagedPhases, BuiltPhases
      <4> QED BY <1>2, <1>6, <1>12, <3>2, <4>1 DEF Leases, CreatePhases
    <3> QED BY <1>2, <3>1, <3>2
  <2>2. Arguments(i)'
    <3>1. Answers(job[i])'
      BY <1>2, <1>3, <1>6, <1>7, <1>8, <1>12 DEF Answers, Present
    <3>2. f \in SourcePhases => job[i].doc = Nothing
      BY <1>2, <1>6 DEF SourcePhases, ValidatedPhases, StagedPhases, BuiltPhases
    <3> QED BY <1>3, <1>10, <1>12, <3>1, <3>2 DEF Arguments
  <2>3. Building(i)'
    BY <1>10, <1>12 DEF Building, CreatePhases
  <2> QED BY <2>1, <2>2, <2>3 DEF ProcessInv
<1>14. ASSUME NEW j \in Procs \ {i}
       PROVE  ProcessInv(j)'
  <2>1. ProcessInv(j) /\ phase'[j] = phase[j] /\ job'[j] = job[j] /\ staging'[j] = staging[j]
        /\ outcome'[j] = outcome[j]
    BY <1>1, <1>2 DEF PublicationInv, PublicationTyped
  <2>2. phase[j] \in CreatePhases => new.doc # staging[j].doc
    <3>1. CASE phase[i] = "create.database"
      BY <1>7, <3>1 DEF PublicationInv, CreationsDiffer
    <3>2. CASE phase[i] = "migrate.cleared"
      BY <1>6, <2>1, <3>2 DEF ProcessInv, Building
    <3> QED BY <1>2, <3>1, <3>2
  <2>3. phase[j] \in StagedPhases => new.format = V1 \/ new.origin # job[j].print
    <3>1. CASE phase[i] = "create.database"
      BY <1>7, <3>1
    <3>2. ASSUME phase[i] = "migrate.cleared", phase[j] \in StagedPhases
          PROVE  job[i].print # job[j].print
      <4>1. phase[j] \in SourcePhases /\ phase[j] \in ValidatedPhases
        BY <3>2 DEF SourcePhases, ValidatedPhases
      <4>2. job[j].source \in Paths /\ lease[job[j].source] = j
        BY <2>1, <4>1 DEF ProcessInv, Leases
      <4>3. /\ Present(job[j].source) /\ at[job[j].source].format = V1
            /\ job[j].print[1] = at[job[j].source].doc
        BY <1>1, <2>1, <4>1, <4>2, PublicationAssumption DEF LeasedIsPresent, ProcessInv, Arguments
      <4>4. job[i].source # job[j].source
        BY <1>6, <3>2, <4>2
      <4> QED BY <1>6, <3>2, <4>2, <4>3, <4>4 DEF PublicationInv, OriginalsDiffer
    <3> QED BY <1>2, <1>6, <3>1, <3>2
  <2>4. \A p \in Paths : ~Present(p) /\ at'[p] # Nothing => p = t
    BY <1>8 DEF Present
  <2> QED BY <1>2, <1>8, <1>9, <2>1, <2>2, <2>3, <2>4, OthersKeep
<1>15. CreationsDiffer'
  <2>1. \A j \in Procs : phase'[j] \in CreatePhases => j # i /\ phase[j] \in CreatePhases
                                                     /\ staging'[j] = staging[j]
    BY <1>1, <1>2, <1>10, <1>12 DEF PublicationTyped
  <2> QED BY <2>1 DEF CreationsDiffer, PublicationInv
<1>16. LeasedIsPresent'
  BY <1>1, <1>2, <1>3, <1>8 DEF LeasedIsPresent, Present
<1>17. OriginalsDiffer'
  <2>1. new.format = V1 => \A p \in Paths : Present(p) => at[p].doc # new.doc
    BY <1>2, <1>6, <1>7 DEF V1, V2
  <2> QED BY <1>8, <2>1 DEF PublicationInv, OriginalsDiffer, Present
<1>18. PublishedComplete'
  BY <1>4, <1>8 DEF PublicationInv, PublishedComplete, Opens, Present
<1>19. MigrationFaithful'
  <2>1. new.format = V2 => new.origin = new.copied /\ new.doc = new.copied[1]
    BY <1>2, <1>6, <1>7 DEF V1, V2
  <2> QED BY <1>8, <2>1 DEF PublicationInv, MigrationFaithful, Present
<1>20. \A j \in Procs : ProcessInv(j)'
  BY <1>13, <1>14
<1> QED BY <1>11, <1>15, <1>16, <1>17, <1>18, <1>19, <1>20 DEF PublicationInv

(***************************************************************************)
(* Sessions, errors, deaths and other programs                             *)
(***************************************************************************)

\* The steps of a session, an error and a death keep the invariant.
LEMMA SessionKeeps ==
  ASSUME PublicationInv, NEW i \in Procs, Session(i) \/ Fail(i) \/ Crash(i)
  PROVE  PublicationInv'
<1>1. PublicationTyped /\ ProcessInv(i)
  BY DEF PublicationInv
<1>2. UNCHANGED at => NothingNew /\ at' \in [Paths -> Projects \cup {Nothing}]
  BY <1>1, QuietPaths
<1>3. ASSUME NEW p \in Paths, OpenSession(i, p)
      PROVE  PublicationInv'
  <2> DEFINE arguments == [NoJob EXCEPT !.target = p]
  <2>1. /\ Present(p) /\ lease[p] = Nobody /\ OpenedBy(i, p)
        /\ job' = [job EXCEPT ![i] = arguments]
    BY <1>3 DEF OpenSession
  <2>2. arguments \in Jobs /\ arguments.target = p /\ Answers(arguments)
    BY <2>1 DEF Jobs, NoJob, Answers
  <2> QED BY <2>1, <2>2, OpenedKeeps
<1>4. ASSUME Edit(i)
      PROVE  PublicationInv'
  <2>1. PICK p \in Held(i) : at' = [at EXCEPT ![p].facts = @ + 1]
    BY <1>4 DEF Edit
  <2>2. p \in Paths /\ Present(p)
    BY <2>1, PublicationAssumption DEF Held, PublicationInv, LeasedIsPresent
  <2>3. NothingNew /\ at' \in [Paths -> Projects \cup {Nothing}]
    BY <1>1, <2>1, <2>2, QuietPaths
  <2>4. UNCHANGED <<lease, staging, phase, job, outcome>> /\ phase[i] = "session"
    BY <1>4 DEF Edit
  <2>5. PublicationTyped' /\ OnlyMoves(i)
    BY <1>1, <2>3, <2>4 DEF PublicationTyped, OnlyMoves
  <2>6. AtKept /\ \A q \in Paths : ~Present(q) => at'[q] = Nothing
    BY <2>3 DEF NothingNew
  <2>7. ProcessInv(i)'
    BY <2>4, <2>6, OthersKeep
  <2>8. \A q \in Paths : lease'[q] = i => Present(q)
    BY <2>4, PublicationAssumption DEF PublicationInv, LeasedIsPresent
  <2> QED BY <2>3, <2>4, <2>5, <2>7, <2>8, QuietStep DEF CreatePhases
<1>5. ASSUME CloseSession(i)
      PROVE  PublicationInv'
  <2>1. /\ phase[i] = "session" /\ phase' = [phase EXCEPT ![i] = "idle"] /\ lease' = Dropped(i)
        /\ UNCHANGED <<at, staging, job, outcome>>
    BY <1>5 DEF CloseSession, Goto
  <2>2. outcome[i] = "ok"
    BY <1>1, <2>1 DEF ProcessInv, Arguments
  <2>3. PublicationTyped'
    BY <1>1, <2>1, DroppedLeases DEF PublicationTyped, Phases
  <2>4. OnlyMoves(i)
    BY <1>1, <2>1, DroppedLeases DEF PublicationTyped, OnlyMoves
  <2>5. phase'[i] = "idle" /\ outcome'[i] = "ok" /\ \A p \in Paths : lease'[p] # i
    BY <1>1, <2>1, <2>2, DroppedLeases DEF PublicationTyped
  <2>6. Leases(i)' /\ Arguments(i)' /\ Building(i)'
    BY <2>5 DEF Leases, Arguments, Building, SourcePhases, ValidatedPhases, StagedPhases,
       BuiltPhases, CreatePhases, PublishedPhases
  <2> QED BY <1>2, <2>1, <2>3, <2>4, <2>5, <2>6, QuietStep DEF ProcessInv, CreatePhases
<1>6. ASSUME Fail(i)
      PROVE  PublicationInv'
  BY <1>2, <1>6, ReturnKeeps DEF Fail, Return, End, Goto, Outcomes
<1>7. ASSUME Crash(i)
      PROVE  PublicationInv'
  BY <1>2, <1>7, ReturnKeeps DEF Crash, Goto, Outcomes
<1> QED BY <1>3, <1>4, <1>5, <1>6, <1>7 DEF Session

\* A program that ignores the lease changes facts and nothing else.
LEMMA TamperKeeps ==
  ASSUME PublicationInv, NEW p \in Paths, Tamper(p)
  PROVE  PublicationInv' /\ NothingNew
<1>1. PublicationTyped
  BY DEF PublicationInv
<1>2. Present(p) /\ at' = [at EXCEPT ![p].facts = @ + 1]
      /\ UNCHANGED <<lease, staging, phase, job, outcome>>
  BY DEF Tamper
<1>3. NothingNew /\ at' \in [Paths -> Projects \cup {Nothing}]
  BY <1>1, <1>2, QuietPaths
<1>4. AtKept /\ \A q \in Paths : Present(q) <=> at'[q] # Nothing
  BY <1>3, NothingAssumption DEF NothingNew, AtKept
<1>5. \A j \in Procs : ProcessInv(j)'
  BY <1>2, <1>4, OthersKeep
<1>6. PublicationTyped' /\ CreationsDiffer' /\ LeasedIsPresent'
  BY <1>1, <1>2, <1>3, <1>4
  DEF PublicationInv, PublicationTyped, CreationsDiffer, LeasedIsPresent, Present
<1> QED BY <1>3, <1>5, <1>6, QuietProjects DEF PublicationInv

(***************************************************************************)
(* Theorems                                                                *)
(***************************************************************************)

\* At first there is no project.
LEMMA InitPublicationInv == Init => PublicationInv
<1> SUFFICES ASSUME Init
             PROVE  PublicationInv
  OBVIOUS
<1>1. PublicationTyped
  BY DEF Init, PublicationTyped, Phases, Jobs, NoJob, Outcomes
<1>2. ASSUME NEW i \in Procs
      PROVE  Leases(i) /\ Arguments(i) /\ Building(i)
  BY PublicationAssumption DEF Init, Leases, Arguments, Building, SourcePhases, ValidatedPhases,
     StagedPhases, BuiltPhases, CreatePhases, PublishedPhases
<1>3. CreationsDiffer /\ OriginalsDiffer /\ LeasedIsPresent /\ PublishedComplete /\ MigrationFaithful
  BY DEF Init, CreationsDiffer, OriginalsDiffer, LeasedIsPresent, PublishedComplete,
     MigrationFaithful, Present, CreatePhases
<1> QED BY <1>1, <1>2, <1>3 DEF PublicationInv, ProcessInv

\* Every step of a process or another program keeps it.
LEMMA StepPublicationInv == PublicationInv /\ [Next]_vars => PublicationInv'
<1> SUFFICES ASSUME PublicationInv, [Next]_vars
             PROVE  PublicationInv'
  OBVIOUS
<1>1. CASE UNCHANGED vars
  BY <1>1 DEF vars, PublicationInv, PublicationTyped, ProcessInv, Leases, Arguments, Answers, Differs,
     Building, CreationsDiffer, OriginalsDiffer, LeasedIsPresent, PublishedComplete, Opens,
     MigrationFaithful, Present
<1>2. CASE Next
  BY <1>2, CreateKeeps, MigrateKeeps, RenameKeeps, SessionKeeps, TamperKeeps
  DEF Next, Create, Migrate
<1> QED BY <1>1, <1>2

\* The inductive invariant: who holds which lease, what each call has validated
\* and built, which document ids are in use, and what is at the paths.
THEOREM PublicationInvariant == Spec => []PublicationInv
BY InitPublicationInv, StepPublicationInv, PTL DEF Spec

\* Whatever dies or fails, what is at a path is a whole project.
THEOREM PublishedCompleteAlways == Spec => []PublishedComplete
<1>1. PublicationInv => PublishedComplete
  BY DEF PublicationInv
<1> QED BY <1>1, PublicationInvariant, PTL

\* A migrated project holds the facts whose fingerprint it names.
THEOREM MigrationFaithfulAlways == Spec => []MigrationFaithful
<1>1. PublicationInv => MigrationFaithful
  BY DEF PublicationInv
<1> QED BY <1>1, PublicationInvariant, PTL

\* A migration that is told that its target belongs to another source state, or
\* that another process was first, has met another project than its own.
THEOREM ConflictIsRealAlways == Spec => []ConflictIsReal
<1>1. PublicationInv => ConflictIsReal
  BY DEF PublicationInv, ProcessInv, Arguments, Differs, ConflictIsReal, TargetIsAnother, Conflicts
<1> QED BY <1>1, PublicationInvariant, PTL

\* A call that returns a session holds the lease of its target alone, and there
\* is the project it created, the migration it asked for, or what it opened.
THEOREM SessionIsAskedForAlways == Spec => []SessionIsAskedFor
<1>1. PublicationInv => SessionIsAskedFor
  <2> SUFFICES ASSUME PublicationInv, NEW i \in Procs, phase[i] = "session"
               PROVE  LET p == job[i].target IN
                        /\ Held(i) = {p} /\ ~at[p].marker
                        /\ job[i].doc # Nothing => at[p].doc = job[i].doc
                        /\ job[i].source # Nothing =>
                             at[p].format = V2 /\ at[p].doc = job[i].print[1]
                               /\ at[p].origin = job[i].print
    BY DEF SessionIsAskedFor
  <2>1. Leases(i) /\ Arguments(i)
    BY DEF PublicationInv, ProcessInv
  <2>2. Held(i) = {job[i].target} /\ ~at[job[i].target].marker
    BY <2>1 DEF Leases, Held
  <2>3. Answers(job[i])
    BY <2>1 DEF Arguments
  <2> QED BY <2>2, <2>3 DEF Answers
<1> QED BY <1>1, PublicationInvariant, PTL

\* No create and no migration replaces or removes what is at a path.
THEOREM NeverReplacedAlways == Spec => NeverReplaced
<1> DEFINE Kept == \A p \in Paths : Present(p) =>
                     /\ at'[p] # Nothing
                     /\ at'[p].doc = at[p].doc /\ at'[p].format = at[p].format
                     /\ at'[p].origin = at[p].origin /\ at'[p].copied = at[p].copied
                     /\ at'[p].facts >= at[p].facts
<1>1. AtKept => Kept
  BY NothingAssumption DEF AtKept
<1>2. ASSUME PublicationInv, Next
      PROVE  AtKept
  <2>1. PublicationTyped
    BY <1>2 DEF PublicationInv
  <2>2. \A p \in Paths : Present(p) <=> at[p] \in Projects
    BY <2>1, PresentIsProject
  <2>3. UNCHANGED at => AtKept
    BY <2>1, QuietPaths DEF NothingNew
  <2>4. ASSUME NEW i \in Procs, NEW f, Rename(i, f)
        PROVE  AtKept
    <3>1. \A p \in Paths : Present(p) => at'[p] = at[p]
      BY <2>1, <2>4 DEF Rename, PublicationTyped, Present
    <3>2. \A p \in Paths : at[p] \in Projects => at[p].facts >= at[p].facts
      BY DEF Projects
    <3> QED BY <2>2, <3>1, <3>2 DEF AtKept
  <2>5. ASSUME NEW i \in Procs, NEW p \in Paths, Present(p), OpenedBy(i, p)
        PROVE  AtKept
    BY <2>1, <2>5, QuietPaths DEF OpenedBy, Unmarked, NothingNew
  <2>6. ASSUME NEW i \in Procs, MigrateExisting(i) \/ MigrateUnusable(i)
        PROVE  AtKept
    <3> DEFINE t == job[i].target
    <3>1. t \in Paths /\ Present(t)
      BY <1>2, <2>6 DEF MigrateExisting, MigrateUnusable, PublicationInv, ProcessInv, Arguments
    <3>2. UNCHANGED at \/ at' = [at EXCEPT ![t].marker = FALSE]
      BY <2>6 DEF MigrateExisting, MigrateUnusable, Return, OpenedBy, Unmarked
    <3> QED BY <2>1, <3>1, <3>2, QuietPaths DEF NothingNew
  <2>7. ASSUME NEW i \in Procs, CreateOpen(i) \/ MigrateOpen(i)
        PROVE  AtKept
    <3> DEFINE t == job[i].target
    <3>1. t \in Paths /\ Present(t)
      BY <1>2, <2>7 DEF CreateOpen, MigrateOpen, PublicationInv, ProcessInv, Arguments,
         Answers, PublishedPhases
    <3>2. UNCHANGED at \/ OpenedBy(i, t)
      BY <2>7 DEF CreateOpen, MigrateOpen, Return
    <3> QED BY <2>3, <2>5, <3>1, <3>2
  <2>8. ASSUME NEW i \in Procs, Edit(i)
        PROVE  AtKept
    <3>1. PICK p \in Held(i) : at' = [at EXCEPT ![p].facts = @ + 1]
      BY <2>8 DEF Edit
    <3>2. p \in Paths /\ Present(p)
      BY <1>2, <3>1, PublicationAssumption DEF Held, PublicationInv, LeasedIsPresent
    <3> QED BY <2>1, <3>1, <3>2, QuietPaths DEF NothingNew
  <2>9. ASSUME NEW i \in Procs,
               \/ \E p \in Paths : CreateStage(i, p) \/ CreateExists(i, p)
               \/ CreatePersist(i) \/ CreateDatabase(i) \/ CreateLost(i)
               \/ \E s, t \in Paths : MigrateLease(i, s, t)
               \/ MigrateValidate(i) \/ MigrateStage(i) \/ MigrateObjects(i)
               \/ MigrateTransform(i) \/ MigrateClear(i) \/ MigrateLost(i)
               \/ CloseSession(i) \/ Fail(i) \/ Crash(i)
        PROVE  UNCHANGED at
    BY <2>9 DEF CreateStage, CreateExists, CreatePersist, CreateDatabase, CreateLost,
       MigrateLease, MigrateValidate, MigrateStage, MigrateObjects, MigrateTransform,
       MigrateClear, MigrateLost, CloseSession, Fail, Crash, Return
  <2>10. ASSUME NEW i \in Procs, NEW p \in Paths, OpenSession(i, p)
         PROVE  AtKept
    BY <2>5, <2>10 DEF OpenSession
  <2>11. ASSUME NEW i \in Procs, CreateRename(i) \/ MigrateRename(i)
         PROVE  AtKept
    BY <2>4, <2>11 DEF CreateRename, MigrateRename
  <2>12. ASSUME NEW p \in Paths, Tamper(p)
         PROVE  AtKept
    BY <1>2, <2>12, TamperKeeps DEF NothingNew
  <2>13. ASSUME NEW i \in Procs, Create(i) \/ Migrate(i)
         PROVE  AtKept
    BY <2>3, <2>6, <2>7, <2>9, <2>11, <2>13 DEF Create, Migrate
  <2>14. ASSUME NEW i \in Procs, Session(i) \/ Fail(i) \/ Crash(i)
         PROVE  AtKept
    BY <2>3, <2>8, <2>9, <2>10, <2>14 DEF Session
  <2> QED BY <1>2, <2>12, <2>13, <2>14 DEF Next
<1>3. PublicationInv /\ [Next]_vars => [Kept]_vars
  BY <1>1, <1>2
<1> QED BY <1>3, PublicationInvariant, PTL DEF Spec, NeverReplaced
================================================================================
