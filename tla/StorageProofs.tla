---------------------------- MODULE StorageProofs ----------------------------
(***************************************************************************)
(* Proofs about what is written to a storage that may fail.                *)
(*                                                                         *)
(* The resumable campaign, for every number of samples, chunking, order of *)
(* the workers and number of deaths, and whatever a value becomes when the *)
(* file is read.  CampaignInv says that every checkpoint, in the file, in  *)
(* memory or half way between them, has leaves of its own campaign only    *)
(* and no sample twice, that the one in memory is for the campaign asked   *)
(* for and holds what was read from the file, and that the workers have    *)
(* only samples it lacks.                                                  *)
(*                                                                         *)
(* The flight recorder, for every capacity, policy and number of pushes    *)
(* and refusals.  What an operation does to the ring is read as what it    *)
(* does to the queue the ring holds; RecorderInv then speaks of the queue  *)
(* only: its numbers are the last ones given, without a gap.               *)
(***************************************************************************)
EXTENDS Campaign, FlightRecorder, FiniteSetTheorems, SequenceTheorems, TLAPS

-----------------------------------------------------------------------------
(***************************************************************************)
(* The campaign.                                                           *)
(***************************************************************************)
Good(c) == c = [id |-> c.id, leaves |-> c.leaves] /\ Whole(c)

Sample(i) == [index |-> i, value |-> Outcome[asked][i]]

Up == pc # "down"

\* From the load to the rename.
Ahead == pc \in {"run", "save", "write", "rename"}

FileGood == file = None \/ Good(file)

MemoryGood ==
  /\ Up => /\ asked \in Campaigns /\ Good(checkpoint) /\ checkpoint.id = asked
           /\ file # None => file.id = asked
  /\ Ahead /\ file # None => AsRead(file.leaves) \subseteq checkpoint.leaves
  /\ pc = "rename" => tmp = checkpoint

\* The workers have only samples the checkpoint lacks.
PoolGood ==
  pc = "run" => /\ todo \subseteq Missing(checkpoint)
                /\ fresh \subseteq {Sample(i) : i \in Missing(checkpoint)}

ReportGood == report = None \/ (Good(report) /\ Indices(report.leaves) = Samples)

CampaignInv == FileGood /\ MemoryGood /\ PoolGood /\ ReportGood

-----------------------------------------------------------------------------
LEMMA SamplesFinite == IsFiniteSet(Samples) /\ Cardinality(Samples) = NSamples
<1>1. NSamples \in Nat \ {0} BY CampaignAssumption
<1>2. /\ IsFiniteSet(0 .. NSamples - 1)
      /\ Cardinality(0 .. NSamples - 1)
           = IF 0 > NSamples - 1 THEN 0 ELSE (NSamples - 1) - 0 + 1
  BY <1>1, FS_Interval
<1> QED BY <1>1, <1>2 DEF Samples

\* What a value may have become: itself, and what each of these is read as.
LEMMA RereadsClosed ==
  ASSUME NEW v \in Values
  PROVE  v \in Rereads[v] /\ \A w \in Rereads[v] : w \in Values /\ Reread[w] \in Rereads[v]
<1>1. \A w \in Values : Reread[w] \in Values BY CampaignAssumption
<1>2. Rereads[v] = {w \in Values : \A S \in SUBSET Values :
                       v \in S /\ (\A x \in S : Reread[x] \in S) => w \in S}
  BY DEF Rereads
<1>3. v \in Rereads[v] BY <1>2
<1>4. ASSUME NEW w \in Rereads[v] PROVE w \in Values /\ Reread[w] \in Rereads[v]
  BY <1>1, <1>2
<1> QED BY <1>3, <1>4

\* A value that is read as itself becomes nothing else.
LEMMA RereadsFixed ==
  ASSUME NEW v \in Values, Reread[v] = v PROVE Rereads[v] = {v}
<1>1. v \in {v} /\ {v} \in SUBSET Values /\ \A x \in {v} : Reread[x] \in {v} OBVIOUS
<1>2. \A w \in Rereads[v] : w \in {v} BY <1>1 DEF Rereads
<1> QED BY <1>2, RereadsClosed

\* Reading a checkpoint back keeps it whole and loses no sample.
LEMMA ReadIsWhole ==
  ASSUME NEW c, Whole(c)
  PROVE  /\ Whole([id |-> c.id, leaves |-> AsRead(c.leaves)])
         /\ Indices(AsRead(c.leaves)) = Indices(c.leaves)
<1> DEFINE Changed(l) == [l EXCEPT !.value = Reread[@]]
           Read(l) == [index |-> l.index, value |-> Reread[l.value]]
<1>1. \A l \in c.leaves : l.index \in Samples /\ l.value \in Values
  BY DEF Whole, Leaves
<1>2. \A l \in c.leaves : Changed(l) = Read(l) /\ Read(l).index = l.index
  BY DEF Whole, Leaves
<1>3. AsRead(c.leaves) = {Changed(l) : l \in c.leaves} BY DEF AsRead
<1>4. /\ \A l \in c.leaves : Read(l) \in AsRead(c.leaves) /\ Read(l).index = l.index
      /\ \A k \in AsRead(c.leaves) : \E l \in c.leaves : k = Read(l)
  <2> HIDE DEF Changed, Read
  <2> QED BY <1>2, <1>3
<1>5. \A id \in Campaigns, i \in Samples : Mean(Outcome[id][i]) \in Values
  BY CampaignAssumption DEF Mean
<1>6. ASSUME NEW l \in c.leaves
      PROVE  Read(l) \in Leaves /\ Read(l).value \in Rereads[Mean(Outcome[c.id][l.index])]
  <2>1. l.value \in Rereads[Mean(Outcome[c.id][l.index])] /\ c.id \in Campaigns BY DEF Whole
  <2>2. Reread[l.value] \in Rereads[Mean(Outcome[c.id][l.index])]
    BY <1>1, <1>5, <2>1, RereadsClosed
  <2>3. Reread[l.value] \in Values BY <1>1, CampaignAssumption
  <2> QED BY <1>1, <2>2, <2>3 DEF Leaves
<1> HIDE DEF Read
<1>7. Indices(AsRead(c.leaves)) = Indices(c.leaves) BY <1>4 DEF Indices
<1>8. AsRead(c.leaves) \subseteq Leaves BY <1>4, <1>6
<1>9. \A k \in AsRead(c.leaves) : k.value \in Rereads[Mean(Outcome[c.id][k.index])]
  BY <1>4, <1>6
<1>10. \A k, m \in AsRead(c.leaves) : k.index = m.index => k = m
  BY <1>4 DEF Whole
<1> QED BY <1>7, <1>8, <1>9, <1>10 DEF Whole

\* No sample is there twice, so as many leaves as samples are all.
LEMMA CompleteHasAll ==
  ASSUME NEW c, Whole(c) PROVE IsComplete(c) <=> Indices(c.leaves) = Samples
<1> DEFINE f == [l \in c.leaves |-> l.index]
<1>1. \A l \in c.leaves : l.index \in Samples BY DEF Whole, Leaves
<1>2. f \in Injection(c.leaves, Samples) BY <1>1 DEF Injection, IsInjective, Whole
<1>3. Cardinality(c.leaves) = NSamples <=> f \in Surjection(c.leaves, Samples)
  BY <1>2, SamplesFinite, FS_Injection
<1>4. f \in Surjection(c.leaves, Samples) <=> Indices(c.leaves) = Samples
  BY <1>1 DEF Surjection, Indices
<1> QED BY <1>3, <1>4 DEF IsComplete

\* What an invocation starts from.
LEMMA LoadIsGood ==
  ASSUME FileGood, NEW id \in Campaigns, Accepted(id)
  PROVE  /\ Good(Loaded(id)) /\ Loaded(id).id = id
         /\ file # None => /\ Loaded(id).leaves = AsRead(file.leaves)
                           /\ Indices(Loaded(id).leaves) = Indices(file.leaves)
<1>1. CASE file = None BY <1>1 DEF Loaded, Good, Whole
<1>2. CASE file # None
  <2>1. file = [id |-> id, leaves |-> file.leaves] /\ Whole(file)
    BY <1>2 DEF FileGood, Good, Accepted
  <2>2. Loaded(id) = [id |-> id, leaves |-> AsRead(file.leaves)]
    BY <1>2, <2>1 DEF Loaded
  <2>3. Whole([id |-> id, leaves |-> AsRead(file.leaves)])
        /\ Indices(AsRead(file.leaves)) = Indices(file.leaves)
    BY <2>1, ReadIsWhole
  <2> QED BY <2>2, <2>3 DEF Good
<1> QED BY <1>1, <1>2

LEMMA InitInv == Init => CampaignInv
BY DEF Init, CampaignInv, FileGood, MemoryGood, PoolGood, ReportGood, Up, Ahead

\* What a step leaves alone stays good.
LEMMA KeptFile == FileGood /\ file' = file => FileGood'
BY DEF FileGood, Good, Whole

LEMMA KeptReport == ReportGood /\ report' = report => ReportGood'
BY DEF ReportGood, Good, Whole, Indices

LEMMA StartInv ==
  ASSUME CampaignInv, NEW id \in Campaigns, NEW limit, Start(id, limit) PROVE CampaignInv'
<1>1. /\ pc = "down" /\ Accepted(id) /\ (file # None => file.id = id)
      /\ asked' = id /\ fresh' = {} /\ checkpoint' = Loaded(id)
      /\ UNCHANGED <<file, tmp, report>>
  BY DEF Start, Accepted, disk
<1>2. /\ Good(Loaded(id)) /\ Loaded(id).id = id
      /\ file # None => Loaded(id).leaves = AsRead(file.leaves)
  BY <1>1, LoadIsGood DEF CampaignInv
<1>3. pc' # "rename" /\ (pc' = "run" => todo' \subseteq Missing(Loaded(id)))
  BY DEF Start, Chunks
<1>4. Good(checkpoint)' BY <1>1, <1>2 DEF Good, Whole
<1>5. AsRead(file.leaves)' = AsRead(file.leaves) BY <1>1 DEF AsRead
<1>6. MemoryGood' BY <1>1, <1>2, <1>3, <1>4, <1>5 DEF MemoryGood
<1>7. Missing(checkpoint)' = Missing(Loaded(id)) BY <1>1 DEF Missing, Indices
<1>8. PoolGood' BY <1>1, <1>3, <1>7 DEF PoolGood
<1> QED BY <1>1, <1>6, <1>8, KeptFile, KeptReport DEF CampaignInv

LEMMA EvaluateInv == CampaignInv /\ Evaluate => CampaignInv'
<1> SUFFICES ASSUME CampaignInv, Evaluate PROVE CampaignInv' OBVIOUS
<1>1. PICK i \in todo : /\ todo' = todo \ {i}
                        /\ fresh' = fresh \cup {Sample(i)}
  BY DEF Evaluate, Sample
<1>2. pc = "run" /\ UNCHANGED <<file, tmp, pc, asked, checkpoint, report>>
  BY DEF Evaluate, disk
<1>3. /\ todo \subseteq Missing(checkpoint)
      /\ fresh \subseteq {Sample(j) : j \in Missing(checkpoint)}
  BY <1>2 DEF CampaignInv, PoolGood
<1>4. \A j : Sample(j)' = Sample(j) BY <1>2 DEF Sample
<1>5. Missing(checkpoint)' = Missing(checkpoint) BY <1>2 DEF Missing, Indices
<1>6. PoolGood' BY <1>1, <1>3, <1>4, <1>5 DEF PoolGood
<1>7. MemoryGood'
  BY <1>2 DEF CampaignInv, MemoryGood, Up, Ahead, Good, Whole, AsRead
<1> QED BY <1>2, <1>6, <1>7, KeptFile, KeptReport DEF CampaignInv

\* Recording keeps the checkpoint whole: a value is its own outcome's, and no
\* sample was there before.
LEMMA RecordedIsGood ==
  ASSUME CampaignInv, Record
  PROVE  /\ Good(checkpoint') /\ checkpoint'.id = asked
         /\ checkpoint'.leaves = checkpoint.leaves \cup {Leaf(s) : s \in fresh}
<1> DEFINE added == {Leaf(s) : s \in fresh}
<1>1. pc = "run" /\ checkpoint' = [checkpoint EXCEPT !.leaves = @ \cup added]
  BY DEF Record
<1>2. /\ asked \in Campaigns /\ Good(checkpoint) /\ checkpoint.id = asked
      /\ fresh \subseteq {Sample(i) : i \in Missing(checkpoint)}
  BY <1>1 DEF CampaignInv, MemoryGood, PoolGood, Up
<1>3. checkpoint' = [id |-> asked, leaves |-> checkpoint.leaves \cup added]
  BY <1>1, <1>2 DEF Good
<1>4. ASSUME NEW l \in added
      PROVE  /\ l \in Leaves /\ l.index \in Missing(checkpoint)
             /\ l = [index |-> l.index, value |-> Mean(Outcome[asked][l.index])]
             /\ l.value \in Rereads[Mean(Outcome[asked][l.index])]
  <2>1. PICK i \in Missing(checkpoint) : l = [index |-> i, value |-> Mean(Outcome[asked][i])]
    BY <1>2 DEF Sample, Leaf
  <2>2. i \in Samples BY DEF Missing
  <2>3. Mean(Outcome[asked][i]) \in Values
    BY <1>2, <2>2, CampaignAssumption DEF Mean
  <2> QED BY <2>1, <2>2, <2>3, RereadsClosed DEF Leaves
<1> HIDE DEF added
<1>5. Whole(checkpoint) /\ \A l \in checkpoint.leaves : l.index \notin Missing(checkpoint)
  BY <1>2 DEF Good, Missing, Indices
<1>6. \A k, l \in checkpoint.leaves \cup added : k.index = l.index => k = l
  BY <1>4, <1>5 DEF Whole
<1>7. \A l \in checkpoint.leaves \cup added :
        l \in Leaves /\ l.value \in Rereads[Mean(Outcome[asked][l.index])]
  BY <1>2, <1>4, <1>5 DEF Whole
<1>8. Whole(checkpoint') BY <1>2, <1>3, <1>6, <1>7 DEF Whole
<1> QED BY <1>3, <1>8 DEF Good, added

LEMMA RecordInv == CampaignInv /\ Record => CampaignInv'
<1> SUFFICES ASSUME CampaignInv, Record PROVE CampaignInv' OBVIOUS
<1>1. /\ pc = "run" /\ pc' = "save" /\ UNCHANGED <<file, tmp, asked, report>>
  BY DEF Record, disk
<1>2. /\ asked \in Campaigns /\ (file # None => file.id = asked)
      /\ file # None => AsRead(file.leaves) \subseteq checkpoint.leaves
  BY <1>1 DEF CampaignInv, MemoryGood, Up, Ahead
<1>3. Good(checkpoint') /\ checkpoint'.id = asked /\ checkpoint.leaves \subseteq checkpoint'.leaves
  BY RecordedIsGood
<1>4. Good(checkpoint)' BY <1>3 DEF Good, Whole
<1>5. AsRead(file.leaves)' = AsRead(file.leaves) BY <1>1 DEF AsRead
<1>6. MemoryGood' BY <1>1, <1>2, <1>3, <1>4, <1>5 DEF MemoryGood
<1>7. PoolGood' BY <1>1 DEF PoolGood
<1> QED BY <1>1, <1>6, <1>7, KeptFile, KeptReport DEF CampaignInv

LEMMA SaveInv == CampaignInv /\ (BeginWrite \/ EndWrite \/ Rename) => CampaignInv'
<1> SUFFICES ASSUME CampaignInv, BeginWrite \/ EndWrite \/ Rename PROVE CampaignInv' OBVIOUS
<1>1. /\ pc \in {"save", "write", "rename"} /\ pc' \notin {"down", "run"}
      /\ UNCHANGED <<asked, checkpoint, report>>
  BY DEF BeginWrite, EndWrite, Rename, memory
<1>2. /\ asked \in Campaigns /\ Good(checkpoint) /\ checkpoint.id = asked
      /\ file # None => file.id = asked /\ AsRead(file.leaves) \subseteq checkpoint.leaves
      /\ pc = "rename" => tmp = checkpoint
  BY <1>1 DEF CampaignInv, MemoryGood, Up, Ahead
<1>3. file' = file \/ (file' = checkpoint /\ pc' = "report")
  BY <1>2 DEF BeginWrite, EndWrite, Rename
<1>4. pc' = "rename" => tmp' = checkpoint BY DEF BeginWrite, EndWrite, Rename
<1>5. FileGood' BY <1>1, <1>2, <1>3 DEF CampaignInv, FileGood, Good, Whole
<1>6. Good(checkpoint)' BY <1>1, <1>2 DEF Good, Whole
<1>7. file' = file => AsRead(file.leaves)' = AsRead(file.leaves) BY DEF AsRead
<1>8. MemoryGood' BY <1>1, <1>2, <1>3, <1>4, <1>6, <1>7 DEF MemoryGood, Ahead
<1>9. PoolGood' BY <1>1 DEF PoolGood
<1> QED BY <1>1, <1>5, <1>8, <1>9, KeptReport DEF CampaignInv

LEMMA FinishInv == CampaignInv /\ Finish => CampaignInv'
<1> SUFFICES ASSUME CampaignInv, Finish PROVE CampaignInv' OBVIOUS
<1>1. /\ pc = "report" /\ pc' = "down" /\ UNCHANGED <<file, tmp>>
      /\ report' = IF IsComplete(checkpoint)
                   THEN [id |-> asked, leaves |-> checkpoint.leaves] ELSE report
  BY DEF Finish, disk
<1>2. Good(checkpoint) /\ checkpoint.id = asked
  BY <1>1 DEF CampaignInv, MemoryGood, Up
<1>3. ReportGood'
  <2>1. CASE IsComplete(checkpoint)
    <3>1. report' = checkpoint BY <1>1, <1>2, <2>1 DEF Good
    <3>2. Indices(checkpoint.leaves) = Samples BY <1>2, <2>1, CompleteHasAll DEF Good
    <3> QED BY <1>2, <3>1, <3>2 DEF ReportGood, Good, Whole, Indices
  <2>2. CASE ~IsComplete(checkpoint) BY <1>1, <2>2, KeptReport DEF CampaignInv
  <2> QED BY <2>1, <2>2
<1>4. MemoryGood' /\ PoolGood' BY <1>1 DEF MemoryGood, PoolGood, Up, Ahead
<1> QED BY <1>1, <1>3, <1>4, KeptFile DEF CampaignInv

LEMMA DieInv == CampaignInv /\ Die => CampaignInv'
<1> SUFFICES ASSUME CampaignInv, Die PROVE CampaignInv' OBVIOUS
<1>1. pc' = "down" /\ UNCHANGED <<file, tmp, report>> BY DEF Die, disk
<1>2. MemoryGood' /\ PoolGood' BY <1>1 DEF MemoryGood, PoolGood, Up, Ahead
<1> QED BY <1>1, <1>2, KeptFile, KeptReport DEF CampaignInv

LEMMA NextInv == CampaignInv /\ [Next]_vars => CampaignInv'
<1> SUFFICES ASSUME CampaignInv, [Next]_vars PROVE CampaignInv' OBVIOUS
<1>1. CASE \E id \in Campaigns : \E limit \in 1 .. MaxChunk : Start(id, limit)
  BY <1>1, StartInv
<1>2. CASE Work
  BY <1>2, EvaluateInv, RecordInv, SaveInv, FinishInv DEF Work
<1>3. CASE Die BY <1>3, DieInv
<1>4. CASE UNCHANGED vars
  <2>1. UNCHANGED <<file, tmp, pc, asked, checkpoint, todo, fresh, report>>
    BY <1>4 DEF vars, disk, memory
  <2>2. MemoryGood' BY <2>1 DEF CampaignInv, MemoryGood, Up, Ahead, Good, Whole, AsRead
  <2>3. PoolGood' BY <2>1 DEF CampaignInv, PoolGood, Missing, Indices, Sample
  <2> QED BY <2>1, <2>2, <2>3, KeptFile, KeptReport DEF CampaignInv
<1> QED BY <1>1, <1>2, <1>3, <1>4 DEF Next

THEOREM CampaignInvariant == Spec => []CampaignInv
<1> QED BY InitInv, NextInv, PTL DEF Spec

\* Whatever was interrupted, and whatever reading the file back does to a value,
\* the report has every sample of its campaign once, with what its own outcome
\* may have become (run_scalar_campaign_resumable, to_report).
THEOREM ReportIsComplete == Spec => []ReportHasAll
<1>1. CampaignInv => ReportHasAll BY DEF CampaignInv, ReportGood, Good, ReportHasAll
<1> QED BY <1>1, CampaignInvariant, PTL

\* Where reading back changes no value the evaluator returns, the report is that
\* of an uninterrupted run, but for the sign of a zero (the promise of
\* run_scalar_campaign_resumable's comment, with the premise it needs).
THEOREM ReportIsExact ==
  ASSUME \A id \in Campaigns, i \in Samples : Reread[Mean(Outcome[id][i])] = Mean(Outcome[id][i])
  PROVE  Spec => [](report # None =>
           report.leaves = {Leaf([index |-> i, value |-> Outcome[report.id][i]]) : i \in Samples})
<1> DEFINE Exact == {Leaf([index |-> i, value |-> Outcome[report.id][i]]) : i \in Samples}
<1>1. CampaignInv => (report # None => report.leaves = Exact)
  <2> SUFFICES ASSUME CampaignInv, report # None PROVE report.leaves = Exact OBVIOUS
  <2>1. Whole(report) /\ Indices(report.leaves) = Samples
    BY DEF CampaignInv, ReportGood, Good
  <2>2. Exact = {[index |-> i, value |-> Mean(Outcome[report.id][i])] : i \in Samples}
    BY DEF Leaf
  <2>3. ASSUME NEW l \in report.leaves
        PROVE  /\ l.index \in Samples
               /\ l = [index |-> l.index, value |-> Mean(Outcome[report.id][l.index])]
    <3>1. l \in Leaves /\ l.index \in Samples /\ report.id \in Campaigns BY <2>1 DEF Whole, Leaves
    <3>2. Mean(Outcome[report.id][l.index]) \in Values
      BY <3>1, CampaignAssumption DEF Mean
    <3>3. Rereads[Mean(Outcome[report.id][l.index])] = {Mean(Outcome[report.id][l.index])}
      BY <3>1, <3>2, RereadsFixed
    <3>4. l.value = Mean(Outcome[report.id][l.index]) BY <2>1, <3>3 DEF Whole
    <3> QED BY <3>1, <3>4 DEF Leaves
  <2>4. \A i \in Samples : \E l \in report.leaves : l.index = i BY <2>1 DEF Indices
  <2> HIDE DEF Exact
  <2>5. ASSUME NEW l \in report.leaves PROVE l \in Exact BY <2>2, <2>3
  <2>6. ASSUME NEW k \in Exact PROVE k \in report.leaves
    <3>1. PICK i \in Samples : k = [index |-> i, value |-> Mean(Outcome[report.id][i])] BY <2>2
    <3>2. PICK l \in report.leaves : l.index = i BY <2>4
    <3> QED BY <2>3, <3>1, <3>2
  <2> QED BY <2>5, <2>6
<1> QED BY <1>1, CampaignInvariant, PTL

\* The checkpoint file is replaced as a whole, by one that holds all it held, read
\* back (FileCheckpointStore::save).
THEOREM FileNeverLoses == Spec => ProgressKept
<1> DEFINE Step == /\ file' # None /\ Whole(file')
                   /\ file # None => file'.id = file.id /\ AsRead(file.leaves) \subseteq file'.leaves
<1>1. CampaignInv /\ [Next]_vars => [Step]_file
  <2> SUFFICES ASSUME CampaignInv, [Next]_vars, file' # file PROVE Step OBVIOUS
  <2>1. Rename
    BY DEF Next, Work, Start, Evaluate, Record, BeginWrite, EndWrite, Finish, Die, disk, vars
  <2>2. file' = tmp /\ pc = "rename" BY <2>1 DEF Rename
  <2>3. /\ file' = checkpoint /\ Good(checkpoint) /\ checkpoint.id = asked
        /\ file # None => file.id = asked /\ AsRead(file.leaves) \subseteq checkpoint.leaves
    BY <2>2 DEF CampaignInv, MemoryGood, Up, Ahead
  <2>4. checkpoint # None BY <2>3, NoneAssumption DEF Good, Whole
  <2> QED BY <2>3, <2>4 DEF Good
<1> QED BY <1>1, CampaignInvariant, PTL DEF Spec, ProgressKept

\* The samples in the file.
Saved == IF file = None THEN {} ELSE Indices(file.leaves)

\* An invocation has a sample the file lacks, until it has recorded it.
GainInv ==
  /\ pc = "run" => Indices(checkpoint.leaves) = Saved /\ (todo # {} \/ fresh # {})
  /\ pc \in {"save", "write", "rename"} =>
       IsComplete(checkpoint) \/ Indices(checkpoint.leaves) # Saved

LEMMA StartGains ==
  ASSUME CampaignInv, NEW id \in Campaigns, NEW limit \in 1 .. MaxChunk, Start(id, limit)
  PROVE  GainInv'
<1>1. /\ Accepted(id) /\ file' = file /\ fresh' = {} /\ checkpoint' = Loaded(id)
  BY DEF Start, disk
<1>2. /\ Good(Loaded(id))
      /\ file # None => Indices(Loaded(id).leaves) = Indices(file.leaves)
  BY <1>1, LoadIsGood DEF CampaignInv
<1>3. Indices(Loaded(id).leaves) = Saved /\ Saved' = Saved
  BY <1>1, <1>2 DEF Saved, Loaded, Indices
<1>4. Indices(checkpoint.leaves)' = Saved BY <1>1, <1>3 DEF Indices
<1>5. CASE IsComplete(Loaded(id))
  <2>1. pc' = "save" BY <1>5 DEF Start
  <2> QED BY <1>1, <1>5, <2>1 DEF GainInv, IsComplete
<1>6. CASE ~IsComplete(Loaded(id))
  <2>1. pc' = "run" /\ todo' \in Chunks(Loaded(id), limit) BY <1>6 DEF Start
  <2>2. Missing(Loaded(id)) # {}
    <3>1. Indices(Loaded(id).leaves) \subseteq Samples BY <1>2 DEF Good, Whole, Leaves, Indices
    <3>2. Indices(Loaded(id).leaves) # Samples BY <1>2, <1>6, CompleteHasAll DEF Good
    <3> QED BY <3>1, <3>2 DEF Missing
  <2>3. Cardinality(todo') = limit \/ todo' = Missing(Loaded(id))
    BY <2>1 DEF Chunks
  <2>4. Cardinality({}) = 0 /\ limit # 0 BY FS_EmptySet
  <2>5. todo' # {} BY <2>2, <2>3, <2>4
  <2> QED BY <1>3, <1>4, <2>1, <2>5 DEF GainInv
<1> QED BY <1>5, <1>6

LEMMA RecordGains == CampaignInv /\ GainInv /\ Record => GainInv'
<1> SUFFICES ASSUME CampaignInv, GainInv, Record PROVE GainInv' OBVIOUS
<1>1. pc = "run" /\ pc' = "save" /\ todo = {} /\ file' = file
  BY DEF Record, disk
<1>2. /\ Indices(checkpoint.leaves) = Saved /\ fresh # {}
      /\ fresh \subseteq {Sample(i) : i \in Missing(checkpoint)}
  BY <1>1 DEF GainInv, CampaignInv, PoolGood
<1>3. checkpoint'.leaves = checkpoint.leaves \cup {Leaf(s) : s \in fresh}
  BY RecordedIsGood
<1>4. PICK s \in fresh : s.index \notin Saved BY <1>2 DEF Sample, Missing
<1>5. Leaf(s) \in checkpoint'.leaves /\ Leaf(s).index = s.index BY <1>3 DEF Leaf
<1>6. s.index \in Indices(checkpoint'.leaves) BY <1>5 DEF Indices
<1>7. Saved' = Saved BY <1>1 DEF Saved, Indices
<1>8. Indices(checkpoint.leaves)' # Saved' BY <1>4, <1>6, <1>7 DEF Indices
<1> QED BY <1>1, <1>8 DEF GainInv

LEMMA GainStep == CampaignInv /\ GainInv /\ [Next]_vars => GainInv'
<1> SUFFICES ASSUME CampaignInv, GainInv, [Next]_vars PROVE GainInv' OBVIOUS
<1>1. ASSUME NEW id \in Campaigns, NEW limit \in 1 .. MaxChunk, Start(id, limit) PROVE GainInv'
  BY <1>1, StartGains
<1>2. CASE Evaluate
  <2>1. pc = "run" /\ fresh' # {} /\ UNCHANGED <<file, pc, checkpoint>> BY <1>2 DEF Evaluate, disk
  <2> QED BY <2>1 DEF GainInv, Saved, Indices
<1>3. CASE Record BY <1>3, RecordGains
<1>4. CASE BeginWrite \/ EndWrite
  <2>1. pc \in {"save", "write"} /\ pc' \in {"write", "rename"} /\ UNCHANGED <<file, checkpoint>>
    BY <1>4 DEF BeginWrite, EndWrite, memory
  <2> QED BY <2>1 DEF GainInv, Saved, IsComplete, Indices
<1>5. CASE Rename \/ Finish \/ Die
  BY <1>5 DEF Rename, Finish, Die, GainInv
<1>6. CASE UNCHANGED vars
  BY <1>6 DEF vars, disk, memory, GainInv, Saved, IsComplete, Indices
<1> QED BY <1>1, <1>2, <1>3, <1>4, <1>5, <1>6 DEF Next, Work

\* An invocation that lives until the rename leaves a complete checkpoint, or one
\* with samples the file did not have and all it had: none that lives is for
\* nothing, and at most NSamples of them make a report (missing_indices,
\* record_samples).
THEOREM EverySaveGains ==
  Spec => [][Rename => IsComplete(file') \/ (Saved \subseteq Saved' /\ Saved # Saved')]_vars
<1>1. Init => GainInv BY DEF Init, GainInv
<1>2. CampaignInv /\ GainInv /\ [Next]_vars =>
        [Rename => IsComplete(file') \/ (Saved \subseteq Saved' /\ Saved # Saved')]_vars
  <2> SUFFICES ASSUME CampaignInv, GainInv, Rename
               PROVE  IsComplete(file') \/ (Saved \subseteq Saved' /\ Saved # Saved')
    OBVIOUS
  <2>1. /\ pc = "rename" /\ file' = checkpoint /\ Good(checkpoint)
        /\ file # None => AsRead(file.leaves) \subseteq checkpoint.leaves
    BY DEF Rename, CampaignInv, MemoryGood, Up, Ahead
  <2>2. file' # None BY <2>1, NoneAssumption DEF Good, Whole
  <2>3. Saved' = Indices(checkpoint.leaves) BY <2>1, <2>2 DEF Saved, Indices
  <2>4. ASSUME file # None PROVE Indices(file.leaves) \subseteq Indices(checkpoint.leaves)
    <3>1. Indices(file.leaves) = Indices(AsRead(file.leaves))
      BY <2>4, ReadIsWhole DEF CampaignInv, FileGood, Good
    <3> QED BY <2>1, <2>4, <3>1 DEF Indices
  <2>5. Saved \subseteq Indices(checkpoint.leaves) BY <2>4 DEF Saved
  <2>6. IsComplete(checkpoint) \/ Indices(checkpoint.leaves) # Saved BY <2>1 DEF GainInv
  <2> QED BY <2>1, <2>3, <2>5, <2>6 DEF IsComplete
<1> QED BY <1>1, <1>2, GainStep, CampaignInvariant, PTL DEF Spec

-----------------------------------------------------------------------------
(***************************************************************************)
(* Slots of a ring: position i of a queue that starts at slot h.           *)
(***************************************************************************)
Slot(h, i) == (h + i - 1) % capacity

LEMMA WrapAround ==
  ASSUME NEW n \in Nat \ {0}, NEW x \in 0 .. n - 1, NEW y \in 0 .. n
  PROVE  (x + y) % n = IF x + y < n THEN x + y ELSE x + y - n
<1> DEFINE d == (x + y) \div n
           m == (x + y) % n
<1>1. d \in Nat /\ m \in 0 .. n - 1 /\ x + y = d * n + m
  BY SMT
<1> HIDE DEF d, m
<1>2. d < 2
  <2>. SUFFICES ASSUME d >= 2 PROVE FALSE
    BY <1>1, SMT
  <2>1. d * n >= 2 * n
    BY <1>1, SMT
  <2>. QED
    BY <1>1, <2>1, SMT
<1>3. d = 0 \/ d = 1
  BY <1>1, <1>2, SMT
<1>4. CASE d = 0
  <2>1. x + y = m
    BY <1>1, <1>4, SMT
  <2>. QED
    BY <1>1, <2>1, SMT DEF m
<1>5. CASE d = 1
  <2>1. x + y = n + m
    BY <1>1, <1>5, SMT
  <2>. QED
    BY <1>1, <2>1, SMT DEF m
<1>. QED
  BY <1>3, <1>4, <1>5

\* Up to a whole ring, positions are in slots of their own; a start one slot
\* further moves every position by one, and the last round to the old start.
LEMMA SlotFacts ==
  ASSUME capacity \in Nat \ {0}, NEW h \in Slots
  PROVE  /\ \A i \in 1 .. capacity : Slot(h, i) \in Slots
         /\ \A i, j \in 1 .. capacity : Slot(h, i) = Slot(h, j) => i = j
         /\ Slot(h, 1) = h
         /\ (h + 1) % capacity \in Slots
         /\ \A i \in 1 .. capacity - 1 : Slot((h + 1) % capacity, i) = Slot(h, i + 1)
         /\ Slot((h + 1) % capacity, capacity) = h
<1> DEFINE At(g, i) == IF g + i - 1 < capacity THEN g + i - 1 ELSE g + i - 1 - capacity
           next == IF h + 1 < capacity THEN h + 1 ELSE 0
<1>1. ASSUME NEW g \in Slots, NEW i \in 1 .. capacity PROVE Slot(g, i) = At(g, i)
  <2>1. g \in 0 .. capacity - 1 /\ i - 1 \in 0 .. capacity /\ g + i - 1 = g + (i - 1)
    BY DEF Slots
  <2>. QED
    BY <2>1, WrapAround DEF Slot
<1>2. (h + 1) % capacity = next
  <2>1. h \in 0 .. capacity - 1 /\ 1 \in 0 .. capacity
    BY DEF Slots
  <2>2. (h + 1) % capacity = IF h + 1 < capacity THEN h + 1 ELSE h + 1 - capacity
    BY <2>1, WrapAround
  <2>. QED
    BY <2>1, <2>2
<1>3. next \in Slots
  BY DEF Slots
<1>4. /\ \A i \in 1 .. capacity : At(h, i) \in Slots
      /\ \A i, j \in 1 .. capacity : At(h, i) = At(h, j) => i = j
      /\ At(h, 1) = h
      /\ \A i \in 1 .. capacity - 1 : At(next, i) = At(h, i + 1)
      /\ At(next, capacity) = h
  BY DEF Slots
<1>5. 1 \in 1 .. capacity /\ capacity \in 1 .. capacity
      /\ \A i \in 1 .. capacity - 1 : i \in 1 .. capacity /\ i + 1 \in 1 .. capacity
  OBVIOUS
<1> HIDE DEF At, next
<1>. QED
  BY <1>1, <1>2, <1>3, <1>4, <1>5

-----------------------------------------------------------------------------
(***************************************************************************)
(* The ring as a queue.                                                    *)
(***************************************************************************)
RingInv ==
  /\ capacity \in Nat /\ policy \in Policies
  /\ len \in 0 .. capacity
  /\ capacity > 0 => head \in Slots
  /\ DOMAIN records = Slots
  /\ Queue \in Seq(Records)

NewRecord == [event |-> pushes + 1, sequence |-> nextSequence]

LEMMA QueueFacts ==
  ASSUME RingInv
  PROVE  /\ Len(Queue) = len /\ DOMAIN Queue = 1 .. len
         /\ \A i \in 1 .. len : Queue[i] = records[Slot(head, i)] /\ Queue[i] \in Records
         /\ Queue = <<>> <=> len = 0
<1>1. DOMAIN Queue = 1 .. len /\ len \in Nat /\ \A i \in 1 .. len : Queue[i] = records[Slot(head, i)]
  BY DEF Queue, RingInv, Slot
<1>2. Len(Queue) \in Nat /\ DOMAIN Queue = 1 .. Len(Queue)
  BY LenProperties DEF RingInv
<1>3. Len(Queue) = len
  BY <1>1, <1>2
<1>4. \A i \in 1 .. len : Queue[i] \in Records
  BY <1>3, ElementOfSeq DEF RingInv
<1>5. Queue = <<>> <=> Len(Queue) = 0
  BY EmptySeq DEF RingInv
<1>. QED
  BY <1>1, <1>3, <1>4, <1>5

\* A sequence is the queue of the next state if it has its length and elements.
LEMMA QueueIs ==
  ASSUME NEW s \in Seq(Records), Len(s) = len', capacity' = capacity,
         \A i \in 1 .. len' : s[i] = records'[(head' + i - 1) % capacity]
  PROVE  Queue' = s
<1>1. Queue' = [i \in 1 .. len' |-> records'[(head' + i - 1) % capacity]]
  BY DEF Queue
<1>2. DOMAIN s = 1 .. len' /\ s = [i \in 1 .. len' |-> s[i]]
  BY LenProperties
<1>. QED
  BY <1>1, <1>2

LEMMA AppendAppends ==
  ASSUME RingInv, NewRecord \in Records, ~Full, AppendRecord, UNCHANGED config
  PROVE  Queue' = Append(Queue, NewRecord)
<1> DEFINE slot == Slot(head, len + 1)
           s == Append(Queue, NewRecord)
<1>1. capacity \in Nat \ {0} /\ head \in Slots /\ len \in Nat /\ len + 1 \in 1 .. capacity
  BY DEF RingInv, Full
<1>2. head + len = head + (len + 1) - 1
  BY <1>1 DEF Slots
<1>3. /\ records' = [records EXCEPT ![slot] = NewRecord]
      /\ head' = head /\ len' = len + 1 /\ capacity' = capacity
  BY <1>2 DEF AppendRecord, Put, NewRecord, Slot, config
<1>4. slot \in Slots /\ \A i \in 1 .. len : i \in 1 .. capacity /\ Slot(head, i) # slot
  <2>1. \A i \in 1 .. len : i \in 1 .. capacity /\ i # len + 1
    BY <1>1
  <2>. QED
    BY <1>1, <2>1, SlotFacts
<1>5. /\ s \in Seq(Records) /\ Len(s) = len + 1
      /\ \A i \in 1 .. len : s[i] = Queue[i]
      /\ s[len + 1] = NewRecord
  BY QueueFacts, AppendProperties DEF RingInv
<1> HIDE DEF slot, s
<1>6. ASSUME NEW i \in 1 .. len' PROVE s[i] = records'[Slot(head, i)]
  <2>1. CASE i = len + 1
    BY <1>3, <1>4, <1>5, <2>1 DEF RingInv, slot
  <2>2. CASE i # len + 1
    <3>1. i \in 1 .. len
      BY <1>1, <1>3, <2>2
    <3>. QED
      BY <1>3, <1>4, <1>5, <3>1, QueueFacts
  <2>. QED
    BY <2>1, <2>2
<1>7. Queue' = s
  BY <1>3, <1>5, <1>6, QueueIs DEF Slot
<1>. QED
  BY <1>7 DEF s

LEMMA OverwriteEvicts ==
  ASSUME RingInv, NewRecord \in Records, Full, capacity > 0, Overwrite, UNCHANGED config
  PROVE  Queue' = Append(Tail(Queue), NewRecord)
<1> DEFINE s == Append(Tail(Queue), NewRecord)
<1>1. capacity \in Nat \ {0} /\ head \in Slots /\ len = capacity
  BY DEF RingInv, Full
<1>2. /\ records' = [records EXCEPT ![head] = NewRecord]
      /\ head' = (head + 1) % capacity /\ len' = len /\ capacity' = capacity
  BY DEF Overwrite, Put, NewRecord, config
<1>3. /\ Tail(Queue) \in Seq(Records) /\ Len(Tail(Queue)) = len - 1
      /\ \A i \in 1 .. len - 1 : Tail(Queue)[i] = Queue[i + 1]
  BY <1>1, QueueFacts, HeadTailProperties DEF RingInv
<1>4. /\ s \in Seq(Records) /\ Len(s) = len
      /\ \A i \in 1 .. len - 1 : s[i] = Queue[i + 1]
      /\ s[len] = NewRecord
  BY <1>1, <1>3, AppendProperties
<1> HIDE DEF s
<1>5. ASSUME NEW i \in 1 .. len' PROVE s[i] = records'[Slot(head', i)]
  <2>1. CASE i = len
    BY <1>1, <1>2, <1>4, <2>1, SlotFacts DEF RingInv
  <2>2. CASE i # len
    <3>1. i \in 1 .. len - 1 /\ i \in 1 .. capacity - 1 /\ i + 1 \in 1 .. len /\ i + 1 # 1
          /\ i + 1 \in 1 .. capacity /\ 1 \in 1 .. capacity
      BY <1>1, <1>2, <2>2
    <3>2. Slot(head', i) = Slot(head, i + 1) /\ Slot(head, i + 1) # head
      BY <1>1, <1>2, <3>1, SlotFacts
    <3>3. records'[Slot(head, i + 1)] = records[Slot(head, i + 1)]
      BY <1>2, <3>2
    <3>. QED
      BY <1>4, <3>1, <3>2, <3>3, QueueFacts
  <2>. QED
    BY <2>1, <2>2
<1>6. Queue' = s
  BY <1>1, <1>2, <1>4, <1>5, QueueIs DEF Slot
<1>. QED
  BY <1>6 DEF s

LEMMA PopTakes ==
  ASSUME RingInv, len > 0, PopOldest, UNCHANGED config
  PROVE  Queue' = Tail(Queue) /\ Head(Queue) = records[head]
<1> DEFINE s == Tail(Queue)
<1>1. capacity \in Nat \ {0} /\ head \in Slots /\ len \in 1 .. capacity
  BY DEF RingInv
<1>2. /\ records' = [records EXCEPT ![head] = Empty]
      /\ len' = len - 1 /\ capacity' = capacity
      /\ len # 1 => head' = (head + 1) % capacity
  BY DEF PopOldest, config
<1>3. Head(Queue) = records[head]
  <2>1. 1 \in 1 .. len /\ Slot(head, 1) = head /\ Queue # <<>>
    BY <1>1, QueueFacts, SlotFacts
  <2>. QED
    BY <2>1, QueueFacts, HeadTailProperties DEF RingInv
<1>4. /\ s \in Seq(Records) /\ Len(s) = len - 1
      /\ \A i \in 1 .. len - 1 : s[i] = Queue[i + 1]
  BY <1>1, QueueFacts, HeadTailProperties DEF RingInv
<1> HIDE DEF s
<1>5. ASSUME NEW i \in 1 .. len' PROVE s[i] = records'[Slot(head', i)]
  <2>1. /\ i \in 1 .. len - 1 /\ i \in 1 .. capacity - 1 /\ i + 1 \in 1 .. len /\ i + 1 # 1
        /\ i + 1 \in 1 .. capacity /\ 1 \in 1 .. capacity /\ len # 1
    BY <1>1, <1>2
  <2>2. Slot(head', i) = Slot(head, i + 1) /\ Slot(head, i + 1) # head
    BY <1>1, <1>2, <2>1, SlotFacts
  <2>3. records'[Slot(head, i + 1)] = records[Slot(head, i + 1)]
    BY <1>2, <2>2
  <2>. QED
    BY <1>4, <2>1, <2>2, <2>3, QueueFacts
<1>6. Queue' = s
  BY <1>2, <1>4, <1>5, QueueIs DEF Slot
<1>. QED
  BY <1>3, <1>6 DEF s

LEMMA UnchangedQueue == ASSUME UNCHANGED <<capacity, ring>> PROVE Queue' = Queue
BY DEF Queue, ring

-----------------------------------------------------------------------------
(***************************************************************************)
(* The numbers of the records.                                             *)
(***************************************************************************)
Overwriting == policy = "overwrite_oldest" /\ capacity > 0

\* Queued records have the last numbers that were given, without a gap.
Numbered(q, next) == Len(q) <= next /\ \A i \in 1 .. Len(q) : q[i].sequence + Len(q) + 1 = next + i

Growing(s) == \A i \in 2 .. Len(s) : s[i - 1].sequence < s[i].sequence

\* The number of a record tells for which push it was given: in a ring that
\* overwrites every push takes a number, in one that refuses every record that
\* is kept has its place in the storage.
Placed(s) ==
  \A i \in 1 .. Len(s) : IF Overwriting THEN s[i].sequence + 1 = s[i].event
                                        ELSE s[i].sequence + 1 = i

NumberInv ==
  /\ pushes \in 0 .. MaxPushes /\ nextSequence \in 0 .. pushes /\ dropped \in Nat
  /\ out \in Seq(Records)
  /\ Numbered(Queue, nextSequence)
  /\ \A i \in 1 .. Len(out) : out[i].sequence + len < nextSequence
  /\ Growing(out)
  /\ Placed(out)
  /\ Overwriting => Placed(Queue)
  /\ Len(out) + len + dropped = pushes
  /\ nextSequence = IF Overwriting THEN pushes ELSE Len(out) + len

RecorderInv == RingInv /\ NumberInv

LEMMA RecorderInitInv == RecorderInit => RecorderInv
<1>. SUFFICES ASSUME RecorderInit PROVE RecorderInv
  OBVIOUS
<1>1. /\ capacity \in Nat /\ policy \in Policies /\ head = 0 /\ len = 0
      /\ DOMAIN records = Slots
      /\ capacity > 0 => head \in Slots
      /\ pushes = 0 /\ nextSequence = 0 /\ dropped = 0 /\ out = <<>>
  BY RecorderAssumption DEF RecorderInit, Slots
<1>2. Queue = <<>> /\ Queue \in Seq(Records) /\ out \in Seq(Records) /\ Len(<<>>) = 0
  <2>1. Queue = [i \in 1 .. 0 |-> records[(head + i - 1) % capacity]]
    BY <1>1 DEF Queue
  <2>2. Queue = <<>>
    BY <2>1
  <2>. QED
    BY <1>1, <2>2, EmptySeq
<1>3. RingInv
  BY <1>1, <1>2 DEF RingInv
<1>4. NumberInv
  BY <1>1, <1>2, RecorderAssumption DEF NumberInv, Numbered, Growing, Placed
<1>. QED
  BY <1>3, <1>4 DEF RecorderInv

LEMMA RecordFacts == \A r \in Records : r.sequence \in Nat /\ r.event \in Nat
BY RecorderAssumption DEF Records, Events

LEMMA NumberFacts ==
  ASSUME RecorderInv
  PROVE  /\ MaxPushes \in Nat /\ pushes \in Nat /\ nextSequence \in Nat /\ dropped \in Nat
         /\ len \in Nat /\ Len(Queue) = len /\ Len(out) \in Nat
         /\ \A i \in 1 .. Len(out) : out[i] \in Records /\ out[i].sequence \in Nat
         /\ \A i \in 1 .. len : Queue[i] \in Records /\ Queue[i].sequence \in Nat
         /\ \A i \in 1 .. len : Queue[i].sequence + len + 1 = nextSequence + i
         /\ len <= nextSequence
<1>1. /\ MaxPushes \in Nat /\ pushes \in Nat /\ nextSequence \in Nat /\ dropped \in Nat
      /\ len \in Nat /\ Len(Queue) = len /\ Len(out) \in Nat /\ out \in Seq(Records)
  BY RecorderAssumption, QueueFacts, LenProperties DEF RecorderInv, NumberInv, RingInv
<1>2. \A i \in 1 .. Len(out) : out[i] \in Records
  BY <1>1, ElementOfSeq
<1>3. \A i \in 1 .. len : Queue[i] \in Records
  BY QueueFacts DEF RecorderInv
<1>4. \A i \in 1 .. len : Queue[i].sequence + len + 1 = nextSequence + i /\ len <= nextSequence
  BY <1>1 DEF RecorderInv, NumberInv, Numbered
<1>5. len <= nextSequence
  BY <1>1 DEF RecorderInv, NumberInv, Numbered
<1>. QED
  BY <1>1, <1>2, <1>3, <1>4, <1>5, RecordFacts

\* What is pushed is a record.
LEMMA NewIsRecord == RecorderInv /\ pushes < MaxPushes => NewRecord \in Records
BY RecorderAssumption DEF RecorderInv, NumberInv, NewRecord, Records, Events

LEMMA AppendStep ==
  ASSUME RecorderInv, pushes < MaxPushes, ~Full, AppendRecord, pushes' = pushes + 1,
         UNCHANGED <<config, out, failures>>
  PROVE  RecorderInv' /\ Queue' = Append(Queue, NewRecord)
<1>1. NewRecord \in Records /\ Queue' = Append(Queue, NewRecord)
  BY NewIsRecord, AppendAppends DEF RecorderInv
<1>2. /\ Queue \in Seq(Records) /\ Len(Queue) = len /\ len \in 0 .. capacity /\ len < capacity
      /\ capacity \in Nat /\ capacity > 0 /\ head \in Slots
  BY QueueFacts DEF RecorderInv, RingInv, Full
<1>3. /\ Queue' \in Seq(Records) /\ Len(Queue') = len + 1
      /\ \A i \in 1 .. len : Queue'[i] = Queue[i]
      /\ Queue'[len + 1] = NewRecord
  BY <1>1, <1>2, AppendProperties
<1>4. /\ capacity' = capacity /\ policy' = policy /\ head' = head /\ len' = len + 1
      /\ DOMAIN records' = DOMAIN records /\ dropped' = dropped /\ out' = out
      /\ nextSequence' = nextSequence + 1 /\ pushes' = pushes + 1
  BY DEF AppendRecord, Put, config
<1>5. RingInv'
  BY <1>2, <1>3, <1>4 DEF RecorderInv, RingInv, Slots
<1>6. NewRecord.sequence = nextSequence /\ NewRecord.event = pushes + 1
  BY DEF NewRecord
<1>7. /\ len \in Nat /\ len + 1 \in Nat /\ nextSequence \in Nat
      /\ \A i \in 1 .. len + 1 : i \in 1 .. len \/ i = len + 1
  BY <1>2, NumberFacts
<1>8. Numbered(Queue, nextSequence)'
  <2>. SUFFICES ASSUME NEW i \in 1 .. len + 1
                PROVE  Queue'[i].sequence + (len + 1) + 1 = nextSequence + 1 + i
    BY <1>3, <1>4, <1>7, NumberFacts DEF Numbered
  <2>1. CASE i = len + 1
    <3>1. Queue'[i].sequence = nextSequence
      BY <1>3, <1>6, <2>1
    <3>. QED
      BY <1>7, <2>1, <3>1
  <2>2. CASE i \in 1 .. len
    <3>1. PICK s \in Nat : s = Queue'[i].sequence /\ s + len + 1 = nextSequence + i
      BY <1>3, <2>2, NumberFacts
    <3>. QED
      BY <1>7, <2>2, <3>1
  <2>. QED
    BY <1>7, <2>1, <2>2
<1>9. \A i \in 1 .. Len(out') : out'[i].sequence + len' < nextSequence'
  <2>. SUFFICES ASSUME NEW i \in 1 .. Len(out)
                PROVE  out[i].sequence + (len + 1) < nextSequence + 1
    BY <1>4
  <2>1. PICK s \in Nat : s = out[i].sequence /\ s + len < nextSequence
    BY NumberFacts DEF RecorderInv, NumberInv
  <2>. QED
    BY <1>7, <2>1
<1>10. Placed(out)' /\ Growing(out)' /\ Overwriting' = Overwriting
  BY <1>4 DEF Placed, Growing, Overwriting, RecorderInv, NumberInv
<1>11. ASSUME Overwriting PROVE Placed(Queue)' /\ nextSequence = pushes
  <2>1. Placed(Queue) /\ nextSequence = pushes
    BY <1>11 DEF RecorderInv, NumberInv
  <2>2. ASSUME NEW i \in 1 .. len + 1 PROVE Queue'[i].sequence + 1 = Queue'[i].event
    BY <1>2, <1>3, <1>6, <1>7, <1>11, <2>1 DEF Placed
  <2>. QED
    BY <1>3, <1>10, <1>11, <2>1, <2>2 DEF Placed
<1>12. /\ Len(out') + len' + dropped' = pushes'
       /\ nextSequence' = IF Overwriting' THEN pushes' ELSE Len(out') + len'
       /\ pushes' \in 0 .. MaxPushes /\ nextSequence' \in 0 .. pushes' /\ dropped' \in Nat
       /\ out' \in Seq(Records)
  <2>1. /\ Len(out) + len + dropped = pushes /\ out \in Seq(Records)
        /\ nextSequence \in 0 .. pushes /\ dropped \in Nat
    BY DEF RecorderInv, NumberInv
  <2>2. Len(out') = Len(out) /\ len' = len + 1 /\ pushes' = pushes + 1 /\ pushes < MaxPushes
    BY <1>4
  <2>3. Len(out') + len' + dropped' = pushes'
    BY <1>4, <2>1, <2>2, NumberFacts
  <2>4. /\ pushes' \in 0 .. MaxPushes /\ nextSequence' \in 0 .. pushes' /\ dropped' \in Nat
        /\ out' \in Seq(Records)
    BY <1>4, <2>1, NumberFacts
  <2>5. nextSequence = IF Overwriting THEN pushes ELSE Len(out) + len
    BY DEF RecorderInv, NumberInv
  <2>6. nextSequence' = IF Overwriting' THEN pushes' ELSE Len(out') + len'
    <3>1. CASE Overwriting
      BY <1>4, <1>10, <2>5, <3>1
    <3>2. CASE ~Overwriting
      BY <1>4, <1>7, <1>10, <2>2, <2>5, <3>2, NumberFacts
    <3>. QED
      BY <3>1, <3>2
  <2>. QED
    BY <2>3, <2>4, <2>6
<1>13. NumberInv'
  BY <1>8, <1>9, <1>10, <1>11, <1>12 DEF NumberInv
<1>. QED
  BY <1>1, <1>5, <1>13 DEF RecorderInv

LEMMA OverwriteStep ==
  ASSUME RecorderInv, pushes < MaxPushes, Full, Overwriting, Overwrite, pushes' = pushes + 1,
         UNCHANGED <<config, out, failures>>
  PROVE  RecorderInv' /\ Queue' = Append(Tail(Queue), NewRecord)
<1>1. NewRecord \in Records /\ Queue' = Append(Tail(Queue), NewRecord)
  BY NewIsRecord, OverwriteEvicts DEF RecorderInv, Overwriting
<1>2. /\ Queue \in Seq(Records) /\ Len(Queue) = len /\ len = capacity
      /\ capacity \in Nat \ {0} /\ head \in Slots /\ Queue # <<>>
  BY QueueFacts DEF RecorderInv, RingInv, Full, Overwriting
<1>3. /\ Queue' \in Seq(Records) /\ Len(Queue') = len
      /\ \A i \in 1 .. len - 1 : Queue'[i] = Queue[i + 1]
      /\ Queue'[len] = NewRecord
  <2>1. /\ Tail(Queue) \in Seq(Records) /\ Len(Tail(Queue)) = len - 1
        /\ \A i \in 1 .. len - 1 : Tail(Queue)[i] = Queue[i + 1]
    BY <1>2, HeadTailProperties
  <2>. QED
    BY <1>1, <1>2, <2>1, AppendProperties
<1>4. /\ capacity' = capacity /\ policy' = policy /\ head' = (head + 1) % capacity /\ len' = len
      /\ DOMAIN records' = DOMAIN records /\ dropped' = dropped + 1 /\ out' = out
      /\ nextSequence' = nextSequence + 1 /\ pushes' = pushes + 1
  BY DEF Overwrite, Put, config
<1>5. RingInv'
  BY <1>2, <1>3, <1>4, SlotFacts DEF RecorderInv, RingInv, Slots
<1>6. NewRecord.sequence = nextSequence /\ NewRecord.event = pushes + 1
  BY DEF NewRecord
<1>7. /\ len \in Nat /\ nextSequence \in Nat
      /\ \A i \in 1 .. len : (i \in 1 .. len - 1 /\ i + 1 \in 1 .. len) \/ i = len
  BY <1>2, NumberFacts
<1>8. Numbered(Queue, nextSequence)'
  <2>. SUFFICES ASSUME NEW i \in 1 .. len
                PROVE  Queue'[i].sequence + len + 1 = nextSequence + 1 + i
    BY <1>3, <1>4, <1>7, NumberFacts DEF Numbered
  <2>1. CASE i = len
    <3>1. Queue'[i].sequence = nextSequence
      BY <1>3, <1>6, <2>1
    <3>. QED
      BY <1>7, <2>1, <3>1
  <2>2. CASE i \in 1 .. len - 1 /\ i + 1 \in 1 .. len
    <3>1. PICK s \in Nat : s = Queue'[i].sequence /\ s + len + 1 = nextSequence + (i + 1)
      BY <1>3, <2>2, NumberFacts
    <3>. QED
      BY <1>7, <2>2, <3>1
  <2>. QED
    BY <1>7, <2>1, <2>2
<1>9. \A i \in 1 .. Len(out') : out'[i].sequence + len' < nextSequence'
  <2>. SUFFICES ASSUME NEW i \in 1 .. Len(out)
                PROVE  out[i].sequence + len < nextSequence + 1
    BY <1>4
  <2>1. PICK s \in Nat : s = out[i].sequence /\ s + len < nextSequence
    BY NumberFacts DEF RecorderInv, NumberInv
  <2>. QED
    BY <1>7, <2>1
<1>10. Placed(out)' /\ Growing(out)' /\ Overwriting'
  BY <1>4 DEF Placed, Growing, Overwriting, RecorderInv, NumberInv
<1>11. Placed(Queue)' /\ nextSequence = pushes
  <2>1. Placed(Queue) /\ nextSequence = pushes
    BY DEF RecorderInv, NumberInv
  <2>2. ASSUME NEW i \in 1 .. len PROVE Queue'[i].sequence + 1 = Queue'[i].event
    BY <1>2, <1>3, <1>6, <1>7, <2>1 DEF Placed
  <2>. QED
    BY <1>3, <1>10, <2>1, <2>2 DEF Placed
<1>12. /\ Len(out') + len' + dropped' = pushes'
       /\ nextSequence' = pushes'
       /\ pushes' \in 0 .. MaxPushes /\ nextSequence' \in 0 .. pushes' /\ dropped' \in Nat
       /\ out' \in Seq(Records)
  <2>1. Len(out) + len + dropped = pushes /\ out \in Seq(Records)
    BY DEF RecorderInv, NumberInv
  <2>. QED
    BY <1>4, <1>11, <2>1, NumberFacts
<1>13. NumberInv'
  BY <1>8, <1>9, <1>10, <1>11, <1>12 DEF NumberInv
<1>. QED
  BY <1>1, <1>5, <1>13 DEF RecorderInv

LEMMA RejectStep ==
  ASSUME RecorderInv, pushes < MaxPushes, ~Overwriting, Reject, pushes' = pushes + 1,
         UNCHANGED <<config, out, failures>>
  PROVE  RecorderInv'
<1>1. /\ UNCHANGED <<capacity, policy, records, head, len, nextSequence, out>>
      /\ dropped' = dropped + 1 /\ pushes' = pushes + 1
  BY DEF Reject, ring, config
<1>2. Queue' = Queue
  BY <1>1, UnchangedQueue DEF ring
<1>3. RingInv'
  BY <1>1, <1>2 DEF RecorderInv, RingInv, Slots
<1>4. NumberInv'
  <2>. USE DEF RecorderInv, NumberInv
  <2>1. Numbered(Queue, nextSequence)' /\ Placed(out)' /\ Growing(out)' /\ ~Overwriting'
    BY <1>1, <1>2 DEF Numbered, Placed, Growing, Overwriting
  <2>2. /\ Len(out) \in Nat /\ len \in Nat /\ MaxPushes \in Nat
    BY RecorderAssumption, LenProperties DEF RingInv
  <2>3. /\ Len(out') + len' + dropped' = pushes'
        /\ pushes' \in 0 .. MaxPushes /\ nextSequence' \in 0 .. pushes' /\ dropped' \in Nat
    BY <1>1, <2>2
  <2>4. /\ \A i \in 1 .. Len(out') : out'[i].sequence + len' < nextSequence'
        /\ nextSequence' = Len(out') + len' /\ out' \in Seq(Records)
    BY <1>1
  <2>. QED
    BY <2>1, <2>3, <2>4
<1>. QED
  BY <1>3, <1>4 DEF RecorderInv

LEMMA FlushStep ==
  ASSUME RecorderInv, Flush
  PROVE  RecorderInv' /\ Queue' = Tail(Queue) /\ out' = Append(out, Head(Queue))
<1>1. /\ Queue' = Tail(Queue) /\ Head(Queue) = records[head] /\ out' = Append(out, Head(Queue))
  BY PopTakes DEF RecorderInv, Flush
<1>2. /\ Queue \in Seq(Records) /\ Len(Queue) = len /\ len \in 1 .. capacity
      /\ capacity \in Nat \ {0} /\ head \in Slots /\ Queue # <<>>
      /\ Head(Queue) = Queue[1] /\ Queue[1] \in Records
  <2>1. Queue \in Seq(Records) /\ Len(Queue) = len /\ len \in 1 .. capacity
        /\ capacity \in Nat \ {0} /\ head \in Slots /\ Queue # <<>>
    BY QueueFacts DEF RecorderInv, RingInv, Flush
  <2>. QED
    BY <2>1, HeadTailProperties
<1>3. /\ Queue' \in Seq(Records) /\ Len(Queue') = len - 1
      /\ \A i \in 1 .. len - 1 : Queue'[i] = Queue[i + 1]
  BY <1>1, <1>2, HeadTailProperties
<1>4. /\ capacity' = capacity /\ policy' = policy /\ len' = len - 1
      /\ DOMAIN records' = DOMAIN records
      /\ UNCHANGED <<dropped, nextSequence, pushes>>
      /\ head' \in {0, (head + 1) % capacity}
  BY DEF Flush, PopOldest, config
<1>5. RingInv'
  <2>1. head' \in Slots
    BY <1>2, <1>4, SlotFacts DEF Slots
  <2>. QED
    BY <1>2, <1>3, <1>4, <2>1 DEF RecorderInv, RingInv, Slots
<1>6. /\ out \in Seq(Records) /\ Len(out) \in Nat /\ out' \in Seq(Records) /\ Len(out') = Len(out) + 1
      /\ \A i \in 1 .. Len(out) : out'[i] = out[i] /\ out[i] \in Records
      /\ out'[Len(out) + 1] = Queue[1]
  <2>1. out \in Seq(Records)
    BY DEF RecorderInv, NumberInv
  <2>. QED
    BY <1>1, <1>2, <2>1, AppendProperties, LenProperties, ElementOfSeq
<1>7. /\ len \in Nat \ {0} /\ 1 \in 1 .. len
      /\ \A i \in 1 .. len - 1 : i + 1 \in 1 .. len
      /\ \A i \in 1 .. Len(out') : i \in 1 .. Len(out) \/ i = Len(out) + 1
  BY <1>2, <1>6
<1>8. Queue[1].sequence + len = nextSequence /\ Queue[1].sequence \in Nat
  <2>1. Queue[1].sequence \in Nat /\ Queue[1].sequence + len + 1 = nextSequence + 1
    BY <1>7, NumberFacts
  <2>2. nextSequence \in Nat
    BY NumberFacts
  <2>. QED
    BY <1>7, <2>1, <2>2
<1>9. Numbered(Queue, nextSequence)'
  <2>. SUFFICES ASSUME NEW i \in 1 .. len - 1
                PROVE  Queue'[i].sequence + (len - 1) + 1 = nextSequence + i
    BY <1>3, <1>4, <1>7, NumberFacts DEF Numbered
  <2>1. Queue'[i] = Queue[i + 1] /\ i + 1 \in 1 .. len /\ i \in Nat
    BY <1>3, <1>7
  <2>2. Queue[i + 1].sequence \in Nat /\ Queue[i + 1].sequence + len + 1 = nextSequence + (i + 1)
    BY <2>1, NumberFacts
  <2>3. nextSequence \in Nat
    BY NumberFacts
  <2>4. \A a, l, n, m \in Nat : l > 0 /\ a + l + 1 = n + (m + 1) => a + (l - 1) + 1 = n + m
    OBVIOUS
  <2>. QED
    BY <1>7, <2>1, <2>2, <2>3, <2>4
<1>10. \A i \in 1 .. Len(out) : out[i].sequence + len < nextSequence
  BY DEF RecorderInv, NumberInv
<1>11. \A i \in 1 .. Len(out') : out'[i].sequence + len' < nextSequence'
  <2>. SUFFICES ASSUME NEW i \in 1 .. Len(out') PROVE out'[i].sequence + (len - 1) < nextSequence
    BY <1>4
  <2>1. CASE i \in 1 .. Len(out)
    BY <1>6, <1>7, <1>10, <2>1, NumberFacts
  <2>2. CASE i = Len(out) + 1
    BY <1>6, <1>7, <1>8, <2>2
  <2>. QED
    BY <1>7, <2>1, <2>2
<1>12. Growing(out)'
  <2>. SUFFICES ASSUME NEW i \in 2 .. Len(out') PROVE out'[i - 1].sequence < out'[i].sequence
    BY DEF Growing
  <2>1. i - 1 \in 1 .. Len(out) /\ (i \in 2 .. Len(out) \/ i = Len(out) + 1)
    BY <1>6
  <2>2. CASE i \in 2 .. Len(out)
    <3>1. i \in 1 .. Len(out)
      BY <2>2
    <3>2. out[i - 1].sequence < out[i].sequence
      BY <2>2 DEF RecorderInv, NumberInv, Growing
    <3>. QED
      BY <1>6, <2>1, <3>1, <3>2
  <2>3. CASE i = Len(out) + 1
    <3>1. out'[i - 1] = out[i - 1] /\ out'[i] = Queue[1]
      BY <1>6, <2>1, <2>3
    <3>2. out[i - 1].sequence \in Nat /\ out[i - 1].sequence + len < nextSequence
      BY <1>10, <2>1, NumberFacts
    <3>3. out[i - 1].sequence < Queue[1].sequence
      BY <1>7, <1>8, <3>2
    <3>. QED
      BY <3>1, <3>3
  <2>. QED
    BY <2>1, <2>2, <2>3
<1>13. Overwriting' = Overwriting
  BY <1>4 DEF Overwriting
<1>14. ASSUME Overwriting PROVE Placed(out)' /\ Placed(Queue)' /\ nextSequence = pushes
  <2>1. Placed(out) /\ Placed(Queue) /\ nextSequence = pushes
    BY <1>14 DEF RecorderInv, NumberInv
  <2>2. ASSUME NEW i \in 1 .. Len(out') PROVE out'[i].sequence + 1 = out'[i].event
    BY <1>2, <1>6, <1>7, <1>14, <2>1 DEF Placed
  <2>3. ASSUME NEW i \in 1 .. len - 1 PROVE Queue'[i].sequence + 1 = Queue'[i].event
    BY <1>2, <1>3, <1>7, <1>14, <2>1 DEF Placed
  <2>. QED
    BY <1>3, <1>13, <1>14, <2>1, <2>2, <2>3 DEF Placed
<1>15. ASSUME ~Overwriting PROVE Placed(out)' /\ nextSequence = Len(out) + len
  <2>1. Placed(out) /\ nextSequence = Len(out) + len
    BY <1>15 DEF RecorderInv, NumberInv
  <2>2. ASSUME NEW i \in 1 .. Len(out') PROVE out'[i].sequence + 1 = i
    <3>1. CASE i \in 1 .. Len(out)
      BY <1>6, <1>15, <2>1, <3>1 DEF Placed
    <3>2. CASE i = Len(out) + 1
      BY <1>6, <1>7, <1>8, <2>1, <3>2
    <3>. QED
      BY <1>7, <3>1, <3>2
  <2>. QED
    BY <1>13, <1>15, <2>1, <2>2 DEF Placed
<1>16. /\ Len(out') + len' + dropped' = pushes'
       /\ nextSequence' = IF Overwriting' THEN pushes' ELSE Len(out') + len'
       /\ pushes' \in 0 .. MaxPushes /\ nextSequence' \in 0 .. pushes' /\ dropped' \in Nat
       /\ out' \in Seq(Records)
  <2>1. /\ Len(out) + len + dropped = pushes
        /\ nextSequence \in 0 .. pushes /\ pushes \in 0 .. MaxPushes /\ dropped \in Nat
    BY DEF RecorderInv, NumberInv
  <2>2. Len(out') + len' = Len(out) + len
    BY <1>4, <1>6, <1>7
  <2>3. nextSequence' = IF Overwriting' THEN pushes' ELSE Len(out') + len'
    BY <1>4, <1>13, <1>14, <1>15, <2>2
  <2>. QED
    BY <1>4, <1>6, <2>1, <2>2, <2>3
<1>17. NumberInv'
  BY <1>9, <1>11, <1>12, <1>13, <1>14, <1>15, <1>16 DEF NumberInv
<1>. QED
  BY <1>1, <1>5, <1>17 DEF RecorderInv

LEMMA IdleStep ==
  ASSUME RecorderInv, UNCHANGED <<config, ring, nextSequence, dropped, pushes, out>>
  PROVE  RecorderInv' /\ Queue' = Queue
<1>1. UNCHANGED <<capacity, policy, records, head, len>>
  BY DEF config, ring
<1>2. Queue' = Queue
  BY <1>1, UnchangedQueue DEF ring
<1>. QED
  BY <1>1, <1>2 DEF RecorderInv, RingInv, NumberInv, Slots, Numbered, Placed, Growing, Overwriting

\* The cases of a push.
LEMMA PushCases ==
  ASSUME Push
  PROVE  \/ ~Full /\ AppendRecord
         \/ Full /\ Overwriting /\ Overwrite
         \/ Full /\ ~Overwriting /\ Reject
BY DEF Push, Overwriting

LEMMA RecorderStep == RecorderInv /\ [RecorderNext]_recorderVars => RecorderInv'
<1>. SUFFICES ASSUME RecorderInv, [RecorderNext]_recorderVars PROVE RecorderInv'
  OBVIOUS
<1>1. CASE Push
  <2>1. pushes < MaxPushes /\ pushes' = pushes + 1 /\ UNCHANGED <<config, out, failures>>
    BY <1>1 DEF Push
  <2>. QED
    BY <1>1, <2>1, PushCases, AppendStep, OverwriteStep, RejectStep
<1>2. CASE Flush
  BY <1>2, FlushStep
<1>3. CASE FlushRefused \/ UNCHANGED recorderVars
  BY <1>3, IdleStep DEF FlushRefused, recorderVars
<1>. QED
  BY <1>1, <1>2, <1>3 DEF RecorderNext

LEMMA RecorderInvariant == RecorderSpec => []RecorderInv
BY RecorderInitInv, RecorderStep, PTL DEF RecorderSpec

\* A reader of the storage sees what was lost: the numbers of all that was stored
\* or waits grow, and what is missing is what dropped_records counts (push,
\* pop_oldest, flush_oldest).
THEOREM LossesAlwaysShow == RecorderSpec => []GapsAreLosses
<1>. SUFFICES ASSUME RecorderInv PROVE GapsAreLosses
  BY RecorderInvariant, PTL
<1>1. /\ out \in Seq(Records) /\ Queue \in Seq(Records) /\ Len(Queue) = len
      /\ Len(out) \in Nat /\ len \in Nat /\ nextSequence \in Nat
      /\ \A i \in 1 .. Len(out) : out[i] \in Records
      /\ \A i \in 1 .. len : Queue[i] \in Records
  BY QueueFacts, LenProperties, ElementOfSeq DEF RecorderInv, NumberInv, RingInv
<1>2. /\ Len(Trail) = Len(out) + len
      /\ \A i \in 1 .. Len(Trail) :
           Trail[i] = IF i <= Len(out) THEN out[i] ELSE Queue[i - Len(out)]
  BY <1>1, ConcatProperties DEF Trail
<1>3. /\ \A i \in 1 .. Len(out) : out[i].sequence \in Nat
      /\ \A i \in 1 .. len : Queue[i].sequence \in Nat /\ Queue[i].sequence + len + 1 = nextSequence + i
  BY NumberFacts
<1>4. ASSUME NEW i \in 2 .. Len(Trail) PROVE Trail[i - 1].sequence < Trail[i].sequence
  <2>1. i \in 1 .. Len(Trail) /\ i - 1 \in 1 .. Len(Trail)
    BY <1>1, <1>2
  <2>2. CASE i <= Len(out)
    <3>1. i \in 2 .. Len(out) /\ i - 1 <= Len(out)
      BY <1>1, <1>2, <2>2
    <3>. QED
      BY <1>2, <2>1, <2>2, <3>1 DEF RecorderInv, NumberInv, Growing
  <2>3. CASE i = Len(out) + 1
    <3>1. i - 1 \in 1 .. Len(out) /\ i - Len(out) = 1 /\ 1 \in 1 .. len
      BY <1>1, <1>2, <2>3
    <3>2. Trail[i] = Queue[1] /\ Trail[i - 1] = out[i - 1]
      BY <1>1, <1>2, <2>1, <2>3, <3>1
    <3>3. Queue[1].sequence \in Nat /\ Queue[1].sequence + len + 1 = nextSequence + 1
      BY <1>3, <3>1
    <3>4. out[i - 1].sequence \in Nat /\ out[i - 1].sequence + len < nextSequence
      BY <1>3, <3>1 DEF RecorderInv, NumberInv
    <3>5. out[i - 1].sequence < Queue[1].sequence
      <4>1. \A a, b, l, n \in Nat : a + l < n /\ b + l + 1 = n + 1 => a < b
        OBVIOUS
      <4>. QED
        BY <1>1, <3>3, <3>4, <4>1
    <3>. QED
      BY <3>2, <3>5
  <2>4. CASE i > Len(out) + 1
    <3>1. i - Len(out) \in 1 .. len /\ i - 1 - Len(out) \in 1 .. len
      BY <1>1, <1>2, <2>4
    <3>2. Trail[i] = Queue[i - Len(out)] /\ Trail[i - 1] = Queue[i - 1 - Len(out)]
      BY <1>1, <1>2, <2>1, <2>4
    <3>3. PICK k \in 1 .. len, j \in 1 .. len :
            k = i - Len(out) /\ j = i - 1 - Len(out) /\ k = j + 1
      BY <1>1, <3>1
    <3>4. /\ Queue[k].sequence \in Nat /\ Queue[k].sequence + len + 1 = nextSequence + k
          /\ Queue[j].sequence \in Nat /\ Queue[j].sequence + len + 1 = nextSequence + j
      BY <1>3
    <3>5. len \in Nat /\ nextSequence \in Nat
      BY <1>1
    <3>6. Queue[j].sequence < Queue[k].sequence
      <4>1. j \in Nat /\ Queue[k].sequence + len + 1 = nextSequence + (j + 1)
        BY <3>3, <3>4
      <4>2. PICK a \in Nat : a = Queue[j].sequence /\ a + len + 1 = nextSequence + j
        BY <3>4
      <4>3. PICK b \in Nat : b = Queue[k].sequence /\ b + len + 1 = nextSequence + (j + 1)
        BY <3>4, <4>1
      <4>4. a < b
        <5>1. j \in Nat /\ a + len + 1 = nextSequence + j /\ b + len + 1 = nextSequence + (j + 1)
          BY <4>1, <4>2, <4>3
        <5>. QED
          BY <3>5, <5>1
      <4>. QED
        BY <4>2, <4>3, <4>4
    <3>. QED
      BY <3>2, <3>3, <3>6
  <2>. QED
    BY <1>1, <1>2, <2>2, <2>3, <2>4
<1>5. Len(Trail) + dropped = pushes
  BY <1>2 DEF RecorderInv, NumberInv
<1>6. ASSUME Overwriting, NEW i \in 1 .. Len(Trail) PROVE Trail[i].sequence + 1 = Trail[i].event
  <2>1. CASE i <= Len(out)
    BY <1>1, <1>2, <1>6, <2>1 DEF RecorderInv, NumberInv, Placed
  <2>2. CASE ~(i <= Len(out))
    <3>1. i - Len(out) \in 1 .. len
      BY <1>1, <1>2, <2>2
    <3>2. Trail[i] = Queue[i - Len(out)]
      BY <1>2, <2>2
    <3>3. Placed(Queue) /\ Len(Queue) = len
      BY <1>1, <1>6 DEF RecorderInv, NumberInv
    <3>. QED
      BY <1>6, <3>1, <3>2, <3>3 DEF Placed
  <2>. QED
    BY <2>1, <2>2
<1>7. ASSUME ~Overwriting, NEW i \in 1 .. Len(Trail) PROVE Trail[i].sequence = i - 1
  <2>1. CASE i <= Len(out)
    <3>1. i \in 1 .. Len(out) /\ Trail[i] = out[i]
      BY <1>1, <1>2, <2>1
    <3>2. out[i].sequence + 1 = i
      BY <1>7, <3>1 DEF RecorderInv, NumberInv, Placed
    <3>. QED
      BY <1>3, <3>1, <3>2
  <2>2. CASE ~(i <= Len(out))
    <3>1. i - Len(out) \in 1 .. len /\ Trail[i] = Queue[i - Len(out)]
      BY <1>1, <1>2, <2>2
    <3>2. nextSequence = Len(out) + len
      BY <1>7 DEF RecorderInv, NumberInv
    <3>3. PICK k \in 1 .. len : k = i - Len(out)
      BY <3>1
    <3>4. Queue[k].sequence \in Nat /\ Queue[k].sequence + len + 1 = nextSequence + k
      BY <1>3
    <3>5. len \in Nat /\ Len(out) \in Nat /\ k \in Nat
      BY <1>1, <3>3
    <3>6. PICK s \in Nat : s = Queue[k].sequence /\ s + len + 1 = nextSequence + k
      BY <3>4
    <3>7. s = Len(out) + k - 1
      <4>1. s + len + 1 = (Len(out) + len) + k
        BY <3>2, <3>6
      <4>. QED
        BY <3>5, <4>1
    <3>8. i \in Nat /\ i = Len(out) + k
      BY <1>1, <1>2, <3>3
    <3>. QED
      BY <3>1, <3>3, <3>6, <3>7, <3>8, <3>5
  <2>. QED
    BY <2>1, <2>2
<1>8. Overwriting => nextSequence = pushes
  BY DEF RecorderInv, NumberInv
<1>. QED
  BY <1>4, <1>5, <1>6, <1>7, <1>8 DEF GapsAreLosses, Overwriting

\* The ring is a bounded queue: it takes records in, gives up the oldest or
\* refuses when full, and lets them out in the order they came (the safety part
\* of ImplementsQueue).
THEOREM RecorderIsQueue == RecorderSpec => Abstract!Safety
<1>1. RecorderInit => Abstract!Init
  <2>. SUFFICES ASSUME RecorderInit PROVE Queue = <<>>
    BY DEF RecorderInit, Abstract!Init
  <2>1. RecorderInv /\ len = 0
    BY RecorderInitInv DEF RecorderInit
  <2>. QED
    BY <2>1, QueueFacts DEF RecorderInv
<1>2. RecorderInv /\ [RecorderNext]_recorderVars => [Abstract!Next]_Abstract!vars
  <2>. SUFFICES ASSUME RecorderInv, [RecorderNext]_recorderVars
                PROVE  Abstract!Next \/ UNCHANGED Abstract!vars
    OBVIOUS
  <2>0. Len(Queue) = len /\ (Queue = <<>> <=> len = 0) /\ policy \in Policies /\ capacity \in Nat
    BY QueueFacts DEF RecorderInv, RingInv
  <2>1. CASE Push
    <3>1. /\ pushes < MaxPushes /\ pushes' = pushes + 1 /\ UNCHANGED <<config, out, failures>>
          /\ UNCHANGED <<capacity, policy, out>> /\ NewRecord \in Records
      BY <2>1, NewIsRecord DEF Push, config
    <3>2. CASE ~Full /\ AppendRecord
      <4>1. Queue' = Append(Queue, NewRecord) /\ dropped' = dropped /\ len < capacity
        BY <3>1, <3>2, AppendStep DEF AppendRecord, RecorderInv, RingInv, Full
      <4>2. Abstract!Accept(NewRecord)
        BY <2>0, <3>1, <4>1 DEF Abstract!Accept
      <4>. QED
        BY <3>1, <4>2 DEF Abstract!Next
    <3>3. CASE Full /\ Overwriting /\ Overwrite
      <4>1. Queue' = Append(Tail(Queue), NewRecord) /\ dropped' = dropped + 1
        BY <3>1, <3>3, OverwriteStep DEF Overwrite
      <4>2. Abstract!Evict(NewRecord)
        BY <2>0, <3>1, <3>3, <4>1 DEF Abstract!Evict, Full, Overwriting
      <4>. QED
        BY <3>1, <4>2 DEF Abstract!Next
    <3>4. CASE Full /\ ~Overwriting /\ Reject
      <4>1. Queue' = Queue /\ dropped' = dropped + 1
        BY <3>1, <3>4, UnchangedQueue DEF Reject
      <4>2. policy = "drop_newest" \/ capacity = 0
        BY <2>0, <3>4 DEF Overwriting, Policies
      <4>. QED
        BY <2>0, <3>1, <3>4, <4>1, <4>2 DEF Abstract!Next, Abstract!Refuse, Full
    <3>. QED
      BY <2>1, <3>2, <3>3, <3>4, PushCases
  <2>2. CASE Flush
    <3>1. Queue' = Tail(Queue) /\ out' = Append(out, Head(Queue))
      BY <2>2, FlushStep
    <3>2. UNCHANGED <<capacity, policy, dropped>> /\ len > 0
      BY <2>2 DEF Flush, config
    <3>. QED
      BY <2>0, <3>1, <3>2 DEF Abstract!Next, Abstract!Take
  <2>3. CASE FlushRefused \/ UNCHANGED recorderVars
    <3>1. UNCHANGED <<config, ring, nextSequence, dropped, pushes, out>>
      BY <2>3 DEF FlushRefused, recorderVars
    <3>. QED
      BY <3>1, IdleStep DEF config, Abstract!vars
  <2>. QED
    BY <2>1, <2>2, <2>3 DEF RecorderNext
<1>. QED
  BY <1>1, <1>2, RecorderInvariant, PTL DEF RecorderSpec, Abstract!Safety
=============================================================================
