------------------------------ MODULE Campaign -------------------------------
(***************************************************************************)
(* A resumable Monte Carlo campaign (openbmp-mc, driven by openbmp-cli).   *)
(* Every invocation loads the checkpoint file, evaluates the next samples  *)
(* on a pool of workers, records them, and replaces the file through a     *)
(* temporary one; when all samples are in, it prints the report.  The      *)
(* process may die between any two of these steps, and an evaluation may   *)
(* fail, which loses the samples of that invocation.  One process runs at  *)
(* a time: nothing in the code keeps a second one away from the files.     *)
(***************************************************************************)
EXTENDS Naturals, FiniteSets

CONSTANTS
  NSamples,    \* sample_count
  Campaigns,   \* identities: seed, dimension, scenario digest, toolchain
  Values,      \* numbers an evaluator may return and a checkpoint may hold
  Outcome,     \* what the evaluator returns for a sample of a campaign
  Reread,      \* a value written to the file as decimal digits and read back
  MaxChunk,    \* largest max_new_samples
  MaxFaults,   \* deaths and failed evaluations
  None         \* no file, no report

Samples == 0 .. NSamples - 1

ASSUME CampaignAssumption ==
  /\ NSamples \in Nat \ {0} /\ MaxChunk \in Nat \ {0} /\ MaxFaults \in Nat
  /\ {"0", "-0"} \subseteq Values
  /\ Outcome \in [Campaigns -> [Samples -> Values]]
  /\ Reread \in [Values -> Values]

VARIABLES
  file,        \* the checkpoint file: None, or a checkpoint
  tmp,         \* its sibling: None, or a checkpoint
  pc,          \* "down", "run", "save", "write", "rename", "report"
  asked,       \* the campaign this invocation is for
  checkpoint,  \* the process's own, while it is up
  todo,        \* indices of this invocation no worker has finished
  fresh,       \* samples the workers have finished
  report,      \* the report printed last, or None
  faults

disk   == <<file, tmp>>
memory == <<asked, checkpoint, todo, fresh>>
vars   == <<disk, pc, memory, report, faults>>

\* Also what is read from a file that was not written to its end.
NoCheckpoint == [id |-> None, leaves |-> {}]

Init ==
  /\ file = None /\ tmp = None /\ pc = "down"
  /\ asked = None /\ checkpoint = NoCheckpoint /\ todo = {} /\ fresh = {}
  /\ report = None /\ faults = 0

-----------------------------------------------------------------------------
\* A leaf keeps the mean of one value, added to zero: the sign of a negative
\* zero is lost.
Mean(value) == IF value = "-0" THEN "0" ELSE value

Leaf(sample) == [index |-> sample.index, value |-> Mean(sample.value)]

Leaves == [index : Samples, value : Values]

ASSUME NoneAssumption == None \notin [id : Campaigns, leaves : SUBSET Leaves]

Indices(leaves) == {l.index : l \in leaves}

IsComplete(c) == Cardinality(c.leaves) = NSamples

Missing(c) == Samples \ Indices(c.leaves)

\* missing_indices(limit): the lowest ones.
Chunks(c, limit) ==
  {m \in SUBSET Missing(c) :
     /\ \A i \in m : \A j \in Missing(c) \ m : i < j
     /\ \/ Cardinality(m) = limit
        \/ m = Missing(c) /\ Cardinality(m) <= limit}

\* Faulty variant: any checkpoint will do.
AcceptedUnchecked(id) == TRUE

\* validate_campaign.
Accepted(id) == file # None => file.id = id

\* Faulty variant: every invocation begins a checkpoint of its own.
LoadedNew(id) == [id |-> id, leaves |-> {}]

\* FileCheckpointStore::load.  The reader of the JSON text is built without
\* float_roundtrip: a value need not come back as it was.
AsRead(leaves) == {[l EXCEPT !.value = Reread[@]] : l \in leaves}

Loaded(id) == IF file = None THEN [id |-> id, leaves |-> {}]
                             ELSE [file EXCEPT !.leaves = AsRead(@)]

\* An invocation for at most "limit" new samples.
Start(id, limit) ==
  /\ pc = "down" /\ Accepted(id)
  /\ LET c == Loaded(id)
     IN  /\ checkpoint' = c
         /\ IF IsComplete(c)
            THEN pc' = "save" /\ todo' = {}
            ELSE pc' = "run" /\ todo' \in Chunks(c, limit)
  /\ asked' = id /\ fresh' = {}
  /\ UNCHANGED <<disk, report, faults>>

\* The workers finish in any order.
Evaluate ==
  /\ pc = "run"
  /\ \E i \in todo :
       /\ todo' = todo \ {i}
       /\ fresh' = fresh \cup {[index |-> i, value |-> Outcome[asked][i]]}
  /\ UNCHANGED <<disk, pc, asked, checkpoint, report, faults>>

\* record_samples.
Record ==
  /\ pc = "run" /\ todo = {}
  /\ checkpoint' = [checkpoint EXCEPT !.leaves = @ \cup {Leaf(s) : s \in fresh}]
  /\ fresh' = {} /\ pc' = "save"
  /\ UNCHANGED <<disk, asked, todo, report, faults>>

\* Faulty variant: the checkpoint file itself is written.
BeginWriteInPlace ==
  /\ pc = "save"
  /\ file' = NoCheckpoint /\ tmp' = NoCheckpoint /\ pc' = "write"
  /\ UNCHANGED <<memory, report, faults>>

\* fs::write empties the temporary file before it writes.
BeginWrite ==
  /\ pc = "save"
  /\ tmp' = NoCheckpoint /\ pc' = "write"
  /\ UNCHANGED <<file, memory, report, faults>>

EndWrite ==
  /\ pc = "write"
  /\ tmp' = checkpoint /\ pc' = "rename"
  /\ UNCHANGED <<file, memory, report, faults>>

Rename ==
  /\ pc = "rename"
  /\ file' = tmp /\ tmp' = None /\ pc' = "report"
  /\ UNCHANGED <<memory, report, faults>>

\* to_report and the printed summary; the process ends.
Finish ==
  /\ pc = "report"
  /\ report' = IF IsComplete(checkpoint)
               THEN [id |-> asked, leaves |-> checkpoint.leaves] ELSE report
  /\ pc' = "down" /\ asked' = None /\ checkpoint' = NoCheckpoint
  /\ UNCHANGED <<disk, todo, fresh, faults>>

\* A sample that fails, a file error or a kill ends the process: what it held in
\* memory is gone, the files are as they are.
Die ==
  /\ pc # "down" /\ faults < MaxFaults
  /\ faults' = faults + 1
  /\ pc' = "down" /\ asked' = None /\ checkpoint' = NoCheckpoint /\ todo' = {} /\ fresh' = {}
  /\ UNCHANGED <<disk, report>>

Work == Evaluate \/ Record \/ BeginWrite \/ EndWrite \/ Rename \/ Finish

Next ==
  \/ \E id \in Campaigns : \E limit \in 1 .. MaxChunk : Start(id, limit)
  \/ Work \/ Die

Spec == Init /\ [][Next]_vars

\* The process runs while it is alive, and somebody invokes a campaign again as
\* long as it has not printed its report.
FairSpec ==
  /\ Spec /\ WF_vars(Work)
  /\ WF_vars(report = None /\ \E id \in Campaigns : \E limit \in 1 .. MaxChunk : Start(id, limit))

-----------------------------------------------------------------------------
(***************************************************************************)
(* Properties.                                                             *)
(***************************************************************************)
\* What a value may have become after any number of reads: the least set that
\* has it and is closed under reading.
Rereads ==
  [v \in Values |->
     {w \in Values : \A S \in SUBSET Values : v \in S /\ (\A x \in S : Reread[x] \in S) => w \in S}]

\* Leaves of this campaign, each with what its own outcome may have become, and
\* no sample twice.
Whole(c) ==
  /\ c.id \in Campaigns /\ c.leaves \subseteq Leaves
  /\ \A l \in c.leaves : l.value \in Rereads[Mean(Outcome[c.id][l.index])]
  /\ \A k, l \in c.leaves : k.index = l.index => k = l

\* The report of a campaign has every sample once, with its own outcome or what
\* reading the checkpoint back has made of it: never that of another sample or
\* campaign, whatever the chunks, the order of the workers, the deaths and the
\* files of other campaigns.  It does not promise the bits of an uninterrupted
\* run, which the code gives only where reading a value back changes nothing
\* (run_scalar_campaign_resumable, validate_campaign, FileCheckpointStore).
ReportHasAll == report # None => Whole(report) /\ Indices(report.leaves) = Samples

\* The checkpoint file is whole at every instant, and the next one holds all it
\* held, read back once, and no sample twice: a death loses the samples of one
\* invocation at most (FileCheckpointStore::save, record_samples).
ProgressKept ==
  [][/\ file' # None /\ Whole(file')
     /\ file # None => file'.id = file.id /\ AsRead(file.leaves) \subseteq file'.leaves]_file

\* Invoked again and again, a campaign ends with its report.
ReportComes == <>(report # None)
=============================================================================
