------------------------ MODULE RecoveryRunnerProofs ------------------------
(***************************************************************************)
(* The commit protocol of the recovery pipeline, for every number of       *)
(* samples, epochs, crashes, manual runs and clean-ups: the evidence file  *)
(* is written last and binds what is on disk, the state file never records *)
(* what is not there, and training that is resumed applies what training   *)
(* that is never interrupted applies.                                      *)
(***************************************************************************)
EXTENDS RecoveryRunner, FiniteSetTheorems, TLAPS, WellFoundedInduction

Phases == {"none", "prepare", "restore", "train", "exited", "failed"} \cup TrainOutputs

Trainers ==
  [at : Phases, resume : Optional(CheckpointFiles), cursor : Cursors,
   group : Seq(Nat), applied : Groups, skipped : SUBSET Nat]

FilesTypeOK ==
  /\ files = [output \in OutputNames |-> files[output]]
  /\ files.report \in Optional(Reports) /\ files.scales \in Optional(Scales)
  /\ files.evidence \in Optional(EvidenceFiles)
  /\ files.artifact \in Optional(Artifacts) /\ files.evaluation \in Optional(Evaluations)

TrainingTypeOK ==
  /\ FilesTypeOK
  /\ trainer \in Trainers /\ reports \in Nat
  /\ checkpoints \subseteq CheckpointFiles
  /\ \E bound \in Nat : \A checkpoint \in checkpoints : checkpoint.cursor.steps <= bound

RunnerTypeOK ==
  /\ state \in Optional(StateFiles)
  /\ runner \in [at : {"down", "next", "wait"}, resume : BOOLEAN]
  /\ job \in [stage : Optional(ToSet(Plan)), at : {"none", "running", "exited", "failed"}]

-----------------------------------------------------------------------------
(* The inductive invariant *)

Gone(outputs) == \A output \in outputs : files[output] = Absent

\* How far the outputs are at each step of the trainer: nothing of an earlier
\* run is left when training begins, and they come in their order.
TransactionInv ==
  /\ trainer.at \in {"restore", "train", "report"} => Gone(TrainOutputs)
  /\ trainer.at = "scales" => (files.report # Absent /\ Gone({"scales", "evidence"}))
  /\ trainer.at = "evidence" => (files.scales # Absent /\ ~Committed)
  /\ files.scales # Absent => (files.report # Absent /\ files.scales.report = files.report)
  /\ EvidenceIsTheCommitMarker

Recorded == IF state = Absent THEN 0 ELSE Len(state.completed)

\* Which processes run beside each state of the runner.
ProcessInv ==
  /\ runner.at = "next" => trainer.at = "none"
  /\ runner.at \in {"down", "next"} => job = NoJob
  /\ runner.at # "down" => state # Absent
  /\ runner.at = "wait" =>
       /\ Recorded < Len(Plan) /\ state.active = Plan[Recorded + 1]
       /\ Recorded = 0 => job = NoJob
       /\ Recorded > 0 => (job.stage = state.active /\ trainer.at = "none")

\* An output that nobody recorded belongs to the stage after the recorded ones
\* and was made from what they record.
ArtifactInv ==
  /\ files.artifact # Absent => (Recorded >= 1 /\ files.artifact.from = files.scales)
  /\ files.evaluation # Absent => (Recorded >= 2 /\ files.evaluation.from = files.artifact)

RecoveryInv ==
  /\ TrainingTypeOK /\ RunnerTypeOK
  /\ TransactionInv /\ ProcessInv /\ ArtifactInv /\ RecordsHold

-----------------------------------------------------------------------------
(* The plan *)

LEMMA PlanFacts ==
  /\ Len(Plan) = 3 /\ DOMAIN Plan = 1..3
  /\ Plan[1] = "train_recovery" /\ Plan[2] = "pack_recovered_artifact"
  /\ Plan[3] = "evaluate_recovered"
  /\ Outputs(Plan[1]) = {"report", "scales", "evidence"}
  /\ Outputs(Plan[2]) = {"artifact"} /\ Outputs(Plan[3]) = {"evaluation"}
  /\ Input(Plan[2]) = "scales" /\ Input(Plan[3]) = "artifact"
  /\ ToSet(Plan) = {Plan[1], Plan[2], Plan[3]}
<1>1. /\ Len(Plan) = 3 /\ DOMAIN Plan = 1..3
      /\ Plan[1] = "train_recovery" /\ Plan[2] = "pack_recovered_artifact"
      /\ Plan[3] = "evaluate_recovered"
  BY DEF Plan
<1>2. Outputs("train_recovery") = {"report", "scales", "evidence"}
  <2>1. Outputs("train_recovery") = TrainOutputs
    BY Zenon DEF Outputs
  <2> QED BY <2>1 DEF TrainOutputs
<1>3. Outputs("pack_recovered_artifact") = {"artifact"}
  BY Zenon DEF Outputs
<1>4. Outputs("evaluate_recovered") = {"evaluation"}
  BY Zenon DEF Outputs
<1>5. Input("pack_recovered_artifact") = "scales" /\ Input("evaluate_recovered") = "artifact"
  BY DEF Input
<1>6. ToSet(Plan) = {Plan[1], Plan[2], Plan[3]}
  BY <1>1 DEF ToSet
<1> QED BY <1>1, <1>2, <1>3, <1>4, <1>5, <1>6

(* While the state file records the first stages of the plan, the stage the *)
(* runner takes next is the one after them.                                 *)
LEMMA NextIsDue ==
  ASSUME state \in StateFiles, RecordsHold, state # Absent
  PROVE  /\ Len(state.completed) \in 0..3
         /\ Incomplete = (Len(state.completed) + 1) .. 3
         /\ Incomplete # {} => (/\ Len(state.completed) < 3
                                /\ First(Incomplete) = Plan[Len(state.completed) + 1])
<1> DEFINE n == Len(state.completed)
<1>1. /\ n \in 0..3 /\ DOMAIN state.completed = 1..n
  <2> DEFINE any == Records(Plan[1]) \cup Records(Plan[2]) \cup Records(Plan[3])
  <2>1. state.completed \in Seq(any)
    BY DEF StateFiles
  <2>2. n <= 3
    BY PlanFacts DEF RecordsHold
  <2> HIDE DEF any
  <2>3. n \in Nat /\ DOMAIN state.completed = 1..n
    BY <2>1
  <2> HIDE DEF n
  <2> QED BY <2>2, <2>3
<1>2. \A i \in 1..n : state.completed[i].name = Plan[i]
  BY <1>1 DEF RecordsHold
<1>3. CompletedNames = {Plan[i] : i \in 1..n}
  BY <1>1, <1>2 DEF CompletedNames, ToSet
<1> HIDE DEF n
<1>4. Incomplete = (n + 1) .. 3
  BY <1>1, <1>3, PlanFacts DEF Incomplete
<1>5. ASSUME Incomplete # {} PROVE n < 3 /\ First(Incomplete) = Plan[n + 1]
  <2>1. n < 3
    BY <1>1, <1>4, <1>5
  <2>2. Min(Incomplete) = n + 1
    BY <1>1, <1>4, <2>1 DEF Min
  <2> QED BY <2>1, <2>2 DEF First
<1> QED BY <1>1, <1>4, <1>5 DEF n

-----------------------------------------------------------------------------
(* Checkpoints *)

LEMMA LeastNatural ==
  ASSUME NEW T, T \subseteq Nat, T # {}
  PROVE  \E x \in T : \A y \in T : x <= y
<1> DEFINE R == OpToRel(<, Nat)
<1>1. IsWellFoundedOn(R, Nat)
  BY NatLessThanWellFounded
<1>2. R = {ss \in Nat \X Nat : ss[1] < ss[2]}
  BY DEF OpToRel
<1> HIDE DEF R
<1>3. PICK x \in T : \A y \in T : ~ (<<y, x>> \in R)
  BY ONLY <1>1, T \subseteq Nat, T # {}, WFMin
<1>4. \A y \in T : ~(y < x)
  BY <1>2, <1>3
<1> QED BY <1>3, <1>4

LEMMA CheckpointTypes ==
  ASSUME NEW checkpoint \in CheckpointFiles
  PROVE  /\ checkpoint.final \in BOOLEAN /\ checkpoint.cursor \in Cursors
         /\ checkpoint.applied \in Groups /\ checkpoint.cursor.steps \in Nat
BY DEF CheckpointFiles, Cursors

(* latest_checkpoint returns a checkpoint of the directory, or none. *)
LEMMA LatestCheckpointType ==
  ASSUME TrainingTypeOK
  PROVE  LatestCheckpoint \in checkpoints \cup {Absent}
<1> DEFINE numbered == {checkpoint \in checkpoints : ~checkpoint.final}
           bounds == {n \in Nat : \A checkpoint \in numbered : checkpoint.cursor.steps <= n}
<1>1. CASE numbered = {}
  BY <1>1 DEF LatestCheckpoint
<1>2. CASE numbered # {}
  <2>1. bounds \subseteq Nat /\ bounds # {}
    BY DEF TrainingTypeOK
  <2> HIDE DEF bounds
  <2>2. PICK n \in bounds : \A m \in bounds : n <= m
    BY ONLY <2>1, LeastNatural
  <2>3. \A checkpoint \in numbered : checkpoint.cursor.steps \in Nat
    BY CheckpointTypes DEF TrainingTypeOK
  <2>4. \E latest \in numbered : latest.cursor.steps = n
    <3> SUFFICES ASSUME \A latest \in numbered : latest.cursor.steps # n
                 PROVE  FALSE
      OBVIOUS
    <3>1. n \in Nat /\ \A checkpoint \in numbered : checkpoint.cursor.steps <= n
      BY <2>1 DEF bounds
    <3>2. n > 0
      BY <1>2, <2>3, <3>1
    <3>3. n - 1 \in bounds
      BY <2>3, <3>1, <3>2 DEF bounds
    <3> QED BY <2>2, <3>1, <3>3
  <2>5. \E latest \in numbered : \A other \in numbered : other.cursor.steps <= latest.cursor.steps
    BY <2>4 DEF bounds
  <2>6. LatestCheckpoint \in numbered
    <3> HIDE DEF numbered
    <3>1. LatestCheckpoint = CHOOSE latest \in numbered :
            \A other \in numbered : other.cursor.steps <= latest.cursor.steps
      BY <1>2 DEF LatestCheckpoint, numbered
    <3> QED BY <2>5, <3>1
  <2> QED BY <2>6
<1> QED BY <1>1, <1>2

LEMMA AppendGroup ==
  ASSUME NEW applied \in Groups, NEW group \in Seq(Nat)
  PROVE  Append(applied, group) \in Groups
BY DEF Groups

-----------------------------------------------------------------------------
(* The trainer before its outputs *)

RunnerUnchanged == UNCHANGED <<state, runner, job, manual, clears>>

\* What the trainer may do without touching a file: go on, or fail.
QuietStep ==
  /\ trainer.at # "none" /\ trainer' \in Trainers
  /\ trainer'.at = "failed" \/ (trainer'.at \in {"restore", "train", "report"} /\ Gone(TrainOutputs))
  /\ checkpoints' \subseteq CheckpointFiles
  /\ \E bound \in Nat : \A checkpoint \in checkpoints' : checkpoint.cursor.steps <= bound
  /\ UNCHANGED <<files, reports>>

LEMMA QuietSteps ==
  ASSUME RecoveryInv, QuietStep, RunnerUnchanged
  PROVE  RecoveryInv'
<1>1. UNCHANGED <<files, reports, state, runner, job>>
  BY DEF QuietStep, RunnerUnchanged
<1>2. TrainingTypeOK'
  BY <1>1 DEF RecoveryInv, TrainingTypeOK, FilesTypeOK, QuietStep
<1>3. RunnerTypeOK'
  BY <1>1 DEF RecoveryInv, RunnerTypeOK
<1>4. TransactionInv'
  BY <1>1 DEF RecoveryInv, QuietStep, TransactionInv, Gone, Committed, EvidenceIsTheCommitMarker
<1>5. ProcessInv'
  BY <1>1 DEF RecoveryInv, ProcessInv, QuietStep, Recorded
<1>6. ArtifactInv'
  BY <1>1 DEF RecoveryInv, ArtifactInv, Recorded
<1>7. RecordsHold'
  BY <1>1 DEF RecoveryInv, RecordsHold
<1> QED BY <1>2, <1>3, <1>4, <1>5, <1>6, <1>7 DEF RecoveryInv

LEMMA TrainerTypes ==
  ASSUME NEW t \in Trainers
  PROVE  /\ t.cursor \in Cursors /\ t.group \in Seq(Nat) /\ t.applied \in Groups
         /\ t.skipped \in SUBSET Nat /\ t.resume \in Optional(CheckpointFiles)
         /\ t.cursor.epoch \in Nat /\ t.cursor.position \in Nat /\ t.cursor.steps \in Nat
         /\ t.at \in Phases
         /\ \A at \in Phases : [t EXCEPT !.at = at] \in Trainers
                               /\ [t EXCEPT !.at = at].at = at
BY DEF Trainers, Cursors

(* A checkpoint that is added keeps the type and the bound of all of them. *)
LEMMA AddedCheckpoint ==
  ASSUME TrainingTypeOK, NEW final \in BOOLEAN, NEW cursor \in Cursors, NEW applied \in Groups,
         NEW after, after \in {checkpoints, checkpoints \cup {Checkpoint(final, cursor, applied)}}
  PROVE  /\ after \subseteq CheckpointFiles
         /\ \E bound \in Nat : \A checkpoint \in after : checkpoint.cursor.steps <= bound
<1> DEFINE new == Checkpoint(final, cursor, applied)
<1>1. new \in CheckpointFiles /\ new.cursor.steps \in Nat
  BY DEF Checkpoint, CheckpointFiles, Cursors
<1> HIDE DEF new
<1>2. PICK bound \in Nat : \A checkpoint \in checkpoints : checkpoint.cursor.steps <= bound
  BY DEF TrainingTypeOK
<1>3. \A checkpoint \in after : checkpoint.cursor.steps <= bound + new.cursor.steps
  <2>1. \A checkpoint \in checkpoints : checkpoint.cursor.steps \in Nat
    BY CheckpointTypes DEF TrainingTypeOK
  <2>2. after \subseteq checkpoints \cup {new}
    BY DEF new
  <2> QED BY <1>1, <1>2, <2>1, <2>2
<1>4. after \subseteq CheckpointFiles
  BY <1>1 DEF TrainingTypeOK, new
<1> QED BY <1>1, <1>3, <1>4

LEMMA OptimizerSteps ==
  ASSUME RecoveryInv, trainer.at = "train", UNCHANGED <<files, reports>>, RunnerUnchanged,
         NEW cursor \in Cursors, NEW group \in Seq(Nat), NEW skipped \in SUBSET Nat,
         OptimizerStep(cursor, group, skipped)
  PROVE  RecoveryInv'
<1> DEFINE next == [cursor EXCEPT !.steps = @ + 1]
           applied == Append(trainer.applied, group)
           trained == [trainer EXCEPT !.cursor = next, !.group = <<>>, !.applied = applied,
                                      !.skipped = skipped]
<1>1. trainer \in Trainers /\ TrainingTypeOK /\ Gone(TrainOutputs)
  BY DEF RecoveryInv, TrainingTypeOK, TransactionInv
<1>2. next \in Cursors /\ applied \in Groups /\ <<>> \in Seq(Nat)
  BY <1>1, TrainerTypes, AppendGroup DEF Cursors
<1>3. /\ trained \in Trainers /\ trained.at = "train"
      /\ [trained EXCEPT !.at = "failed"] \in Trainers
      /\ [trained EXCEPT !.at = "failed"].at = "failed"
  <2> HIDE DEF next, applied
  <2>1. trained \in Trainers /\ trained.at = "train"
    BY <1>1, <1>2 DEF Trainers
  <2> HIDE DEF trained
  <2> QED BY <2>1, TrainerTypes DEF Phases
<1>4. trainer' \in {trained, [trained EXCEPT !.at = "failed"]}
  BY Zenon DEF OptimizerStep, Becomes
<1>5. checkpoints' \in {checkpoints, checkpoints \cup {Checkpoint(FALSE, next, applied)}}
  BY Zenon DEF OptimizerStep, Becomes
<1> HIDE DEF next, applied, trained
<1>6. /\ checkpoints' \subseteq CheckpointFiles
      /\ \E bound \in Nat : \A checkpoint \in checkpoints' : checkpoint.cursor.steps <= bound
  BY <1>1, <1>2, <1>5, AddedCheckpoint, FALSE \in BOOLEAN
<1>7. QuietStep
  BY <1>1, <1>3, <1>4, <1>6 DEF QuietStep
<1> QED BY <1>7, QuietSteps

(* Preparing, restoring and training leave the invariant. *)
LEMMA TrainingSteps ==
  ASSUME RecoveryInv, RunnerUnchanged,
         Restore \/ TrainSample \/ FlushGroup \/ EndEpoch \/ FinalCheckpoint \/ TrainerFails
  PROVE  RecoveryInv'
<1>1. trainer \in Trainers /\ TrainingTypeOK
  BY DEF RecoveryInv, TrainingTypeOK
<1>2. trainer.at \in {"restore", "train", "report"} => Gone(TrainOutputs)
  BY DEF RecoveryInv, TransactionInv
<1>3. \A at \in Phases : Moves(at) => trainer' \in Trainers /\ trainer'.at = at
  BY <1>1, TrainerTypes DEF Moves
<1>4. CASE Restore
  <2> DEFINE restored == [trainer EXCEPT !.at = "train",
                                         !.cursor = RestoredCursor(trainer.resume),
                                         !.applied = trainer.resume.applied]
  <2>1. trainer'.at = "train" /\ trainer' \in Trainers
    <3>1. CASE trainer.resume = Absent
      BY <1>1, <1>4, <3>1, TrainerTypes DEF Restore, Becomes, Phases
    <3>2. CASE trainer.resume # Absent
      <4>1. trainer.resume \in CheckpointFiles
        BY <1>1, <3>2, TrainerTypes DEF Optional
      <4>2. trainer.resume.cursor \in Cursors /\ trainer.resume.applied \in Groups
        BY <4>1, CheckpointTypes
      <4>3. trainer' = restored
        BY <1>4, <3>2 DEF Restore, Becomes
      <4> QED BY <1>1, <4>2, <4>3 DEF Trainers, Phases, RestoredCursor
    <3> QED BY <3>1, <3>2
  <2>2. QuietStep
    BY <1>1, <1>2, <1>4, <2>1 DEF Restore, QuietStep, TrainingTypeOK
  <2> QED BY <2>2, QuietSteps
<1>5. CASE TrainSample
  <2> DEFINE sample == trainer.cursor.position + 1
             cursor == [trainer.cursor EXCEPT !.position = sample]
             group == Append(trainer.group, sample)
             skipping == [trainer EXCEPT !.cursor = cursor, !.skipped = @ \cup {sample}]
             adding == [trainer EXCEPT !.cursor = cursor, !.group = group]
  <2>1. cursor \in Cursors /\ group \in Seq(Nat) /\ sample \in Nat
        /\ trainer.skipped \in SUBSET Nat
    BY <1>1, TrainerTypes DEF Cursors
  <2>2. /\ trainer.at = "train" /\ UNCHANGED <<files, reports>>
        /\ \/ Becomes(skipping) /\ UNCHANGED checkpoints
           \/ Becomes(adding) /\ UNCHANGED checkpoints
           \/ OptimizerStep(cursor, group, trainer.skipped)
    BY <1>5, Zenon DEF TrainSample
  <2>3. CASE OptimizerStep(cursor, group, trainer.skipped)
    <3> HIDE DEF cursor, group, sample
    <3> QED BY <2>1, <2>2, <2>3, OptimizerSteps
  <2>4. CASE trainer' \in {skipping, adding} /\ UNCHANGED checkpoints
    <3>1. /\ skipping \in Trainers /\ adding \in Trainers
          /\ skipping.at = trainer.at /\ adding.at = trainer.at
      <4> HIDE DEF cursor, group, sample
      <4> QED BY <1>1, <2>1 DEF Trainers
    <3> HIDE DEF skipping, adding
    <3>2. QuietStep
      BY <1>1, <1>2, <2>2, <2>4, <3>1 DEF QuietStep, TrainingTypeOK
    <3> QED BY <3>2, QuietSteps
  <2> QED BY <2>2, <2>3, <2>4 DEF Becomes
<1>6. CASE FlushGroup
  BY <1>1, <1>6, TrainerTypes, OptimizerSteps DEF FlushGroup
<1>7. CASE EndEpoch
  <2> DEFINE cursor == [trainer.cursor EXCEPT !.epoch = @ + 1, !.position = 0]
             ended == [trainer EXCEPT !.cursor.epoch = @ + 1, !.cursor.position = 0]
  <2>1. trainer' = ended /\ trainer.at = "train"
    BY <1>7 DEF EndEpoch, Becomes
  <2>2. ended \in Trainers /\ ended.at = trainer.at
    <3>1. cursor \in Cursors
      <4> DEFINE c == trainer.cursor
      <4>1. c \in Cursors /\ c.epoch \in Nat /\ c.steps \in Nat
        BY <1>1, TrainerTypes
      <4>2. [c EXCEPT !.epoch = c.epoch + 1] \in Cursors
        BY <4>1 DEF Cursors
      <4>3. cursor = [[c EXCEPT !.epoch = c.epoch + 1] EXCEPT !.position = 0]
        BY <4>1 DEF Cursors
      <4> HIDE DEF c, cursor
      <4> QED BY <4>2, <4>3 DEF Cursors
    <3>2. ended = [trainer EXCEPT !.cursor = cursor]
      BY <1>1 DEF Trainers, Cursors
    <3> HIDE DEF cursor, ended
    <3> QED BY <1>1, <3>1, <3>2 DEF Trainers
  <2>3. QuietStep
    BY <1>1, <1>2, <1>7, <2>1, <2>2 DEF EndEpoch, QuietStep, TrainingTypeOK
  <2> QED BY <2>3, QuietSteps
<1>8. CASE FinalCheckpoint
  <2> DEFINE final == Checkpoint(TRUE, trainer.cursor, trainer.applied)
  <2>1. checkpoints' \in {checkpoints, checkpoints \cup {final}}
    BY <1>8 DEF FinalCheckpoint, Refuses
  <2>2. /\ checkpoints' \subseteq CheckpointFiles
        /\ \E bound \in Nat : \A checkpoint \in checkpoints' : checkpoint.cursor.steps <= bound
    BY <1>1, <2>1, AddedCheckpoint, TrainerTypes
  <2>3. Moves("failed") \/ Moves("report")
    BY <1>8 DEF FinalCheckpoint, Refuses
  <2>4. trainer' \in Trainers /\ trainer'.at \in {"failed", "report"}
    BY <1>3, <2>3 DEF Phases, TrainOutputs
  <2>5. QuietStep
    BY <1>2, <1>8, <2>2, <2>4 DEF FinalCheckpoint, Refuses, QuietStep
  <2> QED BY <2>5, QuietSteps
<1>9. CASE TrainerFails
  <2>1. QuietStep
    BY <1>1, <1>3, <1>9 DEF TrainerFails, QuietStep, TrainingTypeOK, Running, Phases, TrainOutputs
  <2> QED BY <2>1, QuietSteps
<1> QED BY <1>4, <1>5, <1>6, <1>7, <1>8, <1>9

-----------------------------------------------------------------------------
(* The output transaction *)

(* Before the evidence is there nothing is recorded, and nothing was made   *)
(* from the outputs.                                                        *)
LEMMA NothingRecorded ==
  ASSUME RecoveryInv, ~Committed
  PROVE  Recorded = 0 /\ files.artifact = Absent /\ files.evaluation = Absent
<1>1. Recorded = 0
  <2>1. CASE state = Absent
    BY <2>1 DEF Recorded
  <2>2. CASE state # Absent
    <3>1. /\ Len(state.completed) \in 0..3
          /\ 1 \in DOMAIN state.completed <=> Len(state.completed) > 0
      <4>1. state \in StateFiles /\ RecordsHold
        BY <2>2 DEF RecoveryInv, RunnerTypeOK, Optional
      <4> DEFINE any == Records(Plan[1]) \cup Records(Plan[2]) \cup Records(Plan[3])
      <4>2. state.completed \in Seq(any)
        BY <4>1 DEF StateFiles
      <4> HIDE DEF any
      <4> QED BY <2>2, <4>1, <4>2, NextIsDue
    <3>2. 1 \in DOMAIN state.completed => files["evidence"] # Absent
      BY <2>2, PlanFacts DEF RecoveryInv, RecordsHold
    <3> QED BY <2>2, <3>1, <3>2 DEF Committed, Recorded
  <2> QED BY <2>1, <2>2
<1> QED BY <1>1 DEF RecoveryInv, ArtifactInv

\* What the trainer may do to the files while there is no evidence.
TransactionStep ==
  /\ trainer.at # "none" /\ ~Committed
  /\ trainer' \in Trainers /\ reports' \in Nat /\ UNCHANGED checkpoints
  /\ FilesTypeOK' /\ TransactionInv'
  /\ files'.artifact = files.artifact /\ files'.evaluation = files.evaluation

LEMMA TransactionSteps ==
  ASSUME RecoveryInv, TransactionStep, RunnerUnchanged
  PROVE  RecoveryInv'
<1>1. UNCHANGED <<state, runner, job>> /\ Recorded' = Recorded
  BY DEF RunnerUnchanged, Recorded
<1>2. Recorded = 0 /\ files.artifact = Absent /\ files.evaluation = Absent
  BY NothingRecorded DEF TransactionStep
<1>3. TrainingTypeOK'
  BY DEF RecoveryInv, TransactionStep, TrainingTypeOK
<1>4. RunnerTypeOK'
  BY <1>1 DEF RecoveryInv, RunnerTypeOK
<1>5. ProcessInv'
  BY <1>1 DEF RecoveryInv, ProcessInv, TransactionStep
<1>6. ArtifactInv'
  BY <1>2 DEF TransactionStep, ArtifactInv
<1>7. RecordsHold'
  <2> SUFFICES ASSUME state # Absent PROVE RecordsHold'
    BY <1>1 DEF RecordsHold
  <2> DEFINE any == Records(Plan[1]) \cup Records(Plan[2]) \cup Records(Plan[3])
  <2>1. state.completed \in Seq(any)
    BY DEF RecoveryInv, RunnerTypeOK, Optional, StateFiles
  <2> HIDE DEF any
  <2>2. Len(state.completed) = 0 /\ DOMAIN state.completed = {}
    BY <1>2, <2>1 DEF Recorded
  <2> QED BY <1>1, <2>2, PlanFacts DEF RecordsHold
<1> QED BY <1>3, <1>4, <1>5, <1>6, <1>7 DEF RecoveryInv, TransactionStep

(* What the outputs hold. *)
LEMMA ContentFacts ==
  ASSUME RecoveryInv
  PROVE  /\ Content("report") = [id |-> reports + 1, status |-> Status]
         /\ Content("scales") = [report |-> files.report, applied |-> trainer.applied]
         /\ Content("evidence") = [report |-> files.report, scales |-> files.scales,
                                   status |-> Status]
         /\ Content("report") \in Reports
         /\ files.report # Absent => Content("scales") \in Scales
         /\ files.report # Absent /\ files.scales # Absent => Content("evidence") \in EvidenceFiles
         /\ After("report") = "scales" /\ After("scales") = "evidence"
         /\ After("evidence") = "exited"
<1>1. Content("report") = [id |-> reports + 1, status |-> Status]
  BY Zenon DEF Content
<1>2. Content("scales") = [report |-> files.report, applied |-> trainer.applied]
  BY Zenon DEF Content
<1>3. Content("evidence") = [report |-> files.report, scales |-> files.scales, status |-> Status]
  BY Zenon DEF Content
<1>4. Status \in Statuses /\ trainer.applied \in Groups /\ reports + 1 \in Nat
  BY TrainerTypes DEF Status, Statuses, RecoveryInv, TrainingTypeOK
<1>5. /\ files.report # Absent => files.report \in Reports
      /\ files.scales # Absent => files.scales \in Scales
  BY DEF RecoveryInv, TrainingTypeOK, FilesTypeOK, Optional
<1>6. After("report") = "scales"
  BY Zenon DEF After
<1>7. After("scales") = "evidence"
  BY Zenon DEF After
<1>8. After("evidence") = "exited"
  BY Zenon DEF After
<1>9. Content("report") \in Reports
  BY <1>1, <1>4 DEF Reports
<1>10. files.report # Absent => Content("scales") \in Scales
  BY <1>2, <1>4, <1>5 DEF Scales
<1>11. files.report # Absent /\ files.scales # Absent => Content("evidence") \in EvidenceFiles
  BY <1>3, <1>4, <1>5 DEF EvidenceFiles
<1> QED BY ONLY <1>1, <1>2, <1>3, <1>6, <1>7, <1>8, <1>9, <1>10, <1>11

(* Writing one of them, if it is not there. *)
LEMMA FileWritten ==
  ASSUME FilesTypeOK, NEW output \in OutputNames, NEW content,
         files' = [files EXCEPT ![output] = content]
  PROVE  /\ files'[output] = content
         /\ \A other \in OutputNames \ {output} : files'[other] = files[other]
         /\ files' = [name \in OutputNames |-> files'[name]]
BY DEF FilesTypeOK

LEMMA AbsentIsNoContent ==
  Absent \notin Reports /\ Absent \notin Scales /\ Absent \notin EvidenceFiles
  /\ Absent \notin Artifacts /\ Absent \notin Evaluations
BY AbsentAssumption DEF Contents

(* Report, scales and evidence are written in this order, each at most      *)
(* once, and the evidence holds what the other two hold by then.            *)
LEMMA WritingSteps ==
  ASSUME RecoveryInv, RunnerUnchanged, NEW output \in TrainOutputs, WriteOutput(output)
  PROVE  RecoveryInv'
<1>1. /\ trainer \in Trainers /\ TrainingTypeOK /\ FilesTypeOK /\ reports \in Nat
      /\ TransactionInv /\ trainer.at = output /\ trainer.at # "none"
  BY DEF RecoveryInv, TrainingTypeOK, WriteOutput, TrainOutputs
<1>2. \A at \in Phases : Moves(at) => trainer' \in Trainers /\ trainer'.at = at
  BY <1>1, TrainerTypes DEF Moves
<1>3. CASE files[output] # Absent
  <2>1. Refuses /\ UNCHANGED reports
    BY <1>3 DEF WriteOutput
  <2>2. QuietStep
    BY <1>1, <1>2, <2>1 DEF Refuses, QuietStep, TrainingTypeOK, Phases
  <2> QED BY <2>2, QuietSteps
<1>4. CASE files[output] = Absent
  <2> DEFINE content == Content(output)
             to == After(output)
  <2>1. /\ files' = [files EXCEPT ![output] = content]
        /\ reports' = IF output = "report" THEN reports + 1 ELSE reports
        /\ Moves(to) /\ UNCHANGED checkpoints
    BY <1>4 DEF WriteOutput
  <2>2. to \in Phases
    BY ContentFacts DEF TrainOutputs, Phases
  <2>3. trainer' \in Trainers /\ trainer'.at = to /\ reports' \in Nat
    BY <1>1, <1>2, <2>1, <2>2
  <2>4. output \in OutputNames /\ OutputNames = {"report", "scales", "evidence", "artifact", "evaluation"}
    BY DEF OutputNames, TrainOutputs
  <2>5. /\ files'[output] = content
        /\ \A other \in OutputNames \ {output} : files'[other] = files[other]
        /\ files' = [name \in OutputNames |-> files'[name]]
    <3>1. files' = [files EXCEPT ![output] = content]
      BY <2>1
    <3>2. output \in OutputNames /\ FilesTypeOK
      BY <1>1, <2>4
    <3> HIDE DEF content
    <3> QED BY ONLY <3>1, <3>2, FileWritten
  <2>6. files'.artifact = files.artifact /\ files'.evaluation = files.evaluation
    BY <2>4, <2>5 DEF TrainOutputs
  <2>7. CASE output = "report"
    <3>1. /\ content \in Reports /\ content # Absent /\ to = "scales"
          /\ files["scales"] = Absent /\ files["evidence"] = Absent
      BY <1>1, <2>7, ContentFacts, AbsentIsNoContent DEF TransactionInv, Gone, TrainOutputs
    <3> HIDE DEF content, to
    <3>2. /\ files'["report"] = content /\ files'["scales"] = Absent
          /\ files'["evidence"] = Absent
      BY <2>4, <2>5, <2>7, <3>1
    <3>3. FilesTypeOK'
      BY <1>1, <2>5, <2>6, <3>1, <3>2 DEF FilesTypeOK, Optional
    <3>4. TransactionInv'
      BY <2>3, <3>1, <3>2 DEF TransactionInv, Gone, Committed, EvidenceIsTheCommitMarker
    <3> QED BY <1>1, <2>1, <2>3, <2>6, <3>1, <3>3, <3>4, TransactionSteps
            DEF TransactionStep, Committed
  <2>8. CASE output = "scales"
    <3>1. files["report"] # Absent /\ files["evidence"] = Absent
      BY <1>1, <2>8 DEF TransactionInv, Gone
    <3>2. /\ content \in Scales /\ content # Absent /\ to = "evidence"
          /\ content.report = files.report
      BY <2>8, <3>1, ContentFacts, AbsentIsNoContent
    <3> HIDE DEF content, to
    <3>3. /\ files'["scales"] = content /\ files'["report"] = files["report"]
          /\ files'["evidence"] = Absent
      BY <2>4, <2>5, <2>8, <3>1
    <3>4. FilesTypeOK'
      BY <1>1, <2>5, <2>6, <3>2, <3>3 DEF FilesTypeOK, Optional
    <3>5. TransactionInv'
      BY <2>3, <3>1, <3>2, <3>3 DEF TransactionInv, Gone, Committed, EvidenceIsTheCommitMarker
    <3> QED BY <1>1, <2>1, <2>3, <2>6, <3>1, <3>4, <3>5, TransactionSteps
            DEF TransactionStep, Committed
  <2>9. CASE output = "evidence"
    <3>1. /\ files["scales"] # Absent /\ files["report"] # Absent /\ files["evidence"] = Absent
          /\ files.scales.report = files.report
      BY <1>1, <2>9 DEF TransactionInv, Committed
    <3>2. /\ content \in EvidenceFiles /\ content # Absent /\ to = "exited"
          /\ content.report = files.report /\ content.scales = files.scales
      BY <2>9, <3>1, ContentFacts, AbsentIsNoContent
    <3> HIDE DEF content, to
    <3>3. /\ files'["evidence"] = content /\ files'["report"] = files["report"]
          /\ files'["scales"] = files["scales"]
      BY <2>4, <2>5, <2>9
    <3>4. FilesTypeOK'
      BY <1>1, <2>5, <2>6, <3>2, <3>3 DEF FilesTypeOK, Optional
    <3>5. TransactionInv'
      BY <2>3, <3>1, <3>2, <3>3 DEF TransactionInv, Gone, Committed, EvidenceIsTheCommitMarker
    <3> QED BY <1>1, <2>1, <2>3, <2>6, <3>1, <3>4, <3>5, TransactionSteps
            DEF TransactionStep, Committed
  <2> QED BY <2>7, <2>8, <2>9 DEF TrainOutputs
<1> QED BY <1>3, <1>4

(* What an interrupted run left goes away, the scales before the report,    *)
(* unless the evidence is there.                                            *)
LEMMA PreparingSteps ==
  ASSUME RecoveryInv, RunnerUnchanged, Prepare
  PROVE  RecoveryInv'
<1>1. /\ trainer \in Trainers /\ TrainingTypeOK /\ FilesTypeOK /\ reports \in Nat
      /\ TransactionInv /\ trainer.at = "prepare" /\ UNCHANGED reports
  BY DEF RecoveryInv, TrainingTypeOK, Prepare
<1>2. \A at \in Phases : Moves(at) => trainer' \in Trainers /\ trainer'.at = at
  BY <1>1, TrainerTypes DEF Moves
<1>3. CASE Refuses
  <2>1. QuietStep
    BY <1>1, <1>2, <1>3 DEF Refuses, QuietStep, TrainingTypeOK, Phases
  <2> QED BY <2>1, QuietSteps
<1>4. CASE ~Committed /\ Partial = {} /\ Moves("restore") /\ UNCHANGED <<files, checkpoints>>
  <2>1. Gone(TrainOutputs)
    BY <1>4 DEF Gone, TrainOutputs, Committed, Partial, Existing
  <2>2. QuietStep
    BY <1>1, <1>2, <1>4, <2>1 DEF QuietStep, TrainingTypeOK, Phases
  <2> QED BY <2>2, QuietSteps
<1>5. CASE /\ ~Committed /\ Partial # {} /\ UNCHANGED <<checkpoints, trainer>>
           /\ files' = [files EXCEPT ![IF "scales" \in Partial THEN "scales" ELSE "report"] = Absent]
  <2> DEFINE output == IF "scales" \in Partial THEN "scales" ELSE "report"
  <2>1. output \in OutputNames /\ OutputNames = {"report", "scales", "evidence", "artifact", "evaluation"}
    BY DEF OutputNames, TrainOutputs
  <2>2. output \in {"scales", "report"} /\ (output = "report" => files["scales"] = Absent)
    BY DEF Partial, Existing
  <2> HIDE DEF output
  <2>3. files' = [files EXCEPT ![output] = Absent]
    BY <1>5 DEF output
  <2>4. /\ files'[output] = Absent
        /\ \A other \in OutputNames \ {output} : files'[other] = files[other]
        /\ files' = [name \in OutputNames |-> files'[name]]
    BY <1>1, <2>1, <2>3, FileWritten
  <2>5. /\ files'["evidence"] = Absent /\ files'["artifact"] = files["artifact"]
        /\ files'["evaluation"] = files["evaluation"] /\ files'["scales"] = Absent
        /\ files'["report"] \in {files["report"], Absent}
    BY <1>5, <2>1, <2>2, <2>4 DEF Committed
  <2>6. FilesTypeOK'
    BY <1>1, <2>4, <2>5 DEF FilesTypeOK, Optional
  <2>7. TransactionInv'
    BY <1>1, <1>5, <2>5 DEF TransactionInv, Gone, Committed, EvidenceIsTheCommitMarker
  <2> QED BY <1>1, <1>5, <2>5, <2>6, <2>7, TransactionSteps DEF TransactionStep
<1> QED BY <1>3, <1>4, <1>5 DEF Prepare

-----------------------------------------------------------------------------
(* The processes *)

LEMMA NewTrainers ==
  /\ NoTrainer \in Trainers /\ NoTrainer.at = "none"
  /\ \A resume \in Optional(CheckpointFiles) :
       Trainer(resume) \in Trainers /\ Trainer(resume).at = "prepare"
<1>1. NoTrainer \in Trainers /\ NoTrainer.at = "none"
  <2>1. NewCursor \in Cursors
    BY DEF NewCursor, Cursors
  <2>2. <<>> \in Seq(Nat) /\ <<>> \in Groups
    BY DEF Groups
  <2> QED BY <2>1, <2>2 DEF NoTrainer, Trainers, Phases, Optional
<1>2. ASSUME NEW resume \in Optional(CheckpointFiles)
      PROVE  Trainer(resume) \in Trainers /\ Trainer(resume).at = "prepare"
  <2>1. [NoTrainer EXCEPT !.at = "prepare"] \in Trainers
        /\ [NoTrainer EXCEPT !.at = "prepare"].at = "prepare"
    BY <1>1, TrainerTypes DEF Phases
  <2>2. Trainer(resume) = [[NoTrainer EXCEPT !.at = "prepare"] EXCEPT !.resume = resume]
    BY <1>1 DEF Trainer, Trainers
  <2> HIDE DEF NoTrainer
  <2> QED BY <2>1, <2>2 DEF Trainers
<1> QED BY <1>1, <1>2

(* A process that comes or goes leaves the files as they are. *)
LEMMA ProcessSteps ==
  ASSUME RecoveryInv, UNCHANGED <<files, checkpoints, reports, state>>,
         trainer' \in Trainers, trainer'.at \in {"none", "prepare"} \/ trainer' = trainer,
         RunnerTypeOK', ProcessInv'
  PROVE  RecoveryInv'
<1>1. TrainingTypeOK'
  BY DEF RecoveryInv, TrainingTypeOK, FilesTypeOK
<1>2. TransactionInv'
  BY DEF RecoveryInv, TransactionInv, Gone, Committed, EvidenceIsTheCommitMarker
<1>3. ArtifactInv' /\ RecordsHold'
  BY DEF RecoveryInv, ArtifactInv, Recorded, RecordsHold
<1> QED BY <1>1, <1>2, <1>3 DEF RecoveryInv

(* A state file that records the same stages. *)
LEMMA SameRecords ==
  ASSUME RecoveryInv, UNCHANGED <<files, checkpoints, reports>>,
         state \in StateFiles, state' \in StateFiles, state'.completed = state.completed,
         trainer' \in Trainers, trainer'.at \in {"none", "prepare"} \/ trainer' = trainer,
         RunnerTypeOK', ProcessInv'
  PROVE  RecoveryInv'
<1>1. state # Absent /\ state' # Absent
  BY AbsentAssumption
<1>2. Recorded' = Recorded
  BY <1>1 DEF Recorded
<1>3. TrainingTypeOK'
  BY DEF RecoveryInv, TrainingTypeOK, FilesTypeOK
<1>4. TransactionInv'
  BY DEF RecoveryInv, TransactionInv, Gone, Committed, EvidenceIsTheCommitMarker
<1>5. ArtifactInv'
  BY <1>2 DEF RecoveryInv, ArtifactInv
<1>6. RecordsHold'
  BY <1>1 DEF RecoveryInv, RecordsHold
<1> QED BY <1>3, <1>4, <1>5, <1>6 DEF RecoveryInv

\* What an action that starts or ends a process can rely on.
LEMMA RunnerFacts ==
  ASSUME RecoveryInv
  PROVE  /\ trainer \in Trainers /\ TrainingTypeOK /\ FilesTypeOK /\ RunnerTypeOK /\ ProcessInv
         /\ state # Absent => state \in StateFiles
         /\ runner \in [at : {"down", "next", "wait"}, resume : BOOLEAN]
         /\ Down \in [at : {"down", "next", "wait"}, resume : BOOLEAN] /\ Down.at = "down"
         /\ job \in [stage : Optional(ToSet(Plan)), at : {"none", "running", "exited", "failed"}]
         /\ NoJob \in [stage : Optional(ToSet(Plan)), at : {"none", "running", "exited", "failed"}]
         /\ NoJob.at = "none" /\ NoJob.stage = Absent
         /\ Recorded = IF state = Absent THEN 0 ELSE Len(state.completed)
BY DEF RecoveryInv, TrainingTypeOK, RunnerTypeOK, Optional, Down, NoJob, Recorded

(* The stage taken next is the one after the recorded ones. *)
LEMMA NextStageFacts ==
  ASSUME RecoveryInv
  PROVE  /\ Recorded \in 0..3
         /\ state # Absent => (Incomplete # {} <=> Recorded < 3)
         /\ Unrecorded # {} => (Recorded < 3 /\ First(Unrecorded) = Plan[Recorded + 1])
         /\ state # Absent /\ Incomplete # {} => First(Incomplete) = Plan[Recorded + 1]
<1>1. CASE state = Absent
  <2>1. Recorded = 0 /\ Unrecorded = 1..3
    BY <1>1, PlanFacts DEF Recorded, Unrecorded
  <2>2. Min(1..3) = 1
    BY DEF Min
  <2> QED BY <1>1, <2>1, <2>2, PlanFacts DEF First
<1>2. CASE state # Absent
  <2>1. state \in StateFiles /\ RecordsHold /\ Recorded = Len(state.completed)
    BY <1>2 DEF RecoveryInv, RunnerTypeOK, Optional, Recorded
  <2>2. Unrecorded = Incomplete
    BY <1>2 DEF Unrecorded
  <2>3. /\ Recorded \in 0..3 /\ Incomplete = (Recorded + 1) .. 3
        /\ Incomplete # {} => (Recorded < 3 /\ First(Incomplete) = Plan[Recorded + 1])
    BY ONLY <1>2, <2>1, NextIsDue
  <2> HIDE DEF Recorded
  <2> QED BY <2>2, <2>3
<1> QED BY <1>1, <1>2

LEMMA StartingSteps ==
  ASSUME RecoveryInv, NEW resume \in BOOLEAN, StartRunner(resume)
  PROVE  RecoveryInv'
<1>1. /\ runner.at = "down" /\ trainer.at = "none" /\ UNCHANGED <<files, checkpoints, trainer, reports, job>>
      /\ runner' = [at |-> "next", resume |-> resume]
  BY DEF StartRunner, trainingVars
<1>2. runner' \in [at : {"down", "next", "wait"}, resume : BOOLEAN] /\ runner'.at = "next"
  BY <1>1
<1>3. job = NoJob
  BY <1>1, RunnerFacts DEF ProcessInv
<1>4. CASE state # Absent /\ UNCHANGED state
  <2>1. RunnerTypeOK' /\ ProcessInv'
    BY <1>1, <1>2, <1>3, <1>4, RunnerFacts DEF RunnerTypeOK, ProcessInv, NoJob
  <2> QED BY <1>1, <1>4, <2>1, RunnerFacts, ProcessSteps
<1>5. CASE state = Absent /\ state' = NewState
  <2>1. NewState \in StateFiles /\ NewState.completed = <<>> /\ NewState # Absent
    <3>1. NewState \in StateFiles
      <4> DEFINE any == Records(Plan[1]) \cup Records(Plan[2]) \cup Records(Plan[3])
      <4>1. <<>> \in Seq(any)
        OBVIOUS
      <4> QED BY <4>1 DEF NewState, StateFiles, Optional
    <3> QED BY <3>1, AbsentAssumption DEF NewState
  <2>2. Recorded = 0 /\ Recorded' = 0
    BY <1>5, <2>1 DEF Recorded
  <2>3. RunnerTypeOK' /\ ProcessInv'
    BY <1>1, <1>2, <1>3, <1>5, <2>1, RunnerFacts DEF RunnerTypeOK, ProcessInv, NoJob, Optional
  <2>4. TrainingTypeOK' /\ TransactionInv'
    BY <1>1 DEF RecoveryInv, TrainingTypeOK, FilesTypeOK, TransactionInv, Gone, Committed,
                EvidenceIsTheCommitMarker
  <2>5. ArtifactInv'
    BY <1>1, <2>2 DEF RecoveryInv, ArtifactInv
  <2>6. RecordsHold'
    BY <1>5, <2>1, PlanFacts DEF RecordsHold
  <2> QED BY <2>3, <2>4, <2>5, <2>6 DEF RecoveryInv
<1> QED BY <1>4, <1>5 DEF StartRunner

LEMMA NextStageSteps ==
  ASSUME RecoveryInv, NextStage
  PROVE  RecoveryInv'
<1> DEFINE stage == First(Incomplete)
<1>1. /\ runner.at = "next" /\ Incomplete # {}
      /\ UNCHANGED <<files, checkpoints, reports>>
      /\ trainer.at = "none" /\ job = NoJob /\ state # Absent /\ state \in StateFiles
  BY RunnerFacts DEF NextStage, ProcessInv
<1>2. stage = Plan[Recorded + 1] /\ Recorded < 3 /\ Recorded \in 0..3
  BY <1>1, NextStageFacts
<1> HIDE DEF stage
<1>3. CASE runner' = Down /\ UNCHANGED <<trainer, state, job>>
  <2>1. RunnerTypeOK' /\ ProcessInv'
    BY <1>1, <1>3, RunnerFacts DEF RunnerTypeOK, ProcessInv
  <2> QED BY <1>1, <1>3, <2>1, RunnerFacts, ProcessSteps
<1>4. CASE /\ state' = [state EXCEPT !.active = stage]
           /\ runner' = [runner EXCEPT !.at = "wait"]
           /\ StartProcess(stage)
  <2>1. stage \in ToSet(Plan) /\ (Recorded = 0 <=> stage = "train_recovery")
    BY <1>2, PlanFacts
  <2>2. /\ state' \in StateFiles /\ state'.completed = state.completed /\ state'.active = stage
        /\ state' # Absent
    <3>1. state' \in StateFiles /\ state'.completed = state.completed /\ state'.active = stage
      BY <1>1, <1>4, <2>1 DEF StateFiles, Optional
    <3> QED BY <3>1, AbsentAssumption
  <2>3. runner' \in [at : {"down", "next", "wait"}, resume : BOOLEAN] /\ runner'.at = "wait"
    BY <1>4, RunnerFacts
  <2>4. Recorded' = Recorded
    BY <1>1, <2>2 DEF Recorded
  <2>5. CASE stage = "train_recovery"
    <3> DEFINE resume == IF runner.resume THEN LatestCheckpoint ELSE Absent
    <3>1. trainer' = Trainer(resume) /\ UNCHANGED job
      BY <1>4, <2>5 DEF StartProcess, Becomes
    <3>2. resume \in Optional(CheckpointFiles)
      BY LatestCheckpointType, RunnerFacts DEF TrainingTypeOK, Optional
    <3> HIDE DEF resume
    <3>3. trainer' \in Trainers /\ trainer'.at = "prepare"
      BY <3>1, <3>2, NewTrainers
    <3>4. RunnerTypeOK'
      BY <1>1, <2>2, <2>3, <3>1, RunnerFacts DEF RunnerTypeOK, Optional
    <3>5. ProcessInv'
      BY <1>1, <1>2, <2>1, <2>2, <2>3, <2>4, <2>5, <3>1, PlanFacts DEF ProcessInv
    <3> QED BY <1>1, <2>2, <3>3, <3>4, <3>5, SameRecords
  <2>6. CASE stage # "train_recovery"
    <3>1. UNCHANGED trainer /\ job' = [stage |-> stage, at |-> "running"]
      BY <1>4, <2>6 DEF StartProcess
    <3>2. /\ job' \in [stage : Optional(ToSet(Plan)), at : {"none", "running", "exited", "failed"}]
          /\ job'.stage = stage /\ job'.at = "running"
      BY <2>1, <3>1 DEF Optional
    <3>3. RunnerTypeOK'
      BY <2>2, <2>3, <3>2 DEF RunnerTypeOK, Optional
    <3>4. ProcessInv'
      BY <1>1, <1>2, <2>1, <2>2, <2>3, <2>4, <2>6, <3>1, <3>2, PlanFacts DEF ProcessInv
    <3> QED BY <1>1, <2>2, <3>1, <3>3, <3>4, RunnerFacts, SameRecords
  <2> QED BY <2>5, <2>6
<1> QED BY <1>3, <1>4, Zenon DEF NextStage, stage

LEMMA FinishSteps ==
  ASSUME RecoveryInv, FinishPlan
  PROVE  RecoveryInv'
<1>1. /\ runner.at = "next" /\ UNCHANGED <<files, checkpoints, reports, trainer, job>>
      /\ runner' = Down /\ state # Absent /\ state \in StateFiles /\ job = NoJob
      /\ state' = [state EXCEPT !.status = "complete", !.active = Absent]
  BY RunnerFacts DEF FinishPlan, ProcessInv, trainingVars
<1>2. state' \in StateFiles /\ state'.completed = state.completed
  BY <1>1 DEF StateFiles, Optional
<1>3. RunnerTypeOK' /\ ProcessInv'
  BY <1>1, <1>2, RunnerFacts DEF RunnerTypeOK, ProcessInv, Optional
<1> QED BY <1>1, <1>2, <1>3, RunnerFacts, SameRecords

(* output_evidence: a record holds what the outputs hold now. *)
LEMMA EvidenceType ==
  ASSUME FilesTypeOK, NEW stage \in ToSet(Plan), Existing(Outputs(stage)) = Outputs(stage)
  PROVE  /\ [name |-> stage, outputs |-> Evidence(stage)] \in Records(stage)
         /\ \A output \in Outputs(stage) : output \in OutputNames /\ files[output] # Absent
<1>1. \A output \in OutputNames : files[output] \in Optional(Contents)
  BY DEF FilesTypeOK, OutputNames, TrainOutputs, Optional, Contents
<1>2. Outputs(stage) \subseteq OutputNames
  BY PlanFacts DEF OutputNames, TrainOutputs
<1>3. \A output \in Outputs(stage) : files[output] # Absent
  BY DEF Existing
<1>4. Evidence(stage) \in [Outputs(stage) -> Contents]
  BY <1>1, <1>2, <1>3 DEF Evidence, Optional
<1> QED BY <1>2, <1>3, <1>4 DEF Records

LEMMA StageEndedSteps ==
  ASSUME RecoveryInv, StageEnded
  PROVE  RecoveryInv'
<1> DEFINE n == Recorded
           stage == state.active
           any == Records(Plan[1]) \cup Records(Plan[2]) \cup Records(Plan[3])
           record == [name |-> stage, outputs |-> Evidence(stage)]
<1>1. /\ runner.at = "wait" /\ UNCHANGED <<files, checkpoints, reports>>
      /\ trainer' = NoTrainer /\ job' = NoJob
      /\ state # Absent /\ state \in StateFiles
      /\ Recorded < 3 /\ stage = Plan[Recorded + 1]
  BY RunnerFacts, PlanFacts DEF StageEnded, Becomes, ProcessInv
<1>2. n \in 0..2 /\ Len(state.completed) = n
  BY <1>1, NextStageFacts DEF Recorded
<1>3. trainer' \in Trainers /\ trainer'.at = "none"
  BY <1>1, NewTrainers
<1>4. CASE runner' = Down /\ state' = [state EXCEPT !.status = "failed"]
  <2>1. state' \in StateFiles /\ state'.completed = state.completed
    BY <1>1, <1>4 DEF StateFiles
  <2>2. RunnerTypeOK' /\ ProcessInv'
    BY <1>1, <1>3, <1>4, <2>1, RunnerFacts DEF RunnerTypeOK, ProcessInv, Optional
  <2> QED BY <1>1, <1>3, <2>1, <2>2, SameRecords
<1>5. CASE /\ Succeeded
           /\ state' = [NewState EXCEPT !.completed = Append(state.completed, record)]
           /\ runner' = [runner EXCEPT !.at = "next"]
  <2>1. stage \in ToSet(Plan)
    BY <1>1, <1>2, PlanFacts
  <2>2. Existing(Outputs(stage)) = Outputs(stage)
    BY <1>5 DEF Succeeded
  <2>3. /\ record \in Records(stage)
        /\ \A output \in Outputs(stage) : output \in OutputNames /\ files[output] # Absent
    BY <2>1, <2>2, EvidenceType, RunnerFacts
  <2>4. state.completed \in Seq(any) /\ record \in any
    <3>1. state.completed \in Seq(any)
      BY <1>1 DEF StateFiles
    <3>2. Records(stage) \subseteq any
      BY <1>1, <1>2
    <3> HIDE DEF any, record
    <3> QED BY <2>3, <3>1, <3>2
  <2>5. /\ state' \in StateFiles /\ state'.completed = Append(state.completed, record)
        /\ state' # Absent
    <3> DEFINE completed == Append(state.completed, record)
    <3>1. completed \in Seq(any)
      <4> HIDE DEF any, record
      <4> QED BY <2>4
    <3>2. state' = [NewState EXCEPT !.completed = completed]
      BY <1>5
    <3> HIDE DEF completed
    <3>3. state' \in StateFiles /\ state'.completed = completed
      BY <3>1, <3>2 DEF StateFiles, NewState, Optional
    <3> QED BY <3>3, AbsentAssumption DEF completed
  <2>6. /\ Len(state'.completed) = n + 1 /\ DOMAIN state'.completed = 1..(n + 1)
        /\ DOMAIN state.completed = 1..n
        /\ \A i \in 1..n : state'.completed[i] = state.completed[i]
        /\ state'.completed[n + 1] = record
    <3> HIDE DEF any, record, n
    <3> QED BY <1>2, <2>4, <2>5
  <2>7. Recorded' = n + 1
    BY <2>5, <2>6 DEF Recorded
  <2>8. runner' \in [at : {"down", "next", "wait"}, resume : BOOLEAN] /\ runner'.at = "next"
    BY <1>5, RunnerFacts
  <2>9. RunnerTypeOK' /\ ProcessInv'
    BY <1>1, <1>3, <2>5, <2>8, RunnerFacts DEF RunnerTypeOK, ProcessInv, Optional
  <2>10. TrainingTypeOK' /\ TransactionInv'
    BY <1>1, <1>3 DEF RecoveryInv, TrainingTypeOK, FilesTypeOK, TransactionInv, Gone, Committed,
                      EvidenceIsTheCommitMarker
  <2>11. ArtifactInv'
    BY <1>1, <1>2, <2>7 DEF RecoveryInv, ArtifactInv
  <2>12. RecordsHold'
    <3> HIDE DEF n, record, any
    <3> SUFFICES ASSUME NEW i \in 1..(n + 1)
                 PROVE  LET held == state'.completed[i]
                        IN  /\ held.name = Plan[i]
                            /\ \A output \in Outputs(Plan[i]) :
                                 files[output] # Absent /\ held.outputs[output] = files[output]
                            /\ i > 1 => \A output \in Outputs(Plan[i]) :
                                          files[output].from = files[Input(Plan[i])]
      BY <1>1, <1>2, <2>6, PlanFacts DEF RecordsHold
    <3>1. CASE i \in 1..n
      BY <1>1, <2>6, <3>1 DEF RecoveryInv, RecordsHold
    <3>2. CASE i = n + 1
      <4>1. stage = Plan[i] /\ i \in 1..3 /\ state'.completed[i] = record
        BY <1>1, <1>2, <2>6, <3>2 DEF n
      <4>2. /\ record.name = stage
            /\ \A output \in Outputs(stage) : record.outputs[output] = files[output]
        BY DEF record, Evidence
      <4>3. i > 1 => \A output \in Outputs(Plan[i]) : files[output].from = files[Input(Plan[i])]
        BY <2>3, <4>1, PlanFacts DEF RecoveryInv, ArtifactInv
      <4> HIDE DEF stage
      <4> QED BY <2>3, <4>1, <4>2, <4>3
    <3> QED BY <1>2, <3>1, <3>2
  <2> QED BY <2>9, <2>10, <2>11, <2>12 DEF RecoveryInv
<1> QED BY <1>4, <1>5, Zenon DEF StageEnded

LEMMA JobSteps ==
  ASSUME RecoveryInv, JobExits \/ JobFails \/ Crash
  PROVE  RecoveryInv'
<1>1. UNCHANGED <<files, checkpoints, reports, state>>
  BY DEF JobExits, JobFails, Crash, trainingVars
<1>2. CASE JobExits \/ JobFails
  <2>1. /\ job.at = "running" /\ UNCHANGED <<trainer, runner>>
        /\ \/ job' = [job EXCEPT !.at = "exited"]
           \/ job' = [job EXCEPT !.at = "failed"]
    BY <1>2 DEF JobExits, JobFails, trainingVars
  <2>2. /\ job' \in [stage : Optional(ToSet(Plan)), at : {"none", "running", "exited", "failed"}]
        /\ job'.stage = job.stage /\ job # NoJob
    BY <2>1, RunnerFacts
  <2>3. RunnerTypeOK' /\ ProcessInv'
    BY <1>1, <2>1, <2>2, RunnerFacts DEF RunnerTypeOK, ProcessInv, Recorded
  <2> QED BY <1>1, <2>1, <2>3, RunnerFacts, ProcessSteps
<1>3. CASE Crash
  <2>1. trainer' = NoTrainer /\ runner' = Down /\ job' = NoJob
    BY <1>3 DEF Crash, Becomes
  <2>2. trainer' \in Trainers /\ trainer'.at = "none"
    BY <2>1, NewTrainers
  <2>3. RunnerTypeOK' /\ ProcessInv'
    BY <1>1, <2>1, <2>2, RunnerFacts DEF RunnerTypeOK, ProcessInv
  <2> QED BY <1>1, <2>2, <2>3, ProcessSteps
<1> QED BY <1>2, <1>3

LEMMA ByHandSteps ==
  ASSUME RecoveryInv, RunTrainerByHand \/ ByHandEnds
  PROVE  RecoveryInv'
<1>1. /\ UNCHANGED <<files, checkpoints, reports, state, runner, job>> /\ runner.at = "down"
  BY DEF RunTrainerByHand, ByHandEnds
<1>2. trainer' \in Trainers /\ trainer'.at \in {"none", "prepare"}
  <2>1. CASE RunTrainerByHand
    <3>1. PICK resume \in checkpoints \cup {Absent} : trainer' = Trainer(resume)
      BY <2>1 DEF RunTrainerByHand, Becomes
    <3>2. resume \in Optional(CheckpointFiles)
      BY RunnerFacts DEF TrainingTypeOK, Optional
    <3> QED BY <3>1, <3>2, NewTrainers
  <2>2. CASE ByHandEnds
    BY <2>2, NewTrainers DEF ByHandEnds, Becomes
  <2> QED BY <2>1, <2>2
<1>3. RunnerTypeOK' /\ ProcessInv'
  BY <1>1, RunnerFacts DEF RunnerTypeOK, ProcessInv, Recorded
<1> QED BY <1>1, <1>2, <1>3, ProcessSteps

(* Outputs of the stage after the recorded ones come or go.                 *)
LEMMA DueOutputSteps ==
  ASSUME RecoveryInv, UNCHANGED <<checkpoints, reports, trainer, state, runner, job>>,
         Recorded < 3, FilesTypeOK', TransactionInv', ArtifactInv',
         \A output \in OutputNames \ Outputs(Plan[Recorded + 1]) : files'[output] = files[output]
  PROVE  RecoveryInv'
<1>1. TrainingTypeOK' /\ RunnerTypeOK'
  BY DEF RecoveryInv, TrainingTypeOK, RunnerTypeOK
<1>2. Recorded' = Recorded
  BY DEF Recorded
<1>3. ProcessInv'
  BY <1>2 DEF RecoveryInv, ProcessInv
<1>4. RecordsHold'
  <2> SUFFICES ASSUME state # Absent PROVE RecordsHold'
    BY DEF RecordsHold
  <2> DEFINE any == Records(Plan[1]) \cup Records(Plan[2]) \cup Records(Plan[3])
             n == Recorded
  <2>1. state.completed \in Seq(any) /\ Len(state.completed) = n
    BY DEF RecoveryInv, RunnerTypeOK, Optional, StateFiles, Recorded
  <2> HIDE DEF any
  <2>2. DOMAIN state.completed = 1..n /\ n \in 0..2
    BY <2>1, NextStageFacts
  <2>3. \A i \in 1..n : \A output \in Outputs(Plan[i]) :
          /\ output \in OutputNames \ Outputs(Plan[n + 1])
          /\ i > 1 => Input(Plan[i]) \in OutputNames \ Outputs(Plan[n + 1])
    BY <2>2, PlanFacts DEF OutputNames, TrainOutputs
  <2>4. \A i \in 1..n : \A output \in Outputs(Plan[i]) :
          /\ files'[output] = files[output]
          /\ i > 1 => files'[Input(Plan[i])] = files[Input(Plan[i])]
    BY <2>3
  <2> HIDE DEF n
  <2>5. \A i \in 1..n :
          LET held == state.completed[i]
          IN  /\ held.name = Plan[i]
              /\ \A output \in Outputs(Plan[i]) :
                   files[output] # Absent /\ held.outputs[output] = files[output]
              /\ i > 1 => \A output \in Outputs(Plan[i]) :
                            files[output].from = files[Input(Plan[i])]
    BY <2>2 DEF RecoveryInv, RecordsHold
  <2> SUFFICES ASSUME NEW i \in 1..n
               PROVE  LET held == state.completed[i]
                      IN  /\ held.name = Plan[i]
                          /\ \A output \in Outputs(Plan[i]) :
                               files'[output] # Absent /\ held.outputs[output] = files'[output]
                          /\ i > 1 => \A output \in Outputs(Plan[i]) :
                                        files'[output].from = files'[Input(Plan[i])]
    BY <2>1, <2>2, PlanFacts DEF RecordsHold
  <2> QED BY <2>4, <2>5
<1> QED BY <1>1, <1>3, <1>4 DEF RecoveryInv

LEMMA JobWritesSteps ==
  ASSUME RecoveryInv, JobWrites
  PROVE  RecoveryInv'
<1>1. /\ job.at = "running" /\ Existing(Outputs(job.stage)) = {}
      /\ UNCHANGED <<checkpoints, trainer, reports, state, runner, job>>
      /\ runner.at = "wait" /\ Recorded \in 1..2
      /\ job.stage = Plan[Recorded + 1] /\ state # Absent
  <2>1. /\ job.at = "running" /\ Existing(Outputs(job.stage)) = {}
        /\ UNCHANGED <<checkpoints, trainer, reports, state, runner, job>>
    BY DEF JobWrites
  <2>2. job # NoJob
    BY <2>1, RunnerFacts
  <2>3. /\ runner.at = "wait" /\ state # Absent /\ Recorded < 3 /\ Recorded # 0 /\ Recorded \in 0..3
        /\ (Recorded > 0 => job.stage = Plan[Recorded + 1])
    BY <2>2, RunnerFacts, NextStageFacts, PlanFacts DEF ProcessInv
  <2> QED BY <2>1, <2>3
<1>2. PICK output \in Outputs(job.stage) :
        files' = [files EXCEPT ![output] = [from |-> files[Input(job.stage)]]]
  BY DEF JobWrites
<1>3. OutputNames = {"report", "scales", "evidence", "artifact", "evaluation"}
  BY DEF OutputNames, TrainOutputs
<1>4. ArtifactInv /\ FilesTypeOK /\ TransactionInv
  BY RunnerFacts DEF RecoveryInv
<1>5. DOMAIN state.completed = 1..Recorded
  <2> DEFINE any == Records(Plan[1]) \cup Records(Plan[2]) \cup Records(Plan[3])
  <2>1. state.completed \in Seq(any) /\ Len(state.completed) = Recorded
    BY <1>1 DEF RecoveryInv, RunnerTypeOK, Optional, StateFiles, Recorded
  <2> HIDE DEF any
  <2> QED BY <2>1
<1>6. \A i \in 1..Recorded : \A recorded \in Outputs(Plan[i]) : files[recorded] # Absent
  BY <1>1, <1>5 DEF RecoveryInv, RecordsHold
<1>7. Recorded' = Recorded
  BY <1>1 DEF Recorded
<1>8. CASE Recorded = 1
  <2>1. output = "artifact" /\ Input(job.stage) = "scales" /\ Outputs(Plan[2]) = {"artifact"}
    BY <1>1, <1>2, <1>8, PlanFacts
  <2> DEFINE content == [from |-> files.scales]
  <2>2. content \in Artifacts /\ content # Absent /\ content.from = files.scales
    <3>1. files["scales"] # Absent
      BY <1>6, <1>8, PlanFacts
    <3> QED BY <1>4, <3>1, AbsentIsNoContent DEF FilesTypeOK, Optional, Artifacts
  <2> HIDE DEF content
  <2>3. /\ files'["artifact"] = content
        /\ \A other \in OutputNames \ {"artifact"} : files'[other] = files[other]
        /\ files' = [name \in OutputNames |-> files'[name]]
    <3>1. files' = [files EXCEPT !["artifact"] = content]
      BY <1>2, <2>1 DEF content
    <3> QED BY <1>3, <1>4, <3>1, FileWritten
  <2>4. files["evaluation"] = Absent
    BY <1>4, <1>8 DEF ArtifactInv
  <2>5. FilesTypeOK'
    BY <1>3, <1>4, <2>2, <2>3 DEF FilesTypeOK, Optional
  <2>6. TransactionInv'
    BY <1>1, <1>3, <1>4, <2>3 DEF TransactionInv, Gone, Committed, EvidenceIsTheCommitMarker, TrainOutputs
  <2>7. ArtifactInv'
    BY <1>3, <1>7, <1>8, <2>2, <2>3, <2>4 DEF ArtifactInv
  <2> QED BY <1>1, <1>8, <2>1, <2>3, <2>5, <2>6, <2>7, DueOutputSteps
<1>9. CASE Recorded = 2
  <2>1. output = "evaluation" /\ Input(job.stage) = "artifact" /\ Outputs(Plan[3]) = {"evaluation"}
    BY <1>1, <1>2, <1>9, PlanFacts
  <2> DEFINE content == [from |-> files.artifact]
  <2>2. content \in Evaluations /\ content # Absent /\ content.from = files.artifact
    <3>1. files["artifact"] # Absent
      BY <1>6, <1>9, PlanFacts
    <3> QED BY <1>4, <3>1, AbsentIsNoContent DEF FilesTypeOK, Optional, Evaluations
  <2> HIDE DEF content
  <2>3. /\ files'["evaluation"] = content
        /\ \A other \in OutputNames \ {"evaluation"} : files'[other] = files[other]
        /\ files' = [name \in OutputNames |-> files'[name]]
    <3>1. files' = [files EXCEPT !["evaluation"] = content]
      BY <1>2, <2>1 DEF content
    <3> QED BY <1>3, <1>4, <3>1, FileWritten
  <2>4. FilesTypeOK'
    BY <1>3, <1>4, <2>2, <2>3 DEF FilesTypeOK, Optional
  <2>5. TransactionInv'
    BY <1>1, <1>3, <1>4, <2>3 DEF TransactionInv, Gone, Committed, EvidenceIsTheCommitMarker, TrainOutputs
  <2>6. ArtifactInv'
    BY <1>3, <1>4, <1>7, <1>9, <2>2, <2>3 DEF ArtifactInv
  <2> QED BY <1>1, <1>9, <2>1, <2>3, <2>4, <2>5, <2>6, DueOutputSteps
<1> QED BY <1>1, <1>8, <1>9

(* The operator moves away what the stage after the recorded ones left.     *)
LEMMA MovingSteps ==
  ASSUME RecoveryInv, MoveOutputsAway
  PROVE  RecoveryInv'
<1> DEFINE moved == Outputs(Plan[Recorded + 1])
<1>1. /\ runner.at = "down" /\ trainer.at = "none" /\ Unrecorded # {}
      /\ UNCHANGED <<checkpoints, trainer, reports, state, runner, job>>
  BY DEF MoveOutputsAway
<1>2. Recorded \in 0..2 /\ First(Unrecorded) = Plan[Recorded + 1]
  BY <1>1, NextStageFacts
<1>3. /\ files' = [name \in OutputNames |-> files'[name]]
      /\ \A name \in OutputNames : files'[name] = IF name \in moved THEN Absent ELSE files[name]
  BY <1>2, Zenon DEF MoveOutputsAway
<1>4. OutputNames = {"report", "scales", "evidence", "artifact", "evaluation"}
  BY DEF OutputNames, TrainOutputs
<1>5. Recorded' = Recorded
  BY <1>1 DEF Recorded
<1>6. ArtifactInv /\ FilesTypeOK /\ TransactionInv
  BY DEF RecoveryInv, TrainingTypeOK
<1>7. /\ Recorded = 0 => (moved = {"report", "scales", "evidence"})
      /\ Recorded = 1 => (moved = {"artifact"})
      /\ Recorded = 2 => (moved = {"evaluation"})
  BY PlanFacts
<1>8. FilesTypeOK'
  <2> HIDE DEF moved
  <2> QED BY <1>3, <1>4, <1>6 DEF FilesTypeOK, Optional
<1>9. TransactionInv' /\ ArtifactInv'
  <2> HIDE DEF moved
  <2>1. CASE Recorded = 0
    <3>1. /\ files'["report"] = Absent /\ files'["scales"] = Absent /\ files'["evidence"] = Absent
          /\ files'["artifact"] = Absent /\ files'["evaluation"] = Absent
      BY <1>3, <1>4, <1>6, <1>7, <2>1 DEF ArtifactInv
    <3> QED BY <1>1, <3>1 DEF TransactionInv, ArtifactInv, Committed, EvidenceIsTheCommitMarker
  <2>2. CASE Recorded # 0
    <3>1. /\ files'["report"] = files["report"] /\ files'["scales"] = files["scales"]
          /\ files'["evidence"] = files["evidence"]
      BY <1>2, <1>3, <1>4, <1>7, <2>2
    <3>2. TransactionInv'
      BY <1>1, <1>6, <3>1 DEF TransactionInv, Committed, EvidenceIsTheCommitMarker
    <3>3. ArtifactInv'
      BY <1>2, <1>3, <1>4, <1>5, <1>6, <1>7, <2>2 DEF ArtifactInv
    <3> QED BY <3>2, <3>3
  <2> QED BY <2>1, <2>2
<1>10. \A output \in OutputNames \ Outputs(Plan[Recorded + 1]) : files'[output] = files[output]
  BY <1>3
<1> HIDE DEF moved
<1> QED BY <1>1, <1>2, <1>8, <1>9, <1>10, DueOutputSteps

-----------------------------------------------------------------------------
(* Samples and groups of an epoch *)

LEMMA DivMod ==
  ASSUME NEW a \in Nat, NEW n \in Nat \ {0}
  PROVE  /\ a \div n \in Nat /\ a % n \in 0 .. n - 1
         /\ a = n * (a \div n) + (a % n)
OBVIOUS

LEMMA Monotone ==
  ASSUME NEW n \in Nat, NEW a \in Int, NEW b \in Int, a <= b
  PROVE  n * a <= n * b
<1>1. n * (b - a) >= 0
  OBVIOUS
<1> QED BY <1>1

LEMMA Residue ==
  ASSUME NEW n \in Nat \ {0}, NEW q \in Nat, NEW r \in 0 .. n - 1
  PROVE  (n * q + r) % n = r
<1> DEFINE a == n * q + r
           k == a \div n
           m == a % n
<1>1. a \in Nat
  <2>1. n * q \in Nat
    OBVIOUS
  <2> QED BY <2>1
<1>2. /\ k \in Nat /\ m \in 0 .. n - 1 /\ a = n * k + m
  BY <1>1, DivMod
<1> HIDE DEF k, m
<1>3. n * (k - q) = r - m
  BY <1>2
<1>4. CASE k - q >= 1
  <2>1. n * (k - q) >= n * 1
    BY <1>2, <1>4, Monotone
  <2> QED BY <1>2, <1>3, <2>1
<1>5. CASE q - k >= 1
  <2>1. n * (q - k) >= n * 1
    BY <1>2, <1>5, Monotone
  <2>2. n * (q - k) = m - r
    BY <1>2, <1>3
  <2> QED BY <1>2, <2>1, <2>2
<1>6. CASE k = q
  BY <1>2, <1>6 DEF m
<1> QED BY <1>2, <1>4, <1>5, <1>6

LEMMA TrainingConstants ==
  /\ Samples \in Nat \ {0} /\ Epochs \in Nat \ {0} /\ Accumulation \in Nat \ {0}
  /\ \A skipped \in OversizedSets : skipped \subseteq 1..Samples /\ skipped # 1..Samples
BY TrainingAssumption

LEMMA KeptSteps ==
  /\ Kept(0) = 0
  /\ \A p \in Nat : Kept(p) \in Nat
  /\ \A p \in Nat : Kept(p + 1) = IF p + 1 \in oversized THEN Kept(p) ELSE Kept(p) + 1
<1> DEFINE S(p) == {sample \in 1..p : sample \notin oversized}
<1>1. ASSUME NEW p \in Nat PROVE IsFiniteSet(S(p)) /\ Kept(p) = Cardinality(S(p))
  <2>1. IsFiniteSet(1..p)
    BY FS_Interval
  <2>2. S(p) \in SUBSET (1..p)
    OBVIOUS
  <2>3. IsFiniteSet(S(p))
    BY <2>1, <2>2, FS_Subset
  <2> QED BY <2>3 DEF Kept
<1>2. Kept(0) = 0
  <2>1. S(0) = {}
    OBVIOUS
  <2> QED BY <1>1, <2>1, FS_EmptySet
<1>3. ASSUME NEW p \in Nat PROVE Kept(p) \in Nat
  <2> DEFINE T == S(p)
  <2>1. IsFiniteSet(T) /\ Kept(p) = Cardinality(T)
    BY <1>1
  <2> HIDE DEF T
  <2> QED BY <2>1, FS_CardinalityType
<1>4. ASSUME NEW p \in Nat
      PROVE  Kept(p + 1) = IF p + 1 \in oversized THEN Kept(p) ELSE Kept(p) + 1
  <2> DEFINE T == S(p)
             U == S(p + 1)
  <2>1. IsFiniteSet(T) /\ Kept(p) = Cardinality(T) /\ Kept(p + 1) = Cardinality(U)
    BY <1>1
  <2>2. p + 1 \notin T /\ U = IF p + 1 \in oversized THEN T ELSE T \cup {p + 1}
    OBVIOUS
  <2> HIDE DEF T, U
  <2>3. Cardinality(T \cup {p + 1}) = Cardinality(T) + 1
    BY <2>1, <2>2, FS_AddElement
  <2> QED BY <2>1, <2>2, <2>3
<1> QED BY <1>2, <1>3, <1>4

LEMMA KeptMonotone ==
  ASSUME NEW p \in Nat, NEW q \in Nat, p <= q
  PROVE  Kept(p) <= Kept(q)
<1> DEFINE T == {sample \in 1..p : sample \notin oversized}
           U == {sample \in 1..q : sample \notin oversized}
<1>1. T \in SUBSET U /\ U \in SUBSET (1..q)
  OBVIOUS
<1>2. Kept(p) = Cardinality(T) /\ Kept(q) = Cardinality(U)
  BY DEF Kept
<1> HIDE DEF T, U
<1>3. IsFiniteSet(1..q)
  BY FS_Interval
<1>4. IsFiniteSet(U)
  BY <1>1, <1>3, FS_Subset
<1> QED BY <1>1, <1>2, <1>4, FS_Subset

(* The samples that are trained are counted from 1 in their order. *)
LEMMA SampleOfItsCount ==
  ASSUME NEW p \in 1..Samples, p \notin oversized
  PROVE  Kept(p) \in 1..Kept(Samples) /\ EpochSamples[Kept(p)] = p
<1>1. Samples \in Nat /\ p \in Nat /\ p - 1 \in Nat
  BY TrainingConstants
<1>2. \A q \in 1..Samples : q \notin oversized =>
        (Kept(q) \in Nat /\ Kept(q) >= 1 /\ Kept(q) <= Kept(Samples) /\ Kept(Samples) \in Nat)
  <2> SUFFICES ASSUME NEW q \in 1..Samples, q \notin oversized
               PROVE  Kept(q) \in Nat /\ Kept(q) >= 1 /\ Kept(q) <= Kept(Samples)
                      /\ Kept(Samples) \in Nat
    OBVIOUS
  <2>1. q - 1 \in Nat /\ q \in Nat /\ (q - 1) + 1 = q
    BY <1>1
  <2>2. Kept(q) = Kept(q - 1) + 1 /\ Kept(q - 1) \in Nat /\ Kept(q) \in Nat /\ Kept(Samples) \in Nat
    BY <1>1, <2>1, KeptSteps
  <2>3. Kept(q) <= Kept(Samples)
    BY <1>1, <2>1, KeptMonotone
  <2> QED BY <2>2, <2>3
<1>3. ASSUME NEW q \in 1..Samples, NEW r \in 1..Samples, r \notin oversized, q < r
      PROVE  Kept(q) < Kept(r)
  <2>1. r - 1 \in Nat /\ q \in Nat /\ (r - 1) + 1 = r /\ q <= r - 1
    BY <1>1, <1>3
  <2>2. Kept(r) = Kept(r - 1) + 1 /\ Kept(q) \in Nat /\ Kept(r - 1) \in Nat
    BY <1>3, <2>1, KeptSteps
  <2>3. Kept(q) <= Kept(r - 1)
    BY <2>1, KeptMonotone
  <2> QED BY <2>2, <2>3
<1>4. \A q \in 1..Samples : (q \notin oversized /\ Kept(q) = Kept(p)) => q = p
  <2> SUFFICES ASSUME NEW q \in 1..Samples, q \notin oversized, Kept(q) = Kept(p), q # p
               PROVE  FALSE
    OBVIOUS
  <2>1. q < p \/ p < q
    BY <1>1
  <2> QED BY <1>1, <1>2, <1>3, <2>1
<1>5. Kept(p) \in 1..Kept(Samples)
  BY <1>2
<1>6. EpochSamples[Kept(p)] = CHOOSE sample \in 1..Samples :
                                sample \notin oversized /\ Kept(sample) = Kept(p)
  BY <1>5 DEF EpochSamples
<1> QED BY <1>4, <1>5, <1>6

LEMMA EpochFacts ==
  ASSUME oversized \in OversizedSets
  PROVE  /\ EpochGroups \in Nat \ {0} /\ Kept(Samples) \in Nat \ {0}
         /\ Kept(Samples) <= Accumulation * EpochGroups
         /\ Kept(Samples) > Accumulation * EpochGroups - Accumulation
         /\ Len(EpochSamples) = Kept(Samples) /\ DOMAIN EpochSamples = 1..Kept(Samples)
<1> DEFINE K == Kept(Samples)
           A == Accumulation
           a == K + A - 1
<1>1. A \in Nat \ {0} /\ K \in Nat
  BY TrainingConstants, KeptSteps
<1>2. K # 0
  <2>1. PICK p \in 1..Samples : p \notin oversized
    BY TrainingConstants
  <2> QED BY <2>1, SampleOfItsCount
<1>3. Len(EpochSamples) = K /\ DOMAIN EpochSamples = 1..K
  BY <1>1 DEF EpochSamples
<1>4. EpochGroups = a \div A /\ a \in Nat
  BY <1>1, <1>3 DEF EpochGroups
<1> HIDE DEF K, A, a
<1>5. EpochGroups \in Nat /\ a % A \in 0 .. A - 1 /\ a = A * EpochGroups + (a % A)
  BY <1>1, <1>4, DivMod
<1>6. A * EpochGroups \in Nat
  BY <1>1, <1>5
<1>7. K <= A * EpochGroups /\ K > A * EpochGroups - A
  BY <1>1, <1>5, <1>6 DEF a
<1>8. EpochGroups # 0
  <2>1. EpochGroups = 0 => A * EpochGroups = 0
    BY <1>1
  <2> QED BY <1>1, <1>2, <1>7, <2>1
<1> QED BY <1>1, <1>2, <1>3, <1>5, <1>7, <1>8 DEF K, A

(* A group is full, or the rest of its epoch. *)
LEMMA GroupIs ==
  ASSUME oversized \in OversizedSets, NEW g \in Nat, NEW l \in 1..Accumulation,
         Accumulation * g + l <= Kept(Samples),
         l = Accumulation \/ Accumulation * g + l = Kept(Samples)
  PROVE  /\ g < EpochGroups
         /\ Group(g + 1) = [j \in 1..l |-> EpochSamples[Accumulation * g + j]]
         /\ Accumulation * g + l = Kept(Samples) => g + 1 = EpochGroups
<1> DEFINE K == Kept(Samples)
           A == Accumulation
           E == EpochGroups
           first == A * g
<1>1. /\ A \in Nat \ {0} /\ K \in Nat /\ E \in Nat \ {0}
      /\ K <= A * E /\ K > A * E - A /\ Len(EpochSamples) = K
  BY TrainingConstants, EpochFacts
<1>2. first \in Nat
  BY <1>1
<1>3. g < E
  <2>1. g >= E => A * g >= A * E
    BY <1>1, Monotone
  <2>2. A * E \in Nat
    BY <1>1
  <2> QED BY <1>1, <1>2, <2>1, <2>2
<1>4. A * (g + 1) = first + A /\ (g + 1) * A = first + A /\ (g + 1 - 1) * A = first
  BY <1>1
<1>5. first + l = K => g + 1 = E
  <2>1. g + 1 < E => A * (g + 2) <= A * E
    BY <1>1, Monotone
  <2>2. A * (g + 2) = first + A + A /\ A * E \in Nat
    BY <1>1
  <2> QED BY <1>1, <1>2, <1>3, <2>1, <2>2
<1>6. (IF g + 1 = E THEN K ELSE first + A) = first + l
  <2>1. CASE g + 1 = E
    <3>1. K <= first + A
      BY <1>1, <1>4, <2>1
    <3> QED BY <1>1, <1>2, <2>1, <3>1
  <2>2. CASE g + 1 # E
    BY <1>1, <1>2, <1>5, <2>2
  <2> QED BY <2>1, <2>2
<1>7. Group(g + 1) = SubSeq(EpochSamples, first + 1, first + l)
  <2>1. Group(g + 1) = SubSeq(EpochSamples, (g + 1 - 1) * A + 1,
                              IF g + 1 = E THEN K ELSE (g + 1) * A)
    BY <1>1 DEF Group
  <2> HIDE DEF K, A, E, first
  <2> QED BY <1>4, <1>6, <2>1
<1>8. Group(g + 1) = [j \in 1..l |-> EpochSamples[first + j]]
  <2> HIDE DEF first, K, A, E
  <2>1. (first + l) - (first + 1) + 1 = l /\ \A j \in 1..l : j + (first + 1) - 1 = first + j
    BY <1>2
  <2> QED BY <1>1, <1>2, <1>7, <2>1
<1> QED BY <1>3, <1>5, <1>8

(* The next group of an epoch continues the uninterrupted run. *)
LEMMA GroupContinues ==
  ASSUME oversized \in OversizedSets, NEW e \in Nat, NEW g \in Nat, g < EpochGroups
  PROVE  LET steps == e * EpochGroups + g
         IN  /\ steps \in Nat
             /\ Uninterrupted(steps + 1) = Append(Uninterrupted(steps), Group(g + 1))
<1> DEFINE E == EpochGroups
           steps == e * E + g
           S == {Group(i) : i \in Nat}
           before == Uninterrupted(steps)
           after == Uninterrupted(steps + 1)
<1>1. E \in Nat \ {0} /\ steps \in Nat /\ steps = E * e + g
  BY EpochFacts
<1>2. steps % E = g
  BY <1>1, Residue
<1> HIDE DEF E, steps
<1> DEFINE F == [i \in Nat \ {0} |-> Group(((i - 1) % E) + 1)]
<1>3. F \in [Nat \ {0} -> S]
  <2>1. \A i \in Nat \ {0} : ((i - 1) % E) + 1 \in Nat
    BY <1>1, DivMod
  <2> QED BY <2>1
<1>4. \A n \in Nat : Uninterrupted(n) = [i \in 1..n |-> F[i]]
  BY DEF Uninterrupted, E
<1>5. F[steps + 1] = Group(g + 1)
  <2>1. (steps + 1) - 1 = steps /\ steps + 1 \in Nat \ {0}
    BY <1>1
  <2> QED BY <1>2, <2>1
<1> HIDE DEF F, S
<1>6. before = [i \in 1..steps |-> F[i]] /\ after = [i \in 1..(steps + 1) |-> F[i]]
  <2>1. steps \in Nat /\ steps + 1 \in Nat
    BY <1>1
  <2> QED BY <1>4, <2>1
<1> HIDE DEF before, after
<1>7. before \in Seq(S) /\ Len(before) = steps /\ after \in [1..(steps + 1) -> S]
  BY <1>1, <1>3, <1>6
<1> DEFINE appended == Append(before, F[steps + 1])
<1>8. appended \in Seq(S) /\ Len(appended) = steps + 1
  BY <1>1, <1>3, <1>7
<1>9. \A i \in 1..(steps + 1) : appended[i] = F[i]
  BY <1>1, <1>3, <1>6, <1>7
<1> HIDE DEF appended
<1>10. after = appended
  <2>1. appended \in [1..(steps + 1) -> S]
    BY <1>1, <1>8
  <2> QED BY <1>6, <1>7, <1>9, <2>1
<1> QED BY <1>1, <1>5, <1>10 DEF appended, before, after, steps, E

-----------------------------------------------------------------------------
(* Training *)

\* Groups of the epoch that were applied.
Done(cursor) == cursor.steps - (cursor.epoch - 1) * EpochGroups

\* A cursor, the samples of a group and the parameters belong together: what
\* was applied is the uninterrupted run up to here, the group holds the samples
\* since, and only the group that ends an epoch is short.
InStep(cursor, group, applied) ==
  /\ applied = Uninterrupted(cursor.steps)
  /\ cursor.epoch \in 1..(Epochs + 1) /\ cursor.position \in 0..Samples
  /\ cursor.epoch = Epochs + 1 => (cursor.position = 0 /\ group = <<>>)
  /\ Done(cursor) \in Nat
  /\ \/ /\ Accumulation * Done(cursor) + Len(group) = Kept(cursor.position)
        /\ Len(group) < Accumulation
        /\ group = [j \in 1..Len(group) |-> EpochSamples[Accumulation * Done(cursor) + j]]
     \/ cursor.position = Samples /\ group = <<>> /\ Done(cursor) = EpochGroups

\* The same, of a group with a sample in it that may be full.
OpenGroup(cursor, group, applied) ==
  /\ applied = Uninterrupted(cursor.steps)
  /\ cursor.epoch \in 1..Epochs /\ cursor.position \in 0..Samples
  /\ Done(cursor) \in Nat /\ Len(group) \in 1..Accumulation
  /\ Accumulation * Done(cursor) + Len(group) = Kept(cursor.position)
  /\ group = [j \in 1..Len(group) |-> EpochSamples[Accumulation * Done(cursor) + j]]

Whole == Uninterrupted(Epochs * EpochGroups)

TrainingInv ==
  /\ oversized \in OversizedSets
  /\ trainer.resume \in checkpoints \cup {Absent}
  /\ \A checkpoint \in checkpoints : InStep(checkpoint.cursor, <<>>, checkpoint.applied)
  /\ trainer.at \in {"prepare", "restore", "train"} =>
       InStep(trainer.cursor, trainer.group, trainer.applied)
  /\ trainer.at \in {"prepare", "restore"} => trainer.group = <<>>
  /\ trainer.at \in TrainOutputs => trainer.applied = Whole
  /\ files.scales # Absent => files.scales.applied = Whole

(* The oversized samples are known from the start, so that what is an       *)
(* uninterrupted run does not change.                                       *)
LEMMA SameSamples ==
  ASSUME oversized' = oversized
  PROVE  /\ Whole' = Whole /\ \A steps : Uninterrupted(steps)' = Uninterrupted(steps)
         /\ \A cursor, group, applied :
              InStep(cursor, group, applied)' <=> InStep(cursor, group, applied)
<1>1. \A position : Kept(position)' = Kept(position)
  BY Zenon DEF Kept
<1>2. EpochSamples' = EpochSamples
  BY DEF EpochSamples, Kept
<1>3. EpochGroups' = EpochGroups
  BY <1>2, Zenon DEF EpochGroups
<1>4. \A steps : Uninterrupted(steps)' = Uninterrupted(steps)
  BY <1>2, <1>3, Zenon DEF Uninterrupted, Group
<1>5. Whole' = Whole
  BY <1>3, <1>4 DEF Whole
<1>6. \A cursor : Done(cursor)' = Done(cursor)
  BY <1>3, Zenon DEF Done
<1>7. \A cursor, group, applied :
        InStep(cursor, group, applied)' <=> InStep(cursor, group, applied)
  BY <1>1, <1>2, <1>3, <1>4, <1>6, ZenonT(60) DEF InStep
<1> QED BY <1>4, <1>5, <1>7

(* The invariant after a step, said of what the step leaves in terms of the *)
(* uninterrupted run before it.                                             *)
LEMMA TrainingHolds ==
  ASSUME TrainingInv, oversized' = oversized,
         checkpoints \subseteq checkpoints', trainer'.resume \in checkpoints \cup {Absent},
         \A checkpoint \in checkpoints' \ checkpoints :
           InStep(checkpoint.cursor, <<>>, checkpoint.applied),
         trainer'.at \in {"prepare", "restore", "train"} =>
           InStep(trainer'.cursor, trainer'.group, trainer'.applied),
         trainer'.at \in {"prepare", "restore"} => trainer'.group = <<>>,
         trainer'.at \in TrainOutputs => trainer'.applied = Whole,
         files'.scales # Absent => files'.scales.applied = Whole
  PROVE  TrainingInv'
<1>1. /\ oversized' \in OversizedSets /\ Whole' = Whole
      /\ \A c, g, a : InStep(c, g, a)' <=> InStep(c, g, a)
  BY SameSamples DEF TrainingInv
<1>2. trainer'.resume \in checkpoints' \cup {Absent}
  OBVIOUS
<1>3. \A checkpoint \in checkpoints' : InStep(checkpoint.cursor, <<>>, checkpoint.applied)
  BY DEF TrainingInv
<1>4. \A checkpoint \in checkpoints' : InStep(checkpoint.cursor, <<>>, checkpoint.applied)'
  BY <1>1, <1>3
<1>5. trainer'.at \in {"prepare", "restore", "train"} =>
        InStep(trainer.cursor, trainer.group, trainer.applied)'
  BY <1>1
<1>6. /\ trainer'.at \in TrainOutputs => trainer'.applied = Whole'
      /\ files'.scales # Absent => files'.scales.applied = Whole'
  BY <1>1
<1> QED BY <1>1, <1>2, <1>4, <1>5, <1>6 DEF TrainingInv, TrainOutputs

LEMMA Beginning ==
  ASSUME oversized \in OversizedSets
  PROVE  InStep(NewCursor, <<>>, <<>>)
<1>1. NewCursor.epoch = 1 /\ NewCursor.position = 0 /\ NewCursor.steps = 0
  BY DEF NewCursor
<1>2. Done(NewCursor) = 0
  BY <1>1, EpochFacts DEF Done
<1>3. Uninterrupted(0) = <<>>
  BY DEF Uninterrupted
<1>4. Kept(0) = 0 /\ Accumulation * 0 = 0 /\ Len(<<>>) = 0
  BY KeptSteps, TrainingConstants
<1>5. <<>> = [j \in 1..0 |-> EpochSamples[Accumulation * 0 + j]]
  OBVIOUS
<1> QED BY <1>1, <1>2, <1>3, <1>4, <1>5, TrainingConstants DEF InStep

\* Whatever happens outside training.
OutsideStep ==
  /\ UNCHANGED <<checkpoints, oversized>>
  /\ files'.scales \in {files.scales, Absent}
  /\ \/ trainer' = trainer \/ trainer' = NoTrainer
     \/ \E resume \in checkpoints \cup {Absent} : trainer' = Trainer(resume)

LEMMA OutsideSteps ==
  ASSUME TrainingInv, OutsideStep
  PROVE  TrainingInv'
<1>1. /\ oversized' = oversized /\ checkpoints' = checkpoints
      /\ files'.scales # Absent => files'.scales.applied = Whole
  BY DEF OutsideStep, TrainingInv
<1>2. CASE trainer' = trainer
  BY <1>1, <1>2, TrainingHolds DEF TrainingInv
<1>3. CASE trainer' = NoTrainer
  <2>1. trainer'.at = "none" /\ trainer'.resume = Absent
    BY <1>3 DEF NoTrainer
  <2> QED BY <1>1, <2>1, TrainingHolds DEF TrainOutputs
<1>4. ASSUME NEW resume \in checkpoints \cup {Absent}, trainer' = Trainer(resume)
      PROVE  TrainingInv'
  <2>1. /\ trainer'.at = "prepare" /\ trainer'.resume = resume /\ trainer'.cursor = NewCursor
        /\ trainer'.group = <<>> /\ trainer'.applied = <<>>
    BY <1>4 DEF Trainer, NoTrainer
  <2>2. InStep(trainer'.cursor, trainer'.group, trainer'.applied)
    BY <2>1, Beginning DEF TrainingInv
  <2>3. trainer'.resume \in checkpoints \cup {Absent} /\ trainer'.at \notin TrainOutputs
    BY <2>1 DEF TrainOutputs
  <2> QED BY <1>1, <2>1, <2>2, <2>3, TrainingHolds
<1> QED BY <1>2, <1>3, <1>4 DEF OutsideStep

(* An optimizer step on a group that is full or ends the epoch.             *)
LEMMA StepsOn ==
  ASSUME oversized \in OversizedSets, NEW cursor \in Cursors, NEW group \in Seq(Nat),
         cursor.epoch \in 1..Epochs, cursor.position \in 0..Samples,
         Done(cursor) \in Nat, Len(group) \in 1..Accumulation,
         Accumulation * Done(cursor) + Len(group) = Kept(cursor.position),
         Len(group) = Accumulation \/ cursor.position = Samples,
         group = [j \in 1..Len(group) |-> EpochSamples[Accumulation * Done(cursor) + j]]
  PROVE  InStep([cursor EXCEPT !.steps = @ + 1], <<>>,
                Append(Uninterrupted(cursor.steps), group))
<1> DEFINE next == [cursor EXCEPT !.steps = @ + 1]
           g == Done(cursor)
           l == Len(group)
           e == cursor.epoch - 1
           A == Accumulation
           E == EpochGroups
           K == Kept(Samples)
           p == cursor.position
<1>1. cursor.steps \in Nat /\ cursor.epoch \in Nat /\ p \in Nat
  BY DEF Cursors
<1>2. A \in Nat \ {0} /\ Samples \in Nat \ {0} /\ Epochs \in Nat \ {0}
  BY TrainingConstants
<1>3. E \in Nat \ {0} /\ K \in Nat
  BY EpochFacts
<1>4. e \in Nat /\ cursor.epoch \in 1..(Epochs + 1) /\ cursor.epoch # Epochs + 1
  <2>1. cursor.epoch \in 1..Epochs
    OBVIOUS
  <2> QED BY ONLY <1>1, <1>2, <2>1 DEF e
<1>5. next.steps = cursor.steps + 1 /\ next.epoch = cursor.epoch /\ next.position = p
  BY DEF Cursors
<1>6. g = cursor.steps - e * E /\ Done(next) = (cursor.steps + 1) - e * E
  <2>1. g = cursor.steps - e * E
    BY DEF Done
  <2> HIDE DEF next
  <2>2. Done(next) = next.steps - (next.epoch - 1) * E
    BY DEF Done
  <2> QED BY <1>5, <2>1, <2>2
<1>7. /\ g \in Nat /\ l \in 1..A /\ A * g + l = Kept(p) /\ (l = A \/ p = Samples)
      /\ group = [j \in 1..l |-> EpochSamples[A * g + j]]
  OBVIOUS
<1>8. Kept(p) <= K
  <2>1. p <= Samples
    BY <1>1
  <2> QED BY <1>1, <1>2, <2>1, KeptMonotone
<1> HIDE DEF next, g, l, e, A, E, K, p
<1>9. e * E \in Nat
  BY <1>3, <1>4
<1>10. cursor.steps = e * E + g /\ Done(next) = g + 1
  <2> DEFINE past == e * E
  <2>1. past \in Nat /\ g = cursor.steps - past /\ Done(next) = (cursor.steps + 1) - past
    BY ONLY <1>6, <1>9
  <2> HIDE DEF past
  <2>2. g \in Nat /\ cursor.steps \in Nat
    BY <1>1, <1>7
  <2>3. cursor.steps = past + g /\ Done(next) = g + 1
    BY ONLY <2>1, <2>2, SMTT(30)
  <2> QED BY <2>3 DEF past
<1>11. A * g + l <= K /\ (l = A \/ A * g + l = K)
  <2>1. p = Samples => Kept(p) = K
    BY DEF K
  <2> QED BY <1>7, <1>8, <2>1
<1>12. /\ g < E /\ Group(g + 1) = group
       /\ A * g + l = K => g + 1 = E
  BY <1>7, <1>11, GroupIs DEF A, E, K
<1>13. Uninterrupted(next.steps) = Append(Uninterrupted(cursor.steps), group)
  <2>1. Uninterrupted((e * E + g) + 1) = Append(Uninterrupted(e * E + g), Group(g + 1))
    BY <1>4, <1>7, <1>12, GroupContinues DEF E
  <2> QED BY <1>5, <1>10, <1>12, <2>1
<1>14. A * (g + 1) = A * g + A /\ A * g \in Nat
  BY <1>2, <1>7
<1>15. \/ A * Done(next) + 0 = Kept(p)
       \/ p = Samples /\ Done(next) = E
  <2> DEFINE before == A * g
             after == A * (g + 1)
  <2>1. before \in Nat /\ after = before + A /\ A \in Nat /\ before + l = Kept(p)
    BY <1>2, <1>7, <1>14
  <2>2. A * Done(next) = after
    BY <1>10
  <2> HIDE DEF before, after
  <2>3. CASE l = A
    BY <2>1, <2>2, <2>3
  <2>4. CASE l # A
    BY <1>7, <1>10, <1>11, <1>12, <2>4
  <2> QED BY <2>3, <2>4
<1>16. <<>> = [j \in 1..0 |-> EpochSamples[A * Done(next) + j]] /\ Len(<<>>) = 0 /\ 0 < A
  BY <1>2
<1>17. Done(next) \in Nat
  BY <1>7, <1>10
<1>18. InStep(next, <<>>, Append(Uninterrupted(cursor.steps), group))
  <2>1. next.epoch \in 1..(Epochs + 1) /\ next.epoch # Epochs + 1 /\ next.position \in 0..Samples
    BY <1>4, <1>5 DEF p
  <2>2. \/ /\ A * Done(next) + Len(<<>>) = Kept(next.position)
           /\ Len(<<>>) < A
           /\ <<>> = [j \in 1..Len(<<>>) |-> EpochSamples[A * Done(next) + j]]
        \/ next.position = Samples /\ <<>> = <<>> /\ Done(next) = E
    BY <1>5, <1>15, <1>16
  <2> QED BY <1>13, <1>17, <2>1, <2>2, Zenon DEF InStep, A, E
<1> QED BY <1>18 DEF next

(* What TrainSample and FlushGroup leave behind, from the lemma above.      *)
LEMMA OptimizerStepsOn ==
  ASSUME TrainingTypeOK, TrainingInv, UNCHANGED <<files, oversized>>,
         NEW cursor \in Cursors, NEW group \in Seq(Nat), NEW skipped,
         OpenGroup(cursor, group, trainer.applied),
         Len(group) = Accumulation \/ cursor.position = Samples,
         trainer.at = "train", OptimizerStep(cursor, group, skipped)
  PROVE  TrainingInv'
<1> DEFINE next == [cursor EXCEPT !.steps = @ + 1]
           applied == Append(trainer.applied, group)
           trained == [trainer EXCEPT !.cursor = next, !.group = <<>>, !.applied = applied,
                                      !.skipped = skipped]
           saved == Checkpoint(FALSE, next, applied)
<1>1. oversized \in OversizedSets
  BY DEF TrainingInv
<1>2. InStep(next, <<>>, applied)
  BY <1>1, StepsOn DEF OpenGroup
<1>3. trainer' \in {trained, [trained EXCEPT !.at = "failed"]}
  BY Zenon DEF OptimizerStep, Becomes
<1>4. checkpoints' \in {checkpoints, checkpoints \cup {saved}}
  BY Zenon DEF OptimizerStep, Becomes
<1>5. saved.cursor = next /\ saved.applied = applied
  BY DEF Checkpoint
<1>6. /\ trainer'.at \in {"train", "failed"} /\ trainer'.cursor = next /\ trainer'.group = <<>>
      /\ trainer'.applied = applied /\ trainer'.resume = trainer.resume
  <2> HIDE DEF next, applied
  <2> QED BY <1>3 DEF TrainingTypeOK, Trainers
<1> HIDE DEF next, applied, trained, saved
<1>7. InStep(trainer'.cursor, trainer'.group, trainer'.applied)
  BY <1>2, <1>6
<1>8. /\ checkpoints \subseteq checkpoints'
      /\ \A checkpoint \in checkpoints' \ checkpoints :
           InStep(checkpoint.cursor, <<>>, checkpoint.applied)
  BY <1>2, <1>4, <1>5
<1>9. trainer'.resume \in checkpoints \cup {Absent}
      /\ (files'.scales # Absent => files'.scales.applied = Whole)
  BY <1>6 DEF TrainingInv
<1>10. trainer'.at \notin TrainOutputs /\ trainer'.at \notin {"prepare", "restore"}
  BY <1>6 DEF TrainOutputs
<1> QED BY <1>7, <1>8, <1>9, <1>10, TrainingHolds

(* A step that only moves the trainer on, or ends it.                       *)
LEMMA MovedTrainer ==
  ASSUME trainer \in Trainers, NEW at, Moves(at)
  PROVE  /\ trainer'.at = at /\ trainer'.resume = trainer.resume
         /\ trainer'.cursor = trainer.cursor /\ trainer'.group = trainer.group
         /\ trainer'.applied = trainer.applied
BY DEF Moves, Trainers

LEMMA RefusesOn ==
  ASSUME TrainingInv, trainer \in Trainers, Moves("failed"),
         UNCHANGED <<files, checkpoints, oversized>>
  PROVE  TrainingInv'
<1>1. trainer'.at = "failed" /\ trainer'.resume = trainer.resume
  BY MovedTrainer
<1>2. /\ trainer'.resume \in checkpoints \cup {Absent} /\ trainer'.at \notin TrainOutputs
      /\ files'.scales # Absent => files'.scales.applied = Whole
  BY <1>1 DEF TrainingInv, TrainOutputs
<1> QED BY <1>1, <1>2, TrainingHolds

LEMMA PrepareOn ==
  ASSUME TrainingInv, TrainingTypeOK, Prepare
  PROVE  TrainingInv'
<1>1. trainer \in Trainers /\ FilesTypeOK /\ oversized' = oversized
  BY DEF TrainingTypeOK, Prepare
<1>2. CASE Refuses
  BY <1>1, <1>2, RefusesOn DEF Refuses
<1>3. CASE Moves("restore") /\ UNCHANGED <<files, checkpoints>>
  <2>1. /\ trainer'.at = "restore" /\ trainer'.resume = trainer.resume
        /\ trainer'.cursor = trainer.cursor /\ trainer'.group = trainer.group
        /\ trainer'.applied = trainer.applied
    BY <1>1, <1>3, MovedTrainer
  <2>2. /\ InStep(trainer.cursor, trainer.group, trainer.applied) /\ trainer.group = <<>>
        /\ trainer.resume \in checkpoints \cup {Absent}
        /\ files.scales # Absent => files.scales.applied = Whole
    BY DEF TrainingInv, Prepare
  <2>3. trainer'.at \notin TrainOutputs /\ files'.scales = files.scales
    BY <1>3, <2>1 DEF TrainOutputs
  <2> QED BY <1>1, <1>3, <2>1, <2>2, <2>3, TrainingHolds
<1>4. CASE /\ Partial # {} /\ UNCHANGED <<checkpoints, trainer>>
           /\ files' = [files EXCEPT ![IF "scales" \in Partial THEN "scales" ELSE "report"] = Absent]
  <2>1. "scales" \in OutputNames /\ "report" \in OutputNames
    BY DEF OutputNames, TrainOutputs
  <2>2. files'["scales"] \in {files["scales"], Absent}
    <3>1. CASE "scales" \in Partial
      BY <1>1, <1>4, <2>1, <3>1 DEF FilesTypeOK
    <3>2. CASE "scales" \notin Partial
      <4>1. files' = [files EXCEPT !["report"] = Absent]
        BY <1>4, <3>2
      <4>2. \A other \in OutputNames \ {"report"} : files'[other] = files[other]
        BY <1>1, <2>1, <4>1, FileWritten
      <4> QED BY <2>1, <4>2
    <3> QED BY <3>1, <3>2
  <2> QED BY <1>1, <1>4, <2>2, OutsideSteps DEF OutsideStep
<1> QED BY <1>2, <1>3, <1>4 DEF Prepare

(* Resuming takes up what a checkpoint holds, with an empty group.          *)
LEMMA RestoreOn ==
  ASSUME TrainingInv, TrainingTypeOK, Restore
  PROVE  TrainingInv'
<1>1. /\ trainer \in Trainers /\ oversized' = oversized /\ trainer.group = <<>>
      /\ UNCHANGED <<files, checkpoints>> /\ trainer.resume \in checkpoints \cup {Absent}
      /\ InStep(trainer.cursor, <<>>, trainer.applied)
      /\ files.scales # Absent => files.scales.applied = Whole
  BY DEF TrainingTypeOK, TrainingInv, Restore
<1>2. /\ trainer'.at = "train" /\ trainer'.resume = trainer.resume /\ trainer'.group = <<>>
      /\ InStep(trainer'.cursor, trainer'.group, trainer'.applied)
  <2>1. CASE trainer.resume = Absent
    <3>1. Moves("train")
      BY <2>1 DEF Restore, Becomes, Moves
    <3> QED BY <1>1, <3>1, MovedTrainer
  <2>2. CASE trainer.resume # Absent
    <3> DEFINE from == trainer.resume.cursor
               applied == trainer.resume.applied
    <3>1. InStep(from, <<>>, applied)
      BY <1>1, <2>2 DEF TrainingInv
    <3>2. trainer' = [trainer EXCEPT !.at = "train", !.cursor = from, !.applied = applied]
      BY <2>2 DEF Restore, Becomes, RestoredCursor
    <3> HIDE DEF from, applied
    <3>3. /\ trainer'.at = "train" /\ trainer'.resume = trainer.resume
          /\ trainer'.group = trainer.group /\ trainer'.cursor = from
          /\ trainer'.applied = applied
      BY <1>1, <3>2 DEF Trainers
    <3> QED BY <1>1, <3>1, <3>3
  <2> QED BY <2>1, <2>2
<1>3. trainer'.at \notin TrainOutputs
  BY <1>2 DEF TrainOutputs
<1> QED BY <1>1, <1>2, <1>3, TrainingHolds

(* All groups of an epoch are done when its samples are and none is open.   *)
LEMMA EpochEnds ==
  ASSUME oversized \in OversizedSets, NEW cursor, NEW applied,
         InStep(cursor, <<>>, applied), cursor.position = Samples
  PROVE  Done(cursor) = EpochGroups
<1> DEFINE d == Done(cursor)
           E == EpochGroups
           A == Accumulation
           K == Kept(Samples)
<1>1. d \in Nat /\ (A * d + Len(<<>>) = K \/ d = E)
  BY DEF InStep
<1>2. A \in Nat \ {0} /\ E \in Nat \ {0} /\ K \in Nat /\ K <= A * E /\ K > A * E - A
  BY TrainingConstants, EpochFacts
<1> HIDE DEF d, E, A, K
<1>3. Len(<<>>) = 0 /\ A * d \in Nat /\ A * E \in Nat
  BY <1>1, <1>2
<1>4. ASSUME A * d = K PROVE d = E
  <2>1. d + 1 <= E => A * (d + 1) <= A * E
    BY <1>1, <1>2, Monotone
  <2>2. A * (d + 1) = A * d + A
    BY <1>1, <1>2
  <2>3. d >= E + 1 => A * (E + 1) <= A * d
    BY <1>1, <1>2, Monotone
  <2>4. A * (E + 1) = A * E + A
    BY <1>2
  <2>5. ~(d + 1 <= E)
    BY <1>2, <1>3, <1>4, <2>1, <2>2
  <2>6. ~(d >= E + 1)
    BY <1>2, <1>3, <1>4, <2>3, <2>4
  <2> QED BY <1>1, <1>2, <2>5, <2>6
<1>5. A * d + Len(<<>>) = K => A * d = K
  BY <1>3
<1>6. d = E
  BY <1>1, <1>4, <1>5
<1> QED BY <1>6 DEF d, E

(* The next epoch begins with no group done.                                *)
LEMMA EpochBegins ==
  ASSUME oversized \in OversizedSets, NEW cursor \in Cursors, NEW next \in Cursors, NEW applied,
         InStep(cursor, <<>>, applied), cursor.position = Samples, cursor.epoch <= Epochs,
         next.epoch = cursor.epoch + 1, next.position = 0, next.steps = cursor.steps
  PROVE  InStep(next, <<>>, applied)
<1> DEFINE E == EpochGroups
           e == cursor.epoch - 1
           past == e * E
<1>1. Done(cursor) = E
  BY EpochEnds
<1>2. cursor.epoch \in 1..(Epochs + 1) /\ applied = Uninterrupted(cursor.steps)
  BY DEF InStep
<1>3. E \in Nat \ {0} /\ Epochs \in Nat \ {0} /\ Samples \in Nat \ {0} /\ Accumulation \in Nat \ {0}
  BY TrainingConstants, EpochFacts
<1>4. cursor.epoch \in Nat /\ cursor.steps \in Nat
  BY DEF Cursors
<1>5. e \in Nat /\ next.epoch \in 1..(Epochs + 1) /\ next.epoch - 1 = e + 1 /\ 0 \in 0..Samples
  <2>1. cursor.epoch <= Epochs /\ next.epoch = cursor.epoch + 1 /\ cursor.epoch \in 1..(Epochs + 1)
    BY <1>2
  <2> QED BY ONLY <1>3, <1>4, <2>1 DEF e
<1>6. past \in Nat /\ (e + 1) * E = past + E
  <2> HIDE DEF e, E
  <2> QED BY ONLY <1>3, <1>5
<1>7. E = cursor.steps - past
  BY <1>1 DEF Done
<1>8. Done(next) = cursor.steps - (e + 1) * E
  BY <1>5 DEF Done
<1>9. Done(next) = 0
  <2> HIDE DEF past, E, e
  <2> QED BY ONLY <1>3, <1>4, <1>6, <1>7, <1>8
<1>10. Kept(0) = 0 /\ Accumulation * 0 + Len(<<>>) = 0 /\ Len(<<>>) < Accumulation
  BY <1>3, KeptSteps
<1>11. <<>> = [j \in 1..Len(<<>>) |-> EpochSamples[Accumulation * 0 + j]]
  OBVIOUS
<1>12. /\ applied = Uninterrupted(next.steps)
       /\ next.epoch \in 1..(Epochs + 1) /\ next.position \in 0..Samples
       /\ next.epoch = Epochs + 1 => (next.position = 0 /\ <<>> = <<>>)
       /\ Done(next) \in Nat
  BY <1>2, <1>5, <1>9
<1>13. /\ Accumulation * Done(next) + Len(<<>>) = Kept(next.position)
       /\ Len(<<>>) < Accumulation
       /\ <<>> = [j \in 1..Len(<<>>) |-> EpochSamples[Accumulation * Done(next) + j]]
  BY <1>9, <1>10, <1>11
<1> QED BY <1>12, <1>13, Zenon DEF InStep

(* After the last epoch the whole run has been applied.                     *)
LEMMA EpochsEnd ==
  ASSUME oversized \in OversizedSets, NEW cursor \in Cursors, NEW group, NEW applied,
         InStep(cursor, group, applied), cursor.epoch > Epochs
  PROVE  applied = Whole /\ group = <<>>
<1> DEFINE d == Done(cursor)
           E == EpochGroups
           A == Accumulation
           past == Epochs * E
<1>1. E \in Nat \ {0} /\ Epochs \in Nat \ {0} /\ Samples \in Nat \ {0} /\ A \in Nat \ {0}
  BY TrainingConstants, EpochFacts
<1>2. cursor.epoch = Epochs + 1 /\ cursor.steps \in Nat
  BY <1>1 DEF InStep, Cursors
<1>3. cursor.position = 0 /\ group = <<>> /\ applied = Uninterrupted(cursor.steps)
  BY <1>2 DEF InStep
<1>4. d \in Nat /\ A * d + Len(<<>>) = Kept(0)
  BY <1>1, <1>3 DEF InStep
<1>5. A * d = 0
  <2>1. Kept(0) = 0 /\ Len(<<>>) = 0 /\ A * d \in Nat
    BY <1>1, <1>4, KeptSteps
  <2> HIDE DEF d, A
  <2> QED BY <1>4, <2>1
<1>6. d = 0
  <2>1. d >= 1 => A * 1 <= A * d
    BY <1>1, <1>4, Monotone
  <2> HIDE DEF d, A
  <2> QED BY <1>1, <1>4, <1>5, <2>1
<1>7. d = cursor.steps - (cursor.epoch - 1) * E /\ cursor.epoch - 1 = Epochs
  BY <1>1, <1>2 DEF Done
<1>8. past \in Nat /\ d = cursor.steps - past
  BY <1>1, <1>7
<1>9. cursor.steps = past
  <2> HIDE DEF d, past
  <2> QED BY <1>2, <1>6, <1>8
<1> QED BY <1>3, <1>9 DEF Whole

(* A sample that is skipped leaves the group as it is.                      *)
LEMMA SampleSkipped ==
  ASSUME oversized \in OversizedSets, NEW cursor \in Cursors, NEW next \in Cursors,
         NEW group, NEW applied, InStep(cursor, group, applied),
         cursor.position < Samples, cursor.position + 1 \in oversized, cursor.epoch <= Epochs,
         next.epoch = cursor.epoch, next.position = cursor.position + 1,
         next.steps = cursor.steps
  PROVE  InStep(next, group, applied)
<1>1. cursor.position \in Nat /\ cursor.epoch \in Nat
  BY DEF Cursors
<1>2. Samples \in Nat /\ Epochs \in Nat
  BY TrainingConstants
<1>3. Done(next) = Done(cursor)
  BY DEF Done
<1>4. Kept(next.position) = Kept(cursor.position)
  BY <1>1, KeptSteps
<1>5. cursor.position # Samples
  BY <1>1, <1>2
<1>6. next.epoch # Epochs + 1 /\ next.position \in 0..Samples
  BY <1>1, <1>2
<1> QED BY <1>3, <1>4, <1>5, <1>6 DEF InStep

(* A sample that is kept is the next of its epoch, and the group with it is *)
(* that of the uninterrupted run.                                           *)
LEMMA SampleAdded ==
  ASSUME oversized \in OversizedSets, NEW cursor \in Cursors, NEW next \in Cursors,
         NEW group \in Seq(Nat), NEW applied, InStep(cursor, group, applied),
         cursor.position < Samples, cursor.position + 1 \notin oversized, cursor.epoch <= Epochs,
         next.epoch = cursor.epoch, next.position = cursor.position + 1,
         next.steps = cursor.steps,
         NEW added, added = Append(group, cursor.position + 1)
  PROVE  /\ OpenGroup(next, added, applied)
         /\ Len(added) < Accumulation => InStep(next, added, applied)
<1> DEFINE p == cursor.position
           l == Len(group)
           d == Done(cursor)
           A == Accumulation
           first == A * d
<1>1. p \in Nat /\ cursor.epoch \in Nat /\ p < Samples /\ p + 1 \notin oversized
  BY DEF Cursors
<1>2. Samples \in Nat /\ Epochs \in Nat /\ A \in Nat \ {0}
  BY TrainingConstants
<1>3. p # Samples /\ next.position = p + 1 /\ p + 1 \in 1..Samples
  BY <1>1, <1>2
<1>4. /\ applied = Uninterrupted(cursor.steps) /\ cursor.epoch \in 1..(Epochs + 1)
      /\ d \in Nat /\ first + l = Kept(p) /\ l < A
      /\ group = [j \in 1..l |-> EpochSamples[first + j]]
  BY <1>3 DEF InStep
<1>5. Done(next) = d
  BY DEF Done
<1>6. next.epoch \in 1..Epochs /\ next.position \in 0..Samples /\ next.epoch # Epochs + 1
  <2>1. next.epoch = cursor.epoch /\ cursor.epoch <= Epochs /\ cursor.epoch \in 1..(Epochs + 1)
    BY <1>4
  <2> QED BY ONLY <1>1, <1>2, <1>3, <2>1
<1>7. Kept(p + 1) = Kept(p) + 1 /\ Kept(p) \in Nat
  BY <1>1, KeptSteps
<1>8. EpochSamples[Kept(p + 1)] = p + 1
  BY <1>1, <1>3, SampleOfItsCount
<1>9. l \in Nat /\ Len(added) = l + 1 /\ added = [j \in 1..(l + 1) |-> IF j = l + 1 THEN p + 1 ELSE group[j]]
  <2>1. added = Append(group, p + 1)
    OBVIOUS
  <2> HIDE DEF p
  <2>2. added \in Seq(Nat) /\ Len(added) = l + 1 /\ l \in Nat
    BY <1>1, <2>1
  <2> QED BY <1>1, <2>1, <2>2
<1>10. first \in Nat
  BY <1>2, <1>4
<1> DEFINE k == Kept(p + 1)
<1>11. k = first + (l + 1)
  <2> HIDE DEF first, l
  <2> QED BY <1>4, <1>7, <1>9, <1>10
<1> HIDE DEF first, l, d, A, p
<1>12. added = [j \in 1..(l + 1) |-> EpochSamples[first + j]]
  <2>1. \A j \in 1..(l + 1) : (IF j = l + 1 THEN p + 1 ELSE group[j]) = EpochSamples[first + j]
    <3> SUFFICES ASSUME NEW j \in 1..(l + 1)
                 PROVE  (IF j = l + 1 THEN p + 1 ELSE group[j]) = EpochSamples[first + j]
      OBVIOUS
    <3>1. CASE j = l + 1
      BY <1>8, <1>11, <3>1
    <3>2. CASE j # l + 1
      <4>1. j \in 1..l
        BY <1>9, <3>2
      <4> QED BY <1>4, <3>2, <4>1
    <3> QED BY <3>1, <3>2
  <2> QED BY <1>9, <2>1, Zenon
<1>13. first + Len(added) = Kept(next.position) /\ Len(added) \in 1..A
  BY <1>2, <1>3, <1>4, <1>9, <1>11
<1>14. /\ A * Done(next) + Len(added) = Kept(next.position)
       /\ added = [j \in 1..Len(added) |-> EpochSamples[A * Done(next) + j]]
  BY <1>5, <1>9, <1>12, <1>13 DEF first
<1>15. applied = Uninterrupted(next.steps) /\ Done(next) \in Nat
  BY <1>4, <1>5
<1>16. next.epoch \in 1..(Epochs + 1)
  BY <1>2, <1>6
<1>17. Len(added) < A => InStep(next, added, applied)
  BY <1>6, <1>14, <1>15, <1>16, Zenon DEF InStep, A
<1>18. OpenGroup(next, added, applied)
  BY <1>6, <1>13, <1>14, <1>15, Zenon DEF OpenGroup, A
<1> QED BY <1>17, <1>18 DEF A

LEMMA TrainSampleOn ==
  ASSUME TrainingInv, TrainingTypeOK, TrainSample
  PROVE  TrainingInv'
<1> DEFINE sample == trainer.cursor.position + 1
           cursor == [trainer.cursor EXCEPT !.position = sample]
           group == Append(trainer.group, sample)
           skipping == [trainer EXCEPT !.cursor = cursor, !.skipped = @ \cup {sample}]
           adding == [trainer EXCEPT !.cursor = cursor, !.group = group]
<1>1. /\ trainer \in Trainers /\ trainer.cursor \in Cursors /\ trainer.group \in Seq(Nat)
      /\ trainer.cursor.position \in Nat
  BY TrainerTypes DEF TrainingTypeOK
<1>2. /\ trainer.at = "train" /\ UNCHANGED <<files, oversized>>
      /\ trainer.cursor.epoch <= Epochs /\ trainer.cursor.position < Samples
  BY DEF TrainSample
<1>3. /\ InStep(trainer.cursor, trainer.group, trainer.applied) /\ oversized \in OversizedSets
      /\ trainer.resume \in checkpoints \cup {Absent}
      /\ files.scales # Absent => files.scales.applied = Whole
  BY <1>2 DEF TrainingInv
<1>4. \/ sample \in oversized /\ trainer' = skipping /\ UNCHANGED checkpoints
      \/ sample \notin oversized /\ Len(group) < Accumulation /\ trainer' = adding
         /\ UNCHANGED checkpoints
      \/ sample \notin oversized /\ ~(Len(group) < Accumulation)
         /\ OptimizerStep(cursor, group, trainer.skipped)
  BY Zenon DEF TrainSample, Becomes
<1>5. /\ cursor \in Cursors /\ group \in Seq(Nat) /\ cursor.epoch = trainer.cursor.epoch
      /\ cursor.position = sample /\ cursor.steps = trainer.cursor.steps /\ sample \in Nat
  BY <1>1 DEF Cursors
<1>6. /\ skipping.at = trainer.at /\ skipping.resume = trainer.resume
      /\ skipping.cursor = cursor /\ skipping.group = trainer.group
      /\ skipping.applied = trainer.applied
      /\ adding.at = trainer.at /\ adding.resume = trainer.resume
      /\ adding.cursor = cursor /\ adding.group = group /\ adding.applied = trainer.applied
  <2> HIDE DEF cursor, group, sample
  <2> QED BY <1>1 DEF Trainers
<1>7. "train" \notin TrainOutputs
  BY DEF TrainOutputs
<1> HIDE DEF skipping, adding, cursor
<1>8. CASE sample \in oversized /\ trainer' = skipping /\ UNCHANGED checkpoints
  <2>1. InStep(cursor, trainer.group, trainer.applied)
    BY <1>1, <1>2, <1>3, <1>5, <1>8, SampleSkipped
  <2> HIDE DEF sample, group
  <2> QED BY <1>2, <1>3, <1>6, <1>7, <1>8, <2>1, TrainingHolds
<1>9. ASSUME sample \notin oversized
      PROVE  /\ OpenGroup(cursor, group, trainer.applied)
             /\ Len(group) < Accumulation => InStep(cursor, group, trainer.applied)
  <2> DEFINE applied == trainer.applied
             old == trainer.cursor
             open == trainer.group
  <2>1. /\ InStep(old, open, applied) /\ old \in Cursors /\ open \in Seq(Nat)
        /\ oversized \in OversizedSets /\ old.epoch <= Epochs /\ old.position < Samples
        /\ old.position + 1 \notin oversized
        /\ cursor.epoch = old.epoch /\ cursor.position = old.position + 1
        /\ cursor.steps = old.steps /\ group = Append(open, old.position + 1)
    BY <1>1, <1>2, <1>3, <1>5, <1>9
  <2> HIDE DEF applied, old, open, group
  <2>2. /\ OpenGroup(cursor, group, applied)
        /\ Len(group) < Accumulation => InStep(cursor, group, applied)
    <3>1. cursor \in Cursors
      BY <1>5
    <3> QED BY ONLY <2>1, <3>1, SampleAdded
  <2> QED BY <2>2 DEF applied
<1>10. CASE sample \notin oversized /\ Len(group) < Accumulation /\ trainer' = adding
            /\ UNCHANGED checkpoints
  <2>1. InStep(cursor, group, trainer.applied)
    BY <1>9, <1>10
  <2> HIDE DEF sample, group
  <2> QED BY <1>2, <1>3, <1>6, <1>7, <1>10, <2>1, TrainingHolds
<1>11. CASE sample \notin oversized /\ ~(Len(group) < Accumulation)
            /\ OptimizerStep(cursor, group, trainer.skipped)
  <2> HIDE DEF sample, group
  <2>1. Len(group) = Accumulation
    <3>1. Len(group) \in 1..Accumulation /\ ~(Len(group) < Accumulation)
      BY <1>9, <1>11 DEF OpenGroup
    <3>2. Accumulation \in Nat
      BY TrainingConstants
    <3> QED BY ONLY <3>1, <3>2
  <2> DEFINE skipped == trainer.skipped
  <2>2. OptimizerStep(cursor, group, skipped)
    BY <1>11
  <2> HIDE DEF skipped
  <2> QED BY <1>2, <1>5, <1>9, <1>11, <2>1, <2>2, OptimizerStepsOn
<1> QED BY <1>4, <1>8, <1>10, <1>11

LEMMA FlushGroupOn ==
  ASSUME TrainingInv, TrainingTypeOK, FlushGroup
  PROVE  TrainingInv'
<1> DEFINE cursor == trainer.cursor
           group == trainer.group
           skipped == trainer.skipped
<1>1. /\ trainer.at = "train" /\ UNCHANGED <<files, oversized>> /\ cursor.epoch <= Epochs
      /\ cursor.position = Samples /\ group # <<>> /\ OptimizerStep(cursor, group, skipped)
  BY DEF FlushGroup
<1>2. cursor \in Cursors /\ group \in Seq(Nat) /\ cursor.position \in Nat /\ cursor.epoch \in Nat
  BY TrainerTypes DEF TrainingTypeOK
<1>3. InStep(cursor, group, trainer.applied)
  BY <1>1 DEF TrainingInv
<1> HIDE DEF cursor, group, skipped
<1>4. Samples \in Nat \ {0} /\ Epochs \in Nat \ {0} /\ Accumulation \in Nat \ {0}
  BY TrainingConstants
<1>5. Len(group) \in Nat /\ Len(group) # 0
  BY <1>1, <1>2
<1>6. /\ trainer.applied = Uninterrupted(cursor.steps) /\ cursor.epoch \in 1..(Epochs + 1)
      /\ cursor.position \in 0..Samples /\ Done(cursor) \in Nat /\ Len(group) < Accumulation
      /\ Accumulation * Done(cursor) + Len(group) = Kept(cursor.position)
      /\ group = [j \in 1..Len(group) |-> EpochSamples[Accumulation * Done(cursor) + j]]
  BY <1>1, <1>3 DEF InStep
<1>7. cursor.epoch \in 1..Epochs /\ Len(group) \in 1..Accumulation
  <2>1. Len(group) < Accumulation /\ cursor.epoch \in 1..(Epochs + 1) /\ cursor.epoch <= Epochs
    BY <1>1, <1>6
  <2> QED BY ONLY <1>2, <1>4, <1>5, <2>1
<1>8. OpenGroup(cursor, group, trainer.applied)
  BY <1>6, <1>7, Zenon DEF OpenGroup
<1> QED BY <1>1, <1>2, <1>8, OptimizerStepsOn

LEMMA EndEpochOn ==
  ASSUME TrainingInv, TrainingTypeOK, EndEpoch
  PROVE  TrainingInv'
<1> DEFINE cursor == trainer.cursor
           next == [[cursor EXCEPT !.epoch = @ + 1] EXCEPT !.position = 0]
           ended == [trainer EXCEPT !.cursor.epoch = @ + 1, !.cursor.position = 0]
<1>1. /\ trainer.at = "train" /\ UNCHANGED <<files, checkpoints, oversized>>
      /\ cursor.epoch <= Epochs /\ cursor.position = Samples /\ trainer.group = <<>>
      /\ trainer' = ended
  BY DEF EndEpoch, Becomes
<1>2. trainer \in Trainers /\ cursor \in Cursors /\ cursor.epoch \in Nat /\ cursor.steps \in Nat
  BY TrainerTypes DEF TrainingTypeOK
<1>3. /\ InStep(cursor, <<>>, trainer.applied) /\ oversized \in OversizedSets
      /\ trainer.resume \in checkpoints \cup {Absent}
      /\ files.scales # Absent => files.scales.applied = Whole
  BY <1>1 DEF TrainingInv
<1>4. /\ next \in Cursors /\ next.epoch = cursor.epoch + 1 /\ next.position = 0
      /\ next.steps = cursor.steps
  <2> DEFINE middle == [cursor EXCEPT !.epoch = @ + 1]
  <2>1. /\ middle \in Cursors /\ middle.epoch = cursor.epoch + 1 /\ middle.steps = cursor.steps
    BY <1>2 DEF Cursors
  <2> HIDE DEF middle
  <2>2. [middle EXCEPT !.position = 0] \in Cursors
        /\ [middle EXCEPT !.position = 0].epoch = middle.epoch
        /\ [middle EXCEPT !.position = 0].steps = middle.steps
        /\ [middle EXCEPT !.position = 0].position = 0
    BY <2>1 DEF Cursors
  <2>3. next = [middle EXCEPT !.position = 0]
    BY DEF middle
  <2> QED BY <2>1, <2>2, <2>3
<1>5. ended = [trainer EXCEPT !.cursor = next]
  BY <1>2 DEF Trainers, Cursors
<1> HIDE DEF next, ended
<1>6. /\ trainer'.at = "train" /\ trainer'.resume = trainer.resume /\ trainer'.cursor = next
      /\ trainer'.group = <<>> /\ trainer'.applied = trainer.applied
  BY <1>1, <1>2, <1>5 DEF Trainers
<1>7. InStep(next, <<>>, trainer.applied)
  <2> DEFINE applied == trainer.applied
  <2>1. InStep(cursor, <<>>, applied)
    BY <1>3
  <2> HIDE DEF cursor, applied
  <2>2. InStep(next, <<>>, applied)
    BY <1>1, <1>2, <1>3, <1>4, <2>1, EpochBegins
  <2> QED BY <2>2 DEF applied
<1>8. "train" \notin TrainOutputs
  BY DEF TrainOutputs
<1> HIDE DEF cursor
<1> QED BY <1>1, <1>3, <1>6, <1>7, <1>8, TrainingHolds

LEMMA FinalCheckpointOn ==
  ASSUME TrainingInv, TrainingTypeOK, FinalCheckpoint
  PROVE  TrainingInv'
<1> DEFINE saved == Checkpoint(TRUE, trainer.cursor, trainer.applied)
<1>1. trainer \in Trainers /\ trainer.cursor \in Cursors
  BY TrainerTypes DEF TrainingTypeOK
<1>2. /\ trainer.at = "train" /\ oversized' = oversized /\ trainer.cursor.epoch > Epochs
      /\ \/ Refuses
         \/ Moves("report") /\ UNCHANGED files /\ checkpoints' \in {checkpoints, checkpoints \cup {saved}}
  BY DEF FinalCheckpoint
<1>3. CASE Refuses
  BY <1>1, <1>2, <1>3, RefusesOn DEF Refuses
<1>4. CASE Moves("report") /\ UNCHANGED files /\ checkpoints' \in {checkpoints, checkpoints \cup {saved}}
  <2>1. /\ trainer'.at = "report" /\ trainer'.resume = trainer.resume
        /\ trainer'.applied = trainer.applied
    BY <1>1, <1>4, MovedTrainer
  <2>2. /\ InStep(trainer.cursor, trainer.group, trainer.applied) /\ oversized \in OversizedSets
        /\ trainer.resume \in checkpoints \cup {Absent}
        /\ files.scales # Absent => files.scales.applied = Whole
    BY <1>2 DEF TrainingInv
  <2>3. trainer.applied = Whole /\ trainer.group = <<>>
    BY <1>1, <1>2, <2>2, EpochsEnd
  <2>4. saved.cursor = trainer.cursor /\ saved.applied = trainer.applied
    BY DEF Checkpoint
  <2> HIDE DEF saved
  <2>5. InStep(saved.cursor, <<>>, saved.applied)
    BY <2>2, <2>3, <2>4
  <2>6. /\ checkpoints \subseteq checkpoints'
        /\ \A checkpoint \in checkpoints' \ checkpoints :
             InStep(checkpoint.cursor, <<>>, checkpoint.applied)
    BY <1>4, <2>5
  <2>7. files'.scales # Absent => files'.scales.applied = Whole
    BY <1>4, <2>2
  <2> QED BY <1>2, <2>1, <2>2, <2>3, <2>6, <2>7, TrainingHolds
<1> QED BY <1>2, <1>3, <1>4

LEMMA WriteOutputOn ==
  ASSUME TrainingInv, RecoveryInv, NEW output \in TrainOutputs, WriteOutput(output)
  PROVE  TrainingInv'
<1>1. trainer \in Trainers /\ FilesTypeOK /\ trainer.at = output /\ oversized' = oversized
  BY DEF RecoveryInv, TrainingTypeOK, WriteOutput
<1>2. /\ trainer.applied = Whole /\ trainer.resume \in checkpoints \cup {Absent}
      /\ files.scales # Absent => files.scales.applied = Whole
  BY <1>1 DEF TrainingInv
<1>3. CASE Refuses
  BY <1>1, <1>3, RefusesOn DEF Refuses
<1>4. CASE /\ files' = [files EXCEPT ![output] = Content(output)]
           /\ Moves(After(output)) /\ UNCHANGED checkpoints
  <2> DEFINE to == After(output)
             content == Content(output)
  <2>1. to \in TrainOutputs \cup {"exited"}
    BY ContentFacts DEF TrainOutputs
  <2>2. output = "scales" => content.applied = trainer.applied
    <3>1. Content("scales").applied = trainer.applied
      <4>1. Content("scales") = [report |-> files.report, applied |-> trainer.applied]
        BY ContentFacts
      <4> QED BY ONLY <4>1
    <3> QED BY <3>1
  <2>3. /\ trainer'.at = to /\ trainer'.resume = trainer.resume
        /\ trainer'.applied = trainer.applied
    BY <1>1, <1>4, MovedTrainer
  <2>4. output \in OutputNames /\ "scales" \in OutputNames
    BY DEF OutputNames, TrainOutputs
  <2>5. files'[output] = content /\ \A other \in OutputNames \ {output} : files'[other] = files[other]
    <3>1. files' = [files EXCEPT ![output] = content]
      BY <1>4
    <3> HIDE DEF content
    <3> QED BY <1>1, <2>4, <3>1, FileWritten
  <2> HIDE DEF to, content
  <2>6. files'.scales # Absent => files'.scales.applied = Whole
    BY <1>2, <2>2, <2>4, <2>5
  <2>7. trainer'.at \notin {"prepare", "restore", "train"}
    BY <2>1, <2>3 DEF TrainOutputs
  <2> QED BY <1>1, <1>2, <1>4, <2>3, <2>6, <2>7, TrainingHolds
<1> QED BY <1>3, <1>4 DEF WriteOutput

LEMMA TrainingStepOn ==
  ASSUME TrainingInv, RecoveryInv, TrainerStep \/ TrainerFails
  PROVE  TrainingInv'
<1>1. TrainingTypeOK /\ trainer \in Trainers
  BY DEF RecoveryInv, TrainingTypeOK
<1>2. CASE TrainerFails
  BY <1>1, <1>2, RefusesOn DEF TrainerFails
<1>3. ASSUME NEW output \in TrainOutputs, WriteOutput(output)
      PROVE  TrainingInv'
  BY <1>3, WriteOutputOn
<1> QED BY <1>1, <1>2, <1>3, PrepareOn, RestoreOn, TrainSampleOn, FlushGroupOn, EndEpochOn,
           FinalCheckpointOn DEF TrainerStep

-----------------------------------------------------------------------------
(* The runner, the other stages and the operator *)

(* Another stage writes no scales.                                          *)
LEMMA JobWritesOn ==
  ASSUME RecoveryInv, JobWrites
  PROVE  files'.scales = files.scales
<1>1. job # NoJob /\ job.at = "running"
  BY RunnerFacts DEF JobWrites
<1>2. /\ Recorded \in 1..2 /\ job.stage = Plan[Recorded + 1]
  <2>1. /\ Recorded < 3 /\ Recorded # 0 /\ Recorded \in 0..3
        /\ (Recorded > 0 => job.stage = Plan[Recorded + 1])
    BY <1>1, RunnerFacts, NextStageFacts, PlanFacts DEF ProcessInv
  <2> QED BY <2>1
<1>3. Outputs(job.stage) \subseteq {"artifact", "evaluation"}
  BY <1>2, PlanFacts
<1>4. PICK output \in Outputs(job.stage) :
        files' = [files EXCEPT ![output] = [from |-> files[Input(job.stage)]]]
  BY DEF JobWrites
<1>5. output \in OutputNames /\ "scales" \in OutputNames \ {output} /\ FilesTypeOK
  BY <1>3 DEF OutputNames, TrainOutputs, RecoveryInv, TrainingTypeOK
<1> DEFINE content == [from |-> files[Input(job.stage)]]
<1> HIDE DEF content
<1>6. files' = [files EXCEPT ![output] = content]
  BY <1>4 DEF content
<1>7. files'["scales"] = files["scales"]
  BY ONLY <1>5, <1>6, FileWritten
<1> QED BY <1>7

LEMMA RunnerStepOn ==
  ASSUME TrainingInv, RecoveryInv, RunnerNext, ~TrainingStep, ~TrainerFails
  PROVE  TrainingInv'
<1> SUFFICES OutsideStep
  BY OutsideSteps
<1> DEFINE Started == \E resume \in checkpoints \cup {Absent} : trainer' = Trainer(resume)
<1>1. ASSUME files' = files, checkpoints' = checkpoints, oversized' = oversized,
             trainer' = trainer \/ trainer' = NoTrainer \/ Started
      PROVE  OutsideStep
  BY <1>1, Zenon DEF OutsideStep
<1>2. ASSUME NEW resume \in BOOLEAN, StartRunner(resume) PROVE OutsideStep
  <2>1. UNCHANGED <<files, checkpoints, oversized, trainer>>
    BY <1>2, Zenon DEF StartRunner, trainingVars
  <2> HIDE DEF Started
  <2> QED BY <1>1, <2>1
<1>3. CASE NextStage
  <2>1. /\ UNCHANGED <<files, checkpoints, oversized>>
        /\ trainer' = trainer \/ \E stage : StartProcess(stage)
    BY <1>3, Zenon DEF NextStage
  <2>2. ASSUME NEW stage, StartProcess(stage)
        PROVE  trainer' = trainer \/ Started
    <3>1. LatestCheckpoint \in checkpoints \cup {Absent}
      BY LatestCheckpointType DEF RecoveryInv
    <3>2. CASE stage = "train_recovery"
      <4>1. trainer' = Trainer(LatestCheckpoint) \/ trainer' = Trainer(Absent)
        BY <2>2, <3>2 DEF StartProcess, Becomes
      <4> QED BY <3>1, <4>1
    <3>3. CASE stage # "train_recovery"
      BY <2>2, <3>3 DEF StartProcess
    <3> QED BY <3>2, <3>3
  <2> HIDE DEF Started
  <2> QED BY <1>1, <2>1, <2>2
<1>4. CASE StageEnded \/ Crash \/ ByHandEnds
  <2>1. UNCHANGED <<files, checkpoints, oversized>> /\ trainer' = NoTrainer
    BY <1>4, Zenon DEF StageEnded, Crash, ByHandEnds, Becomes
  <2> HIDE DEF Started
  <2> QED BY <1>1, <2>1
<1>5. CASE FinishPlan \/ JobExits \/ JobFails
  <2>1. UNCHANGED <<files, checkpoints, oversized, trainer>>
    BY <1>5, Zenon DEF FinishPlan, JobExits, JobFails, trainingVars
  <2> HIDE DEF Started
  <2> QED BY <1>1, <2>1
<1>6. CASE JobWrites
  <2>1. UNCHANGED <<checkpoints, oversized, trainer>> /\ files'.scales = files.scales
    BY <1>6, JobWritesOn DEF JobWrites
  <2> QED BY <2>1, Zenon DEF OutsideStep
<1>7. CASE RunTrainerByHand
  <2>1. UNCHANGED <<files, checkpoints, oversized>> /\ Started
    BY <1>7, Zenon DEF RunTrainerByHand, Becomes
  <2> HIDE DEF Started
  <2> QED BY <1>1, <2>1
<1>8. CASE MoveOutputsAway
  <2>1. "scales" \in OutputNames
    BY DEF OutputNames, TrainOutputs
  <2>2. files'["scales"] \in {files["scales"], Absent}
    BY <1>8, <2>1, Zenon DEF MoveOutputsAway
  <2>3. UNCHANGED <<checkpoints, oversized, trainer>>
    BY <1>8, Zenon DEF MoveOutputsAway
  <2> QED BY <2>2, <2>3, Zenon DEF OutsideStep
<1> QED BY <1>2, <1>3, <1>4, <1>5, <1>6, <1>7, <1>8, Zenon DEF RunnerNext, RunnerStep, JobStep

-----------------------------------------------------------------------------
(* The theorems *)

LEMMA RecoveryInitially == RunnerInit => RecoveryInv
<1> SUFFICES ASSUME RunnerInit PROVE RecoveryInv
  OBVIOUS
<1>1. /\ files = [output \in OutputNames |-> Absent] /\ checkpoints = {} /\ trainer = NoTrainer
      /\ reports = 0 /\ state = Absent /\ runner = Down /\ job = NoJob
  BY DEF RunnerInit
<1>2. OutputNames = {"report", "scales", "evidence", "artifact", "evaluation"}
  BY DEF OutputNames, TrainOutputs
<1>3. trainer \in Trainers /\ trainer.at = "none"
  BY <1>1, NewTrainers
<1>4. TrainingTypeOK
  BY <1>1, <1>2, <1>3 DEF TrainingTypeOK, FilesTypeOK, Optional
<1>5. RunnerTypeOK
  BY <1>1 DEF RunnerTypeOK, Optional, Down, NoJob
<1>6. TransactionInv /\ ArtifactInv
  BY <1>1, <1>2, <1>3 DEF TransactionInv, ArtifactInv, Committed, EvidenceIsTheCommitMarker
<1>7. ProcessInv
  BY <1>1 DEF ProcessInv, Down
<1>8. RecordsHold
  BY <1>1 DEF RecordsHold
<1> QED BY <1>4, <1>5, <1>6, <1>7, <1>8 DEF RecoveryInv

LEMMA RecoveryStep == RecoveryInv /\ [RunnerNext]_vars => RecoveryInv'
<1> SUFFICES ASSUME RecoveryInv, [RunnerNext]_vars PROVE RecoveryInv'
  OBVIOUS
<1>1. ASSUME NEW resume \in BOOLEAN, StartRunner(resume) PROVE RecoveryInv'
  BY <1>1, StartingSteps
<1>2. CASE RunnerStep
  BY <1>2, NextStageSteps, StageEndedSteps, FinishSteps DEF RunnerStep
<1>3. CASE TrainingStep
  <2>1. RunnerUnchanged
    BY <1>3 DEF TrainingStep, RunnerUnchanged
  <2> QED BY <1>3, <2>1, PreparingSteps, TrainingSteps, WritingSteps DEF TrainingStep, TrainerStep
<1>4. CASE TrainerFails /\ UNCHANGED <<state, runner, job, manual, clears>>
  BY <1>4, TrainingSteps DEF RunnerUnchanged
<1>5. CASE JobStep
  BY <1>5, JobWritesSteps, JobSteps DEF JobStep
<1>6. CASE JobFails \/ Crash
  BY <1>6, JobSteps
<1>7. CASE RunTrainerByHand \/ ByHandEnds
  BY <1>7, ByHandSteps
<1>8. CASE MoveOutputsAway
  BY <1>8, MovingSteps
<1>9. CASE UNCHANGED vars
  <2>1. UNCHANGED <<files, checkpoints, trainer, reports, state, runner, job>>
    BY <1>9 DEF vars, trainingVars
  <2>2. RunnerTypeOK' /\ ProcessInv'
    BY <2>1 DEF RecoveryInv, RunnerTypeOK, ProcessInv, Recorded
  <2> QED BY <2>1, <2>2, RunnerFacts, ProcessSteps
<1> QED BY <1>1, <1>2, <1>3, <1>4, <1>5, <1>6, <1>7, <1>8, <1>9 DEF RunnerNext

LEMMA RecoveryInvariance == RunnerSpec => []RecoveryInv
BY RecoveryInitially, RecoveryStep, PTL DEF RunnerSpec

(* "Evidence is committed last": wherever the host crashes and whatever is  *)
(* run again, a marker on disk binds the report and the scales on disk.     *)
THEOREM CommitMarker == RunnerSpec => []EvidenceIsTheCommitMarker
<1>1. RecoveryInv => EvidenceIsTheCommitMarker
  BY DEF RecoveryInv, TransactionInv
<1> QED BY <1>1, RecoveryInvariance, PTL

(* What the state file records is on disk as recorded, in the order of the  *)
(* plan and made from the recorded input, for any number of crashes, manual *)
(* runs and clean-ups.                                                      *)
THEOREM RecordsAlwaysHold == RunnerSpec => []RecordsHold
<1>1. RecoveryInv => RecordsHold
  BY DEF RecoveryInv
<1> QED BY <1>1, RecoveryInvariance, PTL

LEMMA TrainingInitially == RunnerInit => TrainingInv
<1> SUFFICES ASSUME RunnerInit PROVE TrainingInv
  OBVIOUS
<1>1. files.scales = Absent
  BY DEF RunnerInit, OutputNames, TrainOutputs
<1>2. /\ checkpoints = {} /\ oversized \in OversizedSets
      /\ trainer.at = "none" /\ trainer.resume = Absent
  BY DEF RunnerInit, NoTrainer
<1> QED BY <1>1, <1>2 DEF TrainingInv, TrainOutputs

LEMMA TrainingInvariance == RunnerSpec => []TrainingInv
<1>1. TrainingInv /\ RecoveryInv /\ [RunnerNext]_vars => TrainingInv'
  <2> SUFFICES ASSUME TrainingInv, RecoveryInv, [RunnerNext]_vars PROVE TrainingInv'
    OBVIOUS
  <2>1. CASE TrainingStep \/ TrainerFails
    BY <2>1, TrainingStepOn DEF TrainingStep
  <2>2. CASE RunnerNext /\ ~TrainingStep /\ ~TrainerFails
    BY <2>2, RunnerStepOn
  <2>3. CASE UNCHANGED vars
    BY <2>3, OutsideSteps DEF vars, trainingVars, OutsideStep
  <2> QED BY <2>1, <2>2, <2>3
<1> QED BY <1>1, TrainingInitially, RecoveryInvariance, PTL DEF RunnerSpec

(* Wherever training crashed and whichever checkpoints it was resumed from, *)
(* by the runner or by hand, what a checkpoint or the scales hold is what   *)
(* the same number of steps of an uninterrupted run gives: for every number *)
(* of samples, epochs and crashes, every accumulation and every set of      *)
(* samples above the limit.                                                 *)
THEOREM ResumedIsUninterrupted == RunnerSpec => []ResumedTrainingIsUninterrupted
<1>1. TrainingInv => ResumedTrainingIsUninterrupted
  BY DEF TrainingInv, InStep, Whole, ResumedTrainingIsUninterrupted
<1> QED BY <1>1, TrainingInvariance, PTL

=============================================================================
