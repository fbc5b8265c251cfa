--------------------------- MODULE RecoveryRunner ---------------------------
(***************************************************************************)
(* training/run_recovery_execution_plan.py: the stages of a plan are run   *)
(* one after the other, each as a process, and a state file records a      *)
(* stage with the hashes of its outputs once its process has exited.  The  *)
(* host may crash between any two steps; an operator starts the runner     *)
(* again with --resume, may run train_recovery.py by hand, and may move    *)
(* unrecorded outputs away.  The plan is the one of                        *)
(* build_recovery_run_plan.py: no stage has a resume policy.               *)
(***************************************************************************)
EXTENDS RecoveryTraining, SequencesExt

CONSTANTS MaxManual, MaxClears     \* bounds: what an operator does by hand

ASSUME RunnerAssumption == MaxManual \in Nat /\ MaxClears \in Nat

VARIABLES
  state,      \* the state file
  runner,     \* "down", or what the runner does next; did it get --resume
  job,        \* the process of a stage other than train_recovery
  manual,     \* trainers started by hand so far
  clears      \* times unrecorded outputs were moved away

vars == <<trainingVars, state, runner, job, manual, clears>>

\* Two stages stand for those after train_recovery: each reads what the one
\* before it wrote.
Plan == <<"train_recovery", "pack_recovered_artifact", "evaluate_recovered">>
Outputs(stage) ==
  CASE stage = "train_recovery" -> TrainOutputs
    [] stage = "pack_recovered_artifact" -> {"artifact"}
    [] stage = "evaluate_recovered" -> {"evaluation"}
Input(stage) == IF stage = "pack_recovered_artifact" THEN "scales" ELSE "artifact"

OutputNames == TrainOutputs \cup {"artifact", "evaluation"}

Artifacts == [from : Scales]
Evaluations == [from : Artifacts]
Contents == Reports \cup Scales \cup EvidenceFiles \cup Artifacts \cup Evaluations

\* What the state file holds: a record has the name of a stage and what its
\* outputs held.
Records(stage) == [name : {stage}, outputs : [Outputs(stage) -> Contents]]
StateFiles ==
  [status : {"running", "failed", "complete"}, active : Optional(ToSet(Plan)),
   completed : Seq(Records(Plan[1]) \cup Records(Plan[2]) \cup Records(Plan[3]))]

ASSUME AbsentAssumption == Absent \notin Contents \cup CheckpointFiles \cup StateFiles

NewState == [status |-> "running", active |-> Absent, completed |-> <<>>]
Down == [at |-> "down", resume |-> FALSE]
NoJob == [stage |-> Absent, at |-> "none"]

RunnerInit ==
  /\ files = [output \in OutputNames |-> Absent]
  /\ checkpoints = {} /\ trainer = NoTrainer
  /\ oversized \in OversizedSets
  /\ failures = 0 /\ reports = 0
  /\ state = Absent /\ runner = Down /\ job = NoJob
  /\ manual = 0 /\ clears = 0

CompletedNames == {record.name : record \in ToSet(state.completed)}
Incomplete == {i \in DOMAIN Plan : Plan[i] \notin CompletedNames}
Unrecorded == IF state = Absent THEN DOMAIN Plan ELSE Incomplete

\* The plan is gone through in its order, past the stages that are recorded.
First(stages) == Plan[Min(stages)]

-----------------------------------------------------------------------------
(* run *)

\* output_evidence: path and hash of every output.
Evidence(stage) == [output \in Outputs(stage) |-> files[output]]

\* validate_completed_outputs
OutputsUnchanged(record) == record.outputs = Evidence(record.name)

\* A state file is only taken up with --resume and if the outputs it records
\* are still there; otherwise the runner ends without having done anything.
StartRunner(resume) ==
  /\ runner.at = "down" /\ trainer.at = "none"
  /\ \/ state = Absent /\ state' = NewState
     \/ /\ state # Absent /\ resume
        /\ \A record \in ToSet(state.completed) : OutputsUnchanged(record)
        /\ UNCHANGED state
  /\ runner' = [at |-> "next", resume |-> resume]
  /\ UNCHANGED <<trainingVars, job, manual, clears>>

\* Slip: the lowest numbered checkpoint.
LatestCheckpointLowest ==
  LET numbered == {checkpoint \in checkpoints : ~checkpoint.final}
  IN IF numbered = {} THEN Absent
     ELSE CHOOSE low \in numbered :
            \A other \in numbered : low.cursor.steps <= other.cursor.steps

\* CHECKPOINT_PATTERN matches recovery-step-N and not recovery-final-step-N.
LatestCheckpoint ==
  LET numbered == {checkpoint \in checkpoints : ~checkpoint.final}
  IN IF numbered = {} THEN Absent
     ELSE CHOOSE latest \in numbered :
            \A other \in numbered : other.cursor.steps <= latest.cursor.steps

StartProcess(stage) ==
  IF stage = "train_recovery"
  THEN /\ Becomes(Trainer(IF runner.resume THEN LatestCheckpoint ELSE Absent))
       /\ UNCHANGED job
  ELSE /\ job' = [stage |-> stage, at |-> "running"]
       /\ UNCHANGED trainer

\* Outputs nobody recorded end the runner, without a word in the state file.
NextStage ==
  /\ runner.at = "next" /\ Incomplete # {}
  /\ LET stage == First(Incomplete)
     IN IF Existing(Outputs(stage)) # {}
        THEN runner' = Down /\ UNCHANGED <<trainer, state, job>>
        ELSE /\ state' = [state EXCEPT !.active = stage]
             /\ runner' = [runner EXCEPT !.at = "wait"]
             /\ StartProcess(stage)
  /\ UNCHANGED <<files, checkpoints, oversized, failures, reports, manual, clears>>

\* How the process of the active stage ended, if it did.
Ended == IF state.active = "train_recovery" THEN trainer.at ELSE job.at

\* Slip: a stage is recorded whatever its exit status.
SucceededAnyhow == Ended \in {"exited", "failed"}

Succeeded == Ended = "exited" /\ Existing(Outputs(state.active)) = Outputs(state.active)

StageEnded ==
  /\ runner.at = "wait" /\ Ended \in {"exited", "failed"}
  /\ Becomes(NoTrainer) /\ job' = NoJob
  /\ IF Succeeded
     THEN /\ state' = [NewState EXCEPT !.completed =
                         Append(state.completed, [name |-> state.active,
                                                  outputs |-> Evidence(state.active)])]
          /\ runner' = [runner EXCEPT !.at = "next"]
     ELSE /\ state' = [state EXCEPT !.status = "failed"]
          /\ runner' = Down
  /\ UNCHANGED <<files, checkpoints, oversized, failures, reports, manual, clears>>

FinishPlan ==
  /\ runner.at = "next" /\ Incomplete = {}
  /\ state' = [state EXCEPT !.status = "complete", !.active = Absent]
  /\ runner' = Down
  /\ UNCHANGED <<trainingVars, job, manual, clears>>

RunnerStep == NextStage \/ StageEnded \/ FinishPlan

-----------------------------------------------------------------------------
(* The other stages, crashes, and the operator *)

\* A stage writes its output from its input, then exits.
JobWrites ==
  /\ job.at = "running" /\ Existing(Outputs(job.stage)) = {}
  /\ \E output \in Outputs(job.stage) :
       files' = [files EXCEPT ![output] = [from |-> files[Input(job.stage)]]]
  /\ UNCHANGED <<checkpoints, trainer, oversized, failures, reports, state, runner, job,
                 manual, clears>>

JobExits ==
  /\ job.at = "running" /\ Existing(Outputs(job.stage)) # {}
  /\ job' = [job EXCEPT !.at = "exited"]
  /\ UNCHANGED <<trainingVars, state, runner, manual, clears>>

JobFails ==
  /\ job.at = "running" /\ failures < MaxFailures
  /\ failures' = failures + 1
  /\ job' = [job EXCEPT !.at = "failed"]
  /\ UNCHANGED <<files, checkpoints, trainer, oversized, reports, state, runner, manual, clears>>

\* Every process is gone, every file is as it was.
Crash ==
  /\ failures < MaxFailures /\ (runner.at # "down" \/ Running)
  /\ failures' = failures + 1
  /\ Becomes(NoTrainer) /\ runner' = Down /\ job' = NoJob
  /\ UNCHANGED <<files, checkpoints, oversized, reports, state, manual, clears>>

\* "an interrupted report/scale pair can be replaced only while explicitly
\* resuming from the durable final checkpoint": that is done by hand.
RunTrainerByHand ==
  /\ runner.at = "down" /\ trainer.at = "none" /\ manual < MaxManual
  /\ manual' = manual + 1
  /\ \E resume \in checkpoints \cup {Absent} : Becomes(Trainer(resume))
  /\ UNCHANGED <<files, checkpoints, oversized, failures, reports, state, runner, job, clears>>

ByHandEnds ==
  /\ runner.at = "down" /\ trainer.at \in {"exited", "failed"}
  /\ Becomes(NoTrainer)
  /\ UNCHANGED <<files, checkpoints, oversized, failures, reports, state, runner, job, manual,
                 clears>>

\* After inspection the outputs of the incomplete stage are moved away.
MoveOutputsAway ==
  /\ runner.at = "down" /\ trainer.at = "none" /\ clears < MaxClears
  /\ Unrecorded # {} /\ Existing(Outputs(First(Unrecorded))) # {}
  /\ clears' = clears + 1
  /\ files' = [output \in OutputNames |->
                 IF output \in Outputs(First(Unrecorded)) THEN Absent ELSE files[output]]
  /\ UNCHANGED <<checkpoints, trainer, oversized, failures, reports, state, runner, job, manual>>

TrainingStep == TrainerStep /\ UNCHANGED <<state, runner, job, manual, clears>>
JobStep == JobWrites \/ JobExits

RunnerNext ==
  \/ \E resume \in BOOLEAN : StartRunner(resume)
  \/ RunnerStep \/ TrainingStep \/ JobStep
  \/ TrainerFails /\ UNCHANGED <<state, runner, job, manual, clears>>
  \/ JobFails \/ Crash
  \/ RunTrainerByHand \/ ByHandEnds \/ MoveOutputsAway

RunnerSpec == RunnerInit /\ [][RunnerNext]_vars

\* Processes run on and the operator keeps starting the runner with --resume.
\* Nobody has to run the trainer by hand or to move anything away.
ResumeSpec ==
  /\ RunnerSpec
  /\ WF_vars(StartRunner(TRUE)) /\ WF_vars(RunnerStep)
  /\ WF_vars(TrainingStep) /\ WF_vars(JobStep) /\ WF_vars(ByHandEnds)

-----------------------------------------------------------------------------
(* Correctness *)

\* "Evidence is committed last" (training/README.md): when the marker exists
\* the report and the scales exist and are the ones it binds, after any crash
\* and whatever is run again.
EvidenceIsTheCommitMarker ==
  Committed =>
    /\ files.report # Absent /\ files.scales # Absent
    /\ files.evidence.report = files.report /\ files.evidence.scales = files.scales
    /\ files.scales.report = files.report

\* "a stage is never inferred complete from filenames alone" and a recorded
\* stage is never done again: what the state file records is on disk as
\* recorded, in the order of the plan, and made from the recorded input.
RecordsHold ==
  state # Absent =>
    /\ Len(state.completed) <= Len(Plan)
    /\ \A i \in DOMAIN state.completed :
         LET record == state.completed[i]
         IN /\ record.name = Plan[i]
            /\ \A output \in Outputs(Plan[i]) :
                 files[output] # Absent /\ record.outputs[output] = files[output]
            /\ i > 1 => \A output \in Outputs(Plan[i]) :
                          files[output].from = files[Input(Plan[i])]

\* The optimizer steps of a run that is never interrupted: each epoch's
\* samples without the oversized ones, cut into groups.
Kept(position) == Cardinality({sample \in 1..position : sample \notin oversized})
EpochSamples == [k \in 1..Kept(Samples) |->
                   CHOOSE sample \in 1..Samples : sample \notin oversized /\ Kept(sample) = k]
EpochGroups == (Len(EpochSamples) + Accumulation - 1) \div Accumulation
Group(g) == SubSeq(EpochSamples, (g - 1) * Accumulation + 1,
                   IF g = EpochGroups THEN Len(EpochSamples) ELSE g * Accumulation)
Uninterrupted(steps) == [i \in 1..steps |-> Group(((i - 1) % EpochGroups) + 1)]

\* Wherever it crashed and whichever checkpoints it was resumed from, training
\* applies the steps of an uninterrupted run: no group is lost, doubled or cut
\* differently, in a checkpoint or in the scales that come out.
ResumedTrainingIsUninterrupted ==
  /\ \A checkpoint \in checkpoints :
       checkpoint.applied = Uninterrupted(checkpoint.cursor.steps)
  /\ files.scales # Absent => files.scales.applied = Uninterrupted(Epochs * EpochGroups)

\* The runner refuses to go on: outputs that no record covers, or a final
\* checkpoint that the trainer will not overwrite and the runner does not
\* resume from.
NeedsAnOperator ==
  /\ Unrecorded # {}
  /\ \/ Existing(Outputs(First(Unrecorded))) # {}
     \/ First(Unrecorded) = "train_recovery" /\ \E checkpoint \in checkpoints : checkpoint.final

\* Starting it again and again with --resume completes the plan, or stops at
\* one of the two places where only an operator can help.
ResumingEnds ==
  <>[]((state # Absent /\ state.status = "complete") \/ NeedsAnOperator)
=============================================================================
