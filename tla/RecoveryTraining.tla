-------------------------- MODULE RecoveryTraining --------------------------
(***************************************************************************)
(* training/train_recovery.py as a process over durable files: it restores *)
(* a checkpoint, applies optimizer steps to groups of samples, saves       *)
(* numbered checkpoints, and commits report, scales and evidence in that   *)
(* order.  Every file appears by fsync and rename (recovery_io.py), so a   *)
(* write is one step and a crash leaves the file as it was or complete;    *)
(* the temporary names are left out.                                       *)
(*                                                                         *)
(* Parameters and optimizer are abstracted to `applied', the sample groups *)
(* whose gradients went into them, in order.                               *)
(***************************************************************************)
EXTENDS Integers, Sequences, FiniteSets

CONSTANTS
  Samples,           \* samples of an epoch, in training_order
  Epochs,            \* --epochs
  Accumulation,      \* --gradient-accumulation
  CheckpointEvery,   \* --checkpoint-every
  OversizedSets,     \* sets of samples above --max-sequence-tokens, policy skip
  MaxFailures,       \* bound: crashes and failures of a process
  Absent             \* a file that does not exist; no checkpoint given

ASSUME TrainingAssumption ==
  /\ Samples \in Nat \ {0} /\ Epochs \in Nat \ {0}
  /\ Accumulation \in Nat \ {0} /\ CheckpointEvery \in Nat \ {0}
  /\ \A skipped \in OversizedSets : skipped \subseteq 1..Samples /\ skipped # 1..Samples
  /\ MaxFailures \in Nat

VARIABLES
  files,         \* report, scales, evidence and the artifact packed from them
  checkpoints,   \* the files of --checkpoint-dir
  trainer,       \* the train_recovery.py process
  oversized,     \* which samples are above the limit
  failures,      \* crashes and failures so far
  reports        \* reports written so far: each has its own bytes

trainingVars == <<files, checkpoints, trainer, oversized, failures, reports>>

TrainOutputs == {"report", "scales", "evidence"}

\* What the files hold.
Statuses == {"complete", "partial_coverage"}
Groups == Seq(Seq(Nat))
Reports == [id : Nat, status : Statuses]
Scales == [report : Reports, applied : Groups]
EvidenceFiles == [report : Reports, scales : Scales, status : Statuses]
Cursors == [epoch : Nat, position : Nat, steps : Nat]
CheckpointFiles == [final : BOOLEAN, cursor : Cursors, applied : Groups]

Optional(contents) == contents \cup {Absent}

NewCursor == [epoch |-> 1, position |-> 0, steps |-> 0]

\* at: "none" no process; the next thing it does; "exited" or "failed", how it
\* ended.  Epochs are counted from 1, position is the samples of the epoch
\* already seen.
NoTrainer == [at |-> "none", resume |-> Absent, cursor |-> NewCursor,
              group |-> <<>>, applied |-> <<>>, skipped |-> {}]

Trainer(resume) == [NoTrainer EXCEPT !.at = "prepare", !.resume = resume]

Running == trainer.at \in {"prepare", "restore", "train"} \cup TrainOutputs

Becomes(process) == trainer' = process
Moves(to) == trainer' = [trainer EXCEPT !.at = to]

\* ValueError or RuntimeError: SystemExit with a message.
Refuses == /\ Moves("failed")
           /\ UNCHANGED <<files, checkpoints>>

-----------------------------------------------------------------------------
(* validate_arguments: prepare_output_transaction *)

Existing(outputs) == {output \in outputs : files[output] # Absent}

Committed == files.evidence # Absent

Partial == Existing({"scales", "report"})

\* One unlink at a time, the scales first.
Prepare ==
  /\ trainer.at = "prepare"
  /\ IF Committed \/ (Partial # {} /\ trainer.resume = Absent) THEN Refuses
     ELSE IF Partial # {}
     THEN /\ files' = [files EXCEPT ![IF "scales" \in Partial THEN "scales" ELSE "report"] = Absent]
          /\ UNCHANGED <<checkpoints, trainer>>
     ELSE /\ Moves("restore")
          /\ UNCHANGED <<files, checkpoints>>
  /\ UNCHANGED <<oversized, failures, reports>>

-----------------------------------------------------------------------------
(* restore_training_checkpoint and the training loop *)

\* Slip: an epoch is always started at its first sample.
RestoredCursorAtEpochStart(checkpoint) == [checkpoint.cursor EXCEPT !.position = 0]

RestoredCursor(checkpoint) == checkpoint.cursor

Restore ==
  /\ trainer.at = "restore"
  /\ Becomes(IF trainer.resume = Absent THEN [trainer EXCEPT !.at = "train"]
             ELSE [trainer EXCEPT !.at = "train",
                                  !.cursor = RestoredCursor(trainer.resume),
                                  !.applied = trainer.resume.applied])
  /\ UNCHANGED <<files, checkpoints, oversized, failures, reports>>

\* save_training_checkpoint: what is saved, and the name it takes.
Checkpoint(final, cursor, applied) == [final |-> final, cursor |-> cursor, applied |-> applied]

Named(final, steps) ==
  {checkpoint \in checkpoints : checkpoint.final = final /\ checkpoint.cursor.steps = steps}

\* complete_optimizer_step for the samples of `group': the step, the periodic
\* checkpoint, which refuses to overwrite, and the look at the GPU-hour budget,
\* which may be spent (a checkpoint is kept unless there is one already).
OptimizerStep(cursor, group, skipped) ==
  LET next == [cursor EXCEPT !.steps = @ + 1]
      applied == Append(trainer.applied, group)
      saved == Checkpoint(FALSE, next, applied)
      trained == [trainer EXCEPT !.cursor = next, !.group = <<>>, !.applied = applied,
                                 !.skipped = skipped]
      due == next.steps % CheckpointEvery = 0
      taken == Named(FALSE, next.steps) # {}
  IN IF due /\ taken
     THEN Becomes([trained EXCEPT !.at = "failed"]) /\ UNCHANGED <<checkpoints, failures>>
     ELSE \/ /\ Becomes(trained)
             /\ checkpoints' = IF due THEN checkpoints \cup {saved} ELSE checkpoints
             /\ UNCHANGED failures
          \/ /\ failures < MaxFailures
             /\ failures' = failures + 1
             /\ Becomes([trained EXCEPT !.at = "failed"])
             /\ checkpoints' = IF taken THEN checkpoints ELSE checkpoints \cup {saved}

\* One sample: skipped, or added to the group, which may complete it.
TrainSample ==
  /\ trainer.at = "train" /\ trainer.cursor.epoch <= Epochs
  /\ trainer.cursor.position < Samples
  /\ LET sample == trainer.cursor.position + 1
         cursor == [trainer.cursor EXCEPT !.position = sample]
         group == Append(trainer.group, sample)
     IN IF sample \in oversized
        THEN /\ Becomes([trainer EXCEPT !.cursor = cursor, !.skipped = @ \cup {sample}])
             /\ UNCHANGED <<checkpoints, failures>>
        ELSE IF Len(group) < Accumulation
        THEN /\ Becomes([trainer EXCEPT !.cursor = cursor, !.group = group])
             /\ UNCHANGED <<checkpoints, failures>>
        ELSE OptimizerStep(cursor, group, trainer.skipped)
  /\ UNCHANGED <<files, oversized, reports>>

\* The last group of an epoch may be short.
FlushGroup ==
  /\ trainer.at = "train" /\ trainer.cursor.epoch <= Epochs
  /\ trainer.cursor.position = Samples /\ trainer.group # <<>>
  /\ OptimizerStep(trainer.cursor, trainer.group, trainer.skipped)
  /\ UNCHANGED <<files, oversized, reports>>

EndEpoch ==
  /\ trainer.at = "train" /\ trainer.cursor.epoch <= Epochs
  /\ trainer.cursor.position = Samples /\ trainer.group = <<>>
  /\ Becomes([trainer EXCEPT !.cursor.epoch = @ + 1, !.cursor.position = 0])
  /\ UNCHANGED <<files, checkpoints, oversized, failures, reports>>

-----------------------------------------------------------------------------
(* The final checkpoint and the three outputs *)

\* An existing final checkpoint is only accepted as the one resumed from.
FinalCheckpoint ==
  /\ trainer.at = "train" /\ trainer.cursor.epoch > Epochs
  /\ LET taken == Named(TRUE, trainer.cursor.steps)
     IN IF taken # {} /\ trainer.resume \notin taken THEN Refuses
        ELSE /\ checkpoints' = IF taken # {} THEN checkpoints
                ELSE checkpoints \cup {Checkpoint(TRUE, trainer.cursor, trainer.applied)}
             /\ Moves("report")
             /\ UNCHANGED files
  /\ UNCHANGED <<oversized, failures, reports>>

\* recovery_training_status, for a run without a step or sample limit.
Status == IF trainer.skipped # {} THEN "partial_coverage" ELSE "complete"

Content(output) ==
  CASE output = "report" -> [id |-> reports + 1, status |-> Status]
    [] output = "scales" -> [report |-> files.report, applied |-> trainer.applied]
    [] output = "evidence" -> [report |-> files.report, scales |-> files.scales,
                               status |-> Status]

\* Slip: the commit marker is written before the scales.
AfterEvidenceFirst(output) ==
  CASE output = "report" -> "evidence"
    [] output = "evidence" -> "scales"
    [] output = "scales" -> "exited"

After(output) ==
  CASE output = "report" -> "scales"
    [] output = "scales" -> "evidence"
    [] output = "evidence" -> "exited"

\* atomic_json and write_scales refuse to overwrite.
WriteOutput(output) ==
  /\ trainer.at = output
  /\ IF files[output] # Absent THEN Refuses /\ UNCHANGED reports
     ELSE /\ files' = [files EXCEPT ![output] = Content(output)]
          /\ reports' = IF output = "report" THEN reports + 1 ELSE reports
          /\ Moves(After(output))
          /\ UNCHANGED checkpoints
  /\ UNCHANGED <<oversized, failures>>

\* Anything else that ends the process with an error: a teacher file that
\* cannot be read, a non-finite loss, no memory.
TrainerFails ==
  /\ Running /\ failures < MaxFailures
  /\ failures' = failures + 1
  /\ Moves("failed")
  /\ UNCHANGED <<files, checkpoints, oversized, reports>>

TrainerStep ==
  \/ Prepare \/ Restore \/ TrainSample \/ FlushGroup \/ EndEpoch \/ FinalCheckpoint
  \/ \E output \in TrainOutputs : WriteOutput(output)
=============================================================================
