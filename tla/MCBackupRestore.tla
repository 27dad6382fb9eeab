---------------------------- MODULE MCBackupRestore ----------------------------
(* BackupRestore for TLC: interchangeable ids and Arcs, a collector that      *)
(* sweeps while there is a BACKUP or RESTORE, and a RESTORE that comes last.  *)
EXTENDS BackupRestore, TLC

Symmetry == Permutations(Keys) \cup Permutations(DocRefs)

SweepsDuringJobs == job.pc = "idle" => gc.todo = {} /\ gc.victims = {}

BackupThenRestore == jobs = MaxJobs => job.pc \in {"restore", "persist"}
=============================================================================
