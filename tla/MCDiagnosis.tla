----------------------------- MODULE MCDiagnosis -----------------------------
(* Diagnosis with sessions, jobs and short answers that are interchangeable. *)
EXTENDS Diagnosis, TLC

mcSymmetry == Permutations(Sessions) \cup Permutations(Jobs) \cup Permutations(Shorts)
=============================================================================
