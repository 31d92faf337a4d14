----------------------------- MODULE MCRecording -----------------------------
(* Recording on small instances; processes, targets and files are           *)
(* interchangeable.                                                         *)
EXTENDS Recording, TLC

Symmetric == Permutations(Process) \cup Permutations(Target) \cup Permutations(File)
=============================================================================
