------------------------------ MODULE MCJobSide ------------------------------
(* Small instances of the components in JobSide.tla.                         *)
EXTENDS JobSide, TLC

CONSTANTS a, b

SomeInputs == [session : {a}, seq : 0 .. 3] \cup [session : {b}, seq : {2}]

(* Nothing in JobOutput reads its acks, so states that differ only in it are one. *)
View == <<part, vars, outVars, inVars, sshVars, fwdVars>>

StreamSymmetry == Permutations(Streams)
=============================================================================
