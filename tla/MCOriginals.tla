---------------------------- MODULE MCOriginals ----------------------------
(* Processes are interchangeable, and so are the texts that fit. *)
EXTENDS Originals, TLC

Sym == Permutations(Refs \ Big) \cup Permutations(Procs)
=============================================================================
