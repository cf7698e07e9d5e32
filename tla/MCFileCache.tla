---------------------------- MODULE MCFileCache ----------------------------
(* Small instances of FileCache for TLC. *)
EXTENDS FileCache, TLC

\* Keys, callers and pending access-time updates are interchangeable.
Symmetry == Permutations(Keys) \cup Permutations(Procs) \cup Permutations(Touchers)

=============================================================================
