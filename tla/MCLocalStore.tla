---------------------------- MODULE MCLocalStore ----------------------------
(***************************************************************************)
(* Instances of LocalStore for TLC.  What a random name, a free inode or a *)
(* version is called makes no difference.                                  *)
(***************************************************************************)
EXTENDS LocalStore, TLC

Symmetry ==
    Permutations(Procs) \cup Permutations(Temps) \cup Permutations(Inodes)
        \cup Permutations(Versions)
=============================================================================
