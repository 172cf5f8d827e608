------------------------------- MODULE MCHost -------------------------------
(***************************************************************************)
(* Instances of Host for TLC.                                              *)
(***************************************************************************)
EXTENDS Host, TLC

CONSTANTS daemon, shell,  \* processes
          intact, spoilt       \* backups, the second damaged

\* Where the daemon runs, and where an operator works.
MCProcs == {daemon, shell}
MCCommands == (daemon :> {"backup", "verify"}) @@ (shell :> {"verify", "restore", "tofile"})

Symmetry == Permutations(Names)
=============================================================================
