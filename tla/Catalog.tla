------------------------------ MODULE Catalog ------------------------------
(***************************************************************************)
(* What the store of backups promises, one backup id at a time, whatever   *)
(* processes work on it: bytes are stored before they are listed, only a   *)
(* listed backup is proven, a backup leaves the catalog only when a newer  *)
(* one stays and something proven stays, a proven one only for a newer     *)
(* proven one, and only bytes nothing lists are reclaimed.                 *)
(*                                                                         *)
(* Backwyn.tla is shown to implement this when one process produces the    *)
(* backups and verifies each of them as it makes it, and, with proofs that *)
(* may be withdrawn, when commands run one after the other.                *)
(***************************************************************************)
EXTENDS Integers

CONSTANT Ids  \* backup ids: natural numbers, in the order of creation

VARIABLE status

CatalogTypeOK == status \in [Ids -> {"none", "stored", "listed", "proven"}]

Init == status = [i \in Ids |-> "none"]

\* The second conjunct follows from the third; it rejects a stutter early.
Moves(i, from, to) ==
    /\ status[i] = from /\ status'[i] = to
    /\ status' = [status EXCEPT ![i] = to]

Store(i)   == Moves(i, "none", "stored")
List(i)    == Moves(i, "stored", "listed")
Prove(i)   == Moves(i, "listed", "proven")
Reclaim(i) == Moves(i, "stored", "none")

\* Leaving the catalog: the bytes are still there, now an orphan.
RetireUnproven(i) ==
    /\ Moves(i, "listed", "stored")
    /\ \E j \in Ids : j > i /\ status[j] \in {"listed", "proven"}
    /\ \E j \in Ids : status[j] = "proven"

RetireProven(i) ==
    /\ Moves(i, "proven", "stored")
    /\ \E j \in Ids : j > i /\ status[j] = "proven"

Next == \E i \in Ids :
    Store(i) \/ List(i) \/ Prove(i) \/ RetireUnproven(i) \/ RetireProven(i) \/ Reclaim(i)

Spec == Init /\ [][Next]_status

\* Where backups are also verified again, a proof may be withdrawn.
Revoke(i) == Moves(i, "proven", "listed")

RevocableSpec == Init /\ [][Next \/ \E i \in Ids : Revoke(i)]_status
=============================================================================
