------------------------------ MODULE MCDebug ------------------------------
(***************************************************************************)
(* A small instance of GCDebug for TLC.                                    *)
(***************************************************************************)
EXTENDS GCDebug, TLC

(* Collisions of different addresses, and of different lengths.            *)
MCHash(base, len) == (base + len) % TblSz

(* Sites are only compared with each other.                                *)
Symmetry == Permutations(Sites)

(* What is read of an entry: what an invalid one holds is only printed,    *)
(* marks are cleared at the start of a collection, and rebased at the      *)
(* start of a rebasing.                                                    *)
Shown(v) ==
    IF v.valid
    THEN [v EXCEPT !.marked = @ /\ pc # "run", !.rebased = @ /\ pc = "rebase"]
    ELSE [valid |-> FALSE]

View == <<[j \in Buckets |-> [i \in DOMAIN tbl[j] |-> Shown(tbl[j][i])]],
          heap, pc, rebase, tracked, wasReset>>
=============================================================================
