---------------------------- MODULE RememberedSet ----------------------------
(***************************************************************************)
(* What the write barrier and the collector rely on: a list of addresses   *)
(* in the order in which they were first added, each of them once, until   *)
(* it is emptied.  It has no limit and no memory of its own.  (This is the *)
(* remset of GCCollect, by itself.)                                        *)
(***************************************************************************)
EXTENDS Sequences, SequencesExt

CONSTANT Words      \* the addresses of words of old objects

VARIABLE remset

Add(x) == remset' = IF Contains(remset, x) THEN remset ELSE Append(remset, x)

Clear == remset' = <<>>

Spec == remset = <<>> /\ [][Clear \/ \E x \in Words : Add(x)]_remset
=============================================================================
