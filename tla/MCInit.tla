------------------------------- MODULE MCInit -------------------------------
(***************************************************************************)
(* Small instances of GCInit for TLC.                                      *)
(***************************************************************************)
EXTENDS GCInit

(* The slots of the array after the first nroots, and the contents of the  *)
(* other blocks, are overwritten before they are read: states that differ  *)
(* only in them have the same behaviours.                                  *)
View == <<[p \in DOMAIN live |-> live[p].len], table, field, words, remset,
          initialized, pc, todo, goal, failed, Remembered>>
=============================================================================
