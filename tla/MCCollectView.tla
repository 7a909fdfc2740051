---------------------------- MODULE MCCollectView ----------------------------
(***************************************************************************)
(* GCCollectView with programs of at most MaxOps operations, for TLC.      *)
(***************************************************************************)
EXTENDS GCCollectView, MCCollectBounded

SeenBoundedInit == SeenInit /\ ops = 0

SeenBoundedNext == BoundedNext /\ Observe

SeenBoundedSpec == SeenBoundedInit /\ [][SeenBoundedNext]_<<seenVars, ops>>

FairSeenBoundedSpec == SeenBoundedSpec /\ WF_vars(Library)
=============================================================================
