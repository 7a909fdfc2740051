-------------------------- MODULE MCCollectBounded --------------------------
(***************************************************************************)
(* GCCollect with programs of at most MaxOps operations.  This bounds      *)
(* TLC's search by the length of the program, so that the spaces can be    *)
(* larger than in the exhaustive instances of MCCollect.                   *)
(***************************************************************************)
EXTENDS MCCollect

CONSTANT MaxOps     \* the length of the programs

ASSUME MaxOpsAssumption == MaxOps \in Nat

VARIABLE ops        \* operations made so far

BoundedInit == Init /\ ops = 0

BoundedNext ==
    \/ ops < MaxOps /\ Mutator /\ ops' = ops + 1
    \/ Library /\ UNCHANGED ops
    \/ ops = MaxOps /\ pc = "run" /\ UNCHANGED <<vars, ops>>

BoundedSpec == BoundedInit /\ [][BoundedNext]_<<vars, ops>>

FairBoundedSpec == BoundedSpec /\ WF_vars(Library)

BoundedView == <<View, ops>>
=============================================================================
