--------------------------- MODULE MCVenuePlanner ----------------------------
(* A room with one object, which may be moved, deleted and locked, and one    *)
(* that may be placed, moved and locked.                                      *)
EXTENDS VenuePlanner, FiniteSets

CONSTANTS stage, table, north, south, none, absent, briefA, briefB

MoveStage   == [op |-> "move", object |-> stage, to |-> south]
DeleteStage == [op |-> "delete", object |-> stage, to |-> absent]
PlaceTable  == [op |-> "place", object |-> table, to |-> north]
MoveTable   == [op |-> "move", object |-> table, to |-> south]

MCStart == stage :> north @@ table :> absent
MCSeeds == {<<>>, <<MoveStage>>}
MCLockable == {<<stage, "position">>, <<stage, "deletion">>, <<table, "position">>}
SomeChanges == {MoveStage, DeleteStage, PlaceTable}

(* The state constraint: a long history on one branch with one Lock, of any   *)
(* kind, or a new Brief, or two branches around one approval; the Project      *)
(* begins with one of the two Briefs, which are alike.                         *)
UsedLocks == Cardinality({l \in MCLockable : locks[l] # "never"})
OneBranch == Len(branches) = 1 /\ UsedLocks <= 1 /\ (UsedLocks = 1 => brief = briefA)
TwoBranches ==
  /\ plan.version <= 1 /\ Len(ledger) <= 3 /\ brief = briefA
  /\ Len(edits.undo) + Len(edits.redo) + UsedLocks <= 1
  /\ \A l \in MCLockable \ {<<stage, "position">>} : locks[l] = "never"
LongOrWide == ledger[1].brief = briefA /\ (OneBranch \/ TwoBranches)
=============================================================================
