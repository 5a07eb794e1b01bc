---------------------------- MODULE MCCropPanels ----------------------------
(* CropPanels for TLC: a picture of 4 by 3 pixels and a default box of one. *)
EXTENDS CropPanels

MCTile ==
  [p \in LivePanels |-> [left |-> p - 1, top |-> 1, width |-> 2, height |-> 1]]
MCLayouts == {2, 12}
MCWorked == {{1, 4}} \cup {{p} : p \in {2} \cup 5..12}
MCMaxActs ==
  [S \in MCWorked |-> CASE S = {6} -> 3 [] S \in {{1, 4}, {2}} -> 2 [] OTHER -> 1]
MCMoves == {<<0, 0>>, <<2, 1>>, <<-1, -2>>}
MCTyped == {0, 2, 5}
=============================================================================
