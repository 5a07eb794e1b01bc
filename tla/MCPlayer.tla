------------------------------ MODULE MCPlayer ------------------------------
(* Player for TLC: one panel and one main player.  Two players meet, or one *)
(* player meets several plays, packets and failures.                        *)
EXTENDS Player

MCBudgets ==
  {[players |-> 2, plays |-> 2, toggles |-> 1, frames |-> 0, fails |-> 0],
   [players |-> 1, plays |-> 2, toggles |-> 1, frames |-> 2, fails |-> 1],
   [players |-> 1, plays |-> 1, toggles |-> 1, frames |-> 4, fails |-> 1]}
=============================================================================
