---------------------------- MODULE MCStitchPages ----------------------------
(* StitchPages for TLC: three cameras, the text of one in that of another.   *)
EXTENDS StitchPages

MCCameraList == <<1, 2, 11>>
MCOccurs == {<<1, 11>>}
MCStored0 == [p \in Panels |-> 3 - p]
=============================================================================
