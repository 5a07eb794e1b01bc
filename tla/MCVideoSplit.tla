---------------------------- MODULE MCVideoSplit ----------------------------
(* Model-checking instance of VideoSplit: a request carries no camera, two,  *)
(* or one at a third position, so that a group may be lost on a reload, too  *)
(* small, right, and, after a modification, too large for MaxCameras = 2.    *)
EXTENDS VideoSplit, TLC

MCRequests == {{}, {1, 2}, {3}}
Symmetric == Permutations(Channels) \cup Permutations(Addrs)
=============================================================================
