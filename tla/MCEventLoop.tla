---------------------------- MODULE MCEventLoop ----------------------------
(***************************************************************************)
(* Small instances of EventLoop for TLC.                                   *)
(***************************************************************************)
EXTENDS EventLoop, TLC

(* The posting threads are interchangeable (safety runs only).             *)
PosterSymmetry == Permutations(Posters)
=============================================================================
