-------------------------- MODULE MCReactorServer --------------------------
(***************************************************************************)
(* Small instances of ReactorServer for TLC.                               *)
(***************************************************************************)
EXTENDS ReactorServer, TLC

(* Connections differ only in the order they arrive (safety runs only).    *)
ConnSymmetry == Permutations(Conns)
=============================================================================
