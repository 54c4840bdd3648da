---------------------------- MODULE MCHttpServer ----------------------------
(***************************************************************************)
(* Small instances of HttpServer for TLC.                                  *)
(***************************************************************************)
EXTENDS HttpServer, TLC

(* Connections differ only in the order they arrive (safety runs only).    *)
ConnSymmetry == Permutations(Conns)
=============================================================================
