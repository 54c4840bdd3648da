------------------------- MODULE MCEventLoopThread -------------------------
(***************************************************************************)
(* A small instance of EventLoopThread for TLC.                            *)
(***************************************************************************)
EXTENDS EventLoopThread
=============================================================================
