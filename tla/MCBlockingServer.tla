-------------------------- MODULE MCBlockingServer --------------------------
(***************************************************************************)
(* Small instances of BlockingServer for TLC.                              *)
(***************************************************************************)
EXTENDS BlockingServer
=============================================================================
