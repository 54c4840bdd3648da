---------------------------- MODULE MCEchoServer ----------------------------
(***************************************************************************)
(* A small instance of EchoServer for TLC.                                 *)
(***************************************************************************)
EXTENDS EchoServer
=============================================================================
