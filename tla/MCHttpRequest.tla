---------------------------- MODULE MCHttpRequest ----------------------------
(***************************************************************************)
(* A small instance of HttpRequest for TLC.                                *)
(***************************************************************************)
EXTENDS HttpRequest
=============================================================================
