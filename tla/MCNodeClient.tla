---------------------------- MODULE MCNodeClient ----------------------------
(***************************************************************************)
(* Small instances of NodeClient.                                          *)
(***************************************************************************)
EXTENDS NodeClient
=============================================================================
