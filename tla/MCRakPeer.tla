------------------------------- MODULE MCRakPeer -------------------------------
(***************************************************************************)
(* Instances of RakPeer for TLC.                                           *)
(***************************************************************************)
EXTENDS RakPeer
================================================================================
