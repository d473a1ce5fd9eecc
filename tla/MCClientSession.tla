-------------------------- MODULE MCClientSession --------------------------
(***************************************************************************)
(* A small instance of ClientSession for TLC: a creator with a second      *)
(* factor.                                                                 *)
(***************************************************************************)
EXTENDS ClientSession

CreatorRoles == {"creator"}
=============================================================================
