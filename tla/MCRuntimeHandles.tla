-------------------------- MODULE MCRuntimeHandles --------------------------
(***************************************************************************)
(* A small instance of RuntimeHandles; the cfg gives the constants.        *)
(***************************************************************************)
EXTENDS RuntimeHandles
=============================================================================
