------------------------------ MODULE MCCArray ------------------------------
(* An instance of CArray for TLC. *)
EXTENDS CArray
=============================================================================
