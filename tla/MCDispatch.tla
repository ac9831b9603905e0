----------------------------- MODULE MCDispatch -----------------------------
(* Model-checking module for Dispatch.                                     *)
EXTENDS Dispatch
=============================================================================
