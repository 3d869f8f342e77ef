----------------------------- MODULE MCAdapters -----------------------------
(* A small instance of Adapters for TLC.                                   *)
EXTENDS Adapters

CONSTANTS m1, m2, m3
=============================================================================
