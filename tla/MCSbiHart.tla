----------------------------- MODULE MCSbiHart -----------------------------
(* Instances of SbiHart for TLC. *)
EXTENDS SbiHart
============================================================================
