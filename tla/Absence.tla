------------------------------- MODULE Absence -------------------------------
(* What is not there: shared by the modules that are checked together.     *)
CONSTANT None
=============================================================================
