------------------------------- MODULE MCResend -------------------------------
(* Instances of DistriResend for TLC, with the values of MCDistri. *)
EXTENDS MCDistri, DistriResend
===============================================================================
