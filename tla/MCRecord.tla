------------------------------- MODULE MCRecord -------------------------------
(* Instances of DistriRecord for TLC, with the values of MCDistri.         *)
EXTENDS MCDistri, DistriRecord
===============================================================================
