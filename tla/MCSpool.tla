------------------------------ MODULE MCSpool ------------------------------
(* Instances of Spool for TLC.                                              *)
EXTENDS SpoolProofs, TLC

OneJob == <<1>>
=============================================================================
