---------------------------- MODULE MCCalibration ----------------------------
(* Model-checking instance of Calibration. *)
EXTENDS Calibration
=============================================================================
