------------------------------- MODULE MCWebcam -------------------------------
(* A small instance of Webcam for TLC.                                       *)
EXTENDS Webcam

=============================================================================
