------------------------------ MODULE MCCapture ------------------------------
(* Two conversations, with a message in the first.                         *)
EXTENDS Capture, TLC

CONSTANTS ca, cb, a1

MCHome == a1 :> ca

=============================================================================
