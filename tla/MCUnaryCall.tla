---------------------------- MODULE MCUnaryCall ----------------------------
(* Model-checking instances of UnaryCall: a handful of owner objects.      *)
EXTENDS UnaryCall

CONSTANTS a, b, c
=============================================================================
