----------------------------- MODULE MCBodyRead -----------------------------
(* Instance of BodyRead: a small buffer, bodies shorter and longer.         *)
EXTENDS BodyRead, TLC
=============================================================================
