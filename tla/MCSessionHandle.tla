---------------------------- MODULE MCSessionHandle ---------------------------
(* Small instances of SessionHandle for TLC.  Threads are not declared     *)
(* symmetric: one of the properties is a liveness property.                *)
EXTENDS SessionHandle
===============================================================================
