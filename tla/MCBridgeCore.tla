----------------------------- MODULE MCBridgeCore -----------------------------
(* Small instances of BridgeCore for TLC. *)
EXTENDS BridgeCore, TLC

(* The callers are interchangeable in every safety property. *)
Symmetry == Permutations(Callers)
===============================================================================
