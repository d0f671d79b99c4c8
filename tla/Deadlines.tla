------------------------------- MODULE Deadlines -------------------------------
(***************************************************************************)
(* How long a command takes and how long HidBridgeCore waits for its       *)
(* response (serial.hpp: known_duration_ms, response_timeout and           *)
(* record_completed_command).  Times are in milliseconds.                  *)
(*                                                                         *)
(* A command is a record.  Its amount is what its duration depends on: the *)
(* milliseconds of a wait, the characters of a text, the larger of |dx|    *)
(* and |dy| of a mouse movement.                                           *)
(***************************************************************************)
EXTENDS Integers

CONSTANTS
    TimeoutMs,      \* HidBridgeOptions::timeout_ms
    MaxMs           \* UINT32_MAX in the code

ASSUME DeadlineAssumption ==
    /\ MaxMs \in Nat
    /\ TimeoutMs \in 0..MaxMs

(* std::nullopt of SessionData::batch_duration_ms.                         *)
NoBatch == -1

Larger(a, b) == IF a >= b THEN a ELSE b
Smaller(a, b) == IF a <= b THEN a ELSE b

-------------------------------------------------------------------------------

(* The commands for which known_duration_ms has an answer, and the answer. *)
(* A movement is split by the device into reports of at most 127.          *)
Timed(c) ==
    c.type \in {"wait_ms", "type_ascii", "mouse_move", "key_tap", "mouse_click"}

Duration(c) ==
    CASE c.type = "wait_ms"     -> c.amount
      [] c.type = "type_ascii"  -> 8 * c.amount
      [] c.type = "mouse_move"  -> (c.amount + 126) \div 127
      [] c.type = "key_tap"     -> 8
      [] c.type = "mouse_click" -> 20

(* The computation is done in 64 bits and cut to 32 at its end.            *)
ResponseTimeout(c, batchMs) ==
    Smaller(MaxMs,
            Larger(TimeoutMs,
                   CASE c.type = "batch_end" /\ batchMs # NoBatch -> batchMs + 1000
                     [] Timed(c)                                  -> Duration(c) + 500
                     [] OTHER                                     -> 1000))

(* Mutant: clicks are forgotten. *)
RecordedWithoutClicks(c, batchMs) ==
    CASE c.type = "batch_begin"             -> 0
      [] c.type \in {"batch_end", "stop_all"} -> NoBatch
      [] OTHER -> IF batchMs # NoBatch /\ Timed(c) /\ c.type # "mouse_click"
                  THEN batchMs + Duration(c) ELSE batchMs

(* record_completed_command, when the command was acknowledged.            *)
Recorded(c, batchMs) ==
    CASE c.type = "batch_begin"             -> 0
      [] c.type \in {"batch_end", "stop_all"} -> NoBatch
      [] OTHER -> IF batchMs # NoBatch /\ Timed(c)
                  THEN batchMs + Duration(c) ELSE batchMs
===============================================================================
