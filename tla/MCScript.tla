------------------------------- MODULE MCScript -------------------------------
(* Small instances of Script for TLC: texts of up to MaxPayload characters, *)
(* waits that are cheap, and one that is as long as a deadline can be.      *)
EXTENDS Script

Text(length) == [type |-> "type_ascii", amount |-> length, ascii |-> TRUE]
Accented == [type |-> "type_ascii", amount |-> 1, ascii |-> FALSE]
Click == Control("mouse_click")
Press == Control("key_down")
Move == [type |-> "mouse_move", amount |-> 300, ascii |-> TRUE]
Wait(ms) == [type |-> "wait_ms", amount |-> ms, ascii |-> TRUE]
Stop == Control("stop_all")

MCScripts ==
    {<<Text(2), Click>>,
     <<Move, Stop, Wait(MaxMs)>>,
     <<Stop, Click, Stop>>,
     <<Press, Text(MaxPayload + 1)>>,
     <<Text(1), Stop, Accented>>,
     <<Click, Control("malformed")>>,
     <<>>}

MCCommands == {Control("key_tap"), Accented}
===============================================================================
