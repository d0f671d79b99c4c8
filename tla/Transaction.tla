------------------------------- MODULE Transaction -------------------------------
(***************************************************************************)
(* What run_script promises its caller about the device (serial.hpp:       *)
(* run_script, execute_script_batch), without frames, answers or retries:  *)
(* the device executes a script one whole segment at a time, and the way   *)
(* the call ends says what may still happen.  Script implements it.        *)
(***************************************************************************)
EXTENDS Naturals, Sequences

CONSTANTS
    Scripts,        \* the scripts an application runs, as sequences of lines
    Commands        \* the commands it sends by themselves

VARIABLES
    script,         \* the lines of the call
    executed,       \* those that the device has executed
    outcome,        \* how the call ended, "none" before
    cleaned         \* the STOP_ALL after a failure was answered

vars == <<script, executed, outcome, cleaned>>

IsStop(line) == line.type = "stop_all"
Malformed(lines) == \E i \in DOMAIN lines : lines[i].type = "malformed"

(* The inputs among the first n lines were executed, in order and once,    *)
(* and nothing else.                                                       *)
ExecutedUpTo(n) ==
    LET Inputs == {k \in 1..n : ~IsStop(script[k])}
    IN  \E at \in [DOMAIN executed -> Inputs] :
           /\ \A i \in DOMAIN executed : executed[i] = script[at[i]]
           /\ \A i, j \in DOMAIN executed : i < j => at[i] < at[j]
           /\ \A k \in Inputs : \E i \in DOMAIN executed : at[i] = k

(* The lines from m + 1 to n are what lies between two stops.              *)
Boundary(n) ==
    n \in {0, Len(script)} \/ IsStop(script[n]) \/ IsStop(script[n + 1])

Segment(m, n) ==
    /\ m < n /\ Boundary(m) /\ Boundary(n)
    /\ \A k \in (m + 1)..n : ~IsStop(script[k])

-------------------------------------------------------------------------------

Init ==
    /\ script = <<>> /\ executed = <<>>
    /\ outcome = "none" /\ cleaned = FALSE

(* A call begins when the one before it has ended.                         *)
StartCall(lines) ==
    /\ outcome = "none" => script = <<>>
    /\ script' = lines /\ executed' = <<>> /\ cleaned' = FALSE

(* A script that does not parse is rejected, as a whole.                   *)
RunScript(lines) ==
    /\ StartCall(lines)
    /\ \/ outcome' = "failed"
       \/ outcome' = "rejected" /\ Malformed(lines)
       \/ outcome' = "none" /\ ~Malformed(lines)

RunCommand(command) == StartCall(<<command>>) /\ outcome' = "none"

(* The device executes the next segment, all of it at once.  Nothing of a  *)
(* script that does not parse, nothing after the call has succeeded, and   *)
(* nothing after the STOP_ALL that follows a failure was answered.         *)
Execute ==
    /\ outcome \in {"none", "rejected", "failed"} /\ ~cleaned
    /\ ~Malformed(script)
    /\ \E m, n \in 0..Len(script) :
          /\ Segment(m, n) /\ ExecutedUpTo(m)
          /\ executed' = executed \o SubSeq(script, m + 1, n)
    /\ UNCHANGED <<script, outcome, cleaned>>

(* run_script returns.                                                     *)
Complete ==
    /\ outcome = "none" /\ ExecutedUpTo(Len(script))
    /\ outcome' = "completed"
    /\ UNCHANGED <<script, executed, cleaned>>

(* A command of its own returns.                                           *)
Acknowledge ==
    /\ outcome = "none" /\ Len(script) = 1
    /\ outcome' = "acknowledged"
    /\ UNCHANGED <<script, executed, cleaned>>

Fail ==
    /\ outcome = "none"
    /\ outcome' \in {"rejected", "failed"}
    /\ UNCHANGED <<script, executed, cleaned>>

Clean ==
    /\ outcome \in {"rejected", "failed"} /\ ~cleaned
    /\ cleaned' = TRUE
    /\ UNCHANGED <<script, executed, outcome>>

Next ==
    \/ \E lines \in Scripts : RunScript(lines)
    \/ \E command \in Commands : RunCommand(command)
    \/ Execute \/ Complete \/ Acknowledge \/ Fail \/ Clean

Spec == Init /\ [][Next]_vars
===============================================================================
