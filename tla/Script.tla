--------------------------------- MODULE Script ---------------------------------
(***************************************************************************)
(* Script transactions of HidBridgeCore (serial.hpp: run_script,           *)
(* execute_script_batch) against a device that collects batches.           *)
(*                                                                         *)
(* BridgeCore shows that a script has the device to itself, and Exchange   *)
(* that a response belongs to the request it is taken for.  Here both are  *)
(* given: one caller, and answers only to the exchange that waits.  What   *)
(* is left is what the frames do: where a script stops when an exchange    *)
(* fails, what the device has executed by then, and what the client        *)
(* believes of the device's batch.                                         *)
(*                                                                         *)
(* The link is first in, first out, and loses frames either way.  The      *)
(* device is external: it answers a repeated number as it did before, and  *)
(* it keeps its lease while the session is open.                           *)
(*                                                                         *)
(* A definition whose comment says "Mutant" is a faulty variant of the one *)
(* that follows it, for the mutation runs; no behaviour uses it.           *)
(***************************************************************************)
EXTENDS Deadlines, Sequences

CONSTANTS
    Scripts,        \* the scripts an application runs, as sequences of lines
    Commands,       \* the commands it sends by themselves
    Retries,        \* HidBridgeOptions::retries
    MaxPayload,     \* MAX_PAYLOAD_SIZE
    LinkCapacity,   \* bound: frames on the way to the device
    MaxCalls        \* bound: calls made

(* What a line of a script asks for; key_down stands for the commands that *)
(* take no time.  A line that parse_script_line rejects is malformed.      *)
InputTypes == {"type_ascii", "key_tap", "key_down", "mouse_click", "mouse_move", "wait_ms"}
LineTypes == InputTypes \cup {"stop_all", "malformed"}
Line == [type : LineTypes, amount : 0..MaxMs, ascii : BOOLEAN]

(* What a frame carries.                                                   *)
Command == [type : LineTypes \cup {"batch_begin", "batch_end"}, amount : 0..MaxMs,
            ascii : BOOLEAN]

ASSUME ScriptAssumption ==
    /\ Scripts \subseteq Seq(Line)
    /\ Commands \subseteq {line \in Line : line.type # "malformed"}
    /\ Retries \in Nat /\ MaxPayload \in Nat
    /\ LinkCapacity \in Nat /\ MaxCalls \in Nat

VARIABLES
    stage,          \* the exchange of the call that is being made
    pc,             \* where that exchange is
    script,         \* the lines of the call
    rest, segment,  \* run_script: lines not looked at; those to be batched
    done,           \* execute_script_batch: commands of the segment sent
    outcome,        \* how the call ends, or ended
    cleaned,        \* the STOP_ALL after a failure was answered
    written,        \* the call has written a frame
    number,         \* of the exchange: its sequence number, never reused here
    first,          \* the number of the first exchange of the call
    attempt, deadline,  \* send_command_for_generation: loop counter, timeout_ms
    batchMs,        \* SessionData::batch_duration_ms
    toDevice, answers,  \* the frames on the link; answers to this exchange
    collecting, collectedMs,    \* the device's batch: open, and its duration
    collected,      \* the lines of this call in the batch
    executed,       \* the lines of this call that the device has executed
    last,           \* the last exchange that the device carried out
    calls

transaction == <<script, rest, segment, done, first, calls>>
exchange == <<number, attempt, deadline, batchMs>>
verdict == <<outcome, cleaned, written>>
device == <<collecting, collected, collectedMs, executed, last>>
link == <<toDevice, answers>>
vars == <<stage, pc, transaction, exchange, verdict, device, link>>

Control(type) == [type |-> type, amount |-> 0, ascii |-> TRUE]
IsStop(line) == line.type = "stop_all"

-------------------------------------------------------------------------------

Init ==
    /\ stage = "idle" /\ pc = "prepare"
    /\ script = <<>> /\ rest = <<>> /\ segment = <<>> /\ done = 0
    /\ outcome = "none" /\ cleaned = FALSE /\ written = FALSE
    /\ number = 0 /\ first = 1
    /\ attempt = 0 /\ deadline = 0 /\ batchMs = NoBatch
    /\ toDevice = <<>> /\ answers = <<>>
    /\ collecting = FALSE /\ collected = <<>> /\ collectedMs = 0
    /\ executed = <<>>
    /\ last = [number |-> 0, answer |-> "ack"]
    /\ calls = 0

(* The command that the current exchange carries.                          *)
Current ==
    CASE stage = "command" -> script[1]
      [] stage = "begin"   -> Control("batch_begin")
      [] stage = "body"    -> segment[done + 1]
      [] stage = "end"     -> Control("batch_end")
      [] OTHER             -> Control("stop_all")

StartCall(lines) ==
    /\ stage = "idle" /\ calls < MaxCalls
    /\ calls' = calls + 1
    /\ script' = lines
    /\ first' = number + 1
    /\ segment' = <<>> /\ done' = 0
    /\ cleaned' = FALSE /\ written' = FALSE
    /\ collected' = <<>> /\ executed' = <<>>
    /\ pc' = "prepare"
    /\ UNCHANGED <<exchange, link, collecting, collectedMs, last>>

(* Mutant: a script is sent as far as it parses.                           *)
RunScriptUnparsed(lines) ==
    /\ StartCall(lines)
    /\ rest' = lines
    /\ \/ stage' = "idle" /\ outcome' = "failed"
       \/ stage' = "collect" /\ outcome' = "none"

(* run_script tests its session and parses every line before its try       *)
(* block: no STOP_ALL follows if one of the two throws.                    *)
RunScript(lines) ==
    /\ StartCall(lines)
    /\ rest' = lines
    /\ \/ stage' = "idle" /\ outcome' = "failed"
       \/ /\ \E i \in DOMAIN lines : lines[i].type = "malformed"
          /\ stage' = "idle" /\ outcome' = "rejected"
       \/ /\ \A i \in DOMAIN lines : lines[i].type # "malformed"
          /\ stage' = "collect" /\ outcome' = "none"

(* A command method of its own: type_text, mouse_click, ...                *)
RunCommand(command) ==
    /\ StartCall(<<command>>)
    /\ rest' = <<>>
    /\ stage' = "command" /\ outcome' = "none"

-------------------------------------------------------------------------------
(* run_script: the loop over the lines.                                    *)

(* A line that is not a stop joins the segment.                            *)
Collect ==
    /\ stage = "collect" /\ rest # <<>> /\ ~IsStop(Head(rest))
    /\ segment' = Append(segment, Head(rest))
    /\ rest' = Tail(rest)
    /\ UNCHANGED <<stage, pc, script, done, first, calls, exchange, verdict, device, link>>

(* execute_script_batch of a segment that is not empty.                    *)
Flush ==
    /\ stage = "collect" /\ (rest # <<>> => IsStop(Head(rest)))
    /\ segment # <<>>
    /\ stage' = "begin" /\ done' = 0
    /\ UNCHANGED <<pc, script, rest, segment, first, calls, exchange, verdict, device, link>>

(* The STOP_ALL of a stop line.                                            *)
StopLine ==
    /\ stage = "collect" /\ segment = <<>>
    /\ rest # <<>> /\ IsStop(Head(rest))
    /\ stage' = "stop"
    /\ rest' = Tail(rest)
    /\ UNCHANGED <<pc, script, segment, done, first, calls, exchange, verdict, device, link>>

Return ==
    /\ stage = "collect" /\ rest = <<>> /\ segment = <<>>
    /\ stage' = "idle" /\ outcome' = "completed"
    /\ UNCHANGED <<pc, transaction, exchange, cleaned, written, device, link>>

-------------------------------------------------------------------------------
(* How an exchange ends.                                                   *)

(* An exception.  run_script catches it, sends one STOP_ALL, and throws    *)
(* again; what the STOP_ALL comes to changes nothing.  A command of its    *)
(* own just fails.                                                         *)
Throw(reason) ==
    /\ pc' = "prepare"
    /\ IF stage = "cleanup"
       THEN stage' = "idle" /\ UNCHANGED outcome
       ELSE /\ stage' = IF stage = "command" THEN "idle" ELSE "cleanup"
            /\ outcome' = reason

(* Mutant: the last command of a segment is not sent. *)
SucceedEarly ==
    /\ pc' = "prepare"
    /\ stage' = CASE stage = "begin" -> "body"
                  [] stage = "body"  -> IF done + 2 < Len(segment) THEN "body" ELSE "end"
                  [] stage \in {"end", "stop"}        -> "collect"
                  [] stage \in {"command", "cleanup"} -> "idle"
    /\ done' = IF stage = "body" THEN done + 1 ELSE 0
    /\ segment' = IF stage = "end" THEN <<>> ELSE segment
    /\ outcome' = IF stage = "command" THEN "acknowledged" ELSE outcome

(* The exchange was acknowledged; on to the next one of the call.          *)
Succeed ==
    /\ pc' = "prepare"
    /\ stage' = CASE stage = "begin" -> "body"
                  [] stage = "body"  -> IF done + 1 < Len(segment) THEN "body" ELSE "end"
                  [] stage \in {"end", "stop"}        -> "collect"
                  [] stage \in {"command", "cleanup"} -> "idle"
    /\ done' = IF stage = "body" THEN done + 1 ELSE 0
    /\ segment' = IF stage = "end" THEN <<>> ELSE segment
    /\ outcome' = IF stage = "command" THEN "acknowledged" ELSE outcome

-------------------------------------------------------------------------------
(* send_command_for_generation.                                            *)

(* script_command_to_packet, ascii_payload: nothing is numbered yet.       *)
RejectText ==
    /\ stage \notin {"idle", "collect"} /\ pc = "prepare"
    /\ ~Current.ascii
    /\ Throw("rejected")
    /\ UNCHANGED <<transaction, exchange, cleaned, written, device, link>>

(* encode_frame: the number is used up.                                    *)
RejectLength ==
    /\ stage \notin {"idle", "collect"} /\ pc = "prepare"
    /\ Current.ascii /\ Current.type = "type_ascii" /\ Current.amount > MaxPayload
    /\ number' = number + 1
    /\ answers' = <<>>
    /\ Throw("rejected")
    /\ UNCHANGED <<transaction, attempt, deadline, batchMs, cleaned, written, device,
                   toDevice>>

(* Mutant: the STOP_ALL after a failure repeats the number of the frame    *)
(* before it.                                                              *)
PrepareNumbered ==
    /\ stage \notin {"idle", "collect"} /\ pc = "prepare"
    /\ Current.ascii /\ (Current.type = "type_ascii" => Current.amount <= MaxPayload)
    /\ number' = IF stage = "cleanup" THEN number ELSE number + 1
    /\ attempt' = 0
    /\ deadline' = ResponseTimeout(Current, batchMs)
    /\ answers' = <<>>
    /\ pc' = "write"
    /\ UNCHANGED <<stage, transaction, batchMs, verdict, device, toDevice>>

Prepare ==
    /\ stage \notin {"idle", "collect"} /\ pc = "prepare"
    /\ Current.ascii /\ (Current.type = "type_ascii" => Current.amount <= MaxPayload)
    /\ number' = number + 1
    /\ attempt' = 0
    /\ deadline' = ResponseTimeout(Current, batchMs)
    /\ answers' = <<>>
    /\ pc' = "write"
    /\ UNCHANGED <<stage, transaction, batchMs, verdict, device, toDevice>>

(* write_frame.  The frame is lost on the way, or the link is full.        *)
Write ==
    /\ pc = "write"
    /\ \/ /\ Len(toDevice) < LinkCapacity
          /\ toDevice' = Append(toDevice, [number |-> number, line |-> Current])
       \/ UNCHANGED toDevice
    /\ written' = TRUE
    /\ pc' = "wait"
    /\ UNCHANGED <<stage, transaction, exchange, outcome, cleaned, device, answers>>

(* The port fails, or the session was closed: the exchange throws, before  *)
(* or after its frame was written.                                         *)
Break ==
    /\ stage \notin {"idle", "collect"}
    /\ Throw("failed")
    /\ UNCHANGED <<transaction, exchange, cleaned, written, device, link>>

(* Mutants: one attempt too many; a retry is numbered anew. *)
RetryOnceMore ==
    IF attempt <= Retries
    THEN attempt' = attempt + 1 /\ pc' = "write" /\ UNCHANGED <<stage, outcome, number>>
    ELSE Throw("failed") /\ UNCHANGED <<attempt, number>>


RetryNumbered ==
    IF attempt < Retries
    THEN /\ attempt' = attempt + 1 /\ pc' = "write" /\ number' = number + 1
         /\ UNCHANGED <<stage, outcome>>
    ELSE Throw("failed") /\ UNCHANGED <<attempt, number>>

(* Another attempt with the same frame, or the end of them.                *)
Retry ==
    IF attempt < Retries
    THEN attempt' = attempt + 1 /\ pc' = "write" /\ UNCHANGED <<stage, outcome, number>>
    ELSE Throw("failed") /\ UNCHANGED <<attempt, number>>

(* The deadline of read_response passes without an answer.                 *)
TimeOut ==
    /\ pc = "wait" /\ answers = <<>>
    /\ Retry
    /\ UNCHANGED <<transaction, deadline, batchMs, cleaned, written, device, link>>

TakeBusy ==
    /\ pc = "wait" /\ answers # <<>> /\ Head(answers) = "busy"
    /\ answers' = Tail(answers)
    /\ Retry
    /\ UNCHANGED <<transaction, deadline, batchMs, cleaned, written, device, toDevice>>

(* NACK, or a response of a type that was not expected.                    *)
TakeNack ==
    /\ pc = "wait" /\ answers # <<>> /\ Head(answers) = "nack"
    /\ Throw("failed")
    /\ cleaned' = (stage = "cleanup")
    /\ answers' = Tail(answers)
    /\ UNCHANGED <<transaction, exchange, written, device, toDevice>>

TakeAck ==
    /\ pc = "wait" /\ answers # <<>> /\ Head(answers) = "ack"
    /\ batchMs' = Recorded(Current, batchMs)
    /\ Succeed
    /\ cleaned' = (stage = "cleanup")
    /\ answers' = Tail(answers)
    /\ UNCHANGED <<script, rest, first, calls, number, attempt, deadline, written, device,
                   toDevice>>

-------------------------------------------------------------------------------
(* The device (external).                                                  *)

(* Mutant: the number of an answer is not looked at. *)
AnswerUnchecked(frame, kind) ==
    \/ answers' = Append(answers, kind)
    \/ UNCHANGED answers

(* An answer reaches the exchange that waits for it, or is lost.           *)
Answer(frame, kind) ==
    \/ answers' = IF frame.number = number THEN Append(answers, kind) ELSE answers
    \/ UNCHANGED answers

Receive == toDevice' = Tail(toDevice)

DeviceRepeat ==
    /\ toDevice # <<>> /\ Head(toDevice).number = last.number
    /\ Receive
    /\ Answer(Head(toDevice), last.answer)
    /\ UNCHANGED <<stage, pc, transaction, exchange, verdict, device>>

(* Not now, and nothing happens.                                           *)
DeviceBusy ==
    /\ toDevice # <<>> /\ Head(toDevice).number # last.number
    /\ Receive
    /\ Answer(Head(toDevice), "busy")
    /\ UNCHANGED <<stage, pc, transaction, exchange, verdict, device>>

(* Refused: the batch is full, the wait too long, ...  A STOP_ALL is       *)
(* carried out always.                                                     *)
DeviceRefuse ==
    /\ toDevice # <<>> /\ Head(toDevice).number # last.number
    /\ ~IsStop(Head(toDevice).line)
    /\ Receive
    /\ last' = [number |-> Head(toDevice).number, answer |-> "nack"]
    /\ Answer(Head(toDevice), "nack")
    /\ UNCHANGED <<stage, pc, transaction, exchange, verdict, collecting, collected,
                   collectedMs, executed>>

(* The line of a frame, as far as collected and executed remember it:      *)
(* frames of earlier calls may still be on the link.                       *)
Remembered(frame) == IF frame.number >= first THEN <<frame.line>> ELSE <<>>

(* Carried out.  A STOP_ALL that ends a batch may be answered by a NACK.   *)
DeviceExecute ==
    /\ toDevice # <<>> /\ Head(toDevice).number # last.number
    /\ Receive
    /\ LET frame == Head(toDevice)
           line == frame.line
       IN  /\ CASE line.type = "batch_begin" ->
                       /\ ~collecting
                       /\ collecting' = TRUE /\ collected' = <<>> /\ collectedMs' = 0
                       /\ UNCHANGED executed
                [] line.type = "batch_end" ->
                       /\ collecting
                       /\ collecting' = FALSE /\ collected' = <<>> /\ collectedMs' = 0
                       /\ executed' = executed \o collected
                [] line.type = "stop_all" ->
                       /\ collecting' = FALSE /\ collected' = <<>> /\ collectedMs' = 0
                       /\ UNCHANGED executed
                [] OTHER ->
                       /\ UNCHANGED collecting
                       /\ collected' = IF collecting THEN collected \o Remembered(frame)
                                                     ELSE collected
                       /\ collectedMs' = IF collecting /\ Timed(line)
                                         THEN collectedMs + Duration(line) ELSE collectedMs
                       /\ executed' = IF collecting THEN executed
                                                    ELSE executed \o Remembered(frame)
           /\ \E kind \in IF IsStop(line) /\ collecting THEN {"ack", "nack"} ELSE {"ack"} :
                 last' = [number |-> frame.number, answer |-> kind]
           /\ Answer(frame, last'.answer)
    /\ UNCHANGED <<stage, pc, transaction, exchange, verdict>>

-------------------------------------------------------------------------------

Next ==
    \/ \E lines \in Scripts : RunScript(lines)
    \/ \E command \in Commands : RunCommand(command)
    \/ Collect \/ Flush \/ StopLine \/ Return
    \/ RejectText \/ RejectLength \/ Prepare \/ Write \/ Break
    \/ TimeOut \/ TakeBusy \/ TakeNack \/ TakeAck
    \/ DeviceRepeat \/ DeviceBusy \/ DeviceRefuse \/ DeviceExecute

Spec == Init /\ [][Next]_vars

-------------------------------------------------------------------------------
(* Properties. *)

Frame == [number : Nat, line : Command]
Answers == {"ack", "nack", "busy"}

(* Types.                                                                  *)
TypeOK ==
    /\ stage \in {"idle", "collect", "begin", "body", "end", "stop", "command", "cleanup"}
    /\ pc \in {"prepare", "write", "wait"}
    /\ script \in Seq(Line) /\ rest \in Seq(Line) /\ segment \in Seq(Line)
    /\ done \in 0..Len(segment)
    /\ outcome \in {"none", "completed", "acknowledged", "rejected", "failed"}
    /\ cleaned \in BOOLEAN /\ written \in BOOLEAN
    /\ number \in Nat /\ first \in Nat
    /\ attempt \in 0..Retries /\ deadline \in 0..MaxMs
    /\ batchMs \in Nat \cup {NoBatch}
    /\ toDevice \in Seq(Frame) /\ Len(toDevice) <= LinkCapacity
    /\ answers \in Seq(Answers)
    /\ collecting \in BOOLEAN /\ collected \in Seq(Command) /\ collectedMs \in Nat
    /\ executed \in Seq(Command)
    /\ last \in [number : Nat, answer : {"ack", "nack"}]
    /\ calls \in 0..MaxCalls
    /\ stage = "body" => done < Len(segment)

(* The wait for BATCH_END covers the batch as the device has collected it, *)
(* however the batches before it ended: up to the largest deadline there   *)
(* is, no script times out while the device is still executing it.         *)
DeadlineCoversBatch ==
    pc = "wait" /\ stage = "end" /\ collecting =>
        deadline >= Smaller(MaxMs, collectedMs + 1000)

(* The device has executed the inputs among the first n lines of the       *)
(* script, in order and once, and nothing else of it.                      *)
ExecutedUpTo(n) ==
    LET Inputs == {k \in 1..n : ~IsStop(script[k])}
    IN  \E at \in [DOMAIN executed -> Inputs] :
           /\ \A i \in DOMAIN executed : executed[i] = script[at[i]]
           /\ \A i, j \in DOMAIN executed : i < j => at[i] < at[j]
           /\ \A k \in Inputs : \E i \in DOMAIN executed : at[i] = k

(* No segment lies on both sides of line n.                                *)
Boundary(n) ==
    n \in {0, Len(script)} \/ IsStop(script[n]) \/ IsStop(script[n + 1])

(* Whatever fails, is lost or is repeated, the device executes whole       *)
(* segments of a script, in order and once: no part of a batch, nothing    *)
(* twice, nothing behind a segment that was left out.                      *)
WholeSegments == \E n \in 0..Len(script) : Boundary(n) /\ ExecutedUpTo(n)

(* A run_script that returned has had all of its lines executed, and, if   *)
(* there was anything to send, has left no batch open, not even one of an  *)
(* earlier call that failed.                                               *)
CompletedMeansDone ==
    outcome = "completed" =>
        /\ ExecutedUpTo(Len(script))
        /\ written => ~collecting

(* Once the STOP_ALL after a failure was answered, by whatever answer, the *)
(* batch is gone and no frame of the script is left to be executed later.  *)
CleanedMeansQuiet ==
    cleaned =>
        /\ ~collecting
        /\ \A i \in DOMAIN toDevice : toDevice[i].number = last.number

(* A call goes on to its next exchange only when the device has carried    *)
(* out the one before, and nothing that it has not seen is on the way:     *)
(* late and repeated frames of a retry cannot mix with what follows        *)
(* (send_command_for_generation).                                          *)
NothingOvertakes ==
    [][number' # number /\ number >= first /\ outcome = "none" =>
          /\ last = [number |-> number, answer |-> "ack"]
          /\ \A i \in DOMAIN toDevice : toDevice[i].number = number]_vars

(* All of it together, step by step: what the device executes, and how a   *)
(* call ends, is a behaviour of Transaction (run_script).                  *)
Promise == INSTANCE Transaction
KeepsPromise == Promise!Spec

(* What Script_proofs adds to make DeadlineCoversBatch inductive, and       *)
(* CleanupSettled to make CleanedMeansQuiet so.                            *)

(* Where a call can be.                                                    *)
StageShape ==
    /\ stage = "command" => script # <<>>
    /\ stage \in {"begin", "body", "end"} => segment # <<>>
    /\ pc # "prepare" => stage \notin {"idle", "collect"}
    /\ \A i \in DOMAIN segment : ~IsStop(segment[i])

(* The device has carried out what came before the frames on the link.     *)
LinkInOrder ==
    /\ last.number <= number
    /\ \A i \in DOMAIN toDevice :
          /\ last.number <= toDevice[i].number
          /\ toDevice[i].number <= number
          /\ toDevice[i].number = number /\ pc # "prepare" => toDevice[i].line = Current
    /\ \A i, j \in DOMAIN toDevice : i < j => toDevice[i].number <= toDevice[j].number

(* An answer that is not BUSY is what the device did about this exchange.  *)
AnswerIsVerdict ==
    \A i \in DOMAIN answers :
        answers[i] # "busy" => last.number = number /\ last.answer = answers[i]

(* The client's account of the batch, and the device's.                    *)
Accounted(ms) == collecting => collectedMs <= ms

BatchAccounted ==
    /\ stage = "begin" /\ pc # "prepare" =>
          (last.number = number /\ last.answer = "ack" => Accounted(0))
    /\ stage \in {"body", "end"} =>
          /\ batchMs \in Nat
          /\ pc = "prepare" => last.number = number /\ Accounted(batchMs)
          /\ pc # "prepare" =>
                /\ last.number # number =>
                      /\ Accounted(batchMs)
                      /\ \A i \in DOMAIN toDevice :
                            toDevice[i].number \in {last.number, number}
                /\ last.number = number /\ last.answer = "nack" => Accounted(batchMs)
                /\ last.number = number /\ last.answer = "ack" =>
                      IF stage = "end" THEN ~collecting
                                       ELSE Accounted(Recorded(Current, batchMs))

DeadlineSet ==
    pc # "prepare" /\ stage = "end" =>
        deadline = ResponseTimeout(Control("batch_end"), batchMs)

(* The STOP_ALL after a failure, once it was carried out and answered.      *)
CleanupSettled ==
    /\ stage = "cleanup" /\ pc # "prepare" /\ last.number = number => ~collecting
    /\ cleaned =>
          stage = "idle" /\ pc = "prepare" /\ last.number = number /\ ~collecting

Inv ==
    /\ TypeOK /\ StageShape /\ LinkInOrder /\ AnswerIsVerdict
    /\ BatchAccounted /\ DeadlineSet

(* INTEGRATION.md:337: the arguments of a script are parsed before         *)
(* anything is sent; a malformed one is an invalid_argument.               *)
RejectedSendsNothing == outcome = "rejected" => ~written
===============================================================================
