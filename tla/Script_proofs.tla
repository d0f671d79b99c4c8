----------------------------- MODULE Script_proofs -----------------------------
(***************************************************************************)
(* Proofs about Deadlines and Script, for any scripts and commands, any    *)
(* timeout, number of retries and length of a frame.                       *)
(*                                                                         *)
(* The first part: the deadline of BATCH_END covers the batch that the     *)
(* device has collected, and an answered cleanup leaves nothing.  The      *)
(* second: the device executes whole segments.  The third: Script          *)
(* implements Transaction.                                                 *)
(***************************************************************************)
EXTENDS Script, SequenceTheorems, TLAPS

-------------------------------------------------------------------------------
(* Deadlines. *)

(* A command of known duration takes a number of milliseconds. *)
LEMMA DurationIsNat ==
    ASSUME NEW c \in Command, Timed(c)
    PROVE  Duration(c) \in Nat
<1>1. c.amount \in Nat
  BY DeadlineAssumption DEF Command
<1>2. (c.amount + 126) \div 127 \in Nat
  BY <1>1
<1>3. QED
  BY <1>1, <1>2 DEF Timed, Duration

(* response_timeout is never below timeout_ms and always fits 32 bits. *)
THEOREM TimeoutInRange ==
    ASSUME NEW c \in Command, NEW b \in Nat \cup {NoBatch}
    PROVE  ResponseTimeout(c, b) \in TimeoutMs..MaxMs
<1>1. CASE c.type = "batch_end" /\ b # NoBatch
  BY <1>1, DeadlineAssumption DEF ResponseTimeout, Smaller, Larger, NoBatch, Timed
<1>2. CASE ~(c.type = "batch_end" /\ b # NoBatch) /\ Timed(c)
  BY <1>2, DurationIsNat, DeadlineAssumption DEF ResponseTimeout, Smaller, Larger
<1>3. CASE ~(c.type = "batch_end" /\ b # NoBatch) /\ ~Timed(c)
  BY <1>3, DeadlineAssumption DEF ResponseTimeout, Smaller, Larger
<1>4. QED
  BY <1>1, <1>2, <1>3

(* The account of a batch is a number of milliseconds, or there is none. *)
LEMMA RecordedIsBatch ==
    ASSUME NEW c \in Command, NEW b \in Nat \cup {NoBatch}
    PROVE  Recorded(c, b) \in Nat \cup {NoBatch}
  BY DurationIsNat DEF Recorded, NoBatch

(* A command that can be part of a batch keeps the account, and counts. *)
LEMMA RecordedCounts ==
    ASSUME NEW c \in Command, NEW b \in Nat,
           c.type \notin {"batch_begin", "batch_end", "stop_all"}
    PROVE  /\ Recorded(c, b) \in Nat /\ b <= Recorded(c, b)
           /\ Timed(c) => Recorded(c, b) = b + Duration(c)
  BY DurationIsNat DEF Recorded, NoBatch

(* The wait for BATCH_END covers the account. *)
LEMMA EndIsCovered ==
    ASSUME NEW b \in Nat
    PROVE  ResponseTimeout(Control("batch_end"), b) >= Smaller(MaxMs, b + 1000)
  BY DeadlineAssumption DEF ResponseTimeout, Control, Smaller, Larger, NoBatch, Timed

-------------------------------------------------------------------------------
(* Script: what every step of the proof needs.                             *)

(* The parts of TypeOK that the numbers and the frames need. *)
LEMMA LinkTypes ==
    ASSUME TypeOK
    PROVE  /\ number \in Nat /\ last.number \in Nat /\ last.answer \in {"ack", "nack"}
           /\ toDevice \in Seq(Frame) /\ answers \in Seq(Answers)
           /\ \A i \in DOMAIN toDevice :
                 toDevice[i].number \in Nat /\ toDevice[i].line \in Command
<1>1. number \in Nat /\ toDevice \in Seq(Frame) /\ answers \in Seq(Answers)
  BY DEF TypeOK
<1>2. last.number \in Nat /\ last.answer \in {"ack", "nack"}
  BY DEF TypeOK
<1>3. ASSUME NEW i \in DOMAIN toDevice
      PROVE  toDevice[i].number \in Nat /\ toDevice[i].line \in Command
  <2>1. toDevice[i] \in Frame
    BY <1>1
  <2>2. QED
    BY <2>1 DEF Frame
<1>4. QED
  BY <1>1, <1>2, <1>3

(* What an exchange carries is a command. *)
LEMMA CurrentIsCommand ==
    ASSUME TypeOK, StageShape
    PROVE  /\ Current \in Command
           /\ stage = "body" => /\ Current.type \notin {"batch_begin", "batch_end", "stop_all"}
                                /\ Current = segment[done + 1]
<1>1. \A t \in LineTypes \cup {"batch_begin", "batch_end"} : Control(t) \in Command
  BY DeadlineAssumption DEF Control, Command
<1>2. Line \subseteq Command
  BY DEF Line, Command
<1>3. CASE stage = "command"
  <2>1. script[1] \in Line
    BY <1>3 DEF TypeOK, StageShape
  <2>2. QED
    BY <2>1, <1>2, <1>3 DEF Current
<1>4. CASE stage = "body"
  <2>1. done + 1 \in DOMAIN segment /\ segment[done + 1] \in Line
    BY <1>4 DEF TypeOK
  <2>2. Current = segment[done + 1]
    BY <1>4 DEF Current
  <2>3. segment[done + 1].type # "stop_all"
    BY <2>1 DEF StageShape, IsStop
  <2>4. QED
    BY <2>1, <2>2, <2>3, <1>2 DEF Line, LineTypes, InputTypes
<1>5. CASE stage \notin {"command", "body"}
  BY <1>1, <1>5 DEF Current, LineTypes
<1>6. QED
  BY <1>3, <1>4, <1>5

(* The initial state. *)
LEMMA InitInv == Init => Inv
<1> SUFFICES ASSUME Init PROVE Inv
  OBVIOUS
<1>1. TypeOK
  <2>1. cleaned \in BOOLEAN /\ written \in BOOLEAN /\ collecting \in BOOLEAN
    BY DEF Init
  <2>2. script \in Seq(Line) /\ rest \in Seq(Line) /\ segment \in Seq(Line)
    BY DEF Init
  <2>3. /\ toDevice \in Seq(Frame) /\ collected \in Seq(Command) /\ executed \in Seq(Command)
        /\ answers \in Seq(Answers)
    BY DEF Init
  <2>4. QED
    BY <2>1, <2>2, <2>3, DeadlineAssumption, ScriptAssumption DEF Init, TypeOK
<1>2. StageShape /\ LinkInOrder /\ AnswerIsVerdict /\ BatchAccounted /\ DeadlineSet
  BY DEF Init, StageShape, LinkInOrder, AnswerIsVerdict, BatchAccounted, DeadlineSet
<1>3. QED
  BY <1>1, <1>2 DEF Inv

(* An exception leaves the batch, and nothing is waited for. *)
LEMMA ThrowPreserves ==
    ASSUME NEW reason \in {"rejected", "failed"}, Throw(reason), TypeOK, StageShape,
           segment' = segment, stage \notin {"idle", "collect"}
    PROVE  /\ StageShape' /\ BatchAccounted' /\ DeadlineSet'
           /\ stage' \in {"idle", "cleanup"} /\ pc' = "prepare"
           /\ outcome' \in {"none", "completed", "acknowledged", "rejected", "failed"}
<1>1. stage' \in {"idle", "cleanup"} /\ pc' = "prepare"
  BY DEF Throw
<1>2. outcome' \in {"none", "completed", "acknowledged", "rejected", "failed"}
  BY DEF Throw, TypeOK
<1>3. QED
  BY <1>1, <1>2 DEF StageShape, BatchAccounted, DeadlineSet

-------------------------------------------------------------------------------
(* Script: every step preserves Inv, operation by operation.               *)

(* A call begins with nothing of its own on the link. *)
LEMMA CallPreservesInv ==
    ASSUME Inv, (\E lines \in Scripts : RunScript(lines))
                \/ (\E command \in Commands : RunCommand(command))
    PROVE  Inv'
<1> DEFINE Begun(lines) == /\ StartCall(lines)
                           /\ stage' \in {"idle", "collect", "command"}
                           /\ stage' = "command" => lines # <<>>
                           /\ outcome' \in {"none", "rejected", "failed"}
                           /\ rest' \in Seq(Line)
<1>1. \E lines \in Seq(Line) : Begun(lines)
  <2>1. ASSUME NEW lines \in Scripts, RunScript(lines) PROVE Begun(lines)
    BY <2>1, ScriptAssumption DEF RunScript
  <2>2. ASSUME NEW c \in Commands, RunCommand(c)
        PROVE  Begun(<<c>>) /\ <<c>> \in Seq(Line)
    BY <2>2, ScriptAssumption DEF RunCommand
  <2>3. QED
    BY <2>1, <2>2, ScriptAssumption
<1>2. PICK lines \in Seq(Line) : Begun(lines)
  BY <1>1
<1>3. TypeOK'
  <2>1. cleaned' \in BOOLEAN /\ written' \in BOOLEAN
    BY <1>2 DEF StartCall
  <2>2. /\ script' \in Seq(Line) /\ rest' \in Seq(Line) /\ segment' \in Seq(Line)
        /\ collected' \in Seq(Command) /\ executed' \in Seq(Command)
        /\ done' \in 0..Len(segment')
    BY <1>2 DEF StartCall
  <2>3. calls' \in 0..MaxCalls /\ first' \in Nat
    BY <1>2, ScriptAssumption DEF StartCall, Inv, TypeOK
  <2>4. QED
    BY <2>1, <2>2, <2>3, <1>2 DEF StartCall, Inv, TypeOK, exchange, link
<1>4. StageShape' /\ BatchAccounted' /\ DeadlineSet'
  BY <1>2 DEF StartCall, StageShape, BatchAccounted, DeadlineSet
<1>5. LinkInOrder' /\ AnswerIsVerdict'
  BY <1>2 DEF StartCall, Inv, LinkInOrder, AnswerIsVerdict, exchange, link
<1>6. QED
  BY <1>3, <1>4, <1>5 DEF Inv

(* The loop of run_script over the lines sends nothing. *)
LEMMA LoopPreservesInv ==
    ASSUME Inv, Collect \/ Flush \/ StopLine \/ Return
    PROVE  Inv'
<1>1. pc = "prepare" /\ pc' = "prepare"
  BY DEF Inv, TypeOK, StageShape, Collect, Flush, StopLine, Return
<1>2. UNCHANGED <<exchange, link, device, cleaned, written, script, first, calls>>
  BY DEF Collect, Flush, StopLine, Return, transaction, verdict
<1>3. /\ stage' \in {"idle", "collect", "begin", "stop"}
      /\ stage' = "begin" => segment' # <<>>
      /\ \A i \in DOMAIN segment' : ~IsStop(segment'[i])
      /\ segment' \in Seq(Line) /\ rest' \in Seq(Line)
      /\ done' \in 0..Len(segment')
      /\ outcome' \in {"none", "completed", "acknowledged", "rejected", "failed"}
  <2> USE DEF Inv, TypeOK, StageShape
  <2>1. CASE Collect
    <3>1. Head(rest) \in Line /\ Tail(rest) \in Seq(Line) /\ ~IsStop(Head(rest))
      BY <2>1 DEF Collect
    <3>2. QED
      BY <2>1, <3>1 DEF Collect, verdict
  <2>2. CASE Flush
    BY <2>2 DEF Flush, verdict
  <2>3. CASE StopLine
    <3>1. Tail(rest) \in Seq(Line)
      BY <2>3 DEF StopLine
    <3>2. QED
      BY <2>3, <3>1 DEF StopLine, verdict
  <2>4. CASE Return
    BY <2>4 DEF Return, transaction
  <2>5. QED
    BY <2>1, <2>2, <2>3, <2>4
<1>4. TypeOK'
  BY <1>1, <1>2, <1>3 DEF Inv, TypeOK, exchange, link, device
<1>5. StageShape' /\ BatchAccounted' /\ DeadlineSet'
  BY <1>1, <1>3 DEF StageShape, BatchAccounted, DeadlineSet
<1>6. LinkInOrder' /\ AnswerIsVerdict'
  BY <1>1, <1>2 DEF Inv, LinkInOrder, AnswerIsVerdict, exchange, link, device
<1>7. QED
  BY <1>4, <1>5, <1>6 DEF Inv

(* An argument is rejected, or the port or the session fails. *)
LEMMA FailurePreservesInv ==
    ASSUME Inv, RejectText \/ RejectLength \/ Break
    PROVE  Inv'
<1>1. /\ \E reason \in {"rejected", "failed"} : Throw(reason)
      /\ stage \notin {"idle", "collect"}
      /\ UNCHANGED <<transaction, cleaned, written, device, toDevice, attempt, deadline, batchMs>>
  BY DEF RejectText, RejectLength, Break, exchange, link
<1>2. PICK reason \in {"rejected", "failed"} : Throw(reason)
  BY <1>1
<1>3. /\ StageShape' /\ BatchAccounted' /\ DeadlineSet'
      /\ stage' \in {"idle", "cleanup"} /\ pc' = "prepare"
      /\ outcome' \in {"none", "completed", "acknowledged", "rejected", "failed"}
  <2>1. TypeOK /\ StageShape /\ segment' = segment
    BY <1>1 DEF Inv, transaction
  <2>2. QED
    BY <1>1, <1>2, <2>1, ThrowPreserves
<1>4. \/ number' = number /\ answers' = answers
      \/ number' = number + 1 /\ answers' = <<>>
  BY DEF RejectText, RejectLength, Break, exchange, link
<1>5. TypeOK'
  <2>1. number' \in Nat /\ answers' \in Seq(Answers)
    <3>1. number \in Nat /\ answers \in Seq(Answers)
      BY LinkTypes DEF Inv
    <3>2. <<>> \in Seq(Answers)
      OBVIOUS
    <3>3. number' \in Nat
      BY <1>4, <3>1
    <3>4. answers' \in Seq(Answers)
      BY <1>4, <3>1, <3>2, Zenon
    <3>5. QED
      BY <3>3, <3>4
  <2>2. UNCHANGED <<script, rest, segment, done, first, calls, cleaned, written, collecting,
                    collected, collectedMs, executed, last>>
    BY <1>1 DEF transaction, device
  <2>3. QED
    BY <1>1, <1>3, <2>1, <2>2 DEF Inv, TypeOK
<1>6. LinkInOrder' /\ AnswerIsVerdict'
  <2>1. last' = last /\ toDevice' = toDevice /\ pc' = "prepare"
    BY <1>1, <1>3 DEF device
  <2>2. /\ number \in Nat /\ last.number \in Nat
        /\ \A i \in DOMAIN toDevice : toDevice[i].number \in Nat
    BY LinkTypes DEF Inv
  <2>3. LinkInOrder'
    BY <1>4, <2>1, <2>2 DEF Inv, LinkInOrder
  <2>4. AnswerIsVerdict'
    BY <1>4, <2>1 DEF Inv, AnswerIsVerdict
  <2>5. QED
    BY <2>3, <2>4
<1>7. QED
  BY <1>3, <1>5, <1>6 DEF Inv

(* An exchange is numbered, and its frame written. *)
LEMMA SendPreservesInv ==
    ASSUME Inv, Prepare \/ Write
    PROVE  Inv'
<1> USE LinkTypes, CurrentIsCommand DEF Inv
<1>1. CASE Prepare
  <2>1. /\ number' = number + 1 /\ answers' = <<>> /\ pc = "prepare" /\ pc' = "write"
        /\ stage \notin {"idle", "collect"}
        /\ deadline' = ResponseTimeout(Current, batchMs)
        /\ UNCHANGED <<stage, script, segment, done, batchMs, toDevice, last, collecting,
                       collectedMs>>
    BY <1>1 DEF Prepare, transaction, device
  <2>2. TypeOK'
    <3>1. deadline' \in 0..MaxMs
      <4>1. batchMs \in Nat \cup {NoBatch}
        BY DEF TypeOK
      <4>2. ResponseTimeout(Current, batchMs) \in TimeoutMs..MaxMs
        BY <4>1, TimeoutInRange
      <4>3. QED
        BY <2>1, <4>2, DeadlineAssumption
    <3>2. <<>> \in Seq(Answers) /\ number' \in Nat
      BY <2>1
    <3>3. attempt' \in 0..Retries
      BY <1>1, ScriptAssumption DEF Prepare
    <3>4. QED
      BY <1>1, <3>1, <3>2, <3>3, <2>1 DEF Prepare, TypeOK, transaction, verdict, device
  <2>3. StageShape'
    BY <2>1 DEF StageShape
  <2>4. LinkInOrder' /\ AnswerIsVerdict'
    BY <2>1 DEF LinkInOrder, AnswerIsVerdict
  <2>5. DeadlineSet'
    BY <2>1 DEF DeadlineSet, Current
  <2>6. BatchAccounted'
    <3>1. number' # last.number /\ number' # number
      BY <2>1 DEF LinkInOrder
    <3>2. stage \in {"body", "end"} =>
             /\ batchMs \in Nat /\ Accounted(batchMs) /\ last.number = number
             /\ \A i \in DOMAIN toDevice : toDevice[i].number = last.number
      BY <2>1 DEF BatchAccounted, LinkInOrder
    <3>3. QED
      BY <2>1, <3>1, <3>2 DEF BatchAccounted, Accounted
  <2>7. QED
    BY <2>2, <2>3, <2>4, <2>5, <2>6
<1>2. CASE Write
  <2> DEFINE frame == [number |-> number, line |-> Current]
  <2>1. /\ pc = "write" /\ pc' = "wait" /\ written' = TRUE
        /\ \/ toDevice' = toDevice
           \/ toDevice' = Append(toDevice, frame) /\ Len(toDevice) < LinkCapacity
        /\ UNCHANGED <<stage, transaction, exchange, outcome, cleaned, device, answers>>
    BY <1>2 DEF Write
  <2>2. Current' = Current
    BY <2>1 DEF Current, transaction
  <2>3. frame \in Frame /\ frame.number = number /\ frame.line = Current
    BY DEF Frame
  <2>4. \A i \in DOMAIN toDevice' :
           \/ i \in DOMAIN toDevice /\ toDevice'[i] = toDevice[i]
           \/ i = Len(toDevice) + 1 /\ toDevice'[i] = frame
    <3>1. toDevice \in Seq(Frame)
      OBVIOUS
    <3>2. CASE toDevice' = toDevice
      BY <3>2
    <3>3. CASE toDevice' = Append(toDevice, frame)
      <4> HIDE DEF frame
      <4>1. QED
        BY <3>1, <3>3, <2>3, AppendProperties
    <3>4. QED
      BY <2>1, <3>2, <3>3
  <2>5. TypeOK'
    <3>1. toDevice' \in Seq(Frame) /\ Len(toDevice') <= LinkCapacity
      <4>1. Len(toDevice) <= LinkCapacity
        BY DEF TypeOK
      <4>2. QED
        BY <2>1, <2>3, <4>1, ScriptAssumption
    <3>2. written' \in BOOLEAN
      BY <2>1
    <3>3. QED
      BY <2>1, <3>1, <3>2 DEF TypeOK, transaction, exchange, device
  <2>6. StageShape' /\ DeadlineSet' /\ AnswerIsVerdict'
    BY <2>1 DEF StageShape, DeadlineSet, AnswerIsVerdict, transaction, exchange, device
  <2>7. LinkInOrder'
    <3>1. number' = number /\ last' = last /\ pc # "prepare"
      BY <2>1 DEF exchange, device
    <3>2. \A i \in DOMAIN toDevice' :
             /\ last.number <= toDevice'[i].number /\ toDevice'[i].number <= number
             /\ toDevice'[i].number = number => toDevice'[i].line = Current
      BY <2>3, <2>4, <3>1 DEF LinkInOrder
    <3>3. ASSUME NEW i \in DOMAIN toDevice', NEW j \in DOMAIN toDevice', i < j
          PROVE  toDevice'[i].number <= toDevice'[j].number
      BY <2>1, <2>3, <2>4, <3>3 DEF LinkInOrder
    <3>4. QED
      BY <2>2, <3>1, <3>2, <3>3 DEF LinkInOrder
  <2>8. BatchAccounted'
    <3>1. UNCHANGED <<stage, number, batchMs, collecting, collectedMs, last>>
      BY <2>1 DEF exchange, device
    <3>2. stage \in {"body", "end"} /\ last.number # number =>
             \A i \in DOMAIN toDevice' : toDevice'[i].number \in {last.number, number}
      BY <2>1, <2>3, <2>4 DEF BatchAccounted
    <3>3. QED
      BY <2>1, <2>2, <3>1, <3>2 DEF BatchAccounted, Accounted
  <2>9. QED
    BY <2>5, <2>6, <2>7, <2>8
<1>3. QED
  BY <1>1, <1>2

(* Taking the first answer leaves answers that are verdicts. *)
LEMMA TakenAnswer ==
    ASSUME TypeOK, AnswerIsVerdict, answers # <<>>
    PROVE  /\ Tail(answers) \in Seq(Answers)
           /\ \A i \in DOMAIN Tail(answers) :
                 Tail(answers)[i] # "busy" =>
                    last.number = number /\ last.answer = Tail(answers)[i]
           /\ Head(answers) # "busy" => last.number = number /\ last.answer = Head(answers)
<1>1. answers \in Seq(Answers)
  BY LinkTypes
<1>2. Tail(answers) \in Seq(Answers) /\ Head(answers) = answers[1] /\ 1 \in DOMAIN answers
  BY <1>1
<1>3. \A i \in DOMAIN Tail(answers) :
         i + 1 \in DOMAIN answers /\ Tail(answers)[i] = answers[i + 1]
  BY <1>1
<1>4. QED
  BY <1>2, <1>3 DEF AnswerIsVerdict

(* A deadline that passes, or a device that is busy, leads to another      *)
(* attempt with the same frame, or to an exception.                        *)
LEMMA RetryPreservesInv ==
    ASSUME Inv, TimeOut \/ TakeBusy
    PROVE  Inv'
<1> USE LinkTypes DEF Inv
<1>1. /\ pc = "wait" /\ stage \notin {"idle", "collect"}
      /\ Retry
      /\ UNCHANGED <<transaction, deadline, batchMs, cleaned, written, device, toDevice>>
      /\ answers' = answers \/ (answers # <<>> /\ answers' = Tail(answers))
  BY DEF TimeOut, TakeBusy, StageShape, link
<1>2. /\ number' = number /\ last' = last
      /\ UNCHANGED <<script, rest, segment, done, first, calls, collecting, collected,
                     collectedMs, executed>>
  BY <1>1 DEF Retry, transaction, device
<1>3. answers' \in Seq(Answers) /\ AnswerIsVerdict'
  <2>1. CASE answers' = answers
    BY <2>1, <1>2 DEF AnswerIsVerdict
  <2>2. CASE answers # <<>> /\ answers' = Tail(answers)
    BY <2>2, <1>2, TakenAnswer DEF AnswerIsVerdict
  <2>3. QED
    BY <1>1, <2>1, <2>2
<1>4. /\ TypeOK' /\ StageShape' /\ BatchAccounted' /\ DeadlineSet' /\ LinkInOrder'
  <2>1. CASE attempt < Retries
    <3>1. attempt' = attempt + 1 /\ pc' = "write" /\ stage' = stage /\ outcome' = outcome
      BY <1>1, <2>1 DEF Retry
    <3>2. attempt' \in 0..Retries
      BY <2>1, <3>1, ScriptAssumption DEF TypeOK
    <3>3. TypeOK'
      BY <1>1, <1>2, <1>3, <3>1, <3>2 DEF TypeOK
    <3>4. Current' = Current
      BY <1>2, <3>1 DEF Current
    <3>5. StageShape' /\ DeadlineSet' /\ LinkInOrder'
      BY <1>1, <1>2, <3>1, <3>4 DEF StageShape, DeadlineSet, LinkInOrder
    <3>6. BatchAccounted'
      BY <1>1, <1>2, <3>1, <3>4 DEF BatchAccounted, Accounted
    <3>7. QED
      BY <3>3, <3>5, <3>6
  <2>2. CASE ~(attempt < Retries)
    <3>1. Throw("failed") /\ attempt' = attempt
      BY <1>1, <2>2 DEF Retry
    <3>2. /\ StageShape' /\ BatchAccounted' /\ DeadlineSet'
          /\ stage' \in {"idle", "cleanup"} /\ pc' = "prepare"
          /\ outcome' \in {"none", "completed", "acknowledged", "rejected", "failed"}
      BY <1>1, <1>2, <3>1, ThrowPreserves
    <3>3. TypeOK'
      BY <1>1, <1>2, <1>3, <3>1, <3>2 DEF TypeOK
    <3>4. LinkInOrder'
      BY <1>1, <1>2, <3>2 DEF LinkInOrder
    <3>5. QED
      BY <3>2, <3>3, <3>4
  <2>3. QED
    BY <2>1, <2>2
<1>5. QED
  BY <1>3, <1>4

(* A refusal is an exception. *)
LEMMA NackPreservesInv ==
    ASSUME Inv, TakeNack
    PROVE  Inv'
<1> USE LinkTypes DEF Inv
<1>1. /\ pc = "wait" /\ stage \notin {"idle", "collect"} /\ answers # <<>>
      /\ Throw("failed") /\ answers' = Tail(answers)
      /\ cleaned' \in BOOLEAN
      /\ UNCHANGED <<transaction, exchange, written, device, toDevice>>
  BY DEF TakeNack, StageShape
<1>2. UNCHANGED <<script, rest, segment, done, first, calls, number, attempt, deadline,
                  batchMs, collecting, collected, collectedMs, executed, last>>
  BY <1>1 DEF transaction, exchange, device
<1>3. /\ StageShape' /\ BatchAccounted' /\ DeadlineSet'
      /\ stage' \in {"idle", "cleanup"} /\ pc' = "prepare"
      /\ outcome' \in {"none", "completed", "acknowledged", "rejected", "failed"}
  BY <1>1, <1>2, ThrowPreserves
<1>4. answers' \in Seq(Answers) /\ AnswerIsVerdict'
  BY <1>1, <1>2, TakenAnswer DEF AnswerIsVerdict
<1>5. TypeOK'
  BY <1>1, <1>2, <1>3, <1>4 DEF TypeOK
<1>6. LinkInOrder'
  BY <1>1, <1>2, <1>3 DEF LinkInOrder
<1>7. QED
  BY <1>3, <1>4, <1>5, <1>6

(* An acknowledged exchange is accounted for, and the next one begins with *)
(* the device at the same point.                                           *)
LEMMA AckPreservesInv ==
    ASSUME Inv, TakeAck
    PROVE  Inv'
<1> USE LinkTypes DEF Inv
<1>1. /\ pc = "wait" /\ stage \notin {"idle", "collect"} /\ answers # <<>>
      /\ Head(answers) = "ack" /\ answers' = Tail(answers)
      /\ Succeed /\ batchMs' = Recorded(Current, batchMs)
      /\ cleaned' \in BOOLEAN
      /\ UNCHANGED <<script, rest, first, calls, number, attempt, deadline, written, device,
                     toDevice>>
  BY DEF TakeAck, StageShape
<1>2. UNCHANGED <<collecting, collected, collectedMs, executed, last>>
  BY <1>1 DEF device
<1>3. answers' \in Seq(Answers) /\ AnswerIsVerdict' /\ last.number = number /\ last.answer = "ack"
  BY <1>1, <1>2, TakenAnswer DEF AnswerIsVerdict
<1>4. pc' = "prepare" /\ Current \in Command
  BY <1>1, CurrentIsCommand DEF Succeed
<1>5. /\ stage' \in {"idle", "collect", "body", "end"}
      /\ stage' \in {"body", "end"} => stage \in {"begin", "body"} /\ segment' = segment
      /\ segment' \in {segment, <<>>}
      /\ done' \in 0..Len(segment')
      /\ stage' = "body" => done' < Len(segment')
      /\ outcome' \in {"acknowledged", outcome}
  <2>1. segment \in Seq(Line) /\ done \in 0..Len(segment) /\ (stage = "body" => done < Len(segment))
    BY DEF TypeOK
  <2>2. CASE stage = "begin"
    <3>1. segment # <<>> /\ Len(segment) > 0
      BY <2>1, <2>2 DEF StageShape
    <3>2. QED
      BY <1>1, <2>1, <2>2, <3>1 DEF Succeed
  <2>3. CASE stage = "body"
    BY <1>1, <2>1, <2>3 DEF Succeed
  <2>4. CASE stage \in {"end", "stop", "command", "cleanup"}
    BY <1>1, <2>1, <2>4 DEF Succeed
  <2>5. QED
    BY <1>1, <2>2, <2>3, <2>4 DEF TypeOK
<1>6. TypeOK'
  <2>1. batchMs' \in Nat \cup {NoBatch}
    BY <1>1, <1>4, RecordedIsBatch DEF TypeOK
  <2>2. segment' \in Seq(Line)
    <3>1. segment \in Seq(Line) /\ <<>> \in Seq(Line)
      BY DEF TypeOK
    <3>2. QED
      BY <1>5, <3>1, Zenon
  <2>3. QED
    BY <1>1, <1>2, <1>3, <1>4, <1>5, <2>1, <2>2 DEF TypeOK
<1>7. StageShape'
  BY <1>4, <1>5 DEF StageShape
<1>8. BatchAccounted'
  <2>1. CASE stage = "begin"
    <3>1. batchMs' = 0 /\ Accounted(0)
      BY <1>1, <1>3, <2>1 DEF BatchAccounted, Current, Control, Recorded
    <3>2. QED
      BY <1>1, <1>2, <1>3, <1>4, <3>1 DEF BatchAccounted, Accounted
  <2>2. CASE stage = "body"
    <3>1. batchMs \in Nat /\ Accounted(batchMs')
      BY <1>1, <1>3, <2>2 DEF BatchAccounted
    <3>2. batchMs' \in Nat
      BY <1>1, <1>4, <2>2, <3>1, RecordedCounts, CurrentIsCommand
    <3>3. QED
      BY <1>1, <1>2, <1>3, <1>4, <3>1, <3>2 DEF BatchAccounted, Accounted
  <2>3. CASE stage \notin {"begin", "body"}
    BY <1>4, <1>5, <2>3 DEF BatchAccounted
  <2>4. QED
    BY <2>1, <2>2, <2>3
<1>9. DeadlineSet' /\ LinkInOrder'
  BY <1>1, <1>2, <1>4 DEF DeadlineSet, LinkInOrder
<1>10. QED
  BY <1>3, <1>6, <1>7, <1>8, <1>9

(* The device takes the first frame off the link; its answer, if it is to  *)
(* the exchange that waits and is not lost, comes behind the others.       *)
LEMMA ReceivedFrame ==
    ASSUME Inv, toDevice # <<>>, Receive,
           NEW kind \in Answers, Answer(Head(toDevice), kind),
           UNCHANGED <<stage, pc, transaction, exchange, verdict>>
    PROVE  /\ Head(toDevice).number \in last.number..number
           /\ Head(toDevice).line \in Command
           /\ Head(toDevice) \in Frame
           /\ Head(toDevice).number = number /\ pc # "prepare" =>
                 Head(toDevice).line = Current
           /\ toDevice' \in Seq(Frame) /\ Len(toDevice') <= LinkCapacity
           /\ \A i \in DOMAIN toDevice' :
                 /\ toDevice'[i].number \in Head(toDevice).number..number
                 /\ toDevice'[i].number = number /\ pc # "prepare" =>
                       toDevice'[i].line = Current
                 /\ \E j \in DOMAIN toDevice : toDevice'[i] = toDevice[j]
           /\ \A i, j \in DOMAIN toDevice' :
                 i < j => toDevice'[i].number <= toDevice'[j].number
           /\ answers' \in Seq(Answers)
           /\ \A i \in DOMAIN answers' :
                 \/ i \in DOMAIN answers /\ answers'[i] = answers[i]
                 \/ answers'[i] = kind /\ Head(toDevice).number = number
           /\ Current' = Current
           /\ StageShape' /\ DeadlineSet'
<1> USE LinkTypes DEF Inv
<1>1. toDevice \in Seq(Frame) /\ toDevice' = Tail(toDevice)
  BY DEF Receive
<1>2. /\ toDevice' \in Seq(Frame) /\ Len(toDevice') = Len(toDevice) - 1
      /\ 1 \in DOMAIN toDevice /\ Head(toDevice) = toDevice[1]
      /\ \A i \in DOMAIN toDevice' :
            i + 1 \in DOMAIN toDevice /\ toDevice'[i] = toDevice[i + 1] /\ i \in Nat /\ 1 < i + 1
  BY <1>1
<1>3. /\ Head(toDevice) \in Frame /\ Head(toDevice).line \in Command
      /\ Head(toDevice).number \in last.number..number
      /\ Head(toDevice).number = number /\ pc # "prepare" => Head(toDevice).line = Current
  BY <1>2 DEF LinkInOrder
<1>4. Len(toDevice') <= LinkCapacity
  BY <1>1, <1>2, ScriptAssumption DEF TypeOK
<1>5. ASSUME NEW i \in DOMAIN toDevice'
      PROVE  /\ toDevice'[i].number \in Head(toDevice).number..number
             /\ toDevice'[i].number = number /\ pc # "prepare" => toDevice'[i].line = Current
             /\ \E j \in DOMAIN toDevice : toDevice'[i] = toDevice[j]
  BY <1>2 DEF LinkInOrder
<1>6. ASSUME NEW i \in DOMAIN toDevice', NEW j \in DOMAIN toDevice', i < j
      PROVE  toDevice'[i].number <= toDevice'[j].number
  <2>1. i + 1 \in DOMAIN toDevice /\ j + 1 \in DOMAIN toDevice /\ i + 1 < j + 1
    BY <1>2, <1>6
  <2>2. toDevice[i + 1].number <= toDevice[j + 1].number
    BY <2>1 DEF LinkInOrder
  <2>3. QED
    BY <1>2, <2>2
<1>7. /\ answers' \in Seq(Answers)
      /\ \A i \in DOMAIN answers' :
            \/ i \in DOMAIN answers /\ answers'[i] = answers[i]
            \/ answers'[i] = kind /\ Head(toDevice).number = number
  <2>1. CASE answers' = answers
    BY <2>1
  <2>2. CASE answers' = Append(answers, kind) /\ Head(toDevice).number = number
    BY <2>2, AppendProperties
  <2>3. QED
    BY <2>1, <2>2 DEF Answer
<1>8. Current' = Current
  BY DEF Current, transaction
<1>9. StageShape' /\ DeadlineSet'
  BY DEF StageShape, DeadlineSet, transaction, exchange
<1>10. QED
  BY <1>2, <1>3, <1>4, <1>5, <1>6, <1>7, <1>8, <1>9

(* A frame that is answered without being carried out changes no account.  *)
LEMMA IdleDevicePreservesInv ==
    ASSUME Inv, DeviceRepeat \/ DeviceBusy
    PROVE  Inv'
<1> USE LinkTypes DEF Inv
<1>1. /\ toDevice # <<>> /\ Receive
      /\ UNCHANGED <<stage, pc, transaction, exchange, verdict, device>>
  BY DEF DeviceRepeat, DeviceBusy
<1>2. \E kind \in Answers :
         /\ Answer(Head(toDevice), kind)
         /\ kind # "busy" => Head(toDevice).number = last.number /\ kind = last.answer
  BY DEF DeviceRepeat, DeviceBusy, Answers
<1>3. PICK kind \in Answers :
         /\ Answer(Head(toDevice), kind)
         /\ kind # "busy" => Head(toDevice).number = last.number /\ kind = last.answer
  BY <1>2
<1>4. /\ toDevice' \in Seq(Frame) /\ Len(toDevice') <= LinkCapacity
      /\ Head(toDevice).number \in last.number..number
      /\ \A i \in DOMAIN toDevice' :
            /\ toDevice'[i].number \in Head(toDevice).number..number
            /\ toDevice'[i].number = number /\ pc # "prepare" => toDevice'[i].line = Current
            /\ \E j \in DOMAIN toDevice : toDevice'[i] = toDevice[j]
      /\ \A i, j \in DOMAIN toDevice' : i < j => toDevice'[i].number <= toDevice'[j].number
      /\ answers' \in Seq(Answers)
      /\ \A i \in DOMAIN answers' :
            \/ i \in DOMAIN answers /\ answers'[i] = answers[i]
            \/ answers'[i] = kind /\ Head(toDevice).number = number
      /\ Current' = Current /\ StageShape' /\ DeadlineSet'
  BY <1>1, <1>3, ReceivedFrame
<1>5. UNCHANGED <<stage, pc, script, rest, segment, done, first, calls, number, attempt,
                  deadline, batchMs, outcome, cleaned, written, collecting, collected,
                  collectedMs, executed, last>>
  BY <1>1 DEF transaction, exchange, verdict, device
<1>6. TypeOK'
  BY <1>4, <1>5 DEF TypeOK
<1>7. LinkInOrder'
  <2>1. \A i \in DOMAIN toDevice' :
           last.number <= toDevice'[i].number /\ toDevice'[i].number <= number
    BY <1>4
  <2>2. last.number <= number
    BY DEF LinkInOrder
  <2>3. QED
    BY <1>4, <1>5, <2>1, <2>2 DEF LinkInOrder
<1>8. AnswerIsVerdict'
  BY <1>3, <1>4, <1>5 DEF AnswerIsVerdict
<1>9. BatchAccounted'
  BY <1>4, <1>5 DEF BatchAccounted, Accounted
<1>10. QED
  BY <1>4, <1>6, <1>7, <1>8, <1>9

(* A frame that is carried out or refused is the one of the exchange that  *)
(* waits, if the call is in a batch; the account then includes it.         *)
LEMMA ActiveDevicePreservesInv ==
    ASSUME Inv, DeviceRefuse \/ DeviceExecute
    PROVE  Inv'
<1> USE LinkTypes DEF Inv
<1> DEFINE frame == Head(toDevice)
           line == frame.line
<1>1. /\ toDevice # <<>> /\ Receive /\ frame.number # last.number
      /\ UNCHANGED <<stage, pc, transaction, exchange, verdict>>
      /\ last' = [number |-> frame.number, answer |-> last'.answer]
      /\ last'.answer \in {"ack", "nack"}
      /\ Answer(frame, last'.answer)
  BY DEF DeviceRefuse, DeviceExecute
<1>2. UNCHANGED <<stage, pc, script, rest, segment, done, first, calls, number, attempt,
                  deadline, batchMs, outcome, cleaned, written>>
  BY <1>1 DEF transaction, exchange, verdict
<1>3. /\ frame.number \in last.number..number /\ line \in Command /\ frame \in Frame
      /\ frame.number = number /\ pc # "prepare" => line = Current
      /\ toDevice' \in Seq(Frame) /\ Len(toDevice') <= LinkCapacity
      /\ \A i \in DOMAIN toDevice' :
            /\ toDevice'[i].number \in frame.number..number
            /\ toDevice'[i].number = number /\ pc # "prepare" => toDevice'[i].line = Current
            /\ \E j \in DOMAIN toDevice : toDevice'[i] = toDevice[j]
      /\ \A i, j \in DOMAIN toDevice' : i < j => toDevice'[i].number <= toDevice'[j].number
      /\ answers' \in Seq(Answers)
      /\ \A i \in DOMAIN answers' :
            \/ i \in DOMAIN answers /\ answers'[i] = answers[i]
            \/ answers'[i] = last'.answer /\ frame.number = number
      /\ Current' = Current /\ StageShape' /\ DeadlineSet'
  <2>1. last'.answer \in Answers
    BY <1>1 DEF Answers
  <2>2. QED
    BY <1>1, <2>1, ReceivedFrame
<1>4. last'.number = frame.number /\ last.number < number /\ last' \in [number : Nat, answer : {"ack", "nack"}]
  BY <1>1, <1>3
<1>5. LinkInOrder'
  <2>1. \A i \in DOMAIN toDevice' :
           last'.number <= toDevice'[i].number /\ toDevice'[i].number <= number
    BY <1>3, <1>4
  <2>2. last'.number <= number
    BY <1>3, <1>4
  <2>3. QED
    BY <1>2, <1>3, <2>1, <2>2 DEF LinkInOrder
<1>6. AnswerIsVerdict'
  BY <1>2, <1>3, <1>4 DEF AnswerIsVerdict
<1>7. /\ collecting' \in BOOLEAN /\ collected' \in Seq(Command) /\ collectedMs' \in Nat
      /\ executed' \in Seq(Command)
  <2>1. /\ collecting \in BOOLEAN /\ collected \in Seq(Command) /\ collectedMs \in Nat
        /\ executed \in Seq(Command) /\ <<>> \in Seq(Command)
    BY DEF TypeOK
  <2>2. CASE DeviceRefuse
    BY <2>1, <2>2 DEF DeviceRefuse
  <2>3. CASE DeviceExecute
    <3>1. /\ collected \o Remembered(frame) \in Seq(Command)
          /\ executed \o Remembered(frame) \in Seq(Command)
          /\ executed \o collected \in Seq(Command)
      <4>1. Remembered(frame) \in Seq(Command)
        BY <1>3 DEF Remembered
      <4>2. QED
        BY <2>1, <4>1, ConcatProperties
    <3>2. Timed(line) => collectedMs + Duration(line) \in Nat
      BY <1>3, <2>1, DurationIsNat
    <3>3. CASE line.type = "batch_begin"
      <4>1. /\ collecting' = TRUE /\ collected' = <<>> /\ collectedMs' = 0
            /\ executed' = executed
        BY <2>3, <3>3 DEF DeviceExecute
      <4>2. QED
        BY <2>1, <4>1
    <3>4. CASE line.type = "batch_end"
      <4>1. /\ collecting' = FALSE /\ collected' = <<>> /\ collectedMs' = 0
            /\ executed' = executed \o collected
        BY <2>3, <3>4 DEF DeviceExecute
      <4>2. QED
        BY <2>1, <3>1, <4>1
    <3>5. CASE line.type = "stop_all"
      <4>1. /\ collecting' = FALSE /\ collected' = <<>> /\ collectedMs' = 0
            /\ executed' = executed
        BY <2>3, <3>5 DEF DeviceExecute
      <4>2. QED
        BY <2>1, <4>1
    <3>6. CASE line.type \notin {"batch_begin", "batch_end", "stop_all"}
      BY <2>1, <2>3, <3>1, <3>2, <3>6 DEF DeviceExecute
    <3>7. QED
      BY <3>3, <3>4, <3>5, <3>6
  <2>4. QED
    BY <2>2, <2>3
<1>8. TypeOK'
  BY <1>2, <1>3, <1>4, <1>7 DEF TypeOK
<1>9. BatchAccounted'
  <2>1. CASE DeviceRefuse
    <3>1. last'.answer = "nack" /\ UNCHANGED <<collecting, collectedMs>>
      BY <2>1 DEF DeviceRefuse
    <3>2. QED
      BY <1>2, <1>3, <1>4, <3>1 DEF BatchAccounted, Accounted
  <2>2. CASE DeviceExecute /\ stage = "begin" /\ pc # "prepare"
    <3>1. CASE frame.number = number
      <4>1. line.type = "batch_begin"
        BY <1>3, <2>2, <3>1 DEF Current, Control
      <4>2. collectedMs' = 0
        BY <2>2, <4>1 DEF DeviceExecute
      <4>3. QED
        BY <1>2, <2>2, <4>2 DEF BatchAccounted, Accounted
    <3>2. CASE frame.number # number
      BY <1>2, <1>4, <2>2, <3>2 DEF BatchAccounted
    <3>3. QED
      BY <3>1, <3>2
  <2>3. CASE DeviceExecute /\ stage \in {"body", "end"}
    <3>1. pc # "prepare" /\ frame.number = number /\ line = Current
      <4>1. 1 \in DOMAIN toDevice /\ frame = toDevice[1]
        BY <1>1
      <4>2. pc # "prepare" /\ frame.number \in {last.number, number}
        BY <1>4, <2>3, <4>1 DEF BatchAccounted
      <4>3. QED
        BY <1>1, <1>3, <4>2
    <3>2. batchMs \in Nat /\ Accounted(batchMs)
      BY <1>4, <2>3, <3>1 DEF BatchAccounted
    <3>3. last'.number = number
      BY <1>4, <3>1
    <3>4. CASE stage = "end"
      <4>1. line.type = "batch_end"
        BY <2>3, <3>1, <3>4 DEF Current, Control
      <4>2. collecting' = FALSE /\ last'.answer = "ack"
        BY <2>3, <4>1 DEF DeviceExecute, IsStop
      <4>3. QED
        BY <1>2, <3>1, <3>2, <3>3, <3>4, <4>2 DEF BatchAccounted
    <3>5. CASE stage = "body"
      <4>1. line.type \notin {"batch_begin", "batch_end", "stop_all"}
        BY <3>1, <3>5, CurrentIsCommand
      <4>2. /\ collecting' = collecting /\ last'.answer = "ack"
            /\ collectedMs' = IF collecting /\ Timed(line)
                              THEN collectedMs + Duration(line) ELSE collectedMs
        BY <2>3, <4>1 DEF DeviceExecute, IsStop
      <4>3. /\ Recorded(line, batchMs) \in Nat /\ batchMs <= Recorded(line, batchMs)
            /\ Timed(line) => Recorded(line, batchMs) = batchMs + Duration(line)
        BY <1>3, <3>2, <4>1, RecordedCounts
      <4>4. collectedMs \in Nat /\ (Timed(line) => Duration(line) \in Nat)
        BY <1>3, DurationIsNat DEF TypeOK
      <4>5. collecting' => collectedMs' <= Recorded(line, batchMs)
        BY <3>2, <4>2, <4>3, <4>4 DEF Accounted
      <4>6. Recorded(line, batchMs) = Recorded(Current, batchMs)'
        BY <1>2, <1>3, <3>1
      <4>7. QED
        BY <1>2, <3>1, <3>2, <3>3, <3>5, <4>2, <4>5, <4>6 DEF BatchAccounted, Accounted
    <3>6. QED
      BY <2>3, <3>4, <3>5
  <2>4. CASE stage \notin {"begin", "body", "end"} \/ (stage = "begin" /\ pc = "prepare")
    BY <1>2, <2>4 DEF BatchAccounted
  <2>5. QED
    BY <2>1, <2>2, <2>3, <2>4
<1>10. QED
  BY <1>3, <1>5, <1>6, <1>8, <1>9

-------------------------------------------------------------------------------
(* Theorems. *)

(* A step that changes nothing preserves Inv. *)
LEMMA StutterPreservesInv ==
    ASSUME Inv, UNCHANGED vars
    PROVE  Inv'
<1>1. UNCHANGED <<stage, pc, script, rest, segment, done, first, calls, number, attempt,
                  deadline, batchMs, outcome, cleaned, written, toDevice, answers,
                  collecting, collected, collectedMs, executed, last>>
  BY DEF vars, transaction, exchange, verdict, device, link
<1>2. TypeOK'
  BY <1>1 DEF Inv, TypeOK
<1>3. Current' = Current
  BY <1>1 DEF Current
<1>4. StageShape' /\ LinkInOrder' /\ AnswerIsVerdict' /\ DeadlineSet'
  BY <1>1, <1>3 DEF Inv, StageShape, LinkInOrder, AnswerIsVerdict, DeadlineSet
<1>5. BatchAccounted'
  BY <1>1, <1>3 DEF Inv, BatchAccounted, Accounted
<1>6. QED
  BY <1>2, <1>4, <1>5 DEF Inv

(* The inductive invariant: the device lags behind the client by no more   *)
(* than the exchange that waits, and while the call is in a batch, the     *)
(* client's account is at least the duration the device has collected.     *)
THEOREM InvHolds == Spec => []Inv
<1>1. Init => Inv
  BY InitInv
<1>2. Inv /\ [Next]_vars => Inv'
  <2> SUFFICES ASSUME Inv, [Next]_vars PROVE Inv'
    OBVIOUS
  <2>1. CASE (\E lines \in Scripts : RunScript(lines))
             \/ (\E command \in Commands : RunCommand(command))
    BY <2>1, CallPreservesInv
  <2>2. CASE Collect \/ Flush \/ StopLine \/ Return
    BY <2>2, LoopPreservesInv
  <2>3. CASE RejectText \/ RejectLength \/ Break
    BY <2>3, FailurePreservesInv
  <2>4. CASE Prepare \/ Write
    BY <2>4, SendPreservesInv
  <2>5. CASE TimeOut \/ TakeBusy
    BY <2>5, RetryPreservesInv
  <2>6. CASE TakeNack
    BY <2>6, NackPreservesInv
  <2>7. CASE TakeAck
    BY <2>7, AckPreservesInv
  <2>8. CASE DeviceRepeat \/ DeviceBusy
    BY <2>8, IdleDevicePreservesInv
  <2>9. CASE DeviceRefuse \/ DeviceExecute
    BY <2>9, ActiveDevicePreservesInv
  <2>10. CASE UNCHANGED vars
    BY <2>10, StutterPreservesInv
  <2>11. QED
    BY <2>1, <2>2, <2>3, <2>4, <2>5, <2>6, <2>7, <2>8, <2>9, <2>10 DEF Next
<1>3. QED
  BY <1>1, <1>2, PTL DEF Spec

(* Type correctness; in particular every deadline fits 32 bits, and        *)
(* send_command_for_generation makes no more than retries + 1 attempts.    *)
THEOREM TypeCorrect == Spec => []TypeOK
<1>1. Inv => TypeOK
  BY DEF Inv
<1>2. QED
  BY <1>1, InvHolds, PTL

(* The wait for BATCH_END covers what the device has collected, for any    *)
(* script, whatever was lost, refused or repeated before.                  *)
THEOREM BatchIsCovered == Spec => []DeadlineCoversBatch
<1>1. Inv => DeadlineCoversBatch
  <2> SUFFICES ASSUME Inv, pc = "wait", stage = "end", collecting
               PROVE  deadline >= Smaller(MaxMs, collectedMs + 1000)
    BY DEF DeadlineCoversBatch
  <2>1. batchMs \in Nat /\ collectedMs <= batchMs
    <3>1. last.answer \in {"ack", "nack"}
      BY LinkTypes DEF Inv
    <3>2. QED
      BY <3>1 DEF Inv, BatchAccounted, Accounted
  <2>2. deadline >= Smaller(MaxMs, batchMs + 1000)
    BY <2>1, EndIsCovered DEF Inv, DeadlineSet
  <2>3. collectedMs \in Nat /\ deadline \in Nat
    BY DeadlineAssumption DEF Inv, TypeOK
  <2>4. QED
    BY <2>1, <2>2, <2>3, DeadlineAssumption DEF Smaller
<1>2. QED
  BY <1>1, InvHolds, PTL

(* The STOP_ALL of a cleanup ends the batch, and what was answered stays so. *)
LEMMA CleanupSettles == Spec => []CleanupSettled
<1>1. Init => CleanupSettled
  BY DEF Init, CleanupSettled
<1>2. Inv /\ CleanupSettled /\ [Next]_vars => CleanupSettled'
  <2> SUFFICES ASSUME Inv, CleanupSettled, [Next]_vars PROVE CleanupSettled'
    OBVIOUS
  <2> USE LinkTypes DEF Inv, CleanupSettled
  <2>1. CASE (\E lines \in Scripts : RunScript(lines))
             \/ (\E command \in Commands : RunCommand(command))
    <3>1. cleaned' = FALSE /\ pc' = "prepare"
      BY <2>1 DEF RunScript, RunCommand, StartCall
    <3>2. QED
      BY <3>1
  <2>2. CASE Collect \/ Flush \/ StopLine \/ Return
    <3>1. stage = "collect" /\ pc' = pc /\ cleaned' = cleaned /\ pc = "prepare"
      BY <2>2 DEF Collect, Flush, StopLine, Return, verdict, StageShape, TypeOK
    <3>2. QED
      BY <3>1
  <2>3. CASE RejectText \/ RejectLength \/ Break
    <3>1. stage # "idle" /\ pc' = "prepare" /\ cleaned' = cleaned
      BY <2>3 DEF RejectText, RejectLength, Break, Throw
    <3>2. QED
      BY <3>1
  <2>4. CASE Prepare
    <3>1. stage # "idle" /\ cleaned' = cleaned /\ number' = number + 1 /\ last' = last
      BY <2>4 DEF Prepare, verdict, device
    <3>2. last.number < number'
      BY <3>1 DEF LinkInOrder
    <3>3. QED
      BY <3>1, <3>2
  <2>5. CASE Write
    BY <2>5 DEF Write, exchange, device
  <2>6. CASE TimeOut \/ TakeBusy
    <3>1. /\ pc = "wait" /\ cleaned' = cleaned /\ number' = number
          /\ stage' = stage \/ pc' = "prepare"
          /\ last' = last /\ collecting' = collecting
      BY <2>6 DEF TimeOut, TakeBusy, Retry, Throw, device
    <3>2. QED
      BY <3>1
  <2>7. CASE TakeNack \/ TakeAck
    <3>1. /\ pc = "wait" /\ pc' = "prepare" /\ cleaned' = (stage = "cleanup")
          /\ stage = "cleanup" => stage' = "idle"
          /\ last' = last /\ collecting' = collecting /\ number' = number
      BY <2>7 DEF TakeNack, TakeAck, Throw, Succeed, exchange, device
    <3>2. last.number = number
      <4>1. answers # <<>> /\ Head(answers) # "busy"
        BY <2>7 DEF TakeNack, TakeAck
      <4>2. QED
        BY <4>1, TakenAnswer
    <3>3. QED
      BY <3>1, <3>2
  <2>8. CASE DeviceRepeat \/ DeviceBusy
    BY <2>8 DEF DeviceRepeat, DeviceBusy, exchange, verdict, device
  <2>9. CASE DeviceRefuse \/ DeviceExecute
    <3> DEFINE frame == Head(toDevice)
    <3>1. /\ toDevice # <<>> /\ frame.number # last.number /\ last'.number = frame.number
          /\ UNCHANGED <<stage, pc, number, cleaned>>
      BY <2>9 DEF DeviceRefuse, DeviceExecute, exchange, verdict
    <3>2. 1 \in DOMAIN toDevice /\ frame = toDevice[1]
      BY <3>1
    <3>3. last.number < frame.number /\ frame.number <= number
      BY <3>1, <3>2 DEF LinkInOrder
    <3>4. ~cleaned
      <4>1. frame.number \in Nat /\ last.number \in Nat /\ number \in Nat
        BY <3>2
      <4>2. last.number # number
        BY <3>3, <4>1
      <4>3. QED
        BY <4>2
    <3>5. CASE stage = "cleanup" /\ pc # "prepare" /\ frame.number = number
      <4>1. frame.line.type = "stop_all"
        BY <3>2, <3>5 DEF LinkInOrder, Current, Control
      <4>2. collecting' = FALSE
        BY <2>9, <4>1 DEF DeviceRefuse, DeviceExecute, IsStop
      <4>3. QED
        BY <3>1, <3>4, <4>2
    <3>6. CASE ~(stage = "cleanup" /\ pc # "prepare" /\ frame.number = number)
      BY <3>1, <3>4, <3>6
    <3>7. QED
      BY <3>5, <3>6
  <2>10. CASE UNCHANGED vars
    BY <2>10 DEF vars, exchange, verdict, device
  <2>11. QED
    BY <2>1, <2>2, <2>3, <2>4, <2>5, <2>6, <2>7, <2>8, <2>9, <2>10 DEF Next
<1>3. QED
  BY <1>1, <1>2, InvHolds, PTL DEF Spec

(* Once the STOP_ALL after a failure was answered, the device has no batch *)
(* and will get nothing of the script that it has not seen.                *)
THEOREM CleanupQuiets == Spec => []CleanedMeansQuiet
<1>1. Inv /\ CleanupSettled => CleanedMeansQuiet
  <2> SUFFICES ASSUME Inv, CleanupSettled, cleaned
               PROVE  /\ ~collecting
                      /\ \A i \in DOMAIN toDevice : toDevice[i].number = last.number
    BY DEF CleanedMeansQuiet
  <2>1. last.number = number /\ ~collecting
    BY DEF CleanupSettled
  <2>2. QED
    BY <2>1, LinkTypes DEF Inv, LinkInOrder
<1>2. QED
  BY <1>1, CleanupSettles, InvHolds, PTL

-------------------------------------------------------------------------------
(***************************************************************************)
(* Whole segments.  Whatever is lost, refused or repeated, the device      *)
(* executes whole segments of a script, in order and once, and all of them *)
(* if run_script returned.                                                 *)
(*                                                                         *)
(* The argument: a script is what is behind it (Base lines), its segment   *)
(* and its rest.  The device has executed what is behind, or the segment   *)
(* as well; and whatever frame of the call it has not seen yet, it may     *)
(* carry out: at most one of them is not a STOP_ALL, and that one was sent *)
(* when the device was ready for it.                                       *)
(***************************************************************************)

(* The lines of the script in front of the segment, and of the rest. *)
Base == Len(script) - Len(rest) - Len(segment)
Until == Base + Len(segment)

CutInLines ==
    /\ Base \in Nat
    /\ \A i \in DOMAIN segment : segment[i] = script[Base + i]
    /\ \A i \in DOMAIN rest : rest[i] = script[Until + i]
    /\ Boundary(Base)
    /\ stage \in {"begin", "body", "end"} => Boundary(Until)

(* The device's batch is that of the segment, and has its first n lines. *)
Batched(n) ==
    /\ collecting /\ last.number >= first
    /\ ExecutedUpTo(Base)
    /\ Len(collected) = n /\ \A i \in 1..n : collected[i] = segment[i]

Emptied == collected = <<>> /\ ExecutedUpTo(Base)

(* The device can carry out a line without harm. *)
Ready(line) ==
    /\ line.type = "batch_begin" => Emptied
    /\ line.type = "batch_end" => Batched(Len(segment)) /\ Boundary(Until)
    /\ line.type \notin {"stop_all", "batch_begin", "batch_end"} =>
          collecting /\ last.number >= first /\ ExecutedUpTo(Base)

(* A frame of this call that the device has neither carried out nor        *)
(* refused.                                                                *)
Unseen(i) == toDevice[i].number > last.number /\ toDevice[i].number >= first

UnseenReady ==
    /\ \A i \in DOMAIN toDevice : Unseen(i) => Ready(toDevice[i].line)
    /\ \A i, j \in DOMAIN toDevice :
          Unseen(i) /\ toDevice[i].number < toDevice[j].number => IsStop(toDevice[j].line)
    /\ pc # "prepare" /\ last.number < number => Ready(Current)

(* The device has seen every frame of the call, and has no batch if there  *)
(* was one.                                                                *)
Settled == number = first - 1 \/ (last.number = number /\ ~collecting)

(* What the device has done by each stage of a call that has not failed.   *)
StageReached ==
    /\ stage = "collect" => Settled /\ Emptied
    /\ stage \in {"begin", "stop"} /\ pc = "prepare" => Settled /\ Emptied
    /\ stage \in {"begin", "stop"} /\ last.number < number => Emptied
    /\ stage \in {"body", "end"} /\ (pc = "prepare" \/ last.number < number) => Batched(done)
    /\ stage = "begin" => done = 0
    /\ stage = "end" => done = Len(segment)

(* During an exchange of such a call no other frame of it is unseen, and   *)
(* an acknowledgement means what it says.                                  *)
ExchangeReached ==
    stage \in {"begin", "body", "end", "stop"} /\ pc # "prepare" =>
        /\ \A i \in DOMAIN toDevice : Unseen(i) => toDevice[i].number = number
        /\ last.number = number /\ last.answer = "ack" =>
              /\ stage = "begin" => Batched(0)
              /\ stage = "body" => Batched(done + 1)
              /\ stage = "end" => ~collecting /\ collected = <<>> /\ ExecutedUpTo(Until)
              /\ stage = "stop" => ~collecting /\ Emptied

(* A call of run_script, until the next call. *)
ScriptCall ==
    /\ stage # "command"
    /\ CutInLines
    /\ number >= first - 1
    /\ pc # "prepare" \/ written => number >= first
    /\ last.number < first => executed = <<>> /\ collected = <<>>
    /\ ExecutedUpTo(Base) \/ (ExecutedUpTo(Until) /\ Boundary(Until))
    /\ UnseenReady
    /\ StageReached /\ ExchangeReached
    /\ outcome = "completed" =>
          stage = "idle" /\ rest = <<>> /\ segment = <<>> /\ Settled /\ ExecutedUpTo(Base)

(* A command of its own, until the next call. *)
CommandCall ==
    /\ stage \in {"command", "idle"}
    /\ outcome # "completed"
    /\ Len(script) = 1
    /\ number \in {first - 1, first}
    /\ stage = "command" => (pc = "prepare" <=> number = first - 1)
    /\ \A i \in DOMAIN toDevice : toDevice[i].number >= first => toDevice[i].line = script[1]
    /\ last.number < first => executed = <<>> /\ collected = <<>>
    /\ executed = <<>> \/ (executed = script /\ ~IsStop(script[1]))

CallInv == ScriptCall \/ CommandCall
SegmentInv == Inv /\ first \in Nat /\ CallInv

-------------------------------------------------------------------------------
(* What was executed.                                                      *)

(* Nothing executed is the execution of no lines. *)
LEMMA ExecutedNone ==
    ASSUME executed = <<>>
    PROVE  ExecutedUpTo(0)
<1>1. [i \in {} |-> 0] \in [DOMAIN executed -> {k \in 1..0 : ~IsStop(script[k])}]
  OBVIOUS
<1>2. DOMAIN executed = {} /\ {k \in 1..0 : ~IsStop(script[k])} = {}
  OBVIOUS
<1>3. QED
  BY <1>1, <1>2 DEF ExecutedUpTo

(* The same of the next state. *)
LEMMA ExecutedNoneNext == executed' = <<>> => ExecutedUpTo(0)'
<1>1. (executed = <<>> => ExecutedUpTo(0))'
  BY ExecutedNone, PTL
<1>2. QED
  BY <1>1

(* There is nothing to execute in a stop line. *)
LEMMA ExecutedStop ==
    ASSUME NEW n \in Nat, ExecutedUpTo(n), IsStop(script[n + 1])
    PROVE  ExecutedUpTo(n + 1)
<1>1. {k \in 1..(n + 1) : ~IsStop(script[k])} = {k \in 1..n : ~IsStop(script[k])}
  OBVIOUS
<1>2. QED
  BY <1>1, Zenon DEF ExecutedUpTo

(* The same lines were executed. *)
LEMMA ExecutedSame ==
    ASSUME NEW n, executed' = executed, script' = script
    PROVE  ExecutedUpTo(n)' <=> ExecutedUpTo(n)
BY DEF ExecutedUpTo, IsStop

(* A segment executed behind n lines makes n lines and the segment. *)
LEMMA ExecutedMore ==
    ASSUME NEW n \in Nat, NEW s \in Seq(Line), ExecutedUpTo(n),
           executed \in Seq(Command), executed' = executed \o s, script' = script,
           \A i \in DOMAIN s : s[i] = script[n + i] /\ ~IsStop(s[i])
    PROVE  ExecutedUpTo(n + Len(s))'
<1> DEFINE Inputs(m) == {k \in 1..m : ~IsStop(script[k])}
<1>1. PICK at \in [DOMAIN executed -> Inputs(n)] :
         /\ \A i \in DOMAIN executed : executed[i] = script[at[i]]
         /\ \A i, j \in DOMAIN executed : i < j => at[i] < at[j]
         /\ \A k \in Inputs(n) : \E i \in DOMAIN executed : at[i] = k
  BY Zenon DEF ExecutedUpTo
<1> DEFINE old == Len(executed)
           by == [i \in 1..(old + Len(s)) |-> IF i <= old THEN at[i] ELSE n + (i - old)]
<1>2. /\ old \in Nat /\ DOMAIN executed = 1..old
      /\ Len(s) \in Nat /\ DOMAIN s = 1..Len(s)
      /\ DOMAIN executed' = 1..(old + Len(s))
      /\ \A i \in 1..old : executed'[i] = executed[i]
      /\ \A i \in 1..(old + Len(s)) : ~(i <= old) => i - old \in 1..Len(s) /\ executed'[i] = s[i - old]
  <2>1. executed \in Seq(Command) /\ s \in Seq(Line)
    OBVIOUS
  <2>2. QED
    BY <2>1, ConcatProperties
<1>3. \A i \in 1..old : at[i] \in 1..n /\ ~IsStop(script[at[i]])
  BY <1>1, <1>2
<1>4. \A i \in 1..Len(s) : n + i \in 1..(n + Len(s)) /\ ~IsStop(script[n + i]) /\ s[i] = script[n + i]
  <2> SUFFICES ASSUME NEW i \in 1..Len(s)
               PROVE  n + i \in 1..(n + Len(s)) /\ ~IsStop(script[n + i]) /\ s[i] = script[n + i]
    OBVIOUS
  <2>1. i \in DOMAIN s
    BY <1>2
  <2>2. s[i] = script[n + i] /\ ~IsStop(s[i])
    BY <2>1
  <2>3. QED
    BY <1>2, <2>2
<1>5. by \in [DOMAIN executed' -> Inputs(n + Len(s))]
  BY <1>2, <1>3, <1>4
<1>6. \A i \in DOMAIN executed' : executed'[i] = script[by[i]]
  BY <1>1, <1>2, <1>4
<1>7. \A i, j \in DOMAIN executed' : i < j => by[i] < by[j]
  <2> SUFFICES ASSUME NEW i \in 1..(old + Len(s)), NEW j \in 1..(old + Len(s)), i < j
               PROVE  by[i] < by[j]
    BY <1>2
  <2>1. CASE j <= old
    <3>1. i \in DOMAIN executed /\ j \in DOMAIN executed /\ by[i] = at[i] /\ by[j] = at[j]
      BY <1>2, <2>1
    <3>2. QED
      BY <1>1, <3>1
  <2>2. CASE i <= old /\ ~(j <= old)
    BY <1>2, <1>3, <2>2
  <2>3. CASE ~(i <= old) /\ ~(j <= old)
    BY <1>2, <2>3
  <2>4. QED
    BY <1>2, <2>1, <2>2, <2>3
<1>8. \A k \in Inputs(n + Len(s)) : \E i \in DOMAIN executed' : by[i] = k
  <2> SUFFICES ASSUME NEW k \in 1..(n + Len(s)), ~IsStop(script[k])
               PROVE  \E i \in 1..(old + Len(s)) : by[i] = k
    BY <1>2
  <2>1. CASE k <= n
    <3>1. PICK i \in 1..old : at[i] = k
      BY <1>1, <1>2, <2>1
    <3>2. i \in 1..(old + Len(s)) /\ by[i] = k
      BY <1>2, <3>1
    <3>3. QED
      BY <3>2
  <2>2. CASE k > n
    <3>1. old + (k - n) \in 1..(old + Len(s)) /\ by[old + (k - n)] = k
      BY <1>2, <2>2
    <3>2. QED
      BY <3>1
  <2>3. k <= n \/ k > n
    BY <1>2
  <2>4. QED
    BY <2>1, <2>2, <2>3
<1> DEFINE After == {m \in 1..(n + Len(s)) : ~(IsStop(script[m]))'}
<1>9. After = Inputs(n + Len(s)) /\ script' = script
  BY script' = script DEF IsStop
<1> HIDE DEF by, After, Inputs
<1>10. by \in [DOMAIN executed' -> After]
  BY <1>5, <1>9
<1>11. \A i \in DOMAIN executed' : executed'[i] = script'[by[i]]
  BY <1>6, <1>9
<1>12. \A k \in After : \E i \in DOMAIN executed' : by[i] = k
  BY <1>8, <1>9
<1>13. \E f \in [DOMAIN executed' -> After] :
          /\ \A i \in DOMAIN executed' : executed'[i] = script'[f[i]]
          /\ \A i, j \in DOMAIN executed' : i < j => f[i] < f[j]
          /\ \A k \in After : \E i \in DOMAIN executed' : f[i] = k
  BY <1>7, <1>10, <1>11, <1>12, Zenon
<1>14. QED
  BY <1>13, Zenon DEF ExecutedUpTo, After

-------------------------------------------------------------------------------
(* What stays true while the script and the device stay as they are.       *)

(* The positions in the script. *)
LEMMA SameScript ==
    ASSUME script' = script, rest' = rest, segment' = segment
    PROVE  /\ Base' = Base /\ Until' = Until
           /\ Boundary(Base)' <=> Boundary(Base)
           /\ Boundary(Until)' <=> Boundary(Until)
BY DEF Base, Until, Boundary, IsStop

(* What was executed of it. *)
LEMMA SameExecuted ==
    ASSUME script' = script, rest' = rest, segment' = segment, executed' = executed
    PROVE  /\ ExecutedUpTo(Base)' <=> ExecutedUpTo(Base)
           /\ ExecutedUpTo(Until)' <=> ExecutedUpTo(Until)
<1>1. ExecutedUpTo(Base)' <=> ExecutedUpTo(Base)
  BY SameScript DEF ExecutedUpTo, IsStop
<1>2. ExecutedUpTo(Until)' <=> ExecutedUpTo(Until)
  BY SameScript DEF ExecutedUpTo, IsStop
<1>3. QED
  BY <1>1, <1>2

(* What the device is ready for. *)
LEMMA SameDevice ==
    ASSUME script' = script, rest' = rest, segment' = segment, first' = first,
           UNCHANGED device
    PROVE  /\ \A n : Batched(n)' <=> Batched(n)
           /\ Emptied' <=> Emptied
           /\ \A line : Ready(line)' <=> Ready(line)
<1>1. ExecutedUpTo(Base)' <=> ExecutedUpTo(Base)
  BY SameExecuted DEF device
<1>2. Boundary(Until)' <=> Boundary(Until)
  BY SameScript
<1>3. /\ \A n : Batched(n)' <=> Batched(n)
      /\ Emptied' <=> Emptied
  BY <1>1 DEF Batched, Emptied, device
<1>4. ASSUME NEW line PROVE Ready(line)' <=> Ready(line)
  BY <1>1, <1>2, <1>3 DEF Ready, device
<1>5. QED
  BY <1>3, <1>4

(* The parts of TypeOK that the positions need. *)
LEMMA Positions ==
    ASSUME TypeOK
    PROVE  /\ script \in Seq(Line) /\ rest \in Seq(Line) /\ segment \in Seq(Line)
           /\ Len(script) \in Nat /\ Len(rest) \in Nat /\ Len(segment) \in Nat
           /\ DOMAIN segment = 1..Len(segment) /\ DOMAIN rest = 1..Len(rest)
           /\ Base \in Int /\ Until \in Int
           /\ Base + Len(segment) = Until /\ Until + Len(rest) = Len(script)
<1>1. script \in Seq(Line) /\ rest \in Seq(Line) /\ segment \in Seq(Line)
  BY DEF TypeOK
<1>2. QED
  BY <1>1 DEF Base, Until

(* Between the exchanges of a call that has not failed, the device has     *)
(* seen all of its frames.                                                 *)
LEMMA SettledIsSeen ==
    ASSUME Inv, first \in Nat, Settled, NEW i \in DOMAIN toDevice
    PROVE  ~Unseen(i)
BY LinkTypes DEF Inv, Settled, Unseen, LinkInOrder

-------------------------------------------------------------------------------
(* Every step of a call preserves CallInv, operation by operation.         *)

(* A script begins with nothing of it sent. *)
LEMMA RunScriptPreservesCall ==
    ASSUME Inv, NEW lines \in Scripts, RunScript(lines)
    PROVE  ScriptCall'
<1>1. /\ script' = lines /\ rest' = lines /\ segment' = <<>> /\ done' = 0
      /\ first' = number + 1 /\ number' = number /\ last' = last
      /\ toDevice' = toDevice /\ collecting' = collecting
      /\ collected' = <<>> /\ executed' = <<>>
      /\ pc' = "prepare" /\ written' = FALSE
      /\ stage' \in {"idle", "collect"} /\ outcome' # "completed"
  BY DEF RunScript, StartCall, exchange, link
<1>2. lines \in Seq(Line) /\ Len(lines) \in Nat /\ Len(<<>>) = 0
  BY ScriptAssumption
<1>3. Base' = 0 /\ Until' = 0
  <2>1. Len(script') = Len(lines) /\ Len(rest') = Len(lines) /\ Len(segment') = 0
    BY <1>1, <1>2
  <2>2. QED
    BY <1>2, <2>1 DEF Base, Until
<1>4. CutInLines'
  <2>1. Boundary(Base)'
    BY <1>3 DEF Boundary
  <2>2. QED
    BY <1>1, <1>2, <1>3, <2>1 DEF CutInLines
<1>5. ExecutedUpTo(Base)'
  <2>1. (ExecutedUpTo(0))'
    BY <1>1, ExecutedNoneNext
  <2>2. QED
    BY <1>3, <2>1 DEF ExecutedUpTo, IsStop
<1>6. number \in Nat /\ \A i \in DOMAIN toDevice : toDevice[i].number \in Nat /\ toDevice[i].number <= number
  BY LinkTypes DEF Inv, LinkInOrder
<1>7. UnseenReady'
  BY <1>1, <1>6 DEF UnseenReady, Unseen
<1>8. Settled' /\ Emptied'
  BY <1>1, <1>5, <1>6 DEF Settled, Emptied
<1>9. StageReached' /\ ExchangeReached'
  BY <1>1, <1>8 DEF StageReached, ExchangeReached
<1>10. QED
  BY <1>1, <1>4, <1>5, <1>6, <1>7, <1>9 DEF ScriptCall

(* And so does a command. *)
LEMMA RunCommandPreservesCall ==
    ASSUME Inv, NEW command \in Commands, RunCommand(command)
    PROVE  CommandCall'
<1>1. /\ script' = <<command>>
      /\ first' = number + 1 /\ number' = number /\ last' = last
      /\ toDevice' = toDevice
      /\ collected' = <<>> /\ executed' = <<>>
      /\ pc' = "prepare"
      /\ stage' = "command" /\ outcome' = "none"
  BY DEF RunCommand, StartCall, exchange, link
<1>2. number \in Nat /\ \A i \in DOMAIN toDevice : toDevice[i].number \in Nat /\ toDevice[i].number <= number
  BY LinkTypes DEF Inv, LinkInOrder
<1>3. QED
  BY <1>1, <1>2 DEF CommandCall

(* The loop over the lines goes on where the device has come to. *)
LEMMA LoopPreservesCall ==
    ASSUME SegmentInv, ScriptCall, Collect \/ Flush \/ StopLine \/ Return
    PROVE  ScriptCall'
<1> USE DEF SegmentInv
<1>1. /\ stage = "collect" /\ pc = "prepare" /\ pc' = "prepare"
      /\ script' = script /\ first' = first /\ number' = number /\ last' = last
      /\ toDevice' = toDevice /\ written' = written
      /\ collecting' = collecting /\ collected' = collected /\ executed' = executed
  BY DEF Inv, StageShape, Collect, Flush, StopLine, Return, transaction, exchange, verdict,
         device, link
<1>2. /\ TypeOK
      /\ Len(script) \in Nat /\ Len(rest) \in Nat /\ Len(segment) \in Nat
      /\ rest \in Seq(Line) /\ segment \in Seq(Line)
      /\ DOMAIN segment = 1..Len(segment) /\ DOMAIN rest = 1..Len(rest)
      /\ Base + Len(segment) = Until /\ Until + Len(rest) = Len(script)
      /\ Base \in Nat
  BY Positions DEF Inv, ScriptCall, CutInLines
<1>3. Settled /\ Emptied /\ ExecutedUpTo(Base)
  BY <1>1 DEF ScriptCall, StageReached, Emptied
<1>4. \A i \in DOMAIN toDevice : ~Unseen(i)
  BY <1>3, SettledIsSeen
<1>5. UnseenReady'
  BY <1>1, <1>4 DEF UnseenReady, Unseen
<1>6. /\ number >= first - 1
      /\ written => number >= first
      /\ last.number < first => executed = <<>> /\ collected = <<>>
      /\ \A i \in DOMAIN segment : segment[i] = script[Base + i]
      /\ \A i \in DOMAIN rest : rest[i] = script[Until + i]
      /\ Boundary(Base)
      /\ stage # "idle" => outcome # "completed"
  BY DEF ScriptCall, CutInLines
<1>7. Settled'
  BY <1>1, <1>3 DEF Settled
<1>8. SUFFICES /\ stage' \in {"collect", "begin", "stop", "idle"}
               /\ CutInLines' /\ ExecutedUpTo(Base)'
               /\ stage' = "begin" => done' = 0
               /\ outcome' = "completed" => stage' = "idle" /\ rest' = <<>> /\ segment' = <<>>
  <2>1. Emptied' \/ ~ExecutedUpTo(Base)'
    BY <1>1, <1>3 DEF Emptied
  <2>2. stage' \in {"collect", "begin", "stop", "idle"} /\ ExecutedUpTo(Base)'
        /\ (stage' = "begin" => done' = 0) => StageReached' /\ ExchangeReached'
    BY <1>1, <1>7, <2>1 DEF StageReached, ExchangeReached
  <2>3. QED
    BY <1>1, <1>5, <1>6, <1>7, <2>2 DEF ScriptCall
<1>9. CASE Collect
  <2>1. /\ rest # <<>> /\ rest' = Tail(rest) /\ segment' = Append(segment, Head(rest))
        /\ stage' = stage /\ outcome' = outcome
    BY <1>9 DEF Collect, verdict
  <2>2. /\ Len(rest') = Len(rest) - 1 /\ Len(segment') = Len(segment) + 1
        /\ DOMAIN rest' = 1..(Len(rest) - 1) /\ DOMAIN segment' = 1..(Len(segment) + 1)
        /\ Head(rest) = rest[1] /\ 1 \in DOMAIN rest
        /\ \A i \in DOMAIN rest' : rest'[i] = rest[i + 1] /\ i + 1 \in DOMAIN rest
        /\ \A i \in DOMAIN segment : segment'[i] = segment[i]
        /\ segment'[Len(segment) + 1] = rest[1]
    BY <1>2, <2>1
  <2>3. Base' = Base /\ Until' = Until + 1
    BY <1>1, <1>2, <2>2 DEF Base, Until
  <2>4. ASSUME NEW i \in DOMAIN rest' PROVE rest'[i] = script[Until' + i]
    <3>1. rest'[i] = script[Until + (i + 1)] /\ i \in Nat
      BY <1>6, <2>2
    <3>2. Until + (i + 1) = Until' + i
      BY <1>2, <2>3, <3>1
    <3>3. QED
      BY <3>1, <3>2
  <2>5. ASSUME NEW i \in DOMAIN segment' PROVE segment'[i] = script[Base + i]
    <3>1. CASE i \in DOMAIN segment
      BY <1>6, <2>2, <3>1
    <3>2. CASE i = Len(segment) + 1
      <4>1. Until + 1 = Base + i
        BY <1>2, <3>2
      <4>2. rest[1] = script[Until + 1]
        BY <1>6, <2>2
      <4>3. QED
        BY <2>2, <3>2, <4>1, <4>2
    <3>3. QED
      BY <1>2, <2>2, <3>1, <3>2
  <2>6. Boundary(Base)' /\ ExecutedUpTo(Base)'
    <3>1. Boundary(Base)'
      BY <1>1, <1>6, <2>3 DEF Boundary, IsStop
    <3>2. ExecutedUpTo(Base)'
      BY <1>1, <1>3, <2>3 DEF ExecutedUpTo, IsStop
    <3>3. QED
      BY <3>1, <3>2
  <2>7. QED
    BY <1>1, <1>2, <1>6, <2>1, <2>3, <2>4, <2>5, <2>6 DEF CutInLines
<1>10. CASE Flush
  <2>1. /\ rest' = rest /\ segment' = segment /\ stage' = "begin" /\ done' = 0
        /\ outcome' = outcome
        /\ rest # <<>> => IsStop(rest[1])
    BY <1>2, <1>10 DEF Flush, verdict
  <2>2. Boundary(Until)
    <3>1. CASE rest = <<>>
      BY <1>2, <3>1 DEF Boundary
    <3>2. CASE rest # <<>>
      <4>1. 1 \in DOMAIN rest
        BY <1>2, <3>2
      <4>2. IsStop(script[Until + 1])
        BY <1>6, <2>1, <3>2, <4>1
      <4>3. QED
        BY <4>2 DEF Boundary
    <3>3. QED
      BY <3>1, <3>2
  <2>3. /\ Base' = Base /\ Until' = Until
        /\ Boundary(Base)' /\ Boundary(Until)' /\ ExecutedUpTo(Base)'
    BY <1>1, <1>3, <1>6, <2>1, <2>2, SameScript, SameExecuted
  <2>4. QED
    BY <1>1, <1>2, <1>6, <2>1, <2>3 DEF CutInLines
<1>11. CASE StopLine
  <2>1. /\ segment = <<>> /\ segment' = segment /\ rest # <<>> /\ IsStop(rest[1])
        /\ rest' = Tail(rest) /\ stage' = "stop" /\ outcome' = outcome
    BY <1>2, <1>11 DEF StopLine, verdict
  <2>2. /\ Len(rest') = Len(rest) - 1 /\ Len(segment) = 0 /\ 1 \in DOMAIN rest
        /\ \A i \in DOMAIN rest' : rest'[i] = rest[i + 1] /\ i + 1 \in DOMAIN rest /\ i \in Nat
    BY <1>2, <2>1
  <2>3. Base' = Base + 1 /\ Until' = Base + 1 /\ Until = Base
    BY <1>1, <1>2, <2>1, <2>2 DEF Base, Until
  <2>4. IsStop(script[Base + 1])
    BY <1>6, <2>1, <2>2, <2>3
  <2>5. \A i \in DOMAIN rest' : rest'[i] = script[Until' + i]
    BY <1>2, <1>6, <2>2, <2>3
  <2>6. Boundary(Base)'
    BY <1>1, <2>3, <2>4 DEF Boundary, IsStop
  <2>7. ExecutedUpTo(Base)'
    <3>1. ExecutedUpTo(Base + 1)
      BY <1>2, <1>3, <2>4, ExecutedStop
    <3>2. QED
      BY <1>1, <2>3, <3>1 DEF ExecutedUpTo, IsStop
  <2>8. QED
    BY <1>1, <1>2, <1>6, <2>1, <2>2, <2>3, <2>5, <2>6, <2>7 DEF CutInLines
<1>12. CASE Return
  <2>1. rest = <<>> /\ segment = <<>> /\ rest' = rest /\ segment' = segment /\ stage' = "idle"
    BY <1>12 DEF Return, transaction
  <2>2. Base' = Base /\ Until' = Until /\ Boundary(Base)' /\ ExecutedUpTo(Base)'
    BY <1>1, <1>3, <1>6, <2>1, SameScript, SameExecuted
  <2>3. QED
    BY <1>1, <1>2, <1>6, <2>1, <2>2 DEF CutInLines
<1>13. QED
  BY <1>9, <1>10, <1>11, <1>12

(* An exception leaves the device and the script as they are. *)
LEMMA ThrowPreservesCall ==
    ASSUME SegmentInv, ScriptCall, NEW reason \in {"rejected", "failed"}, Throw(reason),
           stage \notin {"idle", "collect"},
           UNCHANGED <<transaction, device, toDevice, written>>,
           number' \in {number, number + 1}
    PROVE  ScriptCall'
<1> USE DEF SegmentInv
<1>1. /\ script' = script /\ rest' = rest /\ segment' = segment /\ first' = first
      /\ last' = last /\ executed' = executed /\ collected' = collected
      /\ toDevice' = toDevice /\ written' = written
      /\ pc' = "prepare" /\ stage' \in {"idle", "cleanup"} /\ outcome' # "completed"
  BY DEF Throw, transaction, device, ScriptCall
<1>2. \A line : Ready(line)' <=> Ready(line)
  BY <1>1, SameDevice
<1>3. /\ Base' = Base /\ Until' = Until
      /\ Boundary(Base)' <=> Boundary(Base)
      /\ Boundary(Until)' <=> Boundary(Until)
      /\ ExecutedUpTo(Base)' <=> ExecutedUpTo(Base)
      /\ ExecutedUpTo(Until)' <=> ExecutedUpTo(Until)
  BY <1>1, SameScript, SameExecuted
<1>4. CutInLines'
  BY <1>1, <1>3 DEF ScriptCall, CutInLines
<1>5. UnseenReady'
  <2>1. \A i \in DOMAIN toDevice : Unseen(i)' <=> Unseen(i)
    BY <1>1 DEF Unseen
  <2>2. \A i \in DOMAIN toDevice : Ready(toDevice[i].line)' <=> Ready(toDevice[i].line)
    BY <1>1, <1>2
  <2>3. QED
    BY <1>1, <2>1, <2>2 DEF ScriptCall, UnseenReady, IsStop
<1>6. StageReached' /\ ExchangeReached'
  BY <1>1 DEF StageReached, ExchangeReached
<1>7. number' >= first - 1 /\ (written => number' >= first)
  BY LinkTypes DEF Inv, ScriptCall
<1>8. QED
  BY <1>1, <1>3, <1>4, <1>5, <1>6, <1>7 DEF ScriptCall

(* The first frame of an exchange finds the device ready for it. *)
LEMMA PreparePreservesCall ==
    ASSUME SegmentInv, ScriptCall, Prepare
    PROVE  ScriptCall'
<1> USE DEF SegmentInv
<1>1. /\ stage \notin {"idle", "collect", "command"} /\ pc = "prepare" /\ pc' = "write"
      /\ number' = number + 1 /\ stage' = stage /\ done' = done
      /\ script' = script /\ rest' = rest /\ segment' = segment /\ first' = first
      /\ UNCHANGED device /\ last' = last /\ executed' = executed /\ collected' = collected
      /\ collecting' = collecting
      /\ toDevice' = toDevice /\ written' = written /\ outcome' = outcome
  BY DEF Prepare, transaction, verdict, device, ScriptCall
<1>2. /\ \A line : Ready(line)' <=> Ready(line)
      /\ \A n : Batched(n)' <=> Batched(n)
      /\ Emptied' <=> Emptied
  BY <1>1, SameDevice
<1>3. /\ Base' = Base /\ Until' = Until
      /\ Boundary(Base)' <=> Boundary(Base)
      /\ Boundary(Until)' <=> Boundary(Until)
      /\ ExecutedUpTo(Base)' <=> ExecutedUpTo(Base)
      /\ ExecutedUpTo(Until)' <=> ExecutedUpTo(Until)
  BY <1>1, SameScript, SameExecuted
<1>4. CutInLines'
  BY <1>1, <1>3 DEF ScriptCall, CutInLines
<1>5. Current' = Current
  BY <1>1 DEF Current
<1>6. Ready(Current)
  <2>1. CASE stage = "begin"
    BY <1>1, <2>1 DEF Current, Control, Ready, ScriptCall, StageReached
  <2>2. CASE stage = "body"
    <3>1. Batched(done) /\ Current.type \notin {"batch_begin", "batch_end", "stop_all"}
      BY <1>1, <2>2, CurrentIsCommand DEF Inv, ScriptCall, StageReached
    <3>2. QED
      BY <3>1 DEF Ready, Batched
  <2>3. CASE stage = "end"
    <3>1. Batched(Len(segment)) /\ Boundary(Until)
      BY <1>1, <2>3 DEF ScriptCall, StageReached, CutInLines
    <3>2. QED
      BY <2>3, <3>1 DEF Current, Control, Ready
  <2>4. CASE stage \in {"stop", "cleanup"}
    BY <2>4 DEF Current, Control, Ready
  <2>5. QED
    BY <1>1, <2>1, <2>2, <2>3, <2>4 DEF Inv, TypeOK
<1>7. UnseenReady'
  <2>1. \A i \in DOMAIN toDevice : Unseen(i)' <=> Unseen(i)
    BY <1>1 DEF Unseen
  <2>2. \A i \in DOMAIN toDevice : Ready(toDevice[i].line)' <=> Ready(toDevice[i].line)
    BY <1>1, <1>2
  <2>3. Ready(Current)'
    BY <1>2, <1>5, <1>6
  <2>4. QED
    BY <1>1, <2>1, <2>2, <2>3 DEF ScriptCall, UnseenReady, IsStop
<1>8. number \in Nat /\ last.number \in Nat /\ last.number <= number
  BY LinkTypes DEF Inv, LinkInOrder
<1>9. StageReached'
  BY <1>1, <1>2, <1>8 DEF ScriptCall, StageReached
<1>10. ExchangeReached'
  <2>1. CASE stage \in {"begin", "stop"}
    <3>1. \A i \in DOMAIN toDevice : ~Unseen(i)
      BY <1>1, <2>1, SettledIsSeen DEF ScriptCall, StageReached
    <3>2. QED
      BY <1>1, <1>8, <3>1 DEF ExchangeReached, Unseen
  <2>2. CASE stage \in {"body", "end"}
    <3>1. last.number = number
      BY <1>1, <2>2 DEF Inv, BatchAccounted
    <3>2. \A i \in DOMAIN toDevice : ~Unseen(i)
      BY <1>8, <3>1, LinkTypes DEF Inv, LinkInOrder, Unseen
    <3>3. QED
      BY <1>1, <1>8, <3>2 DEF ExchangeReached, Unseen
  <2>3. CASE stage = "cleanup"
    BY <1>1, <2>3 DEF ExchangeReached
  <2>4. QED
    BY <1>1, <2>1, <2>2, <2>3 DEF Inv, TypeOK
<1>11. number' >= first - 1 /\ number' >= first
  BY <1>1, <1>8 DEF ScriptCall
<1>12. outcome # "completed"
  BY <1>1 DEF ScriptCall
<1>13. QED
  BY <1>1, <1>3, <1>4, <1>7, <1>9, <1>10, <1>11, <1>12 DEF ScriptCall

(* A frame joins the link only if the device is ready for it, or has seen  *)
(* it before.                                                              *)
LEMMA WritePreservesCall ==
    ASSUME SegmentInv, ScriptCall, Write
    PROVE  ScriptCall'
<1> USE DEF SegmentInv
<1> DEFINE frame == [number |-> number, line |-> Current]
<1>1. /\ pc = "write" /\ pc' = "wait" /\ written' = TRUE
      /\ number' = number /\ stage' = stage /\ done' = done
      /\ script' = script /\ rest' = rest /\ segment' = segment /\ first' = first
      /\ UNCHANGED device /\ last' = last /\ executed' = executed /\ collected' = collected
      /\ collecting' = collecting
      /\ toDevice' = toDevice \/ toDevice' = Append(toDevice, frame)
      /\ outcome' = outcome
  BY DEF Write, transaction, exchange, device
<1>2. /\ \A line : Ready(line)' <=> Ready(line)
      /\ \A n : Batched(n)' <=> Batched(n)
      /\ Emptied' <=> Emptied
  BY <1>1, SameDevice
<1>3. /\ Base' = Base /\ Until' = Until
      /\ Boundary(Base)' <=> Boundary(Base)
      /\ Boundary(Until)' <=> Boundary(Until)
      /\ ExecutedUpTo(Base)' <=> ExecutedUpTo(Base)
      /\ ExecutedUpTo(Until)' <=> ExecutedUpTo(Until)
  BY <1>1, SameScript, SameExecuted
<1>4. CutInLines'
  BY <1>1, <1>3 DEF ScriptCall, CutInLines
<1>5. Current' = Current
  BY <1>1 DEF Current
<1>6. /\ number \in Nat /\ last.number \in Nat /\ toDevice \in Seq(Frame)
      /\ \A i \in DOMAIN toDevice : toDevice[i].number \in Nat /\ toDevice[i].number <= number
      /\ frame \in Frame /\ frame.number = number /\ frame.line = Current
  BY LinkTypes, CurrentIsCommand DEF Inv, LinkInOrder, Frame
<1> HIDE DEF frame
<1>7. \A i \in DOMAIN toDevice' :
         \/ i \in DOMAIN toDevice /\ toDevice'[i] = toDevice[i]
         \/ toDevice'[i] = frame
  <2>1. CASE toDevice' = toDevice
    BY <2>1
  <2>2. CASE toDevice' = Append(toDevice, frame)
    BY <1>6, <2>2, AppendProperties
  <2>3. QED
    BY <1>1, <2>1, <2>2
<1>8. stage \in {"begin", "body", "end", "stop", "cleanup"}
  BY <1>1 DEF Inv, StageShape, TypeOK, ScriptCall
<1>9. UnseenReady'
  <2>1. ASSUME NEW i \in DOMAIN toDevice', Unseen(i)'
        PROVE  Ready(toDevice[i].line)'
    <3>1. toDevice'[i].number > last.number /\ toDevice'[i].number >= first
      BY <1>1, <2>1 DEF Unseen
    <3>2. Ready(toDevice'[i].line)
      <4>1. CASE i \in DOMAIN toDevice /\ toDevice'[i] = toDevice[i]
        BY <3>1, <4>1 DEF ScriptCall, UnseenReady, Unseen
      <4>2. CASE toDevice'[i] = frame
        BY <1>1, <1>6, <3>1, <4>2 DEF ScriptCall, UnseenReady
      <4>3. QED
        BY <1>7, <4>1, <4>2
    <3>3. QED
      BY <1>2, <3>2
  <2>2. ASSUME NEW i \in DOMAIN toDevice', NEW j \in DOMAIN toDevice', Unseen(i)',
               toDevice'[i].number < toDevice'[j].number
        PROVE  IsStop(toDevice[j].line)'
    <3>1. toDevice'[i].number > last.number /\ toDevice'[i].number >= first
      BY <1>1, <2>2 DEF Unseen
    <3>2. i \in DOMAIN toDevice /\ toDevice'[i] = toDevice[i] /\ Unseen(i)
      BY <1>6, <1>7, <2>2, <3>1 DEF Unseen
    <3>3. CASE j \in DOMAIN toDevice /\ toDevice'[j] = toDevice[j]
      BY <2>2, <3>2, <3>3 DEF ScriptCall, UnseenReady, IsStop
    <3>4. CASE toDevice'[j] = frame
      <4>1. stage = "cleanup"
        BY <1>1, <1>6, <1>8, <2>2, <3>2, <3>4 DEF ScriptCall, ExchangeReached
      <4>2. QED
        BY <1>6, <3>4, <4>1 DEF Current, Control, IsStop
    <3>5. QED
      BY <1>7, <3>3, <3>4
  <2>3. last'.number < number' => Ready(Current)'
    BY <1>1, <1>2, <1>5 DEF ScriptCall, UnseenReady
  <2>4. QED
    BY <2>1, <2>2, <2>3 DEF UnseenReady
<1>10. StageReached'
  BY <1>1, <1>2, <1>8 DEF ScriptCall, StageReached
<1>11. ExchangeReached'
  <2>1. \A i \in DOMAIN toDevice' : stage # "cleanup" /\ Unseen(i)' => toDevice'[i].number = number
    BY <1>1, <1>6, <1>7, <1>8 DEF ScriptCall, ExchangeReached, Unseen
  <2>2. QED
    BY <1>1, <1>2, <1>3, <1>8, <2>1 DEF ScriptCall, ExchangeReached
<1>12. number >= first /\ outcome # "completed"
  BY <1>1, <1>8 DEF ScriptCall
<1>13. QED
  BY <1>1, <1>3, <1>4, <1>8, <1>9, <1>10, <1>11, <1>12 DEF ScriptCall

(* A deadline that passes, or a device that is busy. *)
LEMMA RetryPreservesCall ==
    ASSUME SegmentInv, ScriptCall, TimeOut \/ TakeBusy
    PROVE  ScriptCall'
<1> USE DEF SegmentInv
<1>1. /\ pc = "wait" /\ stage \notin {"idle", "collect"} /\ Retry
      /\ UNCHANGED <<transaction, device, toDevice, written>>
  BY DEF TimeOut, TakeBusy, Inv, StageShape, link
<1>2. CASE attempt < Retries
  <2>1. /\ pc' = "write" /\ stage' = stage /\ outcome' = outcome /\ number' = number
        /\ script' = script /\ rest' = rest /\ segment' = segment /\ first' = first
        /\ done' = done /\ last' = last /\ executed' = executed /\ collected' = collected
        /\ collecting' = collecting /\ toDevice' = toDevice /\ written' = written
    BY <1>1, <1>2 DEF Retry, transaction, device
  <2>2. /\ \A line : Ready(line)' <=> Ready(line)
        /\ \A n : Batched(n)' <=> Batched(n)
        /\ Emptied' <=> Emptied
    BY <1>1, <2>1, SameDevice
  <2>3. /\ Base' = Base /\ Until' = Until
        /\ Boundary(Base)' <=> Boundary(Base)
        /\ Boundary(Until)' <=> Boundary(Until)
        /\ ExecutedUpTo(Base)' <=> ExecutedUpTo(Base)
        /\ ExecutedUpTo(Until)' <=> ExecutedUpTo(Until)
    BY <2>1, SameScript, SameExecuted
  <2>4. CutInLines'
    BY <2>1, <2>3 DEF ScriptCall, CutInLines
  <2>5. Current' = Current
    BY <2>1 DEF Current
  <2>6. UnseenReady'
    <3>1. \A i \in DOMAIN toDevice : Unseen(i)' <=> Unseen(i)
      BY <2>1 DEF Unseen
    <3>2. \A i \in DOMAIN toDevice : Ready(toDevice[i].line)' <=> Ready(toDevice[i].line)
      BY <2>1, <2>2
    <3>3. Ready(Current)' <=> Ready(Current)
      BY <2>2, <2>5
    <3>4. QED
      BY <1>1, <2>1, <3>1, <3>2, <3>3 DEF ScriptCall, UnseenReady, IsStop
  <2>7. StageReached'
    BY <1>1, <2>1, <2>2 DEF ScriptCall, StageReached
  <2>8. ExchangeReached'
    BY <1>1, <2>1, <2>2, <2>3 DEF ScriptCall, ExchangeReached, Unseen
  <2>9. outcome # "completed" /\ number >= first
    BY <1>1 DEF ScriptCall
  <2>10. QED
    BY <1>1, <2>1, <2>3, <2>4, <2>6, <2>7, <2>8, <2>9 DEF ScriptCall
<1>3. CASE ~(attempt < Retries)
  <2>1. Throw("failed") /\ number' = number
    BY <1>1, <1>3 DEF Retry
  <2>2. QED
    BY <1>1, <2>1, ThrowPreservesCall
<1>4. QED
  BY <1>2, <1>3

(* The ways in which an exchange fails. *)
LEMMA FailurePreservesCall ==
    ASSUME SegmentInv, ScriptCall, RejectText \/ RejectLength \/ Break \/ TakeNack
    PROVE  ScriptCall'
<1>1. \E reason \in {"rejected", "failed"} : Throw(reason)
  BY DEF RejectText, RejectLength, Break, TakeNack
<1>2. /\ stage \notin {"idle", "collect"}
      /\ UNCHANGED <<transaction, device, toDevice, written>>
      /\ number' \in {number, number + 1}
  BY DEF SegmentInv, Inv, StageShape, RejectText, RejectLength, Break, TakeNack, exchange, link
<1>3. QED
  BY <1>1, <1>2, ThrowPreservesCall

(* An acknowledgement takes the call to where the device is. *)
LEMMA AckPreservesCall ==
    ASSUME SegmentInv, ScriptCall, TakeAck
    PROVE  ScriptCall'
<1> USE DEF SegmentInv
<1>1. /\ pc = "wait" /\ answers # <<>> /\ Head(answers) = "ack" /\ Succeed
      /\ script' = script /\ rest' = rest /\ first' = first /\ number' = number
      /\ UNCHANGED device /\ last' = last /\ executed' = executed /\ collected' = collected
      /\ collecting' = collecting /\ toDevice' = toDevice /\ written' = written
  BY DEF TakeAck, device
<1>2. stage \in {"begin", "body", "end", "stop", "cleanup"}
  BY <1>1 DEF Inv, StageShape, TypeOK, ScriptCall
<1>3. /\ pc' = "prepare" /\ stage' \in {"idle", "collect", "body", "end"}
      /\ outcome' = outcome
  BY <1>1, <1>2 DEF Succeed
<1>4. last.number = number /\ last.answer = "ack"
  BY <1>1, TakenAnswer DEF Inv
<1>5. \A i \in DOMAIN toDevice : ~Unseen(i)
  BY <1>4, LinkTypes DEF Inv, LinkInOrder, Unseen
<1>6. UnseenReady'
  <2>1. \A i \in DOMAIN toDevice' : ~Unseen(i)'
    BY <1>1, <1>5 DEF Unseen
  <2>2. QED
    BY <1>3, <2>1 DEF UnseenReady
<1>7. ExchangeReached'
  BY <1>3 DEF ExchangeReached
<1>8. /\ stage = "begin" => Batched(0)
      /\ stage = "body" => Batched(done + 1)
      /\ stage = "end" => ~collecting /\ collected = <<>> /\ ExecutedUpTo(Until)
      /\ stage = "stop" => ~collecting /\ Emptied
  BY <1>1, <1>2, <1>4 DEF ScriptCall, ExchangeReached
<1>9. TypeOK
  BY DEF Inv
<1>10. outcome # "completed" /\ number >= first - 1 /\ (written => number >= first)
  BY <1>2 DEF ScriptCall
<1>11. CASE stage # "end"
  <2>1. segment' = segment
    BY <1>1, <1>2, <1>11 DEF Succeed
  <2>2. /\ \A n : Batched(n)' <=> Batched(n)
        /\ Emptied' <=> Emptied
    BY <1>1, <2>1, SameDevice
  <2>3. /\ Base' = Base /\ Until' = Until
        /\ Boundary(Base)' <=> Boundary(Base)
        /\ Boundary(Until)' <=> Boundary(Until)
        /\ ExecutedUpTo(Base)' <=> ExecutedUpTo(Base)
        /\ ExecutedUpTo(Until)' <=> ExecutedUpTo(Until)
    BY <1>1, <2>1, SameScript, SameExecuted
  <2>4. stage' \in {"body", "end"} => stage \in {"begin", "body"}
    BY <1>1, <1>2, <1>11 DEF Succeed
  <2>5. CutInLines'
    BY <1>1, <1>3, <2>1, <2>3, <2>4 DEF ScriptCall, CutInLines
  <2>6. StageReached'
    <3>1. CASE stage = "begin"
      <4>1. done' = 0 /\ stage' = "body"
        BY <1>1, <3>1 DEF Succeed
      <4>2. QED
        BY <1>8, <2>2, <3>1, <4>1 DEF StageReached
    <3>2. CASE stage = "body"
      <4>1. /\ done' = done + 1 /\ stage' \in {"body", "end"}
            /\ stage' = "end" => done + 1 = Len(segment)
        <5>1. done \in Nat /\ Len(segment) \in Nat /\ done < Len(segment)
          BY <1>9, <3>2, Positions DEF TypeOK
        <5>2. /\ done' = done + 1
              /\ stage' = IF done + 1 < Len(segment) THEN "body" ELSE "end"
          BY <1>1, <3>2 DEF Succeed
        <5>3. QED
          BY <5>1, <5>2
      <4>2. Batched(done)'
        BY <1>8, <2>2, <3>2, <4>1
      <4>3. QED
        BY <2>1, <4>1, <4>2 DEF StageReached
    <3>3. CASE stage = "stop"
      <4>1. stage' = "collect" /\ Settled'
        BY <1>1, <1>4, <1>8, <3>3 DEF Succeed, Settled
      <4>2. QED
        BY <1>8, <2>2, <3>3, <4>1 DEF StageReached
    <3>4. CASE stage = "cleanup"
      <4>1. stage' = "idle"
        BY <1>1, <3>4 DEF Succeed
      <4>2. QED
        BY <4>1 DEF StageReached
    <3>5. QED
      BY <1>2, <1>11, <3>1, <3>2, <3>3, <3>4
  <2>7. QED
    BY <1>1, <1>3, <1>6, <1>7, <1>10, <2>3, <2>5, <2>6 DEF ScriptCall
<1>12. CASE stage = "end"
  <2>1. segment' = <<>> /\ stage' = "collect"
    BY <1>1, <1>12 DEF Succeed
  <2>2. Base' = Until /\ Until' = Until /\ Base' \in Nat /\ Len(segment') = 0
    <3>1. Len(segment') = 0 /\ Base \in Nat
      BY <2>1 DEF ScriptCall, CutInLines
    <3>2. QED
      BY <1>1, <1>9, <3>1, Positions DEF Base, Until
  <2>3. Boundary(Base)'
    BY <1>1, <1>12, <2>2 DEF ScriptCall, CutInLines, Boundary, IsStop
  <2>4. ExecutedUpTo(Base)'
    BY <1>1, <1>8, <1>12, <2>2 DEF ExecutedUpTo, IsStop
  <2>5. CutInLines'
    BY <1>1, <2>1, <2>2, <2>3 DEF ScriptCall, CutInLines
  <2>6. Settled' /\ Emptied'
    BY <1>1, <1>4, <1>8, <1>12, <2>4 DEF Settled, Emptied
  <2>7. StageReached'
    BY <2>1, <2>6 DEF StageReached
  <2>8. QED
    BY <1>1, <1>3, <1>6, <1>7, <1>10, <2>1, <2>4, <2>5, <2>7 DEF ScriptCall
<1>13. QED
  BY <1>11, <1>12

-------------------------------------------------------------------------------
(* The device.                                                             *)

(* What the device does leaves the caller as it is, and the frames that    *)
(* remain on the link were there before.                                   *)
LEMMA DeviceStep ==
    ASSUME Inv, DeviceRepeat \/ DeviceBusy \/ DeviceRefuse \/ DeviceExecute
    PROVE  /\ stage' = stage /\ pc' = pc /\ script' = script /\ rest' = rest
           /\ segment' = segment /\ done' = done /\ first' = first /\ number' = number
           /\ outcome' = outcome /\ written' = written /\ Current' = Current
           /\ number \in Nat /\ last.number \in Nat /\ last.number <= number
           /\ 1 \in DOMAIN toDevice /\ Head(toDevice) = toDevice[1]
           /\ Head(toDevice).number \in Nat /\ Head(toDevice).line \in Command
           /\ last.number <= Head(toDevice).number /\ Head(toDevice).number <= number
           /\ Head(toDevice).number = number /\ pc # "prepare" => Head(toDevice).line = Current
           /\ \A i \in DOMAIN toDevice' :
                 /\ \E j \in DOMAIN toDevice : toDevice'[i] = toDevice[j]
                 /\ toDevice'[i].number \in Nat /\ Head(toDevice).number <= toDevice'[i].number
<1>1. /\ toDevice # <<>> /\ Receive
      /\ UNCHANGED <<stage, pc, transaction, exchange, verdict>>
  BY DEF DeviceRepeat, DeviceBusy, DeviceRefuse, DeviceExecute
<1>2. \E kind \in Answers : Answer(Head(toDevice), kind)
  <2>1. last.answer \in Answers
    BY LinkTypes DEF Inv, Answers
  <2>2. DeviceRefuse \/ DeviceExecute => last'.answer \in Answers /\ Answer(Head(toDevice), last'.answer)
    BY DEF DeviceRefuse, DeviceExecute, Answers
  <2>3. QED
    BY <2>1, <2>2 DEF DeviceRepeat, DeviceBusy, Answers
<1>3. PICK kind \in Answers : Answer(Head(toDevice), kind)
  BY <1>2
<1>4. /\ Head(toDevice).number \in last.number..number
      /\ Head(toDevice).line \in Command
      /\ Head(toDevice).number = number /\ pc # "prepare" => Head(toDevice).line = Current
      /\ \A i \in DOMAIN toDevice' :
            /\ toDevice'[i].number \in Head(toDevice).number..number
            /\ \E j \in DOMAIN toDevice : toDevice'[i] = toDevice[j]
      /\ Current' = Current
  BY <1>1, <1>3, ReceivedFrame
<1>5. number \in Nat /\ last.number \in Nat /\ toDevice \in Seq(Frame)
  BY LinkTypes DEF Inv
<1>6. 1 \in DOMAIN toDevice /\ Head(toDevice) = toDevice[1]
  BY <1>1, <1>5
<1>7. last.number <= number
  BY DEF Inv, LinkInOrder
<1>8. QED
  BY <1>1, <1>4, <1>5, <1>6, <1>7 DEF transaction, exchange, verdict

(* A frame that is answered without being carried out. *)
LEMMA IdleDevicePreservesCall ==
    ASSUME SegmentInv, ScriptCall, DeviceRepeat \/ DeviceBusy
    PROVE  ScriptCall'
<1> USE DEF SegmentInv
<1>1. /\ stage' = stage /\ pc' = pc /\ script' = script /\ rest' = rest
      /\ segment' = segment /\ done' = done /\ first' = first /\ number' = number
      /\ outcome' = outcome /\ written' = written /\ Current' = Current
      /\ \A i \in DOMAIN toDevice' : \E j \in DOMAIN toDevice : toDevice'[i] = toDevice[j]
      /\ UNCHANGED device /\ last' = last /\ executed' = executed /\ collected' = collected
      /\ collecting' = collecting
  BY DeviceStep DEF DeviceRepeat, DeviceBusy, device
<1>2. /\ \A line : Ready(line)' <=> Ready(line)
      /\ \A n : Batched(n)' <=> Batched(n)
      /\ Emptied' <=> Emptied
  BY <1>1, SameDevice
<1>3. /\ Base' = Base /\ Until' = Until
      /\ Boundary(Base)' <=> Boundary(Base)
      /\ Boundary(Until)' <=> Boundary(Until)
      /\ ExecutedUpTo(Base)' <=> ExecutedUpTo(Base)
      /\ ExecutedUpTo(Until)' <=> ExecutedUpTo(Until)
  BY <1>1, SameScript, SameExecuted
<1>4. CutInLines'
  BY <1>1, <1>3 DEF ScriptCall, CutInLines
<1>5. Settled' <=> Settled
  BY <1>1 DEF Settled
<1>6. UnseenReady'
  <2>1. ASSUME NEW i \in DOMAIN toDevice', Unseen(i)'
        PROVE  Ready(toDevice[i].line)'
    <3>1. PICK j \in DOMAIN toDevice : toDevice'[i] = toDevice[j]
      BY <1>1
    <3>2. Ready(toDevice[j].line)
      BY <1>1, <2>1, <3>1 DEF ScriptCall, UnseenReady, Unseen
    <3>3. QED
      BY <1>2, <3>1, <3>2
  <2>2. ASSUME NEW i \in DOMAIN toDevice', NEW k \in DOMAIN toDevice', Unseen(i)',
               toDevice'[i].number < toDevice'[k].number
        PROVE  IsStop(toDevice[k].line)'
    <3>1. PICK j \in DOMAIN toDevice : toDevice'[i] = toDevice[j]
      BY <1>1
    <3>2. PICK m \in DOMAIN toDevice : toDevice'[k] = toDevice[m]
      BY <1>1
    <3>3. QED
      BY <1>1, <2>2, <3>1, <3>2 DEF ScriptCall, UnseenReady, Unseen, IsStop
  <2>3. Ready(Current)' <=> Ready(Current)
    BY <1>1, <1>2
  <2>4. QED
    BY <1>1, <2>1, <2>2, <2>3 DEF ScriptCall, UnseenReady
<1>7. StageReached'
  BY <1>1, <1>2, <1>5 DEF ScriptCall, StageReached
<1>8. ExchangeReached'
  <2>1. ASSUME NEW i \in DOMAIN toDevice', Unseen(i)',
               stage \in {"begin", "body", "end", "stop"}, pc # "prepare"
        PROVE  toDevice'[i].number = number
    <3>1. PICK j \in DOMAIN toDevice : toDevice'[i] = toDevice[j]
      BY <1>1
    <3>2. QED
      BY <1>1, <2>1, <3>1 DEF ScriptCall, ExchangeReached, Unseen
  <2>2. QED
    BY <1>1, <1>2, <1>3, <2>1 DEF ScriptCall, ExchangeReached
<1>9. QED
  BY <1>1, <1>3, <1>4, <1>5, <1>6, <1>7, <1>8 DEF ScriptCall

(* A frame that is refused, and an older call's frame that is carried out. *)
LEMMA ForeignPreservesCall ==
    ASSUME SegmentInv, ScriptCall,
           DeviceRefuse \/ (DeviceExecute /\ Head(toDevice).number < first)
    PROVE  ScriptCall'
<1> USE DEF SegmentInv
<1> DEFINE frame == Head(toDevice)
<1>1. /\ stage' = stage /\ pc' = pc /\ script' = script /\ rest' = rest
      /\ segment' = segment /\ done' = done /\ first' = first /\ number' = number
      /\ outcome' = outcome /\ written' = written /\ Current' = Current
      /\ number \in Nat /\ last.number \in Nat
      /\ frame.number \in Nat /\ last.number <= frame.number /\ frame.number <= number
      /\ \A i \in DOMAIN toDevice' :
            /\ \E j \in DOMAIN toDevice : toDevice'[i] = toDevice[j]
            /\ toDevice'[i].number \in Nat /\ frame.number <= toDevice'[i].number
  BY DeviceStep
<1>2. frame.number # last.number /\ last'.number = frame.number
  BY DEF DeviceRefuse, DeviceExecute
<1>3. /\ executed' = executed /\ collected' = collected
      /\ \/ last.number < first /\ frame.number < first
         \/ collecting' = collecting /\ last'.answer = "nack"
  <2>1. CASE DeviceRefuse
    BY <2>1 DEF DeviceRefuse
  <2>2. CASE DeviceExecute /\ frame.number < first
    <3>1. last.number < first /\ executed = <<>> /\ collected = <<>>
      BY <1>1, <2>2 DEF ScriptCall
    <3>2. Remembered(frame) = <<>>
      BY <1>1, <2>2 DEF Remembered
    <3>3. executed \o collected = <<>> /\ executed \o Remembered(frame) = <<>>
          /\ collected \o Remembered(frame) = <<>>
      BY <3>1, <3>2
    <3>4. executed' = <<>> /\ collected' = <<>>
      BY <2>2, <3>1, <3>3 DEF DeviceExecute
    <3>5. QED
      BY <2>2, <3>1, <3>4
  <2>3. QED
    BY <2>1, <2>2
<1>4. /\ Base' = Base /\ Until' = Until
      /\ Boundary(Base)' <=> Boundary(Base)
      /\ Boundary(Until)' <=> Boundary(Until)
      /\ ExecutedUpTo(Base)' <=> ExecutedUpTo(Base)
      /\ ExecutedUpTo(Until)' <=> ExecutedUpTo(Until)
  BY <1>1, <1>3, SameScript, SameExecuted
<1>5. /\ Emptied' <=> Emptied
      /\ \A n : Batched(n) => Batched(n)'
  BY <1>1, <1>2, <1>3, <1>4 DEF Emptied, Batched
<1>6. ASSUME NEW line, Ready(line) PROVE Ready(line)'
  BY <1>1, <1>2, <1>3, <1>4, <1>5, <1>6 DEF Ready
<1>7. Settled => Settled'
  BY <1>1, <1>2, <1>3 DEF Settled
<1>8. CutInLines'
  BY <1>1, <1>4 DEF ScriptCall, CutInLines
<1>9. UnseenReady'
  <2>1. ASSUME NEW i \in DOMAIN toDevice', Unseen(i)'
        PROVE  Ready(toDevice[i].line)'
    <3>1. PICK j \in DOMAIN toDevice : toDevice'[i] = toDevice[j]
      BY <1>1
    <3>2. Ready(toDevice[j].line)
      BY <1>1, <1>2, <2>1, <3>1 DEF ScriptCall, UnseenReady, Unseen
    <3>3. QED
      BY <1>6, <3>1, <3>2
  <2>2. ASSUME NEW i \in DOMAIN toDevice', NEW k \in DOMAIN toDevice', Unseen(i)',
               toDevice'[i].number < toDevice'[k].number
        PROVE  IsStop(toDevice[k].line)'
    <3>1. PICK j \in DOMAIN toDevice : toDevice'[i] = toDevice[j]
      BY <1>1
    <3>2. PICK m \in DOMAIN toDevice : toDevice'[k] = toDevice[m]
      BY <1>1
    <3>3. Unseen(j)
      BY <1>1, <1>2, <2>2, <3>1 DEF Unseen
    <3>4. QED
      BY <2>2, <3>1, <3>2, <3>3 DEF ScriptCall, UnseenReady, IsStop
  <2>3. pc # "prepare" /\ last'.number < number => Ready(Current)'
    <3>1. pc # "prepare" /\ last'.number < number => Ready(Current)
      BY <1>1, <1>2 DEF ScriptCall, UnseenReady
    <3>2. Ready(Current) => Ready(Current)'
      BY <1>1, <1>6
    <3>3. QED
      BY <3>1, <3>2
  <2>4. QED
    BY <1>1, <2>1, <2>2, <2>3 DEF UnseenReady
<1>10. StageReached'
  BY <1>1, <1>2, <1>5, <1>7 DEF ScriptCall, StageReached
<1>11. ExchangeReached'
  <2>1. ASSUME NEW i \in DOMAIN toDevice', Unseen(i)',
               stage \in {"begin", "body", "end", "stop"}, pc # "prepare"
        PROVE  toDevice'[i].number = number
    <3>1. PICK j \in DOMAIN toDevice : toDevice'[i] = toDevice[j]
      BY <1>1
    <3>2. Unseen(j)
      BY <1>1, <1>2, <2>1, <3>1 DEF Unseen
    <3>3. QED
      BY <2>1, <3>1, <3>2 DEF ScriptCall, ExchangeReached
  <2>2. pc # "prepare" => ~(last'.number = number /\ last'.answer = "ack")
    BY <1>1, <1>2, <1>3 DEF ScriptCall
  <2>3. QED
    BY <1>1, <2>1, <2>2 DEF ExchangeReached
<1>12. last'.number < first => executed' = <<>> /\ collected' = <<>>
  BY <1>1, <1>2, <1>3 DEF ScriptCall
<1>13. QED
  BY <1>1, <1>4, <1>7, <1>8, <1>9, <1>10, <1>11, <1>12 DEF ScriptCall

(* The device carries out a frame of the call: the one that is not a       *)
(* STOP_ALL, or a STOP_ALL behind which only STOP_ALLs come.               *)
LEMMA OwnPreservesCall ==
    ASSUME SegmentInv, ScriptCall, DeviceExecute, Head(toDevice).number >= first
    PROVE  ScriptCall'
<1> USE DEF SegmentInv
<1> DEFINE frame == Head(toDevice)
           line == frame.line
<1>1. /\ stage' = stage /\ pc' = pc /\ script' = script /\ rest' = rest
      /\ segment' = segment /\ done' = done /\ first' = first /\ number' = number
      /\ outcome' = outcome /\ written' = written /\ Current' = Current
      /\ number \in Nat /\ last.number \in Nat
      /\ 1 \in DOMAIN toDevice /\ frame = toDevice[1] /\ line \in Command
      /\ frame.number \in Nat /\ last.number <= frame.number /\ frame.number <= number
      /\ frame.number = number /\ pc # "prepare" => line = Current
      /\ \A i \in DOMAIN toDevice' :
            /\ \E j \in DOMAIN toDevice : toDevice'[i] = toDevice[j]
            /\ toDevice'[i].number \in Nat /\ frame.number <= toDevice'[i].number
  BY DeviceStep
<1>2. frame.number # last.number /\ last'.number = frame.number
  BY DEF DeviceExecute
<1>3. Unseen(1) /\ Ready(line)
  BY <1>1, <1>2 DEF Unseen, ScriptCall, UnseenReady
<1>4. Remembered(frame) = <<line>>
  BY DEF Remembered
<1>5. /\ executed \in Seq(Command) /\ collected \in Seq(Command) /\ segment \in Seq(Line)
      /\ Base \in Nat /\ Base + Len(segment) = Until
      /\ DOMAIN segment = 1..Len(segment) /\ Len(segment) \in Nat
  BY Positions DEF Inv, TypeOK, ScriptCall, CutInLines
<1>6. /\ Base' = Base /\ Until' = Until
      /\ Boundary(Base)' <=> Boundary(Base)
      /\ Boundary(Until)' <=> Boundary(Until)
  BY <1>1, SameScript
<1>7. CutInLines'
  BY <1>1, <1>6 DEF ScriptCall, CutInLines
<1>8. ~Settled
  BY <1>1, <1>2 DEF Settled
<1>9. stage \notin {"idle", "cleanup"} =>
         stage \in {"begin", "body", "end", "stop"} /\ pc # "prepare" /\ frame.number = number
  <2>1. stage \notin {"idle", "cleanup"} => stage \in {"begin", "body", "end", "stop"}
    BY <1>8 DEF Inv, TypeOK, ScriptCall, StageReached
  <2>2. stage \in {"begin", "stop"} => pc # "prepare"
    BY <1>8 DEF ScriptCall, StageReached
  <2>3. stage \in {"body", "end"} => pc # "prepare"
    BY <1>1, <1>2 DEF Inv, BatchAccounted
  <2>4. stage \in {"begin", "body", "end", "stop"} /\ pc # "prepare" => frame.number = number
    BY <1>1, <1>3 DEF ScriptCall, ExchangeReached
  <2>5. QED
    BY <2>1, <2>2, <2>3, <2>4
<1>10. outcome # "completed"
  BY <1>8 DEF ScriptCall
<1>11. ASSUME NEW i \in DOMAIN toDevice', Unseen(i)'
       PROVE  /\ IsStop(toDevice'[i].line)
              /\ \A k \in DOMAIN toDevice' :
                    toDevice'[i].number < toDevice'[k].number => IsStop(toDevice'[k].line)
  <2>1. PICK j \in DOMAIN toDevice : toDevice'[i] = toDevice[j]
    BY <1>1
  <2>2. frame.number < toDevice[j].number
    BY <1>1, <1>2, <1>11, <2>1 DEF Unseen
  <2>3. IsStop(toDevice[j].line)
    BY <1>1, <1>3, <2>2 DEF ScriptCall, UnseenReady
  <2>4. ASSUME NEW k \in DOMAIN toDevice', toDevice'[i].number < toDevice'[k].number
        PROVE  IsStop(toDevice'[k].line)
    <3>1. PICK m \in DOMAIN toDevice : toDevice'[k] = toDevice[m]
      BY <1>1
    <3>2. Unseen(j)
      BY <1>1, <1>2, <1>11, <2>1 DEF Unseen
    <3>3. QED
      BY <2>1, <2>4, <3>1, <3>2 DEF ScriptCall, UnseenReady
  <2>5. QED
    BY <2>1, <2>3, <2>4
<1>12. UnseenReady'
  <2>1. ASSUME NEW i \in DOMAIN toDevice', Unseen(i)' PROVE Ready(toDevice[i].line)'
    BY <1>11, <2>1 DEF Ready, IsStop
  <2>2. ASSUME NEW i \in DOMAIN toDevice', NEW k \in DOMAIN toDevice', Unseen(i)',
               toDevice'[i].number < toDevice'[k].number
        PROVE  IsStop(toDevice[k].line)'
    BY <1>11, <2>2 DEF IsStop
  <2>3. pc # "prepare" /\ last'.number < number => Ready(Current)'
    <3>1. pc # "prepare" /\ last'.number < number => stage = "cleanup"
      BY <1>1, <1>2, <1>9 DEF Inv, StageShape
    <3>2. stage = "cleanup" => Ready(Current)'
      BY <1>1 DEF Current, Control, Ready
    <3>3. QED
      BY <3>1, <3>2
  <2>4. QED
    BY <1>1, <2>1, <2>2, <2>3 DEF UnseenReady
<1>13. StageReached'
  <2>1. stage \notin {"idle", "cleanup"} => pc' # "prepare" /\ last'.number = number'
    BY <1>1, <1>2, <1>9
  <2>2. stage = "begin" => done' = 0
    BY <1>1 DEF ScriptCall, StageReached
  <2>3. stage = "end" => done' = Len(segment')
    BY <1>1 DEF ScriptCall, StageReached
  <2>4. stage # "collect"
    BY <1>9
  <2>5. QED
    BY <1>1, <2>1, <2>2, <2>3, <2>4 DEF StageReached
<1>14. SUFFICES /\ ExecutedUpTo(Base)' \/ (ExecutedUpTo(Until)' /\ Boundary(Until))
                /\ pc # "prepare" =>
                      /\ stage = "begin" => Batched(0)'
                      /\ stage = "body" => Batched(done + 1)'
                      /\ stage = "end" => ~collecting' /\ collected' = <<>> /\ ExecutedUpTo(Until)'
                      /\ stage = "stop" => ~collecting' /\ Emptied'
  <2>1. \A i \in DOMAIN toDevice' : stage \notin {"idle", "cleanup"} => ~Unseen(i)'
    <3>1. ASSUME NEW i \in DOMAIN toDevice', stage \notin {"idle", "cleanup"}, Unseen(i)'
          PROVE  FALSE
      <4>1. PICK j \in DOMAIN toDevice : toDevice'[i] = toDevice[j]
        BY <1>1
      <4>2. Unseen(j) /\ toDevice[j].number > number
        BY <1>1, <1>2, <1>9, <3>1, <4>1 DEF Unseen
      <4>3. toDevice[j].number <= number
        BY DEF Inv, LinkInOrder
      <4>4. QED
        BY <1>1, <4>1, <4>2, <4>3
    <3>2. QED
      BY <3>1
  <2>2. ExchangeReached'
    BY <1>1, <2>1 DEF ExchangeReached
  <2>3. ~(last'.number < first)
    BY <1>1, <1>2
  <2>4. QED
    BY <1>1, <1>6, <1>7, <1>10, <1>12, <1>13, <2>2, <2>3 DEF ScriptCall
<1>15. last'.number >= first
  BY <1>2
<1>16. stage \in {"begin", "body", "end", "stop"} => line = Current
  BY <1>1, <1>9
<1>17. CASE line.type = "stop_all"
  <2>1. executed' = executed /\ collected' = <<>> /\ collecting' = FALSE
    BY <1>17 DEF DeviceExecute
  <2>2. /\ ExecutedUpTo(Base)' <=> ExecutedUpTo(Base)
        /\ ExecutedUpTo(Until)' <=> ExecutedUpTo(Until)
    BY <1>1, <2>1, SameExecuted
  <2>3. stage \notin {"begin", "body", "end"}
    <3>1. stage = "body" => Current.type # "stop_all"
      BY CurrentIsCommand DEF Inv
    <3>2. QED
      BY <1>16, <1>17, <3>1 DEF Current, Control
  <2>4. stage = "stop" => ExecutedUpTo(Base)
    BY <1>1, <1>2, <1>9 DEF ScriptCall, StageReached, Emptied
  <2>5. QED
    BY <2>1, <2>2, <2>3, <2>4 DEF ScriptCall, Emptied
<1>18. CASE line.type = "batch_begin"
  <2>1. executed' = executed /\ collected' = <<>> /\ collecting' = TRUE
    BY <1>18 DEF DeviceExecute
  <2>2. ExecutedUpTo(Base)'
    BY <1>1, <1>3, <1>18, <2>1, SameExecuted DEF Ready, Emptied
  <2>3. stage \notin {"body", "end", "stop"}
    <3>1. stage = "body" => Current.type # "batch_begin"
      BY CurrentIsCommand DEF Inv
    <3>2. QED
      BY <1>16, <1>18, <3>1 DEF Current, Control
  <2>4. Batched(0)'
    BY <1>1, <1>15, <2>1, <2>2 DEF Batched
  <2>5. QED
    BY <2>2, <2>3, <2>4
<1>19. CASE line.type = "batch_end"
  <2>1. executed' = executed \o collected /\ collected' = <<>> /\ collecting' = FALSE
    BY <1>19 DEF DeviceExecute
  <2>2. Batched(Len(segment)) /\ Boundary(Until)
    BY <1>3, <1>19 DEF Ready
  <2>3. collected = segment
    <3>1. Len(collected) = Len(segment) /\ \A i \in 1..Len(segment) : collected[i] = segment[i]
      BY <2>2 DEF Batched
    <3>2. QED
      BY <1>5, <3>1, SeqEqual
  <2>4. ExecutedUpTo(Until)'
    <3>1. \A i \in DOMAIN segment : segment[i] = script[Base + i] /\ ~IsStop(segment[i])
      BY DEF Inv, StageShape, ScriptCall, CutInLines
    <3>2. PICK base \in Nat : base = Base
      BY <1>5
    <3>3. ExecutedUpTo(base)
      BY <2>2, <3>2 DEF Batched
    <3>4. PICK s \in Seq(Line) : s = segment
      BY <1>5
    <3>5. ExecutedUpTo(base + Len(s))'
      BY <1>1, <1>5, <2>1, <2>3, <3>1, <3>2, <3>3, <3>4, ExecutedMore
    <3>6. base + Len(s) = Until'
      BY <1>5, <1>6, <3>2, <3>4
    <3>7. QED
      BY <3>5, <3>6 DEF ExecutedUpTo, IsStop
  <2>5. stage \notin {"begin", "body", "stop"}
    <3>1. stage = "body" => Current.type # "batch_end"
      BY CurrentIsCommand DEF Inv
    <3>2. QED
      BY <1>16, <1>19, <3>1 DEF Current, Control
  <2>6. QED
    BY <2>1, <2>2, <2>4, <2>5
<1>20. CASE line.type \notin {"stop_all", "batch_begin", "batch_end"}
  <2>1. collecting /\ ExecutedUpTo(Base)
    BY <1>3, <1>20 DEF Ready
  <2>2. executed' = executed /\ collected' = collected \o <<line>> /\ collecting' = collecting
    BY <1>4, <1>20, <2>1 DEF DeviceExecute
  <2>3. ExecutedUpTo(Base)'
    BY <1>1, <2>1, <2>2, SameExecuted
  <2>4. stage \notin {"begin", "end", "stop"}
    BY <1>16, <1>20 DEF Current, Control
  <2>5. CASE stage = "body"
    <3>1. Batched(done) /\ done \in Nat
      <4>1. done \in Nat
        BY <1>5 DEF Inv, TypeOK
      <4>2. last.number < number
        BY <1>1, <1>2
      <4>3. QED
        BY <2>5, <4>1, <4>2 DEF ScriptCall, StageReached
    <3>2. line = segment[done + 1]
      BY <1>16, <2>5 DEF Current
    <3>3. Len(collected') = done + 1 /\ \A i \in 1..(done + 1) : collected'[i] = segment[i]
      <4>1. /\ Len(collected) = done
            /\ \A i \in 1..done : collected[i] = segment[i]
        BY <3>1 DEF Batched
      <4>2. /\ Len(collected') = done + 1
            /\ \A i \in 1..done : collected'[i] = collected[i]
            /\ collected'[done + 1] = line
        <5>1. collected \in Seq(Command) /\ <<line>> \in Seq(Command)
          BY <1>1, <1>5
        <5>2. Len(<<line>>) = 1 /\ <<line>>[1] = line
          OBVIOUS
        <5>3. /\ Len(collected \o <<line>>) = Len(collected) + 1
              /\ \A i \in 1..(Len(collected) + 1) : (collected \o <<line>>)[i] =
                    IF i <= Len(collected) THEN collected[i] ELSE <<line>>[i - Len(collected)]
          BY <5>1, <5>2, ConcatProperties
        <5>4. /\ Len(collected') = done + 1
              /\ \A i \in 1..(done + 1) : collected'[i] =
                    IF i <= done THEN collected[i] ELSE <<line>>[i - done]
          BY <2>2, <4>1, <5>3
        <5>5. \A i \in 1..done : i \in 1..(done + 1) /\ i <= done
          BY <3>1
        <5>6. done + 1 \in 1..(done + 1) /\ ~(done + 1 <= done) /\ (done + 1) - done = 1
          BY <3>1
        <5>7. QED
          BY <5>2, <5>4, <5>5, <5>6
      <4>3. \A i \in 1..(done + 1) : i \in 1..done \/ i = done + 1
        BY <3>1
      <4>4. QED
        BY <3>2, <4>1, <4>2, <4>3
    <3>4. Batched(done + 1)'
      BY <1>1, <1>15, <2>1, <2>2, <2>3, <3>3 DEF Batched
    <3>5. QED
      BY <2>3, <2>5, <3>4
  <2>6. CASE stage # "body"
    BY <2>3, <2>4, <2>6
  <2>7. QED
    BY <2>5, <2>6
<1>21. QED
  BY <1>17, <1>18, <1>19, <1>20


-------------------------------------------------------------------------------
(* A command of its own.                                                   *)

(* The caller takes one exchange, and leaves the device alone. *)
LEMMA CommandPreservesCall ==
    ASSUME SegmentInv, CommandCall,
           \/ Collect \/ Flush \/ StopLine \/ Return
           \/ RejectText \/ RejectLength \/ Prepare \/ Write \/ Break
           \/ TimeOut \/ TakeBusy \/ TakeNack \/ TakeAck
    PROVE  CommandCall'
<1> USE DEF SegmentInv
<1>1. /\ stage \in {"command", "idle"} /\ Len(script) = 1
      /\ number \in {first - 1, first} /\ number \in Nat
      /\ stage = "idle" => pc = "prepare"
  BY LinkTypes DEF CommandCall, Inv, StageShape
<1>2. stage = "command"
  BY <1>1 DEF Collect, Flush, StopLine, Return, RejectText, RejectLength, Prepare, Write,
              Break, TimeOut, TakeBusy, TakeNack, TakeAck
<1>3. ~(Collect \/ Flush \/ StopLine \/ Return)
  BY <1>2 DEF Collect, Flush, StopLine, Return
<1>4. /\ script' = script /\ first' = first
      /\ last' = last /\ collected' = collected /\ executed' = executed
  BY <1>3 DEF RejectText, RejectLength, Prepare, Write, Break, TimeOut, TakeBusy, TakeNack,
              TakeAck, transaction, device
<1>5. /\ stage' \in {"command", "idle"} /\ outcome' # "completed"
      /\ number' \in {first - 1, first}
      /\ stage' = "command" => (pc' = "prepare" <=> number' = first - 1)
  <2>1. CASE RejectText \/ Break \/ TakeNack
    <3>1. number' = number /\ \E reason \in {"rejected", "failed"} : Throw(reason)
      BY <2>1 DEF RejectText, Break, TakeNack, exchange
    <3>2. QED
      BY <1>1, <1>2, <3>1 DEF Throw
  <2>2. CASE RejectLength
    <3>1. pc = "prepare" /\ number' = number + 1 /\ Throw("rejected")
      BY <2>2 DEF RejectLength
    <3>2. QED
      BY <1>1, <1>2, <3>1 DEF Throw, CommandCall
  <2>3. CASE Prepare
    <3>1. pc = "prepare" /\ pc' = "write" /\ number' = number + 1 /\ stage' = stage
          /\ outcome' = outcome
      BY <2>3 DEF Prepare, verdict
    <3>2. QED
      BY <1>1, <1>2, <3>1 DEF CommandCall
  <2>4. CASE Write
    <3>1. pc = "write" /\ pc' = "wait" /\ number' = number /\ stage' = stage
          /\ outcome' = outcome
      BY <2>4 DEF Write, exchange
    <3>2. QED
      BY <1>1, <1>2, <3>1 DEF CommandCall
  <2>5. CASE TimeOut \/ TakeBusy
    <3>1. pc = "wait" /\ Retry
      BY <2>5 DEF TimeOut, TakeBusy
    <3>2. number' = number
      BY <3>1 DEF Retry
    <3>3. CASE attempt < Retries
      BY <1>1, <1>2, <3>1, <3>2, <3>3 DEF Retry, CommandCall
    <3>4. CASE ~(attempt < Retries)
      BY <1>1, <1>2, <3>1, <3>2, <3>4 DEF Retry, Throw
    <3>5. QED
      BY <3>3, <3>4
  <2>6. CASE TakeAck
    <3>1. number' = number /\ Succeed
      BY <2>6 DEF TakeAck
    <3>2. QED
      BY <1>1, <1>2, <3>1 DEF Succeed
  <2>7. QED
    BY <1>3, <2>1, <2>2, <2>3, <2>4, <2>5, <2>6
<1>6. ASSUME NEW i \in DOMAIN toDevice', toDevice'[i].number >= first
      PROVE  toDevice'[i].line = script[1]
  <2>1. CASE toDevice' = toDevice
    BY <1>6, <2>1 DEF CommandCall
  <2>2. CASE Write /\ toDevice' = Append(toDevice, [number |-> number, line |-> Current])
    <3>1. toDevice \in Seq(Frame)
      BY LinkTypes DEF Inv
    <3>2. i \in DOMAIN toDevice \/ toDevice'[i] = [number |-> number, line |-> Current]
      BY <2>2, <3>1
    <3>3. i \in DOMAIN toDevice => toDevice'[i] = toDevice[i]
      BY <2>2, <3>1
    <3>4. Current = script[1]
      BY <1>2 DEF Current
    <3>5. QED
      BY <1>6, <3>2, <3>3, <3>4 DEF CommandCall
  <2>3. QED
    BY <1>3, <2>1, <2>2 DEF RejectText, RejectLength, Prepare, Write, Break, TimeOut,
                            TakeBusy, TakeNack, TakeAck, link
<1>7. QED
  BY <1>1, <1>4, <1>5, <1>6 DEF CommandCall, IsStop

(* The device carries the command out at most once. *)
LEMMA CommandDevicePreservesCall ==
    ASSUME SegmentInv, CommandCall,
           DeviceRepeat \/ DeviceBusy \/ DeviceRefuse \/ DeviceExecute
    PROVE  CommandCall'
<1> USE DEF SegmentInv
<1> DEFINE frame == Head(toDevice)
           line == frame.line
<1>1. /\ stage' = stage /\ pc' = pc /\ script' = script
      /\ first' = first /\ number' = number /\ outcome' = outcome
      /\ number \in Nat /\ last.number \in Nat
      /\ 1 \in DOMAIN toDevice /\ frame = toDevice[1]
      /\ frame.number \in Nat /\ last.number <= frame.number /\ frame.number <= number
      /\ \A i \in DOMAIN toDevice' : \E j \in DOMAIN toDevice : toDevice'[i] = toDevice[j]
  BY DeviceStep
<1>2. \A i \in DOMAIN toDevice' : toDevice'[i].number >= first => toDevice'[i].line = script[1]
  BY <1>1 DEF CommandCall
<1>3. SUFFICES /\ last'.number < first => executed' = <<>> /\ collected' = <<>>
               /\ executed' = <<>> \/ (executed' = script /\ ~IsStop(script[1]))
  BY <1>1, <1>2 DEF CommandCall, IsStop
<1>4. CASE DeviceRepeat \/ DeviceBusy
  <2>1. last' = last /\ executed' = executed /\ collected' = collected
    BY <1>4 DEF DeviceRepeat, DeviceBusy, device
  <2>2. QED
    BY <2>1 DEF CommandCall
<1>5. CASE DeviceRefuse
  <2>1. last'.number = frame.number /\ executed' = executed /\ collected' = collected
    BY <1>5 DEF DeviceRefuse
  <2>2. QED
    BY <1>1, <2>1 DEF CommandCall
<1>6. CASE DeviceExecute
  <2>1. last'.number = frame.number /\ frame.number # last.number
    BY <1>6 DEF DeviceExecute
  <2>2. last.number < first
    BY <1>1, <2>1 DEF CommandCall
  <2>3. executed = <<>> /\ collected = <<>>
    BY <2>2 DEF CommandCall
  <2>4. CASE frame.number < first
    <3>1. Remembered(frame) = <<>>
      BY <1>1, <2>4 DEF Remembered
    <3>2. executed \o collected = <<>> /\ executed \o Remembered(frame) = <<>>
          /\ collected \o Remembered(frame) = <<>>
      BY <2>3, <3>1
    <3>3. executed' = <<>> /\ collected' = <<>>
      BY <1>6, <2>3, <3>2 DEF DeviceExecute
    <3>4. QED
      BY <3>3
  <2>5. CASE frame.number >= first
    <3>1. line = script[1] /\ script[1] \in Line /\ script = <<script[1]>>
      <4>1. script \in Seq(Line) /\ Len(script) = 1
        BY DEF Inv, TypeOK, CommandCall
      <4>2. script[1] \in Line /\ script = <<script[1]>>
        BY <4>1
      <4>3. QED
        BY <1>1, <2>5, <4>2 DEF CommandCall
    <3>2. line.type \notin {"batch_begin", "batch_end"}
      BY <3>1 DEF Line, LineTypes, InputTypes
    <3>3. Remembered(frame) = script
      BY <2>5, <3>1 DEF Remembered
    <3>4. executed \o Remembered(frame) = script
      BY <2>3, <3>1, <3>3
    <3>5. IsStop(line) => executed' = <<>>
      BY <1>6, <2>3 DEF DeviceExecute, IsStop
    <3>6. ~IsStop(line) => executed' = <<>> \/ executed' = script
      BY <1>6, <2>3, <3>2, <3>4 DEF DeviceExecute, IsStop
    <3>7. QED
      BY <1>1, <2>1, <2>5, <3>1, <3>5, <3>6
  <2>6. QED
    BY <1>1, <2>4, <2>5
<1>7. QED
  BY <1>4, <1>5, <1>6

-------------------------------------------------------------------------------
(* The theorems.                                                           *)

(* No call was made. *)
LEMMA InitCall == Init => ScriptCall
<1> SUFFICES ASSUME Init PROVE ScriptCall
  OBVIOUS
<1>1. Base = 0 /\ Until = 0
  <2>1. Len(script) = 0 /\ Len(rest) = 0 /\ Len(segment) = 0
    <3>1. Len(<<>>) = 0
      OBVIOUS
    <3>2. QED
      BY <3>1 DEF Init
  <2>2. QED
    BY <2>1 DEF Base, Until
<1>2. ExecutedUpTo(Base)
  BY <1>1, ExecutedNone DEF Init
<1>3. CutInLines
  BY <1>1 DEF Init, CutInLines, Boundary
<1>4. UnseenReady /\ StageReached /\ ExchangeReached
  BY <1>2 DEF Init, UnseenReady, StageReached, ExchangeReached
<1>5. QED
  BY <1>2, <1>3, <1>4 DEF Init, ScriptCall

(* Nothing of it depends on what a stutter leaves. *)
LEMMA StutterPreservesCall ==
    ASSUME CallInv, UNCHANGED vars
    PROVE  CallInv'
<1>1. /\ UNCHANGED <<stage, pc, script, rest, segment, done, first, number, outcome, written,
                     toDevice, collecting, collected, executed, last>>
      /\ UNCHANGED device
  BY DEF vars, transaction, exchange, verdict, device, link
<1>2. /\ \A line : Ready(line)' <=> Ready(line)
      /\ \A n : Batched(n)' <=> Batched(n)
      /\ Emptied' <=> Emptied
  BY <1>1, SameDevice
<1>3. /\ Base' = Base /\ Until' = Until
      /\ Boundary(Base)' <=> Boundary(Base)
      /\ Boundary(Until)' <=> Boundary(Until)
      /\ ExecutedUpTo(Base)' <=> ExecutedUpTo(Base)
      /\ ExecutedUpTo(Until)' <=> ExecutedUpTo(Until)
  BY <1>1, SameScript, SameExecuted
<1>4. CASE ScriptCall
  <2>1. Current' = Current
    BY <1>1 DEF Current
  <2>2. CutInLines'
    BY <1>1, <1>3, <1>4 DEF ScriptCall, CutInLines
  <2>3. UnseenReady'
    BY <1>1, <1>2, <1>4, <2>1 DEF ScriptCall, UnseenReady, Unseen, IsStop
  <2>4. Settled' <=> Settled
    BY <1>1 DEF Settled
  <2>5. StageReached'
    BY <1>1, <1>2, <1>4, <2>4 DEF ScriptCall, StageReached
  <2>6. ExchangeReached'
    BY <1>1, <1>2, <1>3, <1>4 DEF ScriptCall, ExchangeReached, Unseen
  <2>7. ScriptCall'
    BY <1>1, <1>3, <1>4, <2>2, <2>3, <2>4, <2>5, <2>6 DEF ScriptCall
  <2>8. QED
    BY <2>7 DEF CallInv
<1>5. CASE CommandCall
  BY <1>1, <1>5 DEF CommandCall, CallInv, IsStop
<1>6. QED
  BY <1>4, <1>5 DEF CallInv

(* Every step of the caller or of the device preserves CallInv. *)
LEMMA NextPreservesCall ==
    ASSUME SegmentInv, Next
    PROVE  CallInv'
<1>1. CASE \E lines \in Scripts : RunScript(lines)
  BY <1>1, RunScriptPreservesCall DEF SegmentInv, CallInv
<1>2. CASE \E command \in Commands : RunCommand(command)
  BY <1>2, RunCommandPreservesCall DEF SegmentInv, CallInv
<1>3. CASE Collect \/ Flush \/ StopLine \/ Return
  BY <1>3, LoopPreservesCall, CommandPreservesCall DEF SegmentInv, CallInv
<1>4. CASE RejectText \/ RejectLength \/ Break \/ TakeNack
  BY <1>4, FailurePreservesCall, CommandPreservesCall DEF SegmentInv, CallInv
<1>5. CASE Prepare
  BY <1>5, PreparePreservesCall, CommandPreservesCall DEF SegmentInv, CallInv
<1>6. CASE Write
  BY <1>6, WritePreservesCall, CommandPreservesCall DEF SegmentInv, CallInv
<1>7. CASE TimeOut \/ TakeBusy
  BY <1>7, RetryPreservesCall, CommandPreservesCall DEF SegmentInv, CallInv
<1>8. CASE TakeAck
  BY <1>8, AckPreservesCall, CommandPreservesCall DEF SegmentInv, CallInv
<1>9. CASE DeviceRepeat \/ DeviceBusy
  BY <1>9, IdleDevicePreservesCall, CommandDevicePreservesCall DEF SegmentInv, CallInv
<1>10. CASE DeviceRefuse
  BY <1>10, ForeignPreservesCall, CommandDevicePreservesCall DEF SegmentInv, CallInv
<1>11. CASE DeviceExecute
  <2>1. CASE CommandCall
    BY <1>11, <2>1, CommandDevicePreservesCall DEF CallInv
  <2>2. CASE ScriptCall
    <3>1. Head(toDevice).number < first \/ Head(toDevice).number >= first
      BY <1>11, DeviceStep DEF SegmentInv
    <3>2. QED
      BY <1>11, <2>2, <3>1, ForeignPreservesCall, OwnPreservesCall DEF CallInv
  <2>3. QED
    BY <2>1, <2>2 DEF SegmentInv, CallInv
<1>12. QED
  BY <1>1, <1>2, <1>3, <1>4, <1>5, <1>6, <1>7, <1>8, <1>9, <1>10, <1>11 DEF Next

(* In every call the device and the frames on the link are where SegmentInv *)
(* says: run_script goes on only from what was acknowledged, and whatever   *)
(* a failed exchange left on the link can be carried out without harm.      *)
THEOREM SegmentInvHolds == Spec => []SegmentInv
<1>1. Init => CallInv
  BY InitCall DEF CallInv
<1>2. Inv => first \in Nat
  BY DEF Inv, TypeOK
<1>3. Inv /\ CallInv /\ [Next]_vars => CallInv'
  BY <1>2, NextPreservesCall, StutterPreservesCall DEF SegmentInv
<1>4. Inv /\ CallInv => SegmentInv
  BY <1>2 DEF SegmentInv
<1>5. QED
  BY <1>1, <1>3, <1>4, InvHolds, PTL DEF Spec

(* Whatever is lost, refused, repeated or thrown, the device executes whole *)
(* segments of a script, in order and once (run_script,                     *)
(* execute_script_batch).                                                   *)
THEOREM SegmentsAreWhole == Spec => []WholeSegments
<1>1. SegmentInv => WholeSegments
  <2> SUFFICES ASSUME SegmentInv PROVE WholeSegments
    OBVIOUS
  <2> USE DEF SegmentInv
  <2>1. CASE ScriptCall
    <3>1. /\ Base \in Nat /\ Len(rest) \in Nat /\ Len(segment) \in Nat
          /\ Base + Len(segment) = Until /\ Until + Len(rest) = Len(script)
      BY <2>1, Positions DEF Inv, ScriptCall, CutInLines
    <3>2. Base \in 0..Len(script) /\ Until \in 0..Len(script)
      BY <3>1
    <3>3. \/ Boundary(Base) /\ ExecutedUpTo(Base)
          \/ Boundary(Until) /\ ExecutedUpTo(Until)
      BY <2>1 DEF ScriptCall, CutInLines
    <3>4. QED
      BY <3>2, <3>3, Zenon DEF WholeSegments
  <2>2. CASE CommandCall /\ executed = <<>>
    <3>1. 0 \in 0..Len(script) /\ Boundary(0)
      BY <2>2 DEF CommandCall, Boundary
    <3>2. ExecutedUpTo(0)
      BY <2>2, ExecutedNone
    <3>3. QED
      BY <3>1, <3>2, Zenon DEF WholeSegments
  <2>3. CASE CommandCall /\ executed = script /\ ~IsStop(script[1])
    <3>1. Len(script) = 1 /\ DOMAIN script = {1}
      <4>1. script \in Seq(Line) /\ Len(script) = 1
        BY <2>3 DEF Inv, TypeOK, CommandCall
      <4>2. QED
        BY <4>1
    <3>2. 1 \in 0..Len(script) /\ Boundary(1)
      BY <3>1 DEF Boundary
    <3> DEFINE Inputs == {k \in 1..1 : ~IsStop(script[k])}
               at == [i \in {1} |-> 1]
    <3>3. Inputs = {1}
      BY <2>3
    <3>4. /\ at \in [DOMAIN executed -> Inputs]
          /\ \A i \in DOMAIN executed : executed[i] = script[at[i]]
          /\ \A i, j \in DOMAIN executed : i < j => at[i] < at[j]
          /\ \A k \in Inputs : \E i \in DOMAIN executed : at[i] = k
      BY <2>3, <3>1, <3>3
    <3> HIDE DEF at, Inputs
    <3>5. ExecutedUpTo(1)
      BY <3>4, Zenon DEF ExecutedUpTo, Inputs
    <3>6. QED
      BY <3>2, <3>5, Zenon DEF WholeSegments
  <2>4. QED
    BY <2>1, <2>2, <2>3 DEF CallInv, CommandCall
<1>2. QED
  BY <1>1, SegmentInvHolds, PTL

(* A run_script that returned has had all of its lines executed, and has   *)
(* left no batch open if it sent anything (run_script's return).           *)
THEOREM CompletedIsDone == Spec => []CompletedMeansDone
<1>1. SegmentInv => CompletedMeansDone
  <2> SUFFICES ASSUME SegmentInv, outcome = "completed"
               PROVE  ExecutedUpTo(Len(script)) /\ (written => ~collecting)
    BY DEF CompletedMeansDone
  <2> USE DEF SegmentInv
  <2>1. ScriptCall
    BY DEF CallInv, CommandCall
  <2>2. rest = <<>> /\ segment = <<>> /\ Settled /\ ExecutedUpTo(Base)
    BY <2>1 DEF ScriptCall
  <2>3. Base = Len(script)
    BY <2>2, Positions DEF Inv
  <2>4. written => number >= first
    BY <2>1 DEF ScriptCall
  <2>5. number \in Nat
    BY LinkTypes DEF Inv
  <2>6. QED
    BY <2>2, <2>3, <2>4, <2>5 DEF Settled
<1>2. QED
  BY <1>1, SegmentInvHolds, PTL
-------------------------------------------------------------------------------
(***************************************************************************)
(* The refinement: Script implements Transaction.  The variables are       *)
(* mapped to themselves, so what is to be shown of a step is that it is    *)
(* one of Transaction's or leaves script, executed, outcome and cleaned    *)
(* alone.  Only one step of the device is not a stutter: the BATCH_END of  *)
(* this call (or its command) executes what SegmentInv says is there.      *)
(***************************************************************************)

(* Where a call is while it has not ended; what an acknowledgement, and a  *)
(* script that does not parse, leave behind.                               *)
OutcomeShape ==
    /\ stage \notin {"idle", "cleanup"} => outcome = "none"
    /\ stage = "cleanup" => outcome \in {"rejected", "failed"}
    /\ outcome = "none" => stage # "idle" \/ script = <<>>
    /\ outcome = "acknowledged" => stage = "idle" /\ last.number = number
    /\ Promise!Malformed(script) => stage = "idle" /\ number = first - 1
    /\ cleaned => outcome \in {"rejected", "failed"}

OutcomeInv == SegmentInv /\ CleanupSettled /\ OutcomeShape

(* A frame that is carried out or refused was sent after all that the      *)
(* device has seen, and its exchange is not over.                          *)
LEMMA NewFrame ==
    ASSUME SegmentInv, DeviceRefuse \/ DeviceExecute
    PROVE  last.number < Head(toDevice).number /\ last.number < number
<1>1. Head(toDevice).number # last.number
  BY DEF DeviceRefuse, DeviceExecute
<1>2. QED
  BY <1>1, DeviceStep DEF SegmentInv

(* The device leaves the caller and its script alone. *)
LEMMA DeviceLeaves ==
    ASSUME DeviceRepeat \/ DeviceBusy \/ DeviceRefuse \/ DeviceExecute
    PROVE  /\ stage' = stage /\ outcome' = outcome /\ cleaned' = cleaned
           /\ script' = script /\ number' = number /\ first' = first
BY DEF DeviceRepeat, DeviceBusy, DeviceRefuse, DeviceExecute, transaction, exchange, verdict

(* Every step preserves OutcomeShape. *)
LEMMA NextPreservesOutcome ==
    ASSUME OutcomeInv, [Next]_vars
    PROVE  OutcomeShape'
<1> USE DEF OutcomeInv, OutcomeShape, Promise!Malformed
<1>0. number \in Nat /\ first \in Nat /\ (pc # "prepare" => stage \notin {"idle", "collect"})
  BY LinkTypes DEF SegmentInv, Inv, StageShape
<1>1. ASSUME NEW lines \in Scripts, RunScript(lines)
      PROVE  OutcomeShape'
  <2>1. /\ script' = lines /\ first' = number + 1 /\ cleaned' = FALSE /\ number' = number
    BY <1>1 DEF RunScript, StartCall, exchange
  <2>2. \/ stage' = "idle" /\ outcome' \in {"failed", "rejected"}
        \/ /\ stage' = "collect" /\ outcome' = "none"
           /\ \A i \in DOMAIN lines : lines[i].type # "malformed"
    BY <1>1 DEF RunScript
  <2>3. QED
    BY <1>0, <2>1, <2>2
<1>2. ASSUME NEW command \in Commands, RunCommand(command)
      PROVE  OutcomeShape'
  <2>1. /\ script' = <<command>> /\ cleaned' = FALSE
        /\ stage' = "command" /\ outcome' = "none"
    BY <1>2 DEF RunCommand, StartCall
  <2>2. command.type # "malformed"
    BY ScriptAssumption
  <2>3. ~Promise!Malformed(script)'
    BY <2>1, <2>2
  <2>4. QED
    BY <2>1, <2>3
<1>3. CASE Collect \/ Flush \/ StopLine
  <2>1. /\ stage = "collect" /\ stage' \in {"collect", "begin", "stop"}
        /\ UNCHANGED <<script, outcome, cleaned>>
    BY <1>3 DEF Collect, Flush, StopLine, verdict
  <2>2. QED
    BY <2>1
<1>4. CASE Return
  <2>1. /\ stage = "collect" /\ stage' = "idle" /\ outcome' = "completed"
        /\ UNCHANGED <<script, cleaned>>
    BY <1>4 DEF Return, transaction
  <2>2. QED
    BY <2>1
<1>5. CASE RejectText \/ RejectLength \/ Break \/ TakeNack
  <2>1. /\ stage \notin {"idle", "collect"}
        /\ script' = script /\ cleaned' \in {cleaned, stage = "cleanup"}
        /\ \E reason \in {"rejected", "failed"} : Throw(reason)
    BY <1>0, <1>5 DEF RejectText, RejectLength, Break, TakeNack, transaction
  <2>2. PICK reason \in {"rejected", "failed"} : Throw(reason)
    BY <2>1
  <2>3. /\ stage' \in {"idle", "cleanup"}
        /\ outcome' \in {"rejected", "failed"}
    BY <2>2 DEF Throw
  <2>4. QED
    BY <2>1, <2>3
<1>6. CASE Prepare \/ Write
  <2>1. /\ stage \notin {"idle", "collect"} /\ stage' = stage
        /\ UNCHANGED <<script, outcome, cleaned>>
    BY <1>0, <1>6 DEF Prepare, Write, transaction, verdict
  <2>2. QED
    BY <2>1
<1>7. CASE TimeOut \/ TakeBusy
  <2>1. /\ stage \notin {"idle", "collect"}
        /\ UNCHANGED <<script, cleaned>> /\ Retry
    BY <1>0, <1>7 DEF TimeOut, TakeBusy, transaction
  <2>2. \/ stage' = stage /\ outcome' = outcome
        \/ stage' \in {"idle", "cleanup"} /\ outcome' \in {"rejected", "failed"}
    BY <2>1 DEF Retry, Throw
  <2>3. QED
    BY <2>1, <2>2
<1>8. CASE TakeAck
  <2>1. /\ stage \notin {"idle", "collect"} /\ script' = script
        /\ cleaned' = (stage = "cleanup") /\ Succeed
        /\ number' = number /\ last' = last /\ last.number = number
    <3>1. last.number = number
      BY <1>8, TakenAnswer DEF TakeAck, SegmentInv, Inv
    <3>2. script' = script /\ number' = number /\ last' = last
      BY <1>8 DEF TakeAck, device
    <3>3. QED
      BY <1>0, <1>8, <3>1, <3>2 DEF TakeAck
  <2>2. stage \in {"begin", "body", "end", "stop", "command", "cleanup"}
    BY <2>1 DEF SegmentInv, Inv, TypeOK
  <2>3. \/ /\ stage \in {"begin", "body", "end", "stop"}
           /\ stage' \in {"body", "end", "collect"} /\ outcome' = outcome
        \/ stage = "command" /\ stage' = "idle" /\ outcome' = "acknowledged"
        \/ stage = "cleanup" /\ stage' = "idle" /\ outcome' = outcome
    BY <2>1, <2>2 DEF Succeed
  <2>4. QED
    BY <2>1, <2>3
<1>9. CASE DeviceRepeat \/ DeviceBusy
  <2>1. last' = last
    BY <1>9 DEF DeviceRepeat, DeviceBusy, device
  <2>2. QED
    BY <1>9, <2>1, DeviceLeaves
<1>10. CASE DeviceRefuse \/ DeviceExecute
  <2>1. last.number # number
    BY <1>0, <1>10, NewFrame, LinkTypes DEF SegmentInv, Inv
  <2>2. QED
    BY <1>10, <2>1, DeviceLeaves
<1>11. CASE UNCHANGED vars
  BY <1>11 DEF vars, transaction, exchange, verdict, device
<1>12. QED
  BY <1>1, <1>2, <1>3, <1>4, <1>5, <1>6, <1>7, <1>8, <1>9, <1>10, <1>11 DEF Next

(* How a call ends says where its last exchange is. *)
LEMMA OutcomeInvHolds == Spec => []OutcomeInv
<1>1. Init => OutcomeShape
  BY DEF Init, OutcomeShape, Promise!Malformed
<1>2. SegmentInv /\ CleanupSettled /\ OutcomeShape /\ [Next]_vars => OutcomeShape'
  BY NextPreservesOutcome DEF OutcomeInv
<1>3. SegmentInv /\ CleanupSettled /\ OutcomeShape => OutcomeInv
  BY DEF OutcomeInv
<1>4. QED
  BY <1>1, <1>2, <1>3, SegmentInvHolds, CleanupSettles, PTL DEF Spec

-------------------------------------------------------------------------------
(* What the device executes is a segment of Transaction.                   *)

(* The two specifications mean the same by what was executed. *)
LEMMA SamePromise ==
    ASSUME NEW n
    PROVE  /\ Promise!ExecutedUpTo(n) <=> ExecutedUpTo(n)
           /\ Promise!Boundary(n) <=> Boundary(n)
           /\ \A line : Promise!IsStop(line) <=> IsStop(line)
BY DEF Promise!ExecutedUpTo, ExecutedUpTo, Promise!Boundary, Boundary, Promise!IsStop, IsStop

(* The segment is a piece of the script. *)
LEMMA SegmentIsPiece ==
    ASSUME TypeOK, CutInLines
    PROVE  segment = SubSeq(script, Base + 1, Until)
<1>1. /\ script \in Seq(Line) /\ segment \in Seq(Line)
      /\ Base \in Nat /\ Until \in Nat /\ Base + Len(segment) = Until /\ Until <= Len(script)
      /\ Len(segment) \in Nat /\ Len(script) \in Nat
      /\ \A i \in 1..Len(segment) : segment[i] = script[Base + i]
  <2>1. /\ script \in Seq(Line) /\ segment \in Seq(Line) /\ Base \in Nat
        /\ Base + Len(segment) = Until /\ Until + Len(rest) = Len(script)
        /\ Len(rest) \in Nat /\ Len(segment) \in Nat /\ Len(script) \in Nat
        /\ DOMAIN segment = 1..Len(segment)
    BY Positions DEF CutInLines
  <2>2. Until \in Nat /\ Until <= Len(script)
    BY <2>1
  <2>3. QED
    BY <2>1, <2>2 DEF CutInLines
<1> DEFINE piece == SubSeq(script, Base + 1, Until)
<1>2. PICK base \in Nat, until \in Nat : base = Base /\ until = Until
  BY <1>1
<1>3. SubSeq(script, base + 1, until) \in Seq(Line)
      /\ Len(SubSeq(script, base + 1, until)) = until - base
      /\ \A i \in 1..(until - base) : SubSeq(script, base + 1, until)[i] = script[base + i]
  <2>1. \A i \in (base + 1)..until : i \in 1..Len(script)
    BY <1>1, <1>2
  <2>2. base + 1 \in 1..(Len(script) + 1) /\ until \in base..Len(script)
    BY <1>1, <1>2
  <2>3. QED
    BY <1>1, <2>1, <2>2, SubSeqProperties
<1>4. until - base = Len(segment)
  BY <1>1, <1>2
<1>5. SubSeq(script, base + 1, until) = segment
  BY <1>1, <1>2, <1>3, <1>4, SeqEqual
<1>6. QED
  BY <1>2, <1>5

(* A BATCH_END of this call, when there is a segment. *)
LEMMA BatchExecutes ==
    ASSUME SegmentInv, ScriptCall, DeviceExecute,
           Head(toDevice).number >= first, executed' # executed
    PROVE  \E m, n \in 0..Len(script) :
              /\ Promise!Segment(m, n) /\ Promise!ExecutedUpTo(m)
              /\ executed' = executed \o SubSeq(script, m + 1, n)
<1> DEFINE frame == Head(toDevice)
           line == frame.line
<1>1. /\ 1 \in DOMAIN toDevice /\ frame = toDevice[1] /\ frame.number > last.number
  BY DeviceStep, NewFrame DEF SegmentInv
<1>2. Ready(line)
  BY <1>1 DEF Unseen, ScriptCall, UnseenReady
<1>3. line.type = "batch_end"
  <2>1. line.type \notin {"stop_all", "batch_begin", "batch_end"} => executed' = executed
    BY <1>2 DEF Ready, DeviceExecute
  <2>2. line.type \in {"stop_all", "batch_begin"} => executed' = executed
    BY DEF DeviceExecute
  <2>3. QED
    BY <2>1, <2>2
<1>4. executed' = executed \o collected
  BY <1>3 DEF DeviceExecute
<1>5. Batched(Len(segment)) /\ Boundary(Until)
  BY <1>2, <1>3 DEF Ready
<1>6. /\ executed \in Seq(Command) /\ collected \in Seq(Command) /\ segment \in Seq(Line)
      /\ Base \in Nat /\ Until \in Nat /\ Base + Len(segment) = Until
      /\ Base <= Len(script) /\ Until <= Len(script) /\ Len(script) \in Nat
      /\ Len(segment) \in Nat
  <2>1. executed \in Seq(Command) /\ collected \in Seq(Command) /\ Base \in Nat
    BY DEF SegmentInv, Inv, TypeOK, ScriptCall, CutInLines
  <2>2. /\ segment \in Seq(Line)
        /\ Base + Len(segment) = Until /\ Until + Len(rest) = Len(script)
        /\ Len(rest) \in Nat /\ Len(segment) \in Nat /\ Len(script) \in Nat
    BY Positions DEF SegmentInv, Inv
  <2>3. QED
    BY <2>1, <2>2
<1>7. collected = segment
  <2>1. Len(collected) = Len(segment) /\ \A i \in 1..Len(segment) : collected[i] = segment[i]
    BY <1>5 DEF Batched
  <2>2. QED
    BY <1>6, <2>1, SeqEqual
<1>8. Len(segment) # 0
  <2>1. Len(segment) = 0 => executed \o segment = executed
    BY <1>6
  <2>2. QED
    BY <1>4, <1>7, <2>1
<1>9. \A k \in (Base + 1)..Until : ~IsStop(script[k])
  <2> SUFFICES ASSUME NEW k \in (Base + 1)..Until PROVE ~IsStop(script[k])
    OBVIOUS
  <2>1. k - Base \in 1..Len(segment) /\ Base + (k - Base) = k
    BY <1>6
  <2>2. segment[k - Base] = script[Base + (k - Base)] /\ ~IsStop(segment[k - Base])
    BY <1>6, <2>1 DEF SegmentInv, Inv, StageShape, ScriptCall, CutInLines
  <2>3. QED
    BY <2>1, <2>2
<1>10. Promise!Segment(Base, Until)
  <2>1. Base < Until
    BY <1>6, <1>8
  <2>2. Promise!Boundary(Base) /\ Promise!Boundary(Until)
    BY <1>5, SamePromise DEF ScriptCall, CutInLines
  <2>3. \A k \in (Base + 1)..Until : ~Promise!IsStop(script[k])
    BY <1>9, SamePromise
  <2>4. QED
    BY <2>1, <2>2, <2>3 DEF Promise!Segment
<1>11. Promise!ExecutedUpTo(Base)
  BY <1>5, SamePromise DEF Batched
<1>12. executed' = executed \o SubSeq(script, Base + 1, Until)
  BY <1>4, <1>7, SegmentIsPiece DEF SegmentInv, Inv, ScriptCall
<1>13. Base \in 0..Len(script) /\ Until \in 0..Len(script)
  BY <1>6
<1>14. QED
  BY <1>10, <1>11, <1>12, <1>13, Zenon

(* A command of its own, carried out. *)
LEMMA CommandExecutes ==
    ASSUME SegmentInv, CommandCall, DeviceExecute, executed' # executed
    PROVE  \E m, n \in 0..Len(script) :
              /\ Promise!Segment(m, n) /\ Promise!ExecutedUpTo(m)
              /\ executed' = executed \o SubSeq(script, m + 1, n)
<1>1. CommandCall'
  BY CommandDevicePreservesCall
<1>2. script' = script /\ first' = first
  BY DeviceLeaves
<1>3. executed = <<>>
  <2>1. last.number < first
    BY NewFrame, DeviceStep DEF SegmentInv, CommandCall
  <2>2. QED
    BY <2>1 DEF CommandCall
<1>4. executed' = script /\ ~IsStop(script[1])
  BY <1>1, <1>2, <1>3 DEF CommandCall, IsStop
<1>5. script \in Seq(Line) /\ Len(script) = 1 /\ script = <<script[1]>> /\ script[1] \in Line
  <2>1. script \in Seq(Line) /\ Len(script) = 1
    BY DEF SegmentInv, Inv, TypeOK, CommandCall
  <2>2. QED
    BY <2>1
<1>6. SubSeq(script, 0 + 1, 1) = script
  <2>1. /\ SubSeq(script, 0 + 1, 1) \in Seq(Line)
        /\ Len(SubSeq(script, 0 + 1, 1)) = 1
        /\ \A i \in 1..1 : SubSeq(script, 0 + 1, 1)[i] = script[i]
    BY <1>5
  <2>2. QED
    BY <1>5, <2>1, SeqEqual
<1>7. executed' = executed \o SubSeq(script, 0 + 1, 1)
  BY <1>3, <1>4, <1>5, <1>6
<1>8. Promise!ExecutedUpTo(0)
  BY <1>3, ExecutedNone, SamePromise
<1>9. Promise!Segment(0, 1)
  <2>1. Boundary(0) /\ Boundary(1)
    BY <1>5 DEF Boundary
  <2>2. \A k \in (0 + 1)..1 : k = 1
    OBVIOUS
  <2>3. QED
    BY <1>4, <2>1, <2>2, SamePromise DEF Promise!Segment
<1>10. 0 \in 0..Len(script) /\ 1 \in 0..Len(script)
  BY <1>5
<1>11. QED
  BY <1>7, <1>8, <1>9, <1>10, Zenon

(* What the device executes, whoever sent it, is Transaction's Execute. *)
LEMMA DeviceRefines ==
    ASSUME OutcomeInv,
           DeviceRepeat \/ DeviceBusy \/ DeviceRefuse \/ DeviceExecute
    PROVE  Promise!Execute \/ UNCHANGED Promise!vars
<1> USE DEF OutcomeInv
<1>1. UNCHANGED <<script, outcome, cleaned>>
  BY DeviceLeaves
<1>2. CASE executed' = executed
  BY <1>1, <1>2 DEF Promise!vars
<1>3. CASE executed' # executed
  <2>1. DeviceExecute
    BY <1>3 DEF DeviceRepeat, DeviceBusy, DeviceRefuse, device
  <2>2. /\ last.number < number /\ last.number < Head(toDevice).number
        /\ Head(toDevice).number <= number
        /\ number \in Nat /\ last.number \in Nat /\ first \in Nat /\ Head(toDevice).number \in Nat
    BY <2>1, NewFrame, DeviceStep DEF SegmentInv
  <2>3. Head(toDevice).number >= first
    <3> SUFFICES ASSUME Head(toDevice).number < first PROVE FALSE
      BY <2>2
    <3>1. executed = <<>> /\ collected = <<>> /\ Remembered(Head(toDevice)) = <<>>
      BY <2>2 DEF SegmentInv, CallInv, ScriptCall, CommandCall, Remembered
    <3>2. executed \o collected = <<>> /\ executed \o Remembered(Head(toDevice)) = <<>>
      BY <3>1
    <3>3. QED
      BY <1>3, <2>1, <3>1, <3>2 DEF DeviceExecute
  <2>4. \E m, n \in 0..Len(script) :
           /\ Promise!Segment(m, n) /\ Promise!ExecutedUpTo(m)
           /\ executed' = executed \o SubSeq(script, m + 1, n)
    BY <1>3, <2>1, <2>3, BatchExecutes, CommandExecutes DEF SegmentInv, CallInv
  <2>5. outcome \in {"none", "rejected", "failed"}
    <3>1. outcome # "acknowledged"
      BY <2>2 DEF OutcomeShape
    <3>2. outcome # "completed"
      BY <2>2, <2>3 DEF SegmentInv, CallInv, ScriptCall, CommandCall, Settled
    <3>3. QED
      BY <3>1, <3>2 DEF SegmentInv, Inv, TypeOK
  <2>6. ~cleaned
    BY <2>2 DEF CleanupSettled
  <2>7. ~Promise!Malformed(script)
    BY <2>2, <2>3 DEF OutcomeShape
  <2>8. QED
    BY <1>1, <2>4, <2>5, <2>6, <2>7, Zenon DEF Promise!Execute
<1>4. QED
  BY <1>2, <1>3

-------------------------------------------------------------------------------
(* The caller's steps.                                                     *)

(* A new call. *)
LEMMA CallRefines ==
    ASSUME OutcomeInv,
           \/ \E lines \in Scripts : RunScript(lines)
           \/ \E command \in Commands : RunCommand(command)
    PROVE  Promise!Next
<1>1. ASSUME NEW lines, StartCall(lines)
      PROVE  Promise!StartCall(lines)
  BY <1>1 DEF OutcomeInv, OutcomeShape, StartCall, Promise!StartCall
<1>2. ASSUME NEW lines \in Scripts, RunScript(lines)
      PROVE  Promise!RunScript(lines)
  <2>1. Promise!StartCall(lines)
    BY <1>1, <1>2 DEF RunScript
  <2>2. QED
    BY <1>2, <2>1 DEF RunScript, Promise!RunScript, Promise!Malformed
<1>3. ASSUME NEW command \in Commands, RunCommand(command)
      PROVE  Promise!RunCommand(command)
  BY <1>1, <1>3 DEF RunCommand, Promise!RunCommand
<1>4. QED
  BY <1>2, <1>3 DEF Promise!Next

(* The loop over the lines, and its return. *)
LEMMA LoopRefines ==
    ASSUME OutcomeInv, Collect \/ Flush \/ StopLine \/ Return
    PROVE  Promise!Complete \/ UNCHANGED Promise!vars
<1>1. CASE Collect \/ Flush \/ StopLine
  BY <1>1 DEF Collect, Flush, StopLine, verdict, device, Promise!vars
<1>2. CASE Return
  <2>1. /\ stage = "collect" /\ rest = <<>> /\ segment = <<>> /\ outcome' = "completed"
        /\ UNCHANGED <<script, executed, cleaned>>
    BY <1>2 DEF Return, transaction, device
  <2>2. outcome = "none"
    BY <2>1 DEF OutcomeInv, OutcomeShape
  <2>3. ExecutedUpTo(Base)
    BY <2>1 DEF OutcomeInv, SegmentInv, CallInv, ScriptCall, CommandCall, StageReached, Emptied
  <2>4. Base = Len(script)
    BY <2>1, Positions DEF OutcomeInv, SegmentInv, Inv
  <2>5. Promise!ExecutedUpTo(Len(script))
    BY <2>3, <2>4, SamePromise
  <2>6. QED
    BY <2>1, <2>2, <2>5 DEF Promise!Complete
<1>3. QED
  BY <1>1, <1>2

(* An exchange fails: the call does, unless it was its last STOP_ALL. *)
LEMMA ThrowRefines ==
    ASSUME OutcomeInv, NEW reason \in {"rejected", "failed"}, Throw(reason),
           stage \notin {"idle", "collect"}, script' = script, executed' = executed,
           cleaned' = cleaned \/ cleaned' = (stage = "cleanup")
    PROVE  Promise!Fail \/ Promise!Clean \/ UNCHANGED Promise!vars
<1>1. cleaned = FALSE
  BY DEF OutcomeInv, CleanupSettled, SegmentInv, Inv, TypeOK
<1>2. CASE stage = "cleanup"
  <2>1. outcome' = outcome /\ outcome \in {"rejected", "failed"}
    BY <1>2 DEF OutcomeInv, OutcomeShape, Throw
  <2>2. cleaned' = cleaned \/ cleaned' = TRUE
    BY <1>2
  <2>3. QED
    BY <1>1, <2>1, <2>2 DEF Promise!Clean, Promise!vars
<1>3. CASE stage # "cleanup"
  <2>1. outcome = "none" /\ outcome' = reason
    BY <1>3 DEF OutcomeInv, OutcomeShape, Throw
  <2>2. cleaned' = cleaned
    BY <1>1, <1>3
  <2>3. QED
    BY <2>1, <2>2 DEF Promise!Fail
<1>4. QED
  BY <1>2, <1>3

(* Sending, and what an answer or its absence leads to. *)
LEMMA ExchangeRefines ==
    ASSUME OutcomeInv,
           \/ RejectText \/ RejectLength \/ Prepare \/ Write \/ Break
           \/ TimeOut \/ TakeBusy \/ TakeNack \/ TakeAck
    PROVE  \/ Promise!Fail \/ Promise!Clean \/ Promise!Acknowledge
           \/ UNCHANGED Promise!vars
<1>1. stage \notin {"idle", "collect"} /\ script' = script /\ executed' = executed
  <2>1. pc # "prepare" => stage \notin {"idle", "collect"}
    BY DEF OutcomeInv, SegmentInv, Inv, StageShape
  <2>2. QED
    BY <2>1 DEF RejectText, RejectLength, Prepare, Write, Break, TimeOut, TakeBusy, TakeNack,
                TakeAck, transaction, device
<1>2. CASE RejectText \/ RejectLength \/ Break \/ TakeNack
  <2>1. PICK reason \in {"rejected", "failed"} :
           Throw(reason) /\ (cleaned' = cleaned \/ cleaned' = (stage = "cleanup"))
    BY <1>2 DEF RejectText, RejectLength, Break, TakeNack
  <2>2. QED
    BY <1>1, <2>1, ThrowRefines
<1>3. CASE Prepare \/ Write
  BY <1>1, <1>3 DEF Prepare, Write, verdict, Promise!vars
<1>4. CASE TimeOut \/ TakeBusy
  <2>1. Retry /\ cleaned' = cleaned
    BY <1>4 DEF TimeOut, TakeBusy
  <2>2. CASE Throw("failed")
    BY <1>1, <2>1, <2>2, ThrowRefines
  <2>3. CASE UNCHANGED outcome
    BY <1>1, <2>1, <2>3 DEF Promise!vars
  <2>4. QED
    BY <2>1, <2>2, <2>3 DEF Retry
<1>5. CASE TakeAck
  <2>1. Succeed /\ cleaned' = (stage = "cleanup")
    BY <1>5 DEF TakeAck
  <2>2. cleaned = FALSE
    BY <1>1 DEF OutcomeInv, CleanupSettled, SegmentInv, Inv, TypeOK
  <2>3. CASE stage = "command"
    <3>1. outcome = "none" /\ outcome' = "acknowledged" /\ cleaned' = cleaned
      BY <2>1, <2>2, <2>3 DEF OutcomeInv, OutcomeShape, Succeed
    <3>2. Len(script) = 1
      BY <2>3 DEF OutcomeInv, SegmentInv, CallInv, ScriptCall, CommandCall
    <3>3. QED
      BY <1>1, <3>1, <3>2 DEF Promise!Acknowledge
  <2>4. CASE stage = "cleanup"
    <3>1. outcome' = outcome /\ outcome \in {"rejected", "failed"} /\ cleaned' = TRUE
      BY <2>1, <2>4 DEF OutcomeInv, OutcomeShape, Succeed
    <3>2. QED
      BY <1>1, <2>2, <3>1 DEF Promise!Clean
  <2>5. CASE stage \notin {"command", "cleanup"}
    <3>1. outcome' = outcome /\ cleaned' = cleaned
      BY <2>1, <2>2, <2>5 DEF Succeed
    <3>2. QED
      BY <1>1, <3>1 DEF Promise!vars
  <2>6. QED
    BY <2>3, <2>4, <2>5
<1>6. QED
  BY <1>2, <1>3, <1>4, <1>5

(* Script implements Transaction: seen from the caller and the device's    *)
(* keyboard and mouse, whatever happens on the link, run_script executes   *)
(* one whole segment after the other, each at once and at most once, and   *)
(* nothing after it returned or its failure was cleaned up.                *)
THEOREM ScriptKeepsPromise == Spec => KeepsPromise
<1>1. Init => Promise!Init
  BY DEF Init, Promise!Init
<1>2. OutcomeInv /\ [Next]_vars => [Promise!Next]_(Promise!vars)
  <2> SUFFICES ASSUME OutcomeInv, [Next]_vars
               PROVE  Promise!Next \/ UNCHANGED Promise!vars
    OBVIOUS
  <2>1. CASE UNCHANGED vars
    BY <2>1 DEF vars, transaction, verdict, device, Promise!vars
  <2>2. CASE Next
    BY <2>2, CallRefines, LoopRefines, ExchangeRefines, DeviceRefines
    DEF Next, Promise!Next
  <2>3. QED
    BY <2>1, <2>2
<1>3. QED
  BY <1>1, <1>2, OutcomeInvHolds, PTL DEF Spec, KeepsPromise, Promise!Spec

-------------------------------------------------------------------------------
(***************************************************************************)
(* Nothing overtakes.  Between two exchanges of a call that goes on, the   *)
(* device has just acknowledged the last one (Acknowledged); LinkInOrder   *)
(* then leaves only repetitions of it on the link, which change nothing.   *)
(***************************************************************************)

Acknowledged ==
    pc = "prepare" /\ outcome = "none" /\ number >= first =>
        last = [number |-> number, answer |-> "ack"]

(* Every step preserves Acknowledged. *)
LEMMA NextPreservesAcknowledged ==
    ASSUME OutcomeInv, Acknowledged, [Next]_vars
    PROVE  Acknowledged'
<1>1. /\ number \in Nat /\ first \in Nat
      /\ last = [number |-> last.number, answer |-> last.answer]
      /\ stage = "cleanup" => outcome # "none"
      /\ AnswerIsVerdict
  BY LinkTypes DEF OutcomeInv, SegmentInv, Inv, OutcomeShape, TypeOK
<1>2. ASSUME (\E lines \in Scripts : RunScript(lines)) \/ (\E command \in Commands : RunCommand(command))
      PROVE  Acknowledged'
  <2>1. number' = number /\ first' = number + 1
    BY <1>2 DEF RunScript, RunCommand, StartCall, exchange
  <2>2. QED
    BY <1>1, <2>1 DEF Acknowledged
<1>3. CASE Collect \/ Flush \/ StopLine
  BY <1>3 DEF Collect, Flush, StopLine, exchange, verdict, device, Acknowledged
<1>4. CASE Return
  <2>1. outcome' = "completed"
    BY <1>4 DEF Return
  <2>2. QED
    BY <2>1 DEF Acknowledged
<1>5. ASSUME NEW reason \in {"rejected", "failed"}, Throw(reason)
      PROVE  Acknowledged'
  <2>1. outcome' # "none"
    BY <1>1, <1>5 DEF Throw
  <2>2. QED
    BY <2>1 DEF Acknowledged
<1>6. CASE RejectText \/ RejectLength \/ Break \/ TakeNack
  BY <1>5, <1>6 DEF RejectText, RejectLength, Break, TakeNack
<1>7. CASE Prepare \/ Write
  <2>1. pc' \in {"write", "wait"}
    BY <1>7 DEF Prepare, Write
  <2>2. QED
    BY <2>1 DEF Acknowledged
<1>8. CASE TimeOut \/ TakeBusy
  <2>1. pc' = "write" \/ Throw("failed")
    BY <1>8 DEF TimeOut, TakeBusy, Retry
  <2>2. QED
    BY <1>5, <2>1 DEF Acknowledged
<1>9. CASE TakeAck
  <2>1. 1 \in DOMAIN answers /\ answers[1] = "ack"
    BY <1>9, LinkTypes DEF TakeAck, OutcomeInv, SegmentInv, Inv
  <2>2. last.number = number /\ last.answer = "ack"
    BY <1>1, <2>1 DEF AnswerIsVerdict
  <2>3. number' = number /\ last' = last
    BY <1>9 DEF TakeAck, device
  <2>4. QED
    BY <1>1, <2>2, <2>3 DEF Acknowledged
<1>10. CASE DeviceRepeat \/ DeviceBusy
  BY <1>10 DEF DeviceRepeat, DeviceBusy, transaction, exchange, verdict, device, Acknowledged
<1>11. CASE DeviceRefuse \/ DeviceExecute
  <2>1. last.number < number
    BY <1>11, NewFrame DEF OutcomeInv
  <2>2. pc' = pc /\ outcome' = outcome /\ number' = number /\ first' = first
    BY <1>11 DEF DeviceRefuse, DeviceExecute, transaction, exchange, verdict
  <2>3. ~(pc = "prepare" /\ outcome = "none" /\ number >= first)
    BY <1>1, <2>1 DEF Acknowledged
  <2>4. QED
    BY <2>2, <2>3 DEF Acknowledged
<1>12. CASE UNCHANGED vars
  BY <1>12 DEF vars, transaction, exchange, verdict, device, Acknowledged
<1>13. QED
  BY <1>2, <1>3, <1>4, <1>6, <1>7, <1>8, <1>9, <1>10, <1>11, <1>12 DEF Next

(* A call goes on to its next exchange only when the device has carried    *)
(* out the one before, and nothing it has not seen is on the way: no late  *)
(* or repeated frame or answer of a retry mixes with what follows          *)
(* (send_command_for_generation).                                          *)
THEOREM ExchangesKeepOrder == Spec => NothingOvertakes
<1> DEFINE Step == number' # number /\ number >= first /\ outcome = "none" =>
                      /\ last = [number |-> number, answer |-> "ack"]
                      /\ \A i \in DOMAIN toDevice : toDevice[i].number = number
<1>1. Init => Acknowledged
  BY DEF Init, Acknowledged
<1>2. OutcomeInv /\ Acknowledged /\ [Next]_vars => Acknowledged'
  BY NextPreservesAcknowledged
<1>3. OutcomeInv /\ Acknowledged /\ [Next]_vars => [Step]_vars
  <2> SUFFICES ASSUME OutcomeInv, Acknowledged, Next, number' # number, number >= first, outcome = "none"
               PROVE  /\ last = [number |-> number, answer |-> "ack"]
                      /\ \A i \in DOMAIN toDevice : toDevice[i].number = number
    OBVIOUS
  <2>1. Prepare \/ RejectLength
    BY DEF Next, RunScript, RunCommand, StartCall, Collect, Flush, StopLine, Return, RejectText, Write,
           Break, TimeOut, TakeBusy, TakeNack, TakeAck, Retry, DeviceRepeat, DeviceBusy, DeviceRefuse,
           DeviceExecute, exchange
  <2>2. pc = "prepare"
    BY <2>1 DEF Prepare, RejectLength
  <2>3. last = [number |-> number, answer |-> "ack"]
    BY <2>2 DEF Acknowledged
  <2>4. ASSUME NEW i \in DOMAIN toDevice PROVE toDevice[i].number = number
    <3>1. /\ number \in Nat /\ toDevice[i].number \in Nat
          /\ last.number <= toDevice[i].number /\ toDevice[i].number <= number
      BY LinkTypes DEF OutcomeInv, SegmentInv, Inv, LinkInOrder
    <3>2. last.number = number
      BY <2>3
    <3>3. QED
      BY <3>1, <3>2
  <2>5. QED
    BY <2>3, <2>4
<1>4. QED
  BY <1>1, <1>2, <1>3, OutcomeInvHolds, PTL DEF Spec, NothingOvertakes
===============================================================================
