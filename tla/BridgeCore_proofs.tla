--------------------------- MODULE BridgeCore_proofs --------------------------
(***************************************************************************)
(* Proofs about module BridgeCore, for any set of callers, any number of   *)
(* retries, any length of script and any number of connections.            *)
(*                                                                         *)
(* Inv is inductive.  One lemma per operation of the class shows that its  *)
(* steps preserve Inv; the theorems then read the properties off Inv.      *)
(***************************************************************************)
EXTENDS BridgeCore, TLAPS

USE CoreAssumption
    DEF Procs, StateFree, Go, connection, locks, exchange, call, line,
        OpenLabels, WritingLabels, WaitingLabels, ActiveLabels, CommandLabels,
        ClosingLabels, StoppedLabels, CloseLabels, HeartbeatLabels,
        CallerLabels, WriteOwnerLabels, HoldingLabels, DrainedLabels,
        JoinedLabels

(* The initial state satisfies Inv. *)
LEMMA InitInv == Init => Inv
<1> SUFFICES ASSUME Init PROVE Inv
  OBVIOUS
<1>1. TypeOK
  <2>1. opened \in BOOLEAN /\ closing \in BOOLEAN /\ heartbeatStop \in BOOLEAN /\ dtr \in BOOLEAN
    BY DEF Init
  <2>2. expired \in [Callers -> BOOLEAN]
    BY DEF Init
  <2>3. QED
    BY <2>1, <2>2 DEF Init, TypeOK
<1>2. LocksOwned /\ OneCloser /\ ActiveCounted
  BY DEF Init, LocksOwned, OneCloser, ActiveCounted
<1>3. HeartbeatLives /\ PortHeld /\ NoFrameAfterStop
  BY DEF Init, HeartbeatLives, PortHeld, NoFrameAfterStop
<1>4. QED
  BY <1>1, <1>2, <1>3 DEF Inv

(* The steps of open() preserve Inv. *)
LEMMA OpenPreservesInv ==
    ASSUME Inv, NEW c \in Callers, OpenStart(c) \/ OpenStep(c)
    PROVE  Inv'
<1> USE DEF Inv, TypeOK, LocksOwned, OneCloser, ActiveCounted,
         HeartbeatLives, PortHeld, NoFrameAfterStop
<1>1. CASE OpenStart(c)
  BY <1>1 DEF OpenStart
<1>2. CASE OpenPort(c)
  <2>1. dtr' \in BOOLEAN
    BY <1>2 DEF OpenPort, OpenAbandon
  <2>2. TypeOK'
    BY <1>2, <2>1 DEF OpenPort, OpenAbandon
  <2>3. LocksOwned' /\ OneCloser' /\ ActiveCounted'
    BY <1>2 DEF OpenPort, OpenAbandon
  <2>4. HeartbeatLives' /\ PortHeld' /\ NoFrameAfterStop'
    BY <1>2 DEF OpenPort, OpenAbandon
  <2>5. QED
    BY <2>2, <2>3, <2>4
<1>3. CASE OpenDtr(c)
  <2>1. dtr' \in BOOLEAN
    BY <1>3 DEF OpenDtr, OpenAbandon
  <2>2. TypeOK'
    BY <1>3, <2>1 DEF OpenDtr, OpenAbandon
  <2>3. LocksOwned' /\ OneCloser' /\ ActiveCounted'
    BY <1>3 DEF OpenDtr, OpenAbandon
  <2>4. HeartbeatLives' /\ PortHeld' /\ NoFrameAfterStop'
    BY <1>3 DEF OpenDtr, OpenAbandon
  <2>5. QED
    BY <2>2, <2>3, <2>4
<1>4. CASE OpenSpawn(c)
  <2>1. opened' \in BOOLEAN
    BY <1>4 DEF OpenSpawn, OpenAbandon, ClearStopFlag
  <2>2. closing' \in BOOLEAN
    BY <1>4 DEF OpenSpawn, OpenAbandon, ClearStopFlag
  <2>3. dtr' \in BOOLEAN
    BY <1>4 DEF OpenSpawn, OpenAbandon, ClearStopFlag
  <2>4. heartbeatStop' \in BOOLEAN
    BY <1>4 DEF OpenSpawn, OpenAbandon, ClearStopFlag
  <2>5. TypeOK'
    BY <1>4, <2>1, <2>2, <2>3, <2>4 DEF OpenSpawn, OpenAbandon, ClearStopFlag
  <2>6. LocksOwned' /\ OneCloser' /\ ActiveCounted'
    BY <1>4 DEF OpenSpawn, OpenAbandon, ClearStopFlag
  <2>7. HeartbeatLives' /\ PortHeld' /\ NoFrameAfterStop'
    BY <1>4 DEF OpenSpawn, OpenAbandon, ClearStopFlag
  <2>8. QED
    BY <2>5, <2>6, <2>7
<1>5. QED
  BY <1>1, <1>2, <1>3, <1>4 DEF OpenStep

(* The steps of a command or a script that change a lock, the count of active
   commands or the script's progress preserve Inv. *)
LEMMA CallPreservesInv ==
    ASSUME Inv, NEW c \in Callers,
           \/ \E kind \in {"command", "script"} : Call(c, kind)
           \/ CommandLock(c) \/ ScriptEnsure(c) \/ Begin(c) \/ Finish(c) \/ CommandUnlock(c)
    PROVE  Inv'
<1> USE DEF Inv, TypeOK, LocksOwned, OneCloser, ActiveCounted,
         HeartbeatLives, PortHeld, NoFrameAfterStop
<1>1. CASE \E kind \in {"command", "script"} : Call(c, kind)
  BY <1>1 DEF Call
<1>2. CASE CommandLock(c)
  BY <1>2 DEF CommandLock
<1>3. CASE ScriptEnsure(c)
  BY <1>3 DEF ScriptEnsure, Valid
<1>4. CASE Begin(c)
  BY <1>4 DEF Begin, Valid, FailExchange
<1>5. CASE Finish(c)
  BY <1>5 DEF Finish, NextExchange, RejectLine, FailExchange
<1>6. CASE CommandUnlock(c)
  BY <1>6 DEF CommandUnlock
<1>7. QED
  BY <1>1, <1>2, <1>3, <1>4, <1>5, <1>6

(* The steps of read_response, of the retry loop and of the clock preserve Inv. *)
LEMMA ReadPreservesInv ==
    ASSUME Inv, NEW c \in Callers,
           \/ ReadCheck(c) \/ ReadIssue(c) \/ ReadReturn(c) \/ ReadRecheck(c)
           \/ BusyWait(c) \/ Complete(c) \/ Expire(c)
    PROVE  Inv'
<1> USE DEF Inv, TypeOK, LocksOwned, OneCloser, ActiveCounted,
         HeartbeatLives, PortHeld, NoFrameAfterStop
<1>1. CASE ReadCheck(c)
  BY <1>1 DEF ReadCheck, Valid, NextAttempt
<1>2. CASE ReadIssue(c)
  BY <1>2 DEF ReadIssue
<1>3. CASE ReadReturn(c)
  BY <1>3 DEF ReadReturn
<1>4. CASE ReadRecheck(c)
  BY <1>4 DEF ReadRecheck, Valid
<1>5. CASE BusyWait(c)
  BY <1>5 DEF BusyWait, Valid, NextAttempt
<1>6. CASE Complete(c)
  BY <1>6 DEF Complete, Valid
<1>7. CASE Expire(c)
  BY <1>7 DEF Expire
<1>8. QED
  BY <1>1, <1>2, <1>3, <1>4, <1>5, <1>6, <1>7

(* The steps of write_frame, by a caller or the heartbeat, preserve Inv. *)
LEMMA WritePreservesInv ==
    ASSUME Inv, NEW p \in Procs, WriteStep(p)
    PROVE  Inv'
<1> USE DEF Inv, TypeOK, LocksOwned, OneCloser, ActiveCounted,
         HeartbeatLives, PortHeld, NoFrameAfterStop
<1>1. CASE WriteLock(p)
  BY <1>1 DEF WriteLock
<1>2. CASE WriteCheck(p)
  BY <1>2 DEF WriteCheck, Valid, AfterFailure
<1>3. CASE WriteIo(p)
  <2>1. expired' \in [Callers -> BOOLEAN]
    <3>1. \/ expired' = expired
          \/ p \in Callers /\ expired' = [expired EXCEPT ![p] = FALSE]
      BY <1>3 DEF WriteIo
    <3>2. expired \in [Callers -> BOOLEAN]
      OBVIOUS
    <3>3. QED
      BY <3>1, <3>2, Zenon
  <2>2. TypeOK'
    BY <1>3, <2>1 DEF WriteIo, AfterFailure
  <2>3. LocksOwned' /\ OneCloser' /\ ActiveCounted'
    BY <1>3 DEF WriteIo, AfterFailure
  <2>4. HeartbeatLives' /\ PortHeld' /\ NoFrameAfterStop'
    BY <1>3 DEF WriteIo, AfterFailure
  <2>5. QED
    BY <2>2, <2>3, <2>4
<1>4. QED
  BY <1>1, <1>2, <1>3 DEF WriteStep

(* The steps of close() preserve Inv. *)
LEMMA ClosePreservesInv ==
    ASSUME Inv, NEW c \in Callers, CloseStart(c) \/ CloseStep(c)
    PROVE  Inv'
<1> USE DEF Inv, TypeOK, LocksOwned, OneCloser, ActiveCounted,
         HeartbeatLives, PortHeld, NoFrameAfterStop
<1>1. CASE CloseStart(c)
  <2>1. opened' \in BOOLEAN
    BY <1>1 DEF CloseStart
  <2>2. closing' \in BOOLEAN
    BY <1>1 DEF CloseStart
  <2>3. TypeOK'
    BY <1>1, <2>1, <2>2 DEF CloseStart
  <2>4. LocksOwned' /\ OneCloser' /\ ActiveCounted'
    BY <1>1 DEF CloseStart
  <2>5. HeartbeatLives' /\ PortHeld' /\ NoFrameAfterStop'
    BY <1>1 DEF CloseStart
  <2>6. QED
    BY <2>3, <2>4, <2>5
<1>2. CASE CloseStopHeartbeat(c)
  BY <1>2 DEF CloseStopHeartbeat
<1>3. CASE CloseCancelRead(c)
  BY <1>3 DEF CloseCancelRead
<1>4. CASE CloseStopLock(c)
  BY <1>4 DEF CloseStopLock
<1>5. CASE CloseStopIo(c)
  BY <1>5 DEF CloseStopIo
<1>6. CASE CloseJoin(c)
  BY <1>6 DEF CloseJoin
<1>7. CASE CloseDrain(c)
  BY <1>7 DEF CloseDrain
<1>8. CASE ClosePortLock(c)
  BY <1>8 DEF ClosePortLock
<1>9. CASE ClosePort(c)
  <2>1. dtr' \in BOOLEAN
    BY <1>9 DEF ClosePort
  <2>2. TypeOK'
    BY <1>9, <2>1 DEF ClosePort
  <2>3. LocksOwned' /\ OneCloser' /\ ActiveCounted'
    BY <1>9 DEF ClosePort
  <2>4. HeartbeatLives' /\ PortHeld' /\ NoFrameAfterStop'
    BY <1>9 DEF ClosePort
  <2>5. QED
    BY <2>2, <2>3, <2>4
<1>10. CASE CloseDone(c)
  <2>1. closing' \in BOOLEAN
    BY <1>10 DEF CloseDone
  <2>2. TypeOK'
    BY <1>10, <2>1 DEF CloseDone
  <2>3. LocksOwned' /\ OneCloser' /\ ActiveCounted'
    BY <1>10 DEF CloseDone
  <2>4. HeartbeatLives' /\ PortHeld' /\ NoFrameAfterStop'
    BY <1>10 DEF CloseDone
  <2>5. QED
    BY <2>2, <2>3, <2>4
<1>11. QED
  BY <1>1, <1>2, <1>3, <1>4, <1>5, <1>6, <1>7, <1>8, <1>9, <1>10 DEF CloseStep

(* The steps of heartbeat_loop outside write_frame preserve Inv. *)
LEMMA HeartbeatPreservesInv ==
    ASSUME Inv, HeartbeatDue \/ HeartbeatExit
    PROVE  Inv'
<1> USE DEF Inv, TypeOK, LocksOwned, OneCloser, ActiveCounted,
         HeartbeatLives, PortHeld, NoFrameAfterStop
<1>1. CASE HeartbeatDue
  BY <1>1 DEF HeartbeatDue
<1>2. CASE HeartbeatExit
  BY <1>2 DEF HeartbeatExit
<1>3. QED
  BY <1>1, <1>2

(* Inv holds in every state of every behaviour. *)
THEOREM InvHolds == Spec => []Inv
<1>1. Inv /\ [Next]_vars => Inv'
  <2> SUFFICES ASSUME Inv, [Next]_vars PROVE Inv'
    OBVIOUS
  <2>1. ASSUME NEW c \in Callers, CallStart(c) PROVE Inv'
    BY <2>1, OpenPreservesInv, CallPreservesInv, ClosePreservesInv DEF CallStart
  <2>2. ASSUME NEW c \in Callers, CommandStep(c) \/ Expire(c) PROVE Inv'
    BY <2>2, CallPreservesInv, ReadPreservesInv DEF CommandStep, ExchangeStep
  <2>3. ASSUME NEW c \in Callers, OpenStep(c) \/ WriteStep(c) \/ CloseStep(c) PROVE Inv'
    BY <2>3, OpenPreservesInv, WritePreservesInv, ClosePreservesInv
  <2>4. CASE HeartbeatStep
    BY <2>4, WritePreservesInv, HeartbeatPreservesInv DEF HeartbeatStep
  <2>5. CASE UNCHANGED vars
    BY <2>5 DEF vars, Inv, TypeOK, LocksOwned, OneCloser, ActiveCounted,
                HeartbeatLives, PortHeld, NoFrameAfterStop
  <2>6. QED
    BY <2>1, <2>2, <2>3, <2>4, <2>5 DEF Next, CallerStep
<1>2. QED
  BY InitInv, <1>1, PTL DEF Spec

-------------------------------------------------------------------------------
(* The types of all variables are kept.  active_commands_ is a natural     *)
(* number in every state, so finish_active_command never takes it below 0. *)
THEOREM TypeCorrect == Spec => []TypeOK
<1>1. Inv => TypeOK
  BY DEF Inv
<1>2. QED
  BY <1>1, InvHolds, PTL

(* No frame follows the STOP_ALL of close(). *)
THEOREM StopIsLast == Spec => []NoFrameAfterStop
<1>1. Inv => NoFrameAfterStop
  BY DEF Inv
<1>2. QED
  BY <1>1, InvHolds, PTL

(* Threads read and write only on the connection of their own call.        *)
THEOREM IoStaysOnConnection == Spec => []IoOnOwnConnection
<1>1. Inv => IoOnOwnConnection
  <2> SUFFICES ASSUME Inv,
                      NEW p \in Procs,
                      pc[p] \in {"write_io", "read_issue", "read_io"}
               PROVE  port = gen[p] /\ port # 0
    BY DEF IoOnOwnConnection
  <2> USE DEF Inv, TypeOK, OneCloser, ActiveCounted, HeartbeatLives, PortHeld
  (* The port is held for the open connection or the one being closed.     *)
  <2>1. CASE p \in Callers
    BY <2>1
  <2>2. CASE p = Heartbeat
    BY <2>2
  <2>3. QED
    BY <2>1, <2>2
<1>2. QED
  BY <1>1, InvHolds, PTL

(* An open core has its port, its DTR and its heartbeat. *)
THEOREM OpenIsBacked == Spec => []SessionBacked
<1>1. Inv => SessionBacked
  BY DEF Inv, HeartbeatLives, PortHeld, SessionBacked
<1>2. QED
  BY <1>1, InvHolds, PTL

(* A core that is neither open nor being opened or closed holds nothing.   *)
THEOREM ClosedIsClean == Spec => []NothingLeftBehind
<1>1. Inv => NothingLeftBehind
  BY DEF Inv, ActiveCounted, HeartbeatLives, PortHeld, NothingLeftBehind
<1>2. QED
  BY <1>1, InvHolds, PTL

(* A script and its cleanup exclude the commands of other threads. *)
THEOREM ScriptsExclude == Spec => []TransactionExclusive
<1>1. Inv => TransactionExclusive
  BY DEF Inv, LocksOwned, TransactionExclusive
<1>2. QED
  BY <1>1, InvHolds, PTL

(* A thread that waits for the device holds no lock of the heartbeat's. *)
THEOREM WaitersHoldNothing == Spec => []NoLockWhileWaiting
<1>1. Inv => NoLockWhileWaiting
  BY DEF Inv, LocksOwned, NoLockWhileWaiting
<1>2. QED
  BY <1>1, InvHolds, PTL

-------------------------------------------------------------------------------
(* The refinement of Connection. *)

(* A step that keeps the state behind state_mutex_ and every thread's      *)
(* generation, and takes nobody in or out of the connection, is a stutter  *)
(* of the gate.                                                            *)
LEMMA GateStutter ==
    ASSUME UNCHANGED <<opened, closing, generation, gen>>, InFlight' = InFlight
    PROVE  UNCHANGED Gate!vars
BY DEF Gate!vars, Phase

(* A thread that moves between two places on the same side of the gate     *)
(* leaves the set of those inside as it is.                                *)
LEMMA SameSide ==
    ASSUME TypeOK, NEW p \in Procs, NEW label, Go(p, label),
           p \in Callers => (pc[p] \in ActiveLabels <=> label \in ActiveLabels),
           p = Heartbeat => pc[p] # "none" /\ label # "none"
    PROVE  InFlight' = InFlight
BY DEF TypeOK, InFlight

(* The steps of open(): the last one opens the gate, or uses its epoch up. *)
LEMMA OpenSimulated ==
    ASSUME Inv, NEW c \in Callers, OpenStart(c) \/ OpenStep(c)
    PROVE  [Gate!Next]_(Gate!vars)
<1> USE DEF Inv, TypeOK
<1>1. CASE OpenStart(c)
  <2>1. InFlight' = InFlight
    BY <1>1, SameSide DEF OpenStart
  <2>2. QED
    BY <1>1, <2>1, GateStutter DEF OpenStart
<1>2. CASE OpenPort(c)
  <2>1. InFlight' = InFlight
    BY <1>2, SameSide DEF OpenPort, OpenAbandon
  <2>2. QED
    BY <1>2, <2>1, GateStutter DEF OpenPort
<1>3. CASE OpenDtr(c)
  <2>1. InFlight' = InFlight
    BY <1>3, SameSide DEF OpenDtr, OpenAbandon
  <2>2. QED
    BY <1>3, <2>1, GateStutter DEF OpenDtr
<1>4. CASE OpenSpawn(c)
  <2>1. Phase = "closed"
    BY <1>4 DEF OpenSpawn, OneCloser, Phase
  <2>2. CASE opened'
    <3>1. Phase' = "open" /\ generation' = generation + 1
      BY <1>4, <2>2 DEF OpenSpawn, Phase
    <3>2. gen' = [gen EXCEPT ![Heartbeat] = generation + 1]
      BY <1>4, <2>2 DEF OpenSpawn
    <3>3. InFlight' = InFlight \cup {Heartbeat}
      BY <1>4, <2>2 DEF OpenSpawn, InFlight
    <3>4. QED
      BY <2>1, <3>1, <3>2, <3>3 DEF Gate!Next, Gate!Open
  <2>3. CASE ~opened'
    <3>1. Phase' = "closed" /\ generation' = generation + 1 /\ gen' = gen
      BY <1>4, <2>3 DEF OpenSpawn, Phase
    <3>2. InFlight' = InFlight
      BY <1>4, <2>3, SameSide DEF OpenSpawn, OpenAbandon
    <3>3. QED
      BY <2>1, <3>1, <3>2 DEF Gate!Next, Gate!FailedOpen
  <2>4. QED
    BY <2>2, <2>3
<1>5. QED
  BY <1>1, <1>2, <1>3, <1>4 DEF OpenStep

(* The steps of a command or a script: making the call takes a ticket,     *)
(* begin_active_command enters, its guard leaves, and the return forgets.  *)
LEMMA CallSimulated ==
    ASSUME Inv, NEW c \in Callers,
           \/ \E kind \in {"command", "script"} : Call(c, kind)
           \/ CommandLock(c) \/ ScriptEnsure(c) \/ Begin(c) \/ Finish(c) \/ CommandUnlock(c)
    PROVE  [Gate!Next]_(Gate!vars)
<1> USE DEF Inv, TypeOK
<1>1. CASE \E kind \in {"command", "script"} : Call(c, kind)
  <2>1. c \notin InFlight /\ gen' = [gen EXCEPT ![c] = generation]
    BY <1>1 DEF Call, InFlight
  <2>2. InFlight' = InFlight
    BY <1>1, SameSide DEF Call
  <2>3. Phase' = Phase /\ generation' = generation
    BY <1>1 DEF Call, Phase
  <2>4. QED
    BY <2>1, <2>2, <2>3 DEF Gate!Next, Gate!Take, Gate!Users
<1>2. CASE CommandLock(c)
  <2>1. InFlight' = InFlight
    BY <1>2, SameSide DEF CommandLock
  <2>2. QED
    BY <1>2, <2>1, GateStutter DEF CommandLock
<1>3. CASE ScriptEnsure(c)
  <2>1. InFlight' = InFlight
    BY <1>3, SameSide DEF ScriptEnsure
  <2>2. QED
    BY <1>3, <2>1, GateStutter DEF ScriptEnsure
<1>4. CASE Begin(c)
  <2>1. CASE Valid(c)
    <3>1. Phase = "open" /\ gen[c] = generation
      BY <2>1 DEF Valid, Phase
    <3>2. c \notin InFlight /\ InFlight' = InFlight \cup {c}
      BY <1>4, <2>1 DEF Begin, InFlight
    <3>3. Phase' = Phase /\ generation' = generation /\ gen' = gen
      BY <1>4 DEF Begin, Phase
    <3>4. QED
      BY <3>1, <3>2, <3>3 DEF Gate!Next, Gate!Enter, Gate!Users
  <2>2. CASE ~Valid(c)
    <3>1. \/ Go(c, "begin")
          \/ Go(c, "command_unlock")
      BY <1>4, <2>2 DEF Begin, FailExchange
    <3>2. pc[c] = "begin"
      BY <1>4 DEF Begin
    <3>3. InFlight' = InFlight
      BY <3>1, <3>2, SameSide
    <3>4. QED
      BY <1>4, <3>3, GateStutter DEF Begin
  <2>3. QED
    BY <2>1, <2>2
<1>5. CASE Finish(c)
  <2>1. c \in InFlight /\ InFlight' = InFlight \ {c}
    BY <1>5 DEF Finish, NextExchange, RejectLine, FailExchange, InFlight
  <2>2. Phase' = Phase /\ generation' = generation /\ gen' = gen
    BY <1>5 DEF Finish, Phase
  <2>3. QED
    BY <2>1, <2>2 DEF Gate!Next, Gate!Leave, Gate!Users
<1>6. CASE CommandUnlock(c)
  <2>1. c \notin InFlight /\ gen' = [gen EXCEPT ![c] = 0]
    BY <1>6 DEF CommandUnlock, InFlight
  <2>2. InFlight' = InFlight
    BY <1>6, SameSide DEF CommandUnlock
  <2>3. Phase' = Phase /\ generation' = generation
    BY <1>6 DEF CommandUnlock, Phase
  <2>4. QED
    BY <2>1, <2>2, <2>3 DEF Gate!Next, Gate!Forget, Gate!Users
<1>7. QED
  BY <1>1, <1>2, <1>3, <1>4, <1>5, <1>6

(* The steps of read_response, of the retry loop and of the clock stay     *)
(* inside, or move on inside, and are stutters.                            *)
LEMMA ReadSimulated ==
    ASSUME Inv, NEW c \in Callers,
           \/ ReadCheck(c) \/ ReadIssue(c) \/ ReadReturn(c) \/ ReadRecheck(c)
           \/ BusyWait(c) \/ Complete(c) \/ Expire(c)
    PROVE  [Gate!Next]_(Gate!vars)
<1> USE DEF Inv, TypeOK
<1>1. CASE ReadCheck(c)
  <2>1. InFlight' = InFlight
    BY <1>1, SameSide DEF ReadCheck, NextAttempt
  <2>2. QED
    BY <1>1, <2>1, GateStutter DEF ReadCheck
<1>2. CASE ReadIssue(c)
  <2>1. InFlight' = InFlight
    BY <1>2, SameSide DEF ReadIssue
  <2>2. QED
    BY <1>2, <2>1, GateStutter DEF ReadIssue
<1>3. CASE ReadReturn(c)
  <2>1. InFlight' = InFlight
    BY <1>3, SameSide DEF ReadReturn
  <2>2. QED
    BY <1>3, <2>1, GateStutter DEF ReadReturn
<1>4. CASE ReadRecheck(c)
  <2>1. InFlight' = InFlight
    BY <1>4, SameSide DEF ReadRecheck
  <2>2. QED
    BY <1>4, <2>1, GateStutter DEF ReadRecheck
<1>5. CASE BusyWait(c)
  <2>1. InFlight' = InFlight
    BY <1>5, SameSide DEF BusyWait, NextAttempt
  <2>2. QED
    BY <1>5, <2>1, GateStutter DEF BusyWait
<1>6. CASE Complete(c)
  <2>1. InFlight' = InFlight
    BY <1>6, SameSide DEF Complete
  <2>2. QED
    BY <1>6, <2>1, GateStutter DEF Complete
<1>7. CASE Expire(c)
  <2>1. InFlight' = InFlight
    BY <1>7 DEF Expire, InFlight
  <2>2. QED
    BY <1>7, <2>1, GateStutter DEF Expire
<1>8. QED
  BY <1>1, <1>2, <1>3, <1>4, <1>5, <1>6, <1>7

(* The steps of write_frame are stutters. *)
LEMMA WriteSimulated ==
    ASSUME Inv, NEW p \in Procs, WriteStep(p)
    PROVE  [Gate!Next]_(Gate!vars)
<1> USE DEF Inv, TypeOK
<1>1. CASE WriteLock(p)
  <2>1. InFlight' = InFlight
    BY <1>1, SameSide DEF WriteLock
  <2>2. QED
    BY <1>1, <2>1, GateStutter DEF WriteLock
<1>2. CASE WriteCheck(p)
  <2>1. InFlight' = InFlight
    BY <1>2, SameSide DEF WriteCheck, AfterFailure
  <2>2. QED
    BY <1>2, <2>1, GateStutter DEF WriteCheck
<1>3. CASE WriteIo(p)
  <2>1. InFlight' = InFlight
    BY <1>3, SameSide DEF WriteIo, AfterFailure
  <2>2. QED
    BY <1>3, <2>1, GateStutter DEF WriteIo
<1>4. QED
  BY <1>1, <1>2, <1>3 DEF WriteStep

(* The steps of close(): the first one begins to drain, the join lets the  *)
(* heartbeat out, and the last one shuts the gate, with nobody inside.     *)
LEMMA CloseSimulated ==
    ASSUME Inv, NEW c \in Callers, CloseStart(c) \/ CloseStep(c)
    PROVE  [Gate!Next]_(Gate!vars)
<1> USE DEF Inv, TypeOK
<1>1. CASE CloseStart(c)
  <2>1. Phase = "open" /\ Phase' = "draining"
    BY <1>1 DEF CloseStart, Phase
  <2>2. generation' = generation + 1 /\ gen' = gen
    BY <1>1 DEF CloseStart
  <2>3. InFlight' = InFlight
    BY <1>1, SameSide DEF CloseStart
  <2>4. QED
    BY <2>1, <2>2, <2>3 DEF Gate!Next, Gate!Drain
<1>2. CASE CloseJoin(c)
  <2>1. Phase = "draining"
    BY <1>2 DEF CloseJoin, OneCloser, Phase
  <2>2. Heartbeat \in InFlight /\ InFlight' = InFlight \ {Heartbeat}
    BY <1>2 DEF CloseJoin, InFlight
  <2>3. Phase' = Phase /\ generation' = generation /\ gen' = gen
    BY <1>2 DEF CloseJoin, Phase
  <2>4. QED
    BY <2>1, <2>2, <2>3 DEF Gate!Next, Gate!Leave, Gate!Users
<1>3. CASE CloseDone(c)
  <2>1. Phase = "draining" /\ Phase' = "closed"
    BY <1>3 DEF CloseDone, OneCloser, Phase
  <2>2. InFlight = {}
    BY <1>3 DEF CloseDone, ActiveCounted, HeartbeatLives, InFlight
  <2>3. InFlight' = InFlight /\ generation' = generation /\ gen' = gen
    BY <1>3, SameSide DEF CloseDone
  <2>4. QED
    BY <2>1, <2>2, <2>3 DEF Gate!Next, Gate!Shut
<1>4. CASE CloseStopHeartbeat(c)
  <2>1. InFlight' = InFlight
    BY <1>4, SameSide DEF CloseStopHeartbeat
  <2>2. QED
    BY <1>4, <2>1, GateStutter DEF CloseStopHeartbeat
<1>5. CASE CloseCancelRead(c)
  <2>1. InFlight' = InFlight
    BY <1>5, SameSide DEF CloseCancelRead
  <2>2. QED
    BY <1>5, <2>1, GateStutter DEF CloseCancelRead
<1>6. CASE CloseStopLock(c)
  <2>1. InFlight' = InFlight
    BY <1>6, SameSide DEF CloseStopLock
  <2>2. QED
    BY <1>6, <2>1, GateStutter DEF CloseStopLock
<1>7. CASE CloseStopIo(c)
  <2>1. InFlight' = InFlight
    BY <1>7, SameSide DEF CloseStopIo
  <2>2. QED
    BY <1>7, <2>1, GateStutter DEF CloseStopIo
<1>8. CASE CloseDrain(c)
  <2>1. InFlight' = InFlight
    BY <1>8, SameSide DEF CloseDrain
  <2>2. QED
    BY <1>8, <2>1, GateStutter DEF CloseDrain
<1>9. CASE ClosePortLock(c)
  <2>1. InFlight' = InFlight
    BY <1>9, SameSide DEF ClosePortLock
  <2>2. QED
    BY <1>9, <2>1, GateStutter DEF ClosePortLock
<1>10. CASE ClosePort(c)
  <2>1. InFlight' = InFlight
    BY <1>10, SameSide DEF ClosePort
  <2>2. QED
    BY <1>10, <2>1, GateStutter DEF ClosePort
<1>11. QED
  BY <1>1, <1>2, <1>3, <1>4, <1>5, <1>6, <1>7, <1>8, <1>9, <1>10 DEF CloseStep

(* The steps of heartbeat_loop outside write_frame are stutters. *)
LEMMA HeartbeatSimulated ==
    ASSUME Inv, HeartbeatDue \/ HeartbeatExit
    PROVE  [Gate!Next]_(Gate!vars)
<1> USE DEF Inv, TypeOK
<1>1. CASE HeartbeatDue
  <2>1. InFlight' = InFlight
    BY <1>1, SameSide DEF HeartbeatDue
  <2>2. QED
    BY <1>1, <2>1, GateStutter DEF HeartbeatDue
<1>2. CASE HeartbeatExit
  <2>1. InFlight' = InFlight
    BY <1>2, SameSide DEF HeartbeatExit
  <2>2. QED
    BY <1>2, <2>1, GateStutter DEF HeartbeatExit
<1>3. QED
  BY <1>1, <1>2

(* HidBridgeCore implements the gate of module Connection: commands enter  *)
(* only the connection they were called for, and the port is let go of     *)
(* only when the last command and the heartbeat have left it.              *)
THEOREM Implements == Spec => ImplementsConnection
<1>1. Init => Gate!Init
  BY DEF Init, Gate!Init, Gate!Users, Procs, Phase, InFlight
<1>2. Inv /\ [Next]_vars => [Gate!Next]_(Gate!vars)
  <2> SUFFICES ASSUME Inv, [Next]_vars PROVE [Gate!Next]_(Gate!vars)
    OBVIOUS
  <2>1. ASSUME NEW c \in Callers, CallStart(c) PROVE [Gate!Next]_(Gate!vars)
    BY <2>1, OpenSimulated, CallSimulated, CloseSimulated DEF CallStart
  <2>2. ASSUME NEW c \in Callers, CommandStep(c) \/ Expire(c)
        PROVE  [Gate!Next]_(Gate!vars)
    BY <2>2, CallSimulated, ReadSimulated DEF CommandStep, ExchangeStep
  <2>3. ASSUME NEW c \in Callers, OpenStep(c) \/ WriteStep(c) \/ CloseStep(c)
        PROVE  [Gate!Next]_(Gate!vars)
    BY <2>3, OpenSimulated, WriteSimulated, CloseSimulated
  <2>4. CASE HeartbeatStep
    BY <2>4, WriteSimulated, HeartbeatSimulated DEF HeartbeatStep
  <2>5. CASE UNCHANGED vars
    BY <2>5 DEF vars, Gate!vars, Phase, InFlight
  <2>6. QED
    BY <2>1, <2>2, <2>3, <2>4, <2>5 DEF Next, CallerStep
<1>3. QED
  BY <1>1, <1>2, InvHolds, PTL DEF Spec, ImplementsConnection, Gate!Spec

===============================================================================
