------------------------------ MODULE BridgeCore ------------------------------
(***************************************************************************)
(* The concurrency of class HidBridgeCore (serial.hpp): open, close,       *)
(* commands, scripts and the heartbeat thread, at the granularity of its   *)
(* mutexes and of its blocking transport calls.                            *)
(*                                                                         *)
(* A critical section of state_mutex_ that makes no transport call is one  *)
(* step, guarded by StateFree; only open() keeps the mutex across steps.   *)
(* What the device answers is left open here: any call that decodes a      *)
(* response may find nothing, the acknowledgement, BUSY or a rejection.    *)
(* The responses themselves are the subject of module Exchange.            *)
(*                                                                         *)
(* session_ is set and reset in the same critical sections as opened_ and  *)
(* is not a variable of its own.                                           *)
(*                                                                         *)
(* A definition whose comment says "Mutant" is a faulty variant of the one *)
(* that follows it, for the mutation runs; no behaviour uses it.           *)
(***************************************************************************)
EXTENDS Naturals

CONSTANTS
    Callers,        \* application threads that share one core
    Heartbeat,      \* the heartbeat thread, one per open connection
    None,           \* the owner of a free mutex
    Retries,        \* HidBridgeOptions::retries
    ScriptLength,   \* most exchanges in one script transaction
    MaxGeneration   \* bound: no open() is begun at this generation or above

ASSUME CoreAssumption ==
    /\ Heartbeat \notin Callers
    /\ None \notin Callers \cup {Heartbeat}
    /\ Retries \in Nat
    /\ ScriptLength \in Nat \ {0}
    /\ MaxGeneration \in Nat

Procs == Callers \cup {Heartbeat}

VARIABLES
    opened, closing, generation,    \* the state behind state_mutex_
    active,                         \* active_commands_
    stateMutex,                     \* the thread inside open(), or None
    commandMutex, writeMutex,       \* the owners of the other two mutexes
    heartbeatStop,                  \* heartbeat_stop_
    pc,                             \* where each thread is
    gen,                            \* the generation a call was made in
    job, todo,                      \* the call under way, exchanges left
    attempt, expired,               \* the exchange: its retry, its deadline
    port, dtr,                      \* the transport: whose connection, DTR
    cancelled                       \* pending reads that cancel_read ended

connection == <<opened, closing, generation>>
locks == <<stateMutex, commandMutex, writeMutex>>
exchange == <<attempt, expired>>
call == <<gen, job, todo>>
line == <<port, dtr>>
vars == <<connection, active, locks, heartbeatStop, pc, call, exchange, line,
          cancelled>>

-------------------------------------------------------------------------------
(* Where a thread can be. *)

OpenLabels == {"open_port", "open_dtr", "open_spawn"}

(* Inside ActiveCommandGuard: the thread is counted in active_commands_. *)
WritingLabels == {"write_lock", "write_check", "write_io"}
WaitingLabels == {"read_check", "read_issue", "read_io", "read_recheck",
                  "busy_wait"}
ActiveLabels == WritingLabels \cup WaitingLabels
                \cup {"complete", "finish", "unwind"}

(* Owning command_mutex_. *)
CommandLabels == ActiveLabels \cup {"ensure", "begin", "command_unlock"}

(* Inside close(), before STOP_ALL was written and after. *)
ClosingLabels == {"close_stop_heartbeat", "close_cancel_read",
                  "close_stop_lock", "close_stop_io"}
StoppedLabels == {"close_join", "close_drain", "close_port_lock",
                  "close_port", "close_done"}
CloseLabels == ClosingLabels \cup StoppedLabels

HeartbeatLabels == {"none", "hb_wait", "exited"} \cup WritingLabels
CallerLabels == {"idle", "command_lock"} \cup OpenLabels \cup CommandLabels
                \cup CloseLabels

StateFree == stateMutex = None

(* Mutant: the generation is not compared. *)
AnySession(p) == opened /\ ~closing

(* The test of require_session and begin_active_command. *)
Valid(p) == gen[p] = generation /\ opened /\ ~closing

Go(p, label) == pc' = [pc EXCEPT ![p] = label]

-------------------------------------------------------------------------------

Init ==
    /\ opened = FALSE /\ closing = FALSE /\ generation = 0
    /\ active = 0
    /\ stateMutex = None /\ commandMutex = None /\ writeMutex = None
    /\ heartbeatStop = TRUE
    /\ pc = [p \in Procs |-> IF p = Heartbeat THEN "none" ELSE "idle"]
    /\ gen = [p \in Procs |-> 0]
    /\ job = [c \in Callers |-> "none"]
    /\ todo = [c \in Callers |-> 0]
    /\ attempt = [c \in Callers |-> 0]
    /\ expired = [c \in Callers |-> FALSE]
    /\ port = 0 /\ dtr = FALSE
    /\ cancelled = {}

-------------------------------------------------------------------------------
(* open().  It returns or throws at once when the core is open or closing, *)
(* which changes nothing; otherwise it keeps state_mutex_ to its end.      *)

OpenStart(c) ==
    /\ pc[c] = "idle" /\ StateFree
    /\ ~opened /\ ~closing /\ pc[Heartbeat] = "none"
    /\ generation < MaxGeneration
    /\ stateMutex' = c
    /\ Go(c, "open_port")
    /\ UNCHANGED <<connection, active, commandMutex, writeMutex, heartbeatStop,
                   call, exchange, line, cancelled>>

(* Mutant: the failed open() forgets to close the transport. *)
OpenAbandonHolding(c) ==
    /\ UNCHANGED line
    /\ stateMutex' = None
    /\ Go(c, "idle")

(* open() throws: it has closed the transport, and unlocks. *)
OpenAbandon(c) ==
    /\ port' = 0 /\ dtr' = FALSE
    /\ stateMutex' = None
    /\ Go(c, "idle")

OpenPort(c) ==
    /\ pc[c] = "open_port"
    /\ \/ port' = generation + 1 /\ Go(c, "open_dtr") /\ UNCHANGED <<dtr, stateMutex>>
       \/ OpenAbandon(c)
    /\ UNCHANGED <<connection, active, commandMutex, writeMutex, heartbeatStop,
                   call, exchange, cancelled>>

OpenDtr(c) ==
    /\ pc[c] = "open_dtr"
    /\ \/ dtr' = TRUE /\ Go(c, "open_spawn") /\ UNCHANGED <<port, stateMutex>>
       \/ OpenAbandon(c)
    /\ UNCHANGED <<connection, active, commandMutex, writeMutex, heartbeatStop,
                   call, exchange, cancelled>>

(* Mutant: the stop flag of the last heartbeat thread stays set. *)
KeepStopFlag == UNCHANGED heartbeatStop

ClearStopFlag == heartbeatStop' = FALSE

(* The generation is used up even when the thread cannot be started. *)
OpenSpawn(c) ==
    /\ pc[c] = "open_spawn"
    /\ generation' = generation + 1
    /\ closing' = FALSE
    /\ ClearStopFlag
    /\ \/ /\ opened' = TRUE
          /\ gen' = [gen EXCEPT ![Heartbeat] = generation + 1]
          /\ pc' = [pc EXCEPT ![c] = "idle", ![Heartbeat] = "hb_wait"]
          /\ stateMutex' = None
          /\ UNCHANGED line
       \/ /\ opened' = FALSE
          /\ OpenAbandon(c)
          /\ UNCHANGED gen
    /\ UNCHANGED <<active, commandMutex, writeMutex, job, todo, exchange, cancelled>>

-------------------------------------------------------------------------------
(* Commands and scripts: the way to the first exchange. *)

(* send_command and run_script read the generation before they lock. *)
Call(c, kind) ==
    /\ pc[c] = "idle" /\ StateFree
    /\ gen' = [gen EXCEPT ![c] = generation]
    /\ job' = [job EXCEPT ![c] = kind]
    /\ \E n \in IF kind = "script" THEN 1..ScriptLength ELSE {1} :
          todo' = [todo EXCEPT ![c] = n]
    /\ Go(c, "command_lock")
    /\ UNCHANGED <<connection, active, locks, heartbeatStop, exchange, line, cancelled>>

(* Mutant: the transaction lock excludes nobody. *)
CommandLockShared(c) ==
    /\ pc[c] = "command_lock"
    /\ commandMutex' = c
    /\ Go(c, IF job[c] = "script" THEN "ensure" ELSE "begin")
    /\ UNCHANGED <<connection, active, stateMutex, writeMutex, heartbeatStop,
                   call, exchange, line, cancelled>>

CommandLock(c) ==
    /\ pc[c] = "command_lock" /\ commandMutex = None
    /\ commandMutex' = c
    /\ Go(c, IF job[c] = "script" THEN "ensure" ELSE "begin")
    /\ UNCHANGED <<connection, active, stateMutex, writeMutex, heartbeatStop,
                   call, exchange, line, cancelled>>

(* run_script, outside its try block: the generation has changed, or       *)
(* parse_script throws or finds no command; or the script starts.          *)
ScriptEnsure(c) ==
    /\ pc[c] = "ensure" /\ StateFree
    /\ \/ Valid(c) /\ Go(c, "begin")
       \/ Go(c, "command_unlock")
    /\ UNCHANGED <<connection, active, locks, heartbeatStop, call, exchange,
                   line, cancelled>>

(* What follows an exchange that succeeded: the script's next one, or the  *)
(* end.  A failed exchange of a script is followed by one STOP_ALL.        *)
NextExchange(c) ==
    IF job[c] = "script" /\ todo[c] > 1
    THEN /\ todo' = [todo EXCEPT ![c] = @ - 1]
         /\ Go(c, "begin")
         /\ UNCHANGED job
    ELSE Go(c, "command_unlock") /\ UNCHANGED <<job, todo>>

(* Mutant: a cleanup that fails is cleaned up after as well. *)
FailExchangeAgain(c) ==
    IF job[c] \in {"script", "cleanup"}
    THEN /\ job' = [job EXCEPT ![c] = "cleanup"]
         /\ todo' = [todo EXCEPT ![c] = 1]
         /\ Go(c, "begin")
    ELSE Go(c, "command_unlock") /\ UNCHANGED <<job, todo>>

FailExchange(c) ==
    IF job[c] = "script"
    THEN /\ job' = [job EXCEPT ![c] = "cleanup"]
         /\ todo' = [todo EXCEPT ![c] = 1]
         /\ Go(c, "begin")
    ELSE Go(c, "command_unlock") /\ UNCHANGED <<job, todo>>

(* begin_active_command, and the frame is built; encode_frame throws when  *)
(* the payload is too long.                                                *)
Begin(c) ==
    /\ pc[c] = "begin" /\ StateFree
    /\ \/ /\ Valid(c)
          /\ active' = active + 1
          /\ attempt' = [attempt EXCEPT ![c] = 0]
          /\ Go(c, "write_lock") \/ Go(c, "unwind")
          /\ UNCHANGED <<job, todo>>
       \/ /\ ~Valid(c)
          /\ FailExchange(c)
          /\ UNCHANGED <<active, attempt>>
    /\ UNCHANGED <<connection, locks, heartbeatStop, gen, expired, line, cancelled>>

-------------------------------------------------------------------------------
(* write_frame, by a caller or by the heartbeat. *)

WriteLock(p) ==
    /\ pc[p] = "write_lock" /\ writeMutex = None
    /\ writeMutex' = p
    /\ Go(p, "write_check")
    /\ UNCHANGED <<connection, active, stateMutex, commandMutex, heartbeatStop,
                   call, exchange, line, cancelled>>

(* Mutant: an exception ends the heartbeat thread. *)
AfterFailureEnds(p) == IF p = Heartbeat THEN "exited" ELSE "unwind"

(* An exception out of write_frame: the heartbeat swallows it. *)
AfterFailure(p) == IF p = Heartbeat THEN "hb_wait" ELSE "unwind"

(* Mutant: the session is not looked at again under the write lock. *)
WriteUnchecked(p) ==
    /\ pc[p] = "write_check"
    /\ Go(p, "write_io")
    /\ UNCHANGED <<connection, active, locks, heartbeatStop, call, exchange,
                   line, cancelled>>

WriteCheck(p) ==
    /\ pc[p] = "write_check" /\ StateFree
    /\ \/ Valid(p) /\ Go(p, "write_io") /\ UNCHANGED writeMutex
       \/ ~Valid(p) /\ Go(p, AfterFailure(p)) /\ writeMutex' = None
    /\ UNCHANGED <<connection, active, stateMutex, commandMutex, heartbeatStop,
                   call, exchange, line, cancelled>>

(* Mutant: the write lock is kept for the response. *)
WriteIoKeepsLock(p) ==
    /\ pc[p] = "write_io"
    /\ IF p = Heartbeat THEN writeMutex' = None ELSE UNCHANGED writeMutex
    /\ Go(p, IF p = Heartbeat THEN "hb_wait" ELSE "read_check")
    /\ UNCHANGED <<connection, active, stateMutex, commandMutex, heartbeatStop,
                   call, exchange, line, cancelled>>

(* The write completes or throws; read_response then fixes its deadline. *)
WriteIo(p) ==
    /\ pc[p] = "write_io"
    /\ writeMutex' = None
    /\ \/ /\ p \in Callers
          /\ expired' = [expired EXCEPT ![p] = FALSE]
          /\ Go(p, "read_check")
       \/ /\ p = Heartbeat
          /\ UNCHANGED expired
          /\ Go(p, "hb_wait")
       \/ Go(p, AfterFailure(p)) /\ UNCHANGED expired
    /\ UNCHANGED <<connection, active, stateMutex, commandMutex, heartbeatStop,
                   call, attempt, line, cancelled>>

-------------------------------------------------------------------------------
(* read_response and the retry loop around it. *)

(* Mutant: one attempt too many. *)
OneAttemptMore(c) ==
    IF attempt[c] <= Retries
    THEN attempt' = [attempt EXCEPT ![c] = @ + 1] /\ Go(c, "write_lock")
    ELSE Go(c, "unwind") /\ UNCHANGED attempt

(* After a timeout or a BUSY wait: the next attempt, or the last exception. *)
NextAttempt(c) ==
    IF attempt[c] < Retries
    THEN attempt' = [attempt EXCEPT ![c] = @ + 1] /\ Go(c, "write_lock")
    ELSE Go(c, "unwind") /\ UNCHANGED attempt

(* The top of the read loop.  A response already received is decoded       *)
(* before the deadline is looked at; BUSY on the last attempt is rejected. *)
ReadCheck(c) ==
    /\ pc[c] = "read_check" /\ StateFree
    /\ \/ /\ ~Valid(c) /\ Go(c, "unwind")
          /\ UNCHANGED attempt
       \/ /\ Valid(c)
          /\ \/ Go(c, "complete")                           \* acknowledged
             \/ Go(c, "unwind")                             \* rejected
             \/ attempt[c] < Retries /\ Go(c, "busy_wait")  \* BUSY
             \/ ~expired[c] /\ Go(c, "read_issue")          \* nothing yet
          /\ UNCHANGED attempt
       \/ Valid(c) /\ expired[c] /\ NextAttempt(c)          \* timed out
    /\ UNCHANGED <<connection, active, locks, heartbeatStop, call, expired,
                   line, cancelled>>

ReadIssue(c) ==
    /\ pc[c] = "read_issue"
    /\ Go(c, "read_io")
    /\ UNCHANGED <<connection, active, locks, heartbeatStop, call, exchange,
                   line, cancelled>>

(* The read brings bytes, throws, or comes back empty because its time ran *)
(* out or cancel_read ended it.                                            *)
ReadReturn(c) ==
    /\ pc[c] = "read_io"
    /\ \/ Go(c, "read_recheck")
       \/ Go(c, "unwind")
       \/ (expired[c] \/ c \in cancelled) /\ Go(c, "read_check")
    /\ cancelled' = cancelled \ {c}
    /\ UNCHANGED <<connection, active, locks, heartbeatStop, call, exchange, line>>

ReadRecheck(c) ==
    /\ pc[c] = "read_recheck" /\ StateFree
    /\ Go(c, IF Valid(c) THEN "read_check" ELSE "unwind")
    /\ UNCHANGED <<connection, active, locks, heartbeatStop, call, exchange,
                   line, cancelled>>

(* The deadline of the response passes. *)
Expire(c) ==
    /\ pc[c] \in {"read_check", "read_issue", "read_io", "read_recheck"}
    /\ ~expired[c]
    /\ expired' = [expired EXCEPT ![c] = TRUE]
    /\ UNCHANGED <<connection, active, locks, heartbeatStop, pc, call, attempt,
                   line, cancelled>>

(* wait_for_retry tests the generation at every slice: the last one ends   *)
(* the wait, an earlier one may end it with an exception.                  *)
BusyWait(c) ==
    /\ pc[c] = "busy_wait" /\ StateFree
    /\ IF Valid(c)
       THEN NextAttempt(c)
       ELSE Go(c, "unwind") /\ UNCHANGED attempt
    /\ UNCHANGED <<connection, active, locks, heartbeatStop, call, expired,
                   line, cancelled>>

Complete(c) ==
    /\ pc[c] = "complete" /\ StateFree
    /\ Go(c, IF Valid(c) THEN "finish" ELSE "unwind")
    /\ UNCHANGED <<connection, active, locks, heartbeatStop, call, exchange,
                   line, cancelled>>

(* script_command_to_packet rejects the next line of the script. *)
RejectLine(c) == job[c] = "script" /\ todo[c] > 1 /\ FailExchange(c)

(* ~ActiveCommandGuard, on return and on an exception. *)
Finish(c) ==
    /\ pc[c] \in {"finish", "unwind"} /\ StateFree
    /\ active' = active - 1
    /\ \/ pc[c] = "finish" /\ (NextExchange(c) \/ RejectLine(c))
       \/ pc[c] = "unwind" /\ FailExchange(c)
    /\ UNCHANGED <<connection, locks, heartbeatStop, gen, exchange, line, cancelled>>

(* The call returns; its locals are gone. *)
CommandUnlock(c) ==
    /\ pc[c] = "command_unlock"
    /\ commandMutex' = None
    /\ gen' = [gen EXCEPT ![c] = 0]
    /\ job' = [job EXCEPT ![c] = "none"]
    /\ todo' = [todo EXCEPT ![c] = 0]
    /\ attempt' = [attempt EXCEPT ![c] = 0]
    /\ expired' = [expired EXCEPT ![c] = FALSE]
    /\ Go(c, "idle")
    /\ UNCHANGED <<connection, active, stateMutex, writeMutex, heartbeatStop,
                   line, cancelled>>

-------------------------------------------------------------------------------
(* close().  It returns at once when the core is not open. *)

CloseStart(c) ==
    /\ pc[c] = "idle" /\ StateFree
    /\ opened /\ ~closing
    /\ closing' = TRUE /\ opened' = FALSE
    /\ generation' = generation + 1
    /\ Go(c, "close_stop_heartbeat")
    /\ UNCHANGED <<active, locks, heartbeatStop, call, exchange, line, cancelled>>

(* Mutant: the heartbeat is notified and its flag forgotten. *)
CloseOnlyNotifies(c) ==
    /\ pc[c] = "close_stop_heartbeat"
    /\ Go(c, "close_cancel_read")
    /\ UNCHANGED <<connection, active, locks, heartbeatStop, call, exchange,
                   line, cancelled>>

CloseStopHeartbeat(c) ==
    /\ pc[c] = "close_stop_heartbeat"
    /\ heartbeatStop' = TRUE
    /\ Go(c, "close_cancel_read")
    /\ UNCHANGED <<connection, active, locks, call, exchange, line, cancelled>>

(* CancelIoEx ends the reads that are pending now, and no later one. *)
CloseCancelRead(c) ==
    /\ pc[c] = "close_cancel_read"
    /\ cancelled' = {d \in Callers : pc[d] = "read_io"}
    /\ Go(c, "close_stop_lock")
    /\ UNCHANGED <<connection, active, locks, heartbeatStop, call, exchange, line>>

CloseStopLock(c) ==
    /\ pc[c] = "close_stop_lock" /\ writeMutex = None
    /\ writeMutex' = c
    /\ Go(c, "close_stop_io")
    /\ UNCHANGED <<connection, active, stateMutex, commandMutex, heartbeatStop,
                   call, exchange, line, cancelled>>

(* STOP_ALL is written, or an exception of the write is swallowed. *)
CloseStopIo(c) ==
    /\ pc[c] = "close_stop_io"
    /\ writeMutex' = None
    /\ Go(c, "close_join")
    /\ UNCHANGED <<connection, active, stateMutex, commandMutex, heartbeatStop,
                   call, exchange, line, cancelled>>

CloseJoin(c) ==
    /\ pc[c] = "close_join"
    /\ pc[Heartbeat] = "exited"
    /\ pc' = [pc EXCEPT ![c] = "close_drain", ![Heartbeat] = "none"]
    /\ UNCHANGED <<connection, active, locks, heartbeatStop, call, exchange,
                   line, cancelled>>

(* Mutant: active commands are not waited for. *)
CloseDoesNotDrain(c) ==
    /\ pc[c] = "close_drain" /\ StateFree
    /\ Go(c, "close_port_lock")
    /\ UNCHANGED <<connection, active, locks, heartbeatStop, call, exchange,
                   line, cancelled>>

CloseDrain(c) ==
    /\ pc[c] = "close_drain" /\ StateFree
    /\ active = 0
    /\ Go(c, "close_port_lock")
    /\ UNCHANGED <<connection, active, locks, heartbeatStop, call, exchange,
                   line, cancelled>>

ClosePortLock(c) ==
    /\ pc[c] = "close_port_lock" /\ writeMutex = None
    /\ writeMutex' = c
    /\ Go(c, "close_port")
    /\ UNCHANGED <<connection, active, stateMutex, commandMutex, heartbeatStop,
                   call, exchange, line, cancelled>>

ClosePort(c) ==
    /\ pc[c] = "close_port"
    /\ port' = 0 /\ dtr' = FALSE
    /\ writeMutex' = None
    /\ Go(c, "close_done")
    /\ UNCHANGED <<connection, active, stateMutex, commandMutex, heartbeatStop,
                   call, exchange, cancelled>>

CloseDone(c) ==
    /\ pc[c] = "close_done" /\ StateFree
    /\ closing' = FALSE
    /\ Go(c, "idle")
    /\ UNCHANGED <<opened, generation, active, locks, heartbeatStop, call,
                   exchange, line, cancelled>>

-------------------------------------------------------------------------------
(* heartbeat_loop: each wait ends by the interval or by the stop flag. *)

HeartbeatDue ==
    /\ pc[Heartbeat] = "hb_wait" /\ ~heartbeatStop
    /\ Go(Heartbeat, "write_lock")
    /\ UNCHANGED <<connection, active, locks, heartbeatStop, call, exchange,
                   line, cancelled>>

HeartbeatExit ==
    /\ pc[Heartbeat] = "hb_wait" /\ heartbeatStop
    /\ Go(Heartbeat, "exited")
    /\ UNCHANGED <<connection, active, locks, heartbeatStop, call, exchange,
                   line, cancelled>>

-------------------------------------------------------------------------------

(* A step inside a call, as opposed to the application making one. *)
OpenStep(c) == OpenPort(c) \/ OpenDtr(c) \/ OpenSpawn(c)

ExchangeStep(c) ==
    \/ ReadCheck(c) \/ ReadIssue(c) \/ ReadReturn(c) \/ ReadRecheck(c)
    \/ BusyWait(c) \/ Complete(c) \/ Finish(c)

CommandStep(c) ==
    \/ CommandLock(c) \/ ScriptEnsure(c) \/ Begin(c) \/ ExchangeStep(c)
    \/ CommandUnlock(c)

CloseStep(c) ==
    \/ CloseStopHeartbeat(c) \/ CloseCancelRead(c) \/ CloseStopLock(c)
    \/ CloseStopIo(c) \/ CloseJoin(c) \/ CloseDrain(c) \/ ClosePortLock(c)
    \/ ClosePort(c) \/ CloseDone(c)

WriteStep(p) == WriteLock(p) \/ WriteCheck(p) \/ WriteIo(p)

HeartbeatStep == HeartbeatDue \/ HeartbeatExit \/ WriteStep(Heartbeat)

CallStart(c) ==
    \/ OpenStart(c) \/ CloseStart(c)
    \/ \E kind \in {"command", "script"} : Call(c, kind)

CallerStep(c) ==
    OpenStep(c) \/ CommandStep(c) \/ WriteStep(c) \/ CloseStep(c)

Next ==
    \/ \E c \in Callers : CallStart(c) \/ CallerStep(c) \/ Expire(c)
    \/ HeartbeatStep

Spec == Init /\ [][Next]_vars

(* Every started call and the heartbeat thread go on while they can, and   *)
(* time passes.  The application owes nothing: CallStart has no fairness.  *)
FairSpec ==
    /\ Spec
    /\ \A c \in Callers : WF_vars(CallerStep(c)) /\ WF_vars(Expire(c))
    /\ WF_vars(HeartbeatStep)

(* A thread that keeps finding a mutex free gets it at last. *)
FairLocks ==
    /\ \A c \in Callers : SF_vars(CallerStep(c))
    /\ SF_vars(HeartbeatStep)

-------------------------------------------------------------------------------
(* Properties. *)

(* The type invariant; active_commands_ never wraps below zero. *)
TypeOK ==
    /\ opened \in BOOLEAN /\ closing \in BOOLEAN /\ generation \in Nat
    /\ active \in Nat
    /\ stateMutex \in Callers \cup {None}
    /\ commandMutex \in Callers \cup {None}
    /\ writeMutex \in Procs \cup {None}
    /\ heartbeatStop \in BOOLEAN
    /\ pc \in [Procs -> CallerLabels \cup HeartbeatLabels]
    /\ \A c \in Callers : pc[c] \in CallerLabels
    /\ pc[Heartbeat] \in HeartbeatLabels
    /\ gen \in [Procs -> Nat]
    /\ job \in [Callers -> {"none", "command", "script", "cleanup"}]
    /\ todo \in [Callers -> 0..ScriptLength]
    /\ attempt \in [Callers -> 0..Retries]
    /\ expired \in [Callers -> BOOLEAN]
    /\ port \in Nat /\ dtr \in BOOLEAN
    /\ cancelled \subseteq Callers

(* The STOP_ALL that close() writes is the last frame of its connection:   *)
(* from then to the end of close() no command, retry, script step or       *)
(* heartbeat that was already on its way reaches the transport.            *)
NoFrameAfterStop ==
    \A c \in Callers :
        pc[c] \in StoppedLabels => \A p \in Procs : pc[p] # "write_io"

(* A thread that reads or writes does so on the open port of the very      *)
(* connection its call was made for, never on a later one and never on a   *)
(* port that close() has let go of.                                        *)
IoOnOwnConnection ==
    \A p \in Procs :
        pc[p] \in {"write_io", "read_issue", "read_io"} =>
            port = gen[p] /\ port # 0

(* While the core reports itself open, its port is the one of the current  *)
(* generation, DTR is asserted and a heartbeat thread of this generation   *)
(* keeps the device's lease.                                               *)
SessionBacked ==
    opened /\ ~closing =>
        /\ port = generation /\ port # 0 /\ dtr
        /\ pc[Heartbeat] \notin {"none", "exited"}
        /\ gen[Heartbeat] = generation

(* An open() that failed at any of its steps and a close() that returned   *)
(* leave nothing behind: no port, no DTR and no thread to join.            *)
NothingLeftBehind ==
    ~opened /\ ~closing /\ StateFree =>
        port = 0 /\ ~dtr /\ pc[Heartbeat] = "none" /\ active = 0

(* From the first exchange of a script to the last, the STOP_ALL that      *)
(* cleans up after a failure included, no other thread has a command in    *)
(* flight, also in the moments between two exchanges.                      *)
TransactionExclusive ==
    \A c, d \in Callers :
        /\ c # d
        /\ job[c] \in {"script", "cleanup"}
        /\ pc[c] \in ActiveLabels \cup {"begin"}
        => pc[d] \notin ActiveLabels

(* A thread that waits for the device, or for a retry, holds neither the   *)
(* write mutex nor the state mutex: the heartbeat and close() get through. *)
NoLockWhileWaiting ==
    \A c \in Callers :
        pc[c] \in WaitingLabels => writeMutex # c /\ stateMutex # c

(* The inductive invariant behind the safety properties above, by parts.   *)

WriteOwnerLabels == {"write_check", "write_io", "close_stop_io", "close_port"}

(* close(), while the port is still open, and after it was closed. *)
HoldingLabels == CloseLabels \ {"close_done"}
DrainedLabels == {"close_port_lock", "close_port", "close_done"}
JoinedLabels == {"close_drain"} \cup DrainedLabels

(* A mutex has the owner that the program counters say it has. *)
LocksOwned ==
    /\ \A c \in Callers : pc[c] \in OpenLabels <=> stateMutex = c
    /\ \A c \in Callers : pc[c] \in CommandLabels <=> commandMutex = c
    /\ \A p \in Procs : pc[p] \in WriteOwnerLabels <=> writeMutex = p

(* closing_ is set exactly while one thread is inside close(). *)
OneCloser ==
    /\ closing => ~opened /\ \E c \in Callers : pc[c] \in CloseLabels
    /\ \A c \in Callers : pc[c] \in CloseLabels => closing
    /\ \A c, d \in Callers :
          pc[c] \in CloseLabels /\ pc[d] \in CloseLabels => c = d
    /\ \A c \in Callers : pc[c] \in OpenLabels => ~opened /\ ~closing

(* active_commands_ counts the one thread that is inside the guard, which  *)
(* is inside the connection its call was made for, and which close() waits *)
(* for before it touches the port.                                         *)
ActiveCounted ==
    /\ \A c \in Callers :
          pc[c] \in ActiveLabels =>
              /\ active = 1
              /\ opened => gen[c] = generation
              /\ ~opened => closing /\ gen[c] + 1 = generation
    /\ (\A c \in Callers : pc[c] \notin ActiveLabels) => active = 0
    /\ \A c, d \in Callers :
          pc[c] \in DrainedLabels => pc[d] \notin ActiveLabels

(* The heartbeat thread lives from open() to the join in close(). *)
HeartbeatLives ==
    /\ opened => /\ ~heartbeatStop
                 /\ pc[Heartbeat] \notin {"none", "exited"}
                 /\ gen[Heartbeat] = generation
    /\ ~opened /\ ~closing => pc[Heartbeat] = "none"
    /\ closing /\ pc[Heartbeat] # "none" => gen[Heartbeat] + 1 = generation
    /\ \A c \in Callers :
          /\ pc[c] \in CloseLabels \ {"close_stop_heartbeat"} => heartbeatStop
          /\ pc[c] \in JoinedLabels => pc[Heartbeat] = "none"

(* Whose connection the port is, and whether DTR is asserted. *)
PortHeld ==
    /\ opened => port = generation /\ port # 0 /\ dtr
    /\ ~opened /\ ~closing /\ StateFree => port = 0 /\ ~dtr
    /\ \A c \in Callers :
          /\ pc[c] \in HoldingLabels => port + 1 = generation /\ port # 0
          /\ pc[c] = "close_done" => port = 0 /\ ~dtr
          /\ pc[c] \in {"open_dtr", "open_spawn"} => port = generation + 1
          /\ pc[c] = "open_spawn" => dtr

Inv ==
    /\ TypeOK
    /\ LocksOwned /\ OneCloser /\ ActiveCounted /\ HeartbeatLives /\ PortHeld
    /\ NoFrameAfterStop

(* What a test and the README say of close(): it ends the read that a      *)
(* command is blocked in.  Once close() is past cancel_read, every pending *)
(* read was cancelled or has reached its deadline.                         *)
ClosePreemptsReads ==
    \A c, d \in Callers :
        /\ pc[c] \in CloseLabels \ {"close_stop_heartbeat", "close_cancel_read"}
        /\ pc[d] = "read_io"
        => d \in cancelled \/ expired[d]

(* The core implements the gate of module Connection. *)
InFlight == {c \in Callers : pc[c] \in ActiveLabels}
             \cup {p \in {Heartbeat} : pc[p] # "none"}

Phase == IF opened THEN "open" ELSE IF closing THEN "draining" ELSE "closed"

Gate == INSTANCE Connection WITH
            Worker <- Heartbeat, phase <- Phase,
            epoch <- generation, ticket <- gen, users <- InFlight

ImplementsConnection == Gate!Spec

(* A close() that was begun ends, whatever the commands, the retries and   *)
(* the heartbeat were doing, even if no mutex is fair.                     *)
CloseCompletes == closing ~> ~closing

(* Every call returns, if the mutexes are fair: no set of calls waits for  *)
(* one another for ever.                                                   *)
CallsReturn ==
    FairLocks => \A c \in Callers : pc[c] # "idle" ~> pc[c] = "idle"

(* While the connection stays open the heartbeat is written again and      *)
(* again, whatever the commands wait for and although writes may fail, if  *)
(* the mutexes are fair.                                                   *)
HeartbeatFlows ==
    FairLocks => (opened ~> (pc[Heartbeat] = "write_io" \/ ~opened))
===============================================================================
