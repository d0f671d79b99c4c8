---------------------------- MODULE SessionHandle -----------------------------
(***************************************************************************)
(* The shared session handle of the C API (c_api.cpp, session_state.hpp):  *)
(* its reference count, the faulted flag that a timeout or a transport     *)
(* failure sets, and the core it owns.  The core is used through the       *)
(* actions of module Connection, which BridgeCore implements.              *)
(*                                                                         *)
(* The contract of the API is modelled, not checked: a thread calls a      *)
(* function of the handle, or retains it for another thread, only while it *)
(* owns a reference, and it does not give its last reference away from     *)
(* inside a call.                                                          *)
(*                                                                         *)
(* A definition whose comment says "Mutant" is a faulty variant of the one *)
(* that follows it, for the mutation runs; no behaviour uses it.           *)
(***************************************************************************)
EXTENDS Naturals

CONSTANTS
    Threads,        \* the application threads
    Heartbeat,      \* the worker of the core
    MaxOwned,       \* bound: references one thread owns
    MaxEpoch        \* bound: the core is not opened at this epoch or above

ASSUME HandleAssumption ==
    /\ Heartbeat \notin Threads
    /\ MaxOwned \in Nat \ {0}
    /\ MaxEpoch \in Nat

VARIABLES
    phase, epoch, ticket, users,    \* the core, as in module Connection
    references,                     \* Rp2350HidSession::references
    faulted,                        \* Rp2350HidSession::faulted
    freed,                          \* the handle was deleted
    owned,                          \* the references each thread owns
    pc,                             \* where each thread is in a call
    call,                           \* which call that is
    fault                           \* the epoch a thread's call failed in

core == <<phase, epoch, ticket, users>>
vars == <<core, references, faulted, freed, owned, pc, call, fault>>

Core == INSTANCE Connection WITH
            Callers <- Threads, Worker <- Heartbeat

Calls == {"open", "command"}

(* Inside a function of the API that uses the handle. *)
Using(t) == pc[t] # "idle"

Go(t, label) == pc' = [pc EXCEPT ![t] = label]

Init ==
    /\ Core!Init
    /\ references = 1
    /\ faulted = FALSE /\ freed = FALSE
    /\ \E creator \in Threads :
          owned = [t \in Threads |-> IF t = creator THEN 1 ELSE 0]
    /\ pc = [t \in Threads |-> "idle"]
    /\ call = [t \in Threads |-> "command"]
    /\ fault = [t \in Threads |-> 0]

-------------------------------------------------------------------------------
(* References. *)

(* Mutant: two retains that read the count together add one. *)
RetainLost(t, u) ==
    /\ pc[t] = "idle" /\ owned[t] > 0 /\ owned[u] < MaxOwned
    /\ references' \in {references, references + 1}
    /\ owned' = [owned EXCEPT ![u] = @ + 1]
    /\ UNCHANGED <<core, faulted, freed, pc, call, fault>>

(* rp2350_hid_session_retain, for a thread u that is then given the handle. *)
Retain(t, u) ==
    /\ pc[t] = "idle" /\ owned[t] > 0 /\ owned[u] < MaxOwned
    /\ references' = references + 1
    /\ owned' = [owned EXCEPT ![u] = @ + 1]
    /\ UNCHANGED <<core, faulted, freed, pc, call, fault>>

(* Mutants: the handle is deleted at the wrong count, early or never. *)
LastReferenceEarly == references <= 2
LastReferenceLate == references = 0

(* fetch_sub returns the count before it. *)
LastReference == references = 1

(* rp2350_hid_session_release: one atomic fetch_sub decides who deletes.   *)
Release(t) ==
    /\ pc[t] = "idle" /\ owned[t] > 0
    /\ references' = references - 1
    /\ owned' = [owned EXCEPT ![t] = @ - 1]
    /\ Go(t, IF LastReference THEN "delete" ELSE "idle")
    /\ UNCHANGED <<core, faulted, freed, call, fault>>

-------------------------------------------------------------------------------
(* call_session. *)

CallStart(t) ==
    /\ pc[t] = "idle" /\ owned[t] > 0
    /\ \E c \in Calls : call' = [call EXCEPT ![t] = c]
    /\ Go(t, "check")
    /\ UNCHANGED <<core, references, faulted, freed, owned, fault>>

(* The flag is looked at once, before the core is used. *)
CheckFaulted(t) ==
    /\ pc[t] = "check"
    /\ Go(t, IF faulted THEN "idle" ELSE call[t])
    /\ UNCHANGED <<core, references, faulted, freed, owned, call, fault>>

(* core.open(): it finds the core open or closing; it opens it; it fails   *)
(* with a TransportError; or it fails to start the heartbeat thread, which *)
(* is neither a timeout nor a transport failure.                           *)
CallOpen(t) ==
    /\ pc[t] = "open"
    /\ \/ phase # "closed" /\ Go(t, "idle") /\ UNCHANGED <<core, fault>>
       \/ epoch < MaxEpoch /\ Core!Open /\ Go(t, "idle") /\ UNCHANGED fault
       \/ epoch < MaxEpoch /\ Core!FailedOpen /\ Go(t, "idle") /\ UNCHANGED fault
       \/ /\ phase = "closed"
          /\ Go(t, "fault")
          /\ fault' = [fault EXCEPT ![t] = epoch]
          /\ UNCHANGED core
    /\ UNCHANGED <<references, faulted, freed, owned, call>>

(* A command of the core, from the reading of the generation to its end.   *)
CommandTake(t) ==
    /\ pc[t] = "command"
    /\ Core!Take(t)
    /\ Go(t, "enter")
    /\ UNCHANGED <<references, faulted, freed, owned, call, fault>>

CommandEnter(t) ==
    /\ pc[t] = "enter"
    /\ \/ Core!Enter(t) /\ Go(t, "inside")
       \/ /\ ~(phase = "open" /\ ticket[t] = epoch)
          /\ Go(t, "leave")
          /\ UNCHANGED core
    /\ UNCHANGED <<references, faulted, freed, owned, call, fault>>

(* The command succeeds or fails in some other way, or it ends with a      *)
(* TimeoutError or a TransportError.                                       *)
CommandLeave(t) ==
    /\ pc[t] = "inside"
    /\ Core!Leave(t)
    /\ \/ Go(t, "leave") /\ UNCHANGED fault
       \/ Go(t, "fault") /\ fault' = [fault EXCEPT ![t] = ticket[t]]
    /\ UNCHANGED <<references, faulted, freed, owned, call>>

CallReturn(t) ==
    /\ pc[t] = "leave"
    /\ Core!Forget(t)
    /\ fault' = [fault EXCEPT ![t] = 0]
    /\ Go(t, "idle")
    /\ UNCHANGED <<references, faulted, freed, owned, call>>

(* Mutant: the fault is recorded and the core left open. *)
FaultWithoutClose(t) ==
    /\ pc[t] = "fault"
    /\ faulted' = TRUE
    /\ Go(t, "leave")
    /\ UNCHANGED <<core, references, freed, owned, call, fault>>

(* The catch clauses: the flag first, then core.close(). *)
Fault(t) ==
    /\ pc[t] = "fault"
    /\ faulted' = TRUE
    /\ Go(t, "close")
    /\ UNCHANGED <<core, references, freed, owned, call, fault>>

-------------------------------------------------------------------------------
(* core.close(), called by a fault ("close") or by the destructor of the   *)
(* core ("delete"): it returns at once when the core is not open.          *)

CloseBegin(t) ==
    /\ pc[t] \in {"close", "delete"}
    /\ phase = "open"
    /\ Core!Drain
    /\ Go(t, IF pc[t] = "close" THEN "draining" ELSE "delete_draining")
    /\ UNCHANGED <<references, faulted, freed, owned, call, fault>>

CloseSkip(t) ==
    /\ pc[t] = "close"
    /\ phase # "open"
    /\ Go(t, "leave")
    /\ UNCHANGED <<core, references, faulted, freed, owned, call, fault>>

(* The closing thread joins the heartbeat thread. *)
CloseJoin(t) ==
    /\ pc[t] \in {"draining", "delete_draining"}
    /\ Core!Leave(Heartbeat)
    /\ UNCHANGED <<references, faulted, freed, owned, pc, call, fault>>

CloseEnd(t) ==
    /\ pc[t] \in {"draining", "delete_draining"}
    /\ Core!Shut
    /\ Go(t, IF pc[t] = "draining" THEN "leave" ELSE "delete")
    /\ UNCHANGED <<references, faulted, freed, owned, call, fault>>

(* Mutant: the destructor does not close. *)
DeleteOpen(t) ==
    /\ pc[t] = "delete"
    /\ freed' = TRUE
    /\ Go(t, "idle")
    /\ UNCHANGED <<core, references, faulted, owned, call, fault>>

(* delete session, once the destructor of the core is through. *)
Delete(t) ==
    /\ pc[t] = "delete"
    /\ phase # "open"
    /\ freed' = TRUE
    /\ Go(t, "idle")
    /\ UNCHANGED <<core, references, faulted, owned, call, fault>>

-------------------------------------------------------------------------------

CallStep(t) ==
    \/ CheckFaulted(t) \/ CallOpen(t) \/ CommandTake(t) \/ CommandEnter(t)
    \/ CommandLeave(t) \/ CallReturn(t) \/ Fault(t)
    \/ CloseBegin(t) \/ CloseSkip(t) \/ CloseJoin(t) \/ CloseEnd(t) \/ Delete(t)

Next ==
    \E t \in Threads :
        CallStart(t) \/ CallStep(t) \/ Release(t) \/ \E u \in Threads : Retain(t, u)

Spec == Init /\ [][Next]_vars

(* Calls go on; nothing obliges a thread to release its references. *)
FairSpec == Spec /\ \A t \in Threads : WF_vars(CallStep(t))

-------------------------------------------------------------------------------
(* Properties. *)

TypeOK ==
    /\ Core!TypeOK
    /\ references \in Nat
    /\ faulted \in BOOLEAN /\ freed \in BOOLEAN
    /\ owned \in [Threads -> 0..MaxOwned]
    /\ pc \in [Threads -> {"idle", "check", "open", "command", "enter",
                           "inside", "leave", "fault", "close", "draining",
                           "delete", "delete_draining"}]
    /\ call \in [Threads -> Calls]
    /\ fault \in [Threads -> Nat]

(* While a thread is anywhere inside a call, the last steps of a fault and *)
(* of close() included, the handle is neither deleted nor being deleted by *)
(* another thread, and only one thread ever deletes it.                    *)
NoUseAfterDelete ==
    \A t \in Threads :
        Using(t) =>
            /\ ~freed
            /\ \A u \in Threads \ {t} : pc[u] \notin {"delete", "delete_draining"}

(* The handle goes away only with its connection: when it has been         *)
(* deleted, its port is shut and no command or heartbeat is left inside,   *)
(* although a close() that finds another close() under way does not wait.  *)
DeletedMeansShut == freed => phase = "closed" /\ users = {}

(* When a call that ended with a timeout or a transport failure returns,   *)
(* the connection it failed on is not open any more, even if other threads *)
(* opened, faulted and closed the core meanwhile.                          *)
FaultEndsItsConnection ==
    \A t \in Threads :
        pc[t] = "leave" /\ fault[t] # 0 =>
            faulted /\ (phase = "open" => epoch > fault[t])

(* What a test says of a faulted handle: nothing is written to the port    *)
(* any more.  Once every call that began before the fault was noticed has  *)
(* returned, there is no open connection left whose heartbeat would write. *)
FaultedIsSilent ==
    faulted /\ (\A t \in Threads : ~Using(t)) => phase # "open"

(* A handle whose last reference is gone is deleted: nothing blocks the    *)
(* close() in its destructor for ever.                                     *)
ReleasedIsDeleted == references = 0 ~> freed
===============================================================================
