-------------------------------- MODULE Client ---------------------------------
(***************************************************************************)
(* HidSession, the C++ wrapper of the C API (client.cpp): an object owns   *)
(* at most one native handle, creates it lazily, throws the error of the   *)
(* calls that fail, and releases the handle when open() fails, when it is  *)
(* closed, assigned to or destroyed.  The C functions are those of         *)
(* c_api.cpp as one caller sees them: SessionHandle has the reference      *)
(* count, which the wrapper leaves at 1, and the steps of close().         *)
(*                                                                         *)
(* The contract of the class is modelled, not checked: commands of one     *)
(* object may come from several threads, while whoever opens, closes,      *)
(* moves or destroys it is alone with it (INTEGRATION.md, section 10), and *)
(* threads share it only once it has its handle: ensure_created takes no   *)
(* lock, and of two first commands each would make one.                    *)
(* All objects are for the same serial port, which only one may hold.      *)
(*                                                                         *)
(* A definition whose comment says "Mutant" is a faulty variant of the one *)
(* that follows it, for the mutation runs; no behaviour uses it.           *)
(***************************************************************************)
EXTENDS Naturals, FiniteSets

CONSTANTS
    Threads,            \* the application threads
    Objects,            \* the places where a HidSession may live
    Handles,            \* the addresses of native handles
    NoHandle            \* nullptr

ASSUME ClientAssumption == NoHandle \notin Handles

VARIABLES
    alive,      \* the objects that exist
    session,    \* HidSession::session_
    ported,     \* HidSession::options_ are valid: a port name, no zero, ...
    live,       \* the handles that exist
    faulted,    \* those with Rp2350HidSession::faulted
    opened,     \* those whose core is open
    lastError,  \* the thread_local last_error of c_api.cpp
    pc,         \* where each thread is in a member function
    op,         \* which one that is
    on,         \* the object it is called on
    use,        \* the handle it has passed to the C API
    outcome,    \* how the C function ended
    thrown      \* what the member function that ended last threw

objects == <<alive, session, ported>>
handles == <<live, faulted, opened>>
calls == <<pc, op, on, use, outcome, thrown>>
vars == <<objects, handles, lastError, calls>>

Failures == {"timeout", "transport", "other", "faulted", "invalid"}
Quiet == [type |-> "none", text |-> ""]

Init ==
    /\ alive = {}
    /\ session = [o \in Objects |-> NoHandle]
    /\ ported = [o \in Objects |-> FALSE]
    /\ live = {} /\ faulted = {} /\ opened = {}
    /\ lastError = [t \in Threads |-> ""]
    /\ pc = [t \in Threads |-> "idle"]
    /\ op \in [Threads -> {"command"}]
    /\ on \in [Threads -> Objects]
    /\ use = [t \in Threads |-> NoHandle]
    /\ outcome = [t \in Threads |-> "ok"]
    /\ thrown = [t \in Threads |-> Quiet]

Go(t, label) == pc' = [pc EXCEPT ![t] = label]

BusyOn(o) == {t \in Threads : pc[t] # "idle" /\ on[t] = o}

-------------------------------------------------------------------------------
(* Ownership. *)

(* Mutant: the handle goes and leaves its connection open. *)
ReleaseWithoutClose(h) ==
    /\ live' = live \ {h}
    /\ faulted' = faulted \ {h}
    /\ opened' = opened

(* rp2350_hid_session_release, for the only reference: the destructor of   *)
(* the core closes the connection.                                         *)
Release(h) ==
    /\ live' = live \ {h}
    /\ faulted' = faulted \ {h}
    /\ opened' = opened \ {h}

(* The options are taken as they are. *)
Construct(o) ==
    /\ o \notin alive
    /\ alive' = alive \cup {o}
    /\ session' = [session EXCEPT ![o] = NoHandle]
    /\ \E valid \in BOOLEAN : ported' = [ported EXCEPT ![o] = valid]
    /\ UNCHANGED <<handles, lastError, calls>>

(* close(): the object gives up its reference. *)
Close(o) ==
    /\ o \in alive /\ BusyOn(o) = {}
    /\ Release(session[o])
    /\ session' = [session EXCEPT ![o] = NoHandle]
    /\ UNCHANGED <<alive, ported, lastError, calls>>

(* The destructor closes. *)
Destroy(o) ==
    /\ o \in alive /\ BusyOn(o) = {}
    /\ Release(session[o])
    /\ alive' = alive \ {o}
    /\ session' = [session EXCEPT ![o] = NoHandle]
    /\ UNCHANGED <<ported, lastError, calls>>

(* Mutant: the pointer is copied. *)
HandOverCopy(o, p) == session' = [session EXCEPT ![o] = session[p]]

(* std::exchange(other.session_, nullptr) *)
HandOver(o, p) == session' = [session EXCEPT ![o] = session[p], ![p] = NoHandle]

(* The options are moved with it: a string that was moved from holds       *)
(* something unspecified, which may be nothing.                            *)
HandOverPort(o, p) ==
    \E left \in {ported[p], FALSE} :
        ported' = [ported EXCEPT ![o] = ported[p], ![p] = left]

MoveConstruct(o, p) ==
    /\ o \notin alive /\ p \in alive
    /\ BusyOn(p) = {}
    /\ alive' = alive \cup {o}
    /\ HandOver(o, p) /\ HandOverPort(o, p)
    /\ UNCHANGED <<handles, lastError, calls>>

(* The handle of the object assigned to is released first.  (An object     *)
(* assigned to itself stays as it is.)                                     *)
MoveAssign(o, p) ==
    /\ {o, p} \subseteq alive /\ o # p
    /\ BusyOn(o) = {} /\ BusyOn(p) = {}
    /\ Release(session[o])
    /\ HandOver(o, p) /\ HandOverPort(o, p)
    /\ UNCHANGED <<alive, lastError, calls>>

-------------------------------------------------------------------------------
(* Member functions that call the C API. *)

(* open() is called by a thread alone with the object; a command and       *)
(* is_open() may join other commands once the handle is there.             *)
Call(t, o, what) ==
    /\ pc[t] = "idle" /\ o \in alive
    /\ BusyOn(o) # {} =>
          /\ what # "open"
          /\ \A u \in BusyOn(o) : op[u] # "open"
          /\ session[o] # NoHandle
    /\ Go(t, IF what = "is_open" THEN "pass" ELSE "ensure")
    /\ op' = [op EXCEPT ![t] = what]
    /\ on' = [on EXCEPT ![t] = o]
    /\ use' = [use EXCEPT ![t] = NoHandle]
    /\ outcome' = [outcome EXCEPT ![t] = "ok"]
    /\ thrown' = [thrown EXCEPT ![t] = Quiet]
    /\ UNCHANGED <<objects, handles, lastError>>

(* ensure_created looks at session_, ... *)
EnsureCreated(t) ==
    /\ pc[t] = "ensure"
    /\ Go(t, IF session[on[t]] = NoHandle THEN "create" ELSE "pass")
    /\ UNCHANGED <<objects, handles, lastError, op, on, use, outcome, thrown>>

(* Mutant: one last_error for all threads. *)
SetErrorOfAll(t, text) == lastError' = [u \in Threads |-> text]

(* call_api clears last_error, and sets it when the function throws. *)
SetError(t, text) == lastError' = [lastError EXCEPT ![t] = text]

(* ... rp2350_hid_session_create refuses invalid options or makes a        *)
(* handle, ...                                                             *)
Create(t) ==
    /\ pc[t] = "create"
    /\ \/ /\ ported[on[t]]
          /\ \E h \in Handles \ live :
                live' = live \cup {h} /\ use' = [use EXCEPT ![t] = h]
          /\ SetError(t, "")
          /\ Go(t, "store")
          /\ UNCHANGED outcome
       \/ /\ ~ported[on[t]]
          /\ SetError(t, "invalid")
          /\ outcome' = [outcome EXCEPT ![t] = "invalid"]
          /\ Go(t, "status")
          /\ UNCHANGED <<live, use>>
    /\ UNCHANGED <<objects, faulted, opened, op, on, thrown>>

(* ... which session_ then points to. *)
Store(t) ==
    /\ pc[t] = "store"
    /\ session' = [session EXCEPT ![on[t]] = use[t]]
    /\ Go(t, "pass")
    /\ UNCHANGED <<alive, ported, handles, lastError, op, on, use, outcome, thrown>>

(* session_ is passed to the C function; is_open() calls none without it. *)
Pass(t) ==
    /\ pc[t] = "pass"
    /\ use' = [use EXCEPT ![t] = session[on[t]]]
    /\ Go(t, IF session[on[t]] = NoHandle THEN "idle" ELSE "invoke")
    /\ UNCHANGED <<objects, handles, lastError, op, on, outcome, thrown>>

(* call_session looks at the faulted flag. *)
Invoke(t) ==
    /\ pc[t] = "invoke"
    /\ IF use[t] \in faulted
       THEN /\ SetError(t, "faulted")
            /\ outcome' = [outcome EXCEPT ![t] = "faulted"]
            /\ Go(t, "returned")
       ELSE /\ SetError(t, "")
            /\ Go(t, "run")
            /\ UNCHANGED outcome
    /\ UNCHANGED <<objects, handles, op, on, use, thrown>>

(* How the core may end the call: commands of a core that is not open      *)
(* fail, and so does open() while another handle has the port.             *)
Outcomes(t) ==
    CASE op[t] = "is_open" -> {"ok"}
      [] op[t] = "command" ->
            IF use[t] \in opened THEN {"ok", "timeout", "transport", "other"} ELSE {"other"}
      [] op[t] = "open" ->
            IF use[t] \in opened THEN {"ok"}
            ELSE IF opened = {} THEN {"ok", "transport", "other"} ELSE {"transport"}

Run(t) ==
    /\ pc[t] = "run"
    /\ \E result \in Outcomes(t) :
          /\ outcome' = [outcome EXCEPT ![t] = result]
          /\ opened' = IF op[t] = "open" /\ result = "ok" THEN opened \cup {use[t]} ELSE opened
          /\ Go(t, IF result \in {"timeout", "transport"} THEN "fault" ELSE "end")
    /\ UNCHANGED <<objects, live, faulted, lastError, op, on, use, thrown>>

(* Mutant: only the flag is set. *)
FaultOnly(t) ==
    /\ pc[t] = "fault"
    /\ faulted' = faulted \cup {use[t]}
    /\ Go(t, "end")
    /\ UNCHANGED <<objects, live, opened, lastError, op, on, use, outcome, thrown>>

(* The catch clauses of call_session: the flag, then core.close(). *)
Fault(t) ==
    /\ pc[t] = "fault"
    /\ faulted' = faulted \cup {use[t]}
    /\ Go(t, "shut")
    /\ UNCHANGED <<objects, live, opened, lastError, op, on, use, outcome, thrown>>

Shut(t) ==
    /\ pc[t] = "shut"
    /\ opened' = opened \ {use[t]}
    /\ Go(t, "end")
    /\ UNCHANGED <<objects, live, faulted, lastError, op, on, use, outcome, thrown>>

(* call_api turns what was thrown into a status and a text. *)
End(t) ==
    /\ pc[t] = "end"
    /\ IF outcome[t] = "ok" THEN UNCHANGED lastError ELSE SetError(t, outcome[t])
    /\ Go(t, "returned")
    /\ UNCHANGED <<objects, handles, op, on, use, outcome, thrown>>

(* A failed open() lets go of the handle before it looks at the error. *)
Returned(t) ==
    /\ pc[t] = "returned"
    /\ IF op[t] = "open" /\ outcome[t] # "ok"
       THEN Release(session[on[t]]) /\ session' = [session EXCEPT ![on[t]] = NoHandle]
       ELSE UNCHANGED <<handles, session>>
    /\ Go(t, "status")
    /\ UNCHANGED <<alive, ported, lastError, op, on, use, outcome, thrown>>

(* check_status: the text comes from rp2350_hid_last_error. *)
CheckStatus(t) ==
    /\ pc[t] = "status"
    /\ thrown' = [thrown EXCEPT ![t] =
          CASE outcome[t] = "ok" -> Quiet
            [] outcome[t] = "timeout" -> [type |-> "TimeoutError", text |-> lastError[t]]
            [] OTHER -> [type |-> "runtime_error", text |-> lastError[t]]]
    /\ Go(t, "idle")
    /\ UNCHANGED <<objects, handles, lastError, op, on, use, outcome>>

-------------------------------------------------------------------------------

MemberStep(t) ==
    \/ EnsureCreated(t) \/ Create(t) \/ Store(t) \/ Pass(t)
    \/ Invoke(t) \/ Run(t) \/ Fault(t) \/ Shut(t) \/ End(t)
    \/ Returned(t) \/ CheckStatus(t)

Next ==
    \/ \E o \in Objects : Construct(o) \/ Close(o) \/ Destroy(o)
    \/ \E o, p \in Objects : MoveConstruct(o, p) \/ MoveAssign(o, p)
    \/ \E t \in Threads, o \in Objects, what \in {"open", "command", "is_open"} : Call(t, o, what)
    \/ \E t \in Threads : MemberStep(t)

Spec == Init /\ [][Next]_vars

-------------------------------------------------------------------------------

TypeOK ==
    /\ alive \subseteq Objects
    /\ session \in [Objects -> Handles \cup {NoHandle}]
    /\ ported \in [Objects -> BOOLEAN]
    /\ live \subseteq Handles /\ faulted \subseteq live /\ opened \subseteq live
    /\ lastError \in [Threads -> Failures \cup {""}]
    /\ pc \in [Threads -> {"idle", "ensure", "create", "store", "pass", "invoke", "run",
                           "fault", "shut", "end", "returned", "status"}]
    /\ op \in [Threads -> {"open", "command", "is_open"}]
    /\ on \in [Threads -> Objects]
    /\ use \in [Threads -> Handles \cup {NoHandle}]
    /\ outcome \in [Threads -> Failures \cup {"ok"}]
    /\ thrown \in [Threads -> [type : {"none", "TimeoutError", "runtime_error"},
                               text : Failures \cup {""}]]

(* Who keeps the handle h: the objects that point to it, and the threads   *)
(* that have created it and not stored it yet.                             *)
Keepers(h) ==
    {o \in Objects : session[o] = h} \cup {t \in Threads : pc[t] = "store" /\ use[t] = h}

(* Across lazy creation, moves, failed openings and concurrent commands, a *)
(* handle that exists has exactly one owner, so that it is neither leaked, *)
(* and the port with it, nor deleted twice, and nobody points to a handle  *)
(* that is gone or is inside a call on it.                                 *)
HandleHasOneOwner ==
    /\ \A h \in live : Cardinality(Keepers(h)) = 1
    /\ \A h \in Handles \ live : Keepers(h) = {}
    /\ \A t \in Threads :
          pc[t] \in {"invoke", "run", "fault", "shut", "end", "returned"} => use[t] \in live

(* The exception that a member function throws carries the text of the     *)
(* failure of its own call to the C API: not that of another thread, and   *)
(* not one that the clean-up in open() has overwritten.                    *)
ErrorIsOwn ==
    \A t \in Threads : thrown[t] # Quiet => thrown[t].text = outcome[t]

(* A handle that is faulted is not open, except while the thread that      *)
(* noted the fault has yet to close it.  (SessionHandle does not have this *)
(* for handles shared by calls of open(): the wrapper opens alone.)        *)
FaultedIsShut ==
    \A h \in faulted \cap opened : \E t \in Threads : pc[t] = "shut" /\ use[t] = h
===============================================================================
