--------------------------- MODULE Connection_proofs --------------------------
(***************************************************************************)
(* Proofs about module Connection, for any set of callers.  The argument   *)
(* has one part for the users, while the connection stays as it is, and    *)
(* one for the connection, while the users inside stay where they are or   *)
(* are none.                                                               *)
(***************************************************************************)
EXTENDS Connection, TLAPS

(* The epoch that a user inside the connection must have on its ticket.    *)
Admitting(e) ==
    \/ phase = "open" /\ e = epoch
    \/ phase = "draining" /\ e + 1 = epoch

Gate == TypeOK /\ \A u \in users : Admitting(ticket[u])

(* Gate says of each user inside what NobodyInAnotherEpoch says of each    *)
(* phase: nothing is admitted by a closed connection.                      *)
LEMMA GateMeaning == Gate <=> TypeOK /\ NobodyInAnotherEpoch
<1>1. ASSUME Gate PROVE NobodyInAnotherEpoch
  BY <1>1 DEF Gate, Admitting, NobodyInAnotherEpoch
<1>2. ASSUME TypeOK, NobodyInAnotherEpoch, NEW u \in users PROVE Admitting(ticket[u])
  BY <1>2 DEF TypeOK, Admitting, NobodyInAnotherEpoch
<1>3. QED
  BY <1>1, <1>2 DEF Gate

(* A ticket changes hands outside only, and only the open connection's     *)
(* ticket lets its holder in.                                              *)
LEMMA UsersKeepGate ==
    ASSUME Gate, NEW u \in Users, Take(u) \/ Forget(u) \/ Enter(u) \/ Leave(u)
    PROVE  Gate'
<1>1. phase' = phase /\ epoch' = epoch
  BY DEF Take, Forget, Enter, Leave
<1>2. TypeOK'
  BY <1>1 DEF Gate, TypeOK, Take, Forget, Enter, Leave
<1>3. ASSUME NEW v \in users' PROVE Admitting(ticket[v])'
  <2>1. CASE v \in users
    <3>1. ticket'[v] = ticket[v]
      BY <2>1 DEF Gate, TypeOK, Take, Forget, Enter, Leave
    <3>2. QED
      BY <1>1, <2>1, <3>1 DEF Gate, Admitting
  <2>2. CASE v \notin users
    <3>1. phase = "open" /\ ticket'[v] = epoch
      BY <1>3, <2>2 DEF Take, Forget, Enter, Leave
    <3>2. QED
      BY <1>1, <3>1 DEF Admitting
  <2>3. QED
    BY <2>1, <2>2
<1>4. QED
  BY <1>2, <1>3 DEF Gate

(* Opening finds nobody inside and lets the worker in with the new epoch;  *)
(* draining moves the epoch one on, away from everybody's ticket; the      *)
(* other two steps are taken with nobody inside.                           *)
LEMMA ConnectionKeepsGate ==
    ASSUME Gate, Open \/ FailedOpen \/ Drain \/ Shut
    PROVE  Gate'
<1>1. phase = "closed" => users = {}
  BY DEF Gate, Admitting
<1>2. TypeOK'
  BY DEF Gate, TypeOK, Users, Open, FailedOpen, Drain, Shut
<1>3. CASE Open
  <2>1. users' = {Worker} /\ ticket'[Worker] = epoch'
    BY <1>1, <1>3 DEF Gate, TypeOK, Users, Open
  <2>2. QED
    BY <1>2, <1>3, <2>1 DEF Gate, Admitting, Open
<1>4. CASE FailedOpen \/ Shut
  <2>1. users' = {}
    BY <1>1, <1>4 DEF FailedOpen, Shut
  <2>2. QED
    BY <1>2, <2>1 DEF Gate
<1>5. CASE Drain
  <2>1. \A u \in users : ticket[u] + 1 = epoch'
    BY <1>5 DEF Gate, Admitting, Drain
  <2>2. QED
    BY <1>2, <1>5, <2>1 DEF Gate, Admitting, Drain
<1>6. QED
  BY <1>3, <1>4, <1>5

LEMMA GateHolds == Spec => []Gate
<1>1. ASSUME Init PROVE Gate
  BY <1>1 DEF Init, Gate, TypeOK
<1>2. ASSUME Gate, Next PROVE Gate'
  BY <1>2, UsersKeepGate, ConnectionKeepsGate DEF Next
<1>3. ASSUME Gate, UNCHANGED vars PROVE Gate'
  BY <1>3 DEF vars, Gate, TypeOK, Admitting
<1>4. QED
  BY <1>1, <1>2, <1>3, PTL DEF Spec

(* The state of the gate stays within its type. *)
THEOREM TypeCorrect == Spec => []TypeOK
BY GateHolds, GateMeaning, PTL

(* Nobody is inside a connection other than the one of its ticket, and     *)
(* nobody is inside when the connection is shut.                           *)
THEOREM GateSafe == Spec => []NobodyInAnotherEpoch
BY GateHolds, GateMeaning, PTL
===============================================================================
