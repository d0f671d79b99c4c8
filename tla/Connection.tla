------------------------------ MODULE Connection ------------------------------
(***************************************************************************)
(* What HidBridgeCore promises about the lifetime of a serial connection,  *)
(* whatever locks it uses to keep the promise.  A connection has an epoch. *)
(* A user (a thread with a command in flight, or the heartbeat worker)     *)
(* first takes a ticket, may enter only an open connection of the epoch on *)
(* its ticket, and the connection is shut only when every user has left.   *)
(* BridgeCore is shown to implement this module.                           *)
(***************************************************************************)
EXTENDS Naturals

CONSTANTS
    Callers,    \* the threads that may use the connection
    Worker      \* the user that comes and goes with the connection itself

Users == Callers \cup {Worker}

VARIABLES
    phase,      \* "closed", "open" or "draining"
    epoch,      \* grows with every opening and every closing
    ticket,     \* the epoch each user last asked for, 0 for none
    users       \* the users inside

vars == <<phase, epoch, ticket, users>>

Init ==
    /\ phase = "closed"
    /\ epoch = 0
    /\ ticket = [u \in Users |-> 0]
    /\ users = {}

(* A call notes the epoch it is made in, and forgets it when it returns. *)
Take(u) ==
    /\ u \in Users \ {Worker}
    /\ u \notin users
    /\ ticket' = [ticket EXCEPT ![u] = epoch]
    /\ UNCHANGED <<phase, epoch, users>>

Forget(u) ==
    /\ u \in Users \ {Worker}
    /\ u \notin users
    /\ ticket' = [ticket EXCEPT ![u] = 0]
    /\ UNCHANGED <<phase, epoch, users>>

(* A call enters only the connection it was made for. *)
Enter(u) ==
    /\ u \in Users \ {Worker}
    /\ u \notin users
    /\ phase = "open"
    /\ ticket[u] = epoch
    /\ users' = users \cup {u}
    /\ UNCHANGED <<phase, epoch, ticket>>

(* A call may leave at any time, the worker only once draining began. *)
Leave(u) ==
    /\ u \in users
    /\ u = Worker => phase = "draining"
    /\ users' = users \ {u}
    /\ UNCHANGED <<phase, epoch, ticket>>

(* The worker starts with the connection. *)
Open ==
    /\ phase = "closed"
    /\ phase' = "open"
    /\ epoch' = epoch + 1
    /\ ticket' = [ticket EXCEPT ![Worker] = epoch + 1]
    /\ users' = users \cup {Worker}

(* An opening undone after it was numbered uses its epoch up. *)
FailedOpen ==
    /\ phase = "closed"
    /\ epoch' = epoch + 1
    /\ UNCHANGED <<phase, ticket, users>>

Drain ==
    /\ phase = "open"
    /\ phase' = "draining"
    /\ epoch' = epoch + 1
    /\ UNCHANGED <<ticket, users>>

Shut ==
    /\ phase = "draining"
    /\ users = {}
    /\ phase' = "closed"
    /\ UNCHANGED <<epoch, ticket, users>>

Next ==
    \/ \E u \in Users : Take(u) \/ Forget(u) \/ Enter(u) \/ Leave(u)
    \/ Open \/ FailedOpen \/ Drain \/ Shut

Spec == Init /\ [][Next]_vars

-------------------------------------------------------------------------------

TypeOK ==
    /\ phase \in {"closed", "open", "draining"}
    /\ epoch \in Nat
    /\ ticket \in [Users -> Nat]
    /\ users \subseteq Users

(* Every user inside holds the ticket of the connection it is inside of:   *)
(* the open one, or the one being drained, which is one epoch back.  A     *)
(* shut connection has nobody inside.  This is what close() waits for      *)
(* before it lets go of the port.                                          *)
NobodyInAnotherEpoch ==
    /\ phase = "closed" => users = {}
    /\ phase = "open" => \A u \in users : ticket[u] = epoch
    /\ phase = "draining" => \A u \in users : ticket[u] + 1 = epoch
===============================================================================
