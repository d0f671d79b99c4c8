------------------------- MODULE SessionHandle_proofs -------------------------
(***************************************************************************)
(* Proofs about module SessionHandle, for any set of threads, any bound on *)
(* the references a thread owns and any number of connections.             *)
(*                                                                         *)
(* The reference count is related to the references that the threads own   *)
(* by counting tokens: a thread that owns n of them holds the tokens 1..n. *)
(* Inv is inductive; one lemma per group of operations shows that its      *)
(* steps preserve Inv, and the theorems read the properties off Inv.       *)
(***************************************************************************)
EXTENDS SessionHandle, FiniteSetTheorems, TLAPS

Tokens == {p \in Threads \X (1..MaxOwned) : p[2] <= owned[p[1]]}

(* references is how many references there are. *)
CountsOwned == IsFiniteSet(Tokens) /\ references = Cardinality(Tokens)

Deleting == {"delete", "delete_draining"}

(* Inside a call a thread keeps the reference it made the call with. *)
UsersOwn ==
    \A t \in Threads : pc[t] \notin Deleting \cup {"idle"} => owned[t] > 0

(* Whoever deletes the handle has released the last reference, and every   *)
(* other thread is outside of the API.                                     *)
DeleterAlone ==
    \A t \in Threads :
        pc[t] \in Deleting =>
            /\ references = 0 /\ ~freed
            /\ \A u \in Threads \ {t} : pc[u] = "idle"

FreedIsOver ==
    freed => /\ references = 0
             /\ \A t \in Threads : pc[t] = "idle"
             /\ phase = "closed" /\ users = {}

(* The commands inside the core are those of the calls at "inside", and    *)
(* the core is draining only while a thread is in close().                 *)
CoreIsUsed ==
    /\ \A t \in Threads : t \in users <=> pc[t] = "inside"
    /\ phase = "draining" =>
          \E t \in Threads : pc[t] \in {"draining", "delete_draining"}

(* A fault is noted for a connection of the past or the present, by a call *)
(* that has yet to return; once its close() has begun, that connection is  *)
(* not the open one.                                                       *)
FaultsEnd ==
    \A t \in Threads :
        /\ fault[t] <= epoch
        /\ fault[t] # 0 => pc[t] \in {"fault", "close", "draining", "leave"}
        /\ pc[t] \in {"draining", "leave"} /\ fault[t] # 0 /\ phase = "open" => epoch > fault[t]
        /\ pc[t] \in {"close", "draining"} => faulted
        /\ pc[t] = "leave" /\ fault[t] # 0 => faulted

Inv ==
    /\ TypeOK /\ Core!NobodyInAnotherEpoch
    /\ CountsOwned /\ UsersOwn /\ DeleterAlone /\ FreedIsOver
    /\ CoreIsUsed /\ FaultsEnd

USE HandleAssumption DEF HandleAssumption, Go, Using, Calls, Deleting

(* The count is 0 only when no thread owns a reference, and 1 only when    *)
(* one thread owns one.                                                    *)
LEMMA CountZero ==
    TypeOK /\ CountsOwned /\ references = 0 => \A t \in Threads : owned[t] = 0
<1> SUFFICES ASSUME TypeOK, CountsOwned, references = 0
             PROVE  \A t \in Threads : owned[t] = 0
  OBVIOUS
<1>1. Tokens = {}
  BY FS_EmptySet DEF CountsOwned
<1>2. ASSUME NEW t \in Threads, owned[t] # 0 PROVE FALSE
  <2>1. owned[t] \in 1..MaxOwned
    BY <1>2 DEF TypeOK
  <2>2. <<t, 1>> \in Tokens
    BY <2>1 DEF Tokens
  <2>3. QED
    BY <1>1, <2>2
<1>3. QED
  BY <1>2

LEMMA CountZeroNext ==
    (TypeOK /\ CountsOwned /\ references = 0 => \A t \in Threads : owned[t] = 0)'
BY CountZero, PTL

LEMMA CountPositive ==
    ASSUME TypeOK, CountsOwned, NEW t \in Threads, owned[t] > 0
    PROVE  references > 0
BY CountZero DEF TypeOK

(* A token is added to those of the thread that is given a reference, and  *)
(* taken from those of the thread that releases one.                       *)
LEMMA RetainCounts ==
    ASSUME TypeOK, CountsOwned, NEW t \in Threads, NEW u \in Threads, Retain(t, u)
    PROVE  CountsOwned'
<1> DEFINE new == <<u, owned[u] + 1>>
<1>1. new \notin Tokens
  BY DEF Tokens, TypeOK
<1>2. owned' = [owned EXCEPT ![u] = owned[u] + 1] /\ owned[u] < MaxOwned
  BY DEF Retain
<1>3. ASSUME NEW p \in Threads \X (1..MaxOwned)
      PROVE  p[2] <= owned'[p[1]] <=> p[2] <= owned[p[1]] \/ p = new
  <2>1. PICK v \in Threads, n \in 1..MaxOwned : p = <<v, n>>
    BY <1>3
  <2>2. CASE v = u
    BY <2>1, <2>2, <1>2 DEF TypeOK
  <2>3. CASE v # u
    BY <2>1, <2>3, <1>2 DEF TypeOK
  <2>4. QED
    BY <2>2, <2>3
<1>4. new \in Threads \X (1..MaxOwned)
  BY <1>2 DEF TypeOK
<1>5. Tokens' = Tokens \cup {new}
  BY <1>3, <1>4 DEF Tokens
<1>6. IsFiniteSet(Tokens') /\ Cardinality(Tokens') = Cardinality(Tokens) + 1
  BY <1>1, <1>5, FS_AddElement DEF CountsOwned
<1>7. QED
  BY <1>6 DEF CountsOwned, Retain

LEMMA ReleaseCounts ==
    ASSUME TypeOK, CountsOwned, NEW t \in Threads, Release(t)
    PROVE  CountsOwned'
<1> DEFINE old == <<t, owned[t]>>
<1>1. old \in Tokens
  BY DEF Tokens, TypeOK, Release
<1>2. owned' = [owned EXCEPT ![t] = owned[t] - 1] /\ owned[t] > 0
  BY DEF Release
<1>3. ASSUME NEW p \in Threads \X (1..MaxOwned)
      PROVE  p[2] <= owned'[p[1]] <=> p[2] <= owned[p[1]] /\ p # old
  <2>1. PICK v \in Threads, n \in 1..MaxOwned : p = <<v, n>>
    BY <1>3
  <2>2. CASE v = t
    BY <2>1, <2>2, <1>2 DEF TypeOK
  <2>3. CASE v # t
    BY <2>1, <2>3, <1>2 DEF TypeOK
  <2>4. QED
    BY <2>2, <2>3
<1>4. Tokens' = Tokens \ {old}
  BY <1>3 DEF Tokens
<1>5. IsFiniteSet(Tokens') /\ Cardinality(Tokens') = Cardinality(Tokens) - 1
  BY <1>1, <1>4, FS_RemoveElement DEF CountsOwned
<1>6. QED
  BY <1>5 DEF CountsOwned, Release

(* One token to begin with. *)
LEMMA InitCounts == Init => TypeOK /\ CountsOwned
<1> SUFFICES ASSUME Init PROVE TypeOK /\ CountsOwned
  OBVIOUS
<1>1. PICK creator \in Threads :
          owned = [t \in Threads |-> IF t = creator THEN 1 ELSE 0]
  BY DEF Init
<1>2. TypeOK
  <2>1. Core!TypeOK
    BY DEF Init, Core!Init, Core!TypeOK
  <2>2. references \in Nat /\ faulted \in BOOLEAN /\ freed \in BOOLEAN
    BY DEF Init
  <2>3. owned \in [Threads -> 0..MaxOwned]
    BY <1>1
  <2>4. QED
    BY <2>1, <2>2, <2>3 DEF Init, TypeOK
<1>3. Tokens = {<<creator, 1>>}
  <2>1. ASSUME NEW p \in Threads \X (1..MaxOwned)
        PROVE  p[2] <= owned[p[1]] <=> p = <<creator, 1>>
    <3>1. PICK v \in Threads, n \in 1..MaxOwned : p = <<v, n>>
      BY <2>1
    <3>2. QED
      BY <3>1, <1>1
  <2>2. <<creator, 1>> \in Threads \X (1..MaxOwned)
    OBVIOUS
  <2>3. QED
    BY <2>1, <2>2 DEF Tokens
<1>4. IsFiniteSet(Tokens) /\ Cardinality(Tokens) = 1
  BY <1>3, FS_Singleton
<1>5. QED
  BY <1>2, <1>4 DEF Init, CountsOwned

(* A step that moves no reference keeps the count right. *)
LEMMA SameCounts ==
    ASSUME CountsOwned, UNCHANGED <<references, owned>>
    PROVE  CountsOwned'
BY DEF CountsOwned, Tokens

(* The initial state satisfies Inv. *)
LEMMA InitInv == Init => Inv
<1> SUFFICES ASSUME Init PROVE Inv
  OBVIOUS
<1>1. TypeOK /\ CountsOwned
  BY InitCounts
<1>2. Core!NobodyInAnotherEpoch
  BY DEF Init, Core!Init, Core!NobodyInAnotherEpoch
<1>3. UsersOwn /\ DeleterAlone /\ FreedIsOver
  BY DEF Init, UsersOwn, DeleterAlone, FreedIsOver
<1>4. CoreIsUsed /\ FaultsEnd
  BY DEF Init, Core!Init, CoreIsUsed, FaultsEnd
<1>5. QED
  BY <1>1, <1>2, <1>3, <1>4 DEF Inv

(* Retaining and releasing preserve Inv: a thread that releases the last   *)
(* reference is the only one in the API.                                   *)
LEMMA ReferencesPreserveInv ==
    ASSUME Inv, NEW t \in Threads,
           Release(t) \/ \E u \in Threads : Retain(t, u)
    PROVE  Inv'
<1> USE DEF Inv, TypeOK, UsersOwn, DeleterAlone, FreedIsOver, CoreIsUsed, FaultsEnd,
         core, Core!TypeOK, Core!NobodyInAnotherEpoch, Core!Users
<1>1. ASSUME NEW u \in Threads, Retain(t, u) PROVE Inv'
  <2>1. TypeOK' /\ Core!NobodyInAnotherEpoch'
    BY <1>1 DEF Retain
  <2>2. CountsOwned'
    BY <1>1, RetainCounts
  <2>3. references > 0
    BY <1>1, CountPositive DEF Retain
  <2>4. UsersOwn' /\ DeleterAlone' /\ FreedIsOver'
    BY <1>1, <2>3 DEF Retain
  <2>5. CoreIsUsed' /\ FaultsEnd'
    BY <1>1 DEF Retain
  <2>6. QED
    BY <2>1, <2>2, <2>4, <2>5
<1>2. CASE Release(t)
  <2>1. references > 0
    BY <1>2, CountPositive DEF Release
  <2>2. TypeOK' /\ Core!NobodyInAnotherEpoch'
    BY <1>2, <2>1 DEF Release
  <2>3. CountsOwned'
    BY <1>2, ReleaseCounts
  <2>4. references' = 0 => \A u \in Threads : owned'[u] = 0
    BY <2>2, <2>3, CountZeroNext
  <2>5. UsersOwn'
    BY <1>2 DEF Release
  <2>6. DeleterAlone' /\ FreedIsOver'
    BY <1>2, <2>1, <2>2, <2>4, <2>5 DEF Release, LastReference
  <2>7. CoreIsUsed' /\ FaultsEnd'
    BY <1>2 DEF Release
  <2>8. QED
    BY <2>2, <2>3, <2>5, <2>6, <2>7
<1>3. QED
  BY <1>1, <1>2

(* Beginning a call, looking at the flag and open() preserve Inv. *)
LEMMA CallPreservesInv ==
    ASSUME Inv, NEW t \in Threads,
           CallStart(t) \/ CheckFaulted(t) \/ CallOpen(t)
    PROVE  Inv'
<1> USE DEF Inv, TypeOK, UsersOwn, DeleterAlone, FreedIsOver, CoreIsUsed, FaultsEnd,
         core, Core!TypeOK, Core!NobodyInAnotherEpoch, Core!Users
<1>1. CASE CallStart(t)
  <2>1. TypeOK'
    BY <1>1 DEF CallStart
  <2>2. Core!NobodyInAnotherEpoch'
    BY <1>1 DEF CallStart
  <2>3. CountsOwned'
    BY <1>1, SameCounts DEF CallStart
  <2>4. UsersOwn' /\ DeleterAlone' /\ FreedIsOver'
    BY <1>1, CountPositive DEF CallStart
  <2>5. CoreIsUsed'
    BY <1>1 DEF CallStart
  <2>6. FaultsEnd'
    BY <1>1 DEF CallStart
  <2>7. QED
    BY <2>1, <2>2, <2>3, <2>4, <2>5, <2>6
<1>2. CASE CheckFaulted(t)
  <2>1. TypeOK'
    BY <1>2 DEF CheckFaulted
  <2>2. Core!NobodyInAnotherEpoch'
    BY <1>2 DEF CheckFaulted
  <2>3. CountsOwned'
    BY <1>2, SameCounts DEF CheckFaulted
  <2>4. UsersOwn' /\ DeleterAlone' /\ FreedIsOver'
    BY <1>2 DEF CheckFaulted
  <2>5. CoreIsUsed'
    BY <1>2 DEF CheckFaulted
  <2>6. FaultsEnd'
    BY <1>2 DEF CheckFaulted
  <2>7. QED
    BY <2>1, <2>2, <2>3, <2>4, <2>5, <2>6
<1>3. CASE CallOpen(t)
  <2>1. TypeOK'
    BY <1>3 DEF CallOpen, Core!Open, Core!FailedOpen
  <2>2. Core!NobodyInAnotherEpoch'
    BY <1>3 DEF CallOpen, Core!Open, Core!FailedOpen
  <2>3. CountsOwned'
    BY <1>3, SameCounts DEF CallOpen
  <2>4. UsersOwn' /\ DeleterAlone' /\ FreedIsOver'
    BY <1>3 DEF CallOpen, Core!Open, Core!FailedOpen
  <2>5. CoreIsUsed'
    BY <1>3 DEF CallOpen, Core!Open, Core!FailedOpen
  <2>6. FaultsEnd'
    BY <1>3 DEF CallOpen, Core!Open, Core!FailedOpen
  <2>7. QED
    BY <2>1, <2>2, <2>3, <2>4, <2>5, <2>6
<1>4. QED
  BY <1>1, <1>2, <1>3

(* The steps of a command preserve Inv. *)
LEMMA CommandPreservesInv ==
    ASSUME Inv, NEW t \in Threads,
           \/ CommandTake(t) \/ CommandEnter(t)
           \/ CommandLeave(t) \/ CallReturn(t)
    PROVE  Inv'
<1> USE DEF Inv, TypeOK, UsersOwn, DeleterAlone, FreedIsOver, CoreIsUsed, FaultsEnd,
         core, Core!TypeOK, Core!NobodyInAnotherEpoch, Core!Users
<1>1. CASE CommandTake(t)
  <2>1. TypeOK'
    BY <1>1 DEF CommandTake, Core!Take
  <2>2. Core!NobodyInAnotherEpoch'
    BY <1>1 DEF CommandTake, Core!Take
  <2>3. CountsOwned'
    BY <1>1, SameCounts DEF CommandTake
  <2>4. UsersOwn' /\ DeleterAlone' /\ FreedIsOver'
    BY <1>1 DEF CommandTake, Core!Take
  <2>5. CoreIsUsed'
    BY <1>1 DEF CommandTake, Core!Take
  <2>6. FaultsEnd'
    BY <1>1 DEF CommandTake, Core!Take
  <2>7. QED
    BY <2>1, <2>2, <2>3, <2>4, <2>5, <2>6
<1>2. CASE CommandEnter(t)
  <2>1. TypeOK'
    BY <1>2 DEF CommandEnter, Core!Enter
  <2>2. Core!NobodyInAnotherEpoch'
    BY <1>2 DEF CommandEnter, Core!Enter
  <2>3. CountsOwned'
    BY <1>2, SameCounts DEF CommandEnter
  <2>4. UsersOwn' /\ DeleterAlone' /\ FreedIsOver'
    BY <1>2 DEF CommandEnter, Core!Enter
  <2>5. CoreIsUsed'
    BY <1>2 DEF CommandEnter, Core!Enter
  <2>6. FaultsEnd'
    BY <1>2 DEF CommandEnter, Core!Enter
  <2>7. QED
    BY <2>1, <2>2, <2>3, <2>4, <2>5, <2>6
<1>3. CASE CommandLeave(t)
  <2>1. TypeOK'
    BY <1>3 DEF CommandLeave, Core!Leave
  <2>2. Core!NobodyInAnotherEpoch'
    BY <1>3 DEF CommandLeave, Core!Leave
  <2>3. CountsOwned'
    BY <1>3, SameCounts DEF CommandLeave
  <2>4. UsersOwn' /\ DeleterAlone' /\ FreedIsOver'
    BY <1>3 DEF CommandLeave, Core!Leave
  <2>5. CoreIsUsed'
    BY <1>3 DEF CommandLeave, Core!Leave
  <2>6. FaultsEnd'
    BY <1>3 DEF CommandLeave, Core!Leave
  <2>7. QED
    BY <2>1, <2>2, <2>3, <2>4, <2>5, <2>6
<1>4. CASE CallReturn(t)
  <2>1. TypeOK'
    BY <1>4 DEF CallReturn, Core!Forget
  <2>2. Core!NobodyInAnotherEpoch'
    BY <1>4 DEF CallReturn, Core!Forget
  <2>3. CountsOwned'
    BY <1>4, SameCounts DEF CallReturn
  <2>4. UsersOwn' /\ DeleterAlone' /\ FreedIsOver'
    BY <1>4 DEF CallReturn, Core!Forget
  <2>5. CoreIsUsed'
    BY <1>4 DEF CallReturn, Core!Forget
  <2>6. FaultsEnd'
    BY <1>4 DEF CallReturn, Core!Forget
  <2>7. QED
    BY <2>1, <2>2, <2>3, <2>4, <2>5, <2>6
<1>5. QED
  BY <1>1, <1>2, <1>3, <1>4

(* Noting a fault, and the steps of close(), preserve Inv. *)
LEMMA ClosePreservesInv ==
    ASSUME Inv, NEW t \in Threads,
           \/ Fault(t) \/ CloseBegin(t) \/ CloseSkip(t)
           \/ CloseJoin(t) \/ CloseEnd(t)
    PROVE  Inv'
<1> USE DEF Inv, TypeOK, UsersOwn, DeleterAlone, FreedIsOver, CoreIsUsed, FaultsEnd,
         core, Core!TypeOK, Core!NobodyInAnotherEpoch, Core!Users
<1>1. CASE Fault(t)
  <2>1. TypeOK'
    BY <1>1 DEF Fault
  <2>2. Core!NobodyInAnotherEpoch'
    BY <1>1 DEF Fault
  <2>3. CountsOwned'
    BY <1>1, SameCounts DEF Fault
  <2>4. UsersOwn' /\ DeleterAlone' /\ FreedIsOver'
    BY <1>1 DEF Fault
  <2>5. CoreIsUsed'
    BY <1>1 DEF Fault
  <2>6. FaultsEnd'
    BY <1>1 DEF Fault
  <2>7. QED
    BY <2>1, <2>2, <2>3, <2>4, <2>5, <2>6
<1>2. CASE CloseBegin(t)
  <2>1. TypeOK'
    BY <1>2 DEF CloseBegin, Core!Drain
  <2>2. Core!NobodyInAnotherEpoch'
    BY <1>2 DEF CloseBegin, Core!Drain
  <2>3. CountsOwned'
    BY <1>2, SameCounts DEF CloseBegin
  <2>4. UsersOwn' /\ DeleterAlone' /\ FreedIsOver'
    BY <1>2 DEF CloseBegin, Core!Drain
  <2>5. CoreIsUsed'
    BY <1>2 DEF CloseBegin, Core!Drain
  <2>6. FaultsEnd'
    BY <1>2 DEF CloseBegin, Core!Drain
  <2>7. QED
    BY <2>1, <2>2, <2>3, <2>4, <2>5, <2>6
<1>3. CASE CloseSkip(t)
  <2>1. TypeOK'
    BY <1>3 DEF CloseSkip
  <2>2. Core!NobodyInAnotherEpoch'
    BY <1>3 DEF CloseSkip
  <2>3. CountsOwned'
    BY <1>3, SameCounts DEF CloseSkip
  <2>4. UsersOwn' /\ DeleterAlone' /\ FreedIsOver'
    BY <1>3 DEF CloseSkip
  <2>5. CoreIsUsed'
    BY <1>3 DEF CloseSkip
  <2>6. FaultsEnd'
    BY <1>3 DEF CloseSkip
  <2>7. QED
    BY <2>1, <2>2, <2>3, <2>4, <2>5, <2>6
<1>4. CASE CloseJoin(t)
  <2>1. TypeOK'
    BY <1>4 DEF CloseJoin, Core!Leave
  <2>2. Core!NobodyInAnotherEpoch'
    BY <1>4 DEF CloseJoin, Core!Leave
  <2>3. CountsOwned'
    BY <1>4, SameCounts DEF CloseJoin
  <2>4. UsersOwn' /\ DeleterAlone' /\ FreedIsOver'
    BY <1>4 DEF CloseJoin, Core!Leave
  <2>5. CoreIsUsed'
    BY <1>4 DEF CloseJoin, Core!Leave
  <2>6. FaultsEnd'
    BY <1>4 DEF CloseJoin, Core!Leave
  <2>7. QED
    BY <2>1, <2>2, <2>3, <2>4, <2>5, <2>6
<1>5. CASE CloseEnd(t)
  <2>1. TypeOK'
    BY <1>5 DEF CloseEnd, Core!Shut
  <2>2. Core!NobodyInAnotherEpoch'
    BY <1>5 DEF CloseEnd, Core!Shut
  <2>3. CountsOwned'
    BY <1>5, SameCounts DEF CloseEnd
  <2>4. UsersOwn' /\ DeleterAlone' /\ FreedIsOver'
    BY <1>5 DEF CloseEnd, Core!Shut
  <2>5. CoreIsUsed'
    BY <1>5 DEF CloseEnd, Core!Shut
  <2>6. FaultsEnd'
    BY <1>5 DEF CloseEnd, Core!Shut
  <2>7. QED
    BY <2>1, <2>2, <2>3, <2>4, <2>5, <2>6
<1>6. QED
  BY <1>1, <1>2, <1>3, <1>4, <1>5

(* Deleting the handle preserves Inv: nobody else is in close(), so that a *)
(* core that is not open is shut.                                          *)
LEMMA DeletePreservesInv ==
    ASSUME Inv, NEW t \in Threads,
           Delete(t)
    PROVE  Inv'
<1> USE DEF Inv, TypeOK, UsersOwn, DeleterAlone, FreedIsOver, CoreIsUsed, FaultsEnd,
         core, Core!TypeOK, Core!NobodyInAnotherEpoch, Core!Users
<1>1. CASE Delete(t)
  <2>1. TypeOK'
    BY <1>1 DEF Delete
  <2>2. Core!NobodyInAnotherEpoch'
    BY <1>1 DEF Delete
  <2>3. CountsOwned'
    BY <1>1, SameCounts DEF Delete
  <2>4. UsersOwn' /\ DeleterAlone' /\ FreedIsOver'
    BY <1>1 DEF Delete
  <2>5. CoreIsUsed'
    BY <1>1 DEF Delete
  <2>6. FaultsEnd'
    BY <1>1 DEF Delete
  <2>7. QED
    BY <2>1, <2>2, <2>3, <2>4, <2>5, <2>6
<1>2. QED
  BY <1>1

(* Every reachable state satisfies Inv. *)
THEOREM InvHolds == Spec => []Inv
<1>1. Inv /\ [Next]_vars => Inv'
  <2> SUFFICES ASSUME Inv, [Next]_vars PROVE Inv'
    OBVIOUS
  <2>1. ASSUME NEW t \in Threads, CallStart(t) \/ CallStep(t) PROVE Inv'
    BY <2>1, CallPreservesInv, CommandPreservesInv, ClosePreservesInv,
       DeletePreservesInv DEF CallStep
  <2>2. ASSUME NEW t \in Threads, Release(t) \/ \E u \in Threads : Retain(t, u)
        PROVE  Inv'
    BY <2>2, ReferencesPreserveInv
  <2>3. CASE UNCHANGED vars
    <3>1. TypeOK' /\ Core!NobodyInAnotherEpoch'
      BY <2>3 DEF vars, core, Inv, TypeOK, Core!TypeOK, Core!NobodyInAnotherEpoch
    <3>2. CountsOwned'
      BY <2>3, SameCounts DEF vars, Inv
    <3>3. UsersOwn' /\ DeleterAlone' /\ FreedIsOver' /\ CoreIsUsed' /\ FaultsEnd'
      BY <2>3 DEF vars, core, Inv, UsersOwn, DeleterAlone, FreedIsOver,
                  CoreIsUsed, FaultsEnd
    <3>4. QED
      BY <3>1, <3>2, <3>3 DEF Inv
  <2>4. QED
    BY <2>1, <2>2, <2>3 DEF Next
<1>2. QED
  BY InitInv, <1>1, PTL DEF Spec

(* The state of the handle, its core and its callers stays within its      *)
(* type; in particular the count of references never goes below zero.      *)
THEOREM TypeCorrect == Spec => []TypeOK
<1>1. Inv => TypeOK
  BY DEF Inv
<1>2. QED
  BY InvHolds, <1>1, PTL

(* While a thread is inside a call of the API, the handle is neither       *)
(* deleted nor being deleted by another thread.                            *)
THEOREM HandleOutlivesCalls == Spec => []NoUseAfterDelete
<1>1. Inv => NoUseAfterDelete
  BY DEF Inv, FreedIsOver, DeleterAlone, NoUseAfterDelete
<1>2. QED
  BY InvHolds, <1>1, PTL

(* A deleted handle leaves its port shut, and nobody inside. *)
THEOREM DeleteShuts == Spec => []DeletedMeansShut
<1>1. Inv => DeletedMeansShut
  BY DEF Inv, FreedIsOver, DeletedMeansShut
<1>2. QED
  BY InvHolds, <1>1, PTL

(* When a call that failed with a timeout or a transport failure returns,  *)
(* the flag is set and the connection it failed on is not the open one.    *)
THEOREM FaultIsFinal == Spec => []FaultEndsItsConnection
<1>1. Inv => FaultEndsItsConnection
  BY DEF Inv, FaultsEnd, FaultEndsItsConnection
<1>2. QED
  BY InvHolds, <1>1, PTL

(* Nothing happens to a handle that was deleted: no call is under way and  *)
(* nobody owns a reference to begin another one with.                      *)
THEOREM NothingAfterDelete == Spec => [][~freed]_vars
<1>1. Inv /\ Next => ~freed
  <2> SUFFICES ASSUME Inv, Next, freed PROVE FALSE
    OBVIOUS
  <2>1. PICK t \in Threads :
            CallStart(t) \/ CallStep(t) \/ Release(t) \/ \E u \in Threads : Retain(t, u)
    BY DEF Next
  <2>2. pc[t] = "idle" /\ owned[t] = 0
    BY CountZero DEF Inv, FreedIsOver
  <2>3. CASE CallStart(t) \/ Release(t) \/ \E u \in Threads : Retain(t, u)
    BY <2>2, <2>3 DEF CallStart, Release, Retain
  <2>4. CASE CallStep(t)
    BY <2>2, <2>4 DEF CallStep, CheckFaulted, CallOpen, CommandTake, CommandEnter,
                      CommandLeave, CallReturn, Fault, CloseBegin, CloseSkip,
                      CloseJoin, CloseEnd, Delete
  <2>5. QED
    BY <2>1, <2>3, <2>4
<1>2. QED
  BY InvHolds, <1>1, PTL DEF Spec
===============================================================================
