----------------------------- MODULE Client_proofs ----------------------------
(***************************************************************************)
(* Proofs about module Client, for any sets of threads, objects and        *)
(* handles.                                                                *)
(*                                                                         *)
(* Inv is inductive: it relates what a thread in a member function has in  *)
(* hand to the object it is called on, and says that threads that share an *)
(* object share its handle.                                                *)
(***************************************************************************)
EXTENDS Client, FiniteSetTheorems, TLAPS

(* In a C function: the handle was read from session_. *)
InCall == {"invoke", "run", "fault", "shut", "end", "returned"}

(* What an object points to, or a thread is about to store, exists. *)
PointersLive ==
    /\ \A o \in Objects : session[o] # NoHandle => session[o] \in live
    /\ \A t \in Threads : pc[t] = "store" => use[t] \in live

(* What exists is pointed to, or about to be stored. *)
LiveIsKept ==
    \A h \in live : \/ \E o \in Objects : session[o] = h
                    \/ \E t \in Threads : pc[t] = "store" /\ use[t] = h

(* No two of them have the same handle. *)
OneKeeper ==
    /\ \A o, p \in Objects : session[o] = session[p] /\ session[o] # NoHandle => o = p
    /\ \A t \in Threads, o \in Objects : pc[t] = "store" => session[o] # use[t]
    /\ \A t, u \in Threads :
          pc[t] = "store" /\ pc[u] = "store" /\ use[t] = use[u] => t = u

(* An object that does not exist has no handle and no thread on it.        *)
DeadIsEmpty ==
    /\ \A o \in Objects \ alive : session[o] = NoHandle
    /\ \A t \in Threads : pc[t] # "idle" => on[t] \in alive

(* A thread is alone on an object without a handle, and in open(). *)
ObjectsShared ==
    \A t, u \in Threads :
        t # u /\ pc[t] # "idle" /\ pc[u] # "idle" /\ on[t] = on[u] =>
            session[on[t]] # NoHandle /\ op[t] # "open"

(* What a thread has in hand is what its object has. *)
CallsHold ==
    \A t \in Threads :
        /\ pc[t] \in InCall => session[on[t]] = use[t] /\ use[t] # NoHandle
        /\ pc[t] \in {"create", "store"} => session[on[t]] = NoHandle

(* The outcome of a call and the error of its thread. *)
ErrorsAgree ==
    \A t \in Threads :
        /\ pc[t] \in {"returned", "status"} /\ outcome[t] # "ok" => lastError[t] = outcome[t]
        /\ thrown[t] # Quiet => pc[t] = "idle" /\ thrown[t].text = outcome[t]

(* A call of open() on its way to the core is of a handle without fault: a *)
(* faulted handle is not opened again.                                     *)
OpensUnfaulted ==
    \A t \in Threads : pc[t] \in {"run", "fault"} /\ op[t] = "open" => use[t] \notin faulted

Inv ==
    /\ TypeOK
    /\ PointersLive /\ LiveIsKept /\ OneKeeper
    /\ DeadIsEmpty /\ ObjectsShared /\ CallsHold
    /\ ErrorsAgree
    /\ OpensUnfaulted /\ FaultedIsShut

USE ClientAssumption
    DEF ClientAssumption, Go, BusyOn, Failures, Quiet, InCall,
        objects, handles, calls

(* The handle that a thread has passed to a C function exists. *)
LEMMA UsedIsLive ==
    ASSUME Inv, NEW t \in Threads, pc[t] \in InCall
    PROVE  use[t] \in live
<1>1. session[on[t]] = use[t] /\ use[t] # NoHandle
  BY DEF Inv, CallsHold
<1>2. on[t] \in Objects
  BY DEF Inv, TypeOK
<1>3. QED
  BY <1>1, <1>2 DEF Inv, PointersLive

(* Threads that have the same handle in hand are on the same object. *)
LEMMA SameHandleSameObject ==
    ASSUME Inv, NEW t \in Threads, NEW u \in Threads,
           pc[t] \in InCall, pc[u] \in InCall, use[t] = use[u]
    PROVE  on[t] = on[u]
<1>1. session[on[t]] = use[t] /\ session[on[u]] = use[t] /\ use[t] # NoHandle
  BY DEF Inv, CallsHold
<1>2. on[t] \in Objects /\ on[u] \in Objects
  BY DEF Inv, TypeOK
<1>3. QED
  BY <1>1, <1>2 DEF Inv, OneKeeper

(* What a thread is about to store, no object has. *)
LEMMA StoreHolds ==
    ASSUME Inv, NEW u \in Threads, pc[u] = "store"
    PROVE  use[u] \in live /\ use[u] # NoHandle /\ \A a \in Objects : session[a] # use[u]
<1>1. use[u] \in live
  BY DEF Inv, PointersLive
<1>2. use[u] # NoHandle
  BY <1>1 DEF Inv, TypeOK
<1>3. QED
  BY <1>1, <1>2 DEF Inv, OneKeeper

(* The initial state satisfies Inv. *)
LEMMA InitInv == Init => Inv
<1> SUFFICES ASSUME Init PROVE Inv
  OBVIOUS
<1>1. TypeOK
  <2>1. ported \in [Objects -> BOOLEAN]
    BY DEF Init
  <2>2. thrown \in [Threads -> [type : {"none", "TimeoutError", "runtime_error"},
                                text : Failures \cup {""}]]
    BY DEF Init
  <2>3. QED
    BY <2>1, <2>2 DEF Init, TypeOK
<1>2. PointersLive /\ LiveIsKept /\ OneKeeper /\ DeadIsEmpty
  BY DEF Init, PointersLive, LiveIsKept, OneKeeper, DeadIsEmpty
<1>3. ObjectsShared /\ CallsHold /\ ErrorsAgree
  BY DEF Init, ObjectsShared, CallsHold, ErrorsAgree
<1>4. OpensUnfaulted /\ FaultedIsShut
  BY DEF Init, OpensUnfaulted, FaultedIsShut
<1>5. QED
  BY <1>1, <1>2, <1>3, <1>4 DEF Inv

(* Constructing an object preserves Inv: there was no handle in its place. *)
LEMMA ConstructPreservesInv ==
    ASSUME Inv, NEW o \in Objects, Construct(o)
    PROVE  Inv'
<1>1. session[o] = NoHandle /\ session' = [session EXCEPT ![o] = NoHandle]
  BY DEF Construct, Inv, DeadIsEmpty
<1>2. session' = session
  BY <1>1 DEF Inv, TypeOK
<1>3. PICK valid \in BOOLEAN : ported' = [ported EXCEPT ![o] = valid]
  BY DEF Construct
<1>4. ported' \in [Objects -> BOOLEAN]
  BY <1>3 DEF Inv, TypeOK
<1>5. TypeOK'
  BY <1>2, <1>4 DEF Inv, TypeOK, Construct
<1>6. PointersLive'
  BY <1>2 DEF Inv, TypeOK, PointersLive, Construct
<1>7. LiveIsKept'
  BY <1>2 DEF Inv, TypeOK, LiveIsKept, Construct
<1>8. OneKeeper'
  BY <1>2 DEF Inv, TypeOK, OneKeeper, Construct
<1>9. DeadIsEmpty'
  BY <1>2 DEF Inv, TypeOK, DeadIsEmpty, Construct
<1>10. ObjectsShared'
  BY <1>2 DEF Inv, TypeOK, ObjectsShared, Construct
<1>11. CallsHold'
  BY <1>2 DEF Inv, TypeOK, CallsHold, Construct
<1>12. ErrorsAgree'
  BY <1>2 DEF Inv, TypeOK, ErrorsAgree, Construct
<1>13. OpensUnfaulted'
  BY <1>2 DEF Inv, TypeOK, OpensUnfaulted, Construct
<1>14. FaultedIsShut'
  BY <1>2 DEF Inv, TypeOK, FaultedIsShut, Construct
<1>15. QED
  BY <1>5, <1>6, <1>7, <1>8, <1>9, <1>10, <1>11, <1>12, <1>13, <1>14 DEF Inv

(* Closing and destroying preserve Inv: nobody else has the handle. *)
LEMMA ClosePreservesInv ==
    ASSUME Inv, NEW o \in Objects, Close(o)
    PROVE  Inv'
<1>1. \A p \in Objects \ {o} :
          session'[p] = session[p] /\ (session[p] # NoHandle => session[p] # session[o])
  BY DEF Close, Inv, TypeOK, OneKeeper
<1>2. session'[o] = NoHandle
  BY DEF Close, Inv, TypeOK
<1>3. live' = live \ {session[o]} /\ UNCHANGED <<pc, use>>
  BY DEF Close, Release
<1>4. TypeOK'
  BY DEF Inv, TypeOK, Close, Release
<1>5. PointersLive'
  <2>1. \A a \in Objects : session'[a] # NoHandle => session'[a] \in live'
    BY <1>1, <1>2, <1>3 DEF Inv, TypeOK, PointersLive
  <2>2. \A u \in Threads : pc'[u] = "store" => use'[u] \in live'
    BY <1>1, <1>2, <1>3 DEF Inv, TypeOK, PointersLive, OneKeeper
  <2>3. QED
    BY <2>1, <2>2 DEF PointersLive
<1>6. LiveIsKept'
  BY DEF Inv, TypeOK, LiveIsKept, Close, Release
<1>7. OneKeeper'
  <2>1. ASSUME NEW a \in Objects, NEW b \in Objects,
               session'[a] = session'[b], session'[a] # NoHandle
        PROVE  a = b
    BY <1>1, <1>2, <1>3, <2>1 DEF Inv, OneKeeper
  <2>2. ASSUME NEW u \in Threads, NEW a \in Objects, pc'[u] = "store"
        PROVE  session'[a] # use'[u]
    BY <1>1, <1>2, <1>3, <2>2, StoreHolds DEF Inv, TypeOK, OneKeeper
  <2>3. \A u, v \in Threads : pc'[u] = "store" /\ pc'[v] = "store" /\ use'[u] = use'[v] => u = v
    BY <1>1, <1>2, <1>3 DEF Inv, TypeOK, OneKeeper, PointersLive
  <2>4. QED
    BY <2>1, <2>2, <2>3 DEF OneKeeper
<1>8. DeadIsEmpty'
  BY DEF Inv, TypeOK, DeadIsEmpty, Close, Release
<1>9. ObjectsShared'
  BY DEF Inv, TypeOK, ObjectsShared, Close, Release
<1>10. CallsHold'
  BY DEF Inv, TypeOK, CallsHold, Close, Release
<1>11. ErrorsAgree'
  BY DEF Inv, TypeOK, ErrorsAgree, Close, Release
<1>12. OpensUnfaulted'
  BY DEF Inv, TypeOK, OpensUnfaulted, Close, Release
<1>13. FaultedIsShut'
  BY DEF Inv, TypeOK, FaultedIsShut, Close, Release
<1>14. QED
  BY <1>4, <1>5, <1>6, <1>7, <1>8, <1>9, <1>10, <1>11, <1>12, <1>13 DEF Inv

(* (The same for the destructor.) *)
LEMMA DestroyPreservesInv ==
    ASSUME Inv, NEW o \in Objects, Destroy(o)
    PROVE  Inv'
<1>1. \A p \in Objects \ {o} :
          session'[p] = session[p] /\ (session[p] # NoHandle => session[p] # session[o])
  BY DEF Destroy, Inv, TypeOK, OneKeeper
<1>2. session'[o] = NoHandle
  BY DEF Destroy, Inv, TypeOK
<1>3. live' = live \ {session[o]} /\ UNCHANGED <<pc, use>>
  BY DEF Destroy, Release
<1>4. TypeOK'
  BY DEF Inv, TypeOK, Destroy, Release
<1>5. PointersLive'
  <2>1. \A a \in Objects : session'[a] # NoHandle => session'[a] \in live'
    BY <1>1, <1>2, <1>3 DEF Inv, TypeOK, PointersLive
  <2>2. \A u \in Threads : pc'[u] = "store" => use'[u] \in live'
    BY <1>1, <1>2, <1>3 DEF Inv, TypeOK, PointersLive, OneKeeper
  <2>3. QED
    BY <2>1, <2>2 DEF PointersLive
<1>6. LiveIsKept'
  BY DEF Inv, TypeOK, LiveIsKept, Destroy, Release
<1>7. OneKeeper'
  <2>1. ASSUME NEW a \in Objects, NEW b \in Objects,
               session'[a] = session'[b], session'[a] # NoHandle
        PROVE  a = b
    BY <1>1, <1>2, <1>3, <2>1 DEF Inv, OneKeeper
  <2>2. ASSUME NEW u \in Threads, NEW a \in Objects, pc'[u] = "store"
        PROVE  session'[a] # use'[u]
    BY <1>1, <1>2, <1>3, <2>2, StoreHolds DEF Inv, TypeOK, OneKeeper
  <2>3. \A u, v \in Threads : pc'[u] = "store" /\ pc'[v] = "store" /\ use'[u] = use'[v] => u = v
    BY <1>1, <1>2, <1>3 DEF Inv, TypeOK, OneKeeper, PointersLive
  <2>4. QED
    BY <2>1, <2>2, <2>3 DEF OneKeeper
<1>8. DeadIsEmpty'
  BY DEF Inv, TypeOK, DeadIsEmpty, Destroy, Release
<1>9. ObjectsShared'
  BY DEF Inv, TypeOK, ObjectsShared, Destroy, Release
<1>10. CallsHold'
  BY DEF Inv, TypeOK, CallsHold, Destroy, Release
<1>11. ErrorsAgree'
  BY DEF Inv, TypeOK, ErrorsAgree, Destroy, Release
<1>12. OpensUnfaulted'
  BY DEF Inv, TypeOK, OpensUnfaulted, Destroy, Release
<1>13. FaultedIsShut'
  BY DEF Inv, TypeOK, FaultedIsShut, Destroy, Release
<1>14. QED
  BY <1>4, <1>5, <1>6, <1>7, <1>8, <1>9, <1>10, <1>11, <1>12, <1>13 DEF Inv

(* Moving a handle to a new object preserves Inv. *)
LEMMA MoveConstructPreservesInv ==
    ASSUME Inv, NEW o \in Objects, NEW p \in Objects, MoveConstruct(o, p)
    PROVE  Inv'
<1>0. /\ session[o] = NoHandle /\ o # p
      /\ \A t \in Threads : pc[t] # "idle" => on[t] \notin {o, p}
  BY DEF MoveConstruct, Inv, DeadIsEmpty
<1>1. /\ session'[p] = NoHandle /\ session'[o] = session[p]
      /\ \A q \in Objects \ {o, p} : session'[q] = session[q]
      /\ session' \in [Objects -> Handles \cup {NoHandle}]
  BY <1>0 DEF MoveConstruct, HandOver, Inv, TypeOK
<1>2. ported' \in [Objects -> BOOLEAN]
  <2>1. PICK left \in {ported[p], FALSE} : ported' = [ported EXCEPT ![o] = ported[p], ![p] = left]
    BY DEF MoveConstruct, HandOverPort
  <2>2. ported[p] \in BOOLEAN /\ left \in BOOLEAN
    BY DEF Inv, TypeOK
  <2>3. QED
    BY <2>1, <2>2 DEF Inv, TypeOK
<1>3. UNCHANGED <<handles, calls, lastError>> /\ alive' = alive \cup {o} /\ p \in alive
  BY DEF MoveConstruct
<1>4. \A q \in Objects \ {o} : session[q] # NoHandle => session[q] # session[o]
  BY <1>0
<1>5. TypeOK'
  BY <1>0, <1>1, <1>2, <1>3 DEF Inv, TypeOK
<1>6. PointersLive'
  <2>1. \A a \in Objects : session'[a] # NoHandle => session'[a] \in live'
    BY <1>0, <1>1, <1>3, <1>4 DEF Inv, TypeOK, PointersLive
  <2>2. \A u \in Threads : pc'[u] = "store" => use'[u] \in live'
    BY <1>0, <1>1, <1>3, <1>4 DEF Inv, TypeOK, PointersLive, OneKeeper
  <2>3. QED
    BY <2>1, <2>2 DEF PointersLive
<1>7. LiveIsKept'
  <2>1. ASSUME NEW h \in live'
        PROVE  \/ \E a \in Objects : session'[a] = h
               \/ \E u \in Threads : pc'[u] = "store" /\ use'[u] = h
    <3>1. CASE \E a \in Objects : session[a] = h
      <4>1. PICK a \in Objects : session[a] = h
        BY <3>1
      <4>2. CASE a = p
        BY <4>1, <4>2, <1>1
      <4>3. CASE a # p
        <5>1. a # o
          BY <4>1, <4>3, <1>0, <1>3, <2>1 DEF Inv, TypeOK
        <5>2. QED
          BY <4>1, <4>3, <5>1, <1>1
      <4>4. QED
        BY <4>2, <4>3
    <3>2. CASE \E u \in Threads : pc[u] = "store" /\ use[u] = h
      BY <3>2, <1>3
    <3>3. QED
      BY <3>1, <3>2, <1>3, <2>1 DEF Inv, LiveIsKept
  <2>2. QED
    BY <2>1 DEF LiveIsKept
<1>8. OneKeeper'
  <2>1. ASSUME NEW a \in Objects, NEW b \in Objects,
               session'[a] = session'[b], session'[a] # NoHandle
        PROVE  a = b
    BY <1>0, <1>1, <1>3, <2>1 DEF Inv, OneKeeper
  <2>2. ASSUME NEW u \in Threads, NEW a \in Objects, pc'[u] = "store"
        PROVE  session'[a] # use'[u]
    <3>1. pc[u] = "store" /\ use'[u] = use[u]
      BY <1>3, <2>2
    <3>2. use[u] # NoHandle /\ \A b \in Objects : session[b] # use[u]
      BY <3>1, StoreHolds
    <3>3. session'[a] = NoHandle \/ \E b \in Objects : session'[a] = session[b]
      BY <1>0, <1>1
    <3>4. QED
      BY <3>1, <3>2, <3>3
  <2>3. \A u, v \in Threads : pc'[u] = "store" /\ pc'[v] = "store" /\ use'[u] = use'[v] => u = v
    BY <1>0, <1>1, <1>3 DEF Inv, TypeOK, OneKeeper, PointersLive
  <2>4. QED
    BY <2>1, <2>2, <2>3 DEF OneKeeper
<1>9. DeadIsEmpty'
  BY <1>0, <1>1, <1>3 DEF Inv, TypeOK, DeadIsEmpty
<1>10. ObjectsShared'
  <2> SUFFICES ASSUME NEW u \in Threads, NEW v \in Threads, u # v,
                      pc'[u] # "idle", pc'[v] # "idle", on'[u] = on'[v]
               PROVE  session'[on'[u]] # NoHandle /\ op'[u] # "open"
    BY DEF ObjectsShared
  <2>1. /\ pc[u] # "idle" /\ pc[v] # "idle" /\ on[u] = on[v] /\ on'[u] = on[u]
        /\ op'[u] = op[u]
    BY <1>3
  <2>2. session[on[u]] # NoHandle /\ op[u] # "open"
    BY <2>1 DEF Inv, ObjectsShared
  <2>3. on[u] \in Objects \ {o, p}
    BY <1>0, <2>1 DEF Inv, TypeOK
  <2>4. QED
    BY <1>1, <2>1, <2>2, <2>3
<1>11. CallsHold'
  BY <1>0, <1>1, <1>3 DEF Inv, TypeOK, CallsHold
<1>12. ErrorsAgree'
  BY <1>0, <1>1, <1>3 DEF Inv, TypeOK, ErrorsAgree
<1>13. OpensUnfaulted'
  BY <1>0, <1>1, <1>3 DEF Inv, TypeOK, OpensUnfaulted
<1>14. FaultedIsShut'
  BY <1>0, <1>1, <1>3 DEF Inv, TypeOK, FaultedIsShut
<1>15. QED
  BY <1>5, <1>6, <1>7, <1>8, <1>9, <1>10, <1>11, <1>12, <1>13, <1>14 DEF Inv

(* Assigning releases the handle of the object assigned to, and moves the *)
(* other.                                                                  *)
LEMMA MoveAssignPreservesInv ==
    ASSUME Inv, NEW o \in Objects, NEW p \in Objects, MoveAssign(o, p)
    PROVE  Inv'
<1>0. /\ o # p /\ {o, p} \subseteq alive
      /\ \A t \in Threads : pc[t] # "idle" => on[t] \notin {o, p}
  BY DEF MoveAssign
<1>1. /\ session'[p] = NoHandle /\ session'[o] = session[p]
      /\ \A q \in Objects \ {o, p} : session'[q] = session[q]
      /\ session' \in [Objects -> Handles \cup {NoHandle}]
  BY <1>0 DEF MoveAssign, HandOver, Inv, TypeOK
<1>2. ported' \in [Objects -> BOOLEAN]
  <2>1. PICK left \in {ported[p], FALSE} : ported' = [ported EXCEPT ![o] = ported[p], ![p] = left]
    BY DEF MoveAssign, HandOverPort
  <2>2. ported[p] \in BOOLEAN /\ left \in BOOLEAN
    BY DEF Inv, TypeOK
  <2>3. QED
    BY <2>1, <2>2 DEF Inv, TypeOK
<1>3. /\ live' = live \ {session[o]} /\ faulted' = faulted \ {session[o]}
      /\ opened' = opened \ {session[o]}
      /\ UNCHANGED <<alive, calls, lastError>>
  BY DEF MoveAssign, Release
<1>4. \A q \in Objects \ {o} : session[q] # NoHandle => session[q] # session[o]
  BY DEF Inv, OneKeeper
<1>5. TypeOK'
  BY <1>0, <1>1, <1>2, <1>3 DEF Inv, TypeOK
<1>6. PointersLive'
  <2>1. \A a \in Objects : session'[a] # NoHandle => session'[a] \in live'
    BY <1>0, <1>1, <1>3, <1>4 DEF Inv, TypeOK, PointersLive
  <2>2. \A u \in Threads : pc'[u] = "store" => use'[u] \in live'
    BY <1>0, <1>1, <1>3, <1>4 DEF Inv, TypeOK, PointersLive, OneKeeper
  <2>3. QED
    BY <2>1, <2>2 DEF PointersLive
<1>7. LiveIsKept'
  <2>1. ASSUME NEW h \in live'
        PROVE  \/ \E a \in Objects : session'[a] = h
               \/ \E u \in Threads : pc'[u] = "store" /\ use'[u] = h
    <3>1. CASE \E a \in Objects : session[a] = h
      <4>1. PICK a \in Objects : session[a] = h
        BY <3>1
      <4>2. CASE a = p
        BY <4>1, <4>2, <1>1
      <4>3. CASE a # p
        <5>1. a # o
          BY <4>1, <4>3, <1>0, <1>3, <2>1 DEF Inv, TypeOK
        <5>2. QED
          BY <4>1, <4>3, <5>1, <1>1
      <4>4. QED
        BY <4>2, <4>3
    <3>2. CASE \E u \in Threads : pc[u] = "store" /\ use[u] = h
      BY <3>2, <1>3
    <3>3. QED
      BY <3>1, <3>2, <1>3, <2>1 DEF Inv, LiveIsKept
  <2>2. QED
    BY <2>1 DEF LiveIsKept
<1>8. OneKeeper'
  <2>1. ASSUME NEW a \in Objects, NEW b \in Objects,
               session'[a] = session'[b], session'[a] # NoHandle
        PROVE  a = b
    BY <1>0, <1>1, <1>3, <2>1 DEF Inv, OneKeeper
  <2>2. ASSUME NEW u \in Threads, NEW a \in Objects, pc'[u] = "store"
        PROVE  session'[a] # use'[u]
    <3>1. pc[u] = "store" /\ use'[u] = use[u]
      BY <1>3, <2>2
    <3>2. use[u] # NoHandle /\ \A b \in Objects : session[b] # use[u]
      BY <3>1, StoreHolds
    <3>3. session'[a] = NoHandle \/ \E b \in Objects : session'[a] = session[b]
      BY <1>0, <1>1
    <3>4. QED
      BY <3>1, <3>2, <3>3
  <2>3. \A u, v \in Threads : pc'[u] = "store" /\ pc'[v] = "store" /\ use'[u] = use'[v] => u = v
    BY <1>0, <1>1, <1>3 DEF Inv, TypeOK, OneKeeper, PointersLive
  <2>4. QED
    BY <2>1, <2>2, <2>3 DEF OneKeeper
<1>9. DeadIsEmpty'
  BY <1>0, <1>1, <1>3 DEF Inv, TypeOK, DeadIsEmpty
<1>10. ObjectsShared'
  <2> SUFFICES ASSUME NEW u \in Threads, NEW v \in Threads, u # v,
                      pc'[u] # "idle", pc'[v] # "idle", on'[u] = on'[v]
               PROVE  session'[on'[u]] # NoHandle /\ op'[u] # "open"
    BY DEF ObjectsShared
  <2>1. /\ pc[u] # "idle" /\ pc[v] # "idle" /\ on[u] = on[v] /\ on'[u] = on[u]
        /\ op'[u] = op[u]
    BY <1>3
  <2>2. session[on[u]] # NoHandle /\ op[u] # "open"
    BY <2>1 DEF Inv, ObjectsShared
  <2>3. on[u] \in Objects \ {o, p}
    BY <1>0, <2>1 DEF Inv, TypeOK
  <2>4. QED
    BY <1>1, <2>1, <2>2, <2>3
<1>11. CallsHold'
  BY <1>0, <1>1, <1>3 DEF Inv, TypeOK, CallsHold
<1>12. ErrorsAgree'
  BY <1>0, <1>1, <1>3 DEF Inv, TypeOK, ErrorsAgree
<1>13. OpensUnfaulted'
  BY <1>0, <1>1, <1>3 DEF Inv, TypeOK, OpensUnfaulted
<1>14. FaultedIsShut'
  BY <1>0, <1>1, <1>3 DEF Inv, TypeOK, FaultedIsShut
<1>15. QED
  BY <1>5, <1>6, <1>7, <1>8, <1>9, <1>10, <1>11, <1>12, <1>13, <1>14 DEF Inv

(* Calling a member function preserves Inv: who joins finds the handle. *)
LEMMA MemberCallPreservesInv ==
    ASSUME Inv, NEW t \in Threads, NEW o \in Objects,
           NEW what \in {"open", "command", "is_open"}, Call(t, o, what)
    PROVE  Inv'
<1>1. TypeOK'
  BY DEF Inv, TypeOK, Call
<1>2. PointersLive'
  BY DEF Inv, TypeOK, PointersLive, Call
<1>3. LiveIsKept'
  BY DEF Inv, TypeOK, LiveIsKept, Call
<1>4. OneKeeper'
  BY DEF Inv, TypeOK, OneKeeper, Call
<1>5. DeadIsEmpty'
  BY DEF Inv, TypeOK, DeadIsEmpty, Call
<1>6. ObjectsShared'
  BY DEF Inv, TypeOK, ObjectsShared, Call
<1>7. CallsHold'
  BY DEF Inv, TypeOK, CallsHold, Call
<1>8. ErrorsAgree'
  BY DEF Inv, TypeOK, ErrorsAgree, Call
<1>9. OpensUnfaulted'
  BY DEF Inv, TypeOK, OpensUnfaulted, Call
<1>10. FaultedIsShut'
  BY DEF Inv, TypeOK, FaultedIsShut, Call
<1>11. QED
  BY <1>1, <1>2, <1>3, <1>4, <1>5, <1>6, <1>7, <1>8, <1>9, <1>10 DEF Inv

(* Looking at session_ preserves Inv. *)
LEMMA EnsurePreservesInv ==
    ASSUME Inv, NEW t \in Threads, EnsureCreated(t)
    PROVE  Inv'
<1>1. TypeOK'
  BY DEF Inv, TypeOK, EnsureCreated
<1>2. PointersLive'
  BY DEF Inv, TypeOK, PointersLive, EnsureCreated
<1>3. LiveIsKept'
  BY DEF Inv, TypeOK, LiveIsKept, EnsureCreated
<1>4. OneKeeper'
  BY DEF Inv, TypeOK, OneKeeper, EnsureCreated
<1>5. DeadIsEmpty'
  BY DEF Inv, TypeOK, DeadIsEmpty, EnsureCreated
<1>6. ObjectsShared'
  BY DEF Inv, TypeOK, ObjectsShared, EnsureCreated
<1>7. CallsHold'
  BY DEF Inv, TypeOK, CallsHold, EnsureCreated
<1>8. ErrorsAgree'
  BY DEF Inv, TypeOK, ErrorsAgree, EnsureCreated
<1>9. OpensUnfaulted'
  BY DEF Inv, TypeOK, OpensUnfaulted, EnsureCreated
<1>10. FaultedIsShut'
  BY DEF Inv, TypeOK, FaultedIsShut, EnsureCreated
<1>11. QED
  BY <1>1, <1>2, <1>3, <1>4, <1>5, <1>6, <1>7, <1>8, <1>9, <1>10 DEF Inv

(* Making a handle preserves Inv: nobody can know it yet. *)
LEMMA CreatePreservesInv ==
    ASSUME Inv, NEW t \in Threads, Create(t)
    PROVE  Inv'
<1>1. pc[t] = "create" /\ UNCHANGED <<objects, faulted, opened, op, on, thrown>>
  BY DEF Create
<1>2. ASSUME NEW h \in Handles \ live, live' = live \cup {h}, use' = [use EXCEPT ![t] = h],
             lastError' = [lastError EXCEPT ![t] = ""], pc' = [pc EXCEPT ![t] = "store"],
             UNCHANGED outcome
      PROVE  Inv'
  <2>1. TypeOK'
    BY <1>1, <1>2 DEF Inv, TypeOK
  <2>2. PointersLive'
    BY <1>1, <1>2 DEF Inv, TypeOK, PointersLive
  <2>3. LiveIsKept'
    BY <1>1, <1>2 DEF Inv, TypeOK, LiveIsKept
  <2>4. OneKeeper'
    <3>1. ASSUME NEW a \in Objects, NEW b \in Objects,
                 session'[a] = session'[b], session'[a] # NoHandle
          PROVE  a = b
      BY <1>1, <1>2, <3>1 DEF Inv, OneKeeper
    <3>2. ASSUME NEW u \in Threads, NEW a \in Objects, pc'[u] = "store"
          PROVE  session'[a] # use'[u]
      <4>1. session'[a] = session[a] /\ session[a] \in live \cup {NoHandle}
        BY <1>1 DEF Inv, PointersLive
      <4>2. CASE u = t
        <5>1. use'[u] = h
          BY <1>2, <4>2 DEF Inv, TypeOK
        <5>2. QED
          BY <4>1, <5>1
      <4>3. CASE u # t
        <5>1. pc[u] = "store" /\ use'[u] = use[u]
          BY <1>2, <3>2, <4>3 DEF Inv, TypeOK
        <5>2. QED
          BY <4>1, <5>1, StoreHolds
      <4>4. QED
        BY <4>2, <4>3
    <3>3. \A u, v \in Threads : pc'[u] = "store" /\ pc'[v] = "store" /\ use'[u] = use'[v] => u = v
      BY <1>1, <1>2 DEF Inv, TypeOK, OneKeeper, PointersLive
    <3>4. QED
      BY <3>1, <3>2, <3>3 DEF OneKeeper
  <2>5. DeadIsEmpty'
    BY <1>1, <1>2 DEF Inv, TypeOK, DeadIsEmpty
  <2>6. ObjectsShared'
    BY <1>1, <1>2 DEF Inv, TypeOK, ObjectsShared
  <2>7. CallsHold'
    BY <1>1, <1>2 DEF Inv, TypeOK, CallsHold
  <2>8. ErrorsAgree'
    BY <1>1, <1>2 DEF Inv, TypeOK, ErrorsAgree
  <2>9. OpensUnfaulted'
    BY <1>1, <1>2 DEF Inv, TypeOK, OpensUnfaulted
  <2>10. FaultedIsShut'
    BY <1>1, <1>2 DEF Inv, TypeOK, FaultedIsShut
  <2>11. QED
    BY <2>1, <2>2, <2>3, <2>4, <2>5, <2>6, <2>7, <2>8, <2>9, <2>10 DEF Inv
<1>3. ASSUME lastError' = [lastError EXCEPT ![t] = "invalid"],
             outcome' = [outcome EXCEPT ![t] = "invalid"], pc' = [pc EXCEPT ![t] = "status"],
             UNCHANGED <<live, use>>
      PROVE  Inv'
  <2>1. TypeOK'
    BY <1>1, <1>3 DEF Inv, TypeOK
  <2>2. PointersLive'
    BY <1>1, <1>3 DEF Inv, TypeOK, PointersLive
  <2>3. LiveIsKept'
    BY <1>1, <1>3 DEF Inv, TypeOK, LiveIsKept
  <2>4. OneKeeper'
    BY <1>1, <1>3 DEF Inv, TypeOK, OneKeeper
  <2>5. DeadIsEmpty'
    BY <1>1, <1>3 DEF Inv, TypeOK, DeadIsEmpty
  <2>6. ObjectsShared'
    BY <1>1, <1>3 DEF Inv, TypeOK, ObjectsShared
  <2>7. CallsHold'
    BY <1>1, <1>3 DEF Inv, TypeOK, CallsHold
  <2>8. ErrorsAgree'
    BY <1>1, <1>3 DEF Inv, TypeOK, ErrorsAgree
  <2>9. OpensUnfaulted'
    BY <1>1, <1>3 DEF Inv, TypeOK, OpensUnfaulted
  <2>10. FaultedIsShut'
    BY <1>1, <1>3 DEF Inv, TypeOK, FaultedIsShut
  <2>11. QED
    BY <2>1, <2>2, <2>3, <2>4, <2>5, <2>6, <2>7, <2>8, <2>9, <2>10 DEF Inv
<1>4. QED
  BY <1>2, <1>3 DEF Create, SetError

(* Storing it preserves Inv: the thread is alone on the object. *)
LEMMA StorePreservesInv ==
    ASSUME Inv, NEW t \in Threads, Store(t)
    PROVE  Inv'
<1>1. pc[t] = "store" /\ pc' = [pc EXCEPT ![t] = "pass"] /\ session' = [session EXCEPT ![on[t]] = use[t]]
  BY DEF Store
<1>2. on[t] \in Objects /\ session[on[t]] = NoHandle
  BY <1>1 DEF Inv, TypeOK, CallsHold
<1>3. ASSUME NEW u \in Threads, u # t, pc[u] # "idle" PROVE on[u] # on[t]
  BY <1>1, <1>2, <1>3 DEF Inv, ObjectsShared
<1>4. UNCHANGED <<alive, ported, handles, lastError, op, on, use, outcome, thrown>>
  BY DEF Store
<1>5. use[t] \in Handles
  BY <1>1 DEF Inv, TypeOK, PointersLive
<1>6. TypeOK'
  BY <1>1, <1>2, <1>3, <1>4, <1>5 DEF Inv, TypeOK
<1>7. PointersLive'
  BY <1>1, <1>2, <1>3, <1>4, <1>5 DEF Inv, TypeOK, PointersLive
<1>8. LiveIsKept'
  <2>1. ASSUME NEW h \in live'
        PROVE  \/ \E a \in Objects : session'[a] = h
               \/ \E u \in Threads : pc'[u] = "store" /\ use'[u] = h
    <3>1. CASE \E a \in Objects : session[a] = h
      <4>1. PICK a \in Objects : session[a] = h
        BY <3>1
      <4>2. h # NoHandle
        BY <1>4, <2>1 DEF Inv, TypeOK
      <4>3. session'[a] = h
        BY <4>1, <4>2, <1>1, <1>2 DEF Inv, TypeOK
      <4>4. QED
        BY <4>3
    <3>2. CASE \E u \in Threads : pc[u] = "store" /\ use[u] = h
      <4>1. PICK u \in Threads : pc[u] = "store" /\ use[u] = h
        BY <3>2
      <4>2. CASE u = t
        BY <4>1, <4>2, <1>1, <1>2 DEF Inv, TypeOK
      <4>3. CASE u # t
        BY <4>1, <4>3, <1>1, <1>4 DEF Inv, TypeOK
      <4>4. QED
        BY <4>2, <4>3
    <3>3. QED
      BY <3>1, <3>2, <1>4, <2>1 DEF Inv, LiveIsKept
  <2>2. QED
    BY <2>1 DEF LiveIsKept
<1>9. OneKeeper'
  BY <1>1, <1>2, <1>3, <1>4, <1>5 DEF Inv, TypeOK, OneKeeper
<1>10. DeadIsEmpty'
  BY <1>1, <1>2, <1>3, <1>4, <1>5 DEF Inv, TypeOK, DeadIsEmpty
<1>11. ObjectsShared'
  BY <1>1, <1>2, <1>3, <1>4, <1>5 DEF Inv, TypeOK, ObjectsShared
<1>12. CallsHold'
  BY <1>1, <1>2, <1>3, <1>4, <1>5 DEF Inv, TypeOK, CallsHold
<1>13. ErrorsAgree'
  BY <1>1, <1>2, <1>3, <1>4, <1>5 DEF Inv, TypeOK, ErrorsAgree
<1>14. OpensUnfaulted'
  BY <1>1, <1>2, <1>3, <1>4, <1>5 DEF Inv, TypeOK, OpensUnfaulted
<1>15. FaultedIsShut'
  BY <1>1, <1>2, <1>3, <1>4, <1>5 DEF Inv, TypeOK, FaultedIsShut
<1>16. QED
  BY <1>6, <1>7, <1>8, <1>9, <1>10, <1>11, <1>12, <1>13, <1>14, <1>15 DEF Inv

(* Passing the handle on preserves Inv. *)
LEMMA PassPreservesInv ==
    ASSUME Inv, NEW t \in Threads, Pass(t)
    PROVE  Inv'
<1>1. TypeOK'
  BY DEF Inv, TypeOK, Pass
<1>2. PointersLive'
  BY DEF Inv, TypeOK, PointersLive, Pass
<1>3. LiveIsKept'
  BY DEF Inv, TypeOK, LiveIsKept, Pass
<1>4. OneKeeper'
  BY DEF Inv, TypeOK, OneKeeper, Pass
<1>5. DeadIsEmpty'
  BY DEF Inv, TypeOK, DeadIsEmpty, Pass
<1>6. ObjectsShared'
  BY DEF Inv, TypeOK, ObjectsShared, Pass
<1>7. CallsHold'
  BY DEF Inv, TypeOK, CallsHold, Pass
<1>8. ErrorsAgree'
  BY DEF Inv, TypeOK, ErrorsAgree, Pass
<1>9. OpensUnfaulted'
  BY DEF Inv, TypeOK, OpensUnfaulted, Pass
<1>10. FaultedIsShut'
  BY DEF Inv, TypeOK, FaultedIsShut, Pass
<1>11. QED
  BY <1>1, <1>2, <1>3, <1>4, <1>5, <1>6, <1>7, <1>8, <1>9, <1>10 DEF Inv

(* Looking at the flag preserves Inv. *)
LEMMA InvokePreservesInv ==
    ASSUME Inv, NEW t \in Threads, Invoke(t)
    PROVE  Inv'
<1>1. pc[t] = "invoke" /\ UNCHANGED <<objects, handles, op, on, use, thrown>>
  BY DEF Invoke
<1>2. ASSUME use[t] \in faulted, lastError' = [lastError EXCEPT ![t] = "faulted"],
             outcome' = [outcome EXCEPT ![t] = "faulted"], pc' = [pc EXCEPT ![t] = "returned"]
      PROVE  Inv'
  <2>1. TypeOK'
    BY <1>1, <1>2 DEF Inv, TypeOK
  <2>2. PointersLive'
    BY <1>1, <1>2 DEF Inv, TypeOK, PointersLive
  <2>3. LiveIsKept'
    BY <1>1, <1>2 DEF Inv, TypeOK, LiveIsKept
  <2>4. OneKeeper'
    BY <1>1, <1>2 DEF Inv, TypeOK, OneKeeper
  <2>5. DeadIsEmpty'
    BY <1>1, <1>2 DEF Inv, TypeOK, DeadIsEmpty
  <2>6. ObjectsShared'
    BY <1>1, <1>2 DEF Inv, TypeOK, ObjectsShared
  <2>7. CallsHold'
    BY <1>1, <1>2 DEF Inv, TypeOK, CallsHold
  <2>8. ErrorsAgree'
    BY <1>1, <1>2 DEF Inv, TypeOK, ErrorsAgree
  <2>9. OpensUnfaulted'
    BY <1>1, <1>2 DEF Inv, TypeOK, OpensUnfaulted
  <2>10. FaultedIsShut'
    BY <1>1, <1>2 DEF Inv, TypeOK, FaultedIsShut
  <2>11. QED
    BY <2>1, <2>2, <2>3, <2>4, <2>5, <2>6, <2>7, <2>8, <2>9, <2>10 DEF Inv
<1>3. ASSUME use[t] \notin faulted, lastError' = [lastError EXCEPT ![t] = ""],
             pc' = [pc EXCEPT ![t] = "run"], UNCHANGED outcome
      PROVE  Inv'
  <2>1. TypeOK'
    BY <1>1, <1>3 DEF Inv, TypeOK
  <2>2. PointersLive'
    BY <1>1, <1>3 DEF Inv, TypeOK, PointersLive
  <2>3. LiveIsKept'
    BY <1>1, <1>3 DEF Inv, TypeOK, LiveIsKept
  <2>4. OneKeeper'
    BY <1>1, <1>3 DEF Inv, TypeOK, OneKeeper
  <2>5. DeadIsEmpty'
    BY <1>1, <1>3 DEF Inv, TypeOK, DeadIsEmpty
  <2>6. ObjectsShared'
    BY <1>1, <1>3 DEF Inv, TypeOK, ObjectsShared
  <2>7. CallsHold'
    BY <1>1, <1>3 DEF Inv, TypeOK, CallsHold
  <2>8. ErrorsAgree'
    BY <1>1, <1>3 DEF Inv, TypeOK, ErrorsAgree
  <2>9. OpensUnfaulted'
    BY <1>1, <1>3 DEF Inv, TypeOK, OpensUnfaulted
  <2>10. FaultedIsShut'
    BY <1>1, <1>3 DEF Inv, TypeOK, FaultedIsShut
  <2>11. QED
    BY <2>1, <2>2, <2>3, <2>4, <2>5, <2>6, <2>7, <2>8, <2>9, <2>10 DEF Inv
<1>4. QED
  BY <1>2, <1>3 DEF Invoke, SetError

(* Running a call preserves Inv: only a handle without fault is opened. *)
LEMMA RunPreservesInv ==
    ASSUME Inv, NEW t \in Threads, Run(t)
    PROVE  Inv'
<1>1. PICK result \in {"ok", "timeout", "transport", "other"} :
         /\ outcome' = [outcome EXCEPT ![t] = result]
         /\ opened' = IF op[t] = "open" /\ result = "ok" THEN opened \cup {use[t]} ELSE opened
         /\ pc' = [pc EXCEPT ![t] = IF result \in {"timeout", "transport"} THEN "fault" ELSE "end"]
  BY DEF Run, Outcomes, Inv, TypeOK
<1>2. pc[t] = "run" /\ UNCHANGED <<objects, live, faulted, lastError, op, on, use, thrown>>
  BY DEF Run
<1>3. PICK label \in {"fault", "end"} : pc' = [pc EXCEPT ![t] = label]
  BY <1>1
<1>4. use[t] \in live /\ (op[t] = "open" => use[t] \notin faulted)
  BY <1>2, UsedIsLive DEF Inv, OpensUnfaulted
<1>5. opened' \subseteq opened \cup {use[t]} /\ (op[t] # "open" => opened' = opened)
  BY <1>1
<1>6. TypeOK'
  BY <1>1, <1>2, <1>3, <1>4, <1>5 DEF Inv, TypeOK
<1>7. PointersLive'
  BY <1>2, <1>3, <1>4, <1>5 DEF Inv, TypeOK, PointersLive
<1>8. LiveIsKept'
  BY <1>2, <1>3, <1>4, <1>5 DEF Inv, TypeOK, LiveIsKept
<1>9. OneKeeper'
  BY <1>2, <1>3, <1>4, <1>5 DEF Inv, TypeOK, OneKeeper
<1>10. DeadIsEmpty'
  BY <1>2, <1>3, <1>4, <1>5 DEF Inv, TypeOK, DeadIsEmpty
<1>11. ObjectsShared'
  BY <1>2, <1>3, <1>4, <1>5 DEF Inv, TypeOK, ObjectsShared
<1>12. CallsHold'
  BY <1>2, <1>3, <1>4, <1>5 DEF Inv, TypeOK, CallsHold
<1>13. ErrorsAgree'
  <2>1. thrown[t] = Quiet
    BY <1>2 DEF Inv, ErrorsAgree
  <2>2. ASSUME NEW u \in Threads, pc'[u] \in {"returned", "status"}, outcome'[u] # "ok"
        PROVE  lastError'[u] = outcome'[u]
    BY <1>1, <1>2, <1>3, <2>2 DEF Inv, TypeOK, ErrorsAgree
  <2>3. ASSUME NEW u \in Threads, thrown'[u] # Quiet
        PROVE  pc'[u] = "idle" /\ thrown'[u].text = outcome'[u]
    <3>1. u # t /\ thrown[u] # Quiet
      BY <1>1, <1>2, <1>3, <2>1, <2>3
    <3>2. pc[u] = "idle" /\ thrown[u].text = outcome[u]
      BY <3>1 DEF Inv, ErrorsAgree
    <3>3. pc'[u] = pc[u] /\ outcome'[u] = outcome[u] /\ thrown'[u] = thrown[u]
      BY <1>1, <1>2, <1>3, <3>1 DEF Inv, TypeOK
    <3>4. QED
      BY <3>2, <3>3
  <2>4. QED
    BY <2>2, <2>3 DEF ErrorsAgree
<1>14. OpensUnfaulted'
  BY <1>2, <1>3, <1>4, <1>5 DEF Inv, TypeOK, OpensUnfaulted
<1>15. FaultedIsShut'
  BY <1>2, <1>3, <1>4, <1>5 DEF Inv, TypeOK, FaultedIsShut
<1>16. QED
  BY <1>6, <1>7, <1>8, <1>9, <1>10, <1>11, <1>12, <1>13, <1>14, <1>15 DEF Inv

(* Noting a fault preserves Inv: the thread goes on to close, and nobody   *)
(* is opening the same handle.                                             *)
LEMMA FaultPreservesInv ==
    ASSUME Inv, NEW t \in Threads, Fault(t)
    PROVE  Inv'
<1>1. use[t] \in live
  BY UsedIsLive DEF Fault
<1>2. ASSUME NEW u \in Threads, pc[u] \in {"run", "fault"}, op[u] = "open", u # t
      PROVE  use[u] # use[t]
  <2>1. on[u] # on[t]
    BY <1>2 DEF Fault, Inv, ObjectsShared
  <2>2. QED
    BY <1>2, <2>1, SameHandleSameObject DEF Fault
<1>3. pc'[t] = "shut" /\ use'[t] = use[t]
  BY DEF Fault, Inv, TypeOK
<1>4. ASSUME NEW u \in Threads, pc[u] = "shut" PROVE pc'[u] = "shut" /\ use'[u] = use[u]
  BY <1>4 DEF Fault, Inv, TypeOK
<1>5. faulted' = faulted \cup {use[t]} /\ opened' = opened
  BY DEF Fault
<1>6. ASSUME NEW u \in Threads, pc'[u] \in {"run", "fault"} PROVE u # t /\ pc[u] = pc'[u]
  BY <1>6 DEF Fault, Inv, TypeOK
<1>7. use' = use /\ op' = op
  BY DEF Fault
<1>8. TypeOK'
  BY <1>1 DEF Inv, TypeOK, Fault
<1>9. PointersLive'
  BY DEF Inv, TypeOK, PointersLive, Fault
<1>10. LiveIsKept'
  BY DEF Inv, TypeOK, LiveIsKept, Fault
<1>11. OneKeeper'
  BY DEF Inv, TypeOK, OneKeeper, Fault
<1>12. DeadIsEmpty'
  BY DEF Inv, TypeOK, DeadIsEmpty, Fault
<1>13. ObjectsShared'
  BY DEF Inv, TypeOK, ObjectsShared, Fault
<1>14. CallsHold'
  BY DEF Inv, TypeOK, CallsHold, Fault
<1>15. ErrorsAgree'
  BY DEF Inv, TypeOK, ErrorsAgree, Fault
<1>16. OpensUnfaulted'
  BY <1>2, <1>5, <1>6, <1>7 DEF Inv, TypeOK, OpensUnfaulted, Fault
<1>17. FaultedIsShut'
  BY <1>3, <1>4, <1>5 DEF Inv, TypeOK, FaultedIsShut, Fault
<1>18. QED
  BY <1>8, <1>9, <1>10, <1>11, <1>12, <1>13, <1>14, <1>15, <1>16, <1>17 DEF Inv

(* Closing after a fault preserves Inv. *)
LEMMA ShutPreservesInv ==
    ASSUME Inv, NEW t \in Threads, Shut(t)
    PROVE  Inv'
<1>1. TypeOK'
  BY DEF Inv, TypeOK, Shut
<1>2. PointersLive'
  BY DEF Inv, TypeOK, PointersLive, Shut
<1>3. LiveIsKept'
  BY DEF Inv, TypeOK, LiveIsKept, Shut
<1>4. OneKeeper'
  BY DEF Inv, TypeOK, OneKeeper, Shut
<1>5. DeadIsEmpty'
  BY DEF Inv, TypeOK, DeadIsEmpty, Shut
<1>6. ObjectsShared'
  BY DEF Inv, TypeOK, ObjectsShared, Shut
<1>7. CallsHold'
  BY DEF Inv, TypeOK, CallsHold, Shut
<1>8. ErrorsAgree'
  BY DEF Inv, TypeOK, ErrorsAgree, Shut
<1>9. OpensUnfaulted'
  BY DEF Inv, TypeOK, OpensUnfaulted, Shut
<1>10. FaultedIsShut'
  BY DEF Inv, TypeOK, FaultedIsShut, Shut
<1>11. QED
  BY <1>1, <1>2, <1>3, <1>4, <1>5, <1>6, <1>7, <1>8, <1>9, <1>10 DEF Inv

(* Turning the outcome into a status and a text preserves Inv. *)
LEMMA EndPreservesInv ==
    ASSUME Inv, NEW t \in Threads, End(t)
    PROVE  Inv'
<1>1. pc[t] = "end" /\ pc' = [pc EXCEPT ![t] = "returned"] /\ UNCHANGED <<outcome, thrown>>
  BY DEF End
<1>2. /\ outcome[t] # "ok" => lastError'[t] = outcome[t]
      /\ \A u \in Threads : u # t => lastError'[u] = lastError[u]
  BY DEF End, SetError, Inv, TypeOK
<1>3. TypeOK'
  BY DEF Inv, TypeOK, End, SetError
<1>4. PointersLive'
  BY DEF Inv, TypeOK, PointersLive, End, SetError
<1>5. LiveIsKept'
  BY DEF Inv, TypeOK, LiveIsKept, End, SetError
<1>6. OneKeeper'
  BY DEF Inv, TypeOK, OneKeeper, End, SetError
<1>7. DeadIsEmpty'
  BY DEF Inv, TypeOK, DeadIsEmpty, End, SetError
<1>8. ObjectsShared'
  BY DEF Inv, TypeOK, ObjectsShared, End, SetError
<1>9. CallsHold'
  BY DEF Inv, TypeOK, CallsHold, End, SetError
<1>10. ErrorsAgree'
  <2>1. thrown[t] = Quiet
    BY <1>1 DEF Inv, ErrorsAgree
  <2>2. ASSUME NEW u \in Threads, pc'[u] \in {"returned", "status"}, outcome'[u] # "ok"
        PROVE  lastError'[u] = outcome'[u]
    BY <1>1, <1>2, <2>2 DEF Inv, TypeOK, ErrorsAgree
  <2>3. ASSUME NEW u \in Threads, thrown'[u] # Quiet
        PROVE  pc'[u] = "idle" /\ thrown'[u].text = outcome'[u]
    <3>1. u # t /\ thrown[u] # Quiet
      BY <1>1, <1>2, <2>1, <2>3
    <3>2. pc[u] = "idle" /\ thrown[u].text = outcome[u]
      BY <3>1 DEF Inv, ErrorsAgree
    <3>3. pc'[u] = pc[u] /\ outcome'[u] = outcome[u] /\ thrown'[u] = thrown[u]
      BY <1>1, <1>2, <3>1 DEF Inv, TypeOK
    <3>4. QED
      BY <3>2, <3>3
  <2>4. QED
    BY <2>2, <2>3 DEF ErrorsAgree
<1>11. OpensUnfaulted'
  BY DEF Inv, TypeOK, OpensUnfaulted, End, SetError
<1>12. FaultedIsShut'
  BY DEF Inv, TypeOK, FaultedIsShut, End, SetError
<1>13. QED
  BY <1>3, <1>4, <1>5, <1>6, <1>7, <1>8, <1>9, <1>10, <1>11, <1>12 DEF Inv

(* Returning preserves Inv: a failed open() releases a handle that nobody  *)
(* else is using.                                                          *)
LEMMA ReturnedPreservesInv ==
    ASSUME Inv, NEW t \in Threads, Returned(t)
    PROVE  Inv'
<1>1. /\ pc[t] = "returned" /\ pc' = [pc EXCEPT ![t] = "status"]
      /\ UNCHANGED <<alive, ported, lastError, op, on, use, outcome, thrown>>
  BY DEF Returned
<1>2. on[t] \in Objects
  BY DEF Inv, TypeOK
<1>3. ASSUME op[t] = "open", outcome[t] # "ok", Release(session[on[t]]),
             session' = [session EXCEPT ![on[t]] = NoHandle]
      PROVE  Inv'
  <2>1. ASSUME NEW p \in Objects, p # on[t], session[p] # NoHandle
        PROVE  session[p] # session[on[t]]
    BY <1>2, <2>1 DEF Inv, OneKeeper
  <2>2. ASSUME NEW u \in Threads, u # t, pc[u] # "idle" PROVE on[u] # on[t]
    BY <1>1, <1>3, <2>2 DEF Inv, ObjectsShared
  <2>3. /\ live' = live \ {session[on[t]]} /\ faulted' = faulted \ {session[on[t]]}
        /\ opened' = opened \ {session[on[t]]}
    BY <1>3 DEF Release
  <2>4. session' = [session EXCEPT ![on[t]] = NoHandle]
    BY <1>3
  <2>5. TypeOK'
    BY <1>1, <1>2, <2>1, <2>2, <2>3, <2>4 DEF Inv, TypeOK
  <2>6. PointersLive'
    BY <1>1, <1>2, <2>1, <2>2, <2>3, <2>4 DEF Inv, TypeOK, PointersLive, OneKeeper
  <2>7. LiveIsKept'
    BY <1>1, <1>2, <2>1, <2>2, <2>3, <2>4 DEF Inv, TypeOK, LiveIsKept
  <2>8. OneKeeper'
    <3>1. ASSUME NEW a \in Objects, NEW b \in Objects,
                 session'[a] = session'[b], session'[a] # NoHandle
          PROVE  a = b
      BY <1>1, <1>2, <2>1, <2>2, <2>3, <2>4, <3>1 DEF Inv, OneKeeper
    <3>2. ASSUME NEW u \in Threads, NEW a \in Objects, pc'[u] = "store"
          PROVE  session'[a] # use'[u]
      BY <1>1, <1>2, <2>1, <2>2, <2>3, <2>4, <3>2, StoreHolds DEF Inv, TypeOK, OneKeeper
    <3>3. \A u, v \in Threads : pc'[u] = "store" /\ pc'[v] = "store" /\ use'[u] = use'[v] => u = v
      BY <1>1, <1>2, <2>1, <2>2, <2>3, <2>4 DEF Inv, TypeOK, OneKeeper, PointersLive
    <3>4. QED
      BY <3>1, <3>2, <3>3 DEF OneKeeper
  <2>9. DeadIsEmpty'
    BY <1>1, <1>2, <2>1, <2>2, <2>3, <2>4 DEF Inv, TypeOK, DeadIsEmpty
  <2>10. ObjectsShared'
    BY <1>1, <1>2, <2>1, <2>2, <2>3, <2>4 DEF Inv, TypeOK, ObjectsShared
  <2>11. CallsHold'
    BY <1>1, <1>2, <2>1, <2>2, <2>3, <2>4 DEF Inv, TypeOK, CallsHold
  <2>12. ErrorsAgree'
    BY <1>1, <1>2, <2>1, <2>2, <2>3, <2>4 DEF Inv, TypeOK, ErrorsAgree
  <2>13. OpensUnfaulted'
    BY <1>1, <1>2, <2>1, <2>2, <2>3, <2>4 DEF Inv, TypeOK, OpensUnfaulted
  <2>14. FaultedIsShut'
    BY <1>1, <1>2, <2>1, <2>2, <2>3, <2>4 DEF Inv, TypeOK, FaultedIsShut
  <2>15. QED
    BY <2>5, <2>6, <2>7, <2>8, <2>9, <2>10, <2>11, <2>12, <2>13, <2>14 DEF Inv
<1>4. ASSUME UNCHANGED <<handles, session>> PROVE Inv'
  <2>1. TypeOK'
    BY <1>1, <1>4 DEF Inv, TypeOK
  <2>2. PointersLive'
    BY <1>1, <1>4 DEF Inv, TypeOK, PointersLive
  <2>3. LiveIsKept'
    BY <1>1, <1>4 DEF Inv, TypeOK, LiveIsKept
  <2>4. OneKeeper'
    BY <1>1, <1>4 DEF Inv, TypeOK, OneKeeper
  <2>5. DeadIsEmpty'
    BY <1>1, <1>4 DEF Inv, TypeOK, DeadIsEmpty
  <2>6. ObjectsShared'
    BY <1>1, <1>4 DEF Inv, TypeOK, ObjectsShared
  <2>7. CallsHold'
    BY <1>1, <1>4 DEF Inv, TypeOK, CallsHold
  <2>8. ErrorsAgree'
    BY <1>1, <1>4 DEF Inv, TypeOK, ErrorsAgree
  <2>9. OpensUnfaulted'
    BY <1>1, <1>4 DEF Inv, TypeOK, OpensUnfaulted
  <2>10. FaultedIsShut'
    BY <1>1, <1>4 DEF Inv, TypeOK, FaultedIsShut
  <2>11. QED
    BY <2>1, <2>2, <2>3, <2>4, <2>5, <2>6, <2>7, <2>8, <2>9, <2>10 DEF Inv
<1>5. QED
  BY <1>3, <1>4 DEF Returned

(* Throwing the error preserves Inv. *)
LEMMA StatusPreservesInv ==
    ASSUME Inv, NEW t \in Threads, CheckStatus(t)
    PROVE  Inv'
<1>1. TypeOK'
  BY DEF Inv, TypeOK, CheckStatus
<1>2. PointersLive'
  BY DEF Inv, TypeOK, PointersLive, CheckStatus
<1>3. LiveIsKept'
  BY DEF Inv, TypeOK, LiveIsKept, CheckStatus
<1>4. OneKeeper'
  BY DEF Inv, TypeOK, OneKeeper, CheckStatus
<1>5. DeadIsEmpty'
  BY DEF Inv, TypeOK, DeadIsEmpty, CheckStatus
<1>6. ObjectsShared'
  BY DEF Inv, TypeOK, ObjectsShared, CheckStatus
<1>7. CallsHold'
  BY DEF Inv, TypeOK, CallsHold, CheckStatus
<1>8. ErrorsAgree'
  BY DEF Inv, TypeOK, ErrorsAgree, CheckStatus
<1>9. OpensUnfaulted'
  BY DEF Inv, TypeOK, OpensUnfaulted, CheckStatus
<1>10. FaultedIsShut'
  BY DEF Inv, TypeOK, FaultedIsShut, CheckStatus
<1>11. QED
  BY <1>1, <1>2, <1>3, <1>4, <1>5, <1>6, <1>7, <1>8, <1>9, <1>10 DEF Inv

(* Every reachable state satisfies Inv. *)
THEOREM InvHolds == Spec => []Inv
<1>1. Inv /\ [Next]_vars => Inv'
  <2> SUFFICES ASSUME Inv, [Next]_vars PROVE Inv'
    OBVIOUS
  <2>1. ASSUME NEW o \in Objects, Construct(o) \/ Close(o) \/ Destroy(o) PROVE Inv'
    BY <2>1, ConstructPreservesInv, ClosePreservesInv, DestroyPreservesInv
  <2>2. ASSUME NEW o \in Objects, NEW p \in Objects,
               MoveConstruct(o, p) \/ MoveAssign(o, p)
        PROVE  Inv'
    BY <2>2, MoveConstructPreservesInv, MoveAssignPreservesInv
  <2>3. ASSUME NEW t \in Threads, NEW o \in Objects,
               NEW what \in {"open", "command", "is_open"}, Call(t, o, what)
        PROVE  Inv'
    BY <2>3, MemberCallPreservesInv
  <2>4. ASSUME NEW t \in Threads, MemberStep(t) PROVE Inv'
    BY <2>4, EnsurePreservesInv, CreatePreservesInv, StorePreservesInv,
       PassPreservesInv, InvokePreservesInv, RunPreservesInv, FaultPreservesInv,
       ShutPreservesInv, EndPreservesInv, ReturnedPreservesInv, StatusPreservesInv
       DEF MemberStep
  <2>5. CASE UNCHANGED vars
    <3>1. TypeOK'
      BY <2>5 DEF vars, Inv, TypeOK
    <3>2. PointersLive' /\ LiveIsKept' /\ OneKeeper' /\ DeadIsEmpty'
      BY <2>5 DEF vars, Inv, PointersLive, LiveIsKept, OneKeeper, DeadIsEmpty
    <3>3. ObjectsShared' /\ CallsHold' /\ ErrorsAgree'
      BY <2>5 DEF vars, Inv, ObjectsShared, CallsHold, ErrorsAgree
    <3>4. OpensUnfaulted' /\ FaultedIsShut'
      BY <2>5 DEF vars, Inv, OpensUnfaulted, FaultedIsShut
    <3>5. QED
      BY <3>1, <3>2, <3>3, <3>4 DEF Inv
  <2>6. QED
    BY <2>1, <2>2, <2>3, <2>4, <2>5 DEF Next
<1>2. QED
  BY InitInv, <1>1, PTL DEF Spec

(* The state of the objects, the handles and the calls stays within its    *)
(* type; in particular only handles that exist are faulted or open.        *)
THEOREM TypeCorrect == Spec => []TypeOK
<1>1. Inv => TypeOK
  BY DEF Inv
<1>2. QED
  BY InvHolds, <1>1, PTL

(* A native handle that exists has exactly one owner, one that is gone has *)
(* none, and no thread is in a C function with a handle that is gone.      *)
THEOREM HandlesAreOwned == Spec => []HandleHasOneOwner
<1>1. Inv => HandleHasOneOwner
  <2> SUFFICES ASSUME Inv PROVE HandleHasOneOwner
    OBVIOUS
  <2>1. ASSUME NEW h \in live PROVE Cardinality(Keepers(h)) = 1
    <3>1. h \in Handles /\ h # NoHandle
      BY DEF Inv, TypeOK
    <3>2. ASSUME NEW k \in Keepers(h), NEW m \in Keepers(h) PROVE k = m
      BY <3>1 DEF Inv, OneKeeper, Keepers
    <3>3. PICK k : k \in Keepers(h)
      BY DEF Inv, LiveIsKept, Keepers
    <3>4. Keepers(h) = {k}
      BY <3>2, <3>3
    <3>5. QED
      BY <3>4, FS_Singleton
  <2>2. ASSUME NEW h \in Handles \ live PROVE Keepers(h) = {}
    BY <2>2 DEF Inv, PointersLive, Keepers
  <2>3. ASSUME NEW t \in Threads, pc[t] \in InCall PROVE use[t] \in live
    BY <2>3, UsedIsLive
  <2>4. QED
    BY <2>1, <2>2, <2>3 DEF HandleHasOneOwner
<1>2. QED
  BY InvHolds, <1>1, PTL

(* The exception that a member function throws carries the text of its own *)
(* call.                                                                   *)
THEOREM ErrorsAreOwn == Spec => []ErrorIsOwn
<1>1. Inv => ErrorIsOwn
  BY DEF Inv, ErrorsAgree, ErrorIsOwn
<1>2. QED
  BY InvHolds, <1>1, PTL

(* A faulted handle is not open, but for the thread about to close it. *)
THEOREM FaultedAreShut == Spec => []FaultedIsShut
<1>1. Inv => FaultedIsShut
  BY DEF Inv
<1>2. QED
  BY InvHolds, <1>1, PTL
===============================================================================
