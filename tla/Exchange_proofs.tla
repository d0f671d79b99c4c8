---------------------------- MODULE Exchange_proofs ---------------------------
(***************************************************************************)
(* Proofs about module Exchange, for any number of retries, any modulus of *)
(* the sequence numbers, and any bounds on the requests and on the link.   *)
(*                                                                         *)
(* The argument: the number of a request is its identity modulo a round,   *)
(* kept in 1..Round, and no frame anywhere carries another number than     *)
(* that of its identity.  Two frames with one number are then a multiple   *)
(* of Round apart, and during an exchange no frame is younger than the     *)
(* current request.                                                        *)
(***************************************************************************)
EXTENDS Exchange, WellFoundedInduction, SequenceTheorems, TLAPS

Round == SequenceModulus - 1

(* The number that next_sequence gives to the request id; 0 for no request.*)
Numbered(id, seq) ==
    \/ id = 0 /\ seq = 0
    \/ seq \in 1..Round /\ \E k \in Nat : id = seq + k * Round

(* The frames that can be about: each with its own number, and of a        *)
(* request that was made.                                                  *)
KnownRequests == {f \in Request : Numbered(f.id, f.seq) /\ f.id <= issued}
KnownResponses == {f \in Response : Numbered(f.id, f.seq) /\ f.id <= issued}

Exchanging == pc \in {"write", "check", "reading", "busy"}

FramesKnown ==
    /\ request \in KnownRequests
    /\ toDevice \in Seq(KnownRequests)
    /\ fromDevice \in Seq(KnownResponses)
    /\ buffer \in Seq(KnownResponses)

(* The current request is the last one, and what was decoded for it is its *)
(* own answer.                                                             *)
CurrentIsLast ==
    /\ Exchanging => issued > 0 /\ request.id = issued
    /\ pc = "busy" => attempt < Retries
    /\ taken # NoResponse =>
          /\ taken.id # 0
          /\ taken.id = request.id \/ RoundApart(taken.id, request.id)

Inv ==
    /\ TypeOK
    /\ Numbered(issued + 1, sequence)
    /\ FramesKnown
    /\ CurrentIsLast

USE ExchangeAssumption DEF ExchangeAssumption, Exchanging, link

-------------------------------------------------------------------------------
(* Numbers. *)

LEMMA RoundType == Round \in Nat \ {0}
BY DEF Round

(* Multiples of Round that differ, differ by at least Round. *)
LEMMA MultiplesApart ==
    ASSUME NEW k \in Nat, NEW l \in Nat, k * Round < l * Round
    PROVE  k * Round + Round <= l * Round
<1> DEFINE R == Round
<1>1. R \in Nat
  BY RoundType
<1>2. k < l
  <2>1. ASSUME l <= k PROVE FALSE
    <3>1. PICK d \in Nat : k = l + d
      BY <2>1
    <3>2. k * R = l * R + d * R /\ d * R >= 0
      BY <1>1, <3>1
    <3>3. QED
      BY <3>2, <1>1
  <2>2. QED
    BY <2>1
<1>3. PICK d \in Nat : l = k + 1 + d
  BY <1>2
<1>4. l * R = k * R + R + d * R /\ d * R >= 0
  BY <1>1, <1>3
<1>5. QED
  BY <1>1, <1>4

(* Of two identities with the same number, the younger is a round away. *)
LEMMA SameNumberApart ==
    ASSUME NEW m \in Nat, NEW n \in Nat, NEW seq \in Nat,
           Numbered(m, seq), Numbered(n, seq), m < n
    PROVE  m # 0 /\ RoundApart(m, n)
<1>1. seq \in 1..Round /\ m # 0
  BY RoundType DEF Numbered
<1>2. PICK k \in Nat : m = seq + k * Round
  BY <1>1, RoundType DEF Numbered
<1>3. PICK l \in Nat : n = seq + l * Round
  BY <1>1, RoundType DEF Numbered
<1>4. k * Round \in Nat /\ l * Round \in Nat
  BY RoundType
<1>5. k * Round + Round <= l * Round
  BY <1>2, <1>3, <1>4, MultiplesApart
<1>6. QED
  BY <1>1, <1>2, <1>3, <1>4, <1>5, RoundType DEF RoundApart, Round

(* next_sequence gives the next identity its number. *)
LEMMA NextSequenceNumbers ==
    ASSUME NEW id \in Nat \ {0}, NEW seq \in 1..Round, Numbered(id, seq)
    PROVE  NextSequence(seq) \in 1..Round /\ Numbered(id + 1, NextSequence(seq))
<1>1. PICK k \in Nat : id = seq + k * Round
  BY RoundType DEF Numbered
<1>2. CASE seq = Round
  <2>1. NextSequence(seq) = 1
    BY <1>2 DEF NextSequence, Round
  <2>2. (k + 1) * Round = k * Round + Round /\ k * Round \in Nat
    BY RoundType
  <2>3. id + 1 = 1 + (k + 1) * Round
    BY <1>1, <1>2, <2>2, RoundType
  <2>4. 1 \in 1..Round /\ k + 1 \in Nat
    BY RoundType
  <2>5. Numbered(id + 1, 1)
    BY <2>3, <2>4 DEF Numbered
  <2>6. QED
    BY <2>1, <2>4, <2>5
<1>3. CASE seq # Round
  <2>1. NextSequence(seq) = seq + 1
    BY <1>3 DEF NextSequence, Round
  <2>2. id + 1 = (seq + 1) + k * Round
    BY <1>1, RoundType
  <2>3. QED
    BY <1>3, <2>1, <2>2, RoundType DEF Numbered
<1>4. QED
  BY <1>2, <1>3

-------------------------------------------------------------------------------
(* Frames. *)

(* What is known of a frame stays known when more requests are made. *)
LEMMA KnownGrows ==
    ASSUME TypeOK, issued' \in {issued, issued + 1}
    PROVE  /\ KnownRequests \subseteq KnownRequests'
           /\ KnownResponses \subseteq KnownResponses'
<1>1. \A n \in Nat : n <= issued => n <= issued'
  BY DEF TypeOK
<1>2. ASSUME NEW f \in KnownRequests PROVE f \in KnownRequests'
  BY <1>1 DEF KnownRequests, Request
<1>3. ASSUME NEW f \in KnownResponses PROVE f \in KnownResponses'
  BY <1>1 DEF KnownResponses, Response
<1>4. QED
  BY <1>2, <1>3

(* A channel holds nothing but what was sent over it. *)
LEMMA SendKeeps ==
    ASSUME NEW S, NEW channel \in Seq(S), NEW frame \in S
    PROVE  Send(channel, frame) \in Seq(S)
BY AppendProperties DEF Send

(* A match that exists has a first one. *)
LEMMA FirstMatchMatches ==
    ASSUME NEW s, Len(buffer) \in Nat, Matches(s) # {}
    PROVE  FirstMatch(s) \in Matches(s)
<1> DEFINE Less == {p \in Nat \X Nat : p[1] < p[2]}
<1>1. IsWellFoundedOn(Less, Nat)
  BY NatLessThanWellFounded DEF OpToRel
<1>2. Matches(s) \subseteq Nat
  BY DEF Matches
<1>3. PICK i \in Matches(s) : \A j \in Matches(s) : <<j, i>> \notin Less
  BY <1>1, <1>2, WFMin
<1>4. ASSUME NEW j \in Matches(s) PROVE i <= j
  <2>1. i \in Nat /\ j \in Nat
    BY <1>2
  <2>2. <<j, i>> \notin Less
    BY <1>3
  <2>3. ~(j < i)
    BY <2>1, <2>2
  <2>4. QED
    BY <2>1, <2>3
<1>5. QED
  BY <1>4 DEF FirstMatch

(* Known frames are frames of their type. *)
LEMMA KnownTyped ==
    FramesKnown => /\ request \in Request
                   /\ toDevice \in Seq(Request)
                   /\ fromDevice \in Seq(Response)
                   /\ buffer \in Seq(Response)
<1>1. KnownRequests \subseteq Request /\ KnownResponses \subseteq Response
  BY DEF KnownRequests, KnownResponses
<1>2. QED
  BY <1>1, SeqMonotonic DEF FramesKnown

LEMMA KnownTypedNext ==
    (FramesKnown => /\ request \in Request
                    /\ toDevice \in Seq(Request)
                    /\ fromDevice \in Seq(Response)
                    /\ buffer \in Seq(Response))'
BY KnownTyped, PTL

LEMMA SameKnown ==
    ASSUME issued' = issued
    PROVE  KnownRequests' = KnownRequests /\ KnownResponses' = KnownResponses
BY DEF KnownRequests, KnownResponses

(* The special frames are known, whatever was issued. *)
LEMMA SpecialFrames ==
    ASSUME issued \in Nat
    PROVE  /\ HeartbeatFrame \in KnownRequests /\ NoRequest \in KnownRequests
           /\ NoResponse \in Response
           /\ [id |-> 0, seq |-> 0, kind |-> "nack"] \in KnownResponses
BY DEF HeartbeatFrame, NoRequest, NoResponse, KnownRequests, KnownResponses,
       Request, Response, Kinds, Numbered

(* The frame of a request that is being made. *)
LEMMA NewFrame ==
    ASSUME TypeOK, Numbered(issued + 1, sequence), issued' = issued + 1
    PROVE  [id |-> issued + 1, seq |-> sequence] \in KnownRequests'
BY DEF TypeOK, KnownRequests, Request

-------------------------------------------------------------------------------
(* The steps. *)

(* The initial state satisfies Inv. *)
LEMMA InitInv == Init => Inv
<1> SUFFICES ASSUME Init PROVE Inv
  OBVIOUS
<1>1. issued = 0 /\ sequence = 1 /\ Numbered(1, 1)
  <2>1. 1 = 1 + 0 * Round /\ 1 \in 1..Round
    BY RoundType
  <2>2. QED
    BY <2>1 DEF Init, Numbered
<1>2. FramesKnown
  BY <1>1, SpecialFrames, EmptySeq DEF Init, FramesKnown
<1>3. TypeOK
  <2>1. sequence \in 1..(SequenceModulus - 1)
    BY <1>1
  <2>2. expired \in BOOLEAN
    BY DEF Init
  <2>3. attempt \in 0..Retries
    BY DEF Init
  <2>4. taken \in Response
    BY <1>1, SpecialFrames DEF Init
  <2>5. QED
    BY <1>1, <1>2, <2>1, <2>2, <2>3, <2>4, KnownTyped DEF Init, TypeOK
<1>4. CurrentIsLast
  BY DEF Init, CurrentIsLast
<1>5. QED
  BY <1>1, <1>2, <1>3, <1>4 DEF Inv

(* Numbering a request preserves Inv, and so does the STOP_ALL of close(). *)
LEMMA NumberPreservesInv ==
    ASSUME Inv, Begin \/ Close
    PROVE  Inv'
<1> USE DEF Inv
<1>1. issued' = issued + 1 /\ sequence' = NextSequence(sequence) /\ issued \in Nat
  BY DEF Begin, Close, TypeOK
<1>2. sequence' \in 1..(SequenceModulus - 1) /\ Numbered(issued' + 1, sequence')
  BY <1>1, NextSequenceNumbers DEF TypeOK, Round
<1>3. [id |-> issued + 1, seq |-> sequence] \in KnownRequests'
  BY <1>1, NewFrame
<1>4. /\ toDevice \in Seq(KnownRequests') /\ request \in KnownRequests'
      /\ fromDevice \in Seq(KnownResponses') /\ buffer \in Seq(KnownResponses')
  BY <1>1, KnownGrows, SeqMonotonic DEF FramesKnown
<1>5. CASE Begin
  <2>1. FramesKnown'
    BY <1>3, <1>4, <1>5 DEF Begin, FramesKnown
  <2>2. taken' \in Response /\ attempt' \in 0..Retries
    BY <1>1, <1>5, SpecialFrames DEF Begin
  <2>3. TypeOK'
    BY <1>1, <1>2, <1>5, <2>1, <2>2, KnownTypedNext DEF Begin, TypeOK
  <2>4. CurrentIsLast'
    BY <1>1, <1>5 DEF Begin, CurrentIsLast
  <2>5. QED
    BY <1>2, <2>1, <2>3, <2>4
<1>6. CASE Close
  <2>1. toDevice' \in Seq(KnownRequests')
    BY <1>3, <1>4, <1>6, SendKeeps DEF Close
  <2>2. FramesKnown'
    BY <1>4, <1>6, <2>1 DEF Close, FramesKnown
  <2>3. TypeOK'
    BY <1>1, <1>2, <1>6, <2>2, KnownTypedNext DEF Close, TypeOK
  <2>4. CurrentIsLast'
    BY <1>6 DEF Close, CurrentIsLast, RoundApart
  <2>5. QED
    BY <1>2, <2>2, <2>3, <2>4
<1>7. QED
  BY <1>5, <1>6

(* Writing a frame, and waiting after BUSY, preserve Inv. *)
LEMMA WritePreservesInv ==
    ASSUME Inv, Write \/ BusyElapsed \/ WriteHeartbeat
    PROVE  Inv'
<1> USE DEF Inv
<1>1. CASE Write
  <2>1. FramesKnown'
    <3>1. toDevice' \in Seq(KnownRequests)
      BY <1>1, SendKeeps DEF Write, FramesKnown
    <3>2. QED
      BY <1>1, <3>1, SameKnown DEF Write, FramesKnown
  <2>2. TypeOK'
    BY <1>1, <2>1, SpecialFrames, KnownTypedNext DEF Write, TypeOK
  <2>3. CurrentIsLast'
    BY <1>1 DEF Write, CurrentIsLast, RoundApart, TypeOK
  <2>4. Numbered(issued' + 1, sequence')
    BY <1>1 DEF Write
  <2>5. QED
    BY <2>1, <2>2, <2>3, <2>4
<1>2. CASE BusyElapsed
  <2>1. FramesKnown'
    BY <1>2, SameKnown DEF BusyElapsed, FramesKnown
  <2>2. TypeOK'
    BY <1>2, <2>1, KnownTypedNext DEF BusyElapsed, TypeOK, CurrentIsLast
  <2>3. CurrentIsLast'
    BY <1>2 DEF BusyElapsed, CurrentIsLast, RoundApart, TypeOK
  <2>4. Numbered(issued' + 1, sequence')
    BY <1>2 DEF BusyElapsed
  <2>5. QED
    BY <2>1, <2>2, <2>3, <2>4
<1>3. CASE WriteHeartbeat
  <2>1. FramesKnown'
    <3>1. HeartbeatFrame \in KnownRequests
      BY SpecialFrames DEF TypeOK
    <3>2. toDevice' \in Seq(KnownRequests)
      BY <1>3, <3>1, SendKeeps DEF WriteHeartbeat, FramesKnown
    <3>3. QED
      BY <1>3, <3>2, SameKnown DEF WriteHeartbeat, FramesKnown
  <2>2. TypeOK'
    BY <1>3, <2>1, KnownTypedNext DEF WriteHeartbeat, TypeOK
  <2>3. CurrentIsLast'
    BY <1>3 DEF WriteHeartbeat, CurrentIsLast, RoundApart, TypeOK
  <2>4. Numbered(issued' + 1, sequence')
    BY <1>3 DEF WriteHeartbeat
  <2>5. QED
    BY <2>1, <2>2, <2>3, <2>4
<1>4. QED
  BY <1>1, <1>2, <1>3

(* Reading, and the deadline, preserve Inv. *)
LEMMA ReadPreservesInv ==
    ASSUME Inv, Receive \/ ReadEmpty \/ Listen \/ TimeOut \/ Expire \/ Open
    PROVE  Inv'
<1> USE DEF Inv
<1>1. CASE Receive
  <2>1. FramesKnown'
    <3>1. PICK k \in 1..Len(fromDevice) :
              /\ buffer' = buffer \o SubSeq(fromDevice, 1, k)
              /\ fromDevice' = SubSeq(fromDevice, k + 1, Len(fromDevice))
      BY <1>1 DEF Receive
    <3>2. Len(fromDevice) \in Nat /\ \A i \in 1..Len(fromDevice) : fromDevice[i] \in KnownResponses
      BY LenProperties, ElementOfSeq DEF FramesKnown
    <3>3. SubSeq(fromDevice, 1, k) \in Seq(KnownResponses)
      BY <3>2, SubSeqProperties
    <3>4. SubSeq(fromDevice, k + 1, Len(fromDevice)) \in Seq(KnownResponses)
      BY <3>2, SubSeqProperties
    <3>5. buffer' \in Seq(KnownResponses)
      BY <3>1, <3>3, ConcatProperties DEF FramesKnown
    <3>6. QED
      BY <1>1, <3>1, <3>4, <3>5, SameKnown DEF Receive, FramesKnown
  <2>2. TypeOK'
    BY <1>1, <2>1, KnownTypedNext DEF Receive, TypeOK
  <2>3. CurrentIsLast'
    BY <1>1 DEF Receive, CurrentIsLast, RoundApart, TypeOK
  <2>4. Numbered(issued' + 1, sequence')
    BY <1>1 DEF Receive
  <2>5. QED
    BY <2>1, <2>2, <2>3, <2>4
<1>2. CASE ReadEmpty
  <2>1. FramesKnown'
    BY <1>2, SameKnown, EmptySeq DEF ReadEmpty, FramesKnown
  <2>2. TypeOK'
    BY <1>2, <2>1, KnownTypedNext DEF ReadEmpty, TypeOK
  <2>3. CurrentIsLast'
    BY <1>2 DEF ReadEmpty, CurrentIsLast, RoundApart, TypeOK
  <2>4. Numbered(issued' + 1, sequence')
    BY <1>2 DEF ReadEmpty
  <2>5. QED
    BY <2>1, <2>2, <2>3, <2>4
<1>3. CASE Listen
  <2>1. FramesKnown'
    BY <1>3, SameKnown, EmptySeq DEF Listen, FramesKnown
  <2>2. TypeOK'
    BY <1>3, <2>1, KnownTypedNext DEF Listen, TypeOK
  <2>3. CurrentIsLast'
    BY <1>3 DEF Listen, CurrentIsLast, RoundApart, TypeOK
  <2>4. Numbered(issued' + 1, sequence')
    BY <1>3 DEF Listen
  <2>5. QED
    BY <2>1, <2>2, <2>3, <2>4
<1>4. CASE TimeOut
  <2>1. FramesKnown'
    BY <1>4, SameKnown, EmptySeq DEF TimeOut, FramesKnown
  <2>2. TypeOK'
    BY <1>4, <2>1, KnownTypedNext DEF TimeOut, TypeOK
  <2>3. CurrentIsLast'
    BY <1>4 DEF TimeOut, CurrentIsLast, RoundApart, TypeOK
  <2>4. Numbered(issued' + 1, sequence')
    BY <1>4 DEF TimeOut
  <2>5. QED
    BY <2>1, <2>2, <2>3, <2>4
<1>5. CASE Expire
  <2>1. FramesKnown'
    BY <1>5, SameKnown, EmptySeq DEF Expire, FramesKnown
  <2>2. TypeOK'
    BY <1>5, <2>1, KnownTypedNext DEF Expire, TypeOK
  <2>3. CurrentIsLast'
    BY <1>5 DEF Expire, CurrentIsLast, RoundApart, TypeOK
  <2>4. Numbered(issued' + 1, sequence')
    BY <1>5 DEF Expire
  <2>5. QED
    BY <2>1, <2>2, <2>3, <2>4
<1>6. CASE Open
  <2>1. FramesKnown'
    BY <1>6, SameKnown, EmptySeq DEF Open, FramesKnown
  <2>2. TypeOK'
    BY <1>6, <2>1, KnownTypedNext DEF Open, TypeOK
  <2>3. CurrentIsLast'
    BY <1>6 DEF Open, CurrentIsLast, RoundApart, TypeOK
  <2>4. Numbered(issued' + 1, sequence')
    BY <1>6 DEF Open
  <2>5. QED
    BY <2>1, <2>2, <2>3, <2>4
<1>7. QED
  BY <1>1, <1>2, <1>3, <1>4, <1>5, <1>6

(* The response that is taken is of the current request, or a whole round  *)
(* of numbers late.                                                        *)
LEMMA TakenIsOwn ==
    ASSUME Inv, Take
    PROVE  /\ taken' \in KnownResponses
           /\ buffer' \in Seq(KnownResponses)
           /\ taken'.seq = request.seq /\ taken'.id # 0 /\ taken' # NoResponse
           /\ taken'.id = request.id \/ RoundApart(taken'.id, request.id)
<1> USE DEF Inv
<1> DEFINE i == FirstMatch(request.seq)
<1>1. Len(buffer) \in Nat /\ \A j \in 1..Len(buffer) : buffer[j] \in KnownResponses
  BY LenProperties, ElementOfSeq DEF FramesKnown
<1>2. i \in Matches(request.seq)
  BY <1>1, FirstMatchMatches DEF Take, Answered
<1>3. i \in 1..Len(buffer) /\ buffer[i].seq = request.seq
  BY <1>2 DEF Matches
<1>4. taken' = buffer[i] /\ buffer' = SubSeq(buffer, i + 1, Len(buffer))
  BY DEF Take
<1>5. buffer' \in Seq(KnownResponses)
  <2>1. i + 1 \in Int /\ \A j \in (i + 1)..Len(buffer) : buffer[j] \in KnownResponses
    BY <1>1, <1>3
  <2>2. QED
    BY <1>1, <1>4, <2>1, SubSeqProperties
<1>6. taken' \in KnownResponses /\ taken'.seq = request.seq
  BY <1>1, <1>3, <1>4
<1>7. issued > 0 /\ request.id = issued
  BY DEF Take, CurrentIsLast
<1>8. request.seq \in 1..Round /\ request.id \in Nat /\ Numbered(request.id, request.seq)
  BY <1>7 DEF FramesKnown, KnownRequests, Request, Numbered, TypeOK
<1>9. /\ taken'.id \in Nat /\ taken'.id <= request.id
      /\ Numbered(taken'.id, request.seq)
  BY <1>6, <1>7 DEF KnownResponses, Response
<1>10. taken'.id # 0 /\ taken' # NoResponse
  BY <1>6, <1>8, <1>9, RoundType DEF Numbered, NoResponse
<1>11. taken'.id = request.id \/ RoundApart(taken'.id, request.id)
  <2>1. CASE taken'.id < request.id
    BY <1>8, <1>9, <2>1, SameNumberApart, RoundType
  <2>2. CASE ~(taken'.id < request.id)
    BY <1>8, <1>9, <2>2
  <2>3. QED
    BY <2>1, <2>2
<1>12. QED
  BY <1>5, <1>6, <1>10, <1>11

(* Taking it preserves Inv. *)
LEMMA TakePreservesInv ==
    ASSUME Inv, Take
    PROVE  Inv'
<1> USE DEF Inv
<1>1. FramesKnown'
  BY TakenIsOwn, SameKnown DEF Take, FramesKnown
<1>2. taken' \in Response
  BY TakenIsOwn DEF KnownResponses
<1>3. pc' \in {"busy", "idle"} /\ (pc' = "busy" => attempt < Retries)
  BY DEF Take
<1>4. TypeOK'
  BY <1>1, <1>2, <1>3, KnownTypedNext DEF Take, TypeOK
<1>5. CurrentIsLast'
  BY <1>3, TakenIsOwn DEF Take, CurrentIsLast, RoundApart
<1>6. QED
  BY <1>1, <1>4, <1>5 DEF Take

(* Whatever the device and the link do preserves Inv: an answer carries    *)
(* the number of the request it is about.                                  *)
LEMMA EnvironmentPreservesInv ==
    ASSUME Inv, Environment
    PROVE  Inv'
<1> USE DEF Inv
<1>1. CASE DeviceAnswer
  <2>1. FramesKnown'
    <3>1. Head(toDevice) \in KnownRequests /\ Tail(toDevice) \in Seq(KnownRequests)
      BY <1>1, HeadTailProperties DEF DeviceAnswer, FramesKnown
    <3>2. ASSUME NEW kind \in Kinds
          PROVE  [id |-> Head(toDevice).id, seq |-> Head(toDevice).seq, kind |-> kind]
                    \in KnownResponses
      BY <3>1 DEF KnownRequests, KnownResponses, Request, Response
    <3>3. fromDevice' \in Seq(KnownResponses)
      BY <1>1, <3>2, SendKeeps DEF DeviceAnswer, FramesKnown
    <3>4. QED
      BY <1>1, <3>1, <3>3, SameKnown DEF DeviceAnswer, FramesKnown
  <2>2. TypeOK'
    BY <1>1, <2>1, KnownTypedNext DEF DeviceAnswer, TypeOK
  <2>3. CurrentIsLast'
    BY <1>1 DEF DeviceAnswer, CurrentIsLast, RoundApart, TypeOK
  <2>4. Numbered(issued' + 1, sequence')
    BY <1>1 DEF DeviceAnswer
  <2>5. QED
    BY <2>1, <2>2, <2>3, <2>4
<1>2. CASE DeviceComplain
  <2>1. FramesKnown'
    <3>1. [id |-> 0, seq |-> 0, kind |-> "nack"] \in KnownResponses
      BY SpecialFrames DEF TypeOK
    <3>2. fromDevice' \in Seq(KnownResponses)
      BY <1>2, <3>1, AppendProperties DEF DeviceComplain, FramesKnown
    <3>3. QED
      BY <1>2, <3>2, SameKnown DEF DeviceComplain, FramesKnown
  <2>2. TypeOK'
    BY <1>2, <2>1, KnownTypedNext DEF DeviceComplain, TypeOK
  <2>3. CurrentIsLast'
    BY <1>2 DEF DeviceComplain, CurrentIsLast, RoundApart, TypeOK
  <2>4. Numbered(issued' + 1, sequence')
    BY <1>2 DEF DeviceComplain
  <2>5. QED
    BY <2>1, <2>2, <2>3, <2>4
<1>3. CASE LoseResponse
  <2>1. FramesKnown'
    <3>1. Tail(fromDevice) \in Seq(KnownResponses)
      BY <1>3, HeadTailProperties DEF LoseResponse, FramesKnown
    <3>2. QED
      BY <1>3, <3>1, SameKnown DEF LoseResponse, FramesKnown
  <2>2. TypeOK'
    BY <1>3, <2>1, KnownTypedNext DEF LoseResponse, TypeOK
  <2>3. CurrentIsLast'
    BY <1>3 DEF LoseResponse, CurrentIsLast, RoundApart, TypeOK
  <2>4. Numbered(issued' + 1, sequence')
    BY <1>3 DEF LoseResponse
  <2>5. QED
    BY <2>1, <2>2, <2>3, <2>4
<1>4. QED
  BY <1>1, <1>2, <1>3 DEF Environment

-------------------------------------------------------------------------------

(* Every reachable state satisfies Inv. *)
THEOREM InvHolds == Spec => []Inv
<1>1. Inv /\ [Next]_vars => Inv'
  <2> SUFFICES ASSUME Inv, [Next]_vars PROVE Inv'
    OBVIOUS
  <2>1. CASE Begin \/ Close
    BY <2>1, NumberPreservesInv
  <2>2. CASE Write \/ BusyElapsed \/ WriteHeartbeat
    BY <2>2, WritePreservesInv
  <2>3. CASE Receive \/ ReadEmpty \/ Listen \/ TimeOut \/ Expire \/ Open
    BY <2>3, ReadPreservesInv
  <2>4. CASE Take
    BY <2>4, TakePreservesInv
  <2>5. CASE Environment
    BY <2>5, EnvironmentPreservesInv
  <2>6. CASE UNCHANGED vars
    <3>1. FramesKnown'
      BY <2>6, SameKnown DEF vars, Inv, FramesKnown
    <3>2. TypeOK' /\ CurrentIsLast' /\ Numbered(issued' + 1, sequence')
      BY <2>6 DEF vars, Inv, TypeOK, CurrentIsLast, RoundApart
    <3>3. QED
      BY <3>1, <3>2 DEF Inv
  <2>7. QED
    BY <2>1, <2>2, <2>3, <2>4, <2>5, <2>6 DEF Next, ExchangeStep
<1>2. QED
  BY InitInv, <1>1, PTL DEF Spec

(* The state of the exchange stays within its type: sequence numbers in    *)
(* 1..SequenceModulus - 1, 0 never, and no attempt beyond the retries.     *)
THEOREM TypeCorrect == Spec => []TypeOK
<1>1. Inv => TypeOK
  BY DEF Inv
<1>2. QED
  BY InvHolds, <1>1, PTL

(* The response that an exchange acts on is its own, unless it is late by  *)
(* a whole round of sequence numbers.                                      *)
THEOREM AnswersAreOwn == Spec => []AnswerIsOwn
<1>1. Inv => AnswerIsOwn
  BY DEF Inv, CurrentIsLast, AnswerIsOwn
<1>2. QED
  BY InvHolds, <1>1, PTL

(* Frames on the way to the device that carry the same number carry the    *)
(* same request, unless a whole round of numbers lies between them.        *)
THEOREM NumbersNameRequests == Spec => []NumberNamesRequest
<1>1. Inv => NumberNamesRequest
  <2> SUFFICES ASSUME Inv, NEW i \in 1..Len(toDevice), NEW j \in 1..Len(toDevice),
                      toDevice[i].seq = toDevice[j].seq, toDevice[i].id < toDevice[j].id
               PROVE  RoundApart(toDevice[i].id, toDevice[j].id)
    BY DEF NumberNamesRequest
  <2>1. toDevice[i] \in KnownRequests /\ toDevice[j] \in KnownRequests
    BY ElementOfSeq DEF Inv, FramesKnown
  <2>2. QED
    BY <2>1, SameNumberApart DEF KnownRequests, Request
<1>2. QED
  BY InvHolds, <1>1, PTL
===============================================================================
