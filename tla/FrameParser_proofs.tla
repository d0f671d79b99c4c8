--------------------------- MODULE FrameParser_proofs ---------------------------
(***************************************************************************)
(* For every frame format, every stream and every way to cut it into       *)
(* reads: the parser finds the frames that a scan from the left finds, its *)
(* buffer is bounded, and only an answer inside another frame is passed by *)
(* in the search for an answer.                                            *)
(***************************************************************************)
EXTENDS FrameParser, SequenceTheorems, TLAPS

(* Position p begins no frame, and what comes later cannot change that.    *)
Refuted(p) ==
    \/ /\ p + 1 <= Len(received)
       /\ ~MagicAt(p)
    \/ /\ p + HeaderSize - 1 <= Len(received)
       /\ PayloadLength(HeaderAt(p)) > MaxPayload
    \/ /\ p + HeaderSize - 1 <= Len(received)
       /\ p + LengthAt(p) - 1 <= Len(received)
       /\ ~ChecksumFits(FrameAt(p))

FramesWhole ==
    \A p \in frames : DecodableAt(p) /\ p + LengthAt(p) - 1 <= head
FramesApart ==
    \A p, q \in frames : p < q => p + LengthAt(p) <= q

(* An erased byte belongs to a decoded frame, or was refused for good.     *)
(* ScansFromTheLeft alone is not inductive: it does not say that a byte    *)
(* erased earlier will not turn out to begin a frame.                      *)
Accounted ==
    \A p \in 1..head :
        Refuted(p) \/ \E q \in frames : q <= p /\ p < q + LengthAt(q)

WaitsForOneFrame == pc = "wait" => Buffered <= MaxFrame - 1

(* A call that is still under way has decoded no answer.  AnswersOnlyHidden *)
(* says nothing of a call between two waits, where its frames are decoded. *)
NoneReturned ==
    pc \in {"parse", "wait"} =>
        \A q \in frames : since < q => SequenceOf(HeaderAt(q)) # expected

(* What the parser waits for is the rest of a header, or of a frame. *)
WaitsForTheRest ==
    pc = "wait" =>
        \/ Buffered < HeaderSize
        \/ MagicAt(head + 1) /\ Buffered < LengthAt(head + 1)

Inv ==
    /\ TypeOK
    /\ FramesWhole /\ FramesApart /\ Accounted
    /\ WaitsForOneFrame /\ BufferBounded
    /\ NoneReturned /\ WaitsForTheRest

-------------------------------------------------------------------------------

(* The header at a position that has one is a header. *)
LEMMA HeaderType ==
    ASSUME received \in Seq(Byte), NEW p \in Nat \ {0},
           p + HeaderSize - 1 <= Len(received)
    PROVE  /\ HeaderAt(p) \in Header
           /\ PayloadLength(HeaderAt(p)) \in Nat
           /\ LengthAt(p) \in Nat /\ LengthAt(p) >= HeaderSize
<1>1. HeaderSize \in Nat /\ HeaderSize >= 2
  BY FormatAssumption
<1>2. HeaderAt(p) \in Header
  <2>1. p \in 1..(Len(received) + 1) /\ p + HeaderSize - 1 \in (p - 1)..Len(received)
    BY <1>1
  <2>2. HeaderAt(p) \in Seq(Byte) /\ Len(HeaderAt(p)) = HeaderSize
    BY <1>1, <2>1, SubSeqProperties DEF HeaderAt
  <2>3. QED
    BY <2>2, LenProperties DEF Header
<1>3. PayloadLength(HeaderAt(p)) \in Nat
  BY <1>2, FormatAssumption
<1>4. QED
  BY <1>2, <1>3, FormatAssumption DEF LengthAt

(* What was received stays as it is when more comes. *)
LEMMA Prefix ==
    ASSUME NEW s \in Seq(Byte), NEW t \in Seq(Byte)
    PROVE  /\ s \o t \in Seq(Byte)
           /\ Len(s \o t) = Len(s) + Len(t)
           /\ \A p \in 1..Len(s) : (s \o t)[p] = s[p]
           /\ \A p \in 1..Len(s) : \A q \in (p - 1)..Len(s) :
                 SubSeq(s \o t, p, q) = SubSeq(s, p, q)
<1>1. /\ s \o t \in Seq(Byte)
      /\ Len(s \o t) = Len(s) + Len(t)
      /\ \A p \in 1..Len(s) : (s \o t)[p] = s[p]
  OBVIOUS
<1>2. ASSUME NEW p \in 1..Len(s), NEW q \in (p - 1)..Len(s)
      PROVE  SubSeq(s \o t, p, q) = SubSeq(s, p, q)
  <2>1. /\ p \in 1..(Len(s) + 1) /\ q \in (p - 1)..Len(s)
        /\ p \in 1..(Len(s \o t) + 1) /\ q \in (p - 1)..Len(s \o t)
    BY <1>1
  <2>2. /\ SubSeq(s, p, q) \in Seq(Byte) /\ Len(SubSeq(s, p, q)) = q - p + 1
        /\ \A i \in 1..(q - p + 1) : SubSeq(s, p, q)[i] = s[p + i - 1]
    BY <2>1, SubSeqProperties
  <2>3. /\ SubSeq(s \o t, p, q) \in Seq(Byte) /\ Len(SubSeq(s \o t, p, q)) = q - p + 1
        /\ \A i \in 1..(q - p + 1) : SubSeq(s \o t, p, q)[i] = (s \o t)[p + i - 1]
    BY <1>1, <2>1, SubSeqProperties
  <2>4. \A i \in 1..(q - p + 1) : (s \o t)[p + i - 1] = s[p + i - 1]
    BY <1>1
  <2>5. QED
    BY <2>2, <2>3, <2>4, SeqEqual
<1>3. QED
  BY <1>1, <1>2

(* A verdict on a position, for or against, is final. *)
LEMMA VerdictsStay ==
    ASSUME received \in Seq(Byte), NEW t \in Seq(Byte), received' = received \o t,
           NEW p \in Nat \ {0}
    PROVE  /\ p + HeaderSize - 1 <= Len(received) =>
                 HeaderAt(p)' = HeaderAt(p) /\ LengthAt(p)' = LengthAt(p)
           /\ DecodableAt(p) => DecodableAt(p)'
           /\ Refuted(p) => Refuted(p)'
<1>1. HeaderSize \in Nat /\ HeaderSize >= 2
  BY FormatAssumption
<1>2. received' \in Seq(Byte) /\ Len(received') = Len(received) + Len(t)
  BY Prefix
<1>3. p + 1 <= Len(received) => MagicAt(p)' = MagicAt(p)
  BY Prefix DEF MagicAt
<1>4. ASSUME p + HeaderSize - 1 <= Len(received)
      PROVE  HeaderAt(p)' = HeaderAt(p) /\ LengthAt(p)' = LengthAt(p)
  <2>1. p \in 1..Len(received) /\ p + HeaderSize - 1 \in (p - 1)..Len(received)
    BY <1>1, <1>4
  <2>2. SubSeq(received \o t, p, p + HeaderSize - 1) = SubSeq(received, p, p + HeaderSize - 1)
    BY <2>1, Prefix
  <2>3. QED
    BY <2>2 DEF HeaderAt, LengthAt
<1>5. ASSUME p + HeaderSize - 1 <= Len(received), p + LengthAt(p) - 1 <= Len(received)
      PROVE  FrameAt(p)' = FrameAt(p)
  <2>1. LengthAt(p) \in Nat /\ LengthAt(p) >= HeaderSize
    BY <1>5, HeaderType
  <2>2. p \in 1..Len(received) /\ p + LengthAt(p) - 1 \in (p - 1)..Len(received)
    BY <1>1, <1>5, <2>1
  <2>3. SubSeq(received \o t, p, p + LengthAt(p) - 1) = SubSeq(received, p, p + LengthAt(p) - 1)
    BY <2>2, Prefix
  <2>4. QED
    BY <1>4, <1>5, <2>3 DEF FrameAt
<1>6. p + HeaderSize - 1 <= Len(received) => p + 1 <= Len(received)
  BY <1>1
<1>7. DecodableAt(p) => DecodableAt(p)'
  <2> SUFFICES ASSUME DecodableAt(p) PROVE DecodableAt(p)'
    OBVIOUS
  <2>1. /\ p + HeaderSize - 1 <= Len(received) /\ MagicAt(p)
        /\ PayloadLength(HeaderAt(p)) <= MaxPayload
        /\ p + LengthAt(p) - 1 <= Len(received)
        /\ ChecksumFits(FrameAt(p))
    BY DEF DecodableAt
  <2>2. LengthAt(p) \in Nat
    BY <2>1, HeaderType
  <2>3. /\ p + HeaderSize - 1 <= Len(received')
        /\ p + LengthAt(p) - 1 <= Len(received')
    BY <1>1, <1>2, <2>1, <2>2
  <2>4. /\ MagicAt(p)' /\ HeaderAt(p)' = HeaderAt(p) /\ LengthAt(p)' = LengthAt(p)
        /\ FrameAt(p)' = FrameAt(p)
    BY <1>3, <1>4, <1>5, <1>6, <2>1
  <2>5. QED
    BY <2>1, <2>3, <2>4 DEF DecodableAt
<1>8. Refuted(p) => Refuted(p)'
  <2>1. CASE p + 1 <= Len(received) /\ ~MagicAt(p)
    BY <2>1, <1>2, <1>3 DEF Refuted
  <2>2. CASE p + HeaderSize - 1 <= Len(received) /\ PayloadLength(HeaderAt(p)) > MaxPayload
    BY <2>2, <1>1, <1>2, <1>4 DEF Refuted
  <2>3. CASE /\ p + HeaderSize - 1 <= Len(received)
             /\ p + LengthAt(p) - 1 <= Len(received)
             /\ ~ChecksumFits(FrameAt(p))
    <3>1. LengthAt(p) \in Nat
      BY <2>3, HeaderType
    <3>2. /\ p + HeaderSize - 1 <= Len(received')
          /\ p + LengthAt(p) - 1 <= Len(received')
      BY <1>1, <1>2, <2>3, <3>1
    <3>3. QED
      BY <1>4, <1>5, <2>3, <3>2 DEF Refuted
  <2>4. QED
    BY <2>1, <2>2, <2>3 DEF Refuted
<1>9. QED
  BY <1>4, <1>7, <1>8

-------------------------------------------------------------------------------

LEMMA InitInv == Init => Inv
BY FormatAssumption, LinkAssumption
   DEF Init, Inv, TypeOK, FramesWhole, FramesApart, Accounted, WaitsForOneFrame,
       BufferBounded, Buffered, MaxFrame, NoneReturned, WaitsForTheRest

(* Steps that leave the received bytes and the parser's position alone. *)
LEMMA UnmovedInv ==
    ASSUME Inv, UNCHANGED <<received, head, frames>>
    PROVE  (FramesWhole /\ FramesApart /\ Accounted /\ BufferBounded)'
BY DEF Inv, FramesWhole, FramesApart, Accounted, BufferBounded, DecodableAt, Refuted,
       MagicAt, HeaderAt, LengthAt, FrameAt, Buffered

(* Steps that leave the call alone as well. *)
LEMMA SameCallInv ==
    ASSUME Inv, UNCHANGED <<pc, expected, received, head, frames, since>>
    PROVE  (NoneReturned /\ WaitsForTheRest)'
BY DEF Inv, NoneReturned, WaitsForTheRest, MagicAt, HeaderAt, LengthAt, Buffered

(* One byte more is erased, which begins no frame. *)
LEMMA SkipInv ==
    ASSUME Inv, Skip
    PROVE  Inv'
<1> USE DEF Inv
<1>1. /\ UNCHANGED <<pc, expected, wire, received, frames, since>>
      /\ head' = head + 1 /\ pc = "parse" /\ head \in Nat /\ received \in Seq(Byte)
  BY DEF Skip, TypeOK
<1>2. /\ \A p : DecodableAt(p)' = DecodableAt(p) /\ Refuted(p)' = Refuted(p)
      /\ \A p : LengthAt(p)' = LengthAt(p)
  BY <1>1 DEF DecodableAt, Refuted, MagicAt, HeaderAt, LengthAt, FrameAt
<1>3. HeaderSize \in Nat /\ HeaderSize >= 2
  BY FormatAssumption
<1>4. Refuted(head + 1) /\ Buffered >= 2
  <2>1. CASE Buffered >= 2 /\ ~Magic
    BY <1>1, <2>1 DEF Magic, Refuted, Buffered
  <2>2. CASE TooLong
    BY <1>1, <1>3, <2>2 DEF TooLong, Magic, HeaderRead, Refuted, Buffered
  <2>3. CASE Damaged
    <3>1. /\ Buffered >= HeaderSize /\ Buffered >= LengthAt(head + 1)
          /\ ~ChecksumFits(FrameAt(head + 1))
      BY <2>3 DEF Damaged, WholeFrame, HeaderRead
    <3>2. LengthAt(head + 1) \in Nat
      BY <1>1, <1>3, <3>1, HeaderType DEF Buffered
    <3>3. QED
      BY <1>1, <1>3, <3>1, <3>2 DEF Refuted, Buffered
  <2>4. QED
    BY <2>1, <2>2, <2>3 DEF Skip
<1>5. TypeOK'
  BY <1>1, <1>4 DEF TypeOK, Buffered
<1>6. FramesWhole'
  <2> SUFFICES ASSUME NEW p \in frames PROVE DecodableAt(p) /\ p + LengthAt(p) - 1 <= head + 1
    BY <1>1, <1>2 DEF FramesWhole
  <2>1. DecodableAt(p) /\ p + LengthAt(p) - 1 <= head
    BY DEF FramesWhole
  <2>2. p \in Nat \ {0}
    BY <1>1 DEF TypeOK
  <2>3. LengthAt(p) \in Nat
    BY <1>1, <2>1, <2>2, HeaderType DEF DecodableAt
  <2>4. QED
    BY <1>1, <2>1, <2>2, <2>3
<1>7. FramesApart'
  BY <1>1, <1>2 DEF FramesApart
<1>8. Accounted'
  <2> SUFFICES ASSUME NEW p \in 1..(head + 1)
               PROVE  Refuted(p) \/ \E q \in frames : q <= p /\ p < q + LengthAt(q)
    BY <1>1, <1>2 DEF Accounted
  <2>1. CASE p = head + 1
    BY <1>4, <2>1
  <2>2. CASE p \in 1..head
    BY <2>2 DEF Accounted
  <2>3. QED
    BY <1>1, <2>1, <2>2
<1>9. WaitsForOneFrame' /\ BufferBounded'
  BY <1>1, FormatAssumption, LinkAssumption
  DEF WaitsForOneFrame, BufferBounded, Buffered, MaxFrame
<1>10. NoneReturned' /\ WaitsForTheRest'
  BY <1>1 DEF NoneReturned, WaitsForTheRest, HeaderAt
<1>11. QED
  BY <1>5, <1>6, <1>7, <1>8, <1>9, <1>10

(* A frame is decoded and erased. *)
LEMMA DecodeInv ==
    ASSUME Inv, Decode
    PROVE  Inv'
<1> USE DEF Inv
<1>1. /\ UNCHANGED <<expected, wire, received>>
      /\ frames' = frames \cup {head + 1} /\ head' = head + LengthAt(head + 1)
      /\ head \in Nat /\ received \in Seq(Byte) /\ pc = "parse"
      /\ \/ pc' = "idle" /\ since' = 0
         \/ /\ UNCHANGED <<pc, since>>
            /\ SequenceOf(HeaderAt(head + 1)) # expected
  BY DEF Decode, TypeOK
<1>2. /\ \A p : DecodableAt(p)' = DecodableAt(p) /\ Refuted(p)' = Refuted(p)
      /\ \A p : LengthAt(p)' = LengthAt(p)
  BY <1>1 DEF DecodableAt, Refuted, MagicAt, HeaderAt, LengthAt, FrameAt
<1>3. HeaderSize \in Nat /\ HeaderSize >= 2 /\ MaxPayload \in Nat
  BY FormatAssumption
<1>4. /\ head + HeaderSize <= Len(received) /\ MagicAt(head + 1)
      /\ ~(PayloadLength(HeaderAt(head + 1)) > MaxPayload)
      /\ Buffered >= LengthAt(head + 1) /\ ChecksumFits(FrameAt(head + 1))
  BY <1>1, <1>3 DEF Decode, WholeFrame, Damaged, TooLong, Magic, HeaderRead, Buffered
<1>5. /\ LengthAt(head + 1) \in Nat /\ LengthAt(head + 1) >= 2
      /\ PayloadLength(HeaderAt(head + 1)) \in Nat
  BY <1>1, <1>3, <1>4, HeaderType
<1>6. DecodableAt(head + 1)
  BY <1>1, <1>3, <1>4, <1>5 DEF DecodableAt, Buffered
<1>7. \A p \in frames : /\ p \in 1..head /\ LengthAt(p) \in Nat /\ LengthAt(p) >= 2
                        /\ DecodableAt(p) /\ p + LengthAt(p) - 1 <= head
  <2> SUFFICES ASSUME NEW p \in frames
               PROVE  /\ p \in 1..head /\ LengthAt(p) \in Nat /\ LengthAt(p) >= 2
                      /\ DecodableAt(p) /\ p + LengthAt(p) - 1 <= head
    OBVIOUS
  <2>1. p \in 1..head /\ DecodableAt(p) /\ p + LengthAt(p) - 1 <= head
    BY DEF FramesWhole, TypeOK
  <2>2. p \in Nat \ {0} /\ p + HeaderSize - 1 <= Len(received)
    BY <1>1, <2>1 DEF DecodableAt
  <2>3. LengthAt(p) \in Nat /\ LengthAt(p) >= HeaderSize
    BY <1>1, <2>2, HeaderType
  <2>4. QED
    BY <1>3, <2>1, <2>3
<1>8. TypeOK'
  <2>1. head' \in 0..Len(received') /\ head + 1 \in 1..head'
    BY <1>1, <1>4, <1>5 DEF Buffered
  <2>2. frames' \subseteq 1..head'
    BY <1>1, <1>5, <1>7
  <2>3. since' \in 0..head'
    BY <1>1, <1>5 DEF TypeOK
  <2>4. QED
    BY <1>1, <2>1, <2>2, <2>3 DEF TypeOK
<1>9. FramesWhole'
  <2> SUFFICES ASSUME NEW p \in frames \cup {head + 1}
               PROVE  DecodableAt(p) /\ p + LengthAt(p) - 1 <= head + LengthAt(head + 1)
    BY <1>1, <1>2 DEF FramesWhole
  <2>1. CASE p = head + 1
    BY <1>1, <1>5, <1>6, <2>1
  <2>2. CASE p \in frames
    BY <1>1, <1>5, <1>7, <2>2
  <2>3. QED
    BY <2>1, <2>2
<1>10. FramesApart'
  <2> SUFFICES ASSUME NEW p \in frames \cup {head + 1}, NEW q \in frames \cup {head + 1}, p < q
               PROVE  p + LengthAt(p) <= q
    BY <1>1, <1>2 DEF FramesApart
  <2>1. CASE p \in frames /\ q \in frames
    BY <2>1 DEF FramesApart
  <2>2. CASE p \in frames /\ q = head + 1
    BY <1>1, <1>7, <2>2
  <2>3. CASE p = head + 1
    BY <1>1, <1>7, <2>3
  <2>4. QED
    BY <2>1, <2>2, <2>3
<1>11. Accounted'
  <2> SUFFICES ASSUME NEW p \in 1..(head + LengthAt(head + 1))
               PROVE  Refuted(p) \/ \E q \in frames \cup {head + 1} : q <= p /\ p < q + LengthAt(q)
    BY <1>1, <1>2 DEF Accounted
  <2>1. CASE p \in 1..head
    BY <2>1 DEF Accounted
  <2>2. CASE p \in (head + 1)..(head + LengthAt(head + 1))
    BY <1>1, <1>5, <2>2
  <2>3. QED
    BY <1>1, <1>5, <2>1, <2>2
<1>12. WaitsForOneFrame' /\ BufferBounded'
  BY <1>1, <1>5, FormatAssumption, LinkAssumption
  DEF WaitsForOneFrame, BufferBounded, Buffered, MaxFrame
<1>13. NoneReturned' /\ WaitsForTheRest'
  BY <1>1 DEF NoneReturned, WaitsForTheRest, HeaderAt
<1>14. QED
  BY <1>8, <1>9, <1>10, <1>11, <1>12, <1>13

(* The parser waits only for the rest of a frame that may still come. *)
LEMMA WaitInv ==
    ASSUME Inv, Wait
    PROVE  Inv'
<1> USE DEF Inv
<1>1. /\ UNCHANGED <<expected, wire, received, head, frames, since>>
      /\ pc = "parse" /\ pc' = "wait"
      /\ head \in Nat /\ received \in Seq(Byte)
  BY DEF Wait, TypeOK
<1>2. /\ HeaderSize \in Nat /\ HeaderSize >= 2
      /\ Overhead \in Nat /\ Overhead >= HeaderSize /\ MaxPayload \in Nat
  BY FormatAssumption
<1>3. Buffered <= MaxFrame - 1
  <2>1. CASE Buffered < HeaderSize
    BY <1>1, <1>2, <2>1 DEF MaxFrame, Buffered
  <2>2. CASE Buffered >= HeaderSize
    <3>1. Magic /\ ~TooLong /\ ~WholeFrame
      BY <1>1, <1>2, <2>2 DEF Wait, NeedMore, Buffered
    <3>2. LengthAt(head + 1) \in Nat /\ PayloadLength(HeaderAt(head + 1)) \in Nat
      BY <1>1, <1>2, <2>2, HeaderType DEF Buffered
    <3>3. /\ PayloadLength(HeaderAt(head + 1)) <= MaxPayload
          /\ Buffered < LengthAt(head + 1)
      BY <1>1, <1>2, <2>2, <3>1, <3>2 DEF TooLong, WholeFrame, HeaderRead, Buffered
    <3>4. QED
      BY <1>1, <1>2, <3>2, <3>3 DEF LengthAt, MaxFrame, Buffered
  <2>3. QED
    BY <1>1, <1>2, <2>1, <2>2 DEF Buffered
<1>4. TypeOK' /\ WaitsForOneFrame'
  BY <1>1, <1>3 DEF TypeOK, WaitsForOneFrame, Buffered
<1>5. Buffered < HeaderSize \/ (MagicAt(head + 1) /\ Buffered < LengthAt(head + 1))
  <2> SUFFICES ASSUME Buffered >= HeaderSize
               PROVE  MagicAt(head + 1) /\ Buffered < LengthAt(head + 1)
    BY <1>1, <1>2 DEF Buffered, TypeOK
  <2>1. Magic /\ ~TooLong /\ ~WholeFrame
    BY <1>1, <1>2 DEF Wait, NeedMore, Buffered
  <2>2. LengthAt(head + 1) \in Nat
    BY <1>1, <1>2, HeaderType DEF Buffered
  <2>3. QED
    BY <1>1, <1>2, <2>1, <2>2 DEF WholeFrame, HeaderRead, Magic, Buffered
<1>6. NoneReturned' /\ WaitsForTheRest'
  BY <1>1, <1>5 DEF NoneReturned, WaitsForTheRest, HeaderAt, MagicAt, LengthAt, Buffered
<1>7. QED
  BY <1>1, <1>4, <1>6, UnmovedInv

(* A read adds to the end of the buffer: no verdict changes. *)
LEMMA ReadInv ==
    ASSUME Inv, Read
    PROVE  Inv'
<1> USE DEF Inv
<1>1. PICK n \in 1..ReadLimit :
          /\ n <= Len(wire)
          /\ received' = received \o SubSeq(wire, 1, n)
          /\ wire' = SubSeq(wire, n + 1, Len(wire))
  BY DEF Read
<1>2. /\ UNCHANGED <<expected, head, frames, since>> /\ pc = "wait" /\ pc' = "parse"
      /\ received \in Seq(Byte) /\ wire \in Seq(Byte) /\ head \in Nat
      /\ head <= Len(received) /\ frames \subseteq 1..head
  BY DEF Read, TypeOK
<1>3. /\ SubSeq(wire, 1, n) \in Seq(Byte) /\ Len(SubSeq(wire, 1, n)) = n
      /\ wire' \in Seq(Byte)
  BY <1>1, <1>2, LinkAssumption
<1>4. received' \in Seq(Byte) /\ Len(received') = Len(received) + n
  BY <1>1, <1>2, <1>3, Prefix
<1>5. \A p \in Nat \ {0} :
          /\ p + HeaderSize - 1 <= Len(received) =>
                HeaderAt(p)' = HeaderAt(p) /\ LengthAt(p)' = LengthAt(p)
          /\ DecodableAt(p) => DecodableAt(p)'
          /\ Refuted(p) => Refuted(p)'
  BY <1>1, <1>2, <1>3, VerdictsStay
<1>6. \A p \in frames : /\ p \in Nat \ {0} /\ DecodableAt(p) /\ DecodableAt(p)'
                        /\ HeaderAt(p)' = HeaderAt(p) /\ LengthAt(p)' = LengthAt(p)
                        /\ p + LengthAt(p) - 1 <= head
  BY <1>2, <1>5 DEF FramesWhole, DecodableAt
<1>7. TypeOK'
  BY <1>2, <1>3, <1>4, LinkAssumption DEF TypeOK
<1>8. FramesWhole'
  BY <1>2, <1>6 DEF FramesWhole
<1>9. FramesApart'
  BY <1>2, <1>6 DEF FramesApart
<1>10. Accounted'
  <2> SUFFICES ASSUME NEW p \in 1..head
               PROVE  Refuted(p)' \/ \E q \in frames : q <= p /\ p < q + LengthAt(q)'
    BY <1>2 DEF Accounted
  <2>1. CASE Refuted(p)
    BY <1>2, <1>5, <2>1
  <2>2. CASE \E q \in frames : q <= p /\ p < q + LengthAt(q)
    BY <1>6, <2>2
  <2>3. QED
    BY <2>1, <2>2 DEF Accounted
<1>11. WaitsForOneFrame' /\ BufferBounded'
  BY <1>2, <1>4, FormatAssumption, LinkAssumption
  DEF WaitsForOneFrame, BufferBounded, Buffered, MaxFrame
<1>12. NoneReturned' /\ WaitsForTheRest'
  BY <1>2, <1>6 DEF NoneReturned, WaitsForTheRest
<1>13. QED
  BY <1>7, <1>8, <1>9, <1>10, <1>11, <1>12

(* The inductive invariant. *)
THEOREM InvHolds == Spec => []Inv
<1>1. Inv /\ [Next]_vars => Inv'
  <2> SUFFICES ASSUME Inv, [Next]_vars PROVE Inv'
    OBVIOUS
  <2>1. CASE DeviceSends
    <3>1. PICK piece \in Pieces : wire' = wire \o piece
      BY <2>1 DEF DeviceSends
    <3>2. wire' \in Seq(Byte)
      BY <3>1, LinkAssumption DEF Inv, TypeOK
    <3>3. UNCHANGED <<pc, expected, received, head, frames, since>>
      BY <2>1 DEF DeviceSends
    <3>4. TypeOK' /\ WaitsForOneFrame'
      BY <3>2, <3>3 DEF Inv, TypeOK, WaitsForOneFrame, Buffered
    <3>5. QED
      BY <3>3, <3>4, UnmovedInv, SameCallInv DEF Inv
  <2>2. CASE Start
    <3>1. TypeOK' /\ WaitsForOneFrame' /\ UNCHANGED <<received, head, frames>>
      BY <2>2 DEF Start, Inv, TypeOK, WaitsForOneFrame
    <3>2. NoneReturned' /\ WaitsForTheRest'
      BY <2>2 DEF Start, Inv, TypeOK, NoneReturned, WaitsForTheRest
    <3>3. QED
      BY <3>1, <3>2, UnmovedInv DEF Inv
  <2>3. CASE Reopen
    <3>1. /\ pc' = "idle" /\ expected' = expected /\ wire' = <<>> /\ received' = <<>>
          /\ head' = 0 /\ frames' = {} /\ since' = 0
      BY <2>3 DEF Reopen
    <3>2. TypeOK'
      BY <3>1 DEF Inv, TypeOK
    <3>3. QED
      BY <3>1, <3>2, FormatAssumption, LinkAssumption
      DEF Inv, FramesWhole, FramesApart, Accounted, WaitsForOneFrame, BufferBounded,
          Buffered, MaxFrame, NoneReturned, WaitsForTheRest
  <2>4. CASE GiveUp
    <3>1. TypeOK' /\ WaitsForOneFrame' /\ UNCHANGED <<received, head, frames>>
      BY <2>4 DEF GiveUp, Inv, TypeOK, WaitsForOneFrame
    <3>2. NoneReturned' /\ WaitsForTheRest'
      BY <2>4 DEF GiveUp, NoneReturned, WaitsForTheRest
    <3>3. QED
      BY <3>1, <3>2, UnmovedInv DEF Inv
  <2>5. CASE UNCHANGED vars
    <3>1. TypeOK' /\ WaitsForOneFrame' /\ UNCHANGED <<received, head, frames>>
      BY <2>5 DEF vars, Inv, TypeOK, WaitsForOneFrame, Buffered
    <3>2. UNCHANGED <<pc, expected, since>>
      BY <2>5 DEF vars
    <3>3. QED
      BY <3>1, <3>2, UnmovedInv, SameCallInv DEF Inv
  <2>6. QED
    BY <2>1, <2>2, <2>3, <2>4, <2>5, SkipInv, DecodeInv, WaitInv, ReadInv DEF Next
<1>2. QED
  BY <1>1, InitInv, PTL DEF Spec

(* Type correctness: no more is erased than was received. *)
THEOREM TypeCorrect == Spec => []TypeOK
<1>1. Inv => TypeOK
  BY DEF Inv
<1>2. QED
  BY <1>1, InvHolds, PTL

(* What is decoded depends on the bytes alone, and not on how the reads    *)
(* cut them: it is what one scan from the left finds.                      *)
THEOREM ScanIsExact == Spec => []ScansFromTheLeft
<1>1. Inv => ScansFromTheLeft
  <2> SUFFICES ASSUME Inv, NEW p \in 1..head, DecodableAt(p), Refuted(p) PROVE FALSE
    BY DEF Inv, ScansFromTheLeft, FramesWhole, FramesApart, Accounted
  <2>1. PayloadLength(HeaderAt(p)) \in Nat /\ MaxPayload \in Nat
    BY HeaderType, FormatAssumption DEF Inv, TypeOK, DecodableAt
  <2>2. QED
    BY <2>1 DEF DecodableAt, Refuted
<1>2. QED
  BY <1>1, InvHolds, PTL

(* The receive buffer is bounded by one frame and one read. *)
THEOREM BufferIsBounded == Spec => []BufferBounded
<1>1. Inv => BufferBounded
  BY DEF Inv
<1>2. QED
  BY <1>1, InvHolds, PTL

(* An answer that came, or stood in the buffer, since the request was made *)
(* is passed over only inside a frame: one that was decoded, or the one    *)
(* whose rest is waited for.                                               *)
THEOREM AnswersAreTaken == Spec => []AnswersOnlyHidden
<1>1. Inv => AnswersOnlyHidden
  <2> SUFFICES ASSUME Inv, pc = "wait", NEW p \in (since + 1)..Len(received),
                      DecodableAt(p), SequenceOf(HeaderAt(p)) = expected
               PROVE  \/ \E q \in frames : q < p /\ p < q + LengthAt(q)
                      \/ /\ head + 1 < p /\ MagicAt(head + 1)
                         /\ p < head + 1 + LengthAt(head + 1)
    BY DEF AnswersOnlyHidden
  <2>1. /\ received \in Seq(Byte) /\ head \in 0..Len(received)
        /\ frames \subseteq 1..head /\ since \in 0..head
        /\ HeaderSize \in Nat /\ HeaderSize >= 2 /\ MaxPayload \in Nat
    BY FormatAssumption DEF Inv, TypeOK
  <2>2. /\ p + HeaderSize - 1 <= Len(received) /\ p + LengthAt(p) - 1 <= Len(received)
        /\ PayloadLength(HeaderAt(p)) <= MaxPayload /\ MagicAt(p)
        /\ ChecksumFits(FrameAt(p))
    BY DEF DecodableAt
  <2>3. LengthAt(p) \in Nat /\ PayloadLength(HeaderAt(p)) \in Nat
    BY <2>1, <2>2, HeaderType
  <2>4. CASE p <= head
    <3>1. ~Refuted(p)
      BY <2>1, <2>2, <2>3 DEF Refuted
    <3>2. PICK q \in frames : q <= p /\ p < q + LengthAt(q)
      BY <2>1, <2>4, <3>1 DEF Inv, Accounted
    <3>3. q # p
      BY <2>1 DEF Inv, NoneReturned
    <3>4. QED
      BY <2>1, <3>2, <3>3
  <2>5. CASE p > head
    <3>1. Buffered >= HeaderSize
      BY <2>1, <2>2, <2>5 DEF Buffered
    <3>2. MagicAt(head + 1) /\ Buffered < LengthAt(head + 1)
      BY <2>1, <3>1 DEF Inv, WaitsForTheRest, Buffered
    <3>3. LengthAt(head + 1) \in Nat
      BY <2>1, <3>1, HeaderType DEF Buffered
    <3>4. p # head + 1
      BY <2>1, <2>2, <3>2, <3>3 DEF Buffered
    <3>5. QED
      BY <2>1, <2>5, <3>2, <3>3, <3>4 DEF Buffered
  <2>6. QED
    BY <2>1, <2>4, <2>5
<1>2. QED
  BY <1>1, InvHolds, PTL
===============================================================================
