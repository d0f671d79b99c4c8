------------------------------ MODULE FrameParser ------------------------------
(***************************************************************************)
(* How the responses are found in the stream of bytes: read_response and   *)
(* try_decode_response of HidBridgeCore (serial.hpp) with decode_frame     *)
(* (protocol.hpp).  The stream comes in chunks of any size, and it may     *)
(* hold noise, frames cut short, damaged frames, and frames inside the     *)
(* payload of others.                                                      *)
(*                                                                         *)
(* The frame format is a parameter: the header has the two magic bytes,    *)
(* the sequence number and the length of the payload; the payload and the  *)
(* checksum follow.  The thread that owns command_mutex_ is the only one   *)
(* to use the receive buffer, so one program counter is enough.  Exchange  *)
(* has the meaning of the responses that are found here.                   *)
(*                                                                         *)
(* receive_buffer, a vector that grows at its end and is erased from its   *)
(* front, is represented by all the bytes the session has received and the *)
(* number of them that were erased: `received' and `head'.                 *)
(*                                                                         *)
(* A definition whose comment says "Mutant" is a faulty variant of the one *)
(* that follows it, for the mutation runs; no behaviour uses it.           *)
(***************************************************************************)
EXTENDS Integers, Sequences

CONSTANTS
    Byte,               \* the values of a byte
    Magic0, Magic1,     \* MAGIC0 and MAGIC1
    HeaderSize,         \* 9 in the code: the bytes before the payload
    Overhead,           \* FRAME_OVERHEAD: header and checksum
    MaxPayload,         \* MAX_PAYLOAD_SIZE
    PayloadLength(_),   \* the payload length that a header states
    SequenceOf(_),      \* the sequence number that a header states
    ChecksumFits(_),    \* a whole frame carries the checksum of its bytes
    Sequences,          \* the sequence numbers of requests
    ReadLimit,          \* what one read may return: 64 in the code
    Pieces,             \* what the device sends, and noise, as byte sequences
    MaxBytes            \* bound: the bytes that come in one session

Header == [1..HeaderSize -> Byte]
MaxFrame == Overhead + MaxPayload

ASSUME FormatAssumption ==
    /\ Magic0 \in Byte /\ Magic1 \in Byte /\ Magic0 # Magic1
    /\ HeaderSize \in Nat /\ HeaderSize >= 2
    /\ Overhead \in Nat /\ Overhead >= HeaderSize
    /\ MaxPayload \in Nat
    /\ \A h \in Header : PayloadLength(h) \in Nat

ASSUME LinkAssumption ==
    /\ ReadLimit \in Nat \ {0}
    /\ MaxBytes \in Nat
    /\ \A piece \in Pieces : piece \in Seq(Byte)

VARIABLES
    pc,         \* "idle", "parse" or "wait", where read() blocks
    expected,   \* the sequence number of the request being answered
    wire,       \* the bytes on their way to the host
    received,   \* every byte put into receive_buffer since open()
    head,       \* how many of them were erased again
    frames,     \* the positions in `received' where a frame was decoded
    since       \* a history: `head' when read_response was called, else 0

vars == <<pc, expected, wire, received, head, frames, since>>

(* The receive buffer and its size. *)
Buffered == Len(received) - head
HeaderAt(p) == SubSeq(received, p, p + HeaderSize - 1)
LengthAt(p) == Overhead + PayloadLength(HeaderAt(p))
FrameAt(p) == SubSeq(received, p, p + LengthAt(p) - 1)

MagicAt(p) == received[p] = Magic0 /\ received[p + 1] = Magic1

(* A whole frame that decode_frame accepts begins at position p of what    *)
(* was received.  (The properties ask this of every position, the parser   *)
(* only of the front of its buffer.)                                       *)
DecodableAt(p) ==
    /\ p + HeaderSize - 1 <= Len(received)
    /\ MagicAt(p)
    /\ PayloadLength(HeaderAt(p)) <= MaxPayload
    /\ p + LengthAt(p) - 1 <= Len(received)
    /\ ChecksumFits(FrameAt(p))

-------------------------------------------------------------------------------

Init ==
    /\ pc = "idle"
    /\ expected \in Sequences
    /\ wire = <<>>
    /\ received = <<>>
    /\ head = 0
    /\ frames = {}
    /\ since = 0

(* The device sends frames, whole or not, and the line adds noise.  A      *)
(* piece goes on the wire when the rest of the last one fits in one read   *)
(* with it, so that a read may take the end of one and the start of the    *)
(* next.                                                                   *)
DeviceSends ==
    /\ Len(wire) < ReadLimit
    /\ \E piece \in Pieces :
          /\ Len(received) + Len(wire) + Len(piece) <= MaxBytes
          /\ wire' = wire \o piece
    /\ UNCHANGED <<pc, expected, received, head, frames, since>>

(* read_response is called for the frame just written: that of the next    *)
(* request, or the same one again in a retry.                              *)
Start ==
    /\ pc = "idle"
    /\ expected' \in Sequences
    /\ pc' = "parse"
    /\ since' = head
    /\ UNCHANGED <<wire, received, head, frames>>

(* A new session has a new, empty receive buffer. *)
Reopen ==
    /\ pc = "idle"
    /\ wire' = <<>> /\ received' = <<>>
    /\ head' = 0
    /\ frames' = {}
    /\ since' = 0
    /\ UNCHANGED <<pc, expected>>

-------------------------------------------------------------------------------
(* try_decode_response, one action per way through its loop.               *)

(* What the front of the buffer looks like. *)
Magic == Buffered >= 2 /\ MagicAt(head + 1)
HeaderRead == Buffered >= HeaderSize

(* Mutant: no limit on the payload. *)
NeverTooLong == FALSE

TooLong ==
    /\ Magic /\ HeaderRead
    /\ PayloadLength(HeaderAt(head + 1)) > MaxPayload

(* Mutant: a frame is complete only when a byte stands behind it. *)
WholeFrameAndMore ==
    /\ Magic /\ HeaderRead /\ ~TooLong
    /\ Buffered > LengthAt(head + 1)

WholeFrame ==
    /\ Magic /\ HeaderRead /\ ~TooLong
    /\ Buffered >= LengthAt(head + 1)
Damaged == WholeFrame /\ ~ChecksumFits(FrameAt(head + 1))

(* Mutant: a damaged frame takes all the bytes it claims with it. *)
SkipFrame ==
    /\ pc = "parse"
    /\ (Buffered >= 2 /\ ~Magic) \/ TooLong \/ Damaged
    /\ head' = IF Damaged THEN head + LengthAt(head + 1) ELSE head + 1
    /\ UNCHANGED <<pc, expected, wire, received, frames, since>>

(* One byte is erased: wrong magic, impossible length, or DecodeError. *)
Skip ==
    /\ pc = "parse"
    /\ (Buffered >= 2 /\ ~Magic) \/ TooLong \/ Damaged
    /\ head' = head + 1
    /\ UNCHANGED <<pc, expected, wire, received, frames, since>>

(* Mutant: one byte too many is erased with the frame. *)
DecodeOneMore ==
    /\ pc = "parse"
    /\ WholeFrame /\ ~Damaged
    /\ frames' = frames \cup {head + 1}
    /\ head' = head + LengthAt(head + 1) + 1
    /\ IF SequenceOf(HeaderAt(head + 1)) = expected
       THEN pc' = "idle" /\ since' = 0
       ELSE UNCHANGED <<pc, since>>
    /\ UNCHANGED <<expected, wire, received>>

(* A frame is decoded: returned if it has the expected number, or else     *)
(* dropped, and the loop goes on.                                          *)
Decode ==
    /\ pc = "parse"
    /\ WholeFrame /\ ~Damaged
    /\ frames' = frames \cup {head + 1}
    /\ head' = head + LengthAt(head + 1)
    /\ IF SequenceOf(HeaderAt(head + 1)) = expected
       THEN pc' = "idle" /\ since' = 0
       ELSE UNCHANGED <<pc, since>>
    /\ UNCHANGED <<expected, wire, received>>

(* nullopt: too little is buffered to tell.  read_response reads on unless *)
(* its deadline has passed.                                                *)
NeedMore == Buffered < 2 \/ (Magic /\ ~TooLong /\ ~WholeFrame)

Wait ==
    /\ pc = "parse"
    /\ NeedMore
    /\ pc' = "wait"
    /\ UNCHANGED <<expected, wire, received, head, frames, since>>

-------------------------------------------------------------------------------
(* The rest of the loop of read_response.                                  *)

(* transport_->read(64, ...) returns what has come, in part or in whole.   *)
Read ==
    /\ pc = "wait"
    /\ \E n \in 1..ReadLimit :
          /\ n <= Len(wire)
          /\ received' = received \o SubSeq(wire, 1, n)
          /\ wire' = SubSeq(wire, n + 1, Len(wire))
    /\ pc' = "parse"
    /\ UNCHANGED <<expected, head, frames, since>>

(* The deadline passes, or the read throws: the buffer is kept. *)
GiveUp ==
    /\ pc = "wait"
    /\ pc' = "idle"
    /\ since' = 0
    /\ UNCHANGED <<expected, wire, received, head, frames>>

Next ==
    \/ DeviceSends \/ Start \/ Reopen
    \/ Skip \/ Decode \/ Wait
    \/ Read \/ GiveUp

Spec == Init /\ [][Next]_vars

-------------------------------------------------------------------------------

TypeOK ==
    /\ pc \in {"idle", "parse", "wait"}
    /\ expected \in Sequences
    /\ wire \in Seq(Byte) /\ received \in Seq(Byte)
    /\ head \in 0..Len(received)
    /\ frames \subseteq 1..head
    /\ since \in 0..head

(* However the stream was cut into reads, and whatever was waited for, the *)
(* parser has found exactly the frames that one scan of all the bytes from *)
(* the left finds: each is decodable and ends before the next one and      *)
(* before the front of the buffer, and every other decodable frame that    *)
(* begins among the erased bytes begins inside one of them.                *)
ScansFromTheLeft ==
    /\ \A p \in frames : DecodableAt(p) /\ p + LengthAt(p) - 1 <= head
    /\ \A p, q \in frames : p < q => p + LengthAt(p) <= q
    /\ \A p \in 1..head :
          DecodableAt(p) => \E q \in frames : q <= p /\ p < q + LengthAt(q)

(* The receive buffer never holds more than an incomplete frame and one    *)
(* read: whatever a header claims, the parser gets past it by then.        *)
BufferBounded == Buffered <= MaxFrame - 1 + ReadLimit

(* When a request waits for more bytes, or gives up, no whole answer to it *)
(* that came since it was made, or stood in the buffer then, is passed     *)
(* over: there is one only inside another frame, decoded or still claimed  *)
(* by the header at the front of the buffer.                               *)
AnswersOnlyHidden ==
    pc = "wait" =>
        \A p \in (since + 1)..Len(received) :
            DecodableAt(p) /\ SequenceOf(HeaderAt(p)) = expected =>
                \/ \E q \in frames : q < p /\ p < q + LengthAt(q)
                \/ /\ head + 1 < p /\ MagicAt(head + 1)
                   /\ p < head + 1 + LengthAt(head + 1)

(* README.md says that the parser skips invalid frames to resynchronise: a *)
(* request does not give up while a whole answer to it is in the buffer.   *)
(* (Where the device nests no frame in a payload.)                         *)
AnswerInBufferIsTaken ==
    [][GiveUp => \A p \in (head + 1)..Len(received) :
          DecodableAt(p) => SequenceOf(HeaderAt(p)) # expected]_vars
===============================================================================
