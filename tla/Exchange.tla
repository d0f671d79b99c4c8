------------------------------- MODULE Exchange -------------------------------
(***************************************************************************)
(* The request/response exchange of HidBridgeCore (serial.hpp): sequence   *)
(* numbers, retries, BUSY waits, deadlines, and the receive buffer, over a *)
(* serial link and a device that may lose, delay and repeat frames.        *)
(*                                                                         *)
(* command_mutex_ admits one exchange at a time, so one program counter is *)
(* enough here; how threads reach it is the subject of BridgeCore.  Bytes  *)
(* are abstracted to whole frames, a frame that is damaged on the way to a *)
(* lost one, and a frame that was received is there to be decoded:         *)
(* FrameParser has the bytes, and says when a frame must wait.  Each       *)
(* request has an identity, which no frame carries: it is what a response  *)
(* is about, and only the properties look at it.                           *)
(*                                                                         *)
(* A definition whose comment says "Mutant" is a faulty variant of the one *)
(* that follows it, for the mutation runs; no behaviour uses it.           *)
(***************************************************************************)
EXTENDS Naturals, Sequences

CONSTANTS
    Retries,            \* HidBridgeOptions::retries
    SequenceModulus,    \* 2^16 in the code: sequence_ is a uint16_t
    MaxRequests,        \* bound: requests made
    Capacity            \* bound: frames on the link, each way

ASSUME ExchangeAssumption ==
    /\ Retries \in Nat
    /\ SequenceModulus \in Nat /\ SequenceModulus > 1
    /\ MaxRequests \in Nat
    /\ Capacity \in Nat

VARIABLES
    pc,         \* of the thread that owns command_mutex_
    sequence,   \* sequence_
    issued,     \* how many requests were numbered; identities are 1..issued
    request,    \* the current request: its identity and its number
    attempt,    \* the loop counter of send_command_for_generation
    expired,    \* the deadline of read_response has passed
    buffer,     \* SessionData::receive_buffer
    toDevice, fromDevice,   \* the frames on the link
    taken       \* the response that was last decoded for this attempt

link == <<toDevice, fromDevice>>
vars == <<pc, sequence, issued, request, attempt, expired, buffer, link, taken>>

Kinds == {"ack", "nack", "busy", "other"}

Request == [id : Nat, seq : 0..(SequenceModulus - 1)]
Response == [id : Nat, seq : 0..(SequenceModulus - 1), kind : Kinds]

NoRequest == [id |-> 0, seq |-> 0]
HeartbeatFrame == [id |-> 0, seq |-> 0]
NoResponse == [id |-> 0, seq |-> 0, kind |-> "other"]

-------------------------------------------------------------------------------

(* Mutants: no return to 1; a return to 1 that comes too early. *)
NextSequenceUnbounded(s) == s + 1
NextSequenceEarly(s) == IF s + 2 >= SequenceModulus THEN 1 ELSE s + 1

(* next_sequence: sequence number 0 is kept for the heartbeat. *)
NextSequence(s) == IF s + 1 = SequenceModulus THEN 1 ELSE s + 1

(* A frame written to a full link is lost like any other. *)
Send(channel, frame) ==
    IF Len(channel) < Capacity THEN Append(channel, frame) ELSE channel

(* Mutant: the sequence number is not compared. *)
MatchesAny(s) == DOMAIN buffer

(* try_decode_response: the frames before the first match are dropped.     *)
Matches(s) == {i \in 1..Len(buffer) : buffer[i].seq = s}
FirstMatch(s) == CHOOSE i \in Matches(s) : \A j \in Matches(s) : i <= j
Answered == Matches(request.seq) # {}

-------------------------------------------------------------------------------

Init ==
    /\ pc = "idle"
    /\ sequence = 1
    /\ issued = 0
    /\ request = NoRequest
    /\ attempt = 0
    /\ expired = FALSE
    /\ buffer = <<>>
    /\ toDevice = <<>> /\ fromDevice = <<>>
    /\ taken = NoResponse

(* send_command_for_generation numbers the request and encodes it once. *)
Begin ==
    /\ pc = "idle"
    /\ issued < MaxRequests
    /\ issued' = issued + 1
    /\ request' = [id |-> issued + 1, seq |-> sequence]
    /\ sequence' = NextSequence(sequence)
    /\ attempt' = 0
    /\ pc' = "write"
    /\ taken' = NoResponse
    /\ UNCHANGED <<expired, buffer, link>>

(* write_frame, every attempt with the same frame; read_response then      *)
(* starts with a deadline of its own.  A write may also throw.             *)
Write ==
    /\ pc = "write"
    /\ \/ /\ toDevice' = Send(toDevice, request)
          /\ pc' = "check"
       \/ /\ pc' = "idle"
          /\ UNCHANGED toDevice
    /\ expired' = FALSE
    /\ taken' = NoResponse
    /\ UNCHANGED <<sequence, issued, request, attempt, buffer, fromDevice>>

(* A response to this request is in the buffer.  BUSY is waited out while  *)
(* an attempt is left; anything else ends the exchange.                    *)
Take ==
    /\ pc = "check" /\ Answered
    /\ LET i == FirstMatch(request.seq)
       IN  /\ taken' = buffer[i]
           /\ buffer' = SubSeq(buffer, i + 1, Len(buffer))
    /\ pc' = IF taken'.kind = "busy" /\ attempt < Retries THEN "busy" ELSE "idle"
    /\ UNCHANGED <<sequence, issued, request, attempt, expired, link>>

(* wait_for_retry is over. *)
BusyElapsed ==
    /\ pc = "busy"
    /\ attempt' = attempt + 1
    /\ pc' = "write"
    /\ UNCHANGED <<sequence, issued, request, expired, buffer, link, taken>>

(* TimeoutError: the next attempt, or the end of the exchange. *)
TimeOut ==
    /\ pc = "check" /\ ~Answered
    /\ expired
    /\ buffer' = <<>>
    /\ IF attempt < Retries
       THEN attempt' = attempt + 1 /\ pc' = "write"
       ELSE pc' = "idle" /\ UNCHANGED attempt
    /\ UNCHANGED <<sequence, issued, request, expired, link, taken>>

(* Nothing was received for this request yet: the thread reads. *)
Listen ==
    /\ pc = "check" /\ ~Answered
    /\ ~expired
    /\ buffer' = <<>>
    /\ pc' = "reading"
    /\ UNCHANGED <<sequence, issued, request, attempt, expired, link, taken>>

(* Mutant: every chunk starts the deadline again. *)
ReceiveExtends ==
    /\ pc = "reading" /\ fromDevice # <<>>
    /\ buffer' = buffer \o fromDevice /\ fromDevice' = <<>>
    /\ pc' = "check"
    /\ expired' = FALSE
    /\ UNCHANGED <<sequence, issued, request, attempt, toDevice, taken>>

(* The read brings what has arrived, as much of it as fits.  The deadline  *)
(* stays as it is.                                                         *)
Receive ==
    /\ pc = "reading"
    /\ \E k \in 1..Len(fromDevice) :
          /\ buffer' = buffer \o SubSeq(fromDevice, 1, k)
          /\ fromDevice' = SubSeq(fromDevice, k + 1, Len(fromDevice))
    /\ pc' = "check"
    /\ UNCHANGED <<sequence, issued, request, attempt, expired, toDevice, taken>>

(* The read ends empty-handed at the deadline, or throws. *)
ReadEmpty ==
    /\ pc = "reading"
    /\ \/ expired /\ pc' = "check"
       \/ pc' = "idle"
    /\ UNCHANGED <<sequence, issued, request, attempt, expired, buffer, link, taken>>

Expire ==
    /\ pc \in {"check", "reading"}
    /\ ~expired
    /\ expired' = TRUE
    /\ UNCHANGED <<pc, sequence, issued, request, attempt, buffer, link, taken>>

(* heartbeat_loop writes between any two steps, with the number 0. *)
WriteHeartbeat ==
    /\ pc # "closed"
    /\ toDevice' = Send(toDevice, HeartbeatFrame)
    /\ UNCHANGED <<pc, sequence, issued, request, attempt, expired, buffer,
                   fromDevice, taken>>

(* close() ends the exchange where it is and writes STOP_ALL under a       *)
(* number of its own, to which nobody will read the response.              *)
Close ==
    /\ pc # "closed"
    /\ issued < MaxRequests
    /\ issued' = issued + 1
    /\ sequence' = NextSequence(sequence)
    /\ \/ toDevice' = Send(toDevice, [id |-> issued + 1, seq |-> sequence])
       \/ UNCHANGED toDevice
    /\ pc' = "closed"
    /\ UNCHANGED <<request, attempt, expired, buffer, fromDevice, taken>>

(* A new session has an empty buffer.  sequence_ goes on; so may whatever  *)
(* the device and the driver still hold.                                   *)
Open ==
    /\ pc = "closed"
    /\ buffer' = <<>>
    /\ fromDevice' \in {fromDevice, <<>>}
    /\ pc' = "idle"
    /\ UNCHANGED <<sequence, issued, request, attempt, expired, toDevice, taken>>

-------------------------------------------------------------------------------
(* The device and the link, outside the repository. *)

(* A frame that arrives is answered in any way, or not at all. *)
DeviceAnswer ==
    /\ toDevice # <<>>
    /\ toDevice' = Tail(toDevice)
    /\ \/ /\ Head(toDevice) # HeartbeatFrame
          /\ \E kind \in Kinds :
                fromDevice' = Send(fromDevice,
                    [id |-> Head(toDevice).id, seq |-> Head(toDevice).seq, kind |-> kind])
       \/ UNCHANGED fromDevice
    /\ UNCHANGED <<pc, sequence, issued, request, attempt, expired, buffer, taken>>

(* The device rejects a frame whose number it could not read. *)
DeviceComplain ==
    /\ Len(fromDevice) < Capacity
    /\ fromDevice' = Append(fromDevice, [id |-> 0, seq |-> 0, kind |-> "nack"])
    /\ UNCHANGED <<pc, sequence, issued, request, attempt, expired, buffer,
                   toDevice, taken>>

LoseResponse ==
    /\ fromDevice # <<>>
    /\ fromDevice' = Tail(fromDevice)
    /\ UNCHANGED <<pc, sequence, issued, request, attempt, expired, buffer,
                   toDevice, taken>>

-------------------------------------------------------------------------------

ExchangeStep ==
    Write \/ Take \/ BusyElapsed \/ TimeOut \/ Listen \/ Receive \/ ReadEmpty

Environment == DeviceAnswer \/ DeviceComplain \/ LoseResponse

Next ==
    \/ Begin \/ ExchangeStep \/ Expire
    \/ WriteHeartbeat \/ Close \/ Open
    \/ Environment

Spec == Init /\ [][Next]_vars

(* The thread in the exchange goes on and time passes; the device and the  *)
(* link owe nothing.                                                       *)
FairSpec == Spec /\ WF_vars(ExchangeStep) /\ WF_vars(Expire)

-------------------------------------------------------------------------------
(* Properties. *)

TypeOK ==
    /\ pc \in {"idle", "write", "check", "reading", "busy", "closed"}
    /\ sequence \in 1..(SequenceModulus - 1)
    /\ issued \in Nat
    /\ request \in Request
    /\ attempt \in 0..Retries
    /\ expired \in BOOLEAN
    /\ buffer \in Seq(Response)
    /\ toDevice \in Seq(Request)
    /\ fromDevice \in Seq(Response)
    /\ taken \in Response

(* A whole round of sequence numbers lies between two identities. *)
RoundApart(m, n) == m + (SequenceModulus - 1) <= n

(* The response an exchange acts on answers the request of this exchange,  *)
(* whatever earlier exchanges, retries, timeouts and sessions have left    *)
(* behind on the link: neither an older response nor one with the number 0 *)
(* can be mistaken for it.  Only one that is late by a whole round of      *)
(* sequence numbers could.                                                 *)
AnswerIsOwn ==
    taken # NoResponse /\ pc # "closed" =>
        /\ taken.id # 0
        /\ taken.id = request.id \/ RoundApart(taken.id, request.id)

(* What lets the device recognise a retry: frames on the link that carry   *)
(* the same number, 0 excepted, carry the same request, unless a whole     *)
(* round of numbers lies between them.                                     *)
NumberNamesRequest ==
    \A i, j \in 1..Len(toDevice) :
        toDevice[i].seq = toDevice[j].seq /\ toDevice[i].id < toDevice[j].id =>
            RoundApart(toDevice[i].id, toDevice[j].id)

(* An exchange ends, however many frames of others keep arriving.  *)
ExchangeEnds == pc \notin {"idle", "closed"} ~> pc \in {"idle", "closed"}
===============================================================================
