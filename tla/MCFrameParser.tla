----------------------------- MODULE MCFrameParser -----------------------------
(***************************************************************************)
(* A scaled frame format: four header bytes (magic, magic, sequence,       *)
(* payload length), up to five payload bytes and one checksum byte.  The   *)
(* device's pieces are frames, one of them with another frame as its       *)
(* payload, frames cut short or with a wrong checksum, a header that       *)
(* claims more than any frame may hold, and noise: a first magic byte.     *)
(***************************************************************************)
EXTENDS FrameParser

ByteValues == 0..6
MCLength(h) == h[4]
MCSequence(h) == h[3]

(* The sum of the bytes after the magic, as a checksum. *)
SumOf(bytes) ==
    LET sum[i \in 0..Len(bytes)] == IF i = 0 THEN 0 ELSE (sum[i - 1] + bytes[i]) % 7
    IN  sum[Len(bytes)]
MCChecksumFits(f) == f[Len(f)] = SumOf(SubSeq(f, 3, Len(f) - 1))

Encode(seq, payload) ==
    LET body == <<seq, Len(payload)>> \o payload
    IN  <<Magic0, Magic1>> \o body \o <<SumOf(body)>>

Short == {Encode(1, <<>>), Encode(2, <<>>)}
Nested == Encode(1, Encode(2, <<>>))
Cut == {SubSeq(Nested, 1, n) : n \in {2, 4, 8}}
WrongChecksum == {<<Magic0, Magic1, 1, 0, 0>>}
Oversized == {<<Magic0, Magic1, 1, 6>>}
Noise == {<<Magic0>>}
(* Short frames, and the header of a long one whose rest is lost. *)
StallPieces == Short \cup {SubSeq(Encode(1, <<0, 0, 0, 0, 0>>), 1, HeaderSize)}

MCPieces == Short \cup {Nested} \cup Cut \cup WrongChecksum \cup Oversized \cup Noise
===============================================================================
