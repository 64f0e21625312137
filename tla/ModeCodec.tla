----------------------------- MODULE ModeCodec ------------------------------
(***************************************************************************)
(* The transmission modes of common/mode_codec.py: Stream, Block and       *)
(* Compressed.  A file is encoded as its chunks arrive, the wire bytes are *)
(* regrouped for RDT, and what the other end receives is decoded.          *)
(*                                                                         *)
(* Encoder and decoder are generators that share nothing but the wire, so  *)
(* the model lets one finish before the other starts.  The sizes of the    *)
(* code, 127, 63 and 1024, are constants.                                  *)
(***************************************************************************)
EXTENDS Integers, Sequences, SequencesExt, FiniteSetsExt

CONSTANTS
    BlockSize, WireChunk,     \* WIRE_CHUNK_SIZE in its two uses
    MaxLiteral, MaxRun,       \* COMPRESSED_MAX_LITERAL, COMPRESSED_MAX_RUN
    Bytes, MaxLen,            \* the bytes of files, and bound: their length
    Strays                    \* wire bytes of a peer that encodes otherwise

ASSUME SizesAssumption ==
    /\ {BlockSize, WireChunk, MaxLiteral, MaxRun} \subseteq Nat \ {0} /\ MaxLen \in Nat
    /\ BlockSize <= 65535 /\ MaxLiteral <= 127 /\ MaxRun >= 2 /\ MaxRun <= 63

ASSUME BytesAssumption == Bytes \cup Strays \subseteq 0 .. 255

VARIABLES
    mode, type,       \* MODE and TYPE, which START makes the two ends agree on
    data,             \* the file
    encoded, pulled,  \* of data: encoded, and taken from the source; the
                      \* encoder's buffer lies between them
    batch,            \* wire bytes not yet handed to RDT
    wire,             \* wire bytes handed over, then the ones received
    fate,             \* whether these are the same
    used,             \* of wire: decoded
    decoded,
    stage             \* "encoding", "decoding", "done" or "error"

encoder == <<encoded, pulled, batch>>
decoder == <<used, decoded>>
vars == <<mode, type, data, encoder, wire, fate, decoder, stage>>

EofFlag == 64                           \* BLOCK_FLAG_EOF
HasEof(flags) == (flags \div EofFlag) % 2 = 1

Filler == IF type = "A" THEN 32 ELSE 0

Init ==
    /\ mode \in {"S", "B", "C"} /\ type \in {"A", "I"}
    /\ data \in UNION {[1 .. n -> Bytes] : n \in 0 .. MaxLen}
    /\ encoded = 0 /\ pulled = 0 /\ batch = <<>>
    /\ wire = <<>> /\ fate = "whole"
    /\ used = 0 /\ decoded = <<>> /\ stage = "encoding"

-----------------------------------------------------------------------------
(* Encoding *)

\* fill(needed): how far the source may have been read, in chunks of any size,
\* when the buffer has that many bytes or the source has ended
Fill(got, needed) ==
    IF got - encoded >= needed THEN {got}
    ELSE IF Len(data) - encoded >= needed THEN encoded + needed .. Len(data)
    ELSE {Len(data)}

\* _batch_wire: full chunks go out at once, the rest with the last primitive
MutantLosesRest(bytes, last) == Len(bytes) - (Len(bytes) % WireChunk)
HandOver(bytes, last) == IF last THEN Len(bytes) ELSE Len(bytes) - (Len(bytes) % WireChunk)

Emit(primitive, last) ==
    LET bytes == batch \o primitive
        n == HandOver(bytes, last)
    IN  /\ wire' = wire \o SubSeq(bytes, 1, n)
        /\ batch' = SubSeq(bytes, n + 1, Len(bytes))

Encode(n, upTo) == encoded' = encoded + n /\ pulled' = upTo

EncodeStream ==
    /\ stage = "encoding" /\ mode = "S" /\ encoded < Len(data)
    /\ \E upTo \in Fill(pulled, 1) :
        /\ wire' = wire \o SubSeq(data, encoded + 1, upTo)
        /\ Encode(upTo - encoded, upTo)
    /\ UNCHANGED <<mode, type, data, batch, fate, decoder, stage>>

\* A block is known not to be the last one when there is a byte after it
EncodeBlock ==
    /\ stage = "encoding" /\ mode = "B"
    /\ \E upTo \in Fill(pulled, BlockSize + 1) :
        LET last == upTo - encoded <= BlockSize
            n == IF last THEN upTo - encoded ELSE BlockSize
        IN  /\ Emit(<<IF last THEN EofFlag ELSE 0, n \div 256, n % 256>>
                        \o SubSeq(data, encoded + 1, encoded + n), last)
            /\ Encode(n, upTo)
            /\ stage' = IF last THEN "sent" ELSE stage
    /\ UNCHANGED <<mode, type, data, fate, decoder>>

\* The run at the start of a buffer
MutantRun(upTo) ==
    Max({n \in 1 .. Min({MaxRun, upTo - encoded}) :
            \A i \in 1 .. n - 1 : data[encoded + i] = data[encoded + 1]})
Run(upTo) ==
    Max({n \in 1 .. Min({MaxRun, upTo - encoded}) :
            \A i \in 1 .. n : data[encoded + i] = data[encoded + 1]})

\* A run that fills the buffer makes the encoder look one chunk further
LookAhead ==
    UNION {IF Run(upTo) < MaxRun /\ Run(upTo) = upTo - encoded
             THEN Fill(upTo, Run(upTo) + 1) ELSE {upTo} : upTo \in Fill(pulled, 1)}

EncodeRun ==
    /\ stage = "encoding" /\ mode = "C" /\ encoded < Len(data)
    /\ \E upTo \in LookAhead :
        LET run == Run(upTo)
            byte == data[encoded + 1]
        IN  /\ run >= 2
            /\ Emit(IF byte = Filler THEN <<192 + run>> ELSE <<128 + run, byte>>, FALSE)
            /\ Encode(run, upTo)
    /\ UNCHANGED <<mode, type, data, fate, decoder, stage>>

\* A literal ends at its limit, before two equal bytes, or before the last byte
Literal(upTo) ==
    Min({n \in 1 .. MaxLiteral :
            \/ n = MaxLiteral \/ n + 1 >= upTo - encoded
            \/ data[encoded + n + 1] = data[encoded + n + 2]})

EncodeLiteral ==
    /\ stage = "encoding" /\ mode = "C" /\ encoded < Len(data)
    /\ \E seen \in LookAhead : \E upTo \in Fill(seen, MaxLiteral + 2) :
        LET n == Literal(upTo)
        IN  /\ Run(seen) = 1
            /\ Emit(<<n>> \o SubSeq(data, encoded + 1, encoded + n), FALSE)
            /\ Encode(n, upTo)
    /\ UNCHANGED <<mode, type, data, fate, decoder, stage>>

\* The file has ended: Compressed mode says so with an escape
EncodeEnd ==
    /\ stage = "encoding" /\ mode \in {"S", "C"} /\ encoded = Len(data)
    /\ Emit(IF mode = "C" THEN <<0, EofFlag>> ELSE <<>>, TRUE)
    /\ stage' = "sent"
    /\ UNCHANGED <<mode, type, data, encoded, pulled, fate, decoder>>

-----------------------------------------------------------------------------
\* RDT delivers the bytes that were sent.  A peer may have sent fewer, more, or
\* others than encode_chunks would.
Receive ==
    /\ stage = "sent" /\ stage' = "decoding"
    /\ \/ wire' = wire /\ fate' = fate
       \/ /\ fate' = "cut"
          /\ \E n \in 0 .. Len(wire) - 1 : wire' = SubSeq(wire, 1, n)
       \/ /\ fate' = "extended"
          /\ \E byte \in Strays : wire' = Append(wire, byte)
       \/ /\ fate' = "changed"
          /\ \E i \in DOMAIN wire, byte \in Strays : wire' = [wire EXCEPT ![i] = byte]
    /\ encoded' = 0 /\ pulled' = 0 /\ batch' = <<>>
    /\ UNCHANGED <<mode, type, data, decoder>>

-----------------------------------------------------------------------------
(* Decoding.  The decoders look at their buffer only after a fill of what they *)
(* need, so that only the number of bytes left matters, not how they arrive.   *)

Left == Len(wire) - used
Byte(i) == wire[used + i]

Decode(n, text) == used' = used + n /\ decoded' = decoded \o text

\* After the end of the file nothing may follow
MutantAtEnd(n) == TRUE
AtEnd(n) == Left = n
After(flags, n) ==
    IF ~HasEof(flags) THEN "decoding" ELSE IF AtEnd(n) THEN "done" ELSE "error"

DecodeStream ==
    /\ stage = "decoding" /\ mode = "S"
    /\ Decode(Left, SubSeq(wire, used + 1, Len(wire)))
    /\ stage' = "done"
    /\ UNCHANGED <<mode, type, data, encoder, wire, fate>>

WholeBlock == Left >= 3 /\ Left >= 3 + 256 * Byte(2) + Byte(3)

DecodeBlock ==
    /\ stage = "decoding" /\ mode = "B" /\ WholeBlock
    /\ LET n == 3 + 256 * Byte(2) + Byte(3)
       IN  /\ Decode(n, SubSeq(wire, used + 4, used + n))
           /\ stage' = After(Byte(1), n)
    /\ UNCHANGED <<mode, type, data, encoder, wire, fate>>

IsLiteral == Left >= 1 /\ Byte(1) \in 1 .. 127 /\ Left > Byte(1)
IsRun == Left >= 2 /\ Byte(1) \in 129 .. 191
IsFiller == Left >= 1 /\ Byte(1) \in 193 .. 255
IsEscape == Left >= 2 /\ Byte(1) = 0 /\ Byte(2) # 0 /\ Byte(2) % 16 = 0

DecodeLiteral ==
    /\ stage = "decoding" /\ mode = "C" /\ IsLiteral
    /\ Decode(1 + Byte(1), SubSeq(wire, used + 2, used + 1 + Byte(1)))
    /\ UNCHANGED <<mode, type, data, encoder, wire, fate, stage>>

DecodeRun ==
    /\ stage = "decoding" /\ mode = "C" /\ IsRun
    /\ Decode(2, [i \in 1 .. Byte(1) % 64 |-> Byte(2)])
    /\ UNCHANGED <<mode, type, data, encoder, wire, fate, stage>>

DecodeFiller ==
    /\ stage = "decoding" /\ mode = "C" /\ IsFiller
    /\ Decode(1, [i \in 1 .. Byte(1) % 64 |-> Filler])
    /\ UNCHANGED <<mode, type, data, encoder, wire, fate, stage>>

\* Escapes other than the end of the file are skipped
DecodeEscape ==
    /\ stage = "decoding" /\ mode = "C" /\ IsEscape
    /\ Decode(2, <<>>)
    /\ stage' = After(Byte(2), 2)
    /\ UNCHANGED <<mode, type, data, encoder, wire, fate>>

\* ModeCodecError: the wire ends too early, or the next frame is not one
Malformed ==
    /\ stage = "decoding" /\ stage' = "error"
    /\ \/ mode = "B" /\ ~WholeBlock
       \/ mode = "C" /\ ~IsLiteral /\ ~IsRun /\ ~IsFiller /\ ~IsEscape
    /\ UNCHANGED <<mode, type, data, encoder, wire, fate, decoder>>

Ended == stage \in {"done", "error"} /\ UNCHANGED vars

Next ==
    \/ EncodeStream \/ EncodeBlock \/ EncodeRun \/ EncodeLiteral \/ EncodeEnd
    \/ Receive
    \/ DecodeStream \/ DecodeBlock
    \/ DecodeLiteral \/ DecodeRun \/ DecodeFiller \/ DecodeEscape
    \/ Malformed \/ Ended

Spec == Init /\ [][Next]_vars

-----------------------------------------------------------------------------
(* Properties *)

\* docs/api-contract.md: the modes round-trip.  Whatever the file, its chunks, the
\* mode and the type, the other end decodes the file and reports no error.
RoundTrip ==
    fate = "whole" => stage # "error" /\ (stage = "done" => decoded = data)

\* Until it reports an error, a decoder yields nothing but the file's bytes, in
\* order: a wire that is cut, or goes on after its end, adds none.
DecodesPrefix == mode # "S" /\ fate # "changed" => IsPrefix(decoded, data)

\* The end of a file is part of its encoding, so a wire that was cut anywhere or
\* that goes on is not taken for a file, and nothing is left over.
EndIsExplicit ==
    mode # "S" /\ stage = "done" => fate \notin {"cut", "extended"} /\ used = Len(wire)
=============================================================================
