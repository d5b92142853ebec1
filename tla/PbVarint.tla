------------------------------ MODULE PbVarint ------------------------------
(***************************************************************************)
(* The integers of nanopb's wire format (pb_encode.c, pb_decode.c), at     *)
(* their real widths.  A number is the set of the positions of its bits, a *)
(* byte a subset of 0..7 whose bit 7 says that more bytes follow.          *)
(***************************************************************************)
EXTENDS Integers, Sequences, SequencesExt, FiniteSetsExt

CONSTANTS
    Values,         \* numbers of 64 bits that fields hold
    Payloads(_),    \* payloads of the n-th byte of a stream from outside
    MaxBytes        \* bound: bytes of such a stream

VARIABLES
    bytes,          \* the bytes of one varint
    field           \* the field they were encoded from, or Received

varintVars == <<bytes, field>>

Bits(n) == 0 .. n - 1
Shifted(bits, n) == {b + n : b \in bits}
Payload(byte) == byte \ {7}
Continues(byte) == 7 \in byte

\* The payload of the n-th of a number's groups of seven bits.
Group(value, n) == Shifted(value \cap (7 * (n - 1) .. 7 * n - 1), -7 * (n - 1))

-----------------------------------------------------------------------------
(* The encoder.                                                            *)

\* Unset on the last byte.
TopBit(n, last) == IF n = last THEN {} ELSE {7}

\* pb_encode_varint.
EncodeVarint(value) ==
    LET last == IF value = {} THEN 1 ELSE Max(value) \div 7 + 1
    IN  [n \in 1..last |-> Group(value, n) \cup TopBit(n, last)]

\* The value of a field of size bytes as a signed number of 64 bits.
SignExtended(value, size) ==
    IF 8 * size - 1 \in value THEN value \cup (8 * size .. 63) ELSE value

\* pb_encode_svarint.
ZigZag(value) ==
    LET shifted == Shifted(value, 1) \cap Bits(64)
    IN  IF 63 \in value THEN Bits(64) \ shifted ELSE shifted

\* pb_enc_varint, pb_enc_uvarint and pb_enc_svarint.
EncodeField(f) ==
    CASE f.type = "varint" -> EncodeVarint(SignExtended(f.value, f.size))
      [] f.type = "uvarint" -> EncodeVarint(f.value)
      [] f.type = "svarint" -> EncodeVarint(ZigZag(SignExtended(f.value, f.size)))

-----------------------------------------------------------------------------
(* The decoders, a byte at a time.                                         *)

Start == [state |-> "more", bitpos |-> 0, value |-> {}]
Failed(d) == [d EXCEPT !.state = "error"]

\* uint_fast8_t bitpos.
NextBitpos(bitpos) == (bitpos + 7) % 256

\* The loop of pb_decode_varint.
Step64(d, byte) ==
    IF d.state # "more" THEN d
    ELSE IF d.bitpos >= 64 THEN Failed(d)
    ELSE [state |-> IF Continues(byte) THEN "more" ELSE "ok",
          bitpos |-> NextBitpos(d.bitpos),
          value |-> d.value \cup (Shifted(Payload(byte), d.bitpos) \cap Bits(64))]

\* Mutant: a negative number ends like any other byte of it.
SignExtensionAlways(bitpos) == Bits(8)

\* 0xFF, or 0x01 for the last byte of a negative number.
SignExtension(bitpos) == IF bitpos < 63 THEN Bits(8) ELSE {0}

\* What a byte adds to a result of 32 bits.
Added32(d, byte) ==
    IF d.bitpos >= 32 THEN {} ELSE Shifted(Payload(byte), d.bitpos) \cap Bits(32)

\* The loop of pb_decode_varint32_eof; its quick case is the first turn.
Step32(d, byte) ==
    LET next == [state |-> IF Continues(byte) THEN "more" ELSE "ok",
                 bitpos |-> NextBitpos(d.bitpos),
                 value |-> d.value \cup Added32(d, byte)]
    IN  CASE d.state # "more" -> d
          [] d.state = "more" /\ d.bitpos >= 32 /\ Payload(byte) # {}
                /\ (31 \notin d.value \/ byte # SignExtension(d.bitpos)) -> Failed(d)
          [] d.state = "more" /\ ~Continues(byte) /\ next.bitpos = 35
                /\ byte \cap {4, 5, 6} # {} -> Failed(d)
          [] OTHER -> next

Decode64(bs) == FoldLeft(Step64, Start, bs)
Decode32(bs) == FoldLeft(Step32, Start, bs)

\* pb_decode_svarint.
UnZigZag(value) ==
    LET half == Shifted(value \ {0}, -1)
    IN  IF 0 \in value THEN Bits(64) \ half ELSE half

\* pb_dec_varint casts what is not for a field of 64 bits to int32_t first.
CastVarint(value, size) ==
    IF size = 8 THEN value ELSE SignExtended(value \cap Bits(32), 4)

\* pb_dec_varint, pb_dec_uvarint, pb_dec_svarint: "integer too large" when the
\* field does not hold the value.
DecodeField(type, size, bs) ==
    LET d == Decode64(bs)
        value == CASE type = "varint" -> CastVarint(d.value, size)
                   [] type = "uvarint" -> d.value
                   [] type = "svarint" -> UnZigZag(d.value)
        kept == value \cap Bits(8 * size)
        clamped == IF type = "uvarint" THEN kept ELSE SignExtended(kept, size)
    IN  IF d.state = "ok" /\ clamped = value THEN [ok |-> TRUE, value |-> kept]
        ELSE [ok |-> FALSE, value |-> {}]

-----------------------------------------------------------------------------
Received == [type |-> "received"]

VarintInit == bytes = <<>> /\ field = Received

\* A field is encoded.
EncodeValue(type, size, value) ==
    /\ bytes = <<>>
    /\ field' = [type |-> type, size |-> size, value |-> value \cap Bits(8 * size)]
    /\ bytes' = EncodeField(field')

\* The next byte of a varint that comes from outside.
Receive(payload, top) ==
    /\ field = Received /\ Len(bytes) < MaxBytes
    /\ bytes # <<>> => Continues(Last(bytes))
    /\ bytes' = Append(bytes, payload \cup top)
    /\ UNCHANGED field

VarintNext ==
    \/ \E type \in {"varint", "uvarint", "svarint"}, size \in {1, 2, 4, 8}, value \in Values :
        EncodeValue(type, size, value)
    \/ \E payload \in Payloads(Len(bytes) + 1), top \in {{}, {7}} : Receive(payload, top)

VarintSpec == VarintInit /\ [][VarintNext]_varintVars

-----------------------------------------------------------------------------
VarintComplete == bytes # <<>> /\ ~Continues(Last(bytes))

\* The number that the bytes denote, of any length.
Denoted == UNION {Shifted(Payload(bytes[n]), 7 * (n - 1)) : n \in DOMAIN bytes}

\* Every value of every field type and size comes back as it was, and takes no
\* more than the ten bytes of pb_encode_varint's buffer.
FieldRoundTrip ==
    field # Received =>
        /\ Len(bytes) <= 10
        /\ DecodeField(field.type, field.size, bytes) = [ok |-> TRUE, value |-> field.value]

\* "Google's C++ protobuf allows negative varint values to be cast as int32_t":
\* a negative int32 that another writer sent with five bytes and one that was
\* sent with ten are decoded alike, and so is every length of trailing zeros
\* in between.
Int32EitherWay ==
    VarintComplete /\ Denoted \subseteq Bits(64) /\ Denoted \ Bits(32) \in {{}, 32..63}
        /\ (Denoted \ Bits(32) # {} => 31 \in Denoted) /\ Len(bytes) <= 10 =>
        DecodeField("varint", 4, bytes) = [ok |-> TRUE, value |-> Denoted \cap Bits(32)]

\* Lengths, tags and bools are read by pb_decode_varint32, integers by
\* pb_decode_varint: where both accept up to ten bytes they agree on the low
\* 32 bits, and the first accepts every int32 and uint32 in each encoding that
\* the second reads.
DecodersAgree ==
    VarintComplete /\ Len(bytes) <= 10 =>
        /\ Decode32(bytes).state = "ok" => Decode32(bytes).value = Decode64(bytes).value \cap Bits(32)
        /\ Denoted \subseteq Bits(32) => Decode32(bytes).state = "ok"
        /\ 31 \in Denoted /\ Denoted \cap (32..69) = 32..63 => Decode32(bytes).state = "ok"

\* Integers come through nanopb as they were, from its own encoder and in every
\* encoding another writer may choose, whichever decoder reads them.
VarintsFaithful == FieldRoundTrip /\ Int32EitherWay /\ DecodersAgree
=============================================================================
