------------------------------ MODULE PbStream ------------------------------
(***************************************************************************)
(* Messages on nanopb's streams: pb_encode measures a submessage before it *)
(* writes it, through a stream that only counts, and pb_decode reads it    *)
(* through a substream that knows how many bytes are left.  A message has  *)
(* a number, a packed array of numbers, a submessage and a callback field; *)
(* the submessage has a number and a callback field of its own.            *)
(*                                                                         *)
(* A tag and a byte of data are a cell each; lengths and numbers are       *)
(* varints in base Base, so that the length of a length varies as well.    *)
(***************************************************************************)
EXTENDS Integers, Sequences, SequencesExt, FiniteSetsExt

CONSTANTS
    Base,           \* stands for the 128 of a varint's byte
    Numbers,        \* values of the number fields
    MaxArray,       \* array_size of the packed array
    MaxData,        \* bound: bytes that a callback writes
    Buffers         \* sizes of the output buffer

ASSUME StreamAssumption ==
    /\ Base \in Nat \ {0, 1} /\ Numbers \subseteq Nat
    /\ MaxArray \in Nat /\ MaxData \in Nat /\ Buffers \subseteq Nat

VARIABLES
    phase,          \* encode, then decode, then done or failed
    message,        \* what is encoded
    known,          \* fields that the decoder's descriptor has
    out,            \* the output stream
    cut,            \* bytes that reach the decoder
    decoder         \* stack of streams, position and what was decoded

streamVars == <<phase, message, known, out, cut, decoder>>

NoNumber == -1
Optional(S) == S \cup {NoNumber}
Arrays == UNION {[1..n -> Numbers] : n \in 0 .. MaxArray + 1}

\* data is what the callback field of the submessage writes; changes is by how
\* much it writes more or less every time after the first.
Messages ==
    {msg \in [number : Optional(Numbers), array : Arrays, sub : BOOLEAN,
              inner : Optional(Numbers), data : 0..MaxData, changes : -1..1, note : 0..1] :
        /\ msg.data + msg.changes >= 0
        /\ ~msg.sub => msg.inner = NoNumber /\ msg.data = 0 /\ msg.changes = 0}

NoDecoder == [pos |-> 0, left |-> <<>>, result |-> <<>>]

Sizing == [size |-> 0, cells |-> <<>>, max |-> 0, counts |-> TRUE, ok |-> TRUE, calls |-> 0]
Buffer(max) == [Sizing EXCEPT !.max = max, !.counts = FALSE]

StreamInit ==
    /\ phase = "start" /\ message = <<>> /\ known = {}
    /\ out = Sizing /\ cut = 0 /\ decoder = NoDecoder

-----------------------------------------------------------------------------
(* The encoder, as functions of the output stream.                         *)

Tag(field) == [kind |-> "tag", n |-> field]
Digit(n, more) == [kind |-> IF more THEN "more" ELSE "last", n |-> n]
DataByte(n) == [kind |-> "data", n |-> n]

VarintSize(n) == Min({k \in 1 .. n + 1 : n < Base ^ k})
Varint(n) ==
    [i \in 1..VarintSize(n) |-> Digit((n \div Base ^ (i - 1)) % Base, i < VarintSize(n))]

\* pb_write.
Write(s, cells) ==
    IF ~s.ok THEN s
    ELSE IF ~s.counts /\ s.size + Len(cells) > s.max THEN [s EXCEPT !.ok = FALSE]
    ELSE [s EXCEPT !.size = @ + Len(cells),
                   !.cells = IF s.counts THEN @ ELSE @ \o cells]

WriteNumber(s, field, n) ==
    IF n = NoNumber THEN s ELSE Write(Write(s, <<Tag(field)>>), Varint(n))

\* A callback that writes a string; calls counts how often it was asked.
WriteData(s, field, len) == Write(Write(Write(s, <<Tag(field)>>), Varint(len)),
                                  [i \in 1..len |-> DataByte(i)])

CallbackData(s) ==
    LET len == message.data + (IF s.calls > 0 THEN message.changes ELSE 0)
    IN  [WriteData(s, 2, len) EXCEPT !.calls = @ + 1]

\* "Just sizing": the contents are counted without being encoded.
Counted(header, size) == [header EXCEPT !.size = @ + size]

\* encode_array: the packed array is measured first.
EncodeArray(s, array) ==
    LET sizing == FoldLeft(LAMBDA t, n : Write(t, Varint(n)), Sizing, array)
        header == Write(Write(s, <<Tag(2)>>), Varint(sizing.size))
    IN  IF array = <<>> THEN s
        ELSE IF Len(array) > MaxArray THEN [s EXCEPT !.ok = FALSE]
        ELSE IF s.counts THEN Counted(header, sizing.size)
        ELSE FoldLeft(LAMBDA t, n : Write(t, Varint(n)), header, array)

\* pb_encode of the submessage's fields.
EncodeInner(s) == CallbackData(WriteNumber(s, 1, message.inner))

\* "verify that a callback doesn't write more than what it did the first
\* time".
SubstreamMax(s, size) == size

\* Mutant: a submessage that comes out shorter is let pass.
SizeChangedNever(written, size) == FALSE

\* "submsg size changed".
SizeChanged(written, size) == written # size

\* pb_encode_submessage.
EncodeSubmessage(s) ==
    LET sizing == EncodeInner([Sizing EXCEPT !.calls = s.calls])
        header == [Write(s, Varint(sizing.size)) EXCEPT !.calls = sizing.calls]
        sub == EncodeInner([Buffer(SubstreamMax(header, sizing.size)) EXCEPT !.calls = sizing.calls])
    IN  IF ~sizing.ok \/ ~header.ok THEN [header EXCEPT !.ok = FALSE]
        ELSE IF s.counts THEN Counted(header, sizing.size)
        ELSE IF header.size + sizing.size > header.max THEN [header EXCEPT !.ok = FALSE]
        ELSE [header EXCEPT !.size = @ + sub.size, !.cells = @ \o sub.cells, !.calls = sub.calls,
                            !.ok = sub.ok /\ ~SizeChanged(sub.size, sizing.size)]

\* pb_encode, field by field until one fails.
EncodeFields(s) ==
    LET number == WriteNumber(s, 1, message.number)
        array == IF number.ok THEN EncodeArray(number, message.array) ELSE number
        sub == IF message.sub /\ array.ok THEN EncodeSubmessage(Write(array, <<Tag(3)>>)) ELSE array
    IN  IF sub.ok /\ message.note > 0 THEN WriteData(sub, 4, message.note) ELSE sub

\* pb_encode into a buffer, after the caller asked pb_get_encoded_size or not.
Encode(msg, max) ==
    /\ phase = "start"
    /\ message' = msg
    /\ phase' = "encode"
    /\ out' = Buffer(max)
    /\ UNCHANGED <<known, cut, decoder>>

EncodeMessage ==
    /\ phase = "encode"
    /\ out' = EncodeFields(out)
    /\ phase' = IF out'.ok THEN "encoded" ELSE "refused"
    /\ UNCHANGED <<message, known, cut, decoder>>

-----------------------------------------------------------------------------
(* The decoder, a stack of streams: left[i] is bytes_left.                 *)

Top == Len(decoder.left)
Left == decoder.left[Top]
Cell(i) == out.cells[decoder.pos + i]

\* The bytes arrive, all or some of them.
Decode(n, fields) ==
    /\ phase = "encoded" /\ n <= out.size
    /\ phase' = "decode" /\ cut' = n /\ known' = fields
    /\ decoder' = [pos |-> 0, left |-> <<n>>, result |-> <<>>]
    /\ UNCHANGED <<message, out>>

\* The length of the varint after the cells that were skipped, if it is there.
VarintLength(skip) ==
    LET ends == {k \in 1 .. Left - skip : Cell(skip + k).kind = "last"}
    IN  IF ends = {} THEN 0 ELSE Min(ends)

VarintAt(skip) ==
    LET upTo[k \in 0..VarintLength(skip)] ==
            IF k = 0 THEN 0 ELSE upTo[k - 1] + Cell(skip + k).n * Base ^ (k - 1)
    IN  upTo[VarintLength(skip)]

Fail == phase' = "failed" /\ UNCHANGED <<message, known, out, cut, decoder>>

Advance(n, result) ==
    /\ decoder' = [decoder EXCEPT !.pos = @ + n, !.left[Top] = @ - n,
                                  !.result = decoder.result \o result]
    /\ UNCHANGED <<phase, message, known, out, cut>>

AtTag(field) == phase = "decode" /\ Left > 0 /\ Cell(1) = Tag(field)

\* "end-of-stream": running out of bytes is the end only where a tag may come.
EndOfStream == Fail

\* A number: pb_dec_uvarint.
DecodeNumber ==
    /\ AtTag(1)
    /\ IF VarintLength(1) = 0 THEN EndOfStream
       ELSE Advance(1 + VarintLength(1),
                    IF Top = 1 /\ 1 \notin known THEN <<>> ELSE << <<Top, "number", VarintAt(1)>> >>)

\* "parent stream too short".
FitsParent(size, left) == size <= left

\* pb_dec_submessage opens a substream, which takes its bytes from the parent
\* at once.
OpenSubmessage ==
    /\ AtTag(3) /\ Top = 1 /\ 3 \in known
    /\ LET len == VarintLength(1)
           size == VarintAt(1)
           left == Left - 1 - len
       IN  IF len = 0 \/ ~FitsParent(size, left) THEN Fail
           ELSE /\ decoder' = [pos |-> decoder.pos + 1 + len,
                               left |-> <<left - size, size>>,
                               result |-> Append(decoder.result, <<Top, "sub", 0>>)]
                /\ UNCHANGED <<phase, message, known, out, cut>>

\* pb_close_string_substream, when the substream has been read to its end.
CloseSubmessage ==
    /\ phase = "decode" /\ Top = 2 /\ Left = 0
    /\ decoder' = [decoder EXCEPT !.left = Front(@)]
    /\ UNCHANGED <<phase, message, known, out, cut>>

\* pb_skip_field or a callback that reads a string: one that must be there.
SkipData ==
    /\ \/ AtTag(2) /\ (Top = 2 \/ 2 \notin known)
       \/ AtTag(3) /\ 3 \notin known
       \/ AtTag(4)
    /\ LET len == VarintLength(1)
           kept == (Top = 2 /\ AtTag(2)) \/ (AtTag(4) /\ 4 \in known)
       IN  IF len = 0 \/ 1 + len + VarintAt(1) > Left THEN Fail
           ELSE Advance(1 + len + VarintAt(1),
                        IF kept THEN << <<Top, "data", VarintAt(1)>> >> ELSE <<>>)

\* The numbers of a packed array of size bytes that starts after skip cells.
Packed(skip, size) ==
    LET ends == {k \in 1..size : Cell(skip + k).kind = "last"}
        starts == {1} \cup {k + 1 : k \in ends \ {size}}
        start(i) == CHOOSE k \in starts : Cardinality({j \in starts : j <= k}) = i
    IN  [i \in 1..Cardinality(starts) |-> VarintAt(skip + start(i) - 1)]

\* decode_static_field of a packed array: "array overflow" if items are left.
DecodeArray ==
    /\ AtTag(2) /\ Top = 1 /\ 2 \in known
    /\ LET len == VarintLength(1)
           size == VarintAt(1)
       IN  IF len = 0 \/ ~FitsParent(size, Left - 1 - len) THEN Fail
           ELSE Advance(1 + len + size, << <<Top, "array", Packed(1 + len, size)>> >>)

EndOfMessage ==
    /\ phase = "decode" /\ Top = 1 /\ Left = 0
    /\ phase' = "decoded"
    /\ UNCHANGED <<message, known, out, cut, decoder>>

StreamNext ==
    \/ phase = "start" /\ \E msg \in Messages, max \in Buffers : Encode(msg, max)
    \/ EncodeMessage
    \/ \E n \in 0 .. out.size, fields \in {1..4, {1, 4}, {3}} : Decode(n, fields)
    \/ DecodeNumber \/ OpenSubmessage \/ CloseSubmessage \/ SkipData \/ DecodeArray \/ EndOfMessage

StreamSpec == StreamInit /\ [][StreamNext]_streamVars

-----------------------------------------------------------------------------
Encoded == phase \in {"encoded", "decode", "decoded", "failed"}

\* What a decoder with the fields known makes of the message: the callback of
\* the submessage was asked twice, so a changing one would write more.
Expected ==
    (IF message.number # NoNumber /\ 1 \in known THEN << <<1, "number", message.number>> >> ELSE <<>>)
    \o (IF message.array # <<>> /\ 2 \in known THEN << <<1, "array", message.array>> >> ELSE <<>>)
    \o (IF ~message.sub \/ 3 \notin known THEN <<>>
        ELSE << <<1, "sub", 0>> >>
             \o (IF message.inner # NoNumber THEN << <<2, "number", message.inner>> >> ELSE <<>>)
             \o << <<2, "data", message.data>> >>)
    \o (IF message.note > 0 /\ 4 \in known THEN << <<1, "data", message.note>> >> ELSE <<>>)

\* The buffer is never overrun, and the stream counts what is in it, also when
\* encoding failed half-way.
WithinBuffer ==
    phase # "start" => out.size <= out.max /\ Len(out.cells) = out.size

\* pb_get_encoded_size and the encoding agree: a buffer of this size is enough
\* and a smaller one is refused.
SizeExact ==
    phase \in {"encoded", "refused"} /\ Len(message.array) <= MaxArray
            /\ message.changes = 0 =>
        (phase = "encoded" <=> EncodeFields(Sizing).size <= out.max)

\* A submessage whose second encoding differs from its first is refused, and
\* so everything that was encoded is decoded to what it was, by a decoder that
\* has all fields or skips some it does not know.
DecodesWhatWasEncoded ==
    /\ Encoded => message.changes = 0
    /\ phase \in {"decoded", "failed"} /\ cut = out.size =>
        phase = "decoded" /\ decoder.result = Expected

\* The sizes of what a whole number of fields takes.
Boundaries ==
    LET number == WriteNumber(Sizing, 1, message.number)
        array == EncodeArray(number, message.array)
        sub == IF message.sub THEN EncodeSubmessage(Write(array, <<Tag(3)>>)) ELSE array
    IN  {0, number.size, array.size, sub.size, out.size}

\* A message cut short is decoded without an error only if it was cut between
\* two fields, and then to the beginning of what it was.
CutNoticed ==
    phase = "decoded" => cut \in Boundaries /\ IsPrefix(decoder.result, Expected)

\* A substream never has more than its parent had: the streams together have
\* the bytes that are left, and nothing past the end is read.
BytesLeftAccounted ==
    phase = "decode" =>
        /\ \A i \in DOMAIN decoder.left : decoder.left[i] >= 0
        /\ decoder.pos + FoldSeq(+, 0, decoder.left) = cut

\* Messages come through streams as they were, within their buffers: sizes are
\* exact, nothing is read past an end, and a message cut short is noticed.
StreamsFaithful ==
    /\ WithinBuffer /\ SizeExact /\ BytesLeftAccounted
    /\ DecodesWhatWasEncoded /\ CutNoticed
=============================================================================
