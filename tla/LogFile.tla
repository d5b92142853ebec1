------------------------------ MODULE LogFile ------------------------------
(***************************************************************************)
(* The format of logs and manifests: db/log_writer.cc cuts a record into   *)
(* fragments that do not cross the end of a block, db/log_reader.cc puts   *)
(* them together again from a file that a crash has cut off anywhere, or   *)
(* in which something has changed.                                         *)
(*                                                                         *)
(* A file is a sequence of cells, one for each byte: the first cell of a   *)
(* header stands for the type, the length and the checksum, a cell of data *)
(* names its record and its place in it.  The checksum of a fragment fits  *)
(* just if its cells are the ones that were written for it.                *)
(***************************************************************************)
EXTENDS Integers, Sequences, SequencesExt, FiniteSetsExt

CONSTANTS
    BlockSize,      \* kBlockSize
    HeaderSize,     \* kHeaderSize
    Lengths,        \* lengths of records
    MaxRecords,     \* bound: records written
    MaxFailures,    \* bound: appends that fail
    MaxReuses,      \* bound: times the file is opened again (reuse_logs)
    MaxOffset       \* bound: initial_offset of readers

ASSUME LogAssumption ==
    /\ HeaderSize \in Nat \ {0, 1} /\ BlockSize \in Nat /\ BlockSize > HeaderSize
    /\ Lengths \subseteq Nat
    /\ MaxRecords \in Nat /\ MaxFailures \in Nat /\ MaxReuses \in Nat /\ MaxOffset \in Nat

VARIABLES
    file,           \* the cells
    offset,         \* block_offset_ of the writer
    pending,        \* the record in AddRecord and how much of it is out, or none
    written,        \* records in order: length, place in the file, in it or not
    failures, reuses,
    damage,         \* what happened to the file since it was written
    reader          \* the reader, or Off

writerVars == <<file, offset, pending, written, failures, reuses>>
logVars == <<writerVars, damage, reader>>

NoRecord == [rec |-> 0, done |-> 0, begun |-> FALSE]
NoDamage == [kind |-> "none", at |-> 0]
Off == [state |-> "off"]

LogInit ==
    /\ file = <<>> /\ offset = 0 /\ pending = NoRecord /\ written = <<>>
    /\ failures = 0 /\ reuses = 0
    /\ damage = NoDamage /\ reader = Off

-----------------------------------------------------------------------------
(* The writer.                                                             *)

Writing == damage = NoDamage /\ reader = Off

Zero == [kind |-> "zero"]
Header(type, rec, first, len) ==
    [kind |-> "header", type |-> type, rec |-> rec, first |-> first, len |-> len]
HeaderRest == [kind |-> "rest"]
DataCell(rec, n) == [kind |-> "data", rec |-> rec, n |-> n]
DataOf(rec) == [n \in 1..written[rec].len |-> DataCell(rec, n)]

NeedsNewBlock(leftover) == leftover < HeaderSize

\* Mutant: the type looks at the end only.
TypeByEnd(begin, end) == IF end THEN "full" ELSE "first"

TypeOf(begin, end) ==
    CASE begin /\ end -> "full"
      [] begin /\ ~end -> "first"
      [] ~begin /\ end -> "last"
      [] OTHER -> "middle"

\* One turn of the loop of AddRecord: zeros that fill the block, header and
\* payload of the next fragment.
NextFragment ==
    LET leftover == BlockSize - offset
        fill == NeedsNewBlock(leftover)
        start == IF fill THEN 0 ELSE offset
        left == written[pending.rec].len - pending.done
        n == Min({left, BlockSize - start - HeaderSize})
        type == TypeOf(~pending.begun, n = left)
    IN  [pad |-> IF fill THEN leftover ELSE 0,
         cells |-> [i \in 1 .. (IF fill THEN leftover ELSE 0) |-> Zero]
                   \o <<Header(type, pending.rec, pending.done + 1, n)>>
                   \o [i \in 1 .. HeaderSize - 1 |-> HeaderRest]
                   \o [i \in 1..n |-> DataCell(pending.rec, pending.done + i)],
         offset |-> start + HeaderSize + n,
         n |-> n,
         end |-> n = left]

\* AddRecord is called.
AddRecord(len) ==
    /\ Writing /\ pending = NoRecord /\ Len(written) < MaxRecords
    /\ written' = Append(written, [len |-> len, start |-> 0, end |-> 0, ok |-> FALSE])
    /\ pending' = [rec |-> Len(written'), done |-> 0, begun |-> FALSE]
    /\ UNCHANGED <<file, offset, failures, reuses, damage, reader>>

\* EmitPhysicalRecord succeeds; the last one completes the record.
Emit ==
    /\ Writing /\ pending # NoRecord
    /\ LET f == NextFragment
           r == pending.rec
       IN  /\ file' = file \o f.cells
           /\ offset' = f.offset
           /\ pending' = IF f.end THEN NoRecord
                         ELSE [pending EXCEPT !.done = @ + f.n, !.begun = TRUE]
           /\ written' = [written EXCEPT
                ![r].start = IF pending.begun THEN @ ELSE Len(file) + f.pad,
                ![r].end = Len(file'),
                ![r].ok = f.end]
    /\ UNCHANGED <<failures, reuses, damage, reader>>

\* Append or Flush fails: some of the bytes are in the file, block_offset_
\* goes on as if all were, and AddRecord returns the error.
EmitFails(k) ==
    /\ Writing /\ pending # NoRecord /\ failures < MaxFailures
    /\ k < Len(NextFragment.cells)
    /\ file' = file \o SubSeq(NextFragment.cells, 1, k)
    /\ offset' = NextFragment.offset
    /\ pending' = NoRecord
    /\ failures' = failures + 1
    /\ UNCHANGED <<written, reuses, damage, reader>>

\* The Append that fills a block fails, which AddRecord does not look at: the
\* next fragment comes too early in the file.
TrailerFails(k) ==
    /\ Writing /\ pending # NoRecord /\ failures < MaxFailures
    /\ NeedsNewBlock(BlockSize - offset) /\ k < BlockSize - offset
    /\ file' = file \o [i \in 1..k |-> Zero]
    /\ offset' = 0
    /\ failures' = failures + 1
    /\ UNCHANGED <<pending, written, reuses, damage, reader>>

-----------------------------------------------------------------------------
(* What happens to the file.                                               *)

\* The process or the machine dies: the file ends anywhere.
CutOff(n) ==
    /\ Writing /\ n <= Len(file)
    /\ file' = SubSeq(file, 1, n)
    /\ damage' = [kind |-> "cut", at |-> n]
    /\ written' = [r \in DOMAIN written |->
                    [written[r] EXCEPT !.ok = @ /\ written[r].end <= n]]
    /\ pending' = NoRecord
    /\ UNCHANGED <<offset, failures, reuses, reader>>

\* A byte changes: a header may then give any length and type.
Corrupt(i) ==
    /\ Writing /\ pending = NoRecord /\ i \in DOMAIN file
    /\ file' = [file EXCEPT ![i] = [kind |-> "bad"]]
    /\ damage' = [kind |-> "corrupt", at |-> i]
    /\ UNCHANGED <<offset, pending, written, failures, reuses, reader>>

\* The device fails to read the block that starts at i.
Unreadable(i) ==
    /\ Writing /\ pending = NoRecord /\ i % BlockSize = 0 /\ i <= Len(file)
    /\ damage' = [kind |-> "unreadable", at |-> i]
    /\ UNCHANGED <<writerVars, reader>>

-----------------------------------------------------------------------------
(* The reader.                                                             *)

\* SkipToInitialBlock: not the block if the offset is in its trailer.
InitialBlock(from) ==
    from - (from % BlockSize)
         + (IF from % BlockSize > BlockSize - (HeaderSize - 1) THEN BlockSize ELSE 0)

\* Reader and its first ReadRecord; a tail that AddRecord was writing is there
\* only after a crash.
StartRead(from) ==
    /\ reader = Off /\ pending = NoRecord
    /\ from <= Len(file) /\ (from > 0 => damage = NoDamage)
    /\ reader' = [state |-> "reading", from |-> from,
                  pos |-> InitialBlock(from), end |-> InitialBlock(from),
                  eof |-> FALSE, resyncing |-> from > 0,
                  fragmented |-> FALSE, scratch |-> <<>>, records |-> <<>>, drops |-> 0]
    /\ UNCHANGED <<writerVars, damage>>

\* The buffer is refilled when no header fits into what is left of it.
Refilled(r) ==
    IF r.end - r.pos >= HeaderSize \/ r.eof THEN r
    ELSE LET n == Max({0, Min({BlockSize, Len(file) - r.end})})
         IN  [r EXCEPT !.pos = r.end, !.end = r.end + n, !.eof = n < BlockSize]

FailsToRead(r) ==
    /\ r.end - r.pos < HeaderSize /\ ~r.eof
    /\ damage = [kind |-> "unreadable", at |-> r.end]

\* Type and length that the bytes after pos may show: those of the header that
\* was written there, zeros, or anything.
HeadersAt(pos) ==
    LET cell == file[pos + 1]
    IN  CASE cell.kind = "header" -> {[type |-> cell.type, len |-> cell.len]}
          [] cell.kind = "zero" -> {[type |-> "zero", len |-> 0]}
          [] OTHER -> [type : {"zero", "other"}, len : 0..BlockSize]

\* The checksum is that of type and payload.
ChecksumFits(pos, len) ==
    LET h == file[pos + 1]
    IN  /\ h.kind = "header" /\ h.len = len
        /\ \A i \in 2..HeaderSize : file[pos + i] = HeaderRest
        /\ \A i \in 1..len : file[pos + HeaderSize + i] = DataCell(h.rec, h.first + i - 1)

\* ReportDrop: what was dropped began at or after initial_offset_.
Reported(r, begin) == IF begin >= r.from THEN [r EXCEPT !.drops = @ + 1] ELSE r

\* "length" may be what is wrong, so the rest of the block is dropped.
AfterBadChecksum(r, len) == [r EXCEPT !.pos = r.end]

\* ReadPhysicalRecord of a reader that has been refilled, for the header h.
PhysicalRecord(r, h) ==
    LET next == r.pos + HeaderSize + h.len
        rest == [r EXCEPT !.pos = r.end]
        result(type, data, s) == [type |-> type, data |-> data, reader |-> s]
    IN  CASE next > r.end /\ r.eof -> result("eof", <<>>, rest)
          [] next > r.end /\ ~r.eof -> result("bad", <<>>, Reported(rest, r.pos))
          [] next <= r.end /\ h.type = "zero" /\ h.len = 0 -> result("bad", <<>>, rest)
          [] next <= r.end /\ ~(h.type = "zero" /\ h.len = 0) /\ ~ChecksumFits(r.pos, h.len) ->
                result("bad", <<>>, Reported(AfterBadChecksum(r, h.len), r.pos))
          [] OTHER -> IF r.pos < r.from
                      THEN result("bad", <<>>, [r EXCEPT !.pos = next])
                      ELSE result(h.type, SubSeq(file, r.pos + HeaderSize + 1, next),
                                  [r EXCEPT !.pos = next])

PhysicalRecords(r) ==
    IF FailsToRead(r)
    THEN {[type |-> "eof", data |-> <<>>, reader |-> Reported([r EXCEPT !.eof = TRUE], r.from)]}
    ELSE LET full == Refilled(r)
         IN  IF full.end - full.pos < HeaderSize
             THEN {[type |-> "eof", data |-> <<>>, reader |-> full]}
             ELSE {PhysicalRecord(full, h) : h \in HeadersAt(full.pos)}

\* Mutant: an error in the middle of a record goes unnoticed.
AfterBadRecordGoesOn(r) == r

\* kBadRecord in the middle of a record drops the record.
AfterBadRecord(r) ==
    IF r.fragmented
    THEN [Reported(r, r.pos - Len(r.scratch)) EXCEPT !.fragmented = FALSE, !.scratch = <<>>]
    ELSE r

Returns(r, record) ==
    [r EXCEPT !.records = Append(@, record), !.fragmented = FALSE, !.scratch = <<>>]

\* A start without an end: reported unless it is empty.
Restarted(r) ==
    IF r.fragmented /\ r.scratch # <<>> THEN Reported(r, r.pos - Len(r.scratch)) ELSE r

\* Fragments without a start are skipped in silence while resyncing.
Skips(r, type) == r.resyncing /\ type \in {"middle", "last"}

\* One turn of the loop of ReadRecord.
AfterFragment(p) ==
    LET r == [p.reader EXCEPT !.resyncing = FALSE]
        none == Reported(r, r.pos - Len(p.data))
    IN  CASE Skips(p.reader, p.type) ->
                [p.reader EXCEPT !.resyncing = p.type = "middle"]
          [] ~Skips(p.reader, p.type) /\ p.type = "full" -> Returns(Restarted(r), p.data)
          [] ~Skips(p.reader, p.type) /\ p.type = "first" ->
                [Restarted(r) EXCEPT !.fragmented = TRUE, !.scratch = p.data]
          [] ~Skips(p.reader, p.type) /\ p.type = "middle" ->
                IF r.fragmented THEN [r EXCEPT !.scratch = @ \o p.data] ELSE none
          [] ~Skips(p.reader, p.type) /\ p.type = "last" ->
                IF r.fragmented THEN Returns(r, r.scratch \o p.data) ELSE none
          [] p.type = "bad" -> AfterBadRecord(r)
          [] p.type = "eof" -> [r EXCEPT !.state = "done", !.fragmented = FALSE, !.scratch = <<>>]

ReadFragment ==
    /\ reader.state = "reading"
    /\ \E p \in PhysicalRecords(reader) : reader' = AfterFragment(p)
    /\ UNCHANGED <<writerVars, damage>>

\* RecoverLogFile with reuse_logs: the file is appended to from its length on.
Reuse ==
    /\ reader.state = "done" /\ damage.kind = "cut" /\ reuses < MaxReuses
    /\ reuses' = reuses + 1
    /\ offset' = Len(file) % BlockSize
    /\ damage' = NoDamage /\ reader' = Off
    /\ UNCHANGED <<file, pending, written, failures>>

LogNext ==
    \/ \E len \in Lengths : AddRecord(len)
    \/ Emit
    \/ \E k \in 0 .. 2 * BlockSize : EmitFails(k)
    \/ \E k \in 0 .. HeaderSize : TrailerFails(k)
    \/ \E n \in 0 .. Len(file) : CutOff(n) \/ Corrupt(n) \/ Unreadable(n)
    \/ \E from \in 0 .. MaxOffset : StartRead(from)
    \/ ReadFragment
    \/ Reuse

LogSpec == LogInit /\ [][LogNext]_logVars

-----------------------------------------------------------------------------
\* The writer's place in its block is that of the file unless an append failed.
LogTypeOK ==
    /\ offset \in 0..BlockSize
    /\ Writing /\ failures = 0 => (Len(file) - offset) % BlockSize = 0
    /\ pending = NoRecord \/ pending.rec = Len(written)
    /\ reader # Off =>
        /\ reader.pos <= reader.end
        /\ reader.end - reader.pos <= BlockSize
        /\ ~reader.fragmented => reader.scratch = <<>>

Done == reader # Off /\ reader.state = "done"

\* Records that AddRecord completed and the file still has, from the offset on.
CompleteRecords == {r \in DOMAIN written : written[r].ok /\ written[r].start >= reader.from}

\* No append failed and no torn tail was appended to: the writer's place in the
\* block is that of the file.
Aligned == failures = 0 /\ reuses = 0

ReadIds == {r \in DOMAIN written : \E i \in DOMAIN reader.records : reader.records[i] = DataOf(r)}

\* What the reader returns was written, whole, and in this order: whatever a
\* crash, a changed byte or a failed append left, fragments of different
\* records are never put together and nothing is returned twice.
ReadsWereWritten ==
    reader # Off =>
        \E ids \in [DOMAIN reader.records -> DOMAIN written] :
            /\ \A i \in DOMAIN ids : reader.records[i] = DataOf(ids[i])
            /\ \A i, j \in DOMAIN ids : i < j => ids[i] < ids[j]

\* "The Reader will start reading at the first record located at physical
\* position >= initial_offset": of a file that is intact or was cut off by a
\* crash, ReadRecord returns exactly the records that are in it to their last
\* byte.  Not so once the file was appended to behind a torn record, as
\* EmitFails and Reuse do.
ReadsAllComplete ==
    Done /\ Aligned /\ damage.kind \in {"none", "cut"} =>
        reader.records = [i \in 1..Len(SetToSeq(CompleteRecords)) |->
                            DataOf(SetToSortSeq(CompleteRecords, <)[i])]

\* "just ignore the entire logical record": a tail cut off by a crash is not
\* reported as a corruption.
CrashIsNoCorruption ==
    Done /\ Aligned /\ reader.from = 0 /\ damage.kind \in {"none", "cut"} => reader.drops = 0

\* A changed byte costs only records that share its block.
DamageContained ==
    Done /\ Aligned /\ damage.kind = "corrupt" =>
        \A r \in CompleteRecords :
            \/ r \in ReadIds
            \/ /\ written[r].start < BlockSize * ((damage.at - 1) \div BlockSize + 1)
               /\ written[r].end > BlockSize * ((damage.at - 1) \div BlockSize)

\* What survives is read: of a log that was cut off every complete record and
\* no report of a corruption, of a damaged one all but the records in the block
\* of the damage.
ReadsWhatSurvives == LogTypeOK /\ ReadsAllComplete /\ CrashIsNoCorruption /\ DamageContained
=============================================================================
