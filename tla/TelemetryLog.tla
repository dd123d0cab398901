---------------------------- MODULE TelemetryLog ----------------------------
(***************************************************************************)
(* core/telemetry: the log that the suites of a run share.  Writer.Write   *)
(* (writer.go) has no lock and writes a record in up to seven pieces       *)
(* (tlv.go); log-dump (cmd/scrutineer/logdump.go) reads it with a Reader.  *)
(*                                                                         *)
(* The log is a sequence of cells.  A field of fixed size is one cell, the *)
(* timestamp two, so that it can be torn.  A text is its length: as many   *)
(* cells, and keys of different lengths.  A 16-bit length is taken modulo  *)
(* Width; 32-bit lengths do not overflow here.                             *)
(*                                                                         *)
(* Bounds: RecordCap records are written; when two suites have been inside *)
(* Write at once, which spoils the log, no further Write begins or fails.  *)
(***************************************************************************)
EXTENDS Naturals, Sequences, SequencesExt, FiniteSets, TLC

CONSTANTS Writers,   \* the suites that run, each in a goroutine
          Records,   \* the records they may write
          RecordCap, Width

ASSUME TelemetryAssumption == RecordCap \in Nat /\ Width \in Nat \ {0}

\* a record has finitely many tags; a key and its value are as long as these numbers
ASSUME RecordsAssumption ==
  \A rec \in Records :
    /\ rec \in [time : Nat, type : Nat, detail : Nat, tags : [DOMAIN rec.tags -> Nat]]
    /\ DOMAIN rec.tags \subseteq Nat /\ IsFiniteSet(DOMAIN rec.tags)

VARIABLES log,        \* the cells of the file
          headerDone, logClosed,
          writing,    \* each suite: its record and the pieces still to write
          written,    \* history: the records written to the end, in order
          begun,      \* history: how many records have been begun
          overlapped, \* history: two suites were inside Write at once
          failedAt    \* history: records written when a write failed, else RecordCap + 1

fileVars == <<log, headerDone, logClosed, writing, written, begun, overlapped, failedAt>>
-----------------------------------------------------------------------------
(* The format.                                                             *)

Magic == 83
Version == 1
Header == <<Magic, Version, 0, 1>>
Cells(n) == [i \in 1 .. n |-> 0]

\* a text after its length in 16 bits
Coded(n) == <<n % Width>> \o Cells(n)

\* the keys as sort.Strings leaves them
Sorted(keys) ==
  CHOOSE s \in [1 .. Cardinality(keys) -> keys] :
    /\ \A k \in keys : \E i \in DOMAIN s : s[i] = k
    /\ \A i, j \in DOMAIN s : i < j => s[i] < s[j]

\* encodeTags: each key and its value
EncodeTags(tags) ==
  LET keys == Sorted(DOMAIN tags)
  IN  FlattenSeq([i \in DOMAIN keys |-> Coded(keys[i]) \o Coded(tags[keys[i]])])

\* the tags and the detail are written only when there are any
IfAny(piece) == IF piece = <<>> THEN <<>> ELSE <<piece>>

\* variant: the length of the tags does not count the lengths of the values
PiecesShort(rec) ==
  LET tags == EncodeTags(rec.tags) count == Cardinality(DOMAIN rec.tags) IN
  << <<rec.time, rec.time>>, <<rec.type>>, <<count % Width>>, <<Len(tags) - count>>, <<rec.detail>> >>
    \o IfAny(tags) \o IfAny(Cells(rec.detail))

\* EncodeRecord: one Write call per field, then the tags and the detail
Pieces(rec) ==
  LET tags == EncodeTags(rec.tags) count == Cardinality(DOMAIN rec.tags) IN
  << <<rec.time, rec.time>>, <<rec.type>>, <<count % Width>>, <<Len(tags)>>, <<rec.detail>> >>
    \o IfAny(tags) \o IfAny(Cells(rec.detail))

NoTags == [k \in {} |-> 0]
Truncated == [status |-> "truncated"]
From(s, i) == SubSeq(s, i, Len(s))

\* a length and the text after it are there
LengthFits(s) == s # <<>> /\ Head(s) < Len(s)

SetTag(tags, key, val) == [k \in DOMAIN tags \cup {key} |-> IF k = key THEN val ELSE tags[k]]

\* a turn of the loop of decodeTags: a key and a value, each after its length
NextTag(last) ==
  LET s == last.rest
      v == From(s, Head(s) + 2)
  IN  IF last.ok /\ LengthFits(s) /\ LengthFits(v)
      THEN [ok |-> TRUE, tags |-> SetTag(last.tags, Head(s), Head(v)), rest |-> From(v, Head(v) + 2)]
      ELSE [last EXCEPT !.ok = FALSE]

\* decodeTags
DecodeTags(data, count) ==
  LET tag[i \in 0 .. count] ==
        IF i = 0 THEN [ok |-> TRUE, tags |-> NoTags, rest |-> data] ELSE NextTag(tag[i - 1])
  IN  tag[count]

\* DecodeRecord, and the cells after the record
DecodeRecord(s) ==
  IF s = <<>> THEN [status |-> "eof"]
  ELSE IF Len(s) < 6 \/ Len(s) < 6 + s[5] THEN Truncated
  ELSE LET tags == DecodeTags(SubSeq(s, 7, 6 + s[5]), s[4]) IN
       IF (s[5] > 0 /\ ~tags.ok) \/ Len(s) < 6 + s[5] + s[6] THEN Truncated
       ELSE [status |-> "ok", rest |-> From(s, 7 + s[5] + s[6]),
             rec |-> [time |-> s[1], type |-> s[3], detail |-> s[6],
                      tags |-> IF s[5] > 0 THEN tags.tags ELSE NoTags]]

\* Reader.Next after the header: once it has failed nothing more is asked of it
ReadNext(last) ==
  LET r == DecodeRecord(last.rest) IN
  IF last.status # "ok" THEN last
  ELSE IF r.status # "ok" THEN [last EXCEPT !.status = r.status]
  ELSE [status |-> "ok", rest |-> r.rest, recs |-> Append(last.recs, r.rec)]

ReadRecords(s) ==
  LET read[i \in 0 .. Len(s) + 1] ==
        IF i = 0 THEN [status |-> "ok", rest |-> s, recs |-> <<>>] ELSE ReadNext(read[i - 1])
  IN  read[Len(s) + 1]

\* Reader.Next until it fails: the header is read before the first record
ReadLog(s) ==
  IF Len(s) < Len(Header) THEN [status |-> "truncated", recs |-> <<>>]
  ELSE IF s[1] # Magic THEN [status |-> "magic", recs |-> <<>>]
  ELSE IF s[2] # Version THEN [status |-> "version", recs |-> <<>>]
  ELSE ReadRecords(From(s, Len(Header) + 1))

\* log-dump prints the records and exits with OK only at the end of the file
LogDump(s) == [printed |-> ReadLog(s).recs, code |-> IF ReadLog(s).status = "eof" THEN 0 ELSE 4]
-----------------------------------------------------------------------------
(* The writer.                                                             *)

Resting == [rec |-> <<>>, todo |-> <<>>]
Inside == {x \in Writers : writing[x].todo # <<>>}

LogStarts(open) ==
  /\ log = <<>> /\ headerDone = FALSE /\ logClosed = ~open
  /\ writing = [x \in Writers |-> Resting]
  /\ written = <<>> /\ begun = 0 /\ overlapped = FALSE /\ failedAt = RecordCap + 1

\* Write finds the writer open; it writes the header if it finds it missing
BeginWrite(x, rec) ==
  /\ x \notin Inside /\ ~logClosed /\ begun < RecordCap /\ ~overlapped
  /\ writing' = [writing EXCEPT ![x] =
       [rec |-> rec, todo |-> IF headerDone THEN Pieces(rec) ELSE <<Header>> \o Pieces(rec)]]
  /\ begun' = begun + 1 /\ overlapped' = (overlapped \/ Inside # {})
  /\ UNCHANGED <<log, headerDone, logClosed, written, failedAt>>

\* one Write call of the file; after the header it is done, after the last the record
WritePiece(x) ==
  /\ x \in Inside
  /\ LET todo == writing[x].todo rest == Tail(todo) IN
     /\ log' = log \o Head(todo)
     /\ headerDone' = (headerDone \/ Head(todo) = Header)
     /\ writing' = [writing EXCEPT ![x] = IF rest = <<>> THEN Resting ELSE [@ EXCEPT !.todo = rest]]
     /\ written' = IF rest = <<>> THEN Append(written, writing[x].rec) ELSE written
  /\ UNCHANGED <<logClosed, begun, overlapped, failedAt>>

\* the file takes a part of the piece, or nothing: Write returns the error
WriteFails(x) ==
  /\ x \in Inside /\ ~overlapped
  /\ \E k \in 0 .. Len(Head(writing[x].todo)) - 1 : log' = log \o SubSeq(Head(writing[x].todo), 1, k)
  /\ writing' = [writing EXCEPT ![x] = Resting]
  /\ failedAt' = IF failedAt > RecordCap THEN Len(written) ELSE failedAt
  /\ UNCHANGED <<headerDone, logClosed, written, begun, overlapped>>

\* cmd run closes the writer when the run is over
CloseLog ==
  /\ ~logClosed /\ Inside = {} /\ logClosed' = TRUE
  /\ UNCHANGED <<log, headerDone, writing, written, begun, overlapped, failedAt>>

LogNext ==
  \/ \E x \in Writers : WritePiece(x) \/ WriteFails(x) \/ \E rec \in Records : BeginWrite(x, rec)
  \/ CloseLog

LogSpec == LogStarts(TRUE) /\ [][LogNext]_fileVars
-----------------------------------------------------------------------------
\* all lengths of the record can be written in 16 bits
FitsWidth(rec) ==
  /\ Cardinality(DOMAIN rec.tags) < Width
  /\ \A k \in DOMAIN rec.tags : k < Width /\ rec.tags[k] < Width

\* the records written before one that does not fit, and before a failed write
Sound == LET bad == {i \in DOMAIN written : ~FitsWidth(written[i]) \/ i > failedAt} IN
         IF bad = {} THEN written
         ELSE SubSeq(written, 1, (CHOOSE i \in bad : \A j \in bad : i <= j) - 1)

(* Wherever the process stops and the file is cut, the reader (tlv.go:114- *)
(* 184) returns the records written so far, up to the first that has a     *)
(* length above 16 bits (line 211) or follows a failed write, as long as   *)
(* suites take turns (writer.go:20); it reports the end of the file exactly*)
(* when no record is half written, and log-dump exits accordingly.         *)
LogReadable ==
  ~overlapped =>
    /\ IsPrefix(Sound, ReadLog(log).recs)
    /\ failedAt > RecordCap /\ Sound = written =>
         /\ ReadLog(log).recs = written
         /\ LogDump(log).code = 0 <=> log # <<>> /\ \A x \in Inside : writing[x].todo = Pieces(writing[x].rec)
=============================================================================
