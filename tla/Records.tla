------------------------------ MODULE Records ------------------------------
(***************************************************************************)
(* Ingestion by the command line tool (main.rs): from the bytes of its     *)
(* sources to the records that it adds to the miner, by the three ways of  *)
(* assembling a record: a line; the lines from one that starts a record to *)
(* the next; or the bytes between separators, read in chunks.  Cli runs    *)
(* it.                                                                     *)
(*                                                                         *)
(* A source is a sequence of bytes.  How a record reads as JSON, how a     *)
(* text reads as a time and which lines a regex matches are parameters.    *)
(***************************************************************************)
EXTENDS EventTime, SequencesExt

CONSTANTS
  Newline,       \* ends a line
  Return,        \* a carriage return, dropped if a newline follows
  Space,         \* the bytes that trim drops, Newline among them
  SepChunk,      \* SEP_CHUNK, the most bytes that a read returns
  Starts(_, _),  \* whether a pattern of --multiline-start matches a line
  JsonOf(_),     \* a record as a JSON value: kind, text, members; or None
  Readings(_)    \* the readings of a text as a time, for ParseEventMs

Byte == 0..255

ASSUME RecordsAssumption ==
  /\ Newline \in Space /\ Space \subseteq Byte
  /\ SepChunk \in Nat \ {0}

VARIABLES
  options,   \* mode; separator; start; key, timeKey: paths, or None; formatted
  sources,   \* what there is to read
  unread,    \* what is left of the source that is being read, as it is read
  buf,       \* bytes of a record that has not ended yet
  cutting,   \* whether buf may hold a separator
  fed,       \* for each source opened, the records that were fed
  added,     \* the calls of add and add_at: text and event time
  failures,  \* time_parse_failures
  outcome    \* "start", "running", "error" or "printed"

ingestion == <<options, sources, unread, buf, cutting, fed, added, failures, outcome>>

-----------------------------------------------------------------------------
(* Ingestor::feed                                                          *)

\* input::extract_field: the text at a path of keys, null counting as absent.
ExtractField(record, path) ==
  LET get(value, key) ==
        IF value = None \/ key \notin DOMAIN value.members
        THEN None ELSE value.members[key]
      at == FoldLeft(get, JsonOf(record), path)
  IN  IF at = None \/ at.kind = "null" THEN None ELSE at.text

IsBlank(record) == ToSet(record) \subseteq Space

\* What of a record is added: nothing, or one text.
Texts(record) ==
  IF options.key # None THEN {ExtractField(record, options.key)} \ {None}
  ELSE IF IsBlank(record) THEN {} ELSE {record}

EventMs(record) ==
  LET value == ExtractField(record, options.timeKey) IN
  IF options.timeKey = None \/ value = None THEN None
  ELSE ParseEventMs(Readings(value), options.formatted)

Feed(record) ==
  /\ fed' = [fed EXCEPT ![Len(fed)] = Append(@, record)]
  /\ failures' =
       failures + IF options.timeKey # None /\ EventMs(record) = None THEN 1 ELSE 0
  /\ added' = added \o
       SetToSeq({[text |-> text, ms |-> EventMs(record)] : text \in Texts(record)})

NoFeed == UNCHANGED <<fed, failures, added>>

-----------------------------------------------------------------------------
(* Lines, by BufRead::lines.                                               *)

\* What is read by lines: a carriage return before a newline is no part of one.
LineEnds(bytes) ==
  FlattenSeq([i \in 1..Len(bytes) |->
                IF bytes[i] = Return /\ i < Len(bytes) /\ bytes[i + 1] = Newline
                THEN <<>> ELSE <<bytes[i]>>])

Running == outcome = "running"

LineEnd ==
  IF \E i \in DOMAIN unread : unread[i] = Newline
  THEN CHOOSE i \in DOMAIN unread :
         unread[i] = Newline /\ \A j \in 1..(i - 1) : unread[j] # Newline
  ELSE Len(unread) + 1

Line == SubSeq(unread, 1, LineEnd - 1)

TakeLine == unread' = SubSeq(unread, LineEnd + 1, Len(unread))

\* ingest_reader
ReadLine ==
  /\ Running
  /\ options.mode = "lines"
  /\ unread # <<>>
  /\ TakeLine
  /\ Feed(Line)
  /\ UNCHANGED <<options, sources, buf, cutting, outcome>>

\* Mutant: lines are joined without the newline that ended the first.
MutantJoined(line) == IF buf = <<>> THEN line ELSE buf \o line

\* The record in progress with one more line.
Joined(line) == IF buf = <<>> THEN line ELSE buf \o <<Newline>> \o line

\* Mutant: the record is not cleared once it was fed.
MutantGroupLine ==
  /\ Running
  /\ options.mode = "multiline"
  /\ unread # <<>>
  /\ TakeLine
  /\ IF Starts(options.start, Line) /\ buf # <<>> THEN Feed(buf) ELSE NoFeed
  /\ buf' = Joined(Line)
  /\ UNCHANGED <<options, sources, cutting, outcome>>

\* ingest_multiline_start: no bytes yet means no record in progress, so that an
\* empty line begins none, whether it matches or not.
GroupLine ==
  /\ Running
  /\ options.mode = "multiline"
  /\ unread # <<>>
  /\ TakeLine
  /\ IF Starts(options.start, Line) /\ buf # <<>>
     THEN Feed(buf) /\ buf' = Line
     ELSE NoFeed /\ buf' = Joined(Line)
  /\ UNCHANGED <<options, sources, cutting, outcome>>

-----------------------------------------------------------------------------
(* Separated records.                                                      *)

\* Where a separator occurs in bytes; find_sub takes the first place.
Places(bytes) ==
  {i \in 1..(Len(bytes) - Len(options.separator) + 1) :
     SubSeq(bytes, i, i + Len(options.separator) - 1) = options.separator}

FindSub(bytes) == CHOOSE i \in Places(bytes) : \A j \in Places(bytes) : i <= j

\* Mutant: what is left of a chunk is dropped when the next one is read.
MutantExtended(chunk) == chunk

Extended(chunk) == buf \o chunk

\* reader.read fills any part of the chunk.
ReadChunk ==
  /\ Running
  /\ options.mode = "separated"
  /\ ~cutting
  /\ \E n \in 1..SepChunk :
       /\ n <= Len(unread)
       /\ buf' = Extended(SubSeq(unread, 1, n))
       /\ unread' = SubSeq(unread, n + 1, Len(unread))
  /\ cutting' = TRUE
  /\ NoFeed
  /\ UNCHANGED <<options, sources, outcome>>

\* The next record of buf, if a separator ends it.
Cut ==
  /\ Running
  /\ cutting
  /\ IF Places(buf) = {}
     THEN cutting' = FALSE /\ NoFeed /\ UNCHANGED buf
     ELSE LET pos == FindSub(buf) IN
            /\ Feed(SubSeq(buf, 1, pos - 1))
            /\ buf' = SubSeq(buf, pos + Len(options.separator), Len(buf))
            /\ UNCHANGED cutting
  /\ UNCHANGED <<options, sources, unread, outcome>>

-----------------------------------------------------------------------------
(* Sources.                                                                *)

\* The end of a source: what is left of a record is one, too.
EndSource ==
  /\ Running
  /\ unread = <<>> /\ ~cutting
  /\ buf # <<>>
  /\ Feed(buf)
  /\ buf' = <<>>
  /\ UNCHANGED <<options, sources, unread, cutting, outcome>>

\* What the reader of a source returns of it.
Contents(source) == IF options.mode = "separated" THEN source ELSE LineEnds(source)

\* File::open of the next source, once all is fed of the one before.
NextSource ==
  /\ Running
  /\ unread = <<>> /\ ~cutting /\ buf = <<>>
  /\ Len(fed) < Len(sources)
  /\ fed' = Append(fed, <<>>)
  /\ unread' = Contents(sources[Len(fed) + 1])
  /\ UNCHANGED <<options, sources, buf, cutting, added, failures, outcome>>

\* A source cannot be opened or read, or a line is not UTF-8: run returns the
\* error and prints nothing.
Fail ==
  /\ Running
  /\ outcome' = "error"
  /\ UNCHANGED <<options, sources, unread, buf, cutting, fed, added, failures>>

Drained ==
  /\ Running
  /\ unread = <<>> /\ ~cutting /\ buf = <<>>
  /\ Len(fed) = Len(sources)

Idle ==
  /\ unread = <<>> /\ buf = <<>> /\ cutting = FALSE
  /\ fed = <<>>
  /\ added = <<>>
  /\ failures = 0

Ingest ==
  \/ ReadLine \/ GroupLine \/ ReadChunk \/ Cut
  \/ EndSource \/ NextSource \/ Fail

-----------------------------------------------------------------------------
(* Properties, of every source that was read to its end.                   *)

Read(k) == k < Len(fed) \/ outcome = "printed"

\* Records with a separator between each two.
Chain(records, between) ==
  FlattenSeq([i \in 1..(2 * Len(records) - 1) |->
                IF i % 2 = 1 THEN records[(i + 1) \div 2] ELSE between])

\* However the reads cut the stream: the records and the separators are the
\* source again, a separator at its very end apart, and each record ends at
\* the first separator after its start.
ChunksDoNotShow ==
  options.mode = "separated" =>
    \A k \in DOMAIN fed : Read(k) =>
      /\ \/ sources[k] = Chain(fed[k], options.separator)
         \/ sources[k] = Chain(fed[k], options.separator) \o options.separator
      /\ \A i \in DOMAIN fed[k] :
           Places(fed[k][i] \o options.separator)
             \cap 1..(Len(fed[k][i]) - IF i = Len(fed[k]) THEN Len(options.separator) - 1 ELSE 0)
             = {}

Newlines(n) == [i \in 1..n |-> Newline]

\* Whether the pattern takes an empty line for the start of a record.
EmptyStarts == Starts(options.start, <<>>)

\* The records of a source are its lines again, but for empty ones at its
\* start and the newline at its end: grouping loses and doubles no line.  If
\* empty lines start records, those between records and at the end are lost,
\* too, and only those: a record in progress that is empty is none.
GroupingKeepsLines ==
  options.mode = "multiline" =>
    \A k \in DOMAIN fed : Read(k) =>
      LET text == LineEnds(sources[k])
      IN  \E before \in [1..Len(fed[k]) -> 0..Len(text)], after \in 0..Len(text) :
            /\ text = Chain([i \in 1..Len(fed[k]) |-> Newlines(before[i]) \o fed[k][i]],
                            <<Newline>>)
                        \o Newlines(after)
            /\ EmptyStarts \/ fed[k] = <<>> \/ after <= 1
            /\ EmptyStarts \/ \A i \in 2..Len(fed[k]) : before[i] = 0

\* A line that starts a record is the first of its record, and every record
\* but the first of a source begins with one, or has lost the empty one that
\* started it.
GroupsBeginAtStarts ==
  options.mode = "multiline" =>
    \A k \in DOMAIN fed : \A i \in DOMAIN fed[k] :
      LET record == fed[k][i]
          lineAt(j) == SelectInSubSeq(record, j, Len(record), LAMBDA b : b = Newline)
          first(j) == SubSeq(record, j, (IF lineAt(j) = 0 THEN Len(record) + 1 ELSE lineAt(j)) - 1)
      IN  /\ i > 1 => Starts(options.start, first(1)) \/ EmptyStarts
          /\ \A j \in 2..(Len(record) + 1) :
               record[j - 1] = Newline => ~Starts(options.start, first(j))

\* The numbers by which programs log a time, by seconds and smaller units.
LoggedAs(t) == {t \div 1000, t, t * 1000, t * 1000 * 1000}

\* A program that logs seconds, one that logs milliseconds, microseconds or
\* nanoseconds: a line of an event has the same time, but for the part of a
\* second, from the first time whose milliseconds are not taken for seconds
\* to the last whose seconds are not taken for milliseconds.
TimesIgnoreUnits ==
  options.key = None /\ options.timeKey # None /\ ~options.formatted =>
    \A i \in DOMAIN added :
      LET value == ExtractField(added[i].text, options.timeKey)
          n     == IF value = None THEN None ELSE Readings(value).integer
      IN  n # None =>
            \A t \in Limit..(Limit * 1000 - 1) :
              n \in LoggedAs(t) => added[i].ms \in {t, t - (t % 1000)}
=============================================================================
