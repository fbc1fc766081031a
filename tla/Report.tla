------------------------------- MODULE Report -------------------------------
(***************************************************************************)
(* The report of the command line tool (format.rs): the clusters that the  *)
(* miner returns, in the order of its map, are filtered, sorted and        *)
(* rendered.                                                               *)
(*                                                                         *)
(* A character is its code point.  A number is written as one character of *)
(* its own, and a header name, too: no digit or letter is special.         *)
(***************************************************************************)
EXTENDS Integers, SequencesExt

CONSTANT Null   \* no suffix, no event time

Comma == 44
Quote == 34
LF    == 10
CR    == 13
Semi  == 59

-----------------------------------------------------------------------------
(* What a Cluster answers (cluster.rs).  Times are in milliseconds.        *)

\* Lines per minute as a fraction: 0 for a span under a second.
PerMinute(size, from, to) ==
  IF to - from < 1000 THEN <<0, 1>> ELSE <<size, to - from>>

LinesPerMinute(c) == PerMinute(c.size, c.created, c.updated)

EventLinesPerMinute(c) ==
  IF Null \in {c.eventFirst, c.eventLast} THEN Null
  ELSE PerMinute(c.size, c.eventFirst, c.eventLast)

Slower(a, b) == a[1] * b[2] < b[1] * a[2]

-----------------------------------------------------------------------------
(* prepare                                                                 *)

\* The order of two texts.
Less(s, t) ==
  \E i \in DOMAIN t :
    /\ i <= Len(s) + 1
    /\ \A j \in 1..(i - 1) : s[j] = t[j]
    /\ i <= Len(s) => s[i] < t[i]

\* Mutant: clusters of equal size stay in the order of the map.
MutantBefore(sort, c, d) ==
  CASE sort = "size"     -> c.size > d.size
    [] sort = "template" -> Less(c.template, d.template)
    [] sort = "id"       -> c.id < d.id
    [] sort = "rate"     ->
         \/ Slower(LinesPerMinute(d), LinesPerMinute(c))
         \/ ~Slower(LinesPerMinute(c), LinesPerMinute(d)) /\ c.id < d.id

Before(sort, c, d) ==
  CASE sort = "size"     -> c.size > d.size \/ (c.size = d.size /\ c.id < d.id)
    [] sort = "template" -> Less(c.template, d.template)
    [] sort = "id"       -> c.id < d.id
    [] sort = "rate"     ->
         \/ Slower(LinesPerMinute(d), LinesPerMinute(c))
         \/ ~Slower(LinesPerMinute(c), LinesPerMinute(d)) /\ c.id < d.id

\* The sort is stable: ties keep the order that the miner returned.
Prepare(clusters, minSize, sort) ==
  LET kept  == SelectSeq(clusters, LAMBDA c : c.size >= minSize)
      order == SetToSortSeq(DOMAIN kept, LAMBDA i, j :
                 \/ Before(sort, kept[i], kept[j])
                 \/ i < j /\ ~Before(sort, kept[j], kept[i]))
  IN  [k \in DOMAIN order |-> kept[order[k]]]

-----------------------------------------------------------------------------
(* render                                                                  *)

\* A time before 1970 is printed as 0.
UnixMs(t) == IF t < 0 THEN 0 ELSE t

OptionMs(t) == IF t = Null THEN Null ELSE UnixMs(t)

ClusterJson(c) ==
  [id |-> c.id, size |-> c.size, template |-> c.template,
   linesPerMinute |-> LinesPerMinute(c),
   createdAt |-> UnixMs(c.created), updatedAt |-> UnixMs(c.updated),
   eventFirstSeen |-> OptionMs(c.eventFirst), eventLastSeen |-> OptionMs(c.eventLast),
   eventRatePerMinute |-> EventLinesPerMinute(c),
   members |-> c.members, suffix |-> c.suffix]

RenderJson(clusters) == [k \in DOMAIN clusters |-> ClusterJson(clusters[k])]

Digits(n) == <<1000 + n>>

\* A rate with one decimal.
OneDecimal(rate) == <<2000 + (rate[1] * 600000) \div rate[2]>>

OrEmpty(value, Text(_)) == IF value = Null THEN <<>> ELSE Text(value)

Join(texts, char) ==
  FlattenSeq([k \in DOMAIN texts |-> (IF k = 1 THEN <<>> ELSE <<char>>) \o texts[k]])

\* Mutant: only commas and newlines call for quotes.
MutantCsvEscape(field) ==
  IF {Comma, LF} \cap ToSet(field) = {} THEN field
  ELSE <<Quote>>
       \o FlattenSeq([i \in DOMAIN field |->
                        IF field[i] = Quote THEN <<Quote, Quote>> ELSE <<field[i]>>])
       \o <<Quote>>

CsvEscape(field) ==
  IF {Comma, Quote, LF, CR} \cap ToSet(field) = {} THEN field
  ELSE <<Quote>>
       \o FlattenSeq([i \in DOMAIN field |->
                        IF field[i] = Quote THEN <<Quote, Quote>> ELSE <<field[i]>>])
       \o <<Quote>>

Header == [i \in 1..11 |-> <<900 + i>>]

CsvRow(c) ==
  <<Digits(c.id), Digits(c.size), OneDecimal(LinesPerMinute(c)), c.template,
    Digits(UnixMs(c.created)), Digits(UnixMs(c.updated)),
    OrEmpty(OptionMs(c.eventFirst), Digits), OrEmpty(OptionMs(c.eventLast), Digits),
    OrEmpty(EventLinesPerMinute(c), OneDecimal),
    Join(c.members, Semi), OrEmpty(c.suffix, LAMBDA text : text)>>

RenderCsv(clusters) ==
  Join(Header, Comma) \o <<LF>> \o
  FlattenSeq([k \in DOMAIN clusters |->
    LET row == CsvRow(clusters[k])
    IN  Join([i \in DOMAIN row |-> CsvEscape(row[i])], Comma) \o <<LF>>])

\* The cells of the text table; a column of rates only if there is one.
RenderText(clusters) ==
  LET showRate == \E k \in DOMAIN clusters : LinesPerMinute(clusters[k])[1] > 0
  IN  [k \in DOMAIN clusters |->
         LET c == clusters[k] IN
         <<Digits(c.id), Digits(c.size)>>
         \o (IF showRate THEN <<OneDecimal(LinesPerMinute(c))>> ELSE <<>>)
         \o <<c.template>>]

\* json and jsonl print the same objects.
Render(clusters, format) ==
  CASE format = "text" -> RenderText(clusters)
    [] format \in {"json", "jsonl"} -> RenderJson(clusters)
    [] format = "csv"  -> RenderCsv(clusters)

-----------------------------------------------------------------------------
(* A reader of CSV by RFC 4180, to say what a file of it means: its rows,  *)
(* and none at all when the text is not CSV (it has no header then).       *)

ParseCsv(text) ==
  LET Char(s, char) ==
        IF s.state = "error" THEN s
        ELSE IF s.state = "quoted"
        THEN IF char = Quote THEN [s EXCEPT !.state = "closed"]
             ELSE [s EXCEPT !.field = Append(@, char)]
        ELSE IF char = Quote
        THEN CASE s.state = "fresh"  -> [s EXCEPT !.state = "quoted"]
               [] s.state = "closed" ->
                    [s EXCEPT !.state = "quoted", !.field = Append(@, Quote)]
               [] OTHER -> [s EXCEPT !.state = "error"]
        ELSE IF char = Comma
        THEN [s EXCEPT !.state = "fresh", !.field = <<>>, !.row = Append(@, s.field)]
        ELSE IF char \in {LF, CR}
        THEN [s EXCEPT !.state = "fresh", !.field = <<>>, !.row = <<>>,
                       !.rows = Append(@, Append(s.row, s.field))]
        ELSE IF s.state \in {"fresh", "bare"}
        THEN [s EXCEPT !.state = "bare", !.field = Append(@, char)]
        ELSE [s EXCEPT !.state = "error"]
      end == FoldLeft(Char, [state |-> "fresh", field |-> <<>>, row |-> <<>>, rows |-> <<>>], text)
  IN  IF end.state = "fresh" /\ end.row = <<>> THEN end.rows ELSE <<>>
=============================================================================
