------------------------------- MODULE MCCli -------------------------------
(* Command lines, sources and clusters for TLC. *)
EXTENDS Cli

CONSTANT MaxBytes

\* A dash is 45, an s 115; an n after a backslash (92) is a newline.
MCSpace          == {LF, CR}
MCKnownMasks     == {"uuid", "ipv4"}

\* An s at the start; or that, or nothing at all.
Patterns == {"^s", "^s|^$"}

MCStarts(pattern, line) ==
  IF line = <<>> THEN pattern = "^s|^$" ELSE line[1] = 115

\* A record with a dash is an object.  Its message is a text, or null if it
\* begins with a dash and an s; with an s it also has the time t.at: a number
\* if digits follow.
Json(kind, text, members) == [kind |-> kind, text |-> text, members |-> members]

MCJsonOf(record) ==
  LET time == Json("number", SubSeq(record, 3, Len(record)), <<>>) IN
  IF 45 \notin ToSet(record) THEN None
  ELSE Json("object", record,
         "m" :> Json(IF Len(record) > 1 /\ <<45, 115>> = SubSeq(record, 1, 2)
                     THEN "null" ELSE "string", record, <<>>)
         @@ (IF 115 \in ToSet(record)
             THEN "t" :> Json("object", <<>>, "at" :> time) ELSE <<>>))

MCReadings(text) ==
  [offset  |-> None, naive |-> -5, rfc3339 |-> 7,
   integer |-> IF text # <<>> /\ ToSet(text) \subseteq 48..57
               THEN FoldLeft(LAMBDA n, c : n * 10 + (c - 48), 0, text)
               ELSE None]

\* A number in ten digits.
Decimal(n) ==
  [i \in 1..10 |-> 48 + IF i = 1 THEN n \div 1000000000
                        ELSE (n \div 10^(10 - i)) % 10]

Plain ==
  [key |-> None, format |-> "json", minSize |-> 0, sort |-> "size", simTh |-> 40,
   depth |-> 4, pathDelimiters |-> None, firstLineOnly |-> FALSE, masks |-> None,
   recordSeparator |-> None, multilineStart |-> None, timeKey |-> None,
   timeFormat |-> FALSE]

Empty == << <<>> >>

-----------------------------------------------------------------------------
(* Ingestion: any source of a few bytes, or two short ones, and some with   *)
(* carriage returns.                                                       *)

Bytes == {LF, 45, 115}

MCInputs ==
  {<<s>> : s \in BoundedSeq(Bytes, MaxBytes)} \cup
  {<<s>> : s \in BoundedSeq({LF, CR, 115}, 4)} \cup
  {<<s, t>> : s, t \in BoundedSeq(Bytes, 2)}

Modes == {[Plain EXCEPT !.recordSeparator = <<45, 45>>],
          [Plain EXCEPT !.recordSeparator = <<92, 110>>], Plain}
         \cup {[Plain EXCEPT !.multilineStart = p] : p \in Patterns}

Keyed(a) == {a, [a EXCEPT !.key = <<"m">>],
                [a EXCEPT !.timeKey = <<"t", "at">>],
                [a EXCEPT !.key = <<"m">>, !.timeKey = <<"t", "at">>, !.timeFormat = TRUE]}

RecordCases ==
  [args : UNION {Keyed(a) : a \in Modes}, sources : MCInputs, found : {<<>>}]

-----------------------------------------------------------------------------
(* Times: each side of each limit, in each unit.                           *)

TimeCases ==
  {[args |-> [Plain EXCEPT !.timeKey = <<"t", "at">>],
    sources |-> << <<45, 115>> \o Decimal(n) >>, found |-> <<>>] :
     n \in UNION {LoggedAs(t) : t \in {Limit, Limit + 1, Limit * 500, Limit * 1000 - 1}}}

-----------------------------------------------------------------------------
(* Separators of a few characters: a backslash, n, 0 and a dash.           *)

SeparatorCases ==
  {[args |-> [Plain EXCEPT !.recordSeparator = s], sources |-> Empty, found |-> <<>>] :
     s \in BoundedSeq({Backslash, 110, 48, 45}, 4)}

-----------------------------------------------------------------------------
(* Arguments: every combination of what may be refused.                    *)

ArgCases ==
  {[args |-> [Plain EXCEPT !.simTh = s, !.depth = d, !.masks = m, !.firstLineOnly = m # None,
                           !.pathDelimiters = p, !.recordSeparator = r, !.multilineStart = l,
                           !.timeKey = t, !.timeFormat = f],
    sources |-> Empty, found |-> <<>>] :
     s \in {-1, 0, 100, 101, NaN}, d \in {1, 2},
     m \in {None, <<"uuid", "", "ipv4">>, <<"bogus">>},
     p \in {None, <<47>>}, r \in {None, <<>>, <<45>>},
     l \in {None, "^s", "invalid"}, t \in {None, <<"t">>}, f \in BOOLEAN}

-----------------------------------------------------------------------------
(* Reports.                                                                *)

Cluster(id, size, template, updated) ==
  [id |-> id, size |-> size, template |-> template, created |-> -1, updated |-> updated,
   eventFirst |-> Null, eventLast |-> Null, members |-> <<>>, suffix |-> Null]

\* Three clusters that tie, or do not, in each order.
Tied ==
  {[i \in 1..3 |-> Cluster(4 - i, s[i], t[i], u[i])] :
     s \in [1..3 -> 1..2], t \in [1..3 -> {<<97>>, <<97, 44>>}], u \in [1..3 -> {0, 1500}]}

OrderCases ==
  {[args |-> [Plain EXCEPT !.sort = s, !.format = f, !.minSize = n],
    sources |-> Empty, found |-> cs] :
     s \in {"size", "template", "id", "rate"}, f \in {"text", "jsonl", "csv"},
     n \in {0, 2}, cs \in Tied}

\* One cluster with any texts of up to two characters that matter to CSV.
Quoted(chars) == BoundedSeq(chars, 2)

CsvCases ==
  {[args |-> [Plain EXCEPT !.format = "csv"], sources |-> Empty,
    found |-> << [Cluster(1, 2, t, 5000) EXCEPT !.suffix = s, !.members = m,
                    !.eventFirst = e[1], !.eventLast = e[2]],
                 Cluster(2, 1, <<97>>, 0) >>] :
     t \in Quoted({97, Quote, Comma}), s \in {Null} \cup Quoted({97, Quote, LF, CR}),
     m \in {<<>>, <<<<Quote>>, <<97>>>>},
     e \in {<<Null, Null>>, <<0, 3000>>, <<5, 5>>, <<3000, 0>>}}

MCCases ==
  RecordCases \cup TimeCases \cup SeparatorCases \cup ArgCases \cup OrderCases \cup CsvCases
=============================================================================
