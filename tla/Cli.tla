-------------------------------- MODULE Cli --------------------------------
(***************************************************************************)
(* A run of the command line tool (main.rs): its arguments are checked and *)
(* the miner's options are built from them, the sources are ingested       *)
(* (Records), and the clusters of the miner are reported (Report).         *)
(*                                                                         *)
(* The miner itself is another module: what it answers at the end is a     *)
(* parameter, found, in the order of its map.                              *)
(***************************************************************************)
EXTENDS Records, Report

CONSTANTS
  Cases,        \* arguments, sources and clusters found, of the runs
  KnownMasks,   \* names of the builtin masks
  NaN           \* a similarity threshold that is no number

ASSUME CliAssumption ==
  \A case \in Cases :
    /\ case.sources \in Seq(Seq(Byte))
    /\ case.args.recordSeparator \in Seq(Byte) \cup {None}

VARIABLES
  args,     \* the fields of Cli; timeFormat: whether it is given
  built,    \* Options of the miner
  found,    \* miner.clusters()
  output    \* what was printed

vars == <<args, built, found, output, ingestion>>

-----------------------------------------------------------------------------
(* Arguments.                                                              *)

Backslash == 92

\* The character of each escape: \n \r \t \0 \\.
EscapeOf ==
  [c \in {110, 114, 116, 48, Backslash} |->
     CASE c = 110 -> LF [] c = 114 -> CR [] c = 116 -> 9 [] c = 48 -> 0
       [] c = Backslash -> Backslash]

\* Mutant: a second backslash is written, and escapes the next character, too.
MutantUnescape(s) ==
  LET Char(state, c) ==
        IF ~state.escaped
        THEN IF c = Backslash THEN [state EXCEPT !.escaped = TRUE]
             ELSE [state EXCEPT !.out = Append(@, c)]
        ELSE [escaped |-> c = Backslash,
              out |-> state.out \o IF c \in DOMAIN EscapeOf THEN <<EscapeOf[c]>>
                                   ELSE <<Backslash, c>>]
      end == FoldLeft(Char, [escaped |-> FALSE, out |-> <<>>], s)
  IN  end.out

\* One character of the separator, the one before it a backslash or not.
UnescapeChar(state, c) ==
  IF ~state.escaped
  THEN IF c = Backslash THEN [state EXCEPT !.escaped = TRUE]
       ELSE [state EXCEPT !.out = Append(@, c)]
  ELSE [escaped |-> FALSE,
        out |-> state.out \o IF c \in DOMAIN EscapeOf THEN <<EscapeOf[c]>>
                             ELSE <<Backslash, c>>]

Unescape(s) ==
  LET end == FoldLeft(UnescapeChar, [escaped |-> FALSE, out |-> <<>>], s)
  IN  end.out \o IF end.escaped THEN <<Backslash>> ELSE <<>>

\* Options::default; the similarity threshold is in percent.
Defaults ==
  [simThreshold |-> 40, depth |-> 4, maxClustersPerLeaf |-> 100,
   parametrizeNumericTokens |-> TRUE, wildcard |-> "<*>",
   pathDelimiters |-> <<>>, firstLinePathDelimiters |-> <<>>,
   firstLineOnly |-> FALSE, masks |-> <<>>]

\* MinerBuilder::build_options
ValidOptions(o) ==
  /\ o.depth >= 2
  /\ o.simThreshold # NaN /\ o.simThreshold \in 0..100
  /\ o.maxClustersPerLeaf # 0

MaskNames == SelectSeq(args.masks, LAMBDA name : name # "")

\* build_miner: the setters that the arguments call.
Built ==
  [Defaults EXCEPT
     !.simThreshold   = args.simTh,
     !.depth          = args.depth,
     !.firstLineOnly  = args.firstLineOnly,
     !.pathDelimiters = IF args.pathDelimiters = None THEN @ ELSE args.pathDelimiters,
     !.masks          = IF args.masks = None THEN @ ELSE MaskNames]

\* What clap, build_miner and run do not accept, before anything is read.
Refused ==
  \/ args.timeFormat /\ args.timeKey = None
  \/ args.masks # None /\ ~(ToSet(MaskNames) \subseteq KnownMasks)
  \/ ~ValidOptions(Built)
  \/ args.recordSeparator # None /\ args.multilineStart # None
  \/ args.recordSeparator # None /\ Unescape(args.recordSeparator) = <<>>
  \/ args.multilineStart = "invalid"

Start == outcome = "start"

Refuse ==
  /\ Start
  /\ Refused
  /\ outcome' = "error"
  /\ UNCHANGED <<args, built, found, output, options, sources, unread, buf, cutting,
                 fed, added, failures>>

Configure ==
  /\ Start
  /\ ~Refused
  /\ outcome' = "running"
  /\ built' = Built
  /\ options' =
       [mode |-> IF args.recordSeparator # None THEN "separated"
                 ELSE IF args.multilineStart # None THEN "multiline" ELSE "lines",
        separator |-> IF args.recordSeparator = None THEN <<>>
                      ELSE Unescape(args.recordSeparator),
        start |-> args.multilineStart,
        key |-> args.key, timeKey |-> args.timeKey, formatted |-> args.timeFormat]
  /\ UNCHANGED <<args, found, output, sources, unread, buf, cutting, fed, added, failures>>

-----------------------------------------------------------------------------

Finish ==
  /\ Drained
  /\ outcome' = "printed"
  /\ output' = Render(Prepare(found, args.minSize, args.sort), args.format)
  /\ UNCHANGED <<args, built, found, options, sources, unread, buf, cutting,
                 fed, added, failures>>

Init ==
  /\ \E case \in Cases :
       args = case.args /\ sources = case.sources /\ found = case.found
  /\ built = Defaults
  /\ options = [mode |-> "lines", separator |-> <<>>, start |-> None, key |-> None,
                timeKey |-> None, formatted |-> FALSE]
  /\ Idle
  /\ outcome = "start"
  /\ output = <<>>

Next ==
  \/ Refuse \/ Configure \/ Finish
  \/ Ingest /\ UNCHANGED <<args, built, found, output>>

Spec == Init /\ [][Next]_vars

-----------------------------------------------------------------------------
(* Properties.                                                             *)

\* The separator that the records are split by is what --record-separator
\* spells, read as a sequence of escapes and other characters, a backslash
\* before another character and a last one standing for themselves.
SeparatorIsMeant ==
  options.mode = "separated" /\ fed = <<>> =>
    LET raw   == args.recordSeparator
        units == {<<c>> : c \in ToSet(raw)} \cup {<<Backslash, c>> : c \in ToSet(raw)}
        Meaning(unit) == IF Len(unit) = 2 /\ unit[2] \in DOMAIN EscapeOf
                         THEN <<EscapeOf[unit[2]]>> ELSE unit
    IN  \E n \in 1..Len(raw) : \E spelled \in [1..n -> units] :
          /\ FlattenSeq(spelled) = raw
          /\ \A i \in 1..(n - 1) : spelled[i] # <<Backslash>>
          /\ options.separator = FlattenSeq([i \in 1..n |-> Meaning(spelled[i])])

\* The order in which the map of the miner returned the clusters, another one
\* in each process, does not show in what is printed, unless the clusters are
\* sorted by template and two have the same one.
ReportIgnoresMapOrder ==
  /\ outcome = "printed"
  /\ args.sort = "template" =>
       \A i, j \in DOMAIN found : i # j => found[i].template # found[j].template
  => \A p \in Permutations(DOMAIN found) :
       output = Render(Prepare([k \in DOMAIN found |-> found[p[k]]], args.minSize, args.sort),
                       args.format)

\* The fields of a row as the JSON object of the cluster has them.
Fields(o) ==
  <<Digits(o.id), Digits(o.size), OneDecimal(o.linesPerMinute), o.template,
    Digits(o.createdAt), Digits(o.updatedAt),
    OrEmpty(o.eventFirstSeen, Digits), OrEmpty(o.eventLastSeen, Digits),
    OrEmpty(o.eventRatePerMinute, OneDecimal),
    Join(o.members, Semi), OrEmpty(o.suffix, LAMBDA text : text)>>

\* Whatever characters templates, members and suffixes contain, a reader of
\* RFC 4180 finds in the CSV the header and the clusters of the JSON report,
\* in the same order and field by field.
FormatsAgree ==
  outcome = "printed" /\ args.format = "csv" =>
    LET json == Render(Prepare(found, args.minSize, args.sort), "json")
    IN  ParseCsv(output) = <<Header>> \o [k \in DOMAIN json |-> Fields(json[k])]
=============================================================================
