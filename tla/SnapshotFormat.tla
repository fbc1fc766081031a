--------------------------- MODULE SnapshotFormat ---------------------------
(***************************************************************************)
(* The bytes of a snapshot (snapshot.rs): magic, version and a body that   *)
(* is written field after field, without names or types.  Version 2 had no *)
(* event window; decode upgrades it.                                       *)
(*                                                                         *)
(* A word stands for an encoded number, character, tag or length.  What is *)
(* stored may be what an older or a newer build wrote, may have lost its   *)
(* end, and may be followed by the rest of something longer.               *)
(***************************************************************************)
EXTENDS Integers, Sequences

CONSTANTS
  Bodies,      \* the states of a miner, as SnapshotV1 values (a tuple)
  Magic,       \* MAGIC
  None,        \* a backend that holds nothing
  EventUnset,  \* EVENT_UNSET
  Junk         \* words that may follow

VERSION == 3

ASSUME FormatAssumption == EventUnset \in Nat /\ Len(Magic) > 0

VARIABLES
  miner,    \* the state of the miner, as a body
  blob,     \* what the backend holds, or None
  written,  \* the body that it was made of
  damage,   \* what has happened to it since
  at,       \* the step of restore that is due, or "rest"
  decoded,  \* its local variable: what was decoded
  result,   \* of the last load_state
  before    \* not in the code: the miner when load_state was called

stored == <<blob, written, damage>>
vars   == <<miner, stored, at, decoded, result, before>>

-----------------------------------------------------------------------------
(* The shapes of values: bincode is external.                              *)

Word        == [kind |-> "word"]
Option(s)   == [kind |-> "option", of |-> s]
Vec(s)      == [kind |-> "vec", of |-> s]
Struct(ss)  == [kind |-> "struct", fields |-> ss]
Str         == Vec(Word)

\* The serialized Options: wildcard, path_delimiters and first_line_only stand
\* for all of its fields; masks are skipped.
OptionsShape == Struct(<<Str, Str, Word>>)

TokenShape == Struct(<<Str, Option(Word), Option(Word)>>)

\* event_first_ms and event_last_ms, before suffix.
Window(version) == IF version = VERSION THEN <<Word, Word>> ELSE <<>>

\* ClusterSnapshot and ClusterSnapshotV2: id, tokens, size, created_at_ms,
\* updated_at_ms, suffix, members.
RowShape(version) ==
  Struct(<<Word, Vec(TokenShape), Word, Word, Word>> \o Window(version)
           \o <<Option(Str), Vec(Str)>>)

\* SnapshotV1 and SnapshotBodyV2: options, counter, clusters.
BodyShape(version) == Struct(<<OptionsShape, Word, Vec(RowShape(version))>>)

\* An option is a sequence of at most one value.
RECURSIVE Bytes(_, _), BytesOfAll(_, _)
BytesOfAll(shapes, values) ==
  IF values = <<>> THEN <<>>
  ELSE Bytes(Head(shapes), Head(values)) \o BytesOfAll(Tail(shapes), Tail(values))
Bytes(shape, value) ==
  LET each == [i \in DOMAIN value |-> shape.of]
  IN  CASE shape.kind = "word"   -> <<value>>
        [] shape.kind = "struct" -> BytesOfAll(shape.fields, value)
        [] OTHER                 -> <<Len(value)>> \o BytesOfAll(each, value)

Failed == [ok |-> FALSE]
Parsed(value, rest) == [ok |-> TRUE, value |-> value, rest |-> rest]

\* What bincode reads from the front of some words.
RECURSIVE Read(_, _), ReadAll(_, _)
ReadAll(shapes, bytes) ==
  IF shapes = <<>> THEN Parsed(<<>>, bytes)
  ELSE LET first == Read(Head(shapes), bytes)
           more  == ReadAll(Tail(shapes), first.rest)
       IN  IF ~first.ok THEN Failed
           ELSE IF ~more.ok THEN Failed
           ELSE Parsed(<<first.value>> \o more.value, more.rest)
Read(shape, bytes) ==
  CASE shape.kind = "struct" -> ReadAll(shape.fields, bytes)
    [] shape.kind # "struct" /\ bytes = <<>> -> Failed
    [] shape.kind = "word" /\ bytes # <<>> -> Parsed(bytes[1], Tail(bytes))
    [] shape.kind \in {"option", "vec"} /\ bytes # <<>> ->
         IF bytes[1] > (IF shape.kind = "option" THEN 1 ELSE Len(bytes)) THEN Failed
         ELSE ReadAll([i \in 1..bytes[1] |-> shape.of], Tail(bytes))

-----------------------------------------------------------------------------
(* encode and decode.                                                      *)

Encode(body) == Magic \o <<VERSION>> \o Bytes(BodyShape(VERSION), body)

\* A row of version 2, which has no window, and of the current version.
Old(row) == SubSeq(row, 1, 5) \o SubSeq(row, 8, 9)

\* Mutant: the unset window is all zero.
MutantUpgraded(row) == SubSeq(row, 1, 5) \o <<0, 0>> \o SubSeq(row, 6, 7)

Upgraded(row) == SubSeq(row, 1, 5) \o <<EventUnset, 0>> \o SubSeq(row, 6, 7)

\* SnapshotBodyV2::upgrade
Upgrade(body) == [body EXCEPT ![3] = [i \in DOMAIN @ |-> Upgraded(@[i])]]

\* Mutant: the number of bytes is not checked against what is read.
MutantBody(version, payload) ==
  Read(BodyShape(version), payload \o [i \in 1..4 |-> 0])

\* bincode::deserialize, which lets bytes follow.
Body(version, payload) == Read(BodyShape(version), payload)

Header == Len(Magic) + 1

Error(why) == [ok |-> FALSE, why |-> why]

Decode(bytes) ==
  LET version == bytes[Header]
      body    == Body(version, SubSeq(bytes, Header + 1, Len(bytes)))
  IN  IF Len(bytes) < Header \/ SubSeq(bytes, 1, Len(Magic)) # Magic
      THEN Error("BadMagic")
      ELSE IF version \notin {2, VERSION} THEN Error("UnsupportedSnapshotVersion")
      ELSE IF ~body.ok THEN Error("Decode")
      ELSE [ok |-> TRUE,
            body |-> IF version = 2 THEN Upgrade(body.value) ELSE body.value]

-----------------------------------------------------------------------------
(* A miner and what it is loaded from.                                      *)

\* Between two calls, whose result and past no longer matter.
Forgotten == at = "rest" /\ result' = "none" /\ before' = miner' /\ UNCHANGED <<at, decoded>>

\* save_state of this build.
Save ==
  /\ blob' = Encode(miner)
  /\ written' = miner
  /\ damage' = "none"
  /\ UNCHANGED miner
  /\ Forgotten

\* What the build before this one would have saved of a miner without event
\* timestamps.
SavedBefore(state) ==
  Magic \o <<2>>
    \o Bytes(BodyShape(2), [state EXCEPT ![3] = [i \in DOMAIN @ |-> Old(@[i])]])

\* The miner runs on: its state is another one.
RunOn ==
  /\ \E state \in Bodies : miner' = state
  /\ UNCHANGED stored
  /\ Forgotten

\* External: an older build has saved.
SaveOld ==
  /\ \E state \in Bodies :
       /\ \A i \in DOMAIN state[3] : state[3][i][6] = EventUnset /\ state[3][i][7] = 0
       /\ blob' = SavedBefore(state)
       /\ written' = state
  /\ damage' = "none"
  /\ UNCHANGED miner
  /\ Forgotten

\* External: the end of the blob is lost, other bytes follow it, it is not a
\* snapshot, or a newer build wrote it.
Damage ==
  /\ damage = "none"
  /\ \/ /\ \E n \in 0..(Len(blob) - 1) : blob' = SubSeq(blob, 1, n)
        /\ damage' = "cut"
     \/ /\ \E rest \in Junk : blob' = blob \o rest
        /\ damage' = "longer"
     \/ /\ \E i \in 1..Len(Magic) : blob' = [blob EXCEPT ![i] = @ + 1]
        /\ damage' = "magic"
     \/ /\ blob' = [blob EXCEPT ![Header] = VERSION + 1]
        /\ damage' = "newer"
  /\ UNCHANGED <<miner, written>>
  /\ Forgotten

-----------------------------------------------------------------------------
(* load_state, and restore in the order of its statements.                 *)

\* Mutant: the clusters are given up before the bytes are decoded.
MutantSteps == <<"clear", "decode", "rewind", "replay">>

Steps == <<"decode", "clear", "rewind", "replay">>

\* The step after one; after the last, restore returns.
After(step) ==
  LET i == CHOOSE i \in DOMAIN Steps : Steps[i] = step
  IN  IF i = Len(Steps) THEN "rest" ELSE Steps[i + 1]

Return(answer) == at' = "rest" /\ result' = answer /\ decoded' = <<>>

\* load_state: p.load() answers what is stored, if anything is.
LoadState ==
  /\ at = "rest"
  /\ before' = miner
  /\ IF blob = None THEN Return("false")
     ELSE at' = Head(Steps) /\ result' = "none" /\ UNCHANGED decoded
  /\ UNCHANGED <<miner, stored>>

\* let body = decode(bytes)?
DecodeBytes ==
  /\ at = "decode"
  /\ LET reading == Decode(blob) IN
       IF reading.ok
       THEN decoded' = reading.body /\ at' = After(at) /\ UNCHANGED result
       ELSE Return(reading.why)
  /\ UNCHANGED <<miner, stored, before>>

\* shards.clear() and clusters_by_id.clear()
Clear ==
  /\ at = "clear"
  /\ miner' = [miner EXCEPT ![3] = <<>>]
  /\ at' = After(at)
  /\ UNCHANGED <<stored, decoded, result, before>>

\* counter.store: options stay what they are.
Rewind ==
  /\ at = "rewind"
  /\ miner' = [miner EXCEPT ![2] = decoded[2]]
  /\ at' = After(at)
  /\ UNCHANGED <<stored, decoded, result, before>>

\* The loop over the clusters, and Ok when it ends.
Replay ==
  /\ at = "replay"
  /\ LET next == Len(miner[3]) + 1 IN
       IF next \in DOMAIN decoded[3]
       THEN /\ miner' = [miner EXCEPT ![3] = Append(@, decoded[3][next])]
            /\ UNCHANGED <<at, result, decoded>>
       ELSE Return("Ok") /\ UNCHANGED miner
  /\ UNCHANGED <<stored, before>>

Init ==
  /\ miner \in Bodies
  /\ blob = None /\ written = miner /\ damage = "absent"
  /\ at = "rest" /\ decoded = <<>> /\ result = "none" /\ before = miner

Next ==
  \/ Save \/ RunOn \/ SaveOld \/ Damage
  \/ LoadState \/ DecodeBytes \/ Clear \/ Rewind \/ Replay

Spec == Init /\ [][Next]_vars

-----------------------------------------------------------------------------
(* Properties.                                                             *)

\* A restore that succeeds yields the clusters and the counter that were
\* saved, field for field, whichever layout they were saved in and whatever
\* follows them.
RestoredIsWritten ==
  result = "Ok" => miner[2] = written[2] /\ miner[3] = written[3]

\* A snapshot that lost any part of its end, that is none, or that has a later
\* layout is never restored from, and the error says which it is.
DamageIsDetected ==
  result # "none" =>
    CASE damage \in {"none", "longer"} -> result = "Ok"
      [] damage = "absent" -> result = "false"
      [] damage = "cut"   -> result = IF Len(blob) < Header THEN "BadMagic" ELSE "Decode"
      [] damage = "magic" -> result = "BadMagic"
      [] damage = "newer" -> result = "UnsupportedSnapshotVersion"

\* What cannot be restored costs nothing: from the call of load_state through
\* every step of restore, which clears the miner, rewinds the counter and then
\* replays cluster by cluster, to its return, the miner stays what it was,
\* unless a whole snapshot is stored.
FailedRestoreChangesNothing ==
  at # "rest" \/ result # "none" =>
    damage \in {"none", "longer"} \/ miner = before
=============================================================================
