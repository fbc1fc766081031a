----------------------------- MODULE FileStore -----------------------------
(***************************************************************************)
(* FilePersistence (persistence.rs) on a file system: save writes a        *)
(* temporary sibling, syncs it and renames it over the target; load reads  *)
(* the target while savers run.                                            *)
(*                                                                         *)
(* The file system is external.  A directory binds the two names to files; *)
(* a blob is written in Pieces.  A power failure loses any suffix of what  *)
(* was written to a file since its last sync, and any suffix of what was   *)
(* done to the directory, which nobody syncs.                              *)
(***************************************************************************)
EXTENDS Integers, Sequences, FiniteSets

CONSTANTS
  Savers,      \* threads or processes that save to the same path
  Blob,        \* snapshots
  Nothing,     \* no file
  Pieces,      \* writes that write_all makes of a blob
  MaxSaves,    \* bound: how many saves are started
  MaxFailures  \* bound: how many calls of the system fail, how many crashes

ASSUME FileAssumption ==
  /\ Nothing \notin Blob
  /\ Pieces \in Nat \ {0}
  /\ MaxSaves \in Nat
  /\ MaxFailures \in Nat

VARIABLES
  dir,       \* the names bound: name -> file, 0 if there is no such file
  onDisk,    \* the directories that a power failure may leave
  files,     \* the contents: sequences of pieces, or of holes between them
  synced,    \* the files that were synced after their last write
  pc, blob,  \* where each saver is, and what it saves
  file,      \* the file that each saver has open, and
  offset,    \* how much it has written to it
  reader,    \* load: the file it has open and what it has read
  acked,     \* the blob of the last save that returned Ok
  saves, failures

disk   == <<dir, onDisk, files, synced>>
saver  == <<pc, blob, file, offset>>
counts == <<saves, failures>>
vars   == <<disk, saver, reader, acked, counts>>

Hole   == <<Nothing, 0>>
Whole(b) == [i \in 1..Pieces |-> <<b, i>>]

Closed == [at |-> "closed", file |-> 0, got |-> <<>>]

\* Mutant: the target is written in place.
MutantTmp == "path"

\* tmp_path: the one temporary name that all savers of a path share.
Tmp == "tmp"

Bind(names) ==
  /\ dir' = names
  /\ onDisk' = onDisk \cup {names}

-----------------------------------------------------------------------------
(* save.                                                                   *)

StartSave(s) ==
  /\ pc[s] = "idle"
  /\ saves < MaxSaves
  /\ saves' = saves + 1
  /\ \E b \in Blob : blob' = [blob EXCEPT ![s] = b]
  /\ pc' = [pc EXCEPT ![s] = "create"]
  /\ UNCHANGED <<disk, file, offset, reader, acked, failures>>

\* File::create: a new file, or the one of that name, cut to no bytes.
Create(s) ==
  /\ pc[s] = "create"
  /\ LET f == IF dir[Tmp] = 0 THEN Len(files) + 1 ELSE dir[Tmp] IN
       /\ file' = [file EXCEPT ![s] = f]
       /\ files' = IF dir[Tmp] = 0 THEN Append(files, <<>>)
                                   ELSE [files EXCEPT ![f] = <<>>]
       /\ synced' = synced \ {f}
       /\ IF dir[Tmp] = 0 THEN Bind([dir EXCEPT ![Tmp] = f])
                          ELSE UNCHANGED <<dir, onDisk>>
  /\ offset' = [offset EXCEPT ![s] = 0]
  /\ pc' = [pc EXCEPT ![s] = "write"]
  /\ UNCHANGED <<blob, reader, acked, counts>>

\* write_all writes the next piece, where this saver's file pointer is.
Write(s) ==
  /\ pc[s] = "write"
  /\ LET at  == offset[s] + 1
         len == Len(files[file[s]])
     IN  /\ files' = [files EXCEPT ![file[s]] =
              [i \in 1..(IF at > len THEN at ELSE len) |->
                 IF i = at THEN <<blob[s], at>> ELSE IF i <= len THEN @[i] ELSE Hole]]
         /\ offset' = [offset EXCEPT ![s] = at]
         /\ pc' = [pc EXCEPT ![s] = IF at = Pieces THEN "sync" ELSE "write"]
  /\ synced' = synced \ {file[s]}
  /\ UNCHANGED <<dir, onDisk, blob, file, reader, acked, counts>>

\* Mutant: no sync.
MutantSync(s) ==
  /\ pc[s] = "sync"
  /\ pc' = [pc EXCEPT ![s] = "rename"]
  /\ UNCHANGED <<disk, blob, file, offset, reader, acked, counts>>

\* sync_all
Sync(s) ==
  /\ pc[s] = "sync"
  /\ synced' = synced \cup {file[s]}
  /\ pc' = [pc EXCEPT ![s] = "rename"]
  /\ UNCHANGED <<dir, onDisk, files, blob, file, offset, reader, acked, counts>>

\* fs::rename; it fails when another saver has renamed the file already.
Rename(s) ==
  /\ pc[s] = "rename"
  /\ IF dir[Tmp] # 0
     THEN /\ Bind([path |-> dir[Tmp], tmp |-> 0])
          /\ acked' = blob[s]
     ELSE UNCHANGED <<dir, onDisk, acked>>
  /\ pc' = [pc EXCEPT ![s] = "idle"]
  /\ UNCHANGED <<files, synced, blob, file, offset, reader, counts>>

\* Mutant: an error of the rename is dropped.
MutantFail(s) ==
  /\ pc[s] # "idle"
  /\ failures < MaxFailures
  /\ failures' = failures + 1
  /\ pc' = [pc EXCEPT ![s] = "idle"]
  /\ acked' = IF pc[s] = "rename" THEN blob[s] ELSE acked
  /\ UNCHANGED <<disk, blob, file, offset, reader, saves>>

\* A call of the system fails, and save returns its error at once.
Fail(s) ==
  /\ pc[s] # "idle"
  /\ failures < MaxFailures
  /\ failures' = failures + 1
  /\ pc' = [pc EXCEPT ![s] = "idle"]
  /\ UNCHANGED <<disk, blob, file, offset, reader, acked, saves>>

-----------------------------------------------------------------------------
(* load: fs::read opens the target and reads to its end.                   *)

Open ==
  /\ reader.at # "open"
  /\ reader' = IF dir["path"] = 0 THEN [Closed EXCEPT !.at = "none"]
               ELSE [at |-> "open", file |-> dir["path"], got |-> <<>>]
  /\ UNCHANGED <<disk, saver, acked, counts>>

Read ==
  /\ reader.at = "open"
  /\ LET next == Len(reader.got) + 1 IN
       reader' = IF next <= Len(files[reader.file])
                 THEN [reader EXCEPT !.got = Append(@, files[reader.file][next])]
                 ELSE [reader EXCEPT !.at = "loaded"]
  /\ UNCHANGED <<disk, saver, acked, counts>>

-----------------------------------------------------------------------------
(* Crashes.                                                                *)

\* The process ends; what it did to the files stays.
Kill ==
  /\ failures < MaxFailures
  /\ failures' = failures + 1
  /\ pc' = [s \in Savers |-> "idle"]
  /\ reader' = Closed
  /\ UNCHANGED <<disk, blob, file, offset, acked, saves>>

PowerFailure ==
  /\ failures < MaxFailures
  /\ failures' = failures + 1
  /\ \E names \in onDisk : dir' = names /\ onDisk' = {names}
  /\ \E len \in [DOMAIN files -> 0..Pieces] :
       /\ \A f \in DOMAIN files :
            IF f \in synced THEN len[f] = Len(files[f]) ELSE len[f] <= Len(files[f])
       /\ files' = [f \in DOMAIN files |-> SubSeq(files[f], 1, len[f])]
  /\ synced' = DOMAIN files
  /\ pc' = [s \in Savers |-> "idle"]
  /\ reader' = Closed
  /\ acked' = Nothing
  /\ UNCHANGED <<blob, file, offset, saves>>

-----------------------------------------------------------------------------
Init ==
  /\ dir = [path |-> 0, tmp |-> 0]
  /\ onDisk = {dir}
  /\ files = <<>>
  /\ synced = {}
  /\ pc = [s \in Savers |-> "idle"]
  /\ blob = [s \in Savers |-> Nothing]
  /\ file = [s \in Savers |-> 0]
  /\ offset = [s \in Savers |-> 0]
  /\ reader = Closed
  /\ acked = Nothing
  /\ saves = 0
  /\ failures = 0

Next ==
  \/ \E s \in Savers :
       StartSave(s) \/ Create(s) \/ Write(s) \/ Sync(s) \/ Rename(s) \/ Fail(s)
  \/ Open \/ Read
  \/ Kill \/ PowerFailure

Spec == Init /\ [][Next]_vars

-----------------------------------------------------------------------------
(* Properties.                                                             *)

\* What a file holds: a blob, nothing, or something that was never saved.
Torn == <<"torn">>

Value(f) ==
  IF f = 0 THEN Nothing
  ELSE IF \E b \in Blob : files[f] = Whole(b)
       THEN CHOOSE b \in Blob : files[f] = Whole(b)
       ELSE Torn

S == INSTANCE Store WITH
  stored <- Value(dir["path"]),
  kept   <- {Value(names["path"]) : names \in onDisk}

\* With one saver the file is a store: each save takes effect in the rename,
\* at once and as a whole, and no crash at any point leaves a part of a blob.
IsStore == S!Spec

\* load returns nothing or a blob that was saved, whatever renames and writes
\* happen between its reads.
LoadedIsWhole ==
  reader.at = "loaded" => \E b \in Blob : reader.got = Whole(b)

\* What the last successful save stored is there, after later saves that
\* failed half way too, until the next save or a power failure.
AckedIsStored ==
  acked # Nothing /\ (\A s \in Savers : pc[s] = "idle") => Value(dir["path"]) = acked
=============================================================================
