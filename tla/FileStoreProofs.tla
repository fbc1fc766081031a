-------------------------- MODULE FileStoreProofs --------------------------
(***************************************************************************)
(* Proofs about the file backend, for any set of blobs, any number of      *)
(* writes per blob and any number of saves, failures and crashes, when one *)
(* saver writes to the path.  With two the first theorem is false: the run *)
(* of MCFile_shared.cfg is the counterexample.                             *)
(*                                                                         *)
(* The argument: a file that the target names, or named when the directory *)
(* last reached the disk, is synced and whole, and the temporary name is   *)
(* never a second name of such a file.  So what a saver cuts, writes and   *)
(* loses is no file that load can meet.                                    *)
(***************************************************************************)
EXTENDS FileStore, TLAPS

OneSaver == \A s, t \in Savers : s = t

\* The first n pieces of a blob, as a saver writes them.
Begun(b, n) == [i \in 1..n |-> <<b, i>>]

Piece == (Blob \cup {Nothing}) \X Nat
Names == [path : Nat, tmp : Nat]

FTypeOK ==
  /\ files \in Seq(Seq(Piece))
  /\ dir \in Names
  /\ onDisk \subseteq Names
  /\ dir \in onDisk
  /\ synced \subseteq DOMAIN files
  /\ pc \in [Savers -> {"idle", "create", "write", "sync", "rename"}]
  /\ blob \in [Savers -> Blob \cup {Nothing}]
  /\ file \in [Savers -> Nat]
  /\ offset \in [Savers -> Nat]
  /\ reader \in [at : {"closed", "none", "open", "loaded"}, file : Nat, got : Seq(Piece)]

\* A file that holds some blob from its first piece to its last.
IsWhole(f) == \E b \in Blob : files[f] = Whole(b)

\* What the target names, or may name after a power failure, lasts.
TargetsLast == \A n \in onDisk : n.path # 0 => n.path \in synced /\ IsWhole(n.path)

\* The temporary name leads to no such file, now and after a power failure.
TmpIsApart ==
  /\ dir.tmp # 0 => dir.tmp \in DOMAIN files
  /\ \A n \in onDisk :
       /\ n.tmp # 0 => n.tmp \in DOMAIN files /\ n.tmp # n.path
       /\ dir.tmp # 0 => n.path # dir.tmp

\* A saver that has created its file has written so much of its blob to it.
SaverInv(s) ==
  /\ pc[s] # "idle" => blob[s] \in Blob
  /\ pc[s] \in {"write", "sync", "rename"} =>
       /\ dir.tmp # 0
       /\ file[s] = dir.tmp
       /\ files[file[s]] = Begun(blob[s], offset[s])
  /\ pc[s] = "write" => offset[s] < Pieces
  /\ pc[s] \in {"sync", "rename"} => offset[s] = Pieces
  /\ pc[s] = "rename" => file[s] \in synced

\* A reader has read so much of a blob, which its file still holds.
ReaderInv ==
  /\ reader.at = "open" =>
       /\ reader.file # 0
       /\ \E n \in onDisk : n.path = reader.file
       /\ \E b \in Blob : /\ files[reader.file] = Whole(b)
                          /\ reader.got = Begun(b, Len(reader.got))
                          /\ Len(reader.got) <= Pieces
  /\ reader.at = "loaded" => \E b \in Blob : reader.got = Whole(b)

AckedInv ==
  acked # Nothing => acked \in Blob /\ dir.path # 0 /\ files[dir.path] = Whole(acked)

FInv ==
  /\ FTypeOK /\ TargetsLast /\ TmpIsApart
  /\ \A s \in Savers : SaverInv(s)
  /\ ReaderInv /\ AckedInv

\* A step that leaves every file that a target names, and no new target.
TargetsUntouched ==
  /\ dir'.path = dir.path
  /\ onDisk \subseteq onDisk'
  /\ \A n \in onDisk' : \E m \in onDisk : m.path = n.path
  /\ \A n \in onDisk : n.path # 0 => files'[n.path] = files[n.path]

-----------------------------------------------------------------------------
(* What a saver writes.                                                    *)

\* A blob that is written to its last piece is whole.
LEMMA BegunWhole ==
  \A b \in Blob : Begun(b, Pieces) = Whole(b)
BY DEF Begun, Whole

\* What is begun is a sequence of pieces.
LEMMA BegunIsSeq ==
  ASSUME NEW b \in Blob, NEW n \in Nat
  PROVE  Begun(b, n) \in Seq(Piece) /\ Len(Begun(b, n)) = n
BY DEF Begun, Piece

\* A whole blob is the blob of no other.
LEMMA WholeIsOne ==
  ASSUME NEW b \in Blob, NEW c \in Blob, Whole(b) = Whole(c)
  PROVE  b = c
<1>1. 1 \in 1..Pieces
  BY FileAssumption
<1>2. Whole(b)[1] = <<b, 1>> /\ Whole(c)[1] = <<c, 1>>
  BY <1>1 DEF Whole
<1> QED
  BY <1>2

-----------------------------------------------------------------------------
(* The invariant is inductive.                                             *)

\* The empty directory.
LEMMA InitFInv == Init => FInv
<1> SUFFICES ASSUME Init PROVE FInv
  OBVIOUS
<1>1. FTypeOK
  BY DEF Init, FTypeOK, Names, Closed
<1>2. TargetsLast /\ TmpIsApart /\ ReaderInv /\ AckedInv
  BY DEF Init, TargetsLast, TmpIsApart, ReaderInv, AckedInv, Closed
<1>3. \A s \in Savers : SaverInv(s)
  BY DEF Init, SaverInv
<1> QED
  BY <1>1, <1>2, <1>3 DEF FInv

\* A save that starts has a blob in hand and has touched nothing.
LEMMA StartSaveFInv ==
  ASSUME FInv, OneSaver, NEW s \in Savers, StartSave(s)
  PROVE  FInv'
<1> USE DEF FInv, StartSave, disk
<1>1. PICK b \in Blob : blob' = [blob EXCEPT ![s] = b]
  OBVIOUS
<1>2. FTypeOK'
  BY <1>1 DEF FTypeOK
<1>3. TargetsLast' /\ TmpIsApart' /\ ReaderInv' /\ AckedInv'
  BY DEF TargetsLast, IsWhole, TmpIsApart, ReaderInv, AckedInv
<1>4. ASSUME NEW t \in Savers PROVE SaverInv(t)'
  BY <1>1, t = s DEF OneSaver, SaverInv, FTypeOK
<1> QED
  BY <1>2, <1>3, <1>4

\* The file that is created or cut is none that load can meet.
LEMMA CreateFInv ==
  ASSUME FInv, OneSaver, NEW s \in Savers, Create(s)
  PROVE  FInv' /\ TargetsUntouched
<1> USE DEF FInv
<1> DEFINE f == IF dir[Tmp] = 0 THEN Len(files) + 1 ELSE dir[Tmp]
<1>1. /\ file' = [file EXCEPT ![s] = f]
      /\ files' = IF dir[Tmp] = 0 THEN Append(files, <<>>)
                                  ELSE [files EXCEPT ![f] = <<>>]
      /\ synced' = synced \ {f}
      /\ IF dir[Tmp] = 0 THEN Bind([dir EXCEPT ![Tmp] = f])
                         ELSE UNCHANGED <<dir, onDisk>>
      /\ offset' = [offset EXCEPT ![s] = 0]
      /\ pc' = [pc EXCEPT ![s] = "write"]
      /\ pc[s] = "create"
      /\ UNCHANGED <<blob, reader, acked, counts>>
  BY DEF Create
<1>2. dir[Tmp] = dir.tmp
  BY DEF Tmp
<1>3. f \in Nat \ {0} /\ f \in DOMAIN files' /\ files'[f] = <<>>
  BY <1>1, <1>2 DEF FTypeOK, TmpIsApart, Names
<1>4. files' \in Seq(Seq(Piece)) /\ DOMAIN files \subseteq DOMAIN files'
  BY <1>1, <1>2 DEF FTypeOK, TmpIsApart, Names
<1>5. \A g \in DOMAIN files : g # f => files'[g] = files[g]
  BY <1>1, <1>2 DEF FTypeOK, TmpIsApart, Names
<1>6. dir' = [path |-> dir.path, tmp |-> f] /\ onDisk' = onDisk \cup {dir'}
  BY <1>1, <1>2 DEF Bind, FTypeOK, Names, Tmp
<1>7. \A n \in onDisk : n.path # f
  BY <1>1, <1>2, <1>3 DEF TmpIsApart, TargetsLast, FTypeOK, Names
<1>8. FTypeOK'
  BY <1>1, <1>3, <1>4, <1>6 DEF FTypeOK, Names
<1>9. \A n \in onDisk' : n.path # f /\ \E m \in onDisk : m.path = n.path
  BY <1>6, <1>7 DEF FTypeOK
<1>10. TargetsLast'
  <2> SUFFICES ASSUME NEW n \in onDisk', n.path # 0
               PROVE  n.path \in synced' /\ IsWhole(n.path)'
    BY DEF TargetsLast
  <2>1. n.path # f /\ n.path \in synced /\ IsWhole(n.path)
    BY <1>9 DEF TargetsLast
  <2>2. n.path \in DOMAIN files
    BY <2>1 DEF FTypeOK
  <2> QED
    BY <2>1, <2>2, <1>1, <1>5 DEF IsWhole
<1> HIDE DEF f
<1>11. TmpIsApart'
  <2>1. ASSUME NEW n \in onDisk', n.tmp # 0
        PROVE  n.tmp \in DOMAIN files' /\ n.tmp # n.path
    <3>1. CASE n \in onDisk
      BY <3>1, <2>1, <1>4 DEF TmpIsApart
    <3>2. CASE n = dir'
      BY <3>2, <1>3, <1>6, <1>7 DEF FTypeOK
    <3> QED
      BY <3>1, <3>2, <1>6
  <2>2. dir'.tmp = f
    BY <1>6
  <2> QED
    BY <2>1, <2>2, <1>3, <1>9 DEF TmpIsApart
<1>12. ASSUME NEW t \in Savers PROVE SaverInv(t)'
  <2>1. t = s /\ blob[s] \in Blob
    BY <1>1 DEF OneSaver, SaverInv
  <2>2. file'[s] = f /\ offset'[s] = 0 /\ pc'[s] = "write" /\ blob'[s] = blob[s]
    BY <1>1 DEF FTypeOK
  <2>3. Begun(blob[s], 0) = <<>>
    BY DEF Begun
  <2>4. 0 < Pieces
    BY FileAssumption
  <2> QED
    BY <2>1, <2>2, <2>3, <2>4, <1>3, <1>6 DEF SaverInv
<1>13. ReaderInv'
  <2>1. CASE reader.at = "open"
    <3>1. reader.file # 0 /\ reader.file # f /\ reader.file \in DOMAIN files
      BY <2>1, <1>7 DEF ReaderInv, TargetsLast, FTypeOK
    <3> QED
      BY <2>1, <3>1, <1>1, <1>5, <1>6 DEF ReaderInv
  <2>2. CASE reader.at # "open"
    BY <2>2, <1>1 DEF ReaderInv
  <2> QED
    BY <2>1, <2>2
<1>14. AckedInv'
  <2>1. CASE acked # Nothing
    <3>1. dir.path # 0 /\ dir.path # f /\ dir.path \in DOMAIN files
      BY <2>1, <1>7 DEF AckedInv, TargetsLast, FTypeOK
    <3> QED
      BY <2>1, <3>1, <1>1, <1>5, <1>6 DEF AckedInv
  <2>2. CASE acked = Nothing
    BY <2>2, <1>1 DEF AckedInv
  <2> QED
    BY <2>1, <2>2
<1>15. TargetsUntouched
  <2>1. \A n \in onDisk : n.path # 0 => n.path # f /\ n.path \in DOMAIN files
    BY <1>7 DEF TargetsLast, FTypeOK
  <2> QED
    BY <2>1, <1>5, <1>6, <1>9 DEF TargetsUntouched
<1> QED
  BY <1>8, <1>10, <1>11, <1>12, <1>13, <1>14, <1>15
\* A write adds the next piece to the file of the temporary name.
LEMMA WriteFInv ==
  ASSUME FInv, OneSaver, NEW s \in Savers, Write(s)
  PROVE  FInv' /\ TargetsUntouched
<1> USE DEF FInv
<1> DEFINE at == offset[s] + 1
           f  == dir.tmp
<1>1. /\ pc[s] = "write" /\ f # 0 /\ file[s] = f /\ f \in DOMAIN files
      /\ files[f] = Begun(blob[s], offset[s])
      /\ blob[s] \in Blob /\ offset[s] \in Nat /\ offset[s] < Pieces
  BY DEF Write, SaverInv, TmpIsApart, FTypeOK
<1>2. Len(files[f]) = offset[s] /\ at > offset[s]
  BY <1>1, BegunIsSeq
<1>3. files' = [files EXCEPT ![f] = Begun(blob[s], at)]
  <2>1. files' = [files EXCEPT ![f] =
          [i \in 1..(IF at > Len(files[f]) THEN at ELSE Len(files[f])) |->
             IF i = at THEN <<blob[s], at>> ELSE IF i <= Len(files[f]) THEN @[i] ELSE Hole]]
    BY <1>1 DEF Write
  <2>2. files' = [files EXCEPT ![f] =
          [i \in 1..at |->
             IF i = at THEN <<blob[s], at>>
                       ELSE IF i <= offset[s] THEN files[f][i] ELSE Hole]]
    BY <2>1, <1>1, <1>2
  <2>3. [i \in 1..at |-> IF i = at THEN <<blob[s], at>>
                         ELSE IF i <= offset[s] THEN files[f][i] ELSE Hole]
          = Begun(blob[s], at)
    BY <1>1 DEF Begun
  <2> QED
    BY <2>2, <2>3
<1>4. /\ offset' = [offset EXCEPT ![s] = at]
      /\ pc' = [pc EXCEPT ![s] = IF at = Pieces THEN "sync" ELSE "write"]
      /\ synced' = synced \ {f}
      /\ UNCHANGED <<dir, onDisk, blob, file, reader, acked, counts>>
  BY <1>1 DEF Write
<1>5. DOMAIN files' = DOMAIN files /\ files' \in Seq(Seq(Piece)) /\ at \in Nat
  <2>1. at \in Nat /\ Begun(blob[s], at) \in Seq(Piece)
    BY <1>1, BegunIsSeq
  <2>2. files \in Seq(Seq(Piece)) /\ f \in 1..Len(files)
    BY <1>1 DEF FTypeOK
  <2> HIDE DEF at, f
  <2> QED
    BY <2>1, <2>2, <1>3
<1>6. \A g \in DOMAIN files : g # f => files'[g] = files[g]
  BY <1>3
<1>7. \A n \in onDisk : n.path # f
  BY <1>1 DEF TmpIsApart
<1>8. files'[f] = Begun(blob[s], at)
  BY <1>1, <1>3 DEF FTypeOK
<1> HIDE DEF at, f
<1>9. FTypeOK'
  BY <1>4, <1>5 DEF FTypeOK
<1>10. TargetsLast'
  <2> SUFFICES ASSUME NEW n \in onDisk, n.path # 0
               PROVE  n.path \in synced' /\ IsWhole(n.path)'
    BY <1>4 DEF TargetsLast
  <2>1. n.path # f /\ n.path \in synced /\ IsWhole(n.path) /\ n.path \in DOMAIN files
    BY <1>7 DEF TargetsLast, FTypeOK
  <2> QED
    BY <2>1, <1>4, <1>6 DEF IsWhole
<1>11. TmpIsApart'
  BY <1>4, <1>5 DEF TmpIsApart
<1>12. ASSUME NEW t \in Savers PROVE SaverInv(t)'
  <2>1. t = s
    BY DEF OneSaver
  <2>2. /\ offset'[s] = at /\ blob'[s] = blob[s] /\ file'[s] = f
        /\ pc'[s] = IF at = Pieces THEN "sync" ELSE "write"
    BY <1>1, <1>4 DEF FTypeOK
  <2>3. at <= Pieces /\ Pieces \in Nat
    BY <1>1, FileAssumption DEF at
  <2>4. dir'.tmp = f /\ f # 0
    BY <1>1, <1>4 DEF f
  <2> QED
    BY <2>1, <2>2, <2>3, <2>4, <1>1, <1>5, <1>8 DEF SaverInv
<1>13. ReaderInv'
  <2>1. CASE reader.at = "open"
    <3>1. reader.file # f /\ reader.file \in DOMAIN files
      BY <2>1, <1>7 DEF ReaderInv, TargetsLast, FTypeOK
    <3> QED
      BY <2>1, <3>1, <1>4, <1>6 DEF ReaderInv
  <2>2. CASE reader.at # "open"
    BY <2>2, <1>4 DEF ReaderInv
  <2> QED
    BY <2>1, <2>2
<1>14. AckedInv'
  <2>1. CASE acked # Nothing
    <3>1. dir.path # 0 /\ dir.path # f /\ dir.path \in DOMAIN files
      BY <2>1, <1>7 DEF AckedInv, TargetsLast, FTypeOK
    <3> QED
      BY <2>1, <3>1, <1>4, <1>6 DEF AckedInv
  <2>2. CASE acked = Nothing
    BY <2>2, <1>4 DEF AckedInv
  <2> QED
    BY <2>1, <2>2
<1>15. TargetsUntouched
  <2>1. \A n \in onDisk : n.path # 0 => n.path # f /\ n.path \in DOMAIN files
    BY <1>7 DEF TargetsLast, FTypeOK
  <2> QED
    BY <2>1, <1>4, <1>6 DEF TargetsUntouched
<1> QED
  BY <1>9, <1>10, <1>11, <1>12, <1>13, <1>14, <1>15

\* A sync finds the whole blob in the file.
LEMMA SyncFInv ==
  ASSUME FInv, OneSaver, NEW s \in Savers, Sync(s)
  PROVE  FInv'
<1> USE DEF FInv, Sync
<1>1. file[s] = dir.tmp /\ dir.tmp \in DOMAIN files /\ blob[s] \in Blob
  BY DEF SaverInv, TmpIsApart
<1>2. FTypeOK'
  BY <1>1 DEF FTypeOK
<1>3. TargetsLast' /\ TmpIsApart' /\ ReaderInv' /\ AckedInv'
  BY DEF TargetsLast, IsWhole, TmpIsApart, ReaderInv, AckedInv
<1>4. ASSUME NEW t \in Savers PROVE SaverInv(t)'
  BY <1>1, t = s DEF OneSaver, SaverInv, FTypeOK
<1> QED
  BY <1>2, <1>3, <1>4

\* The file that takes the target's name is synced and whole, and has no other
\* name in this directory.
LEMMA RenameFInv ==
  ASSUME FInv, OneSaver, NEW s \in Savers, Rename(s)
  PROVE  /\ FInv'
         /\ dir' = [path |-> dir.tmp, tmp |-> 0]
         /\ onDisk' = onDisk \cup {dir'}
         /\ files' = files
         /\ dir.tmp # 0
         /\ blob[s] \in Blob
         /\ files[dir.tmp] = Whole(blob[s])
<1> USE DEF FInv
<1>1. /\ pc[s] = "rename" /\ dir.tmp # 0 /\ file[s] = dir.tmp
      /\ dir.tmp \in DOMAIN files /\ dir.tmp \in synced
      /\ blob[s] \in Blob /\ offset[s] = Pieces
      /\ files[dir.tmp] = Begun(blob[s], offset[s])
  BY DEF Rename, SaverInv, TmpIsApart
<1>2. files[dir.tmp] = Whole(blob[s])
  BY <1>1, BegunWhole
<1>3. /\ dir' = [path |-> dir.tmp, tmp |-> 0]
      /\ onDisk' = onDisk \cup {dir'}
      /\ acked' = blob[s]
      /\ pc' = [pc EXCEPT ![s] = "idle"]
      /\ UNCHANGED <<files, synced, blob, file, offset, reader, counts>>
  BY <1>1 DEF Rename, Bind, Tmp
<1>4. FTypeOK'
  BY <1>1, <1>3 DEF FTypeOK, Names
<1>5. TargetsLast'
  BY <1>1, <1>2, <1>3 DEF TargetsLast, IsWhole
<1>6. TmpIsApart'
  BY <1>1, <1>3 DEF TmpIsApart
<1>7. ASSUME NEW t \in Savers PROVE SaverInv(t)'
  <2>1. pc'[t] = "idle"
    BY <1>3, t = s DEF OneSaver, FTypeOK
  <2> QED
    BY <2>1 DEF SaverInv
<1>8. ReaderInv'
  BY <1>3 DEF ReaderInv
<1>9. AckedInv'
  BY <1>1, <1>2, <1>3 DEF AckedInv
<1> QED
  BY <1>1, <1>2, <1>3, <1>4, <1>5, <1>6, <1>7, <1>8, <1>9

\* A save that fails leaves what it wrote under the temporary name.
LEMMA FailFInv ==
  ASSUME FInv, OneSaver, NEW s \in Savers, Fail(s)
  PROVE  FInv'
<1> USE DEF FInv, Fail, disk
<1>1. FTypeOK'
  BY DEF FTypeOK
<1>2. TargetsLast' /\ TmpIsApart' /\ ReaderInv' /\ AckedInv'
  BY DEF TargetsLast, IsWhole, TmpIsApart, ReaderInv, AckedInv
<1>3. ASSUME NEW t \in Savers PROVE SaverInv(t)'
  BY t = s DEF OneSaver, SaverInv, FTypeOK
<1> QED
  BY <1>1, <1>2, <1>3

\* A reader opens what the target names.
LEMMA OpenFInv ==
  ASSUME FInv, Open
  PROVE  FInv'
<1> USE DEF FInv, Open, disk, saver
<1>1. FTypeOK'
  <2>1. dir["path"] \in Nat /\ <<>> \in Seq(Piece)
    BY DEF FTypeOK, Names
  <2>2. reader' \in [at : {"closed", "none", "open", "loaded"}, file : Nat, got : Seq(Piece)]
    BY <2>1 DEF Closed
  <2> QED
    BY <2>2 DEF FTypeOK
<1>2. TargetsLast' /\ TmpIsApart' /\ AckedInv'
  BY DEF TargetsLast, IsWhole, TmpIsApart, AckedInv
<1>3. ASSUME NEW t \in Savers PROVE SaverInv(t)'
  BY DEF SaverInv
<1>4. ReaderInv'
  <2>1. CASE dir.path = 0
    BY <2>1 DEF ReaderInv, Closed
  <2>2. CASE dir.path # 0
    <3>1. reader' = [at |-> "open", file |-> dir.path, got |-> <<>>]
      BY <2>2
    <3>2. PICK b \in Blob : files[dir.path] = Whole(b)
      BY <2>2 DEF TargetsLast, IsWhole, FTypeOK
    <3>3. <<>> = Begun(b, 0) /\ Len(<<>>) = 0 /\ 0 <= Pieces
      BY FileAssumption DEF Begun
    <3> QED
      BY <2>2, <3>1, <3>2, <3>3 DEF ReaderInv, FTypeOK
  <2> QED
    BY <2>1, <2>2
<1> QED
  BY <1>1, <1>2, <1>3, <1>4

\* A reader takes the next piece of a file that is whole.
LEMMA ReadFInv ==
  ASSUME FInv, Read
  PROVE  FInv'
<1> USE DEF FInv
<1> DEFINE next == Len(reader.got) + 1
<1>1. /\ reader.at = "open"
      /\ reader' = IF next <= Len(files[reader.file])
                   THEN [reader EXCEPT !.got = Append(@, files[reader.file][next])]
                   ELSE [reader EXCEPT !.at = "loaded"]
      /\ UNCHANGED <<disk, saver, acked, counts>>
  BY DEF Read
<1>2. PICK b \in Blob : /\ files[reader.file] = Whole(b)
                        /\ reader.got = Begun(b, Len(reader.got))
                        /\ Len(reader.got) <= Pieces
  BY <1>1 DEF ReaderInv
<1>3. Len(reader.got) \in Nat /\ Pieces \in Nat
  BY FileAssumption DEF FTypeOK
<1>4. Len(Whole(b)) = Pieces /\ Whole(b) \in Seq(Piece)
  BY <1>3, BegunWhole, BegunIsSeq
<1>5. /\ reader'.file = reader.file
      /\ \/ /\ reader'.at = "open" /\ next <= Pieces
            /\ reader'.got = Append(reader.got, Whole(b)[next])
         \/ reader'.at = "loaded" /\ reader'.got = reader.got /\ next > Pieces
  BY <1>1, <1>2, <1>3, <1>4 DEF FTypeOK
<1>6. ASSUME next <= Pieces
      PROVE  Append(reader.got, Whole(b)[next]) = Begun(b, next)
  <2>1. Whole(b)[next] = <<b, next>>
    BY <1>3, <1>6 DEF Whole
  <2>2. Append(Begun(b, Len(reader.got)), <<b, next>>) = Begun(b, next)
    BY <1>3 DEF Begun
  <2> QED
    BY <2>1, <2>2, <1>2
<1>7. ReaderInv'
  <2>1. CASE reader'.at = "open"
    <3>1. next <= Pieces /\ reader'.got = Begun(b, next)
      BY <2>1, <1>5, <1>6
    <3>2. Len(reader'.got) = next
      BY <3>1, <1>3, BegunIsSeq
    <3> QED
      BY <2>1, <3>1, <3>2, <1>1, <1>2, <1>5 DEF ReaderInv, disk
  <2>2. CASE reader'.at = "loaded"
    <3>1. Len(reader.got) = Pieces
      BY <2>2, <1>2, <1>3, <1>5
    <3> QED
      BY <2>2, <3>1, <1>2, <1>5, BegunWhole DEF ReaderInv
  <2> QED
    BY <2>1, <2>2, <1>5
<1>8. FTypeOK'
  <2> DEFINE Readers == [at : {"closed", "none", "open", "loaded"}, file : Nat, got : Seq(Piece)]
  <2>1. reader' \in Readers
    <3>1. reader \in Readers
      BY DEF FTypeOK
    <3>2. CASE next <= Pieces
      <4>1. reader' = [reader EXCEPT !.got = Begun(b, next)]
        BY <3>2, <1>1, <1>2, <1>4, <1>6
      <4>2. Begun(b, next) \in Seq(Piece)
        BY <1>3, BegunIsSeq
      <4> QED
        BY <4>1, <4>2, <3>1
    <3>3. CASE next > Pieces
      <4>1. reader' = [reader EXCEPT !.at = "loaded"]
        BY <3>3, <1>1, <1>2, <1>3, <1>4
      <4> QED
        BY <4>1, <3>1
    <3> QED
      BY <3>2, <3>3, <1>3
  <2> QED
    BY <2>1, <1>1 DEF FTypeOK, disk, saver
<1>9. TargetsLast' /\ TmpIsApart' /\ AckedInv'
  BY <1>1 DEF TargetsLast, IsWhole, TmpIsApart, AckedInv, disk
<1>10. ASSUME NEW t \in Savers PROVE SaverInv(t)'
  BY <1>1 DEF SaverInv, disk, saver
<1> QED
  BY <1>7, <1>8, <1>9, <1>10

\* The end of the process changes no file.
LEMMA KillFInv ==
  ASSUME FInv, Kill
  PROVE  FInv'
<1> USE DEF FInv, Kill, disk
<1>1. FTypeOK'
  BY DEF FTypeOK, Closed
<1>2. TargetsLast' /\ TmpIsApart' /\ AckedInv'
  BY DEF TargetsLast, IsWhole, TmpIsApart, AckedInv
<1>3. ASSUME NEW t \in Savers PROVE SaverInv(t)'
  BY DEF SaverInv
<1>4. ReaderInv'
  BY DEF ReaderInv, Closed
<1> QED
  BY <1>1, <1>2, <1>3, <1>4

\* A power failure takes nothing from a file that a target may name.
LEMMA PowerFailureFInv ==
  ASSUME FInv, PowerFailure
  PROVE  /\ FInv'
         /\ dir' \in onDisk
         /\ onDisk' = {dir'}
         /\ \A n \in onDisk : n.path # 0 => files'[n.path] = files[n.path]
<1> USE DEF FInv
<1>1. PICK len \in [DOMAIN files -> 0..Pieces] :
        /\ \A f \in DOMAIN files :
             IF f \in synced THEN len[f] = Len(files[f]) ELSE len[f] <= Len(files[f])
        /\ files' = [f \in DOMAIN files |-> SubSeq(files[f], 1, len[f])]
  BY DEF PowerFailure
<1>2. /\ dir' \in onDisk /\ onDisk' = {dir'}
      /\ synced' = DOMAIN files
      /\ pc' = [s \in Savers |-> "idle"]
      /\ reader' = Closed
      /\ acked' = Nothing
      /\ UNCHANGED <<blob, file, offset, saves>>
  BY DEF PowerFailure
<1>3. files \in Seq(Seq(Piece)) /\ synced \subseteq DOMAIN files
  BY DEF FTypeOK
<1>4. ASSUME NEW f \in synced PROVE files'[f] = files[f]
  <2>1. f \in DOMAIN files /\ files[f] \in Seq(Piece)
    BY <1>3
  <2>2. files'[f] = SubSeq(files[f], 1, Len(files[f]))
    BY <2>1, <1>1
  <2> QED
    BY <2>1, <2>2
<1>5. files' \in Seq(Seq(Piece)) /\ DOMAIN files' = DOMAIN files
  <2>1. ASSUME NEW f \in DOMAIN files PROVE SubSeq(files[f], 1, len[f]) \in Seq(Piece)
    <3>1. files[f] \in Seq(Piece) /\ len[f] \in Nat /\ len[f] <= Len(files[f])
      BY <1>1, <1>3, FileAssumption
    <3> QED
      BY <3>1
  <2>2. DOMAIN files = 1..Len(files) /\ Len(files) \in Nat
    BY <1>3
  <2> QED
    BY <2>1, <2>2, <1>1
<1>6. \A n \in onDisk : n.path # 0 => n.path \in synced /\ files'[n.path] = files[n.path]
  BY <1>4 DEF TargetsLast
<1>7. FTypeOK'
  BY <1>2, <1>3, <1>5 DEF FTypeOK, Closed
<1>8. TargetsLast'
  BY <1>2, <1>3, <1>6 DEF TargetsLast, IsWhole
<1>9. TmpIsApart'
  BY <1>2, <1>5 DEF TmpIsApart
<1>10. ASSUME NEW t \in Savers PROVE SaverInv(t)'
  BY <1>2 DEF SaverInv
<1>11. ReaderInv' /\ AckedInv'
  BY <1>2 DEF ReaderInv, AckedInv, Closed
<1> QED
  BY <1>2, <1>6, <1>7, <1>8, <1>9, <1>10, <1>11

\* Every step keeps the invariant.
LEMMA NextFInv == OneSaver /\ FInv /\ [Next]_vars => FInv'
<1> SUFFICES ASSUME OneSaver, FInv, [Next]_vars PROVE FInv'
  OBVIOUS
<1>1. ASSUME NEW s \in Savers,
             StartSave(s) \/ Create(s) \/ Write(s) \/ Sync(s) \/ Rename(s) \/ Fail(s)
      PROVE  FInv'
  BY <1>1, StartSaveFInv, CreateFInv, WriteFInv, SyncFInv, RenameFInv, FailFInv
<1>2. CASE Open \/ Read \/ Kill \/ PowerFailure
  BY <1>2, OpenFInv, ReadFInv, KillFInv, PowerFailureFInv
<1>3. CASE UNCHANGED vars
  BY <1>3 DEF vars, disk, saver, counts, FInv, FTypeOK, TargetsLast, IsWhole, TmpIsApart,
              SaverInv, ReaderInv, AckedInv
<1> QED
  BY <1>1, <1>2, <1>3 DEF Next

-----------------------------------------------------------------------------
(* What one saver's file promises.                                         *)

\* With one saver every reachable state has the invariant.
THEOREM FileInductive ==
  ASSUME OneSaver
  PROVE  Spec => []FInv
<1>1. Init => FInv
  BY InitFInv
<1>2. FInv /\ [Next]_vars => FInv'
  BY NextFInv
<1> QED
  BY <1>1, <1>2, PTL DEF Spec

\* load returns a blob that was saved, from its first piece to its last,
\* whatever is renamed, cut or written between its reads.
THEOREM LoadsAreWhole ==
  ASSUME OneSaver
  PROVE  Spec => []LoadedIsWhole
<1>1. FInv => LoadedIsWhole
  BY DEF FInv, ReaderInv, LoadedIsWhole
<1> QED
  BY <1>1, FileInductive, PTL

\* The value of a file that holds a whole blob is that blob.
LEMMA WholeValue ==
  ASSUME NEW f, f # 0, NEW b \in Blob, files[f] = Whole(b)
  PROVE  Value(f) = b
BY WholeIsOne DEF Value

\* The value of a file is a matter of what it holds.
LEMMA SameValue ==
  ASSUME NEW f, f = 0 \/ files'[f] = files[f]
  PROVE  Value(f)' = Value(f)
BY DEF Value

\* What the last save that returned Ok stored is what the target holds: a save
\* that fails half way leaves it.
THEOREM AckedIsWhatIsStored ==
  ASSUME OneSaver
  PROVE  Spec => []AckedIsStored
<1>1. FInv => AckedIsStored
  BY WholeValue DEF FInv, AckedInv, AckedIsStored
<1> QED
  BY <1>1, FileInductive, PTL

\* A step that touches no target is a stutter of the store.
LEMMA UntouchedIsStutter ==
  ASSUME FInv, TargetsUntouched
  PROVE  UNCHANGED <<Value(dir["path"]), {Value(names["path"]) : names \in onDisk}>>
<1>1. \A n \in onDisk : Value(n["path"])' = Value(n["path"])
  BY SameValue DEF TargetsUntouched
<1> QED
  BY <1>1, SameValue DEF TargetsUntouched, FInv, FTypeOK

\* A rename stores the blob of its save, and a power failure brings back what
\* a target named since the directory last reached the disk.
LEMMA NextIsStoreStep ==
  ASSUME OneSaver, FInv, [Next]_vars
  PROVE  [S!Next]_<<Value(dir["path"]), {Value(names["path"]) : names \in onDisk}>>
<1> DEFINE kept == {Value(names["path"]) : names \in onDisk}
<1>1. ASSUME NEW s \in Savers, Create(s) \/ Write(s)
      PROVE  UNCHANGED <<Value(dir["path"]), kept>>
  BY <1>1, CreateFInv, WriteFInv, UntouchedIsStutter
<1>2. ASSUME NEW s \in Savers, StartSave(s) \/ Sync(s) \/ Fail(s)
      PROVE  UNCHANGED <<Value(dir["path"]), kept>>
  <2>1. TargetsUntouched
    BY <1>2 DEF StartSave, Sync, Fail, disk, TargetsUntouched
  <2> QED
    BY <2>1, UntouchedIsStutter
<1>3. ASSUME Open \/ Read \/ Kill \/ UNCHANGED vars
      PROVE  UNCHANGED <<Value(dir["path"]), kept>>
  <2>1. TargetsUntouched
    BY <1>3 DEF Open, Read, Kill, vars, disk, TargetsUntouched
  <2> QED
    BY <2>1, UntouchedIsStutter
<1>4. ASSUME NEW s \in Savers, Rename(s)
      PROVE  S!Save(blob[s]) /\ blob[s] \in Blob
  <2>1. /\ dir' = [path |-> dir.tmp, tmp |-> 0] /\ onDisk' = onDisk \cup {dir'}
        /\ files' = files /\ dir.tmp # 0
        /\ blob[s] \in Blob /\ files[dir.tmp] = Whole(blob[s])
    BY <1>4, RenameFInv
  <2>2. Value(dir.tmp) = blob[s]
    BY <2>1, WholeValue
  <2>3. \A f : Value(f)' = Value(f)
    BY <2>1, SameValue
  <2>4. Value(dir["path"])' = blob[s]
    BY <2>1, <2>2, <2>3
  <2>5. kept' = kept \cup {blob[s]}
    BY <2>1, <2>3, <2>4
  <2> QED
    BY <2>1, <2>4, <2>5 DEF S!Save
<1>5. ASSUME PowerFailure
      PROVE  S!PowerFailure
  <2>1. /\ dir' \in onDisk /\ onDisk' = {dir'}
        /\ \A n \in onDisk : n.path # 0 => files'[n.path] = files[n.path]
    BY <1>5, PowerFailureFInv
  <2>2. \A n \in onDisk : Value(n["path"])' = Value(n["path"])
    BY <2>1, SameValue
  <2>3. Value(dir["path"])' \in kept
    BY <2>1, <2>2
  <2>4. kept' = {Value(dir["path"])'}
    BY <2>1
  <2> QED
    BY <2>3, <2>4 DEF S!PowerFailure
<1> QED
  BY <1>1, <1>2, <1>3, <1>4, <1>5 DEF Next, S!Next

\* FilePersistence is a store: a save takes effect in its rename, at once and
\* as a whole, and a failure or crash anywhere in it leaves what was stored.
THEOREM FileIsStore ==
  ASSUME OneSaver
  PROVE  Spec => IsStore
<1>1. Init => S!Init
  BY DEF Init, S!Init, Value
<1>2. FInv /\ [Next]_vars =>
        [S!Next]_<<Value(dir["path"]), {Value(names["path"]) : names \in onDisk}>>
  BY NextIsStoreStep
<1> QED
  BY <1>1, <1>2, FileInductive, PTL DEF Spec, IsStore, S!Spec
=============================================================================
