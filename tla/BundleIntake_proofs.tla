-------------------------- MODULE BundleIntake_proofs --------------------------
(***************************************************************************)
(* The promises of an upload for any archive and any number of             *)
(* directories, pods, events and logs: the directory stays bounded and is  *)
(* whole or gone, the events are collapsed as by the reference, the logs   *)
(* are those of the first unhealthy pods up to the limit, and the data of  *)
(* a cancelled upload says what it lacks.                                  *)
(***************************************************************************)
EXTENDS BundleIntake, DataInduction

\* parsePods leaves out directories without a note only when the context is done and
\* a directory is there, so that parseEvents, which starts over at the first, sees it.
NotesFollow ==
    /\ next \in Nat \ {0}
    /\ stage \in {"start", "pods"} => ~ missed /\ notes = {}
    /\ stage = "events" => notes = {} /\ (missed => cancelled /\ next <= Directories)
    /\ stage \in {"collapse", "logs", "done"} => (missed <=> notes # {})

LEMMA NotesKept ==
    ASSUME NotesFollow, ParseNext, cancelled' = cancelled
    PROVE  NotesFollow'
<1> USE ParserAssumption DEF NotesFollow, GoOn
<1>1. CASE Start
  BY <1>1 DEF Start
<1>2. ASSUME NEW file, ReadPods(file)
      PROVE  NotesFollow'
  BY <1>2 DEF ReadPods
<1>3. CASE PodsEnd
  <2>1. /\ stage = "pods" /\ ~ missed /\ notes = {} /\ next \in Nat \ {0}
        /\ next > Directories \/ cancelled
        /\ stage' = "events" /\ next' = 1 /\ notes' = notes
    BY <1>3 DEF PodsEnd
  <2>2. missed' => missed \/ next <= Directories
    BY <1>3 DEF PodsEnd
  <2>3. Directories \in Nat
    OBVIOUS
  <2>4. missed' => cancelled' /\ next' <= Directories
    BY <2>1, <2>2, <2>3
  <2>5. QED
    BY <2>1, <2>4
<1>4. ASSUME NEW file, ReadEvents(file)
      PROVE  NotesFollow'
  BY <1>4 DEF ReadEvents
<1>5. CASE EventsInterrupted
  BY <1>5 DEF EventsInterrupted
<1>6. CASE Filter
  BY <1>6 DEF Filter
<1>7. CASE Collapse
  BY <1>7 DEF Collapse
<1>8. CASE Sort
  BY <1>8 DEF Sort
<1>9. CASE ReadLogs
  BY <1>9 DEF ReadLogs, LogsPending
<1>10. CASE LogsInterrupted
  BY <1>10 DEF LogsInterrupted, LogsPending
<1>11. CASE LogsEnd
  BY <1>11 DEF LogsEnd
<1>12. QED
  BY <1>1, <1>2, <1>3, <1>4, <1>5, <1>6, <1>7, <1>8, <1>9, <1>10, <1>11 DEF ParseNext
-----------------------------------------------------------------------------
\* The data of an upload whose client went away lacks something if and only if it is
\* noted, although the loop over the pods stops without a note.
THEOREM WhatIsMissingIsNoted == Spec => []IncompleteIsNoted
<1>1. Init => NotesFollow
  BY DEF Init, ParseInit, NotesFollow
<1>2. NotesFollow /\ [Next]_vars => NotesFollow'
  <2> SUFFICES ASSUME NotesFollow, [Next]_vars
               PROVE  NotesFollow'
    OBVIOUS
  <2>1. CASE Cancel
    BY <2>1 DEF Cancel, parseVars, NotesFollow
  <2>2. CASE Extracting
    BY <2>2 DEF Extracting, parseVars, NotesFollow
  <2>3. CASE Parsing
    BY <2>3, NotesKept DEF Parsing
  <2>4. CASE UNCHANGED vars
    BY <2>4 DEF vars, parseVars, NotesFollow
  <2>5. QED
    BY <2>1, <2>2, <2>3, <2>4 DEF Next
<1>3. NotesFollow => IncompleteIsNoted
  BY DEF NotesFollow, IncompleteIsNoted
<1>4. QED
  BY <1>1, <1>2, <1>3, PTL DEF Spec
-----------------------------------------------------------------------------
(* extractTarGz. *)

\* What is on disk is the sum of the sizes of the files,
LEMMA OnDiskIsSum == OnDisk = SumOf(disk, Files)
BY DEF OnDisk, SumOf

\* before a step and after it.
LEMMA OnDiskIsSumThen == OnDisk' = SumOf(disk', Files')
<1>1. (OnDisk = SumOf(disk, Files))'
  BY OnDiskIsSum, PTL
<1>2. QED
  BY <1>1

\* The least of two numbers, which the community modules choose.
LEMMA Minimum ==
    ASSUME NEW a \in Nat, NEW b \in Nat
    PROVE  Min({a, b}) = IF a <= b THEN a ELSE b
<1>1. \A x \in {a, b} : (\A y \in {a, b} : x <= y) <=> x = IF a <= b THEN a ELSE b
  OBVIOUS
<1>2. QED
  BY <1>1 DEF Min

\* What the loop knows of the entries it has written.
Written == /\ total <= MaxTotal
           /\ OnDisk <= total
           /\ \A p \in Paths : wanted[p] # NoFile => Is(p, wanted[p])
           /\ \A p \in Files : disk[p] <= MaxFileSize

\* The invariant of an extraction.
EInv == /\ ExtractTypeOK
        /\ IsFiniteSet(Files)
        /\ place \in {"make", "returned"} => Files = {}
        /\ place = "make" => total = 0 /\ wanted = Nowhere
        /\ place \in {"loop", "end"} => Written
        /\ DiskIsBounded

\* No file takes no room.
LEMMA NoFiles == \A d, F : F = {} => SumOf(d, F) = 0
BY SumOfNone

\* A file has a size.
LEMMA SizesAreNumbers ==
    ASSUME ExtractTypeOK
    PROVE  \A p \in Files : p \in Paths /\ disk[p] \in Nat
BY ExtractAssumption DEF ExtractTypeOK, Files, IsFile

\* A file at p adds its size at most, for it may replace another.
LEMMA PutFile ==
    ASSUME ExtractTypeOK, IsFiniteSet(Files), NEW p \in Paths, NEW n \in Nat,
           ~ IsFile(Parent[p]), disk' = Put(p, n)
    PROVE  /\ Files' = Files \cup {p} /\ IsFiniteSet(Files')
           /\ OnDisk' \in Nat /\ OnDisk \in Nat /\ OnDisk' <= OnDisk + n
<1> DEFINE old == Files
           new == Files'
           d == disk
           e == disk'
<1>1. new = old \cup {p}
  BY ExtractAssumption DEF Files, IsFile, Put, ExtractTypeOK
<1>2. IsFiniteSet(new) /\ IsFiniteSet(old) /\ IsFiniteSet(old \ {p})
  BY <1>1, FS_AddElement, FS_RemoveElement
<1>3. \A q \in old : d[q] \in Nat
  BY SizesAreNumbers
<1>4. \A q \in old \ {p} : e[q] = d[q]
  BY DEF Files, IsFile, Put
<1>5. e[p] = n
  BY DEF Put
<1>6. \A q \in new : e[q] \in Nat
  BY <1>1, <1>3, <1>4, <1>5
<1>7. OnDisk = SumOf(d, old) /\ OnDisk' = SumOf(e, new)
  BY OnDiskIsSum, OnDiskIsSumThen
<1> HIDE DEF old, new, d, e
<1>8. SumOf(e, new) = n + SumOf(e, new \ {p})
  BY <1>1, <1>2, <1>5, <1>6, SumTake
<1>9. new \ {p} = old \ {p}
  BY <1>1
<1>10. SumOf(d, old \ {p}) = SumOf(e, old \ {p})
  BY <1>2, <1>3, <1>4, SumSame
<1>11. SumOf(d, old) \in Nat /\ SumOf(e, new) \in Nat /\ SumOf(d, old \ {p}) \in Nat
  BY <1>2, <1>3, <1>6, SumType
<1>12. SumOf(d, old \ {p}) <= SumOf(d, old)
  <2>1. CASE p \in old
    <3>1. SumOf(d, old) = d[p] + SumOf(d, old \ {p})
      BY <1>2, <1>3, <2>1, SumTake
    <3>2. QED
      BY <1>3, <1>11, <2>1, <3>1
  <2>2. CASE p \notin old
    <3>1. old \ {p} = old
      BY <2>2
    <3>2. QED
      BY <1>11, <3>1
  <2>3. QED
    BY <2>1, <2>2
<1>13. ASSUME NEW a \in Nat, NEW b \in Nat, a <= b
       PROVE  n + a <= b + n
  BY <1>13
<1>14. SumOf(e, new) <= SumOf(d, old) + n
  BY <1>8, <1>9, <1>10, <1>11, <1>12, <1>13
<1>15. new = Files'
  BY DEF new
<1>16. QED
  BY <1>1, <1>2, <1>7, <1>11, <1>14 DEF new, old

\* A directory adds nothing.
LEMMA PutDir ==
    ASSUME ExtractTypeOK, IsFiniteSet(Files), NEW p \in Paths,
           ~ IsFile(p), ~ IsFile(Parent[p]), disk' = Put(p, Dir)
    PROVE  Files' = Files /\ OnDisk' = OnDisk /\ \A q \in Files : disk'[q] = disk[q]
<1> DEFINE old == Files
           d == disk
           e == disk'
<1>1. Files' = old
  BY ExtractAssumption DEF Files, IsFile, Put, ExtractTypeOK
<1>2. \A q \in old : e[q] = d[q] /\ d[q] \in Nat
  BY SizesAreNumbers DEF Files, IsFile, Put
<1>3. OnDisk = SumOf(d, old) /\ OnDisk' = SumOf(e, Files')
  BY OnDiskIsSum, OnDiskIsSumThen
<1>4. IsFiniteSet(old)
  OBVIOUS
<1>5. SumOf(d, old) = SumOf(e, old)
  <2> HIDE DEF d, e, old
  <2> QED
    BY <1>2, <1>4, SumSame
<1>6. QED
  BY <1>1, <1>2, <1>3, <1>5

\* There is nothing in a directory that is not there.
LEMMA NowhereType == \A S : Nowhere \in [Paths -> {NoFile} \cup S]
BY DEF Nowhere

\* What is asked of the last regular entry of a path stays a size.
LEMMA WantedType ==
    ASSUME ExtractTypeOK, NEW p \in Paths, NEW size \in FileSizes
    PROVE  [wanted EXCEPT ![p] = size] \in [Paths -> {NoFile} \cup FileSizes]
BY DEF ExtractTypeOK

\* Nothing but extractTarGz touches the directory while it runs,
LEMMA ExtractKept == EInv /\ UNCHANGED local => EInv'
<1> SUFFICES ASSUME EInv, UNCHANGED local PROVE EInv'
  OBVIOUS
<1>1. Files' = Files /\ OnDisk' = OnDisk
  BY OnDiskIsSum, OnDiskIsSumThen DEF local, Files, IsFile
<1>2. QED
  BY <1>1 DEF EInv, ExtractTypeOK, Written, DiskIsBounded, local, Is

\* whose every step keeps the invariant.
LEMMA ExtractStep == EInv /\ ExtractNext => EInv'
<1> SUFFICES ASSUME EInv, ExtractNext PROVE EInv'
  OBVIOUS
<1>0. /\ MaxFileSize \in Nat /\ MaxTotal \in Nat /\ MaxEntries \in Nat
      /\ NoFile \notin Nat /\ Dir \notin Nat /\ NoFile # Dir /\ FileSizes \subseteq Nat
  BY ExtractAssumption
<1>a. ExtractTypeOK /\ IsFiniteSet(Files)
  BY DEF EInv
<1>b. /\ Files = {} => OnDisk = 0
      /\ Files' = {} => OnDisk' = 0
  BY OnDiskIsSum, OnDiskIsSumThen, NoFiles
\* Steps that leave the directory as it is.
<1>1. ASSUME UNCHANGED disk
      PROVE  Files' = Files /\ OnDisk' = OnDisk /\ \A p, size : Is(p, size)' <=> Is(p, size)
  BY <1>1, OnDiskIsSum, OnDiskIsSumThen DEF Files, IsFile, Is
<1>2. CASE MakeDir
  BY <1>0, <1>1, <1>2, <1>b DEF MakeDir, EInv, ExtractTypeOK, Written, DiskIsBounded, Nowhere
<1>3. CASE MakeDirFails \/ SkipEntry \/ LoopFails \/ EndOfArchive
  <2>1. UNCHANGED <<ok, disk, total, wanted>> /\ Files' = Files /\ OnDisk' = OnDisk
    BY <1>1, <1>3 DEF MakeDirFails, SkipEntry, LoopFails, EndOfArchive
  <2>2. ExtractTypeOK'
    BY <1>0, <1>3, <1>a, <2>1 DEF MakeDirFails, SkipEntry, Turn, LoopFails, EndOfArchive, ExtractTypeOK
  <2>3. Written => Written'
    BY <2>1 DEF Written, Is
  <2>4. QED
    BY <1>3, <2>1, <2>2, <2>3
       DEF MakeDirFails, SkipEntry, LoopFails, EndOfArchive, Turn, EInv, DiskIsBounded
<1>4. CASE RemoveDir \/ HandOver
  <2>1. Files' = {} /\ disk' \in [Paths -> {NoFile}]
    BY <1>4 DEF RemoveDir, HandOver, Files, IsFile, Nowhere
  <2>2. IsFiniteSet(Files') /\ OnDisk' = 0 /\ place' = "returned"
    BY <1>4, <1>b, <2>1, FS_EmptySet DEF RemoveDir, HandOver
  <2>3. ExtractTypeOK'
    <3>1. /\ disk' \in [Paths -> {NoFile} \cup ({Dir} \cup 0..(MaxFileSize + 1))]
          /\ wanted' \in [Paths -> {NoFile} \cup FileSizes]
      BY <1>4, <1>a, NowhereType DEF RemoveDir, HandOver, ExtractTypeOK
    <3>2. disk' \in [Paths -> {NoFile, Dir} \cup 0..(MaxFileSize + 1)]
      <4>1. {NoFile} \cup ({Dir} \cup 0..(MaxFileSize + 1)) = {NoFile, Dir} \cup 0..(MaxFileSize + 1)
        OBVIOUS
      <4>2. QED
        BY <3>1, <4>1
    <3>3. /\ place' = "returned" /\ ok' \in BOOLEAN
          /\ total' \in 0..(MaxTotal + MaxFileSize) /\ entries' \in 0..MaxEntries
      <4>1. CASE RemoveDir
        BY <1>a, <4>1 DEF RemoveDir, ExtractTypeOK
      <4>2. CASE HandOver
        BY <1>0, <4>2 DEF HandOver
      <4>3. QED
        BY <1>4, <4>1, <4>2
    <3>4. QED
      BY <3>1, <3>2, <3>3 DEF ExtractTypeOK
  <2>4. QED
    BY <1>0, <2>1, <2>2, <2>3 DEF EInv, DiskIsBounded
<1>5. ASSUME NEW p \in Paths, MakeEntryDir(p)
      PROVE  EInv'
  <2>1. CASE IsFile(p) \/ IsFile(Parent[p])
    <3>1. UNCHANGED <<ok, disk, total, wanted>> /\ place' = "fail" /\ entries' = entries + 1
             /\ entries < MaxEntries
      BY <1>5, <2>1 DEF MakeEntryDir, Turn
    <3>2. QED
      BY <1>0, <1>1, <3>1 DEF EInv, ExtractTypeOK, DiskIsBounded
  <2>2. CASE ~ (IsFile(p) \/ IsFile(Parent[p]))
    <3>1. /\ disk' = Put(p, Dir) /\ place = "loop" /\ UNCHANGED <<ok, total, wanted, place>>
          /\ entries' = entries + 1 /\ entries < MaxEntries
      BY <1>5, <2>2 DEF MakeEntryDir, Turn
    <3>2. Files' = Files /\ OnDisk' = OnDisk /\ \A q \in Files : disk'[q] = disk[q]
      BY <1>a, <2>2, <3>1, PutDir
    <3>3. ExtractTypeOK'
      BY <1>0, <1>a, <3>1 DEF ExtractTypeOK, Put
    <3>4. ASSUME NEW q \in Paths, wanted[q] # NoFile
          PROVE  Is(q, wanted[q])'
      <4>1. Is(q, wanted[q]) /\ q \in Files
        BY <3>1, <3>4, ExtractAssumption DEF EInv, Written, Is, Files, IsFile
      <4>2. QED
        BY <3>1, <3>2, <4>1 DEF Is
    <3>5. Written'
      BY <3>1, <3>2, <3>4 DEF EInv, Written
    <3>6. QED
      BY <1>a, <3>1, <3>2, <3>3, <3>5 DEF EInv, DiskIsBounded
  <2>3. QED
    BY <2>1, <2>2
<1>6. ASSUME NEW p \in Paths, NEW size \in FileSizes, NEW n \in Nat, n <= MaxFileSize + 1,
             disk' = Put(p, n), ~ IsFile(Parent[p]), place = "loop"
      PROVE  /\ disk' \in [Paths -> {NoFile, Dir} \cup 0..(MaxFileSize + 1)]
             /\ Files' = Files \cup {p} /\ IsFiniteSet(Files')
             /\ OnDisk' <= total + n /\ DiskIsBounded' /\ total \in Nat /\ total <= MaxTotal
             /\ (n = size /\ n <= MaxFileSize /\ wanted' = [wanted EXCEPT ![p] = size]) =>
                   /\ \A q \in Paths : wanted'[q] # NoFile => Is(q, wanted[q])'
                   /\ \A q \in Files' : disk'[q] <= MaxFileSize
  <2>1. /\ Files' = Files \cup {p} /\ IsFiniteSet(Files')
        /\ OnDisk' \in Nat /\ OnDisk \in Nat /\ OnDisk' <= OnDisk + n
    BY <1>6, <1>a, PutFile
  <2>2. disk' \in [Paths -> {NoFile, Dir} \cup 0..(MaxFileSize + 1)]
    BY <1>0, <1>6, <1>a DEF ExtractTypeOK, Put
  <2>3. total \in Nat /\ total <= MaxTotal /\ OnDisk <= total /\ Written
    BY <1>6, <1>a DEF EInv, Written, ExtractTypeOK
  <2>4. OnDisk' <= total + n /\ OnDisk' <= MaxTotal + MaxFileSize + 1
    BY <1>0, <1>6, <2>1, <2>3
  <2>5. disk'[p] = n /\ \A q \in Files : q # p => disk'[q] = disk[q]
    BY <1>6 DEF Put, Files, IsFile
  <2>6. ASSUME n = size, n <= MaxFileSize, wanted' = [wanted EXCEPT ![p] = size],
               NEW q \in Paths, wanted'[q] # NoFile
        PROVE  Is(q, wanted[q])'
    <3>1. CASE q = p
      BY <1>0, <1>6, <1>a, <2>5, <2>6, <3>1 DEF Is, ExtractTypeOK
    <3>2. CASE q # p
      <4>1. wanted'[q] = wanted[q] /\ Is(q, wanted[q])
        BY <1>a, <2>3, <2>6, <3>2 DEF ExtractTypeOK, Written
      <4>2. q \in Files
        BY <4>1, ExtractAssumption DEF Files, IsFile, Is
      <4>3. QED
        BY <2>5, <3>2, <4>1, <4>2 DEF Is
    <3>3. QED
      BY <3>1, <3>2
  <2>7. ASSUME n <= MaxFileSize, NEW q \in Files'
        PROVE  disk'[q] <= MaxFileSize
    BY <2>1, <2>3, <2>5, <2>7 DEF Written
  <2>8. QED
    BY <2>1, <2>2, <2>3, <2>4, <2>6, <2>7 DEF DiskIsBounded
<1>7. ASSUME NEW p \in Paths, NEW size \in FileSizes, WriteEntry(p, size)
      PROVE  EInv'
  <2> DEFINE n == Copied(size)
  <2>1. size \in Nat /\ n \in Nat /\ n <= MaxFileSize + 1 /\ (n <= MaxFileSize => n = size)
    BY <1>0, Minimum DEF Copied
  <2>2. place = "loop" /\ entries < MaxEntries /\ entries' = entries + 1 /\ ok' = ok
    BY <1>7 DEF WriteEntry, Turn
  <2> HIDE DEF n
  <2>3. CASE IsFile(Parent[p]) \/ disk[p] = Dir
    <3>1. place' = "fail" /\ UNCHANGED <<disk, total, wanted>>
      BY <1>7, <2>3 DEF WriteEntry
    <3>2. QED
      BY <1>0, <1>1, <2>2, <3>1 DEF EInv, ExtractTypeOK, DiskIsBounded
  <2>4. CASE ~ (IsFile(Parent[p]) \/ disk[p] = Dir)
    <3>1. /\ disk' = Put(p, n)
          /\ wanted' = [wanted EXCEPT ![p] = size]
          /\ total' = IF n > MaxFileSize THEN total ELSE total + n
          /\ place' = IF n > MaxFileSize \/ total + n > MaxTotal THEN "fail" ELSE "loop"
      BY <1>7, <2>4 DEF WriteEntry, TotalWith, n
    <3>2. /\ disk' \in [Paths -> {NoFile, Dir} \cup 0..(MaxFileSize + 1)]
          /\ Files' = Files \cup {p} /\ IsFiniteSet(Files')
          /\ OnDisk' <= total + n /\ DiskIsBounded' /\ total \in Nat /\ total <= MaxTotal
          /\ (n = size /\ n <= MaxFileSize) =>
                   /\ \A q \in Paths : wanted'[q] # NoFile => Is(q, wanted[q])'
                   /\ \A q \in Files' : disk'[q] <= MaxFileSize
      BY <1>6, <2>1, <2>2, <2>4, <3>1
    <3>3. total' \in 0..(MaxTotal + MaxFileSize)
      BY <1>0, <2>1, <3>1, <3>2
    <3>4. ExtractTypeOK'
      <4>1. wanted' \in [Paths -> {NoFile} \cup FileSizes]
        BY <1>a, <3>1, WantedType
      <4>2. entries' \in 0..MaxEntries /\ ok' \in BOOLEAN
        BY <1>0, <1>a, <2>2 DEF ExtractTypeOK
      <4>3. QED
        BY <3>1, <3>2, <3>3, <4>1, <4>2 DEF ExtractTypeOK
    <3>5. place' = "loop" => Written'
      BY <1>0, <2>1, <3>1, <3>2 DEF Written
    <3>6. place' \in {"loop", "fail"}
      BY <3>1
    <3>7. QED
      BY <3>2, <3>4, <3>5, <3>6 DEF EInv
  <2>5. QED
    BY <2>3, <2>4
<1>8. ASSUME NEW p \in Paths, NEW size \in FileSizes, WriteEntryCut(p, size)
      PROVE  EInv'
  <2>1. PICK n \in 0..Min({size, MaxFileSize}) : disk' = Put(p, n)
    BY <1>8 DEF WriteEntryCut
  <2>2. size \in Nat /\ n \in Nat /\ n <= MaxFileSize + 1
    BY <1>0, <2>1, Minimum
  <2>3. /\ place = "loop" /\ entries < MaxEntries /\ entries' = entries + 1 /\ ok' = ok
        /\ ~ IsFile(Parent[p]) /\ wanted' = [wanted EXCEPT ![p] = size]
        /\ place' = "fail" /\ total' = total
    BY <1>8 DEF WriteEntryCut, Turn
  <2>4. /\ disk' \in [Paths -> {NoFile, Dir} \cup 0..(MaxFileSize + 1)]
        /\ IsFiniteSet(Files') /\ DiskIsBounded'
    BY <1>6, <2>1, <2>2, <2>3
  <2>5. ExtractTypeOK'
    <3>1. wanted' \in [Paths -> {NoFile} \cup FileSizes]
      BY <1>a, <2>3, WantedType
    <3>2. entries' \in 0..MaxEntries /\ ok' \in BOOLEAN
      BY <1>0, <1>a, <2>3 DEF ExtractTypeOK
    <3>3. total' \in 0..(MaxTotal + MaxFileSize)
      BY <1>a, <2>3 DEF ExtractTypeOK
    <3>4. QED
      BY <2>3, <2>4, <3>1, <3>2, <3>3 DEF ExtractTypeOK
  <2>6. QED
    BY <2>3, <2>4, <2>5 DEF EInv
<1>9. QED
  BY <1>2, <1>3, <1>4, <1>5, <1>7, <1>8 DEF ExtractNext

\* The invariant holds of every upload.
LEMMA Extraction == Spec => []EInv
<1>1. Init => EInv
  <2> SUFFICES ASSUME Init PROVE EInv
    OBVIOUS
  <2>1. Files = {} /\ disk = Nowhere
    BY DEF Init, ExtractInit, Files, IsFile, Nowhere
  <2>2. OnDisk = 0 /\ IsFiniteSet(Files)
    BY <2>1, OnDiskIsSum, NoFiles, FS_EmptySet
  <2>3. ExtractTypeOK
    <3>1. /\ disk \in [Paths -> {NoFile} \cup ({Dir} \cup 0..(MaxFileSize + 1))]
          /\ wanted \in [Paths -> {NoFile} \cup FileSizes]
      BY NowhereType DEF Init, ExtractInit
    <3>2. {NoFile} \cup ({Dir} \cup 0..(MaxFileSize + 1)) = {NoFile, Dir} \cup 0..(MaxFileSize + 1)
      OBVIOUS
    <3>3. place = "make" /\ ok \in BOOLEAN /\ total = 0 /\ entries = 0
      BY DEF Init, ExtractInit
    <3>4. /\ MaxFileSize \in Nat /\ MaxTotal \in Nat /\ MaxEntries \in Nat
      BY ExtractAssumption
    <3>5. total \in 0..(MaxTotal + MaxFileSize) /\ entries \in 0..MaxEntries
      BY <3>3, <3>4
    <3>6. QED
      BY <3>1, <3>2, <3>3, <3>5 DEF ExtractTypeOK
  <2>4. QED
    BY <2>1, <2>2, <2>3, ExtractAssumption DEF Init, ExtractInit, EInv, DiskIsBounded
<1>2. EInv /\ [Next]_vars => EInv'
  BY ExtractKept, ExtractStep DEF Next, Cancel, Extracting, Parsing, vars
<1>3. QED
  BY <1>1, <1>2, PTL DEF Spec

\* While an archive is extracted the directory never takes more room than the limit on
\* all files and one file more, though the size of an entry is counted after it is
\* written, and a file may be written twice.
THEOREM DirectoryIsBounded == Spec => []DiskIsBounded
<1>1. EInv => DiskIsBounded
  BY DEF EInv
<1>2. QED
  BY <1>1, Extraction, PTL

\* When extractTarGz returns there is a directory with every file of the archive whole
\* and within the limits, or an error and no directory.
THEOREM ArchivesWholeOrGone == Spec => []AllOrNothing
<1>1. EInv => AllOrNothing
  <2> SUFFICES ASSUME EInv PROVE AllOrNothing
    OBVIOUS
  <2>1. OnDisk \in Nat /\ MaxTotal \in Nat /\ total \in Nat
    <3>1. \A p \in Files : disk[p] \in Nat
      BY SizesAreNumbers DEF EInv
    <3>2. SumOf(disk, Files) \in Nat
      BY <3>1, SumType DEF EInv
    <3>3. QED
      BY <3>2, OnDiskIsSum, ExtractAssumption DEF EInv, ExtractTypeOK
  <2>2. QED
    BY <2>1 DEF EInv, Written, AllOrNothing
<1>2. QED
  BY <1>1, Extraction, PTL
-----------------------------------------------------------------------------
(* The loops of Parse. *)

\* Events with added counts.
Stored == [key : Keys, time : Times, count : Nat, type : {"Warning", "Normal"}]

\* What BoundedSeq has are short sequences.
LEMMA Bounded ==
    ASSUME NEW S, NEW n \in Int, NEW s \in BoundedSeq(S, n)
    PROVE  s \in Seq(S) /\ Len(s) <= n
<1>1. PICK m \in 0..n : s \in [1..m -> S]
  BY DEF BoundedSeq, SeqOf
<1>2. QED
  BY <1>1

\* Products, of which the backends know little.
LEMMA Products ==
    ASSUME NEW a \in Nat, NEW b \in Nat
    PROVE  /\ a * b \in Nat /\ a * b + b = (a + 1) * b
           /\ \A c \in Nat : c <= a => c * b <= a * b
OBVIOUS

\* How far the loops have come: an index is at most one past what it runs over.
Indices ==
    /\ stage \in {"start", "done", "failed"} => next = 1
    /\ stage = "start" => pods = <<>>
    /\ stage \in {"pods", "events"} => next <= Directories + 1
    /\ stage = "pods" => Len(pods) <= (next - 1) * MaxPods
    /\ stage = "collapse" => next <= Len(all) + 1
    /\ stage = "logs" => next <= Len(pods) + 1
    /\ stage \in {"start", "pods", "events", "collapse"} => excerpts = 0
    /\ stage \in {"start", "pods", "events"} => result = <<>>

\* Every step of Parse keeps the types and the indices.
LEMMA ParseTypes ==
    ASSUME ParseTypeOK, Indices, ParseNext
    PROVE  ParseTypeOK' /\ Indices'
<1> USE DEF Stages
<1>0. /\ Directories \in Nat /\ MaxPods \in Nat /\ MaxFiles \in Nat /\ MaxContainers \in Nat
      /\ Times \subseteq Nat /\ Counts \subseteq Nat /\ MaxEvents \in Nat
  BY ParserAssumption
<1>a. /\ stage \in Stages /\ next \in Nat \ {0} /\ pods \in Seq(Pods) /\ Len(pods) <= Directories * MaxPods
      /\ all \in Seq(Events) /\ Len(all) <= MaxEvents /\ result \in Seq(Stored)
      /\ excerpts \in 0..MaxContainers /\ notes \in SUBSET {"events", "logs"} /\ missed \in BOOLEAN
  BY <1>0 DEF ParseTypeOK, Stored
<1>b. Directories * MaxPods \in Nat /\ Len(pods) \in Nat /\ Len(all) \in Nat
  BY <1>0, <1>a, Products
\* What is left to show of a step.
<1>c. ASSUME stage' \in Stages, next' \in Nat \ {0}, pods' \in Seq(Pods), Len(pods') <= Directories * MaxPods,
             all' \in Seq(Events), Len(all') <= MaxEvents, result' \in Seq(Stored),
             excerpts' \in 0..MaxContainers, notes' \in SUBSET {"events", "logs"}, missed' \in BOOLEAN,
             Indices'
      PROVE  ParseTypeOK' /\ Indices'
  <2>1. Len(pods') \in Nat /\ Len(all') \in Nat
    BY <1>c
  <2>2. next' <= Directories + MaxEvents + Directories * MaxPods + 1
    BY <1>0, <1>b, <1>c, <2>1 DEF Indices
  <2>3. next' \in 1..(Directories + MaxEvents + Directories * MaxPods + 1)
    BY <1>0, <1>b, <1>c, <2>2
  <2>4. QED
    BY <1>c, <2>3 DEF ParseTypeOK, Stored
<1>1. CASE Start \/ PodsEnd \/ EventsInterrupted \/ LogsInterrupted \/ LogsEnd
  <2>1. /\ next' = 1 /\ pods' = pods /\ result' = result /\ excerpts' = excerpts
        /\ missed' \in BOOLEAN /\ notes' \in SUBSET {"events", "logs"}
    BY <1>1, <1>a DEF Start, PodsEnd, EventsInterrupted, LogsInterrupted, LogsEnd, GoOn
  <2>2. all' \in {all, <<>>} /\ stage' \in Stages \ {"start", "collapse"}
    BY <1>1 DEF Start, PodsEnd, EventsInterrupted, LogsInterrupted, LogsEnd, GoOn
  <2>3. all' \in Seq(Events) /\ Len(all') <= MaxEvents
    <3>1. CASE all' = <<>>
      <4>1. all' \in Seq(Events) /\ Len(all') = 0
        BY <3>1
      <4>2. QED
        BY <1>0, <4>1
    <3>2. CASE all' = all
      BY <1>a, <3>2
    <3>3. QED
      BY <2>2, <3>1, <3>2
  <2>4. stage' = "pods" => stage = "start"
    BY <1>1 DEF Start, PodsEnd, EventsInterrupted, LogsInterrupted, LogsEnd, GoOn
  <2>5. stage' = "events" => stage = "pods"
    BY <1>1 DEF Start, PodsEnd, EventsInterrupted, LogsInterrupted, LogsEnd, GoOn
  <2>6. 0 * MaxPods = 0
    BY <1>0
  <2>7. Indices'
    BY <1>0, <1>a, <1>b, <2>1, <2>2, <2>4, <2>5, <2>6 DEF Indices
  <2>8. QED
    BY <1>a, <1>c, <2>1, <2>2, <2>3, <2>7
<1>2. ASSUME NEW file \in BoundedSeq(Pods, MaxPods), ReadPods(file)
      PROVE  ParseTypeOK' /\ Indices'
  <2>1. /\ stage = "pods" /\ next <= Directories /\ pods' = pods \o file /\ next' = next + 1
        /\ UNCHANGED <<stage, all, result, excerpts, notes, missed>>
    BY <1>2 DEF ReadPods
  <2>2. file \in Seq(Pods) /\ Len(file) <= MaxPods
    BY <1>0, Bounded
  <2>3. pods' \in Seq(Pods) /\ Len(pods') = Len(pods) + Len(file)
    BY <1>a, <2>1, <2>2
  <2>4. /\ Len(pods) <= (next - 1) * MaxPods /\ next - 1 \in Nat
        /\ (next - 1) * MaxPods \in Nat /\ (next - 1) * MaxPods + MaxPods = next * MaxPods
    <3>1. next - 1 \in Nat /\ (next - 1) + 1 = next
      BY <1>a
    <3>2. QED
      BY <1>0, <2>1, <3>1, Products DEF Indices
  <2>5. next * MaxPods <= Directories * MaxPods /\ next * MaxPods \in Nat
    BY <1>0, <1>a, <2>1, Products
  <2>6. Len(pods') <= next * MaxPods /\ Len(pods') <= Directories * MaxPods
    BY <1>0, <1>b, <2>2, <2>3, <2>4, <2>5
  <2>7. Indices'
    BY <1>0, <1>a, <2>1, <2>6 DEF Indices
  <2>8. QED
    BY <1>a, <1>c, <2>1, <2>3, <2>6, <2>7
<1>3. ASSUME NEW file \in BoundedSeq(Events, MaxEvents - Len(all)), ReadEvents(file)
      PROVE  ParseTypeOK' /\ Indices'
  <2>1. /\ stage = "events" /\ next <= Directories /\ all' = all \o file /\ next' = next + 1
        /\ UNCHANGED <<stage, pods, result, excerpts, notes, missed>>
    BY <1>3 DEF ReadEvents
  <2>2. file \in Seq(Events) /\ Len(file) <= MaxEvents - Len(all)
    BY <1>0, <1>b, Bounded
  <2>3. all' \in Seq(Events) /\ Len(all') <= MaxEvents
    BY <1>0, <1>a, <1>b, <2>1, <2>2
  <2>4. Indices'
    BY <1>0, <1>a, <2>1 DEF Indices
  <2>5. QED
    BY <1>a, <1>c, <2>1, <2>3, <2>4
<1>4. CASE Filter
  <2>1. /\ stage = "events" /\ stage' = "collapse" /\ next' = 1
        /\ UNCHANGED <<pods, result, excerpts, notes, missed>>
        /\ all' = Filtered(all, {e \in Events : Kept(e)})
    BY <1>4 DEF Filter, GoOn
  <2>2. all' \in Seq(Events) /\ Len(all') <= Len(all)
    BY <1>a, <2>1, FilteredType
  <2>3. Len(all') \in Nat /\ Len(all') <= MaxEvents
    BY <1>0, <1>a, <1>b, <2>2
  <2>4. Indices'
    BY <1>0, <2>1, <2>3 DEF Indices
  <2>5. QED
    BY <1>a, <1>c, <2>1, <2>2, <2>3, <2>4
<1>5. CASE Collapse
  <2> DEFINE e == all[next]
             same == {i \in DOMAIN result : result[i].key = e.key}
  <2>1. /\ stage = "collapse" /\ next <= Len(all) /\ next' = next + 1
        /\ UNCHANGED <<stage, pods, all, excerpts, notes, missed>>
        /\ result' = IF same = {} THEN Append(result, e)
                     ELSE [i \in DOMAIN result |-> IF i \in same THEN Merge(result[i], e) ELSE result[i]]
    BY <1>5 DEF Collapse
  <2>2. e \in Events /\ e \in Stored
    <3>1. e \in Events
      BY <1>a, <2>1
    <3>2. QED
      BY <1>0, <3>1 DEF Events, Stored
  <2> HIDE DEF e, same
  <2>3. ASSUME NEW old \in Stored PROVE Merge(old, e) \in Stored
    BY <2>2 DEF Merge, Stored
  <2>4. result' \in Seq(Stored)
    <3>1. CASE same = {}
      BY <1>a, <2>1, <2>2, <3>1
    <3>2. CASE same # {}
      <4>1. result' \in [1..Len(result) -> Stored] /\ Len(result) \in Nat
        BY <1>a, <2>1, <2>3, <3>2
      <4>2. QED
        BY <4>1
    <3>3. QED
      BY <3>1, <3>2
  <2>5. Indices'
    BY <1>a, <1>b, <2>1 DEF Indices
  <2>6. QED
    BY <1>a, <1>c, <2>1, <2>4, <2>5
<1>6. CASE Sort
  <2>1. /\ stage = "collapse" /\ next' = 1 /\ stage' = "logs"
        /\ UNCHANGED <<pods, all, excerpts, notes, missed>>
    BY <1>6 DEF Sort, GoOn
  <2>2. PICK f \in Bijection(DOMAIN result, DOMAIN result) : result' = [i \in DOMAIN result |-> result[f[i]]]
    BY <1>6 DEF Sort
  <2>3. f \in [DOMAIN result -> DOMAIN result]
    BY DEF Bijection, Injection
  <2>4. result' \in [1..Len(result) -> Stored] /\ Len(result) \in Nat
    BY <1>a, <2>2, <2>3
  <2>5. result' \in Seq(Stored)
    BY <2>4
  <2>6. Indices'
    BY <1>0, <1>b, <2>1 DEF Indices
  <2>7. QED
    BY <1>a, <1>c, <2>1, <2>5, <2>6
<1>7. CASE ReadLogs
  <2>1. /\ stage = "logs" /\ next <= Len(pods) /\ excerpts' = Excerpts(pods[next]) /\ next' = next + 1
        /\ UNCHANGED <<stage, pods, all, result, notes, missed>>
    BY <1>7 DEF ReadLogs, LogsPending
  <2>2. pods[next] \in Pods
    BY <1>a, <2>1
  <2>3. excerpts' \in 0..MaxContainers
    <3>1. PICK n \in Nat : n = pods[next].logs
      BY <1>0, <2>2 DEF Pods
    <3>2. MaxContainers \in Nat /\ excerpts \in 0..MaxContainers
      BY <1>0, <1>a
    <3>3. Least(excerpts + n, MaxContainers) \in 0..MaxContainers
      BY ONLY n \in Nat, <3>2 DEF Least
    <3>4. excerpts' \in {Least(excerpts + n, MaxContainers), excerpts}
      BY ONLY <2>1, <3>1 DEF Excerpts
    <3>5. QED
      BY ONLY <3>2, <3>3, <3>4
  <2>4. Indices'
    BY <1>a, <1>b, <2>1 DEF Indices
  <2>5. QED
    BY <1>a, <1>c, <2>1, <2>3, <2>4
<1>8. QED
  BY <1>1, <1>2, <1>3, <1>4, <1>5, <1>6, <1>7 DEF ParseNext

\* The logs there are of the pods before pod n.
FilesBefore(n) == {file \in (1..(n - 1)) \X (1..MaxFiles) :
                      pods[file[1]].unhealthy /\ file[2] <= pods[file[1]].logs}

\* The excerpts so far are of those logs, up to the limit.
LogsInv == /\ stage = "logs" => excerpts = Least(Cardinality(FilesBefore(next)), MaxContainers)
           /\ LogsUpToLimit

\* They are finitely many,
LEMMA FilesAreFinite ==
    ASSUME NEW n \in Nat
    PROVE  IsFiniteSet(FilesBefore(n)) /\ Cardinality(FilesBefore(n)) \in Nat
<1> DEFINE a == 1..(n - 1)
           b == 1..MaxFiles
<1>1. IsFiniteSet(a) /\ IsFiniteSet(b)
  BY FS_Interval, ParserAssumption
<1> HIDE DEF a, b
<1>2. IsFiniteSet(a \X b)
  BY <1>1, FS_Product
<1>3. FilesBefore(n) \in SUBSET (a \X b)
  BY DEF FilesBefore, a, b
<1>4. QED
  BY <1>2, <1>3, FS_Subset, FS_CardinalityType

\* and an unhealthy pod adds its own.
LEMMA FilesGrow ==
    ASSUME ParseTypeOK, NEW n \in 1..Len(pods)
    PROVE  Cardinality(FilesBefore(n + 1)) =
               Cardinality(FilesBefore(n)) + (IF pods[n].unhealthy THEN pods[n].logs ELSE 0)
<1>1. pods[n] \in Pods /\ n \in Nat /\ MaxFiles \in Nat
  BY ParserAssumption DEF ParseTypeOK
<1> DEFINE k == IF pods[n].unhealthy THEN pods[n].logs ELSE 0
           its == {n} \X (1..k)
<1>2. k \in 0..MaxFiles
  BY <1>1 DEF Pods
<1>3. FilesBefore(n + 1) = FilesBefore(n) \cup its
  <2>1. ASSUME NEW file \in FilesBefore(n + 1)
        PROVE  file \in FilesBefore(n) \cup its
    <3>1. file \in (1..n) \X (1..MaxFiles) /\ pods[file[1]].unhealthy /\ file[2] <= pods[file[1]].logs
      BY <1>1, <2>1 DEF FilesBefore
    <3>2. CASE file[1] = n
      BY <3>1, <3>2
    <3>3. CASE file[1] # n
      BY <1>1, <3>1, <3>3 DEF FilesBefore
    <3>4. QED
      BY <3>2, <3>3
  <2>2. ASSUME NEW file \in its
        PROVE  file \in FilesBefore(n + 1)
    BY <1>1, <1>2 DEF FilesBefore
  <2>3. FilesBefore(n) \subseteq FilesBefore(n + 1)
    BY <1>1 DEF FilesBefore
  <2>4. QED
    BY <2>1, <2>2, <2>3
<1>4. FilesBefore(n) \cap its = {}
  BY <1>1 DEF FilesBefore
<1>5. IsFiniteSet(its) /\ Cardinality(its) = k
  <2> DEFINE K == 1..k
  <2>1. IsFiniteSet(K) /\ Cardinality(K) = k
    <3>1. 1 \in Int /\ k \in Nat /\ k \in Int
      BY <1>1, <1>2
    <3> HIDE DEF k
    <3>2. IsFiniteSet(1..k) /\ Cardinality(1..k) = IF 1 > k THEN 0 ELSE k - 1 + 1
      BY <3>1, FS_Interval
    <3>3. QED
      BY <3>1, <3>2
  <2>2. IsFiniteSet({n}) /\ Cardinality({n}) = 1
    BY FS_Singleton
  <2> HIDE DEF K
  <2>3. IsFiniteSet({n} \X K) /\ Cardinality({n} \X K) = 1 * k
    BY <2>1, <2>2, FS_Product
  <2>4. 1 * k = k
    BY <1>2
  <2>5. QED
    BY <2>3, <2>4 DEF K
<1> HIDE DEF its, k
<1>6. /\ IsFiniteSet(FilesBefore(n)) /\ Cardinality(FilesBefore(n)) \in Nat
      /\ Cardinality({}) = 0
  BY <1>1, FilesAreFinite, FS_EmptySet
<1>7. Cardinality(FilesBefore(n) \cup its) = Cardinality(FilesBefore(n)) + k - 0
  BY <1>4, <1>5, <1>6, FS_Union
<1>8. Cardinality(FilesBefore(n + 1)) = Cardinality(FilesBefore(n)) + k
  <2> DEFINE c == Cardinality(FilesBefore(n))
  <2>0. c \in Nat /\ k \in Nat
    BY <1>1, <1>2, <1>6
  <2>1. c \in Nat /\ k \in Nat /\ Cardinality(FilesBefore(n + 1)) = c + k - 0
    BY <1>3, <1>7, <2>0
  <2> HIDE DEF c
  <2>2. c + k - 0 = c + k
    BY <2>1
  <2>3. QED
    BY <2>1, <2>2 DEF c
<1>9. QED
  BY <1>8 DEF k

\* Every step keeps what is known of the excerpts: a loop that ends early has the limit.
LEMMA LogsStep ==
    ASSUME ParseTypeOK, Indices, LogsInv, ParseNext
    PROVE  LogsInv'
<1>0. MaxContainers \in Nat /\ excerpts \in 0..MaxContainers /\ next \in Nat \ {0} /\ pods \in Seq(Pods)
  BY ParserAssumption DEF ParseTypeOK
<1>1. CASE stage' \notin {"logs", "done"}
  BY <1>1 DEF LogsInv, LogsUpToLimit
<1>2. CASE stage # "logs" /\ stage' \in {"logs", "done"}
  <2>1. stage' = "logs" /\ next' = 1 /\ excerpts' = excerpts /\ stage \in {"events", "collapse"}
    BY <1>2 DEF ParseNext, Start, ReadPods, PodsEnd, ReadEvents, EventsInterrupted, Filter, Collapse,
                Sort, ReadLogs, LogsInterrupted, LogsEnd, LogsPending, GoOn
  <2>2. FilesBefore(1)' = {}
    BY DEF FilesBefore
  <2>3. Cardinality({}) = 0 /\ excerpts = 0
    BY <2>1, FS_EmptySet DEF Indices
  <2>4. (FilesBefore(next))' = {}
    BY <2>1, <2>2 DEF FilesBefore
  <2>5. excerpts' = Least(Cardinality((FilesBefore(next))'), MaxContainers)
    BY <1>0, <2>1, <2>3, <2>4 DEF Least
  <2>6. QED
    BY <2>1, <2>5 DEF LogsInv, LogsUpToLimit
<1>3. CASE ReadLogs
  <2>1. /\ stage = "logs" /\ next \in 1..Len(pods) /\ next' = next + 1 /\ pods' = pods /\ stage' = stage
        /\ excerpts' = Excerpts(pods[next])
    BY <1>0, <1>3 DEF ReadLogs, LogsPending
  <2> DEFINE c == Cardinality(FilesBefore(next))
             k == IF pods[next].unhealthy THEN pods[next].logs ELSE 0
  <2>2. Cardinality(FilesBefore(next + 1)) = c + k
    BY <2>1, FilesGrow
  <2>3. c \in Nat /\ k \in Nat /\ pods[next] \in Pods
    <3>1. pods[next] \in Pods /\ next \in Nat
      BY <1>0, <2>1
    <3>2. k \in Nat
      BY <3>1, ParserAssumption DEF Pods
    <3>3. QED
      BY <3>1, <3>2, FilesAreFinite
  <2>4. excerpts = Least(c, MaxContainers)
    BY <2>1 DEF LogsInv
  <2>5. (Cardinality(FilesBefore(next)))' = Cardinality(FilesBefore(next + 1))
    BY <2>1 DEF FilesBefore
  <2>6. excerpts' = IF pods[next].unhealthy THEN Least(excerpts + pods[next].logs, MaxContainers) ELSE excerpts
    BY <2>1 DEF Excerpts
  <2>7. excerpts' = Least(c + k, MaxContainers)
    <3>1. CASE pods[next].unhealthy
      <4>1. excerpts' = Least(excerpts + k, MaxContainers)
        BY <2>6, <3>1
      <4> HIDE DEF c, k
      <4>2. QED
        BY <1>0, <2>3, <2>4, <4>1 DEF Least
    <3>2. CASE ~ pods[next].unhealthy
      <4>1. k = 0 /\ excerpts' = excerpts
        BY <2>6, <3>2
      <4> HIDE DEF c, k
      <4>2. QED
        BY <1>0, <2>3, <2>4, <4>1
    <3>3. QED
      BY <3>1, <3>2
  <2>8. QED
    BY <2>1, <2>2, <2>5, <2>7 DEF LogsInv, LogsUpToLimit
<1>4. CASE LogsInterrupted
  BY <1>4 DEF LogsInterrupted, GoOn, LogsInv, LogsUpToLimit
<1>5. CASE LogsEnd
  <2>1. /\ stage = "logs" /\ stage' = "done" /\ pods' = pods /\ excerpts' = excerpts
        /\ next > Len(pods) \/ excerpts >= MaxContainers
    BY <1>0, <1>5 DEF LogsEnd, LogsPending, GoOn
  <2> DEFINE files == {file \in (DOMAIN pods) \X (1..MaxFiles) :
                         pods[file[1]].unhealthy /\ file[2] <= pods[file[1]].logs}
             n == Len(pods) + 1
  <2>2. files = FilesBefore(n) /\ n \in Nat
    BY <1>0 DEF FilesBefore
  <2>3. next <= n /\ excerpts = Least(Cardinality(FilesBefore(next)), MaxContainers)
    BY <2>1 DEF Indices, LogsInv
  <2>4. /\ Cardinality(FilesBefore(next)) \in Nat /\ Cardinality(FilesBefore(n)) \in Nat
        /\ IsFiniteSet(FilesBefore(n))
    BY <1>0, <2>2, FilesAreFinite
  <2>5. FilesBefore(next) \in SUBSET FilesBefore(n)
    BY <1>0, <2>2, <2>3 DEF FilesBefore
  <2>6. Cardinality(FilesBefore(next)) <= Cardinality(FilesBefore(n))
    BY <2>4, <2>5, FS_Subset
  <2>7. excerpts = Least(Cardinality(files), MaxContainers)
    <3>1. CASE next > Len(pods)
      <4>1. next = n
        BY <1>0, <2>2, <2>3, <3>1
      <4>2. QED
        BY <2>2, <2>3, <4>1
    <3>2. CASE excerpts >= MaxContainers
      <4> DEFINE c == Cardinality(FilesBefore(next))
                 d == Cardinality(FilesBefore(n))
      <4>1. c \in Nat /\ d \in Nat /\ c <= d /\ excerpts = Least(c, MaxContainers)
        BY <2>3, <2>4, <2>6
      <4>2. Cardinality(files) = d
        BY <2>2
      <4> HIDE DEF c, d, files
      <4>3. QED
        BY <1>0, <3>2, <4>1, <4>2 DEF Least
    <3>3. QED
      BY <2>1, <3>1, <3>2
  <2>8. QED
    BY <2>1, <2>7 DEF LogsInv, LogsUpToLimit
<1>6. QED
  BY <1>1, <1>2, <1>3, <1>4, <1>5
     DEF ParseNext, Start, ReadPods, PodsEnd, ReadEvents, EventsInterrupted, Filter, Collapse, Sort
-----------------------------------------------------------------------------
(* deduplicateEvents. *)

\* The counts of the events.
Sizes == [i \in DOMAIN all |-> all[i].count]

\* The function MapThenSumSet computes Total with.
TotalOfIndices(it, is) ==
    it = [s \in SUBSET is |-> IF s = {} THEN 0
                              ELSE all[CHOOSE i \in s : TRUE].count + it[s \ {CHOOSE i \in s : TRUE}]]

\* The counts the reference adds up are a sum.
LEMMA TotalIsSum == \A is \in SUBSET DOMAIN all : Total(is) = SumOf(Sizes, is)
<1>1. \A is : Total(is) = (CHOOSE it : TotalOfIndices(it, is))[is]
  BY DEF Total, MapThenSumSet, MapThenFoldSet, TotalOfIndices
<1>2. \A is, d : SumOf(d, is) = (CHOOSE it : Summing(it, d, is))[is]
  BY DEF SumOf, MapThenSumSet, MapThenFoldSet, Summing
<1>3. ASSUME NEW is \in SUBSET DOMAIN all
      PROVE  \A it : TotalOfIndices(it, is) <=> Summing(it, Sizes, is)
  <2>1. \A s \in SUBSET is : s # {} => all[CHOOSE i \in s : TRUE].count = Sizes[CHOOSE i \in s : TRUE]
    BY DEF Sizes
  <2>2. QED
    BY <2>1 DEF TotalOfIndices, Summing
<1>4. QED
  BY <1>1, <1>2, <1>3

\* i is the first of the latest events of is.
IsLatest(i, is) == i \in is /\ \A j \in is : all[j].time < all[i].time \/ (all[j].time = all[i].time /\ i <= j)

\* Latest chooses the only latest event.
LEMMA LatestIs ==
    ASSUME ParseTypeOK, NEW is \in SUBSET DOMAIN all, NEW i, IsLatest(i, is)
    PROVE  Latest(is) = i
<1>0. \A j \in DOMAIN all : j \in Nat /\ all[j] \in Events
  BY DEF ParseTypeOK
<1>1. \A j \in DOMAIN all : j \in Nat /\ all[j].time \in Nat
  BY <1>0, ParserAssumption DEF Events
<1>2. \A j : IsLatest(j, is) => j = i
  BY <1>1 DEF IsLatest
<1>3. Latest(is) = CHOOSE j \in is : \A k \in is : all[k].time < all[j].time \/ (all[k].time = all[j].time /\ j <= k)
  BY DEF Latest
<1>4. IsLatest(Latest(is), is)
  BY <1>3 DEF IsLatest
<1>5. QED
  BY <1>2, <1>4

\* The event that stands for those of key k before index n.
Standing(k, n) == [all[Latest(OfKey(k, n))] EXCEPT !.count = SumOf(Sizes, OfKey(k, n))]

\* What the loop has made of the events before index n.
Collapsed(r, n) ==
    /\ \A i, j \in DOMAIN r : r[i].key = r[j].key => i = j
    /\ \A m \in 1..(n - 1) : \E i \in DOMAIN r : r[i].key = all[m].key
    /\ \A i \in DOMAIN r : /\ IsLatest(Latest(OfKey(r[i].key, n)), OfKey(r[i].key, n))
                           /\ r[i] = Standing(r[i].key, n)

\* The events from Through on are not collapsed yet.
Through == IF stage = "collapse" THEN next ELSE Len(all) + 1

\* The events shown are those before, collapsed.
CollapseInv == stage \in {"collapse", "logs", "done"} => Collapsed(result, Through)

\* The events of a key are finitely many, and so their counts add up to a number.
LEMMA KeyIndices ==
    ASSUME ParseTypeOK, NEW n \in 1..(Len(all) + 1), NEW k
    PROVE  /\ OfKey(k, n) \in SUBSET DOMAIN all /\ IsFiniteSet(OfKey(k, n))
           /\ \A i \in OfKey(k, n) : i \in Nat /\ i < n /\ all[i] \in Events /\ all[i].key = k
           /\ \A i \in DOMAIN all : Sizes[i] = all[i].count /\ Sizes[i] \in Nat
           /\ SumOf(Sizes, OfKey(k, n)) \in Nat
<1>1. all \in Seq(Events) /\ DOMAIN all = 1..Len(all) /\ Len(all) \in Nat
  BY DEF ParseTypeOK
<1>2. OfKey(k, n) \in SUBSET DOMAIN all /\ OfKey(k, n) \in SUBSET (1..(n - 1))
  BY <1>1 DEF OfKey
<1>3. IsFiniteSet(OfKey(k, n))
  <2> DEFINE R == 1..(n - 1)
  <2>1. IsFiniteSet(R)
    BY <1>1, FS_Interval
  <2>2. OfKey(k, n) \in SUBSET R
    BY <1>2
  <2> HIDE DEF R
  <2>3. QED
    BY <2>1, <2>2, FS_Subset
<1>4. \A i \in DOMAIN all : Sizes[i] = all[i].count /\ Sizes[i] \in Nat
  <2>1. \A i \in DOMAIN all : all[i] \in Events
    BY <1>1
  <2>2. \A i \in DOMAIN all : all[i].count \in Nat
    BY <2>1, ParserAssumption DEF Events
  <2>3. QED
    BY <2>2 DEF Sizes
<1>5. SumOf(Sizes, OfKey(k, n)) \in Nat
  BY <1>2, <1>3, <1>4, SumType
<1>6. QED
  BY <1>1, <1>2, <1>3, <1>4, <1>5 DEF OfKey

\* A list collapsed so is the set of the reference, each of its events once.
LEMMA CollapsedMatches ==
    ASSUME ParseTypeOK, NEW n \in 1..(Len(all) + 1), Collapsed(result, n)
    PROVE  Range(result) = Reference(n) /\ Len(result) = Cardinality(Reference(n))
<1>1. result \in Seq(Stored) /\ DOMAIN result = 1..Len(result) /\ Len(result) \in Nat
  BY DEF ParseTypeOK, Stored
<1>2. \A k : Total(OfKey(k, n)) = SumOf(Sizes, OfKey(k, n))
  BY TotalIsSum, KeyIndices
<1>3. Reference(n) = {Standing(k, n) : k \in {all[i].key : i \in 1..(n - 1)}}
  BY <1>2 DEF Reference, Standing
<1>4. ASSUME NEW i \in DOMAIN result
      PROVE  result[i] \in Reference(n)
  <2>1. result[i] = Standing(result[i].key, n) /\ OfKey(result[i].key, n) # {}
    BY DEF Collapsed, IsLatest
  <2>2. PICK m \in 1..(n - 1) : all[m].key = result[i].key
    BY <2>1 DEF OfKey
  <2>3. QED
    BY <1>3, <2>1, <2>2
<1>5. ASSUME NEW m \in 1..(n - 1)
      PROVE  \E i \in DOMAIN result : result[i] = Standing(all[m].key, n)
  BY DEF Collapsed
<1>6. Range(result) = Reference(n)
  BY <1>3, <1>4, <1>5 DEF Range
<1>7. result \in Bijection(1..Len(result), Range(result))
  <2>1. \A i, j \in DOMAIN result : result[i] = result[j] => i = j
    BY DEF Collapsed
  <2>2. result \in [1..Len(result) -> Range(result)]
    BY <1>1 DEF Range
  <2>3. \A r \in Range(result) : \E i \in 1..Len(result) : result[i] = r
    BY <1>1 DEF Range
  <2>4. QED
    BY <1>1, <2>1, <2>2, <2>3 DEF Bijection, Injection, Surjection, IsInjective
<1>8. Cardinality(Range(result)) = Len(result)
  BY <1>1, <1>7, FS_CountingElements DEF ExistsBijection
<1>9. QED
  BY <1>6, <1>8

\* One turn of the loop of deduplicateEvents collapses one event more: the first of a
\* key is appended, another one is merged into the one there is of its key, which is the
\* latest or not and has the counts of all before.
LEMMA CollapseStep ==
    ASSUME ParseTypeOK, stage = "collapse", next <= Len(all), Collapsed(result, next), Collapse
    PROVE  Collapsed(result', next + 1)
<1> DEFINE e == all[next]
           k == e.key
           same == {i \in DOMAIN result : result[i].key = k}
           old == OfKey(k, next)
           new == OfKey(k, next + 1)
<1>1. /\ all \in Seq(Events) /\ DOMAIN all = 1..Len(all) /\ Len(all) \in Nat
      /\ result \in Seq(Stored) /\ DOMAIN result = 1..Len(result) /\ Len(result) \in Nat
      /\ next \in DOMAIN all /\ next \in Nat /\ e \in Events
  BY DEF ParseTypeOK, Stored
<1>2. new = old \cup {next} /\ next \notin old
  BY <1>1 DEF OfKey
<1>3. \A q : q # k => OfKey(q, next + 1) = OfKey(q, next)
  BY <1>1 DEF OfKey
<1>4. /\ new \in SUBSET DOMAIN all /\ IsFiniteSet(new) /\ SumOf(Sizes, old) \in Nat
      /\ \A i \in new : Sizes[i] \in Nat
      /\ Sizes[next] = e.count
  <2>1. next \in 1..(Len(all) + 1) /\ next + 1 \in 1..(Len(all) + 1)
    BY <1>1
  <2>2. /\ new \in SUBSET DOMAIN all /\ IsFiniteSet(new) /\ SumOf(Sizes, old) \in Nat
        /\ \A i \in DOMAIN all : Sizes[i] = all[i].count /\ Sizes[i] \in Nat
    BY <2>1, KeyIndices
  <2> HIDE DEF new, old
  <2>3. QED
    BY <1>1, <2>2
<1>5. SumOf(Sizes, new) = e.count + SumOf(Sizes, old)
  <2>1. new \ {next} = old /\ next \in new
    BY <1>2
  <2> HIDE DEF new, old
  <2>2. SumOf(Sizes, new) = Sizes[next] + SumOf(Sizes, old)
    BY <1>4, <2>1, SumTake
  <2>3. QED
    BY <1>4, <2>2
<1>6. result' = IF same = {} THEN Append(result, e)
                ELSE [i \in DOMAIN result |-> IF i \in same THEN Merge(result[i], e) ELSE result[i]]
  BY DEF Collapse
\* What stands for the key of e afterwards.
<1>7. ASSUME NEW i, IsLatest(i, new)
      PROVE  Latest(new) = i /\ IsLatest(Latest(new), new)
             /\ Standing(k, next + 1) = [all[i] EXCEPT !.count = e.count + SumOf(Sizes, old)]
  <2>1. Latest(new) = i
    BY <1>4, <1>7, LatestIs
  <2>2. Standing(k, next + 1) = [all[Latest(new)] EXCEPT !.count = SumOf(Sizes, new)]
    BY DEF Standing
  <2>3. QED
    BY <1>5, <1>7, <2>1, <2>2
<1>8. CASE same = {}
  <2>1. result' = Append(result, e)
    BY <1>6, <1>8
  <2>2. old = {}
    <3>1. \A m \in 1..(next - 1) : all[m].key # k
      BY <1>8 DEF Collapsed
    <3>2. QED
      BY <3>1 DEF OfKey
  <2>3. SumOf(Sizes, old) = 0 /\ IsLatest(next, new)
    BY <1>1, <1>2, <2>2, SumOfNone DEF IsLatest
  <2>4. e.count \in Nat /\ e = [e EXCEPT !.count = e.count + 0]
    BY <1>1, ParserAssumption DEF Events
  <2>5. e = Standing(k, next + 1) /\ IsLatest(Latest(new), new)
    <3>1. Standing(k, next + 1) = [all[next] EXCEPT !.count = e.count + SumOf(Sizes, old)]
      BY <1>7, <2>3
    <3>2. QED
      BY <1>7, <2>3, <2>4, <3>1
  <2>6. /\ DOMAIN result' = 1..(Len(result) + 1) /\ result'[Len(result) + 1] = e
        /\ \A i \in DOMAIN result : result'[i] = result[i] /\ i \in DOMAIN result' /\ result[i].key # k
    BY <1>1, <1>8, <2>1
  <2>7. \A i \in DOMAIN result' : i \in DOMAIN result \/ i = Len(result) + 1
    BY <1>1, <2>6
  <2> HIDE DEF same
  <2>8. \A i, j \in DOMAIN result' : result'[i].key = result'[j].key => i = j
    BY <2>6, <2>7 DEF Collapsed
  <2>9. ASSUME NEW m \in 1..((next + 1) - 1)
        PROVE  \E i \in DOMAIN result' : result'[i].key = all[m].key
    <3>1. CASE m = next
      <4>1. Len(result) + 1 \in DOMAIN result'
        BY <1>1, <2>6
      <4>2. QED
        BY <2>6, <3>1, <4>1
    <3>2. CASE m # next
      <4>1. m \in 1..(next - 1)
        BY <1>1, <3>2
      <4>2. QED
        BY <2>6, <4>1 DEF Collapsed
    <3>3. QED
      BY <3>1, <3>2
  <2>10. ASSUME NEW i \in DOMAIN result'
         PROVE  /\ IsLatest(Latest(OfKey(result'[i].key, next + 1)), OfKey(result'[i].key, next + 1))
                /\ result'[i] = Standing(result'[i].key, next + 1)
    <3>1. CASE i = Len(result) + 1
      BY <2>5, <2>6, <3>1
    <3>2. CASE i \in DOMAIN result
      <4>1. result'[i] = result[i] /\ OfKey(result[i].key, next + 1) = OfKey(result[i].key, next)
        BY <1>3, <2>6, <3>2
      <4>2. Standing(result[i].key, next + 1) = Standing(result[i].key, next)
        BY <4>1 DEF Standing
      <4>3. QED
        BY <3>2, <4>1, <4>2 DEF Collapsed
    <3>3. QED
      BY <2>7, <3>1, <3>2
  <2>11. QED
    BY <2>8, <2>9, <2>10 DEF Collapsed
<1>9. CASE same # {}
  <2>1. PICK a \in same : TRUE
    BY <1>9
  <2>2. same = {a} /\ a \in DOMAIN result /\ result[a].key = k
    BY <2>1 DEF Collapsed
  <2>3. /\ DOMAIN result' = DOMAIN result /\ result'[a] = Merge(result[a], e)
        /\ \A i \in DOMAIN result : i # a => result'[i] = result[i] /\ result[i].key # k
    BY <1>6, <1>9, <2>2
  <2> DEFINE l == Latest(old)
  <2>4. IsLatest(l, old) /\ result[a] = Standing(k, next)
    BY <2>2 DEF Collapsed
  <2>5. result[a] = [all[l] EXCEPT !.count = SumOf(Sizes, old)]
    BY <2>4 DEF Standing
  <2> HIDE DEF same
  <2>6. l \in DOMAIN all /\ all[l] \in Events /\ l < next /\ all[l].key = k
    BY <1>1, <2>4 DEF IsLatest, OfKey
  <2>7. all[l].time \in Nat /\ e.time \in Nat /\ all[l].count \in Nat /\ e.count \in Nat
    BY <1>1, <2>6, ParserAssumption DEF Events
  <2>8. result[a].count = SumOf(Sizes, old) /\ result[a].time = all[l].time
    BY <2>5, <2>6 DEF Events
  <2>9. /\ result'[a] = Standing(k, next + 1) /\ IsLatest(Latest(new), new)
        /\ result'[a].key = k
    <3>0. \A j \in old : all[j].time \in Nat /\ j \in Nat /\ j < next
      <4>1. \A j \in old : j \in DOMAIN all
        BY <1>2, <1>4
      <4>2. \A j \in old : all[j] \in Events
        BY <1>1, <4>1
      <4> HIDE DEF old
      <4>3. \A j \in old : all[j].time \in Nat
        BY <4>2, ParserAssumption DEF Events
      <4> USE DEF old
      <4>4. QED
        BY <1>1, <4>3 DEF OfKey
    <3>1. CASE e.time > all[l].time
      <4>1. IsLatest(next, new)
        <5> HIDE DEF old, new, l
        <5>1. QED
          BY <1>1, <1>2, <2>4, <2>7, <3>0, <3>1 DEF IsLatest
      <4>2. Merge(result[a], e) = [e EXCEPT !.count = SumOf(Sizes, old) + e.count]
        BY <2>8, <3>1 DEF Merge
      <4>3. Standing(k, next + 1) = [e EXCEPT !.count = e.count + SumOf(Sizes, old)]
        BY <1>7, <4>1
      <4>4. SumOf(Sizes, old) + e.count = e.count + SumOf(Sizes, old)
        <5> DEFINE u == SumOf(Sizes, old)
        <5>1. u \in Nat
          BY <1>4
        <5> HIDE DEF u
        <5>2. u + e.count = e.count + u
          BY <2>7, <5>1
        <5>3. QED
          BY <5>2 DEF u
      <4>5. [e EXCEPT !.count = SumOf(Sizes, old) + e.count].key = k
        BY <1>1 DEF Events
      <4>6. QED
        BY <1>7, <2>3, <4>1, <4>2, <4>3, <4>4, <4>5
    <3>2. CASE ~ (e.time > all[l].time)
      <4>1. IsLatest(l, new)
        <5>1. e.time <= all[l].time /\ l <= next
          BY <2>6, <2>7, <3>2, <1>1
        <5>2. l \in new /\ \A j \in new : j \in old \/ j = next
          BY <1>2, <2>4 DEF IsLatest
        <5> HIDE DEF old, new, l
        <5>3. all[next].time < all[l].time \/ (all[next].time = all[l].time /\ l <= next)
          BY <2>7, <5>1
        <5>4. QED
          BY <2>4, <5>2, <5>3 DEF IsLatest
      <4>2. Merge(result[a], e) = [result[a] EXCEPT !.count = SumOf(Sizes, old) + e.count]
        BY <2>8, <3>2 DEF Merge
      <4>3. Standing(k, next + 1) = [all[l] EXCEPT !.count = e.count + SumOf(Sizes, old)]
        BY <1>7, <4>1
      <4>4. SumOf(Sizes, old) + e.count = e.count + SumOf(Sizes, old)
        <5> DEFINE u == SumOf(Sizes, old)
        <5>1. u \in Nat
          BY <1>4
        <5> HIDE DEF u
        <5>2. u + e.count = e.count + u
          BY <2>7, <5>1
        <5>3. QED
          BY <5>2 DEF u
      <4>5. [result[a] EXCEPT !.count = e.count + SumOf(Sizes, old)] =
              [all[l] EXCEPT !.count = e.count + SumOf(Sizes, old)]
        BY <2>5, <2>6 DEF Events
      <4>6. [all[l] EXCEPT !.count = e.count + SumOf(Sizes, old)].key = k
        BY <2>6 DEF Events
      <4>7. QED
        BY <1>7, <2>3, <4>1, <4>2, <4>3, <4>4, <4>5, <4>6
    <3>3. QED
      BY <3>1, <3>2
  <2>10. \A i \in DOMAIN result' : result'[i].key = result[i].key
    BY <2>2, <2>3, <2>9
  <2>11. \A i, j \in DOMAIN result' : result'[i].key = result'[j].key => i = j
    BY <2>3, <2>10 DEF Collapsed
  <2>12. ASSUME NEW m \in 1..((next + 1) - 1)
         PROVE  \E i \in DOMAIN result' : result'[i].key = all[m].key
    <3>1. CASE m = next
      BY <2>2, <2>3, <2>9, <3>1
    <3>2. CASE m # next
      <4>1. m \in 1..(next - 1)
        BY <1>1, <3>2
      <4>2. QED
        BY <2>3, <2>10, <4>1 DEF Collapsed
    <3>3. QED
      BY <3>1, <3>2
  <2>13. ASSUME NEW i \in DOMAIN result'
         PROVE  /\ IsLatest(Latest(OfKey(result'[i].key, next + 1)), OfKey(result'[i].key, next + 1))
                /\ result'[i] = Standing(result'[i].key, next + 1)
    <3>1. CASE i = a
      BY <2>9, <3>1
    <3>2. CASE i # a
      <4>1. result'[i] = result[i] /\ OfKey(result[i].key, next + 1) = OfKey(result[i].key, next)
        BY <1>3, <2>3, <3>2
      <4>2. Standing(result[i].key, next + 1) = Standing(result[i].key, next)
        BY <4>1 DEF Standing
      <4>3. QED
        BY <2>3, <4>1, <4>2 DEF Collapsed
    <3>3. QED
      BY <3>1, <3>2
  <2>14. QED
    BY <2>11, <2>12, <2>13 DEF Collapsed
<1>10. QED
  BY <1>8, <1>9

\* What is made of the events depends on them alone.
LEMMA CollapsedKept ==
    ASSUME all' = all
    PROVE  \A r, n : Collapsed(r, n) => Collapsed(r, n)'
<1>1. \A k, n : OfKey(k, n)' = OfKey(k, n) /\ Standing(k, n)' = Standing(k, n)
  BY DEF OfKey, Standing, Sizes, Latest
<1>2. \A is : Latest(is)' = Latest(is) /\ \A i : IsLatest(i, is) => IsLatest(i, is)'
  BY DEF Latest, IsLatest
<1>3. QED
  BY <1>1, <1>2 DEF Collapsed

\* A list in another order is collapsed as well.
LEMMA SortKeepsCollapsed ==
    ASSUME NEW r, NEW n, Collapsed(r, n), NEW f \in Bijection(DOMAIN r, DOMAIN r)
    PROVE  Collapsed([i \in DOMAIN r |-> r[f[i]]], n)
<1> DEFINE s == [i \in DOMAIN r |-> r[f[i]]]
<1>1. /\ \A i \in DOMAIN r : f[i] \in DOMAIN r
      /\ \A i, j \in DOMAIN r : f[i] = f[j] => i = j
      /\ \A j \in DOMAIN r : \E i \in DOMAIN r : f[i] = j
  BY DEF Bijection, Injection, Surjection, IsInjective
<1>2. DOMAIN s = DOMAIN r /\ \A i \in DOMAIN r : s[i] = r[f[i]]
  OBVIOUS
<1> HIDE DEF s
<1>a. /\ \A i, j \in DOMAIN r : r[i].key = r[j].key => i = j
      /\ \A m \in 1..(n - 1) : \E i \in DOMAIN r : r[i].key = all[m].key
      /\ \A i \in DOMAIN r : /\ IsLatest(Latest(OfKey(r[i].key, n)), OfKey(r[i].key, n))
                             /\ r[i] = Standing(r[i].key, n)
  BY DEF Collapsed
<1>b. ASSUME NEW i \in DOMAIN s
      PROVE  i \in DOMAIN r /\ f[i] \in DOMAIN r /\ s[i] = r[f[i]]
  BY <1>1, <1>2
<1>3. ASSUME NEW i \in DOMAIN s, NEW j \in DOMAIN s, s[i].key = s[j].key
      PROVE  i = j
  <2>1. r[f[i]].key = r[f[j]].key /\ f[i] \in DOMAIN r /\ f[j] \in DOMAIN r
    BY <1>3, <1>b
  <2>2. f[i] = f[j]
    BY <2>1, <1>a
  <2>3. QED
    BY <1>1, <1>b, <2>2
<1>4. ASSUME NEW m \in 1..(n - 1)
      PROVE  \E i \in DOMAIN s : s[i].key = all[m].key
  <2>1. PICK j \in DOMAIN r : r[j].key = all[m].key
    BY <1>a
  <2>2. PICK i \in DOMAIN r : f[i] = j
    BY <1>1
  <2>3. QED
    BY <1>2, <2>1, <2>2
<1>5. \A i \in DOMAIN s : /\ IsLatest(Latest(OfKey(s[i].key, n)), OfKey(s[i].key, n))
                          /\ s[i] = Standing(s[i].key, n)
  BY <1>a, <1>b
<1>6. QED
  BY <1>3, <1>4, <1>5 DEF Collapsed, s

\* Every step keeps the events collapsed.
LEMMA CollapseInvStep ==
    ASSUME ParseTypeOK, Indices, CollapseInv, ParseNext
    PROVE  CollapseInv'
<1>0. result \in Seq(Stored) /\ all \in Seq(Events) /\ Len(all) \in Nat /\ next \in Nat \ {0}
  BY DEF ParseTypeOK, Stored
<1>r. PICK r : r = result'
  OBVIOUS
<1>1. CASE stage' \notin {"collapse", "logs", "done"}
  BY <1>1 DEF CollapseInv
<1>2. CASE Filter
  <2>1. stage = "events" /\ stage' = "collapse" /\ next' = 1 /\ result' = result /\ result = <<>>
    BY <1>2 DEF Filter, GoOn, Indices
  <2>2. DOMAIN result = {}
    BY <2>1
  <2>3. Collapsed(r, 1)'
    BY <1>r, <2>1, <2>2 DEF Collapsed
  <2>4. QED
    BY <1>r, <2>1, <2>3 DEF CollapseInv, Through
<1>3. CASE EventsInterrupted
  <2>1. stage' = "logs" /\ all' = <<>> /\ result' = result /\ result = <<>>
    BY <1>3 DEF EventsInterrupted, GoOn, Indices
  <2>2. DOMAIN result = {} /\ Len(all') = 0
    BY <2>1
  <2>3. Collapsed(r, 1)'
    BY <1>r, <2>1, <2>2 DEF Collapsed
  <2>4. Through' = 1
    BY <2>1, <2>2 DEF Through
  <2>5. QED
    BY <1>r, <2>3, <2>4 DEF CollapseInv
<1>4. CASE Collapse
  <2>1. stage = "collapse" /\ next <= Len(all) /\ next' = next + 1 /\ all' = all /\ stage' = stage
    BY <1>4 DEF Collapse
  <2>2. Collapsed(result', next + 1)
    BY <1>4, <2>1, CollapseStep DEF CollapseInv, Through
  <2>3. PICK n : n = next + 1
    OBVIOUS
  <2>4. Collapsed(r, n)'
    BY <1>r, <2>1, <2>2, <2>3, CollapsedKept
  <2>5. Through' = n
    BY <2>1, <2>3 DEF Through
  <2>6. QED
    BY <1>r, <2>4, <2>5 DEF CollapseInv
<1>5. CASE Sort
  <2>1. stage = "collapse" /\ next = Len(all) + 1 /\ all' = all /\ stage' = "logs"
    BY <1>0, <1>5 DEF Sort, GoOn, Indices
  <2>2. PICK f \in Bijection(DOMAIN result, DOMAIN result) : result' = [i \in DOMAIN result |-> result[f[i]]]
    BY <1>5 DEF Sort
  <2>3. Collapsed(result, Len(all) + 1)
    BY <2>1 DEF CollapseInv, Through
  <2>4. Collapsed(result', Len(all) + 1)
    BY <2>2, <2>3, SortKeepsCollapsed
  <2>5. Collapsed(r, Len(all) + 1)'
    BY <1>r, <2>1, <2>4, CollapsedKept
  <2>6. QED
    BY <1>r, <2>1, <2>5 DEF CollapseInv, Through
<1>6. CASE stage \in {"logs", "done"} /\ stage' \in {"logs", "done"} /\ UNCHANGED <<all, result>>
  <2>1. Collapsed(result, Len(all) + 1)
    BY <1>6 DEF CollapseInv, Through
  <2>2. Collapsed(result, Len(all) + 1)'
    BY <1>6, <2>1, CollapsedKept
  <2>3. QED
    BY <1>6, <2>2 DEF CollapseInv, Through
<1>7. QED
  BY <1>1, <1>2, <1>3, <1>4, <1>5, <1>6
     DEF ParseNext, Start, ReadPods, PodsEnd, ReadEvents, ReadLogs, LogsInterrupted, LogsEnd, LogsPending, GoOn

\* The invariant of Parse.
PInv == ParseTypeOK /\ Indices /\ LogsInv /\ CollapseInv

\* Nothing but Parse touches what it reads,
LEMMA ParseKept == PInv /\ UNCHANGED parseVars => PInv'
<1> SUFFICES ASSUME PInv, UNCHANGED parseVars PROVE PInv'
  OBVIOUS
<1>1. ParseTypeOK' /\ Indices' /\ LogsInv'
  <2>1. FilesBefore(next)' = FilesBefore(next)
    BY DEF parseVars, FilesBefore
  <2>2. LogsUpToLimit'
    BY DEF PInv, LogsInv, LogsUpToLimit, parseVars
  <2>3. QED
    BY <2>1, <2>2 DEF PInv, ParseTypeOK, Indices, LogsInv, parseVars
<1>2. CollapseInv'
  <2>1. \A r, n : Collapsed(r, n) => Collapsed(r, n)'
    BY CollapsedKept DEF parseVars
  <2>2. QED
    BY <2>1 DEF PInv, CollapseInv, Through, parseVars
<1>3. QED
  BY <1>1, <1>2 DEF PInv

\* and so its invariants hold of every upload.
LEMMA Parsed == Spec => []PInv
<1>1. Init => PInv
  <2> SUFFICES ASSUME Init PROVE PInv
    OBVIOUS
  <2>1. /\ stage = "start" /\ next = 1 /\ pods = <<>> /\ all = <<>> /\ result = <<>> /\ excerpts = 0
        /\ notes = {} /\ missed = FALSE
    BY DEF Init, ParseInit
  <2>2. /\ Directories \in Nat /\ MaxPods \in Nat /\ MaxFiles \in Nat /\ MaxContainers \in Nat /\ MaxEvents \in Nat
        /\ Directories * MaxPods \in Nat
    BY ParserAssumption, Products
  <2>3. /\ pods \in Seq(Pods) /\ Len(pods) = 0 /\ all \in Seq(Events) /\ Len(all) = 0 /\ result \in Seq(Stored)
    <3> DEFINE e == <<>>
    <3>1. e \in Seq(Pods) /\ e \in Seq(Events) /\ e \in Seq(Stored) /\ Len(e) = 0
      OBVIOUS
    <3> HIDE DEF e
    <3>2. pods = e /\ all = e /\ result = e
      BY <2>1 DEF e
    <3>3. QED
      BY <3>1, <3>2
  <2>4. ParseTypeOK
    <3> DEFINE most == Directories * MaxPods
    <3>1. most \in Nat
      BY <2>2
    <3> HIDE DEF most
    <3>2. 1 \in 1..(Directories + MaxEvents + most + 1) /\ 0 <= most
      BY <2>2, <3>1
    <3>3. next \in 1..(Directories + MaxEvents + most + 1) /\ Len(pods) <= most /\ Len(all) <= MaxEvents
      BY <2>1, <2>2, <2>3, <3>2
    <3>4. stage \in Stages /\ excerpts \in 0..MaxContainers
      BY <2>1, <2>2 DEF Stages
    <3>5. notes \in SUBSET {"events", "logs"} /\ missed \in BOOLEAN
      BY <2>1
    <3>6. QED
      BY <2>3, <3>3, <3>4, <3>5 DEF ParseTypeOK, Stored, most
  <2>5. QED
    BY <2>1, <2>2, <2>3, <2>4 DEF PInv, Indices, LogsInv, LogsUpToLimit, CollapseInv
<1>2. PInv /\ [Next]_vars => PInv'
  <2> SUFFICES ASSUME PInv, [Next]_vars PROVE PInv'
    OBVIOUS
  <2>1. CASE ParseNext
    BY <2>1, ParseTypes, LogsStep, CollapseInvStep DEF PInv
  <2>2. CASE UNCHANGED parseVars
    BY <2>2, ParseKept
  <2>3. QED
    BY <2>1, <2>2 DEF Next, Cancel, Extracting, Parsing, vars
<1>3. QED
  BY <1>1, <1>2, PTL DEF Spec

\* A bundle read to its end has the logs of its first unhealthy pods, up to the limit
\* and not one fewer, whichever of the nested loops of extractLogs meets the limit.
THEOREM LogsAreTakenUpToLimit == Spec => []LogsUpToLimit
<1>1. PInv => LogsUpToLimit
  BY DEF PInv, LogsInv
<1>2. QED
  BY <1>1, Parsed, PTL

\* At every turn of the loop of deduplicateEvents, and ever after, there is one event of
\* each key seen: the first of its latest ones, with the counts of all of them, for any
\* events in any order.
THEOREM EventsMatchReference == Spec => []MatchesReference
<1>1. PInv => MatchesReference
  <2> SUFFICES ASSUME PInv, stage \in {"collapse", "logs", "done"}
               PROVE  Range(result) = Reference(Through) /\ Len(result) = Cardinality(Reference(Through))
    BY DEF MatchesReference, Through
  <2>1. Through \in 1..(Len(all) + 1)
    <3>1. Len(all) \in Nat /\ next \in Nat \ {0}
      BY DEF PInv, ParseTypeOK
    <3>2. QED
      BY <3>1 DEF PInv, Indices, Through
  <2>2. Collapsed(result, Through) /\ ParseTypeOK
    BY DEF PInv, CollapseInv
  <2> HIDE DEF Through
  <2>3. QED
    BY <2>1, <2>2, CollapsedMatches
<1>2. QED
  BY <1>1, Parsed, PTL

\* Everything an upload has keeps its type, so every index a loop takes is there.
THEOREM TypesOfUpload == Spec => []TypeOK
<1>1. Init => cancelled \in BOOLEAN
  BY DEF Init
<1>2. cancelled \in BOOLEAN /\ [Next]_vars => (cancelled \in BOOLEAN)'
  BY DEF Next, Cancel, Extracting, Parsing, vars
<1>3. EInv /\ PInv /\ cancelled \in BOOLEAN => TypeOK
  BY DEF EInv, PInv, TypeOK
<1>4. QED
  BY <1>1, <1>2, <1>3, Extraction, Parsed, PTL DEF Spec

-------------------------------------------------------------------------------
(* walkForRoot. *)

\* What walkForRoot returns for a directory, if w has what it returns below it.
WalkStep(w, marked, dir) ==
    IF dir \in marked \/ Len(dir) = RootDepth THEN dir
    ELSE LET found == {n \in DirNames \ {MacOS} : w[Append(dir, n)] \in marked}
         IN  IF found = {} THEN dir ELSE w[Append(dir, Min(found))]

Walks(w, marked) == w = [dir \in Dirs |-> WalkStep(w, marked, dir)]

\* What WalkForRoot chooses.
LEMMA WalkIs == \A marked : WalkForRoot(marked) = (CHOOSE w : Walks(w, marked))[<<>>]
BY DEF WalkForRoot, Walks, WalkStep

\* Directories are the sequences of names up to the depth.
LEMMA DirFacts ==
    \A d : d \in Dirs <=> d \in Seq(DirNames) /\ Len(d) <= RootDepth
<1>0. RootDepth \in Nat
  BY RootAssumption
<1>1. ASSUME NEW d \in Dirs
      PROVE  d \in Seq(DirNames) /\ Len(d) <= RootDepth
  <2>1. PICK n \in 0..RootDepth : d \in [1..n -> DirNames]
    BY DEF Dirs
  <2>2. PICK m \in Nat : m = n /\ m <= RootDepth
    BY <1>0
  <2>3. d \in [1..m -> DirNames]
    BY <2>1, <2>2
  <2>4. d \in Seq(DirNames) /\ Len(d) = m
    BY <2>3
  <2>5. QED
    BY <2>2, <2>4
<1>2. ASSUME NEW d \in Seq(DirNames), Len(d) <= RootDepth
      PROVE  d \in Dirs
  <2>1. Len(d) \in Nat /\ d \in [1..Len(d) -> DirNames]
    BY LenProperties
  <2>2. Len(d) \in 0..RootDepth
    BY <1>0, <1>2, <2>1
  <2>3. QED
    BY <2>1, <2>2 DEF Dirs
<1>3. QED
  BY <1>1, <1>2

\* A directory in a directory.
LEMMA ChildFacts ==
    ASSUME NEW d \in Dirs, Len(d) # RootDepth, NEW n \in DirNames
    PROVE  /\ Append(d, n) \in Dirs /\ Len(d) \in Nat /\ Len(Append(d, n)) = Len(d) + 1
           /\ Append(d, n)[Len(d) + 1] = n
           /\ \A i \in 1..Len(d) : Append(d, n)[i] = d[i]
<1>0. RootDepth \in Nat
  BY RootAssumption
<1>1. d \in Seq(DirNames) /\ Len(d) <= RootDepth
  BY DirFacts
<1> DEFINE c == Append(d, n)
<1>2. /\ c \in Seq(DirNames) /\ Len(d) \in Nat /\ Len(c) = Len(d) + 1 /\ c[Len(d) + 1] = n
      /\ \A i \in 1..Len(d) : c[i] = d[i]
  BY <1>1
<1> HIDE DEF c
<1>3. Len(c) <= RootDepth
  BY <1>0, <1>1, <1>2
<1>4. c \in Dirs
  BY <1>2, <1>3, DirFacts
<1>5. QED
  BY <1>2, <1>4 DEF c

\* The directories of depth RootDepth - k and below.
Lowest(k) == {d \in Dirs : Len(d) >= RootDepth - k}

\* The function WalkForRoot chooses exists: it is made from the lowest level upwards.
LEMMA WalkExists == \A marked : \E w : Walks(w, marked)
<1> SUFFICES ASSUME NEW marked PROVE \E w : Walks(w, marked)
  OBVIOUS
<1> DEFINE Part(w, k) == w = [d \in Lowest(k) |-> WalkStep(w, marked, d)]
           P == {k \in Nat : \E w : Part(w, k)}
<1>0. RootDepth \in Nat /\ \A d \in Dirs : Len(d) \in Nat /\ Len(d) <= RootDepth
  <2>1. \A d \in Dirs : d \in Seq(DirNames) /\ Len(d) <= RootDepth
    BY DirFacts
  <2>2. QED
    BY <2>1, RootAssumption
<1>1. 0 \in P
  <2> DEFINE w == [d \in Lowest(0) |-> d]
  <2>1. \A d \in Lowest(0) : Len(d) = RootDepth
    BY <1>0 DEF Lowest
  <2>2. \A d \in Lowest(0) : WalkStep(w, marked, d) = d
    BY <2>1 DEF WalkStep
  <2>3. Part(w, 0)
    BY <2>2
  <2>4. QED
    BY <2>3
<1>2. ASSUME NEW k \in Nat, k \in P
      PROVE  k + 1 \in P
  <2>1. PICK v : Part(v, k)
    BY <1>2
  <2> DEFINE w == [d \in Lowest(k + 1) |-> IF d \in Lowest(k) THEN v[d] ELSE WalkStep(v, marked, d)]
  <2>2. Lowest(k) \subseteq Lowest(k + 1)
    BY <1>0 DEF Lowest
  <2>3. \A d \in Lowest(k) : w[d] = v[d]
    BY <2>2
  <2> HIDE DEF w
  <2>4. \A d \in Lowest(k + 1) : Len(d) # RootDepth => \A n \in DirNames : Append(d, n) \in Lowest(k)
    <3> SUFFICES ASSUME NEW d \in Lowest(k + 1), Len(d) # RootDepth, NEW n \in DirNames
                 PROVE  Append(d, n) \in Lowest(k)
      OBVIOUS
    <3>1. d \in Dirs /\ Len(d) >= RootDepth - (k + 1)
      BY DEF Lowest
    <3>2. Append(d, n) \in Dirs /\ Len(Append(d, n)) = Len(d) + 1 /\ Len(d) \in Nat
      BY <3>1, ChildFacts
    <3>3. Len(Append(d, n)) >= RootDepth - k
      BY <1>0, <3>1, <3>2
    <3>4. QED
      BY <3>2, <3>3 DEF Lowest
  <2>5. \A d \in Lowest(k + 1) : WalkStep(w, marked, d) = WalkStep(v, marked, d)
    <3> SUFFICES ASSUME NEW d \in Lowest(k + 1) PROVE WalkStep(w, marked, d) = WalkStep(v, marked, d)
      OBVIOUS
    <3>1. CASE d \in marked \/ Len(d) = RootDepth
      BY <3>1 DEF WalkStep
    <3>2. CASE ~ (d \in marked \/ Len(d) = RootDepth)
      <4>1. \A n \in DirNames : w[Append(d, n)] = v[Append(d, n)]
        BY <2>3, <2>4, <3>2
      <4> DEFINE found == {n \in DirNames \ {MacOS} : v[Append(d, n)] \in marked}
      <4>2. found = {n \in DirNames \ {MacOS} : w[Append(d, n)] \in marked}
        BY <4>1
      <4>3. found # {} => w[Append(d, Min(found))] = v[Append(d, Min(found))]
        <5> SUFFICES ASSUME found # {} PROVE w[Append(d, Min(found))] = v[Append(d, Min(found))]
          OBVIOUS
        <5>1. found \subseteq Nat /\ found \subseteq DirNames
          BY RootAssumption
        <5> HIDE DEF found
        <5>2. PICK n \in found : \A m \in found : n <= m
          BY <5>1, LeastNumber
        <5>3. Min(found) \in found
          BY <5>2 DEF Min
        <5>4. QED
          BY <4>1, <5>1, <5>3
      <4> HIDE DEF found
      <4>4. WalkStep(v, marked, d) = IF found = {} THEN d ELSE v[Append(d, Min(found))]
        BY <3>2 DEF WalkStep, found
      <4>5. WalkStep(w, marked, d) = IF found = {} THEN d ELSE w[Append(d, Min(found))]
        BY <3>2, <4>2 DEF WalkStep
      <4>6. QED
        BY <4>3, <4>4, <4>5
    <3>3. QED
      BY <3>1, <3>2
  <2>6. \A d \in Lowest(k) : v[d] = WalkStep(v, marked, d)
    BY <2>1
  <2>7. Part(w, k + 1)
    BY <2>5, <2>6 DEF w
  <2>8. QED
    BY <2>7
<1>3. Nat \subseteq P
  <2> HIDE DEF P
  <2> QED
    BY <1>1, <1>2, NaturalInduction
<1>4. Lowest(RootDepth) = Dirs
  BY <1>0 DEF Lowest
<1>5. PICK w : Part(w, RootDepth)
  BY <1>0, <1>3
<1>6. QED
  BY <1>4, <1>5 DEF Walks

\* d is dir or below it.
Under(dir, d) == Len(dir) <= Len(d) /\ \A i \in 1..Len(dir) : d[i] = dir[i]

\* A directory is above those that begin with it.
LEMMA AboveIs ==
    ASSUME NEW c \in Dirs, NEW d \in Dirs
    PROVE  Above(c, d) <=> Len(c) < Len(d) /\ \A i \in 1..Len(c) : d[i] = c[i]
<1>1. c \in Seq(DirNames) /\ d \in Seq(DirNames) /\ Len(c) \in Nat /\ Len(d) \in Nat
  BY DirFacts, LenProperties
<1>2. ASSUME Len(c) < Len(d)
      PROVE  c = SubSeq(d, 1, Len(c)) <=> \A i \in 1..Len(c) : d[i] = c[i]
  <2> DEFINE s == SubSeq(d, 1, Len(c))
  <2>1. s \in Seq(DirNames) /\ Len(s) = Len(c) /\ \A i \in 1..Len(c) : s[i] = d[i]
    BY <1>1, <1>2
  <2> HIDE DEF s
  <2>2. (\A i \in 1..Len(c) : d[i] = c[i]) => c = s
    BY <1>1, <2>1, SeqEqual
  <2>3. c = s => \A i \in 1..Len(c) : d[i] = c[i]
    BY <2>1
  <2>4. QED
    BY <2>2, <2>3 DEF s
<1>3. QED
  BY <1>1, <1>2 DEF Above

\* The roots at or below dir, seen from there.
Rooted(marked, dir) ==
    {d \in marked : /\ Under(dir, d) /\ \A i \in (Len(dir) + 1)..Len(d) : d[i] # MacOS
                    /\ \A c \in marked : ~ (Under(dir, c) /\ Above(c, d))}

\* The first of the roots at or below dir, or none.
Finds(marked, dir, root) ==
    /\ root \in marked <=> Rooted(marked, dir) # {}
    /\ root \in marked => /\ root \in Rooted(marked, dir)
                          /\ \A d \in Rooted(marked, dir) : ~ ComesBefore(d, root)
    /\ root \notin marked => root = dir

\* The levels of directories.
LEMMA LengthsOfDirs == RootDepth \in Nat /\ \A d \in Dirs : Len(d) \in Nat /\ Len(d) <= RootDepth
  BY DirFacts, LenProperties, RootAssumption

\* Where two directories differ that are in order.
LEMMA BeforeAt ==
    ASSUME NEW c \in Dirs, NEW d \in Dirs, ComesBefore(c, d)
    PROVE  \E n \in Nat \ {0} : n <= Len(c) /\ n <= Len(d) /\ c[n] < d[n] /\ \A i \in 1..(n - 1) : c[i] = d[i]
<1>1. Len(c) \in Nat /\ Len(d) \in Nat
  BY LengthsOfDirs
<1>2. Min({Len(c), Len(d)}) \in {Len(c), Len(d)} /\ Min({Len(c), Len(d)}) <= Len(c) /\ Min({Len(c), Len(d)}) <= Len(d)
  <2>1. PICK m \in {Len(c), Len(d)} : \A x \in {Len(c), Len(d)} : m <= x
    BY <1>1
  <2>2. QED
    BY <2>1 DEF Min
<1>3. PICK n \in 1..Min({Len(c), Len(d)}) : c[n] < d[n] /\ \A i \in 1..(n - 1) : c[i] = d[i]
  BY DEF ComesBefore
<1>4. n \in Nat \ {0} /\ n <= Len(c) /\ n <= Len(d)
  BY <1>1, <1>2
<1>5. QED
  BY <1>3, <1>4

\* The names that lead to a directory.
LEMMA NamesOfDirs == \A d \in Dirs : \A i \in 1..Len(d) : d[i] \in DirNames /\ d[i] \in Nat
<1> SUFFICES ASSUME NEW d \in Dirs, NEW i \in 1..Len(d) PROVE d[i] \in DirNames /\ d[i] \in Nat
  OBVIOUS
<1>1. d \in Seq(DirNames)
  BY DirFacts
<1>2. d[i] \in DirNames
  BY <1>1, ElementOfSeq
<1>3. QED
  BY <1>2, RootAssumption

\* A directory that looks like a root is the only one at or below it.
LEMMA FindsMarked ==
    ASSUME NEW marked \in SUBSET Dirs, NEW dir \in marked
    PROVE  Finds(marked, dir, dir)
<1>1. dir \in Dirs /\ Len(dir) \in Nat /\ Under(dir, dir)
  BY LengthsOfDirs DEF Under
<1>2. \A c \in marked : ~ (Under(dir, c) /\ Above(c, dir))
  <2> SUFFICES ASSUME NEW c \in marked, Under(dir, c), Above(c, dir) PROVE FALSE
    OBVIOUS
  <2>1. c \in Dirs /\ Len(c) \in Nat
    BY LengthsOfDirs
  <2>2. Len(c) < Len(dir) /\ Len(dir) <= Len(c)
    BY DEF Above, Under
  <2>3. QED
    BY <1>1, <2>1, <2>2
<1>3. dir \in Rooted(marked, dir)
  BY <1>1, <1>2 DEF Rooted
<1>4. \A d \in Rooted(marked, dir) : ~ ComesBefore(d, dir)
  <2> SUFFICES ASSUME NEW d \in Rooted(marked, dir), ComesBefore(d, dir) PROVE FALSE
    OBVIOUS
  <2>1. d \in Dirs /\ Under(dir, d)
    BY DEF Rooted
  <2>2. PICK n \in Nat \ {0} : n <= Len(dir) /\ d[n] < dir[n]
    BY <1>1, <2>1, BeforeAt
  <2>3. d[n] = dir[n] /\ dir[n] \in Nat
    BY <1>1, <2>1, <2>2, NamesOfDirs DEF Under
  <2>4. QED
    BY <2>2, <2>3
<1>5. QED
  BY <1>3, <1>4 DEF Finds

\* At the lowest level there is nothing below.
LEMMA FindsLowest ==
    ASSUME NEW marked \in SUBSET Dirs, NEW dir \in Dirs, Len(dir) = RootDepth, dir \notin marked
    PROVE  Finds(marked, dir, dir)
<1>1. Rooted(marked, dir) = {}
  <2> SUFFICES ASSUME NEW d \in marked, Under(dir, d) PROVE FALSE
    BY DEF Rooted
  <2>1. d \in Dirs /\ Len(d) = Len(dir) /\ \A i \in 1..Len(dir) : d[i] = dir[i]
    BY LengthsOfDirs DEF Under
  <2>2. d = dir
    BY <2>1, DirFacts, SeqEqual
  <2>3. QED
    BY <2>2
<1>2. QED
  BY <1>1 DEF Finds

\* What is below a directory that is no root itself is below its children.
LEMMA RootedBelow ==
    ASSUME NEW marked \in SUBSET Dirs, NEW dir \in Dirs, Len(dir) # RootDepth, dir \notin marked
    PROVE  /\ \A n \in DirNames \ {MacOS} : Rooted(marked, Append(dir, n)) \subseteq Rooted(marked, dir)
           /\ \A d \in Rooted(marked, dir) : \E n \in DirNames \ {MacOS} :
                 d \in Rooted(marked, Append(dir, n)) /\ Len(dir) + 1 <= Len(d) /\ d[Len(dir) + 1] = n
<1> DEFINE l == Len(dir)
<1>0. l \in Nat
  BY LengthsOfDirs
<1>1. ASSUME NEW n \in DirNames, NEW d \in Dirs
      PROVE  /\ Append(dir, n) \in Dirs /\ Len(Append(dir, n)) = l + 1
             /\ Under(Append(dir, n), d) <=> Under(dir, d) /\ l + 1 <= Len(d) /\ d[l + 1] = n
  <2>1. /\ Append(dir, n) \in Dirs /\ Len(Append(dir, n)) = l + 1 /\ Append(dir, n)[l + 1] = n
        /\ \A i \in 1..l : Append(dir, n)[i] = dir[i]
    BY ChildFacts
  <2>2. Len(d) \in Nat
    BY LengthsOfDirs
  <2> DEFINE c == Append(dir, n)
  <2> HIDE DEF c, l
  <2>3. c \in Dirs /\ Len(c) = l + 1 /\ c[l + 1] = n /\ \A i \in 1..l : c[i] = dir[i]
    BY <2>1 DEF c
  <2>4. Under(c, d) => Under(dir, d) /\ l + 1 <= Len(d) /\ d[l + 1] = n
    <3> SUFFICES ASSUME Under(c, d) PROVE Under(dir, d) /\ l + 1 <= Len(d) /\ d[l + 1] = n
      OBVIOUS
    <3>1. l + 1 <= Len(d) /\ \A i \in 1..(l + 1) : d[i] = c[i]
      BY <2>3 DEF Under
    <3>2. d[l + 1] = n
      BY <1>0, <2>3, <3>1
    <3>3. \A i \in 1..l : d[i] = dir[i]
      BY <1>0, <2>3, <3>1
    <3>4. QED
      BY <1>0, <2>2, <3>1, <3>2, <3>3 DEF Under, l
  <2>5. Under(dir, d) /\ l + 1 <= Len(d) /\ d[l + 1] = n => Under(c, d)
    <3> SUFFICES ASSUME Under(dir, d), l + 1 <= Len(d), d[l + 1] = n PROVE Under(c, d)
      OBVIOUS
    <3>1. \A i \in 1..l : d[i] = dir[i]
      BY DEF Under, l
    <3>2. \A i \in 1..(l + 1) : d[i] = c[i]
      <4> SUFFICES ASSUME NEW i \in 1..(l + 1) PROVE d[i] = c[i]
        OBVIOUS
      <4>1. CASE i = l + 1
        BY <2>3, <4>1
      <4>2. CASE i # l + 1
        <5>1. i \in 1..l
          BY <1>0, <4>2
        <5>2. QED
          BY <2>3, <3>1, <5>1
      <4>3. QED
        BY <4>1, <4>2
    <3>3. QED
      BY <2>3, <3>2 DEF Under
  <2>6. QED
    BY <2>3, <2>4, <2>5 DEF c
<1>2. ASSUME NEW n \in DirNames \ {MacOS}, NEW d \in Rooted(marked, Append(dir, n))
      PROVE  d \in Rooted(marked, dir)
  <2> DEFINE c == Append(dir, n)
  <2>1. d \in marked /\ d \in Dirs /\ Under(c, d) /\ (\A i \in (Len(c) + 1)..Len(d) : d[i] # MacOS)
        /\ \A e \in marked : ~ (Under(c, e) /\ Above(e, d))
    BY <1>2 DEF Rooted
  <2>2. Len(c) = l + 1 /\ Under(dir, d) /\ l + 1 <= Len(d) /\ d[l + 1] = n /\ Len(d) \in Nat
    BY <1>1, <2>1, LengthsOfDirs
  <2>3. \A i \in (l + 1)..Len(d) : d[i] # MacOS
    <3> SUFFICES ASSUME NEW i \in (l + 1)..Len(d) PROVE d[i] # MacOS
      OBVIOUS
    <3> HIDE DEF c, l
    <3>1. i = l + 1 \/ i \in (Len(c) + 1)..Len(d)
      BY <1>0, <2>2
    <3>2. QED
      BY <2>1, <2>2, <3>1
  <2>4. \A e \in marked : ~ (Under(dir, e) /\ Above(e, d))
    <3> SUFFICES ASSUME NEW e \in marked, Under(dir, e), Above(e, d) PROVE FALSE
      OBVIOUS
    <3>1. e \in Dirs /\ Len(e) \in Nat /\ Len(e) < Len(d) /\ \A i \in 1..Len(e) : d[i] = e[i]
      BY <2>1, AboveIs, LengthsOfDirs
    <3>2. Len(e) # l
      <4> SUFFICES ASSUME Len(e) = l PROVE FALSE
        OBVIOUS
      <4>1. e \in Seq(DirNames) /\ dir \in Seq(DirNames) /\ \A i \in 1..Len(e) : e[i] = dir[i]
        BY <3>1, DirFacts DEF Under
      <4>2. e = dir
        BY <4>1, SeqEqual
      <4>3. QED
        BY <4>2
    <3>3. l + 1 <= Len(e)
      BY <1>0, <3>1, <3>2 DEF Under
    <3>4. e[l + 1] = n
      BY <1>0, <2>2, <3>1, <3>3
    <3>5. Under(c, e)
      BY <1>1, <3>1, <3>3, <3>4
    <3>6. QED
      BY <2>1, <3>5
  <2>5. QED
    BY <2>1, <2>2, <2>3, <2>4 DEF Rooted
<1>3. ASSUME NEW d \in Rooted(marked, dir)
      PROVE  \E n \in DirNames \ {MacOS} :
                d \in Rooted(marked, Append(dir, n)) /\ l + 1 <= Len(d) /\ d[l + 1] = n
  <2>1. d \in marked /\ d \in Dirs /\ Under(dir, d) /\ (\A i \in (l + 1)..Len(d) : d[i] # MacOS)
        /\ (\A e \in marked : ~ (Under(dir, e) /\ Above(e, d))) /\ Len(d) \in Nat
    BY <1>3, LengthsOfDirs DEF Rooted
  <2>2. Len(d) # l
    <3> SUFFICES ASSUME Len(d) = l PROVE FALSE
      OBVIOUS
    <3>1. d \in Seq(DirNames) /\ dir \in Seq(DirNames) /\ \A i \in 1..Len(d) : d[i] = dir[i]
      BY <2>1, DirFacts DEF Under
    <3>2. d = dir
      BY <3>1, SeqEqual
    <3>3. QED
      BY <2>1, <3>2
  <2>3. l + 1 <= Len(d) /\ l + 1 \in 1..Len(d) /\ l + 1 \in (l + 1)..Len(d)
    BY <1>0, <2>1, <2>2 DEF Under
  <2>4. PICK n \in DirNames \ {MacOS} : n = d[l + 1]
    <3>1. d[l + 1] \in DirNames
      BY <2>1, <2>3, NamesOfDirs
    <3>2. d[l + 1] # MacOS
      BY <2>1, <2>3
    <3>3. QED
      BY <3>1, <3>2
  <2> DEFINE c == Append(dir, n)
  <2>5. c \in Dirs /\ Len(c) = l + 1 /\ Under(c, d)
    BY <1>1, <2>1, <2>3, <2>4
  <2>6. \A i \in (Len(c) + 1)..Len(d) : d[i] # MacOS
    <3> HIDE DEF c, l
    <3> QED
      BY <1>0, <2>1, <2>5
  <2>7. \A e \in marked : ~ (Under(c, e) /\ Above(e, d))
    <3> SUFFICES ASSUME NEW e \in marked, Under(c, e), Above(e, d) PROVE FALSE
      OBVIOUS
    <3>1. Under(dir, e)
      BY <1>1
    <3>2. QED
      BY <2>1, <3>1
  <2>8. d \in Rooted(marked, c)
    BY <2>1, <2>5, <2>6, <2>7 DEF Rooted
  <2>9. QED
    BY <2>3, <2>4, <2>8
<1>4. QED
  BY <1>2, <1>3

\* A directory finds the first root that its children find.
LEMMA FindsStep ==
    ASSUME NEW marked \in SUBSET Dirs, NEW dir \in Dirs, Len(dir) # RootDepth, dir \notin marked,
           NEW w, \A n \in DirNames : Finds(marked, Append(dir, n), w[Append(dir, n)])
    PROVE  Finds(marked, dir, WalkStep(w, marked, dir))
<1> DEFINE found == {n \in DirNames \ {MacOS} : w[Append(dir, n)] \in marked}
           root == WalkStep(w, marked, dir)
           l == Len(dir)
<1>1. root = IF found = {} THEN dir ELSE w[Append(dir, Min(found))]
  BY DEF WalkStep
<1>2. \A n \in DirNames \ {MacOS} : n \in found <=> Rooted(marked, Append(dir, n)) # {}
  BY DEF Finds
<1>3. /\ \A n \in DirNames \ {MacOS} : Rooted(marked, Append(dir, n)) \subseteq Rooted(marked, dir)
      /\ \A d \in Rooted(marked, dir) : \E n \in DirNames \ {MacOS} :
            d \in Rooted(marked, Append(dir, n)) /\ l + 1 <= Len(d) /\ d[l + 1] = n
  BY RootedBelow
<1>4. found \subseteq DirNames \ {MacOS} /\ found \subseteq Nat
  BY RootAssumption
<1> HIDE DEF found, root
<1>5. CASE found = {}
  <2>1. Rooted(marked, dir) = {} /\ root = dir
    BY <1>1, <1>2, <1>3, <1>5
  <2>2. QED
    BY <2>1 DEF Finds, root
<1>6. CASE found # {}
  <2>1. PICK m \in found : (\A n \in found : m <= n) /\ Min(found) = m
    <3>1. PICK m \in found : \A n \in found : m <= n
      BY <1>4, <1>6, LeastNumber
    <3>2. Min(found) \in found /\ \A n \in found : Min(found) <= n
      BY <3>1 DEF Min
    <3>3. QED
      BY <3>2
  <2>2. root = w[Append(dir, m)] /\ root \in marked
    BY <1>1, <1>6, <2>1 DEF found
  <2>3. /\ root \in Rooted(marked, Append(dir, m))
        /\ \A d \in Rooted(marked, Append(dir, m)) : ~ ComesBefore(d, root)
    BY <1>4, <2>1, <2>2 DEF Finds
  <2>4. root \in Rooted(marked, dir)
    BY <1>3, <1>4, <2>1, <2>3
  <2>5. ASSUME NEW d \in Rooted(marked, dir), ComesBefore(d, root)
        PROVE  FALSE
    <3>1. PICK n \in DirNames \ {MacOS} : d \in Rooted(marked, Append(dir, n)) /\ l + 1 <= Len(d) /\ d[l + 1] = n
      BY <1>3
    <3>2. n \in found
      BY <1>2, <3>1
    <3>3. n # m
      BY <2>3, <2>5, <3>1
    <3>4. m < n /\ m \in Nat /\ n \in Nat
      BY <1>4, <2>1, <3>2, <3>3
    <3>5. /\ d \in Dirs /\ root \in Dirs /\ Under(dir, d) /\ Under(dir, root)
          /\ l \in Nat /\ Len(d) \in Nat /\ Len(root) \in Nat
      BY <2>4, LengthsOfDirs DEF Rooted
    <3>6. root[l + 1] = m
      <4>1. m \in DirNames /\ Under(Append(dir, m), root)
        BY <1>4, <2>3 DEF Rooted
      <4>2. Len(Append(dir, m)) = l + 1 /\ Append(dir, m)[l + 1] = m
        BY <4>1, ChildFacts
      <4>3. l + 1 \in 1..Len(Append(dir, m))
        BY <3>5, <4>2
      <4>4. QED
        BY <4>1, <4>2, <4>3 DEF Under
    <3>7. PICK k \in Nat \ {0} : k <= Len(d) /\ k <= Len(root) /\ d[k] < root[k] /\ \A i \in 1..(k - 1) : d[i] = root[i]
      BY <2>5, <3>5, BeforeAt
    <3>8. CASE k <= l
      <4>1. k \in 1..l /\ k \in 1..Len(dir)
        BY <3>5, <3>8
      <4>2. d[k] = dir[k] /\ root[k] = dir[k] /\ dir[k] \in Nat
        BY <3>5, <4>1, NamesOfDirs DEF Under
      <4>3. QED
        BY <3>7, <4>2
    <3>9. CASE k = l + 1
      BY <3>1, <3>4, <3>6, <3>7, <3>9
    <3>10. CASE l + 1 < k
      <4>1. l + 1 \in 1..(k - 1)
        BY <3>5, <3>10
      <4>2. QED
        BY <3>1, <3>4, <3>6, <3>7, <4>1
    <3>11. QED
      BY <3>5, <3>8, <3>9, <3>10
  <2>6. QED
    BY <2>2, <2>4, <2>5 DEF Finds, root
<1>7. QED
  BY <1>5, <1>6

\* Every directory finds what it should.
LEMMA WalkFinds ==
    ASSUME NEW marked \in SUBSET Dirs, NEW w, Walks(w, marked)
    PROVE  \A d \in Dirs : Finds(marked, d, w[d])
<1> DEFINE P == {k \in Nat : \A d \in Lowest(k) : Finds(marked, d, w[d])}
<1>0. /\ RootDepth \in Nat /\ \A d \in Dirs : Len(d) \in Nat /\ Len(d) <= RootDepth
      /\ \A d \in Dirs : w[d] = WalkStep(w, marked, d)
  BY LengthsOfDirs DEF Walks
<1>1. ASSUME NEW d \in Dirs, d \in marked \/ Len(d) = RootDepth
      PROVE  Finds(marked, d, w[d])
  <2>1. w[d] = d
    BY <1>0, <1>1 DEF WalkStep
  <2>2. QED
    BY <1>1, <2>1, FindsMarked, FindsLowest
<1>2. 0 \in P
  <2>1. \A d \in Lowest(0) : d \in Dirs /\ Len(d) = RootDepth
    BY <1>0 DEF Lowest
  <2>2. QED
    BY <1>1, <2>1
<1>3. ASSUME NEW k \in Nat, k \in P
      PROVE  k + 1 \in P
  <2> SUFFICES ASSUME NEW d \in Lowest(k + 1) PROVE Finds(marked, d, w[d])
    OBVIOUS
  <2>1. d \in Dirs /\ Len(d) >= RootDepth - (k + 1)
    BY DEF Lowest
  <2>2. CASE d \in marked \/ Len(d) = RootDepth
    BY <1>1, <2>1, <2>2
  <2>3. CASE ~ (d \in marked \/ Len(d) = RootDepth)
    <3>1. \A n \in DirNames : Append(d, n) \in Lowest(k)
      <4> SUFFICES ASSUME NEW n \in DirNames PROVE Append(d, n) \in Lowest(k)
        OBVIOUS
      <4>1. Append(d, n) \in Dirs /\ Len(Append(d, n)) = Len(d) + 1 /\ Len(d) \in Nat
        BY <2>1, <2>3, ChildFacts
      <4>2. Len(Append(d, n)) >= RootDepth - k
        BY <1>0, <2>1, <4>1
      <4>3. QED
        BY <4>1, <4>2 DEF Lowest
    <3>2. \A n \in DirNames : Finds(marked, Append(d, n), w[Append(d, n)])
      BY <1>3, <3>1
    <3>3. Finds(marked, d, WalkStep(w, marked, d))
      BY <2>1, <2>3, <3>2, FindsStep
    <3>4. QED
      BY <1>0, <2>1, <3>3
  <2>4. QED
    BY <2>2, <2>3
<1>4. Nat \subseteq P
  <2> HIDE DEF P
  <2> QED
    BY <1>2, <1>3, NaturalInduction
<1>5. Lowest(RootDepth) = Dirs
  BY <1>0 DEF Lowest
<1>6. QED
  BY <1>0, <1>4, <1>5

\* The root of any archive is found.
LEMMA FoundAnywhere ==
    ASSUME NEW marked \in SUBSET Dirs
    PROVE  RootIsFound(marked)
<1> DEFINE e == <<>>
           roots == {d \in marked : /\ \A i \in DOMAIN d : d[i] # MacOS
                                    /\ \A c \in marked : ~Above(c, d)}
<1>1. e \in Dirs /\ Len(e) = 0
  <2>1. e \in Seq(DirNames) /\ Len(e) = 0
    OBVIOUS
  <2> HIDE DEF e
  <2>2. RootDepth \in Nat
    BY RootAssumption
  <2>3. Len(e) <= RootDepth
    BY <2>1, <2>2
  <2>4. e \in Dirs
    BY <2>1, <2>3, DirFacts
  <2>5. QED
    BY <2>1, <2>4
<1>2. PICK w : Walks(w, marked) /\ WalkForRoot(marked) = w[e]
  <2>1. \E w : Walks(w, marked)
    BY WalkExists
  <2>2. Walks(CHOOSE w : Walks(w, marked), marked)
    BY <2>1
  <2>3. QED
    BY <2>2, WalkIs
<1> HIDE DEF e
<1>3. Finds(marked, e, w[e])
  BY <1>1, <1>2, WalkFinds
<1>4. \A d \in Dirs : Under(e, d) /\ DOMAIN d = (Len(e) + 1)..Len(d)
  <2> SUFFICES ASSUME NEW d \in Dirs PROVE Under(e, d) /\ DOMAIN d = (Len(e) + 1)..Len(d)
    OBVIOUS
  <2>1. d \in Seq(DirNames) /\ Len(d) \in Nat /\ DOMAIN d = 1..Len(d)
    BY DirFacts, LenProperties
  <2>2. Len(e) + 1 = 1 /\ Len(e) <= Len(d) /\ \A i \in 1..Len(e) : FALSE
    BY <1>1, <2>1
  <2>3. QED
    BY <2>1, <2>2 DEF Under
<1>5. Rooted(marked, e) = roots
  BY <1>4 DEF Rooted
<1> HIDE DEF roots
<1>6. IF roots = {} THEN w[e] = e ELSE w[e] \in roots /\ \A d \in roots : ~ComesBefore(d, w[e])
  BY <1>3, <1>5 DEF Finds
<1>7. QED
  BY <1>2, <1>6 DEF RootIsFound, roots, e

\* The archives of an instance are such archives.
LEMMA ArchivesOfDirs == Archives \subseteq SUBSET Dirs
<1> SUFFICES ASSUME NEW m \in [1..MaxMarked -> Dirs]
             PROVE  {m[i] : i \in 1..MaxMarked} \subseteq Dirs
  BY DEF Archives
<1>1. QED
  OBVIOUS

\* In every state walkForRoot finds the root of any archive, at any depth and under any
\* directories that lead nowhere.
THEOREM EveryRootIsFound == Spec => []RootsAreFound
<1>1. RootsAreFound
  BY ArchivesOfDirs, FoundAnywhere DEF RootsAreFound
<1>2. QED
  BY <1>1, PTL

-------------------------------------------------------------------------------
(* The pure functions, for data of any size. *)

\* The data that EnforceBudget takes.
BudgetDatas == [logs : Seq(Nat), healthy : Nat, failing : Nat, warnings : Seq(Nat), normal : Seq(Nat)]

\* The lesser of two numbers.
LEMMA MinOfTwo ==
    ASSUME NEW a \in Int, NEW b \in Int
    PROVE  Min({a, b}) \in {a, b} /\ Min({a, b}) <= b
<1>1. \E m \in {a, b} : \A x \in {a, b} : m <= x
  <2>1. CASE a <= b
    BY <2>1
  <2>2. CASE ~(a <= b)
    BY <2>2
  <2>3. QED
    BY <2>1, <2>2
<1>2. Min({a, b}) \in {a, b} /\ \A x \in {a, b} : Min({a, b}) <= x
  BY <1>1 DEF Min
<1>3. QED
  BY <1>2

\* Capping shortens no list and leaves nothing longer than the cap.
LEMMA CappedLengths ==
    ASSUME NEW s \in Seq(Nat), NEW cap \in Nat
    PROVE  /\ Capped(s, cap) \in Seq(Nat) /\ Len(Capped(s, cap)) = Len(s)
           /\ \A i \in DOMAIN Capped(s, cap) : Capped(s, cap)[i] <= cap
<1> DEFINE c == Capped(s, cap)
<1>1. c = [i \in 1..Len(s) |-> Min({s[i], cap})] /\ Len(s) \in Nat /\ \A i \in 1..Len(s) : s[i] \in Nat
  <2>1. DOMAIN s = 1..Len(s)
    OBVIOUS
  <2>2. c = [i \in 1..Len(s) |-> Min({s[i], cap})]
    BY <2>1 DEF Capped
  <2>3. Len(s) \in Nat /\ \A i \in 1..Len(s) : s[i] \in Nat
    OBVIOUS
  <2>4. QED
    BY <2>2, <2>3
<1> HIDE DEF c
<1>2. \A i \in 1..Len(s) : Min({s[i], cap}) \in Nat /\ Min({s[i], cap}) <= cap
  <2> SUFFICES ASSUME NEW i \in 1..Len(s) PROVE Min({s[i], cap}) \in Nat /\ Min({s[i], cap}) <= cap
    OBVIOUS
  <2>1. PICK n \in Nat : n = s[i]
    BY <1>1
  <2>2. Min({n, cap}) \in {n, cap} /\ Min({n, cap}) <= cap
    BY <2>1, MinOfTwo
  <2>3. QED
    BY <2>1, <2>2
<1>3. c \in [1..Len(s) -> Nat]
  BY <1>1, <1>2
<1>4. c \in Seq(Nat) /\ Len(c) = Len(s)
  <2>1. PICK n \in Nat : n = Len(s)
    BY <1>1
  <2>2. c \in [1..n -> Nat]
    BY <1>3, <2>1
  <2>3. c \in Seq(Nat) /\ Len(c) = n
    BY <2>2
  <2>4. QED
    BY <2>1, <2>3
<1>5. \A i \in DOMAIN c : c[i] <= cap
  BY <1>1, <1>2
<1>6. QED
  BY <1>4, <1>5 DEF c

\* A total is a number.
LEMMA TotalIsNat == \A s \in Seq(Nat) : TotalOf(s) \in Nat
<1> SUFFICES ASSUME NEW s \in Seq(Nat) PROVE TotalOf(s) \in Nat
  OBVIOUS
<1>1. TotalOf(s) = (CHOOSE it : Summing(it, s, DOMAIN s))[DOMAIN s]
  BY DEF TotalOf, MapThenSumSet, MapThenFoldSet, Summing
<1>2. SumOf(s, DOMAIN s) = (CHOOSE it : Summing(it, s, DOMAIN s))[DOMAIN s]
  BY DEF SumOf, MapThenSumSet, MapThenFoldSet, Summing
<1>3. DOMAIN s = 1..Len(s) /\ Len(s) \in Nat
  OBVIOUS
<1>4. IsFiniteSet(DOMAIN s)
  BY <1>3, FS_Interval
<1>5. \A x \in DOMAIN s : s[x] \in Nat
  BY <1>3
<1>6. QED
  BY <1>1, <1>2, <1>4, <1>5, SumType

\* So is an estimate.
LEMMA EstimateIsNat == \A d \in BudgetDatas : EstimateTokens(d) \in Nat
<1> SUFFICES ASSUME NEW d \in BudgetDatas PROVE EstimateTokens(d) \in Nat
  OBVIOUS
<1>1. /\ d.logs \in Seq(Nat) /\ d.warnings \in Seq(Nat) /\ d.normal \in Seq(Nat)
      /\ d.healthy \in Nat /\ d.failing \in Nat
  BY DEF BudgetDatas
<1>2. /\ TotalOf(d.logs) \in Nat /\ TotalOf(d.warnings) \in Nat /\ TotalOf(d.normal) \in Nat
      /\ Len(d.warnings) \in Nat /\ Len(d.normal) \in Nat
  BY <1>1, TotalIsNat
<1>3. d.healthy \in Nat /\ d.failing \in Nat
  BY <1>1
<1> DEFINE a == TotalOf(d.logs)
           b == TotalOf(d.warnings)
           c == TotalOf(d.normal)
           k == Len(d.warnings)
           l == Len(d.normal)
           h == d.healthy
           f == d.failing
<1>4. EstimateTokens(d) = a + h + f + b + k + c + l
  BY DEF EstimateTokens
<1>5. a \in Nat /\ b \in Nat /\ c \in Nat /\ k \in Nat /\ l \in Nat /\ h \in Nat /\ f \in Nat
  BY <1>2, <1>3
<1> HIDE DEF a, b, c, k, l, h, f
<1>6. QED
  BY <1>4, <1>5

\* EnforceBudget trims any data as far as it must and no further: after a pass that found
\* the data within the limit nothing changes any more.
LEMMA BudgetTrims ==
    ASSUME NEW data \in BudgetDatas, NEW limit \in Nat
    PROVE  TrimsNoMoreThanNeeded(data, limit)
<1> DEFINE Within(d) == EstimateTokens(d) <= limit
           trim(n, d) == IF Within(d) THEN d ELSE Pass(n, d)
           d1 == trim(1, data)
           d2 == trim(2, d1)
           d3 == trim(3, d2)
           d4 == trim(4, d3)
<1>0. LineCap \in Nat /\ MessageCap \in Nat
  BY BudgetAssumption
<1>a. /\ data = [logs |-> data.logs, healthy |-> data.healthy, failing |-> data.failing,
                 warnings |-> data.warnings, normal |-> data.normal]
      /\ data.logs \in Seq(Nat) /\ data.warnings \in Seq(Nat) /\ data.normal \in Seq(Nat)
  BY DEF BudgetDatas
<1>e. EnforceBudget(data, limit) = d4
  BY DEF EnforceBudget
<1>1. /\ Within(data) => d1 = data
      /\ ~ Within(data) => d1 = [data EXCEPT !.logs = Capped(data.logs, LineCap)]
  BY DEF Pass
<1>2. /\ Within(d1) => d2 = d1
      /\ ~ Within(d1) => d2 = [d1 EXCEPT !.healthy = 0]
  <2> HIDE DEF d1
  <2> QED
    BY DEF Pass
<1>3. /\ Within(d2) => d3 = d2
      /\ ~ Within(d2) => d3 = [d2 EXCEPT !.normal = <<>>]
  <2> HIDE DEF d2
  <2> QED
    BY DEF Pass
<1>4. /\ Within(d3) => d4 = d3
      /\ ~ Within(d3) => d4 = [d3 EXCEPT !.warnings = Capped(d3.warnings, MessageCap),
                                         !.normal = Capped(d3.normal, MessageCap)]
  <2> HIDE DEF d3
  <2> QED
    BY DEF Pass
<1> HIDE DEF d1, d2, d3, d4
<1>5. /\ Within(data) => Within(d1)
      /\ Within(d1) => Within(d2)
      /\ Within(d2) => Within(d3)
      /\ Within(d3) => Within(d4)
  BY <1>1, <1>2, <1>3, <1>4
<1> HIDE DEF Within
<1>6. ASSUME NEW d, NEW l, d = [data EXCEPT !.logs = l]
      PROVE  d.logs = l /\ d.healthy = data.healthy /\ d.failing = data.failing
             /\ d.warnings = data.warnings /\ d.normal = data.normal
  BY <1>6, <1>a
<1>7. d1 \in BudgetDatas /\ \E l \in Seq(Nat) : d1 = [data EXCEPT !.logs = l]
  <2>1. Capped(data.logs, LineCap) \in Seq(Nat)
    BY <1>0, <1>a, CappedLengths
  <2>2. CASE Within(data)
    <3>1. d1 = data
      BY <1>1, <2>2
    <3>2. data = [data EXCEPT !.logs = data.logs]
      BY <1>a
    <3>3. QED
      BY <1>a, <3>1, <3>2
  <2>3. CASE ~ Within(data)
    BY <1>1, <2>1, <2>3 DEF BudgetDatas
  <2>4. QED
    BY <2>2, <2>3
<1>8. \A d \in BudgetDatas : /\ [d EXCEPT !.healthy = 0] \in BudgetDatas
                              /\ [d EXCEPT !.normal = <<>>] \in BudgetDatas
  <2> SUFFICES ASSUME NEW d \in BudgetDatas
               PROVE  [d EXCEPT !.healthy = 0] \in BudgetDatas /\ [d EXCEPT !.normal = <<>>] \in BudgetDatas
    OBVIOUS
  <2> DEFINE e == <<>>
  <2>1. e \in Seq(Nat)
    OBVIOUS
  <2> HIDE DEF e
  <2>2. [d EXCEPT !.healthy = 0] \in BudgetDatas
    <3> DEFINE B == Nat
    <3>1. 0 \in B /\ BudgetDatas = [logs : Seq(Nat), healthy : B, failing : B,
                                   warnings : Seq(Nat), normal : Seq(Nat)]
      BY DEF BudgetDatas
    <3> HIDE DEF B
    <3>2. QED
      BY <3>1
  <2>3. [d EXCEPT !.normal = e] \in BudgetDatas
    BY <2>1 DEF BudgetDatas
  <2>4. QED
    BY <2>2, <2>3 DEF e
<1>9. d2 \in BudgetDatas /\ d3 \in BudgetDatas
  BY <1>2, <1>3, <1>7, <1>8
<1>10. /\ Capped(d3.warnings, MessageCap) \in Seq(Nat) /\ Capped(d3.normal, MessageCap) \in Seq(Nat)
       /\ Len(Capped(d3.warnings, MessageCap)) = Len(d3.warnings)
       /\ Len(Capped(d3.normal, MessageCap)) = Len(d3.normal)
       /\ \A i \in DOMAIN Capped(d3.warnings, MessageCap) : Capped(d3.warnings, MessageCap)[i] <= MessageCap
  <2>1. d3.warnings \in Seq(Nat) /\ d3.normal \in Seq(Nat)
    BY <1>9 DEF BudgetDatas
  <2>2. QED
    BY <1>0, <2>1, CappedLengths
<1>11. /\ d4 \in BudgetDatas
       /\ d4.logs = d3.logs /\ d4.healthy = d3.healthy /\ d4.failing = d3.failing
       /\ Within(d3) => d4 = d3
       /\ ~ Within(d3) => /\ d4.warnings = Capped(d3.warnings, MessageCap)
                          /\ d4.normal = Capped(d3.normal, MessageCap)
  BY <1>4, <1>9, <1>10 DEF BudgetDatas
<1>12. /\ d3.logs = d2.logs /\ d3.healthy = d2.healthy /\ d3.failing = d2.failing /\ d3.warnings = d2.warnings
       /\ ~ Within(d2) => d3.normal = <<>>
       /\ Within(d2) => d3.normal = d2.normal
  BY <1>3, <1>9 DEF BudgetDatas
<1>13. /\ d2.logs = d1.logs /\ d2.normal = d1.normal /\ d2.failing = d1.failing /\ d2.warnings = d1.warnings
       /\ ~ Within(d1) => d2.healthy = 0
       /\ Within(d1) => d2.healthy = d1.healthy
  BY <1>2, <1>7, <1>9 DEF BudgetDatas
<1>14. /\ d1.healthy = data.healthy /\ d1.normal = data.normal /\ d1.failing = data.failing
       /\ d1.warnings = data.warnings
       /\ d1 = [data EXCEPT !.logs = d1.logs]
       /\ Within(data) => d1.logs = data.logs
       /\ ~ Within(data) => d1.logs = Capped(data.logs, LineCap)
  BY <1>1, <1>7, <1>a DEF BudgetDatas
<1>15. [data EXCEPT !.logs = d4.logs] = d1
  BY <1>11, <1>12, <1>13, <1>14
<1>16. \A d \in BudgetDatas : ~ Within(d) => EstimateTokens(d) > limit
  BY EstimateIsNat DEF Within
<1>17. d4.healthy # data.healthy => EstimateTokens(d1) > limit
  BY <1>7, <1>11, <1>12, <1>13, <1>14, <1>16
<1>18. d4.normal # data.normal => ~ Within(d1) /\ ~ Within(d2)
  BY <1>5, <1>11, <1>12, <1>13, <1>14
<1>19. d4.warnings # data.warnings => ~ Within(d1) /\ ~ Within(d2) /\ ~ Within(d3)
  BY <1>5, <1>11, <1>12, <1>13, <1>14
<1>20. ~ Within(d1) => [d1 EXCEPT !.healthy = 0] = d2
  BY <1>2
<1>21. ~ Within(d2) => [d2 EXCEPT !.normal = <<>>] = d3
  BY <1>3
<1>22. ~ Within(d4) => /\ \A i \in DOMAIN d4.logs : d4.logs[i] <= LineCap
                       /\ d4.healthy = 0 /\ d4.normal = <<>>
                       /\ \A i \in DOMAIN d4.warnings : d4.warnings[i] <= MessageCap
  <2> SUFFICES ASSUME ~ Within(d4)
               PROVE  /\ \A i \in DOMAIN d4.logs : d4.logs[i] <= LineCap
                      /\ d4.healthy = 0 /\ d4.normal = <<>>
                      /\ \A i \in DOMAIN d4.warnings : d4.warnings[i] <= MessageCap
    OBVIOUS
  <2>1. ~ Within(data) /\ ~ Within(d1) /\ ~ Within(d2) /\ ~ Within(d3)
    BY <1>5
  <2>2. d4.logs = Capped(data.logs, LineCap)
    BY <2>1, <1>11, <1>12, <1>13, <1>14
  <2>3. \A i \in DOMAIN d4.logs : d4.logs[i] <= LineCap
    BY <2>2, <1>0, <1>a, CappedLengths
  <2>4. d4.warnings = Capped(d3.warnings, MessageCap) /\ d3.normal = <<>> /\ d4.healthy = 0
    BY <2>1, <1>11, <1>12, <1>13
  <2>5. Len(d4.normal) = 0 /\ d4.normal \in Seq(Nat)
    <3>1. Len(d3.normal) = 0
      BY <2>4
    <3>2. d4.normal = Capped(d3.normal, MessageCap)
      BY <2>1, <1>11
    <3>3. QED
      BY <3>1, <3>2, <1>10
  <2>6. d4.normal = <<>>
    BY <2>5
  <2>7. QED
    BY <2>3, <2>4, <2>6, <1>10
<1>23. d4.failing = data.failing /\ Len(d4.warnings) = Len(data.warnings)
  <2>1. Len(d4.warnings) = Len(d3.warnings)
    BY <1>10, <1>11
  <2>2. QED
    BY <2>1, <1>11, <1>12, <1>13, <1>14
<1>24. QED
  <2> DEFINE T == EnforceBudget(data, limit)
             shortLogs == [data EXCEPT !.logs = T.logs]
             noHealthy == [shortLogs EXCEPT !.healthy = 0]
             noNormal == [noHealthy EXCEPT !.normal = <<>>]
  <2>1. T = d4 /\ shortLogs = d1
    BY <1>e, <1>15
  <2>2. T.logs # data.logs => EstimateTokens(data) > limit
    BY <2>1, <1>11, <1>12, <1>13, <1>14, <1>16
  <2>3. ~ Within(d1) => noHealthy = d2
    BY <2>1, <1>20
  <2>4. ~ Within(d1) /\ ~ Within(d2) => noNormal = d3
    BY <2>3, <1>21
  <2>5. EstimateTokens(T) <= limit \/ ~ Within(d4)
    BY <2>1 DEF Within
  <2> HIDE DEF T, shortLogs, noHealthy, noNormal
  <2>6. T.healthy # data.healthy => EstimateTokens(shortLogs) > limit
    BY <2>1, <1>17
  <2>7. T.normal # data.normal => EstimateTokens(noHealthy) > limit
    BY <2>1, <2>3, <1>9, <1>16, <1>18
  <2>8. T.warnings # data.warnings => EstimateTokens(noNormal) > limit
    BY <2>1, <2>4, <1>9, <1>16, <1>19
  <2>9. \/ EstimateTokens(T) <= limit
        \/ /\ \A i \in DOMAIN T.logs : T.logs[i] <= LineCap
           /\ T.healthy = 0 /\ T.normal = <<>>
           /\ \A i \in DOMAIN T.warnings : T.warnings[i] <= MessageCap
    BY <2>1, <2>5, <1>22
  <2>10. T.failing = data.failing /\ Len(T.warnings) = Len(data.warnings)
    BY <2>1, <1>23
  <2>11. QED
    BY <2>2, <2>6, <2>7, <2>8, <2>9, <2>10 DEF TrimsNoMoreThanNeeded, T, shortLogs, noHealthy, noNormal

\* An excerpt of a log of any length keeps what matters, whatever the limits.
LEMMA ExcerptKeeps ==
    ASSUME NEW log \in Seq(ErrorLines \cup PlainLines)
    PROVE  ExcerptKeepsWhatMatters(log)
<1> DEFINE T == ErrorLines \cup PlainLines
           L == Len(log)
           E == ErrorsOf(log)
           n == Least(MaxErrors, Len(E))
           fe == FirstErrors(log)
           ll == LastLines(log)
           s == fe \o ll
           M == Merged(log)
<1>0. MaxErrors \in Nat /\ MaxTail \in Nat /\ MaxLines \in Nat /\ MaxErrors + MaxTail <= MaxLines
  BY ExcerptAssumption
<1>1. log \in Seq(T) /\ L \in Nat /\ DOMAIN log = 1..L /\ \A i \in 1..L : log[i] \in T
  OBVIOUS
<1> HIDE DEF T, L
<1>2. E \in Seq(T) /\ Len(E) \in Nat
  <2>1. E \in Seq(T)
    BY <1>1, FilteredType DEF ErrorsOf
  <2> HIDE DEF E
  <2>2. QED
    BY <2>1
<1>3. n \in Nat /\ n <= MaxErrors /\ n <= Len(E) /\ (n = MaxErrors \/ n = Len(E))
  BY <1>0, <1>2 DEF Least
<1>4. fe \in Seq(T) /\ Len(fe) = n /\ \A i \in 1..n : fe[i] = E[i]
  <2>1. fe = SubSeq(E, 1, n)
    BY DEF FirstErrors
  <2> HIDE DEF E, n, fe
  <2>2. QED
    BY <1>2, <1>3, <2>1
<1> DEFINE m == Greatest(1, L - MaxTail + 1)
<1>5. m \in Nat /\ m >= 1 /\ m >= L - MaxTail + 1 /\ (m = 1 \/ m = L - MaxTail + 1)
  BY <1>0, <1>1 DEF Greatest
<1>6. /\ ll \in Seq(T) /\ Len(ll) \in Nat /\ Len(ll) <= MaxTail
      /\ \A i \in m..L : i - m + 1 \in 1..Len(ll) /\ ll[i - m + 1] = log[i]
  <2>1. ll = SubSeq(log, m, L)
    BY DEF LastLines, L
  <2> HIDE DEF m, ll
  <2>2. ll \in Seq(T) /\ Len(ll) = IF m <= L THEN L - m + 1 ELSE 0
    BY <1>1, <1>5, <2>1 DEF L
  <2>3. Len(ll) \in Nat /\ Len(ll) <= MaxTail
    BY <1>0, <1>1, <1>5, <2>2
  <2>4. \A i \in m..L : i - m + 1 \in 1..Len(ll) /\ ll[i - m + 1] = log[i]
    BY <1>1, <1>5, <2>1, <2>2 DEF L
  <2>5. QED
    BY <2>2, <2>3, <2>4
<1> HIDE DEF n, fe, ll, E, m
<1>7. /\ s \in Seq(T) /\ Len(s) = n + Len(ll)
      /\ \A i \in 1..n : i \in 1..Len(s) /\ s[i] = fe[i]
      /\ \A i \in 1..Len(ll) : n + i \in 1..Len(s) /\ s[n + i] = ll[i]
  <2>1. s \in Seq(T) /\ Joined(s, fe, ll)
    BY <1>4, <1>6, ConcatJoins
  <2> HIDE DEF s
  <2>2. QED
    BY <1>3, <1>4, <1>6, <2>1 DEF Joined
<1>8. M = Distinct(s)
  BY DEF Merged, fe, ll
<1> HIDE DEF s
<1>9. /\ M \in Seq(T) /\ Len(M) \in Nat /\ Len(M) <= Len(s) /\ Once(M)
      /\ \A j \in 1..Len(s) : \E k \in 1..Len(M) : M[k] = s[j]
  BY <1>7, <1>8, DistinctFacts
<1> HIDE DEF M
<1>10. Len(M) <= MaxLines
  BY <1>0, <1>3, <1>6, <1>7, <1>9
<1>11. Excerpt(log).lines = M /\ (Excerpt(log).truncated <=> L > MaxTail)
  <2>1. Least(MaxLines, Len(M)) = Len(M)
    BY <1>0, <1>9, <1>10 DEF Least
  <2>2. SubSeq(M, 1, Len(M)) = M
    BY <1>9
  <2>3. ~ (Len(M) > MaxLines)
    BY <1>0, <1>9, <1>10
  <2>4. QED
    BY <2>1, <2>2, <2>3 DEF Excerpt, M, L
<1> DEFINE shown == ToSet(Excerpt(log).lines)
<1>12. shown = {M[k] : k \in 1..Len(M)}
  <2>1. DOMAIN M = 1..Len(M)
    BY <1>9
  <2>2. QED
    BY <1>11, <2>1 DEF ToSet
<1> HIDE DEF shown
<1>13. \A i \in 1..Len(s) : s[i] \in shown
  BY <1>9, <1>12
<1>14. \A i \in m..L : log[i] \in shown
  <2> SUFFICES ASSUME NEW i \in m..L PROVE log[i] \in shown
    OBVIOUS
  <2>1. i - m + 1 \in 1..Len(ll) /\ ll[i - m + 1] = log[i]
    BY <1>6
  <2>2. PICK k \in 1..Len(ll) : k = i - m + 1
    BY <2>1
  <2>3. s[n + k] = log[i] /\ n + k \in 1..Len(s)
    BY <1>7, <2>1, <2>2
  <2>4. QED
    BY <1>13, <2>3
<1>15. {log[i] : i \in (L - MaxTail + 1)..L \cap DOMAIN log} \subseteq shown
  BY <1>0, <1>1, <1>5, <1>14
<1>16. ASSUME NEW i \in DOMAIN log, log[i] \in ErrorLines \ shown
       PROVE  Cardinality({j \in 1..(i - 1) : log[j] \in ErrorLines}) >= MaxErrors
  <2>1. i \in 1..Len(log) /\ log[i] \in ErrorLines
    BY <1>1, <1>16 DEF L
  <2>2. PICK c \in Nat : /\ c = Cardinality({j \in 1..(i - 1) : log[j] \in ErrorLines})
                         /\ c + 1 \in 1..Len(E) /\ E[c + 1] = log[i]
    <3>1. i \in 1..Len(log) /\ log \in Seq(T)
      BY <1>1, <2>1
    <3>2. \E c \in Nat : /\ c = Cardinality({j \in 1..(i - 1) : log[j] \in ErrorLines})
                         /\ c + 1 \in 1..Len(Filtered(log, ErrorLines))
                         /\ Filtered(log, ErrorLines)[c + 1] = log[i]
      BY <3>1, <2>1, FilteredAt
    <3>3. E = Filtered(log, ErrorLines)
      BY DEF E, ErrorsOf
    <3>4. QED
      BY <3>2, <3>3
  <2>3. ~ (c + 1 <= n)
    <3> SUFFICES ASSUME c + 1 <= n PROVE FALSE
      OBVIOUS
    <3>1. PICK k \in 1..n : k = c + 1
      OBVIOUS
    <3>2. s[k] = E[k] /\ k \in 1..Len(s)
      BY <1>4, <1>7, <3>1
    <3>3. QED
      BY <1>13, <1>16, <2>2, <3>1, <3>2
  <2>4. QED
    BY <1>0, <1>2, <1>3, <2>2, <2>3
<1>17. ~ Excerpt(log).truncated => ToSet(log) \subseteq shown
  <2> SUFFICES ASSUME ~ (L > MaxTail) PROVE ToSet(log) \subseteq shown
    BY <1>11
  <2>1. m = 1
    BY <1>0, <1>1, <1>5
  <2>2. QED
    BY <1>1, <1>14, <2>1 DEF ToSet
<1>18. IsInjective(Excerpt(log).lines)
  <2>1. DOMAIN M = 1..Len(M)
    BY <1>9
  <2>2. QED
    BY <1>9, <1>11, <2>1 DEF IsInjective, Once
<1>19. QED
  BY <1>15, <1>16, <1>17, <1>18 DEF ExcerptKeepsWhatMatters, shown, L

\* Of any length.
AnyBundle4Chat == [pods : Seq([matches : BOOLEAN, issue : BOOLEAN]),
                   events : Seq([matches : BOOLEAN, warning : BOOLEAN]),
                   logMatches : BOOLEAN,
                   log : Seq([matches : BOOLEAN]),
                   promptHolds : Nat,
                   contextHolds : Nat \ {0}]

\* Items, by kind and place.
Named == {"pod", "event", "log"} \X Nat

\* The first n of a list.
LEMMA UptoFacts ==
    ASSUME NEW T, NEW s \in Seq(T), NEW n \in Nat
    PROVE  /\ Upto(n, s) \in Seq(T) /\ Len(s) \in Nat
           /\ Len(Upto(n, s)) = IF Len(s) < n THEN Len(s) ELSE n
           /\ \A i \in 1..Len(Upto(n, s)) : Upto(n, s)[i] = s[i]
           /\ Len(s) <= n => Upto(n, s) = s
           /\ Range(Upto(n, s)) \subseteq Range(s)
<1> DEFINE m == IF Len(s) < n THEN Len(s) ELSE n
           u == SubSeq(s, 1, m)
<1>1. Len(s) \in Nat /\ m \in Nat /\ m <= Len(s) /\ (Len(s) <= n => m = Len(s))
  OBVIOUS
<1>2. Upto(n, s) = u
  BY DEF Upto
<1> HIDE DEF m
<1>3. u \in Seq(T) /\ Len(u) = m /\ (\A i \in 1..m : u[i] = s[i]) /\ (m = Len(s) => u = s)
  BY <1>1
<1> HIDE DEF u
<1>4. Range(u) \subseteq Range(s)
  <2>1. Range(u) = {u[i] : i \in 1..Len(u)} /\ Range(s) = {s[i] : i \in 1..Len(s)}
    BY <1>3, RangeEquality
  <2>2. QED
    BY <1>1, <1>3, <2>1
<1>5. QED
  BY <1>1, <1>2, <1>3, <1>4 DEF m

\* The items of a list are its places that pass, by their kind.
LEMMA ItemsFacts ==
    ASSUME NEW kind \in {"pod", "event", "log"}, NEW passes \in Seq(BOOLEAN)
    PROVE  /\ Items(kind, passes) \in Seq(Named)
           /\ Range(Items(kind, passes)) = {<<kind, i>> : i \in {j \in 1..Len(passes) : passes[j]}}
           /\ \A k \in 1..Len(Items(kind, passes)) : Items(kind, passes)[k][1] = kind
<1> DEFINE in == {i \in 1..Len(passes) : passes[i]}
           p == Places(passes, in)
           m == Len(p)
           t == [k \in 1..m |-> <<kind, p[k]>>]
<1>1. Len(passes) \in Nat /\ DOMAIN passes = 1..Len(passes)
  OBVIOUS
<1>2. /\ p \in Seq(1..Len(passes)) /\ m \in Nat
      /\ \A k \in 1..m : p[k] \in in /\ p[k] \in 1..Len(passes)
      /\ \A i \in 1..Len(passes) : i \in in => \E k \in 1..m : p[k] = i
  <2> HIDE DEF in
  <2> QED
    BY PlacesFacts
<1>3. Items(kind, passes) = t
  <2>1. p = Places(passes, {i \in DOMAIN passes : passes[i]})
    BY <1>1
  <2> HIDE DEF p, in
  <2>2. DOMAIN p = 1..m
    BY <1>2
  <2>3. QED
    BY <2>1, <2>2 DEF Items
<1> HIDE DEF p, m
<1>4. t \in [1..m -> Named]
  BY <1>1, <1>2 DEF Named
<1>5. t \in Seq(Named) /\ Len(t) = m /\ \A k \in 1..m : t[k] = <<kind, p[k]>>
  <2> HIDE DEF t
  <2>1. t \in Seq(Named) /\ Len(t) = m
    BY <1>2, <1>4
  <2>2. QED
    BY <2>1 DEF t
<1> HIDE DEF t
<1>6. Range(t) = {t[k] : k \in 1..m}
  BY <1>5, RangeEquality
<1>7. Range(t) = {<<kind, i>> : i \in in}
  <2>1. \A k \in 1..m : t[k] \in {<<kind, i>> : i \in in}
    BY <1>2, <1>5
  <2>2. ASSUME NEW i \in in
        PROVE  <<kind, i>> \in Range(t)
    <3>1. PICK k \in 1..m : p[k] = i
      BY <1>2
    <3>2. QED
      BY <1>5, <1>6, <3>1
  <2>3. QED
    BY <1>6, <2>1, <2>2
<1>8. \A k \in 1..m : t[k][1] = kind
  BY <1>5
<1>9. QED
  BY <1>3, <1>5, <1>7, <1>8

\* What the texts of a turn are made of.
LEMMA TextsOfTurn ==
    ASSUME NEW data \in AnyBundle4Chat
    PROVE  /\ Issues(data) \in Seq(Named) /\ Warnings(data) \in Seq(Named)
           /\ \A k \in 1..Len(Issues(data)) : Issues(data)[k][1] = "pod"
           /\ \A k \in 1..Len(Warnings(data)) : Warnings(data)[k][1] = "event"
           /\ \E a, b, c \in Seq(Named) :
                 /\ Matches(data) = (a \o b) \o c
                 /\ \A k \in 1..Len(a) : a[k][1] = "pod"
                 /\ \A k \in 1..Len(b) : b[k][1] = "event"
                 /\ \A k \in 1..Len(c) : c[k][1] = "log"
           /\ \E p \in Seq(Named) : /\ Fallback(data) = Upto(MaxFallback, p)
                                    /\ data.pods # <<>> => Len(p) # 0
<1> DEFINE P == data.pods
           V == data.events
           G == data.log
<1>1. /\ P \in Seq([matches : BOOLEAN, issue : BOOLEAN])
      /\ V \in Seq([matches : BOOLEAN, warning : BOOLEAN])
      /\ G \in Seq([matches : BOOLEAN])
  BY DEF AnyBundle4Chat
<1> DEFINE f1 == [i \in DOMAIN P |-> P[i].issue]
           f2 == [i \in DOMAIN V |-> V[i].warning]
           f3 == [i \in DOMAIN P |-> P[i].matches]
           f4 == [i \in DOMAIN V |-> V[i].warning /\ V[i].matches]
           f5 == [i \in DOMAIN G |-> G[i].matches]
           f6 == [i \in DOMAIN P |-> TRUE]
<1>2. /\ Issues(data) = Items("pod", f1) /\ Warnings(data) = Items("event", f2)
      /\ Matches(data) = (Items("pod", f3) \o Items("event", f4)) \o
                         IF data.logMatches THEN Items("log", f5) ELSE <<>>
      /\ Fallback(data) = Upto(MaxFallback, Items("pod", f6))
  BY DEF Issues, Warnings, Matches, Fallback
<1>3. /\ f1 \in Seq(BOOLEAN) /\ f3 \in Seq(BOOLEAN) /\ f6 \in Seq(BOOLEAN) /\ Len(f6) = Len(P)
      /\ (\A i \in 1..Len(P) : f6[i]) /\ Len(P) \in Nat /\ (Len(P) = 0 => P = <<>>)
  <2> HIDE DEF P
  <2>0. Len(P) \in Nat /\ P \in [1..Len(P) -> [matches : BOOLEAN, issue : BOOLEAN]]
    BY <1>1, LenProperties
  <2>1. PICK n \in Nat : n = Len(P) /\ DOMAIN P = 1..n /\ \A i \in 1..n : P[i] \in [matches : BOOLEAN, issue : BOOLEAN]
    BY <2>0
  <2>2. f1 \in [1..n -> BOOLEAN] /\ f3 \in [1..n -> BOOLEAN] /\ f6 \in [1..n -> BOOLEAN] /\ \A i \in 1..n : f6[i]
    BY <2>1
  <2> HIDE DEF f1, f3, f6
  <2>3. f1 \in Seq(BOOLEAN) /\ f3 \in Seq(BOOLEAN) /\ f6 \in Seq(BOOLEAN) /\ Len(f6) = n
    BY <2>2
  <2>4. Len(P) = 0 => P = <<>>
    BY <1>1, EmptySeq
  <2>5. QED
    BY <2>1, <2>2, <2>3, <2>4
<1>4. f2 \in Seq(BOOLEAN) /\ f4 \in Seq(BOOLEAN)
  <2> HIDE DEF V
  <2>0. Len(V) \in Nat /\ V \in [1..Len(V) -> [matches : BOOLEAN, warning : BOOLEAN]]
    BY <1>1, LenProperties
  <2>1. PICK n \in Nat : n = Len(V) /\ DOMAIN V = 1..n /\ \A i \in 1..n : V[i] \in [matches : BOOLEAN, warning : BOOLEAN]
    BY <2>0
  <2>2. f2 \in [1..n -> BOOLEAN] /\ f4 \in [1..n -> BOOLEAN]
    BY <2>1
  <2> HIDE DEF f2, f4
  <2>3. QED
    BY <2>2
<1>5. f5 \in Seq(BOOLEAN)
  <2> HIDE DEF G
  <2>0. Len(G) \in Nat /\ G \in [1..Len(G) -> [matches : BOOLEAN]]
    BY <1>1, LenProperties
  <2>1. PICK n \in Nat : n = Len(G) /\ DOMAIN G = 1..n /\ \A i \in 1..n : G[i] \in [matches : BOOLEAN]
    BY <2>0
  <2>2. f5 \in [1..n -> BOOLEAN]
    BY <2>1
  <2> HIDE DEF f5
  <2>3. QED
    BY <2>2
<1> HIDE DEF f1, f2, f3, f4, f5, f6
<1>6. \A kind \in {"pod", "event", "log"}, f \in Seq(BOOLEAN) :
         /\ Items(kind, f) \in Seq(Named)
         /\ Range(Items(kind, f)) = {<<kind, i>> : i \in {j \in 1..Len(f) : f[j]}}
         /\ \A k \in 1..Len(Items(kind, f)) : Items(kind, f)[k][1] = kind
  BY ItemsFacts
<1>7. Issues(data) \in Seq(Named) /\ Warnings(data) \in Seq(Named)
      /\ (\A k \in 1..Len(Issues(data)) : Issues(data)[k][1] = "pod")
      /\ \A k \in 1..Len(Warnings(data)) : Warnings(data)[k][1] = "event"
  <2>1. Items("pod", f1) \in Seq(Named) /\ \A k \in 1..Len(Items("pod", f1)) : Items("pod", f1)[k][1] = "pod"
    BY <1>3, <1>6
  <2>2. Items("event", f2) \in Seq(Named) /\ \A k \in 1..Len(Items("event", f2)) : Items("event", f2)[k][1] = "event"
    BY <1>4, <1>6
  <2>3. QED
    BY <1>2, <2>1, <2>2
<1>8. \E a, b, c \in Seq(Named) :
         /\ Matches(data) = (a \o b) \o c
         /\ \A k \in 1..Len(a) : a[k][1] = "pod"
         /\ \A k \in 1..Len(b) : b[k][1] = "event"
         /\ \A k \in 1..Len(c) : c[k][1] = "log"
  <2> DEFINE a == Items("pod", f3)
             b == Items("event", f4)
             c == IF data.logMatches THEN Items("log", f5) ELSE <<>>
  <2>1. a \in Seq(Named) /\ (\A k \in 1..Len(a) : a[k][1] = "pod")
        /\ b \in Seq(Named) /\ (\A k \in 1..Len(b) : b[k][1] = "event")
    BY <1>3, <1>4, <1>6
  <2>2. c \in Seq(Named) /\ (\A k \in 1..Len(c) : c[k][1] = "log")
    <3>1. CASE data.logMatches
      <4>1. c = Items("log", f5)
        BY <3>1
      <4>2. QED
        BY <4>1, <1>5, <1>6
    <3>2. CASE ~ data.logMatches
      <4> DEFINE e == <<>>
      <4>1. c = e /\ e \in Seq(Named) /\ Len(e) = 0
        BY <3>2
      <4> HIDE DEF e, c
      <4>2. QED
        BY <4>1
    <3>3. QED
      BY <3>1, <3>2
  <2>3. Matches(data) = (a \o b) \o c
    BY <1>2
  <2> HIDE DEF a, b, c
  <2>4. QED
    BY <2>1, <2>2, <2>3
<1>9. \E p \in Seq(Named) : Fallback(data) = Upto(MaxFallback, p) /\ (P # <<>> => Len(p) # 0)
  <2> DEFINE p == Items("pod", f6)
  <2>1. p \in Seq(Named) /\ Range(p) = {<<"pod", i>> : i \in {j \in 1..Len(f6) : f6[j]}}
    BY <1>3, <1>6
  <2>2. Fallback(data) = Upto(MaxFallback, p)
    BY <1>2
  <2> HIDE DEF p, P
  <2>3. Range(p) = {p[i] : i \in 1..Len(p)}
    BY <2>1, RangeEquality
  <2>4. ASSUME P # <<>>, Len(p) = 0 PROVE FALSE
    <3>1. 1 \in {j \in 1..Len(f6) : f6[j]}
      BY <1>3, <2>4
    <3>2. <<"pod", 1>> \in Range(p)
      BY <2>1, <3>1
    <3>3. QED
      BY <2>3, <2>4, <3>2
  <2>5. QED
    BY <2>1, <2>2, <2>4
<1>10. QED
  BY <1>7, <1>8, <1>9

\* The first of the first of a list.
LEMMA UptoUpto ==
    ASSUME NEW T, NEW s \in Seq(T), NEW m \in Nat, NEW n \in Nat
    PROVE  /\ m <= n => Upto(m, Upto(n, s)) = Upto(m, s)
           /\ n <= m => Upto(m, Upto(n, s)) = Upto(n, s)
<1> DEFINE u == Upto(n, s)
<1>1. u \in Seq(T) /\ Len(s) \in Nat /\ Len(u) = (IF Len(s) < n THEN Len(s) ELSE n)
      /\ \A i \in 1..Len(u) : u[i] = s[i]
  BY UptoFacts
<1> HIDE DEF u
<1>2. n <= m => Upto(m, u) = u
  BY <1>1, UptoFacts
<1>3. ASSUME m <= n
      PROVE  Upto(m, u) = Upto(m, s)
  <2>1. /\ Upto(m, u) \in Seq(T) /\ Len(Upto(m, u)) = IF Len(u) < m THEN Len(u) ELSE m
        /\ \A i \in 1..Len(Upto(m, u)) : Upto(m, u)[i] = u[i]
    BY <1>1, UptoFacts
  <2>2. /\ Upto(m, s) \in Seq(T) /\ Len(Upto(m, s)) = IF Len(s) < m THEN Len(s) ELSE m
        /\ \A i \in 1..Len(Upto(m, s)) : Upto(m, s)[i] = s[i]
    BY UptoFacts
  <2>3. Len(Upto(m, u)) = Len(Upto(m, s)) /\ Len(Upto(m, u)) \in Nat /\ Len(Upto(m, u)) <= Len(u)
    BY <1>1, <1>3, <2>1, <2>2
  <2>4. \A i \in 1..Len(Upto(m, u)) : Upto(m, u)[i] = Upto(m, s)[i]
    BY <1>1, <2>1, <2>2, <2>3
  <2> DEFINE v == Upto(m, u)
             w == Upto(m, s)
  <2> HIDE DEF v, w
  <2>5. v \in Seq(T) /\ w \in Seq(T) /\ Len(v) = Len(w) /\ \A i \in 1..Len(v) : v[i] = w[i]
    BY <2>1, <2>2, <2>3, <2>4 DEF v, w
  <2>6. v = w
    BY <2>5, SeqEqual
  <2>7. QED
    BY <2>6 DEF v, w
<1>4. QED
  BY <1>2, <1>3 DEF u

\* What a cut text has of two lists: of the first alone, when it lacks some of the first;
\* and it lacks nothing unless it is as long as the cut allows.
LEMMA CutText ==
    ASSUME NEW T, NEW s \in Seq(T), NEW t \in Seq(T), NEW n \in Nat
    PROVE  /\ Upto(n, s \o t) \in Seq(T)
           /\ Len(Upto(n, s \o t)) # n => Range(Upto(n, s \o t)) = Range(s) \cup Range(t)
           /\ \A z \in Range(s) \ Range(Upto(n, s \o t)) : Range(Upto(n, s \o t)) \subseteq Range(s)
<1> DEFINE st == s \o t
           u == Upto(n, st)
<1>1. st \in Seq(T) /\ Joined(st, s, t)
  BY ConcatJoins
<1>2. Range(st) = Range(s) \cup Range(t)
  BY RangeOfJoined
<1> HIDE DEF st
<1>3. /\ u \in Seq(T) /\ Len(st) \in Nat /\ Len(u) = IF Len(st) < n THEN Len(st) ELSE n
      /\ \A i \in 1..Len(u) : u[i] = st[i]
      /\ Len(st) <= n => u = st
  BY <1>1, UptoFacts
<1> HIDE DEF u
<1>4. Len(u) # n => Range(u) = Range(s) \cup Range(t)
  BY <1>2, <1>3
<1>5. ASSUME NEW z \in Range(s) \ Range(u)
      PROVE  Range(u) \subseteq Range(s)
  <2>1. Range(u) = {u[i] : i \in 1..Len(u)} /\ Range(s) = {s[i] : i \in 1..Len(s)}
    BY <1>3, RangeEquality
  <2>2. PICK k \in 1..Len(s) : s[k] = z
    BY <1>5, <2>1
  <2>3. Len(s) \in Nat /\ Len(u) \in Nat /\ st[k] = z /\ k \in 1..Len(st)
    BY <1>1, <1>3, <2>2 DEF Joined
  <2>4. k > Len(u)
    <3>1. k \in 1..Len(u) => u[k] = z
      BY <1>3, <2>3
    <3>2. k \notin 1..Len(u)
      BY <1>5, <2>1, <3>1
    <3>3. QED
      BY <2>2, <2>3, <3>2
  <2>5. \A i \in 1..Len(u) : i \in 1..Len(s) /\ u[i] = s[i]
    <3>1. \A i \in 1..Len(u) : i \in 1..Len(s)
      BY <2>2, <2>3, <2>4
    <3>2. QED
      BY <1>1, <1>3, <3>1 DEF Joined
  <2>6. QED
    BY <2>1, <2>5
<1>6. QED
  BY <1>3, <1>4, <1>5 DEF u, st

\* Whatever a bundle holds and a question asks, a turn is grounded in the bundle.
LEMMA Grounded ==
    ASSUME NEW data \in AnyBundle4Chat, NEW keywords \in BOOLEAN
    PROVE  TurnIsGrounded(data, keywords)
<1> DEFINE I == Issues(data)
           W == Warnings(data)
           M == Matches(data)
           x == FindRelevantContext(data, keywords)
           y == SystemPrompt(data)
           H == data.contextHolds
           h == data.promptHolds
           LM == IF MaxMatches <= H THEN MaxMatches ELSE H
           LF == IF MaxFallback <= H THEN MaxFallback ELSE H
<1>0. /\ MaxIssues \in Nat /\ MaxWarnings \in Nat /\ h \in Nat
      /\ MaxMatches \in Nat /\ MaxFallback \in Nat /\ H \in Nat
      /\ LM \in Nat /\ LM > 0 /\ LM \in {MaxMatches, H} /\ LF \in Nat /\ LF > 0
  BY ContextAssumption DEF AnyBundle4Chat
<1>1. /\ I \in Seq(Named) /\ W \in Seq(Named)
      /\ \A k \in 1..Len(I) : I[k][1] = "pod"
      /\ \A k \in 1..Len(W) : W[k][1] = "event"
  BY TextsOfTurn
<1>2. PICK a \in Seq(Named), b \in Seq(Named), c \in Seq(Named) :
         /\ M = (a \o b) \o c
         /\ \A k \in 1..Len(a) : a[k][1] = "pod"
         /\ \A k \in 1..Len(b) : b[k][1] = "event"
         /\ \A k \in 1..Len(c) : c[k][1] = "log"
  BY TextsOfTurn
<1>3. PICK p \in Seq(Named) : Fallback(data) = Upto(MaxFallback, p) /\ (data.pods # <<>> => Len(p) # 0)
  BY TextsOfTurn
<1>4. /\ keywords /\ M # <<>> => x = Upto(H, Upto(MaxMatches, M))
      /\ ~ (keywords /\ M # <<>>) => x = Upto(H, Upto(MaxFallback, p))
      /\ y = Upto(h, Upto(MaxIssues, I) \o Upto(MaxWarnings, W))
  BY <1>3 DEF FindRelevantContext, SystemPrompt
<1> HIDE DEF I, W, M, x, y, H, h
<1> DEFINE ab == a \o b
<1>5. ab \in Seq(Named) /\ Joined(ab, a, b)
  BY ConcatJoins
<1>6. M \in Seq(Named) /\ Joined(M, ab, c)
  <2>1. M = ab \o c
    BY <1>2
  <2> HIDE DEF ab
  <2>2. QED
    BY <1>5, <2>1, ConcatJoins
<1> HIDE DEF ab
<1>l. Upto(H, Upto(MaxMatches, M)) = Upto(LM, M) /\ Upto(H, Upto(MaxFallback, p)) = Upto(LF, p)
  <2>1. /\ MaxMatches <= H => Upto(H, Upto(MaxMatches, M)) = Upto(MaxMatches, M)
        /\ H <= MaxMatches => Upto(H, Upto(MaxMatches, M)) = Upto(H, M)
    BY <1>0, <1>6, UptoUpto
  <2>2. /\ MaxFallback <= H => Upto(H, Upto(MaxFallback, p)) = Upto(MaxFallback, p)
        /\ H <= MaxFallback => Upto(H, Upto(MaxFallback, p)) = Upto(H, p)
    BY <1>0, <1>3, UptoUpto
  <2>3. (MaxMatches <= H \/ H <= MaxMatches) /\ (MaxFallback <= H \/ H <= MaxFallback)
    BY <1>0
  <2>4. Upto(H, Upto(MaxMatches, M)) = Upto(LM, M)
    <3>1. CASE MaxMatches <= H
      BY <2>1, <3>1
    <3>2. CASE ~ (MaxMatches <= H)
      BY <2>1, <2>3, <3>2
    <3>3. QED
      BY <3>1, <3>2
  <2>5. Upto(H, Upto(MaxFallback, p)) = Upto(LF, p)
    <3>1. CASE MaxFallback <= H
      BY <2>2, <3>1
    <3>2. CASE ~ (MaxFallback <= H)
      BY <2>2, <2>3, <3>2
    <3>3. QED
      BY <3>1, <3>2
  <2>6. QED
    BY <2>4, <2>5
<1> HIDE DEF LM, LF
<1>7. /\ Upto(LM, M) \in Seq(Named) /\ Len(M) \in Nat
      /\ Len(Upto(LM, M)) = IF Len(M) < LM THEN Len(M) ELSE LM
      /\ \A i \in 1..Len(Upto(LM, M)) : Upto(LM, M)[i] = M[i]
      /\ Len(M) <= LM => Upto(LM, M) = M
      /\ Range(Upto(LM, M)) \subseteq Range(M)
  BY <1>0, <1>6, UptoFacts
<1>8. /\ Upto(LF, p) \in Seq(Named) /\ Len(p) \in Nat
      /\ Len(Upto(LF, p)) = IF Len(p) < LF THEN Len(p) ELSE LF
  BY <1>0, <1>3, UptoFacts
<1>9. /\ Upto(MaxIssues, I) \in Seq(Named) /\ Len(I) \in Nat
      /\ Len(I) <= MaxIssues => Upto(MaxIssues, I) = I
      /\ Range(Upto(MaxIssues, I)) \subseteq Range(I)
  BY <1>0, <1>1, UptoFacts
<1>10. /\ Upto(MaxWarnings, W) \in Seq(Named) /\ Len(W) \in Nat
       /\ Len(W) <= MaxWarnings => Upto(MaxWarnings, W) = W
  BY <1>0, <1>1, UptoFacts
<1>11. /\ y \in Seq(Named)
       /\ Len(y) # h => Range(y) = Range(Upto(MaxIssues, I)) \cup Range(Upto(MaxWarnings, W))
       /\ \A z \in Range(Upto(MaxIssues, I)) \ Range(y) : Range(y) \subseteq Range(Upto(MaxIssues, I))
  BY <1>0, <1>4, <1>9, <1>10, CutText
<1>12. x \in Seq(Named) /\ Range(x \o y) = Range(x) \cup Range(y)
  <2>1. x \in Seq(Named)
    BY <1>4, <1>l, <1>7, <1>8
  <2>2. QED
    BY <1>11, <2>1, RangeOfJoined
<1>13. \A z \in Range(I) \ Range(x \o y) :
          Len(I) > MaxIssues \/ (Len(y) = h /\ Range(y) \cap Range(W) = {})
  <2> SUFFICES ASSUME NEW z \in Range(I) \ Range(x \o y), ~ (Len(I) > MaxIssues)
               PROVE  Len(y) = h /\ Range(y) \cap Range(W) = {}
    OBVIOUS
  <2>1. Upto(MaxIssues, I) = I /\ z \in Range(I) \ Range(y)
    BY <1>0, <1>9, <1>12
  <2>2. Len(y) = h /\ Range(y) \subseteq Range(I)
    BY <1>11, <2>1
  <2>3. Range(I) = {I[i] : i \in 1..Len(I)} /\ Range(W) = {W[i] : i \in 1..Len(W)}
    BY <1>1, RangeEquality
  <2>4. \A v \in Range(I) : v[1] = "pod"
    BY <1>1, <2>3
  <2>5. \A v \in Range(W) : v[1] = "event"
    BY <1>1, <2>3
  <2>6. QED
    BY <2>2, <2>4, <2>5
<1>14. \A z \in Range(W) \ Range(x \o y) : Len(W) > MaxWarnings \/ Len(y) = h
  BY <1>0, <1>10, <1>11, <1>12
<1>15. Range(M) = {M[i] : i \in 1..Len(M)} /\ Range(x) = {x[i] : i \in 1..Len(x)}
       /\ Range(W) = {W[i] : i \in 1..Len(W)}
  BY <1>1, <1>6, <1>12, RangeEquality
<1>16. data.pods # <<>> => x # <<>>
  <2> SUFFICES ASSUME data.pods # <<>> PROVE x # <<>>
    OBVIOUS
  <2> DEFINE e == <<>>
  <2>1. Len(e) = 0 /\ e \in Seq(Named)
    OBVIOUS
  <2>2. M # e => Len(M) # 0
    BY <1>6, EmptySeq
  <2> HIDE DEF e
  <2>3. CASE keywords /\ M # e
    <3>1. Len(x) # 0
      BY <1>0, <1>4, <1>l, <1>7, <2>2, <2>3 DEF e
    <3>2. QED
      BY <2>1, <3>1 DEF e
  <2>4. CASE ~ (keywords /\ M # e)
    <3>1. Len(x) # 0
      BY <1>0, <1>3, <1>4, <1>l, <1>8, <2>4 DEF e
    <3>2. QED
      BY <2>1, <3>1 DEF e
  <2>5. QED
    BY <2>3, <2>4
<1>17. ASSUME keywords, Range(M) # {}
       PROVE  /\ Range(x) \subseteq Range(M)
              /\ Len(x) = LM \/ Range(x) = Range(M)
              /\ \A w \in Range(W) \ Range(x \o y) : w \in Range(M) =>
                    /\ Len(x) = LM /\ \A z \in Range(x) : z[1] # "log"
                    /\ Len(W) > MaxWarnings \/ Len(y) = h
  <2>1. M # <<>>
    <3> DEFINE e == <<>>
    <3>1. Len(e) = 0
      OBVIOUS
    <3> HIDE DEF e
    <3>2. M # e
      BY <1>15, <1>17, <3>1
    <3>3. QED
      BY <3>2 DEF e
  <2>2. x = Upto(LM, M)
    BY <1>4, <1>l, <1>17, <2>1
  <2>3. /\ Len(x) = IF Len(M) < LM THEN Len(M) ELSE LM
        /\ \A i \in 1..Len(x) : x[i] = M[i]
        /\ Len(M) <= LM => x = M
        /\ Range(x) \subseteq Range(M)
    BY <1>7, <2>2
  <2>4. Len(x) = LM \/ Range(x) = Range(M)
    BY <1>0, <1>7, <2>3
  <2>5. ASSUME NEW w \in Range(W) \ Range(x \o y), w \in Range(M)
        PROVE  /\ Len(x) = LM /\ \A z \in Range(x) : z[1] # "log"
               /\ Len(W) > MaxWarnings \/ Len(y) = h
    <3>1. w \notin Range(x) /\ w[1] = "event"
      BY <1>1, <1>12, <1>15, <2>5
    <3>2. Len(x) = LM /\ (Len(W) > MaxWarnings \/ Len(y) = h)
      BY <1>14, <2>4, <2>5, <3>1
    <3>3. PICK j \in 1..Len(M) : M[j] = w
      BY <1>15, <2>5
    <3>4. ASSUME NEW z \in Range(x), z[1] = "log"
          PROVE  FALSE
      <4>1. PICK k \in 1..Len(x) : x[k] = z
        BY <1>15, <3>4
      <4>2. k \in 1..Len(M) /\ M[k] = z
        BY <1>0, <1>7, <2>3, <4>1
      <4>3. k \notin 1..Len(ab)
        <5> SUFFICES ASSUME k \in 1..Len(ab) PROVE FALSE
          OBVIOUS
        <5>1. M[k] = ab[k]
          BY <1>6 DEF Joined
        <5>2. CASE k \in 1..Len(a)
          <6>1. ab[k] = a[k]
            BY <1>5, <5>2 DEF Joined
          <6>2. QED
            BY <1>2, <3>4, <4>2, <5>1, <5>2, <6>1
        <5>3. CASE k \notin 1..Len(a)
          <6>1. k - Len(a) \in 1..Len(b) /\ k = Len(a) + (k - Len(a))
            BY <1>5, <5>3 DEF Joined
          <6>2. PICK l \in 1..Len(b) : k = Len(a) + l
            BY <6>1
          <6>3. ab[k] = b[l]
            BY <1>5, <6>2 DEF Joined
          <6>4. QED
            BY <1>2, <3>4, <4>2, <5>1, <6>2, <6>3
        <5>4. QED
          BY <5>2, <5>3
      <4>4. j \in 1..Len(ab)
        <5> SUFFICES ASSUME j \notin 1..Len(ab) PROVE FALSE
          OBVIOUS
        <5>1. j - Len(ab) \in 1..Len(c) /\ j = Len(ab) + (j - Len(ab))
          BY <1>6 DEF Joined
        <5>2. PICK l \in 1..Len(c) : j = Len(ab) + l
          BY <5>1
        <5>3. M[j] = c[l]
          BY <1>6, <5>2 DEF Joined
        <5>4. QED
          BY <1>2, <3>1, <3>3, <5>2, <5>3
      <4>5. j \in 1..Len(x)
        <5>1. Len(x) \in Nat /\ Len(ab) \in Nat /\ k > Len(ab)
          BY <1>0, <1>5, <1>7, <2>3, <4>1, <4>3 DEF Joined
        <5>2. QED
          BY <4>1, <4>4, <5>1
      <4>6. QED
        BY <1>15, <2>3, <3>1, <3>3, <4>5
    <3>5. QED
      BY <3>2, <3>4
  <2>6. QED
    BY <2>3, <2>4, <2>5
<1>18. Len(x) = LM => Len(x) \in {MaxMatches, H}
  BY <1>0
<1>19. QED
  BY <1>13, <1>16, <1>17, <1>18 DEF TurnIsGrounded, I, W, M, x, y, H, h

\* Pods with any number of containers.
AnyPods == [phase : {"Pending", "Running", "Failed"}, unscheduled : BOOLEAN, marked : BOOLEAN,
            containers : Seq(Containers), inits : Seq(Containers)]

\* What LowestOf chooses.
LEMMA LowestIs ==
    ASSUME NEW S, S \subseteq Nat, NEW m \in S, \A x \in S : m <= x
    PROVE  LowestOf(S) = m
<1>1. S # {} /\ \A p \in S : (\A x \in S : p <= x) => p = m
  OBVIOUS
<1>2. QED
  BY <1>1 DEF LowestOf

\* LowestOf chooses a least place.
LEMMA LowestFound ==
    ASSUME NEW S, S \subseteq Nat, S # {}
    PROVE  LowestOf(S) \in S /\ \A x \in S : LowestOf(S) <= x
<1>1. PICK m \in S : \A x \in S : m <= x
  BY LeastNumber
<1>2. QED
  BY <1>1, LowestIs

\* Where a container has a reason.
LEMMA ReasonOfContainer ==
    ASSUME NEW c \in Containers
    PROVE  /\ c.reasons \subseteq 1..3 /\ c.restarts \in Nat
           /\ c.reasons = {} => ContainerReason(c) = None
           /\ c.reasons # {} => /\ ContainerReason(c) \in c.reasons /\ ContainerReason(c) # None
                                /\ \A x \in c.reasons : ContainerReason(c) <= x
<1>1. c.reasons \subseteq {1, 2, 3} /\ c.restarts \in 0..1
  BY DEF Containers, Terminations, Waiting, Terminated, LastTerminated
<1>2. c.reasons \subseteq Nat /\ c.restarts \in Nat /\ c.reasons \subseteq 1..3
  BY <1>1
<1>3. c.reasons = {} => ContainerReason(c) = None
  BY DEF ContainerReason, LowestOf
<1>4. c.reasons # {} => /\ ContainerReason(c) \in c.reasons
                        /\ \A x \in c.reasons : ContainerReason(c) <= x
  BY <1>2, LowestFound DEF ContainerReason
<1>5. QED
  BY <1>1, <1>2, <1>3, <1>4 DEF None

\* A pod with any containers tells its trouble.
LEMMA PodTells ==
    ASSUME NEW pod \in AnyPods
    PROVE  PodTellsItsTrouble(pod)
<1> DEFINE C == pod.containers
           I == pod.inits
           A == UNION {c.reasons : c \in ToSet(C)}
           B == {InitContainer : c \in {d \in ToSet(I) : d.reasons # {}}}
           D == {OfScheduling(pod), OfPod(pod)} \ {None}
           a == OfContainers(pod)
           b == OfInits(pod)
           s == OfScheduling(pod)
           p == OfPod(pod)
           R == Reason(pod)
           S == (A \cup B) \cup D
<1>1. /\ C \in Seq(Containers) /\ Len(C) \in Nat /\ DOMAIN C = 1..Len(C) /\ \A i \in 1..Len(C) : C[i] \in Containers
      /\ I \in Seq(Containers) /\ Len(I) \in Nat /\ DOMAIN I = 1..Len(I) /\ \A i \in 1..Len(I) : I[i] \in Containers
  <2>1. C \in Seq(Containers) /\ I \in Seq(Containers)
    BY DEF AnyPods
  <2> HIDE DEF C, I
  <2>2. QED
    BY <2>1
<1>2. S = (A \cup B) \cup D
  OBVIOUS
<1>3. R = IF a # None THEN a ELSE IF b # None THEN b ELSE IF s # None THEN s ELSE p
  BY DEF Reason, Else
<1>4. s \in {None, 5} /\ p \in {None, 6} /\ None = 0
  BY DEF OfScheduling, OfPod, None, Scheduling, PodLevel
<1>5. D \subseteq {5, 6} /\ (s # None <=> 5 \in D) /\ (p # None <=> 6 \in D)
  BY <1>4
<1>6. ToSet(C) = {C[i] : i \in 1..Len(C)} /\ ToSet(I) = {I[i] : i \in 1..Len(I)}
  <2> HIDE DEF C, I
  <2> QED
    BY <1>1 DEF ToSet
<1>7. WithReason(C) = {i \in 1..Len(C) : C[i].reasons # {}} /\ WithReason(I) = {i \in 1..Len(I) : I[i].reasons # {}}
  <2> HIDE DEF C, I
  <2>1. \A c \in Containers : ContainerReason(c) # None <=> c.reasons # {}
    BY ReasonOfContainer
  <2>2. QED
    BY <1>1, <2>1 DEF WithReason
<1>8. A \subseteq 1..3 /\ (A = {} <=> WithReason(C) = {})
  <2> HIDE DEF C
  <2>1. \A c \in Containers : c.reasons \subseteq 1..3
    BY ReasonOfContainer
  <2>2. QED
    BY <1>1, <1>6, <1>7, <2>1
<1>9. a = IF WithReason(C) = {} THEN None ELSE ContainerReason(C[LowestOf(WithReason(C))])
  BY DEF OfContainers
<1>10. b = IF WithReason(I) = {} THEN None ELSE 4
  BY DEF OfInits, InitContainer
<1>11. B \subseteq {4} /\ (B = {} <=> WithReason(I) = {})
  <2> HIDE DEF I
  <2> QED
    BY <1>1, <1>6, <1>7 DEF InitContainer
<1>12. WithReason(C) # {} => a \in A /\ a # None /\ (Len(C) <= 1 => \A x \in A : a <= x)
  <2> HIDE DEF C, A, a
  <2> SUFFICES ASSUME WithReason(C) # {}
               PROVE  a \in A /\ a # None /\ (Len(C) <= 1 => \A x \in A : a <= x)
    OBVIOUS
  <2> DEFINE W == WithReason(C)
  <2>1. W \subseteq Nat /\ W # {}
    BY <1>1, <1>7
  <2> HIDE DEF W
  <2>2. PICK i \in W : i = LowestOf(W)
    BY <2>1, LowestFound
  <2>3. i \in 1..Len(C) /\ C[i].reasons # {}
    BY <1>7, <2>2 DEF W
  <2>4. PICK c \in Containers : c = C[i]
    BY <1>1, <2>3
  <2>5. a = ContainerReason(c) /\ c.reasons # {}
    BY <1>9, <2>2, <2>3, <2>4 DEF W
  <2>6. a \in c.reasons /\ a # None /\ \A x \in c.reasons : a <= x
    BY <2>4, <2>5, ReasonOfContainer
  <2>7. c \in ToSet(C)
    BY <1>6, <2>3, <2>4
  <2>8. Len(C) <= 1 => A = c.reasons
    <3> SUFFICES ASSUME Len(C) <= 1 PROVE A = c.reasons
      OBVIOUS
    <3>1. \A j \in 1..Len(C) : j = i
      BY <1>1, <2>3
    <3>2. ToSet(C) = {c}
      BY <1>6, <2>3, <2>4, <3>1
    <3>3. QED
      BY <3>2 DEF A
  <2>9. QED
    BY <2>6, <2>7, <2>8 DEF A
<1>t. /\ Troubles(pod) \subseteq S
      /\ ~ HasFinished(pod) => Troubles(pod) = S
  <2> HIDE DEF C, I
  <2>1. \A c : Failures(c) \subseteq c.reasons /\ (~ c.finished => Failures(c) = c.reasons)
    BY DEF Failures
  <2> DEFINE A2 == UNION {Failures(c) : c \in ToSet(C)}
             B2 == {InitContainer : c \in {d \in ToSet(I) : Failures(d) # {}}}
  <2>2. Troubles(pod) = (A2 \cup B2) \cup D
    BY DEF Troubles, C, I
  <2>3. A2 \subseteq A /\ B2 \subseteq B
    BY <2>1
  <2>4. ASSUME ~ HasFinished(pod)
        PROVE  A2 = A /\ B2 = B
    <3>1. \A c \in ToSet(C) \cup ToSet(I) : Failures(c) = c.reasons
      BY <2>1, <2>4 DEF HasFinished, C, I
    <3>2. QED
      BY <3>1
  <2> HIDE DEF A, B, D, A2, B2
  <2>5. QED
    BY <2>2, <2>3, <2>4
<1> HIDE DEF A, B, D, a, b, s, p, R, S
<1>13. R = None <=> S = {}
  BY <1>2, <1>3, <1>4, <1>5, <1>8, <1>9, <1>10, <1>11, <1>12
<1>14. S \subseteq Nat
  BY <1>2, <1>5, <1>8, <1>11
<1>15. A = {} => R = LowestOf(S)
  <2> SUFFICES ASSUME A = {} PROVE R = LowestOf(S)
    OBVIOUS
  <2>1. a = None
    BY <1>8, <1>9
  <2>2. CASE b # None
    <3>0. R = 4 /\ S = B \cup D
      BY <1>2, <1>3, <1>4, <1>5, <1>10, <2>1, <2>2
    <3>1. R = 4 /\ 4 \in S /\ \A x \in S : 4 <= x
      BY <1>4, <1>5, <1>10, <1>11, <2>2, <3>0
    <3>2. QED
      BY <1>14, <3>1, LowestIs
  <2>3. CASE b = None /\ s # None
    <3>0. R = 5 /\ S = B \cup D
      BY <1>2, <1>3, <1>4, <1>5, <1>10, <2>1, <2>3
    <3>1. R = 5 /\ 5 \in S /\ \A x \in S : 5 <= x
      BY <1>4, <1>5, <1>10, <1>11, <2>3, <3>0
    <3>2. QED
      BY <1>14, <3>1, LowestIs
  <2>4. CASE b = None /\ s = None /\ p # None
    <3>0. R = 6 /\ S = B \cup D
      BY <1>2, <1>3, <1>4, <1>5, <1>10, <2>1, <2>4
    <3>1. R = 6 /\ 6 \in S /\ \A x \in S : 6 <= x
      BY <1>4, <1>5, <1>10, <1>11, <2>4, <3>0
    <3>2. QED
      BY <1>14, <3>1, LowestIs
  <2>5. CASE b = None /\ s = None /\ p = None
    <3>1. R = None /\ S = {}
      BY <1>2, <1>3, <1>4, <1>5, <1>10, <1>11, <2>1, <2>5
    <3>2. QED
      BY <3>1 DEF LowestOf
  <2>6. QED
    BY <2>2, <2>3, <2>4, <2>5
<1>16. A # {} => R = a /\ R \in 1..3 /\ (Len(C) <= 1 => R = LowestOf(S))
  <2> SUFFICES ASSUME A # {} PROVE R = a /\ R \in 1..3 /\ (Len(C) <= 1 => R = LowestOf(S))
    OBVIOUS
  <2>1. R = a /\ a \in A /\ a \in 1..3 /\ (Len(C) <= 1 => \A x \in A : a <= x)
    BY <1>3, <1>8, <1>12
  <2>2. \A x \in B \cup D : x \in Nat /\ 3 < x
    BY <1>5, <1>11
  <2>3. Len(C) <= 1 => \A x \in S : a <= x
    BY <1>2, <1>8, <2>1, <2>2
  <2>4. a \in S
    BY <1>2, <2>1
  <2>5. Len(C) <= 1 => a = LowestOf(S)
    BY <1>14, <2>3, <2>4, LowestIs
  <2>6. QED
    BY <2>1, <2>5
<1>17. (\E c \in ToSet(C \o I) : c.restarts > 0) => Unhealthy(pod)
  <2> SUFFICES ASSUME NEW c \in ToSet(C \o I), c.restarts > 0 PROVE Unhealthy(pod)
    OBVIOUS
  <2> DEFINE st == C \o I
             d == [i \in 1..Len(st) |-> st[i].restarts]
  <2>1. st \in Seq(Containers) /\ Len(st) \in Nat /\ DOMAIN st = 1..Len(st)
        /\ \A i \in 1..Len(st) : st[i] \in Containers
    <3>1. st \in Seq(Containers)
      <4> HIDE DEF C, I
      <4> QED
        BY <1>1
    <3> HIDE DEF st
    <3>2. QED
      BY <3>1
  <2>2. RestartCount(pod) = MapThenSumSet(LAMBDA i : st[i].restarts, DOMAIN st)
    BY DEF RestartCount
  <2>3. PICK k \in 1..Len(st) : c = st[k]
    BY <2>1 DEF ToSet
  <2> HIDE DEF st
  <2>4. \A i \in 1..Len(st) : d[i] \in Nat /\ d[i] = st[i].restarts
    BY <2>1, ReasonOfContainer
  <2> HIDE DEF d
  <2>5. RestartCount(pod) = SumOf(d, 1..Len(st))
    <3> DEFINE F == 1..Len(st)
               Same(it) == it = [x \in SUBSET F |-> IF x = {} THEN 0
                                   ELSE st[CHOOSE i \in x : TRUE].restarts + it[x \ {CHOOSE i \in x : TRUE}]]
    <3>1. RestartCount(pod) = (CHOOSE it : Same(it))[F]
      BY <2>1, <2>2 DEF MapThenSumSet, MapThenFoldSet
    <3>2. SumOf(d, F) = (CHOOSE it : Summing(it, d, F))[F]
      BY DEF SumOf, MapThenSumSet, MapThenFoldSet, Summing
    <3>3. \A it : Same(it) <=> Summing(it, d, F)
      <4>1. \A x \in SUBSET F : x # {} => st[CHOOSE i \in x : TRUE].restarts = d[CHOOSE i \in x : TRUE]
        <5> SUFFICES ASSUME NEW x \in SUBSET F, x # {}
                     PROVE  st[CHOOSE i \in x : TRUE].restarts = d[CHOOSE i \in x : TRUE]
          OBVIOUS
        <5>1. (CHOOSE i \in x : TRUE) \in x
          OBVIOUS
        <5>2. PICK i \in F : i = (CHOOSE j \in x : TRUE)
          BY <5>1
        <5>3. QED
          BY <2>4, <5>2
      <4> HIDE DEF F
      <4>2. \A it : [x \in SUBSET F |-> IF x = {} THEN 0
                                   ELSE st[CHOOSE i \in x : TRUE].restarts + it[x \ {CHOOSE i \in x : TRUE}]]
                    = [x \in SUBSET F |-> IF x = {} THEN 0
                                   ELSE d[CHOOSE i \in x : TRUE] + it[x \ {CHOOSE i \in x : TRUE}]]
        BY <4>1
      <4>3. QED
        BY <4>2 DEF Summing
    <3>4. QED
      BY <3>1, <3>2, <3>3
  <2>6. IsFiniteSet(1..Len(st))
    BY <2>1, FS_Interval
  <2>7. SumOf(d, 1..Len(st)) = d[k] + SumOf(d, (1..Len(st)) \ {k})
    BY <2>4, <2>6, SumTake
  <2>8. SumOf(d, (1..Len(st)) \ {k}) \in Nat
    <3> DEFINE G == (1..Len(st)) \ {k}
    <3>1. IsFiniteSet(G)
      BY <2>6, FS_Subset
    <3>2. \A x \in G : d[x] \in Nat
      BY <2>4
    <3> HIDE DEF G
    <3>3. SumOf(d, G) \in Nat
      BY <3>1, <3>2, SumType
    <3>4. QED
      BY <3>3 DEF G
  <2>9. d[k] \in Nat /\ d[k] > 0
    BY <2>3, <2>4
  <2>10. QED
    BY <2>5, <2>7, <2>8, <2>9 DEF Unhealthy
<1>18. QED
  <2>1. Len(C) <= 1 => R = LowestOf(S)
    BY <1>15, <1>16
  <2>2. R > LastTerminated => R = LowestOf(S)
    BY <1>15, <1>16 DEF LastTerminated
  <2>3. Troubles(pod) # {} => R # None
    BY <1>13, <1>t
  <2>4. ~ HasFinished(pod) =>
           /\ Troubles(pod) = {} => R = None
           /\ Len(C) <= 1 \/ R > LastTerminated => R = LowestOf(Troubles(pod))
    BY <1>13, <1>t, <2>1, <2>2
  <2>5. QED
    BY <1>17, <2>3, <2>4 DEF PodTellsItsTrouble, R

\* However many issues there are.
LEMMA AnchorsFollow ==
    ASSUME NEW issues \in Seq({"known", "other"})
    PROVE  AnchorsAreSuggested(issues)
<1> DEFINE T == {"known", "other", "first", "kubectl"}
           f == Filtered(issues, {"known"})
           c == Contextual(issues)
           q == c \o Anchors
<1>1. f \in Seq({"known", "other"}) /\ \A i \in 1..Len(f) : f[i] \in {"known"}
  BY FilteredType, FilteredElements
<1>2. f \in Seq({"known"})
  <2> HIDE DEF f
  <2>1. PICK n \in Nat : n = Len(f) /\ f \in [1..n -> {"known", "other"}]
    BY <1>1, LenProperties
  <2>2. f \in [1..n -> {"known"}]
    BY <1>1, <2>1
  <2>3. QED
    BY <2>2
<1>3. c = Upto(2, f)
  BY DEF Contextual
<1> HIDE DEF f, c
<1>4. c \in Seq({"known"}) /\ Len(c) \in Nat /\ Len(c) <= 2
  <2> DEFINE K == {"known"}
             two == 2
  <2>1. f \in Seq(K) /\ two \in Nat /\ c = Upto(two, f)
    BY <1>2, <1>3
  <2> HIDE DEF K, two
  <2>2. c \in Seq(K) /\ Len(f) \in Nat /\ Len(c) = IF Len(f) < two THEN Len(f) ELSE two
    BY <2>1, UptoFacts
  <2>3. QED
    BY <2>2 DEF K, two
<1>5. c \in BoundedSeq({"known"}, 2)
  <2>0. PICK n \in Nat : n = Len(c) /\ n <= 2
    BY <1>4
  <2>1. n \in 0..2
    BY <2>0
  <2>2. c \in [1..n -> {"known"}]
    BY <1>4, <2>0, LenProperties
  <2>3. QED
    BY <2>1, <2>2 DEF BoundedSeq, SeqOf
<1>6. Anchors \in Seq(T) /\ Len(Anchors) = 2
  BY DEF Anchors
<1>7. c \in Seq(T)
  <2>1. {"known"} \subseteq T
    OBVIOUS
  <2> HIDE DEF T
  <2>2. QED
    BY <1>4, <2>1, SeqMonotonic
<1>8. q \in Seq(T) /\ Len(q) <= 4 /\ Len(q) \in Nat
  <2> HIDE DEF T
  <2>1. q \in Seq(T) /\ Joined(q, c, Anchors)
    BY <1>6, <1>7, ConcatJoins
  <2>2. QED
    BY <1>4, <1>6, <2>1 DEF Joined
<1>9. Upto(4, q) = q
  <2> HIDE DEF T, q
  <2> QED
    BY <1>8, UptoFacts
<1>10. SuggestedQuestions(issues) = q
  BY <1>9 DEF SuggestedQuestions, c
<1>11. QED
  BY <1>5, <1>10 DEF AnchorsAreSuggested

\* Lists that are bounded are lists.
LEMMA BoundedData ==
    /\ Logs \subseteq Seq(ErrorLines \cup PlainLines)
    /\ PodStatuses \subseteq AnyPods
    /\ Bundles4Chat \subseteq AnyBundle4Chat
    /\ BoundedSeq({"known", "other"}, LongestList + 2) \subseteq Seq({"known", "other"})
<1>1. /\ LongestLog \in Nat /\ MaxStatuses \in Nat /\ LongestList \in Nat
  BY ExcerptAssumption, StatusAssumption, ContextAssumption
<1>2. Logs \subseteq Seq(ErrorLines \cup PlainLines)
  BY <1>1, BoundedIsSeq DEF Logs
<1>3. PodStatuses \subseteq AnyPods
  <2>1. BoundedSeq(Containers, MaxStatuses) \subseteq Seq(Containers)
    BY <1>1, BoundedIsSeq
  <2>2. QED
    BY <2>1 DEF PodStatuses, AnyPods
<1>4. Bundles4Chat \subseteq AnyBundle4Chat
  <2>1. /\ BoundedSeq([matches : BOOLEAN, issue : BOOLEAN], LongestList) \subseteq Seq([matches : BOOLEAN, issue : BOOLEAN])
        /\ BoundedSeq([matches : BOOLEAN, warning : BOOLEAN], LongestList) \subseteq Seq([matches : BOOLEAN, warning : BOOLEAN])
        /\ BoundedSeq([matches : BOOLEAN], LongestList) \subseteq Seq([matches : BOOLEAN])
    BY <1>1, BoundedIsSeq
  <2>2. /\ 0..(MaxIssues + MaxWarnings) \subseteq Nat
        /\ 1..(MaxMatches + MaxFallback) \subseteq Nat \ {0}
    BY ContextAssumption
  <2>3. QED
    BY <2>1, <2>2 DEF Bundles4Chat, AnyBundle4Chat
<1>5. BoundedSeq({"known", "other"}, LongestList + 2) \subseteq Seq({"known", "other"})
  <2>1. LongestList + 2 \in Nat
    BY <1>1
  <2>2. QED
    BY <2>1, BoundedIsSeq
<1>6. QED
  BY <1>2, <1>3, <1>4, <1>5

\* In every state EnforceBudget trims data with any number of logs, events and pods of any
\* size, which constants bound, for any limit up to such a bound, as far as it must and no
\* further: no pass runs, and nothing is trimmed, that an earlier pass made needless.
THEOREM EveryBudgetIsKept == Spec => []BudgetIsKept
<1>1. BudgetIsKept
  <2> SUFFICES ASSUME NEW data \in BudgetData, NEW limit \in 0..MaxLimit
               PROVE  TrimsNoMoreThanNeeded(data, limit)
    BY DEF BudgetIsKept
  <2>1. limit \in Nat
    BY BudgetAssumption
  <2>2. data \in BudgetDatas
    <3>1. /\ BoundedSeq(0..Largest, MaxMessages) \subseteq Seq(0..Largest)
          /\ BoundedSeq(0..Largest, MaxExcerpts) \subseteq Seq(0..Largest)
      BY BudgetAssumption, BoundedIsSeq
    <3>2. Seq(0..Largest) \subseteq Seq(Nat)
      <4> DEFINE B == 0..Largest
      <4>1. B \subseteq Nat
        BY BudgetAssumption
      <4> HIDE DEF B
      <4>2. Seq(B) \subseteq Seq(Nat)
        BY <4>1, SeqMonotonic
      <4>3. QED
        BY <4>2 DEF B
    <3>3. 0..Largest \subseteq Nat
      BY BudgetAssumption
    <3>4. QED
      BY <3>1, <3>2, <3>3 DEF BudgetData, BudgetDatas
  <2>3. QED
    BY <2>1, <2>2, BudgetTrims
<1>2. QED
  BY <1>1, PTL

\* In every state readLogExcerpt keeps the end of a log of any length, its first errors,
\* and no text twice, with any limits that add up as the code's do.
THEOREM EveryExcerptKeeps == Spec => []ExcerptsKeepWhatMatters
<1>1. ExcerptsKeepWhatMatters
  BY BoundedData, ExcerptKeeps DEF ExcerptsKeepWhatMatters
<1>2. QED
  BY <1>1, PTL

\* In every state buildPodSummary passes over no trouble of a pod with any containers, gives
\* no reason to a healthy one unless a container has finished, and a restart of any container
\* gets the pod's logs read.
THEOREM EveryPodTells == Spec => []PodsTellTheirTrouble
<1>1. PodsTellTheirTrouble
  BY BoundedData, PodTells DEF PodsTellTheirTrouble
<1>2. QED
  BY <1>1, PTL

\* In every state a chat turn about any bundle, of lines of any length, says something of it; it
\* loses no warning that matches unless both texts are full or cut, and no pod with an issue
\* but by the limit on pods or a cut before all warnings; and the chat panel suggests how to go on.
THEOREM EveryTurnIsGrounded == Spec => []ChatIsGrounded
<1>1. ChatIsGrounded
  BY BoundedData, Grounded, AnchorsFollow DEF ChatIsGrounded
<1>2. QED
  BY <1>1, PTL
===============================================================================
