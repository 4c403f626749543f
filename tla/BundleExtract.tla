---------------------------- MODULE BundleExtract ----------------------------
(***************************************************************************)
(* Extract (internal/bundle/extract.go): the loop over the entries of a    *)
(* tar archive that writes them into a new directory, with a limit on each *)
(* file and one on all of them, and removes the directory when it fails.   *)
(* The archive is whatever the loop reads next.  A path is an entry's name *)
(* after sanitizePath; RemoveAll is taken to succeed.                      *)
(***************************************************************************)
EXTENDS Integers, FiniteSets, FiniteSetsExt

CONSTANTS Paths,       \* paths in the archive
          Parent,      \* directory of each path: a path, or Top
          Top,
          NoFile, Dir, \* what is at a path that is no regular file
          FileSizes,   \* sizes of regular files in the archive
          MaxFileSize, \* MaxFileSizeBytes
          MaxTotal,    \* maxBytes
          MaxEntries   \* bound: entries of the archive

ASSUME ExtractAssumption == /\ Parent \in [Paths -> Paths \cup {Top}]
                            /\ Top \notin Paths
                            /\ FileSizes \subseteq Nat
                            /\ {MaxFileSize, MaxTotal, MaxEntries} \subseteq Nat
                            /\ {NoFile, Dir} \cap Nat = {} /\ NoFile # Dir

VARIABLES
    place,     \* "make", "loop", "fail" (RemoveAll is next), "end" (EOF), then "returned"
    ok,        \* Extract returned without an error
    disk,      \* disk[p]: NoFile, Dir, or the size of the file at path p
    total,     \* totalBytes
    entries,   \* entries read
    wanted,    \* size of the file the last regular entry of a path stood for (history)
    cancelled  \* the upload's context is done

local == <<place, ok, disk, total, entries, wanted>>

Nowhere == [p \in Paths |-> NoFile]

ExtractInit == /\ place = "make" /\ ok = FALSE
               /\ disk = Nowhere
               /\ total = 0 /\ entries = 0
               /\ wanted = Nowhere

\* os.MkdirTemp, and the header of the gzip stream.
MakeDir == /\ place = "make"
           /\ place' = "loop"
           /\ UNCHANGED <<ok, disk, total, entries, wanted>>

MakeDirFails == /\ place = "make"
                /\ place' = "returned"
                /\ UNCHANGED <<ok, disk, total, entries, wanted>>

-----------------------------------------------------------------------------
(* One turn of the loop, which looks at the context first. *)

Turn == place = "loop" /\ ~cancelled /\ entries < MaxEntries /\ entries' = entries + 1
Is(p, size) == disk[p] \notin {NoFile, Dir} /\ disk[p] = size
IsFile(p) == p # Top /\ disk[p] \notin {NoFile, Dir}

\* disk with something at path p, and what MkdirAll makes above it.
Put(p, what) == [q \in Paths |-> CASE q = p -> what
                                   [] q # p /\ q = Parent[p] -> Dir
                                   [] OTHER -> disk[q]]

\* Unsafe paths and entries that are neither directory nor regular file.
SkipEntry == Turn /\ UNCHANGED <<place, ok, disk, total, wanted>>

\* MkdirAll wants no file at the path or above it.
MakeEntryDir(p) ==
    /\ Turn
    /\ IF IsFile(p) \/ IsFile(Parent[p]) THEN place' = "fail" /\ UNCHANGED disk
       ELSE disk' = Put(p, Dir) /\ UNCHANGED place
    /\ UNCHANGED <<ok, total, wanted>>

Copied_Whole(size) == size                     \* mutant: no LimitReader
Copied(size) == Min({size, MaxFileSize + 1})

TotalWith(n) == total + n

\* Regular files go to writeFile, which copies one byte more than it allows ...
WriteEntry(p, size) ==
    /\ Turn
    /\ LET n == Copied(size)
       IN  IF IsFile(Parent[p]) \/ disk[p] = Dir
           THEN place' = "fail" /\ UNCHANGED <<disk, total, wanted>>
           ELSE /\ disk' = Put(p, n)
                /\ wanted' = [wanted EXCEPT ![p] = size]
                /\ total' = IF n > MaxFileSize THEN total ELSE TotalWith(n)
                /\ place' = IF n > MaxFileSize \/ TotalWith(n) > MaxTotal THEN "fail" ELSE "loop"
    /\ UNCHANGED ok

WriteEntryCut_Kept(p, size) ==  \* mutant: a short copy passes for a file
    /\ Turn
    /\ ~IsFile(Parent[p]) /\ disk[p] # Dir
    /\ \E n \in 0..Min({size, MaxFileSize}) :
          /\ disk' = Put(p, n)
          /\ total' = total + n
    /\ wanted' = [wanted EXCEPT ![p] = size]
    /\ UNCHANGED <<place, ok>>

\* ... and may be cut short: the archive is damaged or the disk is full.
WriteEntryCut(p, size) ==
    /\ Turn
    /\ ~IsFile(Parent[p]) /\ disk[p] # Dir
    /\ \E n \in 0..Min({size, MaxFileSize}) : disk' = Put(p, n)
    /\ wanted' = [wanted EXCEPT ![p] = size]
    /\ place' = "fail"
    /\ UNCHANGED <<ok, total>>

\* The gzip stream or a header of the archive is damaged, or the context is done.
LoopFails == /\ place = "loop"
             /\ place' = "fail"
             /\ UNCHANGED <<ok, disk, total, entries, wanted>>

EndOfArchive == /\ place = "loop" /\ ~cancelled
                /\ place' = "end"
                /\ UNCHANGED <<ok, disk, total, entries, wanted>>

RemoveDir == /\ place = "fail"
             /\ place' = "returned"
             /\ disk' = Nowhere
             /\ UNCHANGED <<ok, total, entries, wanted>>

\* Extract returns the directory.  What Parse reads in it is chosen when it is
\* read, so that nothing of the loop is kept.
HandOver == /\ place = "end"
            /\ place' = "returned" /\ ok' = TRUE
            /\ disk' = Nowhere /\ wanted' = Nowhere
            /\ total' = 0 /\ entries' = 0

ExtractNext == \/ MakeDir \/ MakeDirFails \/ SkipEntry
               \/ \E p \in Paths : \/ MakeEntryDir(p)
                                   \/ \E size \in FileSizes : WriteEntry(p, size) \/ WriteEntryCut(p, size)
               \/ LoopFails \/ EndOfArchive \/ RemoveDir \/ HandOver

-----------------------------------------------------------------------------
(* Properties. *)

Files == {p \in Paths : IsFile(p)}
OnDisk == MapThenSumSet(LAMBDA p : disk[p], Files)

ExtractTypeOK == /\ place \in {"make", "loop", "fail", "end", "returned"}
                 /\ ok \in BOOLEAN
                 /\ disk \in [Paths -> {NoFile, Dir} \cup 0..(MaxFileSize + 1)]
                 /\ total \in 0..(MaxTotal + MaxFileSize)
                 /\ entries \in 0..MaxEntries
                 /\ wanted \in [Paths -> {NoFile} \cup FileSizes]

\* The directory never holds more than the limit on all files and one file more
\* than the limit on a file allows: the checks come after the bytes are written.
DiskIsBounded == OnDisk <= MaxTotal + MaxFileSize + 1

\* An archive that is extracted to its end has every file, as the last entry of its
\* path has it, and all of them are within the limits; any other leaves nothing.
AllOrNothing ==
    /\ place = "end" => /\ \A p \in Paths : wanted[p] # NoFile => Is(p, wanted[p])
                        /\ \A p \in Files : disk[p] <= MaxFileSize
                        /\ OnDisk <= MaxTotal
    /\ place = "returned" => Files = {}
==============================================================================
