------------------------------ MODULE BundleRoot ------------------------------
(***************************************************************************)
(* findBundleRoot (internal/bundle/parser.go): in which directory of an    *)
(* extracted archive the bundle is.  A directory is the sequence of names  *)
(* that leads to it, and of an archive only the directories that look like *)
(* the root of a bundle matter.                                            *)
(***************************************************************************)
EXTENDS Integers, Sequences, FiniteSets, FiniteSetsExt

CONSTANTS DirNames,   \* names of directories, numbered as os.ReadDir sorts them
          MacOS,      \* the one that is __MACOSX
          RootDepth,  \* levels searched below the top
          MaxMarked   \* bound: directories of an archive that look like a root

ASSUME RootAssumption == DirNames \subseteq Nat /\ {RootDepth, MaxMarked} \subseteq Nat

Dirs == UNION {[1..n -> DirNames] : n \in 0..RootDepth}
Archives == {{}} \cup {{m[i] : i \in 1..MaxMarked} : m \in [1..MaxMarked -> Dirs]}

WalkForRoot_AnyDir(marked) ==  \* mutant: found is returned whether it looks like a root or not
    LET walk[dir \in Dirs] ==
            LET below == DirNames \ {MacOS}
            IN  IF dir \in marked \/ Len(dir) = RootDepth THEN dir
                ELSE IF below = {} THEN dir ELSE walk[Append(dir, Min(below))]
    IN  walk[<<>>]

\* walkForRoot from the top: a directory that looks like a root, or the first of
\* those that are found below it, or the directory itself.
WalkForRoot(marked) ==
    LET walk[dir \in Dirs] ==
            IF dir \in marked \/ Len(dir) = RootDepth THEN dir
            ELSE LET found == {n \in DirNames \ {MacOS} : walk[Append(dir, n)] \in marked}
                 IN  IF found = {} THEN dir ELSE walk[Append(dir, Min(found))]
    IN  walk[<<>>]

-----------------------------------------------------------------------------
Above(c, d) == Len(c) < Len(d) /\ c = SubSeq(d, 1, Len(c))
ComesBefore(c, d) == \E n \in 1..Min({Len(c), Len(d)}) :
                        c[n] < d[n] /\ \A i \in 1..(n - 1) : c[i] = d[i]

\* The comment at parser.go:27 says that walkForRoot returns the deepest directory
\* that looks like a root; the code returns a topmost one, and that is what is claimed here.
\* When some directory looks like a root, outside of __MACOSX, one of them is found:
\* none above it looks like a root, and it is the first of such in the order of
\* their names, whatever directories that only lead nowhere come before it.  Else
\* the archive's top stands in for it.
RootIsFound(marked) ==
    LET roots == {d \in marked : /\ \A i \in DOMAIN d : d[i] # MacOS
                                 /\ \A c \in marked : ~Above(c, d)}
        root == WalkForRoot(marked)
    IN  IF roots = {} THEN root = <<>>
        ELSE root \in roots /\ \A d \in roots : ~ComesBefore(d, root)
===============================================================================
