----------------------------- MODULE Pathnames ------------------------------
(***************************************************************************)
(* The texts of pathnames (misc/FileUtil.cpp) and what repositories make of*)
(* them (repository/Repository.cpp): the directory of products from the    *)
(* text that the user gives for it, pathnames of what a scan or a watcher  *)
(* finds there, the names of products, their pathnames in a subscriber's   *)
(* repository, and the way back up to the directory when one is pruned.    *)
(*                                                                         *)
(* A text is a sequence of characters: "/", "." or another one.            *)
(***************************************************************************)
EXTENDS Naturals, Sequences, SequencesExt

CONSTANTS
  Cwds,        \* getcwd(): texts of the current directory (external)
  Roots,       \* Texts that are given as the parent of a directory of products
  Words,       \* Texts of the names of files and directories: not empty, not ".", without "/"
  CompleteDir, \* Text of COMPLETE_DIR_NAME, such a name
  PathMax      \* PATH_MAX: characters of a pathname, with the one that ends it

VARIABLES
  pubDir, \* prodDir of the publisher's repository
  subDir, \* prodDir of a subscriber's repository
  place,  \* Pathname of the file or directory that the publisher has come to
  below,  \* History: the names on the way there
  rising  \* Does pruneEmptyDirPath() go back up?

vars == <<pubDir, subDir, place, below, rising>>

Sep == "/"
IsAbsolute(path) == Head(path) = Sep

MakeAbsolute(path, cwd) == IF path # <<>> /\ IsAbsolute(path) THEN path ELSE cwd \o <<Sep>> \o path

\* Mutant of EnsureTrailingSep
NoTrailingSep(path) == path
EnsureTrailingSep(path) == IF path = <<>> \/ Last(path) = Sep THEN path ELSE Append(path, Sep)

Pathname(dirPath, filename) == EnsureTrailingSep(dirPath) \o filename

\* Mutant of Truncated: one too few
TruncatedShort(path) == SubSeq(path, 1, IF Len(path) < PathMax - 2 THEN Len(path) ELSE PathMax - 2)
\* What the buffer holds that the C library's functions work on
Truncated(path) == SubSeq(path, 1, IF Len(path) < PathMax - 1 THEN Len(path) ELSE PathMax - 1)

\* dirname(3) and basename(3): separators at the end don't count.
Trimmed(path) ==
  LET others == {k \in DOMAIN path : path[k] # Sep}
  IN SubSeq(path, 1, IF others = {} THEN 0 ELSE CHOOSE k \in others : \A j \in others : j <= k)
LastSep(path) == SelectLastInSeq(path, LAMBDA c : c = Sep)
DirnameOf(path) ==
  LET text == Trimmed(path)
      dir == Trimmed(SubSeq(text, 1, LastSep(text)))
  IN IF LastSep(text) = 0 THEN IF path # <<>> /\ text = <<>> THEN <<Sep>> ELSE <<".">>
     ELSE IF dir = <<>> THEN <<Sep>> ELSE dir
BasenameOf(path) ==
  LET text == Trimmed(path)
  IN IF path = <<>> THEN <<".">> ELSE IF text = <<>> THEN <<Sep>> ELSE SubSeq(text, LastSep(text) + 1, Len(text))

Dirname(path) == DirnameOf(Truncated(path))
Filename(path) == BasenameOf(Truncated(path))

\* Repository::Impl(): prodDir
ProdDir(root, cwd) == EnsureTrailingSep(MakeAbsolute(Pathname(root, CompleteDir), cwd))

GetProdName(dir, path) == SubSeq(path, Len(dir) + 1, Len(path))

\* Repository::Impl::getAbsPathname(): {} if it throws
GetAbsPathname(dir, name) ==
  IF IsPrefix(dir, name) THEN {name} ELSE IF IsAbsolute(name) THEN {} ELSE {dir \o name}

\* The names that the operating system follows from / on
Resolve(path) ==
  LET Follow(names, k) ==
        IF path[k] = Sep \/ (k > 1 /\ path[k - 1] # Sep) THEN names
        ELSE LET ends == {j \in k..Len(path) : path[j] # Sep /\ (j = Len(path) \/ path[j + 1] = Sep)}
                 word == SubSeq(path, k, CHOOSE j \in ends : \A i \in ends : j <= i)
             IN IF word = <<".">> THEN names ELSE Append(names, word)
  IN FoldLeft(Follow, <<>>, [k \in DOMAIN path |-> k])
SameFile(path, other) == Resolve(path) = Resolve(other)

-----------------------------------------------------------------------------

Init ==
  /\ \E cwd \in Cwds : \E pub, sub \in Roots : pubDir = ProdDir(pub, cwd) /\ subDir = ProdDir(sub, cwd)
  /\ place = pubDir /\ below = <<>> /\ rising = FALSE

\* scanRepo(), Watcher: what is found in the directory; the operating system takes no longer pathnames.
Enter(word) ==
  /\ ~ rising /\ Len(Pathname(place, word)) < PathMax
  /\ place' = Pathname(place, word) /\ below' = Append(below, word)
  /\ UNCHANGED <<pubDir, subDir, rising>>

\* pruneEmptyDirPath(), until it is at prodDir
Rise ==
  /\ ~ SameFile(place, pubDir) /\ below # <<>>
  /\ place' = Dirname(place) /\ below' = Front(below) /\ rising' = TRUE
  /\ UNCHANGED <<pubDir, subDir>>

Next == Rise \/ \E word \in Words : Enter(word)
Spec == Init /\ [][Next]_vars

-----------------------------------------------------------------------------

TypeOK ==
  /\ \A dir \in {pubDir, subDir} : IsAbsolute(dir)
  /\ Len(place) < PathMax \/ place = pubDir
  /\ below \in Seq(Words) /\ rising \in BOOLEAN

\* Whatever texts the directories are given by, the name of a product leads back to its file, and
\* to a file at the same place in a subscriber's repository (Repository: getProdName(),
\* getAbsPathname(), SubRepo: tryFinish()).
NamesLeadBack ==
  ~ rising /\ below # <<>> =>
    LET name == GetProdName(pubDir, place)
    IN /\ GetAbsPathname(pubDir, name) = {place}
       /\ \A path \in GetAbsPathname(subDir, name) : Resolve(path) = Resolve(subDir) \o below
       /\ GetAbsPathname(subDir, name) # {}

\* The way up meets every directory of the way down and ends at the directory of products, and a
\* file lies under its name in the directory that is its parent, up to the longest
\* pathname there is (FileUtil: dirname(), filename(), pruneEmptyDirPath()).
DirnamesLeadUp ==
  /\ Resolve(place) = Resolve(pubDir) \o below
  /\ below # <<>> => SameFile(Pathname(Dirname(place), Filename(place)), place)
=============================================================================
