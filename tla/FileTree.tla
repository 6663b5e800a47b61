------------------------------ MODULE FileTree ------------------------------
(***************************************************************************)
(* What repositories do to the tree of files: the calls of misc/FileUtil   *)
(* that create, link, rename and remove, and the names of products as      *)
(* paths below a directory (repository/Repository.cpp). A path is the      *)
(* sequence of its components from / on.                                   *)
(***************************************************************************)
EXTENDS Naturals, Sequences, FiniteSets, SequencesExt

CONSTANTS
  Root,       \* Absolute path of the directory of products
  Names,      \* Of products: paths relative to it
  Incomplete, \* Absolute path of the directory of incomplete products
  Ids,        \* What they are named by
  Outside     \* Another directory, and what links lead to

VARIABLES
  tree,  \* "file", "dir" or "link" (to Outside) by path
  asked, \* The call made last: [call, path]
  failed \* Did it throw?

treeVars == <<tree, asked, failed>>

Prefix(path, n) == SubSeq(path, 1, n)
IsBelow(path, dir) == Len(path) > Len(dir) /\ Prefix(path, Len(dir)) = dir
There == Append(Outside, "there")

Init ==
  /\ tree = [p \in {Root, Outside, There} |-> IF p = There THEN "file" ELSE "dir"]
  /\ asked = [call |-> "none", path |-> Root] /\ failed = FALSE

-----------------------------------------------------------------------------
(* Paths *)

Dirname(path) == Front(path)

\* getAbsPathname(), getProdName(): makeAbsolute(), makeRelative()
AbsPathname(name) == Root \o name
ProdName(path) == SubSeq(path, Len(Root) + 1, Len(path))

\* A path with the links in it followed
Step(t, path) == IF path \in DOMAIN t /\ t[path] = "link" THEN Outside ELSE path
Real(t, path) == FoldLeft(LAMBDA dir, c : Step(t, Append(dir, c)), <<>>, path)
\* ... but for the last
Unfollowed(t, path) == Append(Real(t, Dirname(path)), Last(path))

\* FileUtil::getStat(), with the last link followed or not
Stat(t, path, follow) == IF follow THEN Real(t, path) ELSE Unfollowed(t, path)

Is(t, path, kind) == IF path = <<>> THEN kind = "dir" ELSE path \in DOMAIN t /\ t[path] = kind
Exists(t, path) == path = <<>> \/ path \in DOMAIN t
With(t, path, kind) == [p \in DOMAIN t \cup {path} |-> IF p = path THEN kind ELSE t[p]]
Without(t, gone) == [p \in DOMAIN t \ gone |-> t[p]]

-----------------------------------------------------------------------------
(* FileUtil: what is left of a tree, and whether the call throws *)

Outcome(t, throws) == [tree |-> t, throws |-> throws]

\* ensureDir(): whatever there is will do; stat() fails with ENOTDIR below a file.
EnsureDir(t, path) ==
  LET Made[n \in 0..Len(path)] ==
        IF Exists(t, Real(t, Prefix(path, n))) THEN Outcome(t, FALSE)
        ELSE LET parent == Real(t, Prefix(path, n - 1))
                 above == Made[n - 1]
             IN IF above.throws \/ Is(above.tree, parent, "file") THEN Outcome(above.tree, TRUE)
                ELSE Outcome(With(above.tree, Append(parent, path[n]), "dir"), FALSE)
  IN Made[Len(path)]

\* link(2) and rename(2) to a path: a link doesn't replace anything, a renamed file replaces
\* what isn't a directory.
Put(t, path, kind, replaces) ==
  LET entry == Unfollowed(t, path)
  IN IF \/ ~ Is(t, Real(t, Dirname(path)), "dir")
        \/ entry \in DOMAIN t /\ (~ replaces \/ t[entry] = "dir")
     THEN Outcome(t, TRUE) ELSE Outcome(With(t, entry, kind), FALSE)

\* ensureDir() of the directory comes first in trySoftLink(), SubProdFile() and before rename().
PutBelow(path, kind, replaces) ==
  LET made == EnsureDir(tree, Dirname(path))
  IN IF made.throws THEN made ELSE Put(made.tree, path, kind, replaces)

\* Mutant of Under: stat() instead of lstat()
UnderFollowed(t, dir) ==
  {p \in DOMAIN t : IsBelow(p, dir) \/ (IsBelow(p, Outside) /\ \E q \in DOMAIN t : IsBelow(q, dir) /\ t[q] = "link")}
\* rmDirTree(): links below the directory are removed. It is given a path with a separator
\* at its end, so that it takes a link to the directory for one, and rmdir(2) fails.
Under(t, dir) == {p \in DOMAIN t : IsBelow(p, dir)}
RmDirTree(t, path) ==
  LET dir == Real(t, path)
      isLink == Is(t, Unfollowed(t, path), "link")
  IN IF Is(t, dir, "dir") THEN Outcome(Without(t, Under(t, dir) \cup IF isLink THEN {} ELSE {dir}), isLink)
     ELSE Outcome(t, FALSE)

\* pruneEmptyDirPath(): how long the path is of the directory that it stops at, which is
\* empty but for what it has removed.
StopsAt(t, path) == path = Root \/ ~ Is(t, Stat(t, path, FALSE), "dir")
HasOnly(t, path, n) ==
  \A p \in Under(t, Real(t, Prefix(path, n))) :
    n < Len(path) /\ LET below == Real(t, Prefix(path, n + 1)) IN p = below \/ IsBelow(p, below)
PrunedTo(t, path) ==
  LET Length[n \in 0..Len(path)] ==
        IF n = 0 \/ StopsAt(t, Prefix(path, n)) \/ ~ HasOnly(t, path, n) THEN n ELSE Length[n - 1]
  IN Length[Len(path)]

\* removeFileAndPrune(): it throws at a directory that isn't empty, because it compares what
\* rmdir(2) returns with error numbers.
RemoveFileAndPrune(t, path) ==
  LET entry == Unfollowed(t, path)
      rest == Without(t, {entry})
      length == PrunedTo(rest, Dirname(path))
      gone == {Real(rest, Prefix(path, n)) : n \in length + 1..Len(path) - 1}
  IN IF entry \notin DOMAIN t \/ Is(t, entry, "dir") THEN Outcome(t, TRUE)
     ELSE Outcome(Without(rest, gone), ~ StopsAt(rest, Prefix(path, length)))

-----------------------------------------------------------------------------

Becomes(call, path, outcome) ==
  asked' = [call |-> call, path |-> path] /\ tree' = outcome.tree /\ failed' = outcome.throws

\* SubProdFile()
Create(id) == Becomes("create", Append(Incomplete, id), PutBelow(Append(Incomplete, id), "file", TRUE))
\* SubRepo: tryFinish()
Moved(id, outcome) == IF outcome.throws THEN outcome ELSE [outcome EXCEPT !.tree = Without(@, {Real(@, Append(Incomplete, id))})]
Rename(id, name) ==
  /\ Is(tree, Real(tree, Append(Incomplete, id)), "file")
  /\ Becomes("rename", AbsPathname(name), Moved(id, PutBelow(AbsPathname(name), "file", TRUE)))
\* PubRepo: link()
SoftLink(name) == Becomes("link", AbsPathname(name), PutBelow(AbsPathname(name), "link", FALSE))
\* deleteProds(), scanRepo()
RemoveFile(name) == Becomes("remove", AbsPathname(name), RemoveFileAndPrune(tree, AbsPathname(name)))
\* SubRepo::Impl()
RemoveTree == Becomes("rmDirTree", Incomplete, RmDirTree(tree, Incomplete))
\* The user keeps some of it elsewhere
UserLinks(path) == path \notin DOMAIN tree /\ Becomes("user", path, Put(tree, path, "link", FALSE))

Next ==
  \/ \E id \in Ids : Create(id) \/ UserLinks(Append(Incomplete, id))
  \/ \E name \in Names : (\E id \in Ids : Rename(id, name)) \/ SoftLink(name) \/ RemoveFile(name)
  \/ RemoveTree \/ UserLinks(Incomplete)
Spec == Init /\ [][Next]_treeVars

-----------------------------------------------------------------------------

TypeOK ==
  /\ \A p \in DOMAIN tree : Is(tree, Dirname(p), "dir") /\ tree[p] \in {"file", "dir", "link"}
  /\ \A name \in Names : ProdName(AbsPathname(name)) = name
  /\ asked.call \in {"none", "create", "rename", "link", "remove", "rmDirTree", "user"} /\ failed \in BOOLEAN

\* Whatever has been linked and nested, a file goes only if it is removed by its own name or
\* by a link to where it is, or was incomplete; a directory only if it lies between
\* the root and a file that is removed, or in a removed tree (FileUtil:
\* rmDirTree(), removeFileAndPrune(), pruneEmptyDirPath()).
MayGo(p, call, path) ==
  \/ call \in {"remove", "rmDirTree"} /\ p = Unfollowed(tree, path)
  \/ call = "remove" /\ \E n \in Len(Root) + 1..Len(path) - 1 : p = Unfollowed(tree, Prefix(path, n)) /\ tree[p] = "dir"
  \/ call = "rename" /\ IsBelow(p, Real(tree, Incomplete))
  \/ call = "rmDirTree" /\ IsBelow(p, Real(tree, path))
OnlyAskedGoes == [][\A p \in DOMAIN tree \ DOMAIN tree' : MayGo(p, asked'.call, asked'.path)]_treeVars

\* No directory is left behind by a removal that doesn't fail (FileUtil: pruneEmptyDirPath()).
NothingEmptyIsLeft ==
  asked.call = "remove" /\ ~ failed =>
    \A n \in Len(Root) + 1..Len(asked.path) - 1 :
      Is(tree, Unfollowed(tree, Prefix(asked.path, n)), "dir") => Under(tree, Real(tree, Prefix(asked.path, n))) # {}
=============================================================================
