----------------------------- MODULE ProdFiles -----------------------------
(***************************************************************************)
(* The file of a product that a subscriber receives: SubProdFile of        *)
(* repository/ProdFile.cpp and the arithmetic of data segments of          *)
(* p2p/DataSeg.cpp. Threads of the node save segments in any order and     *)
(* more than once, the repository closes the file when too many are open,  *)
(* renames it when the product is known and deletes it when it is old.     *)
(* Each operation holds the file's mutex.                                  *)
(***************************************************************************)
EXTENDS Naturals, Sequences, FiniteSets

CONSTANTS
  Sizes,      \* Sizes of products, 0 included
  MaxSegSize, \* RunPar::maxSegSize
  SizeLimit,  \* 2^w for the w bits of a ProdSize
  Offsets,    \* Of segments that are received: products', and others
  MaxCreated  \* bound: files created, by one run of the program after another

ProdFilesAssumption ==
  /\ MaxSegSize \in Nat \ {0} /\ SizeLimit \in Nat \ {0} /\ MaxCreated \in Nat
  /\ Sizes \subseteq 0..SizeLimit - 1 /\ Offsets \subseteq Nat

\* By an ID, and where its name says. Both may have been used before.
Paths == {"unnamed", "named"}
None == 0
Inodes == 0..MaxCreated \* None, and inodes

VARIABLES
  prodSize, pathname, fd, haveSegs, segCount, \* The object's; fd is the inode that is open and mapped, or None
  alive,    \* Does the object exist?
  dir,      \* Inode by path
  disk,     \* Bytes by inode: 0, or k at the k-th place if it is the product's
  created,  \* Inodes used
  deleted,  \* Was it deleted?
  pointer,  \* What getData() gave to a reader, who still uses it: an inode that is mapped or was, or None
  result    \* Of the last call

fileVars == <<prodSize, pathname, fd, haveSegs, segCount, alive, dir, disk, created, deleted, pointer, result>>
object == <<prodSize, pathname, haveSegs, segCount, alive>>

-----------------------------------------------------------------------------
(* DataSeg *)

SegSizeAt(offset) == IF prodSize - offset <= MaxSegSize THEN prodSize - offset ELSE MaxSegSize
NumSegs == ((prodSize + (MaxSegSize - 1)) % SizeLimit) \div MaxSegSize
SegIndex(offset) == offset \div MaxSegSize

\* vet()
IsValid(offset) == offset < prodSize /\ offset % MaxSegSize = 0

-----------------------------------------------------------------------------

Init ==
  /\ prodSize \in Sizes
  /\ pathname = "unnamed" /\ fd = None /\ haveSegs = {} /\ segCount = 0 /\ alive = FALSE
  /\ dir = [p \in Paths |-> None] /\ disk = [f \in Inodes |-> <<>>] /\ created = 0
  /\ deleted = FALSE /\ pointer = None /\ result = "none"

Zeros == [k \in 1..prodSize |-> 0]

\* SubProdFile(): open() creates the file or finds that of an earlier run, whose
\* bytes ftruncate() leaves.
Create ==
  /\ ~ alive /\ alive' = TRUE /\ pathname' = "unnamed"
  /\ haveSegs' = {} /\ segCount' = 0 /\ fd' = None /\ deleted' = FALSE /\ result' = "none"
  /\ IF dir["unnamed"] # None
     THEN UNCHANGED <<dir, disk, created>>
     ELSE /\ created < MaxCreated /\ created' = created + 1
          /\ dir' = [dir EXCEPT !["unnamed"] = created']
          /\ disk' = [disk EXCEPT ![created'] = Zeros]
  /\ UNCHANGED <<prodSize, pointer>>

\* ensureAccess(): what the file at pathname is. Nothing can be mapped of an empty one.
Accessible == IF fd # None THEN fd ELSE IF prodSize = 0 THEN None ELSE dir[pathname]

Bytes(offset) == offset + 1..offset + SegSizeAt(offset)
Copied(offset) == [k \in DOMAIN disk[Accessible] |-> IF k \in Bytes(offset) THEN k ELSE disk[Accessible][k]]

\* save(): its segment's size is vetted, too, and DataSeg has no other.
Refuse(offset) ==
  /\ alive /\ ~ IsValid(offset) /\ result' = "invalid"
  /\ UNCHANGED <<object, fd, dir, disk, created, deleted, pointer>>
Duplicate(offset) ==
  /\ alive /\ IsValid(offset) /\ SegIndex(offset) \in haveSegs /\ result' = "old"
  /\ UNCHANGED <<object, fd, dir, disk, created, deleted, pointer>>
CantOpen(offset) ==
  /\ alive /\ IsValid(offset) /\ SegIndex(offset) \notin haveSegs /\ Accessible = None
  /\ result' = "error"
  /\ UNCHANGED <<object, fd, dir, disk, created, deleted, pointer>>
\* Mutant of Needed: whoever saves has asked exists()
AlwaysNeeded(offset) == TRUE
Needed(offset) == SegIndex(offset) \notin haveSegs
Save(offset) ==
  /\ alive /\ IsValid(offset) /\ Needed(offset) /\ Accessible # None
  /\ fd' = Accessible
  /\ disk' = [disk EXCEPT ![Accessible] = Copied(offset)]
  /\ haveSegs' = haveSegs \cup {SegIndex(offset)} /\ segCount' = segCount + 1
  /\ result' = "new"
  /\ UNCHANGED <<prodSize, pathname, alive, dir, created, deleted, pointer>>
IsComplete == segCount = NumSegs

\* getData(), of the product or of a segment that exists() told about
GetData ==
  /\ alive /\ pointer = None
  /\ IF Accessible = None THEN result' = "error" /\ UNCHANGED <<fd, pointer>>
     ELSE fd' = Accessible /\ pointer' = Accessible /\ result' = "none"
  /\ UNCHANGED <<object, dir, disk, created, deleted>>
StopReading == pointer # None /\ pointer' = None /\ UNCHANGED <<object, fd, dir, disk, created, deleted, result>>

\* close()
Close == fd # None /\ fd' = None /\ UNCHANGED <<object, dir, disk, created, deleted, pointer, result>>

\* rename(): the file that was there is replaced.
\* Mutant of NewPathname: the file is moved, and the object isn't told
OldPathname == pathname
NewPathname == "named"
Rename ==
  /\ alive /\ pathname = "unnamed"
  /\ IF dir["unnamed"] = None THEN result' = "error" /\ UNCHANGED <<pathname, dir>>
     ELSE /\ dir' = [dir EXCEPT !["named"] = dir["unnamed"], !["unnamed"] = None]
          /\ pathname' = NewPathname /\ result' = "none"
  /\ UNCHANGED <<prodSize, haveSegs, segCount, alive, fd, disk, created, deleted, pointer>>

\* deleteFile(), and the repository's removal of the path: an open file stays readable.
DeleteFile ==
  /\ alive /\ dir[pathname] # None
  /\ dir' = [dir EXCEPT ![pathname] = None] /\ deleted' = TRUE
  /\ UNCHANGED <<object, fd, disk, created, pointer, result>>

\* ~Impl(), or the end of the program
Destroy ==
  /\ alive /\ alive' = FALSE /\ fd' = None
  /\ UNCHANGED <<prodSize, pathname, haveSegs, segCount, dir, disk, created, deleted, pointer, result>>

Next ==
  \/ \E offset \in Offsets : Refuse(offset) \/ Duplicate(offset) \/ CantOpen(offset) \/ Save(offset)
  \/ Create \/ GetData \/ StopReading \/ Close \/ Rename \/ DeleteFile \/ Destroy
Spec == Init /\ [][Next]_fileVars

-----------------------------------------------------------------------------

TypeOK ==
  /\ fd \in Inodes /\ pointer \in Inodes /\ pathname \in Paths /\ dir \in [Paths -> Inodes]
  /\ haveSegs \subseteq 0..NumSegs /\ \A f \in Inodes : Len(disk[f]) \in {0, prodSize}

\* What a reader of this file gets: of the open file or of that at its path
Seen == IF Accessible = None THEN <<>> ELSE disk[Accessible]
Holds(k) == k \in DOMAIN Seen /\ Seen[k] = k

\* In whatever order segments are saved and the file is closed, renamed, deleted and
\* opened again, what the object says it has is in the file that it reads, and it is
\* complete when that is the product (SubProdFile: save(), exists(), isComplete(), rename();
\* DataSeg: size(), numSegs(), getSegIndex()).
SavedIsRead ==
  alive /\ (Seen # <<>> \/ ~ deleted) =>
    /\ \A offset \in Offsets : IsValid(offset) /\ SegIndex(offset) \in haveSegs =>
         \A k \in Bytes(offset) : Holds(k)
    /\ IsComplete => \A k \in 1..prodSize : Holds(k)
    /\ (\A k \in 0..NumSegs - 1 : k \in haveSegs) => IsComplete

\* Repository.cpp:100 has a product that is being read stay accessible. close()
\* ends the mapping that getData() gave a pointer into: this doesn't hold.
ReadIsMapped == pointer # None => pointer = fd
=============================================================================
