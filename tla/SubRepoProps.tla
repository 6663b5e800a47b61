---------------------------- MODULE SubRepoProps ----------------------------
(* What a subscriber's repository should and does satisfy *)
EXTENDS SubRepo

(***************************************************************************)
(* TypeOK: the variables have their types, and the queue of open products  *)
(* has no duplicate and is never longer than its limit (Repository.cpp,    *)
(* activate()).                                                            *)
(***************************************************************************)
TypeOK ==
    /\ now \in Time /\ lastReceived \in Nat
    /\ disk \in [Prod -> Location]
    /\ have \in [Prod -> SUBSET Nat]
    /\ up \in BOOLEAN /\ starts \in 0 .. MaxStarts
    /\ prodEntries \subseteq Prod
    /\ prodInfo \subseteq prodEntries /\ scanned \subseteq prodInfo
    /\ deleteQueue \subseteq Nat \X Prod
    /\ procQueue \subseteq Nat \X Prod
    /\ openProds \in Seq(Prod) /\ IsInjective(openProds) /\ Len(openProds) <= MaxOpen
    /\ open \subseteq prodEntries
    /\ deleter \in {"running", "dead"} /\ threadEx \in BOOLEAN
    /\ using \in Prod \cup {NoProd}
    /\ reader \in Reader /\ detached \in Detached

(***************************************************************************)
(* OpenIsKnown: a product in the queue of open products has an entry,      *)
(* which activate() dereferences without a test, and its file is open,     *)
(* whatever was deleted, finished or given to the processing thread.       *)
(***************************************************************************)
OpenIsKnown == Range(openProds) \subseteq prodEntries \cap open

(***************************************************************************)
(* DeletedOnce: every product with an entry is in the deletion queue       *)
(* exactly once and nothing else is: otherwise deleteProds() loops for     *)
(* ever with the mutex locked, or a product stays for ever.                *)
(***************************************************************************)
DeletedOnce ==
    /\ \A e \in deleteQueue : e[2] \in prodEntries
    /\ \A p \in prodEntries : \E e \in deleteQueue : e[2] = p
    /\ \A e, f \in deleteQueue : e[2] = f[2] => e = f

(***************************************************************************)
(* CompleteIsFinished: a product whose information and segments were all   *)
(* received, in whatever order and from whichever threads, is in the       *)
(* product directory (Repository.cpp, save(), tryFinish()).  It isn't if   *)
(* it has no data: activate() can't map its file.                          *)
(***************************************************************************)
CompleteIsFinished ==
    \A p \in prodInfo :
       have[p] = Segs(p) /\ NumSegs[p] > 0 => disk[p] # "incomplete"

(***************************************************************************)
(* FilesAreWhole: a file in the product directory has all of its segments, *)
(* although the process may have crashed at any time; a restart takes it   *)
(* for a complete product (tryFinish(), scanRepo()).                       *)
(***************************************************************************)
FilesAreWhole == \A p \in Prod : disk[p] = "products" => have[p] = Segs(p)

(***************************************************************************)
(* QueuesAgree: whatever is deleted, finished, opened or given to the      *)
(* processing thread, the repository's queues name products with entries:  *)
(* OpenIsKnown and DeletedOnce.                                            *)
(***************************************************************************)
QueuesAgree == OpenIsKnown /\ DeletedOnce

(***************************************************************************)
(* ProductIffWhole: a file is in the product directory if, and only if,    *)
(* all of its parts have come: CompleteIsFinished and FilesAreWhole.       *)
(***************************************************************************)
ProductIffWhole == CompleteIsFinished /\ FilesAreWhole

(***************************************************************************)
(* QueuedIsComplete: a product that waits to be processed is complete, as  *)
(* getNextProd() promises, until the time to keep it has passed.  After    *)
(* that it may have been deleted, and even be arriving again.              *)
(***************************************************************************)
QueuedIsComplete ==
    \A e \in procQueue :
       (e[2] \in prodInfo /\ disk[e[2]] = "products") \/ e[1] + KeepTime <= now

(***************************************************************************)
(* OldIsDeleted: products are deleted on time "regardless of their arrival *)
(* rate" (Repository.cpp:74) as long as the deleting thread hasn't thrown. *)
(***************************************************************************)
OldIsDeleted ==
    \A p \in Prod :
       p \in prodEntries ~> p \notin prodEntries \/ deleter = "dead"

-----------------------------------------------------------------------------
(* What the repository's comments say and the code doesn't do *)

(***************************************************************************)
(* DeleterSurvives: pruning stops "because directory isn't empty"          *)
(* (FileUtil.cpp:365).  The code compares the result of rmdir(), which is  *)
(* -1, with error numbers, so that it throws instead: the deletion of a    *)
(* product ends the thread that deletes products if another one is in its  *)
(* directory.                                                              *)
(***************************************************************************)
DeleterSurvives ==
    [][\A e \in deleteQueue :
          DeleteThrows(e) => disk[e[2]] # "products"]_vars

(***************************************************************************)
(* RecallsSaved: LastProd::recall() "returns the previously-saved time"    *)
(* (LastProd.cpp:83).  Its constructor truncates the file whose            *)
(* modification-time is the saved one.                                     *)
(***************************************************************************)
RecallsSaved == [][Start => lastReceived' = lastReceived]_vars

=============================================================================
