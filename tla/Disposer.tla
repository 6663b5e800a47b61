------------------------------ MODULE Disposer ------------------------------
(***************************************************************************)
(* Local disposition of complete products by a subscriber: Disposer::Impl  *)
(* of src/main/disposer/Disposer.cpp with the actions of Action.cpp that   *)
(* the templates of ActionTemplate.cpp make.                               *)
(*                                                                         *)
(* One thread (SubNodeImpl::runDisposer()) disposes of one product after   *)
(* another with the mutex held. An action pipes a product to a program, or *)
(* executes one, or writes a file. An action that keeps its pipe or file   *)
(* open stays in actionSet and, ordered by last use, in actionQueue.       *)
(* Programs are processes that run beside the thread. A process is named   *)
(* by the action that forked it, which has one at a time.                  *)
(***************************************************************************)
EXTENDS Naturals, Sequences, SequencesExt, FiniteSets

CONSTANTS
  Acts,        \* Actions that the templates can be reified to
  Kind,        \* Type of each action
  KeepOpen,    \* Actions whose pipe or file is kept open between products
  NotFound,    \* Actions whose program can't be executed
  MaxKeepOpen, \* Disposer::Impl::maxPersistent
  MaxProds,    \* Bound on the number of products that are disposed of
  NoAct        \* No action

ASSUME ActsAssumption ==
  /\ NoAct \notin Acts
  /\ Kind \in [Acts -> {"PIPE", "EXEC", "FILE", "APPEND"}]
  /\ KeepOpen \subseteq {a \in Acts : Kind[a] # "EXEC"}
  /\ NotFound \subseteq {a \in Acts : Kind[a] \in {"PIPE", "EXEC"}}
  /\ MaxKeepOpen \in Nat /\ MaxProds \in Nat

VARIABLES
  pc,            \* Where the thread is
  prod,          \* Number of the current product
  todo,          \* Its actions that haven't been executed; the head is in hand
  dying,         \* Action that is being destroyed
  actionSet,     \* Persistent actions
  actionQueue,   \* The same by last use
  childCmds,     \* Processes that the disposer waits for
  lastProcessed, \* Product that lastProd was saved for
  pipe,          \* Pipe of each action; nobody reads an "unread" one
  decoderPid,    \* "child", "none" (0) or "lost" (-1)
  child,         \* Process of each action
  file,          \* Output file of each action
  used,          \* History: persistent actions in the order of their use
  executed       \* History: products that each action was executed on

thread == <<pc, prod, todo, dying>>
kept   == <<actionSet, actionQueue, used>>
output == <<lastProcessed, file, executed>>
procs  == <<pipe, decoderPid, child, childCmds>>
vars   == <<thread, kept, output, procs>>

-----------------------------------------------------------------------------
(* Helpers *)

InHand == IF todo = <<>> THEN NoAct ELSE Head(todo)
Hole == 0 \* Part of a file that no product was written to, or only in part

\* The destructor of an action closes what is open, then waits.
Close(a) ==
  /\ dying' = a
  /\ pipe' = [pipe EXCEPT ![a] = "closed"]
  /\ file' = [file EXCEPT ![a].open = FALSE]

\* The queue's head is the least-recently-used action.
OneMoreKept == Cardinality(actionSet) > MaxKeepOpen + 1
TooManyKept == Cardinality(actionSet) > MaxKeepOpen
MayEraseLru == Len(actionQueue) > 1

\* HashSetQueue::erase()
Without(s, a) ==
  IF Contains(s, a)
  THEN LET k == CHOOSE i \in DOMAIN s : s[i] = a
       IN  SubSeq(s, 1, k - 1) \o SubSeq(s, k + 1, Len(s))
  ELSE s

\* An action that is used again leaves its place in the queue.
StaysInQueue(a) == actionQueue
LeftQueue(a) == Without(actionQueue, a)
Used(a) == LET q == LeftQueue(a) IN IF Contains(q, a) THEN q ELSE Append(q, a)

Alive(a) == child[a] \in {"running", "clone"}
NoChildren == \A a \in Acts : child[a] = "none"

\* What waitpid(decoderPid) does: it blocks while the process runs, returns at
\* once if there is none, and accepts any process if the fork has failed.
NotWaited(a) == {}
Waited(a) == CASE decoderPid[a] = "none" -> {}
               [] decoderPid[a] = "child" -> {a}
               [] OTHER -> Acts
Reaped(ws) ==
  \/ /\ \A a \in ws : child[a] = "none"
     /\ UNCHANGED child
  \/ \E a \in ws : child[a] = "zombie" /\ child' = [child EXCEPT ![a] = "none"]

-----------------------------------------------------------------------------
(* Actions that are kept open *)

\* Removes the least-recently-used action. With its last reference (the action
\* in hand has another one) its destructor closes the pipe or file...
EraseLru ==
  LET a == Head(actionQueue) IN
  /\ actionSet' = actionSet \ {a}
  /\ actionQueue' = Tail(actionQueue)
  /\ IF a = InHand THEN UNCHANGED <<dying, pipe, file>> ELSE Close(a)
  /\ UNCHANGED <<prod, todo, used, lastProcessed, executed, decoderPid, child, childCmds>>

\* ... and waits for its decoder.
Destroyed ==
  /\ dying # NoAct
  /\ Reaped(Waited(dying))
  /\ decoderPid' = [decoderPid EXCEPT ![dying] = "none"]
  /\ dying' = NoAct
  /\ UNCHANGED <<pc, prod, todo, kept, output, pipe, childCmds>>

-----------------------------------------------------------------------------
(* dispose(): one product *)

\* The patterns of a product's name select the actions: up to two, in any order.
Matches == SeqOf(Acts, 2)

Dispose ==
  /\ pc = "idle" /\ prod < MaxProds
  /\ \E as \in Matches : todo' = as
  /\ prod' = prod + 1
  /\ pc' = IF todo' = <<>> THEN "reap" ELSE "get"
  /\ UNCHANGED <<dying, kept, output, procs>>

GetAction ==
  /\ pc = "get" /\ dying = NoAct
  /\ IF InHand \in KeepOpen
     THEN /\ actionSet' = actionSet \cup {InHand}
          /\ actionQueue' = Used(InHand)
          /\ used' = Append(Without(used, InHand), InHand)
          /\ pc' = "trim"
     ELSE /\ UNCHANGED kept
          /\ pc' = "process"
  /\ UNCHANGED <<prod, todo, dying, output, procs>>

Trim ==
  /\ pc = "trim" /\ dying = NoAct
  /\ TooManyKept
  /\ EraseLru
  /\ UNCHANGED pc

Trimmed ==
  /\ pc = "trim" /\ dying = NoAct
  /\ ~TooManyKept
  /\ pc' = "process"
  /\ UNCHANGED <<prod, todo, dying, kept, output, procs>>

\* process() has returned false: too many files are open or processes exist.
Retry ==
  /\ pc = "refused"
  /\ MayEraseLru
  /\ EraseLru
  /\ pc' = "process"

\* An exception of process() is logged: the product's next action is executed.
Fails == pc' = "drop"

GiveUp ==
  /\ pc = "refused"
  /\ ~MayEraseLru
  /\ Fails
  /\ UNCHANGED <<prod, todo, dying, kept, output, procs>>

Succeed ==
  /\ pc = "succeeded"
  /\ lastProcessed' = prod
  /\ pc' = "drop"
  /\ UNCHANGED <<prod, todo, dying, kept, file, executed, procs>>

\* The action in hand is destroyed unless it's kept.
Drop ==
  /\ pc = "drop"
  /\ todo' = Tail(todo)
  /\ IF InHand \in actionSet THEN UNCHANGED <<dying, pipe, file>> ELSE Close(InHand)
  /\ pc' = IF Len(todo) = 1 THEN "reap" ELSE "get"
  /\ UNCHANGED <<prod, kept, lastProcessed, executed, decoderPid, child, childCmds>>

-----------------------------------------------------------------------------
(* process(): one action. It's refused if too many files are open (EMFILE) or
   too many processes exist (EAGAIN). *)

Refuse(a) ==
  /\ pc = "process" /\ dying = NoAct /\ a = InHand
  /\ \/ Kind[a] = "PIPE" /\ pipe[a] = "closed"
     \/ Kind[a] = "EXEC"
     \/ Kind[a] \in {"FILE", "APPEND"} /\ ~file[a].open
  /\ pc' = "refused"
  /\ UNCHANGED <<prod, todo, dying, kept, output, procs>>

\* A program that can't be executed throws in the forked process, which thereby
\* goes on as a copy of the subscriber and doesn't end.
Forked(a) == IF a \in NotFound THEN "clone" ELSE "running"

CreatePipe(a) ==
  /\ pc = "process" /\ dying = NoAct /\ a = InHand
  /\ Kind[a] = "PIPE" /\ pipe[a] = "closed"
  /\ \/ /\ pipe' = [pipe EXCEPT ![a] = "open"]
        /\ decoderPid' = [decoderPid EXCEPT ![a] = "child"]
        /\ child' = [child EXCEPT ![a] = Forked(a)]
        /\ pc' = "write"
     \/ /\ pipe' = [pipe EXCEPT ![a] = "unread"]
        /\ decoderPid' = [decoderPid EXCEPT ![a] = "lost"]
        /\ pc' = "refused"
        /\ UNCHANGED child
  /\ UNCHANGED <<prod, todo, dying, kept, output, childCmds>>

\* The pipe is open from an earlier product, or from an attempt without a fork.
ReusePipe(a) ==
  /\ pc = "process" /\ dying = NoAct /\ a = InHand
  /\ Kind[a] = "PIPE" /\ pipe[a] # "closed"
  /\ pc' = "write"
  /\ UNCHANGED <<prod, todo, dying, kept, output, procs>>

\* The disposer waits for the decoder of an action that stays open.
NotWaitable(a) == {}
Waitable(a) == IF decoderPid[a] = "child" THEN {a} ELSE {}

WritePipe(a) ==
  /\ pc = "write" /\ a = InHand
  /\ pipe[a] = "unread" \/ Alive(a)
  /\ IF a \in KeepOpen
     THEN /\ childCmds' = childCmds \cup Waitable(a)
          /\ executed' = [executed EXCEPT ![a] = Append(@, prod)]
          /\ pc' = "succeeded"
          /\ UNCHANGED pipe
     ELSE /\ pipe' = [pipe EXCEPT ![a] = "closed"]
          /\ pc' = "wait"
          /\ UNCHANGED <<childCmds, executed>>
  /\ UNCHANGED <<prod, todo, dying, kept, lastProcessed, file, decoderPid, child>>

\* Nobody handles the SIGPIPE of a write to a decoder that has ended.
BreakPipe(a) ==
  /\ pc = "write" /\ a = InHand
  /\ pipe[a] = "open" /\ ~Alive(a)
  /\ pc' = "killed"
  /\ UNCHANGED <<prod, todo, dying, kept, output, procs>>

WaitForDecoder(a) ==
  /\ pc = "wait" /\ a = InHand
  /\ Reaped(Waited(a))
  /\ IF \A b \in Waited(a) : child[b] = "none"
     THEN Fails /\ UNCHANGED <<decoderPid, executed>>
     ELSE /\ decoderPid' = [decoderPid EXCEPT ![a] = "none"]
          /\ executed' = [executed EXCEPT ![a] = Append(@, prod)]
          /\ pc' = "succeeded"
  /\ UNCHANGED <<prod, todo, dying, kept, lastProcessed, file, pipe, childCmds>>

\* The string of an EXEC action can't be made: dispose() throws and its thread
\* ends with the forked process unknown.
Exec(a) ==
  /\ pc = "process" /\ dying = NoAct /\ a = InHand
  /\ Kind[a] = "EXEC"
  /\ child' = [child EXCEPT ![a] = Forked(a)]
  /\ pc' = "ended"
  /\ todo' = <<>>
  /\ UNCHANGED <<prod, dying, kept, output, pipe, decoderPid, childCmds>>

-----------------------------------------------------------------------------
(* Output files: a product is one cell of the content *)

\* A file that is opened is truncated, or will be appended to. One that is open
\* is truncated where it's overwritten, which doesn't move its offset.
NotTruncated(a) == Kind[a] = "FILE" /\ ~file[a].open
Truncated(a) == Kind[a] = "FILE"
Content(a) == IF Truncated(a) THEN <<>> ELSE file[a].content
Offset(a) == IF Kind[a] = "FILE" /\ file[a].open THEN file[a].offset ELSE Len(Content(a))
Padded(s, n) == s \o [i \in 1..(n - Len(s)) |-> Hole]

WriteFile(a) ==
  /\ pc = "process" /\ dying = NoAct /\ a = InHand
  /\ Kind[a] \in {"FILE", "APPEND"}
  /\ LET Written(cell) ==
           LET s == Append(Padded(Content(a), Offset(a)), cell)
           IN [open |-> TRUE, content |-> s, offset |-> Len(s)]
     IN \/ /\ file' = [file EXCEPT ![a] = [Written(prod) EXCEPT !.open = a \in KeepOpen]]
           /\ executed' = [executed EXCEPT ![a] = Append(@, prod)]
           /\ pc' = "succeeded"
        \/ /\ file' = [file EXCEPT ![a] = Written(Hole)] \* written in part
           /\ Fails
           /\ UNCHANGED executed
  /\ UNCHANGED <<prod, todo, dying, kept, lastProcessed, procs>>

-----------------------------------------------------------------------------
(* reap(): waits for every process, running or not *)

ReapChild(a) ==
  /\ pc \in {"reap", "kill"} /\ dying = NoAct
  /\ child[a] = "zombie"
  /\ child' = [child EXCEPT ![a] = "none"]
  /\ childCmds' = childCmds \ {a}
  /\ pc' = IF a \in childCmds THEN pc
           ELSE IF pc = "reap" THEN "ended" \* throws a logic error
           ELSE "close"                     \* which the destructor logs
  /\ UNCHANGED <<prod, todo, dying, kept, output, pipe, decoderPid>>

ReapDone ==
  /\ pc \in {"reap", "kill"} /\ dying = NoAct
  /\ NoChildren
  /\ childCmds' = {}
  /\ pc' = IF pc = "reap" THEN "idle" ELSE "close"
  /\ UNCHANGED <<prod, todo, dying, kept, output, pipe, decoderPid, child>>

\* The disposer is destroyed when its thread has ended: it terminates the known
\* processes and waits for them, then its actions are destroyed.
KillChildren ==
  /\ pc \in {"idle", "ended"}
  /\ dying = NoAct
  /\ child' = [a \in Acts |-> IF a \in childCmds /\ Alive(a) THEN "zombie" ELSE child[a]]
  /\ pc' = "kill"
  /\ UNCHANGED <<prod, todo, dying, kept, output, pipe, decoderPid, childCmds>>

CloseKept ==
  /\ pc = "close" /\ dying = NoAct
  /\ IF actionQueue = <<>>
     THEN pc' = "destroyed" /\ UNCHANGED <<actionSet, actionQueue, dying, pipe, file>>
     ELSE /\ actionSet' = actionSet \ {Head(actionQueue)}
          /\ actionQueue' = Tail(actionQueue)
          /\ Close(Head(actionQueue))
          /\ UNCHANGED pc
  /\ UNCHANGED <<prod, todo, used, lastProcessed, executed, decoderPid, child, childCmds>>

\* A decoder ends at the end of its input; an executed program ends by itself...
EndOfInput(a) ==
  /\ pc # "killed"
  /\ child[a] = "running" /\ pipe[a] # "open"
  /\ child' = [child EXCEPT ![a] = "zombie"]
  /\ UNCHANGED <<thread, kept, output, pipe, decoderPid, childCmds>>

\* ... and a decoder may crash at any time.
Crash(a) ==
  /\ pc # "killed"
  /\ child[a] = "running" /\ pipe[a] = "open"
  /\ child' = [child EXCEPT ![a] = "zombie"]
  /\ UNCHANGED <<thread, kept, output, pipe, decoderPid, childCmds>>

-----------------------------------------------------------------------------
Init ==
  /\ pc = "idle" /\ prod = 0 /\ todo = <<>> /\ dying = NoAct
  /\ actionSet = {} /\ actionQueue = <<>> /\ childCmds = {}
  /\ lastProcessed = 0
  /\ pipe = [a \in Acts |-> "closed"]
  /\ decoderPid = [a \in Acts |-> "none"]
  /\ child = [a \in Acts |-> "none"]
  /\ file = [a \in Acts |-> [open |-> FALSE, content |-> <<>>, offset |-> 0]]
  /\ used = <<>>
  /\ executed = [a \in Acts |-> <<>>]

Process(a) ==
  \/ Refuse(a) \/ CreatePipe(a) \/ ReusePipe(a) \/ WritePipe(a) \/ BreakPipe(a)
  \/ WaitForDecoder(a) \/ Exec(a) \/ WriteFile(a)

Thread ==
  \/ Destroyed \/ GetAction \/ Trim \/ Trimmed \/ Retry \/ GiveUp \/ Succeed \/ Drop
  \/ ReapDone \/ CloseKept
  \/ \E a \in Acts : Process(a) \/ ReapChild(a)

Next ==
  \/ Dispose \/ KillChildren \/ Thread
  \/ \E a \in Acts : EndOfInput(a) \/ Crash(a)

Spec == Init /\ [][Next]_vars

\* The thread runs, and a program that has read its input ends.
FairSpec == Spec /\ WF_vars(Thread) /\ \A a \in Acts : WF_vars(EndOfInput(a))

-----------------------------------------------------------------------------
(* Properties *)

\* Every variable has its type; an open pipe has a decoder, and a decoder that ends
\* doesn't outlive the action that started it.
TypeOK ==
  /\ pc \in {"idle", "get", "trim", "process", "refused", "write", "wait", "succeeded",
             "drop", "reap", "ended", "killed", "kill", "close", "destroyed"}
  /\ prod \in 0..MaxProds /\ lastProcessed \in 0..prod
  /\ todo \in Seq(Acts) /\ dying \in Acts \cup {NoAct}
  /\ actionSet \subseteq KeepOpen /\ actionQueue \in Seq(KeepOpen) /\ used \in Seq(KeepOpen)
  /\ childCmds \subseteq Acts
  /\ pipe \in [Acts -> {"closed", "unread", "open"}]
  /\ decoderPid \in [Acts -> {"none", "child", "lost"}]
  /\ child \in [Acts -> {"none", "running", "clone", "zombie"}]
  /\ \A a \in Acts : /\ file[a].content \in Seq(0..MaxProds)
                     /\ executed[a] \in Seq(1..MaxProds)
                     /\ pipe[a] = "open" => decoderPid[a] = "child"
                     /\ Kind[a] = "PIPE" /\ decoderPid[a] = "none" => child[a] = "none"

\* getAction() and eraseLru() keep the set and the queue of persistent actions the
\* same, and those that were erased were used before all that were kept. So
\* maxPersistent bounds what a disposer holds open between products, and one more
\* action, or the one being destroyed, during a product.
KeepsMostRecent ==
  /\ actionSet = ToSet(actionQueue)
  /\ \E i \in 0..Len(used) : actionQueue = SubSeq(used, i + 1, Len(used))
  /\ LET open == {a \in Acts : pipe[a] # "closed" \/ file[a].open} IN
        /\ Cardinality(open) <= MaxKeepOpen + 1
        /\ pc = "idle" => open \subseteq actionSet

\* reap() never meets a process of a piping action that it doesn't know (it would
\* throw a logic error), and none is left when the disposer has been destroyed.
ChildrenAreKnown ==
  /\ pc = "reap" /\ dying = NoAct => \A a \in Acts : child[a] # "none" => a \in childCmds
  /\ pc = "destroyed" => NoChildren

\* Actions that are kept, and the processes of actions, are those that the disposer
\* knows of (getAction(), eraseLru(), reap(), ~Impl()).
DecodersAreTracked == KeepsMostRecent /\ ChildrenAreKnown

\* The products that a file holds, in their order, are those of sequence ps.
Cells(s) == {k \in DOMAIN s : s[k] # Hole}
CellsUpTo(s, k) == {j \in Cells(s) : j <= k}
Lists(ps, s) == /\ Len(ps) = Cardinality(Cells(s))
                /\ \A k \in Cells(s) : ps[Cardinality(CellsUpTo(s, k))] = s[k]

\* A file that products are appended to holds those that the action succeeded for,
\* in their order; a file that is overwritten holds nothing of an earlier product.
OutputIsExecuted ==
  \A a \in Acts :
    /\ Kind[a] = "APPEND" => Lists(executed[a], file[a].content)
    /\ Kind[a] = "FILE" /\ executed[a] # <<>> =>
         ToSet(file[a].content) \subseteq {Hole, Last(executed[a])}

\* Disposer::dispose() "waits on any terminated child processes": it comes to an end.
DisposeReturns == pc = "get" ~> pc \in {"idle", "ended", "killed"}
=============================================================================
