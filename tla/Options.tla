------------------------------ MODULE Options -------------------------------
(***************************************************************************)
(* How the programs get their run-time parameters (RunPar/RunPar.cpp,      *)
(* RunPar/RunPar.h, and setRunPars() of publish/publish.cpp and            *)
(* subscribe/subscribe.cpp): defaults, command-line options in their       *)
(* order, among them configuration files, then derived values and checks.  *)
(*                                                                         *)
(* A text is what an option or a key of a file is given; only the number   *)
(* or the address that it stands for is of interest. The logging level,    *)
(* which takes effect at once, and -I are left out.                        *)
(***************************************************************************)
EXTENDS Integers, Sequences, SequencesExt

CONSTANTS
  CommandLines, \* Sequences of arguments: records of an option, or "operand", and a text
  Files,        \* Configuration files by name: the sections and the keys that each has
  Number,       \* Numbers by the texts that start with one (external)
  FamilyOf,     \* Address families by the texts that are addresses, and by the local ones (external)
  LocalAddr,    \* Local address from which a family's addresses are reached (external)
  Garbage,      \* What an uninitialized variable may hold
  SysMax        \* sysconf(_SC_OPEN_MAX)

VARIABLES
  program, \* "publisher" or "subscriber"
  args,   \* Command line
  arg,    \* Number of the next argument
  par,    \* Run-time parameters by name
  status  \* "reading", "ready", "exited", "threw", "crashed"

options == <<program, args, arg, par, status>>

-----------------------------------------------------------------------------
(* Parameters *)

NoText == ""
\* RunPar::init()
CommonDefaults ==
  [pubRoot |-> "./pubRoot", subRoot |-> "./subRoot", heartbeatInterval |-> 30, maxNumPeers |-> 8,
   maxOpenProds |-> SysMax \div 2, p2pSrvrAddr |-> NoText, p2pSrvrQSize |-> 8, peerEvalInterval |-> 300,
   pubSrvrAddr |-> NoText, trackerCap |-> 1000]
PubDefaults ==
  [feedName |-> "<feedName>", maxSegSize |-> 20000, mcastDstAddr |-> "232.1.1.1", mcastSrcAddr |-> NoText,
   prodKeepTime |-> 3600, pubSrvrQSize |-> 256, pubSrvrAddr |-> "0.0.0.0"]
SubDefaults == [disposeConfig |-> NoText, p2pTimeout |-> 30, retryInterval |-> 60]
Default == IF program = "publisher" THEN PubDefaults @@ CommonDefaults ELSE SubDefaults @@ CommonDefaults

\* What options set: RUNPAR_COMMON_OPTIONS_CASES and the programs' own
CommonOptions ==
  [b |-> "heartbeatInterval", e |-> "peerEvalInterval", n |-> "maxNumPeers", o |-> "maxOpenProds",
   p |-> "p2pSrvrAddr", q |-> "p2pSrvrQSize", t |-> "trackerCap"]
PubOptions ==
  [d |-> "maxSegSize", f |-> "feedName", k |-> "prodKeepTime", m |-> "mcastDstAddr", P |-> "pubSrvrAddr",
   Q |-> "pubSrvrQSize", r |-> "pubRoot", s |-> "mcastSrcAddr"]
SubOptions == [d |-> "disposeConfig", i |-> "retryInterval", r |-> "subRoot"]
OptionsOf == CommonOptions @@ IF program = "publisher" THEN PubOptions ELSE SubOptions

\* What keys of files set, except those that are read into a variable first. The key
\* "maxPending" of a publisher's section "server" is "pubPending" here.
CommonKeys ==
  [trackerCap |-> "trackerCap", p2pAddr |-> "p2pSrvrAddr", maxPending |-> "p2pSrvrQSize",
   maxPeers |-> "maxNumPeers", maxOpenFiles |-> "maxOpenProds"]
PubKeys ==
  [name |-> "feedName", maxSegSize |-> "maxSegSize", trackerCap |-> "trackerCap", rootDir |-> "pubRoot",
   pubAddr |-> "pubSrvrAddr", pubPending |-> "pubSrvrQSize", dstAddr |-> "mcastDstAddr", srcAddr |-> "mcastSrcAddr"]
SubKeys ==
  [rootDir |-> "subRoot", pubAddr |-> "pubSrvrAddr", p2pAddr |-> "p2pSrvrAddr", maxPending |-> "p2pSrvrQSize",
   maxPeers |-> "maxNumPeers", trackerSize |-> "trackerCap", maxOpenFiles |-> "maxOpenProds",
   disposeConfig |-> "disposeConfig"]
IntervalKeys ==
  [evalTime |-> "peerEvalInterval", heartbeatInterval |-> "heartbeatInterval"] @@
  IF program = "publisher" THEN [keepTime |-> "prodKeepTime"] ELSE [retryInterval |-> "retryInterval"]

Addresses == {"p2pSrvrAddr", "pubSrvrAddr", "mcastDstAddr", "mcastSrcAddr"}
NameKeys == {"pubRoot", "subRoot", "feedName", "disposeConfig"}

-----------------------------------------------------------------------------
(* Values *)

IsReadable(name, text) ==
  CASE name \in Addresses -> text \in DOMAIN FamilyOf
    [] name \in NameKeys     -> TRUE
    [] OTHER              -> text \in DOMAIN Number

\* Conversion of an option's number: "%u" makes a negative number greater than any
\* limit, and a segment's size has 16 bits.
Converted(name, n) ==
  CASE name = "maxOpenProds" -> IF n < 0 THEN SysMax + 1 ELSE n
    [] name = "maxSegSize"   -> n % 65536
    [] OTHER                 -> n
Value(name, text) == IF name \in Addresses \cup NameKeys THEN text ELSE Converted(name, Number[text])

\* as<TYPE>(): a number in a file that the type doesn't hold is refused.
Decodes(name, text) ==
  /\ IsReadable(name, text)
  /\ name \in {"maxOpenProds", "maxSegSize"} => Converted(name, Number[text]) = Number[text]

\* Parser::tryDecode() of each key: a missing one leaves the parameter.
Set(keys, file) == {k \in DOMAIN keys : k \in DOMAIN file.keys}
OverlaidIfDefault(p, keys, file) == [name \in DOMAIN p |->
  IF p[name] = Default[name] /\ \E k \in Set(keys, file) : keys[k] = name
  THEN Value(name, file.keys[CHOOSE k \in Set(keys, file) : keys[k] = name]) ELSE p[name]]
Overlaid(p, keys, file) == [name \in DOMAIN p |->
  IF \E k \in Set(keys, file) : keys[k] = name
  THEN Value(name, file.keys[CHOOSE k \in Set(keys, file) : keys[k] = name]) ELSE p[name]]
AllDecode(keys, file) == \A k \in Set(keys, file) : Decodes(keys[k], file.keys[k])

\* tryDecode() into a local variable, which keeps what it held if the key is missing
Seconds(key, file, held) == IF key \in DOMAIN file.keys THEN {Number[file.keys[key]]} ELSE held

\* RunPar::setFromYaml(), to which both programs pass a file first
SetCommon(p, file) ==
  LET q == Overlaid(p, CommonKeys, file)
  IN IF "peer2Peer" \notin file.sections THEN {q}
     ELSE UNION {{[q EXCEPT !.peerEvalInterval = eval, !.heartbeatInterval = beat] :
                   beat \in Seconds("heartbeatInterval", file, {eval})} :
                  eval \in Seconds("evalTime", file, Garbage)}
\* setFromYaml() of publish.cpp
SetFromYaml(p, file) ==
  LET q == Overlaid(p, PubKeys, file)
  IN IF "repository" \notin file.sections THEN {q}
     ELSE {[q EXCEPT !.prodKeepTime = keep] : keep \in Seconds("keepTime", file, Garbage)}
\* setFromConfig() of subscribe.cpp
SetFromConfig(p, file) ==
  LET q == Overlaid(p, SubKeys, file)
  IN {[q EXCEPT !.retryInterval = retry, !.peerEvalInterval = eval] :
       retry \in Seconds("retryInterval", file, Garbage),
       eval \in IF "peer2Peer" \in file.sections THEN Seconds("evalTime", file, Garbage)
                                                 ELSE {p.peerEvalInterval}}
FileOutcomes(file) ==
  UNION {IF program = "publisher" THEN SetFromYaml(p, file) ELSE SetFromConfig(p, file) : p \in SetCommon(par, file)}
FileIsGood(file) ==
  /\ AllDecode(CommonKeys, file) /\ AllDecode(IntervalKeys, file)
  /\ AllDecode(IF program = "publisher" THEN PubKeys ELSE SubKeys, file)

-----------------------------------------------------------------------------
(* Reading the command line *)

Init ==
  /\ program \in {"publisher", "subscriber"} /\ args \in CommandLines /\ arg = 1
  /\ par = Default /\ status = "reading"

Reading == status = "reading" /\ arg <= Len(args)
Argument == args[arg]
End(how) == status' = how /\ UNCHANGED <<program, args, arg, par>>
Continue == arg' = arg + 1 /\ UNCHANGED <<program, args, status>>

\* A subscriber's options are ":b:e:hl:n:o:p:q:t:" and ":c:d:i:r:" in a row, by which
\* -t has an optional argument: it doesn't take the next word, and the pointer that
\* sscanf() reads from is null.
TakesNoText(opt) == program = "subscriber" /\ opt = "t"
\* "-i" sets what is the default anyway.
IsIgnored(opt) == program = "subscriber" /\ opt = "i"

Option ==
  /\ Reading /\ Argument.opt \in DOMAIN OptionsOf
  /\ LET name == OptionsOf[Argument.opt]
     IN IF TakesNoText(Argument.opt) THEN End("crashed")
        ELSE IF ~IsReadable(name, Argument.text) THEN End("threw")
        ELSE /\ par' = [par EXCEPT ![name] = IF IsIgnored(Argument.opt) THEN 60 ELSE Value(name, Argument.text)]
             /\ Continue

ConfigFile ==
  /\ Reading /\ Argument.opt = "c"
  /\ IF FileIsGood(Files[Argument.text]) THEN par' \in FileOutcomes(Files[Argument.text]) /\ Continue
                                         ELSE End("threw")

\* usage() and exit(0)
Help == Reading /\ Argument.opt = "h" /\ End("exited")

UnknownOption ==
  /\ Reading /\ Argument.opt \notin DOMAIN OptionsOf \cup {"c", "h", "operand"}
  /\ End("threw")

\* getopt() leaves operands to the end.
PassOperand == Reading /\ Argument.opt = "operand" /\ Continue /\ UNCHANGED par
IsOperand(a) == a.opt = "operand"
Operands == SelectSeq(args, IsOperand)

-----------------------------------------------------------------------------
(* Deriving and checking *)

\* RunPar::vet()
VetCommon(p) ==
  /\ p.heartbeatInterval # 0
  /\ \A name \in {"peerEvalInterval", "trackerCap", "maxNumPeers", "maxOpenProds", "prodKeepTime", "p2pSrvrQSize"} :
       p[name] > 0
  /\ p.maxOpenProds <= SysMax
  /\ p.pubRoot # NoText /\ p.subRoot # NoText

\* vetRunPars() of publish.cpp
UdpMaxPayload == 65507
VetPub(p) ==
  /\ FamilyOf[p.mcastDstAddr] = FamilyOf[p.mcastSrcAddr]
  /\ p.pubSrvrQSize > 0 /\ p.maxSegSize \in 1..UdpMaxPayload

\* vetRunPars() of subscribe.cpp. The file of dispositions exists.
VetSub(p) ==
  /\ \A name \in {"p2pSrvrQSize", "maxNumPeers", "trackerCap", "peerEvalInterval", "maxOpenProds"} : p[name] > 0
  /\ p.maxOpenProds <= SysMax /\ p.subRoot # NoText

Or(text, other) == IF text = NoText THEN other ELSE text
FinishPub ==
  /\ status = "reading" /\ arg > Len(args) /\ program = "publisher"
  /\ LET source == Or(par.mcastSrcAddr, LocalAddr[FamilyOf[par.mcastDstAddr]])
         p == [par EXCEPT !.mcastSrcAddr = source, !.p2pSrvrAddr = Or(@, source)]
     IN IF Operands = <<>> /\ VetCommon(p) /\ VetPub(p)
        THEN status' = "ready" /\ par' = p /\ UNCHANGED <<program, args, arg>>
        ELSE End("threw")

FinishSub ==
  /\ status = "reading" /\ arg > Len(args) /\ program = "subscriber"
  /\ LET used == par.pubSrvrAddr = NoText
     IN IF Len(Operands) = (IF used THEN 1 ELSE 0) /\ (used => Operands[1].text \in DOMAIN FamilyOf)
        THEN LET pub == IF used THEN Operands[1].text ELSE par.pubSrvrAddr
                 p == [par EXCEPT !.pubSrvrAddr = pub, !.p2pSrvrAddr = Or(@, LocalAddr[FamilyOf[pub]])]
             IN IF VetSub(p) THEN status' = "ready" /\ par' = p /\ UNCHANGED <<program, args, arg>>
                             ELSE End("threw")
        ELSE End("threw")

Next == Option \/ ConfigFile \/ Help \/ UnknownOption \/ PassOperand \/ FinishPub \/ FinishSub
Spec == Init /\ [][Next]_options

-----------------------------------------------------------------------------
(* Properties *)

TypeOK ==
  /\ arg \in 1..(Len(args) + 1) /\ status \in {"reading", "ready", "exited", "threw", "crashed"}
  /\ DOMAIN par = DOMAIN Default

\* Keys that the program's file may have for a parameter
KeysFor(name) == {k \in DOMAIN CommonKeys : CommonKeys[k] = name}
  \cup {k \in DOMAIN IntervalKeys : IntervalKeys[k] = name}
  \cup IF program = "publisher" THEN {k \in DOMAIN PubKeys : PubKeys[k] = name}
                             ELSE {k \in DOMAIN SubKeys : SubKeys[k] = name}
Given(a, name) ==
  CASE a.opt = "c" -> {Value(name, Files[a.text].keys[k]) : k \in KeysFor(name) \cap DOMAIN Files[a.text].keys}
    [] a.opt \in DOMAIN OptionsOf -> IF OptionsOf[a.opt] = name THEN {Value(name, a.text)} ELSE {}
    [] OTHER -> {}
\* A file without the key of an interval, and a subscriber's -i, set it all the same.
Spoils(a, name) ==
  \/ IsIgnored(a.opt) /\ name = "retryInterval"
  \/ /\ a.opt = "c" /\ Given(a, name) = {}
     /\ \E k \in DOMAIN IntervalKeys : IntervalKeys[k] = name

\* "Overrides previous arguments; overridden by subsequent ones" (usage() of both
\* programs): each parameter is what the last option or key for it says, its default
\* if there is none, or an address derived from another.
LastWins == status = "ready" => \A name \in DOMAIN par :
  LET setters == {k \in DOMAIN args : Given(args[k], name) # {}}
      last == CHOOSE k \in setters : \A j \in setters : j <= k
      expected == IF setters = {} THEN {Default[name]} ELSE Given(args[last], name)
  IN \/ \E k \in DOMAIN args : Spoils(args[k], name) /\ \A j \in setters : j <= k
     \/ par[name] \in expected
     \/ expected = {NoText} /\ par[name] \in DOMAIN FamilyOf

\* ... and so for intervals and -t, as the same texts say.
IntervalsAreRead ==
  /\ status # "crashed"
  /\ status = "ready" => \A k \in DOMAIN args, name \in DOMAIN par : Spoils(args[k], name) =>
       \/ \E j \in DOMAIN args : j > k /\ Given(args[j], name) # {}
       \/ par[name] \in {Default[name]} \cup UNION {Given(args[j], name) : j \in DOMAIN args}
=============================================================================
