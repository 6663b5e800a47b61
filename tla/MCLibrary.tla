------------------------------ MODULE MCLibrary ------------------------------
(***************************************************************************)
(* The parts that the components rest on, and that don't interact: one of  *)
(* them moves in each behaviour, which the initial state chooses, and the  *)
(* others rest in an initial state of theirs.                              *)
(***************************************************************************)
EXTENDS Integers, Sequences, TLC, Yaml

CONSTANTS
  Writers, Setups, Room, MaxPayload, MaxPackets,              \* Wire
  Numeric, Lookup, PortValue, Interfaces, LittleEndian,       \* InetAddr
  Endpoints, SendRoom, CallSize, MaxBytes, MaxTries,          \* Sockets
  Specs, DefaultPort, Received,                               \* AddrMap
  Clients, Servers, Data, MaxClients, MaxServers, MaxRating,  \* Ratings
  Values, NoValue,                                            \* LinkedQueues
  CommandLines, Files, Number, FamilyOf, LocalAddr, Garbage, SysMax,          \* Options
  Documents, KeepOpens, IntOf, BoolOf, Matching, BadRegex, Products,          \* DispConfig
  Hosts, Reports, Trackers, Capacity, Delay, MaxTime, MaxAvail, MaxDelayed,   \* Tracker
  Sizes, MaxSegSize, SizeLimit, Offsets, MaxCreated,                          \* ProdFiles
  Root, Names, Incomplete, Ids, Outside,                                      \* FileTree
  ProdIds, SegOffsets, SockAddrs, BucketCounts, HashText(_),                  \* HashTables
  SegCounts, Subscribers,                                                       \* Backlog
  Cwds, Roots, Words, CompleteDir, PathMax,                                   \* Pathnames
  Second, Grain, KeepTime, MinTime, MaxClock,                                 \* FileTimes
  ProdSizes, Threads, Latencies, Wrap, MaxRecv                                \* Metrics

VARIABLES
  part, \* Which one moves
  proto, segSize, raw, todo, left, out, net, wire, lost, want, got, reader, packets, sent, rcvd,
  endpoint, at, family, fd, outcome, errno, linked, index, tries, shut, flag, halter, arrived, total, fin,
  reset, room, pc, rest, taken, trouble,
  known, keys, inserted,
  role, state, active, halted, rating, noticed, changed, tenured, done,
  kind, next, prev, head, tail, drained,
  program, args, arg, par, status,
  document, maxKeepOpen, patActs, item, phase, first,
  srvrInfos, srvrQueue, delayQueue, now, aborted,
  prodSize, pathname, prodFd, haveSegs, segCount, alive, dir, disk, created, deleted, pointer, result,
  tree, asked, failed,
  class, table, count, meant, cell,
  made, repo, procQueue, sender, multicast, saved, peer, noticeQ, had, missing, held,
  pubDir, subDir, place, below, rising,
  clock, userFile, creation, product, savedTime, recalled, refused,
  stored, counts, pdu, totals, recvd, late, joined, report

wireVars == <<proto, segSize, raw, todo, left, out, net, wire, lost, want, got, reader, packets, sent, rcvd>>
socketVars == <<endpoint, at, family, fd, outcome, errno, linked, index, tries, shut, flag, halter, arrived, total,
                fin, reset, room, pc, rest, taken, trouble>>
addressVars == <<known, keys, inserted>>
ratingVars == <<role, state, active, halted, rating, noticed, changed, tenured, done>>
queueVars == <<kind, next, prev, head, tail, drained>>
optionVars == <<program, args, arg, par, status>>
dispVars == <<document, maxKeepOpen, patActs, item, phase, first>>
trackerVars == <<srvrInfos, srvrQueue, delayQueue, now, aborted>>
fileVars == <<prodSize, pathname, prodFd, haveSegs, segCount, alive, dir, disk, created, deleted, pointer, result>>
treeVars == <<tree, asked, failed>>
tableVars == <<class, table, count, meant, cell>>
backlogVars == <<made, repo, procQueue, sender, multicast, saved, peer, noticeQ, had, missing, held>>
nameVars == <<pubDir, subDir, place, below, rising>>
timeVars == <<clock, userFile, creation, product, savedTime, recalled, refused>>
metricVars == <<stored, counts, pdu, totals, recvd, late, joined, report>>
all == <<part, wireVars, socketVars, addressVars, ratingVars, queueVars, optionVars, dispVars, trackerVars, fileVars,
         treeVars, tableVars, backlogVars, nameVars, timeVars, metricVars>>

W == INSTANCE Wire
S == INSTANCE Sockets
A == INSTANCE AddrMap
R == INSTANCE Ratings
L == INSTANCE LinkedQueues
O == INSTANCE Options
C == INSTANCE DispConfig
T == INSTANCE Tracker
P == INSTANCE ProdFiles WITH fd <- prodFd
F == INSTANCE FileTree
H == INSTANCE HashTables
B == INSTANCE Backlog WITH sent <- multicast
N == INSTANCE Pathnames
D == INSTANCE FileTimes
E == INSTANCE Metrics
ASSUME LibraryAssumption == P!ProdFilesAssumption /\ T!TrackerAssumption

Msg(op, type, body) == [op |-> op, type |-> type, body |-> body]
Raw(type, body) == Msg("exchange", type, body)
\* Types are those of InetAddr::Impl::AddrType
Host4 == [type |-> 0, value |-> 50]
Host6 == [type |-> 1, value |-> 51]
HostName == [type |-> 2, len |-> 3, value |-> 52]
Info(addr, avail) == [sock |-> [addr |-> addr, port |-> 38800], tier |-> 1, avail |-> avail,
                      secs |-> 60, usecs |-> 61]
Seg(offset) == [id |-> 71, offset |-> offset]
Segment(offset, size) == [id |-> 71, offset |-> offset, prodSize |-> size, data |-> 80 + offset]
Sub == [version |-> 1, nameLen |-> 6, name |-> 53, dst |-> [addr |-> Host4, port |-> 38800], src |-> Host4,
        tracker |-> <<Info(Host4, 2)>>, keep |-> 62]
Prod == [id |-> 71, nameLen |-> 4, name |-> 72, size |-> 5, time |-> 63]

CONSTANTS w1, w2
Tcp(before, m1, m2) == [proto |-> "TCP", segSize |-> 4, raw |-> before, todo |-> (w1 :> m1) @@ (w2 :> m2)]
Udp(size, ms) == [proto |-> "UDP", segSize |-> size, raw |-> <<>>, todo |-> (w1 :> ms) @@ (w2 :> <<>>)]
Idle == Tcp(<<>>, <<>>, <<>>)
MCSetups == {Idle,
  \* Notice transport: the peers exchange information on their servers first
  Tcp(<<"SrvrInfo">>,
      <<Raw("SrvrInfo", Info(HostName, 0)), Msg("notify", "ProdId", 71), Msg("beat", "none", 0)>>,
      <<Msg("notify", "SrvrInfo", Info(Host6, 1))>>),
  Tcp(<<>>, <<Msg("send", "Tracker", <<Info(Host4, 1), Info(HostName, 0)>>)>>,
      <<Msg("send", "SrvrInfo", Info(Host4, 1)), Msg("notify", "DataSegId", Seg(4))>>),
  \* Subscription: tracker and information on the subscriber's server, information on the subscription
  Tcp(<<"Tracker", "SrvrInfo">>, <<Raw("Tracker", <<Info(Host6, 3)>>), Raw("SrvrInfo", Info(Host4, 2))>>, <<>>),
  Tcp(<<"SubInfo">>, <<Raw("SubInfo", Sub)>>, <<>>),
  \* Request transport
  Tcp(<<>>, <<Msg("request", "ProdId", 71), Msg("request", "DataSegId", Seg(0))>>,
      <<Msg("request", "ProdIds", <<73, 74>>), Msg("request", "DataSegId", Seg(4))>>),
  \* Data transport
  Tcp(<<>>, <<Msg("send", "ProdInfo", Prod)>>,
      <<Msg("send", "DataSeg", Segment(0, 5)), Msg("send", "DataSeg", Segment(4, 5))>>),
  \* Multicast, with segments that fit and one that doesn't
  Udp(4, <<Msg("multicast", "ProdInfo", Prod), Msg("multicast", "DataSeg", Segment(0, 5)),
           Msg("multicast", "DataSeg", Segment(4, 5))>>),
  Udp(30, <<Msg("multicast", "DataSeg", Segment(0, 31)), Msg("multicast", "DataSeg", Segment(30, 31))>>)}

V4(a, b, c, d) == [type |-> "ipv4", value |-> <<a, b, c, d>>]
V6(hi, lo, end) == [type |-> "ipv6", value |-> <<hi, lo, 0,0,0,0,0,0,0,0,0,0,0,0,0, end>>]
Ours4 == V4(10, 0, 0, 1)    Theirs4 == V4(9, 0, 0, 2)   Any4 == V4(0, 0, 0, 0)  Group4 == V4(232, 1, 1, 1)
Ours6 == V6(254, 128, 1)    Any6 == V6(0, 0, 0)         Group6 == V6(255, 48, 1)
TheName == [type |-> "name", value |-> <<104>>]
MCNumeric == {[text |-> <<100>>, addr |-> Ours4], [text |-> <<101>>, addr |-> Theirs4],
  [text |-> <<102, 58, 58, 103>>, addr |-> Ours6], [text |-> <<58, 58>>, addr |-> Any6]}
MCLookup == {<<Ours4>>, <<Ours6, Ours4>>, <<[type |-> "other"], Ours4>>, <<>>}
MCPortValue == (200 :> 80) @@ (201 :> 70000)
MCInterfaces == <<[addr |-> Ours6, index |-> 2], [addr |-> Ours4, index |-> 3]>>

At(inet, port) == [inet |-> inet, port |-> port]
Server(addr) == [class |-> "server", addr |-> addr]
Client(addr) == [class |-> "client", addr |-> addr]
Sender(addr, iface) == [class |-> "sender", addr |-> addr, iface |-> iface]
Receiver(addr, source, iface) == [class |-> "receiver", addr |-> addr, source |-> source, iface |-> iface]
Resting == Client(At(Ours4, 0))
MCEndpoints == {Resting, Server(At(Any4, 0)), Server(At(TheName, 1)), Client(At(Ours4, 1)), Client(At(TheName, 1)),
  Sender(At(Group4, 1), Ours4), Sender(At(Ours6, 1), Ours6), Sender(At(Group4, 1), TheName),
  Receiver(At(Group4, 1), Ours4, Any4), Receiver(At(Group4, 1), TheName, Any4),
  Receiver(At(Group4, 1), Ours4, Theirs4), Receiver(At(Ours4, 1), Ours4, Any4), Receiver(At(Group6, 1), Ours6, Ours6)}

MCSpecs == {<<104>>, <<104, 58, 200>>, <<100, 58, 200>>, <<100, 58, 201>>, <<102, 58, 58, 103>>,
  <<91, 102, 58, 58, 103, 93, 58, 200>>, <<58, 58>>, <<58, 200>>, <<102, 58, 58, 103, 93, 58, 200>>, <<104, 58, 105>>}
MCReceived == {At(TheName, 80), At([type |-> "name", value |-> <<105, 106>>], 80), At(Theirs4, 80), At(Ours4, 81)}

Arg(opt, text) == [opt |-> opt, text |-> text]
MCArgs == {Arg("b", "0"), Arg("e", "5"), Arg("o", "-1"), Arg("n", "x"), Arg("p", "fe80::1"), Arg("t", "5"),
  Arg("d", "70000"), Arg("d", "5"), Arg("m", "fe80::1"), Arg("s", "10.0.0.1"), Arg("r", "root"), Arg("i", "5"),
  Arg("c", "f1"), Arg("c", "f2"), Arg("z", "5"), Arg("h", ""), Arg("operand", "10.0.0.1"), Arg("operand", "x")}
MCCommandLines == {<<>>} \cup {<<a>> : a \in MCArgs} \cup {<<a, b>> : a, b \in MCArgs}
  \cup {<<a, b, Arg("operand", "10.0.0.1")>> : a, b \in MCArgs}
MCNumber == ("-1" :> -1) @@ ("0" :> 0) @@ ("5" :> 5) @@ ("70000" :> 70000)
MCFamilyOf == ("10.0.0.1" :> 4) @@ ("fe80::1" :> 6) @@ ("232.1.1.1" :> 4) @@ ("0.0.0.0" :> 4)
  @@ ("10.0.0.2" :> 4) @@ ("fe80::2" :> 6)
MCLocalAddr == (4 :> "10.0.0.2") @@ (6 :> "fe80::2")
MCFiles ==
  [f1 |-> [sections |-> {"peer2Peer"}, keys |-> [evalTime |-> "5", maxPeers |-> "5", rootDir |-> "dir"]],
   f2 |-> [sections |-> {"peer2Peer", "repository"},
           keys |-> [retryInterval |-> "5", heartbeatInterval |-> "5", maxOpenFiles |-> "5",
                     pubAddr |-> "10.0.0.1", p2pAddr |-> "10.0.0.1", maxPending |-> "5"]]]

Text(text) == Scalar(text)
M(keys_) == Map(keys_)
Command == List(<<Text("decode"), Text("$1")>>)
MCItems == {M("exec" :> Command), M("exec" :> Command @@ "keepOpen" :> Text("true")),
  M("include" :> Text("A.*") @@ "exclude" :> Text("AB") @@ "pipe" :> Command @@ "keepOpen" :> Text("true")),
  M("include" :> Text("A.*") @@ "file" :> Text("$1")), M("append" :> Text("log") @@ "keepOpen" :> Text("maybe")),
  M("append" :> Text("log") @@ "exclude" :> Text("A.*")), M("pipe" :> List(<<Text("decode")>>)),
  M("pipe" :> List(<<>>)), M("exec" :> Text("decode")), M("file" :> Command),
  M("pipe" :> Command @@ "file" :> Text("log")), M("include" :> Text("(") @@ "file" :> Text("log")),
  M("include" :> Text("A.*")), Text("file"),
  M("actions" :> List(<<M("file" :> Text("$1")), M("append" :> Text("log") @@ "keepOpen" :> Text("true"))>>)),
  M("actions" :> List(<<M("file" :> Text("$1"))>>) @@ "file" :> Text("log")),
  M("actions" :> List(<<M("include" :> Text("A.*"))>>)), M("actions" :> M("file" :> Text("log")))}
MCDocuments ==
  {M("patternActions" :> List(s)) : s \in {<<>>} \cup {<<i>> : i \in MCItems} \cup {<<i, j>> : i, j \in MCItems}}
  \cup {M("maxKeepOpen" :> Text("-1")), M("maxKeepOpen" :> Text("0")), M("maxKeepOpen" :> Text("x")), Text("x"),
        M("patternActions" :> Text("x"))}
MCIntOf == "-1" :> -1 @@ "0" :> 0 @@ "5" :> 5 @@ "20" :> 20
MCBoolOf == "true" :> TRUE
MCMaxServers == [publisher |-> 2, subscriber |-> 1]
MCProducts == {"A", "AB", "B"}
MCMatching == {<<".*", p>> : p \in MCProducts} \cup {<<"A.*", "A">>, <<"A.*", "AB">>, <<"AB", "AB">>}

Metrics(tier, avail, valid) == [tier |-> tier, avail |-> avail, valid |-> valid]
MCReports == {Metrics(-1, -1, 0), Metrics(0, 0, 1), Metrics(1, 1, 1)}
Entry(addr, info) == [addr |-> addr, info |-> info]
MCTrackers == {<<Entry(1, Metrics(1, 1, 1)), Entry(2, Metrics(0, 0, 0)), Entry(3, Metrics(1, 1, 0))>>}

MCRoot == <<"products">>
MCIncomplete == <<"incomplete">>
MCOutside == <<"elsewhere">>
MCSockAddrs == {At(Ours4, 1), At(Ours4, 2), At(Ours6, 1), At(TheName, 1)}
MCHashText(bytes) == (Len(bytes) + bytes[Len(bytes)]) % 8
MCSegCounts == <<1, 1>>
MCNames == {<<"a">>, <<"a", "a">>, <<"a", "b", "a">>}

MCCwds == {<<"/">>, <<"/", "a">>}
MCRoots == {<<>>, <<"/">>, <<"a">>, <<"a", "/">>, <<"/", "a", "/", "/">>, <<".">>, <<".", "/", "a">>}
MCWords == {<<"a">>, <<"a", "a">>}
MCCompleteDir == <<"a", "a", "a">>
MCMinTime == -100
MCProdSizes == <<3, 5>>
MCThreads == {[name |-> n, way |-> IF n = 1 THEN "mcast" ELSE "p2p"] : n \in 1..3}
MCLatencies == {-1, 2}

Init ==
  /\ part \in {"wire", "sockets", "addresses", "ratings", "queues", "options", "dispositions", "tracker", "file", "tree", "tables",
             "backlog", "pathnames", "times", "metrics"}
  /\ W!Init /\ IF part = "wire" THEN TRUE ELSE raw = <<>> /\ todo = Idle.todo /\ proto = "TCP"
  /\ IF part = "sockets" THEN TRUE ELSE endpoint = Resting
  /\ IF part = "ratings" THEN TRUE ELSE role = "publisher"
  /\ IF part = "queues" THEN TRUE ELSE kind = "RequestQ"
  /\ IF part = "options" THEN TRUE ELSE program = "publisher" /\ args = <<>>
  /\ IF part = "dispositions" THEN TRUE ELSE document = M("maxKeepOpen" :> Text("0")) /\ maxKeepOpen = 5
  /\ IF part = "file" THEN TRUE ELSE prodSize = 0
  /\ H!Init /\ IF part = "tables" THEN TRUE ELSE class = "Notice" /\ count = 1
  /\ N!Init /\ IF part = "pathnames" THEN TRUE ELSE pubDir = N!ProdDir(<<>>, <<"/">>) /\ subDir = pubDir
  /\ D!Init /\ E!Init /\ T!Init /\ P!Init /\ F!Init /\ B!Init /\ S!Init /\ A!Init /\ R!Init /\ L!Init /\ O!Init /\ C!Init

\* The other parts rest.
Rest ==
  /\ part # "wire" => UNCHANGED wireVars
  /\ part # "sockets" => UNCHANGED socketVars
  /\ part # "addresses" => UNCHANGED addressVars
  /\ part # "ratings" => UNCHANGED ratingVars
  /\ part # "queues" => UNCHANGED queueVars
  /\ part # "options" => UNCHANGED optionVars
  /\ part # "dispositions" => UNCHANGED dispVars
  /\ part # "tracker" => UNCHANGED trackerVars
  /\ part # "file" => UNCHANGED fileVars
  /\ part # "tree" => UNCHANGED treeVars
  /\ part # "tables" => UNCHANGED tableVars
  /\ part # "backlog" => UNCHANGED backlogVars
  /\ part # "pathnames" => UNCHANGED nameVars
  /\ part # "times" => UNCHANGED timeVars
  /\ part # "metrics" => UNCHANGED metricVars
Moves(p) == part = p /\ UNCHANGED part /\ Rest
NextWire == Moves("wire") /\ W!Next
NextSockets == Moves("sockets") /\ S!Next
NextAddresses == Moves("addresses") /\ A!Next
NextRatings == Moves("ratings") /\ R!Next
NextQueues == Moves("queues") /\ L!Next
NextOptions == Moves("options") /\ O!Next
NextDispositions == Moves("dispositions") /\ C!Next
NextTracker == Moves("tracker") /\ T!Next
NextFile == Moves("file") /\ P!Next
NextTree == Moves("tree") /\ F!Next
NextTables == Moves("tables") /\ H!Next
NextBacklog == Moves("backlog") /\ B!Next
NextPathnames == Moves("pathnames") /\ N!Next
NextTimes == Moves("times") /\ D!Next
NextMetrics == Moves("metrics") /\ E!Next
Next ==
  \/ NextWire \/ NextSockets \/ NextAddresses \/ NextRatings \/ NextQueues \/ NextOptions
  \/ NextDispositions \/ NextTracker \/ NextFile \/ NextTree \/ NextTables \/ NextBacklog
  \/ NextPathnames \/ NextTimes \/ NextMetrics

\* What is fair of a part holds of it at rest, too.
Spec == Init /\ [][Next]_all /\ W!Fairness /\ S!Fairness

\* Types of all parts (see each module's TypeOK).
TypeOK ==
  CASE part = "wire" -> W!TypeOK [] part = "sockets" -> S!TypeOK [] part = "addresses" -> A!TypeOK
    [] part = "ratings" -> R!TypeOK [] part = "queues" -> L!TypeOK [] part = "options" -> O!TypeOK
    [] part = "dispositions" -> C!TypeOK [] part = "tracker" -> T!TypeOK [] part = "file" -> P!TypeOK
    [] part = "tree" -> F!TypeOK [] part = "tables" -> H!TypeOK [] part = "backlog" -> B!TypeOK
    [] part = "pathnames" -> N!TypeOK [] part = "times" -> D!TypeOK [] part = "metrics" -> E!TypeOK
\* Whoever is in a call when a socket is shut down gets out of it, that or losing the connection
\* is no error to the socket's users, and they read bytes as they came (see Sockets: Socket.cpp).
CallsEndWell == [](S!LossIsNoError /\ S!NothingSkipped) /\ S!ShutdownEndsCalls
\* What a publisher sends is announced to every peer, by a notice or its backlog, and saved as sent
\* only then; and what subscribers count of it is reported as it was (see Backlog, Metrics:
\* PubNodeImpl::runSender(), BasePeerImpl::runBacklog(), printMetrics()).
EachIsAnnounced == B!EachIsAnnounced /\ B!SavedIsSent /\ E!ReportIsTrue
\* Socket addresses can be keys, their texts are read back, hash tables find what they hold, and
\* a tracker's queue stays in the order of what is known (see AddrMap, HashTables, Tracker:
\* InetAddr, SockAddr, Notice, SubPeerImpl::Request, Tracker).
KeysAreFound ==
  /\ part = "addresses" => A!KeysAreFound /\ A!TextIsReadBack /\ A!OrderIsNetworks
  /\ part = "tables" => H!EachIsFound /\ H!TagTellsMember
  /\ T!QueueIsOrdered
\* Transports carry whole messages and linked hash tables hold queues: the abstract
\* specifications Channel and Queue (see Wire, LinkedQueues: Xprt, Rpc, HashSetQueue, RequestQ).
SpecsAreImplemented == W!CarriesMessages /\ L!LinksHoldQueue
\* Only the worst peer is halted until all are (see Ratings: haltWorstPeer(), stopImpl()).
OnlyWorstIsHalted == R!OnlyWorstIsHalted /\ []R!AllAreHalted
=============================================================================
