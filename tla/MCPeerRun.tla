------------------------------ MODULE MCPeerRun ------------------------------
(* Instances of PeerRun for TLC. *)
EXTENDS PeerRun, TLC

CONSTANTS d1, d2, d3

PubSub(ds, may) == [pub |-> {A}, has |-> (A :> ds) @@ (B :> {}), events |-> may]
SubSub(ds, es, may) == [pub |-> {}, has |-> (A :> ds) @@ (B :> es), events |-> may]
MCSetups == {PubSub({d1}, {"cut"}), PubSub({d1, d2}, {"delete", "beat"}), PubSub(Data, {"beat"}), PubSub({d1}, {"beat", "halt"}),
             PubSub({d1}, {"save"}), SubSub({d1}, {d2}, {"beat"}), SubSub({d1}, {d2}, {"halt"}),
             SubSub({d1}, {}, {"save", "delete"})}
=============================================================================
