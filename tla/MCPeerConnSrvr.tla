--------------------------- MODULE MCPeerConnSrvr ---------------------------
(* Instances of PeerConnSrvr for TLC. *)
EXTENDS PeerConnSrvr, TLC

CONSTANTS a1, a2

MCAttempts == {a1, a2}
MCHostOf == (a1 :> "h") @@ (a2 :> "h")

\* The client of a1 may be arbitrarily slow; that of a2 isn't.
MCSlowSpec == Spec /\ ServerFairness /\ ClientFairness(a2)

\* A client is served, or learns that it isn't, however slow another one is:
\* "a slow connection attempt won't hinder faster attempts" (PeerConn.cpp,
\* constructor of PeerConnSrvrImpl).
SlowWontHinder == (st[a2] = "waiting") ~> (st[a2] # "waiting" \/ Hindered(a2))
=============================================================================
