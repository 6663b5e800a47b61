----------------------------- MODULE MCOverlay -----------------------------
\* A publisher p and subscribers, and what their trackers hold
EXTENDS Overlay

CONSTANTS p, a, b, c

TwoSubs   == {p, a, b}
ThreeSubs == {p, a, b, c}
\* a finds the publisher, b the publisher and a, c only b
Chain == {<<a, p>>, <<b, p>>, <<b, a>>, <<c, b>>}
\* Everybody finds everybody
All == {a, b} \X {p, a, b}
=============================================================================
