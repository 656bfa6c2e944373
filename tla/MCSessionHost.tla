--------------------------- MODULE MCSessionHost ---------------------------
(* Instances of SessionHost for TLC: two connections, a dashboard and a       *)
(* terminal attached with `climon attach`.                                    *)
EXTENDS SessionHost, TLC

CONSTANTS c1, c2, v1, v2

\* Each connection belongs to a viewer of its own.
OwnViewer == c1 :> v1 @@ c2 :> v2

\* One viewer reconnects: its second connection sends the viewer id of its
\* first (TerminalView.tsx keeps the id for the lifetime of the tab).
SameViewer == c1 :> v1 @@ c2 :> v1

MixedKinds == c1 :> 2 @@ c2 :> 1

\* The order matters only where two clients share a viewer id.
OneOrder == {c1 :> 1 @@ c2 :> 2}
BothOrders == {c1 :> 1 @@ c2 :> 2, c1 :> 2 @@ c2 :> 1}
=============================================================================
