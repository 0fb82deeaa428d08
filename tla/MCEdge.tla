------------------------------- MODULE MCEdge -------------------------------
(***************************************************************************)
(* One collar on a 3 by 3 map.  The fences a downlink may carry include    *)
(* one that excludes the default position, one of a single point and an    *)
(* inverted one, so that every comparison of Inside decides somewhere.     *)
(***************************************************************************)
EXTENDS Edge

Box(a, b, c, d) == [minLat |-> a, maxLat |-> b, minLon |-> c, maxLon |-> d]
At(a, b) == [lat |-> a, lon |-> b]

MCCoord == 0 .. 2
MCDefaultPos == At(1, 1)
MCDefaultFence == Box(0, 1, 0, 1)
MCGpsTargets == {At(0, 2), At(2, 0), At(1, 1)}
MCFenceTargets == {Box(2, 2, 0, 0), Box(1, 1, 1, 1), Box(2, 0, 0, 2)}

=============================================================================
