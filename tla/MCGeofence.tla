------------------------------ MODULE MCGeofence ------------------------------
(***************************************************************************)
(* The fences ordered ascend in every coordinate, see NotOlder.            *)
(***************************************************************************)
EXTENDS Geofence

Box(a, b, c, d) == [minLat |-> a, maxLat |-> b, minLon |-> c, maxLon |-> d]

MCCoord == 0 .. 2
MCDefaultPos == [lat |-> 1, lon |-> 1]
MCDefaultFence == Box(0, 0, 0, 0)
MCNoOrders == << >>
MCOneFence == << Box(1, 1, 1, 1) >>
MCTwoFences == << Box(1, 1, 1, 1), Box(2, 2, 2, 2) >>
MCConfigTopic == {"config_update"}

ASSUME MCOrders == OrdersAscend /\ OneFenceTopic

(* All variables but newest and relayed, which only record history: no     *)
(* guard and neither of the action properties of the run with this view    *)
(* reads them.                                                             *)
WithoutHistory ==
    <<collarVars, envVars, lora, rx, asked, copied, downlink, notified, dio0,
      radio, fifo, handler, incoming, buffer, has, connected, wifi, troubled>>

=============================================================================
