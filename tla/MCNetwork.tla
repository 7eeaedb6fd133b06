------------------------------ MODULE MCNetwork ------------------------------
(***************************************************************************)
(* Topologies for model checking.                                          *)
(***************************************************************************)
EXTENDS CattleNetwork, TLC

CONSTANTS r1, r2, r3, bs

Relay1 == {r1}
Relay2 == {r1, r2}
Relay3 == {r1, r2, r3}

\* bs - r1
SingleLink == (bs :> {r1}) @@ (r1 :> {bs})
SingleDist == (bs :> 0) @@ (r1 :> 1)

\* bs - r1 - r2
LineLink == (bs :> {r1}) @@ (r1 :> {bs, r2}) @@ (r2 :> {r1})
LineDist == (bs :> 0) @@ (r1 :> 1) @@ (r2 :> 2)

\* The line, but bs hears r2 as well: r2, two hops away, has two ways back.
WideLink == (bs :> {r1}) @@ (r1 :> {bs, r2}) @@ (r2 :> {bs, r1})

\* bs - r1, bs - r2, r1 - r2, r2 - r3
KiteLink == (bs :> {r1, r2}) @@ (r1 :> {bs, r2}) @@ (r2 :> {bs, r1, r3}) @@ (r3 :> {r2})
KiteDist == (bs :> 0) @@ (r1 :> 1) @@ (r2 :> 1) @@ (r3 :> 2)

\* Which relays build packets.
BuildNone == [r \in Relay |-> 0]
BuildEach == [r \in Relay |-> 1]
BuildFar  == [r \in Relay |-> IF r = r2 THEN 1 ELSE 0]
BuildTwo  == [r \in Relay |-> IF r = r2 THEN 2 ELSE 0]

BuildThree == [r \in Relay |-> 3]

\* "Send an acknolwedge to the sensor node we received the packet from"
\* (relay-node.c:83-84): each sensor packet stored is queued for one.
StoredCount(r) == SENSOR_DATA_PER_PACKET * Len(built[r]) + Len(agg_data_buffer[r])
EachStoredIsAcked ==
  [][\A r \in Relay : StoredCount(r)' > StoredCount(r) =>
       Len(sensor_ack_list'[r]) = Len(sensor_ack_list[r]) + 1]_vars

FrameSymmetry == Permutations(FrameId)
=============================================================================
