-------------------------------- MODULE Rounds --------------------------------
(***************************************************************************)
(* The rounds of the hop count flood, with what has gone wrong since the   *)
(* base station started the current one, while relays may restart.         *)
(***************************************************************************)
EXTENDS CattleNetwork

\* Every relay has a neighbour one hop nearer to the base station, and none is as
\* far away as HOP_NR_INITIAL hops.
ASSUME ConnectedAssumption ==
  \A r \in Relay :
    /\ Dist[r] < HOP_NR_INITIAL
    /\ \E n \in Node : r \in Link[n] /\ Dist[r] = Dist[n] + 1

VARIABLES
  complete, \* each HOP_CONF of this round reached every node in range, and no
            \* relay took its number for one heard ConfMod rounds earlier
  steady    \* no relay has restarted yet

RoundsInit == Init /\ complete = FALSE /\ steady = TRUE

NewRound == base_conf_seqn' # base_conf_seqn
NumberIsNew ==
  \A r \in Relay : conf_seqn[r] = base_conf_seqn' => hop_nr[r] = HOP_NR_INITIAL

\* A frame of n for all nodes in range was sent.
SentToAll(n) ==
  \E f \in FrameId : air[f] = NoFrame /\ air'[f].src = n /\ air'[f].to = Link[n]

RoundsNext ==
  \/ /\ Next /\ \A r \in Relay : ~Restart(r)
     /\ complete' = IF NewRound THEN NumberIsNew /\ SentToAll(Base)
                    ELSE complete /\ \A r \in Relay :
                           flg_conf[r] /\ ~flg_conf'[r] => SentToAll(r)
     /\ UNCHANGED steady
  \/ /\ \E r \in Relay : Restart(r)
     /\ UNCHANGED baseVars
     /\ complete' = FALSE
     /\ steady' = FALSE

RoundsSpec == RoundsInit /\ [][RoundsNext]_<<vars, complete, steady>>

\* A round whose messages all arrived leaves every relay with its distance to
\* the base station (relay-node.c:124-147), whatever the order and the repetition
\* of the messages and whatever earlier rounds and restarts left behind.
RoundConverges == complete /\ Settled => hop_nr = [r \in Relay |-> Dist[r]]

\* Hop numbers are the length of a path without repetition: no counting to
\* infinity when each round is over before the next and no relay restarts.
HopBounded ==
  \A r \in Relay : steady /\ hop_nr[r] # HOP_NR_INITIAL => hop_nr[r] <= Cardinality(Relay)
=============================================================================
