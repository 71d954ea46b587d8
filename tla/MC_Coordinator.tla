--------------------------- MODULE MC_Coordinator ---------------------------
(* Three peers, all holding a key share, threshold 1: Signing starts with  *)
(* two ready peers, so one peer is always left out of the subset.          *)
EXTENDS Coordinator

MCPeers == {1, 2, 3}
MCKeyHolders == {1, 2, 3}

(* Resharing that adds peer 3: peers 1 and 2 hold the key share.          *)
MCOldKeyHolders == {1, 2}

(* No peer is down, or the relayer of peer 1, the static coordinator, is. *)
MCNoSilent == {}
MCSilent == {1}

(* Four key holders, threshold 2: with peer 1 down the three others make *)
(* up the whole signing subset.                                           *)
MCPeers4 == {1, 2, 3, 4}
=============================================================================
