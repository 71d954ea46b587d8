------------------------- MODULE MC_PendingSessions -------------------------
(* Three concurrent calls over two session ids.                            *)
EXTENDS PendingSessions

CONSTANTS c1, c2, c3, c4, s1, s2, s3

MCCalls == {c1, c2, c3}
MCSessions == {s1, s2}

(* Signing calls only, with any session ids.                               *)
MCAllSigning == [c \in MCCalls |-> "signing"]
MCAnySids == [MCCalls -> MCSessions]

(* A resharing and a signing call that a caller gives one session id.      *)
MCMixed == [c \in MCCalls |-> IF c = c1 THEN "resharing" ELSE "signing"]

(* Four calls, two of each kind, over three session ids; calls of          *)
(* different kinds never share a session id.                               *)
MCCalls4 == {c1, c2, c3, c4}
MCSessions3 == {s1, s2, s3}
MCKind4 == [c \in MCCalls4 |-> IF c \in {c1, c2} THEN "resharing" ELSE "signing"]
MCSidsByKind ==
    {f \in [MCCalls4 -> MCSessions3] :
        \A c, d \in MCCalls4 : MCKind4[c] # MCKind4[d] => f[c] # f[d]}
=============================================================================
