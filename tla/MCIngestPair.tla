---------------------------- MODULE MCIngestPair ----------------------------
(* One phone that opens two connections, from two addresses (a phone that  *)
(* changes from Wi-Fi to the mobile network).                              *)
EXTENDS Ingest, TLC

CONSTANTS c1, c2, d1, n1, n2

MCConn     == {c1, c2}
MCDevice   == {d1}
MCNet      == {n1, n2}
MCDeviceOf == [c \in MCConn |-> d1]
MCNetOf    == [c \in MCConn |-> IF c = c1 THEN n1 ELSE n2]
MCOffers   == [c \in MCConn |-> {<<0, 1>>, <<1, 1>>}]
MCMovers   == {c1}

=============================================================================
