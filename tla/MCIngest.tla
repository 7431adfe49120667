------------------------------ MODULE MCIngest ------------------------------
(* Instances of Ingest: one phone that reconnects, three connections in    *)
(* all, two of them from the same address.                                 *)
EXTENDS Ingest, TLC

CONSTANTS c1, c2, c3, d1, n1, n2

MCConn     == {c1, c2, c3}
MCDevice   == {d1}
MCNet      == {n1, n2}
MCDeviceOf == [c \in MCConn |-> d1]
MCNetOf    == [c \in MCConn |-> IF c = c3 THEN n2 ELSE n1]
MCOffers   == [c \in MCConn |->
                 CASE c = c1 -> {<<0, 1>>, <<1, 1>>, <<1, 2>>}
                   [] c = c2 -> {}
                   [] c = c3 -> {}]
MCMovers   == {c1}

=============================================================================
