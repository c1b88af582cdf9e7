----------------------------- MODULE MCWatchScan -----------------------------
(* Small instances of WatchScan for TLC: at most two categories with one   *)
(* SKU each.                                                               *)
EXTENDS WatchScan

CONSTANTS s1, mac, ipad, air, mini

MCShelf == [s \in Sku |-> IF s = air THEN mac ELSE ipad]
=============================================================================
