------------------------------ MODULE MCScans ------------------------------
(* Scanning on small instances.                                              *)
EXTENDS Scanning, TLC

CONSTANTS s1, s2, t1, t2, t3

\* A call for both targets, or two that want the same one.
MCLoads == {s1 :> {t1, t2} @@ s2 :> {}, s1 :> {t1} @@ s2 :> {t1}}
MCMode == t1 :> "tcp" @@ t2 :> "icmp" @@ t3 :> "other"
=============================================================================
