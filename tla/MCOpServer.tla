----------------------------- MODULE MCOpServer -----------------------------
(* TLC instances of OpServer: two proxies a and b.  "One": one scheduler     *)
(* thread each, with two workers; "Two": proxy b has two threads with one    *)
(* worker each.                                                              *)
EXTENDS OpServer

CONSTANTS a, b, sa, sb, sb2, wa1, wa2, wb1, wb2

ProxyOfOne == (sa :> a) @@ (sb :> b)
SchedulerOfOne == (wa1 :> sa) @@ (wa2 :> sa) @@ (wb1 :> sb) @@ (wb2 :> sb)
ProxyOfTwo == (sa :> a) @@ (sb :> b) @@ (sb2 :> b)
SchedulerOfTwo == (wa1 :> sa) @@ (wa2 :> sa) @@ (wb1 :> sb) @@ (wb2 :> sb2)
=============================================================================
