---------------------------- MODULE MCDirectory ----------------------------
(***************************************************************************)
(* Two centers; both proxies are at the first.  The requests of one kind   *)
(* while a client runs, and requests of several kinds without one.         *)
(***************************************************************************)
EXTENDS Directory

Load(kinds, client, d, p, r) == [kinds |-> kinds, client |-> client, doc |-> d, db |-> p, res |-> r]
MCLoads ==
    {Load({"centers"}, TRUE, d, {}, {}) : d \in {NoDoc, {"jinan"}}}
    \cup {Load({"proxies"}, TRUE, {"jinan", "beijing"}, {1}, {})}
    \cup {Load({"centers", "proxies"}, FALSE, {"jinan"}, {1}, {})}
    \cup {Load({"resources"}, FALSE, NoDoc, {}, r) : r \in {{}, Resources}}
MCCid == [p \in Proxies |-> "jinan"]
=============================================================================
