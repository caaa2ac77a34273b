----------------------------- MODULE MCServeDir -----------------------------
(***************************************************************************)
(* ServeDir for TLC: two releases that share an entry, one of which has      *)
(* another entry that the other release must not keep.                      *)
(***************************************************************************)
EXTENDS ServeDir

CONSTANTS A, B

MCCIDs    == {A, B}
MCEntries == {"index.html", "js"}
MCSite    == [c \in MCCIDs |-> IF c = A THEN MCEntries ELSE {"index.html"}]
MCRank    == [e \in MCEntries \cup SideFiles |->
                 CASE e = "index.html" -> 1 [] e = "js" -> 2 [] e = "peers.json" -> 3
                   [] e = "peers.json.tmp" -> 4 [] e = "propagation.json" -> 5]
=============================================================================
