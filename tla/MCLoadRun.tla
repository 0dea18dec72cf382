------------------------------ MODULE MCLoadRun ------------------------------
(* Three small shards for TLC: a valid and an invalid name. *)
EXTENDS LoadRun

Part(n, s, h) == [name |-> n, span |-> s, home |-> h]

\* Blocks and log entries of one part, and mixed pairs of them.
Small ==
  {<<Part(n, "in", h)>> : n \in Names, h \in {"tsm", "wal"}}
  \cup {<<Part("a.b", s, h)>> : s \in {"edge", "out"}, h \in {"tsm", "wal"}}
Pairs ==
  {<<Part("a.b", s, "tsm"), Part("ab", "in", h)>> : s \in {"in", "edge"}, h \in {"tsm", "wal"}}
  \cup {<<Part("ab", "in", "tsm"), Part(n, "in", "wal")>> : n \in Names}

Blocks == {[kind |-> "tsm", parts |-> <<p, q, <<Part("ab", "in", "tsm")>>>>] : p \in Pairs, q \in Small}

\* Live tables: with points in the window, before it and inside it, outside.
Table(n) == {<<Part(n, "in", "tsm")>>, <<Part(n, "edge", "tsm"), Part(n, "in", "tsm")>>, <<Part(n, "out", "tsm")>>}
Store3 == {[kind |-> "v3", parts |-> <<p, q, <<Part("ab", "in", "tsm")>>>>] :
             p, q \in Table("ab") \cup Table("a.b")}

MCSources == Blocks \cup Store3
MCNames == {"ab", "a.b"}
MCValid == {"ab"}
MCFlags ==
  {[policy |-> p, map |-> {}, waldir |-> w] : p \in {"fail", "skip", "map"}, w \in BOOLEAN}
  \cup {[policy |-> "fail", map |-> {"a.b"}, waldir |-> TRUE]}
=============================================================================
