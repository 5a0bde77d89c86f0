------------------------------ MODULE MCParse ------------------------------
(* A small instance of Parse for TLC.                                      *)
EXTENDS Parse

L(k) == [k |-> k]
Inc(f) == [k |-> "include", a |-> f]
Set == [k |-> "set", a |-> "m", v |-> "v1"]
Inet(v) == [k |-> "static", a |-> "inet", v |-> v]
Mask == [k |-> "use", a |-> "netmask", v |-> "m"]

UpTo(n, S) == UNION {[1..i -> S] : i \in 0..n}

\* Every order of a few lines within a network, among them sections left open.
Block == {L("ethernet"), L("wireless"), L("close"), L("dhcp yes"), L("dhcp no"), Inet("v1"), Mask}
Blocks == {<<Set, L("network"), L("ethernet"), Inet("v2")>> \o s : s \in [1..4 -> Block]}
          \cup {<<L("network"), L("wireless"), Inet("v2"), L("option")>> \o s : s \in [1..4 -> Block]}

\* Files that include each other and themselves, with errors at every depth.
Outer == {Inc("main"), Inc("sub"), Inc("gone"), Inc("open"), L("bad"), Mask, L("quote"), L("interval"), L("network")}
Inner == {Inc("sub"), Inc("main"), L("bad"), L("quote"), Mask, L("close"), L("ethernet")}

MCTexts ==
    {[main |-> b, sub |-> << >>, gone |-> << >>, open |-> << >>] : b \in Blocks}
    \cup {[main |-> m, sub |-> s, gone |-> << >>, open |-> << >>] : m \in UpTo(2, Outer), s \in UpTo(2, Inner)}
=============================================================================
