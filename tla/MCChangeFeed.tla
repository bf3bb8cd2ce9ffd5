---------------------------- MODULE MCChangeFeed ----------------------------
(* Instances of ChangeFeed for TLC: one subscriber, which suffices because *)
(* subscribers do not influence each other, and a change of each kind: one *)
(* it asked for, one its filter rejects, one of another collection.        *)
EXTENDS ChangeFeed

CONSTANTS s1, match, reject, other

MCClasses == {match, reject, other}
MCWanted == [s \in {s1} |-> {match, reject}]
MCPassing == [s \in {s1} |-> {match}]
=============================================================================
