------------------------------- MODULE MCServer -------------------------------
(* Server for TLC: two keys with different hashes.                          *)
EXTENDS Server

MCKey == {"a", "b"}
MCHash == [a |-> 2, b |-> 1]
===============================================================================
