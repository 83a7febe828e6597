------------------------------ MODULE MCServer ------------------------------
(* Server for TLC: entries of the log are model values.                      *)
EXTENDS Server

CONSTANTS n1, a, b

TwoArrays == {<<a, b>>, <<b>>}
OneAndTwo == [s \in Streams |-> IF s = "hello" THEN 1 ELSE 2]

=============================================================================
