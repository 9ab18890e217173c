----------------------------- MODULE MCNatsDebug -----------------------------
(* NatsDebug for TLC.                                                      *)
EXTENDS NatsDebug

CONSTANTS s1, s2

\* One server has connections of others, up to the size of a page.
MCOthers == [s \in Servers |-> IF s = s1 THEN 1 ELSE 0]
=============================================================================
