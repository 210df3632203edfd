----------------------------- MODULE MCFailover -----------------------------
(***************************************************************************)
(* Two requests for the same model: both try provider p through the same   *)
(* conversion with one retry, then provider q natively.                    *)
(***************************************************************************)
EXTENDS Failover

CONSTANTS r1, r2, p, q, m1, m2

OnP == [provider |-> p, mode |-> m1, native |-> FALSE, maxRetries |-> 1, ownTimeout |-> TRUE]
OnQ == [provider |-> q, mode |-> m2, native |-> TRUE, maxRetries |-> 0, ownTimeout |-> FALSE]

OnlyP == [r \in Requests |-> <<OnP>>]

MCChain == [r \in Requests |-> <<OnP, OnQ>>]
=============================================================================
