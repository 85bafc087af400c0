------------------------------ MODULE MCSamples ------------------------------
(* Samples on small instances: two or three clients of two organizations, a   *)
(* third one for the auditor, and int types of a few bits.                    *)
EXTENDS Samples

CONSTANTS
  c1, c2, c3,              \* clients: c1 and c2 of o1, c3 of o2
  o1, o2, o3, o4, o5,      \* organizations; o3 is the auditor's, o5 provides a rate
  n1, n2                   \* non-fungible tokens, names of marbles

MCOrgOf(c) == IF c = c3 THEN o2 ELSE o1

\* The ints of token-erc-20 are -4..3 here.
MCCoinValues == {-4, 0, 1, 2, 3}

MCKeyOrder == <<c2, c1, c3>>

=============================================================================
