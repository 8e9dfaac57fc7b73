------------------------- MODULE MCSessionBootstrap -------------------------
(* Three handlers: h1 and h2 share the connection of p1, h3 is alone in p2.  *)
(* With one handler, everything runs in p2.                                  *)
EXTENDS SessionBootstrap, TLC

CONSTANTS p1, p2, h1, h2, h3, b1, b2, b3, s1, s2, l1, l2

MCHome == [w \in Workers |-> IF w = h3 THEN p2 ELSE p1]

\* b1 and b2 want the same lead; b3 asks for b1's session id and another lead.
MCSessionOf == [b \in Requests |-> IF b = b2 THEN s2 ELSE s1]

MCLeadOf == [b \in Requests |-> IF b = b3 THEN l2 ELSE l1]

MCSymmetry == Permutations({h1, h2} \cap Workers)
=============================================================================
