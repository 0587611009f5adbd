--------------------------- MODULE MCCancellation ---------------------------
(* A root token with two children; TLC instances of CancellationToken.     *)
EXTENDS CancellationToken

CONSTANTS root, left, right, t1, t2, t3

MCParent == [k \in Tokens |-> IF k = root THEN NoToken ELSE root]
MCChain == [k \in Tokens |-> {k, root}]
\* One task on one child, the others together on its sibling.
Siblings == [t \in Tasks |-> IF t = t1 THEN left ELSE right]

=============================================================================
