---------------------------- MODULE MCOAuthGrant ----------------------------
(* Instances of OAuthGrant for TLC. *)
EXTENDS OAuthGrant, TLC

\* The first sign-in's tokens are refreshed once, those of later ones not.
MCTokens == [f \in SignIn |-> IF f = 1 THEN 2 ELSE 1]

\* Nodes and origins are interchangeable, for safety.
MCSymmetry == Permutations(Node) \cup Permutations(Origin)
=============================================================================
