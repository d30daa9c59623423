---- MODULE MCOAuthTokens ----
(* Instances of OAuthTokens for TLC. *)
EXTENDS OAuthTokens, TLC

CONSTANTS code1, device1, r1, r2

\* The requests are alike.
Alike == Permutations({r1, r2})

====
