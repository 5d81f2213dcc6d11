--------------------------- MODULE MCCredentials ---------------------------
(***************************************************************************)
(* Credentials for TLC: nothing tells one user or one password from        *)
(* another, since Start reads the secrets in any order.                    *)
(***************************************************************************)
EXTENDS Credentials, TLC

Symmetric == Permutations(User) \cup Permutations(Password)
=============================================================================
