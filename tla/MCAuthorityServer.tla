-------------------------- MODULE MCAuthorityServer --------------------------
(* Model-checking instance of AuthorityServer: two listen addresses,       *)
(* interchangeable, so the search is reduced by symmetry over them.        *)
EXTENDS AuthorityServer, TLC

CONSTANTS a1, a2

MCAddresses == {a1, a2}

MCSymmetry == Permutations(MCAddresses)

====
