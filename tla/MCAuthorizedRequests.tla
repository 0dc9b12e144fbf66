------------------------- MODULE MCAuthorizedRequests -------------------------
(***************************************************************************)
(* A small instance of AuthorizedRequests: tokens of three ticks with a    *)
(* margin of one, and an agent whose clock is one tick behind.             *)
(***************************************************************************)
EXTENDS AuthorizedRequests

CONSTANTS r1, r2

OneBehind == -1

=============================================================================
