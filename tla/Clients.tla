------------------------------- MODULE Clients -------------------------------
(***************************************************************************)
(* What callers hold from one request to the next, side by side: the tokens *)
(* of their sign-ins (Grants) and their claims on tasks (Claims).  The two  *)
(* share no state; a step of one leaves the other alone.                    *)
(***************************************************************************)
EXTENDS Grants, Claims

clientVars == <<grVars, claimVars>>

ClientsInit == GrInit /\ ClaimsInit

ClientsNext ==
    \/ GrNext /\ UNCHANGED claimVars
    \/ ClaimsNext /\ UNCHANGED grVars

ClientsSpec == ClientsInit /\ [][ClientsNext]_clientVars

-----------------------------------------------------------------------------
\* What callers hold from one request to the next stays theirs: tokens and claims.
ClientsSafe == GrantsSafe /\ ClaimsSafe
=============================================================================
