------------------------- MODULE MCConsoleSession -------------------------
(* ConsoleSession for TLC: two accounts of two tenants take turns on one     *)
(* browser, the one with two client companies and the other with one.        *)
EXTENDS ConsoleSession, TLC

CONSTANTS ann, bob, acme, apex, zeta

MCTenant == (ann :> "north") @@ (acme :> "north") @@ (apex :> "north")
            @@ (bob :> "south") @@ (zeta :> "south")

=============================================================================
