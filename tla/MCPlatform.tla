----------------------------- MODULE MCPlatform -----------------------------
(* Two releases of two domains; the second replaces a migration of the first. *)
EXTENDS Platform

MCDomains == <<"control", "access">>

MCRow(i, s) == [id |-> i, sha |-> s]

MCCatalog ==
    [r \in {"r1", "r2"} |->
        [d \in {"control", "access"} |->
            IF d = "control" THEN <<MCRow(1, "a")>>
            ELSE IF r = "r1" THEN <<MCRow(1, "a"), MCRow(2, "b")>>
            ELSE <<MCRow(1, "a"), MCRow(2, "x"), MCRow(3, "c")>>]]

=============================================================================
