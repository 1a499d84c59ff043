----------------------- MODULE MCEnvironmentAggregate -----------------------
(***************************************************************************)
(* Small instances of EnvironmentAggregate for TLC: the revision, and with *)
(* it every other counter of the aggregate, is bounded.                    *)
(***************************************************************************)
EXTENDS EnvironmentAggregate

CONSTANTS
    MaxTime,       \* bound: the last clock reading
    MaxRevision    \* bound: writes of the aggregate

MCTimes == 0..MaxTime

MCLeases ==
    IF Class = "Work" THEN {[leaseRevision |-> r, expiresAt |-> MaxTime + r] : r \in 1..2}
    ELSE {NoLeaseAuthorization}

MCNext == env.revision < MaxRevision /\ AggregateNext

MCSpec == AggregateInit /\ [][MCNext]_env

=============================================================================
