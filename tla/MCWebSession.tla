---------------------------- MODULE MCWebSession ----------------------------
(* Small instances of WebSession for TLC, and the inputs over which the functions of *)
(* Access and Migrations are evaluated.                                               *)
EXTENDS WebSession, TLC

A == INSTANCE Access
M == INSTANCE Migrations

Symmetry == Permutations(Pages) \cup Permutations(Instances) \cup Permutations(Pins)

\* Three transactions on one pooled connection, and the one that follows them.
AccessHold ==
    /\ \A earlier \in [1..3 -> A!Transactions], tx \in A!Transactions :
          A!IdentityNeverLeaks(earlier, tx)
    /\ A!OwnRowsOnly /\ A!AdminsOnlyInspect /\ A!HistoryIsKept /\ A!ServicesAreServed

\* Two versions, two contents each; what is there after two deployments, and a third.
Disks   == UNION {[on -> {"a", "b"}] : on \in {{1}, {2}, {1, 2}}}
Deploys == [files : Disks, diesAt : 0..2, seen : 0..2, reset : BOOLEAN,
            confirm : {TRUE}, appEnv : {"test", "production"}]
Databases == {M!Empty} \cup {M!Deploy(M!Deploy(M!Empty, c).db, d).db : c, d \in Deploys}

DatabaseHolds ==
    /\ AccessHold
    /\ \A db \in Databases, d \in Deploys : M!DeployedSoundly(db, d)

\* A user's transaction acts as that user alone and reaches that user's rows alone,
\* whatever its pooled connection did before; an administrator inspects; the audit trail
\* is kept; every service is served; and migrations are applied once, whole and as they
\* are on disk.  No state matters to these functions: the initial one asks once.
DatabaseSound == Init => DatabaseHolds
=============================================================================
