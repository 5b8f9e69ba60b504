------------------------- MODULE MCInitTransaction -------------------------
(* A small instance of InitTransaction for TLC.                            *)
EXTENDS InitTransaction, TLC

CONSTANTS a, b

Scenario(first, second, calls, others, killed) ==
    [runs |-> a :> first @@ b :> second, faults |-> calls, changes |-> others, crashers |-> killed]

\* One init beside other programs and failing calls; two of them racing, with
\* one thing going wrong; a killed one whose lock is removed before a retry.
Races ==
    {Scenario("cursor", "idle", 1, 2, {}), Scenario("codex", "idle", 2, 1, {}),
     Scenario("cursor", "codex", 1, 1, {}), Scenario("cursor", "cursor", 0, 1, {}),
     Scenario("none", "cursor", 1, 1, {}), Scenario("codex", "codex", 0, 2, {a})}

\* A lock file whose handle cannot be closed is left out.
Failing == Steps \ {"close_lock"}
=============================================================================
