---------------------- MODULE MCClaudeHookTransaction ----------------------
(* A small instance of ClaudeHookTransaction for TLC.                      *)
EXTENDS ClaudeHookTransaction, TLC

CONSTANTS i1, i2, r1, r2

Kinds == i1 :> "install" @@ i2 :> "install" @@ r1 :> "remove" @@ r2 :> "remove"

Scenario(earlier, running, failures, interferences, crashers) ==
    [earlier |-> earlier, running |-> running, faults |-> failures,
     changes |-> interferences, crashers |-> crashers]

\* Everything at once for an installation and a removal; races of two equals
\* with a kill or a failure.
Races == {Scenario(Nobody, {i1, i2}, 0, 0, {i1}),
          Scenario(Nobody, {i1, r1}, 1, 1, {i1}),
          Scenario(i1, {r1, r2}, 1, 0, {r1}),
          Scenario(i1, {r1}, 1, 1, {r1})}

\* Every call may fail, but for the check of the lock right after an unlink.
FaultsBeforeCommit == Steps \ {"catch", "dropped_hook", "dropped_receipt"}
=============================================================================
