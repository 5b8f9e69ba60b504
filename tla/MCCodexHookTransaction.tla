----------------------- MODULE MCCodexHookTransaction -----------------------
(* Small instances of CodexHookTransaction for TLC.                        *)
EXTENDS CodexHookTransaction, TLC

CONSTANTS c1, c2, c3

KindII  == c1 :> "install" @@ c2 :> "install"
KindIR  == c1 :> "install" @@ c2 :> "remove"
KindIIR == c1 :> "install" @@ c2 :> "install" @@ c3 :> "remove"

InodeSymmetry == Permutations(Inodes)
\* The two installers of KindIIR may be exchanged as well.
RaceSymmetry == InodeSymmetry \cup Permutations({c1, c2})

\* The steps after a change of the fixed files or of the staging directory
\* whose failure the code takes for one before the change.
AfterChange == {"verify_staging", "confirm_receipt", "settle_receipt", "confirm_hook", "settle_hook",
                "dropped_hook", "dropped_receipt"}
FaultsBeforeChange == Steps \ AfterChange

\* One failing call in each phase of a command, none that gives the lock back.
SomeFaults == {"write_lock", "probe", "confirm_receipt", "confirm_hook", "drop_hook", "dropped_hook"}
=============================================================================
