---------------------------- MODULE HookLifecycle ----------------------------
(***************************************************************************)
(* What the lifecycle commands promise (docs/adr/0013, "Transaction and    *)
(* recovery ordering"): one command at a time changes the installation,    *)
(* and it moves between three states one file at a time, so that there is  *)
(* never a hook without the record that owns it:                           *)
(*                                                                         *)
(*     absent  <-->  owned_inactive  <-->  owned_exact                     *)
(*                                                                         *)
(* A command that dies keeps its place: nobody else changes anything then. *)
(***************************************************************************)
CONSTANTS
    Commands,   \* the command invocations
    Kind,       \* "install" or "remove"
    Nobody      \* no command

VARIABLES
    writer,     \* the command that may change the installation
    record,     \* the installation the receipt describes
    hook        \* the installation whose hook is live

lifecycle == <<writer, record, hook>>

Init == /\ writer = Nobody
        /\ record = Nobody
        /\ hook = Nobody

Enter(c) == /\ writer = Nobody
            /\ writer' = c
            /\ UNCHANGED <<record, hook>>

Leave(c) == /\ writer = c
            /\ writer' = Nobody
            /\ UNCHANGED <<record, hook>>

\* absent -> owned_inactive
Claim(c) == /\ writer = c /\ Kind[c] = "install"
            /\ record = Nobody /\ hook = Nobody
            /\ record' = c
            /\ UNCHANGED <<writer, hook>>

\* owned_inactive -> owned_exact
Enable(c) == /\ writer = c /\ Kind[c] = "install"
             /\ record = c /\ hook = Nobody
             /\ hook' = c
             /\ UNCHANGED <<writer, record>>

\* owned_exact -> owned_inactive
Disable(c) == /\ writer = c /\ Kind[c] = "remove"
              /\ hook # Nobody /\ record = hook
              /\ hook' = Nobody
              /\ UNCHANGED <<writer, record>>

\* owned_inactive -> absent: a removal, or the rollback of one's own claim.
Disclaim(c) == /\ writer = c
               /\ record # Nobody /\ hook = Nobody
               /\ Kind[c] = "remove" \/ record = c
               /\ record' = Nobody
               /\ UNCHANGED <<writer, hook>>

Next == \E c \in Commands : \/ Enter(c) \/ Leave(c)
                            \/ Claim(c) \/ Enable(c)
                            \/ Disable(c) \/ Disclaim(c)

Spec == Init /\ [][Next]_lifecycle
=============================================================================
