---------------------------- MODULE MCDoubleRead ----------------------------
(* A small instance of DoubleRead for TLC.                                 *)
EXTENDS DoubleRead, TLC

CONSTANTS old, new, gone

Kinds == old :> "install" @@ new :> "install" @@ gone :> "remove"

Scenario(reader, launch, installed, total, alien, names, bytes) ==
    [reader |-> reader, launch |-> launch, installed |-> installed, linked |-> FALSE,
     changes |-> total, foreign |-> alien, touches |-> names, writes |-> bytes]

\* A removal and a new installation, or other programs, under each reader.
\* Only the reader that compares bytes alone is spared a file that comes back.
Readings ==
    {Scenario("codex_status", old, TRUE, 3, 3, {"hook"}, {old})}
    \cup {Scenario("codex_status", old, TRUE, 2, 2, Artifacts, {old, Alien})}
    \cup {Scenario("claude_status", old, TRUE, 2, 2, {"hook"}, {old, Alien})}
    \cup {Scenario("claude_status", old, TRUE, 3, 1, {"config", "rules"}, {Alien})}
    \cup {[Scenario(r, old, FALSE, 1, 1, {"root", "lock"}, {Alien}) EXCEPT !.linked = b] :
             r \in Statuses, b \in BOOLEAN}
    \cup {Scenario(r, old, TRUE, 6, 0, {}, {}) : r \in Invocations}
    \cup {Scenario(r, old, TRUE, 2, 2, {"root", "hook"}, {Alien}) : r \in Invocations}
    \cup {Scenario("claude_invocation", new, FALSE, 4, 0, {}, {})}
    \cup {Scenario("claude_invocation", old, TRUE, 4, 1, {"receipt"}, {Alien})}
    \cup {Scenario("authority", old, FALSE, 3, 3, {"policy", "manifest", "root"}, {Alien})}
=============================================================================
