--------------------------- MODULE RepositoryFiles ---------------------------
(***************************************************************************)
(* The files of a repository as its readers see them: a name leads to a    *)
(* file, the directory of a name has times of its own, and the root can be *)
(* replaced by another directory of the same name, a tree.                 *)
(*                                                                         *)
(* A stamp stands for ctime and mtime, and every change gives a new one; an *)
(* inode number, a tree's too, is the stamp of its creation.  Apart from   *)
(* the root the directories stay; all contents have the same length.       *)
(***************************************************************************)
EXTENDS Naturals, Sequences

CONSTANTS
    Commands,     \* lifecycle commands; the bytes they write carry their name
    Nobody,       \* no bytes: the file is absent
    Alien,        \* bytes of another program
    Torn          \* half of one content and half of the next

VARIABLES
    file,         \* the file behind each name
    dir,          \* the stamp of each directory
    tree,         \* the inode of the root
    now           \* the clock: the number of changes so far

fs == <<file, dir, tree, now>>

\* A hook's files, the staging directory of an operation, the rules that git
\* ignores files by, and what the repository authority reads.  The staging
\* directory stands here as one more file of the root.
Artifacts == {"hook", "config", "receipt", "lock"}
Documents == {"policy", "approvals", "manifest"}
Names == Artifacts \cup {"staging", "rules"} \cup Documents
Dirs == {"root", "host", "agenthawk", "info"}
Home == [n \in Names |-> CASE n \in {"hook", "config"} -> "host"      \* .codex, .claude
                           [] n = "receipt" -> "agenthawk"           \* .agenthawk/integrations
                           [] n = "rules" -> "info"                  \* .git/info
                           [] OTHER -> "root"]

Bytes == Commands \cup {Nobody, Alien, Torn}
Files == [bytes : Bytes, ino : Nat, stamp : Nat]
NoFile == [bytes |-> Nobody, ino |-> 0, stamp |-> 0]
Present(n) == file[n].bytes # Nobody

ASSUME FilesAssumption ==
    /\ Nobody \notin Commands \cup {Alien, Torn}
    /\ {Alien, Torn} \cap Commands = {} /\ Alien # Torn

FilesTypeOK ==
    /\ file \in [Names -> Files]
    /\ dir \in [Dirs -> 0..now]
    /\ tree \in 0..now
    /\ now \in Nat

Write(n, b) ==
    /\ file' = [file EXCEPT ![n] = [bytes |-> b, ino |-> now + 1, stamp |-> now + 1]]
    /\ dir' = [dir EXCEPT ![Home[n]] = now + 1]
    /\ UNCHANGED tree
Edit(n, b) ==
    /\ Present(n)
    /\ file' = [file EXCEPT ![n].bytes = b, ![n].stamp = now + 1]
    /\ UNCHANGED <<dir, tree>>
Unlink(n) ==
    /\ Present(n)
    /\ file' = [file EXCEPT ![n] = NoFile]
    /\ dir' = [dir EXCEPT ![Home[n]] = now + 1]
    /\ UNCHANGED tree

\* Another directory takes the name of the root: a copy that keeps some of the
\* files.  A root that was moved away does not come back.
Swap(kept) ==
    /\ file' = [n \in Names |-> IF n \in kept /\ Present(n)
                                THEN [bytes |-> file[n].bytes, ino |-> now + 1, stamp |-> now + 1]
                                ELSE NoFile]
    /\ dir' = [d \in Dirs |-> now + 1]
    /\ tree' = now + 1
=============================================================================
