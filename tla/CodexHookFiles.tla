--------------------------- MODULE CodexHookFiles ---------------------------
(***************************************************************************)
(* The files a Codex project hook is made of, and what the status command  *)
(* says of them (codex-project-hook-status.ts, codex-project-hook-         *)
(* format.ts).  A name refers to an inode or to nothing; an inode has a    *)
(* content.  The name of a file, its device and inode number, its bytes    *)
(* and its link count are what the code compares, and all it compares.     *)
(*                                                                         *)
(* An observation is one atomic read here.  The code reads everything      *)
(* twice and rejects the pair when a signature (inode, times, digest, and  *)
(* those of the directories) differs, so what it accepts held between the  *)
(* two passes.  A pair spoilt by another command needs no outcome of its   *)
(* own: a command changes the root only while its lock is there, and the   *)
(* callers treat "operation_locked" as they treat Unsafe.  A pair spoilt   *)
(* by a failure or by another program is Unsafe, where callers allow it.   *)
(***************************************************************************)
EXTENDS Naturals, FiniteSets

CONSTANTS
    Commands,   \* command invocations: each runs once, with its own random identifier
    Inodes,     \* the inodes of the file system
    NoInode,    \* what an absent name refers to
    Nobody      \* the author of a file no command wrote

ASSUME FilesAssumption == /\ NoInode \notin Inodes
                          /\ Nobody \notin Commands

VARIABLES
    entry,      \* the inode behind each fixed name of the repository
    content,    \* the bytes of each inode
    stage       \* the inodes in each command's private staging directory

-----------------------------------------------------------------------------

Artifacts == {"receipt", "hook"}
FixedNames == Artifacts \cup {"lock", "config"}

\* An artifact carries the identifier of the command that built it; a lock
\* file is blank between its creation and the write of the identifier.
Contents == [kind : Artifacts \cup {"lock", "blank", "foreign"},
             by : Commands \cup {Nobody}]
Bytes(kind, c) == [kind |-> kind, by |-> c]
Foreign == Bytes("foreign", Nobody)

Present(n) == entry[n] # NoInode

\* nlink = 2: the file still has its name in a staging directory.
Staged(i) == \E c \in Commands, f \in Artifacts : stage[c][f] = i

Holds(n, kind, c) == /\ Present(n)
                     /\ content[entry[n]] = Bytes(kind, c)

\* parseReceipt and verifyCodexProjectHookReceiptBinding: a record some
\* installation of this repository wrote.
Recorded == Present("receipt") /\ content[entry["receipt"]].kind = "receipt"
\* verifyCodexProjectHookBytes: the hook that record describes.
HookMatches == Recorded /\ Holds("hook", "hook", content[entry["receipt"]].by)

-----------------------------------------------------------------------------

Ownerships == {"absent", "unowned_hook", "record_collision", "owned_inactive",
               "owned_modified", "owned_exact", "unsafe"}
Blockers == {"config_collision", "operation_locked"}
Statuses == [ownership : Ownerships, blockers : SUBSET Blockers]

Unsafe == [ownership |-> "unsafe", blockers |-> {}]

\* A fixed file that is not alone on its inode, or a lock that does not
\* parse, makes the whole observation throw.
Unreadable ==
    \/ \E n \in FixedNames : Present(n) /\ Staged(entry[n])
    \/ Present("lock") /\ content[entry["lock"]].kind # "lock"

Ownership ==
    IF ~Present("receipt")
      THEN IF Present("hook") THEN "unowned_hook" ELSE "absent"
      ELSE IF ~Recorded THEN "record_collision"
      ELSE IF ~Present("hook") THEN "owned_inactive"
      ELSE IF HookMatches THEN "owned_exact" ELSE "owned_modified"

\* statusCodexProjectHook as seen by the command whose identifier is own
\* (Nobody when the observer passes no ownedOperationId).
Status(own) ==
    IF Unreadable THEN Unsafe
    ELSE [ownership |-> Ownership,
          blockers |->
            (IF Present("config") THEN {"config_collision"} ELSE {})
            \cup (IF Present("lock") /\ ~Holds("lock", "lock", own)
                    THEN {"operation_locked"} ELSE {})]

Installable(s) == s.ownership = "absent" /\ s.blockers = {}
Removable(s) == s.ownership \in {"owned_exact", "owned_inactive"}
Installed(s) == s.ownership = "owned_exact" /\ s.blockers = {}
Vacated(s) == s.ownership = "absent" /\ "operation_locked" \notin s.blockers
=============================================================================
