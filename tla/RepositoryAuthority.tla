------------------------- MODULE RepositoryAuthority -------------------------
(***************************************************************************)
(* repository-authority.ts: every command and every hook first finds the   *)
(* root of the repository, and most of them read its policy, approvals and *)
(* manifest with it.                                                       *)
(*                                                                         *)
(* The root is one directory throughout: its identity is taken before git  *)
(* is asked for the root, and compared afterwards and at the end.  The     *)
(* documents are read in parallel, once; what was absent is looked up      *)
(* again when the others have been read.                                   *)
(***************************************************************************)
EXTENDS RepositoryFiles

VARIABLES
    load,         \* where the loader is, or how it ended
    wanted,       \* the documents it reads: all of them, or none
    identity,     \* the inode of the root it found
    doc,          \* what it knows of each document
    settled       \* history: the clock when the last document had been read

authority == <<load, wanted, identity, doc, settled>>

Loading == {"locate", "git", "reads", "recheck", "final", "parse"}
Failures == {"repository_identity", "configuration"}
Ended == Failures \cup {"loaded", "cancelled"}

Settled == {"absent", "present", "rejected", "confirmed"}
DocumentSteps == {"none", "probe", "inspect", "read", "final"} \cup Settled
DocumentOrder == <<"policy", "approvals", "manifest">>

\* "tree" is history: the root through which the document was opened.
NoDocument == [step |-> "none", ino |-> 0, stamp |-> 0, bytes |-> Nobody, tree |-> 0]

AuthorityTypeOK ==
    /\ load \in Loading \cup Ended
    /\ wanted \in {{}, Documents}
    /\ identity \in 0..now
    /\ doc \in [Documents -> [step : DocumentSteps, ino : 0..now, stamp : 0..now,
                              bytes : Bytes, tree : 0..now]]
    /\ settled \in 0..now

AuthorityInit(documents) ==
    /\ load = "locate" /\ wanted = documents
    /\ identity = 0 /\ settled = 0
    /\ doc = [n \in Documents |-> NoDocument]

\* What was read is forgotten with a failure.
Fail(code) ==
    /\ load' = code
    /\ identity' = 0 /\ settled' = 0
    /\ doc' = [n \in Documents |-> NoDocument]
    /\ UNCHANGED wanted

-----------------------------------------------------------------------------
(* The root.                                                               *)

\* validateDirectoryInput, canonicalDirectory, inspectDirectoryIdentity: the
\* directory of the action may be no directory, or be reached through links.
Locate ==
    /\ load = "locate"
    /\ \/ Fail("repository_identity")
       \/ load' = "git" /\ identity' = tree /\ UNCHANGED <<wanted, doc, settled>>

\* git rev-parse --show-toplevel, and the identity of the directory it names:
\* it may be a parent of the action's directory.
AskGit ==
    /\ load = "git"
    /\ \/ Fail("repository_identity")
       \/ /\ tree = identity
          /\ load' = IF wanted = {} THEN "final" ELSE "reads"
          /\ doc' = [n \in Documents |->
                       IF n \notin wanted THEN NoDocument
                       ELSE [NoDocument EXCEPT !.step = IF n = "manifest" THEN "inspect" ELSE "probe"]]
          /\ UNCHANGED <<wanted, identity, settled>>

\* Faulty variant: the root is not looked at again after the reading.
RootStayedUnchecked == TRUE

RootStayed == tree = identity

FinalIdentity ==
    /\ load = "final"
    /\ IF RootStayed THEN load' = "parse" /\ UNCHANGED <<wanted, identity, doc, settled>>
       ELSE Fail("repository_identity")

-----------------------------------------------------------------------------
(* The documents.                                                          *)

DocumentAt(n, s) == load = "reads" /\ n \in wanted /\ doc[n].step = s
SetDocument(n, d) == doc' = [doc EXCEPT ![n] = d] /\ UNCHANGED <<load, wanted, identity, settled>>
DocumentStep(n, s) == SetDocument(n, [doc[n] EXCEPT !.step = s])

\* A rejected promise: the others go on until they have settled.
Reject(n) == SetDocument(n, [NoDocument EXCEPT !.step = "rejected"])

\* inspectOptionalRegularFile: policy and approvals are looked for first, and
\* must be there from then on.
Probe(n) ==
    /\ DocumentAt(n, "probe")
    /\ DocumentStep(n, IF Present(n) THEN "inspect" ELSE "absent")

\* inspectRegularPath.  The manifest alone may be missing here.
InspectDocument(n) ==
    /\ DocumentAt(n, "inspect")
    /\ \/ /\ Present(n)
          /\ SetDocument(n, [doc[n] EXCEPT !.step = "read", !.ino = file[n].ino])
       \/ ~Present(n) /\ n = "manifest" /\ DocumentStep(n, "absent")
       \/ (Present(n) \/ n # "manifest") /\ Reject(n)   \* also a link, a directory, too large

SameDocument(n) == Present(n) /\ file[n].ino = doc[n].ino

\* open, fstat and read.
ReadDocument(n) ==
    /\ DocumentAt(n, "read")
    /\ IF SameDocument(n)
       THEN SetDocument(n, [doc[n] EXCEPT !.step = "final", !.bytes = file[n].bytes,
                                          !.stamp = file[n].stamp, !.tree = tree])
       ELSE Reject(n)

\* lstat once more: neither times nor bytes are compared, and a file that was
\* rewritten while it was read is taken for what came out of it.
FinalDocument(n) ==
    /\ DocumentAt(n, "final")
    /\ IF SameDocument(n)
       THEN \E b \in IF file[n].stamp = doc[n].stamp THEN {doc[n].bytes}
                     ELSE {doc[n].bytes, file[n].bytes, Torn} :
               SetDocument(n, [doc[n] EXCEPT !.step = "present", !.bytes = b])
       ELSE Reject(n)

\* Promise.allSettled
EndReads ==
    /\ load = "reads" /\ \A n \in wanted : doc[n].step \in Settled
    /\ IF \E n \in wanted : doc[n].step = "rejected"
       THEN Fail("configuration")
       ELSE /\ load' = "recheck" /\ settled' = now
            /\ UNCHANGED <<wanted, identity, doc>>

\* assertStillAbsent, one document after the other.
StillAbsent(n) ==
    /\ load = "recheck" /\ doc[n].step = "absent"
    /\ \A i, j \in DOMAIN DocumentOrder :
          DocumentOrder[i] = n /\ j < i => doc[DocumentOrder[j]].step # "absent"
    /\ IF Present(n) THEN Fail("configuration")
       ELSE DocumentStep(n, "confirmed")

EndRecheck ==
    /\ load = "recheck" /\ \A n \in wanted : doc[n].step # "absent"
    /\ load' = "final"
    /\ UNCHANGED <<wanted, identity, doc, settled>>

\* agentHawkConfigSchema and approvalFileSchema.  Without documents there is
\* nothing to parse.
Parse ==
    /\ load = "parse"
    /\ \/ load' = "loaded" /\ UNCHANGED <<wanted, identity, doc, settled>>
       \/ wanted # {} /\ Fail("configuration")

\* throwIfCancelled, before and after every call.
CancelLoading == load \in Loading /\ Fail("cancelled")

AuthorityStep ==
    \/ Locate \/ AskGit \/ FinalIdentity \/ EndReads \/ EndRecheck \/ Parse \/ CancelLoading
    \/ \E n \in Documents : \/ Probe(n) \/ InspectDocument(n) \/ ReadDocument(n)
                            \/ FinalDocument(n) \/ StillAbsent(n)

-----------------------------------------------------------------------------
(* Properties.                                                             *)

\* The authority is of one piece, whatever is created, deleted or swapped
\* while it is loaded: every document it read stood in the root it names, and
\* none it takes for missing was there when the last of them had been read,
\* unless it is gone by now.
AuthorityIsOne ==
    load = "loaded" => \A n \in wanted :
       \/ doc[n].step = "present" /\ doc[n].tree = identity
       \/ doc[n].step = "confirmed" /\ (Present(n) => file[n].ino > settled)
=============================================================================
