--------------------------- MODULE DoubleReadProofs ---------------------------
(***************************************************************************)
(* Proofs about DoubleRead, for every set of commands and every scenario.  *)
(*                                                                         *)
(* Nothing is fenced while files are read, so the arguments are about      *)
(* time: the clock only grows, and every change leaves a stamp of its own. *)
(*                                                                         *)
(*  - The authority is of one piece (IInv): a document that was opened     *)
(*    after the root had been located was opened in this root or in a      *)
(*    later one, and the comparison at the end rules out the later ones;   *)
(*    what is created after the last document was read is younger than     *)
(*    that moment.                                                         *)
(*  - Two readings that agree are one (RInv): a file with the stamp it had *)
(*    in the first pass has not changed since, so that its bytes are those *)
(*    between the passes, and a name that was missing in a directory with  *)
(*    an old stamp is missing still.  The listings of a pass may be older  *)
(*    than the stamps they are compared with: which of the two came first  *)
(*    follows from the order of the reading.                               *)
(*  - The reader that compares bytes alone relies on the lifecycle: bytes  *)
(*    that carry the name of a command come from that command, while it    *)
(*    has the lock, and it has it once.                                    *)
(***************************************************************************)
EXTENDS DoubleRead, TLAPS

\* No file and no root is younger than the clock.
FilesPast ==
    /\ file \in [Names -> Files] /\ tree \in Nat /\ now \in Nat
    /\ tree <= now
    /\ \A n \in Names : file[n].ino <= now /\ file[n].stamp <= now

\* The root was located in the past, and so was what it has been since.
RootPast == identity <= tree

\* A document is open in the root that was located, or in a later one.
OpenedSince ==
    \A n \in wanted : doc[n].step \in {"final", "present"} =>
                         identity <= doc[n].tree /\ doc[n].tree <= tree

\* After the comparison of the roots there was no later one.
OneRoot ==
    load \in {"parse", "loaded"} =>
       \A n \in wanted : doc[n].step = "present" => doc[n].tree = identity

\* How far the documents are in each phase of the loader.
InStep ==
    /\ load \in {"locate", "git"} => \A n \in wanted : doc[n].step = "none"
    /\ load = "reads" => \A n \in wanted : doc[n].step # "confirmed"
    /\ load = "recheck" => \A n \in wanted : doc[n].step \in {"absent", "present", "confirmed"}
    /\ load \in {"final", "parse", "loaded"} => \A n \in wanted : doc[n].step \in {"present", "confirmed"}

\* What is there although it was found missing came later.
CameLater ==
    load \in {"recheck", "final", "parse", "loaded"} =>
       \A n \in wanted : doc[n].step = "confirmed" /\ Present(n) => file[n].ino > settled

Typed == scenario \in Scenarios /\ AuthorityTypeOK /\ FilesPast

IInv == Typed /\ RootPast /\ OpenedSince /\ OneRoot /\ InStep /\ CameLater

-----------------------------------------------------------------------------
(* The files.                                                              *)

\* What any change of the file system does to a name.
GrowsAt(m) ==
    /\ file'[m] \in Files /\ file'[m].ino <= now' /\ file'[m].stamp <= now'
    /\ Present(m)' => \/ file'[m].ino = now + 1
                      \/ Present(m) /\ file'[m].ino = file[m].ino

\* And to the names and the root together.
Grows ==
    /\ FilesPast' /\ now' = now + 1 /\ tree' >= tree
    /\ \A m \in Names : Present(m)' => \/ file'[m].ino = now + 1
                                       \/ Present(m) /\ file'[m].ino = file[m].ino

\* Name by name is enough.
LEMMA GrowsByName ==
    ASSUME FilesPast, now' = now + 1, tree' = tree \/ tree' = now + 1,
           file' = [m \in Names |-> file'[m]], \A m \in Names : GrowsAt(m)
    PROVE  Grows
<1>1. file' \in [Names -> Files]
  <2>1. \A m \in Names : file'[m] \in Files
    BY DEF GrowsAt
  <2> QED
    BY <2>1
<1>2. tree' \in Nat /\ now' \in Nat /\ tree' <= now' /\ tree' >= tree
  BY DEF FilesPast
<1> QED
  BY <1>1, <1>2 DEF Grows, GrowsAt, FilesPast

\* The stamp of a file that is new is the stamp of the change.
LEMMA NewFile ==
    ASSUME FilesPast, now' = now + 1, NEW b \in Bytes
    PROVE  LET f == [bytes |-> b, ino |-> now + 1, stamp |-> now + 1]
           IN f \in Files /\ f.ino = now + 1 /\ f.ino <= now' /\ f.stamp <= now'
  BY DEF FilesPast, Files

\* A name that leads nowhere is older than everything.
LEMMA OldFile ==
    ASSUME FilesPast, now' = now + 1
    PROVE  /\ NoFile \in Files /\ NoFile.ino <= now' /\ NoFile.stamp <= now'
           /\ NoFile.bytes = Nobody
  BY DEF FilesPast, Files, NoFile, Bytes

\* A name that is left alone stays as it was.
LEMMA SameFile ==
    ASSUME FilesPast, now' = now + 1, NEW m \in Names, file'[m] = file[m]
    PROVE  GrowsAt(m)
<1>1. file[m] \in Files /\ file[m].ino <= now /\ file[m].stamp <= now
  BY DEF FilesPast
<1>2. file[m].ino \in Nat /\ file[m].stamp \in Nat /\ now \in Nat
  BY <1>1 DEF FilesPast, Files
<1> QED
  BY <1>1, <1>2 DEF GrowsAt, Present

\* Create, rewrite in place, remove.
LEMMA WriteGrows ==
    ASSUME FilesPast, now' = now + 1, NEW n, NEW b \in Bytes, Write(n, b)
    PROVE  Grows
<1>1. ASSUME NEW m \in Names PROVE GrowsAt(m)
  <2>1. CASE m = n
    <3>1. file'[m] = [bytes |-> b, ino |-> now + 1, stamp |-> now + 1]
      BY <2>1 DEF Write, FilesPast
    <3> QED
      BY <3>1, NewFile DEF GrowsAt
  <2>2. CASE m # n
    <3>1. file'[m] = file[m]
      BY <2>2 DEF Write, FilesPast
    <3> QED
      BY <3>1, SameFile
  <2> QED
    BY <2>1, <2>2
<1>2. file' = [m \in Names |-> file'[m]] /\ tree' = tree
  BY DEF Write, FilesPast
<1> QED
  BY <1>1, <1>2, GrowsByName

LEMMA EditGrows ==
    ASSUME FilesPast, now' = now + 1, NEW n, NEW b \in Bytes, Edit(n, b)
    PROVE  Grows
<1>1. ASSUME NEW m \in Names PROVE GrowsAt(m)
  <2>1. CASE m = n
    <3>1. file'[m] = [file[m] EXCEPT !.bytes = b, !.stamp = now + 1] /\ Present(m)
      BY <2>1 DEF Edit, FilesPast
    <3>2. file[m] \in Files /\ file[m].ino <= now /\ now \in Nat
      BY DEF FilesPast
    <3>3. file'[m] = [bytes |-> b, ino |-> file[m].ino, stamp |-> now + 1]
      BY <3>1, <3>2 DEF Files
    <3> QED
      BY <3>1, <3>2, <3>3 DEF GrowsAt, Files
  <2>2. CASE m # n
    <3>1. file'[m] = file[m]
      BY <2>2 DEF Edit, FilesPast
    <3> QED
      BY <3>1, SameFile
  <2> QED
    BY <2>1, <2>2
<1>2. file' = [m \in Names |-> file'[m]] /\ tree' = tree
  BY DEF Edit, FilesPast
<1> QED
  BY <1>1, <1>2, GrowsByName

LEMMA UnlinkGrows ==
    ASSUME FilesPast, now' = now + 1, NEW n, Unlink(n)
    PROVE  Grows
<1>1. ASSUME NEW m \in Names PROVE GrowsAt(m)
  <2>1. CASE m = n
    <3>1. file'[m] = NoFile
      BY <2>1 DEF Unlink, FilesPast
    <3> QED
      BY <3>1, OldFile DEF GrowsAt, Present
  <2>2. CASE m # n
    <3>1. file'[m] = file[m]
      BY <2>2 DEF Unlink, FilesPast
    <3> QED
      BY <3>1, SameFile
  <2> QED
    BY <2>1, <2>2
<1>2. file' = [m \in Names |-> file'[m]] /\ tree' = tree
  BY DEF Unlink, FilesPast
<1> QED
  BY <1>1, <1>2, GrowsByName

\* Another root is younger than the one before, and so are its files.
LEMMA SwapGrows ==
    ASSUME FilesPast, now' = now + 1, NEW kept, Swap(kept)
    PROVE  Grows
<1>1. ASSUME NEW m \in Names PROVE GrowsAt(m)
  <2>1. CASE m \in kept /\ Present(m)
    <3>1. file'[m] = [bytes |-> file[m].bytes, ino |-> now + 1, stamp |-> now + 1]
      BY <2>1 DEF Swap
    <3>2. file[m].bytes \in Bytes
      BY DEF FilesPast, Files
    <3> QED
      BY <3>1, <3>2, NewFile DEF GrowsAt
  <2>2. CASE ~(m \in kept /\ Present(m))
    <3>1. file'[m] = NoFile
      BY <2>2 DEF Swap
    <3> QED
      BY <3>1, OldFile DEF GrowsAt, Present
  <2> QED
    BY <2>1, <2>2
<1>2. file' = [m \in Names |-> file'[m]] /\ tree' = now + 1
  BY DEF Swap
<1> QED
  BY <1>1, <1>2, GrowsByName

-----------------------------------------------------------------------------
(* The others.                                                             *)

\* A loader that stands still keeps what it knows while the files change.
LEMMA GrowthKeepsAuthority ==
    ASSUME IInv, Grows, UNCHANGED authority, UNCHANGED scenario
    PROVE  IInv'
<1> USE DEF IInv, Typed
<1>1. now \in Nat /\ now' = now + 1 /\ FilesPast'
  BY DEF Grows, FilesPast
<1>2. scenario' \in Scenarios
  OBVIOUS
<1>3. AuthorityTypeOK'
  <2>1. \A k : k \in 0..now => k \in 0..now'
    BY <1>1
  <2>2. identity' \in 0..now' /\ settled' \in 0..now'
    BY <2>1 DEF AuthorityTypeOK, authority
  <2>3. doc' \in [Documents -> [step : DocumentSteps, ino : 0..now', stamp : 0..now',
                                bytes : Bytes, tree : 0..now']]
    BY <2>1 DEF AuthorityTypeOK, authority
  <2> QED
    BY <2>2, <2>3 DEF AuthorityTypeOK, authority
<1>4. RootPast' /\ OpenedSince'
  <2>1. tree \in Nat /\ tree' \in Nat /\ tree' >= tree /\ identity' = identity /\ identity \in Nat
    BY <1>1 DEF Grows, FilesPast, AuthorityTypeOK, authority
  <2>2. RootPast'
    BY <2>1 DEF RootPast
  <2>3. \A n \in wanted : doc[n].tree \in Nat
    BY <1>1 DEF AuthorityTypeOK
  <2> QED
    BY <2>1, <2>2, <2>3 DEF OpenedSince, authority
<1>5. OneRoot' /\ InStep'
  BY DEF OneRoot, InStep, authority
<1>6. CameLater'
  <2>1. settled \in Nat /\ settled <= now /\ wanted \subseteq Names /\ settled' = settled
    BY <1>1 DEF AuthorityTypeOK, authority, Names
  <2>2. ASSUME NEW n \in wanted, doc[n].step = "confirmed", Present(n)',
               load \in {"recheck", "final", "parse", "loaded"}
        PROVE  file'[n].ino > settled
    <3>1. file'[n].ino = now + 1 \/ (Present(n) /\ file'[n].ino = file[n].ino)
      BY <2>1, <2>2 DEF Grows
    <3> QED
      BY <1>1, <2>1, <2>2, <3>1 DEF CameLater
  <2> QED
    BY <2>1, <2>2 DEF CameLater, authority
<1> QED
  BY <1>1, <1>2, <1>3, <1>4, <1>5, <1>6

\* What the bounds of a scenario allow to be written are bytes.
LEMMA WrittenBytes ==
    ASSUME scenario \in Scenarios
    PROVE  /\ scenario.writes \subseteq Bytes
           /\ file["lock"].bytes \in Commands => file["lock"].bytes \in Bytes
           /\ Commands \subseteq Bytes
  BY DoubleReadAssumption DEF Bytes

\* Lifecycle commands, the files they stage, and other programs.
LEMMA LifecycleKeeps ==
    ASSUME IInv, LifecycleStep, UNCHANGED authority, UNCHANGED scenario
    PROVE  IInv'
<1>1. FilesPast /\ now' = now + 1
  BY DEF IInv, Typed, LifecycleStep, Tick
<1>2. PICK n : (\E c \in Commands : Write(n, c)) \/ Unlink(n)
  BY DEF LifecycleStep
<1>3. Grows
  BY <1>1, <1>2, WriteGrows, UnlinkGrows, WrittenBytes DEF IInv, Typed
<1> QED
  BY <1>3, GrowthKeepsAuthority

LEMMA StagingKeeps ==
    ASSUME IInv, StagingStep, UNCHANGED authority, UNCHANGED scenario
    PROVE  IInv'
<1>1. FilesPast /\ now' = now + 1
  BY DEF IInv, Typed, StagingStep, Tick
<1>2. \/ Write("staging", file["lock"].bytes) /\ file["lock"].bytes \in Bytes
      \/ Unlink("staging")
  BY WrittenBytes DEF StagingStep, IInv, Typed
<1>3. Grows
  BY <1>1, <1>2, WriteGrows, UnlinkGrows
<1> QED
  BY <1>3, GrowthKeepsAuthority

LEMMA ForeignKeeps ==
    ASSUME IInv, ForeignStep, UNCHANGED authority, UNCHANGED scenario
    PROVE  IInv'
<1>1. FilesPast /\ now' = now + 1
  BY DEF IInv, Typed, ForeignStep, Tick
<1>2. \/ \E n, b : b \in Bytes /\ (Write(n, b) \/ Edit(n, b))
      \/ \E n : Unlink(n)
      \/ \E kept : Swap(kept)
  BY WrittenBytes DEF ForeignStep, IInv, Typed
<1>3. Grows
  BY <1>1, <1>2, WriteGrows, EditGrows, UnlinkGrows, SwapGrows
<1> QED
  BY <1>3, GrowthKeepsAuthority

-----------------------------------------------------------------------------
(* The loader.                                                             *)

DocumentType == [step : DocumentSteps, ino : 0..now, stamp : 0..now, bytes : Bytes, tree : 0..now]

\* A loader that has forgotten what it read promises nothing.
LEMMA FailKeeps ==
    ASSUME IInv, UNCHANGED fs, UNCHANGED scenario,
           NEW code \in Failures \cup {"cancelled"}, Fail(code)
    PROVE  IInv'
<1>1. now \in Nat /\ tree \in Nat /\ fs' = fs /\ FilesPast'
  BY DEF IInv, Typed, FilesPast, fs
<1>2. NoDocument \in DocumentType
  BY <1>1 DEF NoDocument, DocumentType, DocumentSteps, Bytes
<1>3. AuthorityTypeOK'
  BY <1>1, <1>2 DEF IInv, Typed, AuthorityTypeOK, Fail, Ended, DocumentType, fs
<1>4. RootPast' /\ OpenedSince'
  BY <1>1 DEF RootPast, OpenedSince, Fail, NoDocument, fs, IInv, Typed, AuthorityTypeOK
<1>5. load' \notin {"locate", "git", "reads", "recheck", "final", "parse", "loaded"}
  BY DEF Fail, Failures
<1> QED
  BY <1>1, <1>3, <1>4, <1>5 DEF IInv, Typed, OneRoot, InStep, CameLater

\* One document goes on while they are read.
LEMMA DocumentKeeps ==
    ASSUME IInv, UNCHANGED fs, UNCHANGED scenario, load = "reads",
           NEW n \in Documents, NEW d \in DocumentType, SetDocument(n, d),
           d.step # "confirmed",
           d.step \in {"final", "present"} => identity <= d.tree /\ d.tree <= tree
    PROVE  IInv'
<1>1. FilesPast' /\ now' = now /\ tree' = tree
  BY DEF IInv, Typed, FilesPast, fs, Present
<1>2. doc' \in [Documents -> DocumentType] /\ doc'[n] = d
  BY DEF SetDocument, IInv, Typed, AuthorityTypeOK, DocumentType
<1>3. \A m \in Documents : m # n => doc'[m] = doc[m]
  BY DEF SetDocument, IInv, Typed, AuthorityTypeOK
<1>4. AuthorityTypeOK'
  BY <1>1, <1>2 DEF SetDocument, IInv, Typed, AuthorityTypeOK, DocumentType
<1>5. wanted \subseteq Documents /\ wanted' = wanted /\ load' = load /\ identity' = identity
  BY DEF SetDocument, IInv, Typed, AuthorityTypeOK
<1>6. RootPast' /\ OpenedSince'
  BY <1>1, <1>2, <1>3, <1>5 DEF IInv, RootPast, OpenedSince
<1>7. InStep' /\ OneRoot' /\ CameLater'
  BY <1>2, <1>3, <1>5 DEF IInv, InStep, OneRoot, CameLater
<1> QED
  BY <1>1, <1>4, <1>6, <1>7 DEF IInv, Typed

\* What is known of a document, as a record.
LEMMA DocumentRecord ==
    ASSUME IInv, NEW n \in Documents
    PROVE  /\ doc[n] \in DocumentType /\ NoDocument \in DocumentType
           /\ n \in Names /\ file[n] \in Files /\ file[n].ino \in 0..now /\ file[n].stamp \in 0..now
           /\ tree \in 0..now /\ identity <= tree
<1>1. doc[n] \in DocumentType /\ n \in Names /\ now \in Nat
  BY DEF IInv, Typed, AuthorityTypeOK, DocumentType, Names, FilesPast
<1>2. NoDocument \in DocumentType
  BY <1>1 DEF NoDocument, DocumentType, DocumentSteps, Bytes
<1>3. file[n] \in Files /\ file[n].ino <= now /\ file[n].stamp <= now /\ tree \in 0..now /\ identity <= tree
  BY <1>1 DEF IInv, Typed, FilesPast, RootPast
<1>4. file[n].ino \in Nat /\ file[n].stamp \in Nat
  BY <1>3 DEF Files
<1> QED
  BY <1>1, <1>2, <1>3, <1>4

\* Another step of the same document.
LEMMA StepKeeps ==
    ASSUME IInv, UNCHANGED fs, UNCHANGED scenario, load = "reads",
           NEW n \in Documents, NEW s \in {"inspect", "read", "absent", "rejected"},
           NEW i \in 0..now, SetDocument(n, [doc[n] EXCEPT !.step = s, !.ino = i])
    PROVE  IInv'
<1>1. [doc[n] EXCEPT !.step = s, !.ino = i] \in DocumentType
  BY DocumentRecord DEF DocumentType, DocumentSteps, Settled
<1>2. [doc[n] EXCEPT !.step = s, !.ino = i].step = s
  BY DocumentRecord DEF DocumentType
<1> QED
  BY <1>1, <1>2, DocumentKeeps

LEMMA RejectKeeps ==
    ASSUME IInv, UNCHANGED fs, UNCHANGED scenario, load = "reads",
           NEW n \in Documents, Reject(n)
    PROVE  IInv'
<1>1. [NoDocument EXCEPT !.step = "rejected"] \in DocumentType
  BY DocumentRecord DEF DocumentType, DocumentSteps, Settled, NoDocument
<1>2. [NoDocument EXCEPT !.step = "rejected"].step = "rejected"
  BY DEF NoDocument
<1> QED
  BY <1>1, <1>2, DocumentKeeps DEF Reject

LEMMA ProbeKeeps ==
    ASSUME IInv, UNCHANGED fs, UNCHANGED scenario, NEW n \in Documents, Probe(n)
    PROVE  IInv'
<1>1. PICK s \in {"inspect", "absent"} : SetDocument(n, [doc[n] EXCEPT !.step = s])
  BY DEF Probe, DocumentStep
<1>2. [doc[n] EXCEPT !.step = s] = [doc[n] EXCEPT !.step = s, !.ino = doc[n].ino] /\ doc[n].ino \in 0..now
  BY DocumentRecord DEF DocumentType
<1> QED
  BY <1>1, <1>2, StepKeeps DEF Probe, DocumentAt

LEMMA InspectKeeps ==
    ASSUME IInv, UNCHANGED fs, UNCHANGED scenario, NEW n \in Documents, InspectDocument(n)
    PROVE  IInv'
<1>1. CASE SetDocument(n, [doc[n] EXCEPT !.step = "read", !.ino = file[n].ino])
  BY <1>1, DocumentRecord, StepKeeps DEF InspectDocument, DocumentAt
<1>2. CASE DocumentStep(n, "absent")
  <2>1. [doc[n] EXCEPT !.step = "absent"] = [doc[n] EXCEPT !.step = "absent", !.ino = doc[n].ino]
        /\ doc[n].ino \in 0..now
    BY DocumentRecord DEF DocumentType
  <2> QED
    BY <1>2, <2>1, StepKeeps DEF InspectDocument, DocumentAt, DocumentStep
<1>3. CASE Reject(n)
  BY <1>3, RejectKeeps DEF InspectDocument, DocumentAt
<1> QED
  BY <1>1, <1>2, <1>3 DEF InspectDocument

\* The document is opened in the root that stands now.
LEMMA ReadKeeps ==
    ASSUME IInv, UNCHANGED fs, UNCHANGED scenario, NEW n \in Documents, ReadDocument(n)
    PROVE  IInv'
<1> DEFINE d == [doc[n] EXCEPT !.step = "final", !.bytes = file[n].bytes,
                               !.stamp = file[n].stamp, !.tree = tree]
<1>1. CASE SetDocument(n, d)
  <2>1. d \in DocumentType /\ d.tree = tree /\ d.step = "final"
    BY DocumentRecord DEF DocumentType, DocumentSteps, Files
  <2>2. identity <= d.tree /\ d.tree <= tree
    BY <2>1, DocumentRecord
  <2> HIDE DEF d
  <2> QED
    BY <1>1, <2>1, <2>2, DocumentKeeps DEF ReadDocument, DocumentAt
<1>2. CASE Reject(n)
  BY <1>2, RejectKeeps DEF ReadDocument, DocumentAt
<1> QED
  BY <1>1, <1>2 DEF ReadDocument

LEMMA FinalDocumentKeeps ==
    ASSUME IInv, UNCHANGED fs, UNCHANGED scenario, NEW n \in Documents, FinalDocument(n)
    PROVE  IInv'
<1>1. CASE SameDocument(n)
  <2>1. PICK b \in {doc[n].bytes, file[n].bytes, Torn} :
           SetDocument(n, [doc[n] EXCEPT !.step = "present", !.bytes = b])
    BY <1>1 DEF FinalDocument
  <2> DEFINE d == [doc[n] EXCEPT !.step = "present", !.bytes = b]
  <2>2. b \in Bytes
    BY DocumentRecord DEF DocumentType, Files, Bytes
  <2>3. d \in DocumentType /\ d.tree = doc[n].tree /\ d.step = "present"
    BY <2>2, DocumentRecord DEF DocumentType, DocumentSteps, Settled
  <2>4. identity <= doc[n].tree /\ doc[n].tree <= tree
    BY DEF FinalDocument, DocumentAt, IInv, OpenedSince
  <2> HIDE DEF d
  <2> QED
    BY <2>1, <2>3, <2>4, DocumentKeeps DEF FinalDocument, DocumentAt, d
<1>2. CASE Reject(n)
  BY <1>2, RejectKeeps DEF FinalDocument, DocumentAt
<1> QED
  BY <1>1, <1>2 DEF FinalDocument

\* The root is found as it is now.
LEMMA LocateKeeps ==
    ASSUME IInv, UNCHANGED fs, UNCHANGED scenario, Locate
    PROVE  IInv'
<1>1. CASE Fail("repository_identity")
  BY <1>1, FailKeeps DEF Failures
<1>2. CASE load' = "git" /\ identity' = tree /\ UNCHANGED <<wanted, doc, settled>>
  <2>1. FilesPast' /\ now' = now /\ tree' = tree /\ tree \in 0..now /\ tree <= tree
    BY DEF IInv, Typed, FilesPast, fs, Present
  <2>2. AuthorityTypeOK'
    BY <1>2, <2>1 DEF IInv, Typed, AuthorityTypeOK, Loading
  <2>3. \A n \in wanted : doc[n].step = "none"
    BY DEF Locate, IInv, InStep
  <2>4. RootPast' /\ OpenedSince' /\ OneRoot' /\ InStep' /\ CameLater'
    BY <1>2, <2>1, <2>3 DEF RootPast, OpenedSince, OneRoot, InStep, CameLater
  <2> QED
    BY <2>1, <2>2, <2>4 DEF IInv, Typed
<1> QED
  BY <1>1, <1>2 DEF Locate

\* The documents are begun afresh in the root that was found.
LEMMA AskGitKeeps ==
    ASSUME IInv, UNCHANGED fs, UNCHANGED scenario, AskGit
    PROVE  IInv'
<1>1. CASE Fail("repository_identity")
  BY <1>1, FailKeeps DEF Failures
<1>2. CASE ~Fail("repository_identity")
  <2>1. FilesPast' /\ now' = now /\ tree' = tree /\ now \in Nat
    BY DEF IInv, Typed, FilesPast, fs, Present
  <2>2. /\ load' = IF wanted = {} THEN "final" ELSE "reads"
        /\ doc' = [n \in Documents |->
                     IF n \notin wanted THEN NoDocument
                     ELSE [NoDocument EXCEPT !.step = IF n = "manifest" THEN "inspect" ELSE "probe"]]
        /\ UNCHANGED <<wanted, identity, settled>>
    BY <1>2 DEF AskGit
  <2>3. \A n \in Documents : doc'[n] \in DocumentType /\ doc'[n].step \in {"none", "inspect", "probe"}
    BY <2>1, <2>2 DEF DocumentType, DocumentSteps, NoDocument, Bytes
  <2>4. AuthorityTypeOK'
    BY <2>1, <2>2, <2>3 DEF IInv, Typed, AuthorityTypeOK, DocumentType, Loading
  <2>5. \A n \in wanted : n \in Documents
    BY DEF IInv, Typed, AuthorityTypeOK
  <2>6. load' \in {"final", "reads"} /\ (load' = "final" => wanted' = {})
    BY <2>2
  <2> QED
    BY <2>1, <2>2, <2>3, <2>4, <2>5, <2>6
    DEF IInv, Typed, RootPast, OpenedSince, OneRoot, InStep, CameLater
<1> QED
  BY <1>1, <1>2

\* A root that stayed was the only one since it was located.
LEMMA FinalIdentityKeeps ==
    ASSUME IInv, UNCHANGED fs, UNCHANGED scenario, FinalIdentity
    PROVE  IInv'
<1>1. CASE RootStayed
  <2>1. FilesPast' /\ now' = now /\ tree' = tree /\ file' = file /\ now \in Nat
    BY DEF IInv, Typed, FilesPast, fs, Present
  <2>2. load = "final" /\ load' = "parse" /\ UNCHANGED <<wanted, identity, doc, settled>>
    BY <1>1 DEF FinalIdentity
  <2>3. \A n \in wanted : doc[n].tree \in Nat /\ identity \in Nat /\ tree \in Nat
    BY <2>1 DEF IInv, Typed, AuthorityTypeOK, FilesPast
  <2>4. \A n \in wanted : doc[n].step = "present" => doc[n].tree = identity
    BY <1>1, <2>3 DEF IInv, OpenedSince, RootStayed
  <2>5. AuthorityTypeOK'
    BY <2>1, <2>2 DEF IInv, Typed, AuthorityTypeOK, Loading
  <2> QED
    BY <2>1, <2>2, <2>4, <2>5
    DEF IInv, Typed, RootPast, OpenedSince, OneRoot, InStep, CameLater, Present
<1>2. CASE ~RootStayed
  BY <1>2, FailKeeps DEF FinalIdentity, Failures
<1> QED
  BY <1>1, <1>2

\* The moment when the last document was read.
LEMMA EndReadsKeeps ==
    ASSUME IInv, UNCHANGED fs, UNCHANGED scenario, EndReads
    PROVE  IInv'
<1>1. CASE \E n \in wanted : doc[n].step = "rejected"
  BY <1>1, FailKeeps DEF EndReads, Failures
<1>2. CASE ~\E n \in wanted : doc[n].step = "rejected"
  <2>1. FilesPast' /\ now' = now /\ tree' = tree /\ file' = file /\ now \in 0..now
    BY DEF IInv, Typed, FilesPast, fs, Present
  <2>2. load = "reads" /\ load' = "recheck" /\ settled' = now /\ UNCHANGED <<wanted, identity, doc>>
    BY <1>2 DEF EndReads
  <2>3. \A n \in wanted : doc[n].step \in {"absent", "present"}
    BY <1>2, <2>2 DEF EndReads, Settled, IInv, InStep
  <2>4. AuthorityTypeOK'
    BY <2>1, <2>2 DEF IInv, Typed, AuthorityTypeOK, Loading
  <2> QED
    BY <2>1, <2>2, <2>3, <2>4
    DEF IInv, Typed, RootPast, OpenedSince, OneRoot, InStep, CameLater
<1> QED
  BY <1>1, <1>2

\* What is not there now can only be younger.
LEMMA StillAbsentKeeps ==
    ASSUME IInv, UNCHANGED fs, UNCHANGED scenario, NEW n \in Documents, StillAbsent(n)
    PROVE  IInv'
<1>1. CASE Present(n)
  BY <1>1, FailKeeps DEF StillAbsent, Failures
<1>2. CASE ~Present(n)
  <2>1. FilesPast' /\ now' = now /\ tree' = tree /\ file' = file /\ now \in Nat
    BY DEF IInv, Typed, FilesPast, fs, Present
  <2> DEFINE d == [doc[n] EXCEPT !.step = "confirmed"]
  <2>2. load = "recheck" /\ doc' = [doc EXCEPT ![n] = d] /\ UNCHANGED <<load, wanted, identity, settled>>
    BY <1>2 DEF StillAbsent, DocumentStep, SetDocument
  <2>3. d \in DocumentType /\ d.step = "confirmed"
    BY DocumentRecord DEF DocumentType, DocumentSteps, Settled
  <2> HIDE DEF d
  <2>4. doc' \in [Documents -> DocumentType] /\ doc'[n] = d /\ \A m \in Documents : m # n => doc'[m] = doc[m]
    BY <2>2, <2>3 DEF IInv, Typed, AuthorityTypeOK, DocumentType
  <2>5. AuthorityTypeOK'
    BY <2>1, <2>2, <2>4 DEF IInv, Typed, AuthorityTypeOK, DocumentType
  <2>6. \A m \in wanted : m \in Documents
    BY DEF IInv, Typed, AuthorityTypeOK
  <2>7. RootPast' /\ OpenedSince' /\ OneRoot' /\ InStep'
    BY <2>1, <2>2, <2>3, <2>4, <2>6 DEF IInv, RootPast, OpenedSince, OneRoot, InStep
  <2>8. CameLater'
    BY <1>2, <2>1, <2>2, <2>4, <2>6 DEF IInv, CameLater, Present
  <2> QED
    BY <2>1, <2>5, <2>7, <2>8 DEF IInv, Typed
<1> QED
  BY <1>1, <1>2

\* The loader goes on to a phase that asks no more of the documents.
LEMMA GoOnKeeps ==
    ASSUME IInv, UNCHANGED fs, UNCHANGED scenario, UNCHANGED <<wanted, identity, doc, settled>>,
           \/ load = "recheck" /\ load' = "final" /\ \A n \in wanted : doc[n].step # "absent"
           \/ load = "parse" /\ load' = "loaded"
    PROVE  IInv'
<1>1. FilesPast' /\ now' = now /\ tree' = tree /\ file' = file
  BY DEF IInv, Typed, FilesPast, fs, Present
<1>2. AuthorityTypeOK'
  BY <1>1 DEF IInv, Typed, AuthorityTypeOK, Loading, Ended
<1>3. RootPast' /\ OpenedSince' /\ OneRoot' /\ InStep'
  BY <1>1 DEF IInv, RootPast, OpenedSince, OneRoot, InStep
<1>4. CameLater'
  BY <1>1 DEF IInv, CameLater, Present
<1> QED
  BY <1>1, <1>2, <1>3, <1>4 DEF IInv, Typed

\* One step of the loader.
LEMMA AuthorityStepKeeps ==
    ASSUME IInv, UNCHANGED fs, UNCHANGED scenario, AuthorityStep
    PROVE  IInv'
<1>1. CASE Locate
  BY <1>1, LocateKeeps
<1>2. CASE AskGit
  BY <1>2, AskGitKeeps
<1>3. CASE FinalIdentity
  BY <1>3, FinalIdentityKeeps
<1>4. CASE EndReads
  BY <1>4, EndReadsKeeps
<1>5. CASE EndRecheck
  BY <1>5, GoOnKeeps DEF EndRecheck
<1>6. CASE Parse
  BY <1>6, GoOnKeeps, FailKeeps DEF Parse, Failures
<1>7. CASE CancelLoading
  BY <1>7, FailKeeps DEF CancelLoading
<1>8. CASE \E n \in Documents : \/ Probe(n) \/ InspectDocument(n) \/ ReadDocument(n)
                                \/ FinalDocument(n) \/ StillAbsent(n)
  BY <1>8, ProbeKeeps, InspectKeeps, ReadKeeps, FinalDocumentKeeps, StillAbsentKeeps
<1> QED
  BY <1>1, <1>2, <1>3, <1>4, <1>5, <1>6, <1>7, <1>8 DEF AuthorityStep

-----------------------------------------------------------------------------
(* The theorem.                                                            *)

LEMMA InitEstablishes == Init => IInv
<1> SUFFICES ASSUME Init PROVE IInv
  OBVIOUS
<1>1. scenario \in Scenarios /\ scenario.launch \in Commands
  BY DoubleReadAssumption DEF Init
<1>2. \A n \in Names : file[n] \in Files /\ file[n].ino = 0 /\ file[n].stamp = 0
  <2>1. NoFile \in Files /\ [NoFile EXCEPT !.bytes = scenario.launch] \in Files
        /\ [NoFile EXCEPT !.bytes = Alien] \in Files
    BY <1>1 DEF NoFile, Files, Bytes
  <2> QED
    BY <2>1 DEF Init, NoFile
<1>3. FilesPast
  BY <1>2 DEF Init, FilesPast
<1>4. AuthorityTypeOK /\ load = "locate" /\ \A n \in Documents : doc[n].step = "none"
  BY DEF Init, AuthorityInit, AuthorityTypeOK, NoDocument, DocumentSteps, Loading, Bytes
<1>5. RootPast /\ wanted \subseteq Documents
  BY DEF Init, AuthorityInit, RootPast
<1> QED
  BY <1>1, <1>3, <1>4, <1>5 DEF IInv, Typed, OpenedSince, OneRoot, InStep, CameLater

LEMMA StepPreserves == IInv /\ [Next]_vars => IInv'
<1> SUFFICES ASSUME IInv, [Next]_vars PROVE IInv'
  OBVIOUS
<1>1. CASE UNCHANGED vars
  BY <1>1 DEF vars, others, authority, fs, IInv, Typed, AuthorityTypeOK, FilesPast, RootPast,
              OpenedSince, OneRoot, InStep, CameLater, Present
<1>2. CASE AuthorityStep /\ UNCHANGED others /\ UNCHANGED scenario
  BY <1>2, AuthorityStepKeeps DEF others
<1>3. CASE UNCHANGED authority /\ UNCHANGED others /\ UNCHANGED scenario
  BY <1>3 DEF others, authority, fs, IInv, Typed, AuthorityTypeOK, FilesPast, RootPast,
              OpenedSince, OneRoot, InStep, CameLater, Present
<1>4. CASE LifecycleStep /\ UNCHANGED authority /\ UNCHANGED scenario
  BY <1>4, LifecycleKeeps
<1>5. CASE StagingStep /\ UNCHANGED authority /\ UNCHANGED scenario
  BY <1>5, StagingKeeps
<1>6. CASE ForeignStep /\ UNCHANGED authority /\ UNCHANGED scenario
  BY <1>6, ForeignKeeps
<1> QED
  BY <1>1, <1>2, <1>3, <1>4, <1>5, <1>6 DEF Next, Process

LEMMA InvariantSuffices == IInv => AuthorityIsOne
  BY DEF IInv, OneRoot, InStep, CameLater, AuthorityIsOne

\* loadRepositoryAuthority, among any commands and programs: the documents of
\* an authority all stood in its root, and none that it takes for missing was
\* there when the last of the others had been read, unless it is gone by now.
THEOREM AuthorityOfOnePiece == Spec => []AuthorityIsOne
<1>1. Init => IInv
  BY InitEstablishes
<1>2. IInv /\ [Next]_vars => IInv'
  BY StepPreserves
<1>3. IInv => AuthorityIsOne
  BY InvariantSuffices
<1> QED
  BY <1>1, <1>2, <1>3, PTL DEF Spec

-----------------------------------------------------------------------------
(* Two readings that agree: what the reader knows of the files, now and    *)
(* between the passes.                                                     *)

Going == phase \in {"topology", "files"}
Accepted == {"installable", "current", "attention", "verified"}
Stamped == Reads \ {"rules"}

\* How the reader gets on.
FlowInv ==
    /\ Going \/ phase \in {"compare", "classify"} \/ pass = 2 => load = "loaded"
    /\ phase \in {"compare", "classify"} \/ result \in Accepted => pass = 2
    /\ phase = "done" <=> result # "none"
    /\ pass = 2 => middle.tree = identity
    /\ \A n \in Names : pass = 1 => seen[2][n] = Unread
    /\ \A n \in Names : phase \in {"begin", "topology"} => seen[pass][n] = Unread
    /\ phase = "topology" => \A n \in Reads : step[n] = FirstStep(n)
    /\ \A p \in {1, 2}, n \in Names :
          seen[p][n].state \in {"unsafe", "unread", "absent"} => seen[p][n].bytes = Nobody
    /\ \A p \in {1, 2}, n \in Names : seen[p][n].stamp <= now /\ seen[p][n].parent <= now

\* In which order: the hook comes first, and its directory is listed with it.
OrderInv ==
    Going =>
       /\ step["hook"] # "done" =>
             \A n \in Reads \ {"hook"} : step[n] = FirstStep(n) /\ seen[pass][n] = Unread
       /\ step["hook"] \notin {"parent", "entry"} /\ ByStat => listing["host"] # Unlisted
       /\ step["hook"] \in {"parent", "entry"} => listing["host"] = Unlisted
       /\ step["receipt"] \in {"parent", "entry"} => listing["agenthawk"] = Unlisted
       /\ step["rules"] \in {"entry", "done"}

\* A file that has the stamp it had in the first pass has not changed since.
PresentInv(n) ==
    pass = 2 /\ seen[1][n].state = "present" =>
       /\ Present(n) /\ file[n].stamp <= seen[1][n].stamp => file[n].bytes = middle.bytes[n]
       /\ phase = "files" /\ step[n] = "final" =>
             /\ local[n].stamp <= seen[1][n].stamp => local[n].bytes = middle.bytes[n]
             /\ Present(n) => file[n].stamp = local[n].stamp \/ file[n].stamp > seen[1][n].stamp
       /\ seen[2][n].state = "present" /\ seen[2][n].stamp = seen[1][n].stamp =>
             seen[2][n].bytes = middle.bytes[n]

\* A root that has not changed since the pass began has the same entries.
RootedInv(n) ==
    /\ pass = 1 /\ Going /\ dir["root"] <= root[1] =>
          /\ listing["root"] # Unlisted => (n \in listing["root"] <=> Present(n))
          /\ seen[1][n].state = "absent" => ~Present(n)
    /\ pass = 2 /\ seen[1][n].state = "absent" => middle.bytes[n] = Nobody

\* A name that was missing in a directory that has not changed: its listing is
\* younger than the stamp of the directory ...
MissingInv(n) ==
    seen[1][n].state = "absent" =>
       /\ dir[Home[n]] <= seen[1][n].parent => IF pass = 1 THEN ~Present(n) ELSE middle.bytes[n] = Nobody
       /\ pass = 2 /\ phase = "files" /\ step[n] = "entry" /\ local[n].parent <= seen[1][n].parent =>
             middle.bytes[n] = Nobody
       /\ seen[2][n].state = "absent" /\ seen[2][n].parent = seen[1][n].parent => middle.bytes[n] = Nobody

\* ... or older, when another file of the directory was looked for before.
ListedInv(n) ==
    pass = 2 /\ seen[1][n].state = "absent" =>
       /\ dir[Home[n]] <= seen[1][n].parent =>
             /\ ~Present(n) => middle.bytes[n] = Nobody
             /\ Going /\ listing[Home[n]] # Unlisted /\ n \notin listing[Home[n]] => middle.bytes[n] = Nobody
       /\ phase = "files" /\ step[n] = "entry" /\ local[n].parent <= seen[1][n].parent
             /\ n \notin listing[Home[n]] => middle.bytes[n] = Nobody
       /\ seen[2][n].state = "absent" /\ seen[2][n].parent = seen[1][n].parent => middle.bytes[n] = Nobody

\* The rules of git have no stamp; they change at most once.
RulesInv ==
    LET Asked(p) == seen[p]["rules"].state \in {"present", "absent"}
        first == seen[1]["rules"].bytes
    IN /\ foreign = 0 => file["rules"].bytes = Alien
       /\ foreign <= 1 =>
             /\ Asked(1) => first \in {Alien, file["rules"].bytes}
             /\ pass = 2 => middle.bytes["rules"] \in {Alien, file["rules"].bytes}
             /\ pass = 2 /\ Asked(1) /\ first # Alien => middle.bytes["rules"] = first
             /\ pass = 2 /\ Asked(1) /\ Asked(2) /\ first = seen[2]["rules"].bytes =>
                   middle.bytes["rules"] = first

StatInv ==
    ByStat =>
       /\ \A n \in Stamped : PresentInv(n)
       /\ \A n \in Stamped : Home[n] = "root" => RootedInv(n)
       /\ \A n \in {"hook", "receipt"} : MissingInv(n)
       /\ ListedInv("config")

\* The reader that compares bytes alone.  Quiet: the command whose launch is
\* verified has had the lock, and has it no more.
Launch == scenario.launch
Quiet == Launch \in spent /\ file["lock"].bytes # Launch
FirstFound == seen[1]["hook"].bytes = Launch /\ seen[1]["lock"].state = "absent"

\* The launch of a hook that compares bytes alone is one installation: no other
\* program forges its bytes.
NobodyForges == \A s \in Scenarios : s.reader = "claude_invocation" => s.launch \notin s.writes

BytesInv ==
    NobodyForges /\ Reader = "claude_invocation" =>
       /\ \A n \in {"hook", "receipt", "lock"} :
             file[n].bytes = Launch \/ local[n].bytes = Launch \/ (\E p \in {1, 2} : seen[p][n].bytes = Launch) =>
                Launch \in spent
       /\ FirstFound =>
             /\ Quiet
             /\ \/ witness \/ tree # 0 
                \/ file["hook"].bytes # Launch \/ file["receipt"].bytes # Launch
             /\ pass = 2 /\ phase = "files" /\ step["hook"] = "final" /\ local["hook"].bytes = Launch =>
                   witness \/ tree # 0 \/ file["receipt"].bytes # Launch
             /\ seen[2]["hook"].bytes = Launch => witness \/ tree # 0 \/ file["receipt"].bytes # Launch
             /\ pass = 2 /\ phase = "files" /\ step["receipt"] = "final" /\ local["receipt"].bytes = Launch
                   /\ seen[2]["hook"].bytes = Launch => witness \/ tree # 0
             /\ seen[2]["hook"].bytes = Launch /\ seen[2]["receipt"].bytes = Launch => witness \/ tree # 0
             /\ phase \in {"compare", "classify"} \/ result = "verified" =>
                   (identity = 0 /\ seen[2]["hook"].bytes = Launch /\ seen[2]["receipt"].bytes = Launch => witness)

WitnessInv ==
    /\ InstalledNow => witness
    /\ pass = 2 /\ middle.tree = 0 /\ middle.bytes["hook"] = Launch /\ middle.bytes["receipt"] = Launch
          /\ middle.bytes["lock"] = Nobody => witness

ResultInv ==
    /\ phase = "classify" \/ result \in Accepted => Signature(1) = Signature(2)
    /\ result = "current" =>
          /\ Reader \in Statuses /\ State("lock") = "absent"
          /\ BytesOf("hook") = BytesOf("receipt") /\ BytesOf("hook") \in Commands
    /\ result = "installable" => /\ Reader \in Statuses
                                 /\ \A n \in {"hook", "receipt", "lock"} : State(n) = "absent"
    /\ result = "verified" =>
          /\ Reader \in Invocations /\ State("lock") = "absent" /\ identity = 0
          /\ BytesOf("hook") = Launch /\ BytesOf("receipt") = Launch

RInv == FlowInv /\ OrderInv /\ StatInv /\ RulesInv /\ BytesInv /\ WitnessInv /\ ResultInv

-----------------------------------------------------------------------------
(* Types.                                                                  *)

\* What the reader keeps in mind.
ReadingType ==
    /\ phase \in Phases /\ pass \in {1, 2}
    /\ step \in [Names -> Steps]
    /\ root \in [1..2 -> 0..now]
    /\ listing \in [Dirs -> {Unlisted} \cup SUBSET Names]
    /\ local \in [Names -> [bytes : Bytes, parent : 0..now, ino : 0..now, stamp : 0..now]]
    /\ seen \in [1..2 -> [Names -> Seen]]
    /\ result \in Results

\* And the others; no file of theirs is torn.
OthersType ==
    /\ dir \in [Dirs -> 0..now] /\ tree \in 0..now
    /\ foreign \in 0..scenario.foreign
    /\ spent \subseteq Commands
    /\ \A n \in Names : file[n].bytes # Torn

Read1 == IInv /\ ReadingType /\ OthersType

LEMMA TypesSuffice == Read1 => TypeOK
  BY DEF Read1, IInv, Typed, FilesPast, ReadingType, OthersType, TypeOK, FilesTypeOK

LEMMA NamesAre ==
    /\ Names = {"hook", "config", "receipt", "lock", "staging", "rules", "policy", "approvals", "manifest"}
    /\ Home["hook"] = "host" /\ Home["config"] = "host" /\ Home["receipt"] = "agenthawk"
    /\ Home["rules"] = "info" /\ Home["lock"] = "root" /\ Home["staging"] = "root"
    /\ \A n \in Names : Home[n] \in Dirs
    /\ Dirs = {"root", "host", "agenthawk", "info"}
  BY DEF Names, Artifacts, Documents, Home, Dirs

\* What is read, and that the hook is read first.
LEMMA OrderIs ==
    ASSUME Reader \in Readers
    PROVE  /\ Reads \subseteq {"hook", "config", "receipt", "lock", "staging", "rules"}
           /\ ~Authority => {"hook", "receipt", "lock"} \subseteq Reads
           /\ Reader # "claude_status" => "rules" \notin Reads /\ "staging" \notin Reads
           /\ Reader = "claude_invocation" => "config" \notin Reads
           /\ \A n \in Reads : Turn(n) /\ n # "hook" => step["hook"] = "done"
<1>1. CASE Reader \in {"codex_status", "codex_invocation"}
  <2>1. Order = <<"hook", "receipt", "config", "lock">>
    BY <1>1 DEF Order, CodexOrder
  <2>2. DOMAIN Order = 1..4 /\ Order[1] = "hook" /\ Order[2] = "receipt" /\ Order[3] = "config" /\ Order[4] = "lock"
    BY <2>1
  <2>3. Reads = {"hook", "config", "receipt", "lock"}
    BY <2>2 DEF Reads
  <2>4. ASSUME NEW n \in Reads, Turn(n), n # "hook" PROVE step["hook"] = "done"
    <3>1. PICK i \in 1..4 : Order[i] = n /\ \A j \in 1..(i - 1) : step[Order[j]] = "done"
      BY <2>2, <2>4 DEF Turn
    <3>2. i # 1 /\ 1 \in 1..(i - 1)
      BY <2>2, <2>4, <3>1
    <3> QED
      BY <2>2, <3>1, <3>2
  <2> QED
    BY <1>1, <2>3, <2>4 DEF Authority
<1>2. CASE Reader = "claude_status"
  <2>1. Order = <<"hook", "config", "receipt", "lock", "staging", "rules">>
    BY <1>2 DEF Order, ClaudeOrder
  <2>2. /\ DOMAIN Order = 1..6 /\ Order[1] = "hook" /\ Order[2] = "config" /\ Order[3] = "receipt" /\ Order[4] = "lock"
        /\ Order[5] = "staging" /\ Order[6] = "rules"
    BY <2>1
  <2>3. Reads = {"hook", "config", "receipt", "lock", "staging", "rules"}
    BY <2>2 DEF Reads
  <2>4. ASSUME NEW n \in Reads, Turn(n), n # "hook" PROVE step["hook"] = "done"
    <3>1. PICK i \in 1..6 : Order[i] = n /\ \A j \in 1..(i - 1) : step[Order[j]] = "done"
      BY <2>2, <2>4 DEF Turn
    <3>2. i # 1 /\ 1 \in 1..(i - 1)
      BY <2>2, <2>4, <3>1
    <3> QED
      BY <2>2, <3>1, <3>2
  <2> QED
    BY <1>2, <2>3, <2>4 DEF Authority
<1>3. CASE Reader = "claude_invocation"
  <2>1. Order = <<"hook", "receipt", "lock">>
    BY <1>3 DEF Order, InvocationOrder
  <2>2. DOMAIN Order = 1..3 /\ Order[1] = "hook" /\ Order[2] = "receipt" /\ Order[3] = "lock"
    BY <2>1
  <2>3. Reads = {"hook", "receipt", "lock"}
    BY <2>2 DEF Reads
  <2>4. ASSUME NEW n \in Reads, Turn(n), n # "hook" PROVE step["hook"] = "done"
    <3>1. PICK i \in 1..3 : Order[i] = n /\ \A j \in 1..(i - 1) : step[Order[j]] = "done"
      BY <2>2, <2>4 DEF Turn
    <3>2. i # 1 /\ 1 \in 1..(i - 1)
      BY <2>2, <2>4, <3>1
    <3> QED
      BY <2>2, <3>1, <3>2
  <2> QED
    BY <1>3, <2>3, <2>4 DEF Authority
<1>4. CASE Reader = "authority"
  <2>1. Order = <<>>
    BY <1>4 DEF Order
  <2>2. Reads = {}
    BY <2>1 DEF Reads
  <2> QED
    BY <1>4, <2>2 DEF Authority
<1> QED
  BY <1>1, <1>2, <1>3, <1>4 DEF Readers, Statuses, Invocations

LEMMA ScenarioIs ==
    ASSUME scenario \in Scenarios
    PROVE  /\ Reader \in Readers /\ Launch \in Commands /\ scenario.foreign \in Nat
           /\ scenario.writes \subseteq Commands \cup {Alien}
           /\ Launch \notin {Nobody, Alien, Torn}
  BY DoubleReadAssumption, FilesAssumption DEF Reader, Launch

-----------------------------------------------------------------------------
(* Every change of the file system has a stamp of its own.                 *)

\* A file that is changed is gone or young, and so is the directory of a file
\* that comes or goes.
Changed(m) ==
    /\ file'[m] = file[m] \/ file'[m].bytes = Nobody \/ file'[m].stamp = now + 1
    /\ (Present(m)' <=> Present(m)) \/ dir'[Home[m]] = now + 1
    /\ file'[m].bytes # Torn

Moves ==
    /\ now' = now + 1
    /\ tree' \in {tree, now + 1}
    /\ dir' \in [Dirs -> 0..now'] /\ \A d \in Dirs : dir'[d] \in {dir[d], now + 1}
    /\ \A m \in Names : Changed(m)

LEMMA DirMoves ==
    ASSUME now \in Nat, now' = now + 1, dir \in [Dirs -> 0..now], NEW d \in Dirs, dir' = [dir EXCEPT ![d] = now + 1]
    PROVE  dir' \in [Dirs -> 0..now'] /\ \A e \in Dirs : dir'[e] \in {dir[e], now + 1}
<1>1. \A e \in Dirs : dir'[e] = (IF e = d THEN now + 1 ELSE dir[e]) /\ dir'[e] \in 0..now'
  <2>1. \A k \in 0..now : k \in 0..now'
    OBVIOUS
  <2>2. now + 1 \in 0..now'
    OBVIOUS
  <2> QED
    BY <2>1, <2>2
<1>2. dir' = [e \in Dirs |-> dir'[e]]
  OBVIOUS
<1> QED
  BY <1>1, <1>2

LEMMA WriteMoves ==
    ASSUME Read1, now' = now + 1, NEW n \in Names, NEW b \in Bytes \ {Torn}, Write(n, b)
    PROVE  Moves
<1>1. now \in Nat /\ file \in [Names -> Files] /\ dir \in [Dirs -> 0..now] /\ \A m \in Names : file[m].bytes # Torn
  BY DEF Read1, IInv, Typed, FilesPast, OthersType
<1>2. dir' = [dir EXCEPT ![Home[n]] = now + 1] /\ tree' = tree
  BY DEF Write
<1>3. dir' \in [Dirs -> 0..now'] /\ \A d \in Dirs : dir'[d] \in {dir[d], now + 1}
  BY <1>1, <1>2, NamesAre, DirMoves
<1>4. ASSUME NEW m \in Names PROVE Changed(m)
  <2>1. CASE m = n
    <3>1. file'[m] = [bytes |-> b, ino |-> now + 1, stamp |-> now + 1]
      BY <1>1, <2>1 DEF Write
    <3>2. dir'[Home[m]] = now + 1
      BY <1>1, <1>2, <2>1, NamesAre
    <3> QED
      BY <3>1, <3>2 DEF Changed
  <2>2. CASE m # n
    BY <1>1, <2>2 DEF Write, Changed, Present
  <2> QED
    BY <2>1, <2>2
<1> QED
  BY <1>2, <1>3, <1>4 DEF Moves

LEMMA EditMoves ==
    ASSUME Read1, now' = now + 1, NEW n \in Names, NEW b \in Bytes \ {Torn, Nobody}, Edit(n, b)
    PROVE  Moves
<1>1. now \in Nat /\ file \in [Names -> Files] /\ dir \in [Dirs -> 0..now] /\ \A m \in Names : file[m].bytes # Torn
  BY DEF Read1, IInv, Typed, FilesPast, OthersType
<1>2. dir' = dir /\ tree' = tree
  BY DEF Edit
<1>3. dir' \in [Dirs -> 0..now'] /\ \A d \in Dirs : dir'[d] \in {dir[d], now + 1}
  BY <1>1, <1>2
<1>4. ASSUME NEW m \in Names PROVE Changed(m)
  <2>1. CASE m = n
    <3>1. file'[m] = [file[m] EXCEPT !.bytes = b, !.stamp = now + 1] /\ Present(m)
      BY <1>1, <2>1 DEF Edit
    <3>2. file'[m].bytes = b /\ file'[m].stamp = now + 1
      BY <1>1, <3>1 DEF Files
    <3> QED
      BY <3>1, <3>2 DEF Changed, Present
  <2>2. CASE m # n
    BY <1>1, <2>2 DEF Edit, Changed, Present
  <2> QED
    BY <2>1, <2>2
<1> QED
  BY <1>2, <1>3, <1>4 DEF Moves

LEMMA UnlinkMoves ==
    ASSUME Read1, now' = now + 1, NEW n \in Names, Unlink(n)
    PROVE  Moves
<1>1. now \in Nat /\ file \in [Names -> Files] /\ dir \in [Dirs -> 0..now] /\ \A m \in Names : file[m].bytes # Torn
  BY DEF Read1, IInv, Typed, FilesPast, OthersType
<1>2. dir' = [dir EXCEPT ![Home[n]] = now + 1] /\ tree' = tree
  BY DEF Unlink
<1>3. dir' \in [Dirs -> 0..now'] /\ \A d \in Dirs : dir'[d] \in {dir[d], now + 1}
  BY <1>1, <1>2, NamesAre, DirMoves
<1>4. ASSUME NEW m \in Names PROVE Changed(m)
  <2>1. CASE m = n
    <3>1. file'[m].bytes = Nobody /\ Nobody # Torn
      BY <1>1, <2>1, FilesAssumption DEF Unlink, NoFile
    <3>2. dir'[Home[m]] = now + 1
      BY <1>1, <1>2, <2>1, NamesAre
    <3> QED
      BY <3>1, <3>2 DEF Changed
  <2>2. CASE m # n
    BY <1>1, <2>2 DEF Unlink, Changed, Present
  <2> QED
    BY <2>1, <2>2
<1> QED
  BY <1>2, <1>3, <1>4 DEF Moves

LEMMA SwapMoves ==
    ASSUME Read1, now' = now + 1, NEW kept, Swap(kept)
    PROVE  Moves
<1>1. now \in Nat /\ file \in [Names -> Files] /\ \A m \in Names : file[m].bytes # Torn
  BY DEF Read1, IInv, Typed, FilesPast, OthersType
<1>2. dir' = [d \in Dirs |-> now + 1] /\ tree' = now + 1
  BY DEF Swap
<1>3. dir' \in [Dirs -> 0..now'] /\ \A d \in Dirs : dir'[d] \in {dir[d], now + 1}
  BY <1>1, <1>2
<1>4. ASSUME NEW m \in Names PROVE Changed(m)
  <2>1. file'[m] \in {NoFile, [bytes |-> file[m].bytes, ino |-> now + 1, stamp |-> now + 1]}
    BY DEF Swap
  <2>2. dir'[Home[m]] = now + 1
    BY <1>2, NamesAre
  <2>3. Nobody # Torn
    BY FilesAssumption
  <2> QED
    BY <1>1, <2>1, <2>2, <2>3 DEF Changed, NoFile
<1> QED
  BY <1>2, <1>3, <1>4 DEF Moves

\* What a pass may report of a file.
LEMMA ReportsAre ==
    ASSUME NEW b \in Bytes, NEW k \in Nat, NEW i \in Nat
    PROVE  /\ Unread \in Seen /\ Unsafe \in Seen /\ Absent(k) \in Seen
           /\ [Unread EXCEPT !.state = "present", !.bytes = b, !.ino = i, !.stamp = k] \in Seen
           /\ \A s \in {"absent", "present"} : [Unread EXCEPT !.state = s, !.bytes = b] \in Seen
<1>1. Unread \in Seen
  BY DEF Unread, Seen, Bytes
<1>2. Unsafe \in Seen
  BY <1>1 DEF Unsafe, Seen
<1>3. [Unread EXCEPT !.state = "absent", !.parent = k] \in Seen
  BY <1>1 DEF Seen
<1>4. [Unread EXCEPT !.state = "present", !.bytes = b, !.ino = i, !.stamp = k] \in Seen
  BY <1>1 DEF Seen
<1>5. \A s \in {"absent", "present"} : [Unread EXCEPT !.state = s, !.bytes = b] \in Seen
  BY <1>1 DEF Seen
<1> QED
  BY <1>1, <1>2, <1>3, <1>4, <1>5 DEF Absent

\* What the other programs may write, and where.
LEMMA OthersMove ==
    ASSUME Read1, LifecycleStep \/ StagingStep \/ ForeignStep, UNCHANGED scenario
    PROVE  Moves
<1>1. now' = now + 1
  BY DEF LifecycleStep, StagingStep, ForeignStep, Tick
<1>2. scenario \in Scenarios /\ Commands \subseteq Bytes \ {Torn, Nobody} /\ Alien \in Bytes \ {Torn, Nobody}
  BY FilesAssumption DEF Read1, IInv, Typed, Bytes
<1>3. CASE LifecycleStep
  <2>1. PICK n \in {"hook", "receipt", "lock"} : (\E c \in Commands : Write(n, c)) \/ Unlink(n)
    BY <1>3 DEF LifecycleStep
  <2>2. n \in Names
    BY NamesAre
  <2> QED
    BY <1>1, <1>2, <2>1, <2>2, WriteMoves, UnlinkMoves
<1>4. CASE StagingStep
  <2>1. "staging" \in Names
    BY NamesAre
  <2> QED
    BY <1>1, <1>2, <1>4, <2>1, WriteMoves, UnlinkMoves DEF StagingStep
<1>5. CASE ForeignStep
  <2>1. Reads \cup wanted \subseteq Names
    BY <1>2, OrderIs, ScenarioIs, NamesAre DEF Read1, IInv, Typed, AuthorityTypeOK, Documents
  <2>2. scenario.writes \subseteq Bytes \ {Torn, Nobody}
    BY <1>2, ScenarioIs
  <2>3. \/ \E n \in Names, b \in Bytes \ {Torn, Nobody} : Write(n, b) \/ Edit(n, b)
        \/ \E n \in Names : Unlink(n)
        \/ \E kept : Swap(kept)
    BY <1>5, <2>1, <2>2 DEF ForeignStep
  <2> QED
    BY <1>1, <2>3, WriteMoves, EditMoves, UnlinkMoves, SwapMoves
<1> QED
  BY <1>3, <1>4, <1>5

LEMMA MovesKeepTypes ==
    ASSUME Read1, IInv', Moves, UNCHANGED <<reading, scenario>>,
           foreign' \in 0..scenario.foreign, spent' \subseteq Commands
    PROVE  Read1'
<1>1. now \in Nat /\ now' = now + 1
  BY DEF Moves, Read1, IInv, Typed, FilesPast
<1>2. \A k : k \in 0..now => k \in 0..now'
  BY <1>1
<1>3. ReadingType'
  BY <1>2 DEF Read1, ReadingType, reading
<1>4. tree' \in 0..now'
  BY <1>1 DEF Moves, Read1, OthersType
<1>5. \A n \in Names : file'[n].bytes # Torn
  BY DEF Moves, Changed
<1> QED
  BY <1>3, <1>4, <1>5 DEF Read1, OthersType, Moves

LEMMA OthersTyped ==
    ASSUME Read1, LifecycleStep \/ StagingStep \/ ForeignStep, UNCHANGED <<authority, reading, scenario>>
    PROVE  Read1'
<1>1. Moves
  BY OthersMove
<1>2. IInv'
  BY LifecycleKeeps, StagingKeeps, ForeignKeeps DEF Read1
<1>3. foreign' \in 0..scenario.foreign
  BY ScenarioIs DEF Read1, IInv, Typed, OthersType, LifecycleStep, StagingStep, ForeignStep
<1>4. spent' \subseteq Commands
  <2>1. CASE LifecycleStep
    <3>1. file'["lock"].bytes \in Bytes \ {Torn}
      BY <1>1, <1>2, NamesAre DEF IInv, Typed, FilesPast, Files, Moves, Changed
    <3> QED
      BY <2>1, <3>1 DEF LifecycleStep, Bytes, Read1, OthersType
  <2>2. CASE StagingStep \/ ForeignStep
    BY <2>2 DEF StagingStep, ForeignStep, Read1, OthersType
  <2> QED
    BY <2>1, <2>2
<1> QED
  BY <1>1, <1>2, <1>3, <1>4, MovesKeepTypes

-----------------------------------------------------------------------------
(* The steps of the reader keep their types.                               *)

LEMMA FreshTyped ==
    ASSUME now \in Nat
    PROVE  /\ Fresh.step \in [Names -> Steps] /\ Fresh.root \in [1..2 -> 0..now]
           /\ Fresh.listing \in [Dirs -> {Unlisted} \cup SUBSET Names]
           /\ Fresh.local \in [Names -> [bytes : Bytes, parent : 0..now, ino : 0..now, stamp : 0..now]]
           /\ Fresh.seen \in [1..2 -> [Names -> Seen]]
           /\ Unread \in Seen
  BY DEF Fresh, Steps, Bytes, Unread, Seen

LEMMA AnswerTyped ==
    ASSUME Read1, NEW res \in Results, Answer(res), now' = now
    PROVE  ReadingType'
<1>1. now \in Nat
  BY DEF Read1, IInv, Typed, FilesPast
<1>2. seen' \in [1..2 -> [Names -> Seen]]
  BY <1>1, FreshTyped DEF Answer, Read1, ReadingType
<1> QED
  BY <1>1, <1>2, FreshTyped DEF Answer, Read1, ReadingType, Phases

LEMMA FailedTyped ==
    ASSUME Read1, Failed, now' = now
    PROVE  ReadingType'
  BY AnswerTyped DEF Failed, Results

LEMMA ConcludeTyped ==
    ASSUME Read1, NEW n \in Names, NEW o \in Seen, Conclude(n, o), now' = now
    PROVE  ReadingType'
<1>1. "done" \in Steps
  BY DEF Steps
<1>2. seen' \in [1..2 -> [Names -> Seen]]
  <2>1. seen' = [seen EXCEPT ![pass] = [seen[pass] EXCEPT ![n] = o]]
    BY DEF Conclude, Read1, ReadingType
  <2>2. pass \in 1..2 /\ [seen[pass] EXCEPT ![n] = o] \in [Names -> Seen]
    BY DEF Read1, ReadingType
  <2> QED
    BY <2>1, <2>2 DEF Read1, ReadingType
<1> QED
  BY <1>1, <1>2 DEF Conclude, Proceed, Read1, ReadingType

LEMMA TroubleTyped ==
    ASSUME Read1, NEW n \in Names, Trouble(n), now' = now
    PROVE  ReadingType'
<1>1. Unsafe \in Seen
  BY DEF Unsafe, Unread, Seen, Bytes
<1> QED
  BY <1>1, FailedTyped, ConcludeTyped DEF Trouble

LEMMA ListedTyped ==
    ASSUME Read1, NEW d \in Dirs
    PROVE  Listed(d) \in {Unlisted} \cup SUBSET Names
  BY DEF Read1, ReadingType, Listed, Entries

LEMMA ReaderTyped ==
    ASSUME Read1, ReaderStep, UNCHANGED <<fs, scenario>>
    PROVE  ReadingType'
<1>1. /\ now' = now /\ now \in Nat /\ Reads \subseteq Names
      /\ \A n \in Names : /\ n \in Names /\ Home[n] \in Dirs /\ dir[Home[n]] \in 0..now
                          /\ file[n].bytes \in Bytes /\ file[n].ino \in 0..now /\ file[n].stamp \in 0..now
  <2>1. now' = now /\ now \in Nat /\ dir \in [Dirs -> 0..now]
    BY DEF Read1, IInv, Typed, FilesPast, OthersType, fs
  <2>2. Reads \subseteq Names
    BY OrderIs, ScenarioIs, NamesAre DEF Read1, IInv, Typed
  <2>3. ASSUME NEW n \in Names
        PROVE  /\ Home[n] \in Dirs /\ dir[Home[n]] \in 0..now
               /\ file[n].bytes \in Bytes /\ file[n].ino \in 0..now /\ file[n].stamp \in 0..now
    <3>1. file[n] \in Files /\ file[n].ino <= now /\ file[n].stamp <= now
      BY DEF Read1, IInv, Typed, FilesPast
    <3> QED
      BY <2>1, <3>1, NamesAre DEF Files
  <2> QED
    BY <2>1, <2>2, <2>3
<1>2. CASE Begin
  <2>1. CASE Failed
    BY <1>1, <2>1, FailedTyped
  <2>2. CASE ~Failed
    <3>1. phase' \in Phases /\ dir["root"] \in 0..now /\ pass \in 1..2
      BY <1>1, <1>2, <2>2, NamesAre DEF Begin, Phases, Read1, OthersType, ReadingType
    <3>2. step' \in [Names -> Steps]
      BY <1>2, <2>2 DEF Begin, FirstStep, Steps
    <3> QED
      BY <1>1, <1>2, <2>2, <3>1, <3>2 DEF Begin, Read1, ReadingType
  <2> QED
    BY <2>1, <2>2
<1>3. CASE Unauthorized \/ Cancel \/ ClassifyStatus \/ Verify
  <2>1. Failed \/ \E res \in Results : Answer(res)
    BY <1>3 DEF Unauthorized, Cancel, ClassifyStatus, Verify, Results
  <2> QED
    BY <1>1, <2>1, FailedTyped, AnswerTyped
<1>4. CASE Topology \/ Compare \/ EndPass
  <2>1. CASE Failed
    BY <1>1, <2>1, FailedTyped
  <2>2. CASE ~Failed
    BY <1>1, <1>4, <2>2 DEF Topology, Compare, EndPass, Phases, Read1, ReadingType
  <2> QED
    BY <2>1, <2>2
<1>5. CASE NotSought \/ CheckIgnore \/ InspectStaging
  <2>1. "rules" \in Names /\ "staging" \in Names
    BY NamesAre
  <2>2. \E n \in Names : Trouble(n) \/ \E o \in Seen : Conclude(n, o)
    <3>1. CASE NotSought
      BY <1>1, <3>1, FreshTyped DEF NotSought
    <3>2. CASE CheckIgnore
      <4>1. Unsafe \in Seen
        BY DEF Unsafe, Unread, Seen, Bytes
      <4>2. [Unread EXCEPT !.state = IF Present("rules") THEN "present" ELSE "absent",
                           !.bytes = file["rules"].bytes] \in Seen
        BY <1>1, <2>1 DEF Unread, Seen
      <4> QED
        BY <2>1, <3>2, <4>1, <4>2 DEF CheckIgnore
    <3>3. CASE InspectStaging
      <4>1. [Unread EXCEPT !.state = "present", !.bytes = file["staging"].bytes,
             !.ino = file["staging"].ino, !.stamp = file["staging"].stamp] \in Seen
        <5>1. file["staging"].bytes \in Bytes /\ file["staging"].ino \in Nat /\ file["staging"].stamp \in Nat
          BY <1>1, <2>1
        <5> QED
          BY <5>1, ReportsAre
      <4> QED
        BY <2>1, <3>3, <4>1 DEF InspectStaging
    <3> QED
      BY <1>5, <3>1, <3>2, <3>3
  <2> QED
    BY <1>1, <2>2, TroubleTyped, ConcludeTyped
<1>6. ASSUME NEW n \in Reads, Parent(n) \/ Entry(n)
      PROVE  ReadingType'
  <2>1. n \in Names /\ "root" \in Dirs /\ local[n] \in [bytes : Bytes, parent : 0..now, ino : 0..now, stamp : 0..now]
    BY <1>1, NamesAre DEF Read1, ReadingType
  <2>2. listing' \in [Dirs -> {Unlisted} \cup SUBSET Names]
    BY <1>1, <1>6, <2>1, ListedTyped DEF Parent, Entry, Read1, ReadingType
  <2>3. local' \in [Names -> [bytes : Bytes, parent : 0..now, ino : 0..now, stamp : 0..now]]
    <3>1. [local[n] EXCEPT !.parent = dir[Home[n]]] \in [bytes : Bytes, parent : 0..now, ino : 0..now, stamp : 0..now]
      BY <1>1, <2>1
    <3> QED
      BY <1>6, <2>1, <3>1 DEF Parent, Entry, Read1, ReadingType
  <2>4. step' \in [Names -> Steps]
    BY <1>6 DEF Parent, Entry, Proceed, Steps, Read1, ReadingType
  <2>5. seen' \in [1..2 -> [Names -> Seen]]
    <3>1. CASE seen' = seen
      BY <3>1 DEF Read1, ReadingType
    <3>2. CASE seen' = [seen EXCEPT ![pass][n] = Absent(local[n].parent)]
      <4>1. Absent(local[n].parent) \in Seen
        <5>1. local[n].parent \in Nat /\ Nobody \in Bytes
          BY <1>1, <2>1 DEF Bytes
        <5> QED
          BY <5>1, ReportsAre
      <4>2. seen' = [seen EXCEPT ![pass] = [seen[pass] EXCEPT ![n] = Absent(local[n].parent)]]
        BY <3>2 DEF Read1, ReadingType
      <4>3. pass \in 1..2 /\ [seen[pass] EXCEPT ![n] = Absent(local[n].parent)] \in [Names -> Seen]
        <5>1. pass \in 1..2 /\ seen[pass] \in [Names -> Seen]
          BY DEF Read1, ReadingType
        <5> QED
          BY <4>1, <5>1
      <4> QED
        BY <4>2, <4>3 DEF Read1, ReadingType
    <3> QED
      BY <1>6, <3>1, <3>2 DEF Parent, Entry
  <2> QED
    BY <1>1, <1>6, <2>2, <2>3, <2>4, <2>5 DEF Parent, Entry, Read1, ReadingType
<1>7. ASSUME NEW n \in Reads, Inspect(n) \/ Read(n)
      PROVE  ReadingType'
  <2>1. n \in Names
    BY <1>1
  <2>2. CASE Trouble(n)
    BY <1>1, <2>1, <2>2, TroubleTyped
  <2>3. CASE ~Trouble(n)
    <3>1. local[n] \in [bytes : Bytes, parent : 0..now, ino : 0..now, stamp : 0..now]
      BY <2>1 DEF Read1, ReadingType
    <3>2. /\ [local[n] EXCEPT !.ino = file[n].ino, !.stamp = file[n].stamp]
               \in [bytes : Bytes, parent : 0..now, ino : 0..now, stamp : 0..now]
          /\ [local[n] EXCEPT !.bytes = file[n].bytes, !.stamp = file[n].stamp]
               \in [bytes : Bytes, parent : 0..now, ino : 0..now, stamp : 0..now]
      BY <1>1, <2>1, <3>1
    <3>3. local' \in [Names -> [bytes : Bytes, parent : 0..now, ino : 0..now, stamp : 0..now]]
      BY <1>7, <2>1, <2>3, <3>2 DEF Inspect, Read, Read1, ReadingType
    <3> QED
      BY <1>1, <1>7, <2>3, <3>3 DEF Inspect, Read, Proceed, Steps, Read1, ReadingType
  <2> QED
    BY <2>2, <2>3
<1>8. ASSUME NEW n \in Reads, Final(n)
      PROVE  ReadingType'
  <2>1. n \in Names /\ local[n] \in [bytes : Bytes, parent : 0..now, ino : 0..now, stamp : 0..now]
    BY <1>1 DEF Read1, ReadingType
  <2>2. ASSUME NEW b \in BytesRead(n)
        PROVE  [state |-> "present", bytes |-> b, parent |-> local[n].parent,
                ino |-> file[n].ino, stamp |-> file[n].stamp] \in Seen
    <3>1. b \in Bytes
      BY <1>1, <2>1 DEF BytesRead, Bytes
    <3> QED
      BY <1>1, <2>1, <3>1 DEF Seen
  <2> QED
    BY <1>1, <1>8, <2>1, <2>2, ConcludeTyped, TroubleTyped DEF Final
<1> QED
  BY <1>2, <1>3, <1>4, <1>5, <1>6, <1>7, <1>8 DEF ReaderStep

LEMMA InitTyped == Init => Read1
<1> SUFFICES ASSUME Init PROVE Read1
  OBVIOUS
<1>1. IInv /\ now = 0 /\ now \in Nat
  BY InitEstablishes DEF Init
<1>2. ReadingType
  BY <1>1, FreshTyped DEF Init, ReadingType, Phases, Results
<1>3. dir \in [Dirs -> 0..now] /\ tree \in 0..now
  BY <1>1 DEF Init
<1>4. foreign \in 0..scenario.foreign /\ spent \subseteq Commands
  BY ScenarioIs DEF Init, Launch
<1>5. \A n \in Names : file[n].bytes # Torn
  <2>1. Nobody # Torn /\ Alien # Torn /\ Launch # Torn
    BY FilesAssumption, ScenarioIs DEF Init
  <2> QED
    BY <2>1 DEF Init, NoFile, Launch
<1> QED
  BY <1>1, <1>2, <1>3, <1>4, <1>5 DEF Read1, OthersType

LEMMA StepTyped == Read1 /\ [Next]_vars => Read1'
<1> SUFFICES ASSUME Read1, [Next]_vars PROVE Read1'
  OBVIOUS
<1>1. IInv'
  BY StepPreserves DEF Read1
<1>2. CASE UNCHANGED <<reading, others, scenario>>
  BY <1>1, <1>2 DEF Read1, ReadingType, OthersType, reading, others, fs
<1>3. CASE ReaderStep /\ UNCHANGED <<authority, others, scenario>>
  <2>1. ReadingType'
    BY <1>3, ReaderTyped DEF others
  <2> QED
    BY <1>1, <1>3, <2>1 DEF Read1, OthersType, others, fs
<1>4. CASE (LifecycleStep \/ StagingStep \/ ForeignStep) /\ UNCHANGED <<authority, reading, scenario>>
  BY <1>4, OthersTyped
<1> QED
  BY <1>2, <1>3, <1>4 DEF Next, Process, vars

\* Whatever the readers and the other programs do, the model keeps the types of
\* its files, of what the loader knows and of what the two passes made of it.
THEOREM TypeCorrect == Spec => []TypeOK
<1>1. Read1 => TypeOK
  BY TypesSuffice
<1> QED
  BY <1>1, InitTyped, StepTyped, PTL DEF Spec

-----------------------------------------------------------------------------
(* What the others do to what the reader knows.                            *)

LEMMA SameReader ==
    ASSUME UNCHANGED scenario
    PROVE  Reader' = Reader /\ Reads' = Reads /\ (ByStat' <=> ByStat) /\ Stamped' = Stamped /\ Launch' = Launch
<1>1. Reader' = Reader
  BY DEF Reader
<1>2. Order' = Order
  BY <1>1 DEF Order
<1> QED
  BY <1>1, <1>2 DEF Reads, ByStat, Stamped, Launch

LEMMA StampsArePast ==
    ASSUME Read1, NEW n \in Names, NEW p \in {1, 2}
    PROVE  /\ now \in Nat /\ seen[p][n].stamp \in Nat /\ seen[p][n].parent \in Nat
           /\ local[n].stamp \in 0..now /\ local[n].parent \in 0..now
           /\ file[n].stamp \in 0..now /\ file[n].bytes \in Bytes /\ file[n] \in Files
           /\ root[p] \in 0..now /\ Home[n] \in Dirs /\ dir[Home[n]] \in 0..now
           /\ pass \in {1, 2}
<1>1. now \in Nat /\ file[n] \in Files /\ file[n].stamp <= now
  BY DEF Read1, IInv, Typed, FilesPast
<1>2. seen[p][n] \in Seen /\ root[p] \in 0..now
  BY DEF Read1, ReadingType
<1>3. local[n] \in [bytes : Bytes, parent : 0..now, ino : 0..now, stamp : 0..now]
  BY DEF Read1, ReadingType
<1>4. Home[n] \in Dirs /\ dir[Home[n]] \in 0..now
  BY NamesAre DEF Read1, OthersType
<1> QED
  BY <1>1, <1>2, <1>3, <1>4 DEF Seen, Files, Read1, ReadingType

\* A file that keeps an old stamp is what it was, and a directory that keeps
\* one has the same entries.
LEMMA OldStamp ==
    ASSUME Read1, Moves, NEW n \in Names, NEW k \in Nat, k <= now
    PROVE  /\ Present(n)' /\ file'[n].stamp <= k => file'[n] = file[n] /\ Present(n)
           /\ dir'[Home[n]] <= k => dir'[Home[n]] = dir[Home[n]] /\ (Present(n)' <=> Present(n))
<1>1. /\ now \in Nat /\ dir[Home[n]] \in 0..now /\ Home[n] \in Dirs
      /\ pass \in {1, 2}
  BY StampsArePast
<1>2. Changed(n) /\ dir'[Home[n]] \in {dir[Home[n]], now + 1}
  BY <1>1 DEF Moves
<1> QED
  BY <1>1, <1>2 DEF Changed, Present

LEMMA MovesKeepFlow ==
    ASSUME Read1, FlowInv, OrderInv, ResultInv, now' \in Nat, now <= now',
           UNCHANGED <<reading, scenario, authority, middle>>
    PROVE  FlowInv' /\ OrderInv' /\ ResultInv'
<1>1. now \in Nat
  BY DEF Read1, IInv, Typed, FilesPast
<1>2. FlowInv'
  <2>1. \A p \in {1, 2}, n \in Names : seen[p][n].stamp <= now' /\ seen[p][n].parent <= now'
    BY <1>1, StampsArePast DEF FlowInv
  <2> QED
    BY <2>1, SameReader DEF FlowInv, Going, Accepted, reading, authority
<1>3. OrderInv'
  BY SameReader DEF OrderInv, Going, reading
<1>4. ResultInv'
  BY SameReader DEF ResultInv, Signature, State, BytesOf, Accepted, reading, authority
<1> QED
  BY <1>2, <1>3, <1>4

LEMMA MovesKeepStat ==
    ASSUME Read1, FlowInv, StatInv, Moves, UNCHANGED <<reading, scenario, middle>>
    PROVE  StatInv'
<1> SUFFICES ASSUME ByStat PROVE StatInv'
  BY SameReader DEF StatInv
<1>1. /\ phase' = phase /\ pass' = pass /\ step' = step /\ root' = root /\ listing' = listing
      /\ local' = local /\ seen' = seen /\ middle' = middle
  BY DEF reading
<1>2. Reads \subseteq Names /\ {"hook", "receipt", "config", "lock"} \subseteq Names
  BY OrderIs, ScenarioIs, NamesAre DEF Read1, IInv, Typed
<1>3. ASSUME NEW n \in Names, PresentInv(n) PROVE PresentInv(n)'
  <2>1. seen[1][n].stamp \in Nat /\ seen[1][n].stamp <= now /\ local[n].stamp \in 0..now /\ now \in Nat
    BY StampsArePast DEF FlowInv
  <2>2. Present(n)' /\ file'[n].stamp <= seen[1][n].stamp => file'[n] = file[n] /\ Present(n)
    BY <2>1, OldStamp
  <2>3. Present(n)' => (file'[n] = file[n] /\ Present(n)) \/ file'[n].stamp > seen[1][n].stamp
    BY <2>1 DEF Moves, Changed, Present
  <2> QED
    BY <1>1, <1>3, <2>1, <2>2, <2>3 DEF PresentInv
<1>4. ASSUME NEW n \in Names, Home[n] = "root", RootedInv(n) PROVE RootedInv(n)'
  <2>1. root[1] \in Nat /\ root[1] <= now
    BY StampsArePast
  <2>2. dir'["root"] <= root[1] => dir'["root"] = dir["root"] /\ (Present(n)' <=> Present(n))
    BY <1>4, <2>1, OldStamp
  <2> QED
    BY <1>1, <1>4, <2>2 DEF RootedInv, Going
<1>5. ASSUME NEW n \in Names, MissingInv(n) PROVE MissingInv(n)'
  <2>1. seen[1][n].parent \in Nat /\ seen[1][n].parent <= now
    BY StampsArePast DEF FlowInv
  <2>2. dir'[Home[n]] <= seen[1][n].parent => dir'[Home[n]] = dir[Home[n]] /\ (Present(n)' <=> Present(n))
    BY <2>1, OldStamp
  <2> QED
    BY <1>1, <1>5, <2>2 DEF MissingInv
<1>6. ASSUME NEW n \in Names, ListedInv(n) PROVE ListedInv(n)'
  <2>1. seen[1][n].parent \in Nat /\ seen[1][n].parent <= now
    BY StampsArePast DEF FlowInv
  <2>2. dir'[Home[n]] <= seen[1][n].parent => dir'[Home[n]] = dir[Home[n]] /\ (Present(n)' <=> Present(n))
    BY <2>1, OldStamp
  <2> QED
    BY <1>1, <1>6, <2>2 DEF ListedInv, Going
<1> QED
  BY <1>2, <1>3, <1>4, <1>5, <1>6, SameReader DEF StatInv, Stamped

\* Only other programs write the rules of git.
LEMMA OthersKeepRules ==
    ASSUME Read1, FlowInv, RulesInv, LifecycleStep \/ StagingStep \/ ForeignStep,
           UNCHANGED <<reading, scenario, middle>>
    PROVE  RulesInv'
<1>1. seen' = seen /\ pass' = pass /\ middle' = middle
  BY DEF reading
<1>2. "rules" \in Names /\ file \in [Names -> Files]
  BY NamesAre DEF Read1, IInv, Typed, FilesPast
<1>3. CASE LifecycleStep \/ StagingStep
  <2>1. foreign' = foreign
    BY <1>3 DEF LifecycleStep, StagingStep
  <2>2. file'["rules"] = file["rules"]
    BY <1>2, <1>3 DEF LifecycleStep, StagingStep, Write, Unlink
  <2> QED
    BY <1>1, <2>1, <2>2 DEF RulesInv
<1>4. CASE ForeignStep
  <2>1. foreign' = foreign + 1 /\ foreign \in Nat
    BY <1>4, ScenarioIs DEF ForeignStep, Read1, IInv, Typed, OthersType
  <2>2. foreign' # 0 /\ (foreign' <= 1 => foreign = 0)
    BY <2>1
  <2>3. CASE foreign' <= 1
    <3>1. foreign = 0 /\ foreign <= 1 /\ file["rules"].bytes = Alien
      BY <2>2, <2>3 DEF RulesInv
    <3> QED
      BY <1>1, <2>2, <2>3, <3>1 DEF RulesInv
  <2>4. CASE ~(foreign' <= 1)
    BY <2>2, <2>4 DEF RulesInv
  <2> QED
    BY <2>3, <2>4
<1> QED
  BY <1>3, <1>4

\* The bytes of a launch come from one command, while it has the lock.
LaunchIsSpent == \A n \in {"hook", "receipt", "lock"} : file[n].bytes = Launch => Launch \in spent
LaunchMoves ==
    /\ \A n \in {"hook", "receipt", "lock"} : file'[n].bytes = Launch => Launch \in spent'
    /\ spent \subseteq spent' /\ (tree # 0 => tree' # 0)
    /\ Quiet => /\ Launch \in spent' /\ file'["lock"].bytes # Launch
                /\ \A n \in {"hook", "receipt"} : file'[n].bytes = Launch => file[n].bytes = Launch

LEMMA LifecycleMovesLaunch ==
    ASSUME Read1, LaunchIsSpent, LifecycleStep
    PROVE  LaunchMoves
<1>1. /\ Launch \in Commands /\ Launch \notin {Nobody, Alien} /\ {"hook", "receipt", "lock"} \subseteq Names
      /\ file \in [Names -> Files]
  BY ScenarioIs, NamesAre DEF Read1, IInv, Typed, FilesPast
<1>2. spent' = spent \cup ({file'["lock"].bytes} \ {Nobody, Alien})
  BY DEF LifecycleStep
<1>3. tree' = tree
  BY DEF LifecycleStep, Write, Unlink
<1>4. /\ file'["hook"].bytes \in {file["hook"].bytes, file["lock"].bytes, Nobody}
      /\ file'["receipt"].bytes \in {file["receipt"].bytes, file["lock"].bytes, Nobody}
  <2>1. PICK c \in Commands : \/ Lifecycle!Enter(c) \/ Lifecycle!Leave(c) \/ Lifecycle!Claim(c)
                              \/ Lifecycle!Enable(c) \/ Lifecycle!Disable(c) \/ Lifecycle!Disclaim(c)
    BY DEF LifecycleStep, Lifecycle!Next
  <2> QED
    BY <2>1 DEF Lifecycle!Enter, Lifecycle!Leave, Lifecycle!Claim, Lifecycle!Enable,
      Lifecycle!Disable,
                Lifecycle!Disclaim
<1>5. Quiet => file'["lock"].bytes # Launch
  <2>1. PICK n \in {"hook", "receipt", "lock"} :
           \/ \E c \in Commands : Write(n, c) /\ (n = "lock" => c \notin spent)
           \/ Unlink(n)
    BY DEF LifecycleStep
  <2>2. CASE n = "lock"
    BY <1>1, <2>1, <2>2 DEF Write, Unlink, NoFile, Quiet
  <2>3. CASE n # "lock"
    BY <1>1, <2>1, <2>3 DEF Write, Unlink, Quiet
  <2> QED
    BY <2>2, <2>3
<1> QED
  BY <1>1, <1>2, <1>3, <1>4, <1>5 DEF LaunchMoves, LaunchIsSpent, Quiet

LEMMA OthersMoveLaunch ==
    ASSUME Read1, NobodyForges, Reader = "claude_invocation", LaunchIsSpent,
           LifecycleStep \/ StagingStep \/ ForeignStep, UNCHANGED scenario
    PROVE  LaunchMoves
<1>1. /\ Launch \in Commands /\ Launch \notin {Nobody, Alien} /\ {"hook", "receipt", "lock"} \subseteq Names
      /\ file \in [Names -> Files] /\ tree \in Nat /\ now \in Nat /\ scenario \in Scenarios
  BY ScenarioIs, NamesAre DEF Read1, IInv, Typed, FilesPast, OthersType
<1>2. CASE LifecycleStep
  BY <1>2, LifecycleMovesLaunch
<1>3. CASE StagingStep
  BY <1>1, <1>3, OrderIs, ScenarioIs DEF StagingStep
<1>4. CASE ForeignStep
  <2>1. spent' = spent /\ (tree # 0 => tree' # 0)
    BY <1>1, <1>4, OthersMove DEF ForeignStep, Moves
  <2>2. Launch \notin scenario.writes
    BY <1>1 DEF NobodyForges, Reader, Launch
  <2>3. ASSUME NEW m \in {"hook", "receipt", "lock"}
        PROVE  file'[m].bytes = Launch => file[m].bytes = Launch
    <3>1. CASE \E n \in Names, b \in scenario.writes : Write(n, b)
      BY <1>1, <2>2, <3>1 DEF Write
    <3>2. CASE \E n \in Names, b \in scenario.writes : Edit(n, b)
      <4>1. PICK n \in Names, b \in scenario.writes : Edit(n, b)
        BY <3>2
      <4>2. n = m => file'[m].bytes = b
        BY <1>1, <4>1 DEF Edit, Files
      <4>3. n # m => file'[m] = file[m]
        BY <1>1, <4>1 DEF Edit
      <4> QED
        BY <2>2, <4>2, <4>3
    <3>3. CASE \E n \in Names : Unlink(n)
      BY <1>1, <3>3 DEF Unlink, NoFile
    <3>4. CASE \E kept : Swap(kept)
      <4>1. file'[m] \in {NoFile, [bytes |-> file[m].bytes, ino |-> now + 1, stamp |-> now + 1]}
        BY <1>1, <3>4 DEF Swap
      <4> QED
        BY <1>1, <4>1 DEF NoFile
    <3>5. Reads \cup wanted \subseteq Names
      BY <1>1, OrderIs, ScenarioIs, NamesAre DEF Read1, IInv, Typed, AuthorityTypeOK, Documents
    <3> QED
      BY <1>4, <3>1, <3>2, <3>3, <3>4, <3>5 DEF ForeignStep
  <2> QED
    BY <2>1, <2>3 DEF LaunchMoves, LaunchIsSpent, Quiet
<1> QED
  BY <1>2, <1>3, <1>4

LEMMA ReadsAre ==
    ASSUME Read1
    PROVE  /\ Reads \subseteq Names /\ {"hook", "receipt", "lock", "config"} \subseteq Names
           /\ Launch \in Commands /\ Launch # Nobody
           /\ Reader \in Readers
           /\ ~Authority => {"hook", "receipt", "lock"} \subseteq Reads
           /\ Reader \in Statuses \cup Invocations => ~Authority
           /\ Reader # "claude_status" => "rules" \notin Reads /\ "staging" \notin Reads
           /\ \A n \in Reads : Turn(n) /\ n # "hook" => step["hook"] = "done"
           /\ now \in Nat /\ pass \in {1, 2}
           /\ \A n \in Names : seen[1][n] \in Seen /\ seen[2][n] \in Seen
<1>1. scenario \in Scenarios
  BY DEF Read1, IInv, Typed
<1>2. Reads \subseteq Names
  BY <1>1, OrderIs, ScenarioIs, NamesAre
<1>3. now \in Nat /\ pass \in {1, 2} /\ \A n \in Names : seen[1][n] \in Seen /\ seen[2][n] \in Seen
  BY DEF Read1, IInv, Typed, FilesPast, ReadingType
<1> QED
  BY <1>1, <1>2, <1>3, OrderIs, ScenarioIs, NamesAre DEF Authority, Statuses, Invocations

LEMMA FreshIs ==
    /\ \A p \in {1, 2}, n \in Names : Fresh.seen[p][n] = Unread
    /\ \A n \in Names : Fresh.step[n] = "done"
    /\ \A n \in Names : Fresh.local[n] = [bytes |-> Nobody, parent |-> 0, ino |-> 0, stamp |-> 0]
    /\ Unread.state = "unread" /\ Unread.bytes = Nobody /\ Unread.parent = 0 /\ Unread.stamp = 0
  BY DEF Fresh, Unread

\* Nothing is found before the reader turns to the files.
LEMMA FoundOnceStarted == ASSUME Read1, RInv, FirstFound PROVE Started
<1>1. pass \in {1, 2} /\ "hook" \in Names /\ Launch # Nobody
  BY ReadsAre
<1>2. ASSUME phase = "begin", pass = 1 PROVE FALSE
  <2>1. seen[1]["hook"] = Unread
    BY <1>1, <1>2 DEF RInv, FlowInv
  <2> QED
    BY <1>1, <2>1, FreshIs DEF FirstFound
<1> QED
  BY <1>1, <1>2 DEF Started

\* What was so since then is remembered.
Carried == witness' = ((witness /\ Started) \/ InstalledNow')

LEMMA MovesKeepBytes ==
    ASSUME BytesInv, NobodyForges /\ Reader = "claude_invocation" => LaunchMoves, FirstFound /\ witness => witness',
           UNCHANGED <<reading, scenario, authority>>
    PROVE  BytesInv'
<1> SUFFICES ASSUME NobodyForges, Reader = "claude_invocation" PROVE BytesInv'
  BY SameReader DEF BytesInv
<1>1. /\ phase' = phase /\ pass' = pass /\ step' = step /\ local' = local /\ seen' = seen /\ result' = result
      /\ identity' = identity /\ Launch' = Launch
  BY SameReader DEF reading, authority
<1>2. LaunchMoves
  OBVIOUS
<1>3. \A n \in {"hook", "receipt", "lock"} :
         file'[n].bytes = Launch \/ local[n].bytes = Launch \/ (\E p \in {1, 2} : seen[p][n].bytes = Launch) =>
            Launch \in spent'
  BY <1>2 DEF BytesInv, LaunchMoves
<1>4. ASSUME FirstFound PROVE Quiet'
  BY <1>1, <1>2, <1>4 DEF BytesInv, LaunchMoves, Quiet
<1>5. ASSUME FirstFound
      PROVE  /\ witness => witness'
             /\ tree # 0 => tree' # 0
             /\ file["hook"].bytes # Launch => file'["hook"].bytes # Launch
             /\ file["receipt"].bytes # Launch => file'["receipt"].bytes # Launch
  BY <1>2, <1>5 DEF BytesInv, LaunchMoves
<1>6. FirstFound' <=> FirstFound
  BY <1>1 DEF FirstFound
<1> QED
  BY <1>1, <1>3, <1>4, <1>5, <1>6 DEF BytesInv

\* The steps of the others keep what the reader relies on.
LEMMA OthersKeepReading ==
    ASSUME Read1, RInv, LifecycleStep \/ StagingStep \/ ForeignStep,
           UNCHANGED <<authority, reading, scenario, middle>>, Carried
    PROVE  RInv'
<1>1. Moves /\ Read1'
  BY OthersMove, OthersTyped
<1>2. now' \in Nat /\ now <= now'
  BY <1>1 DEF Moves, Read1, IInv, Typed, FilesPast
<1>3. FlowInv' /\ OrderInv' /\ ResultInv'
  BY <1>2, MovesKeepFlow DEF RInv
<1>4. StatInv'
  BY <1>1, MovesKeepStat DEF RInv
<1>5. RulesInv'
  BY OthersKeepRules DEF RInv
<1>6. BytesInv'
  <2>1. NobodyForges /\ Reader = "claude_invocation" => LaunchIsSpent
    BY DEF RInv, BytesInv, LaunchIsSpent
  <2>2. FirstFound /\ witness => witness'
    BY FoundOnceStarted DEF Carried
  <2> QED
    BY <2>1, <2>2, OthersMoveLaunch, MovesKeepBytes DEF RInv
<1>7. WitnessInv'
  <2>1. Launch' = Launch /\ pass' = pass /\ middle' = middle
    BY SameReader DEF reading
  <2> QED
    BY <2>1 DEF RInv, WitnessInv, Carried, Started
<1> QED
  BY <1>3, <1>4, <1>5, <1>6, <1>7 DEF RInv

-----------------------------------------------------------------------------
(* The steps of the reader.                                                *)

\* Nobody else moves.
Still ==
    /\ UNCHANGED <<fs, scenario, authority, foreign, spent>>
    /\ Carried

LEMMA StillIs ==
    ASSUME Still
    PROVE  /\ file' = file /\ dir' = dir /\ tree' = tree /\ now' = now /\ load' = load /\ identity' = identity
           /\ foreign' = foreign /\ spent' = spent /\ scenario' = scenario
           /\ (Started /\ witness => witness') /\ (InstalledNow' => witness')
           /\ (FirstFound /\ Read1 /\ RInv /\ witness => witness') /\ (phase # "begin" \/ pass = 2 => Started)
           /\ Reader' = Reader /\ Reads' = Reads /\ (ByStat' <=> ByStat) /\ Stamped' = Stamped /\ Launch' = Launch
           /\ (InstalledNow' <=> InstalledNow)
<1>1. /\ file' = file /\ dir' = dir /\ tree' = tree /\ now' = now /\ load' = load /\ identity' = identity
      /\ foreign' = foreign /\ spent' = spent /\ scenario' = scenario
  BY DEF Still, fs, authority
<1>2. InstalledNow' <=> InstalledNow
  BY <1>1 DEF InstalledNow, Present
<1> QED
  BY <1>1, <1>2, SameReader, FoundOnceStarted DEF Still, Carried, Started

LEMMA StatReads == ByStat => {"hook", "receipt", "config", "lock"} \subseteq Reads
<1>1. CASE Reader \in {"codex_status", "codex_invocation"}
  <2>1. Order = <<"hook", "receipt", "config", "lock">>
    BY <1>1 DEF Order, CodexOrder
  <2>2. DOMAIN Order = 1..4 /\ Order[1] = "hook" /\ Order[2] = "receipt" /\ Order[3] = "config" /\ Order[4] = "lock"
    BY <2>1
  <2> QED
    BY <2>2 DEF Reads
<1>2. CASE Reader = "claude_status"
  <2>1. Order = <<"hook", "config", "receipt", "lock", "staging", "rules">>
    BY <1>2 DEF Order, ClaudeOrder
  <2>2. DOMAIN Order = 1..6 /\ Order[1] = "hook" /\ Order[2] = "config" /\ Order[3] = "receipt" /\ Order[4] = "lock"
    BY <2>1
  <2> QED
    BY <2>2 DEF Reads
<1> QED
  BY <1>1, <1>2 DEF ByStat, Statuses

LEMMA InvocationReads == Reader = "claude_invocation" => Reads = {"hook", "receipt", "lock"}
<1> SUFFICES ASSUME Reader = "claude_invocation" PROVE Reads = {"hook", "receipt", "lock"}
  OBVIOUS
<1>1. Order = <<"hook", "receipt", "lock">>
  BY DEF Order, InvocationOrder
<1>2. DOMAIN Order = 1..3 /\ Order[1] = "hook" /\ Order[2] = "receipt" /\ Order[3] = "lock"
  BY <1>1
<1> QED
  BY <1>2 DEF Reads

\* An answer that forgets everything.
LEMMA RefusalKeeps ==
    ASSUME Read1, RInv, Still, NEW res \in {"unsafe", "refused", "cancelled"}, Answer(res),
           pass = 2 => middle' = middle
    PROVE  RInv'
<1>1. /\ phase' = "done" /\ pass' = pass /\ result' = res /\ res # "none" /\ res \notin Accepted
      /\ \A p \in {1, 2}, n \in Names : seen'[p][n] = Unread
      /\ \A n \in Names : local'[n].bytes = Nobody
  BY FreshIs DEF Answer, Accepted
<1>2. now \in Nat /\ pass \in {1, 2} /\ Reads \subseteq Names /\ {"hook", "receipt", "lock", "config"} \subseteq Names
      /\ Launch # Nobody /\ "rules" \in Names /\ (Reader = "claude_invocation" => ~Authority)
  BY ReadsAre, NamesAre DEF Invocations
<1>3. FlowInv'
  BY <1>1, <1>2, StillIs, FreshIs DEF RInv, FlowInv, Going, Accepted
<1>4. OrderInv'
  BY <1>1 DEF OrderInv, Going
<1>5. StatInv'
  <2>1. ASSUME NEW n \in Names PROVE PresentInv(n)' /\ RootedInv(n)' /\ MissingInv(n)' /\ ListedInv(n)'
    <3>1. seen'[1][n].state = "unread" /\ seen'[2][n].state = "unread"
      BY <1>1, FreshIs
    <3> QED
      BY <1>1, <3>1 DEF PresentInv, RootedInv, MissingInv, ListedInv, Going
  <2> QED
    BY <1>2, <2>1, StillIs DEF StatInv, Stamped
<1>6. RulesInv'
  <2>1. seen'[1]["rules"].state = "unread" /\ seen'[2]["rules"].state = "unread"
    BY <1>1, <1>2, FreshIs
  <2> QED
    BY <1>1, <1>2, <2>1, StillIs DEF RInv, RulesInv
<1>7. BytesInv'
  <2>1. \A n \in {"hook", "receipt", "lock"} : local'[n].bytes = Nobody /\ seen'[1][n].bytes = Nobody
                                                /\ seen'[2][n].bytes = Nobody
    BY <1>1, <1>2, FreshIs
  <2>2. ~FirstFound'
    BY <1>2, <2>1, StillIs DEF FirstFound
  <2> QED
    BY <1>1, <1>2, <2>1, <2>2, StillIs DEF RInv, BytesInv
<1>8. WitnessInv'
  BY <1>1, StillIs DEF RInv, WitnessInv
<1>9. ResultInv'
  BY <1>1 DEF ResultInv, Accepted
<1> QED
  BY <1>3, <1>4, <1>5, <1>6, <1>7, <1>8, <1>9 DEF RInv

LEMMA FailureKeeps ==
    ASSUME Read1, RInv, Still, Failed, pass = 2 => middle' = middle
    PROVE  RInv'
  BY RefusalKeeps DEF Failed

\* An answer that keeps what was read.
LEMMA AcceptanceKeeps ==
    ASSUME Read1, RInv, Still, NEW res \in Accepted, Answer(res), phase = "classify", middle' = middle,
           ResultInv'
    PROVE  RInv'
<1>1. /\ phase' = "done" /\ pass' = pass /\ result' = res /\ res # "none" /\ seen' = seen
      /\ \A n \in Names : local'[n].bytes = Nobody
  BY FreshIs DEF Answer, Accepted
<1>2. now \in Nat /\ pass = 2 /\ Reads \subseteq Names /\ {"hook", "receipt", "lock", "config"} \subseteq Names
      /\ Launch # Nobody
  BY ReadsAre DEF RInv, FlowInv
<1>3. FlowInv'
  BY <1>1, <1>2, StillIs DEF RInv, FlowInv, Going
<1>4. OrderInv'
  BY <1>1 DEF OrderInv, Going
<1>5. StatInv'
  <2>1. ASSUME NEW n \in Names
        PROVE  /\ PresentInv(n) => PresentInv(n)'
               /\ RootedInv(n) => RootedInv(n)'
               /\ MissingInv(n) => MissingInv(n)'
               /\ ListedInv(n) => ListedInv(n)'
    BY <1>1, <1>2, StillIs DEF PresentInv, RootedInv, MissingInv, ListedInv, Going, Present
  <2> QED
    BY <1>2, <2>1, StillIs DEF RInv, StatInv, Stamped
<1>6. RulesInv'
  BY <1>1, StillIs DEF RInv, RulesInv
<1>7. BytesInv'
  <2>1. FirstFound' <=> FirstFound
    BY <1>1, StillIs DEF FirstFound
  <2>2. FirstFound /\ NobodyForges /\ Reader = "claude_invocation" => Quiet'
    BY StillIs DEF RInv, BytesInv, Quiet
  <2>3. \A n \in {"hook", "receipt", "lock"} : local'[n].bytes # Launch
    BY <1>1, <1>2
  <2> QED
    BY <1>1, <2>1, <2>2, <2>3, StillIs DEF RInv, BytesInv
<1>8. WitnessInv'
  BY <1>1, StillIs DEF RInv, WitnessInv
<1> QED
  BY <1>3, <1>4, <1>5, <1>6, <1>7, <1>8 DEF RInv

LEMMA ClassifyStatusKeeps ==
    ASSUME Read1, RInv, Still, ClassifyStatus, middle' = middle
    PROVE  RInv'
<1>1. CASE Failed
  BY <1>1, FailureKeeps
<1>2. CASE ~Failed
  <2>1. PICK readiness \in Readiness :
           Answer(IF Ownership = "absent" /\ ~Blocked THEN "installable"
                  ELSE IF Ownership = "owned_exact" /\ readiness = "current" /\ ~Blocked
                  THEN "current" ELSE "attention")
    BY <1>2 DEF ClassifyStatus
  <2>2. PICK res \in {"installable", "current", "attention"} :
           /\ Answer(res)
           /\ res = "installable" => Ownership = "absent" /\ ~Blocked
           /\ res = "current" => Ownership = "owned_exact" /\ ~Blocked
    BY <2>1
  <2>3. phase = "classify" /\ Reader \in Statuses /\ res \in Accepted
    BY <2>2 DEF ClassifyStatus, Accepted
  <2>4. result' = res /\ seen' = seen /\ phase' = "done"
    BY <2>2 DEF Answer
  <2>5. ~Blocked => State("lock") = "absent"
    BY DEF Blocked, Locked
  <2>6. Ownership = "absent" => State("hook") = "absent" /\ State("receipt") = "absent"
    BY DEF Ownership
  <2>7. Ownership = "owned_exact" => BytesOf("hook") = BytesOf("receipt") /\ BytesOf("hook") \in Commands
    BY DEF Ownership, Owned, Legible, BytesOf
  <2>8. ResultInv'
    <3>1. Signature(1)' = Signature(1) /\ Signature(2)' = Signature(2) /\ Signature(1) = Signature(2)
      BY <2>3, <2>4, StillIs DEF Signature, RInv, ResultInv
    <3>2. \A n : State(n)' = State(n) /\ BytesOf(n)' = BytesOf(n)
      BY <2>4 DEF State, BytesOf
    <3> QED
      BY <2>2, <2>3, <2>4, <2>5, <2>6, <2>7, <3>1, <3>2, StillIs DEF ResultInv
  <2> QED
    BY <2>2, <2>3, <2>8, AcceptanceKeeps
<1> QED
  BY <1>1, <1>2

LEMMA VerifyKeeps ==
    ASSUME Read1, RInv, Still, Verify, middle' = middle
    PROVE  RInv'
<1>1. PICK readiness \in Readiness :
         Answer(IF OwnReceipt /\ OwnHook /\ Unlocked /\ readiness = "current" THEN "verified" ELSE "refused")
  BY DEF Verify
<1>2. CASE Answer("refused")
  BY <1>2, RefusalKeeps DEF Verify
<1>3. CASE Answer("verified") /\ OwnReceipt /\ OwnHook /\ Unlocked
  <2>1. phase = "classify" /\ Reader \in Invocations /\ "verified" \in Accepted
    BY DEF Verify, Accepted
  <2>2. result' = "verified" /\ seen' = seen /\ phase' = "done"
    BY <1>3 DEF Answer
  <2>3. Signature(1)' = Signature(1) /\ Signature(2)' = Signature(2) /\ Signature(1) = Signature(2)
    BY <2>1, <2>2, StillIs DEF Signature, RInv, ResultInv
  <2>4. State("lock")' = "absent" /\ identity' = 0 /\ BytesOf("hook")' = Launch' /\ BytesOf("receipt")' = Launch'
    BY <1>3, <2>2, StillIs DEF State, BytesOf, OwnReceipt, OwnHook, Unlocked, Owned, Launch
  <2>5. ResultInv'
    BY <2>1, <2>2, <2>3, <2>4, StillIs DEF ResultInv
  <2> QED
    BY <1>3, <2>1, <2>5, AcceptanceKeeps
<1> QED
  BY <1>1, <1>2, <1>3

\* A pass begins.
LEMMA BeginKeeps ==
    ASSUME Read1, RInv, Still, Begin, middle' = middle
    PROVE  RInv'
<1>1. CASE Failed
  BY <1>1, FailureKeeps
<1>2. CASE ~Failed
  <2>1. /\ phase' \in {"topology", "files"} /\ pass' = pass /\ seen' = seen /\ local' = local /\ result' = result
        /\ phase = "begin" /\ load = "loaded" /\ ~Authority
        /\ \A n \in Names : step'[n] = IF n \in Reads THEN FirstStep(n) ELSE "done"
        /\ \A d \in Dirs : listing'[d] = Unlisted
        /\ root' = [root EXCEPT ![pass] = dir["root"]]
    BY <1>2 DEF Begin
  <2>2. /\ now \in Nat /\ pass \in {1, 2} /\ Reads \subseteq Names /\ {"hook", "receipt", "lock", "config"} \subseteq Names
        /\ {"hook", "receipt", "lock"} \subseteq Reads /\ Launch # Nobody /\ "rules" \in Names
        /\ Home["hook"] = "host" /\ Home["config"] = "host" /\ Home["receipt"] = "agenthawk" /\ Home["rules"] = "info"
        /\ \A n \in Names : Home[n] \in Dirs
        /\ "host" \in Dirs /\ "agenthawk" \in Dirs /\ "root" \in Dirs
    BY <2>1, ReadsAre, NamesAre
  <2>3. /\ \A n \in Names : step'[n] \in {"parent", "entry", "done"}
        /\ step'["hook"] = "parent" /\ step'["receipt"] = "parent" /\ step'["config"] # "entry"
        /\ step'["rules"] \in {"entry", "done"}
        /\ \A n \in Reads : step'[n] = FirstStep(n) /\ FirstStep(n)' = FirstStep(n)
    BY <2>1, <2>2 DEF FirstStep
  <2>4. result = "none" /\ \A n \in Names : seen[pass][n] = Unread
    BY <2>1 DEF RInv, FlowInv
  <2>5. FlowInv'
    BY <2>1, <2>2, <2>3, <2>4, StillIs DEF RInv, FlowInv, Going, Accepted
  <2>6. OrderInv'
    BY <2>1, <2>2, <2>3, <2>4, StillIs DEF OrderInv, Going
  <2>7. StatInv'
    <3>1. ASSUME NEW n \in Names PROVE PresentInv(n) => PresentInv(n)'
      BY <2>1, <2>2, <2>3, <3>1, StillIs DEF PresentInv, Present
    <3>2. ASSUME NEW n \in Names PROVE RootedInv(n) => RootedInv(n)'
      <4>1. pass = 1 => seen[1][n].state = "unread"
        BY <2>4, FreshIs
      <4> QED
        BY <2>1, <2>2, <4>1, StillIs DEF RootedInv
    <3>3. ASSUME NEW n \in {"hook", "receipt"} PROVE MissingInv(n) => MissingInv(n)'
      <4>1. pass = 1 => seen[1][n].state = "unread"
        BY <2>2, <2>4, FreshIs
      <4> QED
        BY <2>1, <2>2, <2>3, <4>1, StillIs DEF MissingInv, Present
    <3>4. ListedInv("config") => ListedInv("config")'
      BY <2>1, <2>2, <2>3, StillIs DEF ListedInv, Present
    <3> QED
      BY <2>2, <3>1, <3>2, <3>3, <3>4, StillIs DEF RInv, StatInv, Stamped
  <2>8. RulesInv'
    BY <2>1, StillIs DEF RInv, RulesInv
  <2>9. BytesInv'
    <3>1. (FirstFound' <=> FirstFound) /\ (Quiet' <=> Quiet)
      BY <2>1, StillIs DEF FirstFound, Quiet
    <3> QED
      BY <2>1, <2>2, <2>3, <2>4, <3>1, StillIs DEF RInv, BytesInv
  <2>10. WitnessInv'
    BY <2>1, StillIs DEF RInv, WitnessInv
  <2>11. ResultInv'
    BY <2>1, <2>4 DEF ResultInv, Accepted
  <2> QED
    BY <2>5, <2>6, <2>7, <2>8, <2>9, <2>10, <2>11 DEF RInv
<1> QED
  BY <1>1, <1>2

LEMMA TopologyKeeps ==
    ASSUME Read1, RInv, Still, Topology, middle' = middle
    PROVE  RInv'
<1>1. CASE Failed
  BY <1>1, FailureKeeps
<1>2. CASE ~Failed
  <2>1. /\ phase = "topology" /\ phase' = "files" /\ pass' = pass /\ step' = step /\ root' = root
        /\ listing' = listing /\ seen' = seen /\ local' = local /\ result' = result
    BY <1>2 DEF Topology
  <2>2. /\ pass \in {1, 2} /\ Reads \subseteq Names /\ {"hook", "receipt", "lock", "config"} \subseteq Names
        /\ Launch # Nobody
        /\ Home["hook"] = "host" /\ Home["config"] = "host" /\ Home["receipt"] = "agenthawk"
    BY ReadsAre, NamesAre
  <2>3. result = "none" /\ (\A n \in Names : seen[pass][n] = Unread) /\ \A n \in Reads : step[n] = FirstStep(n)
    BY <2>1 DEF RInv, FlowInv
  <2>4. \A n \in Reads : step[n] # "final" /\ (n \in {"hook", "receipt", "config"} => step[n] = "parent")
    BY <2>2, <2>3 DEF FirstStep
  <2>5. FlowInv'
    BY <2>1, StillIs DEF RInv, FlowInv, Going, Accepted
  <2>6. OrderInv'
    BY <2>1, StillIs DEF RInv, OrderInv, Going, FirstStep
  <2>7. StatInv'
    <3> SUFFICES ASSUME ByStat PROVE StatInv'
      BY StillIs DEF StatInv
    <3>0. {"hook", "receipt", "config"} \subseteq Reads
      BY StatReads
    <3>1. ASSUME NEW n \in Reads PROVE PresentInv(n) => PresentInv(n)'
      BY <2>1, <2>4, StillIs DEF PresentInv, Present
    <3>2. ASSUME NEW n \in Names PROVE RootedInv(n) => RootedInv(n)'
      BY <2>1, StillIs DEF RootedInv, Going, Present
    <3>3. ASSUME NEW n \in {"hook", "receipt"} PROVE MissingInv(n) => MissingInv(n)'
      BY <2>1, <2>4, <3>0, StillIs DEF MissingInv, Present
    <3>4. ListedInv("config") => ListedInv("config")'
      BY <2>1, <2>4, <3>0, StillIs DEF ListedInv, Present, Going
    <3> QED
      BY <2>2, <3>1, <3>2, <3>3, <3>4, StillIs DEF RInv, StatInv, Stamped
  <2>8. RulesInv'
    BY <2>1, StillIs DEF RInv, RulesInv
  <2>9. BytesInv'
    <3>1. (FirstFound' <=> FirstFound) /\ (Quiet' <=> Quiet)
      BY <2>1, StillIs DEF FirstFound, Quiet
    <3>2. Reader = "claude_invocation" => step["hook"] # "final" /\ step["receipt"] # "final"
      BY <2>4, ReadsAre DEF Invocations
    <3> QED
      BY <2>1, <2>2, <2>3, <3>1, <3>2, StillIs DEF RInv, BytesInv
  <2>10. WitnessInv'
    BY <2>1, StillIs DEF RInv, WitnessInv
  <2>11. ResultInv'
    BY <2>1, <2>3 DEF ResultInv, Accepted
  <2> QED
    BY <2>5, <2>6, <2>7, <2>8, <2>9, <2>10, <2>11 DEF RInv
<1> QED
  BY <1>1, <1>2

\* The first pass ends; the second begins later.
LEMMA FirstPassKeeps ==
    ASSUME Read1, RInv, Still, EndPass, ~Failed, pass = 1, middle' = Contents
    PROVE  RInv'
<1>1. /\ phase = "files" /\ phase' = "begin" /\ pass' = 2 /\ step' = step /\ root' = root /\ listing' = listing
      /\ seen' = seen /\ local' = local /\ result' = result /\ tree = identity
      /\ ByStat => dir["root"] = root[1]
  BY DEF EndPass, AllRead
<1>2. /\ now \in Nat /\ Reads \subseteq Names /\ {"hook", "receipt", "lock", "config"} \subseteq Names
      /\ Launch # Nobody /\ "rules" \in Names
  BY ReadsAre, NamesAre
<1>3. /\ result = "none" /\ load = "loaded" /\ (\A n \in Names : seen[2][n] = Unread)
      /\ \A n \in Names : seen[2][n].state = "unread" /\ seen[2][n].bytes = Nobody
  BY <1>1, FreshIs DEF RInv, FlowInv, Going
<1>4. middle'.tree = tree /\ \A n \in Names : middle'.bytes[n] = file[n].bytes
  BY DEF Contents
<1>5. FlowInv'
  BY <1>1, <1>3, <1>4, StillIs DEF RInv, FlowInv, Going, Accepted
<1>6. OrderInv'
  BY <1>1 DEF OrderInv, Going
<1>7. StatInv'
  <2> SUFFICES ASSUME ByStat PROVE StatInv'
    BY StillIs DEF StatInv
  <2>1. ASSUME NEW n \in Names PROVE PresentInv(n)'
    BY <1>1, <1>3, <1>4, StillIs DEF PresentInv, Present
  <2>2. ASSUME NEW n \in Names, RootedInv(n) PROVE RootedInv(n)'
    <3>1. dir["root"] <= root[1]
      BY <1>1, <2>2, StampsArePast
    <3> QED
      BY <1>1, <1>4, <2>2, <3>1, StillIs DEF RootedInv, Going, Present
  <2>3. ASSUME NEW n \in Names, MissingInv(n) PROVE MissingInv(n)'
    BY <1>1, <1>3, <1>4, <2>3, StillIs DEF MissingInv, Present
  <2>4. ListedInv("config")'
    BY <1>1, <1>2, <1>3, <1>4, StillIs DEF ListedInv, Present, Going
  <2> QED
    BY <1>2, <2>1, <2>2, <2>3, <2>4, StillIs DEF RInv, StatInv, Stamped
<1>8. RulesInv'
  BY <1>1, <1>2, <1>3, <1>4, StillIs DEF RInv, RulesInv
<1>9. BytesInv'
  <2>1. (FirstFound' <=> FirstFound) /\ (Quiet' <=> Quiet)
    BY <1>1, StillIs DEF FirstFound, Quiet
  <2> QED
    BY <1>1, <1>2, <1>3, <2>1, StillIs DEF RInv, BytesInv
<1>10. WitnessInv'
  BY <1>2, <1>4, StillIs DEF WitnessInv, InstalledNow, Present, Launch
<1>11. ResultInv'
  BY <1>1, <1>3 DEF ResultInv, Accepted
<1> QED
  BY <1>5, <1>6, <1>7, <1>8, <1>9, <1>10, <1>11 DEF RInv

\* The second pass ends, and the two are compared.
LEMMA ComparisonKeeps ==
    ASSUME Read1, RInv, Still, ~Failed, middle' = middle, Compare \/ (EndPass /\ pass = 2)
    PROVE  RInv'
<1>1. /\ pass' = pass /\ pass = 2 /\ step' = step /\ root' = root /\ listing' = listing
      /\ seen' = seen /\ local' = local /\ result' = result
      /\ \/ phase = "files" /\ phase' = "compare" /\ tree = identity
         \/ phase = "compare" /\ phase' = "classify" /\ Signature(1) = Signature(2)
  BY DEF Compare, EndPass, AllRead, Agrees, RInv, FlowInv
<1>2. /\ Reads \subseteq Names /\ {"hook", "receipt", "lock", "config"} \subseteq Names
  BY ReadsAre
<1>3. result = "none" /\ load = "loaded"
  BY <1>1 DEF RInv, FlowInv
<1>4. FlowInv'
  BY <1>1, <1>3, StillIs DEF RInv, FlowInv, Going, Accepted
<1>5. OrderInv'
  BY <1>1 DEF OrderInv, Going
<1>6. StatInv'
  <2>1. ASSUME NEW n \in Names
        PROVE  /\ PresentInv(n) => PresentInv(n)'
               /\ RootedInv(n) => RootedInv(n)'
               /\ MissingInv(n) => MissingInv(n)'
               /\ ListedInv(n) => ListedInv(n)'
    BY <1>1, StillIs DEF PresentInv, RootedInv, MissingInv, ListedInv, Going, Present
  <2> QED
    BY <1>2, <2>1, StillIs DEF RInv, StatInv, Stamped
<1>7. RulesInv'
  BY <1>1, StillIs DEF RInv, RulesInv
<1>8. BytesInv'
  <2>1. (FirstFound' <=> FirstFound) /\ (Quiet' <=> Quiet)
    BY <1>1, StillIs DEF FirstFound, Quiet
  <2> QED
    BY <1>1, <1>3, <2>1, StillIs DEF RInv, BytesInv
<1>9. WitnessInv'
  BY <1>1, StillIs DEF RInv, WitnessInv
<1>10. ResultInv'
  <2>1. phase' = "classify" => Signature(1)' = Signature(2)'
    BY <1>1, StillIs DEF Signature
  <2> QED
    BY <1>1, <1>3, <2>1 DEF ResultInv, Accepted
<1> QED
  BY <1>4, <1>5, <1>6, <1>7, <1>8, <1>9, <1>10 DEF RInv

\* What a pass makes of a file it has found, or cannot read.
Sound(n, o) ==
    /\ o.state \in {"unsafe", "unread", "absent"} => o.bytes = Nobody
    /\ o.stamp <= now /\ o.parent <= now
    /\ o.state = "absent" => n = "rules"
    /\ n = "hook" => step[n] \notin {"parent", "entry"}
    /\ ByStat /\ n # "rules" /\ pass = 2 /\ seen[1][n].state = "present" /\ o.state = "present"
          /\ o.stamp = seen[1][n].stamp => o.bytes = middle.bytes[n]
    /\ n = "rules" /\ o.state \in {"present", "absent"} => o.bytes = file["rules"].bytes
    /\ Reader = "claude_invocation" => o.state = "present" /\ o.bytes = local[n].bytes /\ step[n] = "final"

LEMMA ConclusionKeeps ==
    ASSUME Read1, RInv, Still, middle' = middle, NEW n \in Reads, phase = "files", Turn(n), step[n] # "done",
           NEW o \in Seen, Conclude(n, o), Sound(n, o)
    PROVE  RInv'
<1>1. /\ n \in Names /\ now \in Nat /\ pass \in {1, 2} /\ Reads \subseteq Names
      /\ {"hook", "receipt", "lock", "config"} \subseteq Names /\ "rules" \in Names
      /\ Launch # Nobody /\ Home["hook"] = "host" /\ Home["receipt"] = "agenthawk" /\ Home["rules"] = "info"
  BY ReadsAre, NamesAre
<1>2. /\ phase' = phase /\ pass' = pass /\ root' = root /\ listing' = listing /\ local' = local /\ result' = result
  BY DEF Conclude
<1>3. \A p \in {1, 2}, m \in Names : seen'[p][m] = IF p = pass /\ m = n THEN o ELSE seen[p][m]
  BY <1>1 DEF Conclude, Read1, ReadingType
<1>4. \A m \in Names : step'[m] = IF m = n THEN "done" ELSE step[m]
  BY DEF Conclude, Proceed, Read1, ReadingType
<1>5. result = "none" /\ load = "loaded"
  BY DEF RInv, FlowInv, Going
<1>6. step'["hook"] = "done" /\ (n # "hook" => step["hook"] = "done")
  BY <1>1, <1>4, ReadsAre
<1>7. FlowInv'
  BY <1>1, <1>2, <1>3, <1>5, StillIs DEF Sound, RInv, FlowInv, Going, Accepted
<1>8. OrderInv'
  BY <1>1, <1>2, <1>4, <1>6, StillIs DEF Sound, RInv, OrderInv, Going
<1>9. StatInv'
  <2> SUFFICES ASSUME ByStat PROVE StatInv'
    BY StillIs DEF StatInv
  <2>1. ASSUME NEW m \in Stamped, PresentInv(m) PROVE PresentInv(m)'
    <3>1. m \in Names /\ m # "rules"
      BY <1>1 DEF Stamped
    <3>2. CASE m = n
      BY <1>1, <1>2, <1>3, <1>4, <2>1, <3>1, <3>2, StillIs DEF Sound, PresentInv, Present
    <3>3. CASE m # n
      BY <1>1, <1>2, <1>3, <1>4, <2>1, <3>1, <3>3, StillIs DEF PresentInv, Present
    <3> QED
      BY <3>2, <3>3
  <2>2. ASSUME NEW m \in Names, Home[m] = "root", RootedInv(m) PROVE RootedInv(m)'
    <3>1. m # "rules" /\ (m = n => o.state # "absent")
      BY <1>1, <2>2 DEF Sound
    <3> QED
      BY <1>1, <1>2, <1>3, <2>2, <3>1, StillIs DEF RootedInv, Going, Present
  <2>3. ASSUME NEW m \in {"hook", "receipt"}, MissingInv(m) PROVE MissingInv(m)'
    <3>1. m \in Names /\ (m = n => o.state # "absent")
      BY <1>1 DEF Sound
    <3> QED
      BY <1>1, <1>2, <1>3, <1>4, <2>3, <3>1, StillIs DEF MissingInv, Present
  <2>4. ASSUME ListedInv("config") PROVE ListedInv("config")'
    <3>1. "config" = n => o.state # "absent"
      BY <1>1 DEF Sound
    <3> QED
      BY <1>1, <1>2, <1>3, <1>4, <2>4, <3>1, StillIs DEF ListedInv, Present, Going
  <2> QED
    BY <1>1, <2>1, <2>2, <2>3, <2>4, StillIs DEF RInv, StatInv, Stamped
<1>10. RulesInv'
  <2>1. CASE n # "rules"
    <3>1. seen'[1]["rules"] = seen[1]["rules"] /\ seen'[2]["rules"] = seen[2]["rules"]
      BY <1>1, <1>3, <2>1
    <3> QED
      BY <1>2, <3>1, StillIs DEF RInv, RulesInv
  <2>2. CASE n = "rules" /\ pass = 1
    <3>1. seen'[1]["rules"] = o /\ seen'[2]["rules"].state = "unread"
      BY <1>1, <1>3, <2>2, FreshIs DEF RInv, FlowInv
    <3> QED
      BY <1>2, <2>2, <3>1, StillIs DEF Sound, RInv, RulesInv
  <2>3. CASE n = "rules" /\ pass = 2
    <3>1. seen'[1]["rules"] = seen[1]["rules"] /\ seen'[2]["rules"] = o
      BY <1>1, <1>3, <2>3
    <3> QED
      BY <1>2, <2>3, <3>1, StillIs DEF Sound, RInv, RulesInv
  <2> QED
    BY <1>1, <2>1, <2>2, <2>3
<1>11. BytesInv'
  <2> SUFFICES ASSUME NobodyForges, Reader = "claude_invocation" PROVE BytesInv'
    BY StillIs DEF BytesInv
  <2>1. o.state = "present" /\ o.bytes = local[n].bytes /\ step[n] = "final"
    BY DEF Sound
  <2>2. n \in {"hook", "receipt", "lock"}
    BY InvocationReads
  <2>3. n = "hook" => /\ seen[pass]["lock"].state = "unread" /\ seen[pass]["receipt"].bytes = Nobody
                      /\ step["receipt"] # "final"
    <3>1. {"hook", "receipt", "lock"} \subseteq Reads
      BY ReadsAre DEF Invocations
    <3> QED
      BY <1>1, <3>1, FreshIs DEF RInv, OrderInv, Going, FirstStep
  <2>4. FirstFound' => FirstFound
    BY <1>1, <1>3, <2>1, <2>3, StillIs DEF FirstFound
  <2>5. Quiet' <=> Quiet
    BY StillIs DEF Quiet
  <2>6. \A m \in {"hook", "receipt", "lock"} :
           file'[m].bytes = Launch \/ local'[m].bytes = Launch \/ (\E p \in {1, 2} : seen'[p][m].bytes = Launch) =>
              Launch \in spent'
    BY <1>1, <1>2, <1>3, <2>1, StillIs DEF RInv, BytesInv
  <2>7. ASSUME FirstFound PROVE seen'[2]["hook"].bytes = Launch => witness \/ tree # 0 \/ file["receipt"].bytes # Launch
    BY <1>1, <1>3, <2>1, <2>7 DEF RInv, BytesInv
  <2>8. ASSUME FirstFound
        PROVE  pass = 2 /\ step'["receipt"] = "final" /\ local["receipt"].bytes = Launch
                  /\ seen'[2]["hook"].bytes = Launch => witness \/ tree # 0
    <3>1. CASE n = "hook"
      BY <1>1, <1>4, <2>3, <3>1
    <3>2. CASE n # "hook"
      BY <1>1, <1>3, <1>4, <2>8, <3>2 DEF RInv, BytesInv
    <3> QED
      BY <3>1, <3>2
  <2>9. ASSUME FirstFound
        PROVE  seen'[2]["hook"].bytes = Launch /\ seen'[2]["receipt"].bytes = Launch => witness \/ tree # 0
    <3>1. CASE pass = 2 /\ n = "hook"
      BY <1>1, <1>3, <2>3, <3>1
    <3>2. CASE pass = 2 /\ n = "receipt"
      BY <1>1, <1>3, <2>1, <2>9, <3>2 DEF RInv, BytesInv
    <3>3. CASE pass # 2 \/ n \notin {"hook", "receipt"}
      BY <1>1, <1>3, <2>9, <3>3 DEF RInv, BytesInv
    <3> QED
      BY <3>1, <3>2, <3>3
  <2>10. FirstFound /\ pass = 2 /\ step'["hook"] = "final" /\ local["hook"].bytes = Launch =>
            witness \/ tree # 0 \/ file["receipt"].bytes # Launch
    BY <1>6
  <2> QED
    BY <1>1, <1>2, <1>5, <2>4, <2>5, <2>6, <2>7, <2>8, <2>9, <2>10, StillIs DEF RInv, BytesInv
<1>12. WitnessInv'
  BY <1>2, StillIs DEF RInv, WitnessInv
<1>13. ResultInv'
  BY <1>2, <1>5 DEF ResultInv, Accepted
<1> QED
  BY <1>7, <1>8, <1>9, <1>10, <1>11, <1>12, <1>13 DEF RInv

LEMMA TroubleKeeps ==
    ASSUME Read1, RInv, Still, middle' = middle, NEW n \in Reads, NEW s \in {"inspect", "read", "final"}, At(n, s), Trouble(n)
    PROVE  RInv'
<1>1. CASE Failed
  BY <1>1, FailureKeeps
<1>2. CASE Reader = "claude_status" /\ Conclude(n, Unsafe)
  <2>1. Unsafe.state = "unsafe" /\ Unsafe.bytes = Nobody /\ Unsafe.stamp = 0 /\ Unsafe.parent = 0
    BY DEF Unsafe, Unread
  <2>2. Unsafe \in Seen
    BY <2>1, ReportsAre DEF Bytes
  <2>3. now \in Nat /\ phase = "files" /\ Turn(n) /\ step[n] = s
    BY ReadsAre DEF At
  <2>4. Sound(n, Unsafe)
    BY <1>2, <2>1, <2>3 DEF Sound
  <2> QED
    BY <1>2, <2>2, <2>3, <2>4, ConclusionKeeps
<1> QED
  BY <1>1, <1>2 DEF Trouble

LEMMA NotSoughtKeeps ==
    ASSUME Read1, RInv, Still, middle' = middle, NotSought
    PROVE  RInv'
<1>1. PICK n \in Reads : At(n, "entry") /\ ~Sought(n) /\ Conclude(n, Unread)
  BY DEF NotSought
<1>2. n = "staging" /\ phase = "files" /\ Turn(n) /\ step[n] # "done" /\ Reader # "claude_invocation"
  BY <1>1, ReadsAre DEF Sought, At
<1>3. Sound(n, Unread) /\ Unread \in Seen
  <2>1. Unread \in Seen /\ now \in Nat
    BY ReportsAre, ReadsAre DEF Bytes
  <2> QED
    BY <1>2, <2>1, FreshIs DEF Sound
<1> QED
  BY <1>1, <1>2, <1>3, ConclusionKeeps

LEMMA CheckIgnoreKeeps ==
    ASSUME Read1, RInv, Still, middle' = middle, CheckIgnore
    PROVE  RInv'
<1>1. /\ "rules" \in Reads /\ phase = "files" /\ Turn("rules") /\ step["rules"] # "done"
      /\ "rules" \in Names /\ Reader # "claude_invocation" /\ now \in Nat
  BY ReadsAre, NamesAre DEF CheckIgnore, At
<1>2. file["rules"].bytes \in Bytes
  BY <1>1, StampsArePast
<1>3. CASE Conclude("rules", Unsafe)
  <2>1. Unsafe.state = "unsafe" /\ Unsafe.bytes = Nobody /\ Unsafe.stamp = 0 /\ Unsafe.parent = 0
    BY DEF Unsafe, Unread
  <2>2. Unsafe \in Seen
    BY <1>1, <1>2, ReportsAre
  <2>3. Sound("rules", Unsafe)
    BY <1>1, <2>1 DEF Sound
  <2> QED
    BY <1>1, <1>3, <2>2, <2>3, ConclusionKeeps
<1>4. ASSUME NEW s \in {"absent", "present"}, s = "absent" => file["rules"].bytes = Nobody,
             Conclude("rules", [Unread EXCEPT !.state = s, !.bytes = file["rules"].bytes])
      PROVE  RInv'
  <2> DEFINE o == [Unread EXCEPT !.state = s, !.bytes = file["rules"].bytes]
  <2>1. o.state = s /\ o.bytes = file["rules"].bytes /\ o.stamp = 0 /\ o.parent = 0
    BY DEF Unread
  <2>2. o \in Seen /\ Conclude("rules", o)
    BY <1>1, <1>2, <1>4, ReportsAre
  <2> HIDE DEF o
  <2>3. Sound("rules", o)
    BY <1>1, <1>4, <2>1 DEF Sound
  <2> QED
    BY <1>1, <2>2, <2>3, ConclusionKeeps
<1>5. CASE Present("rules") /\ Conclude("rules", [Unread EXCEPT !.state = "present", !.bytes = file["rules"].bytes])
  BY <1>4, <1>5
<1>6. CASE ~Present("rules") /\ Conclude("rules", [Unread EXCEPT !.state = "absent", !.bytes = file["rules"].bytes])
  BY <1>4, <1>6 DEF Present
<1> QED
  BY <1>3, <1>5, <1>6 DEF CheckIgnore

LEMMA InspectStagingKeeps ==
    ASSUME Read1, RInv, Still, middle' = middle, InspectStaging
    PROVE  RInv'
<1>1. /\ "staging" \in Reads /\ phase = "files" /\ Turn("staging") /\ step["staging"] # "done"
      /\ "staging" \in Names /\ Reader # "claude_invocation" /\ now \in Nat /\ "staging" # "rules"
  BY ReadsAre, NamesAre DEF InspectStaging, At
<1>2. CASE Trouble("staging")
  BY <1>1, <1>2, TroubleKeeps DEF InspectStaging
<1>3. CASE ~Trouble("staging")
  <2> DEFINE o == [Unread EXCEPT !.state = "present", !.bytes = file["staging"].bytes,
                                 !.ino = file["staging"].ino, !.stamp = file["staging"].stamp]
  <2>1. Present("staging") /\ Conclude("staging", o)
    BY <1>3 DEF InspectStaging
  <2>2. file["staging"] \in Files /\ file["staging"].stamp <= now
    BY <1>1 DEF Read1, IInv, Typed, FilesPast
  <2>3. o \in Seen
    <3>1. file["staging"].bytes \in Bytes /\ file["staging"].ino \in Nat /\ file["staging"].stamp \in Nat
      BY <2>2 DEF Files
    <3> QED
      BY <3>1, ReportsAre
  <2>4. o.state = "present" /\ o.bytes = file["staging"].bytes /\ o.stamp = file["staging"].stamp /\ o.parent = 0
    BY DEF Unread
  <2> HIDE DEF o
  <2>5. ByStat => PresentInv("staging")
    BY <1>1 DEF RInv, StatInv, Stamped
  <2>6. o.stamp = seen[1]["staging"].stamp => file["staging"].stamp <= seen[1]["staging"].stamp
    BY <1>1, <2>4, StampsArePast
  <2>7. Sound("staging", o)
    BY <1>1, <2>1, <2>2, <2>4, <2>5, <2>6 DEF Sound, PresentInv
  <2> QED
    BY <1>1, <2>1, <2>3, <2>7, ConclusionKeeps
<1> QED
  BY <1>2, <1>3

LEMMA FinalKeeps ==
    ASSUME Read1, RInv, Still, middle' = middle, NEW n \in Reads, Final(n)
    PROVE  RInv'
<1>1. /\ phase = "files" /\ Turn(n) /\ step[n] = "final" /\ n \in Names /\ now \in Nat /\ At(n, "final")
      /\ Reader # "claude_status" => n # "rules"
  BY ReadsAre DEF Final, At
<1>2. n # "rules"
  BY <1>1 DEF RInv, OrderInv, Going
<1>3. CASE Trouble(n)
  BY <1>1, <1>3, TroubleKeeps
<1>4. CASE ~Trouble(n)
  <2>1. PICK b \in BytesRead(n) :
           /\ Same(n)
           /\ Conclude(n, [state |-> "present", bytes |-> b, parent |-> local[n].parent,
                           ino |-> file[n].ino, stamp |-> file[n].stamp])
    BY <1>4 DEF Final
  <2> DEFINE o == [state |-> "present", bytes |-> b, parent |-> local[n].parent,
                   ino |-> file[n].ino, stamp |-> file[n].stamp]
  <2>2. /\ local[n].parent \in 0..now /\ local[n].stamp \in 0..now /\ file[n].stamp \in 0..now
        /\ file[n] \in Files /\ local[n].bytes \in Bytes
    BY <1>1, StampsArePast DEF Read1, ReadingType
  <2>3. o \in Seen
    <3>1. b \in Bytes /\ file[n].ino \in Nat /\ file[n].stamp \in Nat /\ local[n].parent \in Nat
      BY <1>1, <2>2 DEF BytesRead, Bytes, Files
    <3> QED
      BY <3>1 DEF Seen
  <2>4. o.state = "present" /\ o.bytes = b /\ o.stamp = file[n].stamp /\ o.parent = local[n].parent /\ Conclude(n, o)
    BY <2>1
  <2> HIDE DEF o
  <2>5. Present(n) /\ (SameTimes(n) => b = local[n].bytes) /\ (SameTimes(n) <=> file[n].stamp = local[n].stamp)
        /\ (Reader = "claude_invocation" => SameTimes(n))
    BY <2>1 DEF Same, SameInode, SameTimes, BytesRead
  <2>6. ByStat => PresentInv(n)
    BY <1>2 DEF RInv, StatInv, Stamped
  <2>7. ASSUME ByStat, pass = 2, seen[1][n].state = "present", o.stamp = seen[1][n].stamp
        PROVE  o.bytes = middle.bytes[n]
    <3>1. seen[1][n].stamp = file[n].stamp /\ file[n].stamp \in Nat
      BY <1>1, <2>4, <2>7, StampsArePast
    <3>2. ~(file[n].stamp > seen[1][n].stamp)
      BY <3>1
    <3>3. file[n].stamp = local[n].stamp
      BY <1>1, <2>5, <2>6, <2>7, <3>2 DEF PresentInv
    <3>4. local[n].stamp <= seen[1][n].stamp
      BY <3>1, <3>3
    <3> QED
      BY <1>1, <2>4, <2>5, <2>6, <2>7, <3>3, <3>4 DEF PresentInv
  <2>8. Sound(n, o)
    BY <1>1, <1>2, <2>2, <2>4, <2>5, <2>7 DEF Sound
  <2> QED
    BY <1>1, <2>3, <2>4, <2>8, ConclusionKeeps
<1> QED
  BY <1>3, <1>4

\* A file is found, opened and read.
LEMMA LookKeeps ==
    ASSUME Read1, RInv, Still, middle' = middle, NEW n \in Reads, Inspect(n) \/ Read(n)
    PROVE  RInv'
<1>1. /\ phase = "files" /\ Turn(n) /\ step[n] \in {"inspect", "read"} /\ n \in Names /\ now \in Nat
      /\ At(n, step[n]) /\ pass \in {1, 2} /\ Reads \subseteq Names
      /\ {"hook", "receipt", "lock", "config"} \subseteq Names /\ "rules" \in Names /\ Launch # Nobody
      /\ Home["hook"] = "host" /\ Home["receipt"] = "agenthawk"
  BY ReadsAre, NamesAre DEF Inspect, Read, At
<1>2. CASE Trouble(n)
  BY <1>1, <1>2, TroubleKeeps
<1>3. CASE ~Trouble(n)
  <2>1. /\ phase' = phase /\ pass' = pass /\ root' = root /\ listing' = listing /\ seen' = seen /\ result' = result
    BY <1>3 DEF Inspect, Read
  <2>2. PICK s \in {"read", "final"} : Proceed(n, s)
    BY <1>3 DEF Inspect, Read
  <2>3. \A m \in Names : step'[m] = IF m = n THEN s ELSE step[m]
    BY <2>2 DEF Proceed, Read1, ReadingType
  <2>4. local[n] \in [bytes : Bytes, parent : 0..now, ino : 0..now, stamp : 0..now]
    BY <1>1 DEF Read1, ReadingType
  <2>5. /\ \A m \in Names : m # n => local'[m] = local[m]
        /\ local'[n].parent = local[n].parent
        /\ local'[n].bytes \in {local[n].bytes, file[n].bytes}
        /\ s = "final" => Present(n) /\ local'[n].bytes = file[n].bytes /\ local'[n].stamp = file[n].stamp
    <3>1. CASE local' = [local EXCEPT ![n].ino = file[n].ino, ![n].stamp = file[n].stamp] /\ s = "read"
      <4>1. local'[n] = [local[n] EXCEPT !.ino = file[n].ino, !.stamp = file[n].stamp]
        BY <1>1, <3>1 DEF Read1, ReadingType
      <4> QED
        BY <1>1, <2>4, <3>1, <4>1 DEF Read1, ReadingType
    <3>2. CASE local' = [local EXCEPT ![n].bytes = file[n].bytes, ![n].stamp = file[n].stamp] /\ s = "final" /\ Present(n)
      <4>1. local'[n] = [local[n] EXCEPT !.bytes = file[n].bytes, !.stamp = file[n].stamp]
        BY <1>1, <3>2 DEF Read1, ReadingType
      <4> QED
        BY <1>1, <2>4, <3>2, <4>1 DEF Read1, ReadingType
    <3>3. Inspect(n) => local' = [local EXCEPT ![n].ino = file[n].ino, ![n].stamp = file[n].stamp] /\ step'[n] = "read"
      BY <1>1, <1>3 DEF Inspect, Proceed, Read1, ReadingType
    <3>4. Read(n) => /\ local' = [local EXCEPT ![n].bytes = file[n].bytes, ![n].stamp = file[n].stamp]
                     /\ step'[n] = "final" /\ Present(n)
      BY <1>1, <1>3 DEF Read, Proceed, Read1, ReadingType, Same, SameInode
    <3> QED
      BY <1>1, <2>3, <3>1, <3>2, <3>3, <3>4
  <2>6. result = "none" /\ load = "loaded" /\ (n # "hook" => step["hook"] = "done") /\ n # "rules"
    BY <1>1, ReadsAre DEF RInv, FlowInv, OrderInv, Going
  <2>7. FlowInv'
    BY <1>1, <2>1, <2>6, StillIs DEF RInv, FlowInv, Going, Accepted
  <2>8. OrderInv'
    BY <1>1, <2>1, <2>3, <2>6, StillIs DEF RInv, OrderInv, Going, FirstStep
  <2>9. StatInv'
    <3> SUFFICES ASSUME ByStat PROVE StatInv'
      BY StillIs DEF StatInv
    <3>1. ASSUME NEW m \in Names, PresentInv(m) PROVE PresentInv(m)'
      <4>1. CASE m = n
        <5>1. file[n].stamp \in Nat /\ seen[1][n].stamp \in Nat
          BY <1>1, StampsArePast
        <5> QED
          BY <1>1, <2>1, <2>3, <2>5, <3>1, <4>1, <5>1, StillIs DEF PresentInv, Present
      <4>2. CASE m # n
        BY <1>1, <2>1, <2>3, <2>5, <3>1, <4>2, StillIs DEF PresentInv, Present
      <4> QED
        BY <4>1, <4>2
    <3>2. ASSUME NEW m \in Names, RootedInv(m) PROVE RootedInv(m)'
      BY <2>1, <3>2, StillIs DEF RootedInv, Going, Present
    <3>3. ASSUME NEW m \in Names, MissingInv(m) PROVE MissingInv(m)'
      BY <1>1, <2>1, <2>3, <2>5, <3>3, StillIs DEF MissingInv, Present
    <3>4. ListedInv("config") => ListedInv("config")'
      BY <1>1, <2>1, <2>3, <2>5, StillIs DEF ListedInv, Going, Present
    <3> QED
      BY <1>1, <3>1, <3>2, <3>3, <3>4, StillIs DEF RInv, StatInv, Stamped
  <2>10. RulesInv'
    BY <2>1, StillIs DEF RInv, RulesInv
  <2>11. BytesInv'
    <3> SUFFICES ASSUME NobodyForges, Reader = "claude_invocation" PROVE BytesInv'
      BY StillIs DEF BytesInv
    <3>1. (FirstFound' <=> FirstFound) /\ (Quiet' <=> Quiet)
      BY <2>1, StillIs DEF FirstFound, Quiet
    <3>2. \A m \in {"hook", "receipt", "lock"} :
             file'[m].bytes = Launch \/ local'[m].bytes = Launch \/ (\E p \in {1, 2} : seen'[p][m].bytes = Launch) =>
                Launch \in spent'
      BY <1>1, <2>1, <2>5, StillIs DEF RInv, BytesInv
    <3>3. FirstFound /\ pass = 2 /\ step'["hook"] = "final" /\ local'["hook"].bytes = Launch =>
             witness \/ tree # 0 \/ file["receipt"].bytes # Launch
      <4>1. CASE n = "hook"
        BY <1>1, <2>3, <2>5, <4>1 DEF RInv, BytesInv
      <4>2. CASE n # "hook"
        BY <1>1, <2>3, <2>5, <4>2 DEF RInv, BytesInv
      <4> QED
        BY <4>1, <4>2
    <3>4. FirstFound /\ pass = 2 /\ step'["receipt"] = "final" /\ local'["receipt"].bytes = Launch
             /\ seen[2]["hook"].bytes = Launch => witness \/ tree # 0
      <4>1. CASE n = "receipt"
        BY <1>1, <2>3, <2>5, <4>1 DEF RInv, BytesInv
      <4>2. CASE n # "receipt"
        BY <1>1, <2>3, <2>5, <4>2 DEF RInv, BytesInv
      <4> QED
        BY <4>1, <4>2
    <3> QED
      BY <1>1, <2>1, <2>6, <3>1, <3>2, <3>3, <3>4, StillIs DEF RInv, BytesInv
  <2>12. WitnessInv'
    BY <2>1, StillIs DEF RInv, WitnessInv
  <2>13. ResultInv'
    BY <1>1, <2>1, <2>6 DEF ResultInv, Accepted
  <2> QED
    BY <2>7, <2>8, <2>9, <2>10, <2>11, <2>12, <2>13 DEF RInv
<1> QED
  BY <1>2, <1>3

\* A listing of the root, while the root keeps its stamp, is the truth.
LEMMA ListedRoot ==
    ASSUME ByStat, NEW m \in Names, Home[m] = "root", listing["root"] # Unlisted => (m \in listing["root"] <=> Present(m))
    PROVE  m \in Listed("root") <=> Present(m)
  BY DEF Listed, Entries

\* A directory of a file is looked at.
LEMMA ParentKeeps ==
    ASSUME Read1, RInv, Still, middle' = middle, NEW n \in Reads, Parent(n)
    PROVE  RInv'
<1>1. /\ phase = "files" /\ Turn(n) /\ step[n] = "parent" /\ n \in Names /\ now \in Nat
      /\ pass \in {1, 2} /\ Reads \subseteq Names
      /\ {"hook", "receipt", "lock", "config"} \subseteq Names /\ "rules" \in Names /\ Launch # Nobody
      /\ Home["hook"] = "host" /\ Home["config"] = "host" /\ Home["receipt"] = "agenthawk"
      /\ {"root", "host", "agenthawk"} \subseteq Dirs
  BY ReadsAre, NamesAre DEF Parent, At
<1>2. /\ phase' = phase /\ pass' = pass /\ root' = root /\ seen' = seen /\ result' = result
  BY DEF Parent
<1>3. \A m \in Names : step'[m] = IF m = n THEN "entry" ELSE step[m]
  BY DEF Parent, Proceed, Read1, ReadingType
<1>4. /\ \A m \in Names : m # n => local'[m] = local[m]
      /\ local'[n].parent = dir[Home[n]] /\ local'[n].bytes = local[n].bytes
  <2>1. local[n] \in [bytes : Bytes, parent : 0..now, ino : 0..now, stamp : 0..now]
    BY <1>1 DEF Read1, ReadingType
  <2>2. local'[n] = [local[n] EXCEPT !.parent = dir[Home[n]]]
    BY <1>1 DEF Parent, Read1, ReadingType
  <2> QED
    BY <2>1, <2>2 DEF Parent, Read1, ReadingType
<1>5. listing'["root"] = Listed("root") /\ \A d \in Dirs : d # "root" => listing'[d] = listing[d]
  BY <1>1 DEF Parent, Read1, ReadingType
<1>6. result = "none" /\ load = "loaded" /\ (n # "hook" => step["hook"] = "done") /\ n # "rules"
  BY <1>1, ReadsAre DEF RInv, FlowInv, OrderInv, Going
<1>7. FlowInv'
  BY <1>1, <1>2, <1>6, StillIs DEF RInv, FlowInv, Going, Accepted
<1>8. OrderInv'
  BY <1>1, <1>2, <1>3, <1>5, <1>6, StillIs DEF RInv, OrderInv, Going, FirstStep
<1>9. StatInv'
  <2> SUFFICES ASSUME ByStat PROVE StatInv'
    BY StillIs DEF StatInv
  <2>1. ASSUME NEW m \in Names, PresentInv(m) PROVE PresentInv(m)'
    BY <1>1, <1>2, <1>3, <1>4, <2>1, StillIs DEF PresentInv, Present
  <2>2. ASSUME NEW m \in Names, Home[m] = "root", RootedInv(m) PROVE RootedInv(m)'
    BY <1>1, <1>2, <1>5, <2>2, ListedRoot, StillIs DEF RootedInv, Going, Present
  <2>3. ASSUME NEW m \in Names, MissingInv(m) PROVE MissingInv(m)'
    BY <1>1, <1>2, <1>3, <1>4, <2>3, StillIs DEF MissingInv, Present
  <2>4. ASSUME ListedInv("config") PROVE ListedInv("config")'
    <3>1. listing'["host"] = listing["host"]
      BY <1>1, <1>5
    <3>2. CASE n = "config"
      <4>1. listing["host"] # Unlisted
        BY <1>1, <1>6, <3>2 DEF RInv, OrderInv, Going
      <4> QED
        BY <1>1, <1>2, <1>3, <1>4, <2>4, <3>1, <3>2, <4>1, StillIs DEF ListedInv, Present, Going
    <3>3. CASE n # "config"
      BY <1>1, <1>2, <1>3, <1>4, <2>4, <3>1, <3>3, StillIs DEF ListedInv, Present, Going
    <3> QED
      BY <3>2, <3>3
  <2> QED
    BY <1>1, <2>1, <2>2, <2>3, <2>4, StillIs DEF RInv, StatInv, Stamped
<1>10. RulesInv'
  BY <1>2, StillIs DEF RInv, RulesInv
<1>11. BytesInv'
  <2>1. (FirstFound' <=> FirstFound) /\ (Quiet' <=> Quiet)
    BY <1>2, StillIs DEF FirstFound, Quiet
  <2>2. \A m \in {"hook", "receipt", "lock"} : local'[m].bytes = local[m].bytes /\ (step'[m] = "final" => step[m] = "final")
    BY <1>1, <1>3, <1>4
  <2> QED
    BY <1>1, <1>2, <1>6, <2>1, <2>2, StillIs DEF RInv, BytesInv
<1>12. WitnessInv'
  BY <1>2, StillIs DEF RInv, WitnessInv
<1>13. ResultInv'
  BY <1>1, <1>2, <1>6 DEF ResultInv, Accepted
<1> QED
  BY <1>7, <1>8, <1>9, <1>10, <1>11, <1>12, <1>13 DEF RInv

\* A name is looked for in the listing of its directory.
LEMMA EntryKeeps ==
    ASSUME Read1, RInv, Still, middle' = middle, NEW n \in Reads, Entry(n)
    PROVE  RInv'
<1> DEFINE found == n \in Listed(Home[n])
           o == Absent(local[n].parent)
<1>1. /\ phase = "files" /\ Turn(n) /\ step[n] = "entry" /\ n \in Names /\ now \in Nat /\ n # "rules"
      /\ pass \in {1, 2} /\ Reads \subseteq Names
      /\ {"hook", "receipt", "lock", "config"} \subseteq Names /\ "rules" \in Names /\ Launch # Nobody
      /\ Home["hook"] = "host" /\ Home["config"] = "host" /\ Home["receipt"] = "agenthawk" /\ Home["lock"] = "root"
      /\ {"root", "host", "agenthawk"} \subseteq Dirs /\ Home[n] \in Dirs
  BY ReadsAre, NamesAre DEF Entry, At
<1>2. /\ phase' = phase /\ pass' = pass /\ root' = root /\ local' = local /\ result' = result
  BY DEF Entry
<1>3. \A m \in Names : step'[m] = IF m = n THEN (IF found THEN "inspect" ELSE "done") ELSE step[m]
  BY <1>1 DEF Entry, Proceed, Read1, ReadingType
<1>4. \A p \in {1, 2}, m \in Names : seen'[p][m] = IF p = pass /\ m = n /\ ~found THEN o ELSE seen[p][m]
  BY <1>1 DEF Entry, Read1, ReadingType
<1>5. /\ listing'[Home[n]] = Listed(Home[n]) /\ (\A d \in Dirs : d # Home[n] => listing'[d] = listing[d])
      /\ listing'[Home[n]] # Unlisted
  <2>1. "unlisted" \notin Names /\ Entries(Home[n]) \subseteq Names
    BY NamesAre DEF Entries
  <2>2. Listed(Home[n]) # Unlisted
    BY <2>1 DEF Listed, Unlisted
  <2> QED
    BY <1>1, <2>2 DEF Entry, Read1, ReadingType
<1>6. result = "none" /\ load = "loaded" /\ (n # "hook" => step["hook"] = "done")
  BY <1>1, ReadsAre DEF RInv, FlowInv, Going
<1>7. o.state = "absent" /\ o.bytes = Nobody /\ o.parent = local[n].parent /\ o.stamp = 0 /\ local[n].parent \in 0..now
  BY <1>1, StampsArePast DEF Absent, Unread
<1>8. /\ pass = 1 => seen[2][n].state = "unread" /\ seen[2][n].bytes = Nobody
  BY <1>1, FreshIs DEF RInv, FlowInv
<1>9. Entries(Home[n]) = {m \in Names : Home[m] = Home[n] /\ Present(m)}
  BY DEF Entries
<1> HIDE DEF found, o
<1>10. FlowInv'
  BY <1>1, <1>2, <1>4, <1>6, <1>7, StillIs DEF RInv, FlowInv, Going, Accepted
<1>11. OrderInv'
  <2>1. \A m \in Names \ {n} : step'[m] = step[m]
    BY <1>3
  <2>2. step'[n] \in {"inspect", "done"}
    BY <1>1, <1>3
  <2>3. n # "receipt" => listing'["agenthawk"] = listing["agenthawk"]
    <3>1. n \in {"hook", "config", "receipt", "lock", "staging", "rules"}
      BY OrderIs, ScenarioIs DEF Read1, IInv, Typed
    <3>2. n # "receipt" => Home[n] # "agenthawk"
      BY <3>1, NamesAre
    <3> QED
      BY <1>1, <1>5, <3>2
  <2>4. \/ listing'["host"] = listing["host"] 
        \/ listing'["host"] # Unlisted
    BY <1>1, <1>5
  <2>5. CASE n = "hook"
    <3>1. \A m \in Reads \ {"hook"} : step'[m] = FirstStep(m) /\ seen'[pass][m] = Unread /\ FirstStep(m)' = FirstStep(m)
      BY <1>1, <1>2, <1>4, <2>1, <2>5, StillIs DEF RInv, OrderInv, Going, FirstStep
    <3> QED
      BY <1>1, <1>2, <1>5, <2>1, <2>2, <2>3, <2>5, <3>1, StillIs DEF RInv, OrderInv, Going
  <2>6. CASE n # "hook"
    <3>1. step'["hook"] = "done"
      BY <1>1, <1>6, <2>1, <2>6
    <3> QED
      BY <1>1, <1>2, <2>1, <2>2, <2>3, <2>4, <2>6, <3>1, StillIs DEF RInv, OrderInv, Going
  <2> QED
    BY <2>5, <2>6
<1>12. StatInv'
  <2> SUFFICES ASSUME ByStat PROVE StatInv'
    BY StillIs DEF StatInv
  <2>1. ASSUME NEW m \in Names, PresentInv(m) PROVE PresentInv(m)'
    <3>1. CASE m = n
      BY <1>1, <1>2, <1>3, <1>4, <1>7, <2>1, <3>1, StillIs DEF PresentInv, Present
    <3>2. CASE m # n
      BY <1>1, <1>2, <1>3, <1>4, <2>1, <3>2, StillIs DEF PresentInv, Present
    <3> QED
      BY <3>1, <3>2
  <2>2. ASSUME NEW m \in Names, Home[m] = "root", RootedInv(m) PROVE RootedInv(m)'
    <3>1. pass = 1 /\ dir["root"] <= root[1] => (m \in Listed("root") <=> Present(m))
      BY <1>1, <2>2, ListedRoot DEF RootedInv, Going
    <3>2. \/ Home[n] = "root" /\ listing'["root"] = Listed("root")
          \/ Home[n] # "root" /\ listing'["root"] = listing["root"]
      BY <1>1, <1>5
    <3>3. m = n => (found <=> m \in Listed("root"))
      BY <2>2 DEF found
    <3>4. m = n \/ seen'[1][m] = seen[1][m]
      BY <1>4, <2>2
    <3>5. pass = 2 => seen'[1][m] = seen[1][m]
      BY <1>4, <2>2
    <3>6. CASE pass = 1
      <4>1. dir["root"] <= root[1] /\ listing'["root"] # Unlisted => (m \in listing'["root"] <=> Present(m))
        BY <1>1, <2>2, <3>1, <3>2, <3>6 DEF RootedInv, Going
      <4>2. dir["root"] <= root[1] /\ seen'[1][m].state = "absent" => ~Present(m)
        BY <1>1, <1>4, <2>2, <3>1, <3>3, <3>4, <3>6 DEF RootedInv, Going
      <4> QED
        BY <1>2, <3>6, <4>1, <4>2, StillIs DEF RootedInv, Present
    <3>7. CASE pass = 2
      BY <1>2, <2>2, <3>5, <3>7, StillIs DEF RootedInv
    <3> QED
      BY <1>1, <3>6, <3>7
  <2>3. ASSUME NEW m \in {"hook", "receipt"}, MissingInv(m) PROVE MissingInv(m)'
    <3>1. m \in Names
      BY <1>1
    <3>2. CASE m # n
      BY <1>1, <1>2, <1>3, <1>4, <2>3, <3>1, <3>2, StillIs DEF MissingInv, Present
    <3>3. CASE m = n /\ found
      BY <1>1, <1>2, <1>3, <1>4, <2>3, <3>1, <3>3, StillIs DEF MissingInv, Present
    <3>4. CASE m = n /\ ~found
      <4>1. listing[Home[n]] = Unlisted
        BY <1>1, <2>3, <3>4 DEF RInv, OrderInv, Going
      <4>2. ~Present(n)
        BY <1>1, <1>9, <3>4, <4>1 DEF found, Listed
      <4>3. CASE pass = 1
        <5>1. seen'[1][n] = o /\ seen'[2][n] = seen[2][n]
          BY <1>1, <1>4, <3>4, <4>3
        <5> QED
          BY <1>2, <1>8, <3>4, <4>2, <4>3, <5>1, StillIs DEF MissingInv, Present
      <4>4. CASE pass = 2
        <5>1. seen'[1][n] = seen[1][n] /\ seen'[2][n] = o /\ step'[n] = "done"
          BY <1>1, <1>3, <1>4, <3>4, <4>4
        <5>2. seen[1][n].parent \in Nat
          BY <1>1, StampsArePast
        <5>3. seen[1][n].state = "absent" /\ o.parent = seen[1][n].parent => middle.bytes[n] = Nobody
          BY <1>1, <1>7, <2>3, <3>4, <4>4, <5>2 DEF MissingInv
        <5> QED
          BY <1>2, <2>3, <3>4, <4>4, <5>1, <5>3, StillIs DEF MissingInv, Present
      <4> QED
        BY <1>1, <4>3, <4>4
    <3> QED
      BY <3>2, <3>3, <3>4
  <2>4. ASSUME ListedInv("config") PROVE ListedInv("config")'
    <3> SUFFICES ASSUME pass = 2, seen[1]["config"].state = "absent" PROVE ListedInv("config")'
      BY <1>1, <1>2, <1>4 DEF ListedInv
    <3>1. seen'[1]["config"] = seen[1]["config"] /\ seen[1]["config"].parent \in Nat
      BY <1>1, <1>4, StampsArePast
    <3>2. \/ listing'["host"] = listing["host"] 
          \/ listing'["host"] = Entries("host") /\ Home[n] = "host"
      BY <1>1, <1>5 DEF Listed
    <3>3. listing'["host"] = Entries("host") /\ Home[n] = "host" /\ "config" \notin listing'["host"] => ~Present("config")
      BY <1>1, <1>9
    <3>4. dir["host"] <= seen[1]["config"].parent =>
            /\ ~Present("config") => middle.bytes["config"] = Nobody
            /\ listing'["host"] # Unlisted /\ "config" \notin listing'["host"] => middle.bytes["config"] = Nobody
      BY <1>1, <2>4, <3>2, <3>3 DEF ListedInv, Going
    <3>5. step'["config"] = "entry" /\ local["config"].parent <= seen[1]["config"].parent
             /\ "config" \notin listing'["host"] => middle.bytes["config"] = Nobody
      <4>1. CASE n = "hook"
        <5>1. step["config"] # "entry"
          <6>1. "config" \in Reads
            BY StatReads
          <6> QED
            BY <1>1, <4>1, <6>1 DEF RInv, OrderInv, Going, FirstStep
        <5> QED
          BY <1>1, <1>3, <4>1, <5>1
      <4>2. CASE n = "config"
        BY <1>1, <1>3, <4>2
      <4>3. CASE n \notin {"hook", "config"}
        <5>1. n \in {"receipt", "lock", "staging"}
          BY <1>1, <4>3, OrderIs, ScenarioIs DEF Read1, IInv, Typed
        <5>2. listing'["host"] = listing["host"] /\ step'["config"] = step["config"]
          BY <1>1, <1>3, <1>5, <4>3, <5>1, NamesAre
        <5> QED
          BY <1>1, <2>4, <5>2 DEF ListedInv
      <4> QED
        BY <4>1, <4>2, <4>3
    <3>6. seen'[2]["config"].state = "absent" /\ seen'[2]["config"].parent = seen[1]["config"].parent =>
             middle.bytes["config"] = Nobody
      <4>1. CASE n = "config" /\ ~found
        <5>1. listing["host"] # Unlisted
          BY <1>1, <1>6, <4>1 DEF RInv, OrderInv, Going
        <5>2. "config" \notin listing["host"]
          BY <1>1, <4>1, <5>1 DEF found, Listed
        <5>3. seen'[2]["config"] = o
          BY <1>1, <1>4, <4>1
        <5> QED
          BY <1>1, <1>7, <2>4, <3>1, <4>1, <5>2, <5>3 DEF ListedInv
      <4>2. CASE ~(n = "config" /\ ~found)
        <5>1. seen'[2]["config"] = seen[2]["config"]
          BY <1>1, <1>4, <4>2
        <5> QED
          BY <2>4, <5>1 DEF ListedInv
      <4> QED
        BY <4>1, <4>2
    <3> QED
      BY <1>1, <1>2, <3>1, <3>4, <3>5, <3>6, StillIs DEF ListedInv, Present, Going
  <2> QED
    BY <1>1, <2>1, <2>2, <2>3, <2>4, StillIs DEF RInv, StatInv, Stamped
<1>13. RulesInv'
  <2>1. seen'[1]["rules"] = seen[1]["rules"] /\ seen'[2]["rules"] = seen[2]["rules"]
    BY <1>1, <1>4
  <2> QED
    BY <1>2, <2>1, StillIs DEF RInv, RulesInv
<1>14. BytesInv'
  <2> SUFFICES ASSUME NobodyForges, Reader = "claude_invocation" PROVE BytesInv'
    BY StillIs DEF BytesInv
  <2>1. Quiet' <=> Quiet
    BY StillIs DEF Quiet
  <2>2. n \in {"hook", "receipt", "lock"} /\ {"hook", "receipt", "lock"} \subseteq Reads
    BY InvocationReads
  <2>3. \A m \in {"hook", "receipt", "lock"}, p \in {1, 2} :
            seen'[p][m].bytes = Launch => seen[p][m].bytes = Launch /\ seen'[p][m] = seen[p][m]
    BY <1>1, <1>4, <1>7
  <2>4. \A m \in {"hook", "receipt", "lock"} :
           file'[m].bytes = Launch \/ local'[m].bytes = Launch \/ (\E p \in {1, 2} : seen'[p][m].bytes = Launch) =>
              Launch \in spent'
    BY <1>1, <1>2, <2>3, StillIs DEF RInv, BytesInv
  <2>5. \A m \in {"hook", "receipt", "lock"} : step'[m] = "final" => step[m] = "final"
    BY <1>1, <1>3
  <2>6. CASE FirstFound
    BY <1>1, <1>2, <1>6, <2>1, <2>3, <2>4, <2>5, <2>6, StillIs DEF RInv, BytesInv
  <2>7. CASE ~FirstFound /\ ~FirstFound'
    BY <2>4, <2>7, StillIs DEF BytesInv
  <2>8. CASE ~FirstFound /\ FirstFound'
    <3>1. seen[1]["hook"].bytes = Launch /\ n = "lock" /\ pass = 1 /\ ~found
      BY <1>1, <1>4, <1>7, <2>3, <2>8, StillIs DEF FirstFound
    <3>2. ~Present("lock")
      BY <1>1, <1>9, <3>1 DEF found, Listed, ByStat, Statuses
    <3>3. Quiet
      BY <1>1, <3>1, <3>2 DEF Quiet, Present, RInv, BytesInv
    <3>4. witness \/ tree # 0 \/ file["hook"].bytes # Launch \/ file["receipt"].bytes # Launch
      BY <3>2 DEF RInv, WitnessInv, InstalledNow, Launch
    <3>5. \A m \in {"hook", "receipt"} : seen'[2][m].bytes # Launch
      <4>1. \A m \in {"hook", "receipt"} : seen[2][m].bytes = Nobody
        BY <1>1, <3>1, FreshIs DEF RInv, FlowInv
      <4> QED
        BY <1>1, <2>3, <4>1
    <3> QED
      BY <1>1, <1>2, <1>6, <2>1, <2>4, <3>1, <3>3, <3>4, <3>5, StillIs DEF BytesInv
  <2> QED
    BY <2>6, <2>7, <2>8
<1>15. WitnessInv'
  BY <1>2, StillIs DEF RInv, WitnessInv
<1>16. ResultInv'
  BY <1>1, <1>2, <1>6 DEF ResultInv, Accepted
<1> QED
  BY <1>10, <1>11, <1>12, <1>13, <1>14, <1>15, <1>16 DEF RInv

-----------------------------------------------------------------------------
(* All steps together.                                                     *)

Remembered == middle' = IF AllRead /\ pass = 1 /\ phase' # "files" THEN Contents ELSE middle

LEMMA ReaderKeeps ==
    ASSUME Read1, RInv, Still, ReaderStep, Remembered
    PROVE  RInv'
<1>1. pass = 2 \/ phase # "files" => middle' = middle
  BY DEF Remembered, AllRead
<1>2. ASSUME NEW n \in Reads, NEW s \in {"parent", "entry", "inspect", "read", "final"}, At(n, s)
      PROVE  middle' = middle
  BY <1>2 DEF Remembered, AllRead, At
<1>3. CASE Begin
  BY <1>1, <1>3, BeginKeeps DEF Begin
<1>4. CASE Unauthorized
  BY <1>1, <1>4, FailureKeeps DEF Unauthorized
<1>5. CASE Topology
  BY <1>1, <1>5, TopologyKeeps DEF Topology
<1>6. CASE NotSought
  BY <1>2, <1>6, NotSoughtKeeps DEF NotSought
<1>7. CASE CheckIgnore
  <2>1. At("rules", "entry") /\ "rules" \in Reads
    BY <1>7 DEF CheckIgnore, At
  <2> QED
    BY <1>2, <1>7, <2>1, CheckIgnoreKeeps
<1>8. CASE InspectStaging
  <2>1. At("staging", "inspect") /\ "staging" \in Reads
    BY <1>8 DEF InspectStaging, At
  <2> QED
    BY <1>2, <1>8, <2>1, InspectStagingKeeps
<1>9. CASE EndPass
  <2>1. CASE Failed
    BY <1>1, <2>1, FailureKeeps
  <2>2. CASE ~Failed /\ pass = 1
    <3>1. AllRead /\ phase' = "begin"
      BY <1>9, <2>2 DEF EndPass
    <3> QED
      BY <1>9, <2>2, <3>1, FirstPassKeeps DEF Remembered
  <2>3. CASE ~Failed /\ pass = 2
    BY <1>1, <1>9, <2>3, ComparisonKeeps
  <2> QED
    BY <2>1, <2>2, <2>3, ReadsAre
<1>10. CASE Compare
  BY <1>1, <1>10, FailureKeeps, ComparisonKeeps DEF Compare
<1>11. CASE ClassifyStatus
  BY <1>1, <1>11, ClassifyStatusKeeps DEF ClassifyStatus
<1>12. CASE Verify
  BY <1>1, <1>12, VerifyKeeps DEF Verify
<1>13. CASE Cancel
  BY <1>1, <1>13, RefusalKeeps DEF Cancel
<1>14. ASSUME NEW n \in Reads, Parent(n) \/ Entry(n) \/ Inspect(n) \/ Read(n) \/ Final(n)
       PROVE  RInv'
  <2>1. middle' = middle
    BY <1>2, <1>14 DEF Parent, Entry, Inspect, Read, Final
  <2> QED
    BY <1>14, <2>1, ParentKeeps, EntryKeeps, LookKeeps, FinalKeeps
<1> QED
  BY <1>3, <1>4, <1>5, <1>6, <1>7, <1>8, <1>9, <1>10, <1>11, <1>12, <1>13, <1>14 DEF ReaderStep

\* The loader moves before anything is read, and once it is done no more.
LEMMA LoadingKeeps ==
    ASSUME Read1, RInv, AuthorityStep, UNCHANGED <<reading, others, scenario>>,
           Carried, Remembered
    PROVE  RInv'
<1>1. load # "loaded"
  BY DEF AuthorityStep, Locate, AskGit, FinalIdentity, EndReads, EndRecheck, Parse, CancelLoading,
    Loading,
         Probe, InspectDocument, ReadDocument, FinalDocument, StillAbsent, DocumentAt
<1>2. pass = 1 /\ phase \in {"begin", "done"} /\ result \notin Accepted
  <2>1. pass \in {1, 2} /\ phase \in Phases
    BY DEF Read1, ReadingType
  <2> QED
    BY <1>1, <2>1 DEF RInv, FlowInv, Going, Phases
<1>3. /\ phase' = phase /\ pass' = pass /\ step' = step /\ root' = root /\ listing' = listing
      /\ local' = local /\ seen' = seen /\ result' = result /\ file' = file /\ dir' = dir /\ tree' = tree
      /\ now' = now /\ spent' = spent /\ foreign' = foreign
      /\ (ByStat' <=> ByStat) /\ Reads' = Reads /\ Reader' = Reader /\ Stamped' = Stamped /\ Launch' = Launch
  BY SameReader DEF reading, others, fs
<1>4. /\ Reads \subseteq Names /\ {"hook", "receipt", "lock", "config"} \subseteq Names
      /\ (FirstFound /\ witness => witness') /\ (InstalledNow' => witness') /\ middle' = middle
  BY <1>2, ReadsAre, FoundOnceStarted DEF Remembered, AllRead, Carried
<1>5. FlowInv'
  BY <1>2, <1>3 DEF RInv, FlowInv, Going, Accepted
<1>6. OrderInv'
  BY <1>2, <1>3 DEF OrderInv, Going
<1>7. StatInv'
  <2>1. ASSUME NEW n \in Names
        PROVE  /\ PresentInv(n) => PresentInv(n)'
               /\ RootedInv(n) => RootedInv(n)'
               /\ MissingInv(n) => MissingInv(n)'
               /\ ListedInv(n) => ListedInv(n)'
    BY <1>2, <1>3, <1>4 DEF PresentInv, RootedInv, MissingInv, ListedInv, Going, Present
  <2> QED
    BY <1>3, <1>4, <2>1 DEF RInv, StatInv, Stamped
<1>8. RulesInv'
  BY <1>2, <1>3, <1>4 DEF RInv, RulesInv
<1>9. BytesInv'
  <2>1. (FirstFound' <=> FirstFound) /\ (Quiet' <=> Quiet)
    BY <1>3 DEF FirstFound, Quiet
  <2> QED
    BY <1>2, <1>3, <1>4, <2>1 DEF RInv, BytesInv, Accepted
<1>10. WitnessInv'
  BY <1>2, <1>3, <1>4 DEF WitnessInv
<1>11. ResultInv'
  BY <1>2, <1>3 DEF ResultInv, Accepted
<1> QED
  BY <1>5, <1>6, <1>7, <1>8, <1>9, <1>10, <1>11 DEF RInv

LEMMA InitKnows == Init => RInv
<1> SUFFICES ASSUME Init PROVE RInv
  OBVIOUS
<1>1. Read1 /\ now = 0 /\ phase = "begin" /\ pass = 1 /\ result = "none" /\ foreign = 0
  BY InitTyped DEF Init
<1>2. /\ \A p \in {1, 2}, n \in Names : seen[p][n] = Unread /\ seen[p][n].state = "unread"
                                         /\ seen[p][n].bytes = Nobody /\ seen[p][n].stamp = 0 /\ seen[p][n].parent = 0
      /\ \A n \in Names : local[n].bytes = Nobody
  BY FreshIs DEF Init
<1>3. /\ Reads \subseteq Names /\ {"hook", "receipt", "lock", "config"} \subseteq Names /\ "rules" \in Names
      /\ Launch \in Commands /\ Launch # Nobody /\ Launch # Alien
  BY <1>1, ReadsAre, NamesAre, FilesAssumption
<1>4. FlowInv
  BY <1>1, <1>2, <1>3 DEF FlowInv, Going, Accepted
<1>5. OrderInv
  BY <1>1 DEF OrderInv, Going
<1>6. StatInv
  <2>1. ASSUME NEW n \in Names PROVE PresentInv(n) /\ RootedInv(n) /\ MissingInv(n) /\ ListedInv(n)
    BY <1>1, <1>2 DEF PresentInv, RootedInv, MissingInv, ListedInv, Going
  <2> QED
    BY <1>3, <2>1 DEF StatInv, Stamped
<1>7. RulesInv
  <2>1. scenario.installed \in BOOLEAN
    BY <1>1, DoubleReadAssumption DEF Read1, IInv, Typed
  <2>2. file["rules"] = [NoFile EXCEPT !.bytes = Alien]
    BY <1>3, <2>1 DEF Init
  <2>3. file["rules"].bytes = Alien
    BY <2>2 DEF NoFile
  <2> QED
    BY <1>1, <1>2, <1>3, <2>3 DEF RulesInv
<1>8. BytesInv
  <2>1. \A n \in {"hook", "receipt", "lock"} : file[n].bytes = Launch => Launch \in spent
    BY <1>3 DEF Init, NoFile, Launch
  <2>2. ~FirstFound
    BY <1>2, <1>3 DEF FirstFound
  <2> QED
    BY <1>2, <1>3, <2>1, <2>2 DEF BytesInv
<1>9. WitnessInv
  BY <1>1 DEF Init, WitnessInv
<1>10. ResultInv
  BY <1>1 DEF ResultInv, Accepted
<1> QED
  BY <1>4, <1>5, <1>6, <1>7, <1>8, <1>9, <1>10 DEF RInv

LEMMA StepKnows == Read1 /\ RInv /\ [Next]_vars => RInv'
<1> SUFFICES ASSUME Read1, RInv, [Next]_vars PROVE RInv'
  OBVIOUS
<1>1. CASE UNCHANGED vars
  <2>1. /\ phase' = phase /\ pass' = pass /\ step' = step /\ root' = root /\ listing' = listing
        /\ local' = local /\ seen' = seen /\ result' = result /\ file' = file /\ dir' = dir /\ tree' = tree
        /\ now' = now /\ spent' = spent /\ foreign' = foreign /\ load' = load /\ identity' = identity
        /\ middle' = middle /\ witness' = witness /\ scenario' = scenario
    BY <1>1 DEF vars, others, fs, authority, reading
  <2>2. (ByStat' <=> ByStat) /\ Reads' = Reads /\ Reader' = Reader /\ Stamped' = Stamped /\ Launch' = Launch
    BY <2>1, SameReader
  <2>3. FlowInv' /\ OrderInv'
    BY <2>1, <2>2 DEF RInv, FlowInv, OrderInv, Going, FirstStep
  <2>4. StatInv'
    <3>1. ASSUME NEW n
          PROVE  /\ PresentInv(n) => PresentInv(n)'
                 /\ RootedInv(n) => RootedInv(n)'
                 /\ MissingInv(n) => MissingInv(n)'
                 /\ ListedInv(n) => ListedInv(n)'
      BY <2>1 DEF PresentInv, RootedInv, MissingInv, ListedInv, Going, Present
    <3> QED
      BY <2>2, <3>1 DEF RInv, StatInv
  <2>5. RulesInv'
    BY <2>1 DEF RInv, RulesInv
  <2>6. BytesInv'
    BY <2>1, <2>2 DEF RInv, BytesInv, FirstFound, Quiet
  <2>7. WitnessInv'
    BY <2>1, <2>2 DEF RInv, WitnessInv, InstalledNow, Present
  <2>8. ResultInv'
    BY <2>1, <2>2 DEF RInv, ResultInv, Signature, State, BytesOf
  <2> QED
    BY <2>3, <2>4, <2>5, <2>6, <2>7, <2>8 DEF RInv
<1>2. CASE Next
  <2>1. Remembered /\ UNCHANGED scenario /\ Carried
    BY <1>2 DEF Next, Remembered, Carried
  <2>2. CASE ReaderStep /\ UNCHANGED <<authority, others>>
    BY <2>1, <2>2, ReaderKeeps DEF Still, others
  <2>3. CASE AuthorityStep /\ UNCHANGED <<reading, others>>
    BY <2>1, <2>3, LoadingKeeps
  <2>4. CASE (LifecycleStep \/ StagingStep \/ ForeignStep) /\ UNCHANGED <<authority, reading>>
    <3>1. middle' = middle
      BY <2>1, <2>4 DEF Remembered, AllRead, reading
    <3> QED
      BY <2>1, <2>4, <3>1, OthersKeepReading
  <2> QED
    BY <1>2, <2>2, <2>3, <2>4 DEF Next, Process
<1> QED
  BY <1>1, <1>2

LEMMA ReadingKnows == Spec => [](Read1 /\ RInv)
  BY InitTyped, StepTyped, InitKnows, StepKnows, PTL DEF Spec

LEMMA AcceptedIsHeld ==
    ASSUME Read1, RInv, result \in Accepted, ByStat
    PROVE  middle.tree = identity /\ \A n \in Reads : Held(n)
<1>1. pass = 2 /\ middle.tree = identity /\ Signature(1) = Signature(2)
  BY DEF RInv, FlowInv, ResultInv
<1>2. \A n \in Reads : seen[1][n] = seen[2][n]
  BY <1>1 DEF Signature
<1>3. Reads \subseteq {"hook", "config", "receipt", "lock", "staging", "rules"} /\ Reads \subseteq Names
  BY OrderIs, ScenarioIs, ReadsAre DEF Read1, IInv, Typed
<1>4. ASSUME NEW n \in Reads PROVE Held(n)
  <2>1. seen[2][n] \in Seen /\ n \in Names /\ foreign \in Nat
    BY <1>3, ReadsAre, ScenarioIs DEF Read1, IInv, Typed, OthersType
  <2>2. seen[2][n].state \in {"unread", "absent", "present", "unsafe"}
    BY <2>1 DEF Seen
  <2>3. seen[2][n].state = "absent" => seen[2][n].bytes = Nobody
    BY <2>1 DEF RInv, FlowInv
  <2>4. CASE n = "rules"
    <3>1. CASE foreign > 1 \/ seen[2][n].state \in {"unsafe", "unread"}
      BY <2>4, <3>1 DEF Held, State
    <3>2. CASE ~(foreign > 1) /\ seen[2][n].state \in {"absent", "present"}
      <4>1. foreign <= 1
        BY <2>1, <3>2
      <4>2. seen[1]["rules"] = seen[2]["rules"]
        BY <1>2, <2>4
      <4>3. middle.bytes["rules"] = seen[2]["rules"].bytes
        BY <1>1, <2>4, <3>2, <4>1, <4>2 DEF RInv, RulesInv
      <4> QED
        BY <2>4, <4>3 DEF Held, BytesOf
    <3> QED
      BY <2>2, <3>1, <3>2
  <2>5. CASE n # "rules"
    <3>1. n \in Stamped /\ seen[1][n] = seen[2][n]
      BY <1>2, <2>5 DEF Stamped
    <3>2. CASE seen[2][n].state = "present"
      <4>1. middle.bytes[n] = seen[2][n].bytes
        BY <1>1, <3>1, <3>2 DEF RInv, StatInv, PresentInv
      <4> QED
        BY <4>1 DEF Held, BytesOf
    <3>3. CASE seen[2][n].state = "absent"
      <4>1. CASE n \in {"lock", "staging"}
        <5>1. Home[n] = "root"
          BY <4>1, NamesAre
        <5>2. middle.bytes[n] = Nobody
          BY <1>1, <3>1, <3>3, <5>1 DEF RInv, StatInv, RootedInv
        <5> QED
          BY <2>3, <3>3, <5>2 DEF Held, BytesOf
      <4>2. CASE n \in {"hook", "receipt"}
        <5>1. middle.bytes[n] = Nobody
          BY <3>1, <3>3, <4>2 DEF RInv, StatInv, MissingInv
        <5> QED
          BY <2>3, <3>3, <5>1 DEF Held, BytesOf
      <4>3. CASE n = "config"
        <5>1. middle.bytes[n] = Nobody
          BY <1>1, <3>1, <3>3, <4>3 DEF RInv, StatInv, ListedInv
        <5> QED
          BY <2>3, <3>3, <5>1 DEF Held, BytesOf
      <4> QED
        BY <1>3, <2>5, <4>1, <4>2, <4>3
    <3> QED
      BY <2>2, <3>2, <3>3 DEF Held, State
  <2> QED
    BY <2>4, <2>5
<1> QED
  BY <1>1, <1>4

LEMMA KnowsSnapshot == Read1 /\ RInv => SnapshotHeld
<1> SUFFICES ASSUME Read1, RInv PROVE SnapshotHeld
  OBVIOUS
<1>1. result \in {"installable", "current", "attention", "verified"} /\ ByStat =>
         middle.tree = identity /\ \A n \in Reads : Held(n)
  BY AcceptedIsHeld DEF Accepted
<1>2. ASSUME result \in {"current", "installable"}
      PROVE  /\ ByStat /\ {"hook", "receipt", "lock"} \subseteq Reads
             /\ \A n \in {"hook", "receipt", "lock"} :
                   State(n) \notin {"unsafe", "unread"} => middle.bytes[n] = BytesOf(n)
  <2>1. Reader \in Statuses
    BY <1>2 DEF RInv, ResultInv
  <2>2. ByStat /\ {"hook", "receipt", "lock"} \subseteq Reads
    BY <2>1, StatReads DEF ByStat
  <2>3. \A n \in {"hook", "receipt", "lock"} : Held(n)
    BY <1>1, <1>2, <2>2
  <2> QED
    BY <2>2, <2>3 DEF Held
<1>3. \A n \in {"hook", "receipt", "lock"} :
         State(n) \in {"unsafe", "unread", "absent"} => BytesOf(n) = Nobody
  BY ReadsAre DEF RInv, FlowInv, State, BytesOf
<1>4. ASSUME result = "current"
      PROVE  /\ middle.bytes["hook"] = middle.bytes["receipt"]
             /\ middle.bytes["hook"] \in Commands /\ middle.bytes["lock"] = Nobody
  <2>1. State("lock") = "absent" /\ BytesOf("hook") = BytesOf("receipt") /\ BytesOf("hook") \in Commands
    BY <1>4 DEF RInv, ResultInv
  <2>2. BytesOf("hook") # Nobody
    BY <2>1, FilesAssumption
  <2> QED
    BY <1>2, <1>3, <1>4, <2>1, <2>2
<1>5. ASSUME result = "installable"
      PROVE  \A n \in {"hook", "receipt", "lock"} : middle.bytes[n] = Nobody
  <2>1. \A n \in {"hook", "receipt", "lock"} : State(n) = "absent"
    BY <1>5 DEF RInv, ResultInv
  <2> QED
    BY <1>2, <1>3, <1>5, <2>1
<1> QED
  BY <1>1, <1>4, <1>5 DEF SnapshotHeld

\* A status that is accepted tells what was so at one instant between its two
\* readings, in the root the authority names, whoever writes meanwhile.
THEOREM SnapshotIsHeld == Spec => []SnapshotHeld
<1>1. Read1 /\ RInv => SnapshotHeld
  BY KnowsSnapshot
<1> QED
  BY <1>1, ReadingKnows, PTL

LEMMA SameBytes ==
    ASSUME NEW a \in Seen, NEW b \in Seen,
           [a EXCEPT !.parent = 0, !.ino = 0, !.stamp = 0] = [b EXCEPT !.parent = 0, !.ino = 0, !.stamp = 0]
    PROVE  a.state = b.state /\ a.bytes = b.bytes
<1>1. [a EXCEPT !.parent = 0, !.ino = 0, !.stamp = 0].state = a.state
      /\ [a EXCEPT !.parent = 0, !.ino = 0, !.stamp = 0].bytes = a.bytes
  BY DEF Seen
<1>2. [b EXCEPT !.parent = 0, !.ino = 0, !.stamp = 0].state = b.state
      /\ [b EXCEPT !.parent = 0, !.ino = 0, !.stamp = 0].bytes = b.bytes
  BY DEF Seen
<1> QED
  BY <1>1, <1>2

LEMMA KnowsInstallation == NobodyForges /\ Read1 /\ RInv => VerifiedWasInstalled
<1> SUFFICES ASSUME NobodyForges, Read1, RInv, result = "verified" PROVE witness
  BY DEF VerifiedWasInstalled
<1>1. /\ pass = 2 /\ Signature(1) = Signature(2) /\ Reader \in Invocations /\ State("lock") = "absent"
      /\ identity = 0 /\ BytesOf("hook") = Launch /\ BytesOf("receipt") = Launch
  BY DEF RInv, FlowInv, ResultInv, Accepted
<1>2. {"hook", "receipt", "lock"} \subseteq Reads /\ {"hook", "receipt", "lock"} \subseteq Names /\ Launch # Nobody
  BY <1>1, ReadsAre
<1>3. BytesOf("lock") = Nobody /\ State("hook") \notin {"unsafe", "unread"} /\ State("receipt") \notin {"unsafe", "unread"}
  BY <1>1, <1>2 DEF RInv, FlowInv, State, BytesOf
<1>4. CASE Reader = "codex_invocation"
  <2>1. middle.tree = identity /\ \A n \in Reads : Held(n)
    BY <1>4, AcceptedIsHeld DEF Accepted, ByStat
  <2>2. middle.bytes["hook"] = Launch /\ middle.bytes["receipt"] = Launch /\ middle.bytes["lock"] = Nobody
    BY <1>1, <1>2, <1>3, <2>1 DEF Held
  <2> QED
    BY <1>1, <2>1, <2>2 DEF RInv, WitnessInv
<1>5. CASE Reader = "claude_invocation"
  <2>1. ~ByStat
    BY <1>5 DEF ByStat, Statuses
  <2>2. \A n \in {"hook", "lock"} : [seen[1][n] EXCEPT !.parent = 0, !.ino = 0, !.stamp = 0]
                                      = [seen[2][n] EXCEPT !.parent = 0, !.ino = 0, !.stamp = 0]
    BY <1>1, <1>2, <2>1 DEF Signature
  <2>3. \A n \in {"hook", "lock"} : seen[1][n] \in Seen /\ seen[2][n] \in Seen
    BY <1>2, ReadsAre
  <2>4. \A a, b \in Seen : [a EXCEPT !.parent = 0, !.ino = 0, !.stamp = 0]
                            = [b EXCEPT !.parent = 0, !.ino = 0, !.stamp = 0] => a.state = b.state /\ a.bytes = b.bytes
    BY SameBytes
  <2>5. FirstFound
    BY <1>1, <2>2, <2>3, <2>4 DEF FirstFound, State, BytesOf
  <2> QED
    BY <1>1, <1>5, <2>5 DEF RInv, BytesInv, BytesOf
<1> QED
  BY <1>1, <1>4, <1>5 DEF Invocations

\* A hook that finds its installation verified was installed, and no operation
\* was under way, at some instant since it turned to the files.  The hook of Claude compares
\* bytes alone: it is assumed that no other program writes the bytes it was
\* launched with.
THEOREM VerifiedIsInstalled == ASSUME NobodyForges PROVE Spec => []VerifiedWasInstalled
<1>1. Read1 /\ RInv => VerifiedWasInstalled
  BY KnowsInstallation
<1> QED
  BY <1>1, ReadingKnows, PTL
=============================================================================
