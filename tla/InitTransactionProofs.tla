------------------------ MODULE InitTransactionProofs ------------------------
(***************************************************************************)
(* Theorems about InitTransaction, for every set of invocations, any kills *)
(* and failing calls but that of the close of the lock's handle, and any   *)
(* programs that create, edit, replace and delete files.                   *)
(***************************************************************************)
EXTENDS InitTransaction, SequenceTheorems, TLAPS

-----------------------------------------------------------------------------
(* Names, and short sequences of them.                                     *)

LEMMA AboveIs ==
    /\ AboveSet("rule") = {"cursor", "rules"} /\ AboveSet("rules") = {"cursor"}
    /\ \A n \in Names \ {"rule", "rules"} : AboveSet(n) = {}
<1>1. /\ Above["rule"] = <<"cursor", "rules">> /\ Above["rules"] = <<"cursor">>
      /\ \A n \in Names \ {"rule", "rules"} : Above[n] = <<>>
  BY DEF Above, Names, Targets, Dirs
<1>2. AboveSet("rule") = {"cursor", "rules"}
  <2>1. DOMAIN Above["rule"] = {1, 2} /\ Above["rule"][1] = "cursor" /\ Above["rule"][2] = "rules"
    BY <1>1
  <2> QED
    BY <2>1 DEF AboveSet
<1>3. AboveSet("rules") = {"cursor"}
  <2>1. DOMAIN Above["rules"] = {1} /\ Above["rules"][1] = "cursor"
    BY <1>1
  <2> QED
    BY <2>1 DEF AboveSet
<1>4. ASSUME NEW n \in Names \ {"rule", "rules"} PROVE AboveSet(n) = {}
  <2>1. DOMAIN Above[n] = {}
    BY <1>1
  <2> QED
    BY <2>1 DEF AboveSet
<1> QED
  BY <1>2, <1>3, <1>4

LEMMA BelowIs ==
    /\ Below("cursor") = {"rule", "rules"} /\ Below("rules") = {"rule"}
    /\ \A n \in Names \ {"cursor", "rules"} : Below(n) = {}
<1>1. {"rule", "rules", "cursor"} \subseteq Names
  BY DEF Names, Targets, Dirs
<1> QED
  BY <1>1, AboveIs DEF Below

In(x, s) == \E i \in 1..Len(s) : s[i] = x

LEMMA OneOrTwo ==
    ASSUME NEW n \in Nat, n <= 2, n > 0
    PROVE  n = 1 \/ n = 2
  OBVIOUS

LEMMA SeqsOfIs ==
    ASSUME NEW S, NEW s
    PROVE  s \in SeqsOf(S) <=> s \in Seq(S) /\ Len(s) <= 2
<1>1. ASSUME s \in SeqsOf(S) PROVE s \in Seq(S) /\ Len(s) <= 2
  <2>1. PICK n \in 0..2 : s \in [1..n -> S]
    BY <1>1 DEF SeqsOf
  <2>2. s \in Seq(S) /\ Len(s) = n
    BY <2>1
  <2> QED
    BY <2>2
<1>2. ASSUME s \in Seq(S), Len(s) <= 2 PROVE s \in SeqsOf(S)
  <2>1. Len(s) \in Nat /\ s \in [1..Len(s) -> S]
    BY <1>2, LenProperties
  <2>2. Len(s) \in 0..2
    BY <1>2, <2>1
  <2> QED
    BY <2>1, <2>2 DEF SeqsOf
<1> QED
  BY <1>1, <1>2

LEMMA Appended ==
    ASSUME NEW S, NEW s \in SeqsOf(S), NEW x \in S, Len(s) < 2
    PROVE  /\ Append(s, x) \in SeqsOf(S) /\ Len(Append(s, x)) = Len(s) + 1
           /\ \A y : In(y, Append(s, x)) <=> y = x \/ In(y, s)
<1>1. s \in Seq(S) /\ Len(s) \in Nat
  BY SeqsOfIs
<1>2. Append(s, x) \in Seq(S) /\ Len(Append(s, x)) = Len(s) + 1
  BY <1>1
<1>3. /\ \A i \in 1..Len(s) : Append(s, x)[i] = s[i]
      /\ Append(s, x)[Len(s) + 1] = x
  BY <1>1
<1>4. ASSUME NEW y PROVE In(y, Append(s, x)) <=> y = x \/ In(y, s)
  BY <1>1, <1>2, <1>3 DEF In
<1>5. Append(s, x) \in SeqsOf(S)
  <2> DEFINE q == Append(s, x)
  <2>1. q \in Seq(S) /\ Len(q) <= 2
    BY <1>1, <1>2
  <2>2. q \in SeqsOf(S)
    <3> HIDE DEF q
    <3> QED
      BY <2>1, SeqsOfIs
  <2> QED
    BY <2>2
<1> QED
  BY <1>2, <1>4, <1>5

LEMMA Popped ==
    ASSUME NEW S, NEW s \in SeqsOf(S), s # <<>>
    PROVE  /\ SubSeq(s, 1, Len(s) - 1) \in SeqsOf(S)
           /\ Len(s) > 0 /\ s[Len(s)] \in S
           /\ \A y : In(y, SubSeq(s, 1, Len(s) - 1)) => In(y, s)
           /\ \A y : In(y, s) => y = s[Len(s)] \/ In(y, SubSeq(s, 1, Len(s) - 1))
<1> DEFINE q == SubSeq(s, 1, Len(s) - 1)
<1>1. s \in Seq(S) /\ Len(s) \in Nat /\ Len(s) <= 2
  BY SeqsOfIs
<1>2. Len(s) > 0
  BY <1>1
<1>3. q \in Seq(S) /\ Len(q) = Len(s) - 1 /\ \A i \in 1..(Len(s) - 1) : q[i] = s[i]
  <2>1. Len(s) - 1 \in Int /\ 1 \in Int /\ 1 + 0 = 1
    BY <1>1
  <2>2. \A i \in 1..(Len(s) - 1) : s[i] \in S
    BY <1>1
  <2>3. /\ q \in Seq(S) /\ Len(q) = IF 1 <= Len(s) - 1 THEN Len(s) - 1 - 1 + 1 ELSE 0
        /\ \A i \in 1..(Len(s) - 1 - 1 + 1) : q[i] = s[1 + i - 1]
    BY <2>1, <2>2, SubSeqProperties
  <2> HIDE DEF q
  <2>4. Len(s) - 1 - 1 + 1 = Len(s) - 1 /\ \A i \in 1..(Len(s) - 1) : 1 + i - 1 = i
    BY <1>1
  <2>5. Len(q) = Len(s) - 1
    <3>1. CASE Len(s) = 1
      BY <3>1, <2>3
    <3>2. CASE Len(s) = 2
      BY <3>2, <2>3
    <3>3. Len(s) = 1 \/ Len(s) = 2
      BY <1>1, <1>2, OneOrTwo, Zenon
    <3> QED
      BY <3>1, <3>2, <3>3
  <2> QED
    BY <2>3, <2>4, <2>5
<1>4. s[Len(s)] \in S
  BY <1>1, <1>2
<1>5. q \in SeqsOf(S)
  <2>1. Len(q) <= 2
    BY <1>1, <1>3
  <2>2. q \in SeqsOf(S)
    <3> HIDE DEF q
    <3> QED
      BY <1>3, <2>1, SeqsOfIs
  <2> QED
    BY <2>2
<1>6. ASSUME NEW y PROVE (In(y, q) => In(y, s)) /\ (In(y, s) => y = s[Len(s)] \/ In(y, q))
  <2> HIDE DEF q
  <2> QED
    BY <1>1, <1>2, <1>3 DEF In
<1> QED
  BY <1>2, <1>4, <1>5, <1>6

LEMMA EmptyIs == \A y : ~In(y, <<>>)
  BY DEF In

LEMMA AssetsAre ==
    ASSUME NEW a \in {Assets[i] : i \in Integrations}
    PROVE  /\ a \in Seq(Targets) /\ Len(a) \in 1..2 /\ DOMAIN a = 1..Len(a)
           /\ \A i \in 1..Len(a) : a[i] \in Targets
           /\ a[1] = "policy" /\ (Len(a) = 2 => a[2] \in {"agents", "rule"})
<1>1. Integrations = {"none", "codex", "cursor"}
  BY DEF Integrations, Assets
<1>2. PICK i \in {"none", "codex", "cursor"} : a = Assets[i]
  BY <1>1
<1>3. a \in {<<"policy">>, <<"policy", "agents">>, <<"policy", "rule">>}
  BY <1>2 DEF Assets
<1>4. {"policy", "agents", "rule"} = Targets
  BY DEF Targets
<1>5. CASE a = <<"policy">>
  BY <1>4, <1>5
<1>6. CASE a = <<"policy", "agents">>
  BY <1>4, <1>6
<1>7. CASE a = <<"policy", "rule">>
  BY <1>4, <1>7
<1> QED
  BY <1>3, <1>5, <1>6, <1>7

-----------------------------------------------------------------------------
(* The invariant.                                                          *)

Planning == {"look", "reread"}
Locking == {"lock", "write_lock"}
Preparing == {"parents", "made_parent", "make_staging"}
Publishing == {"open_stage", "write_stage", "check_target", "link", "unstage", "verify"}
Closing == {"remove_staging", "close_lock", "release"}
AtAsset == {"look", "reread"} \cup (Publishing \ {"open_stage"})
\* Nothing has been made but the lock.
Bare(r) == r.created = <<>> /\ r.dirs = <<>> /\ r.staged = {} /\ r.known = {} /\ ~r.tracked

RuleNext(r) ==
    r.next = 2 /\ Len(r.assets) = 2 /\ r.assets[2] = "rule" /\ r.state["rule"] = "absent"

\* A command's own variables.
OwnOK(r) ==
    \* how far it is
    /\ r.next <= Len(r.assets) + 1
    /\ r.pc \in AtAsset => r.next <= Len(r.assets)
    /\ r.pc \in Locking \cup {"idle", "make_staging"} => r.next = 1
    /\ r.pc \in {"idle"} \cup Planning \cup Locking => r.depth = 1
    /\ r.pc = "parents" => /\ r.depth > 1 => RuleNext(r)
                           /\ r.next <= 2 => Len(r.dirs) < r.depth
    /\ r.pc = "made_parent" => RuleNext(r) /\ r.depth <= 2 /\ Len(r.dirs) \in 1..r.depth
    \* how it goes
    /\ r.pc \in Forward => r.err = "none" /\ r.confirmed
    /\ r.pc \in Backward => r.err # "none"
    /\ r.pc \in Steps \cup {"idle", "crashed"} => r.result = "none"
    /\ r.pc = "done" => r.result # "none"
    /\ r.err = "none" => r.confirmed
    /\ r.result = "initialized" => r.err = "none"
    /\ r.result \in {"input", "failed"} => r.err # "none" /\ r.confirmed /\ r.err # "unconfirmed"
    /\ r.pc = "idle" => r.err = "none" /\ Bare(r) /\ r.lock = "none"
    \* what it has
    /\ r.pc \in Planning => r.lock = IF r.held THEN "whole" ELSE "none"
    /\ r.pc = "lock" => r.lock = "none"
    /\ r.pc = "write_lock" => r.lock = "unknown"
    /\ r.pc \in Preparing \cup Publishing \cup Closing => r.lock = "whole"
    /\ r.pc = "report" => r.lock = "none"
    /\ r.pc \in Planning \cup Locking => Bare(r)
    /\ r.pc \in Preparing => r.created = <<>> /\ r.staged = {} /\ ~r.tracked
    /\ r.pc \in Publishing \ {"unstage", "verify"} => Len(r.created) < r.next
    /\ r.pc \in {"unstage", "verify"} => Len(r.created) <= r.next
    /\ r.pc \in {"open_stage", "verify"} \cup Closing => r.staged = {}
    /\ r.pc \in {"write_stage", "check_target", "link", "unstage"} => r.staged = {r.assets[r.next]}
    /\ r.pc \in {"close_lock", "release"} => ~r.tracked
    /\ r.pc = "report" /\ r.err = "none" => ~r.tracked /\ r.staged = {}
    /\ r.pc \in Backward \ {"undo_files"} => r.created = <<>>
    /\ r.pc \in Backward \ {"undo_files", "undo_staged"} => r.staged = {}
    /\ r.pc = "undo_lock" => r.dirs = <<>>
    /\ r.pc = "report" /\ r.err # "none" => r.created = <<>> /\ r.dirs = <<>> /\ r.staged = {}
    \* and never without the lock
    /\ r.pc \in Backward /\ r.lock = "none" => Bare(r)

\* Names stand in directories; the lock is a command's.
TreeOK ==
    /\ \A n \in Names : IF Exists(n) THEN InPlace(n) ELSE entry[n] = Nothing
    /\ Exists("lock") => entry["lock"].kind = "file" /\ entry["lock"].by \in Commands

Holds(c) == entry["lock"].kind = "file" /\ entry["lock"].by = c

\* The lock of a running command stands there.
LockOK == \A c \in Commands : Running(c) /\ op[c].lock # "none" => Holds(c)

\* What a command has made is on its lists, unless it says it may not be.
Listed(r, e, st, dir, c) ==
    /\ \A t \in Targets : e[t].by = c => In(t, r.created)
    /\ \A d \in Dirs : e[d].by = c => In(d, r.dirs)
    /\ e["lock"].by = c => r.lock # "none"
    /\ dir => r.tracked /\ r.pc \notin {"undo_dirs", "undo_lock", "report"}
    /\ \A t \in Targets : st[t] # "none" => t \in r.staged

ListsOK ==
    \A c \in Commands : (Running(c) \/ At(c, "idle")) /\ Cleaned(c)
        => Listed(op[c], entry, stage[c], staging[c], c)

\* What a command that has stopped has left.
EndOK == \A c \in Commands : ~Running(c) /\ Leftovers(c) =>
       \/ op[c].result = "unconfirmed"
       \/ /\ op[c].result = "initialized" \/ (op[c].pc = "crashed" /\ op[c].err = "none")
          /\ ~staging[c] /\ "lock" \notin Made(c)
       \/ /\ op[c].pc = "crashed"
          /\ "lock" \in Made(c) \cup touched \/ ~Cleaned(c)

\* The targets a command counts on: those found under the lock, and those made.
Secured(r) ==
    {i \in 1..Len(r.assets) :
       \/ r.pc \in Planning /\ r.held /\ i < r.next /\ r.state[r.assets[i]] = "unchanged"
       \/ r.pc \in Preparing /\ r.state[r.assets[i]] = "unchanged"
       \/ r.pc \in Publishing /\ (i < r.next \/ r.state[r.assets[i]] = "unchanged")
       \/ r.pc \in Closing
       \/ r.pc = "report" /\ r.err = "none"
       \/ r.result = "initialized"}

\* Nobody who could take it back has made it.
Stands(t, c) ==
    /\ entry[t].kind = "file" /\ entry[t].content = "whole"
    /\ \A d \in Commands \ {c} : Running(d) /\ op[d].pc # "report" => ~In(t, op[d].created)

SecureOK == \A c \in Commands : \A i \in Secured(op[c]) :
    op[c].assets[i] \notin touched => Stands(op[c].assets[i], c)

InitInv ==
    /\ TypeOK
    /\ \A c \in Commands : OwnOK(op[c])
    /\ TreeOK /\ LockOK /\ ListsOK /\ EndOK /\ SecureOK

-----------------------------------------------------------------------------
(* What a step of a command may do.                                        *)

StagedFiles == [Targets -> {"none", "blank", "whole", "edited"}]
Alone(t, c) == \A d \in Commands \ {c} : Running(d) /\ op[d].pc # "report" => ~In(t, op[d].created)

\* It takes back what it made, makes what is not there, or fills its lock.
EntryMove(c) ==
    \/ entry' = entry
    \/ \E n \in Names, node \in Nodes :
          /\ entry' = [entry EXCEPT ![n] = node]
          /\ \/ /\ node = Nothing /\ Exists(n) /\ entry[n].by = c /\ entry[n].content # "edited"
                /\ \A m \in Below(n) : ~Exists(m)
                /\ n \in Targets => In(n, op[c].created)
             \/ /\ ~Exists(n) /\ InPlace(n) /\ node.by = c /\ node.kind # "none"
                /\ n = "lock" => node.kind = "file"
             \/ n = "lock" /\ entry[n] = File(c, "blank") /\ node = File(c, "whole")

Moves(c) ==
    LET r == op'[c]
    IN /\ op' = [op EXCEPT ![c] = r] /\ r \in Operations /\ OwnOK(r)
       /\ op[c].pc \in Steps \ {"report"} /\ r.pc \in Steps
       /\ stage' = [stage EXCEPT ![c] = stage'[c]] /\ stage'[c] \in StagedFiles
       /\ staging' = [staging EXCEPT ![c] = staging'[c]] /\ staging'[c] \in BOOLEAN
       /\ EntryMove(c)
       /\ \A t \in Targets : In(t, r.created) => In(t, op[c].created) \/ ~Exists(t)
       /\ r.lock # "none" => entry'["lock"].kind = "file" /\ entry'["lock"].by = c
       /\ r.confirmed /\ r.err # "unconfirmed" => Listed(r, entry', stage'[c], staging'[c], c)
       /\ \A i \in Secured(r) : r.assets[i] \notin touched =>
             /\ entry'[r.assets[i]].kind = "file" /\ entry'[r.assets[i]].content = "whole"
             /\ Alone(r.assets[i], c)

LEMMA StepsAre ==
    /\ Steps = Planning \cup Locking \cup Preparing \cup Publishing \cup Closing \cup Backward \cup {"report"}
    /\ Forward = Planning \cup Locking \cup Preparing \cup Publishing \cup Closing
    /\ Steps \subseteq Labels /\ {"idle", "done", "crashed"} \subseteq Labels
    /\ \A l \in Labels : l \notin {"idle", "done", "crashed"} <=> l \in Steps
  BY DEF Steps, Forward, Backward, Planning, Locking, Preparing, Publishing, Closing, Labels

LEMMA OpIs ==
    ASSUME InitInv, NEW c \in Commands
    PROVE  /\ op[c] \in Operations /\ OwnOK(op[c])
           /\ op \in [Commands -> Operations]
           /\ Running(c) <=> op[c].pc \in Steps
<1>1. op[c] \in Operations /\ OwnOK(op[c]) /\ op \in [Commands -> Operations]
  BY DEF InitInv, TypeOK
<1>2. op[c].pc \in Labels
  BY <1>1 DEF Operations
<1> QED
  BY <1>1, <1>2, StepsAre DEF Running

LEMMA DiskIs ==
    ASSUME InitInv
    PROVE  /\ entry \in [Names -> Nodes]
           /\ stage \in [Commands -> StagedFiles]
           /\ staging \in [Commands -> BOOLEAN]
           /\ \A n \in Names : entry[n] \in Nodes /\ entry[n].by \in Commands \cup {Nobody}
  BY DEF InitInv, TypeOK, StagedFiles, Nodes

LEMMA NodesAre ==
    ASSUME NEW c \in Commands, NEW what \in {"blank", "whole", "edited"}
    PROVE  /\ File(c, what) \in Nodes /\ File(c, what).kind = "file" /\ File(c, what).by = c
           /\ File(c, what).content = what
           /\ Directory(c) \in Nodes /\ Directory(c).kind = "dir" /\ Directory(c).by = c
           /\ Directory(c).content = "blank"
           /\ Nothing \in Nodes /\ Nothing.kind = "none" /\ Nothing.by = Nobody /\ Nothing.content = "blank"
           /\ Nobody \notin Commands
  BY InitTransactionAssumption DEF File, Directory, Nothing, Nodes

LEMMA BareUnlocked ==
    ASSUME NEW r, OwnOK(r), r.pc \in Steps \ {"report"}, r.lock = "none"
    PROVE  Bare(r)
  BY StepsAre DEF OwnOK

\* Who holds the lock is the only one who may take targets back.
LEMMA HolderAlone ==
    ASSUME InitInv, NEW c \in Commands, Holds(c)
    PROVE  \A t : Alone(t, c)
<1>1. ASSUME NEW t, NEW d \in Commands \ {c}, Running(d), op[d].pc # "report" PROVE ~In(t, op[d].created)
  <2>1. op[d].lock = "none"
    BY <1>1 DEF InitInv, LockOK, Holds
  <2>2. Bare(op[d])
    BY <1>1, <2>1, OpIs, BareUnlocked
  <2> QED
    BY <2>2, EmptyIs DEF Bare
<1> QED
  BY <1>1 DEF Alone

LEMMA EntryMoved ==
    ASSUME InitInv, NEW c \in Commands, EntryMove(c)
    PROVE  /\ entry' \in [Names -> Nodes]
           /\ \A n \in Names : \/ entry'[n] = entry[n]
                               \/ ~Exists(n) /\ entry'[n].by = c
                               \/ Exists(n) /\ entry[n].by = c /\ entry'[n].by \in {c, Nobody}
           /\ \A t \in Targets : Exists(t) => entry'[t] = entry[t] \/ In(t, op[c].created)
           /\ TreeOK'
           /\ \A n \in Names : entry[n].content = "edited" \/ (Exists(n) /\ entry[n].by = Nobody)
                 => entry'[n] = entry[n]
<1> DEFINE Goal ==
           /\ entry' \in [Names -> Nodes]
           /\ \A n \in Names : \/ entry'[n] = entry[n]
                               \/ ~Exists(n) /\ entry'[n].by = c
                               \/ Exists(n) /\ entry[n].by = c /\ entry'[n].by \in {c, Nobody}
           /\ \A t \in Targets : Exists(t) => entry'[t] = entry[t] \/ In(t, op[c].created)
           /\ TreeOK'
           /\ \A n \in Names : entry[n].content = "edited" \/ (Exists(n) /\ entry[n].by = Nobody)
                 => entry'[n] = entry[n]
<1>1. entry \in [Names -> Nodes] /\ TreeOK
  BY DiskIs DEF InitInv
<1>2. CASE entry' = entry
  BY <1>1, <1>2 DEF TreeOK, Exists, InPlace, IsDir
<1>3. CASE entry' # entry
  <2>1. PICK n \in Names, node \in Nodes :
          /\ entry' = [entry EXCEPT ![n] = node]
          /\ \/ /\ node = Nothing /\ Exists(n) /\ entry[n].by = c /\ entry[n].content # "edited"
                /\ \A m \in Below(n) : ~Exists(m)
                /\ n \in Targets => In(n, op[c].created)
             \/ /\ ~Exists(n) /\ InPlace(n) /\ node.by = c /\ node.kind # "none"
                /\ n = "lock" => node.kind = "file"
             \/ n = "lock" /\ entry[n] = File(c, "blank") /\ node = File(c, "whole")
    BY <1>3 DEF EntryMove
  <2>2. entry' \in [Names -> Nodes] /\ entry'[n] = node /\ \A m \in Names \ {n} : entry'[m] = entry[m]
    BY <1>1, <2>1
  <2>3. /\ Nothing.kind = "none" /\ Nothing.by = Nobody /\ Nothing.content = "blank" /\ c # Nobody
        /\ File(c, "blank").kind = "file" /\ File(c, "blank").by = c /\ File(c, "blank").content = "blank"
        /\ File(c, "whole").kind = "file" /\ File(c, "whole").by = c
    BY NodesAre
  <2>4. "lock" \in Names /\ "lock" \notin Targets /\ Targets \subseteq Names /\ AboveSet("lock") = {}
    BY AboveIs DEF Names, Targets, Dirs
  <2>5. ~Exists(n) => entry[n] = Nothing
    BY <1>1 DEF TreeOK
  <2>6. entry[n].content # "edited" /\ ~(Exists(n) /\ entry[n].by = Nobody)
    BY <2>1, <2>3, <2>5
  <2>7. \/ ~Exists(n) /\ entry'[n].by = c
        \/ Exists(n) /\ entry[n].by = c /\ entry'[n].by \in {c, Nobody}
    BY <2>1, <2>2, <2>3 DEF Exists
  <2>8. \A t \in Targets : Exists(t) => entry'[t] = entry[t] \/ In(t, op[c].created)
    BY <2>1, <2>2, <2>4
  <2>9. TreeOK'
    <3>1. ASSUME NEW m \in Names PROVE IF Exists(m)' THEN InPlace(m)' ELSE entry'[m] = Nothing
      <4>1. CASE node = Nothing /\ \A k \in Below(n) : ~Exists(k)
        <5>1. CASE m = n
          BY <2>2, <2>3, <4>1, <5>1 DEF Exists
        <5>2. CASE m # n /\ n \in AboveSet(m)
          <6>1. m \in Below(n)
            BY <5>2 DEF Below
          <6> QED
            BY <1>1, <2>2, <4>1, <5>2, <6>1 DEF TreeOK, Exists
        <5>3. CASE m # n /\ n \notin AboveSet(m)
          <6>1. \A d \in AboveSet(m) : d \in Names /\ d # n
            BY <5>3, AboveIs DEF Names, Targets, Dirs
          <6> QED
            BY <1>1, <2>2, <5>3, <6>1 DEF TreeOK, Exists, InPlace, IsDir
        <5> QED
          BY <5>1, <5>2, <5>3
      <4>2. CASE ~Exists(n) /\ InPlace(n) /\ node.kind # "none"
        <5>1. \A k \in Names : k # n \/ k = n
          OBVIOUS
        <5>2. \A k \in Names : IsDir(k) => k # n /\ entry'[k] = entry[k]
          BY <2>2, <4>2 DEF IsDir, Exists
        <5>3. \A d \in AboveSet(m) : d \in Names
          BY AboveIs DEF Names, Targets, Dirs
        <5>4. InPlace(m) => InPlace(m)'
          BY <5>2, <5>3 DEF InPlace, IsDir
        <5> QED
          BY <1>1, <2>2, <4>2, <5>4 DEF TreeOK, Exists
      <4>3. CASE n = "lock" /\ entry[n] = File(c, "blank") /\ node = File(c, "whole")
        <5>1. \A d \in AboveSet(m) : d \in Names /\ d # n
          BY <4>3, AboveIs DEF Names, Targets, Dirs
        <5>2. InPlace(m) => InPlace(m)'
          BY <2>2, <5>1 DEF InPlace, IsDir
        <5> QED
          BY <1>1, <2>2, <2>3, <4>3, <5>2 DEF TreeOK, Exists
      <4> QED
        BY <2>1, <4>1, <4>2, <4>3
    <3>2. Exists("lock")' => entry'["lock"].kind = "file" /\ entry'["lock"].by \in Commands
      <4>1. CASE n = "lock"
        BY <2>1, <2>2, <2>3, <4>1 DEF Exists
      <4>2. CASE n # "lock"
        BY <1>1, <2>2, <2>4, <4>2 DEF TreeOK, Exists
      <4> QED
        BY <4>1, <4>2
    <3> QED
      BY <3>1, <3>2 DEF TreeOK
  <2>10. \A m \in Names : \/ entry'[m] = entry[m]
                          \/ ~Exists(m) /\ entry'[m].by = c
                          \/ Exists(m) /\ entry[m].by = c /\ entry'[m].by \in {c, Nobody}
    BY <2>2, <2>7
  <2>11. \A m \in Names : entry[m].content = "edited" \/ (Exists(m) /\ entry[m].by = Nobody)
                 => entry'[m] = entry[m]
    BY <2>2, <2>6
  <2> QED
    BY <2>2, <2>8, <2>9, <2>10, <2>11
<1> QED
  BY <1>2, <1>3

-----------------------------------------------------------------------------
(* A step of a command keeps the invariant.                                *)

LEMMA OtherLists ==
    ASSUME InitInv, NEW d \in Commands, NEW c \in Commands \ {d}, EntryMove(c), NEW r, NEW st, NEW dir,
           Listed(r, entry, st, dir, d)
    PROVE  Listed(r, entry', st, dir, d)
<1>1. \A n \in Names : entry'[n].by = d => entry[n].by = d
  BY EntryMoved, NodesAre
<1>2. Targets \subseteq Names /\ Dirs \subseteq Names /\ "lock" \in Names
  BY DEF Names, Targets, Dirs
<1> QED
  BY <1>1, <1>2 DEF Listed

LEMMA OtherHolds ==
    ASSUME InitInv, NEW d \in Commands, NEW c \in Commands \ {d}, EntryMove(c), Holds(d)
    PROVE  entry'["lock"] = entry["lock"]
<1>1. "lock" \in Names
  BY DEF Names
<1> QED
  BY <1>1, EntryMoved DEF Holds, Exists

LEMMA OtherLeftovers ==
    ASSUME InitInv, NEW d \in Commands, NEW c \in Commands \ {d}, EntryMove(c),
           stage' = [stage EXCEPT ![c] = stage'[c]], staging' = [staging EXCEPT ![c] = staging'[c]]
    PROVE  /\ stage'[d] = stage[d] /\ staging'[d] = staging[d] /\ Made(d)' = Made(d)
           /\ Leftovers(d)' = Leftovers(d)
<1>1. stage'[d] = stage[d] /\ staging'[d] = staging[d]
  BY DiskIs
<1>2. \A n \in Names : entry'[n].by = d <=> entry[n].by = d
  <2>1. \A n \in Names : ~Exists(n) => entry[n] = Nothing
    BY DEF InitInv, TreeOK
  <2>2. Nothing.by = Nobody /\ d # Nobody
    BY NodesAre
  <2> QED
    BY <2>1, <2>2, EntryMoved
<1>3. Made(d)' = Made(d)
  BY <1>2 DEF Made
<1> QED
  BY <1>1, <1>3 DEF Leftovers

LEMMA MoveKeeps ==
    ASSUME InitInv, NEW c \in Commands, Moves(c), UNCHANGED <<scenario, changes, touched>>,
           faults' \in 0..scenario.faults
    PROVE  InitInv'
<1> DEFINE r == op'[c]
<1>1. /\ op' = [op EXCEPT ![c] = r] /\ r \in Operations /\ OwnOK(r)
      /\ op[c].pc \in Steps \ {"report"} /\ r.pc \in Steps
      /\ stage' = [stage EXCEPT ![c] = stage'[c]] /\ stage'[c] \in StagedFiles
      /\ staging' = [staging EXCEPT ![c] = staging'[c]] /\ staging'[c] \in BOOLEAN
      /\ EntryMove(c)
      /\ \A t \in Targets : In(t, r.created) => In(t, op[c].created) \/ ~Exists(t)
      /\ r.lock # "none" => entry'["lock"].kind = "file" /\ entry'["lock"].by = c
      /\ r.confirmed /\ r.err # "unconfirmed" => Listed(r, entry', stage'[c], staging'[c], c)
      /\ \A i \in Secured(r) : r.assets[i] \notin touched =>
            /\ entry'[r.assets[i]].kind = "file" /\ entry'[r.assets[i]].content = "whole"
            /\ Alone(r.assets[i], c)
  BY DEF Moves
<1>2. /\ entry \in [Names -> Nodes] /\ stage \in [Commands -> StagedFiles] /\ staging \in [Commands -> BOOLEAN]
      /\ op \in [Commands -> Operations]
  BY DiskIs, OpIs
<1>3. \A d \in Commands : d # c => op'[d] = op[d]
  BY <1>1, <1>2
<1>4. Running(c) /\ Running(c)'
  BY <1>1 DEF Running, Steps, Forward, Backward
<1>5. TypeOK'
  <2>1. entry' \in [Names -> Nodes]
    BY <1>1, EntryMoved
  <2>2. op' \in [Commands -> Operations] /\ stage' \in [Commands -> StagedFiles] /\ staging' \in [Commands -> BOOLEAN]
    <3> HIDE DEF r
    <3> QED
      BY <1>1, <1>2
  <2> QED
    BY <2>1, <2>2 DEF InitInv, TypeOK, StagedFiles
<1>6. \A d \in Commands : OwnOK(op'[d])
  BY <1>1, <1>3 DEF InitInv
<1>7. TreeOK'
  BY <1>1, EntryMoved
<1>8. LockOK'
  <2> SUFFICES ASSUME NEW d \in Commands, Running(d)', op'[d].lock # "none" PROVE Holds(d)'
    BY DEF LockOK
  <2>1. CASE d = c
    BY <1>1, <2>1 DEF Holds
  <2>2. CASE d # c
    <3>1. Running(d) /\ op[d].lock # "none"
      BY <1>3, <2>2 DEF Running
    <3>2. Holds(d)
      BY <3>1 DEF InitInv, LockOK
    <3>3. entry'["lock"] = entry["lock"]
      BY <1>1, <2>2, <3>2, OtherHolds
    <3> QED
      BY <3>2, <3>3 DEF Holds
  <2> QED
    BY <2>1, <2>2
<1>9. ListsOK'
  <2> SUFFICES ASSUME NEW d \in Commands, (Running(d) \/ At(d, "idle"))', Cleaned(d)'
               PROVE  Listed(op'[d], entry', stage'[d], staging'[d], d)
    BY DEF ListsOK
  <2>1. CASE d = c
    BY <1>1, <2>1 DEF Cleaned
  <2>2. CASE d # c
    <3>1. Listed(op[d], entry, stage[d], staging[d], d)
      BY <1>3, <2>2 DEF InitInv, ListsOK, Running, At, Cleaned
    <3>2. Listed(op[d], entry', stage[d], staging[d], d)
      BY <1>1, <2>2, <3>1, OtherLists
    <3> QED
      BY <1>1, <1>3, <2>2, <3>2, OtherLeftovers
  <2> QED
    BY <2>1, <2>2
<1>10. EndOK'
  <2> SUFFICES ASSUME NEW d \in Commands, ~Running(d)', Leftovers(d)'
               PROVE  (\/ op[d].result = "unconfirmed"
                       \/ /\ op[d].result = "initialized" \/ (op[d].pc = "crashed" /\ op[d].err = "none")
                          /\ ~staging[d] /\ "lock" \notin Made(d)
                       \/ /\ op[d].pc = "crashed"
                          /\ "lock" \in Made(d) \cup touched \/ ~Cleaned(d))'
    BY DEF EndOK
  <2>1. d # c
    BY <1>4
  <2>2. /\ op'[d] = op[d] /\ staging'[d] = staging[d] /\ Made(d)' = Made(d) /\ Leftovers(d)' = Leftovers(d)
        /\ touched' = touched
    BY <1>1, <1>3, <2>1, OtherLeftovers
  <2>3. ~Running(d) /\ Leftovers(d)
    BY <2>2 DEF Running
  <2>4. \/ op[d].result = "unconfirmed"
        \/ /\ op[d].result = "initialized" \/ (op[d].pc = "crashed" /\ op[d].err = "none")
           /\ ~staging[d] /\ "lock" \notin Made(d)
        \/ /\ op[d].pc = "crashed"
           /\ "lock" \in Made(d) \cup touched \/ ~Cleaned(d)
    BY <2>3 DEF InitInv, EndOK
  <2> QED
    BY <2>2, <2>4 DEF Cleaned
<1>11. SecureOK'
  <2> SUFFICES ASSUME NEW d \in Commands, NEW i \in Secured(op'[d]), op'[d].assets[i] \notin touched
               PROVE  Stands(op[d].assets[i], d)'
    BY DEF SecureOK
  <2> DEFINE t == op'[d].assets[i]
  <2>1. i \in 1..Len(op'[d].assets) /\ op'[d] \in Operations
    BY <1>5 DEF Secured, TypeOK
  <2>2. t \in Targets
    BY <2>1, AssetsAre DEF Operations
  <2>3. CASE d = c
    <3>1. entry'[t].kind = "file" /\ entry'[t].content = "whole" /\ Alone(t, c)
      BY <1>1, <2>3
    <3> QED
      BY <1>3, <2>3, <3>1 DEF Stands, Alone, Running
  <2>4. CASE d # c
    <3>1. i \in Secured(op[d]) /\ op[d].assets[i] = t
      BY <1>3, <2>4
    <3>2. Stands(t, d)
      BY <3>1 DEF InitInv, SecureOK
    <3>3. ~In(t, op[c].created)
      BY <1>1, <1>4, <2>4, <3>2 DEF Stands
    <3>4. Exists(t)
      BY <3>2 DEF Stands, Exists
    <3>5. entry'[t] = entry[t]
      BY <1>1, <2>2, <3>3, <3>4, EntryMoved
    <3>6. ~In(t, r.created)
      BY <1>1, <2>2, <3>3, <3>4
    <3>7. ASSUME NEW e \in Commands \ {d}, Running(e)', op'[e].pc # "report" PROVE ~In(t, op'[e].created)
      <4>1. CASE e = c
        BY <3>6, <4>1
      <4>2. CASE e # c
        <5>1. op'[e] = op[e] /\ Running(e) /\ op[e].pc # "report"
          BY <1>3, <3>7, <4>2 DEF Running
        <5> QED
          BY <3>2, <5>1 DEF Stands
      <4> QED
        BY <4>1, <4>2
    <3> QED
      BY <3>2, <3>5, <3>7 DEF Stands
  <2> QED
    BY <2>3, <2>4
<1> QED
  BY <1>5, <1>6, <1>7, <1>8, <1>9, <1>10, <1>11 DEF InitInv

-----------------------------------------------------------------------------
(* A command stops: it answers, or is killed.                              *)

\* Only a record changes, to one of a command that has stopped.
LEMMA StopKeeps ==
    ASSUME InitInv, NEW c \in Commands, Running(c), NEW r \in Operations, Become(c, r), OwnOK(r),
           r.pc \in {"done", "crashed"}, r.assets = op[c].assets, UNCHANGED <<disk, world>>,
           Secured(r) \subseteq Secured(op[c]),
           Leftovers(c) => \/ r.result = "unconfirmed"
                           \/ /\ r.result = "initialized" \/ (r.pc = "crashed" /\ r.err = "none")
                              /\ ~staging[c] /\ "lock" \notin Made(c)
                           \/ /\ r.pc = "crashed"
                              /\ "lock" \in Made(c) \cup touched \/ ~(r.confirmed /\ r.err # "unconfirmed")
    PROVE  InitInv'
<1>1. op' = [op EXCEPT ![c] = r] /\ op \in [Commands -> Operations]
  BY OpIs DEF Become
<1>2. op' \in [Commands -> Operations] /\ \A d \in Commands : op'[d] = IF d = c THEN r ELSE op[d]
  BY <1>1
<1>3. UNCHANGED <<entry, stage, staging, scenario, faults, changes, touched>>
  BY DEF disk, world
<1>4. \A d \in Commands : Running(d)' => d # c /\ Running(d) /\ op'[d] = op[d]
  BY <1>2 DEF Running
<1>5. TypeOK'
  BY <1>2, <1>3 DEF InitInv, TypeOK
<1>6. \A d \in Commands : OwnOK(op'[d])
  BY <1>2 DEF InitInv
<1>7. TreeOK'
  BY <1>3 DEF InitInv, TreeOK, Exists, InPlace, IsDir
<1>8. LockOK'
  BY <1>3, <1>4 DEF InitInv, LockOK, Holds
<1>9. ListsOK'
  <2> SUFFICES ASSUME NEW d \in Commands, (Running(d) \/ At(d, "idle"))', Cleaned(d)'
               PROVE  Listed(op'[d], entry', stage'[d], staging'[d], d)
    BY DEF ListsOK
  <2>1. d # c /\ op'[d] = op[d]
    BY <1>2, <1>4 DEF At
  <2>2. Listed(op[d], entry, stage[d], staging[d], d)
    BY <2>1 DEF InitInv, ListsOK, Running, At, Cleaned
  <2> QED
    BY <1>3, <2>1, <2>2 DEF Listed
<1>10. EndOK'
  <2> SUFFICES ASSUME NEW d \in Commands, ~Running(d)', Leftovers(d)'
               PROVE  (\/ op[d].result = "unconfirmed"
                       \/ /\ op[d].result = "initialized" \/ (op[d].pc = "crashed" /\ op[d].err = "none")
                          /\ ~staging[d] /\ "lock" \notin Made(d)
                       \/ /\ op[d].pc = "crashed"
                          /\ "lock" \in Made(d) \cup touched \/ ~Cleaned(d))'
    BY DEF EndOK
  <2>1. Leftovers(d) /\ Made(d)' = Made(d)
    BY <1>3 DEF Leftovers, Made
  <2>2. CASE d = c
    <3>1. op'[d] = r
      BY <1>2, <2>2
    <3> QED
      BY <1>3, <2>1, <2>2, <3>1 DEF Cleaned
  <2>3. CASE d # c
    <3>1. op'[d] = op[d] /\ ~Running(d)
      BY <1>2, <2>3 DEF Running
    <3>2. \/ op[d].result = "unconfirmed"
          \/ /\ op[d].result = "initialized" \/ (op[d].pc = "crashed" /\ op[d].err = "none")
             /\ ~staging[d] /\ "lock" \notin Made(d)
          \/ /\ op[d].pc = "crashed"
             /\ "lock" \in Made(d) \cup touched \/ ~Cleaned(d)
      BY <2>1, <3>1 DEF InitInv, EndOK
    <3> QED
      BY <1>3, <2>1, <3>1, <3>2 DEF Cleaned
  <2> QED
    BY <2>2, <2>3
<1>11. SecureOK'
  <2> SUFFICES ASSUME NEW d \in Commands, NEW i \in Secured(op'[d]), op'[d].assets[i] \notin touched
               PROVE  Stands(op[d].assets[i], d)'
    BY <1>3 DEF SecureOK
  <2>1. i \in Secured(op[d]) /\ op[d].assets[i] = op'[d].assets[i]
    BY <1>2
  <2>2. Stands(op'[d].assets[i], d)
    BY <2>1 DEF InitInv, SecureOK
  <2> QED
    BY <1>3, <1>4, <2>2 DEF Stands
<1> QED
  BY <1>5, <1>6, <1>7, <1>8, <1>9, <1>10, <1>11 DEF InitInv

\* Without a lock a running command has made nothing it does not report.
LEMMA NothingMade ==
    ASSUME InitInv, NEW c \in Commands, Running(c), Cleaned(c), op[c].lock = "none",
           op[c].pc = "report" => op[c].err # "none"
    PROVE  ~Leftovers(c)
<1>1. op[c].pc \in Steps /\ OwnOK(op[c])
  BY OpIs
<1>2. op[c].created = <<>> /\ op[c].dirs = <<>> /\ op[c].staged = {}
  <2>1. CASE op[c].pc = "report"
    BY <1>1, <2>1 DEF OwnOK
  <2>2. CASE op[c].pc # "report"
    BY <1>1, <2>2, BareUnlocked DEF Bare
  <2> QED
    BY <2>1, <2>2
<1>3. ~op[c].tracked \/ op[c].pc = "report"
  BY <1>1, BareUnlocked DEF Bare
<1>4. Listed(op[c], entry, stage[c], staging[c], c)
  BY DEF InitInv, ListsOK
<1>5. \A n \in Names : entry[n].by # c
  BY <1>2, <1>4, EmptyIs DEF Listed, Names
<1>6. ~staging[c] /\ \A t \in Targets : stage[c][t] = "none"
  BY <1>2, <1>3, <1>4 DEF Listed
<1> QED
  BY <1>5, <1>6 DEF Leftovers, Made

LEMMA ReportKeeps ==
    ASSUME InitInv, NEW c \in Commands, Report(c), UNCHANGED world
    PROVE  InitInv'
<1> DEFINE r == [op[c] EXCEPT !.pc = "done", !.result = Outcome(c)]
<1>1. op[c] \in Operations /\ OwnOK(op[c]) /\ op[c].pc = "report" /\ Become(c, r) /\ UNCHANGED disk
  BY OpIs DEF Report, At
<1>2. Outcome(c) \in Results \ {"none"}
  BY DEF Outcome, Results
<1>3. r \in Operations
  BY <1>1, <1>2, StepsAre DEF Operations
<1>4. /\ r.pc = "done" /\ r.result = Outcome(c) /\ r.assets = op[c].assets /\ r.next = op[c].next
      /\ r.err = op[c].err /\ r.confirmed = op[c].confirmed /\ r.state = op[c].state /\ r.held = op[c].held
  BY <1>1 DEF Operations
<1>5. Running(c) /\ op[c].lock = "none" /\ (op[c].err = "none" => op[c].confirmed)
  BY <1>1 DEF Running, OwnOK
<1>6. Outcome(c) = "initialized" <=> op[c].err = "none"
  BY DEF Outcome
<1>7. OwnOK(r)
  <2>1. r.next <= Len(r.assets) + 1
    BY <1>1, <1>4 DEF OwnOK
  <2>2. Outcome(c) \in {"input", "failed"} => op[c].err # "none" /\ op[c].confirmed /\ op[c].err # "unconfirmed"
    BY DEF Outcome, Cleaned
  <2> HIDE DEF r
  <2> QED
    BY <1>2, <1>4, <1>5, <1>6, <2>1, <2>2
    DEF OwnOK, AtAsset, Planning, Locking, Preparing, Publishing, Closing, Forward, Backward, Steps
<1>8. Secured(r) \subseteq Secured(op[c])
  <2> HIDE DEF r
  <2> QED
    BY <1>1, <1>4, <1>6 DEF Secured, Planning, Preparing, Publishing, Closing
<1>9. Leftovers(c) => r.result = "unconfirmed" \/ (r.result = "initialized" /\ ~staging[c] /\ "lock" \notin Made(c))
  <2> SUFFICES ASSUME Leftovers(c), Outcome(c) # "unconfirmed"
               PROVE  Outcome(c) = "initialized" /\ ~staging[c] /\ "lock" \notin Made(c)
    BY <1>4
  <2>1. Cleaned(c)
    BY <1>5 DEF Outcome, Cleaned
  <2>2. op[c].err = "none"
    BY <1>5, <2>1, NothingMade
  <2>3. Listed(op[c], entry, stage[c], staging[c], c)
    BY <1>5, <2>1 DEF InitInv, ListsOK
  <2> QED
    BY <1>1, <1>5, <1>6, <2>2, <2>3 DEF Listed, Made
<1> QED
  <2> HIDE DEF r
  <2> QED
    BY <1>1, <1>3, <1>4, <1>5, <1>7, <1>8, <1>9, StopKeeps

LEMMA CrashKeeps ==
    ASSUME InitInv, NEW c \in Commands, Crash(c)
    PROVE  InitInv'
<1> DEFINE r == [op[c] EXCEPT !.pc = "crashed"]
<1>1. op[c] \in Operations /\ OwnOK(op[c]) /\ Running(c) /\ Become(c, r) /\ UNCHANGED <<disk, world>>
  BY OpIs DEF Crash, Go
<1>2. r \in Operations
  BY <1>1, StepsAre DEF Operations
<1>3. /\ r.pc = "crashed" /\ r.result = op[c].result /\ r.assets = op[c].assets /\ r.next = op[c].next
      /\ r.err = op[c].err /\ r.confirmed = op[c].confirmed
  BY <1>1 DEF Operations
<1>4. op[c].pc \in Steps /\ op[c].result = "none" /\ (op[c].err = "none" => op[c].confirmed)
  BY <1>1, OpIs DEF OwnOK
<1>5. OwnOK(r)
  <2>1. r.next <= Len(r.assets) + 1
    BY <1>1, <1>3 DEF OwnOK
  <2> HIDE DEF r
  <2> QED
    BY <1>3, <1>4, <2>1
    DEF OwnOK, AtAsset, Planning, Locking, Preparing, Publishing, Closing, Forward, Backward, Steps
<1>6. Secured(r) = {}
  <2> HIDE DEF r
  <2> QED
    BY <1>3, <1>4 DEF Secured, Planning, Preparing, Publishing, Closing
<1>7. Leftovers(c) => \/ r.err = "none" /\ ~staging[c] /\ "lock" \notin Made(c)
                      \/ "lock" \in Made(c) \cup touched \/ ~(r.confirmed /\ r.err # "unconfirmed")
  <2> SUFFICES ASSUME Leftovers(c), "lock" \notin Made(c), Cleaned(c)
               PROVE  op[c].err = "none" /\ ~staging[c]
    BY <1>3 DEF Cleaned
  <2>1. op[c].lock = "none"
    <3>1. "lock" \in Names
      BY DEF Names
    <3> QED
      BY <1>1, <3>1 DEF InitInv, LockOK, Holds, Made
  <2>2. op[c].pc = "report" /\ op[c].err = "none"
    BY <1>1, <2>1, NothingMade
  <2>3. Listed(op[c], entry, stage[c], staging[c], c)
    BY <1>1 DEF InitInv, ListsOK
  <2> QED
    BY <2>2, <2>3 DEF Listed
<1> QED
  <2> HIDE DEF r
  <2> QED
    BY <1>1, <1>2, <1>3, <1>5, <1>6, <1>7, StopKeeps

-----------------------------------------------------------------------------
(* Other programs keep the invariant.                                      *)

\* Names are in the directories above them, and nothing is above itself.
LEMMA TreeIs ==
    /\ \A n \in Names, m \in Names : m \in Below(n) <=> n \in AboveSet(m)
    /\ \A n \in Names : n \notin AboveSet(n) /\ AboveSet(n) \subseteq Dirs
    /\ \A n \in Names, d \in Names, m \in Names : d \in AboveSet(m) /\ n \in AboveSet(d) => n \in AboveSet(m)
    /\ \A n \in Names, m \in Names : n \in AboveSet(m) => m \notin AboveSet(n)
    /\ \A n \in Names : Below(n) \subseteq Names
<1>1. Names = {"policy", "agents", "rule", "cursor", "rules", "lock"} /\ Dirs = {"cursor", "rules"}
  BY DEF Names, Targets, Dirs
<1>2. /\ AboveSet("rule") = {"cursor", "rules"} /\ AboveSet("rules") = {"cursor"}
      /\ AboveSet("policy") = {} /\ AboveSet("agents") = {} /\ AboveSet("cursor") = {} /\ AboveSet("lock") = {}
  BY <1>1, AboveIs
<1>3. \A n \in Names, m \in Names : m \in Below(n) <=> n \in AboveSet(m)
  BY DEF Below
<1>4. \A n \in Names : n \notin AboveSet(n) /\ AboveSet(n) \subseteq Dirs
  BY <1>1, <1>2
<1>5. \A n \in Names, d \in Names, m \in Names : d \in AboveSet(m) /\ n \in AboveSet(d) => n \in AboveSet(m)
  <2> SUFFICES ASSUME NEW n \in Names, NEW d \in Names, NEW m \in Names, d \in AboveSet(m), n \in AboveSet(d)
               PROVE  n \in AboveSet(m)
    OBVIOUS
  <2>1. m \in {"rule", "rules"} /\ d \in {"rule", "rules"}
    BY AboveIs
  <2> QED
    BY <1>2, <2>1
<1>6. \A n \in Names, m \in Names : n \in AboveSet(m) => m \notin AboveSet(n)
  BY <1>4, <1>5
<1> QED
  BY <1>3, <1>4, <1>5, <1>6 DEF Below

\* What is put under a name, or taken away with what is below it.
LEMMA Replaced ==
    ASSUME InitInv, NEW n \in Names, NEW node \in Nodes, InPlace(n) \/ node = Nothing,
           n = "lock" => node = Nothing,
           entry' = [m \in Names |-> IF m = n THEN node ELSE IF m \in Below(n) THEN Nothing ELSE entry[m]],
           node.kind = "none" => node = Nothing
    PROVE  /\ entry' \in [Names -> Nodes] /\ TreeOK'
           /\ entry'[n] = node /\ \A m \in Below(n) : entry'[m] = Nothing
           /\ \A m \in Names \ ({n} \cup Below(n)) : entry'[m] = entry[m]
<1>1. entry \in [Names -> Nodes] /\ TreeOK /\ Nothing \in Nodes /\ Nothing.kind = "none"
  BY DiskIs DEF InitInv, Nothing, Nodes
<1>2. /\ entry' \in [Names -> Nodes]
      /\ entry'[n] = node /\ \A m \in Below(n) : entry'[m] = Nothing
      /\ \A m \in Names \ ({n} \cup Below(n)) : entry'[m] = entry[m]
  BY <1>1, TreeIs
<1>3. ASSUME NEW m \in Names PROVE IF Exists(m)' THEN InPlace(m)' ELSE entry'[m] = Nothing
  <2>1. CASE m \in Below(n)
    BY <1>1, <1>2, <2>1 DEF Exists
  <2>2. CASE m = n
    <3>1. CASE node = Nothing
      BY <1>1, <1>2, <2>2, <3>1 DEF Exists
    <3>2. CASE InPlace(n) /\ node # Nothing
      <4>1. \A d \in AboveSet(n) : d \in Names /\ d # n /\ d \notin Below(n)
        BY TreeIs DEF Names
      <4> QED
        BY <1>2, <2>2, <3>2, <4>1 DEF Exists, InPlace, IsDir
    <3> QED
      BY <3>1, <3>2
  <2>3. CASE m # n /\ m \notin Below(n)
    <3>1. entry'[m] = entry[m] /\ n \notin AboveSet(m)
      BY <1>2, <2>3, TreeIs
    <3>2. \A d \in AboveSet(m) : d \in Names /\ d # n /\ d \notin Below(n)
      BY <3>1, TreeIs DEF Names
    <3>3. InPlace(m) => InPlace(m)'
      BY <1>2, <3>2 DEF InPlace, IsDir
    <3> QED
      BY <1>1, <3>1, <3>3 DEF TreeOK, Exists
  <2> QED
    BY <2>1, <2>2, <2>3
<1>4. Exists("lock")' => entry'["lock"].kind = "file" /\ entry'["lock"].by \in Commands
  <2>1. "lock" \in Names /\ "lock" \notin Below(n)
    BY TreeIs, AboveIs DEF Names
  <2>2. CASE n = "lock"
    BY <1>1, <1>2, <2>2 DEF Exists
  <2>3. CASE n # "lock"
    BY <1>1, <1>2, <2>1, <2>3 DEF TreeOK, Exists
  <2> QED
    BY <2>2, <2>3
<1> QED
  BY <1>2, <1>3, <1>4 DEF TreeOK

\* What a step of another program may do.
Foreign ==
    /\ entry' \in [Names -> Nodes] /\ TreeOK'
    /\ stage' \in [Commands -> StagedFiles]
    /\ \A n \in Names : entry'[n].by \in {entry[n].by, Nobody}
    /\ \A c \in Commands : Holds(c) /\ op[c].pc # "crashed" => Holds(c)'
    /\ \A n \in Names : n \notin touched' => entry'[n] = entry[n]
    /\ \A c \in Commands, t \in Targets : stage'[c][t] # "none" <=> stage[c][t] # "none"
    /\ touched \subseteq touched' /\ touched' \subseteq EnvNames \cup UNION {Below(n) : n \in EnvNames}
    /\ changes' \in 0..scenario.changes
    /\ UNCHANGED <<staging, op, scenario, faults>>

LEMMA TouchIs ==
    ASSUME InitInv, NEW n \in Names, Touch(n), UNCHANGED scenario
    PROVE  changes' \in 0..scenario.changes /\ n \in EnvNames
<1>1. changes \in 0..scenario.changes /\ scenario.changes \in Nat
  <2>1. scenario \in Scenarios /\ changes \in 0..scenario.changes
    BY DEF InitInv, TypeOK
  <2> QED
    BY <2>1, InitTransactionAssumption
<1> QED
  BY <1>1 DEF Touch

LEMMA ReplaceIsForeign ==
    ASSUME InitInv, UNCHANGED <<staging, op, scenario, faults, stage>>, NEW n \in Names, Touch(n),
           NEW node \in Nodes, InPlace(n) \/ node = Nothing,
           n = "lock" => node = Nothing /\ op[entry["lock"].by].pc = "crashed",
           entry' = [m \in Names |-> IF m = n THEN node ELSE IF m \in Below(n) THEN Nothing ELSE entry[m]],
           node.kind = "none" => node = Nothing, node.by = Nobody,
           touched' = touched \cup {n} \cup Below(n)
    PROVE  Foreign
<1>1. /\ entry' \in [Names -> Nodes] /\ TreeOK'
      /\ entry'[n] = node /\ \A m \in Below(n) : entry'[m] = Nothing
      /\ \A m \in Names \ ({n} \cup Below(n)) : entry'[m] = entry[m]
  BY Replaced
<1>2. \A m \in Names : entry'[m].by \in {entry[m].by, Nobody}
  BY <1>1, NodesAre DEF Nothing
<1>3. ASSUME NEW c \in Commands, Holds(c), op[c].pc # "crashed" PROVE Holds(c)'
  <2>1. n # "lock" /\ "lock" \notin Below(n) /\ "lock" \in Names
    BY <1>3, TreeIs, AboveIs DEF Holds, Names
  <2> QED
    BY <1>1, <1>3, <2>1 DEF Holds
<1>4. touched' \subseteq EnvNames \cup UNION {Below(m) : m \in EnvNames}
  BY TouchIs DEF InitInv, TypeOK
<1>5. stage' \in [Commands -> StagedFiles] /\ changes' \in 0..scenario.changes
  BY DiskIs, TouchIs
<1> QED
  BY <1>1, <1>2, <1>3, <1>4, <1>5 DEF Foreign

LEMMA EditIsForeign ==
    ASSUME InitInv, UNCHANGED <<staging, op, scenario, faults>>, NEW n \in Names, Edit(n)
    PROVE  Foreign
<1> DEFINE node == [entry[n] EXCEPT !.content = "edited"]
<1>1. entry \in [Names -> Nodes] /\ TreeOK /\ stage \in [Commands -> StagedFiles]
  BY DiskIs DEF InitInv
<1>2. node \in Nodes /\ node.kind = entry[n].kind /\ node.by = entry[n].by
  BY <1>1 DEF Nodes
<1>3. entry' = [entry EXCEPT ![n] = node] /\ entry[n].kind = "file"
  BY DEF Edit, Put
<1>4. entry' \in [Names -> Nodes] /\ entry'[n] = node /\ \A m \in Names \ {n} : entry'[m] = entry[m]
  BY <1>1, <1>2, <1>3
<1>5. \A m \in Names : entry'[m].kind = entry[m].kind /\ entry'[m].by = entry[m].by
  BY <1>2, <1>4
<1>6. TreeOK'
  <2>1. ASSUME NEW m \in Names PROVE IF Exists(m)' THEN InPlace(m)' ELSE entry'[m] = Nothing
    <3>1. \A d \in AboveSet(m) : d \in Names
      BY TreeIs DEF Names
    <3>2. (Exists(m)' <=> Exists(m)) /\ (InPlace(m)' <=> InPlace(m))
      BY <1>5, <3>1 DEF Exists, InPlace, IsDir
    <3>3. ~Exists(m) => m # n
      BY <1>3 DEF Exists
    <3> QED
      BY <1>1, <1>4, <3>2, <3>3 DEF TreeOK
  <2>2. "lock" \in Names
    BY DEF Names
  <2> QED
    BY <1>1, <1>5, <2>1, <2>2 DEF TreeOK, Exists
<1>7. stage' \in [Commands -> StagedFiles]
      /\ \A c \in Commands, t \in Targets : stage'[c][t] # "none" <=> stage[c][t] # "none"
  <2>1. stage' = [c \in Commands |-> [t \in Targets |->
                   IF t = n /\ entry[n].by = c /\ stage[c][t] # "none" THEN "edited" ELSE stage[c][t]]]
    BY DEF Edit
  <2>2. \A c \in Commands, t \in Targets : stage[c][t] \in {"none", "blank", "whole", "edited"}
    BY <1>1 DEF StagedFiles
  <2> QED
    BY <2>1, <2>2 DEF StagedFiles
<1>8. Touch(n) /\ touched' = touched \cup {n}
  BY DEF Edit
<1>9. touched' \subseteq EnvNames \cup UNION {Below(m) : m \in EnvNames} /\ changes' \in 0..scenario.changes
  BY <1>8, TouchIs DEF InitInv, TypeOK
<1>10. \A c \in Commands : Holds(c) => Holds(c)'
  BY <1>5 DEF Holds, Names
<1>11. \A m \in Names : m \notin touched' => entry'[m] = entry[m]
  BY <1>4, <1>8
<1> QED
  BY <1>4, <1>5, <1>6, <1>7, <1>8, <1>9, <1>10, <1>11 DEF Foreign

LEMMA EnvIsForeign ==
    ASSUME InitInv, EnvStep
    PROVE  Foreign
<1>1. UNCHANGED <<staging, op, scenario, faults>>
  BY DEF EnvStep
<1>2. PICK n \in Names : Create(n) \/ Edit(n) \/ Delete(n)
  BY DEF EnvStep
<1>3. CASE Create(n)
  <2>1. PICK node \in ForeignNodes(n) :
          entry' = [m \in Names |-> IF m = n THEN node ELSE IF m \in Below(n) THEN Nothing ELSE entry[m]]
    BY <1>3 DEF Create
  <2>2. node \in Nodes /\ node.by = Nobody /\ node.kind # "none"
    BY <2>1 DEF ForeignNodes, Nodes, File, Directory
  <2> QED
    BY <1>1, <1>3, <2>1, <2>2, ReplaceIsForeign DEF Create
<1>4. CASE Edit(n)
  BY <1>1, <1>4, EditIsForeign
<1>5. CASE Delete(n)
  <2>1. entry' = [m \in Names |-> IF m = n THEN Nothing ELSE IF m \in Below(n) THEN Nothing ELSE entry[m]]
    BY <1>5 DEF Delete
  <2>2. Nothing \in Nodes /\ Nothing.by = Nobody
    BY DEF Nothing, Nodes
  <2> QED
    BY <1>1, <1>5, <2>1, <2>2, ReplaceIsForeign DEF Delete
<1> QED
  BY <1>2, <1>3, <1>4, <1>5

LEMMA EnvKeeps ==
    ASSUME InitInv, EnvStep
    PROVE  InitInv'
<1>1. /\ entry' \in [Names -> Nodes] /\ TreeOK'
      /\ stage' \in [Commands -> StagedFiles]
      /\ \A n \in Names : entry'[n].by \in {entry[n].by, Nobody}
      /\ \A c \in Commands : Holds(c) /\ op[c].pc # "crashed" => Holds(c)'
      /\ \A n \in Names : n \notin touched' => entry'[n] = entry[n]
      /\ \A c \in Commands, t \in Targets : stage'[c][t] # "none" <=> stage[c][t] # "none"
      /\ touched \subseteq touched' /\ touched' \subseteq EnvNames \cup UNION {Below(n) : n \in EnvNames}
      /\ changes' \in 0..scenario.changes
      /\ UNCHANGED <<staging, op, scenario, faults>>
  BY EnvIsForeign DEF Foreign
<1>2. Nobody \notin Commands /\ Targets \subseteq Names /\ Dirs \subseteq Names /\ "lock" \in Names
  BY InitTransactionAssumption DEF Names, Targets, Dirs
<1>3. TypeOK'
  BY <1>1 DEF InitInv, TypeOK, StagedFiles
<1>4. \A c \in Commands : OwnOK(op'[c])
  BY <1>1 DEF InitInv
<1>5. LockOK'
  BY <1>1 DEF InitInv, LockOK, Running
<1>6. \A c \in Commands, n \in Names : entry'[n].by = c => entry[n].by = c
  BY <1>1, <1>2
<1>7. ListsOK'
  <2> SUFFICES ASSUME NEW d \in Commands, (Running(d) \/ At(d, "idle"))', Cleaned(d)'
               PROVE  Listed(op'[d], entry', stage'[d], staging'[d], d)
    BY DEF ListsOK
  <2>1. Listed(op[d], entry, stage[d], staging[d], d)
    BY <1>1 DEF InitInv, ListsOK, Running, At, Cleaned
  <2> QED
    BY <1>1, <1>2, <1>6, <2>1 DEF Listed
<1>8. EndOK'
  <2> SUFFICES ASSUME NEW d \in Commands, ~Running(d)', Leftovers(d)'
               PROVE  (\/ op[d].result = "unconfirmed"
                       \/ /\ op[d].result = "initialized" \/ (op[d].pc = "crashed" /\ op[d].err = "none")
                          /\ ~staging[d] /\ "lock" \notin Made(d)
                       \/ /\ op[d].pc = "crashed"
                          /\ "lock" \in Made(d) \cup touched \/ ~Cleaned(d))'
    BY DEF EndOK
  <2>1. Made(d)' \subseteq Made(d)
    BY <1>6 DEF Made
  <2>2. Leftovers(d) /\ ~Running(d)
    BY <1>1, <2>1 DEF Leftovers, Running
  <2>3. \/ op[d].result = "unconfirmed"
        \/ /\ op[d].result = "initialized" \/ (op[d].pc = "crashed" /\ op[d].err = "none")
           /\ ~staging[d] /\ "lock" \notin Made(d)
        \/ /\ op[d].pc = "crashed"
           /\ "lock" \in Made(d) \cup touched \/ ~Cleaned(d)
    BY <2>2 DEF InitInv, EndOK
  <2>4. "lock" \in Made(d) \cup touched => ("lock" \in Made(d) \cup touched)'
    BY <1>1, <1>2 DEF Made
  <2>5. Cleaned(d)' <=> Cleaned(d)
    BY <1>1 DEF Cleaned
  <2> QED
    BY <1>1, <2>1, <2>3, <2>4, <2>5
<1>9. SecureOK'
  <2> SUFFICES ASSUME NEW d \in Commands, NEW i \in Secured(op'[d]), op'[d].assets[i] \notin touched'
               PROVE  Stands(op[d].assets[i], d)'
    BY DEF SecureOK
  <2>1. i \in Secured(op[d]) /\ op[d].assets[i] \notin touched
    BY <1>1
  <2>2. Stands(op[d].assets[i], d)
    BY <2>1 DEF InitInv, SecureOK
  <2>3. op[d].assets[i] \in Targets
    <3>1. i \in 1..Len(op[d].assets) /\ op[d] \in Operations
      BY <2>1, OpIs DEF Secured
    <3> QED
      BY <3>1, AssetsAre DEF Operations
  <2>4. entry'[op[d].assets[i]] = entry[op[d].assets[i]]
    BY <1>1, <1>2, <2>3
  <2> QED
    BY <1>1, <2>2, <2>4 DEF Stands, Running
<1> QED
  BY <1>1, <1>3, <1>4, <1>5, <1>7, <1>8, <1>9 DEF InitInv


-----------------------------------------------------------------------------
(* Steps that change the record of a command alone.                        *)

LEMMA BecomeIs ==
    ASSUME InitInv, NEW c \in Commands, NEW r, Become(c, r)
    PROVE  op'[c] = r /\ op' = [op EXCEPT ![c] = op'[c]]
<1>1. op \in [Commands -> Operations]
  BY OpIs
<1> QED
  BY <1>1 DEF Become

LEMMA QuietMove ==
    ASSUME InitInv, NEW c \in Commands, NEW r \in Operations, Become(c, r), OwnOK(r), UNCHANGED disk,
           op[c].pc \in Steps \ {"report"}, r.pc \in Steps, r.assets = op[c].assets,
           r.lock = op[c].lock,
           \A t : In(t, r.created) => In(t, op[c].created),
           r.confirmed /\ r.err # "unconfirmed" =>
              /\ Cleaned(c) /\ r.created = op[c].created /\ r.dirs = op[c].dirs
              /\ r.staged = op[c].staged /\ r.tracked = op[c].tracked
              /\ r.pc \in {"undo_dirs", "undo_lock", "report"} => op[c].pc \in {"undo_dirs", "undo_lock"},
           \A i \in Secured(r) : i \in Secured(op[c]) \/ Stands(r.assets[i], c)
    PROVE  Moves(c)
<1>1. op'[c] = r /\ op' = [op EXCEPT ![c] = op'[c]]
  BY BecomeIs
<1>2. UNCHANGED <<entry, stage, staging>>
  BY DEF disk
<1>3. stage' = [stage EXCEPT ![c] = stage'[c]] /\ stage'[c] \in StagedFiles
  BY <1>2, DiskIs
<1>4. staging' = [staging EXCEPT ![c] = staging'[c]] /\ staging'[c] \in BOOLEAN
  BY <1>2, DiskIs
<1>5. Running(c)
  BY OpIs
<1>6. r.lock # "none" => entry'["lock"].kind = "file" /\ entry'["lock"].by = c
  BY <1>2, <1>5 DEF InitInv, LockOK, Holds
<1>7. r.confirmed /\ r.err # "unconfirmed" => Listed(r, entry', stage'[c], staging'[c], c)
  BY <1>2, <1>5 DEF InitInv, ListsOK, Listed
<1>8. \A i \in Secured(r) : r.assets[i] \notin touched =>
         /\ entry'[r.assets[i]].kind = "file" /\ entry'[r.assets[i]].content = "whole"
         /\ Alone(r.assets[i], c)
  BY <1>2 DEF InitInv, SecureOK, Stands, Alone
<1> QED
  BY <1>1, <1>2, <1>3, <1>4, <1>6, <1>7, <1>8 DEF Moves, EntryMove

\* The record after an error, with what is known of the lock and the staged files.
ThrownAs(c, e, l, k) == [Thrown(op[c], e) EXCEPT !.lock = l, !.known = k]

LEMMA ThrownWith ==
    ASSUME InitInv, NEW c \in Commands, NEW e \in Errors \ {"none"}, op[c].pc \in Forward, NEW r,
           NEW l \in {"none", "unknown", "whole"}, NEW k \in SUBSET Targets,
           r = ThrownAs(c, e, l, k),
           op[c].lock = "none" <=> l = "none", op[c].lock = "none" => k = {}
    PROVE  /\ r \in Operations /\ OwnOK(r) /\ r.pc = "undo_files" /\ r.err = e /\ Secured(r) = {}
           /\ r.assets = op[c].assets /\ r.lock = l
           /\ r.created = op[c].created /\ r.dirs = op[c].dirs /\ r.staged = op[c].staged
           /\ r.tracked = op[c].tracked /\ r.confirmed = op[c].confirmed /\ r.next = op[c].next
           /\ r.result = op[c].result
<1>1. op[c] \in Operations /\ OwnOK(op[c]) /\ op[c].pc \in Steps
  BY OpIs, StepsAre DEF Steps
<1>2. r = [op[c] EXCEPT !.pc = "undo_files", !.err = e, !.lock = l, !.known = k]
  BY <1>1 DEF ThrownAs, Thrown, Operations
<1>3. "undo_files" \in Labels
  BY DEF Labels, Steps, Backward
<1>4. r \in Operations
  BY <1>1, <1>2, <1>3 DEF Operations
<1>5. /\ r.pc = "undo_files" /\ r.assets = op[c].assets /\ r.next = op[c].next
      /\ r.depth = op[c].depth /\ r.held = op[c].held /\ r.looked = op[c].looked
      /\ r.state = op[c].state /\ r.lock = l /\ r.tracked = op[c].tracked
      /\ r.staged = op[c].staged /\ r.known = k /\ r.created = op[c].created
      /\ r.dirs = op[c].dirs /\ r.err = e /\ r.confirmed = op[c].confirmed
      /\ r.result = op[c].result
  BY <1>1, <1>2 DEF Operations
<1>6. op[c].lock = "none" => Bare(op[c])
  BY <1>1, BareUnlocked DEF Forward
<1>7. op[c].confirmed /\ op[c].result = "none" /\ r.next <= Len(r.assets) + 1
  BY <1>1, <1>5 DEF OwnOK
<1>8. OwnOK(r)
  BY <1>2, <1>5, <1>6, <1>7
  DEF OwnOK, Bare, RuleNext, AtAsset, Planning, Locking, Preparing, Publishing, Closing, Forward,
      Backward, Steps
<1>9. Secured(r) = {}
  BY <1>5, <1>7 DEF Secured, Planning, Preparing, Publishing, Closing
<1> QED
  BY <1>4, <1>5, <1>8, <1>9

LEMMA ThrownIs ==
    ASSUME InitInv, NEW c \in Commands, NEW e \in Errors \ {"none"}, op[c].pc \in Forward, NEW r,
           r = Thrown(op[c], e)
    PROVE  /\ r \in Operations /\ OwnOK(r) /\ r.pc = "undo_files" /\ r.err = e /\ Secured(r) = {}
           /\ r.assets = op[c].assets /\ r.lock = op[c].lock
           /\ r.created = op[c].created /\ r.dirs = op[c].dirs /\ r.staged = op[c].staged
           /\ r.tracked = op[c].tracked /\ r.confirmed = op[c].confirmed /\ r.next = op[c].next
           /\ r.result = op[c].result
<1>1. op[c] \in Operations /\ OwnOK(op[c]) /\ op[c].pc \in Steps
  BY OpIs, StepsAre DEF Steps
<1>2. op[c].lock \in {"none", "unknown", "whole"} /\ op[c].known \in SUBSET Targets
  BY <1>1 DEF Operations
<1>3. op[c].lock = "none" => op[c].known = {}
  BY <1>1, BareUnlocked DEF Bare, Forward
<1>4. PICK l \in {"none", "unknown", "whole"}, k \in SUBSET Targets : l = op[c].lock /\ k = op[c].known
  BY <1>2
<1>5. r = ThrownAs(c, e, l, k)
  BY <1>1, <1>4 DEF ThrownAs, Thrown, Operations
<1> QED
  BY <1>3, <1>4, <1>5, ThrownWith

\* An error with nothing made by the call that failed.
LEMMA ThrowMoves ==
    ASSUME InitInv, NEW c \in Commands, NEW e \in Errors \ {"none"}, op[c].pc \in Forward,
           Throw(c, e), UNCHANGED disk
    PROVE  Moves(c)
<1> DEFINE r == Thrown(op[c], e)
<1>0. r = Thrown(op[c], e)
  OBVIOUS
<1> HIDE DEF r
<1>1. /\ r \in Operations /\ OwnOK(r) /\ r.pc = "undo_files" /\ r.err = e /\ Secured(r) = {}
      /\ r.assets = op[c].assets /\ r.lock = op[c].lock
      /\ r.created = op[c].created /\ r.dirs = op[c].dirs /\ r.staged = op[c].staged
      /\ r.tracked = op[c].tracked /\ r.confirmed = op[c].confirmed
  BY <1>0, ThrownIs
<1>2. Become(c, r)
  BY <1>0 DEF Throw
<1>3. op[c].pc \in Steps \ {"report"} /\ op[c].err = "none" /\ r.pc \in Steps
  BY <1>1, OpIs DEF Forward, Steps, Backward, OwnOK
<1> QED
  BY <1>1, <1>2, <1>3, QuietMove DEF Cleaned

LEMMA ErrorsAre == Errors = {"none", "input", "other", "unconfirmed"}
  BY DEF Errors

-----------------------------------------------------------------------------
(* Planning.                                                               *)

LEMMA AssetIs ==
    ASSUME InitInv, NEW c \in Commands, op[c].pc \in AtAsset
    PROVE  /\ Asset(c) \in Targets /\ Asset(c) = op[c].assets[op[c].next]
           /\ op[c].next \in 1..Len(op[c].assets) /\ Asset(c) \in Names /\ Asset(c) # "lock"
           /\ Below(Asset(c)) = {} /\ AboveSet(Asset(c)) \subseteq Dirs /\ op[c].next \in {1, 2}
<1>1. op[c] \in Operations /\ OwnOK(op[c])
  BY OpIs
<1>2. /\ op[c].assets \in {Assets[i] : i \in Integrations} /\ op[c].next \in 1..3
      /\ op[c].next <= Len(op[c].assets)
  BY <1>1 DEF Operations, OwnOK
<1>3. op[c].next \in 1..Len(op[c].assets) /\ op[c].next \in {1, 2}
  BY <1>2, AssetsAre
<1>4. Asset(c) \in Targets /\ Asset(c) = op[c].assets[op[c].next]
  BY <1>2, <1>3, AssetsAre DEF Asset
<1>5. Targets \subseteq Names \ {"lock", "cursor", "rules"}
  BY DEF Names, Targets, Dirs
<1> QED
  BY <1>3, <1>4, <1>5, BelowIs, TreeIs

LEMMA ConcludeMoves ==
    ASSUME InitInv, NEW c \in Commands, op[c].pc \in Planning, NEW s \in {"absent", "unchanged"},
           Conclude(c, s), UNCHANGED disk,
           s = "unchanged" => entry[Asset(c)].kind = "file" /\ entry[Asset(c)].content = "whole"
    PROVE  Moves(c)
<1> DEFINE last == op[c].next = Len(op[c].assets)
           r == [op[c] EXCEPT !.state[Asset(c)] = s, !.next = IF last THEN 1 ELSE @ + 1,
                     !.pc = IF ~last THEN "look" ELSE IF op[c].held THEN "parents" ELSE "lock"]
<1>1. op[c] \in Operations /\ OwnOK(op[c]) /\ Become(c, r)
  BY OpIs DEF Conclude
<1>2. /\ Asset(c) \in Targets /\ Asset(c) = op[c].assets[op[c].next] /\ op[c].next \in 1..Len(op[c].assets)
      /\ op[c].next \in {1, 2}
  BY AssetIs DEF AtAsset, Planning
<1>3. op[c].assets \in {Assets[i] : i \in Integrations} /\ op[c].state \in [Targets -> {"absent", "unchanged"}]
  BY <1>1 DEF Operations
<1>4. Len(op[c].assets) \in 1..2
  BY <1>3, AssetsAre
<1>5. r \in Operations
  <2>1. [op[c].state EXCEPT ![Asset(c)] = s] \in [Targets -> {"absent", "unchanged"}]
    BY <1>2, <1>3
  <2>2. {"look", "parents", "lock"} \subseteq Labels
    BY StepsAre DEF Planning, Preparing, Locking
  <2>3. (IF last THEN 1 ELSE op[c].next + 1) \in 1..3
    BY <1>2
  <2> QED
    BY <1>1, <2>1, <2>2, <2>3 DEF Operations
<1>6. /\ r.pc = IF ~last THEN "look" ELSE IF op[c].held THEN "parents" ELSE "lock"
      /\ r.assets = op[c].assets /\ r.next = IF last THEN 1 ELSE op[c].next + 1
      /\ r.depth = op[c].depth /\ r.held = op[c].held /\ r.looked = op[c].looked
      /\ r.state = [op[c].state EXCEPT ![Asset(c)] = s] /\ r.lock = op[c].lock
      /\ r.tracked = op[c].tracked /\ r.staged = op[c].staged /\ r.known = op[c].known
      /\ r.created = op[c].created /\ r.dirs = op[c].dirs /\ r.err = op[c].err
      /\ r.confirmed = op[c].confirmed /\ r.result = op[c].result
  BY <1>1 DEF Operations
<1>7. /\ Bare(op[c]) /\ op[c].depth = 1 /\ op[c].lock = (IF op[c].held THEN "whole" ELSE "none")
      /\ op[c].err = "none" /\ op[c].confirmed /\ op[c].result = "none"
  BY <1>1 DEF OwnOK, Planning, Forward, Steps
<1>8. r.next <= Len(r.assets) + 1 /\ (~last => r.next <= Len(r.assets)) /\ Len(<<>>) = 0
  BY <1>2, <1>4, <1>6
<1>9. OwnOK(r)
  <2> HIDE DEF r, last
  <2> QED
    BY <1>6, <1>7, <1>8
    DEF OwnOK, Bare, RuleNext, AtAsset, Planning, Locking, Preparing, Publishing, Closing, Forward,
      Backward, Steps
<1>10. ASSUME NEW i \in Secured(r) PROVE i \in Secured(op[c]) \/ Stands(r.assets[i], c)
  <2>1. op[c].held
    BY <1>6, <1>7, <1>10 DEF Secured, Planning, Preparing, Publishing, Closing
  <2>2. i \in 1..Len(op[c].assets) /\ r.state[op[c].assets[i]] = "unchanged" /\ (r.pc = "look" => i < op[c].next + 1)
    BY <1>6, <1>7, <1>10, <2>1 DEF Secured, Planning, Preparing, Publishing, Closing
  <2>3. i <= op[c].next
    BY <1>2, <1>4, <1>6, <2>1, <2>2
  <2>4. CASE i = op[c].next
    <3>1. r.state[Asset(c)] = s
      BY <1>2, <1>3, <1>6
    <3>2. s = "unchanged" /\ r.assets[i] = Asset(c)
      BY <1>2, <1>6, <2>2, <2>4, <3>1
    <3>3. Holds(c)
      BY <1>7, <2>1, OpIs, StepsAre DEF InitInv, LockOK
    <3> QED
      BY <3>2, <3>3, HolderAlone DEF Stands, Alone
  <2>5. CASE i # op[c].next
    <3>1. i < op[c].next /\ op[c].assets[i] \in Targets /\ op[c].assets[i] # Asset(c)
      <4>1. i = 1 /\ op[c].next = 2
        BY <1>2, <1>4, <2>2, <2>3, <2>5
      <4>2. op[c].assets[1] = "policy" /\ op[c].assets[2] \in {"agents", "rule"}
        BY <1>2, <1>3, <1>4, <4>1, AssetsAre
      <4> QED
        BY <1>2, <4>1, <4>2 DEF Targets
    <3>2. op[c].state[op[c].assets[i]] = "unchanged"
      BY <1>3, <1>6, <2>2, <3>1
    <3> QED
      BY <2>1, <2>2, <3>1, <3>2 DEF Secured
  <2> QED
    BY <2>4, <2>5
<1>11. op[c].pc \in Steps \ {"report"} /\ r.pc \in Steps /\ r.pc \notin {"undo_dirs", "undo_lock", "report"}
  BY <1>6 DEF Planning, Steps, Forward
<1> HIDE DEF r
<1> QED
  BY <1>1, <1>5, <1>6, <1>7, <1>9, <1>10, <1>11, QuietMove DEF Cleaned

LEMMA LookMoves ==
    ASSUME InitInv, NEW c \in Commands, Look(c)
    PROVE  Moves(c)
<1>1. op[c].pc = "look" /\ op[c].pc \in Planning /\ op[c].pc \in Forward /\ op[c].pc \in AtAsset /\ UNCHANGED disk
  BY DEF Look, At, Planning, Forward, AtAsset
<1>2. CASE Throw(c, "input")
  BY <1>1, <1>2, ThrowMoves, ErrorsAre
<1>3. CASE Conclude(c, "absent")
  BY <1>1, <1>3, ConcludeMoves
<1>4. CASE Become(c, [op[c] EXCEPT !.pc = "reread", !.looked = entry[Asset(c)]])
  <2> DEFINE r == [op[c] EXCEPT !.pc = "reread", !.looked = entry[Asset(c)]]
  <2>1. op[c] \in Operations /\ OwnOK(op[c]) /\ entry[Asset(c)] \in Nodes
    BY <1>1, OpIs, AssetIs, DiskIs
  <2>2. r \in Operations
    BY <2>1, StepsAre DEF Operations, Planning
  <2>3. /\ r.pc = "reread" /\ r.assets = op[c].assets /\ r.next = op[c].next
        /\ r.depth = op[c].depth /\ r.held = op[c].held /\ r.looked = entry[Asset(c)]
        /\ r.state = op[c].state /\ r.lock = op[c].lock /\ r.tracked = op[c].tracked
        /\ r.staged = op[c].staged /\ r.known = op[c].known /\ r.created = op[c].created
        /\ r.dirs = op[c].dirs /\ r.err = op[c].err /\ r.confirmed = op[c].confirmed
        /\ r.result = op[c].result
    BY <2>1 DEF Operations
  <2>4. OwnOK(r)
    <3> HIDE DEF r
    <3> QED
      BY <1>1, <2>1, <2>3
      DEF OwnOK, Bare, RuleNext, AtAsset, Planning, Locking, Preparing, Publishing, Closing, Forward,
        Backward, Steps
  <2>5. Secured(r) \subseteq Secured(op[c])
    <3> HIDE DEF r
    <3> QED
      BY <1>1, <2>3 DEF Secured, Planning, Preparing, Publishing, Closing
  <2>6. op[c].pc \in Steps \ {"report"} /\ r.pc \in Steps
    BY <1>1, <2>3 DEF Steps, Forward
  <2>7. Become(c, r)
    BY <1>4
  <2> HIDE DEF r
  <2> QED
    BY <1>1, <2>2, <2>3, <2>4, <2>5, <2>6, <2>7, QuietMove DEF Cleaned
<1> QED
  BY <1>2, <1>3, <1>4 DEF Look

LEMMA RereadMoves ==
    ASSUME InitInv, NEW c \in Commands, Reread(c)
    PROVE  Moves(c)
<1>1. op[c].pc = "reread" /\ op[c].pc \in Planning /\ op[c].pc \in Forward /\ UNCHANGED disk
  BY DEF Reread, At, Planning, Forward
<1>2. CASE entry[Asset(c)] = File(op[c].looked.by, "whole") /\ Conclude(c, "unchanged")
  BY <1>1, <1>2, ConcludeMoves DEF File
<1>3. CASE Throw(c, "input")
  BY <1>1, <1>3, ThrowMoves, ErrorsAre
<1>4. CASE Throw(c, "other")
  BY <1>1, <1>4, ThrowMoves, ErrorsAre
<1> QED
  BY <1>2, <1>3, <1>4 DEF Reread

-----------------------------------------------------------------------------
(* The lock.                                                               *)

LEMMA ListsAre ==
    ASSUME InitInv, NEW c \in Commands, op[c].pc \in Steps, Cleaned(c)
    PROVE  Listed(op[c], entry, stage[c], staging[c], c)
  BY OpIs DEF InitInv, ListsOK

LEMMA LockPut ==
    ASSUME InitInv, NEW c \in Commands, NEW node \in Nodes, Put("lock", node)
    PROVE  /\ entry'["lock"] = node /\ \A n \in Names \ {"lock"} : entry'[n] = entry[n]
           /\ \A t \in Targets : entry'[t] = entry[t]
           /\ \A d \in Dirs : entry'[d] = entry[d]
<1>1. "lock" \in Names /\ Targets \cup Dirs \subseteq Names \ {"lock"}
  BY DEF Names, Targets, Dirs
<1> QED
  BY <1>1, DiskIs DEF Put

LEMMA SameStage ==
    ASSUME InitInv, NEW c \in Commands
    PROVE  /\ UNCHANGED stage => stage' = [stage EXCEPT ![c] = stage'[c]] /\ stage'[c] \in StagedFiles
           /\ UNCHANGED staging => staging' = [staging EXCEPT ![c] = staging'[c]] /\ staging'[c] \in BOOLEAN
<1>1. stage \in [Commands -> StagedFiles] /\ staging \in [Commands -> BOOLEAN]
  BY DiskIs
<1>2. stage = [stage EXCEPT ![c] = stage[c]] /\ staging = [staging EXCEPT ![c] = staging[c]]
  BY <1>1
<1> QED
  BY <1>1, <1>2

\* The lock file is made, whatever the record says.
LEMMA LockMade ==
    ASSUME InitInv, NEW c \in Commands, op[c].pc = "lock", ~Exists("lock"), Put("lock", File(c, "blank"))
    PROVE  /\ EntryMove(c) /\ entry'["lock"].kind = "file" /\ entry'["lock"].by = c
           /\ \A n \in Targets \cup Dirs : entry'[n] = entry[n]
<1>1. /\ File(c, "blank") \in Nodes /\ File(c, "blank").kind = "file" /\ File(c, "blank").by = c
  BY NodesAre
<1>2. "lock" \in Names /\ InPlace("lock")
  BY AboveIs DEF Names, InPlace
<1>3. EntryMove(c)
  BY <1>1, <1>2 DEF EntryMove, Put
<1> QED
  BY <1>1, <1>3, LockPut

LEMMA CreateLockMoves ==
    ASSUME InitInv, NEW c \in Commands, CreateLock(c)
    PROVE  Moves(c)
<1>1. op[c].pc = "lock" /\ op[c].pc \in Forward /\ UNCHANGED <<stage, staging>>
  BY DEF CreateLock, At, Forward
<1>2. CASE Throw(c, "input") /\ UNCHANGED entry
  BY <1>1, <1>2, ThrowMoves, ErrorsAre DEF disk
<1>3. CASE /\ ~Exists("lock") /\ Put("lock", File(c, "blank"))
           /\ Become(c, [op[c] EXCEPT !.pc = "write_lock", !.lock = "unknown"])
  <2> DEFINE r == [op[c] EXCEPT !.pc = "write_lock", !.lock = "unknown"]
  <2>1. op[c] \in Operations /\ OwnOK(op[c])
    BY OpIs
  <2>2. r \in Operations
    BY <2>1, StepsAre DEF Operations, Locking
  <2>3. /\ r.pc = "write_lock" /\ r.assets = op[c].assets /\ r.next = op[c].next
        /\ r.depth = op[c].depth /\ r.held = op[c].held /\ r.looked = op[c].looked
        /\ r.state = op[c].state /\ r.lock = "unknown" /\ r.tracked = op[c].tracked
        /\ r.staged = op[c].staged /\ r.known = op[c].known /\ r.created = op[c].created
        /\ r.dirs = op[c].dirs /\ r.err = op[c].err /\ r.confirmed = op[c].confirmed
        /\ r.result = op[c].result
    BY <2>1 DEF Operations
  <2>4. op'[c] = r /\ op' = [op EXCEPT ![c] = op'[c]]
    BY <1>3, BecomeIs
  <2> HIDE DEF r
  <2>5. OwnOK(r)
    BY <1>1, <2>1, <2>3
    DEF OwnOK, Bare, RuleNext, AtAsset, Planning, Locking, Preparing, Publishing, Closing, Forward,
      Backward, Steps
  <2>6. Secured(r) = {}
    BY <1>1, <2>1, <2>3 DEF Secured, Planning, Preparing, Publishing, Closing, OwnOK, Steps, Forward
  <2>7. op[c].pc \in Steps \ {"report"} /\ r.pc \in Steps
    BY <1>1, <2>3 DEF Steps, Forward
  <2>8. Cleaned(c) => Listed(r, entry', stage'[c], staging'[c], c)
    BY <1>1, <1>3, <2>3, <2>7, ListsAre, LockMade DEF Listed
  <2> QED
    BY <1>1, <1>3, <2>2, <2>3, <2>4, <2>5, <2>6, <2>7, <2>8, LockMade, SameStage DEF Moves, Cleaned
<1> QED
  BY <1>1, <1>2, <1>3 DEF CreateLock

\* The lock file is filled, if it is still there as it was made.
LEMMA LockFilled ==
    ASSUME InitInv, NEW c \in Commands, op[c].pc \in Steps, op[c].lock # "none",
           \/ entry["lock"] = File(c, "blank") /\ Put("lock", File(c, "whole"))
           \/ UNCHANGED entry
    PROVE  /\ EntryMove(c) /\ entry'["lock"].kind = "file" /\ entry'["lock"].by = c
           /\ \A n \in Targets \cup Dirs : entry'[n] = entry[n]
<1>1. Holds(c)
  BY OpIs DEF InitInv, LockOK
<1>2. CASE UNCHANGED entry
  BY <1>1, <1>2 DEF EntryMove, Holds
<1>3. CASE entry["lock"] = File(c, "blank") /\ Put("lock", File(c, "whole"))
  <2>1. /\ File(c, "whole") \in Nodes /\ File(c, "whole").kind = "file" /\ File(c, "whole").by = c
    BY NodesAre
  <2>2. "lock" \in Names
    BY DEF Names
  <2>3. EntryMove(c)
    BY <1>3, <2>1, <2>2 DEF EntryMove, Put
  <2> QED
    BY <1>3, <2>1, <2>3, LockPut
<1> QED
  BY <1>2, <1>3

LEMMA WriteLockMoves ==
    ASSUME InitInv, NEW c \in Commands, WriteLock(c)
    PROVE  Moves(c)
<1> DEFINE r == [op[c] EXCEPT !.pc = "look", !.held = TRUE, !.lock = "whole"]
<1>1. /\ op[c].pc = "write_lock" /\ op[c].pc \in Forward /\ op[c].pc \in Steps \ {"report"}
      /\ UNCHANGED <<stage, staging>> /\ Become(c, r)
  BY DEF WriteLock, At, Forward, Steps, AfterLock
<1>2. op[c] \in Operations /\ OwnOK(op[c])
  BY OpIs
<1>3. r \in Operations
  BY <1>2, StepsAre DEF Operations, Planning
<1>4. /\ r.pc = "look" /\ r.assets = op[c].assets /\ r.next = op[c].next /\ r.depth = op[c].depth
      /\ r.held = TRUE /\ r.looked = op[c].looked /\ r.state = op[c].state /\ r.lock = "whole"
      /\ r.tracked = op[c].tracked /\ r.staged = op[c].staged /\ r.known = op[c].known
      /\ r.created = op[c].created /\ r.dirs = op[c].dirs /\ r.err = op[c].err
      /\ r.confirmed = op[c].confirmed /\ r.result = op[c].result
  BY <1>2 DEF Operations
<1>5. op'[c] = r /\ op' = [op EXCEPT ![c] = op'[c]]
  BY <1>1, BecomeIs
<1>6. op[c].lock = "unknown" /\ op[c].next = 1 /\ Len(op[c].assets) \in 1..2 /\ op[c].result = "none"
  BY <1>1, <1>2, AssetsAre DEF Operations, OwnOK, Locking
<1>7. /\ EntryMove(c) /\ entry'["lock"].kind = "file" /\ entry'["lock"].by = c
      /\ \A n \in Targets \cup Dirs : entry'[n] = entry[n]
  <2>1. \/ entry["lock"] = File(c, "blank") /\ Put("lock", File(c, "whole"))
        \/ UNCHANGED entry
    BY DEF WriteLock
  <2> QED
    BY <1>1, <1>6, <2>1, LockFilled
<1> HIDE DEF r
<1>8. r.next <= Len(r.assets) + 1 /\ r.next <= Len(r.assets)
  <2>1. r.next = 1 /\ Len(r.assets) \in 1..2
    BY <1>4, <1>6
  <2>2. \A n \in 1..2 : 1 <= n /\ 1 <= n + 1
    OBVIOUS
  <2> QED
    BY <2>1, <2>2, Zenon
<1>9. OwnOK(r)
  BY <1>1, <1>2, <1>4, <1>6, <1>8
  DEF OwnOK, Bare, RuleNext, AtAsset, Planning, Locking, Preparing, Publishing, Closing, Forward,
      Backward, Steps
<1>10. Secured(r) = {}
  <2>1. \A i \in 1..Len(r.assets) : ~(i < r.next)
    BY <1>4, <1>6
  <2> QED
    BY <1>4, <1>6, <2>1 DEF Secured, Planning, Preparing, Publishing, Closing
<1>11. Cleaned(c) => Listed(r, entry', stage'[c], staging'[c], c)
  BY <1>1, <1>4, <1>7, ListsAre DEF Listed
<1>12. r.pc \in Steps
  BY <1>4 DEF Steps, Forward
<1> QED
  BY <1>1, <1>3, <1>4, <1>5, <1>7, <1>9, <1>10, <1>11, <1>12, SameStage DEF Moves, Cleaned

-----------------------------------------------------------------------------
(* The parents of the targets.                                             *)

LEMMA NextIs ==
    ASSUME InitInv, NEW c \in Commands, NEW i \in 1..3, i <= Len(op[c].assets) + 1,
           NEW k, k = NextAbsent(c, i)
    PROVE  /\ k \in i..(Len(op[c].assets) + 1) /\ k \in 1..3
           /\ k <= Len(op[c].assets) => op[c].state[op[c].assets[k]] = "absent"
           /\ \A j \in 1..Len(op[c].assets) : i <= j /\ j < k => op[c].state[op[c].assets[j]] = "unchanged"
<1> DEFINE absent == {j \in i..Len(op[c].assets) : op[c].state[op[c].assets[j]] = "absent"}
<1>1. /\ Len(op[c].assets) \in 1..2
      /\ \A j \in 1..Len(op[c].assets) : op[c].state[op[c].assets[j]] \in {"absent", "unchanged"}
  <2>1. op[c] \in Operations
    BY OpIs
  <2>2. op[c].assets \in {Assets[j] : j \in Integrations} /\ op[c].state \in [Targets -> {"absent", "unchanged"}]
    BY <2>1 DEF Operations
  <2> QED
    BY <2>2, AssetsAre
<1>2. k = IF absent = {} THEN Len(op[c].assets) + 1 ELSE CHOOSE j \in absent : \A m \in absent : j <= m
  BY DEF NextAbsent
<1>3. absent \subseteq {1, 2} /\ \A j \in absent : j \in i..Len(op[c].assets)
  BY <1>1
<1>4. CASE absent = {}
  <2>1. k = Len(op[c].assets) + 1
    BY <1>2, <1>4
  <2>2. \A j \in i..Len(op[c].assets) : op[c].state[op[c].assets[j]] # "absent"
    BY <1>4
  <2>3. PICK n \in 1..2 : n = Len(op[c].assets)
    BY <1>1
  <2>4. k \in i..(n + 1) /\ k \in 1..3 /\ ~(k <= n)
    <3>1. k = n + 1 /\ i <= n + 1
      BY <2>1, <2>3, Zenon
    <3> QED
      BY <3>1
  <2>5. \A j \in 1..n : i <= j => op[c].state[op[c].assets[j]] = "unchanged"
    BY <1>1, <2>2, <2>3
  <2> QED
    BY <2>3, <2>4, <2>5
<1>5. CASE absent # {}
  <2>1. \E j \in absent : \A m \in absent : j <= m
    <3> HIDE DEF absent
    <3>1. absent \subseteq {1, 2}
      BY <1>3
    <3>2. CASE 1 \in absent
      BY <3>1, <3>2
    <3>3. CASE absent = {2}
      BY <3>3
    <3> QED
      BY <1>5, <3>1, <3>2, <3>3
  <2>2. k \in absent /\ \A m \in absent : k <= m
    BY <1>2, <1>5, <2>1
  <2>3. k \in i..Len(op[c].assets) /\ op[c].state[op[c].assets[k]] = "absent"
    BY <2>2
  <2>4. ASSUME NEW j \in 1..Len(op[c].assets), i <= j, j < k PROVE op[c].state[op[c].assets[j]] = "unchanged"
    <3>1. j \in i..Len(op[c].assets)
      BY <2>4
    <3>2. j \notin absent
      BY <2>2, <2>3, <2>4
    <3> QED
      BY <1>1, <3>1, <3>2
  <2> QED
    BY <1>1, <2>3, <2>4
<1> QED
  BY <1>4, <1>5

\* Only the rule has parents.
LEMMA PathIs ==
    ASSUME InitInv, NEW c \in Commands, NEW i \in 1..Len(op[c].assets), NEW k \in 1..3,
           k <= Len(Above[op[c].assets[i]])
    PROVE  /\ i = 2 /\ Len(op[c].assets) = 2 /\ op[c].assets[2] = "rule" /\ k \in {1, 2}
           /\ Above[op[c].assets[i]][k] \in Dirs
<1>1. op[c] \in Operations
  BY OpIs
<1>2. op[c].assets \in {Assets[j] : j \in Integrations}
  BY <1>1 DEF Operations
<1>3. Len(op[c].assets) \in 1..2 /\ op[c].assets[1] = "policy"
      /\ (Len(op[c].assets) = 2 => op[c].assets[2] \in {"agents", "rule"})
  BY <1>2, AssetsAre
<1>4. Above["rule"] = <<"cursor", "rules">> /\ Above["policy"] = <<>> /\ Above["agents"] = <<>>
  BY DEF Above, Names, Targets, Dirs
<1>5. Len(<<>>) = 0 /\ Len(<<"cursor", "rules">>) = 2
  OBVIOUS
<1>6. i = 2 /\ Len(op[c].assets) = 2 /\ op[c].assets[2] = "rule"
  <2>1. i = 1 \/ (i = 2 /\ Len(op[c].assets) = 2)
    BY <1>3
  <2> QED
    BY <1>3, <1>4, <1>5, <2>1
<1>7. k \in {1, 2}
  <2>1. Len(Above[op[c].assets[i]]) = 2
    BY <1>4, <1>5, <1>6
  <2> QED
    BY <2>1
<1>8. <<"cursor", "rules">>[1] = "cursor" /\ <<"cursor", "rules">>[2] = "rules"
  OBVIOUS
<1> QED
  BY <1>4, <1>6, <1>7, <1>8 DEF Dirs

LEMMA DirMade ==
    ASSUME InitInv, NEW c \in Commands, NEW d \in Dirs, ~Exists(d), InPlace(d), Put(d, Directory(c))
    PROVE  /\ EntryMove(c) /\ entry'["lock"] = entry["lock"] /\ entry'[d].by = c
           /\ \A n \in Names \ {d} : entry'[n] = entry[n]
           /\ \A t \in Targets : entry'[t] = entry[t]
<1>1. /\ Directory(c) \in Nodes /\ Directory(c).kind = "dir" /\ Directory(c).by = c
  BY NodesAre
<1>2. d \in Names /\ d # "lock" /\ "lock" \in Names /\ Targets \subseteq Names \ {d}
  BY DEF Names, Dirs, Targets
<1>3. entry' = [entry EXCEPT ![d] = Directory(c)] /\ entry \in [Names -> Nodes]
  BY DiskIs DEF Put
<1>4. EntryMove(c)
  BY <1>1, <1>2, <1>3 DEF EntryMove
<1> QED
  BY <1>1, <1>2, <1>3, <1>4

\* What a command in the loop over the parents knows.
LEMMA ParentsAt ==
    ASSUME InitInv, NEW c \in Commands, op[c].pc = "parents"
    PROVE  /\ op[c] \in Operations /\ OwnOK(op[c]) /\ op[c].pc \in Forward /\ op[c].pc \in Steps \ {"report"}
           /\ op[c].next \in 1..3 /\ op[c].depth \in 1..3 /\ op[c].next <= Len(op[c].assets) + 1
           /\ op[c].depth > 1 => RuleNext(op[c])
           /\ op[c].next <= 2 => Len(op[c].dirs) < op[c].depth
           /\ op[c].created = <<>> /\ op[c].staged = {} /\ ~op[c].tracked /\ op[c].err = "none"
           /\ op[c].confirmed /\ op[c].result = "none" /\ op[c].lock = "whole"
           /\ op[c].dirs \in SeqsOf(Dirs) /\ Len(op[c].dirs) \in Nat
           /\ op[c].assets \in {Assets[i] : i \in Integrations} /\ Len(op[c].assets) \in 1..2
<1>1. op[c] \in Operations /\ OwnOK(op[c])
  BY OpIs
<1>2. /\ op[c].next \in 1..3 /\ op[c].depth \in 1..3 /\ op[c].dirs \in SeqsOf(Dirs)
      /\ op[c].assets \in {Assets[i] : i \in Integrations}
  BY <1>1 DEF Operations
<1>3. Len(op[c].dirs) \in Nat /\ Len(op[c].assets) \in 1..2
  <2>1. op[c].dirs \in Seq(Dirs)
    BY <1>2, SeqsOfIs
  <2> QED
    BY <1>2, <2>1, LenProperties, AssetsAre
<1>4. op[c].pc \in Forward /\ op[c].pc \in Steps \ {"report"}
  BY DEF Forward, Steps
<1> QED
  BY <1>1, <1>2, <1>3, <1>4 DEF OwnOK, Preparing

LEMMA MakeParentMoves ==
    ASSUME InitInv, NEW c \in Commands, MakeParent(c)
    PROVE  Moves(c)
<1> DEFINE i == NextAbsent(c, op[c].next)
           path == Above[op[c].assets[i]]
           d == path[op[c].depth]
<1>1. op[c].pc = "parents" /\ UNCHANGED <<stage, staging>>
  BY DEF MakeParent, At
<1>2. /\ op[c] \in Operations /\ OwnOK(op[c]) /\ op[c].pc \in Forward /\ op[c].pc \in Steps \ {"report"}
      /\ op[c].next \in 1..3 /\ op[c].depth \in 1..3 /\ op[c].next <= Len(op[c].assets) + 1
      /\ op[c].depth > 1 => RuleNext(op[c])
      /\ op[c].next <= 2 => Len(op[c].dirs) < op[c].depth
      /\ op[c].created = <<>> /\ op[c].staged = {} /\ ~op[c].tracked /\ op[c].err = "none"
      /\ op[c].confirmed /\ op[c].result = "none" /\ op[c].lock = "whole"
      /\ op[c].dirs \in SeqsOf(Dirs) /\ Len(op[c].dirs) \in Nat
      /\ op[c].assets \in {Assets[k] : k \in Integrations} /\ Len(op[c].assets) \in 1..2
  BY <1>1, ParentsAt
<1>3. /\ i \in op[c].next..(Len(op[c].assets) + 1) /\ i \in 1..3
      /\ i <= Len(op[c].assets) => op[c].state[op[c].assets[i]] = "absent"
  <2>1. PICK k : k = i
    OBVIOUS
  <2>2. PICK j \in 1..3 : j = op[c].next
    BY <1>2
  <2>3. j <= Len(op[c].assets) + 1 /\ k = NextAbsent(c, j)
    BY <1>2, <2>1, <2>2
  <2>4. /\ k \in j..(Len(op[c].assets) + 1) /\ k \in 1..3
        /\ k <= Len(op[c].assets) => op[c].state[op[c].assets[k]] = "absent"
    BY <2>3, NextIs
  <2> QED
    BY <2>1, <2>2, <2>4
<1>20. op[c] \in Operations /\ {"make_staging", "made_parent"} \subseteq Labels
  BY <1>2, StepsAre DEF Preparing
<1>4. CASE i > Len(op[c].assets) /\ UNCHANGED entry
           /\ Become(c, [op[c] EXCEPT !.pc = "make_staging", !.next = 1, !.depth = 1])
  <2> DEFINE r == [op[c] EXCEPT !.pc = "make_staging", !.next = 1, !.depth = 1]
  <2>1. r \in Operations
    <3>1. op[c] \in Operations /\ "make_staging" \in Labels /\ 1 \in 1..3
      BY <1>20
    <3> QED
      BY <3>1 DEF Operations
  <2>2. /\ r.pc = "make_staging" /\ r.assets = op[c].assets /\ r.next = 1 /\ r.depth = 1
        /\ r.held = op[c].held /\ r.looked = op[c].looked /\ r.state = op[c].state
        /\ r.lock = op[c].lock /\ r.tracked = op[c].tracked /\ r.staged = op[c].staged
        /\ r.known = op[c].known /\ r.created = op[c].created /\ r.dirs = op[c].dirs
        /\ r.err = op[c].err /\ r.confirmed = op[c].confirmed /\ r.result = op[c].result
    BY <1>2 DEF Operations
  <2>3. Become(c, r) /\ UNCHANGED disk
    BY <1>1, <1>4 DEF disk
  <2> HIDE DEF r
  <2>4. r.next <= Len(r.assets) + 1
    <3>1. r.next = 1 /\ Len(r.assets) \in 1..2
      BY <1>2, <2>2
    <3>2. \A n \in 1..2 : 1 <= n + 1
      OBVIOUS
    <3> QED
      BY <3>1, <3>2, Zenon
  <2>5. OwnOK(r)
    BY <1>2, <2>2, <2>4
    DEF OwnOK, Bare, RuleNext, AtAsset, Planning, Locking, Preparing, Publishing, Closing, Forward,
      Backward, Steps
  <2>6. Secured(r) \subseteq Secured(op[c])
    BY <1>1, <1>2, <2>2 DEF Secured, Planning, Preparing, Publishing, Closing
  <2>7. r.pc \in Steps
    BY <2>2 DEF Steps, Forward
  <2> QED
    BY <1>2, <2>1, <2>2, <2>3, <2>5, <2>6, <2>7, QuietMove DEF Cleaned
<1>5. CASE i <= Len(op[c].assets) /\ op[c].depth > Len(path) /\ UNCHANGED entry
           /\ Become(c, [op[c] EXCEPT !.next = i + 1, !.depth = 1])
  <2> DEFINE r == [op[c] EXCEPT !.next = i + 1, !.depth = 1]
  <2>1. i + 1 \in 1..3 /\ i + 1 <= Len(op[c].assets) + 1 /\ (i + 1 <= 2 => op[c].next = 1)
    <3>1. PICK n \in 1..2 : n = Len(op[c].assets)
      BY <1>2
    <3>2. i <= n /\ i \in op[c].next..(n + 1)
      BY <1>3, <1>5, <3>1
    <3>3. i + 1 \in 1..3 /\ i + 1 <= n + 1 /\ (i + 1 <= 2 => op[c].next = 1)
      <4> HIDE DEF i
      <4> QED
        BY <1>2, <1>3, <3>2
    <3> QED
      BY <3>1, <3>3
  <2>2. r \in Operations
    <3>1. op[c] \in Operations /\ 1 \in 1..3 /\ i + 1 \in 1..3
      BY <1>20, <2>1
    <3> HIDE DEF i
    <3> QED
      BY <3>1 DEF Operations
  <2>3. /\ r.pc = op[c].pc /\ r.assets = op[c].assets /\ r.next = i + 1 /\ r.depth = 1
        /\ r.held = op[c].held /\ r.looked = op[c].looked /\ r.state = op[c].state
        /\ r.lock = op[c].lock /\ r.tracked = op[c].tracked /\ r.staged = op[c].staged
        /\ r.known = op[c].known /\ r.created = op[c].created /\ r.dirs = op[c].dirs
        /\ r.err = op[c].err /\ r.confirmed = op[c].confirmed /\ r.result = op[c].result
    BY <1>2 DEF Operations
  <2>4. Become(c, r) /\ UNCHANGED disk
    BY <1>1, <1>5 DEF disk
  <2> HIDE DEF r, i
  <2>5. r.next <= 2 => Len(r.dirs) < r.depth
    <3> SUFFICES ASSUME i + 1 <= 2 PROVE Len(op[c].dirs) < 1
      BY <2>3
    <3>1. op[c].next = 1
      BY <2>1
    <3>2. ~(op[c].depth > 1) /\ Len(op[c].dirs) < op[c].depth
      BY <1>2, <3>1 DEF RuleNext
    <3> QED
      BY <1>2, <3>2
  <2>6. r.next <= Len(r.assets) + 1 /\ ~(r.depth > 1)
    BY <2>1, <2>3
  <2>7. OwnOK(r)
    BY <1>1, <1>2, <2>3, <2>5, <2>6
    DEF OwnOK, Bare, RuleNext, AtAsset, Planning, Locking, Preparing, Publishing, Closing, Forward,
      Backward, Steps
  <2>8. Secured(r) \subseteq Secured(op[c])
    BY <1>1, <1>2, <2>3 DEF Secured, Planning, Preparing, Publishing, Closing
  <2> QED
    BY <1>1, <1>2, <2>2, <2>3, <2>4, <2>7, <2>8, QuietMove DEF Cleaned
<1>6. ASSUME i <= Len(op[c].assets), op[c].depth <= Len(path)
      PROVE  /\ i = 2 /\ Len(op[c].assets) = 2 /\ op[c].assets[2] = "rule" /\ op[c].depth \in {1, 2}
             /\ d \in Dirs /\ op[c].next <= 2 /\ op[c].state["rule"] = "absent"
  <2>1. i \in 1..Len(op[c].assets)
    <3>1. PICK n \in 1..2 : n = Len(op[c].assets)
      BY <1>2
    <3>2. i <= n
      BY <1>6, <3>1
    <3>3. i \in 1..n
      <4> HIDE DEF i
      <4> QED
        BY <1>3, <3>2
    <3> QED
      BY <3>1, <3>3
  <2>2. /\ i = 2 /\ Len(op[c].assets) = 2 /\ op[c].assets[2] = "rule" /\ op[c].depth \in {1, 2}
        /\ d \in Dirs
    <3>1. PICK k \in 1..Len(op[c].assets) : k = i
      BY <2>1
    <3>2. op[c].depth <= Len(Above[op[c].assets[k]])
      BY <1>6, <3>1
    <3>3. /\ k = 2 /\ Len(op[c].assets) = 2 /\ op[c].assets[2] = "rule" /\ op[c].depth \in {1, 2}
          /\ Above[op[c].assets[k]][op[c].depth] \in Dirs
      BY <1>2, <3>2, PathIs
    <3> QED
      BY <3>1, <3>3
  <2>3. op[c].next <= 2 /\ op[c].state["rule"] = "absent"
    <3> HIDE DEF i
    <3> QED
      BY <1>2, <1>3, <1>6, <2>2
  <2> QED
    BY <2>2, <2>3
<1>7. CASE i <= Len(op[c].assets) /\ op[c].depth <= Len(path) /\ UNCHANGED entry
           /\ Become(c, [op[c] EXCEPT !.next = i, !.depth = @ + 1])
  <2> DEFINE r == [op[c] EXCEPT !.next = 2, !.depth = @ + 1]
  <2>1. /\ i = 2 /\ Len(op[c].assets) = 2 /\ op[c].assets[2] = "rule" /\ op[c].depth \in {1, 2}
        /\ op[c].next <= 2 /\ op[c].state["rule"] = "absent"
    BY <1>6, <1>7
  <2>2. r \in Operations
    <3>1. op[c] \in Operations /\ 2 \in 1..3 /\ op[c].depth + 1 \in 1..3
      BY <1>20, <2>1
    <3> QED
      BY <3>1 DEF Operations
  <2>3. /\ r.pc = op[c].pc /\ r.assets = op[c].assets /\ r.next = 2 /\ r.depth = op[c].depth + 1
        /\ r.held = op[c].held /\ r.looked = op[c].looked /\ r.state = op[c].state
        /\ r.lock = op[c].lock /\ r.tracked = op[c].tracked /\ r.staged = op[c].staged
        /\ r.known = op[c].known /\ r.created = op[c].created /\ r.dirs = op[c].dirs
        /\ r.err = op[c].err /\ r.confirmed = op[c].confirmed /\ r.result = op[c].result
    BY <1>2 DEF Operations
  <2>4. Become(c, r) /\ UNCHANGED disk
    BY <1>1, <1>7, <2>1 DEF disk
  <2> HIDE DEF r, i
  <2>5. RuleNext(r)
    BY <2>1, <2>3 DEF RuleNext
  <2>6. Len(r.dirs) < r.depth
    BY <1>2, <2>1, <2>3
  <2>7. r.next <= Len(r.assets) + 1
    BY <2>1, <2>3
  <2>8. OwnOK(r)
    BY <1>1, <1>2, <2>3, <2>5, <2>6, <2>7
    DEF OwnOK, Bare, AtAsset, Planning, Locking, Preparing, Publishing, Closing, Forward, Backward, Steps
  <2>9. Secured(r) \subseteq Secured(op[c])
    BY <1>1, <1>2, <2>3 DEF Secured, Planning, Preparing, Publishing, Closing
  <2> QED
    BY <1>1, <1>2, <2>2, <2>3, <2>4, <2>8, <2>9, QuietMove DEF Cleaned
<1>8. CASE i <= Len(op[c].assets) /\ op[c].depth <= Len(path) /\ ~Exists(d) /\ InPlace(d)
           /\ Put(d, Directory(c))
           /\ Become(c, [op[c] EXCEPT !.pc = "made_parent", !.next = i, !.dirs = Append(@, d)])
  <2> DEFINE r == [op[c] EXCEPT !.pc = "made_parent", !.next = 2, !.dirs = Append(@, d)]
  <2>1. /\ i = 2 /\ Len(op[c].assets) = 2 /\ op[c].assets[2] = "rule" /\ op[c].depth \in {1, 2}
        /\ op[c].next <= 2 /\ op[c].state["rule"] = "absent" /\ d \in Dirs
    BY <1>6, <1>8
  <2>2. Len(op[c].dirs) < 2 /\ Len(op[c].dirs) < op[c].depth
    <3> HIDE DEF i, d
    <3> QED
      BY <1>2, <2>1
  <2>3. /\ Append(op[c].dirs, d) \in SeqsOf(Dirs) /\ Len(Append(op[c].dirs, d)) = Len(op[c].dirs) + 1
        /\ \A y : In(y, Append(op[c].dirs, d)) <=> y = d \/ In(y, op[c].dirs)
    <3> HIDE DEF d
    <3> QED
      BY <1>2, <2>1, <2>2, Appended
  <2>4. r \in Operations
    <3>1. op[c] \in Operations /\ 2 \in 1..3 /\ "made_parent" \in Labels /\ Append(op[c].dirs, d) \in SeqsOf(Dirs)
      BY <1>20, <2>3
    <3> HIDE DEF d
    <3> QED
      BY <3>1 DEF Operations
  <2>5. /\ r.pc = "made_parent" /\ r.assets = op[c].assets /\ r.next = 2 /\ r.depth = op[c].depth
        /\ r.held = op[c].held /\ r.looked = op[c].looked /\ r.state = op[c].state
        /\ r.lock = op[c].lock /\ r.tracked = op[c].tracked /\ r.staged = op[c].staged
        /\ r.known = op[c].known /\ r.created = op[c].created /\ r.dirs = Append(op[c].dirs, d)
        /\ r.err = op[c].err /\ r.confirmed = op[c].confirmed /\ r.result = op[c].result
    BY <1>2 DEF Operations
  <2>6. op'[c] = r /\ op' = [op EXCEPT ![c] = op'[c]]
    BY <1>8, <2>1, BecomeIs
  <2>7. /\ EntryMove(c) /\ entry'["lock"] = entry["lock"] /\ entry'[d].by = c
        /\ \A n \in Names \ {d} : entry'[n] = entry[n]
        /\ \A t \in Targets : entry'[t] = entry[t]
    <3> HIDE DEF d
    <3> QED
      BY <1>8, <2>1, DirMade
  <2> HIDE DEF r, i, d
  <2>8. Len(r.dirs) \in 1..r.depth /\ r.depth <= 2
    <3>1. PICK m \in Nat : m = Len(op[c].dirs)
      BY <1>2
    <3>2. m + 1 \in 1..op[c].depth
      BY <2>1, <2>2, <3>1
    <3> QED
      BY <2>1, <2>3, <2>5, <3>1, <3>2
  <2>9. RuleNext(r) /\ r.next <= Len(r.assets) + 1 /\ r.next <= Len(r.assets)
    BY <2>1, <2>5 DEF RuleNext
  <2>10. OwnOK(r)
    BY <1>2, <2>5, <2>8, <2>9
    DEF OwnOK, Bare, AtAsset, Planning, Locking, Preparing, Publishing, Closing, Forward, Backward, Steps
  <2>11. Secured(r) \subseteq Secured(op[c])
    BY <1>1, <1>2, <2>5 DEF Secured, Planning, Preparing, Publishing, Closing
  <2>12. Listed(r, entry', stage'[c], staging'[c], c)
    <3>1. Listed(op[c], entry, stage[c], staging[c], c)
      BY <1>2, ListsAre DEF Cleaned
    <3>2. Dirs \subseteq Names
      BY DEF Names
    <3> QED
      BY <1>1, <2>3, <2>5, <2>7, <3>1, <3>2 DEF Listed
  <2>13. \A k \in Secured(r) : r.assets[k] \notin touched =>
            /\ entry'[r.assets[k]].kind = "file" /\ entry'[r.assets[k]].content = "whole"
            /\ Alone(r.assets[k], c)
    <3> SUFFICES ASSUME NEW k \in Secured(r), r.assets[k] \notin touched
                 PROVE  Stands(r.assets[k], c) /\ entry'[r.assets[k]] = entry[r.assets[k]]
      BY DEF Stands, Alone
    <3>1. k \in Secured(op[c]) /\ r.assets[k] = op[c].assets[k]
      BY <2>5, <2>11
    <3>2. op[c].assets[k] \in Targets
      BY <1>2, <3>1, AssetsAre DEF Secured
    <3> QED
      BY <2>7, <3>1, <3>2 DEF InitInv, SecureOK
  <2>14. entry'["lock"].kind = "file" /\ entry'["lock"].by = c
    BY <1>2, <2>7, OpIs DEF InitInv, LockOK, Holds
  <2>15. r.pc \in Steps
    BY <2>5 DEF Steps, Forward
  <2> QED
    BY <1>1, <1>2, <2>4, <2>5, <2>6, <2>7, <2>10, <2>12, <2>13, <2>14, <2>15, SameStage DEF Moves
<1>9. CASE Throw(c, "input") /\ UNCHANGED entry
  BY <1>1, <1>2, <1>9, ThrowMoves, ErrorsAre DEF disk
<1>10. i \in Nat /\ Len(op[c].assets) \in Nat /\ op[c].depth \in Nat
  BY <1>2, <1>3
<1>11. Len(path) \in Nat \/ i > Len(op[c].assets)
  <2> SUFFICES ASSUME ~(i > Len(op[c].assets)) PROVE Len(path) \in Nat
    OBVIOUS
  <2>1. i \in 1..Len(op[c].assets)
    <3>1. PICK n \in 1..2 : n = Len(op[c].assets)
      BY <1>2
    <3>2. ~(i > n)
      BY <3>1
    <3>3. i \in 1..n
      <4> HIDE DEF i
      <4> QED
        BY <1>3, <3>2
    <3> QED
      BY <3>1, <3>3
  <2>2. op[c].assets[i] \in Targets
    BY <1>2, <2>1, AssetsAre
  <2>3. \A t \in Targets : Len(Above[t]) \in Nat
    BY DEF Above, Names, Targets, Dirs
  <2> QED
    BY <2>2, <2>3
<1>12. ~(i > Len(op[c].assets)) => i <= Len(op[c].assets)
  <2> HIDE DEF i
  <2> QED
    BY <1>10
<1>13. i <= Len(op[c].assets) /\ ~(op[c].depth > Len(path)) => op[c].depth <= Len(path)
  <2>1. PICK n \in Nat : n = Len(op[c].assets)
    BY <1>10
  <2>2. i <= n => ~(i > n)
    <3> HIDE DEF i
    <3> QED
      BY <1>10
  <2>3. Len(path) \in Nat \/ ~(i <= Len(op[c].assets))
    BY <1>11, <2>1, <2>2
  <2> HIDE DEF path, i
  <2> QED
    BY <1>10, <2>3
<1> QED
  <2>1. IF i > Len(op[c].assets)
        THEN Become(c, [op[c] EXCEPT !.pc = "make_staging", !.next = 1, !.depth = 1]) /\ UNCHANGED entry
        ELSE IF op[c].depth > Len(path)
        THEN Become(c, [op[c] EXCEPT !.next = i + 1, !.depth = 1]) /\ UNCHANGED entry
        ELSE IF IsDir(d)
        THEN Become(c, [op[c] EXCEPT !.next = i, !.depth = @ + 1]) /\ UNCHANGED entry
        ELSE IF ~Exists(d) /\ InPlace(d)
        THEN /\ Put(d, Directory(c))
             /\ Become(c, [op[c] EXCEPT !.pc = "made_parent", !.next = i, !.dirs = Append(@, d)])
        ELSE Throw(c, "input") /\ UNCHANGED entry
    BY DEF MakeParent
  <2> QED
    BY <1>4, <1>5, <1>7, <1>8, <1>9, <1>12, <1>13, <2>1, Zenon

LEMMA VerifyParentMoves ==
    ASSUME InitInv, NEW c \in Commands, VerifyParent(c)
    PROVE  Moves(c)
<1> DEFINE r == [op[c] EXCEPT !.pc = "parents", !.depth = @ + 1]
<1>1. /\ op[c].pc = "made_parent" /\ op[c].pc \in Forward /\ op[c].pc \in Steps \ {"report"} /\ UNCHANGED disk
  BY DEF VerifyParent, At, Forward, Steps
<1>2. op[c] \in Operations /\ OwnOK(op[c])
  BY OpIs
<1>3. CASE Become(c, r)
  <2>1. op[c].depth \in 1..3 /\ op[c].depth <= 2 /\ RuleNext(op[c]) /\ Len(op[c].dirs) \in 1..op[c].depth
    BY <1>1, <1>2 DEF Operations, OwnOK
  <2>2. r \in Operations
    <3>1. op[c].depth + 1 \in 1..3
      BY <2>1
    <3>2. "parents" \in Labels
      BY StepsAre DEF Preparing
    <3> QED
      BY <1>2, <3>1, <3>2 DEF Operations
  <2>3. /\ r.pc = "parents" /\ r.assets = op[c].assets /\ r.next = op[c].next
        /\ r.depth = op[c].depth + 1 /\ r.held = op[c].held /\ r.looked = op[c].looked
        /\ r.state = op[c].state /\ r.lock = op[c].lock /\ r.tracked = op[c].tracked
        /\ r.staged = op[c].staged /\ r.known = op[c].known /\ r.created = op[c].created
        /\ r.dirs = op[c].dirs /\ r.err = op[c].err /\ r.confirmed = op[c].confirmed
        /\ r.result = op[c].result
    BY <1>2 DEF Operations
  <2> HIDE DEF r
  <2>4. Len(r.dirs) < r.depth /\ r.next <= Len(r.assets) + 1 /\ RuleNext(r)
    <3>1. PICK m \in 1..op[c].depth : m = Len(op[c].dirs)
      BY <2>1
    <3>2. m < op[c].depth + 1
      BY <2>1
    <3> QED
      BY <1>2, <2>1, <2>3, <3>1, <3>2 DEF RuleNext, OwnOK
  <2>5. OwnOK(r)
    BY <1>1, <1>2, <2>3, <2>4
    DEF OwnOK, Bare, AtAsset, Planning, Locking, Preparing, Publishing, Closing, Forward, Backward, Steps
  <2>6. Secured(r) \subseteq Secured(op[c])
    BY <1>1, <1>2, <2>3 DEF Secured, Planning, Preparing, Publishing, Closing
  <2>7. r.pc \in Steps
    BY <2>3 DEF Steps, Forward
  <2> QED
    BY <1>1, <1>3, <2>2, <2>3, <2>5, <2>6, <2>7, QuietMove DEF Cleaned
<1>4. CASE \E e \in {"input", "other"} : Throw(c, e)
  BY <1>1, <1>4, ThrowMoves, ErrorsAre
<1>5. Become(c, r) \/ \E e \in {"input", "other"} : Throw(c, e)
  BY DEF VerifyParent
<1> QED
  BY <1>3, <1>4, <1>5

LEMMA MakeStagingMoves ==
    ASSUME InitInv, NEW c \in Commands, MakeStaging(c)
    PROVE  Moves(c)
<1> DEFINE r == [op[c] EXCEPT !.pc = "open_stage", !.tracked = TRUE]
<1>1. /\ op[c].pc = "make_staging" /\ op[c].pc \in Forward /\ op[c].pc \in Steps \ {"report"}
      /\ UNCHANGED <<entry, stage>> /\ Become(c, r) /\ staging' = [staging EXCEPT ![c] = TRUE]
  BY DEF MakeStaging, At, Forward, Steps
<1>2. op[c] \in Operations /\ OwnOK(op[c]) /\ op[c].next = 1 /\ op[c].created = <<>> /\ op[c].staged = {}
  BY <1>1, OpIs DEF OwnOK, Preparing
<1>3. r \in Operations
  BY <1>2, StepsAre DEF Operations, Publishing
<1>4. /\ r.pc = "open_stage" /\ r.assets = op[c].assets /\ r.next = op[c].next
      /\ r.depth = op[c].depth /\ r.held = op[c].held /\ r.looked = op[c].looked
      /\ r.state = op[c].state /\ r.lock = op[c].lock /\ r.tracked = TRUE
      /\ r.staged = op[c].staged /\ r.known = op[c].known /\ r.created = op[c].created
      /\ r.dirs = op[c].dirs /\ r.err = op[c].err /\ r.confirmed = op[c].confirmed
      /\ r.result = op[c].result
  BY <1>2 DEF Operations
<1>5. op'[c] = r /\ op' = [op EXCEPT ![c] = op'[c]]
  BY <1>1, BecomeIs
<1> HIDE DEF r
<1>6. OwnOK(r)
  <2>1. Len(<<>>) = 0
    OBVIOUS
  <2> QED
    BY <1>1, <1>2, <1>4, <2>1
    DEF OwnOK, Bare, RuleNext, AtAsset, Planning, Locking, Preparing, Publishing, Closing, Forward,
      Backward, Steps
<1>7. Secured(r) \subseteq Secured(op[c])
  <2>1. \A i \in 1..Len(r.assets) : ~(i < r.next)
    <3>1. op[c].assets \in {Assets[i] : i \in Integrations}
      BY <1>2 DEF Operations
    <3>2. PICK n \in 1..2 : n = Len(op[c].assets)
      BY <3>1, AssetsAre
    <3>3. \A i \in 1..n : ~(i < 1)
      OBVIOUS
    <3> QED
      BY <1>2, <1>4, <3>2, <3>3
  <2> QED
    BY <1>1, <1>2, <1>4, <2>1 DEF Secured, Planning, Preparing, Publishing, Closing, OwnOK, Steps, Forward
<1>8. Listed(r, entry', stage'[c], staging'[c], c)
  <2>1. Cleaned(c)
    BY <1>1, <1>2 DEF OwnOK, Cleaned
  <2>2. Listed(op[c], entry, stage[c], staging[c], c)
    BY <1>1, <2>1, ListsAre
  <2> QED
    BY <1>1, <1>4, <2>2 DEF Listed
<1>9. \A k \in Secured(r) : r.assets[k] \notin touched =>
            /\ entry'[r.assets[k]].kind = "file" /\ entry'[r.assets[k]].content = "whole"
            /\ Alone(r.assets[k], c)
  BY <1>1, <1>4, <1>7 DEF InitInv, SecureOK, Stands, Alone
<1>10. entry'["lock"].kind = "file" /\ entry'["lock"].by = c
  BY <1>1, <1>2, OpIs DEF InitInv, LockOK, Holds, OwnOK, Preparing
<1>11. r.pc \in Steps /\ EntryMove(c)
  BY <1>1, <1>4 DEF Steps, Forward, EntryMove
<1>12. staging'[c] = TRUE /\ staging' = [staging EXCEPT ![c] = staging'[c]]
  BY <1>1, DiskIs
<1>13. stage' = [stage EXCEPT ![c] = stage'[c]] /\ stage'[c] \in StagedFiles
  BY <1>1, SameStage
<1>14. op[c].pc \in Steps \ {"report"} /\ r.created = op[c].created
  BY <1>1, <1>4
<1> QED
  BY <1>3, <1>5, <1>6, <1>8, <1>9, <1>10, <1>11, <1>12, <1>13, <1>14 DEF Moves

-----------------------------------------------------------------------------
(* Publishing.                                                             *)

LEMMA StageSet ==
    ASSUME InitInv, NEW c \in Commands, NEW t \in Targets, NEW v \in {"none", "blank", "whole", "edited"},
           stage' = [stage EXCEPT ![c][t] = v]
    PROVE  /\ stage' = [stage EXCEPT ![c] = stage'[c]] /\ stage'[c] \in StagedFiles
           /\ stage'[c][t] = v /\ \A s \in Targets \ {t} : stage'[c][s] = stage[c][s]
<1>1. stage \in [Commands -> StagedFiles]
  BY DiskIs
<1>2. stage[c] \in StagedFiles
  BY <1>1
<1>3. stage'[c] = [stage[c] EXCEPT ![t] = v]
  BY <1>1
<1>4. stage'[c] \in StagedFiles /\ stage'[c][t] = v /\ \A s \in Targets \ {t} : stage'[c][s] = stage[c][s]
  BY <1>2, <1>3 DEF StagedFiles
<1>5. stage' = [stage EXCEPT ![c] = stage'[c]]
  BY <1>1, <1>3
<1> QED
  BY <1>4, <1>5

\* What a command in the loop over the assets knows.
LEMMA PublishingAt ==
    ASSUME InitInv, NEW c \in Commands, op[c].pc \in Publishing \cup Closing
    PROVE  /\ op[c] \in Operations /\ OwnOK(op[c]) /\ op[c].pc \in Forward /\ op[c].pc \in Steps \ {"report"}
           /\ op[c].next \in 1..3 /\ op[c].next <= Len(op[c].assets) + 1
           /\ op[c].err = "none" /\ op[c].confirmed /\ op[c].result = "none" /\ op[c].lock = "whole"
           /\ op[c].created \in SeqsOf(Targets) /\ Len(op[c].created) \in Nat
           /\ op[c].assets \in {Assets[i] : i \in Integrations} /\ Len(op[c].assets) \in 1..2
           /\ Listed(op[c], entry, stage[c], staging[c], c)
           /\ Holds(c)
<1>1. op[c] \in Operations /\ OwnOK(op[c])
  BY OpIs
<1>2. /\ op[c].next \in 1..3 /\ op[c].created \in SeqsOf(Targets)
      /\ op[c].assets \in {Assets[i] : i \in Integrations}
  BY <1>1 DEF Operations
<1>3. Len(op[c].created) \in Nat /\ Len(op[c].assets) \in 1..2
  <2>1. op[c].created \in Seq(Targets)
    BY <1>2, SeqsOfIs
  <2> QED
    BY <1>2, <2>1, LenProperties, AssetsAre
<1>4. op[c].pc \in Forward /\ op[c].pc \in Steps \ {"report"}
  BY DEF Forward, Steps, Publishing, Closing
<1>5. /\ op[c].next <= Len(op[c].assets) + 1 /\ op[c].err = "none" /\ op[c].confirmed /\ op[c].result = "none"
      /\ op[c].lock = "whole"
  BY <1>1, <1>4 DEF OwnOK
<1>6. Listed(op[c], entry, stage[c], staging[c], c) /\ Holds(c)
  BY <1>4, <1>5, ListsAre, OpIs DEF Cleaned, InitInv, LockOK
<1> QED
  BY <1>1, <1>2, <1>3, <1>4, <1>5, <1>6

\* A step that leaves all names alone.
LEMMA StagingMove ==
    ASSUME InitInv, NEW c \in Commands, NEW r \in Operations, Become(c, r), OwnOK(r), UNCHANGED entry,
           op[c].pc \in Steps \ {"report"}, r.pc \in Steps, r.assets = op[c].assets, r.created = op[c].created,
           r.lock = op[c].lock,
           stage' = [stage EXCEPT ![c] = stage'[c]], stage'[c] \in StagedFiles,
           staging' = [staging EXCEPT ![c] = staging'[c]], staging'[c] \in BOOLEAN,
           r.confirmed /\ r.err # "unconfirmed" => Listed(r, entry, stage'[c], staging'[c], c),
           \A i \in Secured(r) : i \in Secured(op[c]) \/ Stands(r.assets[i], c)
    PROVE  Moves(c)
<1>1. op'[c] = r /\ op' = [op EXCEPT ![c] = op'[c]]
  BY BecomeIs
<1>2. r.lock # "none" => entry'["lock"].kind = "file" /\ entry'["lock"].by = c
  BY OpIs DEF InitInv, LockOK, Holds
<1>3. r.confirmed /\ r.err # "unconfirmed" => Listed(r, entry', stage'[c], staging'[c], c)
  BY DEF Listed
<1>4. \A i \in Secured(r) : r.assets[i] \notin touched =>
         /\ entry'[r.assets[i]].kind = "file" /\ entry'[r.assets[i]].content = "whole"
         /\ Alone(r.assets[i], c)
  BY DEF InitInv, SecureOK, Stands, Alone
<1> QED
  BY <1>1, <1>2, <1>3, <1>4 DEF Moves, EntryMove

LEMMA OpenStageMoves ==
    ASSUME InitInv, NEW c \in Commands, OpenStage(c)
    PROVE  Moves(c)
<1>1. op[c].pc = "open_stage" /\ UNCHANGED <<entry, staging>>
  BY DEF OpenStage, At
<1>2. /\ op[c] \in Operations /\ OwnOK(op[c]) /\ op[c].pc \in Forward /\ op[c].pc \in Steps \ {"report"}
      /\ op[c].next \in 1..3 /\ op[c].next <= Len(op[c].assets) + 1
      /\ op[c].err = "none" /\ op[c].confirmed /\ op[c].result = "none" /\ op[c].lock = "whole"
      /\ op[c].created \in SeqsOf(Targets) /\ Len(op[c].created) \in Nat
      /\ op[c].assets \in {Assets[i] : i \in Integrations} /\ Len(op[c].assets) \in 1..2
      /\ Listed(op[c], entry, stage[c], staging[c], c)
      /\ Holds(c)
  BY <1>1, PublishingAt DEF Publishing
<1>3. op[c].staged = {} /\ Len(op[c].created) < op[c].next
  BY <1>1, <1>2 DEF OwnOK, Publishing
<1>4. PICK k : k = NextAbsent(c, op[c].next)
  OBVIOUS
<1>5. /\ k \in op[c].next..(Len(op[c].assets) + 1) /\ k \in 1..3
      /\ \A j \in 1..Len(op[c].assets) : op[c].next <= j /\ j < k => op[c].state[op[c].assets[j]] = "unchanged"
  <2>1. PICK j \in 1..3 : j = op[c].next
    BY <1>2
  <2>2. j <= Len(op[c].assets) + 1 /\ k = NextAbsent(c, j)
    BY <1>2, <1>4, <2>1
  <2>3. /\ k \in j..(Len(op[c].assets) + 1) /\ k \in 1..3
        /\ \A m \in 1..Len(op[c].assets) : j <= m /\ m < k => op[c].state[op[c].assets[m]] = "unchanged"
    BY <2>2, NextIs
  <2> QED
    BY <2>1, <2>3
<1>6. PICK n \in 1..2 : n = Len(op[c].assets)
  BY <1>2
<1>7. /\ k \in op[c].next..(n + 1) /\ op[c].next <= n + 1
      /\ \A j \in 1..n : j < k => j < op[c].next \/ op[c].state[op[c].assets[j]] = "unchanged"
  <2>1. /\ k \in op[c].next..(n + 1) /\ op[c].next <= n + 1
        /\ \A j \in 1..n : op[c].next <= j /\ j < k => op[c].state[op[c].assets[j]] = "unchanged"
    BY <1>2, <1>5, <1>6
  <2>2. \A j \in 1..n : op[c].next <= j \/ j < op[c].next
    BY <1>2
  <2> QED
    BY <2>1, <2>2
<1>8. CASE k > Len(op[c].assets) /\ Go(c, "remove_staging") /\ UNCHANGED stage
  <2> DEFINE r == [op[c] EXCEPT !.pc = "remove_staging"]
  <2>1. r \in Operations
    <3>1. op[c] \in Operations /\ "remove_staging" \in Labels
      BY <1>2, StepsAre DEF Closing
    <3> QED
      BY <3>1 DEF Operations
  <2>2. /\ r.pc = "remove_staging" /\ r.assets = op[c].assets /\ r.next = op[c].next
        /\ r.depth = op[c].depth /\ r.held = op[c].held /\ r.looked = op[c].looked
        /\ r.state = op[c].state /\ r.lock = op[c].lock /\ r.tracked = op[c].tracked
        /\ r.staged = op[c].staged /\ r.known = op[c].known /\ r.created = op[c].created
        /\ r.dirs = op[c].dirs /\ r.err = op[c].err /\ r.confirmed = op[c].confirmed
        /\ r.result = op[c].result
    BY <1>2 DEF Operations
  <2>3. Become(c, r)
    BY <1>8 DEF Go
  <2> HIDE DEF r
  <2>4. OwnOK(r)
    BY <1>1, <1>2, <1>3, <2>2
    DEF OwnOK, Bare, AtAsset, Planning, Locking, Preparing, Publishing, Closing, Forward, Backward, Steps
  <2>5. Secured(r) \subseteq Secured(op[c])
    <3>1. k > n
      BY <1>6, <1>8
    <3>2. \A j \in 1..n : j < op[c].next \/ op[c].state[op[c].assets[j]] = "unchanged"
      BY <1>5, <1>7, <3>1
    <3> QED
      BY <1>1, <1>2, <1>6, <2>2, <3>2 DEF Secured, Publishing
  <2>6. Listed(r, entry, stage'[c], staging'[c], c)
    BY <1>1, <1>2, <1>8, <2>2 DEF Listed
  <2>7. r.pc \in Steps
    BY <2>2 DEF Steps, Forward
  <2> QED
    BY <1>1, <1>2, <1>8, <2>1, <2>2, <2>3, <2>4, <2>5, <2>6, <2>7, SameStage, StagingMove
<1>9. CASE /\ ~(k > Len(op[c].assets))
           /\ stage' = [stage EXCEPT ![c][op[c].assets[k]] = "blank"]
           /\ Become(c, [op[c] EXCEPT !.pc = "write_stage", !.next = k, !.staged = @ \cup {op[c].assets[k]}])
  <2> DEFINE t == op[c].assets[k]
             r == [op[c] EXCEPT !.pc = "write_stage", !.next = k, !.staged = @ \cup {t}]
  <2>1. k \in 1..n /\ k <= n
    <3>1. ~(k > n)
      BY <1>6, <1>9
    <3> QED
      BY <1>5, <3>1
  <2>2. t \in Targets /\ k <= Len(op[c].assets) /\ k <= Len(op[c].assets) + 1
    <3>1. k <= n + 1
      BY <2>1
    <3> QED
      BY <1>2, <1>6, <2>1, <3>1, AssetsAre
  <2>3. r \in Operations
    <3>1. op[c] \in Operations /\ "write_stage" \in Labels
      BY <1>2, StepsAre DEF Publishing
    <3>2. k \in 1..3 /\ op[c].staged \cup {t} \in SUBSET Targets
      BY <1>3, <1>5, <2>2
    <3> QED
      BY <3>1, <3>2 DEF Operations
  <2>4. /\ r.pc = "write_stage" /\ r.assets = op[c].assets /\ r.next = k /\ r.depth = op[c].depth
        /\ r.held = op[c].held /\ r.looked = op[c].looked /\ r.state = op[c].state
        /\ r.lock = op[c].lock /\ r.tracked = op[c].tracked /\ r.staged = op[c].staged \cup {t}
        /\ r.known = op[c].known /\ r.created = op[c].created /\ r.dirs = op[c].dirs
        /\ r.err = op[c].err /\ r.confirmed = op[c].confirmed /\ r.result = op[c].result
    BY <1>2 DEF Operations
  <2>5. Become(c, r)
    BY <1>9
  <2>6. /\ stage' = [stage EXCEPT ![c] = stage'[c]] /\ stage'[c] \in StagedFiles
        /\ stage'[c][t] = "blank" /\ \A s \in Targets \ {t} : stage'[c][s] = stage[c][s]
    <3>1. PICK u \in Targets : u = t
      BY <2>2
    <3>2. stage' = [stage EXCEPT ![c][u] = "blank"]
      BY <1>9, <3>1
    <3>3. /\ stage' = [stage EXCEPT ![c] = stage'[c]] /\ stage'[c] \in StagedFiles
          /\ stage'[c][u] = "blank" /\ \A s \in Targets \ {u} : stage'[c][s] = stage[c][s]
      BY <3>2, StageSet
    <3> QED
      BY <3>1, <3>3
  <2> HIDE DEF r
  <2>7. Len(r.created) < r.next
    <3>1. PICK m \in Nat : m = Len(op[c].created)
      BY <1>2
    <3>2. m < k
      BY <1>2, <1>3, <1>7, <3>1
    <3> QED
      BY <2>4, <3>1, <3>2
  <2>8. OwnOK(r)
    BY <1>1, <1>2, <1>3, <2>2, <2>4, <2>7
    DEF OwnOK, Bare, AtAsset, Planning, Locking, Preparing, Publishing, Closing, Forward, Backward, Steps
  <2>9. Secured(r) \subseteq Secured(op[c])
    BY <1>1, <1>2, <1>6, <1>7, <2>4 DEF Secured, Planning, Preparing, Publishing, Closing
  <2>10. Listed(r, entry, stage'[c], staging'[c], c)
    BY <1>1, <1>2, <2>4, <2>6 DEF Listed
  <2>11. r.pc \in Steps
    BY <2>4 DEF Steps, Forward
  <2>12. staging' = [staging EXCEPT ![c] = staging'[c]] /\ staging'[c] \in BOOLEAN
    BY <1>1, SameStage
  <2> QED
    BY <1>1, <1>2, <2>3, <2>4, <2>5, <2>6, <2>8, <2>9, <2>10, <2>11, <2>12, StagingMove
<1> QED
  BY <1>4, <1>8, <1>9 DEF OpenStage

LEMMA WriteStageMoves ==
    ASSUME InitInv, NEW c \in Commands, WriteStage(c)
    PROVE  Moves(c)
<1> DEFINE t == Asset(c)
           r == [op[c] EXCEPT !.pc = "check_target", !.known = @ \cup {t}]
<1>1. /\ op[c].pc = "write_stage" /\ UNCHANGED <<entry, staging>> /\ Become(c, r)
      /\ stage' = [stage EXCEPT ![c][t] = "whole"]
  BY DEF WriteStage, At
<1>2. /\ op[c] \in Operations /\ OwnOK(op[c]) /\ op[c].pc \in Forward /\ op[c].pc \in Steps \ {"report"}
      /\ op[c].err = "none" /\ op[c].confirmed /\ op[c].result = "none" /\ op[c].lock = "whole"
      /\ Listed(op[c], entry, stage[c], staging[c], c)
  BY <1>1, PublishingAt DEF Publishing
<1>3. t \in Targets /\ t = op[c].assets[op[c].next] /\ op[c].staged = {t}
  BY <1>1, <1>2, AssetIs DEF AtAsset, Publishing, OwnOK
<1>4. r \in Operations
  <2>1. op[c] \in Operations /\ "check_target" \in Labels
    BY <1>2, StepsAre DEF Publishing
  <2>2. op[c].known \cup {t} \in SUBSET Targets
    BY <1>3, <2>1 DEF Operations
  <2> HIDE DEF t
  <2> QED
    BY <2>1, <2>2 DEF Operations
<1>5. /\ r.pc = "check_target" /\ r.assets = op[c].assets /\ r.next = op[c].next
      /\ r.depth = op[c].depth /\ r.held = op[c].held /\ r.looked = op[c].looked
      /\ r.state = op[c].state /\ r.lock = op[c].lock /\ r.tracked = op[c].tracked
      /\ r.staged = op[c].staged /\ r.known = op[c].known \cup {t} /\ r.created = op[c].created
      /\ r.dirs = op[c].dirs /\ r.err = op[c].err /\ r.confirmed = op[c].confirmed
      /\ r.result = op[c].result
  BY <1>2 DEF Operations
<1> HIDE DEF r, t
<1>6. /\ stage' = [stage EXCEPT ![c] = stage'[c]] /\ stage'[c] \in StagedFiles
      /\ \A s \in Targets \ {t} : stage'[c][s] = stage[c][s]
  BY <1>1, <1>3, StageSet
<1>7. OwnOK(r)
  BY <1>1, <1>2, <1>5
  DEF OwnOK, Bare, AtAsset, Planning, Locking, Preparing, Publishing, Closing, Forward, Backward, Steps
<1>8. Secured(r) \subseteq Secured(op[c])
  BY <1>1, <1>2, <1>5 DEF Secured, Planning, Preparing, Publishing, Closing
<1>9. Listed(r, entry, stage'[c], staging'[c], c)
  BY <1>1, <1>2, <1>3, <1>5, <1>6 DEF Listed
<1>10. r.pc \in Steps
  BY <1>5 DEF Steps, Forward
<1>11. staging' = [staging EXCEPT ![c] = staging'[c]] /\ staging'[c] \in BOOLEAN
  BY <1>1, SameStage
<1> QED
  BY <1>1, <1>2, <1>4, <1>5, <1>6, <1>7, <1>8, <1>9, <1>10, <1>11, StagingMove

LEMMA CheckTargetMoves ==
    ASSUME InitInv, NEW c \in Commands, CheckTarget(c)
    PROVE  Moves(c)
<1>1. op[c].pc = "check_target" /\ op[c].pc \in Forward /\ UNCHANGED disk
  BY DEF CheckTarget, At, Forward
<1>2. CASE Throw(c, "input")
  BY <1>1, <1>2, ThrowMoves, ErrorsAre
<1>3. CASE Go(c, "link")
  <2> DEFINE r == [op[c] EXCEPT !.pc = "link"]
  <2>1. /\ op[c] \in Operations /\ OwnOK(op[c]) /\ op[c].pc \in Steps \ {"report"}
        /\ op[c].err = "none" /\ op[c].confirmed /\ op[c].result = "none"
    BY <1>1, PublishingAt DEF Publishing
  <2>2. r \in Operations
    BY <2>1, StepsAre DEF Operations, Publishing
  <2>3. /\ r.pc = "link" /\ r.assets = op[c].assets /\ r.next = op[c].next /\ r.depth = op[c].depth
        /\ r.held = op[c].held /\ r.looked = op[c].looked /\ r.state = op[c].state
        /\ r.lock = op[c].lock /\ r.tracked = op[c].tracked /\ r.staged = op[c].staged
        /\ r.known = op[c].known /\ r.created = op[c].created /\ r.dirs = op[c].dirs
        /\ r.err = op[c].err /\ r.confirmed = op[c].confirmed /\ r.result = op[c].result
    BY <2>1 DEF Operations
  <2>4. Become(c, r)
    BY <1>3 DEF Go
  <2> HIDE DEF r
  <2>5. OwnOK(r)
    BY <1>1, <2>1, <2>3
    DEF OwnOK, Bare, AtAsset, Planning, Locking, Preparing, Publishing, Closing, Forward, Backward, Steps
  <2>6. Secured(r) \subseteq Secured(op[c])
    BY <1>1, <2>1, <2>3 DEF Secured, Planning, Preparing, Publishing, Closing
  <2>7. r.pc \in Steps
    BY <2>3 DEF Steps, Forward
  <2> QED
    BY <1>1, <2>1, <2>2, <2>3, <2>4, <2>5, <2>6, <2>7, QuietMove DEF Cleaned
<1> QED
  BY <1>1, <1>2, <1>3 DEF CheckTarget

LEMMA TargetMade ==
    ASSUME InitInv, NEW c \in Commands, NEW t \in Targets, ~Exists(t), InPlace(t), Put(t, File(c, "whole"))
    PROVE  /\ EntryMove(c) /\ entry'["lock"] = entry["lock"] /\ entry'[t].by = c
           /\ \A s \in Targets \ {t} : entry'[s] = entry[s]
           /\ \A d \in Dirs : entry'[d] = entry[d]
<1>1. /\ File(c, "whole") \in Nodes /\ File(c, "whole").kind = "file" /\ File(c, "whole").by = c
  BY NodesAre
<1>2. t \in Names /\ t # "lock" /\ "lock" \in Names /\ Targets \subseteq Names /\ Dirs \subseteq Names \ {t}
  BY DEF Names, Dirs, Targets
<1>3. entry' = [entry EXCEPT ![t] = File(c, "whole")] /\ entry \in [Names -> Nodes]
  BY DiskIs DEF Put
<1>4. EntryMove(c)
  BY <1>1, <1>2, <1>3 DEF EntryMove
<1> QED
  BY <1>1, <1>2, <1>3, <1>4

LEMMA LinkMoves ==
    ASSUME InitInv, NEW c \in Commands, Link(c)
    PROVE  Moves(c)
<1> DEFINE t == Asset(c)
           r == [op[c] EXCEPT !.pc = "unstage", !.created = Append(@, t)]
<1>1. op[c].pc = "link" /\ op[c].pc \in Forward /\ UNCHANGED <<stage, staging>>
  BY DEF Link, At, Forward
<1>2. CASE Throw(c, "input") /\ UNCHANGED entry
  BY <1>1, <1>2, ThrowMoves, ErrorsAre DEF disk
<1>3. CASE InPlace(t) /\ ~Exists(t) /\ Put(t, File(c, "whole")) /\ Become(c, r)
  <2>1. /\ op[c] \in Operations /\ OwnOK(op[c]) /\ op[c].pc \in Steps \ {"report"}
        /\ op[c].err = "none" /\ op[c].confirmed /\ op[c].result = "none" /\ op[c].lock = "whole"
        /\ op[c].created \in SeqsOf(Targets) /\ Len(op[c].created) \in Nat
        /\ op[c].assets \in {Assets[i] : i \in Integrations}
        /\ Listed(op[c], entry, stage[c], staging[c], c) /\ Holds(c)
    BY <1>1, PublishingAt DEF Publishing
  <2>2. t \in Targets /\ op[c].next \in {1, 2} /\ Len(op[c].created) < op[c].next
    BY <1>1, <2>1, AssetIs DEF AtAsset, Publishing, OwnOK
  <2>3. Len(op[c].created) < 2 /\ Len(op[c].created) + 1 <= op[c].next
    <3>1. PICK m \in Nat : m = Len(op[c].created)
      BY <2>1
    <3>2. m < 2 /\ m + 1 <= op[c].next
      BY <2>2, <3>1
    <3> QED
      BY <3>1, <3>2
  <2>4. /\ Append(op[c].created, t) \in SeqsOf(Targets) /\ Len(Append(op[c].created, t)) = Len(op[c].created) + 1
        /\ \A y : In(y, Append(op[c].created, t)) <=> y = t \/ In(y, op[c].created)
    <3> HIDE DEF t
    <3> QED
      BY <2>1, <2>2, <2>3, Appended
  <2>5. r \in Operations
    <3>1. op[c] \in Operations /\ "unstage" \in Labels /\ Append(op[c].created, t) \in SeqsOf(Targets)
      BY <2>1, <2>4, StepsAre DEF Publishing
    <3> HIDE DEF t
    <3> QED
      BY <3>1 DEF Operations
  <2>6. /\ r.pc = "unstage" /\ r.assets = op[c].assets /\ r.next = op[c].next
        /\ r.depth = op[c].depth /\ r.held = op[c].held /\ r.looked = op[c].looked
        /\ r.state = op[c].state /\ r.lock = op[c].lock /\ r.tracked = op[c].tracked
        /\ r.staged = op[c].staged /\ r.known = op[c].known /\ r.created = Append(op[c].created, t)
        /\ r.dirs = op[c].dirs /\ r.err = op[c].err /\ r.confirmed = op[c].confirmed
        /\ r.result = op[c].result
    BY <2>1 DEF Operations
  <2>7. op'[c] = r /\ op' = [op EXCEPT ![c] = op'[c]]
    BY <1>3, BecomeIs
  <2>8. /\ EntryMove(c) /\ entry'["lock"] = entry["lock"] /\ entry'[t].by = c
        /\ \A s \in Targets \ {t} : entry'[s] = entry[s]
        /\ \A d \in Dirs : entry'[d] = entry[d]
    <3> HIDE DEF t
    <3> QED
      BY <1>3, <2>2, TargetMade
  <2> HIDE DEF r, t
  <2>9. OwnOK(r)
    <3>1. Len(r.created) <= r.next
      BY <2>3, <2>4, <2>6
    <3>2. r.next <= Len(r.assets) /\ r.next <= Len(r.assets) + 1 /\ r.staged = {r.assets[r.next]}
      BY <1>1, <2>1, <2>6 DEF OwnOK, AtAsset, Publishing
    <3> QED
      BY <1>1, <2>1, <2>6, <3>1, <3>2
      DEF OwnOK, Bare, AtAsset, Planning, Locking, Preparing, Publishing, Closing, Forward, Backward, Steps
  <2>10. Secured(r) \subseteq Secured(op[c])
    BY <1>1, <2>1, <2>6 DEF Secured, Planning, Preparing, Publishing, Closing
  <2>11. Listed(r, entry', stage'[c], staging'[c], c)
    BY <1>1, <2>1, <2>4, <2>6, <2>8 DEF Listed
  <2>12. \A k \in Secured(r) : r.assets[k] \notin touched =>
            /\ entry'[r.assets[k]].kind = "file" /\ entry'[r.assets[k]].content = "whole"
            /\ Alone(r.assets[k], c)
    <3> SUFFICES ASSUME NEW k \in Secured(r), r.assets[k] \notin touched
                 PROVE  Stands(r.assets[k], c) /\ entry'[r.assets[k]] = entry[r.assets[k]]
      BY DEF Stands, Alone
    <3>1. k \in Secured(op[c]) /\ r.assets[k] = op[c].assets[k]
      BY <2>6, <2>10
    <3>2. op[c].assets[k] \in Targets
      BY <2>1, <3>1, AssetsAre DEF Secured
    <3>3. Stands(op[c].assets[k], c)
      BY <3>1 DEF InitInv, SecureOK
    <3>4. op[c].assets[k] # t
      BY <1>3, <3>3 DEF Stands, Exists
    <3> QED
      BY <2>8, <3>1, <3>2, <3>3, <3>4
  <2>13. entry'["lock"].kind = "file" /\ entry'["lock"].by = c
    BY <2>1, <2>8 DEF Holds
  <2>14. r.pc \in Steps
    BY <2>6 DEF Steps, Forward
  <2>15. /\ stage' = [stage EXCEPT ![c] = stage'[c]] /\ stage'[c] \in StagedFiles
         /\ staging' = [staging EXCEPT ![c] = staging'[c]] /\ staging'[c] \in BOOLEAN
    BY <1>1, SameStage
  <2>16. \A s \in Targets : In(s, r.created) => In(s, op[c].created) \/ ~Exists(s)
    BY <1>3, <2>4, <2>6
  <2> QED
    BY <2>1, <2>5, <2>7, <2>8, <2>9, <2>11, <2>12, <2>13, <2>14, <2>15, <2>16 DEF Moves
<1> QED
  BY <1>2, <1>3 DEF Link, Free

LEMMA UnstageMoves ==
    ASSUME InitInv, NEW c \in Commands, Unstage(c)
    PROVE  Moves(c)
<1> DEFINE t == Asset(c)
           r == [op[c] EXCEPT !.pc = "verify", !.staged = @ \ {t}]
<1>1. op[c].pc = "unstage" /\ op[c].pc \in Forward /\ UNCHANGED <<entry, staging>>
  BY DEF Unstage, At, Forward
<1>2. CASE Throw(c, "unconfirmed") /\ UNCHANGED stage
  BY <1>1, <1>2, ThrowMoves, ErrorsAre DEF disk
<1>3. CASE stage' = [stage EXCEPT ![c][t] = "none"] /\ Become(c, r)
  <2>1. /\ op[c] \in Operations /\ OwnOK(op[c]) /\ op[c].pc \in Steps \ {"report"}
        /\ op[c].err = "none" /\ op[c].confirmed /\ op[c].result = "none" /\ op[c].lock = "whole"
        /\ Listed(op[c], entry, stage[c], staging[c], c)
    BY <1>1, PublishingAt DEF Publishing
  <2>2. t \in Targets /\ op[c].staged = {t}
    BY <1>1, <2>1, AssetIs DEF AtAsset, Publishing, OwnOK
  <2>3. r \in Operations
    <3>1. op[c] \in Operations /\ "verify" \in Labels /\ op[c].staged \ {t} \in SUBSET Targets
      BY <2>1, <2>2, StepsAre DEF Publishing
    <3> HIDE DEF t
    <3> QED
      BY <3>1 DEF Operations
  <2>4. /\ r.pc = "verify" /\ r.assets = op[c].assets /\ r.next = op[c].next
        /\ r.depth = op[c].depth /\ r.held = op[c].held /\ r.looked = op[c].looked
        /\ r.state = op[c].state /\ r.lock = op[c].lock /\ r.tracked = op[c].tracked
        /\ r.staged = {} /\ r.known = op[c].known /\ r.created = op[c].created
        /\ r.dirs = op[c].dirs /\ r.err = op[c].err /\ r.confirmed = op[c].confirmed
        /\ r.result = op[c].result
    <3>1. op[c].staged \ {t} = {}
      BY <2>2
    <3> HIDE DEF t
    <3> QED
      BY <2>1, <3>1 DEF Operations
  <2>5. Become(c, r)
    BY <1>3
  <2> HIDE DEF r, t
  <2>6. /\ stage' = [stage EXCEPT ![c] = stage'[c]] /\ stage'[c] \in StagedFiles
        /\ stage'[c][t] = "none" /\ \A s \in Targets \ {t} : stage'[c][s] = stage[c][s]
    BY <1>3, <2>2, StageSet
  <2>7. OwnOK(r)
    BY <1>1, <2>1, <2>4
    DEF OwnOK, Bare, AtAsset, Planning, Locking, Preparing, Publishing, Closing, Forward, Backward, Steps
  <2>8. Secured(r) \subseteq Secured(op[c])
    BY <1>1, <2>1, <2>4 DEF Secured, Planning, Preparing, Publishing, Closing
  <2>9. Listed(r, entry, stage'[c], staging'[c], c)
    BY <1>1, <2>1, <2>2, <2>4, <2>6 DEF Listed
  <2>10. r.pc \in Steps
    BY <2>4 DEF Steps, Forward
  <2>11. staging' = [staging EXCEPT ![c] = staging'[c]] /\ staging'[c] \in BOOLEAN
    BY <1>1, SameStage
  <2> QED
    BY <1>1, <2>1, <2>3, <2>4, <2>5, <2>6, <2>7, <2>8, <2>9, <2>10, <2>11, StagingMove
<1> QED
  BY <1>2, <1>3 DEF Unstage

LEMMA VerifyMoves ==
    ASSUME InitInv, NEW c \in Commands, Verify(c)
    PROVE  Moves(c)
<1> DEFINE r == [op[c] EXCEPT !.pc = "open_stage", !.next = @ + 1]
<1>1. op[c].pc = "verify" /\ op[c].pc \in Forward /\ UNCHANGED disk
  BY DEF Verify, At, Forward
<1>2. CASE Throw(c, "other")
  BY <1>1, <1>2, ThrowMoves, ErrorsAre
<1>3. CASE entry[Asset(c)] = File(c, "whole") /\ Become(c, r)
  <2>1. /\ op[c] \in Operations /\ OwnOK(op[c]) /\ op[c].pc \in Steps \ {"report"}
        /\ op[c].err = "none" /\ op[c].confirmed /\ op[c].result = "none" /\ op[c].lock = "whole"
        /\ Len(op[c].created) \in Nat /\ Len(op[c].assets) \in 1..2 /\ Holds(c)
    BY <1>1, PublishingAt DEF Publishing
  <2>2. /\ op[c].next \in {1, 2} /\ op[c].next <= Len(op[c].assets) /\ Len(op[c].created) <= op[c].next
        /\ Asset(c) = op[c].assets[op[c].next] /\ op[c].staged = {}
    BY <1>1, <2>1, AssetIs DEF AtAsset, Publishing, OwnOK
  <2>3. r \in Operations
    <3>1. op[c] \in Operations /\ "open_stage" \in Labels /\ op[c].next + 1 \in 1..3
      BY <2>1, <2>2, StepsAre DEF Publishing
    <3> QED
      BY <3>1 DEF Operations
  <2>4. /\ r.pc = "open_stage" /\ r.assets = op[c].assets /\ r.next = op[c].next + 1
        /\ r.depth = op[c].depth /\ r.held = op[c].held /\ r.looked = op[c].looked
        /\ r.state = op[c].state /\ r.lock = op[c].lock /\ r.tracked = op[c].tracked
        /\ r.staged = op[c].staged /\ r.known = op[c].known /\ r.created = op[c].created
        /\ r.dirs = op[c].dirs /\ r.err = op[c].err /\ r.confirmed = op[c].confirmed
        /\ r.result = op[c].result
    BY <2>1 DEF Operations
  <2> HIDE DEF r
  <2>5. r.next <= Len(r.assets) + 1 /\ Len(r.created) < r.next
    <3>1. PICK n \in 1..2 : n = Len(op[c].assets)
      BY <2>1
    <3>2. PICK m \in Nat : m = Len(op[c].created)
      BY <2>1
    <3>3. op[c].next <= n /\ m <= op[c].next
      BY <2>2, <3>1, <3>2
    <3>4. op[c].next + 1 <= n + 1 /\ m < op[c].next + 1
      BY <2>2, <3>3
    <3> QED
      BY <2>4, <3>1, <3>2, <3>4
  <2>6. OwnOK(r)
    BY <1>1, <2>1, <2>2, <2>4, <2>5
    DEF OwnOK, Bare, AtAsset, Planning, Locking, Preparing, Publishing, Closing, Forward, Backward, Steps
  <2>7. ASSUME NEW i \in Secured(r) PROVE i \in Secured(op[c]) \/ Stands(r.assets[i], c)
    <3>1. i \in 1..Len(op[c].assets) /\ (i < op[c].next + 1 \/ op[c].state[op[c].assets[i]] = "unchanged")
      BY <2>1, <2>4, <2>7 DEF Secured, Planning, Preparing, Publishing, Closing
    <3>2. i < op[c].next \/ i = op[c].next \/ op[c].state[op[c].assets[i]] = "unchanged"
      <4>1. i \in Nat
        BY <2>1, <3>1
      <4> QED
        BY <2>2, <3>1, <4>1
    <3>3. CASE i = op[c].next
      <4>1. r.assets[i] = Asset(c)
        BY <2>2, <2>4, <3>3
      <4>2. entry[Asset(c)].kind = "file" /\ entry[Asset(c)].content = "whole"
        BY <1>3 DEF File
      <4>3. Alone(Asset(c), c)
        BY <2>1, HolderAlone
      <4>4. Stands(Asset(c), c)
        BY <4>2, <4>3 DEF Stands, Alone
      <4> QED
        BY <4>1, <4>4
    <3> QED
      BY <1>1, <3>1, <3>2, <3>3 DEF Secured, Publishing
  <2>8. r.pc \in Steps
    BY <2>4 DEF Steps, Forward
  <2> QED
    BY <1>1, <1>3, <2>1, <2>3, <2>4, <2>6, <2>7, <2>8, QuietMove DEF Cleaned
<1> QED
  BY <1>2, <1>3 DEF Verify

-----------------------------------------------------------------------------
(* Closing.                                                                *)

LEMMA RemoveStagingMoves ==
    ASSUME InitInv, NEW c \in Commands, RemoveStaging(c)
    PROVE  Moves(c)
<1> DEFINE r == [op[c] EXCEPT !.pc = "close_lock", !.tracked = FALSE]
<1>1. op[c].pc = "remove_staging" /\ UNCHANGED <<entry, stage>> /\ Become(c, r) /\ staging' = [staging EXCEPT ![c] = FALSE]
  BY DEF RemoveStaging, At
<1>2. /\ op[c] \in Operations /\ OwnOK(op[c]) /\ op[c].pc \in Steps \ {"report"}
      /\ op[c].err = "none" /\ op[c].confirmed /\ op[c].result = "none" /\ op[c].lock = "whole"
      /\ Listed(op[c], entry, stage[c], staging[c], c)
  BY <1>1, PublishingAt DEF Closing
<1>3. r \in Operations
  BY <1>2, StepsAre DEF Operations, Closing
<1>4. /\ r.pc = "close_lock" /\ r.assets = op[c].assets /\ r.next = op[c].next
      /\ r.depth = op[c].depth /\ r.held = op[c].held /\ r.looked = op[c].looked
      /\ r.state = op[c].state /\ r.lock = op[c].lock /\ r.tracked = FALSE
      /\ r.staged = op[c].staged /\ r.known = op[c].known /\ r.created = op[c].created
      /\ r.dirs = op[c].dirs /\ r.err = op[c].err /\ r.confirmed = op[c].confirmed
      /\ r.result = op[c].result
  BY <1>2 DEF Operations
<1>5. staging'[c] = FALSE /\ staging' = [staging EXCEPT ![c] = staging'[c]]
  BY <1>1, DiskIs
<1> HIDE DEF r
<1>6. OwnOK(r)
  BY <1>1, <1>2, <1>4
  DEF OwnOK, Bare, AtAsset, Planning, Locking, Preparing, Publishing, Closing, Forward, Backward, Steps
<1>7. Secured(r) \subseteq Secured(op[c])
  BY <1>1, <1>2, <1>4 DEF Secured, Planning, Preparing, Publishing, Closing
<1>8. Listed(r, entry, stage'[c], staging'[c], c)
  BY <1>1, <1>2, <1>4, <1>5 DEF Listed
<1>9. r.pc \in Steps
  BY <1>4 DEF Steps, Forward
<1>10. stage' = [stage EXCEPT ![c] = stage'[c]] /\ stage'[c] \in StagedFiles
  BY <1>1, SameStage
<1> QED
  BY <1>1, <1>2, <1>3, <1>4, <1>5, <1>6, <1>7, <1>8, <1>9, <1>10, StagingMove

LEMMA CloseLockMoves ==
    ASSUME InitInv, NEW c \in Commands, CloseLock(c)
    PROVE  Moves(c)
<1> DEFINE r == [op[c] EXCEPT !.pc = "release"]
<1>1. op[c].pc = "close_lock" /\ UNCHANGED disk /\ Become(c, r)
  BY DEF CloseLock, At, Go
<1>2. /\ op[c] \in Operations /\ OwnOK(op[c]) /\ op[c].pc \in Steps \ {"report"}
      /\ op[c].err = "none" /\ op[c].confirmed /\ op[c].result = "none"
  BY <1>1, PublishingAt DEF Closing
<1>3. r \in Operations
  BY <1>2, StepsAre DEF Operations, Closing
<1>4. /\ r.pc = "release" /\ r.assets = op[c].assets /\ r.next = op[c].next
      /\ r.depth = op[c].depth /\ r.held = op[c].held /\ r.looked = op[c].looked
      /\ r.state = op[c].state /\ r.lock = op[c].lock /\ r.tracked = op[c].tracked
      /\ r.staged = op[c].staged /\ r.known = op[c].known /\ r.created = op[c].created
      /\ r.dirs = op[c].dirs /\ r.err = op[c].err /\ r.confirmed = op[c].confirmed
      /\ r.result = op[c].result
  BY <1>2 DEF Operations
<1> HIDE DEF r
<1>5. OwnOK(r)
  BY <1>1, <1>2, <1>4
  DEF OwnOK, Bare, AtAsset, Planning, Locking, Preparing, Publishing, Closing, Forward, Backward, Steps
<1>6. Secured(r) \subseteq Secured(op[c])
  BY <1>1, <1>2, <1>4 DEF Secured, Planning, Preparing, Publishing, Closing
<1>7. r.pc \in Steps
  BY <1>4 DEF Steps, Forward
<1> QED
  BY <1>1, <1>2, <1>3, <1>4, <1>5, <1>6, <1>7, QuietMove DEF Cleaned

\* A lock of its own goes.
LEMMA LockTaken ==
    ASSUME InitInv, NEW c \in Commands, StillOurs(c, "lock"), Put("lock", Nothing)
    PROVE  /\ EntryMove(c) /\ entry'["lock"].by # c
           /\ \A n \in Targets \cup Dirs : entry'[n] = entry[n]
<1>1. /\ Nothing \in Nodes /\ Nothing.by = Nobody /\ Nobody # c
      /\ File(c, "whole").kind = "file" /\ File(c, "whole").by = c /\ File(c, "whole").content = "whole"
  BY NodesAre
<1>2. "lock" \in Names /\ Below("lock") = {} /\ "lock" \notin Targets
  BY BelowIs DEF Names, Targets
<1>3. EntryMove(c)
  BY <1>1, <1>2 DEF EntryMove, Put, StillOurs, Exists
<1> QED
  BY <1>1, <1>3, LockPut

LEMMA ReleaseMoves ==
    ASSUME InitInv, NEW c \in Commands, Release(c)
    PROVE  Moves(c)
<1> DEFINE r == [op[c] EXCEPT !.pc = "report", !.lock = "none"]
<1>1. op[c].pc = "release" /\ op[c].pc \in Forward /\ UNCHANGED <<stage, staging>>
  BY DEF Release, At, Forward
<1>2. CASE Throw(c, "other") /\ UNCHANGED entry
  BY <1>1, <1>2, ThrowMoves, ErrorsAre DEF disk
<1>3. CASE (StillOurs(c, "lock") \/ Missing("lock")) /\ Put("lock", Nothing) /\ Become(c, r)
  <2>1. /\ op[c] \in Operations /\ OwnOK(op[c]) /\ op[c].pc \in Steps \ {"report"}
        /\ op[c].err = "none" /\ op[c].confirmed /\ op[c].result = "none"
        /\ op[c].assets \in {Assets[i] : i \in Integrations}
        /\ Listed(op[c], entry, stage[c], staging[c], c) /\ Holds(c)
    BY <1>1, PublishingAt DEF Closing
  <2>2. StillOurs(c, "lock")
    BY <1>3, <2>1 DEF Holds, Missing, Exists
  <2>3. /\ EntryMove(c) /\ entry'["lock"].by # c
        /\ \A n \in Targets \cup Dirs : entry'[n] = entry[n]
    BY <1>3, <2>2, LockTaken
  <2>4. r \in Operations
    BY <2>1, StepsAre DEF Operations
  <2>5. /\ r.pc = "report" /\ r.assets = op[c].assets /\ r.next = op[c].next
        /\ r.depth = op[c].depth /\ r.held = op[c].held /\ r.looked = op[c].looked
        /\ r.state = op[c].state /\ r.lock = "none" /\ r.tracked = op[c].tracked
        /\ r.staged = op[c].staged /\ r.known = op[c].known /\ r.created = op[c].created
        /\ r.dirs = op[c].dirs /\ r.err = op[c].err /\ r.confirmed = op[c].confirmed
        /\ r.result = op[c].result
    BY <2>1 DEF Operations
  <2>6. op'[c] = r /\ op' = [op EXCEPT ![c] = op'[c]]
    BY <1>3, BecomeIs
  <2> HIDE DEF r
  <2>7. OwnOK(r)
    BY <1>1, <2>1, <2>5
    DEF OwnOK, Bare, AtAsset, Planning, Locking, Preparing, Publishing, Closing, Forward, Backward, Steps
  <2>8. Secured(r) \subseteq Secured(op[c])
    BY <1>1, <2>1, <2>5 DEF Secured, Planning, Preparing, Publishing, Closing
  <2>9. Listed(r, entry', stage'[c], staging'[c], c)
    <3>1. ~op[c].tracked
      BY <1>1, <2>1 DEF OwnOK
    <3> QED
      BY <1>1, <2>1, <2>3, <2>5, <3>1 DEF Listed
  <2>10. \A k \in Secured(r) : r.assets[k] \notin touched =>
            /\ entry'[r.assets[k]].kind = "file" /\ entry'[r.assets[k]].content = "whole"
            /\ Alone(r.assets[k], c)
    <3> SUFFICES ASSUME NEW k \in Secured(r), r.assets[k] \notin touched
                 PROVE  Stands(r.assets[k], c) /\ entry'[r.assets[k]] = entry[r.assets[k]]
      BY DEF Stands, Alone
    <3>1. k \in Secured(op[c]) /\ r.assets[k] = op[c].assets[k]
      BY <2>5, <2>8
    <3>2. op[c].assets[k] \in Targets
      BY <2>1, <3>1, AssetsAre DEF Secured
    <3> QED
      BY <2>3, <3>1, <3>2 DEF InitInv, SecureOK
  <2>11. r.pc \in Steps
    BY <2>5 DEF Steps
  <2>12. /\ stage' = [stage EXCEPT ![c] = stage'[c]] /\ stage'[c] \in StagedFiles
         /\ staging' = [staging EXCEPT ![c] = staging'[c]] /\ staging'[c] \in BOOLEAN
    BY <1>1, SameStage
  <2> QED
    BY <2>1, <2>3, <2>4, <2>5, <2>6, <2>7, <2>9, <2>10, <2>11, <2>12 DEF Moves
<1> QED
  BY <1>2, <1>3 DEF Release

-----------------------------------------------------------------------------
(* The rollback.                                                           *)

LEMMA BackwardAt ==
    ASSUME InitInv, NEW c \in Commands, op[c].pc \in Backward
    PROVE  /\ op[c] \in Operations /\ OwnOK(op[c]) /\ op[c].pc \in Steps \ {"report"} /\ Running(c)
           /\ op[c].next <= Len(op[c].assets) + 1
           /\ op[c].err # "none" /\ op[c].result = "none"
           /\ op[c].created \in SeqsOf(Targets) /\ op[c].dirs \in SeqsOf(Dirs)
           /\ op[c].lock = "none" => Bare(op[c])
           /\ op[c].lock # "none" => Holds(c)
           /\ op[c].pc # "undo_files" => op[c].created = <<>>
           /\ op[c].pc \notin {"undo_files", "undo_staged"} => op[c].staged = {}
           /\ op[c].pc = "undo_lock" => op[c].dirs = <<>>
           /\ Cleaned(c) => Listed(op[c], entry, stage[c], staging[c], c)
<1>1. op[c] \in Operations /\ OwnOK(op[c])
  BY OpIs
<1>2. op[c].created \in SeqsOf(Targets) /\ op[c].dirs \in SeqsOf(Dirs)
  BY <1>1 DEF Operations
<1>3. op[c].pc \in Steps \ {"report"} /\ Running(c)
  BY DEF Steps, Backward, Running
<1>4. op[c].next <= Len(op[c].assets) + 1 /\ op[c].err # "none" /\ op[c].result = "none"
  BY <1>1, <1>3 DEF OwnOK
<1>5. /\ op[c].lock = "none" => Bare(op[c])
      /\ op[c].pc # "undo_files" => op[c].created = <<>>
      /\ op[c].pc \notin {"undo_files", "undo_staged"} => op[c].staged = {}
      /\ op[c].pc = "undo_lock" => op[c].dirs = <<>>
  BY <1>1 DEF OwnOK
<1>6. op[c].lock # "none" => Holds(c)
  BY <1>3 DEF InitInv, LockOK
<1>7. Cleaned(c) => Listed(op[c], entry, stage[c], staging[c], c)
  BY <1>3, ListsAre
<1> QED
  BY <1>1, <1>2, <1>3, <1>4, <1>5, <1>6, <1>7

LEMMA UndoMove ==
    ASSUME InitInv, NEW c \in Commands, NEW r \in Operations, op[c].pc \in Backward, Become(c, r),
           r.pc \in Backward \cup {"report"}, r.assets = op[c].assets, r.next = op[c].next,
           r.err = op[c].err, r.result = op[c].result,
           r.pc # "undo_files" => r.created = <<>>,
           r.pc \notin {"undo_files", "undo_staged"} => r.staged = {},
           r.pc \in {"undo_lock", "report"} => r.dirs = <<>>,
           r.pc = "report" => r.lock = "none",
           r.pc # "report" /\ r.lock = "none" => Bare(r),
           r.lock # "none" => op[c].lock # "none" /\ entry'["lock"] = entry["lock"],
           \A t : In(t, r.created) => In(t, op[c].created),
           EntryMove(c),
           stage' = [stage EXCEPT ![c] = stage'[c]], stage'[c] \in StagedFiles,
           staging' = [staging EXCEPT ![c] = staging'[c]], staging'[c] \in BOOLEAN,
           r.confirmed /\ r.err # "unconfirmed" => Listed(r, entry', stage'[c], staging'[c], c)
    PROVE  Moves(c)
<1>1. op'[c] = r /\ op' = [op EXCEPT ![c] = op'[c]]
  BY BecomeIs
<1>2. /\ op[c].pc \in Steps \ {"report"} /\ r.next <= Len(r.assets) + 1
      /\ r.err # "none" /\ r.result = "none"
  BY BackwardAt
<1>3. OwnOK(r)
  BY <1>2 DEF OwnOK, AtAsset, Planning, Locking, Preparing, Publishing, Closing, Forward, Backward, Steps
<1>4. Secured(r) = {}
  BY <1>2 DEF Secured, Planning, Preparing, Publishing, Closing, Backward
<1>5. r.lock # "none" => entry'["lock"].kind = "file" /\ entry'["lock"].by = c
  BY BackwardAt DEF Holds
<1>6. r.pc \in Steps
  BY DEF Steps
<1> QED
  BY <1>1, <1>2, <1>3, <1>4, <1>5, <1>6 DEF Moves

\* A name of its own goes.
LEMMA NameTaken ==
    ASSUME InitInv, NEW c \in Commands, NEW n \in Targets \cup Dirs, Exists(n), entry[n].by = c,
           entry[n].content # "edited", \A m \in Below(n) : ~Exists(m),
           n \in Targets => In(n, op[c].created), Put(n, Nothing)
    PROVE  /\ EntryMove(c) /\ entry'["lock"] = entry["lock"] /\ entry'[n].by # c
           /\ \A m \in Names \ {n} : entry'[m] = entry[m]
<1>1. n \in Names /\ "lock" \in Names /\ n # "lock" /\ Nothing \in Nodes /\ Nothing.by # c
  BY NodesAre DEF Names, Targets, Dirs
<1>2. entry' = [entry EXCEPT ![n] = Nothing] /\ entry \in [Names -> Nodes]
  BY DiskIs DEF Put
<1>3. EntryMove(c)
  BY <1>1, <1>2 DEF EntryMove
<1> QED
  BY <1>1, <1>2, <1>3

\* What is missing is nobody's.
LEMMA MissingIs ==
    ASSUME InitInv, NEW c \in Commands, NEW n \in Names, Missing(n)
    PROVE  entry[n].by # c
<1>1. entry[n] = Nothing
  BY DEF InitInv, TreeOK, Missing
<1> QED
  BY <1>1, NodesAre

LEMMA NamesAre ==
    /\ Names = Targets \cup Dirs \cup {"lock"} /\ "lock" \notin Targets \cup Dirs
    /\ Targets \cap Dirs = {}
  BY DEF Names, Targets, Dirs

LEMMA UndoFileMoves ==
    ASSUME InitInv, NEW c \in Commands, op[c].pc = "undo_files", UNCHANGED <<stage, staging>>,
           op[c].created # <<>>, NEW t, t = op[c].created[Len(op[c].created)],
           NEW s, s = SubSeq(op[c].created, 1, Len(op[c].created) - 1), NEW ok \in BOOLEAN,
           Become(c, Undone([op[c] EXCEPT !.created = s], "undo_files", ok)),
           \/ UNCHANGED entry /\ (ok => Missing(t))
           \/ StillOurs(c, t) /\ Put(t, Nothing)
    PROVE  Moves(c)
<1> DEFINE r == Undone([op[c] EXCEPT !.created = s], "undo_files", ok)
<1>1. op[c].pc \in Backward
  BY DEF Backward
<1>2. /\ op[c] \in Operations /\ op[c].created \in SeqsOf(Targets) /\ op[c].lock # "none"
  BY <1>1, BackwardAt DEF Bare
<1>3. /\ s \in SeqsOf(Targets) /\ t \in Targets
      /\ \A y : In(y, s) => In(y, op[c].created)
      /\ \A y : In(y, op[c].created) => y = t \/ In(y, s)
      /\ In(t, op[c].created)
  <2>1. Len(op[c].created) > 0 /\ Len(op[c].created) \in Nat
    BY <1>2, Popped, SeqsOfIs
  <2>2. Len(op[c].created) \in 1..Len(op[c].created)
    BY <2>1
  <2>3. In(t, op[c].created)
    BY <2>2 DEF In
  <2>4. /\ s \in SeqsOf(Targets) /\ t \in Targets
        /\ \A y : In(y, s) => In(y, op[c].created)
        /\ \A y : In(y, op[c].created) => y = t \/ In(y, s)
    BY <1>2, Popped
  <2> QED
    BY <2>3, <2>4
<1>4. r \in Operations
  BY <1>2, <1>3, StepsAre DEF Operations, Undone, Backward
<1>5. /\ r.pc = "undo_files" /\ r.assets = op[c].assets /\ r.next = op[c].next
      /\ r.depth = op[c].depth /\ r.held = op[c].held /\ r.looked = op[c].looked
      /\ r.state = op[c].state /\ r.lock = op[c].lock /\ r.tracked = op[c].tracked
      /\ r.staged = op[c].staged /\ r.known = op[c].known /\ r.created = s /\ r.dirs = op[c].dirs
      /\ r.err = op[c].err /\ r.confirmed = (op[c].confirmed /\ ok) /\ r.result = op[c].result
  BY <1>2 DEF Operations, Undone
<1>6. Become(c, r)
  OBVIOUS
<1> HIDE DEF r
<1>7. /\ EntryMove(c) /\ entry'["lock"] = entry["lock"]
      /\ ok => entry'[t].by # c
      /\ \A m \in Names \ {t} : entry'[m] = entry[m]
  <2>1. CASE UNCHANGED entry /\ (ok => Missing(t))
    BY <1>3, <2>1, MissingIs, NamesAre DEF EntryMove
  <2>2. CASE StillOurs(c, t) /\ Put(t, Nothing)
    <3>1. Exists(t) /\ entry[t].by = c /\ entry[t].content # "edited"
      BY <2>2, NodesAre DEF StillOurs, Exists
    <3>2. Below(t) = {}
      BY <1>3, BelowIs DEF Names, Targets, Dirs
    <3> QED
      BY <1>3, <2>2, <3>1, <3>2, NameTaken
  <2> QED
    BY <2>1, <2>2
<1>8. r.confirmed /\ r.err # "unconfirmed" => Listed(r, entry', stage'[c], staging'[c], c)
  <2> SUFFICES ASSUME r.confirmed, r.err # "unconfirmed" PROVE Listed(r, entry', stage'[c], staging'[c], c)
    OBVIOUS
  <2>1. Listed(op[c], entry, stage[c], staging[c], c) /\ ok
    BY <1>1, <1>5, BackwardAt DEF Cleaned
  <2>2. \A n \in Names : entry'[n].by = c => n # t /\ entry[n].by = c
    BY <1>7, <2>1
  <2> QED
    BY <1>3, <1>5, <2>1, <2>2, NamesAre DEF Listed
<1>9. /\ stage' = [stage EXCEPT ![c] = stage'[c]] /\ stage'[c] \in StagedFiles
      /\ staging' = [staging EXCEPT ![c] = staging'[c]] /\ staging'[c] \in BOOLEAN
  BY SameStage
<1> QED
  BY <1>1, <1>2, <1>3, <1>4, <1>5, <1>6, <1>7, <1>8, <1>9, UndoMove

\* No name changes, and no list but that of the staged files.
LEMMA UndoStagedMoves ==
    ASSUME InitInv, NEW c \in Commands, op[c].pc = "undo_staged", UNCHANGED <<entry, staging>>,
           NEW ok \in BOOLEAN, Become(c, Undone([op[c] EXCEPT !.staged = {}], "undo_staging", ok)),
           stage' = [stage EXCEPT ![c] = stage'[c]], stage'[c] \in StagedFiles,
           ok => \A t \in Targets : stage'[c][t] # "none" => stage[c][t] # "none" /\ t \notin op[c].staged
    PROVE  Moves(c)
<1> DEFINE r == Undone([op[c] EXCEPT !.staged = {}], "undo_staging", ok)
<1>1. op[c].pc \in Backward
  BY DEF Backward
<1>2. op[c] \in Operations /\ op[c].created = <<>> /\ (op[c].lock = "none" => Bare(op[c]))
  BY <1>1, BackwardAt
<1>3. r \in Operations
  BY <1>2, StepsAre DEF Operations, Undone, Backward
<1>4. /\ r.pc = "undo_staging" /\ r.assets = op[c].assets /\ r.next = op[c].next
      /\ r.depth = op[c].depth /\ r.held = op[c].held /\ r.looked = op[c].looked
      /\ r.state = op[c].state /\ r.lock = op[c].lock /\ r.tracked = op[c].tracked
      /\ r.staged = {} /\ r.known = op[c].known /\ r.created = op[c].created
      /\ r.dirs = op[c].dirs /\ r.err = op[c].err /\ r.confirmed = (op[c].confirmed /\ ok)
      /\ r.result = op[c].result
  BY <1>2 DEF Operations, Undone
<1>5. Become(c, r)
  OBVIOUS
<1> HIDE DEF r
<1>6. r.confirmed /\ r.err # "unconfirmed" => Listed(r, entry', stage'[c], staging'[c], c)
  <2> SUFFICES ASSUME r.confirmed, r.err # "unconfirmed" PROVE Listed(r, entry', stage'[c], staging'[c], c)
    OBVIOUS
  <2>1. Listed(op[c], entry, stage[c], staging[c], c) /\ ok
    BY <1>1, <1>4, BackwardAt DEF Cleaned
  <2>2. \A t \in Targets : stage'[c][t] = "none"
    BY <2>1 DEF Listed
  <2> QED
    BY <1>4, <2>1, <2>2 DEF Listed
<1>7. staging' = [staging EXCEPT ![c] = staging'[c]] /\ staging'[c] \in BOOLEAN
  BY SameStage
<1>8. EntryMove(c) /\ (r.lock = "none" => Bare(r)) /\ r.pc \in Backward
  BY <1>2, <1>4 DEF EntryMove, Bare, Backward
<1> QED
  BY <1>1, <1>2, <1>3, <1>4, <1>5, <1>6, <1>7, <1>8, UndoMove

LEMMA UndoStagingMoves ==
    ASSUME InitInv, NEW c \in Commands, op[c].pc = "undo_staging", UNCHANGED <<entry, stage>>,
           NEW ok \in BOOLEAN, Become(c, Undone(op[c], "undo_dirs", ok)),
           staging' = [staging EXCEPT ![c] = staging'[c]], staging'[c] \in BOOLEAN,
           ok /\ op[c].tracked => ~staging'[c], ~op[c].tracked => staging'[c] = staging[c]
    PROVE  Moves(c)
<1> DEFINE r == Undone(op[c], "undo_dirs", ok)
<1>1. op[c].pc \in Backward
  BY DEF Backward
<1>2. op[c] \in Operations /\ op[c].created = <<>> /\ op[c].staged = {} /\ (op[c].lock = "none" => Bare(op[c]))
  BY <1>1, BackwardAt
<1>3. r \in Operations
  BY <1>2, StepsAre DEF Operations, Undone, Backward
<1>4. /\ r.pc = "undo_dirs" /\ r.assets = op[c].assets /\ r.next = op[c].next
      /\ r.depth = op[c].depth /\ r.held = op[c].held /\ r.looked = op[c].looked
      /\ r.state = op[c].state /\ r.lock = op[c].lock /\ r.tracked = op[c].tracked
      /\ r.staged = op[c].staged /\ r.known = op[c].known /\ r.created = op[c].created
      /\ r.dirs = op[c].dirs /\ r.err = op[c].err /\ r.confirmed = (op[c].confirmed /\ ok)
      /\ r.result = op[c].result
  BY <1>2 DEF Operations, Undone
<1>5. Become(c, r)
  OBVIOUS
<1> HIDE DEF r
<1>6. r.confirmed /\ r.err # "unconfirmed" => Listed(r, entry', stage'[c], staging'[c], c)
  <2> SUFFICES ASSUME r.confirmed, r.err # "unconfirmed" PROVE Listed(r, entry', stage'[c], staging'[c], c)
    OBVIOUS
  <2>1. Listed(op[c], entry, stage[c], staging[c], c) /\ ok
    BY <1>1, <1>4, BackwardAt DEF Cleaned
  <2>2. ~staging'[c]
    BY <2>1 DEF Listed
  <2> QED
    BY <1>4, <2>1, <2>2 DEF Listed
<1>7. stage' = [stage EXCEPT ![c] = stage'[c]] /\ stage'[c] \in StagedFiles
  BY SameStage
<1>8. EntryMove(c) /\ (r.lock = "none" => Bare(r)) /\ r.pc \in Backward
  BY <1>2, <1>4 DEF EntryMove, Bare, Backward
<1> QED
  BY <1>1, <1>2, <1>3, <1>4, <1>5, <1>6, <1>7, <1>8, UndoMove

LEMMA UndoDirMoves ==
    ASSUME InitInv, NEW c \in Commands, op[c].pc = "undo_dirs", UNCHANGED <<stage, staging>>,
           op[c].dirs # <<>>, NEW d, d = op[c].dirs[Len(op[c].dirs)],
           NEW s, s = SubSeq(op[c].dirs, 1, Len(op[c].dirs) - 1), NEW ok \in BOOLEAN,
           Become(c, Undone([op[c] EXCEPT !.dirs = s], "undo_dirs", ok)),
           \/ UNCHANGED entry /\ (ok => Missing(d))
           \/ entry[d] = Directory(c) /\ (\A n \in Below(d) : ~Exists(n)) /\ Put(d, Nothing)
    PROVE  Moves(c)
<1> DEFINE r == Undone([op[c] EXCEPT !.dirs = s], "undo_dirs", ok)
<1>1. op[c].pc \in Backward
  BY DEF Backward
<1>2. /\ op[c] \in Operations /\ op[c].dirs \in SeqsOf(Dirs) /\ op[c].lock # "none"
      /\ op[c].created = <<>> /\ op[c].staged = {}
  BY <1>1, BackwardAt DEF Bare
<1>3. /\ s \in SeqsOf(Dirs) /\ d \in Dirs
      /\ \A y : In(y, op[c].dirs) => y = d \/ In(y, s)
  BY <1>2, Popped
<1>4. r \in Operations
  BY <1>2, <1>3, StepsAre DEF Operations, Undone, Backward
<1>5. /\ r.pc = "undo_dirs" /\ r.assets = op[c].assets /\ r.next = op[c].next
      /\ r.depth = op[c].depth /\ r.held = op[c].held /\ r.looked = op[c].looked
      /\ r.state = op[c].state /\ r.lock = op[c].lock /\ r.tracked = op[c].tracked
      /\ r.staged = op[c].staged /\ r.known = op[c].known /\ r.created = op[c].created
      /\ r.dirs = s /\ r.err = op[c].err /\ r.confirmed = (op[c].confirmed /\ ok)
      /\ r.result = op[c].result
  BY <1>2 DEF Operations, Undone
<1>6. Become(c, r)
  OBVIOUS
<1> HIDE DEF r
<1>7. /\ EntryMove(c) /\ entry'["lock"] = entry["lock"]
      /\ ok => entry'[d].by # c
      /\ \A m \in Names \ {d} : entry'[m] = entry[m]
  <2>1. CASE UNCHANGED entry /\ (ok => Missing(d))
    BY <1>3, <2>1, MissingIs, NamesAre DEF EntryMove
  <2>2. CASE entry[d] = Directory(c) /\ (\A n \in Below(d) : ~Exists(n)) /\ Put(d, Nothing)
    <3>1. Exists(d) /\ entry[d].by = c /\ entry[d].content # "edited" /\ d \notin Targets
      BY <1>3, <2>2, NodesAre, NamesAre DEF Exists
    <3> QED
      BY <1>3, <2>2, <3>1, NameTaken
  <2> QED
    BY <2>1, <2>2
<1>8. r.confirmed /\ r.err # "unconfirmed" => Listed(r, entry', stage'[c], staging'[c], c)
  <2> SUFFICES ASSUME r.confirmed, r.err # "unconfirmed" PROVE Listed(r, entry', stage'[c], staging'[c], c)
    OBVIOUS
  <2>1. Listed(op[c], entry, stage[c], staging[c], c) /\ ok
    BY <1>1, <1>5, BackwardAt DEF Cleaned
  <2>2. \A n \in Names : entry'[n].by = c => n # d /\ entry[n].by = c
    BY <1>7, <2>1
  <2> QED
    BY <1>3, <1>5, <2>1, <2>2, NamesAre DEF Listed
<1>9. /\ stage' = [stage EXCEPT ![c] = stage'[c]] /\ stage'[c] \in StagedFiles
      /\ staging' = [staging EXCEPT ![c] = staging'[c]] /\ staging'[c] \in BOOLEAN
  BY SameStage
<1>10. r.pc \in Backward /\ ~(r.lock = "none")
  BY <1>2, <1>5 DEF Backward
<1> QED
  BY <1>1, <1>2, <1>4, <1>5, <1>6, <1>7, <1>8, <1>9, <1>10, UndoMove

LEMMA UndoLockMoves ==
    ASSUME InitInv, NEW c \in Commands, op[c].pc = "undo_lock", UNCHANGED <<stage, staging>>,
           NEW ok \in BOOLEAN, Become(c, Undone([op[c] EXCEPT !.lock = "none"], "report", ok)),
           \/ UNCHANGED entry /\ (ok => Missing("lock"))
           \/ StillOurs(c, "lock") /\ Put("lock", Nothing)
    PROVE  Moves(c)
<1> DEFINE r == Undone([op[c] EXCEPT !.lock = "none"], "report", ok)
<1>1. op[c].pc \in Backward
  BY DEF Backward
<1>2. op[c] \in Operations /\ op[c].created = <<>> /\ op[c].staged = {} /\ op[c].dirs = <<>>
  BY <1>1, BackwardAt
<1>3. r \in Operations
  BY <1>2, StepsAre DEF Operations, Undone
<1>4. /\ r.pc = "report" /\ r.assets = op[c].assets /\ r.next = op[c].next
      /\ r.depth = op[c].depth /\ r.held = op[c].held /\ r.looked = op[c].looked
      /\ r.state = op[c].state /\ r.lock = "none" /\ r.tracked = op[c].tracked
      /\ r.staged = op[c].staged /\ r.known = op[c].known /\ r.created = op[c].created
      /\ r.dirs = op[c].dirs /\ r.err = op[c].err /\ r.confirmed = (op[c].confirmed /\ ok)
      /\ r.result = op[c].result
  BY <1>2 DEF Operations, Undone
<1>5. Become(c, r)
  OBVIOUS
<1> HIDE DEF r
<1>6. /\ EntryMove(c) /\ (ok => entry'["lock"].by # c)
      /\ \A n \in Targets \cup Dirs : entry'[n] = entry[n]
  <2>1. CASE UNCHANGED entry /\ (ok => Missing("lock"))
    BY <2>1, MissingIs, NamesAre DEF EntryMove
  <2>2. CASE StillOurs(c, "lock") /\ Put("lock", Nothing)
    BY <2>2, LockTaken
  <2> QED
    BY <2>1, <2>2
<1>7. r.confirmed /\ r.err # "unconfirmed" => Listed(r, entry', stage'[c], staging'[c], c)
  <2> SUFFICES ASSUME r.confirmed, r.err # "unconfirmed" PROVE Listed(r, entry', stage'[c], staging'[c], c)
    OBVIOUS
  <2>1. Listed(op[c], entry, stage[c], staging[c], c) /\ ok
    BY <1>1, <1>4, BackwardAt DEF Cleaned
  <2>2. ~staging[c]
    BY <2>1 DEF Listed
  <2> QED
    BY <1>4, <1>6, <2>1, <2>2 DEF Listed
<1>8. /\ stage' = [stage EXCEPT ![c] = stage'[c]] /\ stage'[c] \in StagedFiles
      /\ staging' = [staging EXCEPT ![c] = staging'[c]] /\ staging'[c] \in BOOLEAN
  BY SameStage
<1> QED
  BY <1>1, <1>2, <1>3, <1>4, <1>5, <1>6, <1>7, <1>8, UndoMove

LEMMA RollbackMoves ==
    ASSUME InitInv, NEW c \in Commands,
           UndoFile(c) \/ UndoStaged(c) \/ UndoStaging(c) \/ UndoDir(c) \/ UndoLock(c)
    PROVE  Moves(c)
<1>1. CASE UndoFile(c)
  <2> DEFINE t == op[c].created[Len(op[c].created)]
             s == SubSeq(op[c].created, 1, Len(op[c].created) - 1)
  <2>1. op[c].pc = "undo_files" /\ op[c].pc \in Backward /\ UNCHANGED <<stage, staging>>
    BY <1>1 DEF UndoFile, At, Backward
  <2>2. CASE op[c].created = <<>>
    <3> DEFINE r == [op[c] EXCEPT !.pc = "undo_staged"]
    <3>1. Become(c, r) /\ UNCHANGED disk
      BY <1>1, <2>1, <2>2 DEF UndoFile, Go, disk
    <3>2. op[c] \in Operations /\ r \in Operations
      BY <2>1, OpIs, StepsAre DEF Operations, Backward
    <3>3. /\ r.pc = "undo_staged" /\ r.assets = op[c].assets /\ r.next = op[c].next
          /\ r.lock = op[c].lock /\ r.tracked = op[c].tracked /\ r.staged = op[c].staged
          /\ r.known = op[c].known /\ r.created = op[c].created /\ r.dirs = op[c].dirs
          /\ r.err = op[c].err /\ r.confirmed = op[c].confirmed /\ r.result = op[c].result
      BY <3>2 DEF Operations
    <3> HIDE DEF r
    <3>4. r.confirmed /\ r.err # "unconfirmed" => Listed(r, entry', stage'[c], staging'[c], c)
      <4> SUFFICES ASSUME r.confirmed, r.err # "unconfirmed" PROVE Listed(r, entry', stage'[c], staging'[c], c)
        OBVIOUS
      <4>1. Listed(op[c], entry, stage[c], staging[c], c)
        BY <2>1, <3>3, BackwardAt DEF Cleaned
      <4> QED
        BY <2>1, <3>1, <3>3, <4>1 DEF Listed, disk
    <3>5. /\ stage' = [stage EXCEPT ![c] = stage'[c]] /\ stage'[c] \in StagedFiles
          /\ staging' = [staging EXCEPT ![c] = staging'[c]] /\ staging'[c] \in BOOLEAN
      BY <2>1, SameStage
    <3>6. r.pc \in Backward /\ (r.lock = "none" => Bare(r)) /\ EntryMove(c) /\ entry' = entry
      BY <2>1, <3>1, <3>3, BackwardAt DEF Backward, Bare, EntryMove, disk
    <3> QED
      BY <2>1, <2>2, <3>1, <3>2, <3>3, <3>4, <3>5, <3>6, UndoMove
  <2>3. CASE op[c].created # <<>>
    <3>1. PICK ok \in BOOLEAN : ok <=> StillOurs(c, t) \/ Missing(t)
      OBVIOUS
    <3>2. /\ IF StillOurs(c, t) THEN Put(t, Nothing) ELSE UNCHANGED entry
          /\ Become(c, Undone([op[c] EXCEPT !.created = s], "undo_files", StillOurs(c, t) \/ Missing(t)))
      BY <1>1, <2>3 DEF UndoFile
    <3>3. Become(c, Undone([op[c] EXCEPT !.created = s], "undo_files", ok))
      BY <3>1, <3>2 DEF Undone
    <3>4. \/ UNCHANGED entry /\ (ok => Missing(t))
          \/ StillOurs(c, t) /\ Put(t, Nothing)
      BY <3>1, <3>2
    <3> QED
      BY <2>1, <2>3, <3>3, <3>4, UndoFileMoves
  <2> QED
    BY <2>2, <2>3
<1>2. CASE UndoStaged(c)
  <2> DEFINE removable == {t \in op[c].staged \cap op[c].known : stage[c][t] = "whole"}
  <2>1. /\ op[c].pc = "undo_staged" /\ UNCHANGED <<entry, staging>>
        /\ stage' = [stage EXCEPT ![c] = [t \in Targets |-> IF t \in removable THEN "none" ELSE @[t]]]
        /\ Become(c, Undone([op[c] EXCEPT !.staged = {}], "undo_staging", removable = op[c].staged))
    BY <1>2 DEF UndoStaged, At
  <2>2. stage \in [Commands -> StagedFiles] /\ stage[c] \in StagedFiles
    BY DiskIs
  <2>3. stage'[c] = [t \in Targets |-> IF t \in removable THEN "none" ELSE stage[c][t]]
    BY <2>1, <2>2
  <2>4. stage' = [stage EXCEPT ![c] = stage'[c]]
    BY <2>1, <2>2, <2>3
  <2>5. stage'[c] \in StagedFiles
    BY <2>2, <2>3 DEF StagedFiles
  <2>6. PICK ok \in BOOLEAN : ok <=> removable = op[c].staged
    OBVIOUS
  <2>7. ok => \A t \in Targets : stage'[c][t] # "none" => stage[c][t] # "none" /\ t \notin op[c].staged
    BY <2>3, <2>6
  <2>8. Become(c, Undone([op[c] EXCEPT !.staged = {}], "undo_staging", ok))
    BY <2>1, <2>6 DEF Undone
  <2> QED
    BY <2>1, <2>4, <2>5, <2>7, <2>8, UndoStagedMoves
<1>3. CASE UndoStaging(c)
  <2> DEFINE empty == \A t \in Targets : stage[c][t] = "none"
  <2>1. /\ op[c].pc = "undo_staging" /\ UNCHANGED <<entry, stage>>
        /\ staging' = [staging EXCEPT ![c] = IF op[c].tracked /\ empty THEN FALSE ELSE @]
        /\ Become(c, Undone(op[c], "undo_dirs", op[c].tracked => empty))
    BY <1>3 DEF UndoStaging, At
  <2>2. staging \in [Commands -> BOOLEAN]
    BY DiskIs
  <2>3. /\ staging' = [staging EXCEPT ![c] = staging'[c]] /\ staging'[c] \in BOOLEAN
        /\ op[c].tracked /\ empty => ~staging'[c]
        /\ ~op[c].tracked => staging'[c] = staging[c]
    BY <2>1, <2>2
  <2>4. PICK ok \in BOOLEAN : ok <=> (op[c].tracked => empty)
    OBVIOUS
  <2>5. Become(c, Undone(op[c], "undo_dirs", ok))
    BY <2>1, <2>4 DEF Undone
  <2> QED
    BY <2>1, <2>3, <2>4, <2>5, UndoStagingMoves
<1>4. CASE UndoDir(c)
  <2> DEFINE d == op[c].dirs[Len(op[c].dirs)]
             s == SubSeq(op[c].dirs, 1, Len(op[c].dirs) - 1)
             removable == entry[d] = Directory(c) /\ \A n \in Below(d) : ~Exists(n)
  <2>1. op[c].pc = "undo_dirs" /\ op[c].pc \in Backward /\ UNCHANGED <<stage, staging>>
    BY <1>4 DEF UndoDir, At, Backward
  <2>2. CASE op[c].dirs = <<>>
    <3> DEFINE l == IF op[c].lock = "none" THEN "report" ELSE "undo_lock"
               r == [op[c] EXCEPT !.pc = l]
    <3>1. Become(c, r) /\ UNCHANGED disk
      BY <1>4, <2>1, <2>2 DEF UndoDir, Go, disk
    <3>2. op[c] \in Operations /\ r \in Operations
      BY <2>1, OpIs, StepsAre DEF Operations, Backward
    <3>3. /\ r.pc = l /\ r.assets = op[c].assets /\ r.next = op[c].next
          /\ r.lock = op[c].lock /\ r.tracked = op[c].tracked /\ r.staged = op[c].staged
          /\ r.known = op[c].known /\ r.created = op[c].created /\ r.dirs = op[c].dirs
          /\ r.err = op[c].err /\ r.confirmed = op[c].confirmed /\ r.result = op[c].result
      BY <3>2 DEF Operations
    <3> HIDE DEF r
    <3>4. r.confirmed /\ r.err # "unconfirmed" => Listed(r, entry', stage'[c], staging'[c], c)
      <4> SUFFICES ASSUME r.confirmed, r.err # "unconfirmed" PROVE Listed(r, entry', stage'[c], staging'[c], c)
        OBVIOUS
      <4>1. Listed(op[c], entry, stage[c], staging[c], c)
        BY <2>1, <3>3, BackwardAt DEF Cleaned
      <4> QED
        BY <2>1, <3>1, <3>3, <4>1 DEF Listed, disk
    <3>5. /\ stage' = [stage EXCEPT ![c] = stage'[c]] /\ stage'[c] \in StagedFiles
          /\ staging' = [staging EXCEPT ![c] = staging'[c]] /\ staging'[c] \in BOOLEAN
      BY <2>1, SameStage
    <3>6. /\ r.pc \in {"report", "undo_lock"} /\ (r.pc = "report" <=> r.lock = "none")
          /\ EntryMove(c) /\ entry' = entry /\ r.created = <<>> /\ r.staged = {}
      BY <2>1, <3>1, <3>3, BackwardAt DEF EntryMove, disk
    <3>7. r.pc \in Backward \cup {"report"}
      BY <3>6 DEF Backward
    <3> HIDE DEF l
    <3> QED
      BY <2>1, <2>2, <3>1, <3>2, <3>3, <3>4, <3>5, <3>6, <3>7, UndoMove
  <2>3. CASE op[c].dirs # <<>>
    <3>1. PICK ok \in BOOLEAN : ok <=> removable \/ Missing(d)
      OBVIOUS
    <3>2. /\ IF removable THEN Put(d, Nothing) ELSE UNCHANGED entry
          /\ Become(c, Undone([op[c] EXCEPT !.dirs = s], "undo_dirs", removable \/ Missing(d)))
      BY <1>4, <2>3 DEF UndoDir
    <3>3. Become(c, Undone([op[c] EXCEPT !.dirs = s], "undo_dirs", ok))
      BY <3>1, <3>2 DEF Undone
    <3>4. \/ UNCHANGED entry /\ (ok => Missing(d))
          \/ entry[d] = Directory(c) /\ (\A n \in Below(d) : ~Exists(n)) /\ Put(d, Nothing)
      BY <3>1, <3>2
    <3> QED
      BY <2>1, <2>3, <3>3, <3>4, UndoDirMoves
  <2> QED
    BY <2>2, <2>3
<1>5. CASE UndoLock(c)
  <2> DEFINE removable == op[c].lock = "whole" /\ StillOurs(c, "lock")
  <2>1. /\ op[c].pc = "undo_lock" /\ UNCHANGED <<stage, staging>>
        /\ IF removable THEN Put("lock", Nothing) ELSE UNCHANGED entry
        /\ Become(c, Undone([op[c] EXCEPT !.lock = "none"], "report", removable \/ Missing("lock")))
    BY <1>5 DEF UndoLock, At
  <2>2. PICK ok \in BOOLEAN : ok <=> removable \/ Missing("lock")
    OBVIOUS
  <2>3. Become(c, Undone([op[c] EXCEPT !.lock = "none"], "report", ok))
    BY <2>1, <2>2 DEF Undone
  <2>4. \/ UNCHANGED entry /\ (ok => Missing("lock"))
        \/ StillOurs(c, "lock") /\ Put("lock", Nothing)
    BY <2>1, <2>2
  <2> QED
    BY <2>1, <2>3, <2>4, UndoLockMoves
<1> QED
  BY <1>1, <1>2, <1>3, <1>4, <1>5

-----------------------------------------------------------------------------
(* Calls that fail, and commands whose cleanup cannot be confirmed.        *)

\* What a call made before it failed is on no list: the answer says so.
LEMMA DirtyThrow ==
    ASSUME InitInv, NEW c \in Commands, op[c].pc \in Forward, Throw(c, "unconfirmed"), EntryMove(c),
           op[c].lock # "none" => entry'["lock"] = entry["lock"],
           stage' = [stage EXCEPT ![c] = stage'[c]], stage'[c] \in StagedFiles,
           staging' = [staging EXCEPT ![c] = staging'[c]], staging'[c] \in BOOLEAN
    PROVE  Moves(c)
<1> DEFINE r == Thrown(op[c], "unconfirmed")
<1>1. Become(c, r) /\ r = Thrown(op[c], "unconfirmed") /\ "unconfirmed" \in Errors \ {"none"}
  BY DEF Throw, Errors
<1> HIDE DEF r
<1>2. /\ r \in Operations /\ OwnOK(r) /\ r.pc = "undo_files" /\ r.err = "unconfirmed" /\ Secured(r) = {}
      /\ r.lock = op[c].lock /\ r.created = op[c].created
  BY <1>1, ThrownIs
<1>3. op'[c] = r /\ op' = [op EXCEPT ![c] = op'[c]]
  BY <1>1, BecomeIs
<1>4. op[c].pc \in Steps \ {"report"} /\ r.pc \in Steps
  BY <1>2 DEF Steps, Forward, Backward
<1>5. r.lock # "none" => entry'["lock"].kind = "file" /\ entry'["lock"].by = c
  BY <1>2, <1>4, OpIs DEF InitInv, LockOK, Holds
<1> QED
  BY <1>2, <1>3, <1>4, <1>5 DEF Moves

LEMMA FailingPlanMoves ==
    ASSUME InitInv, NEW c \in Commands, UNCHANGED <<stage, staging>>,
           \/ /\ At(c, "lock") /\ ~Exists("lock")
              /\ Put("lock", File(c, "blank")) /\ Throw(c, "unconfirmed")
           \/ /\ At(c, "write_lock")
              /\ \/ Throw(c, "other") /\ UNCHANGED entry
                 \/ /\ entry["lock"] = File(c, "blank") /\ Put("lock", File(c, "whole"))
                    /\ Become(c, [Thrown(op[c], "other") EXCEPT !.lock = "whole"])
    PROVE  Moves(c)
<1>1. /\ stage' = [stage EXCEPT ![c] = stage'[c]] /\ stage'[c] \in StagedFiles
      /\ staging' = [staging EXCEPT ![c] = staging'[c]] /\ staging'[c] \in BOOLEAN
  BY SameStage
<1>2. CASE At(c, "lock") /\ ~Exists("lock") /\ Put("lock", File(c, "blank")) /\ Throw(c, "unconfirmed")
  <2>1. op[c].pc = "lock" /\ op[c].pc \in Forward
    BY <1>2 DEF At, Forward
  <2>2. op[c].lock = "none"
    BY <2>1, OpIs DEF OwnOK
  <2>3. EntryMove(c)
    BY <1>2, <2>1, LockMade
  <2> QED
    BY <1>1, <1>2, <2>1, <2>2, <2>3, DirtyThrow
<1>3. CASE At(c, "write_lock") /\ Throw(c, "other") /\ UNCHANGED entry
  <2>1. op[c].pc \in Forward
    BY <1>3 DEF At, Forward
  <2> QED
    BY <1>3, <2>1, ThrowMoves, ErrorsAre DEF disk
<1>4. CASE /\ At(c, "write_lock") /\ entry["lock"] = File(c, "blank") /\ Put("lock", File(c, "whole"))
           /\ Become(c, [Thrown(op[c], "other") EXCEPT !.lock = "whole"])
  <2> DEFINE r == [Thrown(op[c], "other") EXCEPT !.lock = "whole"]
  <2>1. op[c].pc = "write_lock" /\ op[c].pc \in Forward /\ op[c].pc \in Steps \ {"report"}
    BY <1>4 DEF At, Forward, Steps
  <2>2. /\ op[c] \in Operations /\ op[c].lock = "unknown" /\ op[c].err = "none" /\ op[c].confirmed
    BY <2>1, OpIs DEF OwnOK
  <2>3. PICK k \in SUBSET Targets : k = op[c].known
    BY <2>2 DEF Operations
  <2>11. r = ThrownAs(c, "other", "whole", k) /\ (op[c].lock = "none" <=> "whole" = "none")
    BY <2>2, <2>3 DEF Operations, ThrownAs, Thrown
  <2>12. "other" \in Errors \ {"none"} /\ "whole" \in {"none", "unknown", "whole"}
    BY DEF Errors
  <2>4. Become(c, r)
    BY <1>4
  <2> HIDE DEF r
  <2>5. /\ r \in Operations /\ OwnOK(r) /\ r.pc = "undo_files" /\ r.err = "other" /\ Secured(r) = {}
        /\ r.lock = "whole" /\ r.created = op[c].created /\ r.dirs = op[c].dirs
        /\ r.staged = op[c].staged /\ r.tracked = op[c].tracked
    BY <2>1, <2>2, <2>11, <2>12, ThrownWith
  <2>6. op'[c] = r /\ op' = [op EXCEPT ![c] = op'[c]]
    BY <2>4, BecomeIs
  <2>7. /\ EntryMove(c) /\ entry'["lock"].kind = "file" /\ entry'["lock"].by = c
        /\ \A n \in Targets \cup Dirs : entry'[n] = entry[n]
    BY <1>4, <2>1, <2>2, LockFilled
  <2>8. Listed(op[c], entry, stage[c], staging[c], c)
    BY <2>1, <2>2, ListsAre DEF Cleaned
  <2>9. Listed(r, entry', stage'[c], staging'[c], c)
    BY <2>5, <2>7, <2>8 DEF Listed
  <2>10. r.pc \in Steps
    BY <2>5 DEF Steps, Backward
  <2> QED
    BY <1>1, <2>1, <2>5, <2>6, <2>7, <2>9, <2>10 DEF Moves
<1> QED
  BY <1>2, <1>3, <1>4

LEMMA FailingMkdirMoves ==
    ASSUME InitInv, NEW c \in Commands, At(c, "parents"), UNCHANGED <<stage, staging>>,
           NEW i, i = NextAbsent(c, op[c].next), i <= Len(op[c].assets),
           op[c].depth <= Len(Above[op[c].assets[i]]), NEW d, d = Above[op[c].assets[i]][op[c].depth],
           \/ Throw(c, "input") /\ UNCHANGED entry
           \/ ~Exists(d) /\ InPlace(d) /\ Put(d, Directory(c)) /\ Throw(c, "unconfirmed")
    PROVE  Moves(c)
<1>1. op[c].pc = "parents"
  BY DEF At
<1>2. /\ op[c].pc \in Forward /\ op[c].next \in 1..3 /\ op[c].depth \in 1..3
      /\ op[c].next <= Len(op[c].assets) + 1 /\ Len(op[c].assets) \in 1..2
  BY <1>1, ParentsAt
<1>3. i \in 1..Len(op[c].assets)
  <2>1. PICK j \in 1..3 : j = op[c].next
    BY <1>2
  <2>6. j <= Len(op[c].assets) + 1 /\ i = NextAbsent(c, j)
    BY <1>2, <2>1
  <2>2. i \in j..(Len(op[c].assets) + 1)
    BY <2>6, NextIs
  <2>3. PICK n \in 1..2 : n = Len(op[c].assets)
    BY <1>2
  <2>4. i \in j..(n + 1) /\ i <= n
    BY <2>2, <2>3
  <2>5. i \in 1..n
    BY <2>4
  <2> QED
    BY <2>3, <2>5
<1>4. CASE Throw(c, "input") /\ UNCHANGED entry
  BY <1>2, <1>4, ThrowMoves, ErrorsAre DEF disk
<1>5. CASE ~Exists(d) /\ InPlace(d) /\ Put(d, Directory(c)) /\ Throw(c, "unconfirmed")
  <2>1. d \in Dirs
    <3>1. PICK k \in 1..3 : k = op[c].depth
      BY <1>2
    <3>2. k <= Len(Above[op[c].assets[i]]) /\ d = Above[op[c].assets[i]][k]
      BY <3>1
    <3> QED
      BY <1>3, <3>2, PathIs
  <2>2. EntryMove(c) /\ entry'["lock"] = entry["lock"]
    BY <1>5, <2>1, DirMade
  <2> QED
    BY <1>2, <1>5, <2>2, SameStage, DirtyThrow
<1> QED
  BY <1>4, <1>5

LEMMA FailingStageMoves ==
    ASSUME InitInv, NEW c \in Commands, UNCHANGED entry,
           \/ /\ At(c, "make_staging") /\ UNCHANGED stage
              /\ \/ (\E e \in {"input", "other"} : Throw(c, e)) /\ UNCHANGED staging
                 \/ staging' = [staging EXCEPT ![c] = TRUE] /\ Throw(c, "unconfirmed")
           \/ /\ At(c, "open_stage") /\ NextAbsent(c, op[c].next) <= Len(op[c].assets) /\ UNCHANGED staging
              /\ \/ Throw(c, "other") /\ UNCHANGED stage
                 \/ /\ stage' = [stage EXCEPT ![c][op[c].assets[NextAbsent(c, op[c].next)]] = "blank"]
                    /\ Throw(c, "unconfirmed")
    PROVE  Moves(c)
<1>1. EntryMove(c)
  BY DEF EntryMove
<1>2. CASE At(c, "make_staging") /\ UNCHANGED stage
  <2>1. op[c].pc \in Forward
    BY <1>2 DEF At, Forward
  <2>2. CASE (\E e \in {"input", "other"} : Throw(c, e)) /\ UNCHANGED staging
    BY <1>2, <2>1, <2>2, ThrowMoves, ErrorsAre DEF disk
  <2>3. CASE staging' = [staging EXCEPT ![c] = TRUE] /\ Throw(c, "unconfirmed")
    <3>1. staging'[c] = TRUE /\ staging' = [staging EXCEPT ![c] = staging'[c]]
      BY <2>3, DiskIs
    <3> QED
      BY <1>1, <1>2, <2>1, <2>3, <3>1, SameStage, DirtyThrow
  <2> QED
    BY <1>2, <2>2, <2>3 DEF At
<1>3. CASE At(c, "open_stage") /\ NextAbsent(c, op[c].next) <= Len(op[c].assets) /\ UNCHANGED staging
  <2>1. op[c].pc \in Forward /\ op[c].pc \in Publishing \cup Closing
    BY <1>3 DEF At, Forward, Publishing
  <2>2. CASE Throw(c, "other") /\ UNCHANGED stage
    BY <1>3, <2>1, <2>2, ThrowMoves, ErrorsAre DEF disk
  <2>3. CASE /\ stage' = [stage EXCEPT ![c][op[c].assets[NextAbsent(c, op[c].next)]] = "blank"]
             /\ Throw(c, "unconfirmed")
    <3>1. PICK i : i = NextAbsent(c, op[c].next)
      OBVIOUS
    <3>2. op[c].assets[i] \in Targets
      <4>1. PICK j \in 1..3 : j = op[c].next /\ j <= Len(op[c].assets) + 1
        BY <2>1, PublishingAt
      <4>2. i \in j..(Len(op[c].assets) + 1) /\ i <= Len(op[c].assets)
        BY <1>3, <3>1, <4>1, NextIs
      <4>3. op[c].assets \in {Assets[k] : k \in Integrations}
        BY <2>1, PublishingAt
      <4>4. PICK n \in 1..2 : n = Len(op[c].assets)
        BY <4>3, AssetsAre
      <4>5. i \in j..(n + 1) /\ i <= n
        BY <4>2, <4>4
      <4>6. i \in 1..n
        BY <4>5
      <4> QED
        BY <4>3, <4>4, <4>6, AssetsAre
    <3>3. PICK t \in Targets : t = op[c].assets[i]
      BY <3>2
    <3>4. stage' = [stage EXCEPT ![c][t] = "blank"]
      BY <2>3, <3>1, <3>3
    <3>5. stage' = [stage EXCEPT ![c] = stage'[c]] /\ stage'[c] \in StagedFiles
      BY <3>4, StageSet
    <3> QED
      BY <1>1, <1>3, <2>1, <2>3, <3>5, SameStage, DirtyThrow
  <2> QED
    BY <1>3, <2>2, <2>3 DEF At
<1> QED
  BY <1>2, <1>3

LEMMA FailingWriteMoves ==
    ASSUME InitInv, NEW c \in Commands, At(c, "write_stage"), UNCHANGED <<entry, staging>>,
           \/ Throw(c, "other") /\ UNCHANGED stage
           \/ /\ stage' = [stage EXCEPT ![c][Asset(c)] = "whole"]
              /\ Become(c, [Thrown(op[c], "other") EXCEPT !.known = @ \cup {Asset(c)}])
    PROVE  Moves(c)
<1>1. op[c].pc = "write_stage" /\ op[c].pc \in Forward /\ op[c].pc \in Steps \ {"report"}
  BY DEF At, Forward, Steps
<1>2. CASE Throw(c, "other") /\ UNCHANGED stage
  BY <1>1, <1>2, ThrowMoves, ErrorsAre DEF disk
<1>3. CASE /\ stage' = [stage EXCEPT ![c][Asset(c)] = "whole"]
           /\ Become(c, [Thrown(op[c], "other") EXCEPT !.known = @ \cup {Asset(c)}])
  <2> DEFINE t == Asset(c)
             r == [Thrown(op[c], "other") EXCEPT !.known = @ \cup {t}]
  <2>1. /\ op[c] \in Operations /\ OwnOK(op[c]) /\ op[c].lock = "whole" /\ Holds(c)
        /\ Listed(op[c], entry, stage[c], staging[c], c)
    BY <1>1, PublishingAt DEF Publishing
  <2>2. t \in Targets /\ op[c].staged = {t}
    BY <1>1, <2>1, AssetIs DEF AtAsset, Publishing, OwnOK
  <2>3. PICK k \in SUBSET Targets : k = op[c].known \cup {t}
    BY <2>1, <2>2 DEF Operations
  <2>4. r = ThrownAs(c, "other", "whole", k)
    BY <2>1, <2>3 DEF Operations, ThrownAs, Thrown
  <2>5. Become(c, r) /\ stage' = [stage EXCEPT ![c][t] = "whole"]
    BY <1>3
  <2> HIDE DEF r, t
  <2>6. /\ r \in Operations /\ OwnOK(r) /\ r.pc = "undo_files" /\ r.err = "other" /\ Secured(r) = {}
        /\ r.assets = op[c].assets /\ r.lock = "whole" /\ r.created = op[c].created
        /\ r.dirs = op[c].dirs /\ r.staged = op[c].staged /\ r.tracked = op[c].tracked
    <3>1. "other" \in Errors \ {"none"} /\ "whole" \in {"none", "unknown", "whole"}
      BY DEF Errors
    <3>2. op[c].lock = "none" <=> "whole" = "none"
      BY <2>1
    <3> QED
      BY <1>1, <2>1, <2>4, <3>1, <3>2, ThrownWith
  <2>7. /\ stage' = [stage EXCEPT ![c] = stage'[c]] /\ stage'[c] \in StagedFiles
        /\ \A s \in Targets \ {t} : stage'[c][s] = stage[c][s]
    BY <2>2, <2>5, StageSet
  <2>8. Listed(r, entry, stage'[c], staging'[c], c)
    BY <2>1, <2>2, <2>6, <2>7 DEF Listed
  <2>9. r.pc \in Steps
    BY <2>6 DEF Steps, Backward
  <2> QED
    BY <1>1, <2>1, <2>5, <2>6, <2>7, <2>8, <2>9, SameStage, StagingMove
<1> QED
  BY <1>2, <1>3

LEMMA FailingUndoMoves ==
    ASSUME InitInv, NEW c \in Commands, UNCHANGED disk,
           \/ /\ At(c, "undo_files") /\ op[c].created # <<>>
              /\ Become(c, Undone([op[c] EXCEPT !.created = SubSeq(@, 1, Len(@) - 1)], "undo_files", FALSE))
           \/ /\ At(c, "undo_staged") /\ op[c].staged # {}
              /\ Become(c, Undone([op[c] EXCEPT !.staged = {}], "undo_staging", FALSE))
           \/ At(c, "undo_staging") /\ op[c].tracked /\ Become(c, Undone(op[c], "undo_dirs", FALSE))
           \/ /\ At(c, "undo_dirs") /\ op[c].dirs # <<>>
              /\ Become(c, Undone([op[c] EXCEPT !.dirs = SubSeq(@, 1, Len(@) - 1)], "undo_dirs", FALSE))
           \/ At(c, "undo_lock") /\ Become(c, Undone([op[c] EXCEPT !.lock = "none"], "report", FALSE))
    PROVE  Moves(c)
<1>1. UNCHANGED <<entry, stage, staging>> /\ FALSE \in BOOLEAN
  BY DEF disk
<1>2. PICK no \in BOOLEAN : no = FALSE
  OBVIOUS
<1>3. CASE /\ At(c, "undo_files") /\ op[c].created # <<>>
           /\ Become(c, Undone([op[c] EXCEPT !.created = SubSeq(@, 1, Len(@) - 1)], "undo_files", FALSE))
  <2>1. PICK s : s = SubSeq(op[c].created, 1, Len(op[c].created) - 1)
    OBVIOUS
  <2>2. Become(c, Undone([op[c] EXCEPT !.created = s], "undo_files", no))
    BY <1>2, <1>3, <2>1
  <2> QED
    BY <1>1, <1>2, <1>3, <2>1, <2>2, UndoFileMoves DEF At
<1>4. CASE /\ At(c, "undo_staged") /\ op[c].staged # {}
           /\ Become(c, Undone([op[c] EXCEPT !.staged = {}], "undo_staging", FALSE))
  <2>1. Become(c, Undone([op[c] EXCEPT !.staged = {}], "undo_staging", no))
    BY <1>2, <1>4
  <2> QED
    BY <1>1, <1>2, <1>4, <2>1, SameStage, UndoStagedMoves DEF At
<1>5. CASE At(c, "undo_staging") /\ op[c].tracked /\ Become(c, Undone(op[c], "undo_dirs", FALSE))
  <2>1. Become(c, Undone(op[c], "undo_dirs", no))
    BY <1>2, <1>5
  <2> QED
    BY <1>1, <1>2, <1>5, <2>1, SameStage, UndoStagingMoves DEF At
<1>6. CASE /\ At(c, "undo_dirs") /\ op[c].dirs # <<>>
           /\ Become(c, Undone([op[c] EXCEPT !.dirs = SubSeq(@, 1, Len(@) - 1)], "undo_dirs", FALSE))
  <2>1. PICK s : s = SubSeq(op[c].dirs, 1, Len(op[c].dirs) - 1)
    OBVIOUS
  <2>2. Become(c, Undone([op[c] EXCEPT !.dirs = s], "undo_dirs", no))
    BY <1>2, <1>6, <2>1
  <2> QED
    BY <1>1, <1>2, <1>6, <2>1, <2>2, UndoDirMoves DEF At
<1>7. CASE At(c, "undo_lock") /\ Become(c, Undone([op[c] EXCEPT !.lock = "none"], "report", FALSE))
  <2>1. Become(c, Undone([op[c] EXCEPT !.lock = "none"], "report", no))
    BY <1>2, <1>7
  <2> QED
    BY <1>1, <1>2, <1>7, <2>1, UndoLockMoves DEF At
<1> QED
  BY <1>3, <1>4, <1>5, <1>6, <1>7

\* The call that closes the lock's handle does not fail: when it does, the lock
\* is removed all the same and the rollback runs beside other commands.
NoLostHandle == "close_lock" \notin FaultSteps

LEMMA FailKeeps ==
    ASSUME NoLostHandle, InitInv, NEW c \in Commands, Fail(c)
    PROVE  Moves(c) /\ InitInv'
<1>1. /\ op[c].pc # "close_lock" /\ FailingCall(c) /\ UNCHANGED <<scenario, changes, touched>>
      /\ faults < scenario.faults /\ faults' = faults + 1
  BY DEF Fail, NoLostHandle
<1>2. faults' \in 0..scenario.faults
  <2>1. scenario \in Scenarios /\ faults \in 0..scenario.faults
    BY DEF InitInv, TypeOK
  <2>2. scenario.faults \in Nat
    BY <2>1, InitTransactionAssumption
  <2> QED
    BY <1>1, <2>1, <2>2
<1>3. Moves(c)
  <2>1. CASE op[c].pc \in {"look", "reread", "lock", "check_target", "link"} /\ Throw(c, "input") /\ UNCHANGED disk
    <3>1. op[c].pc \in Forward
      BY <2>1 DEF Forward
    <3> QED
      BY <2>1, <3>1, ThrowMoves, ErrorsAre
  <2>2. CASE \/ /\ At(c, "lock") /\ ~Exists("lock") /\ Put("lock", File(c, "blank")) /\ Throw(c, "unconfirmed")
                /\ UNCHANGED <<stage, staging>>
             \/ /\ At(c, "write_lock")
                /\ \/ Throw(c, "other") /\ UNCHANGED entry
                   \/ /\ entry["lock"] = File(c, "blank") /\ Put("lock", File(c, "whole"))
                      /\ Become(c, [Thrown(op[c], "other") EXCEPT !.lock = "whole"])
                /\ UNCHANGED <<stage, staging>>
    BY <2>2, FailingPlanMoves
  <2>3. CASE /\ At(c, "parents")
             /\ LET i == NextAbsent(c, op[c].next)
                    path == Above[op[c].assets[i]]
                    d == path[op[c].depth]
                IN /\ i <= Len(op[c].assets) /\ op[c].depth <= Len(path)
                   /\ \/ Throw(c, "input") /\ UNCHANGED entry
                      \/ ~Exists(d) /\ InPlace(d) /\ Put(d, Directory(c)) /\ Throw(c, "unconfirmed")
             /\ UNCHANGED <<stage, staging>>
    <3>1. PICK i : i = NextAbsent(c, op[c].next)
      OBVIOUS
    <3>2. PICK d : d = Above[op[c].assets[i]][op[c].depth]
      OBVIOUS
    <3>3. /\ i <= Len(op[c].assets) /\ op[c].depth <= Len(Above[op[c].assets[i]])
          /\ \/ Throw(c, "input") /\ UNCHANGED entry
             \/ ~Exists(d) /\ InPlace(d) /\ Put(d, Directory(c)) /\ Throw(c, "unconfirmed")
      BY <2>3, <3>1, <3>2
    <3> QED
      BY <2>3, <3>1, <3>2, <3>3, FailingMkdirMoves
  <2>4. CASE \/ /\ At(c, "make_staging")
                /\ \/ (\E e \in {"input", "other"} : Throw(c, e)) /\ UNCHANGED staging
                   \/ staging' = [staging EXCEPT ![c] = TRUE] /\ Throw(c, "unconfirmed")
                /\ UNCHANGED <<entry, stage>>
             \/ /\ At(c, "open_stage") /\ NextAbsent(c, op[c].next) <= Len(op[c].assets)
                /\ LET t == op[c].assets[NextAbsent(c, op[c].next)]
                   IN \/ Throw(c, "other") /\ UNCHANGED stage
                      \/ stage' = [stage EXCEPT ![c][t] = "blank"] /\ Throw(c, "unconfirmed")
                /\ UNCHANGED <<entry, staging>>
    BY <2>4, FailingStageMoves
  <2>5. CASE /\ At(c, "write_stage")
             /\ \/ Throw(c, "other") /\ UNCHANGED stage
                \/ /\ stage' = [stage EXCEPT ![c][Asset(c)] = "whole"]
                   /\ Become(c, [Thrown(op[c], "other") EXCEPT !.known = @ \cup {Asset(c)}])
             /\ UNCHANGED <<entry, staging>>
    BY <2>5, FailingWriteMoves
  <2>6. CASE At(c, "unstage") /\ Throw(c, "unconfirmed") /\ UNCHANGED disk
    <3>1. op[c].pc \in Forward
      BY <2>6 DEF At, Forward
    <3> QED
      BY <2>6, <3>1, ThrowMoves, ErrorsAre
  <2>7. CASE /\ op[c].pc \in {"reread", "made_parent", "verify", "remove_staging", "release"}
             /\ Throw(c, "other") /\ UNCHANGED disk
    <3>1. op[c].pc \in Forward
      BY <2>7 DEF Forward
    <3> QED
      BY <2>7, <3>1, ThrowMoves, ErrorsAre
  <2>8. CASE \/ /\ At(c, "undo_files") /\ op[c].created # <<>>
                /\ Become(c, Undone([op[c] EXCEPT !.created = SubSeq(@, 1, Len(@) - 1)], "undo_files", FALSE))
                /\ UNCHANGED disk
             \/ /\ At(c, "undo_staged") /\ op[c].staged # {}
                /\ Become(c, Undone([op[c] EXCEPT !.staged = {}], "undo_staging", FALSE))
                /\ UNCHANGED disk
             \/ At(c, "undo_staging") /\ op[c].tracked /\ Become(c, Undone(op[c], "undo_dirs", FALSE)) /\ UNCHANGED disk
             \/ /\ At(c, "undo_dirs") /\ op[c].dirs # <<>>
                /\ Become(c, Undone([op[c] EXCEPT !.dirs = SubSeq(@, 1, Len(@) - 1)], "undo_dirs", FALSE))
                /\ UNCHANGED disk
             \/ /\ At(c, "undo_lock")
                /\ Become(c, Undone([op[c] EXCEPT !.lock = "none"], "report", FALSE))
                /\ UNCHANGED disk
    BY <2>8, FailingUndoMoves
  <2> QED
    BY <1>1, <2>1, <2>2, <2>3, <2>4, <2>5, <2>6, <2>7, <2>8 DEF FailingCall, At
<1> QED
  BY <1>1, <1>2, <1>3, MoveKeeps

-----------------------------------------------------------------------------
(* Every step, and what follows.                                           *)

LEMMA StepIs ==
    ASSUME InitInv, NEW c \in Commands, Step(c)
    PROVE  Moves(c) \/ Report(c)
  BY LookMoves, RereadMoves, CreateLockMoves, WriteLockMoves, MakeParentMoves, VerifyParentMoves,
     MakeStagingMoves, OpenStageMoves, WriteStageMoves, CheckTargetMoves, LinkMoves, UnstageMoves,
     VerifyMoves, RemoveStagingMoves, CloseLockMoves, ReleaseMoves, RollbackMoves
  DEF Step

LEMMA StepKeeps ==
    ASSUME InitInv, NEW c \in Commands, Step(c)
    PROVE  InitInv'
<1>1. UNCHANGED <<scenario, faults, changes, touched>> /\ UNCHANGED world
  BY DEF Step, world
<1>2. faults' \in 0..scenario.faults
  BY <1>1 DEF InitInv, TypeOK
<1>3. CASE Moves(c)
  BY <1>1, <1>2, <1>3, MoveKeeps
<1>4. CASE Report(c)
  BY <1>1, <1>4, ReportKeeps
<1> QED
  BY <1>3, <1>4, StepIs

LEMMA StutterKeeps ==
    ASSUME InitInv, UNCHANGED vars
    PROVE  InitInv'
<1>1. /\ entry' = entry /\ stage' = stage /\ staging' = staging /\ op' = op
      /\ scenario' = scenario /\ faults' = faults /\ changes' = changes /\ touched' = touched
  BY DEF vars, disk, world
<1>2. TypeOK'
  BY <1>1 DEF InitInv, TypeOK
<1>3. \A c \in Commands : OwnOK(op'[c])
  BY <1>1 DEF InitInv
<1>4. TreeOK'
  BY <1>1 DEF InitInv, TreeOK, Exists, InPlace, IsDir
<1>5. LockOK'
  BY <1>1 DEF InitInv, LockOK, Running, Holds
<1>6. ListsOK'
  BY <1>1 DEF InitInv, ListsOK, Running, At, Cleaned, Listed
<1>7. EndOK'
  BY <1>1 DEF InitInv, EndOK, Running, Leftovers, Made, Cleaned
<1>8. SecureOK'
  BY <1>1 DEF InitInv, SecureOK, Stands, Running
<1> QED
  BY <1>1, <1>2, <1>3, <1>4, <1>5, <1>6, <1>7, <1>8 DEF InitInv

LEMMA NextKeeps ==
    ASSUME NoLostHandle, InitInv, [Next]_vars
    PROVE  InitInv'
<1>1. ASSUME NEW c \in Commands, Step(c) \/ Fail(c) \/ Crash(c) PROVE InitInv'
  BY <1>1, StepKeeps, FailKeeps, CrashKeeps
<1> QED
  BY <1>1, EnvKeeps, StutterKeeps DEF Next

LEMMA InitiallyInv == Init => InitInv
<1> SUFFICES ASSUME Init PROVE InitInv
  OBVIOUS
<1>1. /\ scenario \in Scenarios /\ op = [c \in Commands |-> Begin(scenario.runs[c])]
      /\ entry = [n \in Names |-> Nothing] /\ stage = [c \in Commands |-> [t \in Targets |-> "none"]]
      /\ staging = [c \in Commands |-> FALSE] /\ faults = 0 /\ changes = 0 /\ touched = {}
  BY DEF Init
<1>2. /\ scenario.runs \in [Commands -> Integrations \cup {"idle"}]
      /\ scenario.faults \in Nat /\ scenario.changes \in Nat
  BY <1>1, InitTransactionAssumption
<1>3. ASSUME NEW c \in Commands
      PROVE  /\ op[c] \in Operations /\ op[c].pc \in {"idle", "look"} /\ op[c].next = 1 /\ op[c].depth = 1
             /\ ~op[c].held /\ Bare(op[c]) /\ op[c].lock = "none" /\ op[c].err = "none"
             /\ op[c].confirmed /\ op[c].result = "none" /\ Len(op[c].assets) \in 1..2
  <2>1. PICK g \in Integrations \cup {"idle"} : op[c] = Begin(g)
    BY <1>1, <1>2
  <2>2. /\ <<>> \in SeqsOf(Targets) /\ <<>> \in SeqsOf(Dirs)
    <3>1. PICK e : e = <<>>
      OBVIOUS
    <3>2. e \in Seq(Targets) /\ e \in Seq(Dirs) /\ Len(e) <= 2
      BY <3>1
    <3> QED
      BY <3>1, <3>2, SeqsOfIs
  <2>3. Assets["none"] \in {Assets[i] : i \in Integrations} /\ (g # "idle" => Assets[g] \in {Assets[i] : i \in Integrations})
    BY <2>1 DEF Integrations, Assets
  <2>4. Nothing \in Nodes /\ {"idle", "look"} \subseteq Labels
    BY DEF Nothing, Nodes, Labels, Steps, Forward
  <2>5. PICK a \in {Assets[i] : i \in Integrations} : a = IF g = "idle" THEN Assets["none"] ELSE Assets[g]
    BY <2>3
  <2>6. /\ op[c].pc \in {"idle", "look"} /\ op[c].assets = a /\ op[c].next = 1 /\ op[c].depth = 1
        /\ ~op[c].held /\ Bare(op[c]) /\ op[c].lock = "none" /\ op[c].err = "none"
        /\ op[c].confirmed /\ op[c].result = "none"
    BY <2>1, <2>5 DEF Begin, Bare
  <2>7. op[c] \in Operations
    <3>1. op[c] = [pc |-> IF g = "idle" THEN "idle" ELSE "look", assets |-> a,
                   next |-> 1, depth |-> 1, held |-> FALSE, looked |-> Nothing,
                   state |-> [t \in Targets |-> "absent"], lock |-> "none", tracked |-> FALSE,
                   staged |-> {}, known |-> {}, created |-> <<>>, dirs |-> <<>>,
                   err |-> "none", confirmed |-> TRUE, result |-> "none"]
      BY <2>1, <2>5 DEF Begin
    <3> QED
      BY <2>2, <2>4, <3>1 DEF Operations, Errors, Results
  <2> QED
    BY <2>5, <2>6, <2>7, AssetsAre
<1>4. TypeOK
  <2>1. entry \in [Names -> Nodes]
    BY <1>1 DEF Nothing, Nodes
  <2>2. stage \in [Commands -> [Targets -> {"none", "blank", "whole", "edited"}]] /\ staging \in [Commands -> BOOLEAN]
    BY <1>1
  <2>3. op \in [Commands -> Operations]
    BY <1>1, <1>3
  <2>4. faults \in 0..scenario.faults /\ changes \in 0..scenario.changes
    BY <1>1, <1>2
  <2> QED
    BY <1>1, <2>1, <2>2, <2>3, <2>4 DEF TypeOK
<1>5. ASSUME NEW c \in Commands PROVE OwnOK(op[c])
  <2>1. PICK n \in 1..2 : n = Len(op[c].assets)
    BY <1>3
  <2>2. op[c].next <= Len(op[c].assets) /\ op[c].next <= Len(op[c].assets) + 1
    <3>1. 1 <= n /\ 1 <= n + 1 /\ op[c].next = 1
      BY <1>3
    <3> QED
      BY <2>1, <3>1
  <2> QED
    BY <1>3, <2>2
    DEF OwnOK, AtAsset, Planning, Locking, Preparing, Publishing, Closing, Forward, Backward, Steps
<1>6. TreeOK
  BY <1>1, NamesAre DEF TreeOK, Exists, Nothing
<1>7. LockOK
  BY <1>3 DEF LockOK
<1>8. \A n \in Names : entry[n].by = Nobody
  BY <1>1 DEF Nothing
<1>9. \A c \in Commands : ~staging[c] /\ \A t \in Targets : stage[c][t] = "none"
  BY <1>1
<1>10. Nobody \notin Commands
  BY InitTransactionAssumption
<1>11. ListsOK
  BY <1>8, <1>9, <1>10, NamesAre DEF ListsOK, Listed
<1>12. EndOK
  BY <1>8, <1>9, <1>10 DEF EndOK, Leftovers, Made
<1>13. SecureOK
  <2>1. ASSUME NEW c \in Commands, NEW i \in Secured(op[c]) PROVE FALSE
    BY <1>3, <2>1 DEF Secured, Planning, Preparing, Publishing, Closing
  <2> QED
    BY <2>1 DEF SecureOK
<1> QED
  BY <1>4, <1>5, <1>6, <1>7, <1>11, <1>12, <1>13 DEF InitInv

LEMMA InvAlways ==
    ASSUME NoLostHandle
    PROVE  Spec => []InitInv
<1>1. InitInv /\ [Next]_vars => InitInv'
  BY NextKeeps
<1> QED
  BY <1>1, InitiallyInv, PTL DEF Spec

\* The types of the disk and of every command's variables.
THEOREM TypeCorrect ==
    ASSUME NoLostHandle
    PROVE  Spec => []TypeOK
<1>1. InitInv => TypeOK
  BY DEF InitInv
<1> QED
  BY <1>1, InvAlways, PTL

\* The targets of a command that reported success stay whole until another
\* program touches them: no other command takes them back in its rollback, for
\* only the holder of the lock has anything to take back, and what it has is
\* not what was there when it looked under the lock.
THEOREM SuccessIsKept ==
    ASSUME NoLostHandle
    PROVE  Spec => []SuccessStands
<1>1. ASSUME InitInv, NEW c \in Commands, op[c].result = "initialized", NEW i \in DOMAIN op[c].assets,
             op[c].assets[i] \notin touched
      PROVE  /\ InPlace(op[c].assets[i]) /\ entry[op[c].assets[i]].kind = "file"
             /\ entry[op[c].assets[i]].content = "whole"
  <2>1. op[c].assets \in {Assets[j] : j \in Integrations}
    BY <1>1, OpIs DEF Operations
  <2>2. i \in 1..Len(op[c].assets) /\ op[c].assets[i] \in Targets
    BY <1>1, <2>1, AssetsAre
  <2>3. i \in Secured(op[c])
    BY <1>1, <2>2 DEF Secured
  <2>4. Stands(op[c].assets[i], c)
    BY <1>1, <2>3 DEF InitInv, SecureOK
  <2>5. InPlace(op[c].assets[i])
    BY <1>1, <2>2, <2>4, NamesAre DEF InitInv, TreeOK, Exists, Stands
  <2> QED
    BY <2>4, <2>5 DEF Stands
<1>2. InitInv => SuccessStands
  BY <1>1 DEF SuccessStands
<1> QED
  BY <1>2, InvAlways, PTL

\* Nothing is left behind unsaid: what a command that has ended leaves is an
\* initialization it reports, or its answer says the cleanup is unconfirmed, or
\* (killed) the lock stands there and stops the next init.
THEOREM LeftoversAreKnown ==
    ASSUME NoLostHandle
    PROVE  Spec => []LeftoversAreAccounted
<1>1. InitInv => LeftoversAreAccounted
  BY DEF InitInv, EndOK, LeftoversAreAccounted
<1> QED
  BY <1>1, InvAlways, PTL

\* No command removes or writes over what another program has put under a fixed
\* name or written into a file of the command's: what the rollback removes still
\* has the command's identity and its bytes, and the link creates only.
THEOREM OthersWorkIsKept ==
    ASSUME NoLostHandle
    PROVE  Spec => OthersWorkStays
<1> DEFINE Stay == \A n \in Names : entry[n].content = "edited" \/ (Exists(n) /\ entry[n].by = Nobody)
                          => entry'[n] = entry[n]
<1>1. ASSUME InitInv, NEW c \in Commands, Step(c) \/ Fail(c) \/ Crash(c) PROVE Stay
  <2>1. CASE Moves(c)
    BY <1>1, <2>1, EntryMoved DEF Moves
  <2>2. CASE UNCHANGED disk
    BY <2>2 DEF disk
  <2> QED
    BY <1>1, <2>1, <2>2, StepIs, FailKeeps DEF Report, Crash
<1>2. ASSUME InitInv, EnvStep PROVE changes' # changes
  <2>1. PICK n \in Names : Create(n) \/ Edit(n) \/ Delete(n)
    BY <1>2 DEF EnvStep
  <2>2. changes' = changes + 1
    BY <2>1 DEF Create, Edit, Delete, Touch
  <2>3. changes \in Int
    <3>1. scenario \in Scenarios /\ changes \in 0..scenario.changes
      BY <1>2 DEF InitInv, TypeOK
    <3> QED
      BY <3>1
  <2> QED
    BY <2>2, <2>3
<1>3. InitInv /\ [Next]_vars => [changes' # changes \/ Stay]_vars
  BY <1>1, <1>2 DEF Next
<1> QED
  BY <1>3, InvAlways, PTL DEF Spec, OthersWorkStays
=============================================================================
