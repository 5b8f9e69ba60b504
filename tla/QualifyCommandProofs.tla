------------------------ MODULE QualifyCommandProofs ------------------------
(***************************************************************************)
(* What the qualification of a command promises, for commands of any       *)
(* number of words and any packages.                                       *)
(***************************************************************************)
EXTENDS QualifyCommand, SequenceTheorems, TLAPS

\* A sequence that has packages only is a sequence of packages.
LEMMA PackagesOnly ==
    ASSUME NEW S, NEW T, NEW s \in Seq(S), ToSet(s) \subseteq T
    PROVE  s \in Seq(T)
<1>1. Len(s) \in Nat /\ DOMAIN s = 1..Len(s) /\ s = [i \in 1..Len(s) |-> s[i]]
  BY LenProperties
<1>2. \A i \in 1..Len(s) : s[i] \in T
  BY <1>1 DEF ToSet
<1>3. s \in [1..Len(s) -> T]
  BY <1>1, <1>2
<1> QED
  BY <1>1, <1>3, SeqDef

\* What follows the second word.
LEMMA TailIsWords ==
    ASSUME NEW c, IsCommand(c), Len(c.words) > 1
    PROVE  /\ SubSeq(c.words, 3, Len(c.words)) \in Seq(Words)
           /\ Len(SubSeq(c.words, 3, Len(c.words))) = Len(c.words) - 2
<1>1. c.words \in Seq(Words) /\ Len(c.words) \in Nat
  BY LenProperties DEF IsCommand
<1>2. \A i \in 3..Len(c.words) : c.words[i] \in Words
  BY <1>1, LenProperties
<1> QED
  BY <1>1, <1>2, SubSeqProperties

\* An addition is one of four things.
LEMMA AdditionIsJudged ==
    ASSUME NEW operands \in Seq(Words)
    PROVE  \/ QualifyAddition(operands).category \in {"invalid", "install_like_unsupported"}
           \/ /\ operands # <<>> /\ Len(operands) <= MaxOperands
              /\ QualifyAddition(operands) = QualifyOperands(operands)
<1>1. Len(operands) \in Nat
  BY LenProperties
<1> QED
  BY <1>1, QualifyCommandAssumption DEF QualifyAddition, Invalid, Unsupported

\* Operands that are all packages of the registry are added, in their order.
LEMMA OperandsAreJudged ==
    ASSUME NEW operands \in Seq(Words)
    PROVE  \/ QualifyOperands(operands).category \in {"invalid", "install_like_unsupported"}
           \/ /\ QualifyOperands(operands).category = "dependency_add"
              /\ QualifyOperands(operands).packages = operands
              /\ ToSet(operands) \subseteq Packages
<1> DEFINE Bad == {i \in DOMAIN operands : ParseNpmSpec(operands[i]) # "registry" \/ operands[i] \in Globs}
<1>1. CASE Bad # {}
  BY <1>1 DEF QualifyOperands, Invalid, Unsupported
<1>2. CASE Bad = {}
  <2>1. \A i \in DOMAIN operands : operands[i] \in Packages
    BY <1>2 DEF ParseNpmSpec, NonRegistry, Globs
  <2> QED
    BY <1>2, <2>1 DEF QualifyOperands, ToSet
<1> QED
  BY <1>1, <1>2

\* A command nothing in which looks like a manager to isAmbiguousCommand has
\* no word that a shell could read as one but those it overlooks.
LEMMA UnambiguousIsUnrecognized ==
    ASSUME NEW c, IsCommand(c), c.dialect # "powershell", ~IsAmbiguous(c.words, c.dialect)
    PROVE  \A i \in ReadAsManager(c) : c.words[i] \in Overlooked
<1>1. c.dialect \in {"portable", "posix"}
  BY DEF IsCommand, Dialects
<1>2. ASSUME NEW i \in DOMAIN c.words
      PROVE  MayRead(c.words[i], c.dialect) \cap AnyManager # {} => c.words[i] \in Overlooked
  <2>1. c.words[i] \notin Structured \cup Comments \cup Globs \cup ManagerLike
    BY <1>2 DEF IsAmbiguous, HasShellStructure, Uses
  <2>2. c.dialect = "portable" => c.words[i] # "%x%"
    BY <1>2 DEF IsAmbiguous, HasShellStructure, Uses, PortableStructured
  <2>3. MayRead(c.words[i], c.dialect) = {c.words[i]}
    BY <1>1, <2>1, <2>2 DEF MayRead, Structured, Globs
  <2> QED
    BY <2>1, <2>3 DEF AnyManager
<1> QED
  BY <1>2 DEF ReadAsManager

\* What slips by as "unrelated" is known: in a command that qualifyCommand does
\* not object to, the words that a shell, quoting and expanding as it may,
\* could turn into the name of a package manager are yarn or bun with a path
\* or a suffix, and no others.
THEOREM UnrelatedIsUnrecognized ==
    ASSUME NEW c, IsCommand(c), QualifyCommand(c).category = "unrelated"
    PROVE  \A i \in ReadAsManager(c) : c.words[i] \in Overlooked
<1>1. c.text \in Texts
  BY DEF IsCommand
<1>2. c.text = "plain" /\ c.dialect # "powershell"
  BY <1>1 DEF QualifyCommand, Texts, Invalid, Unsupported
<1>3. QualifyWords(c.words, c.dialect).category = "unrelated"
  BY <1>2 DEF QualifyCommand
<1>4. ~IsEphemeral(c.words)
  BY <1>3 DEF QualifyWords, Ephemeral
<1>5. c.words[1] \notin Managers
  <2> SUFFICES ASSUME c.words[1] \in Managers, IsSupported(c.words) PROVE FALSE
    BY <1>3, <1>4 DEF QualifyWords, Unsupported
  <2> DEFINE operands == SubSeq(c.words, 3, Len(c.words))
  <2>1. operands \in Seq(Words)
    BY TailIsWords DEF IsSupported
  <2>2. QualifyAddition(operands).category # "unrelated"
    BY <2>1, AdditionIsJudged, OperandsAreJudged
  <2> QED
    BY <1>3, <1>4, <2>2 DEF QualifyWords, Unsupported
<1>6. ~IsAmbiguous(c.words, c.dialect)
  BY <1>3, <1>4, <1>5 DEF QualifyWords, UnsupportedExecutable, Unsupported
<1> QED
  BY <1>2, <1>6, UnambiguousIsUnrecognized

\* What is evaluated is what the command adds: a command that counts as an
\* addition is a manager with an install command and nothing but packages of
\* the registry behind it, each of which is evaluated, at its place.
THEOREM AdditionIsWhole ==
    ASSUME NEW c, IsCommand(c), QualifyCommand(c).category = "dependency_add"
    PROVE  LET packages == QualifyCommand(c).packages
           IN  /\ Adds(c, packages)
               /\ packages \in Seq(Packages) /\ packages # <<>> /\ Len(packages) <= MaxOperands
<1> DEFINE operands == SubSeq(c.words, 3, Len(c.words))
<1>1. c.text = "plain" /\ QualifyCommand(c) = QualifyWords(c.words, c.dialect)
  BY DEF QualifyCommand, Texts, Invalid, Unsupported, IsCommand
<1>2. c.words[1] \in Managers /\ IsSupported(c.words) /\ QualifyCommand(c) = QualifyAddition(operands)
  BY <1>1 DEF QualifyWords, UnsupportedExecutable, Unsupported, Ephemeral, Unrelated
<1>3. operands \in Seq(Words) /\ Len(operands) = Len(c.words) - 2
  BY <1>2, TailIsWords DEF IsSupported
<1>4. /\ operands # <<>> /\ Len(operands) <= MaxOperands
      /\ QualifyCommand(c).packages = operands /\ ToSet(operands) \subseteq Packages
  BY <1>2, <1>3, AdditionIsJudged, OperandsAreJudged
<1>5. operands \in Seq(Packages)
  BY <1>3, <1>4, PackagesOnly
<1>6. Len(c.words) > 2
  BY <1>3, <1>4, LenProperties, EmptySeq DEF IsCommand
<1> QED
  BY <1>2, <1>4, <1>5, <1>6 DEF Adds, IsSupported

\* Any other category has no packages and is one the evaluation knows.
LEMMA OtherCategories ==
    ASSUME NEW c, IsCommand(c), QualifyCommand(c).category # "dependency_add"
    PROVE  /\ QualifyCommand(c).packages = <<>>
           /\ QualifyCommand(c).category \in
                 {"unrelated", "invalid", "install_like_unsupported", "ephemeral_execution"}
<1> DEFINE Others == {"unrelated", "invalid", "install_like_unsupported", "ephemeral_execution"}
           IsOther(q) == q.packages = <<>> /\ q.category \in Others
<1>1. /\ \A reason : IsOther(Invalid(reason)) /\ IsOther(Unsupported(reason))
      /\ IsOther(Unrelated) /\ IsOther(Ephemeral)
  BY DEF Invalid, Unsupported, Unrelated, Ephemeral
<1> HIDE DEF IsOther
<1>2. ASSUME NEW words, NEW dialect,
             IsSupported(words) /\ words[1] \in Managers => words \in Seq(Words)
      PROVE  \/ IsOther(QualifyWords(words, dialect))
             \/ QualifyWords(words, dialect).category = "dependency_add"
  <2>1. IsOther(UnsupportedExecutable(words))
    BY <1>1 DEF UnsupportedExecutable
  <2>2. ASSUME NEW operands \in Seq(Words)
        PROVE  \/ IsOther(QualifyAddition(operands))
               \/ QualifyAddition(operands).category = "dependency_add"
    <3>1. \/ IsOther(QualifyOperands(operands))
          \/ QualifyOperands(operands).category = "dependency_add"
      BY <1>1, Zenon DEF QualifyOperands
    <3>2. Len(operands) \in Nat /\ MaxOperands \in Nat
      BY LenProperties, QualifyCommandAssumption
    <3>3. CASE operands = <<>>
      BY <1>1, <3>3 DEF QualifyAddition
    <3>4. CASE operands # <<>> /\ Len(operands) > MaxOperands
      BY <1>1, <3>2, <3>4 DEF QualifyAddition
    <3>5. CASE operands # <<>> /\ Len(operands) <= MaxOperands
      BY <1>1, <3>1, <3>5 DEF QualifyAddition
    <3> QED
      BY <3>2, <3>3, <3>4, <3>5
  <2>3. ASSUME words[1] \in Managers, IsSupported(words)
        PROVE  SubSeq(words, 3, Len(words)) \in Seq(Words)
    <3>1. words \in Seq(Words) /\ Len(words) \in Nat /\ Len(words) > 1
      BY <1>2, <2>3, LenProperties DEF IsSupported
    <3>2. \A i \in 3..Len(words) : words[i] \in Words
      BY <3>1, LenProperties
    <3> QED
      BY <3>1, <3>2, SubSeqProperties
  <2> QED
    BY <1>1, <2>1, <2>2, <2>3, Zenon DEF QualifyWords
<1>3. c.text \in {"plain", "empty", "limit", "control"} /\ c.words \in Seq(Words)
  BY DEF IsCommand, Texts
<1>4. IsOther(QualifyCommand(c)) \/ QualifyCommand(c).category = "dependency_add"
  BY <1>1, <1>2, <1>3 DEF QualifyCommand
<1> QED
  BY <1>4 DEF IsOther
=============================================================================
