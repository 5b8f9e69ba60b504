--------------------------- MODULE QualifyCommand ---------------------------
(***************************************************************************)
(* What a proposed shell command is taken for, before anything is          *)
(* evaluated (actions/qualify-command.ts, npm/spec.ts).                    *)
(*                                                                         *)
(* A command is a sequence of words.  A word stands for all words of its   *)
(* sort: "sudo" for the wrappers and interpreters of ambiguousExecutables, *)
(* "if" for the reserved words, "npm.cmd" for npm, pnpm, npx and pnpx with  *)
(* a path or a suffix, "yarn.cmd" for yarn and bun with one, "'npm'" for a  *)
(* manager with quotes, escapes or braces in it.                           *)
(* Any word that is nothing special is the name of a package as well.      *)
(***************************************************************************)
EXTENDS Naturals, SequencesExt

CONSTANTS
    Packages,     \* package coordinates: a name and a requested specification
    Ranged,       \* those that are written with a caret
    MaxOperands   \* the most packages one command adds

Managers == {"npm", "pnpm"}
Subcommands == {"install", "i", "add", "exec", "x", "dlx"}

\* isManagerLikeExecutable: with or without what a shell removes.
Respelled == {"NPM"}
ManagerLike == Managers \cup Respelled \cup {"npx", "pnpx", "yarn", "npm.cmd", "'npm'"}

\* The managers it does not know: the pattern for paths and suffixes has the
\* names of npm and pnpm alone.
Overlooked == {"yarn.cmd"}

Wrappers == {"sudo"}
ReservedWords == {"if", "!"}
Assignments == {"X=1"}
Structured == {"'npm'", "'x'", "$x", ";", "n?m"}   \* shellStructureCharacters
PortableStructured == {"!", "%x%"} \cup Ranged     \* portableStructureCharacters
Comments == {"#"}
Globs == {"n*m", "p@*"}

\* The operands that are no package of a registry, or no operand at all.
Operands == Packages \cup {"p@*", "p@workspace:", "p@git:", "UPPER", "--", "-D"}
Words == Operands \cup Subcommands \cup ManagerLike \cup Overlooked \cup Wrappers \cup ReservedWords
         \cup Assignments \cup Structured \cup PortableStructured \cup Comments \cup Globs

Dialects == {"portable", "posix", "powershell"}
Texts == {"plain", "empty", "limit", "control"}

\* Any other operand of a manager is the name of a package too: the commands
\* considered here have only the operands above.
IsCommand(c) ==
    /\ c \in [text : Texts, dialect : Dialects, words : Seq(Words)]
    /\ c.words # <<>>
    /\ c.words[1] \in Managers /\ c.text = "plain" =>
          \A i \in 3..Len(c.words) : c.words[i] \in Operands \cup Structured \cup PortableStructured \cup Comments

ASSUME QualifyCommandAssumption == MaxOperands \in Nat \ {0} /\ Ranged \subseteq Packages

-----------------------------------------------------------------------------
(* The parts.                                                              *)

Uses(words, sort) == \E i \in DOMAIN words : words[i] \in sort

HasShellStructure(words, dialect) ==
    \/ Uses(words, Structured \cup Comments)
    \/ dialect = "portable" /\ Uses(words, PortableStructured)

\* Faulty variant: only the first word is looked at.
IsAmbiguousFirst(words, dialect) ==
    \/ HasShellStructure(words, dialect) \/ Uses(words, Globs)
    \/ words[1] \in ReservedWords \cup Wrappers \cup Assignments \cup ManagerLike

\* isAmbiguousCommand
IsAmbiguous(words, dialect) ==
    \/ HasShellStructure(words, dialect) \/ Uses(words, Globs)
    \/ words[1] \in ReservedWords \cup Wrappers \cup Assignments
    \/ Uses(words, ManagerLike)

IsEphemeral(words) ==
    \/ words[1] \in {"npx", "pnpx"}
    \/ Len(words) > 1 /\ \/ words[1] = "npm" /\ words[2] \in {"exec", "x"}
                         \/ words[1] = "pnpm" /\ words[2] \in {"dlx", "exec"}

IsSupported(words) ==
    Len(words) > 1 /\ \/ words[1] = "npm" /\ words[2] \in {"install", "i", "add"}
                      \/ words[1] = "pnpm" /\ words[2] = "add"

\* classifyNonRegistry
NonRegistry == [w \in {"p@workspace:", "p@git:"} |-> IF w = "p@workspace:" THEN "workspace" ELSE "git"]

\* parseNpmSpec: a coordinate, something else, or an NpmSpecError.
ParseNpmSpec(operand) ==
    IF operand \in DOMAIN NonRegistry THEN NonRegistry[operand]
    ELSE IF operand \in Packages \cup {"p@*"} THEN "registry" ELSE "error"

-----------------------------------------------------------------------------
(* qualifyCommand.                                                         *)

Invalid(reason) == [category |-> "invalid", reason |-> reason, packages |-> <<>>]
Unsupported(reason) == [category |-> "install_like_unsupported", reason |-> reason, packages |-> <<>>]
Unrelated == [category |-> "unrelated", reason |-> "not_dependency_action", packages |-> <<>>]
Ephemeral == [category |-> "ephemeral_execution", reason |-> "ephemeral_execution_unsupported",
              packages |-> <<>>]

\* A word that no direct grammar covers: which of the reasons it is.
UnsupportedExecutable(words) ==
    Unsupported(CASE words[1] \in Respelled -> "unsupported_executable"
                  [] words[1] \notin Respelled
                        /\ (Uses(words, ManagerLike)
                            \/ words[1] \in Wrappers \cup ReservedWords \cup Assignments)
                     -> "unsupported_package_manager"
                  [] OTHER -> "shell_composition")

\* The first operand that is no package of the registry decides.
QualifyOperands(operands) ==
    LET reasonOf(operand) ==
            CASE ParseNpmSpec(operand) = "error" -> Invalid("invalid_operand")
              [] ParseNpmSpec(operand) = "workspace" -> Unsupported("workspace_operand")
              [] ParseNpmSpec(operand) = "registry" -> Unsupported("shell_composition")
              [] OTHER -> Unsupported("non_registry_operand")
        bad == {i \in DOMAIN operands : ParseNpmSpec(operands[i]) # "registry" \/ operands[i] \in Globs}
    IN IF bad = {}
       THEN [category |-> "dependency_add", reason |-> "direct_dependency_add", packages |-> operands]
       ELSE reasonOf(operands[CHOOSE i \in bad : \A j \in bad : i <= j])

QualifyAddition(operands) ==
    CASE operands = <<>> -> Unsupported("no_operands")
      [] Len(operands) > MaxOperands -> Invalid("operand_limit")
      [] operands # <<>> /\ Len(operands) <= MaxOperands ->
            IF Uses(operands, {"--"}) THEN Unsupported("double_dash")
            ELSE IF Uses(operands, {"-D"}) THEN Unsupported("unsupported_flag")
            ELSE QualifyOperands(operands)

\* The words of a command that may be a manager's.
QualifyWords(words, dialect) ==
    CASE IsEphemeral(words) -> Ephemeral
      [] ~IsEphemeral(words) /\ words[1] \notin Managers ->
            IF IsAmbiguous(words, dialect) THEN UnsupportedExecutable(words) ELSE Unrelated
      [] ~IsEphemeral(words) /\ words[1] \in Managers ->
            IF HasShellStructure(words, dialect) THEN Unsupported("shell_composition")
            ELSE IF ~IsSupported(words) THEN Unsupported("unsupported_subcommand")
            ELSE QualifyAddition(SubSeq(words, 3, Len(words)))

QualifyCommand(c) ==
    CASE c.text = "empty" -> Invalid("command_empty")
      [] c.text = "limit" -> Invalid("command_limit")
      [] c.text = "control" -> Invalid("control_character")
      [] c.text = "plain" -> IF c.dialect = "powershell" THEN Unsupported("shell_dialect_unsupported")
                             ELSE QualifyWords(c.words, c.dialect)

-----------------------------------------------------------------------------
(* What a shell may make of a command, without a look at its qualification.*)

\* A package manager, whether or not the code takes it for one.
AnyManager == ManagerLike \cup Overlooked

\* A word is run as it is, without its quotes, or as whatever it expands to;
\* an expansion written with a percent sign counts where the shell is unknown.
MayRead(word, dialect) ==
    CASE word \in {"$x", "n?m", "n*m"} -> AnyManager
      [] word = "%x%" /\ dialect # "posix" -> AnyManager
      [] word = "'npm'" -> {"npm"}
      [] OTHER -> {word}

\* The words that a shell may read as the name of a manager.  Any program may
\* run what its arguments name.
ReadAsManager(c) == {i \in DOMAIN c.words : MayRead(c.words[i], c.dialect) \cap AnyManager # {}}
MayRunManager(c) == ReadAsManager(c) # {}

\* A manager and nothing else that adds these packages of the registry.
Adds(c, packages) ==
    /\ Len(c.words) > 2 /\ c.words[1] \in Managers
    /\ c.words[2] \in {"install", "i", "add"} /\ SubSeq(c.words, 3, Len(c.words)) = packages
    /\ ToSet(packages) \subseteq Packages
=============================================================================
