---------------------------- MODULE MCPreToolUse ----------------------------
(* Small instances of PreToolUse for TLC.                                  *)
EXTENDS PreToolUse

CONSTANTS p1, p2, p3

Sequences(S, lengths) == UNION {[1..n -> S] : n \in lengths}
Plain(words, dialects) == [text : {"plain"}, dialect : dialects, words : words]

\* Every pair of words; every program with an addition, or a manager with an
\* operand, behind it; every two operands; three packages in all patterns of
\* repetition, and one operand too many.
Pairs == Sequences(Words, {1, 2})
Behind == {<<w, "npm", "add", p1>> : w \in Words \ Managers} \cup {<<w, v, p1>> : w \in Words \ Managers, v \in AnyManager}
Additions(ops) == {<<"npm", "install">> \o o : o \in ops}
Structures == {<<"npm", "add", w, p1>> : w \in Structured \cup PortableStructured \cup Comments}
Triples == {<<p1, p1, p1>>, <<p1, p1, p2>>, <<p1, p2, p1>>, <<p1, p2, p2>>, <<p1, p2, p3>>}

Samples ==
    Plain(Pairs \cup Behind \cup Structures \cup Additions(Sequences(Operands, {2}))
          \cup Additions({<<p1, p2, p3, p1>>}) \cup {<<"pnpm", "add", p2, p3>>}, {"posix", "portable"})
    \cup Plain(Additions({<<p1>>} \cup Triples), {"posix"})
    \cup Plain({<<p1>>, <<"npm", "add", p1>>}, {"powershell"})
    \cup [text : Texts \ {"plain"}, dialect : {"posix", "portable"}, words : {<<p1>>}]

\* Every manager, under whatever name a shell may find it, and one addition.
Direct == Plain({<<v, "add", p1>> : v \in AnyManager}, {"posix", "portable"})
=============================================================================
