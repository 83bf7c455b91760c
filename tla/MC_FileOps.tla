----------------------------- MODULE MC_FileOps -----------------------------
(* Paths over two names, with separators in front, behind and doubled, in    *)
(* three trees: an empty one, one with a directory, one with a file in the   *)
(* way.                                                                      *)
EXTENDS FileOps

a == <<"a">>
b == <<"b">>
s == <<"/">>

MCArgs == {<<>>, s, a, a \o s, a \o s \o s, a \o s \o b, s \o a \o s \o b, a \o s \o s \o b,
           a \o s \o b \o s \o a}
MCCwds == {s, s \o a, s \o a \o s \o b}
MCExt == <<".", "t">>
MCTexts == {<<"t">>}

Names_a == <<a>>
Names_ab == <<a, b>>
Only(d, f) == [dirs |-> {<<>>} \cup d, files |-> f]
MCTrees == {Only({}, <<>>),
            Only({Names_a}, [p \in {Names_ab} |-> <<"t">>]),
            Only({}, [p \in {Names_a} |-> <<"t">>])}
MCShared == {Names_a, Names_ab}
=============================================================================
