----------------------------- MODULE MovedPrograms -----------------------------
(***************************************************************************)
(* The functions of two variables that MovedUse is checked on: a first     *)
(* statement, one that may be an if or a loop, and one that tells what the *)
(* check made of them.                                                     *)
(***************************************************************************)
EXTENDS MovedUse

Moves == {Move("b", "a", ann) : ann \in BOOLEAN} \union {Move(t, "b", FALSE) : t \in Var}

Simple ==
    {Use("a"), Moved("a"), Augment("a"), Return({}), Return({"a"})}
    \union {Assign("a", reads) : reads \in {{}, {"a"}, {"b"}}} \union Moves

Branches == {<<>>} \union {<<s>> : s \in Simple}

Ifs == {If(reads, a, b) : reads \in {{}, {"a"}}, a, b \in Branches}

LoopsOver ==
    {Loop(reads, b \o c, e) : reads \in {{}, {"a"}}, b, c \in Branches,
                              e \in {<<>>, <<Use("a")>>}}

Second == Simple \union Ifs \union LoopsOver
Third == {Use("a"), Use("b"), Move("b", "a", FALSE), Assign("a", {})}

BodySet ==
    {<<s, t, u>> : s \in Simple \union {Move("b", "a", FALSE)}, t \in Second, u \in Third}
=============================================================================
