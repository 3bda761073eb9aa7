---------------------------- MODULE FlowPrograms -----------------------------
(***************************************************************************)
(* The functions that ControlFlow is checked on: a try, a with or a loop,  *)
(* or one of them inside another, around every kind of jump and raise, and *)
(* a statement after it.                                                   *)
(***************************************************************************)
EXTENDS ControlFlow

Leaves == {<<Log("a")>>, <<Raise("A")>>, <<Raise("B")>>, <<Jump("return")>>}
LoopLeaves == Leaves \union {<<Jump("break")>>, <<Jump("continue")>>}

Finals == {<<>>, <<Log("finally")>>}
OnA(body) == <<Handler({"A"}, FALSE, body)>>
OnAll(body) == <<Handler({"A"}, FALSE, <<Log("h")>>), Handler({}, TRUE, body)>>

Handlings(leaves) == {<<>>} \union {OnA(l) : l \in leaves} \union {OnAll(l) : l \in leaves}

\* One statement deep
Tries(bodies, hs, elses, finals) ==
    {Try(b, h, e, f) : b \in bodies, h \in hs, e \in elses, f \in finals}

Flat(leaves) ==
    Tries(leaves, Handlings(leaves), {<<>>} \union leaves, Finals)
    \union {With("m", b) : b \in leaves}

Seqs(ss) == {<<s, Log("z")>> : s \in ss}

InLoops(ss) == {Repeat(2, <<s, Log("r")>>, e) : s \in ss, e \in {<<>>, <<Log("e")>>}}

\* Two deep: a statement inside a try, a with or a loop
Nested(ss) ==
    UNION {{Try(<<s>>, <<>>, <<>>, <<Log("finally")>>),
            Try(<<s, Log("b")>>, OnA(<<Log("h")>>), <<Log("e")>>, <<Log("outer")>>),
            With("n", <<s, Log("b")>>)} : s \in ss}

Small == {Try(b, h, e, f) : b \in LoopLeaves, h \in {<<>>, OnA(<<Log("h")>>)},
                            e \in {<<>>, <<Jump("continue")>>}, f \in Finals}
         \union {With("m", b) : b \in LoopLeaves}
         \union {[k |-> "break"], [k |-> "continue"]}

FlowSet ==
    Seqs(Flat(Leaves) \union Nested(Flat(Leaves))
         \union InLoops(Flat(LoopLeaves))
         \union Nested(InLoops(Small)) \union InLoops(Nested(Small)))
=============================================================================
