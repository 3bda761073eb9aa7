----------------------------- MODULE GenPrograms -----------------------------
(***************************************************************************)
(* The generators that Generators is checked on: every loop around a test, *)
(* a jump and a yield, every loop in every loop and in either branch of an *)
(* if, with and without an else, and three yields of any kind in a row.    *)
(***************************************************************************)
EXTENDS Generators

Y == Yield(7)
R == Receive(8)
L == Log("a")

Atoms == {<<L>>, <<Y>>, <<R>>, <<Break>>, <<Continue>>, <<Return>>}
Plain == {<<L>>, <<Y>>, <<R>>, <<YieldFrom(2)>>}

Ifs(bs) == {<<If(a, b)>> : a \in bs, b \in bs \union {<<>>}}
Ends == {<<>>, <<L>>, <<Y>>}
Heads == {<<>>, <<L>>, <<Y>>, <<R>>}

LoopsOf(bs, es) ==
    {<<While(b, e)>> : b \in bs, e \in es}
    \union {<<For(n, b, e)>> : n \in {0, 2}, b \in bs, e \in es}
    \union {<<Each(2, b, e)>> : b \in bs, e \in es}

Cat(as, bs) == {a \o b : a \in as, b \in bs}

Inner == Cat(Cat(Heads, Ifs(Atoms) \union {<<>>}), {<<>>, <<Y>>})
One == LoopsOf(Inner \ {<<>>}, {<<>>, <<Log("e")>>})
Small == LoopsOf({<<Y>>, <<L>>, <<If(<<Break>>, <<>>), Y>>, <<Y, If(<<Continue>>, <<>>), L>>,
                  <<If(<<Break>>, <<>>), L>>}, {<<>>, <<Log("e")>>})
Two == LoopsOf(Cat(Heads, Small) \union {<<If(s, <<L>>)>> : s \in Small}, {<<>>, <<Log("e")>>})

Bodies ==
    Cat(One, {<<>>, <<Log("z")>>, <<Yield(9)>>}) \union Cat(Two, {<<>>, <<Log("z")>>})
    \union Cat(Cat({<<>>, <<Y>>}, Ifs(Plain \union Small)), {<<>>, <<Log("z")>>})
    \union Cat(Plain, Cat(Plain, Plain))

\* A function is a generator when it has a yield.  A last x = yield reads nothing:
\* what it is sent cannot be seen.
ProgramSet == {p \in Bodies : HasYield(p) /\ p[Len(p)] # R}

Bits == {<<TRUE, TRUE, FALSE>>, <<TRUE, FALSE, TRUE, FALSE, FALSE>>,
         <<FALSE, TRUE, TRUE, TRUE, FALSE>>, <<TRUE, TRUE, TRUE, FALSE, TRUE>>,
         <<FALSE, FALSE, FALSE>>}
=============================================================================
