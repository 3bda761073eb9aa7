----------------------------- MODULE ControlFlow -----------------------------
(***************************************************************************)
(* How the translator turns try, with, loops and jumps of a Python         *)
(* function into C++ (host/translator.py, host/emit/try_emit.py), and what *)
(* both then do.                                                           *)
(*                                                                         *)
(* A program is a sequence of statements.  "log" is any statement with a   *)
(* visible effect; a loop goes round a fixed number of times; a finally    *)
(* body is straight-line.  The translator keeps three stacks while it      *)
(* visits the tree; a context holds what a jump makes of them: the finally *)
(* bodies of the try statements around it and the exits of its with        *)
(* statements, innermost first, and the else flag of the innermost loop.   *)
(*                                                                         *)
(* PySeq is what the Python reference says a program does; LowSeq is what  *)
(* the translator emits, and CppSeq what the emitted C++ does.  Each goes  *)
(* over the bodies of one level, and gets from the level below it what     *)
(* goes over the bodies inside.                                            *)
(***************************************************************************)
EXTENDS Naturals, Sequences

CONSTANTS Exc,      \* the exception types
          Value,    \* what can be logged
          Manager,  \* the context managers
          MaxNest   \* bound: statements inside one another

Jumps == {"return", "break", "continue"}
NoExc == "terminate"  \* what a throw without an operand does outside a catch clause

ASSUME FlowAssumption ==
    /\ MaxNest \in Nat
    /\ Exc \cap ({"normal", NoExc} \union Jumps) = {}

Log(v)     == [k |-> "log", v |-> v]
Raise(e)   == [k |-> "raise", e |-> e]
Jump(j)    == [k |-> j]
Handler(types, bare, body) == [types |-> types, bare |-> bare, body |-> body]
Try(body, handlers, orelse, final) ==
    [k |-> "try", body |-> body, handlers |-> handlers, orelse |-> orelse, final |-> final]
With(m, body) == [k |-> "with", m |-> m, body |-> body]
Repeat(n, body, orelse) == [k |-> "loop", n |-> n, body |-> body, orelse |-> orelse]

Straight == Seq([k : {"log"}, v : Value])
HandlerOf(bodies) == [types : SUBSET Exc, bare : BOOLEAN, body : bodies]

\* The statements whose bodies are taken from bodies.
FlowStatement(bodies) ==
    [k : {"log"}, v : Value]
    \union [k : {"raise"}, e : Exc]
    \union [k : Jumps]
    \union [k : {"try"}, body : bodies, handlers : Seq(HandlerOf(bodies)),
            orelse : bodies, final : Straight]
    \union [k : {"with"}, m : Manager, body : bodies]
    \union [k : {"loop"}, n : Nat, body : bodies, orelse : bodies]

FlowBody[n \in 0 .. MaxNest] == IF n = 0 THEN {<<>>} ELSE Seq(FlowStatement(FlowBody[n - 1]))

-----------------------------------------------------------------------------
(* What both runs are made of *)

Entry == Value \union ({"enter", "exit"} \X Manager)
Outcome == {"normal", NoExc} \union Jumps \union Exc

\* A run so far: what it logged, and how its last statement ended.
Result == [log : Seq(Entry), out : Outcome]

Catches(h, e) == h.bare \/ e \in h.types
Fit(hs, e) == {i \in DOMAIN hs : Catches(hs[i], e)}
First(fit) == CHOOSE i \in fit : \A j \in fit : i <= j

\* One step after the other, up to the first that does not end normally.
Chain(steps, st) ==
    LET after[i \in 0 .. Len(steps)] ==
            IF i = 0 THEN st
            ELSE IF after[i - 1].out = "normal" THEN steps[i][after[i - 1]] ELSE after[i - 1]
    IN  after[Len(steps)]

\* A round of a loop, and the loop as a whole, end as these do.
AfterRound(r) == IF r.out = "continue" THEN [r EXCEPT !.out = "normal"] ELSE r
AfterLoop(r) == IF r.out = "break" THEN [r EXCEPT !.out = "normal"] ELSE r

-----------------------------------------------------------------------------
(* The Python reference *)

Logged(r, ss) == [r EXCEPT !.log = @ \o [i \in DOMAIN ss |-> ss[i].v]]

\* The first handler that names the exception runs, if any does; the finally body runs
\* once, whichever way the rest ended.
PyTry(s, r, walk) ==
    LET tried == walk[s.body][r]
        fit == Fit(s.handlers, tried.out)
        rest == IF tried.out \in Exc /\ fit # {}
                THEN walk[s.handlers[First(fit)].body][[tried EXCEPT !.out = "normal"]]
                ELSE IF tried.out = "normal" THEN walk[s.orelse][tried]
                ELSE tried
    IN  Logged(rest, s.final)

PyLoop(s, r, walk) ==
    LET rounds == Chain([i \in 1 .. s.n |-> [q \in Result |-> AfterRound(walk[s.body][q])]], r)
    IN  IF rounds.out = "normal" THEN walk[s.orelse][rounds] ELSE AfterLoop(rounds)

PyWith(s, r, walk) ==
    LET end == walk[s.body][[r EXCEPT !.log = Append(@, <<"enter", s.m>>)]]
    IN  [end EXCEPT !.log = Append(@, <<"exit", s.m>>)]

PyStmt(s, r, walk) ==
    CASE s.k = "log"   -> [r EXCEPT !.log = Append(@, s.v)]
      [] s.k = "raise" -> [r EXCEPT !.out = s.e]
      [] s.k \in Jumps -> [r EXCEPT !.out = s.k]
      [] s.k = "try"   -> PyTry(s, r, walk)
      [] s.k = "with"  -> PyWith(s, r, walk)
      [] s.k = "loop"  -> PyLoop(s, r, walk)

PyBody(ss, r, walk) ==
    Chain([i \in DOMAIN ss |-> [q \in Result |-> PyStmt(ss[i], q, walk)]], r)

PySeq[n \in 0 .. MaxNest] ==
    [ss \in FlowBody[n] |-> [r \in Result |->
        IF n = 0 THEN r ELSE PyBody(ss, r, PySeq[n - 1])]]

-----------------------------------------------------------------------------
(* The translator *)

\* The C++ it emits: bool flags, try with its catch clauses, and plain statements.
SetFlag(f, b) == [k |-> "set", f |-> f, b |-> b]
IfFlag(f, body) == [k |-> "if", f |-> f, body |-> body]
Rethrow == [k |-> "rethrow"]
CppTry(body, catches) == [k |-> "ctry", body |-> body, catches |-> catches]
CppLoop(n, body) == [k |-> "cloop", n |-> n, body |-> body]

CodeStatement(bodies) ==
    [k : {"log"}, v : Entry]
    \union [k : {"raise"}, e : Exc]
    \union [k : Jumps \union {"rethrow"}]
    \union [k : {"set"}, f : Nat, b : BOOLEAN]
    \union [k : {"if"}, f : Nat, body : bodies]
    \union [k : {"ctry"}, body : bodies, catches : Seq(HandlerOf(bodies))]
    \union [k : {"cloop"}, n : Nat, body : bodies]

Code[n \in 0 .. MaxNest + 1] == IF n = 0 THEN {<<>>} ELSE Seq(CodeStatement(Code[n - 1]))

NoFlag == 0
Context == [finals : Straight, exits : Seq([k : {"log"}, v : {"exit"} \X Manager]),
            flag : Nat, depth : Nat \ {0}]

Outermost == [finals |-> <<>>, exits |-> <<>>, flag |-> NoFlag, depth |-> 1]
Deeper(c) == [c EXCEPT !.depth = @ + 1]
InTry(c, final) == [Deeper(c) EXCEPT !.finals = final \o @]
InWith(c, m) == [Deeper(c) EXCEPT !.exits = <<Log(<<"exit", m>>)>> \o @]
InLoop(c, flag) == [Deeper(c) EXCEPT !.flag = flag]

\* _emit_active_finally and _emit_with_exits, innermost first, and then the jump.
LowReturn(c) == c.finals \o c.exits \o <<Jump("return")>>

(* A wrong variant of the definition below, a mistake the code could have    *)
(* made: the property of this module tells it from the real one.             *)

\* break leaves the loop's else flag as it is.
LowBreakIntoElse(c) == c.finals \o c.exits \o <<Jump("break")>>

LowBreak(c) ==
    c.finals \o c.exits
    \o (IF c.flag = NoFlag THEN <<>> ELSE <<SetFlag(c.flag, FALSE)>>) \o <<Jump("break")>>

LowContinue(c) == c.finals \o <<Jump("continue")>>

\* emit_try: an else sets up a flag that every catch clause clears; without a bare except,
\* a last catch clause runs the finally body and throws on; the finally body follows.
LowTry(s, c, walk) ==
    LET flag == c.depth
        d == InTry(c, s.final)
        hasElse == s.orelse # <<>>
        cleared == IF hasElse THEN <<SetFlag(flag, FALSE)>> ELSE <<>>
        caught == [i \in DOMAIN s.handlers |->
                     Handler(s.handlers[i].types, s.handlers[i].bare,
                             cleared \o walk[s.handlers[i].body][d])]
        others == Handler({}, TRUE, cleared \o s.final \o <<Rethrow>>)
        hasBare == \E i \in DOMAIN s.handlers : s.handlers[i].bare
    IN  (IF hasElse THEN <<SetFlag(flag, TRUE)>> ELSE <<>>)
        \o <<CppTry(walk[s.body][d], IF hasBare THEN caught ELSE Append(caught, others))>>
        \o (IF hasElse THEN <<IfFlag(flag, walk[s.orelse][d])>> ELSE <<>>)
        \o s.final

\* _emit_with_items: enter, the body, exit at the block's end.
LowWith(s, c, walk) ==
    <<Log(<<"enter", s.m>>)>> \o walk[s.body][InWith(c, s.m)] \o <<Log(<<"exit", s.m>>)>>

\* _loop_with_else: the flag exists only when there is an else, and break clears it.
LowLoop(s, c, walk) ==
    IF s.orelse = <<>> THEN <<CppLoop(s.n, walk[s.body][InLoop(c, NoFlag)])>>
    ELSE <<SetFlag(c.depth, TRUE), CppLoop(s.n, walk[s.body][InLoop(c, c.depth)]),
           IfFlag(c.depth, walk[s.orelse][Deeper(c)])>>

LowStmt(s, c, walk) ==
    CASE s.k = "log"      -> <<s>>
      [] s.k = "raise"    -> <<s>>
      [] s.k = "return"   -> LowReturn(c)
      [] s.k = "break"    -> LowBreak(c)
      [] s.k = "continue" -> LowContinue(c)
      [] s.k = "try"      -> LowTry(s, c, walk)
      [] s.k = "with"     -> LowWith(s, c, walk)
      [] s.k = "loop"     -> LowLoop(s, c, walk)

LowBody(ss, c, walk) ==
    LET lines[i \in 0 .. Len(ss)] ==
            IF i = 0 THEN <<>> ELSE lines[i - 1] \o LowStmt(ss[i], c, walk)
    IN  lines[Len(ss)]

LowSeq[n \in 0 .. MaxNest] ==
    [ss \in FlowBody[n] |-> [c \in Context |->
        IF n = 0 THEN <<>> ELSE LowBody(ss, c, LowSeq[n - 1])]]

-----------------------------------------------------------------------------
(* The emitted C++ *)

\* Besides what a result has, the flags that are set and the exception that the innermost
\* catch clause is handling.
Memory == [log : Seq(Entry), out : Outcome, up : SUBSET Nat, cur : Exc \union {NoExc}]

CppTrying(s, st, walk) ==
    LET tried == walk[s.body][st]
        fit == Fit(s.catches, tried.out)
        handled == walk[s.catches[First(fit)].body]
                       [[tried EXCEPT !.out = "normal", !.cur = tried.out]]
    IN  IF tried.out \notin Exc \/ fit = {} THEN tried ELSE [handled EXCEPT !.cur = st.cur]

CppStmt(s, st, walk) ==
    CASE s.k = "log"     -> [st EXCEPT !.log = Append(@, s.v)]
      [] s.k = "raise"   -> [st EXCEPT !.out = s.e]
      [] s.k = "rethrow" -> [st EXCEPT !.out = st.cur]
      [] s.k \in Jumps   -> [st EXCEPT !.out = s.k]
      [] s.k = "set"     -> [st EXCEPT !.up = IF s.b THEN @ \union {s.f} ELSE @ \ {s.f}]
      [] s.k = "if"      -> IF s.f \in st.up THEN walk[s.body][st] ELSE st
      [] s.k = "ctry"    -> CppTrying(s, st, walk)
      [] s.k = "cloop"   ->
            AfterLoop(Chain([i \in 1 .. s.n |->
                               [q \in Memory |-> AfterRound(walk[s.body][q])]], st))

CppBody(code, st, walk) ==
    Chain([i \in DOMAIN code |-> [q \in Memory |-> CppStmt(code[i], q, walk)]], st)

CppSeq[n \in 0 .. MaxNest + 1] ==
    [code \in Code[n] |-> [st \in Memory |->
        IF n = 0 THEN st ELSE CppBody(code, st, CppSeq[n - 1])]]

-----------------------------------------------------------------------------
(* One translation: a program is translated, then both sides run. *)

VARIABLES prog, emitted, runs

flowVars == <<prog, emitted, runs>>

Nothing == [log |-> <<>>, out |-> "normal"]
NoRuns == [py |-> Nothing, cpp |-> Nothing, done |-> FALSE]

FlowInit(programs) == prog \in programs /\ emitted = <<>> /\ runs = NoRuns

Lower ==
    /\ emitted = <<>>
    /\ emitted' = LowSeq[MaxNest][prog][Outermost]
    /\ UNCHANGED <<prog, runs>>

Execute ==
    /\ emitted # <<>> /\ ~runs.done
    /\ LET start == [log |-> <<>>, out |-> "normal", up |-> {}, cur |-> NoExc]
           st == CppSeq[MaxNest + 1][emitted][start]
       IN  runs' = [py |-> PySeq[MaxNest][prog][Nothing],
                    cpp |-> [log |-> st.log, out |-> st.out], done |-> TRUE]
    /\ UNCHANGED <<prog, emitted>>

FlowNext == Lower \/ Execute

FlowSpec == FlowInit(FlowBody[MaxNest]) /\ [][FlowNext]_flowVars

-----------------------------------------------------------------------------
(* Where the translation is faithful *)

\* What may leave a body, and whether a try with a finally body or a with is around it.
Place == [may : SUBSET (Jumps \union {"raise"}), final : BOOLEAN, with : BOOLEAN]

InFunction == [may |-> {"raise", "return"}, final |-> FALSE, with |-> FALSE]
BesideFinal(a) == [a EXCEPT !.final = TRUE]
PastTry(a) == [a EXCEPT !.final = TRUE, !.may = @ \ {"raise"}]
InsideWith(a) ==
    [a EXCEPT !.with = TRUE,
              !.may = @ \ ({"raise", "continue"} \union IF a.final THEN Jumps ELSE {})]
InsideLoop(a) ==
    [a EXCEPT !.may = (@ \intersect {"raise", "return"})
                      \union (IF a.final THEN {} ELSE {"continue"})
                      \union (IF a.final \/ a.with THEN {} ELSE {"break"})]

CleanStmt(s, a, walk) ==
    CASE s.k = "log" -> TRUE
      [] s.k \in Jumps \union {"raise"} -> s.k \in a.may
      [] s.k = "try" ->
            LET hasFinal == s.final # <<>>
                past == IF hasFinal THEN PastTry(a) ELSE a
            IN  /\ walk[s.body][IF hasFinal THEN BesideFinal(a) ELSE a]
                /\ walk[s.orelse][past]
                /\ \A i \in DOMAIN s.handlers : walk[s.handlers[i].body][past]
      [] s.k = "with" -> walk[s.body][InsideWith(a)]
      [] s.k = "loop" -> walk[s.body][InsideLoop(a)] /\ walk[s.orelse][a]

CleanSeq[n \in 0 .. MaxNest] ==
    [ss \in FlowBody[n] |-> [a \in Place |->
        IF n = 0 THEN TRUE ELSE \A i \in DOMAIN ss : CleanStmt(ss[i], a, CleanSeq[n - 1])]]

(* The emitted C++ logs what the Python program logs and ends the way it     *)
(* ends, for every program in which nothing is raised in a handler or else   *)
(* beside a finally body or inside a with, no break or continue is in a loop *)
(* inside a try, no break is in a loop inside a with, no continue leaves a   *)
(* with, and no jump leaves a with together with the try around it           *)
(* (emit_try, visit_Return, visit_Break, visit_Continue).                    *)
FaithfulWhereClean ==
    runs.done /\ CleanSeq[MaxNest][prog][InFunction] => runs.cpp = runs.py

Times(v, log) == Len(SelectSeq(log, LAMBDA x : x = v))

(* A finally body runs once for each time its try is entered (emit_try's     *)
(* docstring and the reference manual: always executed, and executed once).  *)
FinallyRunsOnce ==
    runs.done => Times("finally", runs.cpp.log) = Times("finally", runs.py.log)
=============================================================================
