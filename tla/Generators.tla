------------------------------ MODULE Generators ------------------------------
(***************************************************************************)
(* How a generator function becomes a class whose __resume is a switch     *)
(* over _state in an endless loop (host/passes/generators.py and           *)
(* generator_emit.py), against the Python generator.                       *)
(*                                                                         *)
(* A test takes the next bit of a given sequence, on both sides; a run     *)
(* that has used them up is "cut".  The k-th send after the first next     *)
(* sends k, and x = yield v logs what x becomes.  A for loop goes over a   *)
(* range or over an iterator with a given number of items.                 *)
(***************************************************************************)
EXTENDS Naturals, Sequences

CONSTANTS MaxYields,  \* bound: yields of a run
          MaxSteps    \* bound: steps of the C++ from one yield to the next

Log(v)       == [k |-> "log", v |-> v]
Yield(v)     == [k |-> "yield", v |-> v, recv |-> FALSE]
Receive(v)   == [k |-> "yield", v |-> v, recv |-> TRUE]       \* x = yield v
YieldFrom(n) == [k |-> "from", n |-> n]                       \* of an iterator of n items
If(a, b)     == [k |-> "if", then |-> a, orelse |-> b]
While(b, e)  == [k |-> "while", body |-> b, orelse |-> e]
For(n, b, e) == [k |-> "for", n |-> n, body |-> b, orelse |-> e]    \* range(n)
Each(n, b, e) == [k |-> "each", n |-> n, body |-> b, orelse |-> e]  \* an iterator
Break    == [k |-> "break"]
Continue == [k |-> "continue"]
Return   == [k |-> "return"]

Loops == {"while", "for", "each"}

RECURSIVE Within(_)

\* The statements of a sequence, those inside others included.
Within(ss) ==
    UNION {{ss[i]} \union
           (IF ss[i].k = "if" THEN Within(ss[i].then) \union Within(ss[i].orelse)
            ELSE IF ss[i].k \in Loops THEN Within(ss[i].body) \union Within(ss[i].orelse)
            ELSE {}) : i \in DOMAIN ss}

HasYield(ss) == \E s \in Within(ss) : s.k \in {"yield", "from"}

-----------------------------------------------------------------------------
(* The Python reference *)

\* A run: the log, the number of yields, the bits left, and how the last statement ended.
PyStart(bits) == [log |-> <<>>, yields |-> 0, bits |-> bits, out |-> "normal"]

PyYield(v, r) ==
    [r EXCEPT !.log = Append(@, <<"yield", v>>), !.yields = @ + 1,
              !.out = IF r.yields + 1 = MaxYields THEN "cut" ELSE "normal"]

RECURSIVE PySeq(_, _), PyStmt(_, _), PyItems(_, _, _), PyRounds(_, _, _)

PySeq(ss, r) ==
    IF ss = <<>> \/ r.out # "normal" THEN r ELSE PySeq(Tail(ss), PyStmt(Head(ss), r))

PyItems(i, n, r) ==
    IF i = n \/ r.out # "normal" THEN r ELSE PyItems(i + 1, n, PyYield(i, r))

\* left counts the items a for loop still has.
PyRounds(s, left, r) ==
    LET tests == s.k = "while"
        next == IF tests THEN [r EXCEPT !.bits = Tail(@)] ELSE r
        more == IF tests THEN Head(r.bits) ELSE left > 0
    IN  IF tests /\ r.bits = <<>> THEN [r EXCEPT !.out = "cut"]
        ELSE IF ~more THEN PySeq(s.orelse, next)
        ELSE LET b == PySeq(s.body, next)
             IN  IF b.out \in {"normal", "continue"}
                 THEN PyRounds(s, IF tests THEN 0 ELSE left - 1, [b EXCEPT !.out = "normal"])
                 ELSE IF b.out = "break" THEN [b EXCEPT !.out = "normal"]
                 ELSE b

PyStmt(s, r) ==
    CASE s.k = "log"   -> [r EXCEPT !.log = Append(@, <<"log", s.v>>)]
      [] s.k = "yield" -> LET y == PyYield(s.v, r)
                          IN  IF s.recv /\ y.out = "normal"
                              THEN [y EXCEPT !.log = Append(@, <<"received", y.yields>>)]
                              ELSE y
      [] s.k = "from"  -> PyItems(0, s.n, r)
      [] s.k = "if"    -> IF r.bits = <<>> THEN [r EXCEPT !.out = "cut"]
                          ELSE PySeq(IF Head(r.bits) THEN s.then ELSE s.orelse,
                                     [r EXCEPT !.bits = Tail(@)])
      [] s.k = "while" -> PyRounds(s, 0, r)
      [] s.k \in {"for", "each"} -> PyRounds(s, s.n, r)
      [] OTHER         -> [r EXCEPT !.out = s.k]

PyRun(p, bits) ==
    LET r == PySeq(p, PyStart(bits))
    IN  [log |-> r.log, out |-> IF r.out = "cut" THEN "cut" ELSE "done"]

-----------------------------------------------------------------------------
(* The emitter: GeneratorSwitchEmitter.  The C++ is a sequence of tokens, *)
(* in which "case", "if", "else" and "native" open a block and "end"      *)
(* closes the innermost.                                                  *)

Tok(t) == [t |-> t]
State(n) == [t |-> "state", n |-> n]
Case(n) == [t |-> "case", n |-> n]
IfTok(c, n, want) == [t |-> "if", c |-> c, n |-> n, want |-> want]
Jump(n) == <<State(n), Tok("continue")>>
JumpIf(c, id, want, n) == <<IfTok(c, id, want)>> \o Jump(n) \o <<Tok("end")>>

\* slot: the last state allocated; state: where the next statement goes; open, tail and
\* shared hold one state or none; takes: the states that read what was sent; whiles, fors,
\* breaks, flags: the stacks of continue targets, break targets and loop-else flags.
Emitter ==
    [code |-> <<>>, slot |-> 0, state |-> 0, open |-> {}, brace |-> FALSE, tail |-> {},
     takes |-> {}, shared |-> {}, whiles |-> <<>>, fors |-> <<>>, breaks |-> <<>>,
     flags |-> <<>>, native |-> 0]

Write(e, toks) == [e EXCEPT !.code = @ \o toks]
New(e, k) == e.slot + k
Alloc(e, k) == [e EXCEPT !.slot = @ + k]
At(e, n) == [e EXCEPT !.state = n]
Drop(e) == [e EXCEPT !.open = {}, !.brace = FALSE]
Top(stack) == stack[Len(stack)]

\* _close_case_block, _open_case_block
Close(e) == IF e.brace THEN [Write(e, <<Tok("end")>>) EXCEPT !.brace = FALSE] ELSE e
Open(e, n) ==
    IF e.open = {n} /\ e.brace THEN e
    ELSE LET d == Close(e)
             take == IF n \in e.takes THEN <<Tok("take")>> ELSE <<>>
         IN  [Write(d, <<Case(n)>> \o take) EXCEPT !.open = {n}, !.brace = TRUE, !.takes = @ \ {n}]

\* Leave the case, and go on in the next one, n.
Leave(e, n) == At(Open(Close(Write(e, Jump(n))), n), n)
\* Leave the case; the next statement will open n.
Suspend(e, toks, n) == At(Drop(Close(Write(e, <<State(n)>> \o toks))), n)

RECURSIVE EmitSeq(_, _), EmitStmt(_, _, _), TakesSend(_)

EmitSeq(ss, e) ==
    IF ss = <<>> THEN e ELSE EmitSeq(Tail(ss), EmitStmt(Head(ss), e, Tail(ss) # <<>>))

\* _emit_yield: inside a while, the first x = yield takes the state the loop head knows.
EmitYield(s, e) ==
    LET known == s.recv /\ e.whiles # <<>> /\ e.shared # {}
        nxt == IF known THEN CHOOSE n \in e.shared : TRUE ELSE New(e, 1)
        d == IF known THEN [e EXCEPT !.shared = {}] ELSE Alloc(e, 1)
    IN  Suspend([d EXCEPT !.takes = IF s.recv THEN @ \union {nxt} ELSE @],
                <<[t |-> "yield", v |-> s.v]>>, nxt)

\* _emit_yield_from
EmitFrom(s, e) ==
    LET it == New(e, 1)
        d == Leave(Alloc(e, 1), it)
        after == New(d, 1)
    IN  Suspend(Write(Alloc(d, 1),
                      <<[t |-> "start", id |-> it, n |-> s.n], IfTok("more", it, TRUE),
                        [t |-> "item", id |-> it], Tok("end"), [t |-> "stop", id |-> it]>>),
                <<Tok("continue")>>, after)

\* _body_has_recv_yield
TakesSend(ss) ==
    \E i \in DOMAIN ss :
        \/ ss[i].k = "yield" /\ ss[i].recv
        \/ ss[i].k = "if" /\ (TakesSend(ss[i].then) \/ TakesSend(ss[i].orelse))

\* _emit_if_plain, and visit_If inside a native loop
EmitPlainIf(s, e) ==
    LET then == Write(EmitSeq(s.then, Write(e, <<IfTok("test", 0, TRUE)>>)), <<Tok("end")>>)
    IN  IF s.orelse = <<>> THEN then
        ELSE Write(EmitSeq(s.orelse, Write(then, <<Tok("else")>>)), <<Tok("end")>>)

\* _branch_exits_abruptly, _emit_yield_to_join_bridge
Abrupt(ss) == ss # <<>> /\ ss[Len(ss)].k \in {"break", "continue", "return"}
Bridge(e, join) ==
    IF e.open = {e.state} /\ e.brace THEN Close(Write(e, Jump(join)))
    ELSE Close(Write(Open(IF e.brace THEN Close(e) ELSE Drop(e), e.state), Jump(join)))

\* One branch of an if, which falls through when no state was opened in it.
EmitBranch(ss, e, join) ==
    LET d == EmitSeq(ss, e)
    IN  IF d.state = e.state THEN Close(Write(d, Jump(join)))
        ELSE IF HasYield(ss) /\ ~Abrupt(ss) THEN Bridge(d, join)
        ELSE d

\* _emit_if
EmitIf(s, e) ==
    LET hasElse == s.orelse # <<>>
        other == New(e, 1)
        join == IF hasElse THEN New(e, 2) ELSE other
        test == Write(Alloc(e, IF hasElse THEN 2 ELSE 1), JumpIf("test", 0, FALSE, other))
        then == EmitBranch(s.then, test, join)
        orelse == EmitBranch(s.orelse, At(Open(IF then.brace THEN Close(then) ELSE Drop(then),
                                               other), other), join)
    IN  At(Open(IF hasElse THEN orelse ELSE then, join), join)

\* _emit_loop_else_stmts
EmitElse(s, flag, e) ==
    IF s.orelse = <<>> THEN e
    ELSE LET merge == New(e, 1)
             d == Write(EmitSeq(s.orelse,
                                Write(Alloc(e, 1), JumpIf("flag", flag, FALSE, merge)
                                                   \o <<IfTok("flag", flag, TRUE)>>)),
                        <<Tok("end")>>)
         IN  At(Open(d, merge), merge)

\* Inside a loop whose flag is id, and out of it again.
Enter(s, e, id) == [e EXCEPT !.flags = Append(@, IF s.orelse = <<>> THEN {} ELSE {id})]
PopOff(stack) == SubSeq(stack, 1, Len(stack) - 1)

\* _emit_loop_body_tail
Around(e, n) ==
    LET d == IF e.brace THEN e ELSE Open(e, e.state) IN Close(Write(d, Jump(n)))

\* _emit_while: a head that knows a state for what is sent goes there when something was.
EmitWhile(s, e) ==
    LET head == New(e, 1)
        after == New(e, 2)
        shared == IF TakesSend(s.body) THEN {New(e, 3)} ELSE {}
        in == Leave([Enter(s, Alloc(e, IF shared = {} THEN 2 ELSE 3), head) EXCEPT
                        !.shared = shared, !.whiles = Append(@, head),
                        !.breaks = Append(@, after)], head)
        sent == IF shared = {} THEN <<>> ELSE JumpIf("sent", 0, TRUE, New(e, 3))
        body == EmitSeq(s.body, Write(in, sent \o JumpIf("test", 0, FALSE, after)))
        out == EmitElse(s, head, At(Open(Around(body, head), after), after))
    IN  [out EXCEPT !.flags = e.flags, !.shared = e.shared, !.whiles = e.whiles, !.breaks = e.breaks]

\* _emit_for_after_loop_tail_jump
TailJump(e, more) ==
    IF ~more THEN e ELSE [Write(Alloc(e, 1), Jump(New(e, 1))) EXCEPT !.tail = {New(e, 1)}]

\* _emit_for_range_suspend and _emit_for_iter_suspend: a range keeps its variable in a field
\* and has a state that counts; an iterator is started unless it is active.
EmitSuspended(s, e, more) ==
    LET counts == s.k = "for"
        head == New(e, 1)
        inc == New(e, 2)
        after == IF counts THEN New(e, 3) ELSE New(e, 2)
        start == [t |-> IF counts THEN "restart" ELSE "start", id |-> head, n |-> s.n]
        first == Alloc(IF counts THEN Write(e, <<start>>) ELSE e, IF counts THEN 3 ELSE 2)
        in == Leave([Enter(s, first, head) EXCEPT !.breaks = Append(@, after),
                        !.fors = Append(@, IF counts THEN inc ELSE head)], head)
        next == IF counts THEN JumpIf("more", head, FALSE, after)
                ELSE <<start, IfTok("more", head, FALSE), [t |-> "stop", id |-> head]>>
                     \o Jump(after) \o <<Tok("end"), [t |-> "count", id |-> head]>>
        body == EmitSeq(s.body, Write(in, next))
        round == IF ~counts THEN Around(body, head)
                 ELSE Close(Write(Open(Around(body, inc), inc),
                                  <<[t |-> "count", id |-> head]>> \o Jump(head)))
        out == TailJump(EmitElse(s, head, At(Open(round, after), after)), more)
    IN  [out EXCEPT !.flags = e.flags, !.fors = e.fors, !.breaks = e.breaks]

\* _emit_for_range and _emit_for_iter: a C++ loop, and a state after it.
EmitNative(s, e) ==
    LET after == New(e, 1)
        in == [Enter(s, Alloc(e, 1), after) EXCEPT !.native = @ + 1]
        body == EmitSeq(s.body, Write(in, <<[t |-> "native", id |-> after, n |-> s.n]>>))
        out == EmitElse(s, after, [Write(body, <<Tok("end")>>) EXCEPT !.flags = e.flags,
                                                                        !.native = e.native])
    IN  Suspend(out, <<Tok("continue")>>, after)

Unset(e) ==
    IF e.flags = <<>> \/ Top(e.flags) = {} THEN <<>>
    ELSE <<[t |-> "unset", id |-> CHOOSE f \in Top(e.flags) : TRUE]>>

EmitBreak(e) ==
    IF e.breaks # <<>> THEN Write(e, Unset(e) \o Jump(Top(e.breaks)))
    ELSE IF e.flags # <<>> THEN Write(e, Unset(e) \o <<Tok("break")>>)
    ELSE Write(e, <<Tok("return")>>)

(* A wrong variant of the definition below, a mistake the code could have    *)
(* made: the property of this module tells it from the real one.             *)

\* continue prefers the loops that are whiles.
EmitContinueToWhile(e) ==
    IF e.whiles # <<>> THEN Write(e, Jump(Top(e.whiles)))
    ELSE IF e.fors # <<>> THEN Write(e, Jump(Top(e.fors)))
    ELSE Write(e, <<Tok("continue")>>)

EmitContinue(e) ==
    IF e.fors # <<>> THEN Write(e, Jump(Top(e.fors)))
    ELSE IF e.whiles # <<>> THEN Write(e, Jump(Top(e.whiles)))
    ELSE Write(e, <<Tok("continue")>>)

\* _emit_stmt; more says that another statement follows in the same body.
EmitStmt(s, e, more) ==
    LET at == IF e.tail = {} THEN e
              ELSE [e EXCEPT !.state = CHOOSE n \in e.tail : TRUE, !.tail = {}]
        d == Open(at, at.state)
        looping == d.whiles # <<>> \/ d.fors # <<>>
    IN  CASE s.k = "log"      -> Write(d, <<[t |-> "log", v |-> s.v]>>)
          [] s.k = "yield"    -> EmitYield(s, d)
          [] s.k = "from"     -> EmitFrom(s, d)
          [] s.k = "if"       -> IF ~HasYield(<<s>>) /\ (d.native > 0 \/ looping)
                                 THEN EmitPlainIf(s, d) ELSE EmitIf(s, d)
          [] s.k = "while"    -> EmitWhile(s, d)
          [] s.k \in {"for", "each"} ->
                IF HasYield(s.body) THEN EmitSuspended(s, d, more) ELSE EmitNative(s, d)
          [] s.k = "break"    -> EmitBreak(d)
          [] s.k = "continue" -> EmitContinue(d)
          [] s.k = "return"   -> Write(d, <<Tok("return")>>)

\* emit
Emit(p) == Close(EmitSeq(p, Emitter)).code

-----------------------------------------------------------------------------
(* The emitted C++ *)

Opens(tok) == tok.t \in {"case", "if", "else", "native"}

RECURSIVE Skip(_, _, _)

\* The "end" of the block that was opened before i, depth blocks out.
Skip(code, i, depth) ==
    IF i > Len(code) THEN i
    ELSE IF Opens(code[i]) THEN Skip(code, i + 1, depth + 1)
    ELSE IF code[i].t # "end" THEN Skip(code, i + 1, depth)
    ELSE IF depth = 1 THEN i
    ELSE Skip(code, i + 1, depth - 1)

EndOf(code, i) == Skip(code, i + 1, 1)

\* The C++ loop around a token, if there is one.
NativeAround(code, i) ==
    {o \in 1 .. i - 1 : /\ code[o].t = "native" /\ EndOf(code, o) > i
                        /\ \A q \in o + 1 .. i - 1 : code[q].t = "native" => EndOf(code, q) < i}

\* switch (_state): the default is to be done.
Labelled(code, n) == {i \in DOMAIN code : code[i] = Case(n)}
Switch(code, m) ==
    LET at == Labelled(code, m.st)
    IN  [m EXCEPT !.pc = IF at = {} THEN Len(code) + 1 ELSE CHOOSE i \in at : TRUE]

\* The fields, which last (st, count, limit, sent), and the locals of one call (pc, unset).
CppStart(bits) ==
    [st |-> 0, count |-> << >>, limit |-> << >>, sent |-> FALSE, pc |-> 0, unset |-> {},
     log |-> <<>>, yields |-> 0, bits |-> bits, out |-> "normal", steps |-> 0]

Put(f, x, v) == [y \in DOMAIN f \union {x} |-> IF y = x THEN v ELSE f[y]]
Without(f, x) == [y \in DOMAIN f \ {x} |-> f[y]]

Condition(m, tok) ==
    CASE tok.c = "test" -> Head(m.bits)
      [] tok.c = "flag" -> tok.n \notin m.unset
      [] tok.c = "sent" -> m.sent
      [] tok.c = "more" -> m.count[tok.n] < m.limit[tok.n]

CppYield(m, v) ==
    [m EXCEPT !.log = Append(@, <<"yield", v>>), !.yields = @ + 1,
              !.out = IF m.yields + 1 = MaxYields THEN "cut" ELSE "yielded"]

Counting(m, id, n) == [m EXCEPT !.count = Put(@, id, 0), !.limit = Put(@, id, n)]

CppIf(code, m, tok) ==
    LET d == IF tok.c = "test" THEN [m EXCEPT !.bits = Tail(@)] ELSE m
        end == EndOf(code, m.pc)
        elsed == end < Len(code) /\ code[end + 1].t = "else"
    IN  IF Condition(m, tok) = tok.want THEN [d EXCEPT !.pc = @ + 1]
        ELSE [d EXCEPT !.pc = IF elsed THEN end + 2 ELSE end + 1]

\* The end of a C++ loop's body counts, and goes round while there are items.
CppEnd(code, m, next) ==
    LET opener == {o \in 1 .. m.pc - 1 : code[o].t = "native" /\ EndOf(code, o) = m.pc}
    IN  IF opener = {} THEN next
        ELSE LET o == CHOOSE x \in opener : TRUE
                 counted == [m EXCEPT !.count[code[o].id] = @ + 1]
             IN  [counted EXCEPT !.pc = IF counted.count[code[o].id] < code[o].n
                                        THEN o + 1 ELSE @ + 1]

CppJump(code, m, how) ==
    LET loop == NativeAround(code, m.pc)
        end == EndOf(code, CHOOSE o \in loop : TRUE)
    IN  IF loop # {} THEN [m EXCEPT !.pc = IF how = "break" THEN end + 1 ELSE end]
        ELSE IF how = "break" THEN [m EXCEPT !.out = "done"]
        ELSE Switch(code, m)

CppStep(code, m) ==
    LET tok == code[m.pc]
        next == [m EXCEPT !.pc = @ + 1]
    IN  CASE tok.t = "case"   -> next
          [] tok.t = "state"  -> [next EXCEPT !.st = tok.n]
          [] tok.t = "log"    -> [next EXCEPT !.log = Append(@, <<"log", tok.v>>)]
          [] tok.t = "yield"  -> CppYield(m, tok.v)
          [] tok.t = "item"   -> [CppYield(m, m.count[tok.id]) EXCEPT !.count[tok.id] = @ + 1]
          [] tok.t = "take"   -> IF ~m.sent THEN next
                                 ELSE [next EXCEPT !.sent = FALSE,
                                                   !.log = Append(@, <<"received", m.yields>>)]
          [] tok.t = "start"  -> IF tok.id \in DOMAIN m.count THEN next
                                 ELSE Counting(next, tok.id, tok.n)
          [] tok.t = "restart" -> Counting(next, tok.id, tok.n)
          [] tok.t = "stop"   -> [next EXCEPT !.count = Without(@, tok.id)]
          [] tok.t = "count"  -> [next EXCEPT !.count[tok.id] = @ + 1]
          [] tok.t = "native" -> IF tok.n = 0 THEN [m EXCEPT !.pc = EndOf(code, m.pc) + 1]
                                 ELSE Counting(next, tok.id, tok.n)
          [] tok.t = "unset"  -> [next EXCEPT !.unset = @ \union {tok.id}]
          [] tok.t = "if"     -> IF tok.c = "test" /\ m.bits = <<>>
                                 THEN [m EXCEPT !.out = "cut"] ELSE CppIf(code, m, tok)
          [] tok.t = "else"   -> [m EXCEPT !.pc = EndOf(code, m.pc) + 1]
          [] tok.t = "end"    -> CppEnd(code, m, next)
          [] tok.t \in {"continue", "break"} -> CppJump(code, m, tok.t)
          [] tok.t = "return" -> [m EXCEPT !.out = "done"]

RECURSIVE CppCall(_, _)

CppCall(code, m) ==
    IF m.out # "normal" THEN m
    ELSE IF m.pc > Len(code) THEN [m EXCEPT !.out = "done"]
    ELSE IF m.steps = MaxSteps THEN [m EXCEPT !.out = "endless"]
    ELSE CppCall(code, [CppStep(code, m) EXCEPT !.steps = @ + 1])

-----------------------------------------------------------------------------
(* A generator is translated, created and resumed until it is done. *)

VARIABLES body,   \* the function's body
          py,     \* what the Python generator does
          code,   \* the body of __resume
          cpp     \* the generator object

genVars == <<body, py, code, cpp>>

\* A body, and the outcomes of the tests it makes.
GenInit(bodies, outcomes) ==
    /\ body \in bodies
    /\ code = <<>>
    /\ cpp \in {CppStart(bits) : bits \in outcomes}
    /\ py = PyRun(body, cpp.bits)

Expand ==
    /\ code = <<>>
    /\ code' = Emit(body)
    /\ UNCHANGED <<body, py, cpp>>

\* __next__ and send both set _send_pending.
Resume ==
    /\ code # <<>> /\ cpp.out \in {"normal", "yielded"}
    /\ cpp' = CppCall(code, Switch(code, [cpp EXCEPT !.sent = TRUE, !.unset = {},
                                                     !.out = "normal", !.steps = 0]))
    /\ UNCHANGED <<body, py, code>>

GenNext == Expand \/ Resume
-----------------------------------------------------------------------------
(* Where the translation is faithful *)

\* The break and continue of a body that belong to the loop around it.
RECURSIVE Own(_, _)

Own(ss, jump) ==
    \E i \in DOMAIN ss :
        \/ ss[i].k = jump
        \/ ss[i].k = "if" /\ (Own(ss[i].then, jump) \/ Own(ss[i].orelse, jump))
        \/ ss[i].k \in Loops /\ Own(ss[i].orelse, jump)

Native(s) == s.k \in {"for", "each"} /\ ~HasYield(s.body)

RECURSIVE Clean(_, _)

\* around: the loops around a body, "native" for one that becomes a C++ loop.
Clean(ss, around) ==
    \A i \in DOMAIN ss :
        LET s == ss[i]
            in == around \union {IF Native(s) THEN "native" ELSE s.k}
        IN  CASE s.k = "yield" -> ~(s.recv /\ "while" \in around)
              [] s.k = "if" ->
                    /\ Clean(s.then, around) /\ Clean(s.orelse, around)
                    /\ \A b \in {s.then, s.orelse} :
                          b = <<>> \/ ~(b[Len(b)].k = "while" \/ Native(b[Len(b)]))
              [] s.k \in Loops ->
                    /\ Clean(s.body, in) /\ Clean(s.orelse, around)
                    /\ s.orelse # <<>> => around = {} /\ ~HasYield(s.orelse)
                    /\ s.k = "while" => "native" \notin around
                    /\ s.k = "while" /\ Own(s.body, "continue") => around \subseteq {"while"}
                    /\ Own(s.body, "break") /\ (Native(s) \/ s.k = "each") => around = {}
              [] OTHER -> TRUE

\* What has been done so far is what Python does, and at the end it is all of it.
SameAsPython ==
    /\ Len(cpp.log) <= Len(py.log) /\ cpp.log = SubSeq(py.log, 1, Len(cpp.log))
    /\ cpp.out # "endless"
    /\ cpp.out \in {"done", "cut"} => cpp.out = py.out /\ cpp.log = py.log

\* A generator without the combinations that Clean excludes yields, receives
\* and does the same things in the same order as in Python, and ends when it
\* does: no state is skipped, left without a label or entered twice, whatever
\* the nesting of its loops and tests (GeneratorSwitchEmitter).
CleanGeneratorsFollowPython == Clean(body, {}) => SameAsPython

\* The same of every generator the translator accepts: docs say that
\* send, the return value and StopIteration have Python's semantics.
GeneratorsFollowPython == SameAsPython
=============================================================================
