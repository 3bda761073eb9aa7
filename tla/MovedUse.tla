------------------------------- MODULE MovedUse -------------------------------
(***************************************************************************)
(* The check that a variable is not used after it was moved from           *)
(* (host/passes/moved_use_check.py), against what a run of the function    *)
(* does.  Every variable is of one move-only type; dst = src moves.        *)
(*                                                                         *)
(* CheckSeq is the visitor: one walk over the tree that carries the set of *)
(* moved variables.  RunSeq gives every way the statements can go.  A body *)
(* is a sequence of statements, those inside others being one level less   *)
(* deep; whatever goes over a body of one level gets, as its last          *)
(* argument, the function that goes over the bodies of the level below.    *)
(***************************************************************************)
EXTENDS Naturals, Sequences

CONSTANTS Var,       \* the variables of the function
          MaxDepth,  \* bound: statements inside one another
          MaxRounds  \* bound: rounds of a loop

ASSUME MovedAssumption == MaxDepth \in Nat /\ MaxRounds \in Nat \ {0}

Use(v)            == [k |-> "use", v |-> v]
Moved(v)          == [k |-> "moved", v |-> v]                  \* v.__moved__
Move(t, r, ann)   == [k |-> "move", t |-> t, r |-> r, ann |-> ann]
Assign(t, reads)  == [k |-> "assign", t |-> t, reads |-> reads]
Augment(t)        == [k |-> "augment", t |-> t]                \* t += ...
If(reads, a, b)   == [k |-> "if", reads |-> reads, then |-> a, orelse |-> b]
Loop(reads, b, e) == [k |-> "loop", reads |-> reads, body |-> b, orelse |-> e]
Return(reads)     == [k |-> "return", reads |-> reads]

\* The statements whose bodies are taken from bodies.
Statement(bodies) ==
    [k : {"use", "moved"}, v : Var]
    \union [k : {"move"}, t : Var, r : Var, ann : BOOLEAN]
    \union [k : {"assign"}, t : Var, reads : SUBSET Var]
    \union [k : {"augment"}, t : Var]
    \union [k : {"if"}, reads : SUBSET Var, then : bodies, orelse : bodies]
    \union [k : {"loop"}, reads : SUBSET Var, body : bodies, orelse : bodies]
    \union [k : {"return"}, reads : SUBSET Var]

Body[n \in 0 .. MaxDepth] == IF n = 0 THEN {<<>>} ELSE Seq(Statement(Body[n - 1]))

-----------------------------------------------------------------------------
(* The check *)

Checks == [moved : SUBSET Var, refused : BOOLEAN]

\* A load of a moved variable ends the check.
CheckLoad(reads, st) ==
    IF reads \cap st.moved = {} THEN st ELSE [st EXCEPT !.refused = TRUE]

\* visit_Assign, visit_AnnAssign: an annotated move leaves the target as it was.
CheckMove(s, st) ==
    LET read == CheckLoad({s.r}, st)
    IN  [read EXCEPT !.moved = (IF s.ann THEN @ ELSE @ \ {s.t}) \union {s.r}]

(* A wrong variant of the definition below, a mistake the code could have    *)
(* made: the property of this module tells it from the real one.             *)

\* visit_If visits its branches one after the other with one set.
CheckIfInSequence(s, st, walk) == walk[s.orelse][walk[s.then][CheckLoad(s.reads, st)]]

\* visit_If merges what either branch leaves moved.
CheckIf(s, st, walk) ==
    LET test == CheckLoad(s.reads, st)
        then == walk[s.then][test]
        orelse == walk[s.orelse][test]
    IN  [moved |-> then.moved \union orelse.moved,
         refused |-> then.refused \/ orelse.refused]

Check(s, st, walk) ==
    IF st.refused THEN st
    ELSE CASE s.k = "use"     -> CheckLoad({s.v}, st)
           [] s.k = "moved"   -> st
           [] s.k = "move"    -> CheckMove(s, st)
           [] s.k = "assign"  -> CheckLoad(s.reads, [st EXCEPT !.moved = @ \ {s.t}])
           [] s.k = "augment" -> st
           [] s.k = "if"      -> CheckIf(s, st, walk)
           [] s.k = "loop"    -> walk[s.orelse][walk[s.body][CheckLoad(s.reads, st)]]
           [] s.k = "return"  -> CheckLoad(s.reads, st)

CheckBody(ss, st, walk) ==
    LET after[i \in 0 .. Len(ss)] ==
            IF i = 0 THEN st ELSE Check(ss[i], after[i - 1], walk)
    IN  after[Len(ss)]

CheckSeq[n \in 0 .. MaxDepth] ==
    [ss \in Body[n] |-> [st \in Checks |->
        IF n = 0 THEN st ELSE CheckBody(ss, st, CheckSeq[n - 1])]]

-----------------------------------------------------------------------------
(* The run: what is moved, whether a moved variable was used, and whether the *)
(* function has returned. *)

Runs == [moved : SUBSET Var, used : BOOLEAN, done : BOOLEAN]

Start == [moved |-> {}, used |-> FALSE, done |-> FALSE]
Read(reads, st) == IF reads \cap st.moved = {} THEN st ELSE [st EXCEPT !.used = TRUE]

\* All the ends of a body, from any of the states.
From(states, ss, walk) == UNION {walk[ss][st] : st \in states}

\* The loop may stop whenever its test is evaluated; then its else runs.
Rounds(s, st, walk) ==
    LET tested[n \in 0 .. MaxRounds] ==
            IF n = 0 THEN {Read(s.reads, st)}
            ELSE {Read(s.reads, next) :
                    next \in {end \in From(tested[n - 1], s.body, walk) : ~end.done}}
    IN  (UNION {From(tested[n], s.orelse, walk) : n \in 0 .. MaxRounds})
        \union {end \in UNION {From(tested[n], s.body, walk) : n \in 0 .. MaxRounds - 1} :
                  end.done}

Run(s, st, walk) ==
    IF st.done THEN {st}
    ELSE CASE s.k = "use"     -> {Read({s.v}, st)}
           [] s.k = "moved"   -> {st}
           [] s.k = "move"    -> LET read == Read({s.r}, st)
                                 IN  {[read EXCEPT !.moved = (@ \union {s.r}) \ {s.t}]}
           [] s.k = "assign"  -> LET read == Read(s.reads, st)
                                 IN  {[read EXCEPT !.moved = @ \ {s.t}]}
           [] s.k = "augment" -> {Read({s.t}, st)}
           [] s.k = "if"      -> LET test == Read(s.reads, st)
                                 IN  walk[s.then][test] \union walk[s.orelse][test]
           [] s.k = "loop"    -> Rounds(s, st, walk)
           [] s.k = "return"  -> {[Read(s.reads, st) EXCEPT !.done = TRUE]}

RunBody(ss, st, walk) ==
    LET ends[i \in 0 .. Len(ss)] ==
            IF i = 0 THEN {st} ELSE UNION {Run(ss[i], next, walk) : next \in ends[i - 1]}
    IN  ends[Len(ss)]

RunSeq[n \in 0 .. MaxDepth] ==
    [ss \in Body[n] |-> [st \in Runs |->
        IF n = 0 THEN {st} ELSE RunBody(ss, st, RunSeq[n - 1])]]

-----------------------------------------------------------------------------
VARIABLES function,  \* the function
          verdict,   \* "none", "accepted" or "refused"
          faulty     \* some run of it uses a moved variable

movedVars == <<function, verdict, faulty>>

MovedInit(bodies) ==
    /\ function \in bodies
    /\ verdict = "none"
    /\ faulty = FALSE

\* check_moved_use, and then every run.
CheckMovedUse ==
    /\ verdict = "none"
    /\ LET end == CheckSeq[MaxDepth][function][[moved |-> {}, refused |-> FALSE]]
       IN  verdict' = IF end.refused THEN "refused" ELSE "accepted"
    /\ faulty' = \E end \in RunSeq[MaxDepth][function][Start] : end.used
    /\ UNCHANGED function

MovedSpec == MovedInit(Body[MaxDepth]) /\ [][CheckMovedUse]_movedVars

-----------------------------------------------------------------------------
\* A statement and those inside it, each with whether the body of a loop is around it.
PartsOf(s, parts) ==
    {[s |-> s, looped |-> FALSE]}
    \union CASE s.k = "if"   -> parts[s.then] \union parts[s.orelse]
             [] s.k = "loop" -> {[s |-> p.s, looped |-> TRUE] : p \in parts[s.body]}
                                \union parts[s.orelse]
             [] OTHER        -> {}

Parts[n \in 0 .. MaxDepth] ==
    [ss \in Body[n] |->
        IF n = 0 THEN {} ELSE UNION {PartsOf(ss[i], Parts[n - 1]) : i \in DOMAIN ss}]

\* Where the visitor sees what a run does: no augmented assignment, no assignment that
\* reads its own target, and no loop whose body moves or assigns anything.
Seen(parts) ==
    \A p \in parts :
        /\ p.s.k # "augment"
        /\ p.s.k = "assign" => p.s.t \notin p.s.reads
        /\ p.looped => p.s.k \notin {"move", "assign"}

\* And where it sees no more than that: no return in the middle, no annotated move, and
\* no move of a variable to itself, which operator= ignores.
NoMore(parts) ==
    \A p \in parts :
        /\ p.s.k # "return"
        /\ p.s.k = "move" => ~p.s.ann /\ p.s.t # p.s.r

(* A function that passes the check never uses a moved variable, whichever *)
(* branches it takes, and one that fails it has a run that does; both on   *)
(* the functions the visitor can see through (check_moved_use).            *)
CheckIsExact ==
    LET parts == Parts[MaxDepth][function]
    IN  Seen(parts) =>
            /\ verdict = "accepted" => ~faulty
            /\ verdict = "refused" /\ NoMore(parts) => faulty
=============================================================================
