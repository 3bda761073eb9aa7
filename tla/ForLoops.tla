------------------------------- MODULE ForLoops -------------------------------
(***************************************************************************)
(* The for loops that are emitted as counting loops (host/emit/            *)
(* loops_emit.py): a list, reversed(list), enumerate of either, and        *)
(* range, against the iterator protocol of the Python reference, with a    *)
(* body that may change the list, bind its name to another list, change    *)
(* the variables the call was made with, or assign the loop variable.      *)
(*                                                                         *)
(* One state is one moment of both executions: the C++ loop's counter and  *)
(* the Python iterator's position.  A round runs both loop heads; the body *)
(* then runs once, for both, and the C++ loop steps at its end.            *)
(***************************************************************************)
EXTENDS Integers, Sequences

CONSTANTS MaxLen,    \* bound: length of the list
          MaxEdits,  \* bound: changes the body makes
          Bounds,    \* the values of start, stop and step
          MaxInt     \* the C++ int holds -MaxInt - 1 .. MaxInt

CppInts == -MaxInt - 1 .. MaxInt

\* __len__ and the variables of a range are ints.
ASSUME LoopAssumption ==
    /\ MaxInt \in Nat
    /\ MaxLen \in 0 .. MaxInt
    /\ MaxEdits \in Nat
    /\ Bounds \subseteq CppInts

Enumerates == {"enumerate", "enumerate_reversed"}
Forms == {"list", "reversed", "range"} \union Enumerates

VARIABLES loop,   \* which loop it is
          len,    \* the length of the list the name stands for; an item is known by its index
          rng,    \* [start, stop, step]: the variables of range, and start of enumerate
          cpp,    \* the C++ loop: counter, rounds, last item, still in it, counting down
          py,     \* the Python iterator: the same, over the list and the numbers it keeps
          body,   \* the body runs
          edits   \* how often the body changed something, and what; a C++ int wrapped

loopVars == <<loop, len, rng, cpp, py, body, edits>>

\* The item at an index, or what indexing past the end does.
Item(i) == IF 0 <= i /\ i < len THEN i ELSE "IndexError"

-----------------------------------------------------------------------------
(* The emitted loop *)

\* Where the header starts to count.
CppStart(f, n, r) ==
    CASE f = "reversed" -> n - 1
      [] f = "range"    -> r.start
      [] OTHER          -> 0

(* A wrong variant of the definition below, a mistake the code could have    *)
(* made: the property of this module tells it from the real one.             *)

\* A reversed loop stops before the first item.
CppTestShort(i) ==
    CASE loop = "reversed" -> i > 0
      [] loop = "range"    -> IF cpp.down THEN i > rng.stop ELSE i < rng.stop
      [] OTHER             -> i < len

\* The length and the stop are read in every round, the step's sign before the first.
CppTest(i) ==
    CASE loop = "reversed" -> i >= 0
      [] loop = "range"    -> IF cpp.down THEN i > rng.stop ELSE i < rng.stop
      [] OTHER             -> i < len

Wrapped(i) == ((i + MaxInt + 1) % (2 * MaxInt + 2)) - MaxInt - 1

\* The start of an enumerate is evaluated again in every round.
CppItem(i) ==
    CASE loop = "enumerate_reversed" -> <<Wrapped(rng.start + i), Item(len - 1 - i)>>
      [] loop = "enumerate"          -> <<Wrapped(rng.start + i), Item(i)>>
      [] loop = "range"              -> <<i>>
      [] OTHER                       -> <<Item(i)>>

CppNext(i) ==
    CASE loop = "reversed" -> i - 1
      [] loop = "range"    -> i + rng.step
      [] OTHER             -> i + 1

\* emit_range_len_expr
RangeLen(r) ==
    LET n == IF r.step > 0 THEN r.stop - r.start ELSE r.start - r.stop
    IN  IF n <= 0 THEN 0
        ELSE IF r.step > 0 THEN (n + r.step - 1) \div r.step
        ELSE (n - r.step - 1) \div (-r.step)

-----------------------------------------------------------------------------
(* The Python reference: a list iterator checks the length when it moves, a reversed one   *)
(* starts at the length it found; both keep the list, an enumerate its start and a range    *)
(* the three numbers it was made from.                                                      *)

\* The length of the list the iterator keeps.
Held == IF edits.rebound THEN py.held ELSE len

PyHas(p) ==
    CASE loop \in {"reversed", "enumerate_reversed"} -> 0 <= p.at /\ p.at < Held
      [] loop = "range" -> IF p.of.step < 0 THEN p.at > p.of.stop ELSE p.at < p.of.stop
      [] OTHER          -> p.at < Held

PyItem(p) == IF loop \in Enumerates THEN <<p.of.start + p.got, p.at>> ELSE <<p.at>>

PyNext(p) ==
    CASE loop \in {"reversed", "enumerate_reversed"} -> p.at - 1
      [] loop = "range" -> p.at + p.of.step
      [] OTHER          -> p.at + 1

PyStart(f, n, r) ==
    CASE f \in {"reversed", "enumerate_reversed"} -> n - 1
      [] f = "range" -> r.start
      [] OTHER       -> 0

-----------------------------------------------------------------------------
LoopInit ==
    /\ loop \in Forms
    /\ len \in 0 .. MaxLen
    /\ rng \in [start : Bounds, stop : Bounds, step : Bounds \ {0}]
    /\ loop # "range" => rng.stop = 0 /\ rng.step = 1
    /\ loop \notin Enumerates \union {"range"} => rng.start = 0
    /\ cpp = [at |-> CppStart(loop, len, rng), got |-> 0, item |-> <<>>, on |-> TRUE,
              down |-> rng.step < 0]
    /\ py = [at |-> PyStart(loop, len, rng), got |-> 0, item |-> <<>>, on |-> TRUE,
             of |-> rng, held |-> 0]
    /\ body = FALSE
    /\ edits = [n |-> 0, grew |-> FALSE, shrank |-> FALSE, rebound |-> FALSE, bound |-> FALSE,
                assigned |-> FALSE, wrapped |-> FALSE]

\* Both heads run: each delivers an item, or leaves its loop for good.
Heads ==
    /\ ~body /\ cpp.on /\ py.on
    /\ cpp' = IF CppTest(cpp.at)
              THEN [cpp EXCEPT !.item = CppItem(cpp.at), !.got = @ + 1]
              ELSE [cpp EXCEPT !.on = FALSE, !.item = <<>>]
    /\ py' = IF PyHas(py)
             THEN [py EXCEPT !.item = PyItem(py), !.got = @ + 1, !.at = PyNext(py)]
             ELSE [py EXCEPT !.on = FALSE, !.item = <<>>]
    /\ body' = (cpp'.on /\ py'.on)
    /\ edits' = [edits EXCEPT !.wrapped =
                    @ \/ (loop \in Enumerates /\ body' /\ rng.start + cpp.at \notin CppInts)]
    /\ UNCHANGED <<loop, len, rng>>

MayEdit == body /\ edits.n < MaxEdits /\ UNCHANGED <<loop, body>>

Grow ==
    /\ MayEdit /\ loop # "range" /\ len < MaxLen
    /\ len' = len + 1
    /\ edits' = [edits EXCEPT !.n = @ + 1, !.grew = TRUE]
    /\ UNCHANGED <<rng, cpp, py>>

Shrink ==
    /\ MayEdit /\ loop # "range" /\ len > 0
    /\ len' = len - 1
    /\ edits' = [edits EXCEPT !.n = @ + 1, !.shrank = TRUE]
    /\ UNCHANGED <<rng, cpp, py>>

\* The name is bound to another list: the header and the item read the name in every round.
Rebind ==
    /\ MayEdit /\ loop # "range"
    /\ len' \in 0 .. MaxLen
    /\ py' = [py EXCEPT !.held = Held]
    /\ edits' = [edits EXCEPT !.n = @ + 1, !.rebound = TRUE]
    /\ UNCHANGED <<rng, cpp>>

\* A variable of the call is changed.  The start of a range is read once, before the loop.
SetBound ==
    /\ MayEdit
    /\ \E field \in {"start", "stop", "step"}, v \in Bounds :
          /\ loop = "range" \/ (loop \in Enumerates /\ field = "start")
          /\ rng' = [rng EXCEPT ![field] = v]
          /\ edits' = [edits EXCEPT !.n = @ + 1,
                                    !.bound = @ \/ loop # "range" \/ field # "start"]
    /\ UNCHANGED <<len, cpp, py>>

\* The loop variable of a range is the C++ counter: the body assigns it, or a range loop in
\* the body takes the same name.  Every other loop counts in a variable of its own.
AssignTarget ==
    /\ MayEdit /\ loop = "range"
    /\ \E v \in Bounds : cpp' = [cpp EXCEPT !.at = v]
    /\ edits' = [edits EXCEPT !.n = @ + 1, !.assigned = TRUE]
    /\ UNCHANGED <<len, rng, py>>

\* The body is done, and the C++ loop steps, by what the step is now.
EndBody ==
    /\ body /\ body' = FALSE
    /\ cpp' = [cpp EXCEPT !.at = Wrapped(CppNext(@))]
    /\ edits' = [edits EXCEPT !.wrapped = @ \/ CppNext(cpp.at) \notin CppInts]
    /\ UNCHANGED <<loop, len, rng, py>>

LoopNext == Heads \/ Grow \/ Shrink \/ Rebind \/ SetBound \/ AssignTarget \/ EndBody

LoopSpec == LoopInit /\ [][LoopNext]_loopVars

\* What the body may do to the loop it is in without being noticed.
Harmless ==
    /\ ~edits.rebound /\ ~edits.bound /\ ~edits.assigned /\ ~edits.wrapped
    /\ loop \in {"reversed", "enumerate_reversed"} => ~edits.shrank
    /\ loop = "enumerate_reversed" => ~edits.grew

\* A counting loop delivers the items the Python iterator delivers and ends when it ends,
\* as long as the list's name is not bound to another list, the variables the call was made
\* with stand (the start of a range may change), no int wraps and the body does not assign
\* the loop variable of a range: over a list whatever the body appends and pops, over a
\* reversed one as long as nothing is popped, over an enumerated reversed one as long as
\* the length stands; and len of a range is the number of its rounds
\* (_emit_index_for_loop, emit_native_range_loop, emit_range_len_expr).
CountingLoopsFollowTheIterator ==
    Harmless =>
        /\ cpp.on = py.on /\ cpp.item = py.item
        /\ loop = "range" /\ ~cpp.on => cpp.got = RangeLen(py.of)
=============================================================================
