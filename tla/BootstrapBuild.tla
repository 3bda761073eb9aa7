---------------------------- MODULE BootstrapBuild ----------------------------
(***************************************************************************)
(* The incremental build of the Paw run time: tools/_bootstrap_runtime.bat *)
(* asks the stamp whether to translate (host/codegen/bootstrap_stamp.py),  *)
(* the translator plans what to emit and keeps the signatures it analysed  *)
(* (bootstrap_incremental.py), and a process of its own then writes the    *)
(* stamp.  Inputs may be edited, and a build may die, at any point.        *)
(*                                                                         *)
(* Every write has an mtime of its own, so an mtime names a content.       *)
(***************************************************************************)
EXTENDS Naturals

CONSTANTS Module,    \* the library modules, and their source files
          Leaf,      \* those whose text alone asks for no full build
          Other,     \* the other inputs: templates, ffi, main.py
          Umbrella,  \* minimal.h
          Config,    \* the values of (debug, header_only)
          Torn,      \* what a stamp says whose writer died
          TopDir,    \* the first part of an input's path below the root
          MaxClock   \* bound: writes of inputs and of stamps

Input == Module \union Other
Artifact == Module \union {Umbrella}

\* The scanned directories are lib/paw, templates and ffi: no path starts with "paw".
ASSUME InputAssumption ==
    /\ TopDir \in [Input -> STRING] /\ \A f \in Input : TopDir[f] # "paw"
    /\ Leaf \subseteq Module /\ Umbrella \notin Module
    /\ Torn \notin Config /\ MaxClock \in Nat

VARIABLES clock,  \* the time of the last write
          mtime,  \* of every input
          out,    \* existing artifact -> [from, config]: what it was made of
          stamp,  \* {[config, mtime]}, or {} when there is none
          cache,  \* {[fp, sigs, raced]}: analyze_sigs.pkl, or {}
          job,    \* the running translation
          late    \* inputs that were edited while the last emission ran

buildVars == <<clock, mtime, out, stamp, cache, job, late>>

Idle == [at |-> "idle"]

-----------------------------------------------------------------------------
(* Deciding *)

Changed == {f \in Input : \E s \in stamp : mtime[f] > s.mtime}

\* should_skip_translate
ShouldSkip(c) ==
    /\ Umbrella \in DOMAIN out
    /\ \E s \in stamp : s.config = c
    /\ Changed = {}

\* A changed file that does not force a full build by itself.
LeafPath(f) == TopDir[f] = "paw" /\ f \in Leaf

\* plan_bootstrap_incremental: what is emitted besides the umbrella.
Full(forced) ==
    forced \/ stamp = {} \/ \E f \in Changed : ~LeafPath(f)
Dirty(forced) == IF Full(forced) THEN Module ELSE Changed

(* Wrong variants of the definitions below, mistakes the code could have     *)
(* made: the properties of this module tell them from the real ones.         *)

\* The fingerprint is taken of the leaf modules alone.
UsableByLeaves == {k \in cache : \A f \in Leaf : k.fp[f] = mtime[f]}

\* The stamp is written while modules are still to be emitted.
WriteStampEarly ==
    /\ job.at = "emitting" /\ clock < MaxClock
    /\ clock' = clock + 1
    /\ \E c \in {job.config, Torn} : stamp' = {[config |-> c, mtime |-> clock']}
    /\ late' = job.since \union IF job.full THEN {} ELSE late
    /\ job' = Idle
    /\ UNCHANGED <<mtime, out, cache>>

\* load_analysis_cache, when the fingerprint of the inputs is the cache's; the
\* signatures of a user's program come from there (attach_user_entry_cache_to_translator).
Usable == {k \in cache : k.fp = mtime}

\* attach_incremental_to_translator: the modules whose signatures are not analysed.
Hydrated(forced) ==
    IF Full(forced) THEN {} ELSE (UNION {DOMAIN k.sigs : k \in Usable}) \ Changed

\* store_analysis_cache: what is kept of the old file, and what is written over it.
Stored ==
    {m \in Module : job.full \/ m \in job.todo \/ m \notin job.hydrated}
Fresh == [fp |-> mtime, sigs |-> [m \in Stored |-> job.read], raced |-> job.since]
Merged(k) ==
    [fp    |-> mtime,
     sigs  |-> [m \in DOMAIN k.sigs \union Stored |->
                    IF m \in Stored THEN job.read ELSE k.sigs[m]],
     raced |-> job.since \union k.raced]
NewCache == IF job.full \/ Usable = {} THEN {Fresh} ELSE {Merged(k) : k \in Usable}

-----------------------------------------------------------------------------
BuildInit ==
    /\ clock = 0
    /\ mtime = [f \in Input |-> 0]
    /\ out = [a \in {} |-> {}]
    /\ stamp = {} /\ cache = {} /\ job = Idle /\ late = {}

\* Somebody saves an input.
Edit(f) ==
    /\ clock < MaxClock
    /\ clock' = clock + 1
    /\ mtime' = [mtime EXCEPT ![f] = clock']
    /\ job' = IF job = Idle THEN Idle ELSE [job EXCEPT !.since = @ \union {f}]
    /\ UNCHANGED <<out, stamp, cache, late>>

\* clean.bat removes out/
Clean ==
    /\ job = Idle
    /\ out' = [a \in {} |-> {}] /\ stamp' = {} /\ cache' = {}
    /\ UNCHANGED <<clock, mtime, job, late>>

\* main.py starts, unless the stamp says that nothing changed, and parses.
Translate(c, forced) ==
    /\ job = Idle /\ (forced \/ ~ShouldSkip(c))
    /\ job' = [at |-> "parsed", config |-> c, forced |-> forced, read |-> mtime,
               since |-> {}, full |-> FALSE, todo |-> {}, hydrated |-> {}]
    /\ UNCHANGED <<clock, mtime, out, stamp, cache, late>>

Plan ==
    /\ job.at = "parsed"
    /\ job' = [job EXCEPT !.at = "planned", !.full = Full(job.forced),
                          !.todo = Dirty(job.forced), !.hydrated = Hydrated(job.forced)]
    /\ UNCHANGED <<clock, mtime, out, stamp, cache, late>>

\* The signatures are stored before the last checks; a failure to write is ignored.
StoreSignatures ==
    /\ job.at = "planned"
    /\ cache' \in {cache, NewCache}
    /\ job' = [job EXCEPT !.at = "emitting", !.todo = @ \union {Umbrella}]
    /\ UNCHANGED <<clock, mtime, out, stamp, late>>

Emit(a) ==
    /\ job.at = "emitting" /\ a \in job.todo
    /\ out' = [b \in DOMAIN out \union {a} |->
                  IF b = a THEN [from |-> job.read, config |-> job.config] ELSE out[b]]
    /\ job' = [job EXCEPT !.todo = @ \ {a}]
    /\ UNCHANGED <<clock, mtime, stamp, cache, late>>

\* write_stamp, in a process of its own, once main.py has returned 0.  It opens the
\* file before it writes to it: what dies in between leaves a stamp without a content.
WriteStamp ==
    /\ job.at = "emitting" /\ job.todo = {} /\ clock < MaxClock
    /\ clock' = clock + 1
    /\ \E c \in {job.config, Torn} : stamp' = {[config |-> c, mtime |-> clock']}
    /\ late' = job.since \union IF job.full THEN {} ELSE late
    /\ job' = Idle
    /\ UNCHANGED <<mtime, out, cache>>

\* A check refuses the program, or the build is killed.
Fail ==
    /\ job # Idle
    /\ job' = Idle
    /\ UNCHANGED <<clock, mtime, out, stamp, cache, late>>

BuildNext ==
    \/ \E f \in Input : Edit(f)
    \/ Clean
    \/ \E c \in Config, forced \in BOOLEAN : Translate(c, forced)
    \/ Plan
    \/ StoreSignatures
    \/ \E a \in Artifact : Emit(a)
    \/ WriteStamp
    \/ Fail

BuildSpec == BuildInit /\ [][BuildNext]_buildVars

-----------------------------------------------------------------------------
(* A build that is skipped would have changed nothing: every artifact is   *)
(* there and was made of the inputs as they are now, however often a build *)
(* died before, whatever it had emitted by then.  What was edited while    *)
(* the last emission ran is the exception: its stamp is newer.             *)
SkippedBuildIsCurrent ==
    \A c \in Config :
        job = Idle /\ ShouldSkip(c) =>
            \A a \in Artifact :
                /\ a \in DOMAIN out
                /\ \A f \in Input \ late : out[a].from[f] = mtime[f]

(* The signatures that a user's program is translated against are those of *)
(* the modules as they are now, however the cache was merged: again but    *)
(* for what was edited between the parse and the store.                    *)
CachedSignaturesAreCurrent ==
    \A k \in Usable : \A m \in DOMAIN k.sigs : \A f \in Input \ k.raced :
        k.sigs[m][f] = mtime[f]
=============================================================================
