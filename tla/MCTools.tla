-------------------------------- MODULE MCTools --------------------------------
(***************************************************************************)
(* The programs written in Python: the command bus of the editor with the  *)
(* editor on top, the incremental build of the run time, and four passes   *)
(* of the translator, each over a set of programs.  The initial state      *)
(* chooses the subject; the others are left alone.                         *)
(***************************************************************************)
EXTENDS Editor, BootstrapBuild, ForLoops, MovedPrograms, FlowPrograms, TLC

VARIABLES
  subject,
  genBody, genPy, genCode, genCpp

genVars == <<genBody, genPy, genCode, genCpp>>
toolsVars == <<subject, editorVars, buildVars, flowVars, loopVars, movedVars, genVars>>

SmallInts == -2 .. 2

Gen == INSTANCE GenPrograms WITH
  MaxYields <- 5, MaxSteps <- 80,
  body <- genBody, py <- genPy, code <- genCode, cpp <- genCpp

SampleScene ==
    <<NewRow("root", 0), [NewRow("player", 1) EXCEPT !.comps["JumpMotor"] = "tuned"]>>

\* A text with two objects that have no name of their own.
NamelessScene == <<NewRow("root", 0), NewRow("new", 1), NewRow("new", 1)>>

SampleScenes == {SampleScene, NamelessScene}

NewNames(n) == IF n = 1 THEN "new" ELSE "player"

TopOf == ("list" :> "lib") @@ ("mixin" :> "lib")

(* Whoever is not the subject has one initial state.                         *)
ToolsInit ==
    /\ subject \in {"editor", "build", "flow", "loops", "moved", "generator"}
    /\ EditorInit /\ BuildInit
    /\ FlowInit(IF subject = "flow" THEN FlowSet ELSE {<<>>})
    /\ LoopInit /\ (subject # "loops" => loop = "list" /\ len = 0)
    /\ MovedInit(IF subject = "moved" THEN BodySet ELSE {<<>>})
    /\ IF subject = "generator" THEN Gen!GenInit(Gen!ProgramSet, Gen!Bits)
       ELSE Gen!GenInit({<<>>}, {<<>>})

ToolsNext ==
    /\ UNCHANGED subject
    /\ \/ /\ subject = "editor" /\ EditorNext
          /\ UNCHANGED <<buildVars, flowVars, loopVars, movedVars, genVars>>
       \/ /\ subject = "build" /\ BuildNext
          /\ UNCHANGED <<editorVars, flowVars, loopVars, movedVars, genVars>>
       \/ /\ subject = "flow" /\ FlowNext
          /\ UNCHANGED <<editorVars, buildVars, loopVars, movedVars, genVars>>
       \/ /\ subject = "loops" /\ LoopNext
          /\ UNCHANGED <<editorVars, buildVars, flowVars, movedVars, genVars>>
       \/ /\ subject = "moved" /\ CheckMovedUse
          /\ UNCHANGED <<editorVars, buildVars, flowVars, loopVars, genVars>>
       \/ /\ subject = "generator" /\ Gen!GenNext
          /\ UNCHANGED <<editorVars, buildVars, flowVars, loopVars, movedVars>>

ToolsSpec == ToolsInit /\ [][ToolsNext]_toolsVars

-----------------------------------------------------------------------------
(* Generators: the state machine follows the Python generator, but for the   *)
(* combinations that Generators names.                                       *)
CleanGeneratorsFollowPython == Gen!CleanGeneratorsFollowPython

(* The documented rule: generators have Python's semantics.                  *)
GeneratorsFollowPython == Gen!GeneratorsFollowPython
=============================================================================
