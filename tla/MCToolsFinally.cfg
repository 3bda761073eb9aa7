CONSTANTS
    Setting = {"moved"}
    Kind = {"MeshComponent", "JumpMotor"}
    Name = {"root", "player", "new"}
    NoName = "-"
    RootName = "root"
    FirstSelected = "player"
    SampleFile <- SampleScene
    Files <- SampleScenes
    NewName <- NewNames
    MaxRows = 3
    MaxTouched = 2
    Module = {"list", "mixin"}
    Leaf = {"list"}
    Other = {}
    Umbrella = "minimal.h"
    Config = {"release", "debug"}
    Torn = "torn"
    TopDir <- TopOf
    MaxClock = 3
    MaxLen = 3
    MaxEdits = 2
    Bounds <- SmallInts
    MaxInt = 3
    Exc = {"A", "B"}
    Value = {"a", "b", "e", "h", "r", "z", "finally", "outer"}
    Manager = {"m", "n"}
    MaxNest = 4
    Var = {"a", "b"}
    MaxDepth = 2
    MaxRounds = 2
\* A translation ends with its program, a generator with its last statement.
CHECK_DEADLOCK FALSE
SPECIFICATION ToolsSpec
INVARIANT FinallyRunsOnce
