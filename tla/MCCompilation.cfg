SPECIFICATION Spec
CONSTANTS
    IntBits = 8
    OverflowBuiltins = FALSE
    DoubleBits = 6
    MaxDepth = 6
    MaxIterations = 4
    Options <- AllOptions
    KnownDifferent <- KnownToDiffer
    KnownInstalledAgain <- KnownToInstallAgain
    Checks <- StageChecks
    Compiled <- StageCompiled
    Lowered <- StageLowered
    Promoted <- StagePromoted
    Verifies <- StageVerifies
    Passes <- DefaultPipeline
    AfterPass <- StageAfterPass
    Agree <- StageAgree
    Translated <- StageTranslated
    Machine <- NewMachine
    Executed <- StageExecuted
    Programs <- MCPrograms
INVARIANTS SameBehaviour Accepted LeftClean HandledOnce Sound
CHECK_DEADLOCK FALSE
