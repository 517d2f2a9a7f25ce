CONSTANTS
    Names = {"a", "b", "t"}
    Toolchain = "t"
    Graphs <- AllGraphs
    NoBuild = NoBuild
SPECIFICATION MCSpec
INVARIANT TypeOK
INVARIANT NoReentry
INVARIANT NoRebuild
INVARIANT DepsReady
INVARIANT WorldExact
INVARIANT RepoClosed
INVARIANT NativeLoopsReal
INVARIANT NativeStateIntact
PROPERTY Termination
