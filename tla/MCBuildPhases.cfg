CONSTANTS
    Main = main
    Subs = {lib}
    Autos = {dbg}
    Templates <- SomeTemplates
    Runs <- SomeRuns
    MaxKills = 1
SPECIFICATION Spec
INVARIANT TypeOK
INVARIANT CleanSentinels
INVARIANT ExtractReady
INVARIANT FreshPackages
INVARIANT SentinelSound
INVARIANT WholeWork
INVARIANT RedoneInstall
