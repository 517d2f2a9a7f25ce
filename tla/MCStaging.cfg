CONSTANTS
    main = main
    debug = debug
    lib = lib
    app = app
    Repos = {main, debug}
    Templates = {lib, app}
    Makes <- MCMakes
    RepoOf <- MCRepoOf
    NoRepo = NoRepo
    Versions = {1, 2}
    MaxBuilds = 3
    MaxStops = 2
SPECIFICATION Spec
CHECK_DEADLOCK FALSE
INVARIANT TypeOK
INVARIANT Findable
INVARIANT ExactIndexes
PROPERTY RepositorySpec
