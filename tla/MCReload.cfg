\* The configuration is saved between a reload and the build it is for.
CONSTANTS
    api = api
    web = web
    main = main
    handler = handler
    helper = helper
    model = model
    packages = packages
    around = around
    conf0 = conf0
    watcher = watcher
    cli = cli
    absent = absent
    none = none
    Services = {api}
    Files <- TwoFiles
    Installed = packages
    Around = around
    Config = conf0
    Last <- LastConfig
    Text <- TextConfig
    Missing = absent
    Incremental <- MCIncremental
    Global <- MCGlobal
    Importers <- MCImporters
    None = none
    Builders = {watcher}
    Watchers = {watcher}
    StandIns = {}
    Selections <- MCAll
    MayIgnoreCache = FALSE
    MayFail = FALSE
    MayThrow = FALSE
    DiesReplacing = FALSE
    MayCrash = FALSE
    MayDrop = {}
    SavesWhileRead = TRUE
SPECIFICATION Spec
INVARIANTS
    QuietBuildDescribesTheSources
