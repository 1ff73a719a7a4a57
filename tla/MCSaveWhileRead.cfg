\* A save lands while a child is reading, and the child stamps it as read.
CONSTANTS
    api = api
    web = web
    main = main
    handler = handler
    helper = helper
    model = model
    packages = packages
    around = around
    conf0 = conf0
    watcher = watcher
    cli = cli
    absent = absent
    none = none
    Services = {api}
    Files <- TwoFiles
    Installed = packages
    Around = around
    Config = conf0
    Last <- LastTwo
    Text <- TextTwo
    Missing = absent
    Incremental <- MCIncremental
    Global <- MCGlobal
    Importers <- MCImporters
    None = none
    Builders = {cli}
    Watchers = {}
    StandIns = {}
    Selections <- MCAll
    MayIgnoreCache = FALSE
    MayFail = FALSE
    MayThrow = FALSE
    DiesReplacing = FALSE
    MayCrash = FALSE
    MayDrop = {}
    SavesWhileRead = TRUE
SPECIFICATION Spec
INVARIANTS
    QuietBuildDescribesTheSources
