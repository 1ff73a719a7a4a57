\* --service builds one repository and writes the cache for both.
CONSTANTS
    api = api
    web = web
    main = main
    handler = handler
    helper = helper
    model = model
    packages = packages
    around = around
    conf0 = conf0
    watcher = watcher
    cli = cli
    absent = absent
    none = none
    Services = {api, web}
    Files <- TwoFiles
    Installed = packages
    Around = around
    Config = conf0
    Last <- LastTwo
    Text <- TextTwo
    Missing = absent
    Incremental <- MCIncremental
    Global <- MCGlobal
    Importers <- MCImporters
    None = none
    Builders = {cli}
    Watchers = {}
    StandIns = {}
    Selections <- MCSelections
    MayIgnoreCache = FALSE
    MayFail = FALSE
    MayThrow = FALSE
    DiesReplacing = FALSE
    MayCrash = FALSE
    MayDrop = {}
    SavesWhileRead = FALSE
SPECIFICATION Spec
INVARIANTS
    QuietBuildDescribesTheSources
