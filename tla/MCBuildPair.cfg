\* A watch over a repository it holds open and one it reads in a child, read at
\* once: one of them is missing its graph, fails or is abandoned.  A file is
\* saved in each, and the configuration.
CONSTANTS
    api = api
    web = web
    main = main
    handler = handler
    helper = helper
    model = model
    packages = packages
    around = around
    conf0 = conf0
    watcher = watcher
    cli = cli
    absent = absent
    none = none
    Services = {api, web}
    Files <- TwoFiles
    Installed = packages
    Around = around
    Config = conf0
    Last <- LastBoth
    Text <- TextBoth
    Missing = absent
    Incremental <- MCIncremental
    Global <- MCGlobal
    Importers <- MCImporters
    None = none
    Builders = {watcher}
    Watchers = {watcher}
    StandIns = {}
    Selections <- MCAll
    MayIgnoreCache = FALSE
    MayFail = TRUE
    MayThrow = FALSE
    DiesReplacing = FALSE
    MayCrash = FALSE
    MayDrop = {web}
    SavesWhileRead = FALSE
SPECIFICATION Spec
PROPERTIES
    CompleteStaysComplete
    ImplementsProjectAnswer
