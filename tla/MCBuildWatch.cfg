\* A watch over one repository it holds open, four files, two of which are
\* saved: a save is a partial reading.  Readings and builds fail, the process
\* dies, a graph is removed, and saves land at any moment.
CONSTANTS
    api = api
    web = web
    main = main
    handler = handler
    helper = helper
    model = model
    packages = packages
    around = around
    conf0 = conf0
    watcher = watcher
    cli = cli
    absent = absent
    none = none
    Services = {api}
    Files <- FourFiles
    Installed = packages
    Around = around
    Config = conf0
    Last <- LastFour
    Text <- TextFour
    Missing = absent
    Incremental <- MCIncremental
    Global <- MCGlobal
    Importers <- MCImporters
    None = none
    Builders = {watcher}
    Watchers = {watcher}
    StandIns = {api}
    Selections <- MCAll
    MayIgnoreCache = FALSE
    MayFail = TRUE
    MayThrow = TRUE
    DiesReplacing = FALSE
    MayCrash = TRUE
    MayDrop = {api}
    SavesWhileRead = TRUE
SPECIFICATION Spec
INVARIANTS
    StampsNeverPassTheReading
    SkippedMeansCurrent
    QuietBuildDescribesTheSources
PROPERTIES
    ImplementsProjectAnswer
