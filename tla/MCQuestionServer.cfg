SPECIFICATION Spec
CONSTANTS
    MaxBuilds = 3
    MaxSaves = 2
    NoDb = NoDb
    NoFacts = NoFacts
    NoAnswer = NoAnswer
    Failure = Failure
INVARIANTS AnswersAreCurrent FactsAreOfTheOpenDatabase ClientKnowsOrIsTold
PROPERTIES TheListSettlesIfStamped
CHECK_DEADLOCK FALSE
