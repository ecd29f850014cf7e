\* One search after the other over three tools, beside a reader of the
\* preferences, two edits of the preferences and one change of the catalog.
SPECIFICATION MCSpec
CONSTANTS
    Tools = {1, 2, 3}
    Contracts <- MCContracts
    Queries <- MCQueries
    Limits = {1, 2}
    CandidateDepth = 1
    RRFK = 60
    Unit <- MCUnit
    MinVectorSimilarity = 1
    RuleSpecs <- MCRules
    Profiles = {"p"}
    MaxEdits = 2
    MaxChanges = 1
    Levels = {0, 1}
INVARIANTS
    NothingRelevantMissed
    RevisionNamesRules
    ConflictsAreReviewed
