\* One search after the other over three tools, beside a reader of the
\* preferences, an edit of the preferences and a change of a contract.
SPECIFICATION MCSpec
CONSTANTS
    Tools = {1, 2, 3}
    Contracts <- MCContracts
    Queries <- MCQueries
    Limits = {1, 2}
    CandidateDepth = 1
    RRFK = 60
    Unit <- MCUnit
    MinVectorSimilarity = 1
    RuleSpecs <- MCRules
    Profiles = {"p"}
    MaxEdits = 1
    MaxChanges = 1
    Levels = {0, 1}
INVARIANT
    StaleRulesAreReviewed
