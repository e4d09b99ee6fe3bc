SPECIFICATION GameSpec
CONSTANTS
    N = 2
INVARIANTS ScoreAccountsForTiles OverMeansStuck LineByRules
