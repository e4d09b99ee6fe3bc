SPECIFICATION FairSpec
CONSTANTS
    NumVideos = 3
    MaxTokens = 2
INVARIANTS IndexInList AudioInStep SleeperHasToken
PROPERTIES ResumeWakes
