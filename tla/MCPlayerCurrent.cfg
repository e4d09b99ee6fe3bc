SPECIFICATION Spec
CONSTANTS
    NumVideos = 3
    MaxTokens = 2
INVARIANT PlayingIsCurrent
