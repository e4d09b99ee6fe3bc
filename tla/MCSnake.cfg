SPECIFICATION FairSpec
CONSTANTS
    Cols = 4
    Rows = 2
    HeadX = 3
    HeadY = 0
INVARIANTS BodyIsPath ScoreCountsFood FoodIsFree
PROPERTIES NeckIsSafe TimerRests
