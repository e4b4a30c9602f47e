\* One boot, with any number of visits to the menu and flips of the setting, and every answer of
\* up to two releases.
CONSTANTS
    LOOKUP_TRIES = 4
    Runs = 3
    Version <- MCVersion
    running <- MCrunning
SPECIFICATION CheckFairSpec
INVARIANT OfferedIsPublished
PROPERTIES AnswerStands InterruptedRunsAgain CheckEnds
