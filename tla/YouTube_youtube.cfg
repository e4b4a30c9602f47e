\* Two shares a minute of two steps, and two starts that make a token.
CONSTANTS
    Worker = {w1, w2}
    SHARE_PER_MINUTE = 2
    MINUTE = 2
    MaxStarts = 2
    MaxTime = 3
SYMMETRY Symmetry
SPECIFICATION Spec
INVARIANTS LayersBalanced AnswersAsStarted RefusedEitherWay SharesAsOffered RateHolds
