\* The five networks of MCStp, with the changes of carrier and the losses each allows.
SPECIFICATION FairSpec
CONSTANTS
    Networks <- AllFive
INVARIANTS LoopFree NoBlackhole Agreed RootStaysInside
PROPERTY Converges
