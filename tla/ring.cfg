SPECIFICATION FairSpec
CONSTANTS
    Capacity = 4
    Word = 8
    PushBound = 18
INVARIANT RingInv
INVARIANT NoSlotRace
PROPERTY ImplementsFifo
PROPERTY AllPopped
PROPERTY AllPushed
