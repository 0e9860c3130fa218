SPECIFICATION FairSpec
CONSTANT StartDurations <- QuickAndSlow
CHECK_DEADLOCK FALSE
INVARIANT LoopInv
INVARIANT NoOrphan
INVARIANT CrashBudget
INVARIANT EndsForAReason
PROPERTY OneTailscaled
PROPERTY ImplementsContract
PROPERTY Recovers
