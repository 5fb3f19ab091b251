SPECIFICATION FairSpec
CONSTANT N = 3
INVARIANT BodiesAreAccountedFor
INVARIANT SerialBarrier
PROPERTY StopStartsNothing
PROPERTY ImplementsResults
PROPERTY StoppedBatchEnds
CHECK_DEADLOCK FALSE
