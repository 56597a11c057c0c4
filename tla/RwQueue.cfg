\* Four goroutines: two readers that overlap, a writer they keep waiting, and
\* one more of either kind that arrives behind it.
SPECIFICATION FairQueue
CONSTANT Goroutines = {g1, g2, g3, g4}
INVARIANT CountsExact
INVARIANT NoLostWakeup
PROPERTY WriterNotOvertaken
PROPERTY CancelReturns
PROPERTY Served
PROPERTY Implements
