\* What the README (section 6) reports: each of these properties ends in a
\* counterexample. One is active; for another one put its name in the last
\* line, as INVARIANT or as PROPERTY, and change the constants named here.
\*   INVARIANT NoGap
\*   PROPERTY  EndIsShown: StreamBuffer = 2
\*   INVARIANT OverIsComplete
\*   INVARIANT NoSendOnClosed
\*   INVARIANT FramesInOrder
\*   PROPERTY  EveryStreamEnds
SPECIFICATION FairStreamSpec
CONSTANTS
  Producers = {p, q}
  Loop = p
  Timers = {t}
  Closer = Closer
  Subscribers = {s}
  MaxCoalesce = 2
  StreamBuffer = 2
  MaxSubscribers = 1
  MaxEmitted = 3
CHECK_DEADLOCK FALSE
INVARIANT NoGap
