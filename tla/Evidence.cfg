\* A root run and a child; five events, one of them recorded wrongly.
CONSTANTS
  root = root
  child = child
  Resources = {root, child}
  Root = root
  MaxEvents = 5
  MaxDeviations = 1
SPECIFICATION Spec
INVARIANT TypeOK
INVARIANT CompleteIsTheWholeStory
INVARIANT WholeIsComplete
INVARIANT CutIsReadable
INVARIANT TransportIsTheLastWord
CHECK_DEADLOCK FALSE
