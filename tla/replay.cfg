SPECIFICATION Spec
CONSTANTS
    replayWindowWords = 3
    WordBits = 3
    MaxCounter = 13
INVARIANTS BitmapExact
PROPERTY ImplementsFilter
