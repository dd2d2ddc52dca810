CONSTANTS
    t1 = t1
    Turns = {t1}
    MaxRetries = 5
    MaxChunks = 3
SPECIFICATION FairSpec
CHECK_DEADLOCK FALSE
INVARIANTS
    TypeOK OneGeneration TruncatedIsFlagged EpisodeHoldsWhatWasShown DoneAfterCapture ErrorLeavesNothing
PROPERTIES
    NothingLeaks ImplementsContract
