SPECIFICATION FairSpec
CONSTANTS
    None = None
    Replies <- SomeReplies
    Delays <- SomeDelays
    Polls <- SomePolls
    Expected <- Hit
    QueryId = 7
INVARIANTS ReadsInBounds AnswerIsDecoded OverrunBounded
PROPERTIES PollEnds
CHECK_DEADLOCK FALSE
