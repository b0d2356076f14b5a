SPECIFICATION FairSpec
CONSTANTS
    N = 2
    Options <- AllOptions
    Offers <- SomeOffers
    Faulty <- AllFaults
    Replies <- SomeReplies
    MaxPoll = 30
    MaxOrder = 60
INVARIANTS
    PublishedWhileWaiting NoRecordLeft FinalizedWhenReady
    SignalledIsAccepted IssuedIsDelivered PreferredIsChosen
PROPERTIES ProvesOneByOne IssuanceEnds
CHECK_DEADLOCK FALSE
