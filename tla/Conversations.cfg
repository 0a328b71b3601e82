SPECIFICATION FairSpec
CONSTANTS
    t1 = t1
    t2 = t2
    Tabs <- TwoTabs
    MaxConversations = 3
    Limit = 2
    MaxMessages = 2
    MaxTries = 3
    MaxAnswers = 2
    MaxEvents = 1
INVARIANTS OneAnswerEach ShowsStored
PROPERTIES HistoryStays EveryAnswerSettles
CHECK_DEADLOCK FALSE
