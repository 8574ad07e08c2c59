\* Three calls over one connection; retries are limited to one.
CONSTANTS
    get = get
    post = post
    odd = odd
    Calls = {get, post, odd}
    Gets = {get, odd}
    Propagating = {post}
    RetryGiven = {get, post, odd}
    RetryCount <- MCRetryCount
    DefaultRetries = 0
    MaxRetries = 1
    MaxConnections = 1
SPECIFICATION FairSpec
INVARIANTS
    TypeOK
    WritesHappenOnce
    GivesUpLast
    AnswersAreEarned
PROPERTIES
    EveryCallReturns
    EverySendEnds
    RefinesRemoteCall
