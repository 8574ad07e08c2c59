\* One call.
CONSTANTS
    get = get
    post = post
    odd = odd
    Calls = {get}
    Gets = {get}
    Propagating = {}
    RetryGiven = {get}
    RetryCount <- MCRetryCount
    DefaultRetries = 0
    MaxRetries = 1
    MaxConnections = 1
SPECIFICATION Spec
INVARIANTS
    HttpxErrorsTranslated
