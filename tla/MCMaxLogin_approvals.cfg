SPECIFICATION Spec
CONSTANTS
    Null = Null
    window1 = window1
    window2 = window2
    browser = browser
    anna = anna
    boris = boris
    phone = phone
    account1 = account1
    account2 = account2
    request1 = request1
    request2 = request2
    Browsers = {window1, window2}
    SessionOf <- MCSessionOf
    Users = {anna, boris}
    Contacts = {phone}
    Accounts = {account1, account2}
    ContactOf <- MCContactOf
    Known <- MCKnown
    Linked <- MCLinked
    Requests = {request1, request2}
    Limit = 2
    MaxUpdates = 2
    MaxUnmarked = 1
    MaxEvents = 1
SYMMETRY MCSymmetry
INVARIANTS
    OneLoginPerApproval
    UpdatesTakeEffect
PROPERTY DecisionsStand
CHECK_DEADLOCK FALSE
