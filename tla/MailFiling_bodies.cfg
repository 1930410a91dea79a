CONSTANTS
    m1 = m1
    m2 = m2
    inbox = inbox
    archive = archive
    other = other
    w1 = w1
    NoFolder = NoFolder
    Nowhere = Nowhere
    Mail <- TwoMails
    Folders <- TwoFolders
    Inbox = inbox
    Destination <- ToArchive
    Recommendable <- OneMail
    Passes <- CoreOnly
    Workers <- OneWorker
    MaxAttempts = 2
    MaxUid = 2
    MoveBudget = 1
    FaultBudget = 1
SPECIFICATION FairSpec
INVARIANTS TypeOK DoneHasBody
PROPERTIES BodyArrives
