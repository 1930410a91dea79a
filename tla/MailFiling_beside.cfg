CONSTANTS
    m1 = m1
    m2 = m2
    inbox = inbox
    archive = archive
    other = other
    w1 = w1
    NoFolder = NoFolder
    Nowhere = Nowhere
    Mail <- TwoMails
    Folders <- ThreeFolders
    Inbox = inbox
    Destination <- ToArchive
    Recommendable <- OneMail
    Passes <- CoreAndBackground
    Workers <- None
    MaxAttempts = 2
    MaxUid = 2
    MoveBudget = 1
    FaultBudget = 1
SPECIFICATION InUseSpec
INVARIANTS NoMailSkipped
PROPERTIES UserPlacementKept
