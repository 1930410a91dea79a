CONSTANTS
    m1 = m1
    m2 = m2
    m3 = m3
    NoMail = NoMail
    Mail <- ThreeMails
    Blank <- OneBlank
    Batch = 2
    MaxUid = 3
    MaxValidity = 2
    ChangeBudget = 4
    FaultBudget = 1
SPECIFICATION Spec
INVARIANTS TypeOK NoMailSkipped RowsNameTheirMail
PROPERTIES FullPassRecovers
