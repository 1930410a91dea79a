----------------------------- MODULE MCMailFiling -----------------------------
(* Instances of MailFiling for TLC. *)
EXTENDS MailFiling

CONSTANTS m1, m2, inbox, archive, other, w1

OneMail == {m1}
TwoMails == {m1, m2}
ThreeFolders == {inbox, archive, other}
TwoFolders == {inbox, archive}
ToArchive == [m \in Mail |-> archive]
None == {}
CoreOnly == {"core"}
CoreAndBackground == {"core", "background"}
OneWorker == {w1}

\* A mailbox in use, as a first full pass, its drain and the locate pass leave it: one
\* message is synced, has its body and is recommended to another folder.
InUse(m, spot) ==
    /\ at = [o \in Mail |-> IF o = m THEN spot ELSE Nowhere]
    /\ next = [f \in Folders |-> IF f = spot.folder THEN spot.uid + 1 ELSE 1]
    /\ position = at
    /\ pin = [o \in Mail |-> NoFolder] /\ locked = {}
    /\ bodied = {m} /\ recommended = {m}
    /\ cursor = [f \in Folders |-> IF f = spot.folder THEN spot.uid ELSE 0]
    /\ jobs = [s \in Spots |-> IF s = spot THEN [status |-> "done", attempt |-> 1]
                                           ELSE [status |-> "absent", attempt |-> 0]]
    /\ pass = [p \in Passes |-> NoPass]
    /\ worker = [w \in Passes \X Workers |-> NoWork]
    /\ filing = NoFiling
    /\ placed = [o \in Mail |-> NoFolder]
    /\ unrecorded = {} /\ moves = 0 /\ faults = 0

InUseSpec == InUse(m1, [mail |-> m1, folder |-> inbox, uid |-> 1]) /\ [][Next]_vars
==============================================================================
