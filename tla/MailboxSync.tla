----------------------------- MODULE MailboxSync -----------------------------
(***************************************************************************)
(* The passes that bring one folder of the server into the emails table,   *)
(* across the events that renumber or empty the folder: UIDVALIDITY        *)
(* changes, gaps in the UIDs, expunged and unreadable messages, and a pass *)
(* that dies between two of its statements.                                *)
(*                                                                         *)
(* Kinds of pass: "full" is the core's SyncFull item, which first forgets  *)
(* the cursors; "plain" is the CLI's `sync`; "account" the incremental     *)
(* pass of core and of the background loop; "once" the CLI's               *)
(* `sync-incremental`; "window" `sync-window`; "orphans"                   *)
(* `resolve-orphans`.  Here they run one after the other: MailFiling has   *)
(* concurrent passes over several folders whose UIDVALIDITY stays.         *)
(*                                                                         *)
(* A recreated mailbox begins empty with a new UIDVALIDITY.  The folders   *)
(* of the account other than this one are the set elsewhere.               *)
(***************************************************************************)
EXTENDS Integers, FiniteSets

CONSTANTS Mail, NoMail,
          Blank,            \* messages whose header has no Message-ID
          Batch,            \* BATCH_SIZE, and SLOW_SYNC's chunk
          MaxUid, MaxValidity, ChangeBudget, FaultBudget   \* bounds, for TLC

ASSUME MailAssumption == Mail # {} /\ Blank \subseteq Mail /\ NoMail \notin Mail
ASSUME BatchAssumption == Batch \in Nat \ {0}
ASSUME LimitAssumption ==
    MaxUid \in Nat \ {0} /\ MaxValidity \in Nat \ {0} /\ ChangeBudget \in Nat /\ FaultBudget \in Nat

VARIABLES validity, box, next, elsewhere, mod,      \* the server
          stored, cursor, modseq,                   \* the imap_folders row
          place, seen, deleted, missing,            \* emails, emails_missing_message_id
          pass,
          origin,                                   \* history: who had each UID
          torn,                                     \* history: see Tears
          changes, faults

serverVars == <<validity, box, next, elsewhere, mod, origin>>
folderVars == <<stored, cursor, modseq>>
emailVars == <<place, seen, deleted, missing>>
vars == <<serverVars, folderVars, emailVars, pass, torn, changes, faults>>

Uids == 1 .. MaxUid
Validities == 1 .. MaxValidity
Mods == 0 .. ChangeBudget
NoCursor == -1                       \* last_synced_uid IS NULL; 0 stands for any other NULL
Envelopes == [uid : Uids, mail : Mail]

Unknown == [at |-> "unknown"]        \* no row
Orphan == [at |-> "nowhere"]         \* location IS NULL
Away == [at |-> "elsewhere"]
Spot(v, u) == [at |-> "box", validity |-> v, uid |-> u]
Places == {Unknown, Orphan, Away} \cup [at : {"box"}, validity : 0 .. MaxValidity, uid : Uids]

Phases == {"idle", "list", "changed", "expunge", "fetch", "store", "reset", "clear",
           "ingest", "cursor", "flags", "search", "mark"}
PassKinds == {"full", "plain", "account", "once", "window", "orphans"}
PassStates ==
    [phase : Phases, kind : PassKinds,
     from : 0 .. MaxUid + 1,         \* start_uid, or the cursor an incremental pass read
     found : SUBSET Uids,            \* new_uids
     read : SUBSET Envelopes, validity : 0 .. MaxValidity, upTo : 0 .. MaxUid,
     changed : SUBSET Uids, newest : Mods,
     todo : SUBSET Mail, lost : SUBSET Mail]   \* resolve-orphans: to search, not found

NoPass == [phase |-> "idle", kind |-> "full", from |-> 0, found |-> {}, read |-> {},
           validity |-> 0, upTo |-> 0, changed |-> {}, newest |-> 0, todo |-> {}, lost |-> {}]

TypeOK ==
    /\ validity \in Validities /\ next \in 1 .. MaxUid + 1
    /\ box \in [Uids -> Mail \cup {NoMail}]
    /\ elsewhere \subseteq Mail /\ mod \in [Mail -> Mods]
    /\ stored \in 0 .. MaxValidity /\ cursor \in NoCursor .. MaxUid /\ modseq \in Mods
    /\ place \in [Mail -> Places] /\ seen \in [Mail -> Mods]
    /\ deleted \subseteq Mail /\ missing \subseteq Validities \X Uids
    /\ pass \in PassStates
    /\ origin \in [Validities -> [Uids -> Mail \cup {NoMail}]]
    /\ torn \in BOOLEAN /\ changes \in 0 .. ChangeBudget /\ faults \in 0 .. FaultBudget

Init ==
    /\ validity = 1 /\ next = 1 /\ box = [u \in Uids |-> NoMail]
    /\ elsewhere = {} /\ mod = [m \in Mail |-> 0]
    /\ stored = 0 /\ cursor = NoCursor /\ modseq = 0
    /\ place = [m \in Mail |-> Unknown] /\ seen = [m \in Mail |-> 0]
    /\ deleted = {} /\ missing = {}
    /\ pass = NoPass
    /\ origin = [v \in Validities |-> [u \in Uids |-> NoMail]]
    /\ torn = FALSE /\ changes = 0 /\ faults = 0

Here(m) == place[m].at = "box"
Occupied == {u \in Uids : box[u] # NoMail}
Highest(uids) == CHOOSE u \in uids : \A w \in uids : w <= u
Newest == CHOOSE n \in Mods : (\E m \in Mail : mod[m] = n) /\ \A m \in Mail : mod[m] <= n
Larger(a, b) == IF a > b THEN a ELSE b
Smaller(a, b) == IF a < b THEN a ELSE b

Fault == faults < FaultBudget /\ faults' = faults + 1
NoFault == UNCHANGED faults

------------------------------------------------------------------------------
(* The server: mail arrives, leaves, changes; the mailbox is recreated. *)

Change == changes < ChangeBudget /\ changes' = changes + 1
Put(m) ==
    /\ next <= MaxUid
    /\ box' = [box EXCEPT ![next] = m]
    /\ origin' = [origin EXCEPT ![validity][next] = m]
    /\ next' = next + 1
    /\ mod' = [mod EXCEPT ![m] = changes']

Deliver(m) ==
    /\ Change /\ m \notin elsewhere /\ \A u \in Uids : box[u] # m
    /\ Put(m)
    /\ UNCHANGED <<validity, elsewhere>>

MoveBack(m) ==
    /\ Change /\ m \in elsewhere
    /\ elsewhere' = elsewhere \ {m}
    /\ Put(m)
    /\ UNCHANGED validity

Leave(u) ==
    /\ Change /\ box[u] # NoMail
    /\ box' = [box EXCEPT ![u] = NoMail]
    /\ elsewhere' \in {elsewhere, elsewhere \cup {box[u]}}
    /\ UNCHANGED <<validity, next, mod, origin>>

Touch(u) ==
    /\ Change /\ box[u] # NoMail
    /\ mod' = [mod EXCEPT ![box[u]] = changes']
    /\ UNCHANGED <<validity, box, next, elsewhere, origin>>

Recreate ==
    /\ Change /\ validity < MaxValidity
    /\ validity' = validity + 1
    /\ box' = [u \in Uids |-> NoMail] /\ next' = 1
    /\ UNCHANGED <<elsewhere, mod, origin>>

ServerStep ==
    /\ \/ \E m \in Mail : Deliver(m) \/ MoveBack(m)
       \/ \E u \in Uids : Leave(u) \/ Touch(u)
       \/ Recreate
    /\ NoFault /\ UNCHANGED <<folderVars, emailVars, pass, torn>>

------------------------------------------------------------------------------
(* Where a pass begins. *)

Loops(kind) == kind \in {"full", "plain"}          \* run_sync_for_account
Incremental(kind) == kind \in {"account", "once"}

Begun(kind, phase, from) == [NoPass EXCEPT !.kind = kind, !.phase = phase, !.from = from]
Goto(phase) == pass' = [pass EXCEPT !.phase = phase]
Done == pass' = NoPass

\* Mutant of BeginFull: the cursor stays, and the pass begins behind it.
BeginFullWarm ==
    /\ pass' = Begun("full", "fetch", IF cursor = NoCursor THEN 1 ELSE cursor + 1)
    /\ UNCHANGED <<folderVars, emailVars>>

\* execute_work forgets the cursors before a core full sync.
BeginFull ==
    /\ cursor' = NoCursor /\ modseq' = 0
    /\ pass' = Begun("full", "fetch", 1)
    /\ UNCHANGED <<stored, emailVars>>

BeginPlain ==
    /\ pass' = Begun("plain", "fetch", IF cursor = NoCursor THEN 1 ELSE cursor + 1)
    /\ UNCHANGED <<folderVars, emailVars>>

\* Folders that were never synced are not in an incremental pass, and the CLI's
\* one also leaves out those without a MODSEQ.
BeginIncremental(kind) ==
    /\ cursor # NoCursor
    /\ kind = "once" => modseq # 0
    /\ pass' = Begun(kind, "list", cursor)
    /\ UNCHANGED <<folderVars, emailVars>>

BeginWindow ==
    /\ pass' = Begun("window", "list", 0)
    /\ UNCHANGED <<folderVars, emailVars>>

BeginOrphans ==
    LET orphans == {m \in Mail \ deleted : place[m] = Orphan} IN
    /\ orphans # {}
    /\ pass' = [Begun("orphans", "search", 0) EXCEPT !.todo = orphans]
    /\ UNCHANGED <<folderVars, emailVars>>

Begin ==
    /\ pass.phase = "idle"
    /\ \/ BeginFull \/ BeginPlain \/ BeginWindow \/ BeginOrphans
       \/ \E kind \in {"account", "once"} : BeginIncremental(kind)
    /\ NoFault

------------------------------------------------------------------------------
(* What a pass asks the server. *)

\* get_new_uids of an incremental pass.  An error ends the folder's turn, except
\* in "once", which goes on with nothing new.
Listed(uids) ==
    pass' = IF pass.kind # "once" /\ uids = {} THEN NoPass
            ELSE [pass EXCEPT !.found = uids, !.validity = validity,
                              !.phase = IF pass.kind = "once" THEN "changed" ELSE "fetch"]

ListNew ==
    /\ pass.phase = "list" /\ Incremental(pass.kind)
    /\ \/ Listed({u \in Occupied : u > pass.from}) /\ NoFault
       \/ Listed({}) /\ Fault
    /\ UNCHANGED <<folderVars, emailVars>>

\* search_uids SINCE: the later part of the folder, or all of it.
ListWindow ==
    /\ pass.phase = "list" /\ pass.kind = "window"
    /\ \E since \in Uids :
         LET recent == {u \in Occupied : u >= since} IN
         IF recent = {} THEN Done
         ELSE pass' = [pass EXCEPT !.found = recent, !.phase = "fetch"]
    /\ NoFault /\ UNCHANGED <<folderVars, emailVars>>

\* search_uids_by_modseq
ModifiedSince == {u \in Occupied : mod[box[u]] > modseq}

\* get_highest_modseq, then that search if the server's is higher.  One that fails
\* leaves no changed message; what is not known of the server's MODSEQ counts as 0,
\* and where the answer has none a folder without new mail is left.
ChangedAre(newest, uids) ==
    pass' = [pass EXCEPT !.newest = newest, !.phase = "expunge",
                         !.found = @ \cup {u \in uids : u > pass.from},
                         !.changed = {u \in uids : u <= pass.from}]

ReadChanged ==
    /\ pass.phase = "changed"
    /\ \/ ChangedAre(Newest, ModifiedSince) /\ NoFault
       \/ \E newest \in {0, Newest} : ChangedAre(newest, {}) /\ Fault
       \/ pass.found = {} /\ Done /\ Fault
    /\ UNCHANGED <<folderVars, emailVars>>

\* raw_uid_fetch_envelopes: one batch from start_uid, within UIDNEXT.  A SELECT
\* the server refuses is not noticed: no UIDVALIDITY, no UIDNEXT, no envelope.
EnvelopesOf(uids) == {[uid |-> u, mail |-> box[u]] : u \in uids \cap Occupied}

FetchRange ==
    /\ pass.phase = "fetch" /\ Loops(pass.kind)
    /\ \/ /\ pass' = [pass EXCEPT
                        !.read = EnvelopesOf({u \in Uids : pass.from <= u /\ u < pass.from + Batch}),
                        !.validity = validity, !.upTo = next - 1, !.phase = "store"]
          /\ NoFault
       \/ /\ pass' = [pass EXCEPT !.read = {}, !.validity = 0, !.upTo = 0, !.phase = "store"]
          /\ Fault
    /\ UNCHANGED <<folderVars, emailVars>>

\* raw_uid_fetch_envelopes_by_uids, which does look at the answers to LOGIN.
FetchUids ==
    /\ pass.phase = "fetch" /\ ~Loops(pass.kind)
    /\ pass' = [pass EXCEPT !.read = EnvelopesOf(pass.found), !.validity = validity,
                            !.phase = "store"]
    /\ NoFault /\ UNCHANGED <<folderVars, emailVars>>

------------------------------------------------------------------------------
(* UIDVALIDITY: stored first, then compared with what was stored before. *)

StoreValidity ==
    /\ pass.phase = "store"
    /\ stored' = IF pass.validity = 0 THEN stored ELSE pass.validity
    /\ Goto(IF pass.validity # 0 /\ stored \notin {0, pass.validity} THEN "reset" ELSE "ingest")
    /\ NoFault /\ UNCHANGED <<cursor, modseq, emailVars>>

\* Mutant of ResetFolder: the cursor of the old mailbox stays.
ResetKeepsCursor ==
    /\ pass.phase = "reset"
    /\ modseq' = 0 /\ stored' = pass.validity
    /\ Goto("clear")
    /\ NoFault /\ UNCHANGED <<cursor, emailVars>>

ResetFolder ==
    /\ pass.phase = "reset"
    /\ cursor' = NoCursor /\ modseq' = 0 /\ stored' = pass.validity
    /\ Goto("clear")
    /\ NoFault /\ UNCHANGED emailVars

\* clear_folder_uids; a looping pass begins again at UID 1, the others leave the
\* folder to a later full pass.
Cleared == [m \in Mail |-> IF Here(m) THEN Orphan ELSE place[m]]

\* Mutant of ClearUids: a phase that no step continues.
ClearUidsMisspelt ==
    /\ pass.phase = "clear"
    /\ place' = Cleared
    /\ IF Loops(pass.kind) THEN pass' = [pass EXCEPT !.from = 1, !.phase = "refetch"] ELSE Done
    /\ NoFault /\ UNCHANGED <<folderVars, seen, deleted, missing>>

ClearUids ==
    /\ pass.phase = "clear"
    /\ place' = Cleared
    /\ IF Loops(pass.kind) THEN pass' = [pass EXCEPT !.from = 1, !.phase = "fetch"] ELSE Done
    /\ NoFault /\ UNCHANGED <<folderVars, seen, deleted, missing>>

------------------------------------------------------------------------------
(* The envelopes: upsert those with a Message-ID, record those without. *)

Importable == {e \in pass.read : e.mail \notin Blank}
UidsOf(envelopes) == {e.uid : e \in envelopes}
Unreadable == {<<pass.validity, e.uid>> : e \in pass.read \ Importable}
\* Mutant of Upserted: UIDVALIDITY is asked for when the rows are written.
UpsertedAfresh ==
    [m \in Mail |-> IF \E e \in Importable : e.mail = m
                    THEN Spot(validity, Highest({e.uid : e \in {x \in Importable : x.mail = m}}))
                    ELSE place[m]]

Upserted ==
    [m \in Mail |-> IF \E e \in Importable : e.mail = m
                    THEN Spot(pass.validity, Highest({e.uid : e \in {x \in Importable : x.mail = m}}))
                    ELSE place[m]]

\* The loop goes on behind the UIDs it has passed, or ends at UIDNEXT.
Continue(passed) ==
    /\ cursor' = passed
    /\ IF passed >= pass.upTo
       THEN Done
       ELSE pass' = [pass EXCEPT !.from = passed + 1, !.phase = "fetch"]

\* Nothing came: an empty mailbox, the end, or a gap of one batch.
SkipRange ==
    /\ pass.phase = "ingest" /\ Loops(pass.kind) /\ pass.read = {}
    /\ \/ pass.upTo = 0 /\ cursor' = 0 /\ Done
       \/ pass.upTo # 0 /\ pass.from > pass.upTo /\ Done /\ UNCHANGED cursor
       \/ /\ pass.upTo # 0 /\ pass.from <= pass.upTo
          /\ Continue(Smaller(pass.from + Batch - 1, pass.upTo))
    /\ NoFault /\ UNCHANGED <<stored, modseq, emailVars>>

\* After two more fetches a message without a Message-ID is recorded as such.
SkipUnreadable ==
    /\ pass.phase = "ingest" /\ Loops(pass.kind) /\ pass.read # {} /\ Importable = {}
    /\ missing' = missing \cup Unreadable
    /\ Continue(Highest(UidsOf(pass.read)))
    /\ NoFault /\ UNCHANGED <<stored, modseq, place, seen, deleted>>

UpsertRange ==
    /\ pass.phase = "ingest" /\ Loops(pass.kind) /\ Importable # {}
    /\ missing' = missing \cup Unreadable
    /\ place' = Upserted
    /\ Goto("cursor")
    /\ NoFault /\ UNCHANGED <<folderVars, seen, deleted>>

\* The other passes do not retry: what has no Message-ID is left out.  Nothing
\* left, and the cursor stays.
UpsertNew ==
    /\ pass.phase = "ingest" /\ Incremental(pass.kind)
    /\ place' = Upserted
    /\ IF Importable # {} THEN Goto("cursor")
       ELSE IF pass.kind = "once" THEN Goto("flags") ELSE Done
    /\ NoFault /\ UNCHANGED <<folderVars, seen, deleted, missing>>

UpsertWindow ==
    /\ pass.phase = "ingest" /\ pass.kind = "window"
    /\ missing' = missing \cup Unreadable
    /\ place' = Upserted
    /\ Done
    /\ NoFault /\ UNCHANGED <<folderVars, seen, deleted>>

\* last_synced_uid: the highest UID upserted, or the highest UID listed.
AdvanceRange ==
    /\ pass.phase = "cursor" /\ Loops(pass.kind)
    /\ Continue(Highest(UidsOf(Importable)))
    /\ NoFault /\ UNCHANGED <<stored, modseq, emailVars>>

AdvanceNew ==
    /\ pass.phase = "cursor" /\ Incremental(pass.kind)
    /\ cursor' = Highest(pass.found)
    /\ IF pass.kind = "once" THEN Goto("flags") ELSE Done
    /\ NoFault /\ UNCHANGED <<stored, modseq, emailVars>>

------------------------------------------------------------------------------
(* The CLI's incremental pass also looks for what left and what changed. *)

\* QRESYNC, or the known UIDs less those of the folder.
Gone == {m \in Mail : Here(m) /\ place[m].uid \notin Occupied}

\* A row that has gone is looked up by Message-ID in the other folders; the locations
\* of those not found are cleared in the end.
Expunged(gone, away) ==
    place' = [m \in Mail |-> IF m \notin gone THEN place[m]
                             ELSE IF m \in away THEN Away ELSE Orphan]

AfterExpunge == IF pass.found = {} THEN "flags" ELSE "fetch"

\* A search that fails finds nothing, and where both ways to see what has gone fail
\* nothing has; or the pass dies with some of those found elsewhere recorded.
Expunge ==
    /\ pass.phase = "expunge"
    /\ \/ Expunged(Gone, elsewhere) /\ Goto(AfterExpunge) /\ NoFault
       \/ \E gone \in {{}, Gone}, away \in SUBSET elsewhere :
              Expunged(gone, away) /\ Goto(AfterExpunge) /\ Fault
       \/ \E moved \in SUBSET (Gone \cap elsewhere) : Expunged(moved, moved) /\ Done /\ Fault
    /\ UNCHANGED <<folderVars, seen, deleted, missing>>

\* fetch_flags_and_modseq answers for the UIDs that are there.
Answering == pass.changed \cap Occupied

\* update_folder_highest_modseq
Raised(n) == Larger(modseq, n)

\* update_email_flags goes by UID alone; then the MODSEQ read at the start is
\* stored, and never lowered.
UpdateFlags ==
    /\ pass.phase = "flags"
    /\ seen' = [m \in Mail |->
                  IF Here(m) /\ place[m].uid \in Answering
                  THEN IF box[place[m].uid] = m THEN mod[m] ELSE 0
                  ELSE seen[m]]
    /\ modseq' = Raised(pass.newest)
    /\ Done
    /\ NoFault /\ UNCHANGED <<stored, cursor, place, deleted, missing>>

\* get_emails_needing_imap_backfill: rows with their place.
Backfillable == {m \in Mail : Here(m)}

\* raw_uid_fetch_full_messages: a folder with another UIDVALIDITY than the row's is
\* refused, and only UIDs that are there are answered.
Served(spot) == spot.validity \in {0, validity} /\ spot.uid \in Occupied

\* flush_backfill_batch, as a body worker's import: the message comes with its flags,
\* and its MODSEQ raises the folder's.
ImportBody(m) ==
    /\ pass.phase = "idle" /\ m \in Backfillable /\ Served(place[m])
    /\ LET n == box[place[m].uid]
       IN  /\ seen' = [seen EXCEPT ![m] = IF n = m THEN mod[m] ELSE 0]
           /\ modseq' = Raised(mod[n])
    /\ NoFault /\ UNCHANGED <<stored, cursor, place, deleted, missing, pass>>

------------------------------------------------------------------------------
(* resolve-orphans *)

\* One Message-ID is searched in all folders; the UIDVALIDITY written is the one
\* on record.  A search that fails counts as not found.
OnServer(m) == m \in elsewhere \/ \E u \in Uids : box[u] = m
Searched(m, found) ==
    pass' = [pass EXCEPT !.todo = @ \ {m}, !.lost = IF found THEN @ ELSE @ \cup {m},
                         !.phase = IF pass.todo = {m} THEN "mark" ELSE @]

SearchOrphan(m) ==
    /\ pass.phase = "search" /\ m \in pass.todo
    /\ \/ \E u \in Uids :
            box[u] = m /\ place' = [place EXCEPT ![m] = Spot(stored, u)] /\ Searched(m, TRUE) /\ NoFault
       \/ m \in elsewhere /\ place' = [place EXCEPT ![m] = Away] /\ Searched(m, TRUE) /\ NoFault
       \/ ~OnServer(m) /\ UNCHANGED place /\ Searched(m, FALSE) /\ NoFault
       \/ UNCHANGED place /\ Searched(m, FALSE) /\ Fault
    /\ UNCHANGED <<folderVars, seen, deleted, missing>>

MarkDeleted ==
    /\ pass.phase = "mark"
    /\ deleted' = deleted \cup pass.lost
    /\ Done
    /\ NoFault /\ UNCHANGED <<folderVars, place, seen, missing>>

------------------------------------------------------------------------------

\* An error of IMAP or of the database ends the pass where it is; so does a crash.
Dies ==
    /\ pass.phase # "idle" /\ Fault
    /\ Done
    /\ UNCHANGED <<folderVars, emailVars>>

LoopStep == FetchRange \/ SkipRange \/ SkipUnreadable \/ UpsertRange \/ AdvanceRange
NewStep == ListNew \/ ListWindow \/ FetchUids \/ UpsertNew \/ UpsertWindow \/ AdvanceNew
ResetStep == StoreValidity \/ ResetFolder \/ ClearUids
ChangeStep == ReadChanged \/ Expunge \/ UpdateFlags \/ \E m \in Mail : ImportBody(m)
OrphanStep == (\E m \in Mail : SearchOrphan(m)) \/ MarkDeleted

\* What the code does not repair by itself: a pass that died between storing a
\* new UIDVALIDITY and resetting the folder; with no UIDVALIDITY on record, a mailbox
\* recreated between an incremental pass's listing and its fetch; and, where the
\* listing of "once" failed, a later UID that the MODSEQ search adds alone.
Tears ==
    \/ pass.phase = "reset" /\ faults' # faults
    \/ pass.phase = "fetch" /\ Incremental(pass.kind) /\ stored = 0 /\ pass.validity # validity
    \/ /\ pass.phase = "changed"
       /\ \E w \in pass'.found : \E u \in Occupied \ pass'.found : pass.from < u /\ u < w

PassStep ==
    /\ Begin \/ LoopStep \/ NewStep \/ ResetStep \/ ChangeStep \/ OrphanStep \/ Dies
    /\ torn' = (cursor' # NoCursor /\ (torn \/ Tears))
    /\ UNCHANGED <<serverVars, changes>>

Next == ServerStep \/ PassStep

Spec == Init /\ [][Next]_vars

------------------------------------------------------------------------------
(* Properties *)

\* A cursor never stands at or behind a message the database does not place: when
\* the UIDVALIDITY on record is the mailbox's, every readable message with a UID
\* up to last_synced_uid has its row at that UID.  The exceptions are a folder
\* that is about to be reset, and what Tears names.
NoMailSkipped ==
    stored = validity /\ cursor # NoCursor /\ pass.phase # "reset" /\ ~torn =>
        \A u \in Occupied : u <= cursor /\ box[u] \notin Blank => place[box[u]] = Spot(validity, u)

\* A row that names the mailbox's present UIDVALIDITY names a UID that was given
\* to that very message, whatever the folder went through between a pass's
\* listing, fetching and writing: moves and body fetches go by that UID.
RowsNameTheirMail ==
    \A m \in Mail : \A u \in Uids : place[m] = Spot(validity, u) => origin[validity][u] = m

\* What a repair is for: a core full sync that reaches the end of a mailbox which
\* was not recreated meanwhile has placed all its readable messages, whatever
\* earlier passes left behind, a half-done reset included.
FullPassRecovers ==
    [][pass.kind = "full" /\ pass.phase # "idle" /\ pass'.phase = "idle" /\ faults' = faults
            /\ pass.validity = validity =>
         \A u \in Occupied : u <= pass.upTo /\ box[u] \notin Blank => place'[box[u]] = Spot(validity, u)]_vars

\* "confirmed deleted from server (not found in any folder during resolve-orphans)":
\* the messages that resolve-orphans goes on to mark are in no folder when it has
\* searched for them.
DeletedMailIsGone ==
    [][\A m \in pass'.lost \ pass.lost : ~OnServer(m)]_vars
==============================================================================
