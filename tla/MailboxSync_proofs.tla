-------------------------- MODULE MailboxSync_proofs --------------------------
(***************************************************************************)
(* Proofs about MailboxSync, for any messages, batch size, UIDs and number *)
(* of recreated mailboxes: typing, that a row which names the present      *)
(* UIDVALIDITY names a UID its message was given, that the cursor stands   *)
(* at or behind no readable message without its row, and that a full pass  *)
(* places every readable message.                                          *)
(***************************************************************************)
EXTENDS MailboxSync, WellFoundedInduction, TLAPS

(* The largest of a set of UIDs or of MODSEQs. *)

LEMMA SmallestNat ==
    ASSUME NEW T \in SUBSET Nat, T # {}
    PROVE  \E x \in T : \A y \in T : x <= y
<1>1. PICK x \in T : \A y \in T : ~(<<y, x>> \in OpToRel(<, Nat))
  BY NatLessThanWellFounded, WFMin
<1>2. \A y \in T : ~(y < x)
  BY <1>1 DEF OpToRel
<1> QED BY <1>2

LEMMA LargestExists ==
    ASSUME NEW n \in Nat, NEW S \in SUBSET (0 .. n), S # {}
    PROVE  \E u \in S : \A w \in S : w <= u
<1> DEFINE T == {n - u : u \in S}
<1>1. \A u \in S : u \in Int /\ n - u \in Nat
  OBVIOUS
<1>2. T \in SUBSET Nat /\ T # {}
  BY <1>1
<1>3. PICK x \in T : \A y \in T : x <= y
  BY <1>2, SmallestNat
<1>4. PICK u \in S : x = n - u
  OBVIOUS
<1>5. \A w \in S : x <= n - w
  BY <1>3
<1>6. \A w \in S : w <= u
  BY <1>1, <1>4, <1>5
<1> QED BY <1>6

\* The CHOOSE of Highest is met by any non-empty set of UIDs.
LEMMA HighestIn ==
    ASSUME NEW S \in SUBSET Uids, S # {}
    PROVE  Highest(S) \in S /\ \A w \in S : w <= Highest(S)
<1>1. MaxUid \in Nat /\ S \in SUBSET (0 .. MaxUid)
  BY LimitAssumption DEF Uids
<1>2. \E u \in S : \A w \in S : w <= u
  BY <1>1, LargestExists
<1> QED BY <1>2 DEF Highest

LEMMA NewestTyped ==
    ASSUME mod \in [Mail -> Mods]
    PROVE  Newest \in Mods
<1> DEFINE S == {mod[m] : m \in Mail}
<1>1. S \in SUBSET (0 .. ChangeBudget) /\ S # {} /\ ChangeBudget \in Nat
  BY MailAssumption, LimitAssumption DEF Mods
<1>2. PICK n \in S : \A w \in S : w <= n
  BY <1>1, LargestExists
<1>3. n \in Mods /\ (\E m \in Mail : mod[m] = n) /\ \A m \in Mail : mod[m] <= n
  BY <1>1, <1>2 DEF Mods
<1> QED BY <1>3 DEF Newest

------------------------------------------------------------------------------
(* Typing. The highest UID of a pass is one, so a pass that is about to store it *)
(* must have read something, and what it read it had listed.                     *)

Fetched == {"store", "reset", "clear", "ingest", "cursor"}

PassInv ==
    /\ pass.phase = "cursor" => Importable # {}
    /\ pass.read # {} => pass.validity # 0
    /\ pass.phase \in Fetched /\ ~Loops(pass.kind) => UidsOf(pass.read) \subseteq pass.found

Typed == TypeOK /\ PassInv

LEMMA Constants ==
    /\ MaxUid \in Nat /\ MaxUid >= 1 /\ MaxValidity \in Nat /\ MaxValidity >= 1
    /\ ChangeBudget \in Nat /\ FaultBudget \in Nat /\ Batch \in Nat /\ Batch >= 1
BY LimitAssumption, BatchAssumption

LEMMA NoPassTyped == NoPass \in PassStates
BY Constants DEF NoPass, PassStates, Phases, PassKinds, Mods

LEMMA FaultTyped ==
    ASSUME TypeOK, Fault \/ NoFault
    PROVE  faults' \in 0 .. FaultBudget
BY Constants DEF TypeOK, Fault, NoFault

LEMMA UpsertTyped ==
    ASSUME TypeOK
    PROVE  Upserted \in [Mail -> Places]
<1> SUFFICES ASSUME NEW m \in Mail, NEW e \in Importable, e.mail = m
             PROVE  Spot(pass.validity, Highest({x.uid : x \in {y \in Importable : y.mail = m}})) \in Places
  BY DEF Upserted, TypeOK
<1> DEFINE S == {x.uid : x \in {y \in Importable : y.mail = m}}
<1>1. S \in SUBSET Uids /\ S # {} /\ pass.validity \in 0 .. MaxValidity
  BY DEF Importable, TypeOK, PassStates, Envelopes
<1>2. Highest(S) \in Uids
  BY <1>1, HighestIn
<1> QED BY <1>1, <1>2 DEF Spot, Places

LEMMA ServerTyped ==
    ASSUME Typed, ServerStep
    PROVE  Typed'
<1> USE DEF Typed
<1>1. /\ validity \in Validities /\ next \in 1 .. MaxUid + 1 /\ changes \in 0 .. ChangeBudget
      /\ box \in [Uids -> Mail \cup {NoMail}] /\ elsewhere \subseteq Mail /\ mod \in [Mail -> Mods]
      /\ origin \in [Validities -> [Uids -> Mail \cup {NoMail}]]
  BY DEF TypeOK
<1>2. ASSUME Change PROVE changes' \in 0 .. ChangeBudget
  BY <1>1, <1>2, Constants DEF Change
<1>3. ASSUME NEW m \in Mail, Change, Put(m)
      PROVE  /\ next' \in 1 .. MaxUid + 1 /\ box' \in [Uids -> Mail \cup {NoMail}]
             /\ mod' \in [Mail -> Mods]
             /\ origin' \in [Validities -> [Uids -> Mail \cup {NoMail}]]
  <2>1. next \in Uids /\ next' \in 1 .. MaxUid + 1
    BY <1>1, <1>3, Constants DEF Put, Uids
  <2>2. changes' \in Mods
    BY <1>2, <1>3 DEF Mods
  <2> QED BY <1>1, <1>3, <2>1, <2>2 DEF Put
<1>4. /\ validity' \in Validities /\ next' \in 1 .. MaxUid + 1 /\ changes' \in 0 .. ChangeBudget
      /\ box' \in [Uids -> Mail \cup {NoMail}] /\ elsewhere' \subseteq Mail /\ mod' \in [Mail -> Mods]
      /\ origin' \in [Validities -> [Uids -> Mail \cup {NoMail}]]
  <2>1. ASSUME NEW m \in Mail, Deliver(m) \/ MoveBack(m) PROVE <1>4!:
    BY <1>1, <1>2, <1>3, <2>1 DEF Deliver, MoveBack
  <2>2. ASSUME NEW u \in Uids, Leave(u) PROVE <1>4!:
    BY <1>1, <1>2, <2>2 DEF Leave
  <2>3. ASSUME NEW u \in Uids, Touch(u) PROVE <1>4!:
    <3>1. box[u] \in Mail /\ changes' \in Mods
      BY <1>1, <1>2, <2>3 DEF Touch, Mods
    <3> QED BY <1>1, <1>2, <2>3, <3>1 DEF Touch
  <2>4. CASE Recreate
    <3>1. validity' \in Validities
      BY <1>1, <2>4, Constants DEF Recreate, Validities
    <3>2. next' \in 1 .. MaxUid + 1
      BY <2>4, Constants DEF Recreate
    <3> QED BY <1>1, <1>2, <2>4, <3>1, <3>2 DEF Recreate
  <2> QED BY <2>1, <2>2, <2>3, <2>4 DEF ServerStep
<1>5. UNCHANGED <<folderVars, emailVars, pass, torn>> /\ faults' \in 0 .. FaultBudget
  BY FaultTyped DEF ServerStep
<1>6. TypeOK'
  BY <1>4, <1>5 DEF TypeOK, folderVars, emailVars
<1>7. PassInv'
  BY <1>5 DEF PassInv, Importable, UidsOf
<1> QED BY <1>6, <1>7

\* What a step of a pass leaves typed; the server's part does not change in one.
StepTyped ==
    /\ pass' \in PassStates /\ PassInv'
    /\ stored' \in 0 .. MaxValidity /\ cursor' \in NoCursor .. MaxUid /\ modseq' \in Mods
    /\ place' \in [Mail -> Places] /\ seen' \in [Mail -> Mods]
    /\ deleted' \subseteq Mail /\ missing' \subseteq Validities \X Uids

LEMMA BeginTyped ==
    ASSUME Typed, Begin
    PROVE  StepTyped
<1>1. ASSUME NEW kind \in PassKinds, NEW phase \in {"list", "fetch", "search"},
             NEW from \in 0 .. MaxUid + 1, NEW todo \in SUBSET Mail,
             \/ pass' = Begun(kind, phase, from)
             \/ pass' = [Begun(kind, phase, from) EXCEPT !.todo = todo]
      PROVE  pass' \in PassStates /\ PassInv'
  <2>1. Begun(kind, phase, from) \in PassStates
    BY NoPassTyped DEF Begun, PassStates, Phases
  <2>2. pass' \in PassStates
    BY <1>1, <2>1 DEF PassStates
  <2>3. pass'.phase = phase /\ pass'.read = {}
    BY <1>1 DEF Begun, NoPass
  <2> QED BY <2>2, <2>3 DEF PassInv, Fetched
<1>2. ASSUME NEW kind \in PassKinds, NEW phase \in {"list", "fetch"},
             NEW from \in 0 .. MaxUid + 1, pass' = Begun(kind, phase, from)
      PROVE  pass' \in PassStates /\ PassInv'
  BY <1>1, <1>2, {} \in SUBSET Mail
<1>3. pass' \in PassStates /\ PassInv'
  <2>1. IF cursor = NoCursor THEN 1 \in 0 .. MaxUid + 1 ELSE cursor \in 0 .. MaxUid /\ cursor + 1 \in 0 .. MaxUid + 1
    BY Constants DEF Typed, TypeOK, NoCursor
  <2>2. CASE BeginFull \/ BeginPlain
    BY <1>2, <2>1, <2>2, Constants DEF BeginFull, BeginPlain, PassKinds
  <2>3. CASE BeginWindow
    BY <1>2, <2>3, Constants DEF BeginWindow, PassKinds
  <2>4. CASE BeginOrphans
    <3>1. /\ {m \in Mail \ deleted : place[m] = Orphan} \in SUBSET Mail
          /\ 0 \in 0 .. MaxUid + 1 /\ "orphans" \in PassKinds
      BY Constants DEF PassKinds
    <3> QED BY <1>1, <2>4, <3>1 DEF BeginOrphans
  <2>5. ASSUME NEW kind \in {"account", "once"}, BeginIncremental(kind) PROVE <1>3!:
    BY <1>2, <2>1, <2>5, Constants DEF BeginIncremental, PassKinds
  <2> QED BY <2>2, <2>3, <2>4, <2>5 DEF Begin
<1>4. /\ stored' = stored /\ cursor' \in NoCursor .. MaxUid /\ modseq' \in Mods
      /\ UNCHANGED emailVars /\ UNCHANGED faults
  BY Constants DEF Begin, BeginFull, BeginPlain, BeginWindow, BeginOrphans, BeginIncremental,
                   folderVars, NoFault, Typed, TypeOK, NoCursor, Mods
<1> QED BY <1>3, <1>4 DEF StepTyped, Typed, TypeOK, emailVars

LEMMA NoPassStep ==
    ASSUME Typed, Done
    PROVE  pass' \in PassStates /\ PassInv'
<1>1. pass'.phase = "idle" /\ pass'.read = {}
  BY DEF Done, NoPass
<1> QED BY <1>1, NoPassTyped DEF Done, PassInv, Fetched

LEMMA GotoTyped ==
    ASSUME Typed, NEW phase \in Phases, Goto(phase),
           phase = "cursor" => Importable # {},
           phase \in Fetched => pass.phase \in Fetched
    PROVE  pass' \in PassStates /\ PassInv'
<1>1. pass \in PassStates /\ PassInv
  BY DEF Typed, TypeOK
<1>2. pass' \in PassStates
  BY <1>1 DEF Goto, PassStates
<1>3. pass'.phase = phase /\ pass'.read = pass.read /\ pass'.found = pass.found
      /\ pass'.kind = pass.kind /\ pass'.validity = pass.validity
  BY <1>1 DEF Goto, PassStates
<1>4. PassInv'
  BY <1>1, <1>3 DEF PassInv, Importable, UidsOf
<1> QED BY <1>2, <1>4

\* The rows and the folder's record are left alone.
LEMMA PassOnly ==
    ASSUME Typed, UNCHANGED <<folderVars, emailVars>>, pass' \in PassStates, PassInv'
    PROVE  StepTyped
BY DEF Typed, TypeOK, StepTyped, folderVars, emailVars

LEMMA EnvelopesTyped ==
    ASSUME TypeOK, NEW uids
    PROVE  /\ EnvelopesOf(uids) \in SUBSET Envelopes
           /\ UidsOf(EnvelopesOf(uids)) \subseteq uids
BY DEF EnvelopesOf, Envelopes, UidsOf, Occupied, TypeOK

LEMMA AskTyped ==
    ASSUME Typed, ListNew \/ ListWindow \/ ReadChanged \/ FetchRange \/ FetchUids
    PROVE  StepTyped
<1>1. pass \in PassStates /\ PassInv /\ validity \in Validities /\ Occupied \in SUBSET Uids
  BY DEF Typed, TypeOK, Occupied
<1>2. UNCHANGED <<folderVars, emailVars>>
  BY DEF ListNew, ListWindow, ReadChanged, FetchRange, FetchUids
<1>3. CASE ListNew
  <2>1. ASSUME NEW uids \in SUBSET Uids, Listed(uids) PROVE pass' \in PassStates /\ PassInv'
    <3>1. CASE pass' = NoPass
      BY <3>1, NoPassStep DEF Done
    <3>2. CASE pass' = [pass EXCEPT !.found = uids, !.validity = validity,
                              !.phase = IF pass.kind = "once" THEN "changed" ELSE "fetch"]
      <4>1. validity \in 0 .. MaxValidity /\ validity # 0
        BY <1>1, Constants DEF Validities
      <4>2. pass' \in PassStates
        BY <1>1, <3>2, <4>1 DEF PassStates, Phases
      <4>3. pass'.phase \in {"changed", "fetch"} /\ pass'.validity = validity
        BY <1>1, <3>2 DEF PassStates
      <4> QED BY <4>1, <4>2, <4>3 DEF PassInv, Fetched
    <3> QED BY <2>1, <3>1, <3>2 DEF Listed
  <2>2. {u \in Occupied : u > pass.from} \in SUBSET Uids /\ {} \in SUBSET Uids
    BY <1>1
  <2> QED BY <1>2, <1>3, <2>1, <2>2, PassOnly DEF ListNew
<1>4. CASE ListWindow
  <2>1. ASSUME NEW since \in Uids,
               pass' = [pass EXCEPT !.found = {u \in Occupied : u >= since}, !.phase = "fetch"]
        PROVE  pass' \in PassStates /\ PassInv'
    <3>1. pass' \in PassStates
      BY <1>1, <2>1 DEF PassStates, Phases
    <3>2. pass'.phase = "fetch" /\ pass'.read = pass.read /\ pass'.validity = pass.validity
      BY <1>1, <2>1 DEF PassStates
    <3> QED BY <1>1, <3>1, <3>2 DEF PassInv, Fetched
  <2> QED BY <1>2, <1>4, <2>1, NoPassStep, PassOnly DEF ListWindow
<1>5. CASE ReadChanged
  <2>1. ASSUME NEW newest \in {0, Newest}, NEW uids \in SUBSET Uids, ChangedAre(newest, uids)
        PROVE  pass' \in PassStates /\ PassInv'
    <3>1. newest \in Mods
      BY NewestTyped, Constants DEF Typed, TypeOK, Mods
    <3>2. /\ pass.found \cup {u \in uids : u > pass.from} \in SUBSET Uids
          /\ {u \in uids : u <= pass.from} \in SUBSET Uids
      BY <1>1 DEF PassStates
    <3>3. pass' \in PassStates
      BY <1>1, <2>1, <3>1, <3>2 DEF ChangedAre, PassStates, Phases
    <3>4. pass'.phase = "expunge" /\ pass'.read = pass.read /\ pass'.validity = pass.validity
      BY <1>1, <2>1 DEF ChangedAre, PassStates
    <3> QED BY <1>1, <3>3, <3>4 DEF PassInv, Fetched
  <2>2. ModifiedSince \in SUBSET Uids /\ {} \in SUBSET Uids
    BY <1>1 DEF ModifiedSince
  <2> QED BY <1>2, <1>5, <2>1, <2>2, NoPassStep, PassOnly DEF ReadChanged
<1>6. CASE FetchRange
  <2>1. ASSUME NEW read \in SUBSET Envelopes, NEW v \in 0 .. MaxValidity, NEW upTo \in 0 .. MaxUid,
               read # {} => v # 0,
               pass' = [pass EXCEPT !.read = read, !.validity = v, !.upTo = upTo, !.phase = "store"]
        PROVE  pass' \in PassStates /\ PassInv'
    <3>1. pass' \in PassStates
      BY <1>1, <2>1 DEF PassStates, Phases
    <3>2. /\ pass'.phase = "store" /\ pass'.kind = pass.kind
          /\ pass'.read = read /\ pass'.validity = v
      BY <1>1, <2>1 DEF PassStates
    <3>3. Loops(pass.kind)
      BY <1>6 DEF FetchRange
    <3> QED BY <2>1, <3>1, <3>2, <3>3 DEF PassInv
  <2>2. validity \in 0 .. MaxValidity /\ validity # 0 /\ next - 1 \in 0 .. MaxUid
        /\ 0 \in 0 .. MaxUid /\ 0 \in 0 .. MaxValidity /\ {} \in SUBSET Envelopes
    BY <1>1, Constants DEF Validities, Typed, TypeOK
  <2>3. EnvelopesOf({u \in Uids : pass.from <= u /\ u < pass.from + Batch}) \in SUBSET Envelopes
    BY EnvelopesTyped DEF Typed
  <2>4. PICK read \in SUBSET Envelopes, v \in 0 .. MaxValidity, upTo \in 0 .. MaxUid :
           /\ read # {} => v # 0
           /\ pass' = [pass EXCEPT !.read = read, !.validity = v, !.upTo = upTo, !.phase = "store"]
    BY <1>6, <2>2, <2>3 DEF FetchRange
  <2>5. pass' \in PassStates /\ PassInv'
    BY <2>1, <2>4
  <2> QED BY <1>2, <2>5, PassOnly
<1>7. CASE FetchUids
  <2>1. pass' = [pass EXCEPT !.read = EnvelopesOf(pass.found), !.validity = validity, !.phase = "store"]
    BY <1>7 DEF FetchUids
  <2>2. validity \in 0 .. MaxValidity /\ validity # 0
    BY <1>1, Constants DEF Validities
  <2>3. EnvelopesOf(pass.found) \in SUBSET Envelopes /\ UidsOf(EnvelopesOf(pass.found)) \subseteq pass.found
    BY EnvelopesTyped DEF Typed
  <2>4. pass' \in PassStates
    BY <1>1, <2>1, <2>2, <2>3 DEF PassStates, Phases
  <2>5. /\ pass'.phase = "store" /\ pass'.read = EnvelopesOf(pass.found) /\ pass'.validity = validity
        /\ pass'.found = pass.found
    BY <1>1, <2>1 DEF PassStates
  <2>6. PassInv'
    BY <2>2, <2>3, <2>5 DEF PassInv, UidsOf
  <2> QED BY <1>2, <2>4, <2>6, PassOnly
<1> QED BY <1>3, <1>4, <1>5, <1>6, <1>7

LEMMA ResetTyped ==
    ASSUME Typed, ResetStep
    PROVE  StepTyped
<1>1. pass \in PassStates /\ PassInv /\ stored \in 0 .. MaxValidity /\ place \in [Mail -> Places]
      /\ pass.validity \in 0 .. MaxValidity
  BY DEF Typed, TypeOK, PassStates
<1>2. CASE StoreValidity
  <2>1. pass' \in PassStates /\ PassInv'
    BY <1>2, GotoTyped DEF StoreValidity, Phases, Fetched
  <2>2. stored' \in 0 .. MaxValidity
    BY <1>1, <1>2 DEF StoreValidity
  <2> QED BY <1>2, <2>1, <2>2 DEF StoreValidity, StepTyped, Typed, TypeOK, emailVars
<1>3. CASE ResetFolder
  <2>1. pass' \in PassStates /\ PassInv'
    BY <1>3, GotoTyped DEF ResetFolder, Phases, Fetched
  <2>2. NoCursor \in NoCursor .. MaxUid /\ 0 \in Mods
    BY Constants DEF NoCursor, Mods
  <2> QED BY <1>1, <1>3, <2>1, <2>2 DEF ResetFolder, StepTyped, Typed, TypeOK, emailVars
<1>4. CASE ClearUids
  <2>1. place' \in [Mail -> Places]
    BY <1>1, <1>4 DEF ClearUids, Cleared, Places
  <2>2. pass' \in PassStates /\ PassInv'
    <3>1. CASE pass' = [pass EXCEPT !.from = 1, !.phase = "fetch"]
      <4>0. 1 \in 0 .. MaxUid + 1
        BY Constants
      <4>1. pass' \in PassStates
        BY <1>1, <3>1, <4>0 DEF PassStates, Phases
      <4>2. pass'.phase = "fetch" /\ pass'.read = pass.read /\ pass'.validity = pass.validity
        BY <1>1, <3>1 DEF PassStates
      <4> QED BY <1>1, <4>1, <4>2 DEF PassInv, Fetched
    <3> QED BY <1>4, <3>1, NoPassStep DEF ClearUids
  <2> QED BY <1>4, <2>1, <2>2 DEF ClearUids, StepTyped, Typed, TypeOK, folderVars
<1> QED BY <1>2, <1>3, <1>4 DEF ResetStep

LEMMA ReadTyped ==
    ASSUME Typed
    PROVE  /\ UidsOf(pass.read) \in SUBSET Uids /\ UidsOf(Importable) \subseteq UidsOf(pass.read)
           /\ pass.read # {} => UidsOf(pass.read) # {}
           /\ Importable # {} => pass.read # {} /\ UidsOf(Importable) # {}
           /\ Unreadable \subseteq Validities \X Uids
<1>1. pass.read \in SUBSET Envelopes /\ pass.validity \in 0 .. MaxValidity
      /\ (pass.read # {} => pass.validity # 0)
  BY DEF Typed, TypeOK, PassStates, PassInv
<1>2. pass.read # {} => pass.validity \in Validities
  BY <1>1, Constants DEF Validities
<1> QED BY <1>1, <1>2 DEF UidsOf, Importable, Unreadable, Envelopes

LEMMA ContinueTyped ==
    ASSUME Typed, NEW passed \in 0 .. MaxUid, Continue(passed)
    PROVE  pass' \in PassStates /\ PassInv' /\ cursor' \in NoCursor .. MaxUid
<1>1. pass \in PassStates /\ PassInv
  BY DEF Typed, TypeOK
<1>2. passed \in NoCursor .. MaxUid /\ passed + 1 \in 0 .. MaxUid + 1
  BY Constants DEF NoCursor
<1>3. CASE pass' = [pass EXCEPT !.from = passed + 1, !.phase = "fetch"]
  <2>1. pass' \in PassStates
    BY <1>1, <1>2, <1>3 DEF PassStates, Phases
  <2>2. pass'.phase = "fetch" /\ pass'.read = pass.read /\ pass'.validity = pass.validity
    BY <1>1, <1>3 DEF PassStates
  <2> QED BY <1>1, <1>2, <2>1, <2>2 DEF Continue, PassInv, Fetched
<1>4. CASE Done
  BY <1>2, <1>4, NoPassStep DEF Continue
<1> QED BY <1>3, <1>4 DEF Continue

LEMMA IngestTyped ==
    ASSUME Typed, \/ SkipRange \/ SkipUnreadable \/ UpsertRange \/ AdvanceRange
                  \/ UpsertNew \/ UpsertWindow \/ AdvanceNew
    PROVE  StepTyped
<1>1. pass \in PassStates /\ PassInv /\ place \in [Mail -> Places]
      /\ cursor \in NoCursor .. MaxUid
  BY DEF Typed, TypeOK
<1>2. Upserted \in [Mail -> Places]
  BY UpsertTyped DEF Typed
<1>3. missing \cup Unreadable \subseteq Validities \X Uids
  BY ReadTyped DEF Typed, TypeOK
<1>4. CASE SkipRange
  <2>1. pass' \in PassStates /\ PassInv' /\ cursor' \in NoCursor .. MaxUid
    <3>1. CASE cursor' = 0 /\ Done
      BY <3>1, NoPassStep, Constants DEF NoCursor
    <3>2. CASE Done /\ UNCHANGED cursor
      BY <1>1, <3>2, NoPassStep
    <3>3. CASE pass.upTo # 0 /\ pass.from <= pass.upTo
               /\ Continue(Smaller(pass.from + Batch - 1, pass.upTo))
      <4>1. pass.from \in 0 .. MaxUid + 1 /\ pass.upTo \in 0 .. MaxUid
        BY <1>1 DEF PassStates
      <4>2. Smaller(pass.from + Batch - 1, pass.upTo) \in 0 .. MaxUid
        BY <4>1, Constants DEF Smaller
      <4> QED BY <3>3, <4>2, ContinueTyped
    <3> QED BY <1>4, <3>1, <3>2, <3>3 DEF SkipRange
  <2>2. UNCHANGED <<stored, modseq, emailVars>>
    BY <1>4 DEF SkipRange
  <2> QED BY <2>1, <2>2 DEF StepTyped, Typed, TypeOK, emailVars
<1>5. CASE SkipUnreadable
  <2>1. Highest(UidsOf(pass.read)) \in 0 .. MaxUid
    BY <1>5, ReadTyped, HighestIn, Constants DEF SkipUnreadable, Uids
  <2>2. pass' \in PassStates /\ PassInv' /\ cursor' \in NoCursor .. MaxUid
    BY <1>5, <2>1, ContinueTyped DEF SkipUnreadable
  <2> QED BY <1>3, <1>5, <2>2 DEF SkipUnreadable, StepTyped, Typed, TypeOK
<1>6. CASE UpsertRange
  <2>1. pass' \in PassStates /\ PassInv'
    BY <1>6, GotoTyped DEF UpsertRange, Phases, Fetched
  <2> QED BY <1>2, <1>3, <1>6, <2>1 DEF UpsertRange, StepTyped, Typed, TypeOK, folderVars
<1>7. CASE AdvanceRange
  <2>1. Importable # {}
    BY <1>1, <1>7 DEF AdvanceRange, PassInv
  <2>2. UidsOf(Importable) \in SUBSET Uids /\ UidsOf(Importable) # {}
    BY <2>1, ReadTyped
  <2>3. Highest(UidsOf(Importable)) \in 0 .. MaxUid
    BY <2>2, HighestIn, Constants DEF Uids
  <2>4. pass' \in PassStates /\ PassInv' /\ cursor' \in NoCursor .. MaxUid
    BY <1>7, <2>3, ContinueTyped DEF AdvanceRange
  <2> QED BY <1>7, <2>4 DEF AdvanceRange, StepTyped, Typed, TypeOK, emailVars
<1>8. CASE UpsertNew
  <2>1. pass' \in PassStates /\ PassInv'
    <3>1. CASE Importable # {} /\ Goto("cursor")
      BY <1>8, <3>1, GotoTyped DEF UpsertNew, Phases, Fetched
    <3>2. CASE Goto("flags")
      BY <3>2, GotoTyped DEF Phases, Fetched
    <3> QED BY <1>8, <3>1, <3>2, NoPassStep DEF UpsertNew
  <2> QED BY <1>2, <1>8, <2>1 DEF UpsertNew, StepTyped, Typed, TypeOK, folderVars
<1>9. CASE UpsertWindow
  <2>1. pass' \in PassStates /\ PassInv'
    BY <1>9, NoPassStep DEF UpsertWindow
  <2> QED BY <1>2, <1>3, <1>9, <2>1 DEF UpsertWindow, StepTyped, Typed, TypeOK, folderVars
<1>10. CASE AdvanceNew
  <2>1. pass.found \in SUBSET Uids /\ pass.found # {}
    BY <1>1, <1>10, ReadTyped DEF AdvanceNew, PassInv, PassStates, Loops, Incremental, Fetched
  <2>2. Highest(pass.found) \in NoCursor .. MaxUid
    BY <2>1, HighestIn, Constants DEF Uids, NoCursor
  <2>3. pass' \in PassStates /\ PassInv'
    <3>1. CASE Goto("flags")
      BY <3>1, GotoTyped DEF Phases, Fetched
    <3> QED BY <1>10, <3>1, NoPassStep DEF AdvanceNew
  <2> QED BY <1>10, <2>2, <2>3 DEF AdvanceNew, StepTyped, Typed, TypeOK, emailVars
<1> QED BY <1>4, <1>5, <1>6, <1>7, <1>8, <1>9, <1>10

LEMMA ChangeTyped ==
    ASSUME Typed, ChangeStep \/ OrphanStep \/ Dies
    PROVE  StepTyped
<1>1. /\ pass \in PassStates /\ PassInv /\ place \in [Mail -> Places] /\ seen \in [Mail -> Mods]
      /\ mod \in [Mail -> Mods] /\ modseq \in Mods /\ stored \in 0 .. MaxValidity
      /\ box \in [Uids -> Mail \cup {NoMail}] /\ deleted \subseteq Mail
  BY DEF Typed, TypeOK
<1>2. CASE ReadChanged
  BY <1>2, AskTyped
<1>3. CASE Expunge
  <2>1. place' \in [Mail -> Places]
    BY <1>1, <1>3 DEF Expunge, Expunged, Places
  <2>2. pass' \in PassStates /\ PassInv'
    BY <1>3, GotoTyped, NoPassStep DEF Expunge, AfterExpunge, Phases, Fetched
  <2> QED BY <1>3, <2>1, <2>2 DEF Expunge, StepTyped, Typed, TypeOK, folderVars
<1>4. CASE UpdateFlags
  <2>1. 0 \in Mods /\ Raised(pass.newest) \in Mods
    BY <1>1, Constants DEF Mods, Raised, Larger, PassStates
  <2>2. seen' \in [Mail -> Mods]
    BY <1>1, <1>4, <2>1 DEF UpdateFlags
  <2> QED BY <1>4, <2>1, <2>2, NoPassStep DEF UpdateFlags, StepTyped, Typed, TypeOK
<1>5. ASSUME NEW m \in Mail, ImportBody(m) PROVE StepTyped
  <2>1. 0 \in Mods /\ mod[m] \in Mods /\ mod[box[place[m].uid]] \in Mods
    BY <1>1, <1>5, Constants DEF ImportBody, Served, Occupied, Mods
  <2>2. seen' \in [Mail -> Mods]
    BY <1>1, <1>5, <2>1 DEF ImportBody
  <2>3. modseq' \in Mods
    BY <1>1, <1>5, <2>1 DEF ImportBody, Raised, Larger
  <2> QED BY <1>1, <1>5, <2>2, <2>3 DEF ImportBody, StepTyped, Typed, TypeOK, PassInv, Importable, UidsOf
<1>6. ASSUME NEW m \in Mail, SearchOrphan(m) PROVE StepTyped
  <2>1. place' \in [Mail -> Places]
    <3>1. \A u \in Uids : Spot(stored, u) \in Places
      BY <1>1 DEF Spot, Places
    <3>2. Away \in Places
      BY DEF Places
    <3> QED BY <1>1, <1>6, <3>1, <3>2 DEF SearchOrphan
  <2>2. ASSUME NEW found \in BOOLEAN, Searched(m, found) PROVE pass' \in PassStates /\ PassInv'
    <3>1. pass.todo \ {m} \in SUBSET Mail /\ pass.lost \cup {m} \in SUBSET Mail
      BY <1>1 DEF PassStates
    <3>2. pass' \in PassStates
      BY <1>1, <2>2, <3>1 DEF Searched, PassStates, Phases
    <3>3. pass'.phase \in {"mark", "search"} /\ pass'.read = pass.read /\ pass'.validity = pass.validity
      BY <1>1, <1>6, <2>2 DEF SearchOrphan, Searched, PassStates
    <3> QED BY <1>1, <3>2, <3>3 DEF PassInv, Fetched
  <2>3. pass' \in PassStates /\ PassInv'
    BY <1>6, <2>2 DEF SearchOrphan
  <2> QED BY <1>6, <2>1, <2>3 DEF SearchOrphan, StepTyped, Typed, TypeOK, folderVars
<1>7. CASE MarkDeleted
  <2>1. deleted' \subseteq Mail
    BY <1>1, <1>7 DEF MarkDeleted, PassStates
  <2> QED BY <1>7, <2>1, NoPassStep DEF MarkDeleted, StepTyped, Typed, TypeOK, folderVars
<1>8. CASE Dies
  BY <1>8, NoPassStep, PassOnly DEF Dies
<1> QED BY <1>2, <1>3, <1>4, <1>5, <1>6, <1>7, <1>8 DEF ChangeStep, OrphanStep

LEMMA TypingStep == Typed /\ [Next]_vars => Typed'
<1> SUFFICES ASSUME Typed, [Next]_vars PROVE Typed'
  OBVIOUS
<1>1. CASE PassStep
  <2>1. StepTyped
    BY <1>1, BeginTyped, AskTyped, ResetTyped, IngestTyped, ChangeTyped
       DEF PassStep, LoopStep, NewStep
  <2>2. faults' \in 0 .. FaultBudget
    <3>1. Fault \/ NoFault
      BY <1>1 DEF PassStep, Begin, LoopStep, NewStep, ResetStep, ChangeStep, OrphanStep, Dies,
                  FetchRange, SkipRange, SkipUnreadable, UpsertRange, AdvanceRange, ListNew,
                  ListWindow, FetchUids, UpsertNew, UpsertWindow, AdvanceNew, StoreValidity,
                  ResetFolder, ClearUids, ReadChanged, Expunge, UpdateFlags, ImportBody,
                  SearchOrphan, MarkDeleted
    <3> QED BY <3>1, FaultTyped DEF Typed
  <2>3. torn' \in BOOLEAN /\ UNCHANGED <<serverVars, changes>>
    BY <1>1 DEF PassStep
  <2> QED BY <2>1, <2>2, <2>3 DEF StepTyped, Typed, TypeOK, serverVars
<1>2. CASE UNCHANGED vars
  BY <1>2 DEF vars, Typed, TypeOK, PassInv, Importable, UidsOf, serverVars, folderVars, emailVars
<1> QED BY <1>1, <1>2, ServerTyped DEF Next

LEMMA TypingInit == Init => Typed
<1> SUFFICES ASSUME Init PROVE Typed
  OBVIOUS
<1>1. pass \in PassStates
  BY NoPassTyped DEF Init
<1>2. PassInv
  BY DEF Init, PassInv, NoPass, Fetched
<1>3. TypeOK
  <2>1. /\ validity \in Validities /\ next \in 1 .. MaxUid + 1 /\ cursor \in NoCursor .. MaxUid
        /\ stored \in 0 .. MaxValidity /\ modseq \in Mods /\ changes \in 0 .. ChangeBudget
        /\ faults \in 0 .. FaultBudget /\ 0 \in Mods
    BY Constants DEF Init, Validities, Mods, NoCursor
  <2>2. place \in [Mail -> Places]
    BY DEF Init, Places
  <2> QED BY <1>1, <2>1, <2>2 DEF Init, TypeOK
<1> QED BY <1>2, <1>3 DEF Typed

\* Every reachable state is well typed: in particular the cursor a pass stores is a UID
\* it has seen, or none, whatever the mailbox and the faults do to the pass
\* (mailbox_sync_runtime.rs).
THEOREM Typing == Spec => []TypeOK
<1>1. Typed => TypeOK
  BY DEF Typed
<1> QED BY <1>1, TypingInit, TypingStep, PTL DEF Spec

------------------------------------------------------------------------------
(* Rows name their mail. What a pass has read it has read of a UID the server *)
(* gave to that message under the UIDVALIDITY the pass holds, and the server   *)
(* gives a UID once; only a row of the present UIDVALIDITY need be true, and   *)
(* none is of a later one.                                                     *)

ServerInv ==
    /\ \A u \in Uids : box[u] # NoMail => origin[validity][u] = box[u]
    /\ \A u \in Uids : u >= next => origin[validity][u] = NoMail
    /\ \A v \in Validities, u \in Uids : v > validity => origin[v][u] = NoMail

ReadInv ==
    /\ pass.validity <= validity
    /\ \A e \in pass.read : origin[pass.validity][e.uid] = e.mail
    /\ pass.phase = "list" => pass.read = {}

RowInv ==
    /\ stored <= validity
    /\ \A m \in Mail : Here(m) => place[m].validity <= validity
    /\ RowsNameTheirMail

NamesInv == ServerInv /\ ReadInv /\ RowInv

LEMMA ServerNames ==
    ASSUME Typed, NamesInv, ServerStep
    PROVE  NamesInv'
<1>1. /\ validity \in Validities /\ validity \in Int /\ next \in 1 .. MaxUid + 1 /\ next \in Int
      /\ box \in [Uids -> Mail \cup {NoMail}] /\ pass \in PassStates /\ stored \in Int
      /\ origin \in [Validities -> [Uids -> Mail \cup {NoMail}]]
      /\ place \in [Mail -> Places] /\ pass.validity \in Int
      /\ \A m \in Mail : Here(m) => place[m].validity \in Int
      /\ \A u \in Uids : u \in Int
      /\ \A v \in Validities : v \in Int
  <2>1. \A m \in Mail : Here(m) => place[m].validity \in Int
    BY DEF Typed, TypeOK, Here, Places, Unknown, Away, Orphan
  <2>2. validity \in Int /\ next \in Int /\ stored \in Int
    BY Constants DEF Typed, TypeOK, Validities
  <2>3. pass.validity \in Int
    BY DEF Typed, TypeOK, PassStates
  <2>4. (\A u \in Uids : u \in Int) /\ \A v \in Validities : v \in Int
    BY DEF Validities, Uids
  <2> QED BY <2>1, <2>2, <2>3, <2>4 DEF Typed, TypeOK
<1>2. UNCHANGED <<stored, place, pass>>
  BY DEF ServerStep, folderVars, emailVars
<1>3. \A e \in pass.read : e.mail \in Mail /\ e.uid \in Uids /\ pass.validity \in Validities
  BY <1>1, Constants DEF PassStates, Envelopes, Typed, PassInv, Validities
<1>4. ASSUME ServerInv', validity' = validity,
             \A v \in Validities, u \in Uids : origin[v][u] # NoMail => origin'[v][u] = origin[v][u]
      PROVE  NamesInv'
  <2>1. ReadInv'
    <3>1. \A e \in pass.read : origin'[pass.validity][e.uid] = e.mail
      BY <1>3, <1>4, MailAssumption DEF NamesInv, ReadInv
    <3> QED BY <1>2, <1>4, <3>1 DEF NamesInv, ReadInv
  <2>2. RowInv'
    <3>1. RowsNameTheirMail'
      BY <1>1, <1>2, <1>4, MailAssumption DEF NamesInv, RowInv, RowsNameTheirMail
    <3> QED BY <1>2, <1>4, <3>1 DEF NamesInv, RowInv, Here
  <2> QED BY <1>4, <2>1, <2>2 DEF NamesInv
<1>5. ASSUME NEW m \in Mail, Put(m), validity' = validity PROVE NamesInv'
  <2>1. next \in Uids
    BY <1>1, <1>5 DEF Put, Uids
  <2>2. origin[validity][next] = NoMail
    BY <1>1, <2>1 DEF NamesInv, ServerInv
  <2>3. /\ origin' = [origin EXCEPT ![validity][next] = m]
        /\ box' = [box EXCEPT ![next] = m] /\ next' = next + 1
    BY <1>5 DEF Put
  <2>4. \A v \in Validities, u \in Uids :
          origin'[v][u] = IF v = validity /\ u = next THEN m ELSE origin[v][u]
    BY <1>1, <2>1, <2>3
  <2>5. \A u \in Uids : box'[u] = IF u = next THEN m ELSE box[u]
    BY <1>1, <2>1, <2>3
  <2>6. ServerInv'
    <3>1. \A u \in Uids : box'[u] # NoMail => origin'[validity][u] = box'[u]
      BY <1>1, <2>4, <2>5 DEF NamesInv, ServerInv
    <3>2. \A u \in Uids : u >= next + 1 => origin'[validity][u] = NoMail
      BY <1>1, <2>4 DEF NamesInv, ServerInv
    <3>3. \A v \in Validities, u \in Uids : v > validity => origin'[v][u] = NoMail
      BY <1>1, <2>4 DEF NamesInv, ServerInv
    <3> QED BY <1>5, <2>3, <3>1, <3>2, <3>3 DEF ServerInv
  <2> QED BY <1>4, <1>5, <2>2, <2>4, <2>6
<1>6. ASSUME NEW u \in Uids, Leave(u) \/ Touch(u) PROVE NamesInv'
  <2>1. UNCHANGED <<validity, next, origin>> /\ \A w \in Uids : box'[w] \in {NoMail, box[w]}
    BY <1>1, <1>6 DEF Leave, Touch
  <2>2. ServerInv'
    BY <2>1 DEF NamesInv, ServerInv
  <2> QED BY <1>4, <2>1, <2>2
<1>7. CASE Recreate
  <2>1. /\ validity' = validity + 1 /\ validity' \in Validities /\ next' = 1 /\ origin' = origin
        /\ \A u \in Uids : box'[u] = NoMail
    BY <1>1, <1>7, Constants DEF Recreate, Validities
  <2>2. ServerInv'
    BY <1>1, <2>1 DEF NamesInv, ServerInv
  <2>3. ReadInv'
    BY <1>1, <1>2, <2>1 DEF NamesInv, ReadInv
  <2>4. RowInv'
    <3>1. \A m \in Mail, u \in Uids : place[m] # Spot(validity + 1, u)
      <4> SUFFICES ASSUME NEW m \in Mail, NEW u \in Uids, place[m] = Spot(validity + 1, u)
                   PROVE  FALSE
        OBVIOUS
      <4>1. place[m].at = "box" /\ place[m].validity = validity + 1
        BY DEF Spot
      <4> QED BY <1>1, <4>1 DEF NamesInv, RowInv, Here
    <3>2. RowsNameTheirMail'
      BY <1>2, <2>1, <3>1 DEF RowsNameTheirMail, Spot
    <3>3. \A m \in Mail : Here(m) => place[m].validity <= validity + 1
      BY <1>1 DEF NamesInv, RowInv
    <3> QED BY <1>1, <1>2, <2>1, <3>2, <3>3 DEF NamesInv, RowInv, Here
  <2> QED BY <2>2, <2>3, <2>4 DEF NamesInv
<1>8. \A m \in Mail : Deliver(m) \/ MoveBack(m) => Put(m) /\ validity' = validity
  BY DEF Deliver, MoveBack
<1> QED BY <1>5, <1>6, <1>7, <1>8 DEF ServerStep

\* What a pass holds after a step: nothing, what it held, or what it has just read.
PassReads ==
    \/ pass'.read = {} /\ pass'.validity \in {0, validity}
    \/ pass'.read = pass.read /\ pass'.validity = pass.validity /\ pass'.phase # "list"
    \/ /\ pass'.read \subseteq EnvelopesOf(Uids) /\ pass'.validity = validity
       /\ pass'.phase # "list"

LEMMA PassReadsStep ==
    ASSUME Typed, ReadInv, PassStep
    PROVE  PassReads
<1>1. pass \in PassStates
  BY DEF Typed, TypeOK
<1>2. CASE Done
  BY <1>2 DEF Done, NoPass, PassReads
<1>3. ASSUME NEW phase \in Phases \ {"list"}, Goto(phase) PROVE PassReads
  BY <1>1, <1>3 DEF Goto, PassStates, PassReads
<1>4. CASE Begin
  BY <1>4 DEF Begin, BeginFull, BeginPlain, BeginWindow, BeginOrphans, BeginIncremental, Begun,
              NoPass, PassReads
<1>5. CASE ListNew
  <2>1. pass.read = {}
    BY <1>5 DEF ListNew, ReadInv
  <2>2. pass' = NoPass \/ (pass'.read = pass.read /\ pass'.validity = validity)
    BY <1>1, <1>5 DEF ListNew, Listed, PassStates
  <2> QED BY <2>1, <2>2 DEF NoPass, PassReads
<1>6. CASE ListWindow
  BY <1>1, <1>2, <1>6 DEF ListWindow, PassStates, PassReads
<1>7. CASE ReadChanged
  BY <1>1, <1>2, <1>7 DEF ReadChanged, ChangedAre, PassStates, PassReads
<1>8. CASE FetchRange \/ FetchUids
  <2>1. \A uids : EnvelopesOf(uids) \subseteq EnvelopesOf(Uids)
    BY DEF EnvelopesOf, Occupied
  <2>2. \/ pass'.read = {} /\ pass'.validity = 0
        \/ /\ \E uids : pass'.read = EnvelopesOf(uids)
           /\ pass'.validity = validity /\ pass'.phase = "store"
    BY <1>1, <1>8, ZenonT(40) DEF FetchRange, FetchUids, PassStates
  <2> QED BY <2>1, <2>2 DEF PassReads
<1>9. CASE ClearUids
  BY <1>1, <1>2, <1>9 DEF ClearUids, PassStates, PassReads
<1>10. ASSUME NEW passed, Continue(passed) PROVE PassReads
  BY <1>1, <1>2, <1>10 DEF Continue, PassStates, PassReads
<1>11. ASSUME NEW m \in Mail, SearchOrphan(m) PROVE PassReads
  BY <1>1, <1>11 DEF SearchOrphan, Searched, PassStates, PassReads
<1>12. ASSUME NEW m \in Mail, ImportBody(m) PROVE PassReads
  BY <1>12 DEF ImportBody, PassReads
<1>13. CASE StoreValidity \/ ResetFolder \/ Expunge \/ UpsertRange
  BY <1>2, <1>3, <1>13 DEF StoreValidity, ResetFolder, Expunge, AfterExpunge, UpsertRange, Phases
<1>14. CASE SkipRange \/ SkipUnreadable \/ AdvanceRange
  BY <1>2, <1>10, <1>14 DEF SkipRange, SkipUnreadable, AdvanceRange
<1>15. CASE UpsertNew \/ UpsertWindow \/ AdvanceNew \/ UpdateFlags \/ MarkDeleted \/ Dies
  BY <1>2, <1>3, <1>15 DEF UpsertNew, UpsertWindow, AdvanceNew, UpdateFlags, MarkDeleted, Dies, Phases
<1> QED BY <1>4, <1>5, <1>6, <1>7, <1>8, <1>9, <1>11, <1>12, <1>13, <1>14, <1>15
        DEF PassStep, LoopStep, NewStep, ResetStep, ChangeStep, OrphanStep

\* Where a step can have put a row.
RowMoves(m) ==
    \/ place'[m] = place[m]
    \/ place'[m].at # "box"
    \/ \E e \in pass.read : e.mail = m /\ place'[m] = Spot(pass.validity, e.uid)
    \/ \E u \in Uids : box[u] = m /\ place'[m] = Spot(stored, u)

LEMMA UpsertMoves ==
    ASSUME Typed, place' = Upserted
    PROVE  \A m \in Mail : RowMoves(m)
<1>0. ASSUME NEW m \in Mail, ~\E e \in Importable : e.mail = m
      PROVE  RowMoves(m)
  <2>1. place'[m] = place[m]
    BY <1>0 DEF Upserted
  <2> QED BY <2>1 DEF RowMoves
<1> SUFFICES ASSUME NEW m \in Mail, NEW e \in Importable, e.mail = m
             PROVE  RowMoves(m)
  BY <1>0
<1> DEFINE S == {x.uid : x \in {y \in Importable : y.mail = m}}
<1>1. S \in SUBSET Uids /\ S # {}
  <2>1. pass.read \in SUBSET Envelopes
    BY DEF Typed, TypeOK, PassStates
  <2>2. \A y \in Importable : y.uid \in Uids
    BY <2>1 DEF Importable, Envelopes
  <2>3. e.uid \in S
    OBVIOUS
  <2> QED BY <2>2, <2>3
<1>2. Highest(S) \in S
  BY <1>1, HighestIn
<1>3. PICK x \in pass.read : x.mail = m /\ x.uid = Highest(S)
  BY <1>2 DEF Importable
<1>4. place'[m] = Spot(pass.validity, Highest(S))
  BY DEF Upserted
<1> QED BY <1>3, <1>4 DEF RowMoves

LEMMA RowsMove ==
    ASSUME Typed, PassStep
    PROVE  \A m \in Mail : RowMoves(m)
<1>1. place \in [Mail -> Places]
  BY DEF Typed, TypeOK
<1>2. CASE UNCHANGED place
  BY <1>2 DEF RowMoves
<1>3. CASE UNCHANGED emailVars
  BY <1>2, <1>3 DEF emailVars
<1>4. CASE ClearUids \/ Expunge
  BY <1>1, <1>4 DEF ClearUids, Cleared, Expunge, Expunged, Orphan, Away, RowMoves
<1>5. ASSUME NEW m \in Mail, SearchOrphan(m) PROVE \A m2 \in Mail : RowMoves(m2)
  <2>1. \/ UNCHANGED place
        \/ place' = [place EXCEPT ![m] = Away]
        \/ \E u \in Uids : box[u] = m /\ place' = [place EXCEPT ![m] = Spot(stored, u)]
    BY <1>5 DEF SearchOrphan
  <2>2. Away.at # "box"
    BY DEF Away
  <2> QED BY <1>1, <2>1, <2>2 DEF RowMoves
<1>6. ASSUME NEW m \in Mail, ImportBody(m) PROVE UNCHANGED place
  BY <1>6 DEF ImportBody
<1>7. CASE Begin \/ ListNew \/ ListWindow \/ ReadChanged \/ FetchRange \/ FetchUids \/ StoreValidity
           \/ ResetFolder \/ SkipRange \/ AdvanceRange \/ AdvanceNew \/ Dies
  BY <1>3, <1>7 DEF Begin, BeginFull, BeginPlain, BeginWindow, BeginOrphans, BeginIncremental, ListNew,
              ListWindow, ReadChanged, FetchRange, FetchUids, StoreValidity, ResetFolder, SkipRange,
              AdvanceRange, AdvanceNew, Dies
<1>8. CASE SkipUnreadable \/ UpdateFlags \/ MarkDeleted
  BY <1>2, <1>8 DEF SkipUnreadable, UpdateFlags, MarkDeleted
<1>9. CASE UpsertRange \/ UpsertNew \/ UpsertWindow
  BY <1>9, UpsertMoves DEF UpsertRange, UpsertNew, UpsertWindow
<1> QED BY <1>2, <1>4, <1>5, <1>6, <1>7, <1>8, <1>9
        DEF PassStep, LoopStep, NewStep, ResetStep, ChangeStep, OrphanStep

LEMMA PassNames ==
    ASSUME Typed, NamesInv, PassStep
    PROVE  NamesInv'
<1>1. /\ validity \in Validities /\ validity \in Int /\ validity >= 1
      /\ pass \in PassStates /\ pass.validity \in Int /\ stored \in Int
      /\ PassInv
  <2>1. pass.validity \in Int
    BY DEF Typed, TypeOK, PassStates
  <2> QED BY <2>1, Constants DEF Typed, TypeOK, Validities
<1>2. UNCHANGED <<validity, box, next, origin>>
  BY DEF PassStep, serverVars
<1>3. ServerInv'
  BY <1>2 DEF NamesInv, ServerInv
<1>4. PassReads
  BY PassReadsStep DEF NamesInv
<1>5. ReadInv'
  <2>1. CASE pass'.read = {} /\ pass'.validity \in {0, validity}
    BY <1>1, <1>2, <2>1 DEF ReadInv
  <2>2. CASE pass'.read = pass.read /\ pass'.validity = pass.validity /\ pass'.phase # "list"
    BY <1>2, <2>2 DEF NamesInv, ReadInv
  <2>3. CASE pass'.read \subseteq EnvelopesOf(Uids) /\ pass'.validity = validity
             /\ pass'.phase # "list"
    <3>1. \A e \in EnvelopesOf(Uids) : origin[validity][e.uid] = e.mail
      BY DEF EnvelopesOf, Occupied, NamesInv, ServerInv
    <3> QED BY <1>1, <1>2, <2>3, <3>1 DEF ReadInv
  <2> QED BY <1>4, <2>1, <2>2, <2>3 DEF PassReads
<1>6. stored' <= validity
  <2>1. stored' \in {stored, pass.validity}
    BY DEF PassStep, Begin, BeginFull, BeginPlain, BeginWindow, BeginOrphans, BeginIncremental, LoopStep,
           NewStep, ResetStep, ChangeStep, OrphanStep, ListNew, ListWindow, ReadChanged, FetchRange,
           FetchUids, StoreValidity, ResetFolder, ClearUids, SkipRange, SkipUnreadable, UpsertRange,
           UpsertNew, UpsertWindow, AdvanceRange, AdvanceNew, Expunge, UpdateFlags, ImportBody,
           SearchOrphan, MarkDeleted, Dies, folderVars
  <2> QED BY <2>1 DEF NamesInv, RowInv, ReadInv
<1>7. ASSUME NEW m \in Mail
      PROVE  /\ Here(m)' => place'[m].validity <= validity
             /\ \A u \in Uids : place'[m] = Spot(validity, u) => origin[validity][u] = m
  <2> DEFINE Truthful == /\ Here(m)' => place'[m].validity <= validity
                         /\ \A u \in Uids : place'[m] = Spot(validity, u) => origin[validity][u] = m
  <2>1. RowMoves(m)
    BY RowsMove
  <2>2. CASE place'[m] = place[m]
    BY <2>2 DEF NamesInv, RowInv, RowsNameTheirMail, Here
  <2>3. CASE place'[m].at # "box"
    BY <2>3 DEF Here, Spot
  <2>4. ASSUME NEW e \in pass.read, e.mail = m, place'[m] = Spot(pass.validity, e.uid)
        PROVE  Truthful
    <3>1. place'[m].validity = pass.validity /\ place'[m].uid = e.uid
      BY <2>4 DEF Spot
    <3>2. \A u \in Uids : place'[m] = Spot(validity, u) => pass.validity = validity /\ e.uid = u
      BY <3>1 DEF Spot
    <3> QED BY <2>4, <3>1, <3>2 DEF NamesInv, ReadInv
  <2>5. ASSUME NEW w \in Uids, box[w] = m, place'[m] = Spot(stored, w)
        PROVE  Truthful
    <3>1. place'[m].validity = stored /\ place'[m].uid = w
      BY <2>5 DEF Spot
    <3>2. \A u \in Uids : place'[m] = Spot(validity, u) => w = u
      BY <3>1 DEF Spot
    <3> QED BY <2>5, <3>1, <3>2, MailAssumption DEF NamesInv, ServerInv, RowInv
  <2> QED BY <2>1, <2>2, <2>3, <2>4, <2>5 DEF RowMoves
<1>8. RowInv'
  BY <1>2, <1>6, <1>7 DEF RowInv, RowsNameTheirMail, Here, Spot
<1> QED BY <1>3, <1>5, <1>8 DEF NamesInv

LEMMA NamesInit == Init => NamesInv
<1> SUFFICES ASSUME Init PROVE NamesInv
  OBVIOUS
<1>1. ServerInv
  BY Constants DEF Init, ServerInv, Validities
<1>2. ReadInv
  BY DEF Init, ReadInv, NoPass
<1>3. RowInv
  BY DEF Init, RowInv, RowsNameTheirMail, Here, Unknown, Spot
<1> QED BY <1>1, <1>2, <1>3 DEF NamesInv

LEMMA NamesStep == Typed /\ NamesInv /\ [Next]_vars => NamesInv'
<1>1. ASSUME Typed, NamesInv, UNCHANGED vars PROVE NamesInv'
  <2>1. UNCHANGED <<validity, box, next, origin, stored, place, pass>>
    BY <1>1 DEF vars, serverVars, folderVars, emailVars
  <2> QED BY <1>1, <2>1 DEF NamesInv, ServerInv, ReadInv, RowInv, RowsNameTheirMail, Here, Spot
<1> QED BY <1>1, ServerNames, PassNames DEF Next

\* A row that names the mailbox's present UIDVALIDITY names a UID that was given to its
\* message, for any batch size and any number of messages and of recreated mailboxes:
\* no pass writes a UID it read under another UIDVALIDITY than the one it writes with
\* it (mailbox_sync_runtime.rs, database/mailbox_sync.rs).
THEOREM NamesHold == Spec => []RowsNameTheirMail
<1>1. NamesInv => RowsNameTheirMail
  BY DEF NamesInv, RowInv
<1> QED BY <1>1, NamesInit, NamesStep, TypingInit, TypingStep, PTL DEF Spec

------------------------------------------------------------------------------
(* No mail is skipped. Sound is when the cursor's promise is owed, Fresh a pass *)
(* that read the mailbox which is there now.                                    *)

Sound == stored = validity /\ cursor # NoCursor /\ pass.phase # "reset" /\ ~torn
Placed(u) == box[u] # NoMail /\ box[u] \notin Blank => place[box[u]] = Spot(validity, u)
Envelope(u) == [uid |-> u, mail |-> box[u]]
Fresh == pass.validity = validity

\* A message is in one place, and has one UID among what a pass has read.
OnceInv ==
    /\ \A u, w \in Uids : box[u] = box[w] /\ box[u] # NoMail => u = w
    /\ \A u \in Uids : box[u] \notin elsewhere
    /\ \A e, f \in pass.read : e.mail = f.mail => e.uid = f.uid

\* The cursor: what it promises, that it is within the mailbox, and that a folder
\* without a UIDVALIDITY on record, or about to be cleared, promises nothing.
CursorInv ==
    /\ Sound => cursor < next /\ \A u \in Uids : u <= cursor => Placed(u)
    /\ stored = 0 => cursor <= 0
    /\ pass.phase = "clear" => cursor = NoCursor

\* A pass that has read something writes it under the UIDVALIDITY on record, and no
\* message it read has since come back at or behind the cursor.
StoredInv ==
    /\ pass.phase \in {"ingest", "cursor"} /\ pass.validity # 0 => stored = pass.validity
    /\ pass.phase \in Fetched /\ Sound /\ Fresh =>
         \A e \in pass.read, u \in Uids : box[u] = e.mail /\ u # e.uid => u > cursor
    /\ pass.phase = "cursor" /\ Fresh =>
         \A e \in Importable : box[e.uid] = e.mail => place[e.mail] = Spot(validity, e.uid)

\* A looping pass goes on behind the cursor and has read all there is in its range.
LoopInv ==
    Loops(pass.kind) =>
      /\ pass.phase \in {"idle", "fetch"} \cup Fetched
      /\ pass.phase \in {"fetch", "store", "ingest", "cursor"} =>
           (cursor = NoCursor /\ pass.from = 1) \/ cursor = pass.from - 1
      /\ pass.phase \in {"store", "ingest", "cursor"} =>
           /\ pass.validity = 0 => pass.upTo = 0
           /\ \A e \in pass.read :
                pass.from <= e.uid /\ e.uid < pass.from + Batch /\ e.uid <= pass.upTo
           /\ Fresh => /\ pass.upTo < next
                       /\ \A u \in Uids : /\ box[u] # NoMail /\ u <= pass.upTo
                                          /\ pass.from <= u /\ u < pass.from + Batch
                                          => Envelope(u) \in pass.read

\* What an incremental pass has found leaves no gap behind the last of it.
Gapless ==
    \A w \in pass.found :
        /\ pass.from < w /\ w < next
        /\ \A u \in Uids : box[u] # NoMail /\ pass.from < u /\ u < w => u \in pass.found
Complete ==
    Gapless /\ \A u \in pass.found : box[u] # NoMail => Envelope(u) \in pass.read

NewInv ==
    Incremental(pass.kind) =>
      /\ pass.phase \in {"list", "changed", "expunge", "fetch", "store", "ingest", "cursor"} =>
           cursor = pass.from /\ cursor # NoCursor
      /\ pass.phase \in {"changed", "expunge", "fetch"} =>
           stored <= pass.validity /\ (Fresh /\ ~torn => Gapless)
      /\ pass.phase = "store" /\ Fresh /\ ~torn => Complete \/ stored \notin {0, validity}
      /\ pass.phase \in {"ingest", "cursor"} /\ Fresh /\ ~torn => Complete

SkipInv == OnceInv /\ CursorInv /\ StoredInv /\ LoopInv /\ NewInv

LEMMA Facts ==
    ASSUME Typed, NamesInv
    PROVE  /\ validity \in Int /\ validity >= 1 /\ next \in Int /\ next >= 1 /\ Batch \in Int /\ Batch >= 1
           /\ cursor \in Int /\ cursor >= NoCursor /\ NoCursor = -1
           /\ stored \in Int /\ stored >= 0 /\ stored <= validity
           /\ pass \in PassStates /\ PassInv
           /\ pass.from \in Int /\ pass.from >= 0 /\ pass.upTo \in Int /\ pass.upTo >= 0
           /\ pass.validity \in Int /\ pass.validity >= 0 /\ pass.validity <= validity
           /\ pass.found \in SUBSET Uids
           /\ \A e \in pass.read : e.uid \in Uids /\ e.mail \in Mail /\ e.mail # NoMail
           /\ \A u \in Uids : u \in Int /\ u >= 1
           /\ \A u \in Uids : box[u] # NoMail => u < next
           /\ Fresh => \A e \in pass.read : e.uid < next
<1>1. /\ validity \in Int /\ validity >= 1 /\ next \in Int /\ next >= 1
      /\ cursor \in Int /\ cursor >= NoCursor /\ NoCursor = -1 /\ stored \in Int /\ stored >= 0
      /\ pass \in PassStates /\ PassInv /\ \A u \in Uids : u \in Int /\ u >= 1
  BY Constants DEF Typed, TypeOK, NoCursor, Validities, Uids
<1>2. /\ pass.from \in Int /\ pass.from >= 0 /\ pass.upTo \in Int /\ pass.upTo >= 0
      /\ pass.validity \in Int /\ pass.validity >= 0
  <2>1. pass.from \in 0 .. MaxUid + 1 /\ pass.upTo \in 0 .. MaxUid /\ pass.validity \in 0 .. MaxValidity
    BY <1>1 DEF PassStates
  <2> QED BY <2>1, Constants
<1>3. /\ pass.found \in SUBSET Uids
      /\ \A e \in pass.read : e.uid \in Uids /\ e.mail \in Mail /\ e.mail # NoMail
  BY <1>1, MailAssumption DEF PassStates, Envelopes
<1>4. stored <= validity /\ pass.validity <= validity
  BY DEF NamesInv, ReadInv, RowInv
<1>5. \A u \in Uids : box[u] # NoMail => u < next
  BY <1>1 DEF NamesInv, ServerInv
<1>6. ASSUME Fresh, NEW e \in pass.read PROVE e.uid < next
  BY <1>1, <1>3, <1>6 DEF Fresh, NamesInv, ReadInv, ServerInv
<1> QED BY <1>1, <1>2, <1>3, <1>4, <1>5, <1>6, Constants

\* The server gives only UIDs that no pass can have read, found or passed.
LEMMA ServerKeeps ==
    ASSUME Typed, NamesInv, SkipInv, validity' = validity, next' \in Int, next <= next',
           \A u \in Uids : u < next => box'[u] \in {NoMail, box[u]},
           UNCHANGED <<stored, cursor, place, pass, torn>>
    PROVE  CursorInv' /\ StoredInv' /\ LoopInv' /\ NewInv'
<1>1. Fresh' = Fresh /\ Sound' = Sound
  BY DEF Fresh, Sound
<1>2. CursorInv'
  <2>1. ASSUME Sound, NEW u \in Uids, u <= cursor PROVE Placed(u)'
    BY <2>1, Facts DEF SkipInv, CursorInv, Placed, Spot
  <2>2. Sound => cursor < next'
    BY Facts DEF SkipInv, CursorInv
  <2> QED BY <1>1, <2>1, <2>2 DEF SkipInv, CursorInv
<1>3. StoredInv'
  <2>1. ASSUME pass.phase \in Fetched, Sound, Fresh, NEW e \in pass.read, NEW u \in Uids,
               box'[u] = e.mail, u # e.uid
        PROVE  u > cursor
    <3>1. CASE u < next
      BY <2>1, <3>1, Facts DEF SkipInv, StoredInv
    <3>2. CASE u >= next
      BY <2>1, <3>2, Facts DEF SkipInv, CursorInv
    <3> QED BY <3>1, <3>2, Facts
  <2>2. ASSUME pass.phase = "cursor", Fresh, NEW e \in Importable, box'[e.uid] = e.mail
        PROVE  place[e.mail] = Spot(validity, e.uid)
    BY <2>2, Facts DEF SkipInv, StoredInv, Importable
  <2>3. Importable' = Importable
    BY DEF Importable
  <2> QED BY <1>1, <2>1, <2>2, <2>3 DEF SkipInv, StoredInv, Spot
<1>4. LoopInv'
  <2>1. ASSUME Fresh, pass.upTo < next, NEW u \in Uids, box'[u] # NoMail, u <= pass.upTo
        PROVE  box'[u] = box[u] /\ Envelope(u)' = Envelope(u)
    BY <2>1, Facts DEF Envelope
  <2> QED BY <1>1, <2>1, Facts DEF SkipInv, LoopInv
<1>5. NewInv'
  <2>1. Gapless => Gapless'
    BY Facts DEF Gapless
  <2>2. Complete => Complete'
    BY <2>1, Facts DEF Complete, Gapless, Envelope
  <2> QED BY <1>1, <2>1, <2>2 DEF SkipInv, NewInv
<1> QED BY <1>2, <1>3, <1>4, <1>5

LEMMA ServerSkips ==
    ASSUME Typed, NamesInv, SkipInv, ServerStep
    PROVE  SkipInv'
<1>1. /\ UNCHANGED <<stored, cursor, place, pass, torn>>
      /\ box \in [Uids -> Mail \cup {NoMail}] /\ elsewhere \subseteq Mail
  BY DEF ServerStep, folderVars, emailVars, Typed, TypeOK
<1>2. /\ \A u, w \in Uids : box[u] = box[w] /\ box[u] # NoMail => u = w
      /\ \A u \in Uids : box[u] \notin elsewhere
      /\ \A e, f \in pass.read : e.mail = f.mail => e.uid = f.uid
  BY DEF SkipInv, OnceInv
<1>3. ASSUME NEW m \in Mail, Put(m), \A u \in Uids : box[u] # m, m \notin elsewhere',
             elsewhere' \subseteq elsewhere, validity' = validity
      PROVE  SkipInv'
  <2>1. next \in Uids /\ box' = [box EXCEPT ![next] = m] /\ next' = next + 1
    BY <1>3, Facts DEF Put, Uids
  <2>2. OnceInv'
    BY <1>1, <1>2, <1>3, <2>1 DEF OnceInv
  <2>3. CursorInv' /\ StoredInv' /\ LoopInv' /\ NewInv'
    BY <1>1, <1>3, <2>1, ServerKeeps, Facts
  <2> QED BY <2>2, <2>3 DEF SkipInv
<1>4. ASSUME NEW u \in Uids, Leave(u) \/ Touch(u) PROVE SkipInv'
  <2>1. validity' = validity /\ next' = next /\ \A w \in Uids : box'[w] \in {NoMail, box[w]}
    BY <1>1, <1>4 DEF Leave, Touch
  <2>2. OnceInv'
    <3>1. ASSUME NEW w \in Uids PROVE box'[w] \notin elsewhere'
      BY <1>1, <1>2, <1>4, MailAssumption DEF Leave, Touch
    <3> QED BY <1>1, <1>2, <2>1, <3>1 DEF OnceInv
  <2>3. CursorInv' /\ StoredInv' /\ LoopInv' /\ NewInv'
    BY <1>1, <2>1, ServerKeeps, Facts
  <2> QED BY <2>2, <2>3 DEF SkipInv
<1>5. CASE Recreate
  <2>1. validity' = validity + 1 /\ elsewhere' = elsewhere /\ \A u \in Uids : box'[u] = NoMail
    BY <1>5 DEF Recreate
  <2>2. ~Sound' /\ ~Fresh'
    BY <1>1, <2>1, Facts DEF Sound, Fresh
  <2>3. OnceInv'
    BY <1>1, <1>2, <2>1, MailAssumption DEF OnceInv
  <2>4. CursorInv' /\ StoredInv' /\ LoopInv' /\ NewInv'
    BY <1>1, <2>2 DEF SkipInv, CursorInv, StoredInv, LoopInv, NewInv
  <2> QED BY <2>3, <2>4 DEF SkipInv
<1>6. ASSUME NEW m \in Mail, Deliver(m) \/ MoveBack(m)
      PROVE  /\ Put(m) /\ validity' = validity /\ elsewhere' \subseteq elsewhere
             /\ m \notin elsewhere' /\ \A u \in Uids : box[u] # m
  BY <1>2, <1>6 DEF Deliver, MoveBack
<1> QED BY <1>3, <1>4, <1>5, <1>6 DEF ServerStep

------------------------------------------------------------------------------
(* The steps of a pass keep SkipInv: first what they share. *)

\* What PassStep says beside the action it takes.
Around ==
    /\ torn' = (cursor' # NoCursor /\ (torn \/ Tears))
    /\ UNCHANGED <<validity, box, next, elsewhere>>

Ready == Typed /\ NamesInv /\ SkipInv /\ Around

LEMMA OncePass ==
    ASSUME Typed, NamesInv, OnceInv, PassStep
    PROVE  OnceInv'
<1>1. UNCHANGED <<box, elsewhere>> /\ box \in [Uids -> Mail \cup {NoMail}]
  BY DEF PassStep, serverVars, Typed, TypeOK
<1>2. PassReads
  BY PassReadsStep DEF NamesInv
<1>3. \A e, f \in EnvelopesOf(Uids) : e.mail = f.mail => e.uid = f.uid
  BY DEF EnvelopesOf, Occupied, OnceInv
<1>4. \A e, f \in pass'.read : e.mail = f.mail => e.uid = f.uid
  BY <1>2, <1>3 DEF PassReads, OnceInv
<1> QED BY <1>1, <1>4 DEF OnceInv

LEMMA GotoFacts ==
    ASSUME Typed, NEW phase, Goto(phase)
    PROVE  /\ pass'.phase = phase /\ pass'.kind = pass.kind /\ pass'.from = pass.from
           /\ pass'.found = pass.found /\ pass'.read = pass.read /\ pass'.upTo = pass.upTo
           /\ pass'.validity = pass.validity
BY DEF Goto, Typed, TypeOK, PassStates

\* A pass that has ended owes nothing but the cursor's promise.
LEMMA DoneSkips ==
    ASSUME Done
    PROVE  /\ pass'.phase = "idle"
           /\ StoredInv' /\ LoopInv' /\ NewInv'
<1>1. pass'.phase = "idle" /\ pass'.kind = "full"
  BY DEF Done, NoPass
<1> QED BY <1>1 DEF StoredInv, LoopInv, NewInv, Loops, Incremental, Fetched

\* A step that leaves the rows, the cursor and the UIDVALIDITY on record alone.
LEMMA QuietCursor ==
    ASSUME Ready, UNCHANGED <<stored, cursor, place>>,
           pass.phase = "reset" => cursor = NoCursor \/ torn',
           pass'.phase = "clear" => pass.phase = "clear"
    PROVE  CursorInv' /\ (Sound' => Sound)
<1>1. Sound' => Sound
  BY DEF Ready, Around, Sound
<1> QED BY <1>1 DEF Ready, SkipInv, CursorInv, Around, Placed, Spot

LEMMA BeginSkips ==
    ASSUME Ready, Begin
    PROVE  CursorInv' /\ StoredInv' /\ LoopInv' /\ NewInv'
<1>1. cursor \in Int /\ stored \in Int /\ next \in Int /\ NoCursor = -1 /\ pass.phase = "idle"
  BY Facts DEF Ready, Begin
<1>2. CASE BeginFull
  <2>1. /\ cursor' = NoCursor /\ stored' = stored
        /\ pass'.phase = "fetch" /\ pass'.kind = "full" /\ pass'.from = 1
    BY <1>2 DEF BeginFull, Begun, NoPass
  <2>2. CursorInv'
    BY <1>1, <2>1 DEF CursorInv, Sound
  <2> QED BY <2>1, <2>2 DEF StoredInv, LoopInv, NewInv, Loops, Incremental, Fetched
<1>3. CASE ~BeginFull
  <2>1. UNCHANGED <<stored, cursor, place>>
    BY <1>3 DEF Begin, BeginPlain, BeginWindow, BeginOrphans, BeginIncremental, folderVars, emailVars
  <2>2. \/ /\ pass'.phase = "fetch" /\ pass'.kind = "plain"
           /\ pass'.from = IF cursor = NoCursor THEN 1 ELSE cursor + 1
        \/ pass'.phase \in {"list", "search"} /\ pass'.kind \in {"window", "orphans"}
        \/ /\ pass'.phase = "list" /\ pass'.kind \in {"account", "once"}
           /\ pass'.from = cursor /\ cursor # NoCursor
    BY <1>3, ZenonT(40) DEF Begin, BeginPlain, BeginWindow, BeginOrphans, BeginIncremental, Begun, NoPass
  <2>3. CursorInv'
    BY <1>1, <2>1, <2>2, QuietCursor
  <2> QED BY <1>1, <2>1, <2>2, <2>3 DEF StoredInv, LoopInv, NewInv, Loops, Incremental, Fetched
<1> QED BY <1>2, <1>3

LEMMA ListSkips ==
    ASSUME Ready, ListNew \/ ListWindow
    PROVE  CursorInv' /\ StoredInv' /\ LoopInv' /\ NewInv'
<1>1. pass.phase = "list" /\ pass \in PassStates /\ pass.from \in Int /\ stored <= validity
      /\ UNCHANGED <<stored, cursor, place, validity, box, next>>
  BY Facts DEF Ready, Around, ListNew, ListWindow, folderVars, emailVars
<1>2. CASE Done
  <2>1. CursorInv'
    BY <1>1, <1>2, DoneSkips, QuietCursor
  <2> QED BY <1>2, <2>1, DoneSkips
<1>3. ASSUME NEW uids \in SUBSET Occupied, Incremental(pass.kind), uids \in {{}, {u \in Occupied : u > pass.from}},
             pass' = [pass EXCEPT !.found = uids, !.validity = validity,
                                  !.phase = IF pass.kind = "once" THEN "changed" ELSE "fetch"]
      PROVE  CursorInv' /\ StoredInv' /\ LoopInv' /\ NewInv'
  <2>1. /\ pass'.phase \in {"changed", "fetch"} /\ pass'.kind = pass.kind /\ pass'.from = pass.from
        /\ pass'.found = uids /\ pass'.validity = validity
    BY <1>1, <1>3 DEF PassStates
  <2>2. CursorInv'
    BY <1>1, <2>1, QuietCursor
  <2>3. Gapless'
    <3>1. \A w \in Occupied : w \in Uids /\ w < next
      BY Facts DEF Ready, Occupied
    <3> QED BY <1>1, <1>3, <2>1, <3>1, Facts DEF Gapless, Occupied, Ready
  <2>4. NewInv'
    BY <1>1, <1>3, <2>1, <2>3 DEF Ready, SkipInv, NewInv
  <2> QED BY <1>3, <2>1, <2>2, <2>4 DEF StoredInv, LoopInv, Loops, Incremental, Fetched
<1>4. ASSUME NEW uids, pass.kind = "window",
             pass' = [pass EXCEPT !.found = uids, !.phase = "fetch"]
      PROVE  CursorInv' /\ StoredInv' /\ LoopInv' /\ NewInv'
  <2>1. pass'.phase = "fetch" /\ pass'.kind = "window"
    BY <1>1, <1>4 DEF PassStates
  <2>2. CursorInv'
    BY <1>1, <2>1, QuietCursor
  <2> QED BY <2>1, <2>2 DEF StoredInv, LoopInv, NewInv, Loops, Incremental, Fetched
<1>5. CASE ListNew
  <2>1. ASSUME NEW uids \in SUBSET Occupied, Listed(uids), uids \in {{}, {u \in Occupied : u > pass.from}}
        PROVE  CursorInv' /\ StoredInv' /\ LoopInv' /\ NewInv'
    BY <1>2, <1>3, <1>5, <2>1 DEF Listed, Done, ListNew
  <2> QED BY <1>5, <2>1 DEF ListNew
<1>6. CASE ListWindow
  BY <1>2, <1>4, <1>6 DEF ListWindow
<1> QED BY <1>5, <1>6

\* The changed messages are known, or as good as known.
LEMMA ChangesSkip ==
    ASSUME Ready, pass.phase = "changed", NEW newest, NEW uids \in SUBSET Occupied,
           ChangedAre(newest, uids), UNCHANGED <<folderVars, emailVars>>
    PROVE  CursorInv' /\ StoredInv' /\ LoopInv' /\ NewInv'
<1>1. pass.phase = "changed" /\ pass \in PassStates /\ pass.from \in Int
      /\ UNCHANGED <<stored, cursor, place, validity, box, next>>
  BY Facts DEF Ready, Around, folderVars, emailVars
<1>3. /\ pass'.phase = "expunge" /\ pass'.kind = pass.kind /\ pass'.from = pass.from
      /\ pass'.found = pass.found \cup {u \in uids : u > pass.from}
      /\ pass'.validity = pass.validity
  BY <1>1 DEF ChangedAre, PassStates
<1>4. CursorInv'
  BY <1>1, <1>3, QuietCursor
<1>5. NewInv'
  <2>1. ASSUME Incremental(pass.kind), Fresh, ~torn' PROVE Gapless'
    <3>1. cursor' # NoCursor
      BY <1>1, <2>1 DEF Ready, SkipInv, NewInv
    <3>2. ~torn /\ ~Tears
      BY <2>1, <3>1 DEF Ready, Around
    <3>3. Gapless
      BY <1>1, <2>1, <3>2 DEF Ready, SkipInv, NewInv
    <3>4. \A w \in pass'.found : \A u \in Occupied \ pass'.found : ~(pass.from < u /\ u < w)
      BY <1>1, <3>2 DEF Tears
    <3>5. \A w \in pass'.found : pass.from < w /\ w < next
      BY <1>3, <3>3, Facts DEF Gapless, Occupied, Ready
    <3> QED BY <1>1, <1>3, <3>4, <3>5 DEF Gapless, Occupied
  <2>2. Fresh' = Fresh
    BY <1>1, <1>3 DEF Fresh
  <2> QED BY <1>1, <1>3, <2>1, <2>2 DEF Ready, SkipInv, NewInv
<1>6. ~Loops(pass.kind)
  BY <1>1 DEF Ready, SkipInv, LoopInv, Fetched
<1> QED BY <1>3, <1>4, <1>5, <1>6 DEF StoredInv, LoopInv, Fetched

LEMMA ReadChangedSkips ==
    ASSUME Ready, ReadChanged
    PROVE  CursorInv' /\ StoredInv' /\ LoopInv' /\ NewInv'
<1>1. CASE Done
  <2>1. pass.phase # "reset" /\ pass'.phase = "idle" /\ UNCHANGED <<stored, cursor, place>>
    BY <1>1, DoneSkips DEF ReadChanged, folderVars, emailVars
  <2>2. CursorInv'
    BY <2>1, QuietCursor
  <2> QED BY <1>1, <2>2, DoneSkips
<1>2. CASE \E newest : \E uids \in SUBSET Occupied : ChangedAre(newest, uids)
  BY <1>2, ChangesSkip DEF ReadChanged
<1> QED BY <1>1, <1>2 DEF ReadChanged, ModifiedSince

LEMMA FetchSkips ==
    ASSUME Ready, FetchRange \/ FetchUids
    PROVE  CursorInv' /\ StoredInv' /\ LoopInv' /\ NewInv'
<1>1. pass.phase = "fetch" /\ pass \in PassStates
      /\ UNCHANGED <<stored, cursor, place, validity, box, next>>
      /\ validity >= 1 /\ validity \in Int
  BY Facts DEF Ready, Around, FetchRange, FetchUids, folderVars, emailVars
<1>2. /\ pass'.phase = "store" /\ pass'.kind = pass.kind /\ pass'.from = pass.from
      /\ pass'.found = pass.found
  BY <1>1 DEF FetchRange, FetchUids, PassStates
<1>3. CursorInv'
  BY <1>1, <1>2, QuietCursor
<1>4. \/ pass'.read = {} /\ pass'.validity = 0
      \/ (\E uids : pass'.read = EnvelopesOf(uids)) /\ pass'.validity = validity
  BY <1>1, ZenonT(40) DEF FetchRange, FetchUids, PassStates
<1>5. StoredInv'
  <2>1. \A uids : \A e \in EnvelopesOf(uids) : \A u \in Uids : box[u] = e.mail => u = e.uid
    BY DEF EnvelopesOf, Occupied, Ready, SkipInv, OnceInv
  <2>2. \A e \in pass'.read : \A u \in Uids : box[u] = e.mail => u = e.uid
    BY <1>4, <2>1
  <2> QED BY <1>1, <1>2, <2>2 DEF StoredInv
<1>6. CASE FetchRange
  <2> DEFINE range == {u \in Uids : pass.from <= u /\ u < pass.from + Batch}
  <2>1. /\ Loops(pass.kind) /\ ~Incremental(pass.kind)
        /\ (cursor = NoCursor /\ pass.from = 1) \/ cursor = pass.from - 1
    BY <1>1, <1>6 DEF FetchRange, Loops, Incremental, Ready, SkipInv, LoopInv
  <2>2. \/ pass'.read = {} /\ pass'.validity = 0 /\ pass'.upTo = 0
        \/ pass'.read = EnvelopesOf(range) /\ pass'.validity = validity /\ pass'.upTo = next - 1
    BY <1>1, <1>6 DEF FetchRange, PassStates
  <2>3. /\ \A e \in EnvelopesOf(range) :
             pass.from <= e.uid /\ e.uid < pass.from + Batch /\ e.uid <= next - 1
        /\ \A u \in range : box[u] # NoMail => Envelope(u) \in EnvelopesOf(range)
    BY Facts DEF EnvelopesOf, Occupied, Envelope, Ready
  <2>4. LoopInv'
    <3>1. CASE pass'.read = {} /\ pass'.validity = 0 /\ pass'.upTo = 0
      BY <1>1, <1>2, <2>1, <3>1 DEF LoopInv, Fresh, Fetched
    <3>2. CASE pass'.read = EnvelopesOf(range) /\ pass'.validity = validity /\ pass'.upTo = next - 1
      BY <1>1, <1>2, <2>1, <2>3, <3>2, Facts DEF LoopInv, Fresh, Fetched, Envelope, Ready
    <3> QED BY <2>2, <3>1, <3>2
  <2> QED BY <1>2, <1>3, <1>5, <2>1, <2>4 DEF NewInv
<1>7. CASE FetchUids
  <2>1. pass'.read = EnvelopesOf(pass.found) /\ pass'.validity = validity /\ ~Loops(pass.kind)
    BY <1>1, <1>7 DEF FetchUids, PassStates
  <2>2. ASSUME Incremental(pass.kind), ~torn' PROVE Complete' \/ stored \notin {0, validity}
    <3>1. cursor' # NoCursor
      BY <1>1, <2>2 DEF Ready, SkipInv, NewInv
    <3>2. ~torn /\ ~Tears
      BY <2>2, <3>1 DEF Ready, Around
    <3>3. CASE Fresh
      <4>1. Gapless
        BY <1>1, <2>2, <3>2, <3>3 DEF Ready, SkipInv, NewInv
      <4>2. \A u \in pass.found : box[u] # NoMail => Envelope(u) \in EnvelopesOf(pass.found)
        BY Facts DEF Ready, Envelope, EnvelopesOf, Occupied
      <4> QED BY <1>1, <1>2, <2>1, <4>1, <4>2 DEF Complete, Gapless, Envelope
    <3>4. CASE ~Fresh
      <4>1. stored # 0
        BY <1>1, <2>2, <3>2, <3>4 DEF Tears, Fresh
      <4>2. stored <= pass.validity
        BY <1>1, <2>2 DEF Ready, SkipInv, NewInv
      <4>3. stored < validity
        BY <3>4, <4>2, Facts DEF Fresh, Ready
      <4> QED BY <4>1, <4>3, Facts DEF Ready
    <3> QED BY <3>3, <3>4
  <2>3. NewInv'
    <3>1. Incremental(pass.kind) => cursor = pass.from /\ cursor # NoCursor
      BY <1>1 DEF Ready, SkipInv, NewInv
    <3> QED BY <1>1, <1>2, <2>2, <3>1 DEF NewInv
  <2> QED BY <1>2, <1>3, <1>5, <2>1, <2>3 DEF LoopInv
<1> QED BY <1>6, <1>7

LEMMA ResetSkips ==
    ASSUME Ready, ResetStep
    PROVE  CursorInv' /\ StoredInv' /\ LoopInv' /\ NewInv'
<1>1. /\ pass \in PassStates /\ pass.validity \in Int /\ validity \in Int /\ validity >= 1
      /\ stored \in Int /\ cursor \in Int /\ NoCursor = -1 /\ next \in Int /\ next >= 1
      /\ UNCHANGED <<validity, box, next>>
  BY Facts DEF Ready, Around
<1>2. CASE StoreValidity
  <2> DEFINE stale == pass.validity # 0 /\ stored \notin {0, pass.validity}
  <2>1. /\ pass.phase = "store" /\ UNCHANGED <<cursor, place>>
        /\ stored' = IF pass.validity = 0 THEN stored ELSE pass.validity
        /\ Goto(IF stale THEN "reset" ELSE "ingest")
    BY <1>2 DEF StoreValidity, emailVars
  <2>2. /\ pass'.phase = IF stale THEN "reset" ELSE "ingest"
        /\ pass'.kind = pass.kind /\ pass'.from = pass.from
        /\ pass'.found = pass.found /\ pass'.read = pass.read /\ pass'.upTo = pass.upTo
        /\ pass'.validity = pass.validity
    BY <2>1, GotoFacts DEF Ready
  <2>3. Sound' => ~stale /\ (Sound \/ cursor <= 0) /\ (pass.validity = 0 => Sound)
    BY <1>1, <2>1, <2>2 DEF Sound, Ready, Around, SkipInv, CursorInv
  <2>4. CursorInv'
    <3>1. ASSUME Sound' PROVE cursor < next /\ \A u \in Uids : u <= cursor => Placed(u)
      BY <1>1, <2>3, <3>1, Facts DEF Ready, SkipInv, CursorInv
    <3> QED BY <1>1, <2>1, <2>2, <3>1 DEF CursorInv, Ready, SkipInv, Placed, Spot
  <2>5. StoredInv'
    <3>1. ASSUME Sound', Fresh, NEW e \in pass.read, NEW u \in Uids, box[u] = e.mail, u # e.uid
          PROVE  u > cursor
      BY <1>1, <2>1, <2>3, <3>1, Facts DEF Ready, SkipInv, StoredInv, Fetched
    <3> QED BY <1>1, <2>1, <2>2, <3>1 DEF StoredInv, Fresh, Fetched
  <2>6. LoopInv'
    BY <1>1, <2>1, <2>2 DEF Ready, SkipInv, LoopInv, Fetched, Fresh, Envelope
  <2>7. NewInv'
    <3>1. Complete' = Complete
      BY <1>1, <2>2 DEF Complete, Gapless, Envelope
    <3>2. ASSUME Incremental(pass.kind), ~stale, Fresh, ~torn' PROVE Complete
      <4>1. cursor' # NoCursor
        BY <2>1, <3>2 DEF Ready, SkipInv, NewInv
      <4>2. ~torn
        BY <3>2, <4>1 DEF Ready, Around
      <4> QED BY <1>1, <2>1, <3>2, <4>2 DEF Ready, SkipInv, NewInv, Fresh
    <3> QED BY <1>1, <2>1, <2>2, <3>1, <3>2 DEF Ready, SkipInv, NewInv, Fresh
  <2> QED BY <2>4, <2>5, <2>6, <2>7
<1>3. CASE ResetFolder
  <2>1. cursor' = NoCursor /\ pass'.phase = "clear" /\ pass'.kind = pass.kind
    BY <1>3, GotoFacts DEF ResetFolder, Ready
  <2> QED BY <1>1, <2>1 DEF CursorInv, StoredInv, LoopInv, NewInv, Sound, Fetched
<1>4. CASE ClearUids
  <2>1. cursor = NoCursor /\ UNCHANGED <<cursor, stored>>
    BY <1>4 DEF ClearUids, Ready, SkipInv, CursorInv, folderVars
  <2>2. \/ Done
        \/ Loops(pass.kind) /\ pass'.kind = pass.kind /\ pass'.phase = "fetch" /\ pass'.from = 1
    BY <1>1, <1>4 DEF ClearUids, PassStates
  <2>3. CursorInv'
    BY <1>1, <2>1, <2>2, DoneSkips DEF CursorInv, Sound
  <2> QED BY <2>1, <2>2, <2>3, DoneSkips DEF StoredInv, LoopInv, NewInv, Loops, Incremental, Fetched
<1> QED BY <1>2, <1>3, <1>4 DEF ResetStep

\* A message that a pass has read is placed where it was read.
LEMMA UpsertSpots ==
    ASSUME Typed, OnceInv, NEW e \in Importable
    PROVE  Upserted[e.mail] = Spot(pass.validity, e.uid)
<1> DEFINE S == {x.uid : x \in {y \in Importable : y.mail = e.mail}}
<1>1. S \in SUBSET Uids /\ e.uid \in S /\ e.mail \in Mail
  BY DEF Importable, Typed, TypeOK, PassStates, Envelopes
<1>2. \A u \in S : u = e.uid
  BY DEF OnceInv, Importable
<1>3. Highest(S) = e.uid
  BY <1>1, <1>2, HighestIn
<1> QED BY <1>1, <1>3 DEF Upserted

LEMMA UpsertCursor ==
    ASSUME Ready, pass.phase = "ingest", place' = Upserted, UNCHANGED <<stored, cursor>>,
           pass'.phase \in {"cursor", "flags", "idle"}
    PROVE  CursorInv' /\ (Sound' => Sound)
<1>1. Sound' => Sound
  BY DEF Ready, Around, Sound
<1>2. ASSUME Sound, NEW u \in Uids, u <= cursor, box[u] # NoMail, box[u] \notin Blank
      PROVE  Upserted[box[u]] = Spot(validity, u)
  <2>1. place[box[u]] = Spot(validity, u) /\ box[u] \in Mail
    BY <1>2 DEF Ready, SkipInv, CursorInv, Placed, Typed, TypeOK
  <2>2. ASSUME NEW e \in Importable, e.mail = box[u] PROVE Upserted[box[u]] = Spot(validity, u)
    <3>1. e \in pass.read /\ stored = pass.validity /\ Fresh
      BY <1>2, <2>2 DEF Importable, Ready, Typed, PassInv, SkipInv, StoredInv, Sound, Fresh
    <3>2. u = e.uid
      <4>1. u # e.uid => u > cursor
        BY <1>2, <2>2, <3>1 DEF Ready, SkipInv, StoredInv, Fetched
      <4> QED BY <1>2, <4>1, Facts DEF Ready
    <3> QED BY <2>2, <3>1, <3>2, UpsertSpots DEF Ready, SkipInv, Fresh
  <2>3. CASE ~\E e \in Importable : e.mail = box[u]
    BY <2>1, <2>3 DEF Upserted
  <2> QED BY <2>2, <2>3
<1>3. CursorInv'
  BY <1>1, <1>2 DEF Ready, Around, SkipInv, CursorInv, Placed, Spot
<1> QED BY <1>1, <1>3

LEMMA UpsertSkips ==
    ASSUME Ready, UpsertRange \/ UpsertNew \/ UpsertWindow
    PROVE  CursorInv' /\ StoredInv' /\ LoopInv' /\ NewInv'
<1>1. /\ pass.phase = "ingest" /\ place' = Upserted
      /\ UNCHANGED <<stored, cursor, validity, box, next>>
  BY DEF UpsertRange, UpsertNew, UpsertWindow, folderVars, Ready, Around
<1>2. CASE Done
  <2>1. CursorInv'
    BY <1>1, <1>2, UpsertCursor, DoneSkips
  <2> QED BY <1>2, <2>1, DoneSkips
<1>3. ASSUME NEW phase \in {"cursor", "flags"}, Goto(phase), phase = "flags" => ~Loops(pass.kind)
      PROVE  CursorInv' /\ StoredInv' /\ LoopInv' /\ NewInv'
  <2>1. /\ pass'.phase = phase /\ pass'.kind = pass.kind /\ pass'.from = pass.from
        /\ pass'.found = pass.found /\ pass'.read = pass.read /\ pass'.upTo = pass.upTo
        /\ pass'.validity = pass.validity
    BY <1>3, GotoFacts DEF Ready
  <2>2. CursorInv' /\ (Sound' => Sound)
    BY <1>1, <2>1, UpsertCursor
  <2>3. Fresh' = Fresh /\ Importable' = Importable
    BY <1>1, <2>1 DEF Fresh, Importable
  <2>4. StoredInv'
    <3>1. ASSUME Fresh, NEW e \in Importable PROVE Upserted[e.mail] = Spot(validity, e.uid)
      BY <3>1, UpsertSpots DEF Ready, SkipInv, Fresh
    <3>2. pass.validity # 0 => stored = pass.validity
      BY <1>1 DEF Ready, SkipInv, StoredInv
    <3>3. ASSUME Sound, Fresh, NEW e \in pass.read, NEW u \in Uids, box[u] = e.mail, u # e.uid
          PROVE  u > cursor
      BY <1>1, <3>3 DEF Ready, SkipInv, StoredInv, Fetched
    <3> QED BY <1>1, <2>1, <2>2, <2>3, <3>1, <3>2, <3>3 DEF StoredInv, Spot
  <2>5. LoopInv'
    BY <1>1, <1>3, <2>1, <2>3 DEF Ready, SkipInv, LoopInv, Fetched, Envelope
  <2>6. NewInv'
    <3>1. Complete' = Complete
      BY <1>1, <2>1 DEF Complete, Gapless, Envelope
    <3>2. Incremental(pass.kind) /\ ~torn' => ~torn
      BY <1>1 DEF Ready, Around, SkipInv, NewInv
    <3> QED BY <1>1, <2>1, <2>3, <3>1, <3>2 DEF Ready, SkipInv, NewInv
  <2> QED BY <2>2, <2>4, <2>5, <2>6
<1>4. \/ Done
      \/ Goto("cursor")
      \/ Goto("flags") /\ ~Loops(pass.kind)
  BY DEF UpsertRange, UpsertNew, UpsertWindow, Loops, Incremental
<1> QED BY <1>2, <1>3, <1>4

\* A looping pass that goes on behind a UID has placed all there is up to it.
LEMMA ContinueSkips ==
    ASSUME Ready, Loops(pass.kind), pass.phase \in {"ingest", "cursor"}, pass.validity # 0,
           UNCHANGED <<stored, place>>, NEW passed \in 0 .. MaxUid, Continue(passed),
           Fresh => passed <= pass.upTo,
           Fresh => \A u \in Uids : pass.from <= u /\ u <= passed => Placed(u)
    PROVE  CursorInv' /\ StoredInv' /\ LoopInv' /\ NewInv'
<1>1. /\ passed \in Int /\ passed >= 0 /\ passed # NoCursor /\ stored = pass.validity
      /\ UNCHANGED <<validity, box, next>> /\ cursor' = passed
  BY Constants DEF NoCursor, Ready, Around, SkipInv, StoredInv, Continue
<1>2. \/ Done
      \/ pass'.phase = "fetch" /\ pass'.kind = pass.kind /\ pass'.from = passed + 1
  BY DEF Continue, Ready, Typed, TypeOK, PassStates
<1>3. CursorInv'
  <2>1. ASSUME Sound' PROVE Fresh /\ ~torn
    BY <1>1, <2>1 DEF Sound, Fresh, Ready, Around
  <2>2. ASSUME Sound', NEW u \in Uids, u <= passed PROVE Placed(u)
    <3>1. CASE pass.from <= u
      BY <2>1, <2>2, <3>1
    <3>2. CASE u < pass.from
      <4>1. u <= cursor /\ cursor # NoCursor
        BY <3>2, Facts DEF Ready, SkipInv, LoopInv
      <4>2. Sound
        BY <1>1, <2>1, <2>2, <4>1 DEF Sound, Fresh
      <4> QED BY <4>1, <4>2 DEF Ready, SkipInv, CursorInv
    <3> QED BY <3>1, <3>2, Facts DEF Ready
  <2>3. Sound' => passed < next
    BY <1>1, <2>1, Facts DEF Ready, SkipInv, LoopInv
  <2>4. stored # 0 /\ pass'.phase # "clear"
    BY <1>1, <1>2, DoneSkips
  <2> QED BY <1>1, <2>2, <2>3, <2>4 DEF CursorInv, Placed, Spot
<1>4. CASE pass'.phase = "fetch" /\ pass'.kind = pass.kind /\ pass'.from = passed + 1
  BY <1>1, <1>3, <1>4 DEF StoredInv, LoopInv, NewInv, Loops, Incremental, Fetched
<1> QED BY <1>2, <1>3, <1>4, DoneSkips

LEMMA RangeSkips ==
    ASSUME Ready, SkipRange \/ SkipUnreadable \/ AdvanceRange
    PROVE  CursorInv' /\ StoredInv' /\ LoopInv' /\ NewInv'
<1>1. /\ Loops(pass.kind) /\ pass.phase \in {"ingest", "cursor"} /\ UNCHANGED <<stored, place>>
      /\ UNCHANGED <<validity, box, next>>
      /\ next \in Int /\ next >= 1 /\ NoCursor = -1 /\ cursor \in Int /\ stored \in Int
      /\ pass.from \in Int /\ pass.from >= 0 /\ pass.upTo \in 0 .. MaxUid /\ Batch \in Int /\ Batch >= 1
      /\ MaxUid \in Int
  <2>1. pass.upTo \in 0 .. MaxUid
    BY DEF Ready, Typed, TypeOK, PassStates
  <2> QED BY <2>1, Facts, Constants DEF SkipRange, SkipUnreadable, AdvanceRange, emailVars, Ready, Around
<1>2. Fresh => \A u \in Uids : /\ box[u] # NoMail /\ u <= pass.upTo
                               /\ pass.from <= u /\ u < pass.from + Batch
                               => Envelope(u) \in pass.read
  BY <1>1 DEF Ready, SkipInv, LoopInv
<1>3. \A e \in pass.read : e.uid < pass.from + Batch /\ e.uid <= pass.upTo
  BY <1>1 DEF Ready, SkipInv, LoopInv
<1>4. pass.validity = 0 => pass.upTo = 0
  BY <1>1 DEF Ready, SkipInv, LoopInv
<1>5. CASE SkipRange
  <2>1. pass.read = {}
    BY <1>5 DEF SkipRange
  <2>2. CASE pass.upTo = 0 /\ cursor' = 0 /\ Done
    <3>1. CursorInv'
      BY <1>1, <2>2, DoneSkips, Facts DEF CursorInv, Ready
    <3> QED BY <2>2, <3>1, DoneSkips
  <2>3. CASE Done /\ UNCHANGED cursor
    <3>1. CursorInv'
      BY <1>1, <2>3, DoneSkips, QuietCursor
    <3> QED BY <2>3, <3>1, DoneSkips
  <2>4. CASE /\ pass.upTo # 0 /\ pass.from <= pass.upTo
             /\ Continue(Smaller(pass.from + Batch - 1, pass.upTo))
    <3> DEFINE passed == Smaller(pass.from + Batch - 1, pass.upTo)
    <3>1. /\ passed \in 0 .. MaxUid /\ passed <= pass.upTo /\ passed < pass.from + Batch
      BY <1>1, <2>4 DEF Smaller
    <3>2. Fresh => \A u \in Uids : pass.from <= u /\ u <= passed => Placed(u)
      BY <1>1, <1>2, <2>1, <3>1, Facts DEF Placed, Ready
    <3> HIDE DEF passed
    <3> QED BY <1>1, <1>4, <2>4, <3>1, <3>2, ContinueSkips DEF passed
  <2> QED BY <1>5, <2>2, <2>3, <2>4 DEF SkipRange
<1>6. ASSUME NEW uids \in SUBSET UidsOf(pass.read), uids # {}, Continue(Highest(uids)), pass.validity # 0,
             Fresh => \A u \in Uids : Envelope(u) \in pass.read => Placed(u)
      PROVE  CursorInv' /\ StoredInv' /\ LoopInv' /\ NewInv'
  <2>1. uids \in SUBSET Uids
    BY <1>6, ReadTyped DEF Ready
  <2>2. Highest(uids) \in uids
    BY <1>6, <2>1, HighestIn
  <2>3. PICK e \in pass.read : e.uid = Highest(uids)
    BY <2>2 DEF UidsOf
  <2>4. /\ Highest(uids) \in 0 .. MaxUid /\ Highest(uids) <= pass.upTo
        /\ Highest(uids) < pass.from + Batch
    <3>0. Highest(uids) \in Uids
      BY <2>1, <2>2
    <3>1. Highest(uids) \in 0 .. MaxUid
      BY <3>0, Constants DEF Uids
    <3>2. e.uid <= pass.upTo /\ e.uid < pass.from + Batch
      BY <1>3
    <3> QED BY <2>3, <3>1, <3>2
  <2>5. Fresh => \A u \in Uids : pass.from <= u /\ u <= Highest(uids) => Placed(u)
    BY <1>1, <1>2, <1>6, <2>4, Facts DEF Placed, Ready
  <2> QED BY <1>1, <1>6, <2>4, <2>5, ContinueSkips
<1>7. CASE SkipUnreadable
  <2>1. /\ pass.read # {} /\ Importable = {} /\ Continue(Highest(UidsOf(pass.read)))
        /\ pass.validity # 0
    BY <1>7 DEF SkipUnreadable, Ready, Typed, PassInv
  <2>2. \A u \in Uids : Envelope(u) \in pass.read => Placed(u)
    BY <2>1 DEF Envelope, Importable, Placed
  <2>3. UidsOf(pass.read) # {}
    BY <2>1, ReadTyped DEF Ready
  <2> QED BY <1>6, <2>1, <2>2, <2>3
<1>8. CASE AdvanceRange
  <2>1. /\ Importable # {} /\ Continue(Highest(UidsOf(Importable))) /\ pass.validity # 0
        /\ pass.phase = "cursor" /\ UidsOf(Importable) # {} /\ UidsOf(Importable) \subseteq UidsOf(pass.read)
    BY <1>8, ReadTyped DEF AdvanceRange, Ready, Typed, PassInv
  <2>2. Fresh => \A u \in Uids : Envelope(u) \in pass.read => Placed(u)
    BY <2>1 DEF Envelope, Importable, Placed, Ready, SkipInv, StoredInv
  <2> QED BY <1>6, <2>1, <2>2
<1> QED BY <1>5, <1>7, <1>8

LEMMA AdvanceNewSkips ==
    ASSUME Ready, AdvanceNew
    PROVE  CursorInv' /\ StoredInv' /\ LoopInv' /\ NewInv'
<1>1. /\ pass.phase = "cursor" /\ Incremental(pass.kind) /\ cursor' = Highest(pass.found)
      /\ Done \/ Goto("flags")
      /\ UNCHANGED <<stored, place, validity, box, next>>
  BY DEF AdvanceNew, emailVars, Ready, Around
<1>2. /\ pass.validity # 0 /\ stored = pass.validity /\ cursor = pass.from /\ cursor # NoCursor
      /\ pass.found \in SUBSET Uids /\ pass.found # {}
  <2>1. Importable # {} /\ pass.read # {} /\ pass.validity # 0
    BY <1>1 DEF Ready, Typed, PassInv, Importable
  <2>2. UidsOf(pass.read) \subseteq pass.found
    BY <1>1 DEF Ready, Typed, PassInv, Fetched, Loops, Incremental
  <2>3. pass.found # {}
    BY <2>1, <2>2, ReadTyped DEF Ready
  <2> QED BY <1>1, <2>1, <2>3, Facts DEF Ready, SkipInv, StoredInv, NewInv
<1> DEFINE w == Highest(pass.found)
<1>3. /\ w \in pass.found /\ w \in Int /\ w >= 1 /\ w # NoCursor /\ \A u \in pass.found : u <= w
      /\ pass.from \in Int /\ \A u \in Uids : u \in Int
  BY <1>2, HighestIn, Facts DEF Ready
<1>4. pass'.phase \in {"idle", "flags"} /\ (pass'.phase = "flags" => pass'.kind = pass.kind)
  BY <1>1, DoneSkips, GotoFacts DEF Ready
<1>5. CursorInv'
  <2>1. ASSUME Sound' PROVE w < next /\ \A u \in Uids : u <= w => Placed(u)
    <3>1. Fresh /\ ~torn
      BY <1>1, <1>2, <2>1 DEF Sound, Fresh, Ready, Around
    <3>2. Complete
      BY <1>1, <3>1 DEF Ready, SkipInv, NewInv
    <3>3. Sound
      BY <1>1, <1>2, <3>1 DEF Sound, Fresh
    <3>4. ASSUME NEW u \in Uids, u <= w PROVE Placed(u)
      <4>1. CASE u <= pass.from
        BY <1>2, <3>3, <4>1 DEF Ready, SkipInv, CursorInv
      <4>2. CASE u > pass.from /\ box[u] # NoMail /\ box[u] \notin Blank
        <5>1. u \in pass.found
          BY <1>3, <3>2, <3>4, <4>2 DEF Complete, Gapless
        <5>2. Envelope(u) \in Importable
          BY <3>2, <4>2, <5>1 DEF Complete, Envelope, Importable
        <5> QED BY <1>1, <3>1, <5>2 DEF Ready, SkipInv, StoredInv, Envelope, Placed
      <4>3. CASE box[u] = NoMail \/ box[u] \in Blank
        BY <4>3 DEF Placed
      <4> QED BY <1>3, <4>1, <4>2, <4>3
    <3>5. w < next
      BY <1>3, <3>2 DEF Complete, Gapless
    <3> QED BY <3>4, <3>5
  <2> HIDE DEF w
  <2>2. cursor' = w
    BY <1>1 DEF w
  <2> QED BY <1>1, <1>2, <1>4, <2>1, <2>2 DEF CursorInv, Placed, Spot
<1>6. CASE pass'.phase = "flags" /\ pass'.kind = pass.kind
  BY <1>1, <1>5, <1>6 DEF StoredInv, LoopInv, NewInv, Loops, Incremental, Fetched
<1> QED BY <1>1, <1>4, <1>5, <1>6, GotoFacts, DoneSkips DEF Ready

LEMMA ExpungeSkips ==
    ASSUME Ready, Expunge
    PROVE  CursorInv' /\ StoredInv' /\ LoopInv' /\ NewInv'
<1>1. /\ pass.phase = "expunge" /\ UNCHANGED <<stored, cursor, validity, box, next>>
      /\ \A m \in Mail \ Gone : place'[m] = place[m]
  BY DEF Expunge, Expunged, folderVars, Ready, Around
<1>2. Done \/ \E phase \in {"flags", "fetch"} : Goto(phase)
  BY DEF Expunge, AfterExpunge
<1>3. CursorInv'
  <2>1. Sound' => Sound
    BY <1>1 DEF Ready, Around, Sound
  <2>2. ASSUME NEW u \in Uids, box[u] # NoMail, place[box[u]] = Spot(validity, u)
        PROVE  place'[box[u]] = Spot(validity, u)
    <3>1. box[u] \in Mail /\ box[u] \notin Gone
      BY <2>2 DEF Ready, Typed, TypeOK, Gone, Occupied, Spot
    <3> QED BY <1>1, <2>2, <3>1
  <2>3. pass'.phase \in {"flags", "fetch", "idle"}
    BY <1>2, GotoFacts, DoneSkips DEF Ready
  <2> QED BY <1>1, <2>1, <2>2, <2>3 DEF Ready, SkipInv, CursorInv, Placed, Spot
<1>4. CASE Done
  BY <1>3, <1>4, DoneSkips
<1>5. CASE \E phase \in {"flags", "fetch"} : Goto(phase)
  <2>1. /\ pass'.phase \in {"flags", "fetch"} /\ pass'.kind = pass.kind /\ pass'.from = pass.from
        /\ pass'.found = pass.found /\ pass'.validity = pass.validity
    BY <1>5, GotoFacts DEF Ready
  <2>2. NewInv'
    <3>1. Fresh' = Fresh /\ Gapless' = Gapless
      BY <1>1, <2>1 DEF Fresh, Gapless
    <3>2. Incremental(pass.kind) /\ ~torn' => ~torn
      BY <1>1 DEF Ready, Around, SkipInv, NewInv
    <3> QED BY <1>1, <2>1, <3>1, <3>2 DEF Ready, SkipInv, NewInv
  <2>3. ~Loops(pass.kind)
    BY <1>1 DEF Ready, SkipInv, LoopInv, Fetched
  <2> QED BY <1>3, <2>1, <2>2, <2>3 DEF StoredInv, LoopInv, Fetched
<1> QED BY <1>2, <1>4, <1>5

LEMMA OrphanSkips ==
    ASSUME Ready, NEW m \in Mail, SearchOrphan(m)
    PROVE  CursorInv' /\ StoredInv' /\ LoopInv' /\ NewInv'
<1>1. pass.phase = "search" /\ UNCHANGED <<stored, cursor, validity, box, next>>
  BY DEF SearchOrphan, folderVars, Ready, Around
<1>2. pass'.phase \in {"search", "mark"} /\ pass'.kind = pass.kind
  BY <1>1 DEF SearchOrphan, Searched, Ready, Typed, TypeOK, PassStates
<1>3. place \in [Mail -> Places] /\ box \in [Uids -> Mail \cup {NoMail}]
  BY DEF Ready, Typed, TypeOK
<1>4. CursorInv'
  <2>1. Sound' => Sound
    BY <1>1, <1>2 DEF Ready, Around, Sound
  <2>2. ASSUME Sound, NEW u \in Uids, box[u] # NoMail, place[box[u]] = Spot(validity, u)
        PROVE  place'[box[u]] = Spot(validity, u)
    <3>1. box[u] \in Mail /\ box[u] \notin elsewhere /\ \A w \in Uids : box[w] = box[u] => w = u
      BY <1>3, <2>2 DEF Ready, SkipInv, OnceInv
    <3>2. CASE box[u] # m
      BY <1>3, <2>2, <3>1, <3>2 DEF SearchOrphan
    <3>3. CASE box[u] = m
      <4>1. place' \in {place, [place EXCEPT ![m] = Spot(stored, u)]}
        BY <3>1, <3>3 DEF SearchOrphan
      <4> QED BY <1>3, <2>2, <3>3, <4>1 DEF Sound
    <3> QED BY <3>2, <3>3
  <2> QED BY <1>1, <1>2, <2>1, <2>2 DEF Ready, SkipInv, CursorInv, Placed, Spot
<1>5. ~Loops(pass.kind)
  BY <1>1 DEF Ready, SkipInv, LoopInv, Fetched
<1> QED BY <1>2, <1>4, <1>5 DEF StoredInv, LoopInv, NewInv, Fetched

\* Steps that touch flags, history or nothing at all.
LEMMA OtherSkips ==
    ASSUME Ready, UpdateFlags \/ MarkDeleted \/ Dies \/ \E m \in Mail : ImportBody(m)
    PROVE  CursorInv' /\ StoredInv' /\ LoopInv' /\ NewInv'
<1>1. UNCHANGED <<stored, cursor, place, validity, box, next>>
  BY DEF UpdateFlags, MarkDeleted, Dies, ImportBody, folderVars, emailVars, Ready, Around
<1>2. pass.phase = "reset" => cursor = NoCursor \/ torn'
  <2>1. CASE Dies
    <3>1. faults \in Int /\ faults' = faults + 1
      BY <2>1, Constants DEF Dies, Fault, Ready, Typed, TypeOK
    <3>2. pass.phase = "reset" => Tears
      BY <3>1 DEF Tears
    <3>3. torn' = (cursor' # NoCursor /\ (torn \/ Tears)) /\ cursor' = cursor
      BY <1>1 DEF Ready, Around
    <3> QED BY <3>2, <3>3
  <2> QED BY <2>1 DEF UpdateFlags, MarkDeleted, ImportBody
<1>3. CASE Done
  <2>1. CursorInv'
    BY <1>1, <1>2, <1>3, DoneSkips, QuietCursor
  <2> QED BY <1>3, <2>1, DoneSkips
<1>4. ASSUME NEW m \in Mail, ImportBody(m)
      PROVE  CursorInv' /\ StoredInv' /\ LoopInv' /\ NewInv'
  <2>1. pass' = pass /\ pass.phase = "idle"
    BY <1>4 DEF ImportBody
  <2>2. CursorInv'
    BY <1>1, <2>1, QuietCursor
  <2> QED BY <1>1, <2>1, <2>2 DEF StoredInv, LoopInv, NewInv, Fetched
<1> QED BY <1>3, <1>4 DEF UpdateFlags, MarkDeleted, Dies

LEMMA PassSkips ==
    ASSUME Typed, NamesInv, SkipInv, PassStep
    PROVE  SkipInv'
<1>1. Ready
  BY DEF Ready, Around, PassStep, serverVars
<1>2. OnceInv'
  BY OncePass DEF SkipInv
<1>3. CursorInv' /\ StoredInv' /\ LoopInv' /\ NewInv'
  BY <1>1, BeginSkips, ListSkips, ReadChangedSkips, FetchSkips, ResetSkips, UpsertSkips, RangeSkips,
     AdvanceNewSkips, ExpungeSkips, OrphanSkips, OtherSkips
     DEF PassStep, LoopStep, NewStep, ChangeStep, OrphanStep
<1> QED BY <1>2, <1>3 DEF SkipInv

LEMMA SkipInit == Init => SkipInv
<1> SUFFICES ASSUME Init PROVE SkipInv
  OBVIOUS
<1>1. OnceInv
  BY DEF Init, OnceInv, NoPass
<1>2. CursorInv
  BY DEF Init, CursorInv, Sound, NoPass, NoCursor
<1>3. StoredInv /\ LoopInv /\ NewInv
  BY DEF Init, NoPass, StoredInv, LoopInv, NewInv, Fetched, Incremental
<1> QED BY <1>1, <1>2, <1>3 DEF SkipInv

LEMMA SkipStep == Typed /\ NamesInv /\ SkipInv /\ [Next]_vars => SkipInv'
<1>1. ASSUME SkipInv, UNCHANGED vars PROVE SkipInv'
  BY <1>1 DEF vars, serverVars, folderVars, emailVars, SkipInv, OnceInv, CursorInv, StoredInv, LoopInv,
              NewInv, Sound, Placed, Spot, Fresh, Importable, Envelope, Gapless, Complete
<1> QED BY <1>1, ServerSkips, PassSkips DEF Next

\* The cursor keeps its promise, for any batch size and any number of messages, UIDs and
\* recreated mailboxes: while the UIDVALIDITY on record is the mailbox's, every readable
\* message at or behind last_synced_uid has its row at that UID, but for a folder about
\* to be reset and for what Tears names (mailbox_sync_runtime.rs).
THEOREM NothingSkipped == Spec => []NoMailSkipped
<1>1. SkipInv => NoMailSkipped
  BY DEF SkipInv, CursorInv, NoMailSkipped, Sound, Placed, Occupied
<1> QED BY <1>1, SkipInit, SkipStep, TypingInit, TypingStep, NamesInit, NamesStep, PTL DEF Spec

------------------------------------------------------------------------------
(* A full pass repairs: it began at UID 1 without a cursor, so what it leaves behind *)
(* is placed by the cursor's promise, which nothing in it can tear.                  *)

FullInv == pass.kind = "full" /\ pass.phase # "idle" => ~torn

\* The steps of a pass that is under way keep its kind, or end it.
LEMMA KindStays ==
    ASSUME Typed, PassStep, ~Begin
    PROVE  pass'.phase = "idle" \/ (pass'.kind = pass.kind /\ pass.phase # "idle")
<1>1. pass \in PassStates
  BY DEF Typed, TypeOK
<1>2. CASE Done
  BY <1>2 DEF Done, NoPass
<1>3. CASE \E phase \in Phases : pass.phase # "idle" /\ Goto(phase)
  BY <1>1, <1>3 DEF Goto, PassStates
<1>4. CASE FetchRange \/ FetchUids \/ ListNew \/ ListWindow \/ ReadChanged
  <2>1. CASE FetchRange
    BY <1>1, <2>1 DEF FetchRange, PassStates
  <2>2. CASE FetchUids
    BY <1>1, <2>2 DEF FetchUids, PassStates
  <2>3. CASE ListNew
    <3>1. PICK uids : Listed(uids)
      BY <2>3 DEF ListNew
    <3>2. CASE pass' = NoPass
      BY <3>2 DEF NoPass
    <3> QED BY <1>1, <2>3, <3>1, <3>2 DEF ListNew, Listed, PassStates
  <2>4. CASE ListWindow
    BY <1>1, <1>2, <2>4 DEF ListWindow, PassStates
  <2>5. CASE ReadChanged
    BY <1>1, <1>2, <2>5 DEF ReadChanged, ChangedAre, PassStates
  <2> QED BY <1>4, <2>1, <2>2, <2>3, <2>4, <2>5
<1>5. ASSUME NEW passed, pass.phase # "idle", Continue(passed)
      PROVE  pass'.phase = "idle" \/ (pass'.kind = pass.kind /\ pass.phase # "idle")
  BY <1>1, <1>2, <1>5 DEF Continue, PassStates
<1>6. CASE SkipRange \/ SkipUnreadable \/ AdvanceRange
  BY <1>2, <1>5, <1>6 DEF SkipRange, SkipUnreadable, AdvanceRange
<1>7. CASE UpsertRange \/ UpsertNew \/ UpsertWindow \/ AdvanceNew
  BY <1>2, <1>3, <1>7 DEF UpsertRange, UpsertNew, UpsertWindow, AdvanceNew, Phases
<1>8. CASE StoreValidity \/ ResetFolder \/ ClearUids
  BY <1>1, <1>2, <1>3, <1>8 DEF StoreValidity, ResetFolder, ClearUids, Phases, PassStates
<1>9. CASE Expunge \/ UpdateFlags \/ \E m \in Mail : ImportBody(m)
  BY <1>2, <1>3, <1>9 DEF Expunge, AfterExpunge, UpdateFlags, ImportBody, Phases
<1>10. CASE MarkDeleted \/ Dies
  BY <1>2, <1>10 DEF MarkDeleted, Dies
<1>11. ASSUME NEW m \in Mail, SearchOrphan(m)
       PROVE  pass'.kind = pass.kind /\ pass.phase # "idle"
  BY <1>1, <1>11 DEF SearchOrphan, Searched, PassStates
<1> QED BY <1>4, <1>6, <1>7, <1>8, <1>9, <1>10, <1>11
        DEF PassStep, LoopStep, NewStep, ResetStep, ChangeStep, OrphanStep

LEMMA FullStep ==
    ASSUME Typed, LoopInv, FullInv, [Next]_vars
    PROVE  FullInv'
<1>1. CASE ServerStep
  BY <1>1 DEF ServerStep, FullInv
<1>2. CASE UNCHANGED vars
  BY <1>2 DEF vars, FullInv
<1>3. CASE PassStep
  <2> SUFFICES ASSUME pass'.kind = "full", pass'.phase # "idle"
               PROVE  ~torn'
    BY DEF FullInv
  <2>1. torn' = (cursor' # NoCursor /\ (torn \/ Tears))
    BY <1>3 DEF PassStep
  <2>2. CASE Begin
    <3>1. CASE BeginFull
      BY <2>1, <3>1 DEF BeginFull
    <3>2. CASE ~BeginFull
      BY <2>2, <3>2
         DEF Begin, BeginPlain, BeginWindow, BeginOrphans, BeginIncremental, Begun, NoPass
    <3> QED BY <3>1, <3>2
  <2>3. CASE ~Begin
    <3>1. pass.kind = "full" /\ pass.phase # "idle"
      BY <1>3, <2>3, KindStays
    <3>2. pass.phase # "changed" /\ ~Incremental(pass.kind)
      BY <3>1 DEF LoopInv, Loops, Incremental, Fetched
    <3>3. pass.phase = "reset" => faults' = faults
      <4>1. ~Dies
        BY DEF Dies, Done, NoPass
      <4>2. ASSUME pass.phase = "reset" PROVE ResetFolder
        BY <1>3, <2>3, <4>1, <4>2
           DEF PassStep, LoopStep, FetchRange, SkipRange, SkipUnreadable, UpsertRange, AdvanceRange,
               NewStep, ListNew, ListWindow, FetchUids, UpsertNew, UpsertWindow, AdvanceNew,
               ResetStep, StoreValidity, ClearUids, ChangeStep, ReadChanged, Expunge, UpdateFlags,
               ImportBody, OrphanStep, SearchOrphan, MarkDeleted
      <4> QED BY <4>2 DEF ResetFolder, NoFault
    <3>4. ~Tears
      BY <3>2, <3>3 DEF Tears
    <3> QED BY <2>1, <3>1, <3>4 DEF FullInv
  <2> QED BY <2>2, <2>3
<1> QED BY <1>1, <1>2, <1>3 DEF Next

\* A looping pass ends where its cursor has reached what it saw of the mailbox.
LEMMA LoopEnds ==
    ASSUME Typed, NamesInv, LoopInv, PassStep, Loops(pass.kind), pass.phase # "idle",
           pass'.phase = "idle", faults' = faults, Fresh
    PROVE  /\ pass.phase \in {"ingest", "cursor"} /\ pass.validity # 0
           /\ UNCHANGED stored
           /\ \A u \in Uids : u <= pass.upTo => u <= cursor' /\ cursor' # NoCursor
<1>1. pass \in PassStates /\ faults \in Int /\ Batch \in Int /\ Batch >= 1
      /\ cursor \in Int /\ NoCursor = -1 /\ pass.from \in Int /\ pass.upTo \in Int
      /\ pass.validity # 0 /\ \A u \in Uids : u \in Int /\ u >= 1
  BY Facts, Constants DEF Fresh, Typed, TypeOK
<1>2. pass.phase \in {"fetch"} \cup Fetched
  BY DEF LoopInv
<1>3. SkipRange \/ SkipUnreadable \/ AdvanceRange
  <2>1. ~Dies /\ ~Begin
    BY <1>1 DEF Dies, Begin, Fault
  <2>2. ASSUME NEW phase \in Phases \ {"idle"} PROVE ~Goto(phase)
    BY <1>1, <2>2 DEF Goto, PassStates
  <2>3. ~FetchRange /\ ~ClearUids
    BY <1>1 DEF FetchRange, ClearUids, PassStates
  <2>4. ~StoreValidity /\ ~ResetFolder /\ ~UpsertRange
    BY <2>2 DEF StoreValidity, ResetFolder, UpsertRange, Phases
  <2>5. ~NewStep
    BY <1>2 DEF NewStep, ListNew, ListWindow, FetchUids, UpsertNew, UpsertWindow, AdvanceNew, Loops,
                Incremental, Fetched
  <2>6. ~ChangeStep /\ ~OrphanStep
    BY <1>2 DEF ChangeStep, ReadChanged, Expunge, UpdateFlags, ImportBody, OrphanStep, SearchOrphan,
                MarkDeleted, Fetched
  <2> QED BY <2>1, <2>3, <2>4, <2>5, <2>6 DEF PassStep, LoopStep, ResetStep
<1>4. pass.phase \in {"ingest", "cursor"} /\ UNCHANGED stored
  BY <1>3 DEF SkipRange, SkipUnreadable, AdvanceRange
<1>5. ASSUME NEW passed \in Int, Continue(passed)
      PROVE  cursor' = passed /\ passed >= pass.upTo
  BY <1>1, <1>5 DEF Continue, PassStates
<1>6. \/ \E passed \in Int : Continue(passed)
      \/ pass.upTo = 0
      \/ pass.from > pass.upTo /\ UNCHANGED cursor
  <2>1. CASE SkipRange
    <3>1. Smaller(pass.from + Batch - 1, pass.upTo) \in Int
      BY <1>1 DEF Smaller
    <3> QED BY <2>1, <3>1 DEF SkipRange
  <2>2. Highest(UidsOf(pass.read)) \in Int \/ ~SkipUnreadable
    <3>1. pass.read # {} => Highest(UidsOf(pass.read)) \in UidsOf(pass.read)
      <4>1. UidsOf(pass.read) \in SUBSET Uids
        BY <1>1 DEF PassStates, Envelopes, UidsOf
      <4>2. pass.read # {} => UidsOf(pass.read) # {}
        BY DEF UidsOf
      <4> QED BY <4>1, <4>2, HighestIn
    <3> QED BY <1>1, <3>1 DEF SkipUnreadable, UidsOf, PassStates, Envelopes
  <2>3. Highest(UidsOf(Importable)) \in Int \/ ~AdvanceRange
    <3>1. AdvanceRange => Importable # {}
      BY Facts DEF PassInv, AdvanceRange
    <3>2. UidsOf(Importable) \in SUBSET Uids
      BY <1>1 DEF PassStates, Envelopes, UidsOf, Importable
    <3>3. Importable # {} => UidsOf(Importable) # {}
      BY DEF UidsOf
    <3> QED BY <1>1, <3>1, <3>2, <3>3, HighestIn
  <2> QED BY <1>3, <2>1, <2>2, <2>3 DEF SkipUnreadable, AdvanceRange
<1>7. pass.from > pass.upTo => pass.upTo = 0 \/ cursor >= pass.upTo
  BY <1>1, <1>4, Facts DEF LoopInv
<1>8. ASSUME NEW u \in Uids, u <= pass.upTo PROVE u <= cursor' /\ cursor' # NoCursor
  <2>1. pass.upTo >= 1 /\ u >= 1
    BY <1>1, <1>8
  <2>2. cursor' \in Int /\ cursor' >= pass.upTo
    BY <1>1, <1>5, <1>6, <1>7, <2>1
  <2> QED BY <1>1, <1>8, <2>1, <2>2
<1> QED BY <1>1, <1>4, <1>8

\* What a repair is for: a core full sync that reaches the end of a mailbox which was not
\* recreated meanwhile has placed all its readable messages, for any batch size, whatever
\* earlier passes left behind, a half-done reset included (mailbox_sync_runtime.rs, run_sync).
THEOREM RepairHolds == Spec => FullPassRecovers
<1>1. Init => FullInv
  BY DEF Init, NoPass, FullInv
<1>2. Typed /\ NamesInv /\ SkipInv /\ FullInv /\ SkipInv' /\ [Next]_vars =>
        [pass.kind = "full" /\ pass.phase # "idle" /\ pass'.phase = "idle" /\ faults' = faults
            /\ pass.validity = validity =>
         \A u \in Occupied : u <= pass.upTo /\ box[u] \notin Blank => place'[box[u]] = Spot(validity, u)]_vars
  <2> SUFFICES ASSUME Typed, NamesInv, SkipInv, FullInv, SkipInv', [Next]_vars,
                      pass.kind = "full", pass.phase # "idle", pass'.phase = "idle", faults' = faults,
                      pass.validity = validity,
                      NEW u \in Occupied, u <= pass.upTo, box[u] \notin Blank
               PROVE  place'[box[u]] = Spot(validity, u)
    OBVIOUS
  <2>1. PassStep
    BY DEF Next, ServerStep, vars
  <2>2. /\ pass.phase \in {"ingest", "cursor"} /\ pass.validity # 0 /\ UNCHANGED stored
        /\ u <= cursor' /\ cursor' # NoCursor /\ u \in Uids /\ box[u] # NoMail
    BY <2>1, LoopEnds DEF SkipInv, Loops, Fresh, Occupied
  <2>3. UNCHANGED <<validity, box>>
    BY <2>1 DEF PassStep, serverVars
  <2>4. stored = validity
    BY <2>2 DEF SkipInv, StoredInv
  <2>5. ~torn'
    BY <2>1, <2>2 DEF PassStep, Tears, FullInv, Incremental
  <2>6. Sound'
    BY <2>2, <2>3, <2>4, <2>5 DEF Sound
  <2>7. Placed(u)'
    BY <2>2, <2>6 DEF SkipInv, CursorInv
  <2> QED BY <2>2, <2>3, <2>7 DEF Placed, Spot
<1>3. Typed /\ NamesInv /\ SkipInv /\ FullInv /\ [Next]_vars => FullInv'
  BY FullStep DEF SkipInv
<1> QED BY <1>1, <1>2, <1>3, SkipInit, SkipStep, TypingInit, TypingStep, NamesInit, NamesStep, PTL
        DEF Spec, FullPassRecovers
==============================================================================
