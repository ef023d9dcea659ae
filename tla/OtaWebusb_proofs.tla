-------------------------- MODULE OtaWebusb_proofs ---------------------------
(***************************************************************************)
(* Proofs about OtaWebusb, for every set of packages, every geometry of the*)
(* staging area that ota_staging_init accepts and any failing operations.  *)
(*                                                                         *)
(* SessionInv is inductive.  The refinement of the staging slot follows    *)
(* from it step by step.                                                   *)
(***************************************************************************)
EXTENDS OtaWebusb, TLAPS

\* The sector after a whole number of sectors fits when it begins inside.
LEMMA SectorFits ==
  ASSUME NEW e \in Nat \ {0}, NEW k \in Nat, NEW c \in Nat, k * e < c * e
  PROVE  k * e + e <= c * e /\ (k + 1) * e = k * e + e
<1>1. k < c
  <2> SUFFICES ASSUME c <= k PROVE FALSE
    OBVIOUS
  <2>1. PICK d \in Nat : k = c + d
    <3>1. k - c \in Nat /\ k = c + (k - c)
      OBVIOUS
    <3> QED BY <3>1
  <2>2. k * e = c * e + d * e
    BY <2>1
  <2>3. d * e \in Nat /\ c * e \in Nat
    OBVIOUS
  <2> QED BY <2>2, <2>3
<1>2. PICK d \in Nat : c = k + 1 + d
  <2>1. c - k - 1 \in Nat /\ c = k + 1 + (c - k - 1)
    BY <1>1
  <2> QED BY <2>1
<1>3. c * e = k * e + e + d * e
  BY <1>2
<1>4. d * e \in Nat /\ k * e \in Nat
  OBVIOUS
<1> QED BY <1>3, <1>4
-----------------------------------------------------------------------------
\* Where a request's erase loop ends: at a sector boundary of the image range,
\* at or after the end of the payload.
LEMMA EraseLoop ==
  ASSUME SessionInv, NEW n \in 1..MaxPayload, DataAccepted(n)
  PROVE  /\ received + n \in 0..Capacity
         /\ received + n <= total
         /\ EraseEnd(received + n) \in erased..Capacity
         /\ received + n <= EraseEnd(received + n)
         /\ \E sectors \in 0..Capacity : EraseEnd(received + n) = sectors * EraseSize
<1> USE WebusbAssumption DEF SessionInv, SessionBounds, TypeOK, DataAccepted
<1>1. received + n \in 0..Capacity /\ received <= erased /\ received + n <= total
  OBVIOUS
<1>2. CASE erased >= received + n
  BY <1>1, <1>2 DEF EraseEnd
<1>3. CASE erased < received + n
  <2>1. PICK k \in 0..Capacity : erased = k * EraseSize
    OBVIOUS
  <2>2. PICK c \in 1..Capacity : Capacity = c * EraseSize
    OBVIOUS
  <2>3. k * EraseSize < c * EraseSize
    BY <1>1, <1>3, <2>1, <2>2
  <2>4. /\ erased + EraseSize <= Capacity
        /\ erased + EraseSize = (k + 1) * EraseSize
    <3>1. EraseSize \in Nat \ {0} /\ k \in Nat /\ c \in Nat
      OBVIOUS
    <3> HIDE WebusbAssumption DEF SessionInv, SessionBounds, TypeOK, DataAccepted
    <3>2. k * EraseSize + EraseSize <= c * EraseSize
          /\ (k + 1) * EraseSize = k * EraseSize + EraseSize
      BY <3>1, <2>3, SectorFits
    <3> QED BY <3>2, <2>1, <2>2
  <2>5. k + 1 \in 0..Capacity
    <3>1. k + 1 \in Nat /\ (k + 1) * EraseSize <= Capacity
      BY <2>4
    <3>2. k + 1 <= (k + 1) * EraseSize
      <4>1. (k + 1) * EraseSize = (k + 1) + (k + 1) * (EraseSize - 1)
        OBVIOUS
      <4>2. (k + 1) * (EraseSize - 1) \in Nat
        BY <3>1
      <4> QED BY <3>1, <4>1, <4>2
    <3> QED BY <3>1, <3>2
  <2> QED BY <1>1, <1>3, <2>4, <2>5 DEF EraseEnd
<1> QED BY <1>1, <1>2, <1>3

\* A validated package fits the image range.
LEMMA ValidatedSize ==
  ASSUME NEW n, ValidatePackage(n)
  PROVE  n \in HeaderSize..Capacity
BY WebusbAssumption DEF ValidatePackage, Stored

\* Validation looks at nothing but the image range.
LEMMA SameCells ==
  ASSUME cells' = cells, NEW CONSTANT n
  PROVE  ValidatePackage(n)' <=> ValidatePackage(n)
BY DEF ValidatePackage, Stored

\* The invariant holds initially.
LEMMA InitSession == Init => SessionInv
<1> SUFFICES ASSUME Init PROVE SessionInv
  OBVIOUS
<1> USE DEF Init
<1>0. 0 \in 0..Capacity /\ EraseSize \in Nat
  BY WebusbAssumption
<1>1. TypeOK
  BY <1>0 DEF TypeOK, Content
<1>2. SessionBounds
  BY <1>0 DEF SessionBounds
<1> QED
  BY <1>1, <1>2 DEF SessionInv, FreshAhead, SentIsStored, ReceivingHidesSlot,
                    CommittedIsInstallable, Committed, Blank

\* A payload is stored as it was sent, and the range stays erased ahead of it.
LEMMA WriteDataStores ==
  ASSUME SessionInv, NEW n \in 1..MaxPayload, NEW v \in Image \cup {Junk},
         WriteData(n, v)
  PROVE  SessionInv'
<1> DEFINE end == received + n
<1>1. /\ end \in 0..Capacity
      /\ end <= total
      /\ EraseEnd(end) \in erased..Capacity
      /\ end <= EraseEnd(end)
      /\ \E sectors \in 0..Capacity : EraseEnd(end) = sectors * EraseSize
  BY EraseLoop DEF WriteData
<1>2. /\ receiving /\ receiving'
      /\ UNCHANGED <<meta, rebootPending, total, clearFailed>>
      /\ erased' = EraseEnd(end) /\ received' = end
      /\ n \in Nat
      /\ Capacity \in Nat
  BY WebusbAssumption DEF WriteData, DataAccepted
<1>3. /\ TypeOK
      /\ received \in 0..Capacity /\ erased \in 0..Capacity /\ received <= erased
  BY <1>2 DEF SessionInv, SessionBounds, TypeOK
<1>4. \A i \in Unit : i \in Units(received, EraseEnd(end)) => Fresh(end)[i] = Erased
  BY <1>1, <1>2, <1>3 DEF Fresh, Units, Unit, SessionInv, FreshAhead
<1>5. \A i \in Unit : i < received => Fresh(end)[i] = cells[i]
  BY <1>1, <1>2, <1>3 DEF Fresh, Units, Unit
<1>6. cells' = [i \in Unit |-> IF i \in Units(received, end)
                               THEN Programmed(Fresh(end)[i], v) ELSE Fresh(end)[i]]
      /\ sent' = [i \in Unit |-> IF i \in Units(received, end) THEN v ELSE sent[i]]
  BY DEF WriteData
<1>7. \A i \in Unit : i \in Units(received, end) => cells'[i] = v /\ sent'[i] = v
  BY <1>1, <1>2, <1>3, <1>4, <1>6 DEF Units, Unit, Programmed
<1>8. \A i \in Unit : i \notin Units(received, end) =>
        cells'[i] = Fresh(end)[i] /\ sent'[i] = sent[i]
  BY <1>6
<1>9. TypeOK'
  <2>1. \A i \in Unit : Fresh(end)[i] \in Content
    BY <1>3 DEF Fresh, TypeOK, Content
  <2>2. \A i \in Unit : cells'[i] \in Content
    BY <2>1, <1>7, <1>8 DEF Content
  <2>3. cells' \in [Unit -> Content]
    BY <2>2, <1>6
  <2>4. sent' \in [Unit -> Image \cup {Junk}]
    BY <1>3, <1>6 DEF TypeOK
  <2> QED BY <1>1, <1>2, <1>3, <2>3, <2>4 DEF TypeOK
<1>10. SessionBounds'
  BY <1>1, <1>2 DEF SessionBounds
<1>11. FreshAhead'
  <2> SUFFICES ASSUME NEW i \in Unit, end <= i, i < EraseEnd(end)
               PROVE  cells'[i] = Erased
    BY <1>2 DEF FreshAhead, Units
  <2>1. i \notin Units(received, end) /\ i \in Units(received, EraseEnd(end))
    BY <1>1, <1>2, <1>3 DEF Units, Unit
  <2> QED BY <2>1, <1>4, <1>8
<1>12. SentIsStored'
  <2> SUFFICES ASSUME NEW i \in Unit, i < end
               PROVE  cells'[i] = sent'[i]
    BY <1>2 DEF SentIsStored, Units
  <2>1. CASE i < received
    BY <2>1, <1>2, <1>3, <1>5, <1>8 DEF SessionInv, SentIsStored, Units, Unit
  <2>2. CASE ~(i < received)
    BY <2>2, <1>3, <1>7 DEF Units, Unit
  <2> QED BY <2>1, <2>2
<1>13. ReceivingHidesSlot' /\ CommittedIsInstallable'
  BY <1>2 DEF SessionInv, ReceivingHidesSlot, CommittedIsInstallable, Committed
<1> QED BY <1>9, <1>10, <1>11, <1>12, <1>13 DEF SessionInv

\* A data request that is cut short leaves arbitrary units, no more.
LEMMA DataCut ==
  ASSUME TypeOK, NEW n \in 1..MaxPayload, NEW v \in Image \cup {Junk},
         EraseCut(n) \/ ProgramCut(n, v)
  PROVE  cells' \in [Unit -> Content] /\ receiving
<1> USE DEF TypeOK, Content
<1>1. CASE EraseCut(n)
  <2> DEFINE sector == Units(erased, erased + EraseSize)
  <2>1. PICK left \in [sector -> {Erased, Junk}], S \in SUBSET sector :
          cells' = [i \in Unit |-> IF i \in S THEN left[i] ELSE cells[i]]
    BY <1>1 DEF EraseCut
  <2>2. \A i \in Unit : (IF i \in S THEN left[i] ELSE cells[i]) \in Content
    OBVIOUS
  <2> QED BY <1>1, <2>1, <2>2 DEF EraseCut, DataAccepted
<1>2. CASE ProgramCut(n, v)
  <2> DEFINE payload == Units(received, received + n)
  <2>1. PICK left \in [payload -> {Erased, Junk, v}] :
          cells' = [i \in Unit |-> IF i \in payload THEN left[i]
                                                  ELSE Fresh(received + n)[i]]
    BY <1>2 DEF ProgramCut
  <2>2. \A i \in Unit : Fresh(received + n)[i] \in Content
    BY DEF Fresh
  <2>3. \A i \in Unit :
          (IF i \in payload THEN left[i] ELSE Fresh(received + n)[i]) \in Content
    BY <2>2
  <2> QED BY <1>2, <2>1, <2>3 DEF ProgramCut, DataAccepted
<1> QED BY <1>1, <1>2

\* Every step preserves the invariant.
LEMMA NextSession == SessionInv /\ [Next]_vars => SessionInv'
<1> SUFFICES ASSUME SessionInv, [Next]_vars PROVE SessionInv'
  OBVIOUS
<1>c. Capacity \in Nat /\ 0 \in 0..Capacity /\ HeaderSize..Capacity \subseteq 0..Capacity
  BY WebusbAssumption
<1>z. \E sectors \in 0..Capacity : 0 = sectors * EraseSize
  BY <1>c, WebusbAssumption
<1>v. \A n : ValidatePackage(n) => n \in HeaderSize..Capacity
  BY ValidatedSize
<1>i. TypeOK /\ SessionBounds
  BY DEF SessionInv
<1> USE DEF SessionInv, FreshAhead, SentIsStored, ReceivingHidesSlot,
            CommittedIsInstallable, Committed
<1>1. CASE BeginFails
  <2>1. /\ meta' \in {meta, Torn, Blank} /\ cells' = cells
        /\ clearFailed' = TRUE
        /\ UNCHANGED <<receiving, rebootPending, total, received, erased, sent>>
    BY <1>1 DEF BeginFails, ClearMetaCut
  <2>2. TypeOK' /\ SessionBounds'
    BY <2>1, <1>i DEF TypeOK, SessionBounds
  <2>3. meta' \in {Torn, Blank} \/ (meta' = meta /\ (ValidatePackage(meta)' <=> ValidatePackage(meta)))
    BY <2>1 DEF ValidatePackage, Stored
  <2> QED BY <2>1, <2>2, <2>3
<1>2. CASE \E size \in HeaderSize..Capacity : BeginUpdate(size)
  <2>1. PICK size \in HeaderSize..Capacity : BeginUpdate(size)
    BY <1>2
  <2>2. TypeOK'
    BY <2>1, <1>c, <1>i DEF BeginUpdate, ClearMeta, TypeOK
  <2>3. SessionBounds'
    BY <2>1, <1>c, <1>z DEF BeginUpdate, SessionBounds
  <2>4. \A i \in Unit : ~(i < 0)
    BY <1>c DEF Unit
  <2> QED BY <2>1, <2>2, <2>3, <2>4 DEF BeginUpdate, ClearMeta, Units
<1>3. CASE Data
  <2>1. PICK n \in 1..MaxPayload, v \in Image \cup {Junk} :
          DataFails(n, v) \/ WriteData(n, v)
    BY <1>3 DEF Data
  <2>2. CASE WriteData(n, v)
    BY <2>2, WriteDataStores
  <2>3. CASE DataFails(n, v)
    <3>1. cells' \in [Unit -> Content] /\ receiving
      BY <2>3, DataCut DEF DataFails
    <3>2. /\ erased' \in 0..Capacity
          /\ \E sectors \in 0..Capacity : erased' = sectors * EraseSize
      <4>1. CASE erased' = erased
        BY <4>1, <1>i DEF TypeOK, SessionBounds
      <4>2. CASE erased' = EraseEnd(received + n) /\ DataAccepted(n)
        BY <4>2, <1>i, <1>c, EraseLoop DEF TypeOK
      <4> QED BY <2>3, <4>1, <4>2 DEF DataFails, ProgramCut
    <3>3. receiving' = FALSE /\ UNCHANGED <<meta, rebootPending, total, received, sent, clearFailed>>
      BY <2>3 DEF DataFails
    <3>4. TypeOK' /\ SessionBounds'
      BY <3>1, <3>2, <3>3, <1>i DEF TypeOK, SessionBounds
    <3> QED BY <3>1, <3>3, <3>4
  <2> QED BY <2>1, <2>2, <2>3
<1>4. CASE EndFails
  <2>1. meta' \in {meta, Torn, total} /\ cells' = cells /\ receiving' = FALSE
        /\ UNCHANGED <<rebootPending, total, received, erased, sent, clearFailed>>
    BY <1>4 DEF EndFails, CommitCut
  <2>2. receiving /\ (meta' \notin {meta, Torn} => meta' = total /\ ValidatePackage(total))
    BY <1>4 DEF EndFails, EndAccepted, CommitCut
  <2>3. TypeOK'
    BY <2>1, <2>2, <1>i, <1>v DEF TypeOK
  <2>4. SessionBounds'
    BY <2>1, <1>i DEF SessionBounds
  <2>5. Committed' => ValidatePackage(meta)'
    BY <2>1, <2>2 DEF ValidatePackage, Stored
  <2> QED BY <2>1, <2>3, <2>4, <2>5
<1>5. CASE FinishUpdate
  <2>1. meta' \in {Torn, total} /\ cells' = cells /\ receiving' = FALSE /\ rebootPending' = TRUE
        /\ UNCHANGED <<total, received, erased, sent, clearFailed>> /\ ValidatePackage(total)
    BY <1>5 DEF FinishUpdate, Commit
  <2>2. TypeOK' /\ SessionBounds'
    BY <2>1, <1>i, <1>v DEF TypeOK, SessionBounds
  <2>3. Committed' => ValidatePackage(meta)'
    BY <2>1 DEF ValidatePackage, Stored
  <2> QED BY <2>1, <2>2, <2>3
<1>6. CASE Abort
  <2>1. meta' \in {meta, Torn, Blank} /\ cells' = cells /\ receiving' = FALSE /\ rebootPending' = FALSE
        /\ total' = 0 /\ received' = 0 /\ UNCHANGED <<erased, sent, clearFailed>>
    BY <1>6 DEF Abort, ClearMeta, ClearMetaCut
  <2>2. TypeOK' /\ SessionBounds'
    BY <2>1, <1>i, <1>c DEF TypeOK, SessionBounds
  <2>3. Committed' => ValidatePackage(meta)'
    BY <2>1 DEF ValidatePackage, Stored
  <2> QED BY <2>1, <2>2, <2>3
<1>7. CASE Reboot \/ PowerLoss
  <2>1. /\ receiving' = FALSE /\ rebootPending' = FALSE /\ total' = 0 /\ received' = 0 /\ erased' = 0
        /\ sent' = [i \in Unit |-> Junk] /\ clearFailed' = FALSE
    BY <1>7 DEF Reboot, PowerLoss, ForgetSession
  <2>2. \/ meta' \in {meta, Torn, Blank} /\ cells' = cells
        \/ meta' = total /\ ValidatePackage(total) /\ cells' = cells
        \/ meta' = meta /\ receiving /\ cells' \in [Unit -> Content]
    <3>1. CASE \E n \in 1..MaxPayload, v \in Image \cup {Junk} :
                 EraseCut(n) \/ ProgramCut(n, v)
      BY <1>7, <3>1, <1>i, DataCut
         DEF Reboot, PowerLoss, ClearMeta, ClearMetaCut, CommitCut
    <3> QED
      BY <1>7, <3>1 DEF Reboot, PowerLoss, ClearMeta, ClearMetaCut, CommitCut
  <2>3. TypeOK'
    BY <2>1, <2>2, <1>i, <1>c, <1>v DEF TypeOK
  <2>4. SessionBounds'
    BY <2>1, <1>z DEF SessionBounds
  <2>5. Committed' => ValidatePackage(meta)'
    BY <2>2 DEF ValidatePackage, Stored
  <2> QED BY <2>1, <2>3, <2>4, <2>5
<1>8. CASE UNCHANGED vars
  BY <1>8 DEF vars, flash, session, TypeOK, SessionBounds, ValidatePackage, Stored
<1> QED
  BY <1>1, <1>2, <1>3, <1>4, <1>5, <1>6, <1>7, <1>8 DEF Next, Begin, End

\* Type correctness of the session and of the two flash ranges.
THEOREM TypeCorrect == Spec => []TypeOK
<1>1. SessionInv => TypeOK
  BY DEF SessionInv
<1> QED BY <1>1, InitSession, NextSession, PTL DEF Spec

\* ota_staging_commit, write_data: whatever fails and whenever power is lost,
\* committed metadata describe a complete valid package.
THEOREM CommitSafety == Spec => []CommittedIsInstallable
<1>1. SessionInv => CommittedIsInstallable
  BY DEF SessionInv
<1> QED BY <1>1, InitSession, NextSession, PTL DEF Spec

\* begin_update, finish_update, abort_update: no package is visible and no
\* reboot is scheduled while a session overwrites the image range.
THEOREM SessionIsHidden == Spec => []ReceivingHidesSlot
<1>1. SessionInv => ReceivingHidesSlot
  BY DEF SessionInv
<1> QED BY <1>1, InitSession, NextSession, PTL DEF Spec

\* write_data: what the session accepted is in the flash.
THEOREM DataIsStored == Spec => []SentIsStored
<1>1. SessionInv => SentIsStored
  BY DEF SessionInv
<1> QED BY <1>1, InitSession, NextSession, PTL DEF Spec

-----------------------------------------------------------------------------
LEMMA RebootInvariant == Spec => []RebootInv
<1>1. Init => RebootInv
  BY InitSession DEF Init, RebootInv, RebootHasPackage
<1>2. RebootInv /\ [Next]_vars => RebootInv'
  <2> SUFFICES ASSUME RebootInv, [Next]_vars
               PROVE  /\ (receiving /\ ~clearFailed => meta = Blank)'
                      /\ RebootHasPackage'
    BY NextSession DEF RebootInv
  <2>i. /\ SessionInv
        /\ receiving /\ ~clearFailed => meta = Blank
        /\ RebootHasPackage
        /\ receiving => ~rebootPending
    BY DEF RebootInv, SessionInv, ReceivingHidesSlot
  <2>1. CASE Begin
    <3>1. CASE BeginFails
      <4>1. /\ cells' = cells /\ total' = total /\ rebootPending' = rebootPending
            /\ clearFailed' = TRUE
            /\ meta' \in {meta, Torn, Blank}
        BY <3>1 DEF BeginFails, ClearMetaCut
      <4>2. (rebootPending => ValidatePackage(total))'
        BY <2>i, <4>1 DEF RebootHasPackage, ValidatePackage, Stored
      <4>3. (rebootPending => meta = total \/ ~Committed)'
        BY <2>i, <4>1 DEF RebootHasPackage, Committed
      <4> QED BY <4>1, <4>2, <4>3 DEF RebootHasPackage
    <3>2. CASE \E size \in HeaderSize..Capacity : BeginUpdate(size)
      BY <3>2 DEF BeginUpdate, ClearMeta, RebootHasPackage
    <3> QED BY <2>1, <3>1, <3>2 DEF Begin
  <2>2. CASE Data
    BY <2>2, <2>i DEF Data, DataFails, WriteData, DataAccepted, EraseCut, ProgramCut,
                      RebootHasPackage
  <2>3. CASE EndFails
    BY <2>3, <2>i DEF EndFails, EndAccepted, RebootHasPackage
  <2>4. CASE FinishUpdate
    <3>1. /\ cells' = cells /\ total' = total /\ clearFailed' = clearFailed
          /\ receiving' = FALSE /\ receiving /\ ValidatePackage(total)
          /\ meta' = IF meta = Blank THEN total ELSE Torn
      BY <2>4 DEF FinishUpdate, Commit, EndAccepted
    <3>2. ValidatePackage(total)'
      BY <3>1 DEF ValidatePackage, Stored
    <3>3. meta' = total' \/ (clearFailed' /\ ~Committed')
      BY <2>i, <3>1 DEF Committed
    <3> QED BY <3>1, <3>2, <3>3 DEF RebootHasPackage
  <2>5. CASE Abort \/ Reboot \/ PowerLoss
    BY <2>5 DEF Abort, Reboot, PowerLoss, ForgetSession, RebootHasPackage
  <2>6. CASE UNCHANGED vars
    BY <2>6, <2>i DEF vars, flash, session, Committed, RebootHasPackage,
                      ValidatePackage, Stored
  <2> QED BY <2>1, <2>2, <2>3, <2>4, <2>5, <2>6 DEF Next, End
<1> QED BY <1>1, <1>2, PTL DEF Spec

\* begin_update, finish_update: the image a scheduled reboot is about stays
\* complete, and the metadata name it or, after a failed BEGIN, nothing.
THEOREM RebootSafety == Spec => []RebootHasPackage
<1>1. RebootInv => RebootHasPackage
  BY DEF RebootInv
<1> QED BY <1>1, RebootInvariant, PTL

-----------------------------------------------------------------------------
\* ota_webusb.c and ota_staging.c implement the staging slot: packages appear
\* in it complete, in one step, and only when it is empty.
THEOREM SlotRefinement == Spec => ImplementsSlot
<1>1. Init => Slot!Init
  BY DEF Init, Slot!Init, CommittedPackage, Committed
<1>2. SessionInv /\ SessionInv' /\ [Next]_vars => [Slot!Next]_CommittedPackage
  <2> SUFFICES ASSUME SessionInv, SessionInv', [Next]_vars,
                      CommittedPackage' # CommittedPackage
               PROVE  Slot!Publish \/ Slot!Discard \/ Slot!Damage
    BY DEF Slot!Next
  <2>1. CASE meta' = Blank
    <3>1. CommittedPackage' = None
      BY <2>1 DEF CommittedPackage, Committed
    <3> QED BY <3>1 DEF Slot!Discard
  <2>2. CASE meta' = Torn
    <3>1. CommittedPackage' = Corrupt
      BY <2>2 DEF CommittedPackage, Committed, Blank, Torn
    <3> QED BY <3>1 DEF Slot!Damage
  <2>3. CASE meta' = meta /\ meta \notin {Blank, Torn}
    <3>1. ~receiving
      BY <2>3 DEF SessionInv, ReceivingHidesSlot, Committed
    <3>2. cells' = cells
      BY <3>1 DEF Next, Begin, BeginFails, BeginUpdate, Data, DataFails, WriteData,
                  EraseCut, ProgramCut, DataAccepted, End, EndFails, FinishUpdate,
                  Abort, Reboot, PowerLoss, vars, flash
    <3>3. CommittedPackage' = CommittedPackage
      BY <2>3, <3>2 DEF CommittedPackage, Committed, ValidatePackage, Stored
    <3> QED BY <3>3
  <2>4. CASE meta' # meta /\ meta' \notin {Blank, Torn}
    <3>1. CommittedPackage' \in Image
      BY <2>4 DEF SessionInv, CommittedIsInstallable, Committed, CommittedPackage,
                  ValidatePackage
    <3>2. meta = Blank
      BY <2>4 DEF Next, Begin, BeginFails, BeginUpdate, Data, DataFails, WriteData,
                  End, EndFails, FinishUpdate, Commit, CommitCut, Abort, Reboot,
                  PowerLoss, ClearMeta, ClearMetaCut, vars, flash
    <3>3. CommittedPackage = None
      BY <3>2 DEF CommittedPackage, Committed
    <3> QED BY <3>1, <3>3 DEF Slot!Publish
  <2> QED BY <2>1, <2>2, <2>3, <2>4
<1> QED
  BY <1>1, <1>2, InitSession, NextSession, PTL DEF Spec, ImplementsSlot, Slot!Spec
=============================================================================
