-------------------------- MODULE Services_audits ---------------------------
(***************************************************************************)
(* Theorems about the parts of Services that read sites: the audit of a    *)
(* page, the browser it shares with the other audits, the requests of      *)
(* audits, and the inventory of a client's site.                           *)
(***************************************************************************)
EXTENDS Services_accounts, Scheduler_proofs, FiniteSetTheorems

-----------------------------------------------------------------------------
(* The browser (pagespeed_real.py, processes.py).                          *)

\* The lock is held by who says so, and browsers run for those who measure.
BrowserLockHeld == \A a \in Audits : lAudit[a].at \in {"locked", "measuring"} <=> lLock = a
BrowserOwnersMeasure == \A a \in Audits : a \in lBrowsers <=> Lighthouse!At(a, "measuring")

\* An audit that nobody crossed measured and stores alone, with no score stored.
BrowserAloneUncrossed ==
  \A a \in Audits :
     (lAudit[a].at \in {"measuring", "storing"} /\ ~lAudit[a].crossed) =>
        /\ lCache = None
        /\ \A b \in Audits : b # a => ~Lighthouse!At(b, "storing")
        /\ Lighthouse!At(a, "storing") => \A b \in Audits : ~Lighthouse!At(b, "measuring")

BrowserIInv == Lighthouse!TypeOK /\ BrowserLockHeld /\ BrowserOwnersMeasure
  /\ BrowserAloneUncrossed

LEMMA BrowserInitHolds ==
  ASSUME Lighthouse!ConstantsAssumption, Lighthouse!Init
  PROVE  BrowserIInv
<1>1. Lighthouse!NoAudit \in Lighthouse!Audit
  BY DEF Lighthouse!NoAudit, Lighthouse!Audit
<1>2. Lighthouse!TypeOK
  BY <1>1 DEF Lighthouse!Init, Lighthouse!TypeOK, Lighthouse!ConstantsAssumption
<1>. QED
  BY <1>2 DEF Lighthouse!Init, BrowserIInv, BrowserLockHeld, BrowserOwnersMeasure,
     BrowserAloneUncrossed, Lighthouse!At, Lighthouse!NoAudit, Lighthouse!ConstantsAssumption

\* One audit goes to another place; it neither measures nor stores there, unless it
\* stores what it measured.  A score stored changes from or to None only if nobody
\* uncrossed relied on there being none.
LEMMA BrowserMoveKeeps ==
  ASSUME Lighthouse!ConstantsAssumption, BrowserIInv, NEW a \in Audits,
         NEW to \in Lighthouse!Audit,
         lAudit' = [lAudit EXCEPT ![a] = to],
         to.at \notin {"measuring"},
         to.at = "storing" => Lighthouse!At(a, "measuring") /\ to.crossed = lAudit[a].crossed,
         lLock' = IF to.at = "locked" THEN a ELSE IF lLock = a THEN None ELSE lLock,
         to.at = "locked" => lLock \in {None, a},
         lBrowsers' = lBrowsers \ {a},
         lOrphans' \in 0..MaxKills,
         lCache' \in Measures \cup {None},
         lCache' \in {lCache, None} \/ Lighthouse!At(a, "storing")
  PROVE  BrowserIInv'
<1>. USE DEF BrowserIInv
<1>1. /\ lAudit' \in [Audits -> Lighthouse!Audit]
      /\ \A b \in Audits : lAudit'[b] = IF b = a THEN to ELSE lAudit[b]
  BY DEF Lighthouse!TypeOK
<1>2. Lighthouse!TypeOK'
  BY <1>1 DEF Lighthouse!TypeOK
<1>3. BrowserLockHeld'
  BY <1>1 DEF BrowserLockHeld, Lighthouse!TypeOK, Lighthouse!ConstantsAssumption
<1>4. BrowserOwnersMeasure'
  BY <1>1 DEF BrowserOwnersMeasure, Lighthouse!At
<1>5. BrowserAloneUncrossed'
  <2>. SUFFICES ASSUME NEW b \in Audits, lAudit'[b].at \in {"measuring", "storing"},
                       ~lAudit'[b].crossed
                PROVE  /\ lCache' = None
                       /\ \A c \in Audits : c # b => lAudit'[c].at # "storing"
                       /\ lAudit'[b].at = "storing" =>
                            \A c \in Audits : lAudit'[c].at # "measuring"
    BY DEF BrowserAloneUncrossed, Lighthouse!At
  <2>1. lAudit[b].at \in {"measuring", "storing"} /\ ~lAudit[b].crossed
    BY <1>1 DEF Lighthouse!At
  <2>2. /\ lCache = None
        /\ \A c \in Audits : c # b => lAudit[c].at # "storing"
        /\ lAudit[b].at = "storing" => \A c \in Audits : lAudit[c].at # "measuring"
    BY <2>1 DEF BrowserAloneUncrossed, Lighthouse!At
  <2>3. CASE b = a
    <3>1. to.at = "storing" /\ lAudit[a].at = "measuring" /\ lCache' = None
      BY <1>1, <2>2, <2>3 DEF Lighthouse!At
    <3>2. \A c \in Audits : c # a => lAudit[c].at # "measuring"
      BY <3>1 DEF BrowserLockHeld
    <3>. QED
      BY <1>1, <2>2, <2>3, <3>1, <3>2
  <2>4. CASE b # a
    <3>1. lAudit[a].at # "storing" /\ lCache' = None
      BY <2>2, <2>4 DEF Lighthouse!At
    <3>2. to.at # "storing"
      <4>. SUFFICES ASSUME to.at = "storing" PROVE FALSE
        OBVIOUS
      <4>1. lAudit[a].at = "measuring"
        BY DEF Lighthouse!At
      <4>2. lAudit[b].at # "measuring"
        BY <2>4, <4>1 DEF BrowserLockHeld
      <4>3. lAudit[b].at = "storing"
        BY <2>1, <4>2
      <4>. QED
        BY <2>2, <4>1, <4>3
    <3>. QED
      BY <1>1, <2>2, <2>4, <3>1, <3>2
  <2>. QED
    BY <2>3, <2>4
<1>. QED
  BY <1>2, <1>3, <1>4, <1>5

\* A browser is launched: who stores then and who measures cross each other.
LEMMA BrowserLaunchKeeps ==
  ASSUME Lighthouse!ConstantsAssumption, BrowserIInv, NEW a \in Audits, Lighthouse!Launch(a)
  PROVE  BrowserIInv'
<1>. USE DEF BrowserIInv
<1>1. PICK storing \in BOOLEAN : storing = \E c \in Audits : Lighthouse!At(c, "storing")
  OBVIOUS
<1>2. lAudit[a] \in Lighthouse!Audit
  BY DEF Lighthouse!TypeOK
<1>3. PICK new : new = [lAudit[a] EXCEPT !.at = "measuring", !.crossed = storing]
  OBVIOUS
<1>4. new \in Lighthouse!Audit /\ new.at = "measuring" /\ new.crossed = storing
  BY <1>2, <1>3 DEF Lighthouse!Audit
<1>5. lAudit' = [b \in Audits |-> IF b = a THEN new
                   ELSE [lAudit[b] EXCEPT !.crossed = lAudit[b].crossed
                   \/ Lighthouse!At(b, "storing")]]
  BY <1>1, <1>3, Zenon DEF Lighthouse!Launch
<1>6. ASSUME NEW b \in Audits, b # a
      PROVE  /\ lAudit'[b] \in Lighthouse!Audit /\ lAudit'[b].at = lAudit[b].at
             /\ lAudit[b].at = "storing" => lAudit'[b].crossed
             /\ lAudit'[b].crossed \/ ~lAudit[b].crossed
  <2>1. lAudit[b] \in Lighthouse!Audit
    BY DEF Lighthouse!TypeOK
  <2>2. PICK crossed \in BOOLEAN : crossed = (lAudit[b].crossed \/ Lighthouse!At(b, "storing"))
    OBVIOUS
  <2>3. lAudit'[b] = [lAudit[b] EXCEPT !.crossed = crossed]
    BY <1>5, <1>6, <2>2, Zenon
  <2>4. lAudit'[b] \in Lighthouse!Audit /\ lAudit'[b].at = lAudit[b].at
        /\ lAudit'[b].crossed = crossed
    BY <2>1, <2>3 DEF Lighthouse!Audit
  <2>5. lAudit[b].at = "storing" => crossed
    BY <2>2, Zenon DEF Lighthouse!At
  <2>6. crossed \/ ~lAudit[b].crossed
    BY <2>2, Zenon
  <2>. QED
    BY <2>4, <2>5, <2>6
<1>7. lAudit'[a] = new
  BY <1>5
<1>8. Lighthouse!TypeOK'
  <2>1. lAudit' \in [Audits -> Lighthouse!Audit]
    BY <1>4, <1>5, <1>6, <1>7
  <2>. QED
    BY <2>1 DEF Lighthouse!Launch, Lighthouse!TypeOK
<1>9. lLock = a /\ lLock' = a /\ lCache = None /\ lCache' = None
  BY DEF Lighthouse!Launch, Lighthouse!NotStored, Lighthouse!At, BrowserLockHeld
<1>10. BrowserLockHeld'
  BY <1>4, <1>6, <1>7, <1>9 DEF BrowserLockHeld
<1>11. BrowserOwnersMeasure'
  BY <1>4, <1>6, <1>7 DEF BrowserOwnersMeasure, Lighthouse!At, Lighthouse!Launch
<1>12. BrowserAloneUncrossed'
  <2>. SUFFICES ASSUME NEW b \in Audits, lAudit'[b].at \in {"measuring", "storing"},
                       ~lAudit'[b].crossed
                PROVE  /\ lCache' = None
                       /\ \A c \in Audits : c # b => lAudit'[c].at # "storing"
                       /\ lAudit'[b].at = "storing" =>
                            \A c \in Audits : lAudit'[c].at # "measuring"
    BY DEF BrowserAloneUncrossed, Lighthouse!At
  <2>1. b = a
    <3>1. \A c \in Audits : c # a => lAudit[c].at # "measuring"
      BY <1>9 DEF BrowserLockHeld
    <3>. QED
      BY <1>6, <3>1
  <2>2. ~storing
    BY <1>4, <1>7, <2>1
  <2>3. \A c \in Audits : lAudit[c].at # "storing"
    BY <1>1, <2>2 DEF Lighthouse!At
  <2>. QED
    BY <1>4, <1>6, <1>7, <1>9, <2>1, <2>3
<1>. QED
  BY <1>8, <1>10, <1>11, <1>12

BrowserPlaces == {"idle", "waiting", "locked", "measuring", "storing", "ended"}

LEMMA BrowserPlaced ==
  ASSUME NEW r \in Lighthouse!Audit, NEW at \in BrowserPlaces,
         NEW score \in Measures \cup {None}
  PROVE  /\ [r EXCEPT !.at = at] \in Lighthouse!Audit /\ [r EXCEPT !.at = at].at = at
         /\ [r EXCEPT !.at = at].crossed = r.crossed
         /\ [r EXCEPT !.at = at, !.score = score] \in Lighthouse!Audit
         /\ [r EXCEPT !.at = at, !.score = score].at = at
         /\ [r EXCEPT !.at = at, !.score = score].crossed = r.crossed
BY DEF Lighthouse!Audit, BrowserPlaces

LEMMA BrowserEndedKeeps ==
  ASSUME Lighthouse!ConstantsAssumption, BrowserIInv, NEW a \in Audits,
         NEW score \in Measures \cup {None},
         Lighthouse!Ended(a, score), lLock' = IF lLock = a THEN None ELSE lLock,
         lBrowsers' = lBrowsers \ {a}, UNCHANGED <<lCache, lOrphans>>
  PROVE  BrowserIInv'
<1>1. PICK to : to = [lAudit[a] EXCEPT !.at = "ended", !.score = score]
  OBVIOUS
<1>2. lAudit[a] \in Lighthouse!Audit /\ "ended" \in BrowserPlaces
  BY DEF BrowserIInv, Lighthouse!TypeOK, BrowserPlaces
<1>3. to \in Lighthouse!Audit /\ to.at = "ended"
  BY <1>1, <1>2, BrowserPlaced
<1>4. lAudit' = [lAudit EXCEPT ![a] = to]
  BY <1>1 DEF Lighthouse!Ended
<1>5. lOrphans' \in 0..MaxKills /\ lCache' \in Measures \cup {None} /\ lCache' = lCache
  BY DEF BrowserIInv, Lighthouse!TypeOK
<1>. QED
  BY <1>3, <1>4, <1>5, BrowserMoveKeeps

LEMMA BrowserStepKeeps ==
  ASSUME Lighthouse!ConstantsAssumption, BrowserIInv, [Lighthouse!Next]_(Lighthouse!vars)
  PROVE  BrowserIInv'
<1>1. CASE UNCHANGED Lighthouse!vars
  BY <1>1 DEF Lighthouse!vars, BrowserIInv, Lighthouse!TypeOK, BrowserLockHeld,
     BrowserOwnersMeasure, BrowserAloneUncrossed, Lighthouse!At
<1>2. CASE Lighthouse!Expire
  BY <1>2 DEF Lighthouse!Expire, BrowserIInv, Lighthouse!TypeOK, BrowserLockHeld,
     BrowserOwnersMeasure, BrowserAloneUncrossed, Lighthouse!At
<1>3. ASSUME NEW a \in Audits
      PROVE  /\ lAudit[a] \in Lighthouse!Audit /\ (a \in lBrowsers
                  <=> lAudit[a].at = "measuring")
             /\ (lLock = a <=> lAudit[a].at \in {"locked", "measuring"})
             /\ a # None /\ lCache \in Measures \cup {None} /\ lOrphans \in 0..MaxKills
             /\ lBrowsers \ {a} = IF a \in lBrowsers THEN lBrowsers \ {a} ELSE lBrowsers
  BY DEF BrowserIInv, Lighthouse!TypeOK, BrowserOwnersMeasure, BrowserLockHeld, Lighthouse!At,
     Lighthouse!ConstantsAssumption
<1>4. ASSUME NEW a \in Audits,
             Lighthouse!GiveUp(a) \/ Lighthouse!FoundStored(a) \/ Lighthouse!Fails(a)
      PROVE  BrowserIInv'
  <2>1. PICK score \in Measures \cup {None} : Lighthouse!Ended(a, score)
    BY <1>3, <1>4 DEF Lighthouse!GiveUp, Lighthouse!FoundStored, Lighthouse!Fails
  <2>2. lLock' = (IF lLock = a THEN None ELSE lLock) /\ lBrowsers' = lBrowsers \ {a}
    BY <1>3, <1>4 DEF Lighthouse!GiveUp, Lighthouse!FoundStored, Lighthouse!Fails,
       Lighthouse!At, Lighthouse!Stopped
  <2>3. UNCHANGED <<lCache, lOrphans>>
    BY <1>4 DEF Lighthouse!GiveUp, Lighthouse!FoundStored, Lighthouse!Fails
  <2>. QED
    BY <2>1, <2>2, <2>3, BrowserEndedKeeps
<1>5. ASSUME NEW a \in Audits, Lighthouse!Look(a) PROVE BrowserIInv'
  <2>1. lLock' = (IF lLock = a THEN None ELSE lLock) /\ lBrowsers' = lBrowsers \ {a}
    BY <1>3, <1>5 DEF Lighthouse!Look, Lighthouse!At
  <2>2. CASE Lighthouse!Ended(a, lCache)
    BY <1>3, <1>5, <2>1, <2>2, BrowserEndedKeeps DEF Lighthouse!Look
  <2>3. CASE lAudit' = [lAudit EXCEPT ![a].at = "waiting"]
    <3>1. PICK to : to = [lAudit[a] EXCEPT !.at = "waiting"]
      OBVIOUS
    <3>2. "waiting" \in BrowserPlaces /\ None \in Measures \cup {None}
      BY DEF BrowserPlaces
    <3>3. to \in Lighthouse!Audit /\ to.at = "waiting"
      BY <1>3, <3>1, <3>2, BrowserPlaced
    <3>4. lAudit' = [lAudit EXCEPT ![a] = to]
      BY <2>3, <3>1
    <3>. QED
      BY <1>3, <1>5, <2>1, <3>3, <3>4, BrowserMoveKeeps DEF Lighthouse!Look
  <2>. QED
    BY <1>5, <2>2, <2>3 DEF Lighthouse!Look
<1>6. ASSUME NEW a \in Audits, Lighthouse!Acquire(a) PROVE BrowserIInv'
  <2>1. PICK to : to = [lAudit[a] EXCEPT !.at = "locked"]
    OBVIOUS
  <2>2. to \in Lighthouse!Audit /\ to.at = "locked" /\ lAudit' = [lAudit EXCEPT ![a] = to]
    BY <1>3, <1>6, <2>1, BrowserPlaced DEF BrowserPlaces, Lighthouse!Acquire
  <2>3. lBrowsers' = lBrowsers \ {a}
    BY <1>3, <1>6 DEF Lighthouse!Acquire, Lighthouse!At
  <2>. QED
    BY <1>3, <1>6, <2>2, <2>3, BrowserMoveKeeps DEF Lighthouse!Acquire
<1>7. ASSUME NEW a \in Audits, NEW score \in Measures, Lighthouse!Measured(a, score)
      PROVE  BrowserIInv'
  <2>1. PICK to : to = [lAudit[a] EXCEPT !.at = "storing", !.score = score]
    OBVIOUS
  <2>2. to \in Lighthouse!Audit /\ to.at = "storing" /\ to.crossed = lAudit[a].crossed
    <3>1. lAudit[a] \in Lighthouse!Audit
      BY <1>3
    <3>. QED
      BY <2>1, <3>1 DEF Lighthouse!Audit
  <2>3. lAudit' = [lAudit EXCEPT ![a] = to]
    BY <1>7, <2>1 DEF Lighthouse!Measured
  <2>4. lLock' = (IF lLock = a THEN None ELSE lLock)
    BY <1>3, <1>7 DEF Lighthouse!Measured, Lighthouse!At
  <2>. QED
    BY <1>3, <1>7, <2>2, <2>3, <2>4, BrowserMoveKeeps
    DEF Lighthouse!Measured, Lighthouse!Stopped
<1>8. ASSUME NEW a \in Audits, Lighthouse!Store(a) PROVE BrowserIInv'
  <2>1. PICK to : to = [lAudit[a] EXCEPT !.at = "ended"]
    OBVIOUS
  <2>2. to \in Lighthouse!Audit /\ to.at = "ended" /\ lAudit' = [lAudit EXCEPT ![a] = to]
    BY <1>3, <1>8, <2>1, BrowserPlaced DEF BrowserPlaces, Lighthouse!Store
  <2>3. lCache' \in Measures \cup {None}
    BY <1>3, <1>8 DEF Lighthouse!Store, Lighthouse!Audit
  <2>4. lLock' = (IF lLock = a THEN None ELSE lLock) /\ lBrowsers' = lBrowsers \ {a}
    BY <1>3, <1>8 DEF Lighthouse!Store, Lighthouse!At
  <2>. QED
    BY <1>3, <1>8, <2>2, <2>3, <2>4, BrowserMoveKeeps DEF Lighthouse!Store
<1>9. ASSUME NEW a \in Audits, Lighthouse!Again(a) \/ Lighthouse!Kill(a) PROVE BrowserIInv'
  <2>1. Lighthouse!NoAudit \in Lighthouse!Audit /\ Lighthouse!NoAudit.at = "idle"
        /\ lAudit' = [lAudit EXCEPT ![a] = Lighthouse!NoAudit]
    BY <1>9 DEF Lighthouse!NoAudit, Lighthouse!Audit, Lighthouse!Again, Lighthouse!Kill
  <2>2. lLock' = (IF lLock = a THEN None ELSE lLock) /\ lBrowsers' = lBrowsers \ {a}
    BY <1>3, <1>9 DEF Lighthouse!Again, Lighthouse!Kill, Lighthouse!At
  <2>3. lOrphans' \in 0..MaxKills /\ lCache' = lCache
    BY <1>3, <1>9 DEF Lighthouse!Again, Lighthouse!Kill, Lighthouse!ConstantsAssumption
  <2>. QED
    BY <1>3, <2>1, <2>2, <2>3, BrowserMoveKeeps
<1>. QED
  BY <1>1, <1>2, <1>4, <1>5, <1>6, <1>7, <1>8, <1>9, BrowserLaunchKeeps DEF Lighthouse!Next

\* A score of today is replaced only by one that was crossed, and browsers run side
\* by side only after a process was killed (pagespeed_real.py, processes.py).
THEOREM BrowserStableHolds ==
  ASSUME Lighthouse!ConstantsAssumption
  PROVE  Lighthouse!Spec
           => [](Lighthouse!TypeOK /\ Lighthouse!OneBrowser) /\ Lighthouse!StableScore
<1>1. Lighthouse!Init => BrowserIInv
  BY BrowserInitHolds
<1>2. BrowserIInv /\ [Lighthouse!Next]_(Lighthouse!vars) => BrowserIInv'
  BY BrowserStepKeeps
<1>3. BrowserIInv => Lighthouse!TypeOK /\ Lighthouse!OneBrowser
  <2>. SUFFICES ASSUME BrowserIInv, NEW a \in lBrowsers, NEW b \in lBrowsers PROVE a = b
    BY DEF Lighthouse!OneBrowser, BrowserIInv
  <2>1. a \in Audits /\ b \in Audits
    BY DEF BrowserIInv, Lighthouse!TypeOK
  <2>2. lLock = a /\ lLock = b
    BY <2>1 DEF BrowserIInv, BrowserOwnersMeasure, BrowserLockHeld, Lighthouse!At
  <2>. QED
    BY <2>2
<1>4. ASSUME BrowserIInv, [Lighthouse!Next]_(Lighthouse!vars), lCache # None,
             lCache' \notin {None, lCache}
      PROVE  \E a \in Audits : Lighthouse!At(a, "storing") /\ lAudit[a].crossed
  <2>1. PICK a \in Audits : Lighthouse!Store(a)
    BY <1>4 DEF Lighthouse!Next, Lighthouse!vars, Lighthouse!Expire, Lighthouse!Look,
       Lighthouse!GiveUp, Lighthouse!Acquire, Lighthouse!FoundStored, Lighthouse!Launch,
       Lighthouse!Fails,
       Lighthouse!Again, Lighthouse!Kill, Lighthouse!Measured
  <2>2. Lighthouse!At(a, "storing") /\ lAudit[a].crossed
    BY <1>4, <2>1 DEF Lighthouse!Store, Lighthouse!At, BrowserIInv, BrowserAloneUncrossed
  <2>. QED
    BY <2>2
<1>5. BrowserIInv /\ [Lighthouse!Next]_(Lighthouse!vars) =>
        [(lCache # None /\ lCache' \notin {None, lCache})
           => \E a \in Audits : Lighthouse!At(a, "storing")
           /\ lAudit[a].crossed]_(Lighthouse!vars)
  BY <1>4
<1>. QED
  BY <1>1, <1>2, <1>3, <1>5, PTL DEF Lighthouse!Spec, Lighthouse!StableScore

-----------------------------------------------------------------------------
(* The inventory of a site (site_inventory.py).                            *)

\* A job that failed nowhere and began at the beginning of all the urls has put in
\* the table the urls it has passed.
InventoryJobCovers ==
  (vJob # None /\ ~vJob.failed /\ ~vJob.partial /\ ~vJob.blind) =>
     \A n \in 1..vJob.offset : <<vJob.of.base, n>> \in vPages

\* A complete report leaves nothing to go on with.
InventoryCompleteEnds == (vReport # None /\ vReport.complete) => vReport.next = 0

InventoryIInv == Inventory!TypeOK /\ InventoryJobCovers /\ InventoryCompleteEnds
  /\ Inventory!CoverageIsTrue

\* The report of a job that covers what it has passed.
LEMMA InventoryReportedIsTrue ==
  ASSUME Inventory!ConstantsAssumption, NEW j \in Inventory!Job, NEW table,
         (~j.failed /\ ~j.partial /\ ~j.blind)
           => \A n \in 1..j.offset : <<j.of.base, n>> \in table
  PROVE  /\ Inventory!Reported(j) \in Inventory!Report
         /\ Inventory!Reported(j).complete => Inventory!Reported(j).next = 0
         /\ (Inventory!Reported(j).complete /\ ~Inventory!Reported(j).blind) =>
              \A n \in 1..Inventory!Reported(j).of.length :
                 <<Inventory!Reported(j).of.base, n>> \in table
<1>1. /\ j.of \in Inventory!List /\ j.of.length \in 1..MaxUrls /\ j.offset \in 0..MaxUrls
      /\ j.sitemap \in BOOLEAN /\ j.blind \in BOOLEAN
      /\ j.failed \in BOOLEAN /\ j.partial \in BOOLEAN
  BY DEF Inventory!Job, Inventory!List
<1>2. PICK next : next = IF j.offset < j.of.length THEN j.offset ELSE 0
  OBVIOUS
<1>3. PICK complete \in BOOLEAN :
        complete = (j.sitemap /\ ~j.failed /\ ~j.partial /\ j.offset >= j.of.length)
  OBVIOUS
<1>4. Inventory!Reported(j) = [of |-> j.of, next |-> next, complete |-> complete,
                               sitemap |-> j.sitemap, blind |-> j.blind]
  BY <1>2, <1>3, Zenon DEF Inventory!Reported
<1>5. next \in 0..MaxUrls
  BY <1>1, <1>2 DEF Inventory!ConstantsAssumption
<1>6. Inventory!Reported(j) \in Inventory!Report
  BY <1>1, <1>4, <1>5 DEF Inventory!Report
<1>7. complete => ~j.failed /\ ~j.partial /\ j.offset >= j.of.length
  BY <1>3
<1>8. complete => next = 0
  BY <1>1, <1>2, <1>7
<1>9. ASSUME complete, ~j.blind, NEW n \in 1..j.of.length
      PROVE  <<j.of.base, n>> \in table
  <2>1. n \in 1..j.offset
    BY <1>1, <1>7, <1>9
  <2>. QED
    BY <1>7, <1>9, <2>1
<1>. QED
  BY <1>4, <1>6, <1>8, <1>9

\* A job that begins.
LEMMA InventoryStartedIsTyped ==
  ASSUME Inventory!ConstantsAssumption, Inventory!TypeOK, NEW list \in Inventory!List,
         NEW sitemap \in BOOLEAN,
         NEW partial \in BOOLEAN
  PROVE  /\ Inventory!Started(list, sitemap, partial) \in Inventory!Job
         /\ Inventory!Started(list, sitemap, partial).partial = partial
         /\ (~Inventory!Resuming /\ ~Inventory!Started(list, sitemap, partial).blind) =>
               Inventory!Started(list, sitemap, partial).offset = 0
<1>1. list.length \in 1..MaxUrls /\ (vReport # None => vReport \in Inventory!Report)
  BY DEF Inventory!List, Inventory!TypeOK
<1>2. PICK offset : offset = Inventory!Offset(list.length)
  OBVIOUS
<1>3. offset \in 0..MaxUrls
  BY <1>1, <1>2
  DEF Inventory!Offset, Inventory!Continues, Inventory!Report, Inventory!ConstantsAssumption
<1>4. PICK last : last = IF offset + Batch < list.length THEN offset + Batch ELSE list.length
  OBVIOUS
<1>5. last \in 0..MaxUrls
  BY <1>1, <1>3, <1>4 DEF Inventory!ConstantsAssumption
<1>6. PICK blind : blind = IF Inventory!Resuming THEN vReport.blind ELSE offset # 0
  OBVIOUS
<1>7. blind \in BOOLEAN
  BY <1>1, <1>6 DEF Inventory!Resuming, Inventory!Continues, Inventory!Report
<1>8. Inventory!Started(list, sitemap, partial) =
        [of |-> list, offset |-> offset, failed |-> FALSE, last |-> last,
         sitemap |-> sitemap, partial |-> partial, blind |-> blind]
  BY <1>2, <1>4, <1>6, Zenon DEF Inventory!Started
<1>9. Inventory!Started(list, sitemap, partial) \in Inventory!Job
  BY <1>3, <1>5, <1>7, <1>8 DEF Inventory!Job
<1>10. ~Inventory!Resuming /\ ~blind => offset = 0
  BY <1>3, <1>6
<1>. QED
  BY <1>8, <1>9, <1>10

LEMMA InventoryInitHolds ==
  ASSUME Inventory!ConstantsAssumption, Inventory!Init
  PROVE  InventoryIInv
BY DEF Inventory!ConstantsAssumption, Inventory!Init, InventoryIInv, Inventory!TypeOK,
   InventoryJobCovers, InventoryCompleteEnds, Inventory!CoverageIsTrue

LEMMA InventoryResumeKeeps ==
  ASSUME Inventory!ConstantsAssumption, InventoryIInv, Inventory!Resume
  PROVE  InventoryIInv'
<1>1. vReport \in Inventory!Report /\ vListed \in Inventory!List /\ vReport.next # 0
  BY DEF Inventory!Resume, Inventory!Resuming, Inventory!Continues, InventoryIInv,
     Inventory!TypeOK
<1>2. ~vReport.complete
  BY <1>1 DEF Inventory!Resume, Inventory!Resuming, Inventory!Continues, InventoryIInv,
     InventoryCompleteEnds
<1>3. vJob' \in Inventory!Job /\ vJob'.partial = TRUE
  <2>1. vReport.sitemap \in BOOLEAN
    BY <1>1 DEF Inventory!Report
  <2>2. vJob' = Inventory!Started(vListed, vReport.sitemap, TRUE)
    BY <1>2 DEF Inventory!Resume
  <2>. QED
    BY <1>1, <2>1, <2>2, InventoryStartedIsTyped DEF InventoryIInv
<1>. QED
  BY <1>3 DEF Inventory!Resume, InventoryIInv, Inventory!TypeOK, InventoryJobCovers,
     InventoryCompleteEnds, Inventory!CoverageIsTrue

LEMMA InventoryDiscoverKeeps ==
  ASSUME Inventory!ConstantsAssumption, InventoryIInv, NEW length \in 1..MaxUrls,
         NEW sitemap \in BOOLEAN,
         NEW partial \in BOOLEAN, Inventory!Discover(length, sitemap, partial)
  PROVE  InventoryIInv'
<1>1. PICK list : list = [base |-> vBase, length |-> length]
  OBVIOUS
<1>2. list \in Inventory!List
  BY <1>1 DEF InventoryIInv, Inventory!TypeOK, Inventory!List
<1>3. vListed' = list /\ vJob' = Inventory!Started(list, sitemap, partial)
  BY <1>1 DEF Inventory!Discover
<1>4. vJob' \in Inventory!Job /\ (~vJob'.blind => vJob'.offset = 0)
  BY <1>2, <1>3, InventoryStartedIsTyped DEF Inventory!Discover, InventoryIInv
<1>5. InventoryJobCovers'
  <2>1. ~vJob'.blind => 1..vJob'.offset = {}
    BY <1>4
  <2>. QED
    BY <2>1 DEF InventoryJobCovers
<1>. QED
  BY <1>2, <1>3, <1>4, <1>5 DEF Inventory!Discover, InventoryIInv, Inventory!TypeOK,
     InventoryCompleteEnds, Inventory!CoverageIsTrue

LEMMA InventoryReadKeeps ==
  ASSUME Inventory!ConstantsAssumption, InventoryIInv, NEW ok \in BOOLEAN, Inventory!Read(ok)
  PROVE  InventoryIInv'
<1>1. vJob \in Inventory!Job /\ vJob # None /\ vJob.offset \in 0..MaxUrls
      /\ vJob.last \in 0..MaxUrls
      /\ vJob.offset < vJob.last /\ vJob.of.base \in Bases
  BY DEF Inventory!Read, InventoryIInv, Inventory!TypeOK, Inventory!Job, Inventory!List
<1>2. /\ vJob' \in Inventory!Job /\ vJob'.of = vJob.of /\ vJob'.offset = vJob.offset + 1
      /\ vJob'.failed = (vJob.failed \/ ~ok)
      /\ vJob'.partial = vJob.partial /\ vJob'.blind = vJob.blind
  <2>1. PICK failed \in BOOLEAN : failed = (vJob.failed \/ ~ok)
    OBVIOUS
  <2>2. vJob' = [vJob EXCEPT !.offset = vJob.offset + 1, !.failed = failed]
    BY <2>1, Zenon DEF Inventory!Read
  <2>3. vJob.offset + 1 \in 0..MaxUrls
    BY <1>1 DEF Inventory!ConstantsAssumption
  <2>4. vJob' \in Inventory!Job
    BY <1>1, <2>2, <2>3 DEF Inventory!Job
  <2>5. vJob'.of = vJob.of /\ vJob'.offset = vJob.offset + 1 /\ vJob'.failed = failed
        /\ vJob'.partial = vJob.partial /\ vJob'.blind = vJob.blind
    BY <1>1, <2>2 DEF Inventory!Job
  <2>. QED
    BY <2>1, <2>4, <2>5, Zenon
<1>3. vPages' = IF ok THEN vPages \cup {<<vJob.of.base, vJob.offset + 1>>} ELSE vPages
  BY DEF Inventory!Read
<1>4. vPages' \subseteq Inventory!Urls
  <2>1. <<vJob.of.base, vJob.offset + 1>> \in Inventory!Urls
    BY <1>1 DEF Inventory!Urls, Inventory!ConstantsAssumption
  <2>. QED
    BY <1>3, <2>1 DEF InventoryIInv, Inventory!TypeOK
<1>5. (~vJob'.failed /\ ~vJob'.partial /\ ~vJob'.blind) =>
        \A n \in 1..vJob'.offset : <<vJob'.of.base, n>> \in vPages'
  <2>. SUFFICES ASSUME ~vJob'.failed, ~vJob'.partial, ~vJob'.blind, NEW n \in 1..vJob.offset + 1
                PROVE  <<vJob.of.base, n>> \in vPages'
    BY <1>2
  <2>1. ok /\ ~vJob.failed /\ ~vJob.partial /\ ~vJob.blind
    BY <1>2
  <2>2. CASE n \in 1..vJob.offset
    BY <1>1, <1>3, <2>1, <2>2 DEF InventoryIInv, InventoryJobCovers
  <2>3. CASE n = vJob.offset + 1
    BY <1>3, <2>1, <2>3
  <2>. QED
    BY <1>1, <2>2, <2>3
<1>6. ASSUME vReport' = Inventory!Reported(vJob')
      PROVE  (vReport' \in Inventory!Report \cup {None})
                                                       /\ InventoryCompleteEnds'
                                                          /\ Inventory!CoverageIsTrue'
  BY <1>2, <1>5, <1>6, InventoryReportedIsTrue
  DEF InventoryCompleteEnds, Inventory!CoverageIsTrue
<1>7. ASSUME vReport' = vReport PROVE (vReport' \in Inventory!Report \cup {None})
                                      /\ InventoryCompleteEnds' /\ Inventory!CoverageIsTrue'
  BY <1>3, <1>7
  DEF InventoryIInv, Inventory!TypeOK, InventoryCompleteEnds, Inventory!CoverageIsTrue
<1>8. vReport' = Inventory!Reported(vJob') \/ vReport' = vReport
  BY DEF Inventory!Read
<1>9. InventoryJobCovers'
  BY <1>5 DEF InventoryJobCovers
<1>. QED
  BY <1>2, <1>4, <1>6, <1>7, <1>8, <1>9 DEF Inventory!Read, InventoryIInv, Inventory!TypeOK

LEMMA InventoryFinishKeeps ==
  ASSUME Inventory!ConstantsAssumption, InventoryIInv, Inventory!Finish
  PROVE  InventoryIInv'
<1>1. vJob \in Inventory!Job /\ vReport' = Inventory!Reported(vJob) /\ vPages' = vPages
      /\ vJob' = None
  BY DEF Inventory!Finish, InventoryIInv, Inventory!TypeOK
<1>2. vReport' \in Inventory!Report /\ InventoryCompleteEnds' /\ Inventory!CoverageIsTrue'
  <2>1. (~vJob.failed /\ ~vJob.partial /\ ~vJob.blind) =>
          \A n \in 1..vJob.offset : <<vJob.of.base, n>> \in vPages
    BY DEF Inventory!Finish, InventoryIInv, InventoryJobCovers
  <2>2. /\ Inventory!Reported(vJob) \in Inventory!Report
        /\ Inventory!Reported(vJob).complete => Inventory!Reported(vJob).next = 0
        /\ (Inventory!Reported(vJob).complete /\ ~Inventory!Reported(vJob).blind) =>
              \A n \in 1..Inventory!Reported(vJob).of.length :
                 <<Inventory!Reported(vJob).of.base, n>> \in vPages
    BY <1>1, <2>1, InventoryReportedIsTrue
  <2>. QED
    BY <1>1, <2>2 DEF InventoryCompleteEnds, Inventory!CoverageIsTrue
<1>. QED
  BY <1>1, <1>2 DEF Inventory!Finish, InventoryIInv, Inventory!TypeOK, InventoryJobCovers

LEMMA InventoryStepKeeps ==
  ASSUME Inventory!ConstantsAssumption, InventoryIInv, [Inventory!Next]_(Inventory!vars)
  PROVE  InventoryIInv'
<1>1. CASE UNCHANGED Inventory!vars
  BY <1>1 DEF Inventory!vars, InventoryIInv, Inventory!TypeOK, InventoryJobCovers,
     InventoryCompleteEnds, Inventory!CoverageIsTrue
<1>2. CASE Inventory!Crash
  <2>1. vLeft' \in [crashes : 0..MaxJobDeaths, moves : 0..MaxMoves]
    BY <1>2 DEF Inventory!Crash, InventoryIInv, Inventory!TypeOK, Inventory!ConstantsAssumption
  <2>. QED
    BY <1>2, <2>1 DEF Inventory!Crash, InventoryIInv, Inventory!TypeOK, InventoryJobCovers,
       InventoryCompleteEnds, Inventory!CoverageIsTrue
<1>3. ASSUME NEW to \in Bases, Inventory!Move(to) PROVE InventoryIInv'
  <2>1. vLeft' \in [crashes : 0..MaxJobDeaths, moves : 0..MaxMoves]
    BY <1>3 DEF Inventory!Move, InventoryIInv, Inventory!TypeOK, Inventory!ConstantsAssumption
  <2>. QED
    BY <1>3, <2>1 DEF Inventory!Move, InventoryIInv, Inventory!TypeOK, InventoryJobCovers,
       InventoryCompleteEnds, Inventory!CoverageIsTrue
<1>4. ASSUME NEW length \in 1..MaxUrls, NEW how \in {"sitemaps", "some sitemaps", "links"},
             Inventory!Discover(length, how # "links", how = "some sitemaps")
      PROVE  InventoryIInv'
  <2>1. (how # "links") \in BOOLEAN /\ (how = "some sitemaps") \in BOOLEAN
    OBVIOUS
  <2>. QED
    BY <1>4, <2>1, InventoryDiscoverKeeps, Zenon
<1>. QED
  BY <1>1, <1>2, <1>3, <1>4, InventoryResumeKeeps, InventoryFinishKeeps, InventoryReadKeeps
  DEF Inventory!Next

\* A site reported as covered is in the table pages, whichever jobs died between,
\* and for batches and reports of any size (site_inventory.py).
THEOREM InventoryCoverageHolds ==
  ASSUME Inventory!ConstantsAssumption
  PROVE  Inventory!Spec => [](Inventory!TypeOK /\ Inventory!CoverageIsTrue)
<1>1. Inventory!Init => InventoryIInv
  BY InventoryInitHolds
<1>2. InventoryIInv /\ [Inventory!Next]_(Inventory!vars) => InventoryIInv'
  BY InventoryStepKeeps
<1>3. InventoryIInv => Inventory!TypeOK /\ Inventory!CoverageIsTrue
  BY DEF InventoryIInv
<1>. QED
  BY <1>1, <1>2, <1>3, PTL DEF Inventory!Spec

-----------------------------------------------------------------------------
(* The audit of a page (analyzer.py, safe_fetch.py).                       *)

\* While the page is being read there is no report, and once the first way was
\* tried in vain it is not one of the site's.
SiteReadingInv ==
  /\ rStage = "fetch" =>
       /\ rFetch \in SiteAudit!Fetching /\ rReport = None
       /\ rFetch.tries > 0 => "direct" \notin rFetch.open
  /\ SiteAudit!UnreadIsTrue

\* A failure says why, and leaves the ways as they are.
LEMMA SiteFailsKeeps ==
  ASSUME SiteReadingInv, rStage = "fetch", NEW why, SiteAudit!Fails(why),
         why = "exhausted" => {"direct", "reader"} \cap rFetch.open = {}
  PROVE  SiteReadingInv'
<1>1. rFetch \in SiteAudit!Fetching /\ rFetch' = [rFetch EXCEPT !.why = why]
      /\ rStage' = "ended"
  BY DEF SiteReadingInv, SiteAudit!Fails
<1>2. rFetch'.open = rFetch.open /\ rFetch'.why = why
  BY <1>1 DEF SiteAudit!Fetching
<1>. QED
  BY <1>1, <1>2 DEF SiteReadingInv, SiteAudit!UnreadIsTrue

LEMMA SiteReadKeeps ==
  ASSUME SiteReadingInv, rStage = "fetch", SiteAudit!Read PROVE SiteReadingInv'
<1>1. CASE SiteAudit!Succeeds
  BY <1>1 DEF SiteAudit!Succeeds, SiteReadingInv, SiteAudit!UnreadIsTrue
<1>2. CASE SiteAudit!Fails("unusable")
  BY <1>2, SiteFailsKeeps
<1>. QED
  BY <1>1, <1>2 DEF SiteAudit!Read

LEMMA SiteReadingStep ==
  ASSUME SiteReadingInv, [SiteAudit!Next]_(SiteAudit!vars)
  PROVE  SiteReadingInv'
<1>1. CASE UNCHANGED <<rStage, rFetch, rReport>>
  BY <1>1 DEF SiteReadingInv, SiteAudit!UnreadIsTrue
<1>2. CASE SiteAudit!Direct
  <2>1. rFetch \in SiteAudit!Fetching /\ rStage = "fetch" /\ rReport = None
    BY <1>2 DEF SiteAudit!Direct, SiteReadingInv
  <2>2. CASE SiteAudit!Read
    BY <2>1, <2>2, SiteReadKeeps
  <2>3. CASE SiteAudit!Fails("refused")
    BY <2>1, <2>3, SiteFailsKeeps
  <2>4. ASSUME "direct" \notin rFetch.open, UNCHANGED <<rStage, rReport>>, rFetch.tries < 2,
               NEW blocked \in BOOLEAN,
               rFetch' = [rFetch EXCEPT !.tries = @ + 1, !.blocked = blocked]
        PROVE  SiteReadingInv'
    <3>1. PICK n \in 0..2 : n = rFetch.tries + 1
      BY <2>1, <2>4 DEF SiteAudit!Fetching
    <3>2. rFetch' = [rFetch EXCEPT !.tries = n, !.blocked = blocked]
      BY <2>4, <3>1
    <3>3. rFetch' \in SiteAudit!Fetching /\ rFetch'.open = rFetch.open
      BY <2>1, <3>2 DEF SiteAudit!Fetching
    <3>. QED
      BY <2>1, <2>4, <3>3 DEF SiteReadingInv, SiteAudit!UnreadIsTrue
  <2>. QED
    BY <1>2, <2>2, <2>3, <2>4 DEF SiteAudit!Direct, SiteAudit!Retries
<1>3. CASE SiteAudit!Curl
  <2>1. rFetch \in SiteAudit!Fetching /\ rStage = "fetch" /\ rReport = None
    BY <1>3 DEF SiteAudit!Curl, SiteReadingInv
  <2>2. CASE SiteAudit!Read
    BY <2>1, <2>2, SiteReadKeeps
  <2>3. CASE SiteAudit!Fails("refused")
    BY <2>1, <2>3, SiteFailsKeeps
  <2>4. CASE rFetch' = [rFetch EXCEPT !.blocked = FALSE] /\ UNCHANGED <<rStage, rReport>>
    <3>1. rFetch' \in SiteAudit!Fetching /\ rFetch'.open = rFetch.open
          /\ rFetch'.tries = rFetch.tries
      BY <2>1, <2>4 DEF SiteAudit!Fetching
    <3>. QED
      BY <2>1, <2>4, <3>1 DEF SiteReadingInv, SiteAudit!UnreadIsTrue
  <2>. QED
    BY <1>3, <2>2, <2>3, <2>4 DEF SiteAudit!Curl
<1>4. CASE SiteAudit!Reader
  <2>1. rFetch \in SiteAudit!Fetching /\ rStage = "fetch" /\ rFetch.tries = 2
    BY <1>4 DEF SiteAudit!Reader, SiteReadingInv
  <2>2. CASE "reader" \in rFetch.open
    BY <1>4, <2>1, <2>2, SiteReadKeeps DEF SiteAudit!Reader
  <2>3. CASE "reader" \notin rFetch.open
    <3>1. "direct" \notin rFetch.open
      BY <2>1 DEF SiteReadingInv
    <3>. QED
      BY <1>4, <2>1, <2>3, <3>1, SiteFailsKeeps DEF SiteAudit!Reader
  <2>. QED
    BY <2>2, <2>3
<1>5. ASSUME NEW best, NEW raising, NEW authority, SiteAudit!Analyze(best, raising, authority)
      PROVE  SiteReadingInv'
  BY <1>5 DEF SiteAudit!Analyze, SiteReadingInv, SiteAudit!UnreadIsTrue
<1>6. CASE SiteAudit!Finish
  <2>1. rReport'.status # "failed" /\ rStage' = "ended"
    BY <1>6 DEF SiteAudit!Finish, SiteAudit!Scored
  <2>. QED
    BY <2>1 DEF SiteReadingInv, SiteAudit!UnreadIsTrue
<1>. QED
  BY <1>1, <1>2, <1>3, <1>4, <1>5, <1>6
  DEF SiteAudit!Next, SiteAudit!Submit, SiteAudit!Result, SiteAudit!vars

LEMMA SiteReadingInit ==
  ASSUME SiteAudit!Init PROVE SiteReadingInv
<1>1. /\ rFetch \in [open : SUBSET SiteAudit!Ways, tries : {0}, blocked : {FALSE}, why : {None}]
      /\ rReport = None
  BY DEF SiteAudit!Init
<1>2. rFetch.open \in SUBSET SiteAudit!Ways /\ rFetch.tries = 0 /\ rFetch.blocked = FALSE
      /\ rFetch.why = None
  BY <1>1
<1>3. PICK open \in SUBSET SiteAudit!Ways : open = rFetch.open
  BY <1>2
<1>4. rFetch \in SiteAudit!Fetching
  <2>1. rFetch = [open |-> open, tries |-> 0, blocked |-> FALSE, why |-> None]
    BY <1>1, <1>2, <1>3
  <2>. QED
    BY <2>1 DEF SiteAudit!Fetching
<1>. QED
  BY <1>1, <1>2, <1>4 DEF SiteReadingInv, SiteAudit!UnreadIsTrue

-----------------------------------------------------------------------------
(* The sitemap is looked for once robots.txt was read, so that its score   *)
(* knows of every sitemap that robots.txt declares.                        *)

SiteAbsentSitemap(s) == s["robots"] # None /\ s["sitemap"] = 0 => rPage.sitemap = "none"

\* What NoSitemapIsTrue says, of every report that measured robots.txt.
SiteAbsenceIsTrue == rReport # None /\ rReport.status # "failed"
  => SiteAbsentSitemap(rReport.scores)

SiteSitesInv ==
  /\ rPage \in SiteAudit!Page
  /\ rScores = [piece \in SiteAudit!Parts |-> rScores[piece]]
  /\ rPool = [piece \in SiteAudit!SiteParts |-> rPool[piece]]
  /\ rStage \in {"fetch", "text"} => \A piece \in SiteAudit!SiteParts : rPool[piece] = "waiting"
  /\ rPool["sitemap"] # "waiting" => rPool["robots"] = "done"
  /\ rPool["sitemap"] = "done" => SiteAbsentSitemap(rScores)
  /\ SiteAbsenceIsTrue

LEMMA SiteSitesStep ==
  ASSUME SiteAudit!ConstantsAssumption, SiteSitesInv, [SiteAudit!Next]_(SiteAudit!vars)
  PROVE  SiteSitesInv'
<1>. USE DEF SiteSitesInv, SiteAbsenceIsTrue, SiteAbsentSitemap
<1>1. CASE UNCHANGED SiteAudit!vars
  BY <1>1 DEF SiteAudit!vars
<1>2. ASSUME NEW why, SiteAudit!Fails(why), rStage = "fetch" PROVE SiteSitesInv'
  BY <1>2 DEF SiteAudit!Fails, SiteAudit!FailedReport
<1>3. CASE SiteAudit!Succeeds /\ rStage = "fetch"
  BY <1>3 DEF SiteAudit!Succeeds
<1>4. ASSUME UNCHANGED <<rPage, rStage, rScores, rPool, rReport>> PROVE SiteSitesInv'
  BY <1>4
<1>5. CASE SiteAudit!Direct \/ SiteAudit!Curl \/ SiteAudit!Reader
  BY <1>2, <1>3, <1>4, <1>5
  DEF SiteAudit!Direct, SiteAudit!Curl, SiteAudit!Reader, SiteAudit!Read
<1>6. ASSUME NEW best, NEW raising, NEW authority, SiteAudit!Analyze(best, raising, authority)
      PROVE  SiteSitesInv'
  <2>1. rScores' = [piece \in SiteAudit!Parts |-> rScores'[piece]]
    BY <1>6 DEF SiteAudit!Analyze
  <2>. QED
    BY <1>6, <2>1 DEF SiteAudit!Analyze, SiteAudit!SiteParts
<1>7. ASSUME NEW piece \in SiteAudit!SiteParts, SiteAudit!Submit(piece) PROVE SiteSitesInv'
  BY <1>7 DEF SiteAudit!Submit, SiteAudit!Ready, SiteAudit!SiteParts
<1>8. ASSUME NEW piece \in SiteAudit!SiteParts, NEW score, SiteAudit!Result(piece, score)
      PROVE  SiteSitesInv'
  <2>1. /\ rPool[piece] = "running" /\ UNCHANGED <<rPage, rStage, rReport>>
        /\ rPool' = [rPool EXCEPT ![piece] = "done"]
        /\ rScores' = [rScores EXCEPT ![piece] = score]
    BY <1>8 DEF SiteAudit!Result
  <2>2. rStage \notin {"fetch", "text"}
    BY <2>1
  <2>3. CASE piece = "sitemap"
    <3>1. score \in SiteAudit!SitemapScores
      BY <1>8, <2>3 DEF SiteAudit!Result
    <3>2. score = 0 /\ rScores["robots"] # None => rPage.sitemap = "none"
      BY <3>1 DEF SiteAudit!SitemapScores, SiteAudit!SitemapFound, SiteAudit!Declared,
         SiteAudit!ConstantsAssumption, SiteAudit!Page
    <3>3. rScores'["sitemap"] = score /\ rScores'["robots"] = rScores["robots"]
      BY <2>1, <2>3 DEF SiteAudit!Parts, SiteAudit!SiteParts
    <3>4. rPool["robots"] = "done" /\ rPool'["robots"] = "done"
      BY <2>1, <2>3 DEF SiteAudit!SiteParts
    <3>5. rScores' = [q \in SiteAudit!Parts |-> rScores'[q]]
          /\ rPool' = [q \in SiteAudit!SiteParts |-> rPool'[q]]
      BY <2>1
    <3>. QED
      BY <2>1, <2>2, <3>2, <3>3, <3>4, <3>5
  <2>4. CASE piece # "sitemap"
    <3>1. /\ rScores'["sitemap"] = rScores["sitemap"] /\ rPool'["sitemap"] = rPool["sitemap"]
          /\ piece # "robots" => rScores'["robots"] = rScores["robots"]
                                /\ rPool'["robots"] = rPool["robots"]
      BY <2>1, <2>4 DEF SiteAudit!Parts, SiteAudit!SiteParts
    <3>2. piece = "robots" => rPool["sitemap"] = "waiting"
      BY <2>1
    <3>3. rScores' = [q \in SiteAudit!Parts |-> rScores'[q]]
          /\ rPool' = [q \in SiteAudit!SiteParts |-> rPool'[q]]
      BY <2>1
    <3>. QED
      BY <2>1, <2>2, <3>1, <3>2, <3>3
  <2>. QED
    BY <2>3, <2>4
<1>9. CASE SiteAudit!Finish
  <2>1. /\ rPool["sitemap"] = "done" /\ UNCHANGED <<rPage, rPool>> /\ rStage' = "ended"
        /\ rScores' = SiteAudit!Withheld /\ rReport'.scores = SiteAudit!Withheld
    BY <1>9 DEF SiteAudit!Finish, SiteAudit!Scored, SiteAudit!SiteParts
  <2>2. /\ SiteAudit!Withheld["sitemap"] = rScores["sitemap"]
           /\ SiteAudit!Withheld["robots"] = rScores["robots"]
        /\ SiteAudit!Withheld = [q \in SiteAudit!Parts |-> SiteAudit!Withheld[q]]
    BY DEF SiteAudit!Withheld
  <2>. QED
    BY <2>1, <2>2
<1>. QED
  BY <1>1, <1>5, <1>6, <1>7, <1>8, <1>9 DEF SiteAudit!Next

LEMMA SiteSitesInit ==
  ASSUME SiteAudit!Init PROVE SiteSitesInv
BY DEF SiteAudit!Init, SiteSitesInv, SiteAbsenceIsTrue, SiteAudit!Unread, SiteAudit!SiteParts

-----------------------------------------------------------------------------
(* Induction, as a statement about sets: the library's theorems about it take an   *)
(* operator that the provers cannot instantiate.                           *)

\* Induction over a set that contains zero and with each number the next.
LEMMA SetInduction ==
  ASSUME NEW S, 0 \in S, \A n \in S \cap Nat : n + 1 \in S
  PROVE  Nat \subseteq S
<1>. SUFFICES ASSUME NEW n \in Nat, n \notin S PROVE FALSE
  OBVIOUS
<1>. DEFINE T == (0..n) \ S
            U == T \ {n}
            Before == [m \in T |-> m - 1]
<1>1. IsFiniteSet(T)
  <2>1. IsFiniteSet(0..n)
    BY FS_Interval
  <2>2. T \in SUBSET (0..n)
    OBVIOUS
  <2>. QED
    BY <2>1, <2>2, FS_Subset
<1>2. IsFiniteSet(U) /\ Cardinality(U) = Cardinality(T) - 1
  BY <1>1, FS_RemoveElement
<1>3. Cardinality(T) \in Nat
  BY <1>1, FS_CardinalityType
<1>4. Before \in [T -> U]
  <2>. SUFFICES ASSUME NEW m \in T PROVE m - 1 \in U
    OBVIOUS
  <2>1. m \in 0..n /\ m \notin S /\ m # 0
    OBVIOUS
  <2>2. m - 1 \in Nat /\ m - 1 \in 0..n /\ m - 1 # n /\ (m - 1) + 1 = m
    BY <2>1
  <2>3. m - 1 \notin S
    BY <2>1, <2>2
  <2>. QED
    BY <2>2, <2>3
<1>5. \A x, y \in T : Before[x] = Before[y] => x = y
  <2>. SUFFICES ASSUME NEW x \in T, NEW y \in T, x - 1 = y - 1 PROVE x = y
    OBVIOUS
  <2>1. x \in Int /\ y \in Int
    OBVIOUS
  <2>. QED
    BY <2>1
<1>6. Cardinality(U) < Cardinality(T)
  BY <1>2, <1>3
<1>. HIDE DEF T, U, Before
<1>. QED
  BY <1>1, <1>2, <1>4, <1>5, <1>6, FS_PigeonHole

\* A set of scores has a best and a worst one.
SiteRange == 0..100
LEMMA SiteHasBounds ==
  ASSUME NEW S \in SUBSET SiteRange, S # {}
  PROVE  /\ \E x \in S : \A y \in S : x >= y
         /\ \E x \in S : \A y \in S : x <= y
<1>. DEFINE Bounded(R) == /\ \E x \in R : \A y \in R : x >= y
                          /\ \E x \in R : \A y \in R : x <= y
            I == {n \in Nat : \A R \in SUBSET (0..n) : R # {} => Bounded(R)}
<1>1. 0 \in I
  <2>. SUFFICES ASSUME NEW R \in SUBSET (0..0), R # {} PROVE Bounded(R)
    OBVIOUS
  <2>1. \A y \in R : y = 0
    OBVIOUS
  <2>2. PICK x \in R : TRUE
    OBVIOUS
  <2>. QED
    BY <2>1, <2>2
<1>2. \A n \in I \cap Nat : n + 1 \in I
  <2>. SUFFICES ASSUME NEW n \in I \cap Nat, NEW R \in SUBSET (0..(n + 1)), R # {}
                PROVE  Bounded(R)
    <3>. HIDE DEF Bounded
    <3>. QED
      OBVIOUS
  <2>1. CASE R \cap (0..n) = {}
    <3>1. \A y \in R : y = n + 1
      BY <2>1
    <3>. QED
      BY <3>1
  <2>2. CASE R \cap (0..n) # {}
    <3>1. Bounded(R \cap (0..n))
      BY <2>2
    <3>2. \A y \in R : y \in 0..n \/ y = n + 1
      OBVIOUS
    <3>3. PICK low \in R \cap (0..n) : \A y \in R \cap (0..n) : low <= y
      BY <3>1
    <3>4. PICK high \in R \cap (0..n) : \A y \in R \cap (0..n) : high >= y
      BY <3>1
    <3>5. \A y \in R : low <= y
      BY <3>2, <3>3
    <3>6. \E x \in R : \A y \in R : x >= y
      <4>1. CASE n + 1 \in R
        BY <3>2, <4>1
      <4>2. CASE n + 1 \notin R
        BY <3>2, <3>4, <4>2
      <4>. QED
        BY <4>1, <4>2
    <3>. QED
      BY <3>5, <3>6
  <2>. QED
    BY <2>1, <2>2
<1>3. 100 \in I
  <2>. HIDE DEF I
  <2>. QED
    BY <1>1, <1>2, SetInduction
<1>. QED
  BY <1>3 DEF SiteRange

LEMMA SiteBestAndWorst ==
  ASSUME NEW S \in SUBSET SiteRange, S # {}
  PROVE  SiteAudit!Max(S) \in S /\ SiteAudit!Min(S) \in S
BY SiteHasBounds DEF SiteAudit!Max, SiteAudit!Min

-----------------------------------------------------------------------------
(* The scores of an audit (technical_scanner.py and the other analysers).  *)

\* The deductions for one defect are numbers, and there is one.
SiteDefect == (SUBSET Nat) \ {{}}

SiteStage(f, defects, n) ==
  IF n = 0 THEN {0} ELSE SiteAudit!Plus(f[n - 1], defects[n])

\* The recursive definition of sums defines a function.
LEMMA SiteSumsDefined ==
  ASSUME NEW defects \in Seq(SiteDefect)
  PROVE  SiteAudit!Sums(defects) =
           [n \in 0..Len(defects) |-> SiteStage(SiteAudit!Sums(defects), defects, n)]
<1>. DEFINE Upto(m, f) == f = [n \in 0..m |-> SiteStage(f, defects, n)]
            S == {m \in Nat : \E f : Upto(m, f)}
<1>1. 0 \in S
  <2>. DEFINE f == [n \in 0..0 |-> {0}]
  <2>1. Upto(0, f)
    BY DEF SiteStage
  <2>. QED
    BY <2>1
<1>2. \A m \in S \cap Nat : m + 1 \in S
  <2>. SUFFICES ASSUME NEW m \in S \cap Nat PROVE m + 1 \in S
    OBVIOUS
  <2>1. PICK f : Upto(m, f)
    OBVIOUS
  <2>. DEFINE g == [n \in 0..(m + 1) |-> IF n = m + 1 THEN SiteStage(f, defects, m + 1) ELSE f[n]]
  <2>2. \A n \in 0..m : g[n] = f[n]
    OBVIOUS
  <2>3. \A n \in 0..(m + 1) : g[n] = SiteStage(g, defects, n)
    <3>. SUFFICES ASSUME NEW n \in 0..(m + 1) PROVE g[n] = SiteStage(g, defects, n)
      OBVIOUS
    <3>1. n # 0 => g[n - 1] = f[n - 1]
      BY <2>2
    <3>2. SiteStage(g, defects, n) = SiteStage(f, defects, n)
      BY <3>1 DEF SiteStage
    <3>3. n # m + 1 => f[n] = SiteStage(f, defects, n)
      BY <2>1
    <3>. QED
      BY <3>2, <3>3
  <2>4. Upto(m + 1, g)
    <3>1. g = [n \in 0..(m + 1) |-> g[n]]
      OBVIOUS
    <3>. HIDE DEF g
    <3>. QED
      BY <2>3, <3>1
  <2>. HIDE DEF g, Upto
  <2>. QED
    BY <2>4
<1>3. Nat \subseteq S
  <2>. HIDE DEF S
  <2>. QED
    BY <1>1, <1>2, SetInduction
<1>4. Len(defects) \in Nat
  OBVIOUS
<1>5. SiteAudit!Sums(defects) = CHOOSE f : Upto(Len(defects), f)
  BY DEF SiteAudit!Sums, SiteStage
<1>6. \E f : Upto(Len(defects), f)
  BY <1>3, <1>4
<1>7. Upto(Len(defects), SiteAudit!Sums(defects))
  BY <1>5, <1>6
<1>. QED
  BY <1>7

\* What defects take off together is a number, and something is.
LEMMA SiteTotals ==
  ASSUME NEW defects \in Seq(SiteDefect)
  PROVE  SiteAudit!Totals(defects) \in (SUBSET Nat) \ {{}}
<1>. DEFINE sums == SiteAudit!Sums(defects)
            S == {n \in Nat : n <= Len(defects) => sums[n] \in SiteDefect}
<1>0. Len(defects) \in Nat
  OBVIOUS
<1>1. sums = [n \in 0..Len(defects) |-> SiteStage(sums, defects, n)]
  BY SiteSumsDefined
<1>. HIDE DEF sums
<1>2. 0 \in S
  BY <1>0, <1>1 DEF SiteStage, SiteDefect
<1>3. \A n \in S \cap Nat : n + 1 \in S
  <2>. SUFFICES ASSUME NEW n \in S \cap Nat, n + 1 <= Len(defects)
                PROVE  sums[n + 1] \in SiteDefect
    OBVIOUS
  <2>1. sums[n] \in SiteDefect /\ defects[n + 1] \in SiteDefect
    BY <1>0
  <2>2. sums[n + 1] = SiteAudit!Plus(sums[n], defects[n + 1])
    <3>1. n + 1 \in 0..Len(defects) /\ n + 1 # 0 /\ (n + 1) - 1 = n
      BY <1>0
    <3>2. sums[n + 1] = SiteStage(sums, defects, n + 1)
      BY <1>1, <3>1
    <3>. QED
      BY <3>1, <3>2 DEF SiteStage
  <2>3. PICK s \in sums[n], d \in defects[n + 1] : TRUE
    BY <2>1 DEF SiteDefect
  <2>4. SiteAudit!Plus(sums[n], defects[n + 1]) \subseteq Nat
    BY <2>1 DEF SiteDefect, SiteAudit!Plus
  <2>5. s + d \in SiteAudit!Plus(sums[n], defects[n + 1])
    BY <2>3 DEF SiteAudit!Plus
  <2>. QED
    BY <2>2, <2>4, <2>5 DEF SiteDefect
<1>4. Nat \subseteq S
  <2>. HIDE DEF S
  <2>. QED
    BY <1>2, <1>3, SetInduction
<1>. QED
  BY <1>0, <1>4 DEF SiteAudit!Totals, sums, SiteDefect

LEMMA SiteScores ==
  ASSUME NEW defects \in Seq(SiteDefect)
  PROVE  SiteAudit!Scores(defects) \in (SUBSET SiteRange) \ {{}}
<1>1. SiteAudit!Totals(defects) \in (SUBSET Nat) \ {{}}
  BY SiteTotals
<1>2. \A t \in Nat : (IF t < 100 THEN 100 - t ELSE 0) \in SiteRange
  BY DEF SiteRange
<1>3. SiteAudit!Scores(defects) \subseteq SiteRange
  BY <1>1, <1>2 DEF SiteAudit!Scores
<1>4. PICK t \in SiteAudit!Totals(defects) : TRUE
  BY <1>1
<1>5. (IF t < 100 THEN 100 - t ELSE 0) \in SiteAudit!Scores(defects)
  BY <1>4 DEF SiteAudit!Scores
<1>. QED
  BY <1>3, <1>5

LEMMA SiteTechnicalScores ==
  ASSUME NEW p
  PROVE  SiteAudit!Technical(p) \in (SUBSET SiteRange) \ {{}}
<1>. DEFINE D == Seq(SiteDefect)
<1>1. SiteAudit!Indexability \in D /\ SiteAudit!Title \in D /\ SiteAudit!Description \in D
      /\ SiteAudit!Canonical \in D /\ SiteAudit!Headings \in D
  BY DEF SiteDefect, SiteAudit!Indexability, SiteAudit!Title, SiteAudit!Description,
     SiteAudit!Canonical, SiteAudit!Headings
<1>2. SiteAudit!Schema \in D
  <2>1. {8 * n : n \in 0..5} \subseteq Nat /\ 8 * 0 \in {8 * n : n \in 0..5}
    OBVIOUS
  <2>. QED
    BY <2>1 DEF SiteDefect, SiteAudit!Schema
<1>3. SiteAudit!SocialCards \in D /\ SiteAudit!TextRatio \in D /\ SiteAudit!InternalLinks \in D
      /\ SiteAudit!Headers \in D /\ SiteAudit!InlineScript \in D
  BY DEF SiteDefect, SiteAudit!SocialCards, SiteAudit!TextRatio, SiteAudit!InternalLinks,
     SiteAudit!Headers, SiteAudit!InlineScript
<1>4. SiteAudit!Length(p.words) \in D /\ SiteAudit!Viewport \in D /\ SiteAudit!Lists(p.items) \in D
      /\ SiteAudit!ClientSide \in D
  BY DEF SiteDefect, SiteAudit!Length, SiteAudit!Viewport, SiteAudit!Lists, SiteAudit!ClientSide
<1>5. \A a, b \in D : a \o b \in D
  OBVIOUS
<1>. HIDE DEF D
<1>6. SiteAudit!Indexability \o SiteAudit!Title \o SiteAudit!Description \o SiteAudit!Canonical
        \o SiteAudit!Headings \o SiteAudit!Schema \o SiteAudit!SocialCards \o SiteAudit!TextRatio
        \o SiteAudit!InternalLinks \o SiteAudit!Headers \o SiteAudit!InlineScript
        \o SiteAudit!Length(p.words) \o SiteAudit!Viewport \o SiteAudit!Lists(p.items)
        \o SiteAudit!ClientSide \in D
  BY <1>1, <1>2, <1>3, <1>4, <1>5
<1>. QED
  BY <1>6, SiteScores DEF D, SiteAudit!Technical

LEMMA SiteOtherScores ==
  ASSUME NEW p
  PROVE  /\ SiteAudit!Content(p) \in (SUBSET SiteRange) \ {{}}
         /\ SiteAudit!EEAT(p) \in (SUBSET SiteRange) \ {{}}
         /\ SiteAudit!Images(p) \in (SUBSET SiteRange) \ {{}}
         /\ SiteAudit!Answers(p) \in (SUBSET SiteRange) \ {{}}
         /\ SiteAudit!LocalSEO(p) \in ((SUBSET SiteRange) \ {{}}) \cup {{None}}
<1>1. SiteAudit!Content(p) \in (SUBSET SiteRange) \ {{}}
  <2>1. SiteAudit!Brevity(p.words) \in SiteDefect
    BY DEF SiteDefect, SiteAudit!Brevity
  <2>2. <<SiteAudit!Brevity(p.words), {6, 2, 0}, {7, 0}, {15, 7, 0}, {8, 0}, {5, 0}>>
          \in Seq(SiteDefect)
    BY <2>1 DEF SiteDefect
  <2>. QED
    BY <2>2, SiteScores DEF SiteAudit!Content
<1>2. SiteAudit!EEAT(p) \in (SUBSET SiteRange) \ {{}}
  <2>1. <<{15, 0}, {15, 0}, {10, 0}, {10, 0}, {10, 0}, {10, 0}, {15, 0}, {10, 0}, {5, 0}>>
          \in Seq(SiteDefect)
    BY DEF SiteDefect
  <2>. QED
    BY <2>1, SiteScores DEF SiteAudit!EEAT
<1>3. SiteAudit!Images(p) \in (SUBSET SiteRange) \ {{}}
  <2>1. <<{15, 8, 0}, {12, 3, 0}, {12, 0}, {6, 0}, {10, 0}, {5, 0}, {5, 0}, {6, 0}>>
          \in Seq(SiteDefect)
    BY DEF SiteDefect
  <2>. QED
    BY <2>1, SiteScores DEF SiteAudit!Images
<1>4. SiteAudit!Answers(p) \in (SUBSET SiteRange) \ {{}}
  <2>. DEFINE D == Seq(SiteDefect)
  <2>1. <<{30, 20, 10, 0}>> \in D /\ SiteAudit!Passages(p.items) \in D
    BY DEF SiteDefect, SiteAudit!Passages
  <2>2. SiteAudit!Entities \in D
    <3>1. {5 * n : n \in 0..4} \subseteq Nat /\ 5 * 0 \in {5 * n : n \in 0..4}
      OBVIOUS
    <3>. QED
      BY <3>1 DEF SiteDefect, SiteAudit!Entities
  <2>3. \A a, b \in D : a \o b \in D
    OBVIOUS
  <2>. HIDE DEF D
  <2>4. <<{30, 20, 10, 0}>> \o SiteAudit!Passages(p.items) \o SiteAudit!Entities \in D
    BY <2>1, <2>2, <2>3
  <2>. QED
    BY <2>4, SiteScores DEF D, SiteAudit!Answers
<1>5. SiteAudit!LocalSEO(p) \in ((SUBSET SiteRange) \ {{}}) \cup {{None}}
  <2>1. <<{25, 0}, {15, 0}, {8, 0}, {18, 0}>> \in Seq(SiteDefect)
    BY DEF SiteDefect
  <2>. QED
    BY <2>1, SiteScores DEF SiteAudit!LocalSEO
<1>. QED
  BY <1>1, <1>2, <1>3, <1>4, <1>5

\* What an analyser of the text gives is a score or nothing.
LEMMA SiteTextScores ==
  ASSUME NEW p, NEW piece \in SiteAudit!TextParts \ {"authority"}, NEW best \in BOOLEAN
  PROVE  SiteAudit!TextScore(p, piece, best) \in SiteAudit!Measure
<1>. DEFINE Good(S) == S \in ((SUBSET SiteRange) \ {{}}) \cup {{None}}
            Chosen(S) == IF S = {None} THEN None ELSE IF best THEN SiteAudit!Max(S)
                                                              ELSE SiteAudit!Min(S)
<1>1. Good(SiteAudit!StructuredData)
  BY DEF SiteRange, SiteAudit!StructuredData
<1>2. \A S : Good(S) => Chosen(S) \in SiteAudit!Measure
  <2>. SUFFICES ASSUME NEW S, Good(S), S # {None}
                PROVE  Chosen(S) \in SiteAudit!Measure
    BY DEF SiteAudit!Measure
  <2>1. SiteAudit!Max(S) \in SiteRange /\ SiteAudit!Min(S) \in SiteRange
    BY SiteBestAndWorst
  <2>. QED
    BY <2>1 DEF SiteAudit!Measure, SiteRange
<1>3. /\ Good(SiteAudit!Technical(p)) /\ Good(SiteAudit!Content(p)) /\ Good(SiteAudit!EEAT(p))
      /\ Good(SiteAudit!Images(p)) /\ Good(SiteAudit!Answers(p)) /\ Good(SiteAudit!LocalSEO(p))
  BY SiteTechnicalScores, SiteOtherScores
<1>. HIDE DEF Good
<1>4. PICK S : Good(S) /\ SiteAudit!TextScore(p, piece, best) = Chosen(S)
  BY <1>1, <1>3 DEF SiteAudit!TextScore, SiteAudit!TextParts
<1>. QED
  BY <1>2, <1>4

-----------------------------------------------------------------------------
(* The score of a report (scoring.py).                                     *)

LEMMA SiteSumType ==
  ASSUME NEW f \in [SiteAudit!Parts -> Nat]
  PROVE  SiteAudit!Sum(f) \in Nat
BY DEF SiteAudit!Sum, SiteAudit!Parts, SiteAudit!TextParts, SiteAudit!SiteParts

\* Sums keep an order that their terms have.
LEMMA SiteSumGrows ==
  ASSUME NEW f \in [SiteAudit!Parts -> Nat], NEW g \in [SiteAudit!Parts -> Nat],
         \A piece \in SiteAudit!Parts : f[piece] <= g[piece]
  PROVE  /\ SiteAudit!Sum(f) <= SiteAudit!Sum(g)
         /\ (\E piece \in SiteAudit!Parts : f[piece] < g[piece]) => SiteAudit!Sum(f) < SiteAudit!Sum(g)
BY DEF SiteAudit!Sum, SiteAudit!Parts, SiteAudit!TextParts, SiteAudit!SiteParts

LEMMA SiteSumTimes ==
  ASSUME NEW f \in [SiteAudit!Parts -> Nat], NEW c \in Nat
  PROVE  SiteAudit!Sum([piece \in SiteAudit!Parts |-> c * f[piece]]) = c * SiteAudit!Sum(f)
BY DEF SiteAudit!Sum, SiteAudit!Parts, SiteAudit!TextParts, SiteAudit!SiteParts

\* What is divided and rounded lies between what its dividend lies between.
LEMMA SiteRounds ==
  ASSUME NEW a \in Nat, NEW n \in Nat \ {0}, NEW c \in Nat
  PROVE  /\ SiteAudit!Rounded(a, n) \in Nat
         /\ a >= c * n => SiteAudit!Rounded(a, n) >= c
         /\ a <= c * n => SiteAudit!Rounded(a, n) <= c
<1>. DEFINE q == (2 * a + n) \div (2 * n)
<1>1. q \in Int /\ (2 * n) * q <= 2 * a + n /\ 2 * a + n < (2 * n) * q + 2 * n
  OBVIOUS
<1>2. SiteAudit!Rounded(a, n) = q
  BY DEF SiteAudit!Rounded
<1>. HIDE DEF q
<1>3. q >= 0
  BY <1>1
<1>4. ASSUME a >= c * n PROVE q >= c
  BY <1>1, <1>4
<1>5. ASSUME a <= c * n PROVE q <= c
  BY <1>1, <1>5
<1>. QED
  BY <1>1, <1>2, <1>3, <1>4, <1>5

\* What each part counts; the local ones for a local business only.
LEMMA SiteWeights ==
  LET w == SiteAudit!Weights IN
  /\ w \in [SiteAudit!Parts -> 0..40]
  /\ w["technical"] = 40 /\ w["performance"] = 35 /\ w["geo_visibility"] = 15
  /\ w["geo"] = 10 /\ w["robots"] = 10 /\ w["authority"] = 10 /\ w["e_e_a_t"] = 10
  /\ w["sitemap"] = 5 /\ w["images"] = 5 /\ w["content"] = 5
  /\ w["local_seo"] \in {0, 10}
BY DEF SiteAudit!Weights, SiteAudit!Parts, SiteAudit!TextParts, SiteAudit!SiteParts

SiteCounted(parts) ==
  [piece \in SiteAudit!Parts |-> IF piece \in parts THEN SiteAudit!Weights[piece] ELSE 0]

LEMMA SiteCountedType ==
  ASSUME NEW parts
  PROVE  /\ SiteCounted(parts) \in [SiteAudit!Parts -> Nat]
         /\ SiteAudit!Weighted(parts) = SiteAudit!Sum(SiteCounted(parts))
         /\ SiteAudit!Weighted(parts) \in Nat
<1>1. SiteCounted(parts) \in [SiteAudit!Parts -> Nat]
  BY SiteWeights DEF SiteCounted
<1>2. SiteAudit!Weighted(parts) = SiteAudit!Sum(SiteCounted(parts))
  BY DEF SiteCounted, SiteAudit!Weighted
<1>. QED
  BY <1>1, <1>2, SiteSumType

\* Parts weigh at most what more parts weigh, and less if one of those counts.
LEMMA SiteWeighsMore ==
  ASSUME NEW few \in SUBSET SiteAudit!Parts, NEW many \in SUBSET SiteAudit!Parts,
         few \subseteq many
  PROVE  /\ SiteAudit!Weighted(few) <= SiteAudit!Weighted(many)
         /\ (\E piece \in many \ few : SiteAudit!Weights[piece] > 0) =>
              SiteAudit!Weighted(few) < SiteAudit!Weighted(many)
<1>. DEFINE f == SiteCounted(few)
            g == SiteCounted(many)
<1>1. f \in [SiteAudit!Parts -> Nat] /\ g \in [SiteAudit!Parts -> Nat]
  BY SiteCountedType
<1>2. \A piece \in SiteAudit!Parts : f[piece] <= g[piece]
  BY SiteWeights DEF SiteCounted
<1>3. (\E piece \in many \ few : SiteAudit!Weights[piece] > 0) =>
         \E piece \in SiteAudit!Parts : f[piece] < g[piece]
  BY SiteWeights DEF SiteCounted
<1>4. SiteAudit!Weighted(few) = SiteAudit!Sum(f) /\ SiteAudit!Weighted(many) = SiteAudit!Sum(g)
  BY SiteCountedType
<1>. HIDE DEF f, g
<1>. QED
  BY <1>1, <1>2, <1>3, <1>4, SiteSumGrows

\* What is required weighs something, and less than two hundred.
LEMMA SiteRequiredWeighs ==
  /\ SiteAudit!Required \subseteq SiteAudit!Parts
  /\ SiteAudit!Weighted(SiteAudit!Required) \in 1..199
<1>1. SiteAudit!Required \subseteq SiteAudit!Parts
  BY DEF SiteAudit!Required
<1>. DEFINE g == SiteCounted(SiteAudit!Required)
<1>2. /\ g["technical"] = 40 /\ g["performance"] = 35 /\ g["geo_visibility"] = 15
      /\ g["geo"] = 10 /\ g["robots"] = 10 /\ g["authority"] = 0 /\ g["e_e_a_t"] = 10
      /\ g["sitemap"] = 5 /\ g["images"] = 5 /\ g["content"] = 5
      /\ g["local_seo"] \in {0, 10}
  BY SiteWeights DEF SiteCounted, SiteAudit!Required, SiteAudit!Parts, SiteAudit!TextParts,
     SiteAudit!SiteParts
<1>3. SiteAudit!Weighted(SiteAudit!Required) = SiteAudit!Sum(g)
  BY SiteCountedType
<1>. HIDE DEF g
<1>4. SiteAudit!Sum(g) \in 1..199
  BY <1>2 DEF SiteAudit!Sum
<1>. QED
  BY <1>1, <1>3, <1>4

\* The score of a report lies between any two bounds of the scores that count.
LEMMA SiteOverallBounds ==
  ASSUME SiteAudit!ConstantsAssumption, NEW s \in [SiteAudit!Parts -> SiteAudit!Measure],
         SiteAudit!Weighted(SiteAudit!Measured(s)) # 0,
         NEW c \in Nat
  PROVE  LET counted == {piece \in SiteAudit!Measured(s) : SiteAudit!Weights[piece] > 0}
             o == SiteAudit!Overall(s)
         IN  /\ o \in Nat
             /\ (\A piece \in counted : s[piece] >= c) => o >= c
             /\ (\A piece \in counted : s[piece] <= c) => o <= c
<1>. DEFINE counted == {piece \in SiteAudit!Measured(s) : SiteAudit!Weights[piece] > 0}
            m == SiteCounted(SiteAudit!Measured(s))
            n == SiteAudit!Sum(m)
            v == [piece \in SiteAudit!Parts |->
                    IF s[piece] = None THEN 0 ELSE s[piece] * SiteAudit!Weights[piece]]
            b == [piece \in SiteAudit!Parts |-> c * m[piece]]
<1>1. m \in [SiteAudit!Parts -> Nat] /\ n = SiteAudit!Weighted(SiteAudit!Measured(s)) /\ n \in Nat
  BY SiteCountedType
<1>2. v \in [SiteAudit!Parts -> Nat] /\ b \in [SiteAudit!Parts -> Nat]
  <2>. SUFFICES ASSUME NEW piece \in SiteAudit!Parts
                PROVE  v[piece] \in Nat /\ b[piece] \in Nat
    OBVIOUS
  <2>1. s[piece] = None \/ s[piece] \in Nat
    BY DEF SiteAudit!Measure
  <2>2. SiteAudit!Weights[piece] \in Nat /\ m[piece] \in Nat
    BY <1>1, SiteWeights
  <2>. HIDE DEF m
  <2>. QED
    BY <2>1, <2>2
<1>3. \A piece \in SiteAudit!Parts :
        \/ v[piece] = 0 /\ b[piece] = 0
        \/ /\ piece \in counted /\ s[piece] \in Nat /\ m[piece] \in Nat
           /\ v[piece] = s[piece] * m[piece] /\ b[piece] = c * m[piece]
  <2>. SUFFICES ASSUME NEW piece \in SiteAudit!Parts, v[piece] # 0 \/ b[piece] # 0
                PROVE  /\ piece \in counted /\ s[piece] \in Nat /\ m[piece] \in Nat
                       /\ v[piece] = s[piece] * m[piece] /\ b[piece] = c * m[piece]
    OBVIOUS
  <2>1. SiteAudit!Weights[piece] \in Nat
    BY SiteWeights
  <2>2. s[piece] # None
    BY DEF SiteCounted, SiteAudit!Measured
  <2>3. s[piece] \in Nat
    BY <2>2 DEF SiteAudit!Measure
  <2>4. m[piece] = SiteAudit!Weights[piece]
    BY <2>2 DEF SiteCounted, SiteAudit!Measured
  <2>5. SiteAudit!Weights[piece] # 0
    BY <2>1, <2>3, <2>4, <2>2
  <2>. QED
    BY <2>1, <2>2, <2>3, <2>4, <2>5 DEF SiteAudit!Measured
<1>4. SiteAudit!Sum(b) = c * n
  <2>. HIDE DEF m
  <2>. QED
    BY <1>1, SiteSumTimes
<1>5. SiteAudit!Overall(s) = SiteAudit!Rounded(SiteAudit!Sum(v), n)
  BY <1>1 DEF SiteAudit!Overall
<1>6. SiteAudit!Sum(v) \in Nat
  BY <1>2, SiteSumType
<1>. HIDE DEF m, n, v, b, counted
<1>7. ASSUME \A piece \in counted : s[piece] >= c PROVE SiteAudit!Sum(v) >= c * n
  <2>1. \A piece \in SiteAudit!Parts : b[piece] <= v[piece]
    BY <1>3, <1>7
  <2>2. SiteAudit!Sum(b) <= SiteAudit!Sum(v)
    BY <1>2, <2>1, SiteSumGrows
  <2>. QED
    BY <1>1, <1>4, <1>6, <2>2
<1>8. ASSUME \A piece \in counted : s[piece] <= c PROVE SiteAudit!Sum(v) <= c * n
  <2>1. \A piece \in SiteAudit!Parts : v[piece] <= b[piece]
    BY <1>3, <1>8
  <2>2. SiteAudit!Sum(v) <= SiteAudit!Sum(b)
    BY <1>2, <2>1, SiteSumGrows
  <2>. QED
    BY <1>1, <1>4, <1>6, <2>2
<1>9. n \in Nat \ {0}
  BY <1>1
<1>10. /\ SiteAudit!Overall(s) \in Nat
       /\ SiteAudit!Sum(v) >= c * n => SiteAudit!Overall(s) >= c
       /\ SiteAudit!Sum(v) <= c * n => SiteAudit!Overall(s) <= c
  BY <1>5, <1>6, <1>9, SiteRounds
<1>. QED
  BY <1>7, <1>8, <1>10 DEF counted

\* The report of any scores is typed, and true of them.
SiteScoreTrue(r) ==
  LET counted == {piece \in SiteAudit!Measured(r.scores) : SiteAudit!Weights[piece] > 0} IN
  /\ (r.overall = None) <=> (counted = {})
  /\ counted # {} =>
       /\ \E piece \in counted : r.scores[piece] <= r.overall
       /\ \E piece \in counted : r.scores[piece] >= r.overall
  /\ (r.coverage = 100) <=> r.ready
  /\ (r.status = "completed") <=> (SiteAudit!Required \subseteq counted)

LEMMA SiteScoredTrue ==
  ASSUME SiteAudit!ConstantsAssumption, NEW s \in [SiteAudit!Parts -> SiteAudit!Measure]
  PROVE  /\ SiteAudit!Scored(s) \in SiteAudit!Report
         /\ SiteAudit!Scored(s).status # "failed" /\ SiteAudit!Scored(s).scores = s
         /\ SiteScoreTrue(SiteAudit!Scored(s))
<1>. DEFINE r == SiteAudit!Scored(s)
            o == SiteAudit!Overall(s)
            measured == SiteAudit!Measured(s)
            counted == {piece \in measured : SiteAudit!Weights[piece] > 0}
            full == SiteAudit!Weighted(SiteAudit!Required)
            share == SiteAudit!Weighted(SiteAudit!Required \cap measured)
<1>1. /\ r.status = IF share = full THEN "completed" ELSE "partial"
      /\ r.overall = o /\ r.coverage = SiteAudit!Rounded(100 * share, full)
      /\ r.ready = (share = full) /\ r.scores = s
      /\ r = [status |-> r.status, overall |-> o, coverage |-> r.coverage,
              ready |-> (share = full), scores |-> s]
  BY DEF SiteAudit!Scored
<1>2. measured \subseteq SiteAudit!Parts /\ \A piece \in measured : s[piece] \in 0..100
  BY DEF SiteAudit!Measured, SiteAudit!Measure
<1>3. /\ SiteAudit!Required \subseteq SiteAudit!Parts
      /\ \A piece \in SiteAudit!Required : SiteAudit!Weights[piece] > 0
      /\ full \in 1..199
  BY SiteRequiredWeighs DEF SiteAudit!Required
<1>4. share \in Nat /\ share <= full /\ (share = full <=> SiteAudit!Required \subseteq measured)
  <2>1. share \in Nat
    BY SiteCountedType
  <2>2. /\ share <= full
        /\ (\E piece \in SiteAudit!Required \ (SiteAudit!Required \cap measured) :
              SiteAudit!Weights[piece] > 0) => share < full
    BY <1>3, SiteWeighsMore
  <2>3. SiteAudit!Required \subseteq measured => SiteAudit!Required \cap measured = SiteAudit!Required
    OBVIOUS
  <2>. HIDE DEF measured
  <2>. QED
    BY <1>3, <2>1, <2>2, <2>3
<1>5. r.coverage \in 0..100 /\ (r.coverage = 100 <=> share = full)
  <2>. DEFINE q == (200 * share + full) \div (2 * full)
  <2>1. r.coverage = q
    <3>1. 2 * (100 * share) = 200 * share
      BY <1>4
    <3>. QED
      BY <1>1, <3>1 DEF SiteAudit!Rounded
  <2>. HIDE DEF share, full
  <2>2. /\ q \in Int /\ (2 * full) * q <= 200 * share + full
        /\ 200 * share + full < (2 * full) * q + 2 * full
    BY <1>3, <1>4
  <2>. HIDE DEF q
  <2>3. q >= 0
    BY <1>3, <1>4, <2>2
  <2>4. q <= 100
    BY <1>3, <1>4, <2>2
  <2>5. share = full => q >= 100
    BY <1>3, <1>4, <2>2
  <2>6. share < full => q < 100
    <3>. SUFFICES ASSUME share <= full - 1, q >= 100 PROVE FALSE
      BY <1>3, <1>4, <2>2
    <3>1. 200 * full <= 200 * (full - 1) + full
      BY <1>3, <1>4, <2>2
    <3>. QED
      BY <1>3, <3>1
  <2>. QED
    BY <1>3, <1>4, <2>1, <2>2, <2>3, <2>4, <2>5, <2>6
<1>6. SiteAudit!Weighted(measured) = 0 <=> counted = {}
  <2>1. SiteAudit!Weighted({}) = 0
    BY DEF SiteAudit!Weighted, SiteAudit!Sum, SiteAudit!Parts, SiteAudit!TextParts,
       SiteAudit!SiteParts
  <2>2. counted # {} => SiteAudit!Weighted({}) < SiteAudit!Weighted(measured)
    BY <1>2, SiteWeighsMore
  <2>3. counted = {} => SiteAudit!Weighted(measured) = 0
    <3>. SUFFICES ASSUME counted = {} PROVE SiteAudit!Weighted(measured) = 0
      OBVIOUS
    <3>1. \A piece \in SiteAudit!Parts : SiteCounted(measured)[piece] = SiteCounted({})[piece]
      BY SiteWeights DEF SiteCounted
    <3>2. SiteCounted(measured) = SiteCounted({})
      BY <3>1 DEF SiteCounted
    <3>. QED
      BY <2>1, <3>2, SiteCountedType
  <2>4. SiteAudit!Weighted(measured) \in Nat
    BY SiteCountedType
  <2>. QED
    BY <2>1, <2>2, <2>3, <2>4
<1>7. (o = None <=> counted = {}) /\ o \in SiteAudit!Measure
      /\ (counted # {} => /\ \E piece \in counted : s[piece] <= o
                          /\ \E piece \in counted : s[piece] >= o)
  <2>1. CASE counted = {}
    BY <1>6, <2>1 DEF SiteAudit!Overall, SiteAudit!Measure
  <2>2. CASE counted # {}
    <3>1. SiteAudit!Weighted(SiteAudit!Measured(s)) # 0
      BY <1>6, <2>2
    <3>2. \A c \in Nat : /\ o \in Nat
                         /\ (\A piece \in counted : s[piece] >= c) => o >= c
                         /\ (\A piece \in counted : s[piece] <= c) => o <= c
      BY <3>1, SiteOverallBounds
    <3>3. \A piece \in counted : s[piece] \in 0..100
      BY <1>2
    <3>. HIDE DEF o, counted
    <3>4. o \in Nat
      BY <3>2
    <3>5. o <= 100
      BY <3>2, <3>3
    <3>6. \E piece \in counted : s[piece] <= o
      <4>. SUFFICES ASSUME \A piece \in counted : s[piece] >= o + 1 PROVE FALSE
        BY <3>3, <3>4
      <4>. QED
        BY <3>2, <3>4
    <3>7. \E piece \in counted : s[piece] >= o
      <4>. SUFFICES ASSUME \A piece \in counted : s[piece] < o PROVE FALSE
        BY <3>3, <3>4
      <4>1. PICK piece \in counted : s[piece] \in Nat /\ s[piece] < o
        BY <2>2, <3>3
      <4>2. o - 1 \in Nat
        BY <3>4, <4>1
      <4>3. \A any \in counted : s[any] <= o - 1
        BY <3>3, <3>4
      <4>4. o <= o - 1
        BY <3>2, <4>2, <4>3
      <4>. QED
        BY <3>4, <4>4
    <3>8. o # None
      BY <3>4, <3>5 DEF SiteAudit!ConstantsAssumption
    <3>. QED
      BY <2>2, <3>4, <3>5, <3>6, <3>7, <3>8 DEF SiteAudit!Measure
  <2>. QED
    BY <2>1, <2>2
<1>8. SiteAudit!Required \subseteq measured <=> SiteAudit!Required \subseteq counted
  BY <1>3
<1>. HIDE DEF r, o, share, full
<1>9. r.status \in {"partial", "completed"} /\ r.ready \in BOOLEAN
  BY <1>1
<1>10. r \in SiteAudit!Report
  BY <1>1, <1>5, <1>7, <1>9 DEF SiteAudit!Report
<1>11. r.status = "completed" <=> share = full
  BY <1>1
<1>12. SiteScoreTrue(r)
  BY <1>1, <1>4, <1>5, <1>7, <1>8, <1>11 DEF SiteScoreTrue
<1>. QED
  BY <1>1, <1>9, <1>10, <1>12 DEF r

-----------------------------------------------------------------------------
(* The report.                                                             *)

SiteTypedInv == SiteAudit!TypeOK /\ SiteReadingInv /\ SiteAudit!ScoreOfMeasured

\* The analysers of the text give scores.
LEMMA SiteAnalyzeTyped ==
  ASSUME SiteTypedInv, NEW best \in BOOLEAN, NEW raising,
         NEW authority \in SiteAudit!Authority, SiteAudit!Analyze(best, raising, authority)
  PROVE  rScores' \in [SiteAudit!Parts -> SiteAudit!Measure]
<1>1. None \in SiteAudit!Measure /\ authority \in SiteAudit!Measure
  BY DEF SiteAudit!Measure, SiteAudit!Authority
<1>2. \A piece \in SiteAudit!Parts \ (SiteAudit!SiteParts \cup {"authority"}) :
        SiteAudit!TextScore(rPage, piece, best) \in SiteAudit!Measure
  BY SiteTextScores DEF SiteAudit!Parts
<1>. QED
  BY <1>1, <1>2 DEF SiteAudit!Analyze

\* A part of the site gives a score.
LEMMA SiteResultTyped ==
  ASSUME SiteTypedInv, NEW piece \in SiteAudit!SiteParts, NEW score, SiteAudit!Result(piece, score)
  PROVE  rScores' \in [SiteAudit!Parts -> SiteAudit!Measure]
<1>1. score \in SiteAudit!RobotsScores \cup SiteAudit!SitemapScores \cup SiteAudit!PerformanceScores
  BY DEF SiteAudit!Result, SiteAudit!SiteParts
<1>2. score \in SiteAudit!Measure
  BY <1>1 DEF SiteAudit!Measure, SiteAudit!RobotsScores, SiteAudit!SitemapScores,
     SiteAudit!PerformanceScores
<1>. QED
  BY <1>2 DEF SiteTypedInv, SiteAudit!TypeOK, SiteAudit!Result

\* The report that Finish writes is that of typed scores.
LEMMA SiteFinishTrue ==
  ASSUME SiteAudit!ConstantsAssumption, SiteTypedInv, SiteAudit!Finish
  PROVE  /\ rScores' \in [SiteAudit!Parts -> SiteAudit!Measure]
         /\ rReport' \in SiteAudit!Report /\ SiteAudit!ScoreOfMeasured'
<1>1. SiteAudit!Withheld \in [SiteAudit!Parts -> SiteAudit!Measure]
  BY DEF SiteTypedInv, SiteAudit!TypeOK, SiteAudit!Withheld, SiteAudit!Measure
<1>2. rScores' = SiteAudit!Withheld /\ rReport' = SiteAudit!Scored(SiteAudit!Withheld)
      /\ rPage' = rPage
  BY DEF SiteAudit!Finish
<1>3. rReport' \in SiteAudit!Report /\ SiteScoreTrue(rReport')
  BY <1>1, <1>2, SiteScoredTrue
<1>4. SiteAudit!Weights' = SiteAudit!Weights /\ SiteAudit!Required' = SiteAudit!Required
  BY <1>2 DEF SiteAudit!Weights, SiteAudit!Required
<1>5. SiteAudit!Measured(rReport'.scores) = SiteAudit!Measured(rReport.scores)'
  BY DEF SiteAudit!Measured
<1>. QED
  BY <1>1, <1>2, <1>3, <1>4, <1>5 DEF SiteAudit!ScoreOfMeasured, SiteScoreTrue

\* Nothing else writes a report but a failure, which has no score.
LEMMA SiteReportSame ==
  ASSUME SiteTypedInv, rPage' = rPage,
         \/ rReport' = rReport
         \/ rReport' = SiteAudit!FailedReport
  PROVE  rReport' \in SiteAudit!Report \cup {None} /\ SiteAudit!ScoreOfMeasured'
<1>1. CASE rReport' = rReport
  <2>1. SiteAudit!Weights' = SiteAudit!Weights /\ SiteAudit!Required' = SiteAudit!Required
    BY DEF SiteAudit!Weights, SiteAudit!Required
  <2>2. SiteAudit!Measured(rReport.scores)' = SiteAudit!Measured(rReport.scores)
    BY <1>1 DEF SiteAudit!Measured
  <2>. QED
    BY <1>1, <2>1, <2>2 DEF SiteTypedInv, SiteAudit!TypeOK, SiteAudit!ScoreOfMeasured
<1>2. CASE rReport' = SiteAudit!FailedReport
  <2>1. SiteAudit!Unread \in [SiteAudit!Parts -> SiteAudit!Measure]
    BY DEF SiteAudit!Unread, SiteAudit!Measure
  <2>2. SiteAudit!FailedReport \in SiteAudit!Report /\ SiteAudit!FailedReport.status = "failed"
    BY <2>1 DEF SiteAudit!FailedReport, SiteAudit!Report, SiteAudit!Measure
  <2>. QED
    BY <1>2, <2>2 DEF SiteAudit!ScoreOfMeasured
<1>. QED
  BY <1>1, <1>2

LEMMA SiteFailsTyped ==
  ASSUME SiteTypedInv, rStage = "fetch",
         NEW why \in {"refused", "unusable", "exhausted"}, SiteAudit!Fails(why)
  PROVE  SiteAudit!TypeOK' /\ SiteAudit!ScoreOfMeasured'
<1>1. rReport' = SiteAudit!FailedReport /\ UNCHANGED <<rPage, rScores, rPool>> /\ rStage' = "ended"
      /\ rFetch' = [rFetch EXCEPT !.why = why]
  BY DEF SiteAudit!Fails
<1>2. rFetch' \in SiteAudit!Fetching
  BY <1>1 DEF SiteTypedInv, SiteReadingInv, SiteAudit!Fetching
<1>. QED
  BY <1>1, <1>2, SiteReportSame DEF SiteTypedInv, SiteAudit!TypeOK

LEMMA SiteReadTyped ==
  ASSUME SiteTypedInv, rStage = "fetch", SiteAudit!Read
  PROVE  SiteAudit!TypeOK' /\ SiteAudit!ScoreOfMeasured'
<1>1. CASE SiteAudit!Succeeds
  <2>1. rReport' = rReport /\ UNCHANGED <<rPage, rScores, rPool>> /\ rStage' = "text"
        /\ rFetch' = None
    BY <1>1 DEF SiteAudit!Succeeds
  <2>. QED
    BY <2>1, SiteReportSame DEF SiteTypedInv, SiteAudit!TypeOK
<1>2. CASE SiteAudit!Fails("unusable")
  BY <1>2, SiteFailsTyped
<1>. QED
  BY <1>1, <1>2 DEF SiteAudit!Read

LEMMA SiteTypedStep ==
  ASSUME SiteAudit!ConstantsAssumption, SiteTypedInv, [SiteAudit!Next]_(SiteAudit!vars)
  PROVE  SiteAudit!TypeOK' /\ SiteAudit!ScoreOfMeasured'
<1>. DEFINE Good == SiteAudit!TypeOK' /\ SiteAudit!ScoreOfMeasured'
<1>. SUFFICES Good
  OBVIOUS
<1>1. ASSUME UNCHANGED <<rPage, rReport>>, rStage' \in {"fetch", "text", "site", "ended"},
             rFetch' \in SiteAudit!Fetching \cup {None},
             rScores' \in [SiteAudit!Parts -> SiteAudit!Measure],
             rPool' \in [SiteAudit!SiteParts -> {"waiting", "running", "done"}]
      PROVE  Good
  <2>1. rPage \in SiteAudit!Page
    BY DEF SiteTypedInv, SiteAudit!TypeOK
  <2>2. rReport' \in SiteAudit!Report \cup {None} /\ SiteAudit!ScoreOfMeasured'
    BY <1>1, SiteReportSame
  <2>. QED
    BY <1>1, <2>1, <2>2 DEF SiteAudit!TypeOK
<1>2. /\ rStage \in {"fetch", "text", "site", "ended"} /\ rFetch \in SiteAudit!Fetching \cup {None}
      /\ rScores \in [SiteAudit!Parts -> SiteAudit!Measure]
      /\ rPool \in [SiteAudit!SiteParts -> {"waiting", "running", "done"}]
  BY DEF SiteTypedInv, SiteAudit!TypeOK
<1>3. rStage = "fetch" => rFetch \in SiteAudit!Fetching
  BY DEF SiteTypedInv, SiteReadingInv
<1>. HIDE DEF Good
<1>4. CASE SiteAudit!Direct
  <2>1. rStage = "fetch" /\ rFetch \in SiteAudit!Fetching
    BY <1>3, <1>4 DEF SiteAudit!Direct
  <2>2. CASE SiteAudit!Read
    BY <2>1, <2>2, SiteReadTyped DEF Good
  <2>3. CASE SiteAudit!Fails("refused")
    BY <2>1, <2>3, SiteFailsTyped DEF Good
  <2>4. ASSUME UNCHANGED <<rPage, rStage, rScores, rPool, rReport>>, rFetch.tries < 2,
               NEW blocked \in BOOLEAN,
               rFetch' = [rFetch EXCEPT !.tries = @ + 1, !.blocked = blocked]
        PROVE  Good
    <3>1. PICK n \in 0..2 : n = rFetch.tries + 1
      BY <2>1, <2>4 DEF SiteAudit!Fetching
    <3>2. rFetch' = [rFetch EXCEPT !.tries = n, !.blocked = blocked]
      BY <2>4, <3>1
    <3>3. rFetch' \in SiteAudit!Fetching
      BY <2>1, <3>2 DEF SiteAudit!Fetching
    <3>4. rStage' = rStage /\ rScores' = rScores /\ rPool' = rPool /\ UNCHANGED <<rPage, rReport>>
      BY <2>4
    <3>. QED
      BY <1>1, <1>2, <3>3, <3>4
  <2>. QED
    BY <1>4, <2>2, <2>3, <2>4 DEF SiteAudit!Direct, SiteAudit!Retries
<1>5. CASE SiteAudit!Curl
  <2>1. rStage = "fetch" /\ rFetch \in SiteAudit!Fetching
    BY <1>3, <1>5 DEF SiteAudit!Curl
  <2>2. CASE SiteAudit!Read
    BY <2>1, <2>2, SiteReadTyped DEF Good
  <2>3. CASE SiteAudit!Fails("refused")
    BY <2>1, <2>3, SiteFailsTyped DEF Good
  <2>4. ASSUME UNCHANGED <<rPage, rStage, rScores, rPool, rReport>>,
               rFetch' = [rFetch EXCEPT !.blocked = FALSE]
        PROVE  Good
    <3>1. rFetch' \in SiteAudit!Fetching
      BY <2>1, <2>4 DEF SiteAudit!Fetching
    <3>2. rStage' = rStage /\ rScores' = rScores /\ rPool' = rPool /\ UNCHANGED <<rPage, rReport>>
      BY <2>4
    <3>. QED
      BY <1>1, <1>2, <3>1, <3>2
  <2>. QED
    BY <1>5, <2>2, <2>3, <2>4 DEF SiteAudit!Curl
<1>6. CASE SiteAudit!Reader
  <2>1. rStage = "fetch"
    BY <1>6 DEF SiteAudit!Reader
  <2>2. CASE SiteAudit!Read
    BY <2>1, <2>2, SiteReadTyped DEF Good
  <2>3. CASE SiteAudit!Fails("exhausted")
    BY <2>1, <2>3, SiteFailsTyped DEF Good
  <2>. QED
    BY <1>6, <2>2, <2>3 DEF SiteAudit!Reader
<1>7. ASSUME NEW best \in BOOLEAN, NEW authority \in SiteAudit!Authority, NEW raising,
             SiteAudit!Analyze(best, raising, authority)
      PROVE  Good
  <2>1. rStage' = "site" /\ UNCHANGED <<rPage, rFetch, rPool, rReport>>
    BY <1>7 DEF SiteAudit!Analyze
  <2>2. rScores' \in [SiteAudit!Parts -> SiteAudit!Measure]
    BY <1>7, SiteAnalyzeTyped
  <2>. QED
    BY <1>1, <1>2, <2>1, <2>2
<1>8. ASSUME NEW piece \in SiteAudit!SiteParts, SiteAudit!Submit(piece) PROVE Good
  <2>1. UNCHANGED <<rPage, rStage, rFetch, rScores, rReport>>
        /\ rPool' = [rPool EXCEPT ![piece] = "running"]
    BY <1>8 DEF SiteAudit!Submit
  <2>. QED
    BY <1>1, <1>2, <2>1
<1>9. ASSUME NEW piece \in SiteAudit!SiteParts, NEW score, SiteAudit!Result(piece, score)
      PROVE  Good
  <2>1. UNCHANGED <<rPage, rStage, rFetch, rReport>>
        /\ rPool' = [rPool EXCEPT ![piece] = "done"]
    BY <1>9 DEF SiteAudit!Result
  <2>2. rScores' \in [SiteAudit!Parts -> SiteAudit!Measure]
    BY <1>9, SiteResultTyped
  <2>. QED
    BY <1>1, <1>2, <2>1, <2>2
<1>10. CASE SiteAudit!Finish
  <2>1. rStage' = "ended" /\ UNCHANGED <<rPage, rFetch, rPool>>
    BY <1>10 DEF SiteAudit!Finish
  <2>. QED
    BY <1>2, <1>10, <2>1, SiteFinishTrue DEF Good, SiteTypedInv, SiteAudit!TypeOK
<1>11. CASE UNCHANGED SiteAudit!vars
  <2>1. /\ rStage' = rStage /\ rFetch' = rFetch /\ rScores' = rScores /\ rPool' = rPool
        /\ UNCHANGED <<rPage, rReport>>
    BY <1>11 DEF SiteAudit!vars
  <2>. QED
    BY <1>1, <1>2, <2>1
<1>. QED
  BY <1>4, <1>5, <1>6, <1>7, <1>8, <1>9, <1>10, <1>11 DEF SiteAudit!Next

\* The report of an audit is typed and true of the site: that it cannot be read, its
\* score, its completeness, and that there is no sitemap (analyzer.py, scoring.py).
THEOREM SiteReportHolds ==
  ASSUME SiteAudit!ConstantsAssumption
  PROVE  SiteAudit!Spec => [](SiteAudit!TypeOK /\ SiteAudit!ReportIsTrue)
<1>. DEFINE Inv == SiteTypedInv /\ SiteSitesInv
<1>1. SiteAudit!Init => Inv
  <2>. SUFFICES ASSUME SiteAudit!Init PROVE Inv
    OBVIOUS
  <2>1. SiteReadingInv /\ SiteSitesInv
    BY SiteReadingInit, SiteSitesInit
  <2>2. SiteAudit!TypeOK
    BY <2>1 DEF SiteAudit!Init, SiteReadingInv, SiteAudit!TypeOK, SiteAudit!Unread,
       SiteAudit!Measure
  <2>3. SiteAudit!ScoreOfMeasured
    BY DEF SiteAudit!Init, SiteAudit!ScoreOfMeasured
  <2>. QED
    BY <2>1, <2>2, <2>3 DEF SiteTypedInv
<1>2. Inv /\ [SiteAudit!Next]_(SiteAudit!vars) => Inv'
  BY SiteTypedStep, SiteReadingStep, SiteSitesStep DEF SiteTypedInv
<1>3. Inv => SiteAudit!TypeOK /\ SiteAudit!ReportIsTrue
  <2>. SUFFICES ASSUME Inv PROVE SiteAudit!TypeOK /\ SiteAudit!ReportIsTrue
    OBVIOUS
  <2>1. SiteAudit!TypeOK /\ SiteAudit!UnreadIsTrue /\ SiteAudit!ScoreOfMeasured
    BY DEF SiteTypedInv, SiteReadingInv
  <2>2. SiteAudit!NoSitemapIsTrue
    <3>. SUFFICES ASSUME rReport # None, rReport.status = "completed",
                         rReport.scores["sitemap"] = 0
                  PROVE  rPage.sitemap = "none"
      BY DEF SiteAudit!NoSitemapIsTrue
    <3>1. SiteAudit!Required \subseteq SiteAudit!Measured(rReport.scores)
      BY <2>1 DEF SiteAudit!ScoreOfMeasured
    <3>2. "robots" \in SiteAudit!Required
      BY SiteWeights DEF SiteAudit!Required, SiteAudit!Parts, SiteAudit!SiteParts
    <3>3. rReport.scores["robots"] # None
      BY <3>1, <3>2 DEF SiteAudit!Measured
    <3>. QED
      BY <3>3 DEF SiteSitesInv, SiteAbsenceIsTrue, SiteAbsentSitemap
  <2>. QED
    BY <2>1, <2>2 DEF SiteAudit!ReportIsTrue
<1>. HIDE DEF Inv
<1>. QED
  BY <1>1, <1>2, <1>3, PTL DEF SiteAudit!Spec

-----------------------------------------------------------------------------
(* Requests of audits (auditor/queue.py).  The argument is that of         *)
(* AuditQueue_proofs, for the requests alone.                              *)

\* Requests counts with a Cardinality of its own, which is ours.
LEMMA RequestCardinality == \A S : Requests!Cardinality(S) = Cardinality(S)
BY DEF Requests!Cardinality, Cardinality

RequestAsked(c, h) == {a \in Audits : qJobs[a].client = c /\ qJobs[a].hour = h}

RequestRateInv ==
    \A c \in Callers, h \in Requests!Hours :
        /\ Cardinality(RequestAsked(c, h)) <= Limit
        /\ h >= qHour - 1 => Cardinality(RequestAsked(c, h)) <= qCounts[c][h]

RequestRateTypes ==
    /\ qJobs \in [Audits -> Requests!JobRow]
    /\ qCounts \in [Callers -> [Requests!Hours -> 0 .. Limit]]
    /\ qHour \in Requests!Hours

LEMMA RequestAskedFinite ==
    \A c \in Callers, h \in Requests!Hours :
        IsFiniteSet(RequestAsked(c, h)) /\ Cardinality(RequestAsked(c, h)) \in Nat
BY ServicesAssumption, FS_Subset, FS_CardinalityType DEF ServicesAssumption, RequestAsked

\* A request that is accepted is counted where it is recorded.
LEMMA RequestEnqueueRate ==
    ASSUME RequestRateTypes, RequestRateInv, NEW a \in Audits, NEW u \in AuditUrls,
           NEW c \in Callers,
           Requests!Enqueue(a, u, c)
    PROVE  RequestRateInv'
<1> USE ServicesAssumption DEF ServicesAssumption
<1>1. PICK h \in Requests!Hours \cap {qHour - 1, qHour} :
        /\ qCounts[c][h] < Limit
        /\ qCounts' = [d \in Callers |-> [g \in Requests!Hours |->
                         IF ~Requests!Kept(g, h) THEN 0
                         ELSE qCounts[d][g] + (IF d = c /\ g = h THEN 1 ELSE 0)]]
        /\ qJobs' = [qJobs EXCEPT ![a] =
                      [state |-> "queued", attempts |-> 0, lease |-> 0,
                       born |-> Requests!Cardinality({b \in Audits : qJobs[b].state # "none"}),
                       url |-> u, client |-> c, hour |-> h]]
  BY DEF Requests!Enqueue
<1>2. qHour' = qHour /\ qHour \in Nat /\ h \in Nat
  BY DEF Requests!Enqueue, RequestRateTypes, Requests!Hours
<1>3. /\ qJobs'[a].client = c /\ qJobs'[a].hour = h
      /\ \A b \in Audits : b # a => qJobs'[b] = qJobs[b]
  BY <1>1 DEF RequestRateTypes
<1>4. SUFFICES ASSUME NEW d \in Callers, NEW g \in Requests!Hours
               PROVE  /\ Cardinality(RequestAsked(d, g)') <= Limit
                      /\ g >= qHour - 1 => Cardinality(RequestAsked(d, g)') <= qCounts'[d][g]
  BY <1>2 DEF RequestRateInv
<1>5. /\ qCounts[d][g] \in Nat /\ Cardinality(RequestAsked(d, g)) \in Nat /\ g \in Nat
      /\ IsFiniteSet(RequestAsked(d, g))
      /\ Cardinality(RequestAsked(d, g)) <= Limit
      /\ g >= qHour - 1 => Cardinality(RequestAsked(d, g)) <= qCounts[d][g]
  BY RequestAskedFinite DEF RequestRateTypes, RequestRateInv, Requests!Hours
<1>6. g >= qHour - 1 => Requests!Kept(g, h)
  BY <1>1, <1>2, <1>5 DEF Requests!Kept
<1>7. CASE d = c /\ g = h
  <2>1. RequestAsked(d, g)' \subseteq RequestAsked(d, g) \cup {a}
    BY <1>3 DEF RequestAsked
  <2>2. /\ IsFiniteSet(RequestAsked(d, g) \cup {a})
        /\ Cardinality(RequestAsked(d, g) \cup {a}) \in Nat
        /\ Cardinality(RequestAsked(d, g) \cup {a}) <= Cardinality(RequestAsked(d, g)) + 1
    <3>1. IsFiniteSet(RequestAsked(d, g) \cup {a})
      BY <1>5, FS_AddElement
    <3>2. Cardinality(RequestAsked(d, g) \cup {a}) <= Cardinality(RequestAsked(d, g)) + 1
      <4>1. PICK T : T = RequestAsked(d, g)
        OBVIOUS
      <4>2. IsFiniteSet(T) /\ Cardinality(T) \in Nat
        BY <1>5, <4>1
      <4>3. Cardinality(T \cup {a}) \in {Cardinality(T), Cardinality(T) + 1}
        BY <4>2, FS_AddElement, Zenon
      <4> QED
        BY <4>1, <4>2, <4>3
    <3> QED
      BY <3>1, <3>2, FS_CardinalityType
  <2>3. Cardinality(RequestAsked(d, g)') \in Nat
        /\ Cardinality(RequestAsked(d, g)') <= Cardinality(RequestAsked(d, g)) + 1
    BY <1>5, <2>1, <2>2, FS_Subset, FS_CardinalityType
  <2>4. g >= qHour - 1 /\ qCounts'[d][g] = qCounts[d][g] + 1
    <3>1. g >= qHour - 1
      BY <1>1, <1>2, <1>7
    <3> QED
      BY <1>1, <1>6, <1>7, <3>1
  <2> QED
    BY <1>1, <1>5, <1>7, <2>3, <2>4
<1>8. CASE ~(d = c /\ g = h)
  <2>1. RequestAsked(d, g)' \subseteq RequestAsked(d, g)
    BY <1>3, <1>8 DEF RequestAsked
  <2>2. Cardinality(RequestAsked(d, g)') \in Nat
        /\ Cardinality(RequestAsked(d, g)') <= Cardinality(RequestAsked(d, g))
    BY <1>5, <2>1, FS_Subset, FS_CardinalityType
  <2>3. g >= qHour - 1 => qCounts'[d][g] = qCounts[d][g]
    BY <1>1, <1>5, <1>6, <1>8
  <2> QED
    BY <1>5, <2>2, <2>3
<1> QED
  BY <1>7, <1>8

\* Nothing else writes who asked, or what is counted; an hour that passes only
\* closes the one before the previous.
LEMMA RequestOtherRate ==
    ASSUME RequestRateTypes, RequestRateInv, RequestRateTypes', qHour' \in {qHour, qHour + 1},
           qCounts' = qCounts,
           \A a \in Audits : qJobs'[a].client = qJobs[a].client
           /\ qJobs'[a].hour = qJobs[a].hour
    PROVE  RequestRateInv'
<1>1. \A d \in Callers, g \in Requests!Hours : RequestAsked(d, g)' = RequestAsked(d, g)
  BY DEF RequestAsked
<1>2. \A g \in Requests!Hours : g >= qHour' - 1 => g >= qHour - 1
  <2>1. qHour \in Nat /\ qHour' \in Nat /\ \A g \in Requests!Hours : g \in Nat
    BY ServicesAssumption DEF RequestRateTypes, Requests!Hours, ServicesAssumption
  <2> QED
    BY <2>1
<1> QED
  BY <1>1, <1>2 DEF RequestRateInv

\* No worker takes an audit: there are requests, hours and ticks.
RequestsInv == RequestRateTypes /\ RequestRateInv /\ qKids = {}

LEMMA RequestsStep == ASSUME RequestsInv, [Requests!Next]_(Requests!vars) PROVE RequestsInv'
<1>. USE ServicesAssumption DEF ServicesAssumption, RequestsInv
<1>1. \/ \E a \in Audits, u \in AuditUrls, c \in Callers : Requests!Enqueue(a, u, c)
      \/ Requests!HourPasses \/ Requests!Tick \/ UNCHANGED Requests!vars
  BY DEF Requests!Next
<1>2. ASSUME NEW a \in Audits, NEW u \in AuditUrls, NEW c \in Callers, Requests!Enqueue(a, u, c)
      PROVE  RequestsInv'
  <2>1. RequestRateInv' /\ UNCHANGED <<qHour, qKids>>
    BY <1>2, RequestEnqueueRate DEF Requests!Enqueue
  <2>2. PICK h \in Requests!Hours :
          /\ qCounts[c][h] < Limit
          /\ qCounts' = [d \in Callers |-> [g \in Requests!Hours |->
                           IF ~Requests!Kept(g, h) THEN 0
                           ELSE qCounts[d][g] + (IF d = c /\ g = h THEN 1 ELSE 0)]]
          /\ qJobs' = [qJobs EXCEPT ![a] =
                        [state |-> "queued", attempts |-> 0, lease |-> 0,
                         born |-> Requests!Cardinality({b \in Audits : qJobs[b].state # "none"}),
                         url |-> u, client |-> c, hour |-> h]]
    BY <1>2 DEF Requests!Enqueue
  <2>3. qCounts' \in [Callers -> [Requests!Hours -> 0 .. Limit]]
    BY <2>2 DEF RequestRateTypes
  <2>4. Requests!Cardinality({b \in Audits : qJobs[b].state # "none"}) \in Nat
    BY FS_Subset, FS_CardinalityType, RequestCardinality
  <2>5. qJobs' \in [Audits -> Requests!JobRow]
    BY <2>2, <2>4 DEF RequestRateTypes, Requests!JobRow
  <2>. QED
    BY <2>1, <2>3, <2>5 DEF RequestRateTypes
<1>3. CASE Requests!HourPasses
  <2>1. RequestRateTypes' /\ qHour' \in {qHour, qHour + 1}
        /\ UNCHANGED <<qJobs, qCounts, qKids>>
    BY <1>3 DEF Requests!HourPasses, RequestRateTypes, Requests!Hours
  <2>. QED
    BY <2>1, RequestOtherRate
<1>4. CASE Requests!Tick
  <2>1. ASSUME NEW a \in Audits
        PROVE  /\ qJobs'[a] \in Requests!JobRow
               /\ qJobs'[a].client = qJobs[a].client /\ qJobs'[a].hour = qJobs[a].hour
    <3>1. qJobs[a] \in Requests!JobRow
      BY DEF RequestRateTypes
    <3>2. PICK n : n = IF qJobs[a].lease > 0 THEN qJobs[a].lease - 1 ELSE 0
      OBVIOUS
    <3>3. n \in 0 .. AuditLease
      BY <3>1, <3>2 DEF Requests!JobRow
    <3>4. qJobs'[a] = [qJobs[a] EXCEPT !.lease = n]
      BY <1>4, <3>2 DEF Requests!Tick
    <3>. QED
      BY <3>1, <3>3, <3>4 DEF Requests!JobRow
  <2>2. qJobs' = [a \in Audits |-> qJobs'[a]] /\ UNCHANGED <<qCounts, qHour, qKids>>
    BY <1>4 DEF Requests!Tick
  <2>3. RequestRateTypes'
    BY <2>1, <2>2 DEF RequestRateTypes
  <2>. QED
    BY <2>1, <2>2, <2>3, RequestOtherRate
<1>5. CASE UNCHANGED Requests!vars
  BY <1>5 DEF Requests!vars, RequestRateTypes, RequestRateInv, RequestAsked
<1>. QED
  BY <1>1, <1>2, <1>3, <1>4, <1>5

\* No client starts more audits in an hour than the limit, however its requests are
\* retried and whenever the hour passes (auditor/queue.py).
THEOREM RequestRatesHold == Requests!Spec => []Requests!RateHolds
<1>1. Requests!Init => RequestsInv
  <2>. SUFFICES ASSUME Requests!Init PROVE RequestsInv
    OBVIOUS
  <2>. USE ServicesAssumption DEF ServicesAssumption
  <2>1. ASSUME NEW c \in Callers, NEW h \in Requests!Hours
        PROVE  Cardinality(RequestAsked(c, h)) = 0
    <3>1. RequestAsked(c, h) = {}
      BY DEF Requests!Init, RequestAsked
    <3>. QED
      BY <3>1, FS_EmptySet
  <2>2. RequestRateTypes /\ qKids = {}
    BY DEF Requests!Init, RequestRateTypes, Requests!JobRow, Requests!Hours
  <2>3. \A c \in Callers, h \in Requests!Hours : qCounts[c][h] = 0
    BY DEF Requests!Init
  <2>. QED
    BY <2>1, <2>2, <2>3 DEF RequestRateInv, RequestsInv
<1>2. RequestsInv /\ [Requests!Next]_(Requests!vars) => RequestsInv'
  BY RequestsStep
<1>3. RequestsInv => Requests!RateHolds
  BY RequestCardinality DEF RequestsInv, RequestRateInv, Requests!RateHolds, RequestAsked
<1>. QED
  BY <1>1, <1>2, <1>3, PTL DEF Requests!Spec

-----------------------------------------------------------------------------
(* The services.                                                           *)

\* The state of every service is well typed.
THEOREM ServicesTyped == ServicesSpec => []TypesOK
BY PartsRun, TypeCorrect, TokenGrantHolds, AccountTypeCorrect, TenantTypeCorrect,
   CredentialTypeCorrect, BrowserStableHolds, InventoryCoverageHolds, IntentTypeCorrect,
   SiteReportHolds, ServicesAssumption, PTL
DEF ServicesAssumption, TypesOK

\* The measured score of a page is stable for a day (pagespeed_real.py), and one
\* browser measures at a time (processes.py).
THEOREM ScoreIsStable == ServicesSpec => StableScore
BY PartsRun, BrowserStableHolds, ServicesAssumption, PTL DEF ServicesAssumption, StableScore

\* A site reported as covered is in the table pages (site_inventory.py).
THEOREM CoverageHolds == ServicesSpec => []CoverageIsTrue
BY PartsRun, InventoryCoverageHolds, ServicesAssumption, PTL
DEF ServicesAssumption, CoverageIsTrue

\* No client of the auditor passes its hourly limit (auditor/queue.py).
THEOREM RatesStayWithinLimit == ServicesSpec => []RateHolds
BY PartsRun, RequestRatesHold, PTL DEF RateHolds

\* A report is true of the site: that it cannot be read, its score, its completeness,
\* and that it has no sitemap (safe_fetch.py, scoring.py, analyzer.py).
THEOREM ReportsHold == ServicesSpec => []ReportIsTrue
BY PartsRun, SiteReportHolds, ServicesAssumption, PTL
DEF ServicesAssumption, ReportIsTrue

=============================================================================
