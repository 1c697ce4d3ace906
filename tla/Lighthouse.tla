------------------------------ MODULE Lighthouse ------------------------------
(***************************************************************************)
(* The measurement of a page in a browser, denzo/auditor/pagespeed_real.py *)
(* and denzo/processes.py.  Audits of one page share a score that is kept  *)
(* for a day, and all audits share one browser: a lock on a file, which    *)
(* the system takes from a process that dies.  The score is stored after   *)
(* the lock has been given back.                                           *)
(***************************************************************************)
EXTENDS Naturals, FiniteSets

CONSTANTS Audits,    \* processes that audit the page
          Results,   \* scores a browser may measure
          None,
          MaxKills   \* bound: processes killed while their browser runs

VARIABLES audit,     \* where each audit is
          lock,      \* the audit that holds the lock file, or None
          cache,     \* the row of lighthouse_cache, while it is fresh, or None
          browsers,  \* audits whose browser runs
          orphans    \* browsers that killed processes left behind, ever

vars == <<audit, lock, cache, browsers, orphans>>

\* `crossed`, history: one of two that measured before the other had stored.
Audit == [at : {"idle", "waiting", "locked", "measuring", "storing", "ended"},
          score : Results \cup {None}, crossed : BOOLEAN]
NoAudit == [at |-> "idle", score |-> None, crossed |-> FALSE]

\* None is neither an audit nor a score.
ConstantsAssumption == None \notin Audits /\ None \notin Results /\ MaxKills \in Nat

TypeOK ==
  /\ audit \in [Audits -> Audit]
  /\ lock \in Audits \cup {None}
  /\ cache \in Results \cup {None}
  /\ browsers \subseteq Audits
  /\ orphans \in 0..MaxKills

Init ==
  /\ audit = [a \in Audits |-> NoAudit]
  /\ lock = None
  /\ cache = None
  /\ browsers = {}
  /\ orphans = 0

At(a, where) == audit[a].at = where

Ended(a, score) ==
  audit' = [audit EXCEPT ![a].at = "ended", ![a].score = score]

\* The score of today, if there is one, or the wait for the browser.
Look(a) ==
  /\ At(a, "idle")
  /\ IF cache # None THEN Ended(a, cache)
     ELSE audit' = [audit EXCEPT ![a].at = "waiting"]
  /\ UNCHANGED <<lock, cache, browsers, orphans>>

\* Ten minutes passed, or the job was cancelled.
GiveUp(a) ==
  /\ At(a, "waiting")
  /\ Ended(a, None)
  /\ UNCHANGED <<lock, cache, browsers, orphans>>

Acquire(a) ==
  /\ At(a, "waiting")
  /\ lock = None
  /\ lock' = a
  /\ audit' = [audit EXCEPT ![a].at = "locked"]
  /\ UNCHANGED <<cache, browsers, orphans>>

\* Another audit may have stored a score while this one waited.
FoundStored(a) ==
  /\ At(a, "locked")
  /\ cache # None
  /\ Ended(a, cache)
  /\ lock' = None
  /\ UNCHANGED <<cache, browsers, orphans>>

LookedBefore == TRUE                                     \* mutant

NotStored == cache = None

Launch(a) ==
  /\ At(a, "locked")
  /\ NotStored
  /\ browsers' = browsers \cup {a}
  /\ audit' = [b \in Audits |->
       IF b = a THEN [audit[a] EXCEPT !.at = "measuring",
                                      !.crossed = \E c \in Audits : At(c, "storing")]
       ELSE [audit[b] EXCEPT !.crossed = @ \/ At(b, "storing")]]
  /\ UNCHANGED <<lock, cache, orphans>>

\* run_bounded stops what it started, however it ends.
Stopped(a) == browsers \ {a}

Measured(a, score) ==
  /\ At(a, "measuring")
  /\ audit' = [audit EXCEPT ![a].at = "storing", ![a].score = score]
  /\ lock' = None
  /\ browsers' = Stopped(a)
  /\ UNCHANGED <<cache, orphans>>

\* The browser fails, takes too long, writes too much, or the job is cancelled.
Fails(a) ==
  /\ At(a, "measuring")
  /\ Ended(a, None)
  /\ lock' = None
  /\ browsers' = Stopped(a)
  /\ UNCHANGED <<cache, orphans>>

Store(a) ==
  /\ At(a, "storing")
  /\ cache' = audit[a].score
  /\ audit' = [audit EXCEPT ![a].at = "ended"]
  /\ UNCHANGED <<lock, browsers, orphans>>

-----------------------------------------------------------------------------
(* The day passes, the page is audited again, processes are killed.        *)

Expire ==
  /\ cache # None
  /\ cache' = None
  /\ UNCHANGED <<audit, lock, browsers, orphans>>

Again(a) ==
  /\ At(a, "ended")
  /\ audit' = [audit EXCEPT ![a] = NoAudit]
  /\ UNCHANGED <<lock, cache, browsers, orphans>>

\* The process is killed: nothing stops its browser, the system frees its lock.
Kill(a) ==
  /\ audit[a].at \in {"waiting", "locked", "measuring", "storing"}
  /\ a \in browsers => orphans < MaxKills
  /\ audit' = [audit EXCEPT ![a] = NoAudit]
  /\ lock' = IF lock = a THEN None ELSE lock
  /\ browsers' = browsers \ {a}
  /\ orphans' = IF a \in browsers THEN orphans + 1 ELSE orphans
  /\ UNCHANGED cache

Next ==
  \/ Expire
  \/ \E a \in Audits :
       \/ Look(a) \/ GiveUp(a) \/ Acquire(a) \/ FoundStored(a) \/ Launch(a)
       \/ Fails(a) \/ Store(a) \/ Again(a) \/ Kill(a)
       \/ \E score \in Results : Measured(a, score)

Spec == Init /\ [][Next]_vars

-----------------------------------------------------------------------------
\* "One Chrome audit per shared SQLite installation" (processes.py:30): two
\* browsers run side by side only when a process was killed and left one behind.
OneBrowser == \A a, b \in browsers : a = b

\* "re-auditing the same page returns a stable score" (pagespeed_real.py:104): a
\* score of today replaces another of today only where one audit looked while the
\* other had measured and not yet stored, which the lock does not cover.
StableScore ==
  [][(cache # None /\ cache' \notin {None, cache})
       => \E a \in Audits : At(a, "storing") /\ audit[a].crossed]_vars
=============================================================================
