----------------------------- MODULE PageIntents -----------------------------
(***************************************************************************)
(* One search intent, one page: the table topic_map (denzo/db.py), which   *)
(* the keyword clusterer fills (layer1_research/keyword_clusterer.py) and  *)
(* every agent that adds a page consults and writes (add_page in           *)
(* denzo/agents/base_agent.py).  The gates of add_page, the insertion of   *)
(* the page and the note of its owner are transactions of their own.       *)
(*                                                                         *)
(* The keywords are those of one client, and the agents its agents.        *)
(***************************************************************************)
EXTENDS Naturals, FiniteSets

CONSTANTS Agents,       \* agents that add pages
          Keywords,
          Slugs,        \* a slug is a page: the pair is unique in the table
          None,
          MaxClusters,  \* bound: runs of the clusterer
          MaxDeaths     \* bound: agents that die while they add a page

VARIABLES topics,   \* topic_map: the row of each keyword, or None
          pages,    \* the generated pages: slug and keyword
          known,    \* keywords that the client's own pages already have
          adding,   \* what each agent is adding, or None
          lost,     \* history: keywords whose owner was forgotten, or never noted
          left      \* clusterings and deaths still allowed

vars == <<topics, pages, known, adding, lost, left>>

Topic == [status : {"planned", "owned_existing", "owned_generated"},
          owner : Slugs \cup {None}]
Page == [slug : Slugs, keyword : Keywords]
Adding == [page : Page, at : {"passed", "inserted"}, crossed : BOOLEAN]

\* None is neither a slug, nor a topic, nor a page that is being added.
ConstantsAssumption ==
  /\ None \notin Slugs /\ None \notin Topic /\ None \notin Adding
  /\ MaxClusters \in Nat /\ MaxDeaths \in Nat

TypeOK ==
  /\ topics \in [Keywords -> Topic \cup {None}]
  /\ pages \subseteq Page
  /\ known \subseteq Keywords
  /\ adding \in [Agents -> Adding \cup {None}]
  /\ lost \subseteq Keywords
  /\ left \in [clusters : 0..MaxClusters, deaths : 0..MaxDeaths]

Init ==
  /\ topics = [k \in Keywords |-> None]
  /\ pages = {}
  /\ known = {}
  /\ adding = [a \in Agents |-> None]
  /\ lost = {}
  /\ left = [clusters |-> MaxClusters, deaths |-> MaxDeaths]

Targeting(k) == {page \in pages : page.keyword = k}

AddingTo(k) == {a \in Agents : adding[a] # None /\ adding[a].page.keyword = k}

SlugFree(slug) == \A page \in pages : page.slug # slug

IntentFreeOfExisting(k) ==                               \* mutant
  IF topics[k] = None THEN Targeting(k) = {} ELSE topics[k].status # "owned_existing"

\* A keyword without a topic may not have a page; a topic may not have an owner.
IntentFree(k) ==
  IF topics[k] = None THEN Targeting(k) = {}
  ELSE topics[k].status # "owned_existing" /\ topics[k].owner = None

\* The gates of add_page.  That on similar texts, and a page of the client's own
\* for a keyword without a topic, turn away more than these: Pass need not happen.
Pass(a, page) ==
  /\ adding[a] = None
  /\ SlugFree(page.slug)
  /\ IntentFree(page.keyword)
  /\ adding' = [b \in Agents |->
       IF b = a THEN [page |-> page, at |-> "passed",
                      crossed |-> AddingTo(page.keyword) # {}]
       ELSE IF b \in AddingTo(page.keyword) THEN [adding[b] EXCEPT !.crossed = TRUE]
       ELSE adding[b]]
  /\ UNCHANGED <<topics, pages, known, lost, left>>

\* The insertion fails, and the job with it, when the slug was taken meanwhile.
Insert(a) ==
  /\ adding[a] # None
  /\ adding[a].at = "passed"
  /\ IF SlugFree(adding[a].page.slug)
     THEN /\ pages' = pages \cup {adding[a].page}
          /\ adding' = [adding EXCEPT ![a].at = "inserted"]
     ELSE /\ adding' = [adding EXCEPT ![a] = None]
          /\ UNCHANGED pages
  /\ UNCHANGED <<topics, known, lost, left>>

Owned(page) == [status |-> "owned_generated", owner |-> page.slug]

NoteOwner(a) ==
  /\ adding[a] # None
  /\ adding[a].at = "inserted"
  /\ topics' = [topics EXCEPT ![adding[a].page.keyword] = Owned(adding[a].page)]
  /\ adding' = [adding EXCEPT ![a] = None]
  /\ UNCHANGED <<pages, known, lost, left>>

\* The job is cancelled or dies.
Die(a) ==
  /\ adding[a] # None
  /\ left.deaths > 0
  /\ left' = [left EXCEPT !.deaths = @ - 1]
  /\ lost' = IF adding[a].at = "inserted" THEN lost \cup {adding[a].page.keyword} ELSE lost
  /\ adding' = [adding EXCEPT ![a] = None]
  /\ UNCHANGED <<topics, pages, known>>

\* The footprint agent finds what the client's own pages are about.
Footprint(found) ==
  /\ found # known
  /\ known' = found
  /\ UNCHANGED <<topics, pages, adding, lost, left>>

\* INSERT OR REPLACE: the row of a keyword that wins its cluster is written anew.
Planned(k) ==
  [status |-> IF k \in known THEN "owned_existing" ELSE "planned", owner |-> None]

Cluster(winners) ==
  /\ left.clusters > 0
  /\ left' = [left EXCEPT !.clusters = @ - 1]
  /\ topics' = [k \in Keywords |-> IF k \in winners THEN Planned(k) ELSE topics[k]]
  /\ lost' = lost \cup {k \in winners : Targeting(k) # {}}
  /\ UNCHANGED <<pages, known, adding>>

Next ==
  \/ \E a \in Agents : Insert(a) \/ NoteOwner(a) \/ Die(a)
       \/ \E page \in Page : Pass(a, page)
  \/ \E some \in SUBSET Keywords : Footprint(some) \/ (some # {} /\ Cluster(some))

Spec == Init /\ [][Next]_vars

-----------------------------------------------------------------------------
\* "one primary_keyword -> one owner page" (db.py:390): an agent inserts a second
\* page for a keyword only where another was adding one at the same time, or the
\* topic lost its owner, to a new clustering or to a death before it was noted.
OneIntentOnePage ==
  [][\A a \in Agents :
       (pages' # pages /\ adding'[a] # adding[a]
          /\ Targeting(adding[a].page.keyword) # {})
         => adding[a].crossed \/ adding[a].page.keyword \in lost]_vars
=============================================================================
