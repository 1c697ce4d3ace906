------------------------------- MODULE Tenants -------------------------------
(***************************************************************************)
(* The rows of a client: they carry its slug, which is made of its name    *)
(* and may be used again once the client is deleted.  Deleting a client    *)
(* clears tables one by one (denzo/routes/clients.py); a trigger and two   *)
(* kinds of foreign keys do the rest (denzo/db.py, denzo/migrations.py).   *)
(* An agent that still runs looks now and then whether its job is there    *)
(* (denzo/execution.py) and writes for as long as it believes so.          *)
(*                                                                         *)
(* A row is known by the client it was written for, a number that slugs    *)
(* do not have.                                                            *)
(***************************************************************************)
EXTENDS Naturals

CONSTANTS Workers,     \* agents at work
          Suffixes,    \* a name's slug is 0, with a suffix 1, 2, ... up to here
          None,
          MaxClients   \* bound: clients created

VARIABLES client,   \* the client of each slug, or None
          rows,     \* rows[slug][table]: the clients that the rows were written for
          work,     \* what each agent works on
          created,  \* clients created so far
          refused,  \* history: clients that could not be deleted
          late      \* history: <<slug, client>> written to after it was deleted

vars == <<client, rows, work, created, refused, late>>

Slugs == 0..Suffixes
Ids == 1..MaxClients

\* Tables by what becomes of their rows: cleared by delete_client (pages, keywords,
\* settings, activity, ...), referring to a page, cleared by the trigger alone,
\* removed with the client by ON DELETE CASCADE, and refused without a client.
Cleared == {"pages", "keywords"}
Tables == Cleared \cup {"content_versions", "topic_map", "agent_jobs", "oauth_tokens"}
NeedsClient == {"agent_jobs", "oauth_tokens"}

\* Slugs and clients are numbers; None is not.
ConstantsAssumption == Suffixes \in Nat /\ MaxClients \in Nat /\ None \notin Nat

NoWork == [slug |-> None, of |-> None, sure |-> FALSE]

TypeOK ==
  /\ client \in [Slugs -> Ids \cup {None}]
  /\ rows \in [Slugs -> [Tables -> SUBSET Ids]]
  /\ work \in [Workers -> [slug : Slugs \cup {None}, of : Ids \cup {None}, sure : BOOLEAN]]
  /\ created \in 0..MaxClients
  /\ refused \subseteq Ids
  /\ late \subseteq Slugs \X Ids

Init ==
  /\ client = [s \in Slugs |-> None]
  /\ rows = [s \in Slugs |-> [t \in Tables |-> {}]]
  /\ work = [w \in Workers |-> NoWork]
  /\ created = 0
  /\ refused = {}
  /\ late = {}

\* The client and its rows are inserted in one transaction.
Inserted(s) ==
  /\ created < MaxClients
  /\ created' = created + 1
  /\ client' = [client EXCEPT ![s] = created + 1]
  /\ rows' = [rows EXCEPT ![s]["keywords"] = @ \cup {created + 1}]
  /\ UNCHANGED <<work, refused, late>>

\* create_client refuses a slug that is taken.
Create == client[0] = None /\ Inserted(0)

\* wizard_complete takes the first that is free.
WizardCreates == \E s \in Slugs :
  /\ client[s] = None
  /\ \A r \in 0..s - 1 : client[r] # None
  /\ Inserted(s)

\* Google is authorised for the client.
Authorize(s) ==
  /\ client[s] # None
  /\ rows' = [rows EXCEPT ![s]["oauth_tokens"] = @ \cup {client[s]}]
  /\ UNCHANGED <<client, work, created, refused, late>>

-----------------------------------------------------------------------------
(* Agents.                                                                 *)

StartJob(w, s) ==
  /\ work[w] = NoWork
  /\ client[s] # None
  /\ rows' = [rows EXCEPT ![s]["agent_jobs"] = @ \cup {client[s]}]
  /\ work' = [work EXCEPT ![w] = [slug |-> s, of |-> client[s], sure |-> TRUE]]
  /\ UNCHANGED <<client, created, refused, late>>

\* Its job is looked for by its own id.
JobThere(w) == work[w].of \in rows[work[w].slug]["agent_jobs"]

\* Cancellation.is_set, after a quarter of a second.
Look(w) ==
  /\ work[w] # NoWork
  /\ work' = [work EXCEPT ![w] =
       IF JobThere(w) THEN [work[w] EXCEPT !.sure = TRUE] ELSE NoWork]
  /\ UNCHANGED <<client, rows, created, refused, late>>

\* What it saw becomes old; the next write looks again.
Ages(w) ==
  /\ work[w].sure
  /\ work' = [work EXCEPT ![w].sure = FALSE]
  /\ UNCHANGED <<client, rows, created, refused, late>>

\* db_write: check, then write.  New rows carry the slug, and only tables with a
\* foreign key ask whether the client exists.
MayWrite(w) == work[w].sure
Write(w, t) ==
  LET s == work[w].slug
      id == work[w].of IN
  /\ work[w] # NoWork
  /\ MayWrite(w)
  /\ t \in Cleared \cup {"topic_map"}
  /\ rows' = [rows EXCEPT ![s][t] = @ \cup {id}]
  /\ late' = IF client[s] = id THEN late ELSE late \cup {<<s, id>>}
  /\ UNCHANGED <<client, work, created, refused>>

\* New text of a page: archive_changed_content keeps the old one.
Rewrite(w) ==
  LET s == work[w].slug
      id == work[w].of IN
  /\ work[w] # NoWork
  /\ MayWrite(w)
  /\ id \in rows[s]["pages"]
  /\ rows' = [rows EXCEPT ![s]["content_versions"] = @ \cup {id}]
  /\ late' = IF client[s] = id THEN late ELSE late \cup {<<s, id>>}
  /\ UNCHANGED <<client, work, created, refused>>

EndJob(w) ==
  /\ work[w] # NoWork
  /\ work' = [work EXCEPT ![w] = NoWork]
  /\ UNCHANGED <<client, rows, created, refused, late>>

-----------------------------------------------------------------------------
(* Deleting.                                                               *)

TriggeredBefore == {"pages", "keywords", "content_versions", "oauth_tokens"}   \* mutant

\* trg_cleanup_tenant_data; agent_jobs go by ON DELETE CASCADE.
Triggered == {"pages", "keywords", "content_versions", "topic_map", "oauth_tokens"}
Cascaded == {"agent_jobs"}

\* DELETE FROM pages fails while content_versions refers to one.
Referenced(s) == rows[s]["content_versions"] # {} /\ rows[s]["pages"] # {}

\* Every id below belongs to the slug, whoever wrote it.
DeleteClient(s) ==
  /\ client[s] # None
  /\ IF Referenced(s)
     THEN /\ refused' = refused \cup {client[s]}
          /\ UNCHANGED <<client, rows, late>>
     ELSE /\ client' = [client EXCEPT ![s] = None]
          /\ rows' = [rows EXCEPT ![s] = [t \in Tables |->
               IF t \in Cleared \cup Triggered \cup Cascaded THEN {} ELSE rows[s][t]]]
          /\ late' = {l \in late : l[1] # s}
          /\ UNCHANGED refused
  /\ UNCHANGED <<work, created>>

Next ==
  \/ Create \/ WizardCreates
  \/ \E s \in Slugs : Authorize(s) \/ DeleteClient(s)
  \/ \E w \in Workers :
        \/ Look(w) \/ Ages(w) \/ Rewrite(w) \/ EndJob(w)
        \/ \E s \in Slugs : StartJob(w, s)
        \/ \E t \in Tables : Write(w, t)

Spec == Init /\ [][Next]_vars

-----------------------------------------------------------------------------
\* "No data leaks between clients" (db.py:3): the rows under a slug are those of
\* the client that has it now, so that a client that takes the slug of a deleted
\* one starts from nothing; unless an agent of the deleted client wrote in the
\* quarter of a second before it looked again.
RowsAreOwn ==
  \A s \in Slugs, t \in Tables :
     \A id \in rows[s][t] : id = client[s] \/ <<s, id>> \in late

\* "Delete all related data - every table that holds tenant_id": a client whose
\* deletion is asked for is deleted.
DeletionSucceeds == refused = {}
=============================================================================
