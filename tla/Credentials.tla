----------------------------- MODULE Credentials -----------------------------
(***************************************************************************)
(* The publishing credentials of a client, in its row of client_context.   *)
(* Three forms write them (denzo/routes/clients.py, denzo/routes/lite.py), *)
(* a script encrypts what was stored before there was a key                *)
(* (scripts/encrypt_existing_tokens.py), and agents read them              *)
(* (denzo/context/builder.py).  One flag says that both are encrypted; the *)
(* prefix of a ciphertext says so for each (denzo/crypto.py).              *)
(*                                                                         *)
(* A process reads the key once.  Forms leave a credential blank to keep   *)
(* the one that is stored.                                                 *)
(***************************************************************************)
EXTENDS Naturals

CONSTANTS Kinds,      \* github_token and wp_app_password
          Values,     \* what a person may enter
          None,
          Procs,      \* web processes and workers
          MaxForms    \* bound: forms sent

VARIABLES row,      \* the row, or None
          key,      \* is DENZO_ENCRYPTION_KEY in .env?
          keyed,    \* the processes that have read it
          form,     \* a form of the settings page that has read the row, or None
          script,   \* the row that the script has read, or None
          forms,    \* forms sent
          entered,  \* history: what a person entered last
          torn      \* history: a write went over a row it had not read

vars == <<row, key, keyed, form, script, forms, entered, torn>>

Stored == [of : Values, layers : 0..2]
Row == [token : [Kinds -> Stored \cup {None}], encrypted : BOOLEAN]
Entries == [Kinds -> Values \cup {None}]

\* None is neither a credential, nor a row, a form or an entry.
ConstantsAssumption ==
  /\ None \notin Values /\ None \notin Row
  /\ None \notin [by : Procs, fields : Entries, seen : Row]
  /\ MaxForms \in Nat

TypeOK ==
  /\ row \in Row \cup {None}
  /\ key \in BOOLEAN
  /\ keyed \subseteq Procs
  /\ form \in [by : Procs, fields : Entries, seen : Row] \cup {None}
  /\ script \in Row \cup {None}
  /\ forms \in 0..MaxForms
  /\ entered \in Entries
  /\ torn \in BOOLEAN

Prefixed(t) == t.layers > 0

\* encrypt_token; a process without the key stores what it is given.
Encrypt(p, t) == IF p \in keyed THEN [t EXCEPT !.layers = @ + 1] ELSE t

\* decrypt_token: what the row does not call encrypted, or what has no prefix,
\* is returned as it is.
Decrypt(p, t, encrypted) ==
  IF encrypted /\ Prefixed(t) /\ p \in keyed THEN [t EXCEPT !.layers = @ - 1] ELSE t

\* Before the forms encrypted anything there were clients with credentials.
Init ==
  /\ entered \in Entries
  /\ row \in {None, [token |-> [k \in Kinds |-> IF entered[k] = None THEN None
                                  ELSE [of |-> entered[k], layers |-> 0]],
                     encrypted |-> FALSE]}
  /\ row = None => \A k \in Kinds : entered[k] = None
  /\ key \in BOOLEAN
  /\ keyed \in {{}, IF key THEN Procs ELSE {}}
  /\ form = None
  /\ script = None
  /\ forms = 0
  /\ torn = FALSE

Entered(fields) == [k \in Kinds |-> IF fields[k] = None THEN entered[k] ELSE fields[k]]

SavedAgain(p, fields, seen) ==                           \* mutant
  [token |-> [k \in Kinds |->
       IF fields[k] # None THEN Encrypt(p, [of |-> fields[k], layers |-> 0])
       ELSE IF seen.token[k] = None THEN None ELSE Encrypt(p, seen.token[k])],
   encrypted |-> TRUE]

\* What a form leaves: a new credential encrypted, a blank one as it was read.
Saved(p, fields, seen) ==
  [token |-> [k \in Kinds |-> IF fields[k] = None THEN seen.token[k]
                              ELSE Encrypt(p, [of |-> fields[k], layers |-> 0])],
   encrypted |-> TRUE]

Sent == forms < MaxForms /\ forms' = forms + 1

\* create_client.
Create(p, fields) ==
  /\ row = None
  /\ Sent
  /\ row' = Saved(p, fields, [token |-> [k \in Kinds |-> None], encrypted |-> FALSE])
  /\ entered' = fields
  /\ UNCHANGED <<key, keyed, form, script, torn>>

\* update_client reads within the transaction that its first UPDATE began.
Update(p, fields) ==
  /\ row # None
  /\ Sent
  /\ row' = Saved(p, fields, row)
  /\ entered' = Entered(fields)
  /\ UNCHANGED <<key, keyed, form, script, torn>>

\* update_settings reads before its transaction begins.
SettingsRead(p, fields) ==
  /\ row # None
  /\ form = None
  /\ Sent
  /\ form' = [by |-> p, fields |-> fields, seen |-> row]
  /\ UNCHANGED <<row, key, keyed, script, entered, torn>>

SettingsWrite ==
  /\ form # None
  /\ row' = Saved(form.by, form.fields, form.seen)
  /\ entered' = Entered(form.fields)
  /\ torn' = (torn \/ row # form.seen)
  /\ form' = None
  /\ UNCHANGED <<key, keyed, script, forms>>

-----------------------------------------------------------------------------
(* The key and the script.                                                 *)

KeySet ==
  /\ ~key
  /\ key' = TRUE
  /\ UNCHANGED <<row, keyed, form, script, forms, entered, torn>>

Restart(p) ==
  /\ key
  /\ p \notin keyed
  /\ keyed' = keyed \cup {p}
  /\ form' = IF form # None /\ form.by = p THEN None ELSE form
  /\ UNCHANGED <<row, key, script, forms, entered, torn>>

\* The script reads every row, then writes those that need it; it runs with the key.
ScriptReads ==
  /\ key
  /\ row # None
  /\ script = None
  /\ script' = row
  /\ UNCHANGED <<row, key, keyed, form, forms, entered, torn>>

Plain(seen) == {k \in Kinds : seen.token[k] # None /\ ~seen.encrypted}

ScriptLeaves(seen) ==
  [token |-> [k \in Kinds |-> IF k \in Plain(seen) /\ ~Prefixed(seen.token[k])
                              THEN [seen.token[k] EXCEPT !.layers = @ + 1]
                              ELSE seen.token[k]],
   encrypted |-> TRUE]

ScriptWrites ==
  /\ script # None
  /\ script' = None
  /\ IF Plain(script) = {} THEN UNCHANGED <<row, torn>>
     ELSE /\ row' = ScriptLeaves(script)
          /\ torn' = (torn \/ row # script)
  /\ UNCHANGED <<key, keyed, form, forms, entered>>

Next ==
  \/ \E p \in Procs : Restart(p) \/ \E fields \in Entries :
        Create(p, fields) \/ Update(p, fields) \/ SettingsRead(p, fields)
  \/ SettingsWrite \/ KeySet \/ ScriptReads \/ ScriptWrites

Spec == Init /\ [][Next]_vars

-----------------------------------------------------------------------------
\* "Encrypted tokens are decrypted transparently on read" (crypto.py:8): a process
\* that has the key reads the credential that a person entered last, whichever
\* processes stored it before or after there was a key, and whatever the script
\* did; unless the settings page or the script wrote over a row it had not read.
CredentialsReadBack ==
  (row # None /\ ~torn) =>
     \A p \in keyed, k \in Kinds :
        IF entered[k] = None THEN row.token[k] = None
        ELSE Decrypt(p, row.token[k], row.encrypted) = [of |-> entered[k], layers |-> 0]
=============================================================================
