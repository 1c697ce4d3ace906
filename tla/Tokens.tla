-------------------------------- MODULE Tokens --------------------------------
(***************************************************************************)
(* The Google authorisation of a client for one provider: the flow of      *)
(* denzo/routes/oauth.py that a browser goes through, and the row of       *)
(* oauth_tokens that denzo/agents/utils/google_oauth.py keeps.  Agents     *)
(* read the row and refresh it when it has expired or Google answers 401,  *)
(* several at a time and beside the web.  save_token reads the row, merges *)
(* it with what Google returned and writes it, in two transactions.        *)
(*                                                                         *)
(* A stored refresh token counts its layers of encryption (denzo/crypto.py)*)
(* with the key configured: encrypting adds one, decrypting takes one off, *)
(* and Google knows the token without any.                                 *)
(***************************************************************************)
EXTENDS Naturals

CONSTANTS Accounts,    \* Google accounts, each with a site of its own
          None,        \* NULL
          Users,       \* agents that call Google
          Flows,       \* authorisations that a browser begins
          MaxLayers,   \* bound: layers of encryption
          MaxTurns     \* bound: disconnections, selections, expiries, revocations

VARIABLES row,      \* the row of oauth_tokens, or None
          nonce,    \* the flow that the browser's session expects, or None
          begun,    \* the flows begun
          calls,    \* what each agent, and the web, is doing
          revoked,  \* the accounts whose grant a person has revoked
          turns,    \* turns taken
          chosen,   \* history: the site last bound to the row
          torn,     \* history: since the row was last deleted, a call wrote what was outdated
                    \* (see Call), or the account's name was not known
          saved     \* history: the flows that saved a token

vars == <<row, nonce, begun, calls, revoked, turns, chosen, torn, saved>>

Web == "web"
Stored == [of : Accounts, layers : 0..MaxLayers]
Row == [access : Accounts, refresh : Stored \cup {None}, expired : BOOLEAN,
        email : Accounts \cup {None}, site : Accounts \cup {None}]
Idle == [at |-> "idle", token |-> None, retry |-> FALSE, grant |-> None, seen |-> None,
         outdated |-> FALSE]
Call == [at : {"idle", "asking", "refreshing", "saving", "writing"},
         token : Stored \cup Accounts \cup {None}, retry : BOOLEAN,
         grant : Row \cup {None}, seen : Row \cup {None},
         outdated : BOOLEAN]   \* history: since it last read the row, was that deleted, made
                               \* another account's, or bound to a site?

\* The web is no agent; None is neither a flow, nor an account, nor a row.
ConstantsAssumption ==
  /\ Web \notin Users
  /\ None \notin Flows /\ None \notin Accounts /\ None \notin Stored /\ None \notin Row
  /\ MaxLayers \in Nat /\ MaxTurns \in Nat

TypeOK ==
  /\ row \in Row \cup {None}
  /\ nonce \in Flows \cup {None}
  /\ begun \subseteq Flows
  /\ calls \in [Users \cup {Web} -> Call]
  /\ revoked \subseteq Accounts
  /\ turns \in 0..MaxTurns
  /\ chosen \in Accounts \cup {None}
  /\ torn \in BOOLEAN
  /\ saved \subseteq Flows

Encrypt(t) == [t EXCEPT !.layers = IF @ < MaxLayers THEN @ + 1 ELSE @]
Decrypt(t) == [t EXCEPT !.layers = IF @ > 0 THEN @ - 1 ELSE @]

Init ==
  /\ row = None
  /\ nonce = None
  /\ begun = {}
  /\ calls = [c \in Users \cup {Web} |-> Idle]
  /\ revoked = {}
  /\ turns = 0
  /\ chosen = None
  /\ torn = FALSE
  /\ saved = {}

-----------------------------------------------------------------------------
(* Saving.                                                                 *)

Either(new, old) == IF new = None THEN old ELSE new

MergedOldFirst(grant, seen) ==                           \* mutant
  LET refresh == IF seen # None THEN Either(seen.refresh, grant.refresh)
                 ELSE grant.refresh IN
  [grant EXCEPT
     !.refresh = IF refresh = None THEN None ELSE Encrypt(refresh),
     !.email = IF seen = None THEN @ ELSE Either(@, seen.email),
     !.site = IF seen = None THEN @ ELSE Either(@, seen.site)]

\* What save_token writes: what Google returned, and what it does not give from
\* the row read; both tokens are encrypted.
Merged(grant, seen) ==
  LET refresh == IF grant.refresh # None THEN grant.refresh
                 ELSE IF seen # None THEN seen.refresh ELSE None IN
  [grant EXCEPT
     !.refresh = IF refresh = None THEN None ELSE Encrypt(refresh),
     !.email = IF seen = None THEN @ ELSE Either(@, seen.email),
     !.site = IF seen = None THEN @ ELSE Either(@, seen.site)]

\* INSERT ... ON CONFLICT DO UPDATE with COALESCE
Upserted(new) ==
  IF row = None THEN new
  ELSE [new EXCEPT !.refresh = Either(@, row.refresh), !.email = Either(@, row.email),
                   !.site = Either(@, row.site)]

\* The account that a call works for; it has read the row, and will write it.
Working == {c \in Users : calls[c].at \in {"refreshing", "saving", "writing"}}
Writing == {c \in Users \cup {Web} : calls[c].at = "writing"}
WorksFor(c) == IF calls[c].at = "refreshing" THEN calls[c].token.of ELSE calls[c].grant.access

Outdated(S) == [c \in Users \cup {Web} |->
                  IF c \in S THEN [calls[c] EXCEPT !.outdated = TRUE] ELSE calls[c]]

SaveReads(c) ==
  /\ calls[c].at = "saving"
  /\ calls' = [calls EXCEPT ![c].at = "writing", ![c].seen = row]
  /\ UNCHANGED <<row, nonce, begun, revoked, turns, chosen, torn, saved>>

\* After the web's save of an account, the calls for another one are outdated.
SaveWrites(c) ==
  LET others == {d \in Working : c = Web /\ WorksFor(d) # calls[c].grant.access} IN
  /\ calls[c].at = "writing"
  /\ row' = Upserted(Merged(calls[c].grant, calls[c].seen))
  /\ torn' = (torn \/ calls[c].outdated \/ (c = Web /\ calls[c].grant.email = None))
  /\ calls' = [Outdated(others) EXCEPT ![c] =
       IF calls[c].retry \/ c = Web THEN Idle
       ELSE [Idle EXCEPT !.at = "asking", !.token = calls[c].grant.access]]
  /\ UNCHANGED <<nonce, begun, revoked, turns, chosen, saved>>

Save(c) == SaveReads(c) \/ SaveWrites(c)

-----------------------------------------------------------------------------
(* The browser.                                                            *)

\* connect: a fresh nonce goes to the session and into the state parameter.
Connect(f) ==
  /\ f \notin begun
  /\ begun' = begun \cup {f}
  /\ nonce' = f
  /\ UNCHANGED <<row, calls, revoked, turns, chosen, torn, saved>>

NonceAfter(f) == None

\* callback with the state of a flow, after consent of an account: the nonce is
\* taken from the session; the code is exchanged, which Google refuses or not;
\* the account's name may be missing.  prompt=consent always returns a refresh
\* token.  The save follows.
Callback(f, a) ==
  /\ f \in begun
  /\ calls[Web].at = "idle"
  /\ nonce' = NonceAfter(f)
  /\ IF nonce # f THEN UNCHANGED <<calls, saved, revoked>>
     ELSE \E email \in {a, None} :
            /\ calls' = [calls EXCEPT ![Web] = [Idle EXCEPT !.at = "saving",
                 !.grant = [access |-> a, refresh |-> [of |-> a, layers |-> 0],
                            expired |-> FALSE, email |-> email, site |-> None]]]
            /\ saved' = saved \cup {f}
            /\ revoked' = revoked \ {a}
  /\ UNCHANGED <<row, begun, turns, chosen, torn>>

\* Google reports an error and the nonce stays, or the exchange of the code fails
\* after the nonce was taken.
CallbackFails(f) ==
  /\ f \in begun
  /\ nonce' \in {nonce, NonceAfter(f)}
  /\ UNCHANGED <<row, begun, calls, revoked, turns, chosen, torn, saved>>

Turn == turns < MaxTurns /\ turns' = turns + 1

\* update_token_metadata: a person selects a site, or the only one is bound.
Bound(a) == [row EXCEPT !.site = a]
Select(a) ==
  /\ Turn
  /\ row # None
  /\ row' = Bound(a)
  /\ chosen' = a
  /\ calls' = Outdated(Writing)
  /\ UNCHANGED <<nonce, begun, revoked, torn, saved>>

Disconnect ==
  /\ Turn
  /\ row # None
  /\ row' = None
  /\ chosen' = None
  /\ calls' = Outdated(Working \cup Writing)
  /\ torn' = FALSE
  /\ UNCHANGED <<nonce, begun, revoked, saved>>

Expire ==
  /\ Turn
  /\ row # None
  /\ row' = [row EXCEPT !.expired = TRUE]
  /\ UNCHANGED <<nonce, begun, calls, revoked, chosen, torn, saved>>

\* The owner of an account takes the permission back, at Google.
Revoke(a) ==
  /\ Turn
  /\ revoked' = revoked \cup {a}
  /\ UNCHANGED <<row, nonce, begun, calls, chosen, torn, saved>>

-----------------------------------------------------------------------------
(* Agents: authed_request.                                                 *)

Refreshing(c, retry) ==
  [Idle EXCEPT !.at = "refreshing", !.token = Decrypt(row.refresh), !.retry = retry]

\* get_access_token: without a row, or expired without a refresh token, the
\* request fails and nothing changes.
Ask(c) ==
  /\ calls[c].at = "idle"
  /\ row # None
  /\ row.expired => row.refresh # None
  /\ calls' = [calls EXCEPT ![c] =
       IF row.expired THEN Refreshing(c, FALSE)
       ELSE [Idle EXCEPT !.at = "asking", !.token = row.access]]
  /\ UNCHANGED <<row, nonce, begun, revoked, turns, chosen, torn, saved>>

\* Google answers, with 401 if the grant is revoked or now and then: then the
\* row is read again and refreshed, once.
Answered(c) ==
  /\ calls[c].at = "asking"
  /\ \/ calls[c].token \notin revoked /\ calls' = [calls EXCEPT ![c] = Idle]
     \/ calls' = [calls EXCEPT ![c] =
          IF row = None THEN Idle
          ELSE IF row.refresh = None THEN Idle ELSE Refreshing(c, TRUE)]
  /\ UNCHANGED <<row, nonce, begun, revoked, turns, chosen, torn, saved>>

\* Google refreshes a token it knows; it returns no refresh token.
Refresh(c) ==
  LET t == calls[c].token IN
  /\ calls[c].at = "refreshing"
  /\ calls' = [calls EXCEPT ![c] =
       IF t.layers > 0 \/ t.of \in revoked THEN Idle
       ELSE [@ EXCEPT !.at = "saving", !.token = None,
               !.grant = [access |-> t.of, refresh |-> None, expired |-> FALSE,
                          email |-> None, site |-> None]]]
  /\ UNCHANGED <<row, nonce, begun, revoked, turns, chosen, torn, saved>>

Next ==
  \/ \E f \in Flows : Connect(f) \/ CallbackFails(f) \/ \E a \in Accounts : Callback(f, a)
  \/ \E a \in Accounts : Select(a) \/ Revoke(a)
  \/ Disconnect \/ Expire
  \/ \E c \in Users \cup {Web} : Save(c)
  \/ \E c \in Users : Ask(c) \/ Answered(c) \/ Refresh(c)

Spec == Init /\ [][Next]_vars

-----------------------------------------------------------------------------
\* The tokens, the account's name and the site of a row are those of one grant and
\* of the site last chosen, whatever agents refresh at the same time, whatever expires
\* or is revoked, and whatever account is connected, selected or disconnected between
\* their calls (save_token, which merges a row it has read with what Google returned).
\* The code breaks it in these cases, until the row is deleted: a refresh is under way
\* while another account is connected or the row is deleted, and writes the old access
\* token into the new row, or the row anew; a site is selected, or the row deleted,
\* between the two transactions of save_token; Google does not tell the account's name.
RowIsOneGrant ==
  (row # None /\ ~torn)
     => /\ row.refresh # None
        /\ row.refresh.of = row.access
        /\ row.email = row.access
        /\ row.site = chosen

\* The browser expects no flow that has already saved a token: a callback that
\* is repeated or comes late saves nothing (the nonce of connect and callback).
FlowsSaveOnce == nonce \notin saved

\* "Google returns refresh_token only on FIRST consent (or with prompt=consent).
\* If absent on subsequent refreshes, preserve the existing one": the refresh
\* token that is stored is one that Google knows once it is decrypted.
RefreshTokenKept ==
  (row # None) => (row.refresh # None => Decrypt(row.refresh).layers = 0)
=============================================================================
