-------------------------- MODULE RefreshSessions --------------------------
(***************************************************************************)
(* The sessions of one account: the refresh-token store in Redis           *)
(* (lib/auth/tokens.ts) and the requests that mint, rotate and revoke      *)
(* tokens: password and Google login, refresh, logout, logout-all,         *)
(* password change and set, archive and delete.  Every Redis key of the    *)
(* store and every row read here belong to one account, so accounts do     *)
(* not interact and one is enough.                                         *)
(*                                                                         *)
(* A step is one Redis or database call with the synchronous code after    *)
(* it.  MULTI and the consume script run atomically in Redis; SMEMBERS and *)
(* the MULTI that deletes what it returned are two calls.                  *)
(***************************************************************************)
EXTENDS Naturals, FiniteSets

CONSTANTS
  Requests,      \* HTTP requests, each served once
  Tokens,        \* ids (jti) of refresh tokens, random and never minted twice
  StoredTokens,  \* tokens minted before the model starts
  Passwords,
  NULL

ASSUME SessionAssumption ==
  /\ StoredTokens \subseteq Tokens
  /\ NULL \notin Tokens /\ NULL \notin Passwords
  /\ NULL \notin [pw : Passwords, old : BOOLEAN]
  /\ IsFiniteSet(Requests)

VARIABLES
  disabled,    \* archivedAt or deletedAt of the account is set
  credential,  \* the PasswordCredential row, or NULL
  records,     \* hash auth:refresh:<jti> of each token
  members,     \* set auth:refresh:user:<account>
  req,         \* one record per request, see Request
  chosen,      \* history: the password the user last chose
  missed       \* history: tokens stored inside some sweep's window

vars == <<disabled, credential, records, members, req, chosen, missed>>

\* The password a stored hash verifies, and whether its parameters are outdated.
Credential == [pw : Passwords, old : BOOLEAN]

RecordStates == {"unborn", "fresh", "used", "gone"}

Kinds == {"none", "login", "google", "refresh", "logout", "logoutAll",
          "change", "set", "disable"}

PCs == {"idle", "rehash", "issue", "account", "sweep", "sweepDelete",
        "changeWrite", "setWrite", "disableWrite", "logoutDelete", "done", "lost"}

Answers == {"none", "ok", "denied", "disabled", "revoked", "replay", "conflict"}

Outcomes == {"none", "ok", "replay", "missing"}

(* token: the refresh token presented; pw: the password given (new, for a  *)
(* change or a set); outcome: what consume returned; ids: what SMEMBERS    *)
(* returned; late, alive: history, the account was already disabled at the *)
(* consume, and the tokens that were live when the sweep read the index.   *)
Request == [pc : PCs, kind : Kinds, token : Tokens \cup {NULL},
            pw : Passwords \cup {NULL}, outcome : Outcomes, answer : Answers,
            ids : SUBSET Tokens, alive : SUBSET Tokens, late : BOOLEAN]

IdleRequest == [pc |-> "idle", kind |-> "none", token |-> NULL, pw |-> NULL,
                outcome |-> "none", answer |-> "none", ids |-> {}, alive |-> {},
                late |-> FALSE]

TypeOK ==
  /\ disabled \in BOOLEAN
  /\ credential \in Credential \cup {NULL}
  /\ records \in [Tokens -> RecordStates]
  /\ members \subseteq Tokens
  /\ req \in [Requests -> Request]
  /\ chosen \in Passwords \cup {NULL}
  /\ missed \subseteq Tokens

Init ==
  /\ disabled = FALSE
  /\ credential \in Credential \cup {NULL}
  /\ records = [t \in Tokens |-> IF t \in StoredTokens THEN "fresh" ELSE "unborn"]
  /\ members = StoredTokens
  /\ req = [r \in Requests |-> IdleRequest]
  /\ chosen = IF credential = NULL THEN NULL ELSE credential.pw
  /\ missed = {}

-----------------------------------------------------------------------------
(* Helpers                                                                 *)

Live == {t \in Tokens : records[t] \in {"fresh", "used"}}

Becomes(r, q) == req' = [req EXCEPT ![r] = q]

At(q, pc) == [q EXCEPT !.pc = pc]

Answered(q, answer) == [q EXCEPT !.pc = "done", !.answer = answer]

Started(r, kind, token, pw) ==
  [req[r] EXCEPT !.kind = kind, !.token = token, !.pw = pw]

Sweeping(r) == req[r].pc = "sweepDelete"

-----------------------------------------------------------------------------
(* issueBundle: sign the tokens and store the refresh token.               *)

\* Faulty variant: the token is not added to the account's index.
StoreUnindexed(t) ==
  /\ records' = [records EXCEPT ![t] = "fresh"]
  /\ UNCHANGED members

\* The MULTI of RefreshStore.store.
Store(t) ==
  /\ records' = [records EXCEPT ![t] = "fresh"]
  /\ members' = members \cup {t}

IssueBundle(r, t) ==
  /\ req[r].pc = "issue"
  /\ records[t] = "unborn"
  /\ Store(t)
  /\ missed' = IF \E s \in Requests : Sweeping(s) THEN missed \cup {t} ELSE missed
  /\ Becomes(r, Answered(req[r], "ok"))
  /\ UNCHANGED <<disabled, credential, chosen>>

-----------------------------------------------------------------------------
(* loginWithPassword and the login half of the Google exchange             *)

\* The account and its credential are read once and trusted to the end.
LoginRead(r, pw) ==
  /\ req[r].pc = "idle"
  /\ LET q == Started(r, "login", NULL, pw)
     IN  \/ /\ credential = NULL
            /\ Becomes(r, Answered(q, "denied"))
         \/ /\ credential # NULL /\ disabled
            /\ Becomes(r, Answered(q, "disabled"))
         \/ /\ credential # NULL /\ ~disabled
            /\ credential.pw # pw
            /\ Becomes(r, Answered(q, "denied"))
         \/ /\ credential # NULL /\ ~disabled
            /\ credential.pw = pw
            /\ Becomes(r, At(q, IF credential.old THEN "rehash" ELSE "issue"))
  /\ UNCHANGED <<disabled, credential, records, members, chosen, missed>>

\* Faulty variant: the password itself is stored, not a hash of it.
LoginRehashPlain(r) ==
  /\ req[r].pc = "rehash"
  /\ credential' = req[r].pw
  /\ Becomes(r, At(req[r], "issue"))
  /\ UNCHANGED <<disabled, records, members, chosen, missed>>

\* Silent rehash: the row is written by account id alone.
LoginRehash(r) ==
  /\ req[r].pc = "rehash"
  /\ credential' = [pw |-> req[r].pw, old |-> FALSE]
  /\ Becomes(r, At(req[r], "issue"))
  /\ UNCHANGED <<disabled, records, members, chosen, missed>>

GoogleLogin(r) ==
  /\ req[r].pc = "idle"
  /\ LET q == Started(r, "google", NULL, NULL)
     IN  Becomes(r, IF disabled THEN Answered(q, "disabled") ELSE At(q, "issue"))
  /\ UNCHANGED <<disabled, credential, records, members, chosen, missed>>

-----------------------------------------------------------------------------
(* RefreshStore.revokeAll, and what each of its callers does after it      *)

AfterSweep(q) ==
  IF q.kind = "change" THEN At(q, "issue")
  ELSE Answered(q, IF q.kind # "refresh" THEN "ok"
                   ELSE IF q.outcome = "replay" THEN "replay" ELSE "disabled")

\* SMEMBERS; an empty index ends the sweep.
SweepRead(r) ==
  /\ req[r].pc = "sweep"
  /\ LET q == [req[r] EXCEPT !.ids = members, !.alive = Live]
     IN  Becomes(r, IF members = {} THEN AfterSweep(q) ELSE At(q, "sweepDelete"))
  /\ UNCHANGED <<disabled, credential, records, members, chosen, missed>>

\* Faulty variant: only the index is deleted.
SweptIndexOnly(ids) == records

Swept(ids) == [t \in Tokens |-> IF t \in ids /\ records[t] # "unborn" THEN "gone" ELSE records[t]]

\* MULTI: DEL of every id SMEMBERS returned, DEL of the index as it is now.
SweepDelete(r) ==
  /\ Sweeping(r)
  /\ records' = Swept(req[r].ids)
  /\ members' = {}
  /\ Becomes(r, AfterSweep([req[r] EXCEPT !.ids = {}]))
  /\ UNCHANGED <<disabled, credential, chosen, missed>>

-----------------------------------------------------------------------------
(* POST /auth/refresh                                                      *)

\* Faulty variant: the record is read but not marked used.
ConsumedUnmarked(state) == state

Consumed(state) == IF state = "fresh" THEN "used" ELSE state

\* CONSUME_REFRESH_LUA.  A JWT past its expiry is refused before the store is
\* asked; its record lives 60 s longer, so Expire stands for both and such a
\* request finds no record here.
RefreshConsume(r, t) ==
  /\ req[r].pc = "idle"
  /\ records[t] # "unborn"
  /\ records' = [records EXCEPT ![t] = Consumed(@)]
  /\ LET q == [Started(r, "refresh", t, NULL) EXCEPT !.late = disabled]
     IN  \/ /\ records[t] = "gone"
            /\ Becomes(r, [Answered(q, "revoked") EXCEPT !.outcome = "missing"])
         \/ /\ records[t] = "used"
            /\ Becomes(r, [q EXCEPT !.outcome = "replay", !.pc = "sweep"])
         \/ /\ records[t] = "fresh"
            /\ Becomes(r, [q EXCEPT !.outcome = "ok", !.pc = "account"])
  /\ UNCHANGED <<disabled, credential, members, chosen, missed>>

\* Faulty variant: the account is not looked at again.
RefreshUnchecked(r) ==
  /\ req[r].pc = "account"
  /\ Becomes(r, At(req[r], "issue"))
  /\ UNCHANGED <<disabled, credential, records, members, chosen, missed>>

RefreshAccount(r) ==
  /\ req[r].pc = "account"
  /\ Becomes(r, At(req[r], IF disabled THEN "sweep" ELSE "issue"))
  /\ UNCHANGED <<disabled, credential, records, members, chosen, missed>>

-----------------------------------------------------------------------------
(* POST /auth/logout and /auth/logout-all                                  *)

\* revokeOne: HGETALL, then MULTI.  The route answers 204 when there is nothing to
\* revoke and when either command fails.
LogoutRead(r, t) ==
  /\ req[r].pc = "idle"
  /\ records[t] # "unborn"
  /\ LET q == Started(r, "logout", t, NULL)
     IN  \/ t \in Live /\ Becomes(r, At(q, "logoutDelete"))
         \/ Becomes(r, Answered(q, "ok"))
  /\ UNCHANGED <<disabled, credential, records, members, chosen, missed>>

LogoutDelete(r) ==
  /\ req[r].pc = "logoutDelete"
  /\ records' = [records EXCEPT ![req[r].token] = "gone"]
  /\ members' = members \ {req[r].token}
  /\ Becomes(r, Answered(req[r], "ok"))
  /\ UNCHANGED <<disabled, credential, chosen, missed>>

LogoutFails(r) ==
  /\ req[r].pc = "logoutDelete"
  /\ Becomes(r, Answered(req[r], "ok"))
  /\ UNCHANGED <<disabled, credential, records, members, chosen, missed>>

LogoutAll(r) ==
  /\ req[r].pc = "idle"
  /\ Becomes(r, At(Started(r, "logoutAll", NULL, NULL), "sweep"))
  /\ UNCHANGED <<disabled, credential, records, members, chosen, missed>>

-----------------------------------------------------------------------------
(* changePassword, setPassword                                             *)

\* Only the credential is read: an access token is enough, even of a disabled
\* account.
ChangeRead(r, current, new) ==
  /\ req[r].pc = "idle"
  /\ LET q == Started(r, "change", NULL, new)
     IN  \/ /\ credential = NULL
            /\ Becomes(r, Answered(q, "conflict"))
         \/ /\ credential # NULL
            /\ credential.pw # current
            /\ Becomes(r, Answered(q, "denied"))
         \/ /\ credential # NULL
            /\ credential.pw = current
            /\ Becomes(r, At(q, "changeWrite"))
  /\ UNCHANGED <<disabled, credential, records, members, chosen, missed>>

ChangeWrite(r) ==
  /\ req[r].pc = "changeWrite"
  /\ credential' = [pw |-> req[r].pw, old |-> FALSE]
  /\ chosen' = req[r].pw
  /\ Becomes(r, At(req[r], "sweep"))
  /\ UNCHANGED <<disabled, records, members, missed>>

SetRead(r, new) ==
  /\ req[r].pc = "idle"
  /\ LET q == Started(r, "set", NULL, new)
     IN  Becomes(r, IF credential # NULL THEN Answered(q, "conflict")
                                         ELSE At(q, "setWrite"))
  /\ UNCHANGED <<disabled, credential, records, members, chosen, missed>>

\* Faulty variant: the row is upserted.
SetUpserts(r) ==
  /\ req[r].pc = "setWrite"
  /\ credential' = [pw |-> req[r].pw, old |-> FALSE]
  /\ chosen' = req[r].pw
  /\ Becomes(r, Answered(req[r], "ok"))
  /\ UNCHANGED <<disabled, records, members, missed>>

\* create: accountId is unique, so a row that appeared meanwhile is a P2002.
SetWrite(r) ==
  /\ req[r].pc = "setWrite"
  /\ \/ /\ credential = NULL
        /\ credential' = [pw |-> req[r].pw, old |-> FALSE]
        /\ chosen' = req[r].pw
        /\ Becomes(r, Answered(req[r], "ok"))
     \/ /\ credential # NULL
        /\ Becomes(r, Answered(req[r], "conflict"))
        /\ UNCHANGED <<credential, chosen>>
  /\ UNCHANGED <<disabled, records, members, missed>>

-----------------------------------------------------------------------------
(* POST /auth/me/archive and DELETE /auth/me                               *)

DisableRead(r) ==
  /\ req[r].pc = "idle"
  /\ LET q == Started(r, "disable", NULL, NULL)
     IN  Becomes(r, IF disabled THEN Answered(q, "disabled")
                                ELSE At(q, "disableWrite"))
  /\ UNCHANGED <<disabled, credential, records, members, chosen, missed>>

DisableWrite(r) ==
  /\ req[r].pc = "disableWrite"
  /\ disabled' = TRUE
  /\ Becomes(r, At(req[r], "sweep"))
  /\ UNCHANGED <<credential, records, members, chosen, missed>>

-----------------------------------------------------------------------------
(* The environment                                                         *)

\* A token's JWT and record reach the end of their life.
Expire(t) ==
  /\ t \in Live
  /\ records' = [records EXCEPT ![t] = "gone"]
  /\ UNCHANGED <<disabled, credential, members, req, chosen, missed>>

\* The index's TTL is renewed by every store, so it outlives every record.
ExpireIndex ==
  /\ members # {} /\ Live = {}
  /\ members' = {}
  /\ UNCHANGED <<disabled, credential, records, req, chosen, missed>>

\* Redis or the database fails under r, or its process dies: what it wrote
\* stays and the rest of the handler does not run.
Lose(r) ==
  /\ req[r].pc \notin {"idle", "done", "lost"}
  /\ Becomes(r, At(req[r], "lost"))
  /\ UNCHANGED <<disabled, credential, records, members, chosen, missed>>

-----------------------------------------------------------------------------
Login(r) ==
  \/ \E pw \in Passwords : LoginRead(r, pw)
  \/ LoginRehash(r)
  \/ GoogleLogin(r)
  \/ \E t \in Tokens : IssueBundle(r, t)

Refresh(r) == (\E t \in Tokens : RefreshConsume(r, t)) \/ RefreshAccount(r)

Sweep(r) == SweepRead(r) \/ SweepDelete(r)

Logout(r) ==
  (\E t \in Tokens : LogoutRead(r, t)) \/ LogoutDelete(r) \/ LogoutFails(r) \/ LogoutAll(r)

Password(r) ==
  \/ \E current, new \in Passwords : ChangeRead(r, current, new)
  \/ ChangeWrite(r)
  \/ \E new \in Passwords : SetRead(r, new)
  \/ SetWrite(r)

Disable(r) == DisableRead(r) \/ DisableWrite(r)

Next ==
  \/ \E r \in Requests : \/ Login(r) \/ Refresh(r) \/ Sweep(r) \/ Logout(r)
                         \/ Password(r) \/ Disable(r) \/ Lose(r)
  \/ \E t \in Tokens : Expire(t)
  \/ ExpireIndex

Spec == Init /\ [][Next]_vars

-----------------------------------------------------------------------------
(* Properties                                                              *)

\* Rotation: however many refreshes race with one token, the store lets at most
\* one of them pass (CONSUME_REFRESH_LUA's check-and-mark), and a token that
\* passed one is never fresh again.
RedeemedOnce ==
  \A r1, r2 \in Requests :
    /\ req[r1].outcome = "ok" => records[req[r1].token] \in {"used", "gone"}
    /\ req[r1].outcome = "ok" /\ req[r2].outcome = "ok" /\ req[r1].token = req[r2].token =>
         r1 = r2

\* The index knows every live token, so that the next revokeAll finds it; the
\* only way a token escapes is to be stored between another sweep's SMEMBERS
\* and DEL.
LiveIndexedOrMissed == Live \subseteq members \cup missed

\* When a logout-all, a replay or an archive has answered, none of the tokens
\* that were live when it read the index works any more, whatever was minted,
\* rotated or revoked meanwhile; missed tokens are the only exception.
SweepsKill ==
  \A r \in Requests :
    req[r].answer \in {"ok", "replay"} => req[r].alive \cap Live \subseteq missed

\* The catch-net of spec 007 10.9: a refresh that consumes its token after the
\* account was archived or deleted never answers with a new bundle, even if the
\* token was minted after the archive's sweep.
DisabledNeverRefreshed ==
  \A r \in Requests : req[r].kind = "refresh" /\ req[r].late => req[r].answer # "ok"

\* set-password gives an account its first password and never replaces one: of
\* any number of racing requests at most one succeeds.
FirstPasswordOnce ==
  Cardinality({r \in Requests : req[r].kind = "set" /\ req[r].answer = "ok"}) <= 1


-----------------------------------------------------------------------------
(* The inductive invariant behind the properties: what each request relies *)
(* on while it is served, and what the store guarantees to all of them.    *)

\* Which requests reach each point, and with which fields filled in.
PointInv(q) ==
  /\ q.pc = "idle" => q = IdleRequest
  /\ q.pc = "rehash" => q.kind = "login" /\ q.pw \in Passwords
  /\ q.pc = "issue" => q.kind \in {"login", "google", "refresh", "change"}
  /\ q.pc = "account" => q.kind = "refresh"
  /\ q.pc \in {"sweep", "sweepDelete"} =>
       q.kind \in {"refresh", "logoutAll", "change", "disable"}
  /\ q.pc = "changeWrite" => q.kind = "change" /\ q.pw \in Passwords
  /\ q.pc = "setWrite" => q.kind = "set" /\ q.pw \in Passwords
  /\ q.pc = "disableWrite" => q.kind = "disable"
  /\ q.pc = "logoutDelete" => q.kind = "logout" /\ q.token \in Tokens
  /\ q.answer # "none" => q.pc = "done"

FirstPassword(q) == q.kind = "set" /\ q.answer = "ok"

\* How a request's past relates to the store as it is now.
PastInv(q) ==
  /\ q.outcome = "ok" => q.token \in Tokens /\ records[q.token] \in {"used", "gone"}
  /\ \A t \in q.alive : records[t] # "unborn"
  /\ q.pc = "sweepDelete" => Live \cup q.alive \subseteq q.ids \cup missed
  /\ q.pc \notin {"sweepDelete", "lost"} => q.alive \cap Live \subseteq missed
  /\ q.kind = "refresh" /\ q.late => disabled /\ q.pc # "issue" /\ q.answer # "ok"
  /\ FirstPassword(q) => credential # NULL

OneEach(q1, q2) ==
  /\ ~(q1.outcome = "ok" /\ q2.outcome = "ok" /\ q1.token = q2.token)
  /\ ~(FirstPassword(q1) /\ FirstPassword(q2))

Inv ==
  /\ TypeOK
  /\ \A r \in Requests : PointInv(req[r]) /\ PastInv(req[r])
  /\ \A r, s \in Requests : r # s => OneEach(req[r], req[s])
  /\ LiveIndexedOrMissed

-----------------------------------------------------------------------------
(* What tests, comments and specs of the repository claim and the code     *)
(* does not do; each is the property of a run that expects a violation.    *)

\* "revokes every refresh token for the account": no token that was live when
\* the sweep read the index works after the answer.
SweepsKillAll ==
  \A r \in Requests :
    req[r].answer \in {"ok", "replay"} => req[r].alive \cap Live = {}

\* The rehash at login is silent and transparent: the stored hash always
\* verifies the password the user chose last.
PasswordAsChosen == credential # NULL => credential.pw = chosen

=============================================================================
