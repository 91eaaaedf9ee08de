------------------------------ MODULE Accounts ------------------------------
(***************************************************************************)
(* Accounts and how people get into them: registration, login by password  *)
(* with the failure counter in Redis (lib/auth/service.ts, login-lock.ts), *)
(* login and link by Google with its one-shot OAuth session (lib/          *)
(* auth-google), self-service changes (routes/auth/me.ts), and the         *)
(* sessions a password change must end.                                    *)
(*                                                                         *)
(* A step is one database or Redis call with the synchronous code after    *)
(* it.  Unlike RefreshSessions there are several accounts here, and a      *)
(* session is a name only: the token store's records and tombstones are    *)
(* that module's subject, and so is the silent rehash at login (here every *)
(* hash has the current parameters).  lastLoginAt, lastLoginType and role  *)
(* are left out: no handler decides anything by the first two, and no      *)
(* endpoint changes the third.                                             *)
(***************************************************************************)
EXTENDS Naturals, FiniteSets, GoogleToken

CONSTANTS
  Requests,   \* HTTP requests, each served once
  AccountIds,
  Usernames,  \* normalised usernames; without "@", so never an e-mail
  Emails,     \* normalised e-mail addresses
  Subs,       \* Google identities ("sub" claims)
  Passwords,
  Sids,       \* ids of OAuth sessions, random and never minted twice
  Threshold,  \* LoginLockOpts.threshold
  EmailOf,    \* the verified e-mail of each Google identity
  Registered, \* accounts registered before the model starts
  Opened,     \* OAuth sessions opened for a login before it starts
  Serves,     \* the kinds each request may be: a bound for model checking
  NULL

ASSUME AccountsAssumption ==
  /\ IsFiniteSet(Requests)
  /\ Serves \in [Requests -> SUBSET {"register", "login", "init", "exchange", "patch",
                                    "disable", "change", "refresh"}]
  /\ Registered \subseteq AccountIds /\ Opened \subseteq Sids
  /\ Threshold \in Nat \ {0}
  /\ EmailOf \in [Subs -> Emails]
  /\ Usernames \cap Emails = {}

VARIABLES
  row,       \* table accounts with its password and Google credential rows
  failures,  \* auth:login_lock:<hash> of each identifier, 0 when absent
  oauth,     \* auth:oauth:<sid>
  session,   \* refresh tokens by the request that minted them
  req,       \* one record per request, see Request
  failed,    \* history: wrong passwords answered since the counter was cleared
  blind,     \* history: accounts patched over identifiers the patch never read
  torn       \* history: accounts with a password change that died unswept

vars == <<row, failures, oauth, session, req, failed, blind, torn>>

Identifiers == Usernames \cup Emails

Optional(S) == S \cup {NULL}

Row == [username : Optional(Usernames), email : Optional(Emails),
        disabled : BOOLEAN, password : Optional(Passwords), google : Optional(Subs)]

OAuthSession == [intent : {"unminted", "login", "link", "gone"}, owner : Optional(AccountIds)]

Without(intent) == [intent |-> intent, owner |-> NULL]

\* pw: the password the session was opened with, or NULL for Google; raced:
\* history, its request was in flight during a sweep of the account.
Session == [account : AccountIds, pw : Optional(Passwords), raced : BOOLEAN]

Kinds == {"none", "register", "login", "init", "exchange", "patch", "disable",
          "change", "refresh"}

PCs == {"idle", "find", "fail", "reset", "issue", "upstream", "sub", "email",
        "create", "live", "has", "link", "patchRead", "patchWrite", "disableWrite",
        "changeWrite", "sweep", "sweepDelete", "account", "done", "lost"}

Answers == {"none", "ok", "denied", "locked", "disabled", "required", "taken",
            "invalid", "mismatch", "upstream", "conflict", "revoked"}

\* A PATCH /me body: "keep" is an absent field, NULL clears it.
Patch == [username : Optional(Usernames) \cup {"keep"}, email : Optional(Emails) \cup {"keep"}]

(* account: the account served, once known; ident: the identifier typed;   *)
(* pw: the password typed, then the one the new session is opened with;    *)
(* sid: the OAuth session consumed; sub: the verified Google identity;     *)
(* before: the identifiers PATCH read; ids: what SMEMBERS returned.        *)
(* History: dead, the accounts disabled when the request came in; barred,  *)
(* its identifier had reached the threshold by then; raced, see Session.   *)
Request == [pc : PCs, kind : Kinds, answer : Answers, account : Optional(AccountIds),
            ident : Optional(Identifiers), pw : Optional(Passwords),
            sid : Optional(Sids), intent : {"login", "link"}, sub : Optional(Subs),
            patch : Optional(Patch), before : SUBSET Identifiers, ids : SUBSET Requests,
            dead : SUBSET AccountIds, barred : BOOLEAN, raced : BOOLEAN]

Idle == [pc |-> "idle", kind |-> "none", answer |-> "none", account |-> NULL,
         ident |-> NULL, pw |-> NULL, sid |-> NULL, intent |-> "login", sub |-> NULL,
         patch |-> NULL, before |-> {}, ids |-> {}, dead |-> {}, barred |-> FALSE,
         raced |-> FALSE]

\* A missing row, session, field or name is none of those there are.
ASSUME NullAssumption ==
  /\ NULL \notin AccountIds \cup Usernames \cup Emails \cup Subs \cup Passwords \cup Sids
  /\ NULL \notin Row /\ NULL \notin Session /\ NULL \notin Patch

TypeOK ==
  /\ row \in [AccountIds -> Optional(Row)]
  /\ failures \in [Identifiers -> Nat]
  /\ oauth \in [Sids -> OAuthSession]
  /\ session \in [Requests -> Optional(Session)]
  /\ req \in [Requests -> Request]
  /\ failed \in [Identifiers -> Nat]
  /\ blind \subseteq AccountIds /\ torn \subseteq AccountIds

Born == {a \in AccountIds : row[a] # NULL}

Names(a) == {row[a].username, row[a].email} \ {NULL}

\* @unique of accounts.username, accounts.email and googleCredential.externalId.
Unique(rows) ==
  \A a, b \in {x \in AccountIds : rows[x] # NULL} : a # b =>
    /\ rows[a].username = rows[b].username => rows[a].username = NULL
    /\ rows[a].email = rows[b].email => rows[a].email = NULL
    /\ rows[a].google = rows[b].google => rows[a].google = NULL

\* Accounts registered and OAuth sessions opened before the model starts.
Init ==
  /\ row \in [AccountIds -> Optional({x \in Row : /\ {x.username, x.email} # {NULL}
                                                 /\ {x.password, x.google} # {NULL}
                                                 /\ ~x.disabled})]
  /\ Born = Registered
  /\ Unique(row)
  /\ failures = [i \in Identifiers |-> 0]
  /\ oauth = [sid \in Sids |-> Without(IF sid \in Opened THEN "login" ELSE "unminted")]
  /\ session = [r \in Requests |-> NULL]
  /\ req = [r \in Requests |-> Idle]
  /\ failed = failures
  /\ blind = {} /\ torn = {}

-----------------------------------------------------------------------------
(* Helpers                                                                 *)

Open(r, kind) == req[r].pc = "idle" /\ kind \in Serves[r]

Becomes(r, q) == req' = [req EXCEPT ![r] = q]

At(q, pc) == [q EXCEPT !.pc = pc]

\* What a request needed only while it was served is forgotten.
Closed(q, pc) ==
  [q EXCEPT !.pc = pc, !.ident = NULL, !.pw = NULL, !.patch = NULL, !.before = {},
            !.ids = {}, !.raced = FALSE, !.dead = @ \cap {q.account}]

\* Nor does it matter whom a request that got nothing was for.
Unserved(q, pc) ==
  [Closed(q, pc) EXCEPT !.account = NULL, !.sub = NULL, !.intent = "login", !.dead = {}]

Lost(q) == [Unserved(q, "lost") EXCEPT !.barred = FALSE]

Answered(q, answer) ==
  [IF answer = "ok" THEN Closed(q, "done") ELSE Unserved(q, "done") EXCEPT !.answer = answer]

Started(r, kind, a) ==
  [req[r] EXCEPT !.kind = kind, !.account = a,
                 !.dead = {b \in Born : row[b].disabled}]

\* One INSERT or UPDATE of account a; not enabled when it would break a
\* unique constraint (P2002, see Refused).
WriteRow(a, new) ==
  /\ Unique([row EXCEPT ![a] = new])
  /\ row' = [row EXCEPT ![a] = new]

Refused(a, new) == ~Unique([row EXCEPT ![a] = new]) /\ UNCHANGED row

Fresh(username, email, pw, sub) ==
  [username |-> username, email |-> email, disabled |-> FALSE, password |-> pw, google |-> sub]

-----------------------------------------------------------------------------
(* issueBundle: sign the tokens and store the refresh token.               *)

IssueBundle(r) ==
  /\ req[r].pc = "issue"
  /\ session' = [session EXCEPT ![r] =
                   [account |-> req[r].account, pw |-> req[r].pw, raced |-> req[r].raced]]
  /\ Becomes(r, Answered(req[r], "ok"))
  /\ UNCHANGED <<row, failures, oauth, failed, blind, torn>>

-----------------------------------------------------------------------------
(* registerAccount: account and credential in one nested create            *)

Register(r, username, email, pw) ==
  /\ Open(r, "register")
  /\ \/ /\ username = NULL /\ email = NULL
        /\ Becomes(r, Answered(Started(r, "register", NULL), "required"))
        /\ UNCHANGED row
     \/ \E a \in AccountIds \ Born :
          LET q   == [Started(r, "register", a) EXCEPT !.pw = pw]
              new == Fresh(username, email, pw, NULL)
          IN  /\ {username, email} # {NULL}
              /\ \/ WriteRow(a, new) /\ Becomes(r, At(q, "issue"))
                 \/ Refused(a, new) /\ Becomes(r, Answered(q, "taken"))
  /\ UNCHANGED <<failures, oauth, session, failed, blind, torn>>

-----------------------------------------------------------------------------
(* loginWithPassword                                                       *)

\* Faulty variant: the threshold itself does not lock.
IsLockedAbove(count) == count > Threshold

IsLocked(count) == count >= Threshold

\* getCount; the identifier is blocked before the account is looked up.
LoginCount(r, ident, pw) ==
  /\ Open(r, "login")
  /\ LET q == [Started(r, "login", NULL) EXCEPT
                     !.ident = ident, !.pw = pw, !.barred = failed[ident] >= Threshold]
     IN  Becomes(r, IF IsLocked(failures[ident]) THEN Answered(q, "locked")
                                                 ELSE At(q, "find"))
  /\ UNCHANGED <<row, failures, oauth, session, failed, blind, torn>>

\* One read of the account and its credential, trusted to the end.  An unknown
\* identifier and an account without a password count no failure.
LoginFind(r) ==
  /\ req[r].pc = "find"
  /\ LET owner == {a \in Born : req[r].ident \in Names(a) /\ row[a].password # NULL}
     IN  \/ /\ owner = {}
            /\ Becomes(r, Answered(req[r], "denied"))
         \/ \E a \in owner :
              LET q == [req[r] EXCEPT !.account = a]
              IN  Becomes(r, IF row[a].disabled THEN Answered(q, "disabled")
                             ELSE IF row[a].password # q.pw THEN At(q, "fail")
                             ELSE At(q, "reset"))
  /\ UNCHANGED <<row, failures, oauth, session, failed, blind, torn>>

\* recordFailure: MULTI of INCR and EXPIRE, then the answer.
LoginFail(r) ==
  /\ req[r].pc = "fail"
  /\ LET i == req[r].ident
     IN  /\ failures' = [failures EXCEPT ![i] = @ + 1]
         /\ failed' = [failed EXCEPT ![i] = @ + 1]
         /\ Becomes(r, Answered(req[r], IF IsLocked(failures'[i]) THEN "locked" ELSE "denied"))
  /\ UNCHANGED <<row, oauth, session, blind, torn>>

\* lastLoginAt is stamped and the counter deleted.
LoginReset(r) ==
  /\ req[r].pc = "reset"
  /\ failures' = [failures EXCEPT ![req[r].ident] = 0]
  /\ failed' = [failed EXCEPT ![req[r].ident] = 0]
  /\ Becomes(r, At(req[r], "issue"))
  /\ UNCHANGED <<row, oauth, session, blind, torn>>

\* The counter's window runs out.
LockExpires(i) ==
  /\ failures[i] > 0
  /\ failures' = [failures EXCEPT ![i] = 0]
  /\ failed' = [failed EXCEPT ![i] = 0]
  /\ UNCHANGED <<row, oauth, session, req, blind, torn>>

-----------------------------------------------------------------------------
(* Google: authorize-init and exchange                                     *)

\* The link intent needs an access token, even of a disabled account.
AuthorizeInit(r, sid, intent, a) ==
  /\ Open(r, "init")
  /\ oauth[sid].intent = "unminted"
  /\ intent = "link" <=> a # NULL
  /\ oauth' = [oauth EXCEPT ![sid] = [intent |-> intent, owner |-> a]]
  /\ Becomes(r, Answered(Started(r, "init", a), "ok"))
  /\ UNCHANGED <<row, failures, session, failed, blind, torn>>

\* Faulty variant: HGETALL without the DEL.
ReadOnly(state) == state

Consumed(state) == Without("gone")

\* consumeAndDelete in one MULTI: even a call refused for its state or its
\* caller has used the session up.
ExchangeConsume(r, sid, goodState, caller) ==
  /\ Open(r, "exchange")
  /\ oauth[sid].intent # "unminted"
  /\ oauth' = [oauth EXCEPT ![sid] = Consumed(@)]
  /\ LET q == Started(r, "exchange", caller)
         s == oauth[sid]
         p == [q EXCEPT !.sid = sid, !.intent = IF s.intent = "link" THEN "link" ELSE "login"]
     IN  \/ /\ s.intent = "gone"
            /\ Becomes(r, Answered(q, "invalid"))
         \/ /\ s.intent # "gone"
            /\ ~goodState \/ (s.intent = "link" /\ s.owner # caller)
            /\ Becomes(r, Answered(p, "mismatch"))
         \/ /\ s.intent # "gone"
            /\ goodState /\ (s.intent = "link" => s.owner = caller)
            /\ Becomes(r, At(p, "upstream"))
  /\ UNCHANGED <<row, failures, session, failed, blind, torn>>

\* The 600 s of an OAuth session run out.
OAuthExpires(sid) ==
  /\ oauth[sid].intent \in {"login", "link"}
  /\ oauth' = [oauth EXCEPT ![sid] = Without("gone")]
  /\ UNCHANGED <<row, failures, session, req, failed, blind, torn>>

\* POST /token, discovery and the ID token's checks: Google answers with a
\* verified identity, with one the checks refuse (denied), or not at all.
ExchangeUpstream(r) ==
  /\ req[r].pc = "upstream"
  /\ \/ \E answer \in {"denied", "upstream"} : Becomes(r, Answered(req[r], answer))
     \/ \E sub \in Subs : Becomes(r, At([req[r] EXCEPT !.sub = sub], "sub"))
  /\ UNCHANGED <<row, failures, oauth, session, failed, blind, torn>>

Holders(sub) == {a \in Born : row[a].google = sub}

\* findAccountByGoogleSub, for both intents.
ResolveSub(r) ==
  /\ req[r].pc = "sub"
  /\ LET q == req[r]
         linked == Holders(q.sub)
     IN  \/ /\ q.intent = "login" /\ linked = {}
            /\ Becomes(r, At(q, "email"))
         \/ /\ q.intent = "login"
            /\ \E a \in linked : Becomes(r, At([q EXCEPT !.account = a], "live"))
         \/ /\ q.intent = "link"
            /\ Becomes(r, IF linked \subseteq {q.account} THEN At(q, "has")
                                                          ELSE Answered(q, "conflict"))
  /\ UNCHANGED <<row, failures, oauth, session, failed, blind, torn>>

\* Faulty variant: the owner of the e-mail is signed in.
ResolveEmailTrusting(r) ==
  /\ req[r].pc = "email"
  /\ LET q == req[r]
         owner == {a \in Born : row[a].email = EmailOf[q.sub]}
     IN  \/ owner = {} /\ Becomes(r, At(q, "create"))
         \/ \E a \in owner : Becomes(r, At([q EXCEPT !.account = a], "live"))
  /\ UNCHANGED <<row, failures, oauth, session, failed, blind, torn>>

\* findAccountByEmail: an owner is never linked on the strength of its e-mail.
ResolveEmail(r) ==
  /\ req[r].pc = "email"
  /\ LET q == req[r]
     IN  Becomes(r, IF \E a \in Born : row[a].email = EmailOf[q.sub]
                    THEN Answered(q, "conflict") ELSE At(q, "create"))
  /\ UNCHANGED <<row, failures, oauth, session, failed, blind, torn>>

\* Account and Google credential in one nested create.
GoogleCreate(r) ==
  /\ req[r].pc = "create"
  /\ \E a \in AccountIds \ Born :
       LET q   == [req[r] EXCEPT !.account = a]
           new == Fresh(NULL, EmailOf[q.sub], NULL, q.sub)
       IN  \/ WriteRow(a, new) /\ Becomes(r, At(q, "issue"))
           \/ Refused(a, new) /\ Becomes(r, Answered(q, "conflict"))
  /\ UNCHANGED <<failures, oauth, session, failed, blind, torn>>

\* Faulty variant: the account's lifecycle is not looked at.
GoogleLiveUnchecked(r) ==
  /\ req[r].pc = "live"
  /\ Becomes(r, At(req[r], "issue"))
  /\ UNCHANGED <<row, failures, oauth, session, failed, blind, torn>>

\* The linked account is read again for its lifecycle, then stamped.
GoogleLive(r) ==
  /\ req[r].pc = "live"
  /\ Becomes(r, IF row[req[r].account].disabled THEN Answered(req[r], "disabled")
                                                ELSE At(req[r], "issue"))
  /\ UNCHANGED <<row, failures, oauth, session, failed, blind, torn>>

\* accountHasGoogleCredential
LinkHas(r) ==
  /\ req[r].pc = "has"
  /\ Becomes(r, IF row[req[r].account].google # NULL THEN Answered(req[r], "conflict")
                                                     ELSE At(req[r], "link"))
  /\ UNCHANGED <<row, failures, oauth, session, failed, blind, torn>>

\* googleCredential.create: accountId and externalId are both unique.
LinkCreate(r) ==
  /\ req[r].pc = "link"
  /\ LET a   == req[r].account
         new == [row[a] EXCEPT !.google = req[r].sub]
     IN  \/ /\ row[a].google = NULL
            /\ WriteRow(a, new)
            /\ Becomes(r, Answered(req[r], "ok"))
         \/ /\ row[a].google = NULL
            /\ Refused(a, new)
            /\ Becomes(r, Answered(req[r], "conflict"))
         \/ /\ row[a].google # NULL
            /\ Becomes(r, Answered(req[r], "conflict"))
            /\ UNCHANGED row
  /\ UNCHANGED <<failures, oauth, session, failed, blind, torn>>

-----------------------------------------------------------------------------
(* PATCH /auth/me                                                          *)

\* Faulty variant: absent fields are written too.
PatchedWhole(x, p) == [x EXCEPT !.username = p.username, !.email = p.email]

Patched(x, p) ==
  [x EXCEPT !.username = IF p.username = "keep" THEN @ ELSE p.username,
            !.email    = IF p.email = "keep" THEN @ ELSE p.email]

NoOp == [username |-> "keep", email |-> "keep"]

\* requireLiveAccountId; a body without fields only reads the profile.
PatchLive(r, a, p) ==
  /\ Open(r, "patch")
  /\ LET q == [Started(r, "patch", a) EXCEPT !.patch = p]
     IN  Becomes(r, IF row[a].disabled THEN Answered(q, "disabled")
                    ELSE IF p = NoOp THEN Answered(q, "ok")
                    ELSE At(q, "patchRead"))
  /\ UNCHANGED <<row, failures, oauth, session, failed, blind, torn>>

\* Faulty variant: only the body is looked at, not what the row would become.
PatchReadBodyOnly(r) ==
  /\ req[r].pc = "patchRead"
  /\ LET q == [req[r] EXCEPT !.before = Names(req[r].account)]
     IN  Becomes(r, IF q.patch.username = NULL /\ q.patch.email = NULL
                    THEN Answered(q, "required") ELSE At(q, "patchWrite"))
  /\ UNCHANGED <<row, failures, oauth, session, failed, blind, torn>>

\* The effective identifiers: the body's over the ones read now.
PatchRead(r) ==
  /\ req[r].pc = "patchRead"
  /\ LET a == req[r].account
         q == [req[r] EXCEPT !.before = Names(a)]
         effective == Patched(row[a], q.patch)
     IN  Becomes(r, IF effective.username = NULL /\ effective.email = NULL
                    THEN Answered(q, "required") ELSE At(q, "patchWrite"))
  /\ UNCHANGED <<row, failures, oauth, session, failed, blind, torn>>

PatchWrite(r) ==
  /\ req[r].pc = "patchWrite"
  /\ LET a   == req[r].account
         new == Patched(row[a], req[r].patch)
     IN  \/ /\ WriteRow(a, new)
            /\ blind' = IF Names(a) # req[r].before THEN blind \cup {a} ELSE blind
            /\ Becomes(r, Answered(req[r], "ok"))
         \/ /\ Refused(a, new)
            /\ Becomes(r, Answered(req[r], "taken"))
            /\ UNCHANGED blind
  /\ UNCHANGED <<failures, oauth, session, failed, torn>>

-----------------------------------------------------------------------------
(* revokeAll: SMEMBERS, then MULTI of DELs                                 *)

SessionsOf(a) == {s \in Requests : session[s] # NULL /\ session[s].account = a}

\* Requests that have proved who they are and not yet stored their session.
InFlight(a) ==
  {r \in Requests : /\ req[r].account = a
                    /\ \/ req[r].pc \in {"reset", "live", "account", "issue"}
                       \/ req[r].kind = "change" /\ req[r].pc \notin {"done", "lost"}}

Raced(q, r, a) == IF r \in InFlight(a) THEN [q EXCEPT !.raced = TRUE] ELSE q

SweepRead(r) ==
  /\ req[r].pc = "sweep"
  /\ LET a == req[r].account
     IN  req' = [s \in Requests |->
                   IF s = r THEN At([req[r] EXCEPT !.ids = SessionsOf(a)], "sweepDelete")
                            ELSE Raced(req[s], s, a)]
  /\ UNCHANGED <<row, failures, oauth, session, failed, blind, torn>>

\* Sessions stored since the SMEMBERS survive.
SweepDelete(r) ==
  /\ req[r].pc = "sweepDelete"
  /\ LET a == req[r].account
         q == [req[r] EXCEPT !.ids = {}]
     IN  /\ session' = [s \in Requests |->
                          IF s \in req[r].ids THEN NULL
                          ELSE IF s \in SessionsOf(a) THEN [session[s] EXCEPT !.raced = TRUE]
                          ELSE session[s]]
         /\ req' = [s \in Requests |->
                      IF s = r THEN IF q.kind = "change" THEN At(q, "issue")
                                    ELSE Answered(q, IF q.kind = "refresh" THEN "disabled"
                                                                           ELSE "ok")
                      ELSE Raced(req[s], s, a)]
  /\ UNCHANGED <<row, failures, oauth, failed, blind, torn>>

-----------------------------------------------------------------------------
(* POST /auth/password/change, archive and delete of oneself, refresh      *)

ChangeRead(r, a, current, new) ==
  /\ Open(r, "change")
  /\ LET q == [Started(r, "change", a) EXCEPT !.pw = new]
     IN  Becomes(r, IF row[a].password = NULL THEN Answered(q, "conflict")
                    ELSE IF row[a].password # current THEN Answered(q, "denied")
                    ELSE At(q, "changeWrite"))
  /\ UNCHANGED <<row, failures, oauth, session, failed, blind, torn>>

\* Faulty variant: the sessions are not swept.
ChangeWriteUnswept(r) ==
  /\ req[r].pc = "changeWrite"
  /\ row' = [row EXCEPT ![req[r].account].password = req[r].pw]
  /\ Becomes(r, At(req[r], "issue"))
  /\ UNCHANGED <<failures, oauth, session, failed, blind, torn>>

ChangeWrite(r) ==
  /\ req[r].pc = "changeWrite"
  /\ row' = [row EXCEPT ![req[r].account].password = req[r].pw]
  /\ Becomes(r, At(req[r], "sweep"))
  /\ UNCHANGED <<failures, oauth, session, failed, blind, torn>>

DisableLive(r, a) ==
  /\ Open(r, "disable")
  /\ LET q == Started(r, "disable", a)
     IN  Becomes(r, IF row[a].disabled THEN Answered(q, "disabled") ELSE At(q, "disableWrite"))
  /\ UNCHANGED <<row, failures, oauth, session, failed, blind, torn>>

DisableWrite(r) ==
  /\ req[r].pc = "disableWrite"
  /\ row' = [row EXCEPT ![req[r].account].disabled = TRUE]
  /\ Becomes(r, At(req[r], "sweep"))
  /\ UNCHANGED <<failures, oauth, session, failed, blind, torn>>

\* consume of a fresh token; the next one inherits what it was opened with.
RefreshConsume(r, s) ==
  /\ Open(r, "refresh")
  /\ session[s] # NULL
  /\ Becomes(r, At([Started(r, "refresh", session[s].account) EXCEPT
                      !.pw = session[s].pw, !.raced = session[s].raced], "account"))
  /\ session' = [session EXCEPT ![s] = NULL]
  /\ UNCHANGED <<row, failures, oauth, failed, blind, torn>>

RefreshAccount(r) ==
  /\ req[r].pc = "account"
  /\ Becomes(r, At(req[r], IF row[req[r].account].disabled THEN "sweep" ELSE "issue"))
  /\ UNCHANGED <<row, failures, oauth, session, failed, blind, torn>>

\* A store fails under r, or its process dies: what it wrote stays.
Lose(r) ==
  /\ req[r].pc \notin {"idle", "done", "lost"}
  /\ Becomes(r, Lost(req[r]))
  /\ torn' = IF req[r].kind = "change" /\ req[r].pc \in {"sweep", "sweepDelete"}
             THEN torn \cup {req[r].account} ELSE torn
  /\ UNCHANGED <<row, failures, oauth, session, failed, blind>>

-----------------------------------------------------------------------------
Password(r) ==
  \/ \E u \in Optional(Usernames), e \in Optional(Emails), pw \in Passwords :
       Register(r, u, e, pw)
  \/ \E i \in Identifiers, pw \in Passwords : LoginCount(r, i, pw)
  \/ LoginFind(r) \/ LoginFail(r) \/ LoginReset(r) \/ IssueBundle(r)
  \/ \E a \in Born, current, new \in Passwords : ChangeRead(r, a, current, new)
  \/ ChangeWrite(r)

Google(r) ==
  \/ \E sid \in Sids, intent \in {"login", "link"}, a \in Optional(Born) :
       AuthorizeInit(r, sid, intent, a)
  \/ \E sid \in Sids, ok \in BOOLEAN, a \in Optional(Born) : ExchangeConsume(r, sid, ok, a)
  \/ ExchangeUpstream(r) \/ ResolveSub(r) \/ ResolveEmail(r) \/ GoogleCreate(r)
  \/ GoogleLive(r) \/ LinkHas(r) \/ LinkCreate(r)

Self(r) ==
  \/ \E a \in Born, p \in Patch : PatchLive(r, a, p)
  \/ PatchRead(r) \/ PatchWrite(r)
  \/ \E a \in Born : DisableLive(r, a)
  \/ DisableWrite(r)

Tokens(r) ==
  \/ \E s \in Requests : RefreshConsume(r, s)
  \/ RefreshAccount(r) \/ SweepRead(r) \/ SweepDelete(r)

Next ==
  \/ \E r \in Requests : Password(r) \/ Google(r) \/ Self(r) \/ Tokens(r) \/ Lose(r)
  \/ \E i \in Identifiers : LockExpires(i)
  \/ \E sid \in Sids : OAuthExpires(sid)

Spec == Init /\ [][Next]_vars

-----------------------------------------------------------------------------
(* Properties                                                              *)

\* The login lock counts across requests: a login that comes in after Threshold
\* wrong passwords for its identifier were answered, with the counter neither
\* reset nor expired since, is never looked at, however the failures overlapped.
LockHolds ==
  \A r \in Requests :
    req[r].kind = "login" /\ req[r].barred => req[r].answer = "locked"

\* Spec 007 10.1, an account keeps a username or an e-mail: it holds unless a
\* PATCH /me wrote over identifiers that changed after it had read them.
NamedUnlessBlind == \A a \in Born : Names(a) = {} => a \in blind

\* A Google identity opens one account only, whichever of registering, signing
\* in and linking raced: the account it was answered for is the one linked to it.
OneAccountPerSub ==
  \A r \in Requests :
    req[r].kind = "exchange" /\ req[r].answer = "ok" => Holders(req[r].sub) = {req[r].account}

\* An OAuth session takes at most one exchange past consumeAndDelete.
OAuthSessionOnce ==
  \A r, s \in Requests : req[r].sid = req[s].sid /\ req[r].sid # NULL => r = s

\* An account disabled before a login, a Google login, a refresh, a PATCH or an
\* archive came in: the request is not answered ok.
DisabledStaysOut ==
  \A r \in Requests :
    /\ req[r].kind \in {"login", "exchange", "refresh", "patch", "disable"}
    /\ req[r].intent = "login"
    /\ req[r].account \in req[r].dead
    => req[r].answer # "ok"

Changing(a) ==
  \E r \in Requests : /\ req[r].kind = "change" /\ req[r].account = a
                      /\ req[r].pc \in {"sweep", "sweepDelete"}

\* Spec 008 6.3, a password change logs out everywhere else: a session opened
\* with a password the account no longer has was in flight during a sweep, or
\* some change died before its sweep or has not finished it.
StaleSessionsRaced ==
  \A s \in Requests :
    session[s] # NULL /\ session[s].pw # NULL /\ session[s].pw # row[session[s].account].password
      => session[s].raced \/ session[s].account \in torn \/ Changing(session[s].account)

\* What an exchange makes of the answer it waits for is decided by the claims the
\* code looks at and by the key: the state keeps nothing of that answer, so every
\* token, key set and outage is tried.
TokenVerdicts == \A r \in Requests : req[r].pc = "upstream" => ClaimsAndKeyDecide

-----------------------------------------------------------------------------
(* The inductive invariant behind the properties above.                    *)

\* The patch of q leaves an identifier, over the ones it read.
LeavesName(q) ==
  \/ IF q.patch.username = "keep" THEN q.before \cap Usernames # {} ELSE q.patch.username # NULL
  \/ IF q.patch.email = "keep" THEN q.before \cap Emails # {} ELSE q.patch.email # NULL

\* The identity q signs in with is linked to the account it signs in to.
SignedIn(q) ==
  q.kind = "exchange" /\ (q.pc \in {"live", "issue"} \/ q.answer = "ok")

\* q found its account live, or has yet to look for it.
Admitted(q) ==
  /\ q.kind \in {"login", "exchange", "refresh", "patch", "disable"}
  /\ q.intent = "login"
  /\ \/ q.answer = "ok"
     \/ q.pc \in {"reset", "issue", "patchRead", "patchWrite", "disableWrite"}
     \/ q.kind = "disable" /\ q.pc \in {"sweep", "sweepDelete"}

ServesAccount == {"fail", "reset", "issue", "live", "has", "link", "patchRead", "patchWrite",
                  "disableWrite", "changeWrite", "sweep", "sweepDelete", "account"}

ServesGoogle == {"upstream", "sub", "email", "create", "live", "has", "link"}

\* What a request at each point of its handler knows of itself.
Placed(q) ==
  /\ q.pc = "idle" => q = Idle
  /\ q.answer # "none" => q.pc = "done"
  /\ q.kind = "login" /\ q.barred => q.answer = "locked"
  /\ q.pc \in ServesAccount => q.account # NULL
  /\ q.pc \in {"find", "fail", "reset"} => q.kind = "login" /\ q.ident # NULL
  /\ q.pc \in ServesGoogle => q.kind = "exchange" /\ q.pw = NULL
  /\ q.pc \in ServesGoogle \ {"upstream"} => q.sub # NULL
  /\ q.pc \in {"upstream", "sub"} /\ q.intent = "link" => q.account # NULL
  /\ q.pc \in {"email", "create", "live"} => q.intent = "login"
  /\ q.pc \in {"has", "link"} => q.intent = "link"
  /\ q.pc \in {"patchRead", "patchWrite"} => q.kind = "patch" /\ q.patch # NULL
  /\ q.pc = "patchWrite" => LeavesName(q)
  /\ q.pc = "disableWrite" => q.kind = "disable"
  /\ q.pc = "changeWrite" => q.kind = "change" /\ q.pw # NULL
  /\ q.pc = "account" => q.kind = "refresh"
  /\ q.pc = "issue" => q.kind \in {"register", "login", "exchange", "refresh", "change"}
  /\ q.pc \in {"sweep", "sweepDelete"} => q.kind \in {"disable", "refresh", "change"}
  /\ Admitted(q) => q.account \notin q.dead

\* What it knows of the tables, and no other request can take back.
Grounded(q, rows, sessions) ==
  /\ q.account # NULL => rows[q.account] # NULL
  /\ SignedIn(q) => q.account # NULL /\ q.sub # NULL /\ rows[q.account].google = q.sub
  /\ q.sid # NULL => sessions[q.sid].intent = "gone"
  /\ \A a \in q.dead : rows[a] # NULL /\ rows[a].disabled

\* The requests, the rows and the OAuth sessions.
IdentityInv ==
  /\ TypeOK
  /\ \A r \in Requests : Placed(req[r]) /\ Grounded(req[r], row, oauth)
  /\ Unique(row)
  /\ failed = failures
  /\ \A sid \in Sids : oauth[sid].intent = "link" => oauth[sid].owner # NULL
  /\ \A s \in Requests : session[s] # NULL => session[s].account \in Born
  /\ OAuthSessionOnce
  /\ NamedUnlessBlind

\* q has written a new password and not swept the sessions yet.
ChangesNow(q, a) == q.kind = "change" /\ q.account = a /\ q.pc \in {"sweep", "sweepDelete"}

\* q holds the password a session will be opened with.
HoldsPw(q) == q.pc \in {"reset", "issue", "account"} \/ ChangesNow(q, q.account)

Stale(a, pw) == pw # NULL /\ pw # row[a].password

\* A request with a stale password is caught by a sweep of another one, too.
StaleInv ==
  /\ StaleSessionsRaced
  /\ \A r \in Requests :
       HoldsPw(req[r]) /\ Stale(req[r].account, req[r].pw) =>
         \/ req[r].raced \/ req[r].account \in torn
         \/ \E r2 \in Requests \ {r} : ChangesNow(req[r2], req[r].account)

Inv == IdentityInv /\ StaleInv

=============================================================================
