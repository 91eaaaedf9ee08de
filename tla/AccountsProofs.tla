--------------------------- MODULE AccountsProofs ---------------------------
(***************************************************************************)
(* Theorems about Accounts, for every set of requests, accounts, names,    *)
(* Google identities and OAuth sessions that satisfies the assumptions of  *)
(* that module.  A step changes the record of one request, from q ==       *)
(* req[r] to p; only the sweeps also mark others, as raced.  What p has to *)
(* satisfy is collected in Moves, and each action is shown to satisfy it.  *)
(***************************************************************************)
EXTENDS Accounts, TLAPS

-----------------------------------------------------------------------------
(* What the helpers return                                                 *)

LEMMA IdleType == Idle \in Request
BY DEF Idle, Request, PCs, Kinds, Answers, Optional

\* An answer closes the request; all but "ok" also forget whom it was for.
LEMMA AnsweredFields ==
  ASSUME NEW q \in Request, NEW answer \in Answers
  PROVE  /\ Answered(q, answer) \in Request
         /\ Answered(q, answer).pc = "done" /\ Answered(q, answer).kind = q.kind
         /\ Answered(q, answer).answer = answer
         /\ Answered(q, answer).sid = q.sid /\ Answered(q, answer).barred = q.barred
         /\ answer = "ok" => /\ Answered(q, answer).account = q.account
                             /\ Answered(q, answer).sub = q.sub
                             /\ Answered(q, answer).intent = q.intent
                             /\ Answered(q, answer).dead = q.dead \cap {q.account}
         /\ answer # "ok" => /\ Answered(q, answer).account = NULL
                             /\ Answered(q, answer).sub = NULL
                             /\ Answered(q, answer).intent = "login"
                             /\ Answered(q, answer).dead = {}
<1> DEFINE c == Closed(q, "done")
           u == Unserved(q, "done")
<1>1. /\ c \in Request /\ c.pc = "done" /\ c.kind = q.kind /\ c.sid = q.sid
      /\ c.barred = q.barred /\ c.account = q.account /\ c.sub = q.sub /\ c.intent = q.intent
      /\ c.dead = q.dead \cap {q.account}
  BY DEF Closed, Request, PCs, Optional
<1>2. u = [c EXCEPT !.account = NULL, !.sub = NULL, !.intent = "login", !.dead = {}]
  BY DEF Unserved
<1> HIDE DEF c
<1>3. /\ u \in Request /\ u.pc = "done" /\ u.kind = q.kind /\ u.sid = q.sid
      /\ u.barred = q.barred /\ u.account = NULL /\ u.sub = NULL /\ u.intent = "login"
      /\ u.dead = {}
  BY <1>1, <1>2 DEF Request, Optional
<1> HIDE DEF u
<1>4. CASE answer = "ok"
  <2>1. Answered(q, answer) = [c EXCEPT !.answer = answer]
    BY <1>4 DEF Answered, c
  <2> QED BY <1>1, <1>4, <2>1 DEF Request
<1>5. CASE answer # "ok"
  <2>1. Answered(q, answer) = [u EXCEPT !.answer = answer]
    BY <1>5 DEF Answered, u
  <2> QED BY <1>3, <1>5, <2>1 DEF Request
<1> QED BY <1>4, <1>5

LEMMA LostFields ==
  ASSUME NEW q \in Request
  PROVE  /\ Lost(q) \in Request
         /\ Lost(q).pc = "lost" /\ Lost(q).kind = q.kind /\ Lost(q).answer = q.answer
         /\ Lost(q).sid = q.sid /\ Lost(q).barred = FALSE
         /\ Lost(q).account = NULL /\ Lost(q).dead = {}
<1> DEFINE c == Closed(q, "lost")
<1>1. /\ c \in Request /\ c.pc = "lost" /\ c.kind = q.kind /\ c.sid = q.sid
      /\ c.answer = q.answer
  BY DEF Closed, Request, PCs, Optional
<1>2. Lost(q) = [[c EXCEPT !.account = NULL, !.sub = NULL, !.intent = "login", !.dead = {}]
                  EXCEPT !.barred = FALSE]
  BY DEF Unserved, Lost
<1> HIDE DEF c
<1> QED BY <1>1, <1>2 DEF Request, Optional

LEMMA FreshType ==
  ASSUME NEW username \in Optional(Usernames), NEW email \in Optional(Emails),
         NEW pw \in Optional(Passwords), NEW sub \in Optional(Subs)
  PROVE  /\ Fresh(username, email, pw, sub) \in Row
         /\ Fresh(username, email, pw, sub) # NULL
         /\ Fresh(username, email, pw, sub).username = username
         /\ Fresh(username, email, pw, sub).email = email
         /\ Fresh(username, email, pw, sub).password = pw
         /\ Fresh(username, email, pw, sub).google = sub
         /\ ~Fresh(username, email, pw, sub).disabled
<1>1. Fresh(username, email, pw, sub) \in Row
  BY DEF Fresh, Row
<1>2. Fresh(username, email, pw, sub) # NULL
  BY <1>1, NullAssumption
<1> QED BY <1>1, <1>2 DEF Fresh

LEMMA PatchedType ==
  ASSUME NEW x \in Row, NEW p \in Patch
  PROVE  /\ Patched(x, p) \in Row /\ Patched(x, p) # NULL
         /\ Patched(x, p).username = IF p.username = "keep" THEN x.username ELSE p.username
         /\ Patched(x, p).email = IF p.email = "keep" THEN x.email ELSE p.email
         /\ Patched(x, p).password = x.password
         /\ Patched(x, p).google = x.google
         /\ Patched(x, p).disabled = x.disabled
<1> DEFINE u == IF p.username = "keep" THEN x.username ELSE p.username
           e == IF p.email = "keep" THEN x.email ELSE p.email
<1>1. u \in Optional(Usernames) /\ e \in Optional(Emails)
  BY DEF Row, Patch
<1>2. Patched(x, p) = [x EXCEPT !.username = u, !.email = e]
  BY DEF Patched
<1> HIDE DEF u, e
<1>3. /\ Patched(x, p) \in Row
      /\ Patched(x, p).username = u /\ Patched(x, p).email = e
      /\ Patched(x, p).password = x.password /\ Patched(x, p).google = x.google
      /\ Patched(x, p).disabled = x.disabled
  BY <1>1, <1>2 DEF Row
<1> QED BY <1>3, NullAssumption DEF u, e

-----------------------------------------------------------------------------
(* What one step does to the request that takes it                         *)

Local == TypeOK /\ \A r \in Requests : Placed(req[r]) /\ Grounded(req[r], row, oauth)

\* Rows stay, and so do the identity linked to one and its end.
RowsGrow ==
  \A a \in AccountIds : row[a] # NULL =>
    /\ row'[a] # NULL
    /\ row[a].google # NULL => row'[a].google = row[a].google
    /\ row[a].disabled => row'[a].disabled

\* A consumed OAuth session stays consumed.
GoneStays == \A sid \in Sids : oauth[sid].intent = "gone" => oauth'[sid].intent = "gone"

\* The step keeps every unfinished change under way, and p does not come to
\* hold a password that is stale by then.
Quiet(q, p, rows) ==
  /\ \A a \in AccountIds : ChangesNow(q, a) => ChangesNow(p, a)
  /\ HoldsPw(p) =>
       \/ p.pw = NULL \/ p.pw = rows[p.account].password
       \/ /\ HoldsPw(q) /\ p.account = q.account /\ p.pw = q.pw
          /\ q.raced => p.raced

\* The record of q becomes p, which knows what it has to; a session it takes
\* was nobody's.
Moves(q, p, rows, sessions) ==
  /\ p \in Request
  /\ Placed(p) /\ Grounded(p, rows, sessions)
  /\ p.sid # q.sid => p.sid = NULL \/ oauth[p.sid].intent # "gone"

\* What the others know stays true while rows and consumed sessions stay.
LEMMA GroundedStays ==
  ASSUME TypeOK, RowsGrow, GoneStays, NEW q \in Request, Grounded(q, row, oauth)
  PROVE  Grounded(q, row', oauth')
BY NullAssumption DEF TypeOK, RowsGrow, GoneStays, Grounded, Request, Optional

LEMMA MovesLocal ==
  ASSUME Local, RowsGrow, GoneStays, NEW r \in Requests, NEW p, Becomes(r, p),
         Moves(req[r], p, row', oauth')
  PROVE  /\ req' \in [Requests -> Request]
         /\ \A s \in Requests : Placed(req'[s]) /\ Grounded(req'[s], row', oauth')
<1>1. /\ req' = [req EXCEPT ![r] = p] /\ p \in Request /\ Placed(p)
      /\ Grounded(p, row', oauth')
  BY DEF Becomes, Moves
<1>2. req \in [Requests -> Request]
  BY DEF Local, TypeOK
<1>3. \A s \in Requests : Placed(req[s]) /\ Grounded(req[s], row', oauth')
  BY <1>2, GroundedStays DEF Local
<1> QED BY <1>1, <1>2, <1>3

\* Only one exchange can have taken a session: whoever took it, it was gone.
LEMMA MovesOnce ==
  ASSUME Local, OAuthSessionOnce, NEW r \in Requests, NEW p, Becomes(r, p),
         Moves(req[r], p, row', oauth')
  PROVE  OAuthSessionOnce'
<1>1. /\ req'[r] = p
      /\ \A s \in Requests \ {r} : req'[s] = req[s]
  BY DEF Local, TypeOK, Becomes
<1>2. \A s \in Requests : req[s].sid # NULL => oauth[req[s].sid].intent = "gone"
  BY DEF Local, Grounded
<1>3. p.sid # req[r].sid => p.sid = NULL \/ oauth[p.sid].intent # "gone"
  BY DEF Moves
<1>4. \A s \in Requests \ {r} : p.sid = req[s].sid => p.sid = NULL
  BY <1>2, <1>3 DEF OAuthSessionOnce
<1> QED BY <1>1, <1>4 DEF OAuthSessionOnce

\* Every way to be refused.
LEMMA Refusal ==
  ASSUME NEW q, NEW x \in Request, NEW answer \in Answers \ {"none", "ok"},
         x.kind = "login" /\ x.barred => answer = "locked",
         x.sid = q.sid \/ x.sid = NULL \/ oauth[x.sid].intent # "gone",
         NEW rows, NEW sessions, x.sid # NULL => sessions[x.sid].intent = "gone",
         \A a \in AccountIds : ~ChangesNow(q, a)
  PROVE  Moves(q, Answered(x, answer), rows, sessions) /\ Quiet(q, Answered(x, answer), rows)
<1> DEFINE p == Answered(x, answer)
<1>1. /\ p \in Request /\ p.pc = "done" /\ p.kind = x.kind /\ p.answer = answer
      /\ p.sid = x.sid /\ p.barred = x.barred /\ p.account = NULL /\ p.dead = {}
  BY AnsweredFields
<1> HIDE DEF p
<1>2. Placed(p)
  BY <1>1 DEF Placed, Admitted, ServesAccount, ServesGoogle
<1>3. Grounded(p, rows, sessions)
  BY <1>1 DEF Grounded, SignedIn
<1>4. Quiet(q, p, rows)
  BY <1>1 DEF Quiet, HoldsPw, ChangesNow
<1> QED BY <1>1, <1>2, <1>3, <1>4 DEF Moves, p

\* Every way to be answered 200.
LEMMA Grant ==
  ASSUME NEW q, NEW x \in Request, ~(x.kind = "login" /\ x.barred), x.sid = q.sid,
         NEW rows, NEW sessions, Grounded(x, rows, sessions),
         x.kind = "exchange" =>
           x.account # NULL /\ x.sub # NULL /\ rows[x.account].google = x.sub,
         x.kind \in {"login", "exchange", "refresh", "patch", "disable"} /\ x.intent = "login"
           => x.account \notin x.dead,
         \A a \in AccountIds : ~ChangesNow(q, a)
  PROVE  Moves(q, Answered(x, "ok"), rows, sessions) /\ Quiet(q, Answered(x, "ok"), rows)
<1> DEFINE p == Answered(x, "ok")
<1>1. /\ p \in Request /\ p.pc = "done" /\ p.kind = x.kind /\ p.answer = "ok"
      /\ p.sid = x.sid /\ p.barred = x.barred /\ p.account = x.account /\ p.sub = x.sub
      /\ p.intent = x.intent /\ p.dead = x.dead \cap {x.account}
  BY AnsweredFields DEF Answers
<1> HIDE DEF p
<1>2. Placed(p)
  BY <1>1 DEF Placed, Admitted, ServesAccount, ServesGoogle
<1>3. Grounded(p, rows, sessions)
  BY <1>1 DEF Grounded, SignedIn
<1>4. Quiet(q, p, rows)
  BY <1>1 DEF Quiet, HoldsPw, ChangesNow
<1> QED BY <1>1, <1>2, <1>3, <1>4 DEF Moves, p

\* q has just started to serve account a (or none yet).
Begun(q, kind, a) ==
  /\ q \in Request
  /\ q.pc = "idle" /\ q.kind = kind /\ q.account = a /\ q.answer = "none"
  /\ q.pw = NULL /\ q.sid = NULL /\ q.intent = "login" /\ q.sub = NULL
  /\ q.barred = FALSE /\ q.raced = FALSE
  /\ \A b \in q.dead : row[b] # NULL /\ row[b].disabled
  /\ \A b \in AccountIds : row[b] # NULL /\ row[b].disabled => b \in q.dead

LEMMA StartedFields ==
  ASSUME Local, NEW r \in Requests, req[r].pc = "idle", NEW kind \in Kinds,
         NEW a \in Optional(AccountIds)
  PROVE  /\ Begun(Started(r, kind, a), kind, a)
         /\ req[r].sid = NULL
         /\ \A b \in AccountIds : ~ChangesNow(req[r], b)
         /\ ~HoldsPw(req[r])
<1>1. req[r] = Idle /\ req[r] \in Request
  BY DEF Local, Placed, TypeOK
<1>2. /\ req[r].answer = "none" /\ req[r].pw = NULL /\ req[r].sid = NULL
      /\ req[r].intent = "login" /\ req[r].sub = NULL /\ req[r].barred = FALSE
      /\ req[r].raced = FALSE /\ req[r].kind = "none"
  BY <1>1 DEF Idle
<1> DEFINE D == {b \in Born : row[b].disabled}
<1>3. D \subseteq AccountIds
  BY DEF Born
<1>4. /\ \A b \in D : row[b] # NULL /\ row[b].disabled
      /\ \A b \in AccountIds : row[b] # NULL /\ row[b].disabled => b \in D
  BY DEF Born
<1>5. Started(r, kind, a) = [req[r] EXCEPT !.kind = kind, !.account = a, !.dead = D]
  BY DEF Started
<1> HIDE DEF D
<1>6. Begun(Started(r, kind, a), kind, a)
  <2> DEFINE q == Started(r, kind, a)
             i == req[r]
  <2>1. i \in Request /\ q = [i EXCEPT !.kind = kind, !.account = a, !.dead = D]
    BY <1>1, <1>5
  <2> HIDE DEF q, i
  <2>2. /\ q \in Request /\ q.kind = kind /\ q.account = a /\ q.dead = D
        /\ q.pc = i.pc /\ q.answer = i.answer /\ q.pw = i.pw /\ q.sid = i.sid
        /\ q.intent = i.intent /\ q.sub = i.sub /\ q.barred = i.barred /\ q.raced = i.raced
    BY <1>3, <2>1 DEF Request
  <2> QED BY <1>2, <1>4, <2>2 DEF Begun, q, i
<1> QED BY <1>2, <1>6 DEF ChangesNow, HoldsPw

-----------------------------------------------------------------------------
(* The tables                                                              *)

LEMMA SameTables ==
  /\ UNCHANGED row => RowsGrow
  /\ UNCHANGED oauth => GoneStays
BY DEF RowsGrow, GoneStays

LEMMA WrittenRow ==
  ASSUME TypeOK, NEW a \in AccountIds, NEW new, new # NULL, row' = [row EXCEPT ![a] = new],
         row[a] # NULL => /\ row[a].google # NULL => new.google = row[a].google
                          /\ row[a].disabled => new.disabled
  PROVE  /\ RowsGrow
         /\ row'[a] = new
         /\ \A b \in AccountIds \ {a} : row'[b] = row[b]
BY DEF RowsGrow, TypeOK

\* What the record of a request at work tells.
LEMMA Serving ==
  ASSUME Local, NEW r \in Requests
  PROVE  /\ req[r] \in Request /\ Placed(req[r]) /\ Grounded(req[r], row, oauth)
         /\ req[r].pc \notin {"sweep", "sweepDelete"} =>
              \A a \in AccountIds : ~ChangesNow(req[r], a)
         /\ req[r].pc # "done" => ~(req[r].kind = "login" /\ req[r].barred)
         /\ req[r].pc \in ServesAccount => req[r].account \in AccountIds
         /\ req[r].account # NULL => row[req[r].account] \in Row /\ row[req[r].account] # NULL
<1>1. req[r] \in Request /\ Placed(req[r]) /\ Grounded(req[r], row, oauth)
  BY DEF Local, TypeOK
<1>2. req[r].account \in Optional(AccountIds) /\ row \in [AccountIds -> Optional(Row)]
  BY <1>1 DEF Local, TypeOK, Request
<1>3. req[r].account # NULL => row[req[r].account] \in Row /\ row[req[r].account] # NULL
  BY <1>1, <1>2 DEF Grounded, Optional
<1>4. req[r].pc # "done" => ~(req[r].kind = "login" /\ req[r].barred)
  BY <1>1 DEF Placed
<1>5. req[r].pc \in ServesAccount => req[r].account \in AccountIds
  BY <1>1, <1>2 DEF Placed, Optional
<1> QED BY <1>1, <1>3, <1>4, <1>5 DEF ChangesNow

-----------------------------------------------------------------------------
(* Registration and login                                                  *)

\* What every step but a few does: the tables keep what others rely on, and
\* the request moves on quietly.
Fine(r) ==
  /\ RowsGrow /\ GoneStays
  /\ \E p : Becomes(r, p) /\ Moves(req[r], p, row', oauth') /\ Quiet(req[r], p, row')

LEMMA RegisterFine ==
  ASSUME Local, NEW r \in Requests, NEW u \in Optional(Usernames), NEW e \in Optional(Emails),
         NEW pw \in Passwords, Register(r, u, e, pw)
  PROVE  Fine(r)
<1>1. req[r].pc = "idle" /\ UNCHANGED oauth
  BY DEF Register, Open
<1>2. CASE UNCHANGED row /\ Becomes(r, Answered(Started(r, "register", NULL), "required"))
  <2>1. Begun(Started(r, "register", NULL), "register", NULL) /\ req[r].sid = NULL
        /\ \A b \in AccountIds : ~ChangesNow(req[r], b)
    BY <1>1, StartedFields DEF Kinds, Optional
  <2> QED BY <1>1, <1>2, <2>1, Refusal, SameTables DEF Begun, Answers, Fine
<1>3. CASE \E a \in AccountIds \ Born :
             LET q   == [Started(r, "register", a) EXCEPT !.pw = pw]
                 new == Fresh(u, e, pw, NULL)
             IN  \/ WriteRow(a, new) /\ Becomes(r, At(q, "issue"))
                 \/ Refused(a, new) /\ Becomes(r, Answered(q, "taken"))
  <2> PICK a \in AccountIds \ Born :
             LET q   == [Started(r, "register", a) EXCEPT !.pw = pw]
                 new == Fresh(u, e, pw, NULL)
             IN  \/ WriteRow(a, new) /\ Becomes(r, At(q, "issue"))
                 \/ Refused(a, new) /\ Becomes(r, Answered(q, "taken"))
    BY <1>3
  <2> DEFINE q0 == Started(r, "register", a)
             q == [q0 EXCEPT !.pw = pw]
             new == Fresh(u, e, pw, NULL)
             p == At(q, "issue")
  <2>1. /\ Begun(q0, "register", a) /\ req[r].sid = NULL
        /\ \A b \in AccountIds : ~ChangesNow(req[r], b)
    BY <1>1, StartedFields DEF Kinds, Optional
  <2>2. /\ q \in Request /\ q.kind = "register" /\ q.sid = NULL /\ q.barred = FALSE
        /\ q.account = a /\ q.dead = q0.dead /\ q.pw = pw /\ q.answer = "none"
    BY <2>1 DEF Begun, Request, Optional
  <2>3. new # NULL /\ new.password = pw
    <3>1. pw \in Optional(Passwords) /\ NULL \in Optional(Subs)
      BY DEF Optional
    <3> QED BY <3>1, FreshType
  <2>4. row[a] = NULL
    BY DEF Born
  <2>5. CASE WriteRow(a, new) /\ Becomes(r, p)
    <3>1. RowsGrow /\ row'[a] = new
      BY <2>3, <2>4, <2>5, WrittenRow DEF WriteRow, Local
    <3>2. /\ p \in Request /\ p.kind = "register" /\ p.sid = NULL /\ p.barred = FALSE
          /\ p.account = a /\ p.dead = q0.dead /\ p.pw = pw /\ p.answer = "none"
          /\ p.pc = "issue"
      BY <2>2 DEF At, Request, PCs
    <3> HIDE DEF p, q, q0, new
    <3>3. Placed(p)
      BY <3>2, NullAssumption DEF Placed, Admitted, ServesAccount, ServesGoogle
    <3>4. Grounded(p, row', oauth')
      BY <2>1, <2>3, <3>1, <3>2 DEF Grounded, SignedIn, Begun, RowsGrow, Request, Local, TypeOK
    <3>5. Quiet(req[r], p, row')
      BY <2>1, <2>3, <3>1, <3>2 DEF Quiet
    <3> QED BY <1>1, <2>1, <2>5, <3>1, <3>2, <3>3, <3>4, <3>5, SameTables DEF Fine, Moves
  <2>6. CASE Refused(a, new) /\ Becomes(r, Answered(q, "taken"))
    BY <1>1, <2>1, <2>2, <2>6, Refusal, SameTables DEF Refused, Answers, Fine
  <2> QED BY <2>5, <2>6
<1> QED BY <1>2, <1>3 DEF Register

LEMMA LoginCountFine ==
  ASSUME Local, failed = failures, NEW r \in Requests, NEW i \in Identifiers,
         NEW pw \in Passwords, LoginCount(r, i, pw)
  PROVE  Fine(r)
<1> DEFINE q0 == Started(r, "login", NULL)
           b == failed[i] >= Threshold
           q == [q0 EXCEPT !.ident = i, !.pw = pw, !.barred = b]
           p == At(q, "find")
<1>1. /\ req[r].pc = "idle" /\ UNCHANGED <<row, oauth>>
      /\ Becomes(r, IF IsLocked(failures[i]) THEN Answered(q, "locked") ELSE p)
  BY DEF LoginCount, Open
<1>2. /\ Begun(q0, "login", NULL) /\ req[r].sid = NULL
      /\ \A a \in AccountIds : ~ChangesNow(req[r], a)
  BY <1>1, StartedFields DEF Kinds, Optional
<1>3. b \in BOOLEAN /\ (b <=> IsLocked(failures[i]))
  BY DEF IsLocked
<1> HIDE DEF b
<1>4. /\ q \in Request /\ q.kind = "login" /\ q.sid = NULL /\ q.barred = b
      /\ q.account = NULL /\ q.dead = q0.dead /\ q.answer = "none" /\ q.ident = i
  <2>1. i \in Optional(Identifiers) /\ pw \in Optional(Passwords)
    BY DEF Optional
  <2> HIDE DEF q0
  <2> QED BY <1>2, <1>3, <2>1 DEF Begun, Request
<1>5. CASE b
  BY <1>1, <1>2, <1>3, <1>4, <1>5, Refusal, SameTables DEF Answers, Fine
<1>6. CASE ~b
  <2>1. /\ p \in Request /\ p.kind = "login" /\ p.sid = NULL /\ p.barred = b
        /\ p.account = NULL /\ p.dead = q0.dead /\ p.answer = "none" /\ p.ident = i
        /\ p.pc = "find"
    BY <1>4 DEF At, Request, PCs
  <2>2. i # NULL
    BY NullAssumption DEF Identifiers
  <2> HIDE DEF p, q, q0
  <2>3. Placed(p)
    BY <1>6, <2>1, <2>2 DEF Placed, Admitted, ServesAccount, ServesGoogle
  <2>4. Grounded(p, row', oauth')
    BY <1>1, <1>2, <2>1 DEF Grounded, SignedIn, Begun
  <2>5. Quiet(req[r], p, row')
    BY <1>2, <2>1 DEF Quiet, HoldsPw, ChangesNow
  <2>6. Becomes(r, p)
    BY <1>1, <1>3, <1>6
  <2> QED BY <1>1, <1>2, <2>1, <2>3, <2>4, <2>5, <2>6, SameTables DEF Fine, Moves
<1> QED BY <1>5, <1>6

LEMMA LoginFindFine ==
  ASSUME Local, NEW r \in Requests, LoginFind(r)
  PROVE  Fine(r)
<1> DEFINE q == req[r]
<1>1. /\ q.pc = "find" /\ UNCHANGED <<row, oauth>> /\ q.kind = "login"
      /\ q \in Request /\ Grounded(q, row, oauth) /\ q.barred = FALSE /\ q.answer = "none"
      /\ q.ident # NULL
      /\ \A a \in AccountIds : ~ChangesNow(q, a)
  BY Serving DEF LoginFind, Placed, Request
<1>2. CASE Becomes(r, Answered(q, "denied"))
  BY <1>1, <1>2, Refusal, SameTables DEF Grounded, Answers, Fine
<1>3. ASSUME NEW a \in Born,
             Becomes(r, IF row[a].disabled THEN Answered([q EXCEPT !.account = a], "disabled")
                        ELSE IF row[a].password # [q EXCEPT !.account = a].pw
                          THEN At([q EXCEPT !.account = a], "fail")
                          ELSE At([q EXCEPT !.account = a], "reset"))
      PROVE  Fine(r)
  <2> DEFINE x == [q EXCEPT !.account = a]
             p(pc) == At(x, pc)
  <2>1. a \in AccountIds /\ a # NULL /\ row[a] # NULL
    BY NullAssumption DEF Born
  <2>2. /\ x \in Request /\ x.kind = "login" /\ x.sid = q.sid /\ x.barred = FALSE
        /\ x.account = a /\ x.pw = q.pw /\ x.dead = q.dead /\ x.answer = "none"
        /\ x.ident = q.ident
    BY <1>1, <2>1 DEF Request, Optional
  <2>3. \A pc \in {"fail", "reset"} :
          /\ p(pc) \in Request /\ p(pc).kind = "login" /\ p(pc).sid = q.sid
          /\ p(pc).barred = FALSE /\ p(pc).account = a /\ p(pc).pw = q.pw
          /\ p(pc).dead = q.dead /\ p(pc).answer = "none" /\ p(pc).pc = pc
          /\ p(pc).ident = q.ident
    BY <2>2 DEF At, Request, PCs
  <2> HIDE DEF p, x
  <2>4. CASE Becomes(r, Answered(x, "disabled"))
    BY <1>1, <2>2, <2>4, Refusal, SameTables DEF Grounded, Answers, Fine
  <2>5. ASSUME NEW pc \in {"fail", "reset"}, Becomes(r, p(pc)), ~row[a].disabled,
               pc = "reset" => row[a].password = q.pw
        PROVE  Fine(r)
    <3>1. a \notin q.dead
      BY <1>1, <2>5 DEF Grounded
    <3>2. Placed(p(pc))
      BY <1>1, <2>1, <2>3, <3>1, <2>5 DEF Placed, Admitted, ServesAccount, ServesGoogle
    <3>3. Grounded(p(pc), row', oauth')
      BY <1>1, <2>1, <2>3 DEF Grounded, SignedIn
    <3>4. Quiet(q, p(pc), row')
      BY <1>1, <2>3, <2>5 DEF Quiet, HoldsPw, ChangesNow
    <3> QED BY <1>1, <2>3, <2>5, <3>2, <3>3, <3>4, SameTables DEF Fine, Moves
  <2> QED BY <1>3, <2>2, <2>4, <2>5 DEF p, x
<1> QED BY <1>2, <1>3 DEF LoginFind

LEMMA LoginFailFine ==
  ASSUME Local, NEW r \in Requests, LoginFail(r)
  PROVE  Fine(r)
<1> DEFINE q == req[r]
<1>1. /\ q \in Request /\ q.pc = "fail" /\ UNCHANGED <<row, oauth>>
      /\ Grounded(q, row, oauth) /\ ~(q.kind = "login" /\ q.barred)
      /\ \A a \in AccountIds : ~ChangesNow(q, a)
  BY Serving DEF LoginFail
<1>2. Becomes(r, Answered(q, "locked")) \/ Becomes(r, Answered(q, "denied"))
  BY DEF LoginFail
<1> QED BY <1>1, <1>2, Refusal, SameTables DEF Grounded, Answers, Fine

LEMMA LoginResetFine ==
  ASSUME Local, NEW r \in Requests, LoginReset(r)
  PROVE  Fine(r)
<1> DEFINE q == req[r]
           p == At(q, "issue")
<1>1. /\ q \in Request /\ q.pc = "reset" /\ UNCHANGED <<row, oauth>> /\ Becomes(r, p)
      /\ Placed(q) /\ Grounded(q, row, oauth) /\ q.kind = "login" /\ q.answer = "none"
      /\ q.account # NULL /\ \A a \in AccountIds : ~ChangesNow(q, a)
  BY Serving DEF LoginReset, Placed, ServesAccount
<1>2. /\ p \in Request /\ p.kind = "login" /\ p.sid = q.sid /\ p.barred = q.barred
      /\ p.account = q.account /\ p.pw = q.pw /\ p.dead = q.dead /\ p.answer = "none"
      /\ p.pc = "issue" /\ p.intent = q.intent /\ p.raced = q.raced
  BY <1>1 DEF At, Request, PCs
<1> HIDE DEF p, q
<1>3. Placed(p)
  BY <1>1, <1>2 DEF Placed, Admitted, ServesAccount, ServesGoogle
<1>4. Grounded(p, row', oauth')
  BY <1>1, <1>2 DEF Grounded, SignedIn
<1>5. Quiet(q, p, row')
  BY <1>1, <1>2 DEF Quiet, HoldsPw
<1> QED BY <1>1, <1>2, <1>3, <1>4, <1>5, SameTables DEF Fine, Moves, q

LEMMA IssueBundleFine ==
  ASSUME Local, NEW r \in Requests, IssueBundle(r)
  PROVE  Fine(r)
<1> DEFINE q == req[r]
<1>1. /\ q \in Request /\ q.pc = "issue" /\ UNCHANGED <<row, oauth>>
      /\ Becomes(r, Answered(q, "ok"))
      /\ Placed(q) /\ Grounded(q, row, oauth) /\ ~(q.kind = "login" /\ q.barred)
      /\ \A a \in AccountIds : ~ChangesNow(q, a)
  BY Serving DEF IssueBundle
<1>2. q.kind = "exchange" =>
        q.account # NULL /\ q.sub # NULL /\ row[q.account].google = q.sub
  BY <1>1 DEF Grounded, SignedIn
<1>3. q.kind \in {"login", "exchange", "refresh", "patch", "disable"} /\ q.intent = "login"
        => q.account \notin q.dead
  BY <1>1 DEF Placed, Admitted
<1> HIDE DEF q
<1> QED BY <1>1, <1>2, <1>3, Grant, SameTables DEF Fine, q

LEMMA ChangeReadFine ==
  ASSUME Local, NEW r \in Requests, NEW a \in Born, NEW current \in Passwords,
         NEW new \in Passwords, ChangeRead(r, a, current, new)
  PROVE  Fine(r)
<1> DEFINE q0 == Started(r, "change", a)
           q == [q0 EXCEPT !.pw = new]
           p == At(q, "changeWrite")
<1>1. /\ req[r].pc = "idle" /\ UNCHANGED <<row, oauth>>
      /\ \/ \E answer \in {"conflict", "denied"} : Becomes(r, Answered(q, answer))
         \/ Becomes(r, p)
  BY DEF ChangeRead, Open
<1>2. a \in AccountIds /\ row[a] # NULL /\ a # NULL /\ new # NULL
      /\ new \in Optional(Passwords) /\ a \in Optional(AccountIds)
  BY NullAssumption DEF Born, Optional
<1>3. /\ Begun(q0, "change", a) /\ req[r].sid = NULL
      /\ \A b \in AccountIds : ~ChangesNow(req[r], b)
  BY <1>1, <1>2, StartedFields DEF Kinds
<1> HIDE DEF q0
<1>4. /\ q \in Request /\ q.kind = "change" /\ q.sid = NULL
      /\ q.account = a /\ q.dead = q0.dead /\ q.answer = "none" /\ q.pw = new
  BY <1>2, <1>3 DEF Begun, Request
<1>5. /\ p \in Request /\ p.kind = "change" /\ p.sid = NULL /\ p.pc = "changeWrite"
      /\ p.account = a /\ p.dead = q0.dead /\ p.answer = "none" /\ p.pw = new
  BY <1>4 DEF At, Request, PCs
<1> HIDE DEF p, q
<1>6. Placed(p)
  BY <1>2, <1>5 DEF Placed, Admitted, ServesAccount, ServesGoogle
<1>7. Grounded(p, row', oauth')
  BY <1>1, <1>2, <1>3, <1>5 DEF Grounded, SignedIn, Begun
<1>8. Quiet(req[r], p, row')
  BY <1>3, <1>5 DEF Quiet, HoldsPw, ChangesNow
<1>9. \A answer \in {"conflict", "denied"} :
        Moves(req[r], Answered(q, answer), row', oauth') /\ Quiet(req[r], Answered(q, answer), row')
  BY <1>3, <1>4, Refusal DEF Answers
<1> QED BY <1>1, <1>3, <1>5, <1>6, <1>7, <1>8, <1>9, SameTables DEF Fine, Moves

\* A row in which one column is written stays what others rely on.
LEMMA PasswordColumn ==
  ASSUME TypeOK, NEW a \in AccountIds, row[a] # NULL, NEW pw \in Passwords,
         row' = [row EXCEPT ![a].password = pw]
  PROVE  /\ RowsGrow
         /\ row' \in [AccountIds -> Optional(Row)]
         /\ \A b \in AccountIds : row[b] # NULL =>
              /\ row'[b].username = row[b].username /\ row'[b].email = row[b].email
              /\ row'[b].google = row[b].google
         /\ \A b \in AccountIds : row'[b] # NULL => row[b] # NULL
         /\ \A b \in AccountIds \ {a} : row'[b] = row[b]
         /\ row'[a].password = pw
<1> DEFINE x == row[a]
           y == [x EXCEPT !.password = pw]
<1>1. x \in Row /\ row \in [AccountIds -> Optional(Row)]
  BY DEF TypeOK, Optional
<1>2. /\ y \in Row /\ row' = [row EXCEPT ![a] = y]
      /\ y.username = x.username /\ y.email = x.email /\ y.google = x.google
      /\ y.password = pw /\ (y.disabled <=> x.disabled)
  BY <1>1 DEF Row, Optional
<1> HIDE DEF x, y
<1>3. y # NULL /\ x = row[a]
  BY <1>2, NullAssumption DEF x
<1>4. row'[a] = y /\ \A b \in AccountIds \ {a} : row'[b] = row[b]
  BY <1>1, <1>2
<1>5. row' \in [AccountIds -> Optional(Row)]
  BY <1>1, <1>2 DEF Optional
<1>6. RowsGrow
  BY <1>2, <1>3, <1>4 DEF RowsGrow
<1> QED BY <1>2, <1>3, <1>4, <1>5, <1>6

LEMMA DisabledColumn ==
  ASSUME TypeOK, NEW a \in AccountIds, row[a] # NULL,
         row' = [row EXCEPT ![a].disabled = TRUE]
  PROVE  /\ RowsGrow
         /\ row' \in [AccountIds -> Optional(Row)]
         /\ \A b \in AccountIds : row[b] # NULL =>
              /\ row'[b].username = row[b].username /\ row'[b].email = row[b].email
              /\ row'[b].google = row[b].google /\ row'[b].password = row[b].password
         /\ \A b \in AccountIds : row'[b] # NULL => row[b] # NULL
<1> DEFINE x == row[a]
           y == [x EXCEPT !.disabled = TRUE]
<1>1. x \in Row /\ row \in [AccountIds -> Optional(Row)]
  BY DEF TypeOK, Optional
<1>2. /\ y \in Row /\ row' = [row EXCEPT ![a] = y]
      /\ y.username = x.username /\ y.email = x.email /\ y.google = x.google
      /\ y.password = x.password /\ y.disabled
  BY <1>1 DEF Row, Optional
<1> HIDE DEF x, y
<1>3. y # NULL /\ x = row[a]
  BY <1>2, NullAssumption DEF x
<1>4. row'[a] = y /\ \A b \in AccountIds \ {a} : row'[b] = row[b]
  BY <1>1, <1>2
<1>5. row' \in [AccountIds -> Optional(Row)]
  BY <1>1, <1>2 DEF Optional
<1>6. RowsGrow
  BY <1>2, <1>3, <1>4 DEF RowsGrow
<1> QED BY <1>2, <1>3, <1>4, <1>5, <1>6

\* A password change is under way from its write on.
LEMMA ChangeWriteMoves ==
  ASSUME Local, NEW r \in Requests, ChangeWrite(r)
  PROVE  /\ RowsGrow /\ GoneStays
         /\ \E p : /\ Becomes(r, p) /\ Moves(req[r], p, row', oauth')
                   /\ ChangesNow(p, req[r].account) /\ p.account = req[r].account
                   /\ p.pw = row'[req[r].account].password
<1> DEFINE q == req[r]
           p == At(q, "sweep")
<1>1. /\ q \in Request /\ q.pc = "changeWrite" /\ UNCHANGED oauth /\ Becomes(r, p)
      /\ row' = [row EXCEPT ![q.account].password = q.pw]
      /\ q.kind = "change" /\ q.answer = "none" /\ q.pw \in Passwords
      /\ q.account \in AccountIds /\ row[q.account] # NULL
      /\ Grounded(q, row, oauth)
  BY Serving DEF ChangeWrite, Placed, ServesAccount, Request, Optional
<1>2. RowsGrow /\ row'[q.account].password = q.pw
  BY <1>1, PasswordColumn DEF Local
<1>3. /\ p \in Request /\ p.kind = "change" /\ p.sid = q.sid /\ p.pc = "sweep"
      /\ p.account = q.account /\ p.dead = q.dead /\ p.answer = "none" /\ p.pw = q.pw
  BY <1>1 DEF At, Request, PCs
<1> HIDE DEF p
<1>4. Placed(p)
  BY <1>1, <1>3, NullAssumption DEF Placed, Admitted, ServesAccount, ServesGoogle
<1>5. Grounded(p, row', oauth')
  <2>1. Grounded(q, row', oauth')
    BY <1>1, <1>2, GroundedStays, SameTables DEF Local
  <2> QED BY <1>3, <2>1 DEF Grounded, SignedIn
<1> QED BY <1>1, <1>2, <1>3, <1>4, <1>5, SameTables DEF Moves, ChangesNow

-----------------------------------------------------------------------------
(* Google                                                                  *)

LinksOwned == \A sid \in Sids : oauth[sid].intent = "link" => oauth[sid].owner # NULL

LEMMA AuthorizeInitFine ==
  ASSUME Local, NEW r \in Requests, NEW sid \in Sids, NEW intent \in {"login", "link"},
         NEW a \in Optional(Born), AuthorizeInit(r, sid, intent, a)
  PROVE  Fine(r)
<1> DEFINE q == Started(r, "init", a)
<1>1. /\ req[r].pc = "idle" /\ UNCHANGED row /\ Becomes(r, Answered(q, "ok"))
      /\ oauth[sid].intent = "unminted"
      /\ oauth' = [oauth EXCEPT ![sid] = [intent |-> intent, owner |-> a]]
  BY DEF AuthorizeInit, Open
<1>2. a \in Optional(AccountIds) /\ (a # NULL => row[a] # NULL)
  BY DEF Born, Optional
<1>3. GoneStays
  BY <1>1 DEF GoneStays, Local, TypeOK
<1>4. /\ Begun(q, "init", a) /\ req[r].sid = NULL
      /\ \A b \in AccountIds : ~ChangesNow(req[r], b)
  BY <1>1, <1>2, StartedFields DEF Kinds
<1> HIDE DEF q
<1>5. Grounded(q, row', oauth')
  BY <1>1, <1>2, <1>4 DEF Grounded, SignedIn, Begun
<1>6. q \in Request /\ q.kind = "init" /\ q.sid = NULL
  BY <1>4 DEF Begun
<1> QED BY <1>1, <1>3, <1>4, <1>5, <1>6, Grant, SameTables DEF Fine

LEMMA ExchangeConsumeFine ==
  ASSUME Local, LinksOwned, NEW r \in Requests, NEW sid \in Sids, NEW ok \in BOOLEAN,
         NEW a \in Optional(Born), ExchangeConsume(r, sid, ok, a)
  PROVE  Fine(r)
<1> DEFINE q == Started(r, "exchange", a)
           t == oauth[sid]
           intent == IF t.intent = "link" THEN "link" ELSE "login"
           x == [q EXCEPT !.sid = sid, !.intent = intent]
           p == At(x, "upstream")
<1>1. /\ req[r].pc = "idle" /\ UNCHANGED row
      /\ oauth' = [oauth EXCEPT ![sid] = Without("gone")]
      /\ \/ Becomes(r, Answered(q, "invalid"))
         \/ t.intent # "gone" /\ Becomes(r, Answered(x, "mismatch"))
         \/ t.intent # "gone" /\ (t.intent = "link" => t.owner = a) /\ Becomes(r, p)
  BY DEF ExchangeConsume, Open, Consumed
<1>2. a \in Optional(AccountIds) /\ (a # NULL => row[a] # NULL)
  BY DEF Born, Optional
<1>3. GoneStays /\ oauth'[sid].intent = "gone"
  BY <1>1 DEF GoneStays, Local, TypeOK, Without
<1>4. /\ Begun(q, "exchange", a) /\ req[r].sid = NULL
      /\ \A b \in AccountIds : ~ChangesNow(req[r], b)
  BY <1>1, <1>2, StartedFields DEF Kinds
<1>5. sid # NULL /\ sid \in Optional(Sids) /\ intent \in {"login", "link"}
  BY NullAssumption DEF Optional
<1>6. intent = "link" => t.intent = "link"
  OBVIOUS
<1> HIDE DEF q, intent, t
<1>7. /\ x \in Request /\ x.kind = "exchange" /\ x.sid = sid /\ x.intent = intent
      /\ x.account = a /\ x.dead = q.dead /\ x.answer = "none" /\ x.pw = NULL
  BY <1>4, <1>5 DEF Begun, Request
<1>8. /\ p \in Request /\ p.kind = "exchange" /\ p.sid = sid /\ p.intent = intent
      /\ p.account = a /\ p.dead = q.dead /\ p.answer = "none" /\ p.pc = "upstream"
      /\ p.pw = NULL
  BY <1>7 DEF At, Request, PCs
<1> HIDE DEF x, p
<1>9. CASE Becomes(r, Answered(q, "invalid"))
  BY <1>1, <1>3, <1>4, <1>9, Refusal, SameTables DEF Begun, Answers, Fine
<1>10. CASE t.intent # "gone" /\ Becomes(r, Answered(x, "mismatch"))
  BY <1>1, <1>3, <1>4, <1>7, <1>10, Refusal, SameTables DEF Answers, Fine, t
<1>11. CASE t.intent # "gone" /\ (t.intent = "link" => t.owner = a) /\ Becomes(r, p)
  <2>1. intent = "link" => a # NULL
    BY <1>6, <1>11 DEF LinksOwned, t
  <2>2. Placed(p)
    BY <1>8, <2>1 DEF Placed, Admitted, ServesAccount, ServesGoogle
  <2>3. Grounded(p, row', oauth')
    BY <1>1, <1>2, <1>3, <1>4, <1>8 DEF Grounded, SignedIn, Begun
  <2>4. Quiet(req[r], p, row')
    BY <1>4, <1>8 DEF Quiet, HoldsPw, ChangesNow
  <2>5. oauth[sid].intent # "gone"
    BY <1>11 DEF t
  <2> QED BY <1>1, <1>3, <1>8, <1>11, <2>2, <2>3, <2>4, <2>5, SameTables DEF Fine, Moves
<1> QED BY <1>1, <1>9, <1>10, <1>11

\* What an exchange has on its way to the account.
Exchanging(q) ==
  /\ q \in Request /\ Placed(q) /\ Grounded(q, row, oauth)
  /\ q.kind = "exchange" /\ q.answer = "none" /\ q.pw = NULL
  /\ \A a \in AccountIds : ~ChangesNow(q, a)

\* p is q further on.
Goes(q, p, pc) ==
  /\ p \in Request /\ p.pc = pc /\ p.kind = "exchange" /\ p.sid = q.sid
  /\ p.intent = q.intent /\ p.dead = q.dead /\ p.answer = "none" /\ p.pw = NULL

LEMMA ExchangeAt ==
  ASSUME NEW q, Exchanging(q), NEW pc \in PCs
  PROVE  /\ Goes(q, At(q, pc), pc)
         /\ At(q, pc).account = q.account /\ At(q, pc).sub = q.sub
BY DEF Exchanging, At, Request, Goes

LEMMA ExchangeSub ==
  ASSUME NEW q, Exchanging(q), NEW sub \in Optional(Subs), NEW pc \in PCs
  PROVE  /\ Goes(q, At([q EXCEPT !.sub = sub], pc), pc)
         /\ At([q EXCEPT !.sub = sub], pc).account = q.account
         /\ At([q EXCEPT !.sub = sub], pc).sub = sub
<1> DEFINE x == [q EXCEPT !.sub = sub]
<1>1. /\ x \in Request /\ x.kind = "exchange" /\ x.sid = q.sid /\ x.intent = q.intent
      /\ x.account = q.account /\ x.sub = sub /\ x.dead = q.dead /\ x.answer = "none"
      /\ x.pw = NULL
  BY DEF Exchanging, Request
<1> HIDE DEF x
<1>2. Goes(q, At(x, pc), pc) /\ At(x, pc).account = q.account /\ At(x, pc).sub = sub
  BY <1>1 DEF At, Request, Goes
<1> QED BY <1>2 DEF x

LEMMA ExchangeAccount ==
  ASSUME NEW q, Exchanging(q), NEW a \in Optional(AccountIds), NEW pc \in PCs
  PROVE  /\ Goes(q, At([q EXCEPT !.account = a], pc), pc)
         /\ At([q EXCEPT !.account = a], pc).account = a
         /\ At([q EXCEPT !.account = a], pc).sub = q.sub
<1> DEFINE x == [q EXCEPT !.account = a]
<1>1. /\ x \in Request /\ x.kind = "exchange" /\ x.sid = q.sid /\ x.intent = q.intent
      /\ x.account = a /\ x.sub = q.sub /\ x.dead = q.dead /\ x.answer = "none"
      /\ x.pw = NULL
  BY DEF Exchanging, Request
<1> HIDE DEF x
<1>2. Goes(q, At(x, pc), pc) /\ At(x, pc).account = a /\ At(x, pc).sub = q.sub
  BY <1>1 DEF At, Request, Goes
<1> QED BY <1>2 DEF x

LEMMA GoesFine ==
  ASSUME TypeOK, RowsGrow, GoneStays, NEW q, Exchanging(q), NEW pc, NEW p, Goes(q, p, pc),
         pc \in (ServesGoogle \ {"upstream"}) \cup {"issue"}, p.sub # NULL,
         pc = "sub" /\ q.intent = "link" => p.account # NULL,
         pc \in {"email", "create", "live"} => q.intent = "login",
         pc \in {"has", "link"} => q.intent = "link",
         pc \in {"live", "has", "link", "issue"} => p.account # NULL,
         p.account # NULL => row'[p.account] # NULL,
         pc \in {"live", "issue"} => row'[p.account].google = p.sub,
         pc = "issue" => p.account \notin p.dead
  PROVE  Moves(q, p, row', oauth') /\ Quiet(q, p, row')
<1>1. q \in Request /\ Grounded(q, row', oauth')
  BY GroundedStays DEF Exchanging
<1>2. Placed(p)
  BY DEF Goes, Placed, Admitted, ServesAccount, ServesGoogle
<1>3. Grounded(p, row', oauth')
  BY <1>1 DEF Goes, Grounded, SignedIn
<1>4. Quiet(q, p, row')
  BY DEF Goes, Exchanging, Quiet
<1> QED BY <1>2, <1>3, <1>4 DEF Goes, Moves

\* An exchange that is refused.
LEMMA ExchangeRefused ==
  ASSUME NEW q, Exchanging(q), NEW x \in Request, x.kind = "exchange", x.sid = q.sid,
         GoneStays, TypeOK, NEW answer \in Answers \ {"none", "ok"}
  PROVE  Moves(q, Answered(x, answer), row', oauth') /\ Quiet(q, Answered(x, answer), row')
<1>1. x.sid # NULL => oauth[x.sid].intent = "gone" /\ x.sid \in Sids
  BY DEF Exchanging, Grounded, Request, Optional
<1> QED BY <1>1, Refusal DEF Exchanging, GoneStays

LEMMA AtExchange ==
  ASSUME Local, NEW r \in Requests,
         req[r].pc \in ServesGoogle
  PROVE  /\ Exchanging(req[r]) /\ TypeOK
         /\ req[r].sub \in Optional(Subs) /\ req[r].account \in Optional(AccountIds)
         /\ req[r].pc \in ServesGoogle \ {"upstream"} => req[r].sub \in Subs
BY Serving DEF Exchanging, Placed, ServesGoogle, Local, Request, Optional

LEMMA ExchangeUpstreamFine ==
  ASSUME Local, NEW r \in Requests, ExchangeUpstream(r)
  PROVE  Fine(r)
<1> DEFINE q == req[r]
<1>1. /\ q.pc = "upstream" /\ UNCHANGED <<row, oauth>>
      /\ \/ \E answer \in {"denied", "upstream"} : Becomes(r, Answered(q, answer))
         \/ \E sub \in Subs : Becomes(r, At([q EXCEPT !.sub = sub], "sub"))
  BY DEF ExchangeUpstream
<1>2. Exchanging(q) /\ TypeOK /\ RowsGrow /\ GoneStays
  BY <1>1, AtExchange, SameTables DEF ServesGoogle
<1>3. q.account # NULL => row'[q.account] # NULL
  BY <1>1, <1>2 DEF Exchanging, Grounded
<1>4. q.intent = "link" => q.account # NULL
  BY <1>1, <1>2 DEF Exchanging, Placed
<1> HIDE DEF q
<1>5. ASSUME NEW sub \in Subs, Becomes(r, At([q EXCEPT !.sub = sub], "sub"))
      PROVE  Fine(r)
  <2> DEFINE p == At([q EXCEPT !.sub = sub], "sub")
  <2>1. sub \in Optional(Subs) /\ sub # NULL /\ "sub" \in PCs
    BY NullAssumption DEF Optional, PCs
  <2>2. Goes(q, p, "sub") /\ p.account = q.account /\ p.sub = sub
    BY <1>2, <2>1, ExchangeSub
  <2> HIDE DEF p
  <2>3. Moves(q, p, row', oauth') /\ Quiet(q, p, row')
    BY <1>2, <1>3, <1>4, <2>1, <2>2, GoesFine DEF ServesGoogle
  <2> QED BY <1>2, <1>5, <2>3 DEF Fine, p, q
<1>6. ASSUME NEW answer \in {"denied", "upstream"}, Becomes(r, Answered(q, answer))
      PROVE  Fine(r)
  <2>1. answer \in Answers \ {"none", "ok"} /\ q \in Request /\ q.kind = "exchange"
    BY <1>2 DEF Answers, Exchanging
  <2> QED BY <1>2, <1>6, <2>1, ExchangeRefused DEF Fine, q
<1> QED BY <1>1, <1>5, <1>6 DEF q

\* The ways of an exchange that knows the identity.
LEMMA ResolveFine ==
  ASSUME Local, NEW r \in Requests, ResolveSub(r) \/ ResolveEmail(r)
  PROVE  Fine(r)
<1> DEFINE q == req[r]
<1>1. /\ q.pc \in {"sub", "email"} /\ UNCHANGED <<row, oauth>>
      /\ \/ Becomes(r, Answered(q, "conflict"))
         \/ q.intent = "login" /\ Becomes(r, At(q, "email"))
         \/ q.intent = "login" /\ \E a \in Holders(q.sub) :
              Becomes(r, At([q EXCEPT !.account = a], "live"))
         \/ q.intent = "link" /\ q.pc = "sub" /\ Becomes(r, At(q, "has"))
         \/ q.pc = "email" /\ Becomes(r, At(q, "create"))
  BY DEF ResolveSub, ResolveEmail
<1>2. /\ Exchanging(q) /\ TypeOK /\ RowsGrow /\ GoneStays /\ q.sub \in Subs
      /\ q.account \in Optional(AccountIds) /\ q.sub \in Optional(Subs)
  BY <1>1, AtExchange, SameTables DEF ServesGoogle
<1>3. q.account # NULL => row'[q.account] # NULL
  BY <1>1, <1>2 DEF Exchanging, Grounded
<1>4. /\ q.pc = "sub" /\ q.intent = "link" => q.account # NULL
      /\ q.pc = "email" => q.intent = "login"
      /\ q.sub # NULL
  BY <1>1, <1>2, NullAssumption DEF Exchanging, Placed
<1> HIDE DEF q
<1>5. CASE Becomes(r, Answered(q, "conflict"))
  <2>1. q \in Request /\ q.kind = "exchange"
    BY <1>2 DEF Exchanging
  <2> QED BY <1>2, <1>5, <2>1, ExchangeRefused DEF Fine, q, Answers
<1>6. ASSUME NEW pc \in {"email", "has", "create"}, Becomes(r, At(q, pc)),
             pc \in {"email", "create"} => q.intent = "login",
             pc = "has" => q.intent = "link" /\ q.pc = "sub"
      PROVE  Fine(r)
  <2> DEFINE p == At(q, pc)
  <2>1. pc \in PCs
    BY DEF PCs
  <2>2. Goes(q, p, pc) /\ p.account = q.account /\ p.sub = q.sub
    BY <1>2, <2>1, ExchangeAt
  <2> HIDE DEF p
  <2>3. Moves(q, p, row', oauth') /\ Quiet(q, p, row')
    BY <1>2, <1>3, <1>4, <1>6, <2>2, GoesFine DEF ServesGoogle
  <2> QED BY <1>2, <1>6, <2>3 DEF Fine, p, q
<1>7. ASSUME NEW a \in Holders(q.sub), Becomes(r, At([q EXCEPT !.account = a], "live")),
             q.intent = "login"
      PROVE  Fine(r)
  <2> DEFINE p == At([q EXCEPT !.account = a], "live")
  <2>1. a \in AccountIds /\ a # NULL /\ row[a] # NULL /\ row[a].google = q.sub
    BY NullAssumption DEF Holders, Born
  <2>2. "live" \in PCs /\ a \in Optional(AccountIds)
    BY <2>1 DEF PCs, Optional
  <2>3. Goes(q, p, "live") /\ p.account = a /\ p.sub = q.sub
    BY <1>2, <2>2, ExchangeAccount
  <2> HIDE DEF p
  <2>4. Moves(q, p, row', oauth') /\ Quiet(q, p, row')
    BY <1>1, <1>2, <1>4, <1>7, <2>1, <2>3, GoesFine DEF ServesGoogle
  <2> QED BY <1>2, <1>7, <2>4 DEF Fine, p, q
<1> QED BY <1>1, <1>4, <1>5, <1>6, <1>7 DEF q

LEMMA GoogleCreateFine ==
  ASSUME Local, NEW r \in Requests, GoogleCreate(r)
  PROVE  Fine(r)
<1> DEFINE q == req[r]
           new == Fresh(NULL, EmailOf[q.sub], NULL, q.sub)
<1>1. /\ q.pc = "create" /\ UNCHANGED oauth
      /\ \E a \in AccountIds \ Born :
           \/ WriteRow(a, new) /\ Becomes(r, At([q EXCEPT !.account = a], "issue"))
           \/ /\ Refused(a, new)
              /\ Becomes(r, Answered([q EXCEPT !.account = a], "conflict"))
  BY DEF GoogleCreate
<1>2. /\ Exchanging(q) /\ TypeOK /\ q.sub \in Subs /\ GoneStays
  BY <1>1, AtExchange, SameTables DEF ServesGoogle
<1>3. q.sub # NULL /\ q.sub \in Optional(Subs)
  BY <1>2, NullAssumption DEF Optional
<1>4. new # NULL /\ new.google = q.sub
  <2>1. /\ NULL \in Optional(Usernames) /\ NULL \in Optional(Passwords)
        /\ EmailOf[q.sub] \in Optional(Emails)
    BY <1>2, AccountsAssumption DEF Optional
  <2> QED BY <1>3, <2>1, FreshType
<1> HIDE DEF new, q
<1>5. ASSUME NEW a \in AccountIds \ Born, WriteRow(a, new),
             Becomes(r, At([q EXCEPT !.account = a], "issue"))
      PROVE  Fine(r)
  <2> DEFINE p == At([q EXCEPT !.account = a], "issue")
  <2>1. a # NULL /\ row[a] = NULL /\ a \in Optional(AccountIds) /\ "issue" \in PCs
    BY NullAssumption DEF Born, Optional, PCs
  <2>2. Goes(q, p, "issue") /\ p.account = a /\ p.sub = q.sub
    BY <1>2, <1>3, <2>1, ExchangeAccount
  <2>3. RowsGrow /\ row'[a] = new
    BY <1>4, <1>5, <2>1, WrittenRow DEF WriteRow, Local
  <2>4. a \notin p.dead
    BY <1>2, <2>1, <2>2 DEF Exchanging, Grounded, Goes
  <2> HIDE DEF p
  <2>5. Moves(q, p, row', oauth') /\ Quiet(q, p, row')
    BY <1>2, <1>3, <1>4, <2>1, <2>2, <2>3, <2>4, GoesFine
  <2> QED BY <1>2, <1>5, <2>3, <2>5 DEF Fine, p, q
<1>6. ASSUME NEW a \in AccountIds \ Born, Refused(a, new),
             Becomes(r, Answered([q EXCEPT !.account = a], "conflict"))
      PROVE  Fine(r)
  <2> DEFINE x == [q EXCEPT !.account = a]
  <2>1. x \in Request /\ x.kind = "exchange" /\ x.sid = q.sid
    BY <1>2 DEF Exchanging, Request, Optional
  <2>2. RowsGrow
    BY <1>6, SameTables DEF Refused
  <2> HIDE DEF x
  <2> QED BY <1>2, <1>6, <2>1, <2>2, ExchangeRefused DEF Fine, x, q, Answers
<1> QED BY <1>1, <1>5, <1>6

LEMMA GoogleLiveFine ==
  ASSUME Local, NEW r \in Requests, GoogleLive(r)
  PROVE  Fine(r)
<1> DEFINE q == req[r]
           p == At(q, "issue")
<1>1. /\ q.pc = "live" /\ UNCHANGED <<row, oauth>>
      /\ Becomes(r, IF row[q.account].disabled THEN Answered(q, "disabled") ELSE p)
  BY DEF GoogleLive
<1>2. /\ Exchanging(q) /\ TypeOK /\ RowsGrow /\ GoneStays
      /\ q.sub \in Optional(Subs) /\ q.account \in Optional(AccountIds)
  BY <1>1, AtExchange, SameTables DEF ServesGoogle
<1>3. /\ q.account # NULL /\ q.sub # NULL /\ row[q.account] # NULL
      /\ row[q.account].google = q.sub
  BY <1>1, <1>2 DEF Exchanging, Grounded, SignedIn
<1> HIDE DEF q
<1>4. CASE row[q.account].disabled
  <2>1. q \in Request /\ q.kind = "exchange"
    BY <1>2 DEF Exchanging
  <2> QED BY <1>1, <1>2, <1>4, <2>1, ExchangeRefused DEF Fine, q, Answers
<1>5. CASE ~row[q.account].disabled
  <2>1. "issue" \in PCs
    BY DEF PCs
  <2>2. Goes(q, p, "issue") /\ p.account = q.account /\ p.sub = q.sub
    BY <1>2, <2>1, ExchangeAt
  <2> HIDE DEF p
  <2>3. p.account \notin p.dead
    BY <1>2, <1>5, <2>2 DEF Exchanging, Grounded, Goes
  <2>4. Moves(q, p, row', oauth') /\ Quiet(q, p, row')
    BY <1>1, <1>2, <1>3, <2>2, <2>3, GoesFine
  <2> QED BY <1>1, <1>2, <1>5, <2>4 DEF Fine, p, q
<1> QED BY <1>4, <1>5

LEMMA LinkHasFine ==
  ASSUME Local, NEW r \in Requests, LinkHas(r)
  PROVE  Fine(r)
<1> DEFINE q == req[r]
           p == At(q, "link")
<1>1. /\ q.pc = "has" /\ UNCHANGED <<row, oauth>>
      /\ Becomes(r, Answered(q, "conflict")) \/ Becomes(r, p)
  BY DEF LinkHas
<1>2. /\ Exchanging(q) /\ TypeOK /\ RowsGrow /\ GoneStays /\ q.sub \in Subs
      /\ q.sub \in Optional(Subs) /\ q.account \in Optional(AccountIds)
  BY <1>1, AtExchange, SameTables DEF ServesGoogle
<1>3. q.account # NULL /\ q.intent = "link" /\ q.sub # NULL /\ row[q.account] # NULL
  BY <1>1, <1>2, NullAssumption DEF Exchanging, Grounded, Placed, ServesAccount
<1> HIDE DEF q
<1>4. CASE Becomes(r, Answered(q, "conflict"))
  <2>1. q \in Request /\ q.kind = "exchange"
    BY <1>2 DEF Exchanging
  <2> QED BY <1>2, <1>4, <2>1, ExchangeRefused DEF Fine, q, Answers
<1>5. CASE Becomes(r, p)
  <2>1. "link" \in PCs
    BY DEF PCs
  <2>2. Goes(q, p, "link") /\ p.account = q.account /\ p.sub = q.sub
    BY <1>2, <2>1, ExchangeAt
  <2> HIDE DEF p
  <2>3. Moves(q, p, row', oauth') /\ Quiet(q, p, row')
    BY <1>1, <1>2, <1>3, <2>2, GoesFine DEF ServesGoogle
  <2> QED BY <1>2, <1>5, <2>3 DEF Fine, p, q
<1> QED BY <1>1, <1>4, <1>5

LEMMA LinkCreateFine ==
  ASSUME Local, NEW r \in Requests, LinkCreate(r)
  PROVE  Fine(r)
<1> DEFINE q == req[r]
           new == [row[q.account] EXCEPT !.google = q.sub]
<1>1. /\ q.pc = "link" /\ UNCHANGED oauth
      /\ \/ /\ row[q.account].google = NULL /\ row' = [row EXCEPT ![q.account] = new]
            /\ Becomes(r, Answered(q, "ok"))
         \/ UNCHANGED row /\ Becomes(r, Answered(q, "conflict"))
  BY DEF LinkCreate, WriteRow, Refused
<1>2. /\ Exchanging(q) /\ TypeOK /\ GoneStays /\ q.sub \in Subs
      /\ q.sub \in Optional(Subs)
  BY <1>1, AtExchange, SameTables DEF ServesGoogle
<1>3. /\ q.account \in AccountIds /\ q.account # NULL /\ q.intent = "link" /\ q.sub # NULL
      /\ row[q.account] # NULL /\ row[q.account] \in Row /\ q \in Request /\ q.kind = "exchange"
  <2>1. q.account # NULL /\ q.intent = "link" /\ q \in Request /\ q.kind = "exchange"
    BY <1>1, <1>2 DEF Exchanging, Placed, ServesAccount
  <2> QED BY <1>2, <2>1, Serving, NullAssumption DEF Request, Optional
<1>4. new # NULL /\ new.google = q.sub /\ (new.disabled <=> row[q.account].disabled)
  <2>1. new \in Row
    BY <1>2, <1>3 DEF Row
  <2> QED BY <1>3, <2>1, NullAssumption DEF Row
<1> HIDE DEF q, new
<1>5. CASE UNCHANGED row /\ Becomes(r, Answered(q, "conflict"))
  BY <1>2, <1>3, <1>5, ExchangeRefused, SameTables DEF Fine, q, Answers
<1>6. CASE /\ row[q.account].google = NULL /\ row' = [row EXCEPT ![q.account] = new]
           /\ Becomes(r, Answered(q, "ok"))
  <2>1. RowsGrow /\ row'[q.account] = new
    BY <1>2, <1>3, <1>4, <1>6, WrittenRow
  <2>2. Grounded(q, row', oauth')
    BY <1>2, <1>3, <2>1, GroundedStays DEF Exchanging
  <2>3. \A a \in AccountIds : ~ChangesNow(q, a)
    BY <1>2 DEF Exchanging
  <2>4. Moves(q, Answered(q, "ok"), row', oauth') /\ Quiet(q, Answered(q, "ok"), row')
    BY <1>3, <1>4, <2>1, <2>2, <2>3, Grant
  <2> QED BY <1>2, <1>6, <2>1, <2>4 DEF Fine, q
<1> QED BY <1>1, <1>5, <1>6

-----------------------------------------------------------------------------
(* Self-service                                                            *)

LEMMA PatchLiveFine ==
  ASSUME Local, NEW r \in Requests, NEW a \in Born, NEW c \in Patch, PatchLive(r, a, c)
  PROVE  Fine(r)
<1> DEFINE q0 == Started(r, "patch", a)
           q == [q0 EXCEPT !.patch = c]
           p == At(q, "patchRead")
<1>1. /\ req[r].pc = "idle" /\ UNCHANGED <<row, oauth>>
      /\ \/ row[a].disabled /\ Becomes(r, Answered(q, "disabled"))
         \/ ~row[a].disabled /\ Becomes(r, Answered(q, "ok"))
         \/ ~row[a].disabled /\ Becomes(r, p)
  BY DEF PatchLive, Open
<1>2. /\ a \in AccountIds /\ row[a] # NULL /\ a # NULL /\ c # NULL
      /\ c \in Optional(Patch) /\ a \in Optional(AccountIds)
  BY NullAssumption DEF Born, Optional
<1>3. /\ Begun(q0, "patch", a) /\ req[r].sid = NULL
      /\ \A b \in AccountIds : ~ChangesNow(req[r], b)
  BY <1>1, <1>2, StartedFields DEF Kinds
<1> HIDE DEF q0
<1>4. /\ q \in Request /\ q.kind = "patch" /\ q.sid = NULL /\ q.patch = c /\ q.intent = "login"
      /\ q.account = a /\ q.dead = q0.dead /\ q.answer = "none" /\ q.pw = NULL
  BY <1>2, <1>3 DEF Begun, Request
<1>5. /\ p \in Request /\ p.kind = "patch" /\ p.sid = NULL /\ p.patch = c
      /\ p.account = a /\ p.dead = q0.dead /\ p.answer = "none" /\ p.pc = "patchRead"
  BY <1>4 DEF At, Request, PCs
<1> HIDE DEF p, q
<1>6. ~row[a].disabled => a \notin q0.dead
  BY <1>3 DEF Begun
<1>7. CASE row[a].disabled /\ Becomes(r, Answered(q, "disabled"))
  BY <1>1, <1>3, <1>4, <1>7, Refusal, SameTables DEF Answers, Fine
<1>8. CASE ~row[a].disabled /\ Becomes(r, Answered(q, "ok"))
  <2>1. Grounded(q, row', oauth')
    BY <1>1, <1>2, <1>3, <1>4 DEF Grounded, SignedIn, Begun
  <2> QED BY <1>1, <1>3, <1>4, <1>6, <1>8, <2>1, Grant, SameTables DEF Fine
<1>9. CASE ~row[a].disabled /\ Becomes(r, p)
  <2>1. Placed(p)
    BY <1>2, <1>5, <1>6, <1>9 DEF Placed, Admitted, ServesAccount, ServesGoogle
  <2>2. Grounded(p, row', oauth')
    BY <1>1, <1>2, <1>3, <1>5 DEF Grounded, SignedIn, Begun
  <2>3. Quiet(req[r], p, row')
    BY <1>3, <1>5 DEF Quiet, HoldsPw, ChangesNow
  <2> QED BY <1>1, <1>3, <1>5, <1>9, <2>1, <2>2, <2>3, SameTables DEF Fine, Moves
<1> QED BY <1>1, <1>7, <1>8, <1>9

\* PATCH writes on only if its body leaves one of the identifiers it just read.
LEMMA PatchReadFine ==
  ASSUME Local, NEW r \in Requests, PatchRead(r)
  PROVE  Fine(r)
<1> DEFINE q == req[r]
           a == q.account
           x == [q EXCEPT !.before = Names(a)]
           p == At(x, "patchWrite")
           effective == Patched(row[a], x.patch)
<1>1. /\ q.pc = "patchRead" /\ UNCHANGED <<row, oauth>>
      /\ \/ Becomes(r, Answered(x, "required"))
         \/ ~(effective.username = NULL /\ effective.email = NULL) /\ Becomes(r, p)
  BY DEF PatchRead
<1>2. /\ q \in Request /\ Grounded(q, row, oauth) /\ q.answer = "none" /\ q.kind = "patch"
      /\ q.patch \in Patch /\ a \in AccountIds /\ row[a] \in Row /\ a # NULL
      /\ (q.intent = "login" => a \notin q.dead)
      /\ \A b \in AccountIds : ~ChangesNow(q, b)
  BY <1>1, Serving DEF Placed, ServesAccount, Request, Optional, Admitted
<1>3. Names(a) \subseteq Identifiers
  BY <1>2 DEF Names, Identifiers, Row, Optional
<1>4. /\ x \in Request /\ x.kind = "patch" /\ x.sid = q.sid /\ x.patch = q.patch
      /\ x.intent = q.intent /\ x.before = Names(a)
      /\ x.account = a /\ x.dead = q.dead /\ x.answer = "none"
  BY <1>2, <1>3 DEF Request
<1> HIDE DEF x, q
<1>5. /\ p \in Request /\ p.kind = "patch" /\ p.sid = q.sid /\ p.patch = q.patch
      /\ p.intent = q.intent /\ p.before = Names(a) /\ p.pc = "patchWrite"
      /\ p.account = a /\ p.dead = q.dead /\ p.answer = "none"
  BY <1>4 DEF At, Request, PCs
<1> HIDE DEF p
<1>6. CASE Becomes(r, Answered(x, "required"))
  BY <1>1, <1>2, <1>4, <1>6, Refusal, SameTables DEF Grounded, Answers, Fine, q
<1>7. CASE ~(effective.username = NULL /\ effective.email = NULL) /\ Becomes(r, p)
  <2>1. LeavesName(p)
    <3>1. /\ row[a].username \in Optional(Usernames) /\ row[a].email \in Optional(Emails)
          /\ row[a].username # NULL => row[a].username \in Names(a) \cap Usernames
          /\ row[a].email # NULL => row[a].email \in Names(a) \cap Emails
      BY <1>2 DEF Row, Names, Optional
    <3>2. /\ effective.username = IF q.patch.username = "keep" THEN row[a].username
                                                               ELSE q.patch.username
          /\ effective.email = IF q.patch.email = "keep" THEN row[a].email ELSE q.patch.email
      BY <1>2, <1>4, PatchedType
    <3> HIDE DEF effective
    <3> QED BY <1>5, <1>7, <3>1, <3>2 DEF LeavesName
  <2>2. q.patch # NULL
    BY <1>2, NullAssumption
  <2>3. Placed(p)
    BY <1>2, <1>5, <2>1, <2>2 DEF Placed, Admitted, ServesAccount, ServesGoogle
  <2>4. Grounded(p, row', oauth')
    BY <1>1, <1>2, <1>5 DEF Grounded, SignedIn
  <2>5. Quiet(q, p, row')
    BY <1>2, <1>5 DEF Quiet, HoldsPw, ChangesNow
  <2> QED BY <1>1, <1>5, <1>7, <2>3, <2>4, <2>5, SameTables DEF Fine, Moves, q
<1> QED BY <1>1, <1>6, <1>7

LEMMA PatchWriteFine ==
  ASSUME Local, NEW r \in Requests, PatchWrite(r)
  PROVE  Fine(r)
<1> DEFINE q == req[r]
           new == Patched(row[q.account], q.patch)
<1>1. /\ q.pc = "patchWrite" /\ UNCHANGED oauth
      /\ \/ row' = [row EXCEPT ![q.account] = new] /\ Becomes(r, Answered(q, "ok"))
         \/ UNCHANGED row /\ Becomes(r, Answered(q, "taken"))
  BY DEF PatchWrite, WriteRow, Refused
<1>2. /\ q \in Request /\ Grounded(q, row, oauth) /\ q.answer = "none" /\ q.kind = "patch"
      /\ q.patch \in Patch /\ q.account \in AccountIds /\ row[q.account] \in Row
      /\ (q.intent = "login" => q.account \notin q.dead)
      /\ \A b \in AccountIds : ~ChangesNow(q, b)
  BY <1>1, Serving DEF Placed, ServesAccount, Request, Optional, Admitted
<1>3. /\ new # NULL /\ new.google = row[q.account].google
      /\ (new.disabled <=> row[q.account].disabled)
  BY <1>2, PatchedType
<1> HIDE DEF q, new
<1>4. CASE row' = [row EXCEPT ![q.account] = new] /\ Becomes(r, Answered(q, "ok"))
  <2>1. RowsGrow /\ GoneStays
    BY <1>1, <1>2, <1>3, <1>4, WrittenRow, SameTables DEF Local
  <2>2. Grounded(q, row', oauth')
    BY <1>2, <2>1, GroundedStays DEF Local
  <2> QED BY <1>2, <1>4, <2>1, <2>2, Grant DEF Fine, q
<1>5. CASE UNCHANGED row /\ Becomes(r, Answered(q, "taken"))
  BY <1>1, <1>2, <1>5, Refusal, SameTables DEF Grounded, Answers, Fine, q
<1> QED BY <1>1, <1>4, <1>5

LEMMA DisableLiveFine ==
  ASSUME Local, NEW r \in Requests, NEW a \in Born, DisableLive(r, a)
  PROVE  Fine(r)
<1> DEFINE q == Started(r, "disable", a)
           p == At(q, "disableWrite")
<1>1. /\ req[r].pc = "idle" /\ UNCHANGED <<row, oauth>>
      /\ \/ Becomes(r, Answered(q, "disabled"))
         \/ ~row[a].disabled /\ Becomes(r, p)
  BY DEF DisableLive, Open
<1>2. a \in AccountIds /\ row[a] # NULL /\ a # NULL /\ a \in Optional(AccountIds)
  BY NullAssumption DEF Born, Optional
<1>3. /\ Begun(q, "disable", a) /\ req[r].sid = NULL
      /\ \A b \in AccountIds : ~ChangesNow(req[r], b)
  BY <1>1, <1>2, StartedFields DEF Kinds
<1> HIDE DEF q
<1>4. q \in Request /\ q.kind = "disable" /\ q.sid = NULL
  BY <1>3 DEF Begun
<1>5. /\ p \in Request /\ p.kind = "disable" /\ p.sid = NULL /\ p.account = a
      /\ p.dead = q.dead /\ p.answer = "none" /\ p.pc = "disableWrite"
  BY <1>3 DEF At, Request, PCs, Begun
<1> HIDE DEF p
<1>6. CASE Becomes(r, Answered(q, "disabled"))
  BY <1>1, <1>3, <1>4, <1>6, Refusal, SameTables DEF Answers, Fine
<1>7. CASE ~row[a].disabled /\ Becomes(r, p)
  <2>1. a \notin p.dead
    BY <1>3, <1>5, <1>7 DEF Begun
  <2>2. Placed(p)
    BY <1>2, <1>5, <2>1 DEF Placed, Admitted, ServesAccount, ServesGoogle
  <2>3. Grounded(p, row', oauth')
    BY <1>1, <1>2, <1>3, <1>5 DEF Grounded, SignedIn, Begun
  <2>4. Quiet(req[r], p, row')
    BY <1>3, <1>5 DEF Quiet, HoldsPw, ChangesNow
  <2> QED BY <1>1, <1>3, <1>5, <1>7, <2>2, <2>3, <2>4, SameTables DEF Fine, Moves
<1> QED BY <1>1, <1>6, <1>7

LEMMA DisableWriteFine ==
  ASSUME Local, NEW r \in Requests, DisableWrite(r)
  PROVE  Fine(r)
<1> DEFINE q == req[r]
           p == At(q, "sweep")
<1>1. /\ q.pc = "disableWrite" /\ UNCHANGED oauth /\ Becomes(r, p)
      /\ row' = [row EXCEPT ![q.account].disabled = TRUE]
  BY DEF DisableWrite
<1>2. /\ q \in Request /\ Grounded(q, row, oauth) /\ q.answer = "none" /\ q.kind = "disable"
      /\ q.account \in AccountIds /\ q.account # NULL /\ row[q.account] # NULL
      /\ (q.intent = "login" => q.account \notin q.dead)
      /\ \A b \in AccountIds : ~ChangesNow(q, b)
  BY <1>1, Serving DEF Placed, ServesAccount, Admitted
<1>3. RowsGrow /\ GoneStays
  BY <1>1, <1>2, DisabledColumn, SameTables DEF Local
<1>4. Grounded(q, row', oauth')
  BY <1>2, <1>3, GroundedStays DEF Local
<1> HIDE DEF q
<1>5. /\ p \in Request /\ p.kind = "disable" /\ p.sid = q.sid /\ p.account = q.account
      /\ p.dead = q.dead /\ p.answer = "none" /\ p.pc = "sweep" /\ p.intent = q.intent
  BY <1>2 DEF At, Request, PCs
<1> HIDE DEF p
<1>6. Placed(p)
  BY <1>2, <1>5 DEF Placed, Admitted, ServesAccount, ServesGoogle
<1>7. Grounded(p, row', oauth')
  BY <1>4, <1>5 DEF Grounded, SignedIn
<1>8. Quiet(q, p, row')
  BY <1>2, <1>5 DEF Quiet, HoldsPw, ChangesNow
<1> QED BY <1>1, <1>3, <1>5, <1>6, <1>7, <1>8 DEF Fine, Moves, p, q

-----------------------------------------------------------------------------
(* Tokens                                                                  *)

\* A refresh takes on what its session was opened with.
LEMMA RefreshConsumeMoves ==
  ASSUME Local, NEW r \in Requests, NEW s \in Requests, RefreshConsume(r, s),
         session[s].account \in Born
  PROVE  /\ RowsGrow /\ GoneStays
         /\ \A b \in AccountIds : ~ChangesNow(req[r], b)
         /\ \E p : /\ Becomes(r, p) /\ Moves(req[r], p, row', oauth')
                   /\ p.account = session[s].account /\ p.pw = session[s].pw
                   /\ (p.raced <=> session[s].raced) /\ p.kind = "refresh"
<1> DEFINE t == session[s]
           q == Started(r, "refresh", t.account)
           x == [q EXCEPT !.pw = t.pw, !.raced = t.raced]
           p == At(x, "account")
<1>1. /\ req[r].pc = "idle" /\ UNCHANGED <<row, oauth>> /\ t # NULL /\ Becomes(r, p)
  BY DEF RefreshConsume, Open
<1>2. t \in Session
  BY <1>1 DEF Local, TypeOK, Optional
<1>3. /\ t.account \in AccountIds /\ row[t.account] # NULL /\ t.account # NULL
      /\ t.account \in Optional(AccountIds) /\ t.pw \in Optional(Passwords)
      /\ t.raced \in BOOLEAN
  BY <1>2, NullAssumption DEF Session, Born, Optional
<1>4. /\ Begun(q, "refresh", t.account) /\ req[r].sid = NULL
      /\ \A b \in AccountIds : ~ChangesNow(req[r], b)
  BY <1>1, <1>3, StartedFields DEF Kinds
<1> HIDE DEF q, t
<1>5. /\ x \in Request /\ x.kind = "refresh" /\ x.sid = NULL /\ x.account = t.account
      /\ x.dead = q.dead /\ x.answer = "none" /\ x.pw = t.pw /\ (x.raced <=> t.raced)
  BY <1>3, <1>4 DEF Begun, Request
<1> HIDE DEF x
<1>6. /\ p \in Request /\ p.kind = "refresh" /\ p.sid = NULL /\ p.account = t.account
      /\ p.dead = q.dead /\ p.answer = "none" /\ p.pw = t.pw /\ (p.raced <=> t.raced)
      /\ p.pc = "account"
  BY <1>5 DEF At, Request, PCs
<1> HIDE DEF p
<1>7. Placed(p)
  BY <1>3, <1>6 DEF Placed, Admitted, ServesAccount, ServesGoogle
<1>8. Grounded(p, row', oauth')
  BY <1>1, <1>3, <1>4, <1>6 DEF Grounded, SignedIn, Begun
<1> QED BY <1>1, <1>4, <1>6, <1>7, <1>8, SameTables DEF Moves, t

LEMMA RefreshAccountFine ==
  ASSUME Local, NEW r \in Requests, RefreshAccount(r)
  PROVE  Fine(r)
<1> DEFINE q == req[r]
           p(pc) == At(q, pc)
<1>1. /\ q.pc = "account" /\ UNCHANGED <<row, oauth>>
      /\ \/ Becomes(r, p("sweep"))
         \/ ~row[q.account].disabled /\ Becomes(r, p("issue"))
  BY DEF RefreshAccount
<1>2. /\ q \in Request /\ Grounded(q, row, oauth) /\ q.answer = "none" /\ q.kind = "refresh"
      /\ q.account \in AccountIds /\ q.account # NULL /\ row[q.account] # NULL
      /\ \A b \in AccountIds : ~ChangesNow(q, b)
  BY <1>1, Serving DEF Placed, ServesAccount
<1> HIDE DEF q
<1>3. ASSUME NEW pc \in {"sweep", "issue"}, Becomes(r, p(pc)),
             pc = "issue" => ~row[q.account].disabled
      PROVE  Fine(r)
  <2>1. /\ p(pc) \in Request /\ p(pc).kind = "refresh" /\ p(pc).sid = q.sid /\ p(pc).pc = pc
        /\ p(pc).account = q.account /\ p(pc).dead = q.dead /\ p(pc).answer = "none"
        /\ p(pc).pw = q.pw /\ p(pc).raced = q.raced
    BY <1>2 DEF At, Request, PCs
  <2> HIDE DEF p
  <2>2. pc = "issue" => q.account \notin q.dead
    BY <1>2, <1>3 DEF Grounded
  <2>3. Placed(p(pc))
    BY <1>2, <2>1, <2>2 DEF Placed, Admitted, ServesAccount, ServesGoogle
  <2>4. Grounded(p(pc), row', oauth')
    BY <1>1, <1>2, <2>1 DEF Grounded, SignedIn
  <2>5. Quiet(q, p(pc), row')
    BY <1>1, <1>2, <2>1 DEF Quiet, HoldsPw, ChangesNow
  <2> QED BY <1>1, <1>3, <2>1, <2>3, <2>4, <2>5, SameTables DEF Fine, Moves, q
<1> QED BY <1>1, <1>3

\* What a request that dies leaves behind.
LEMMA LoseMoves ==
  ASSUME Local, NEW r \in Requests, Lose(r)
  PROVE  /\ RowsGrow /\ GoneStays
         /\ \E p : /\ Becomes(r, p) /\ Moves(req[r], p, row', oauth')
                   /\ ~HoldsPw(p) /\ \A a \in AccountIds : ~ChangesNow(p, a)
<1> DEFINE q == req[r]
           p == Lost(q)
<1>1. UNCHANGED <<row, oauth>> /\ Becomes(r, p) /\ q.pc # "done"
  BY DEF Lose
<1>2. q \in Request /\ Grounded(q, row, oauth) /\ q.answer = "none"
  BY <1>1, Serving DEF Placed
<1> HIDE DEF q
<1>3. /\ p \in Request /\ p.pc = "lost" /\ p.answer = "none" /\ p.kind = q.kind
      /\ p.sid = q.sid /\ p.barred = FALSE /\ p.account = NULL /\ p.dead = {}
  BY <1>2, LostFields
<1> HIDE DEF p
<1>4. Placed(p)
  BY <1>3 DEF Placed, Admitted, ServesAccount, ServesGoogle
<1>5. Grounded(p, row', oauth')
  BY <1>1, <1>2, <1>3 DEF Grounded, SignedIn
<1> QED BY <1>1, <1>3, <1>4, <1>5, SameTables DEF Moves, HoldsPw, ChangesNow, q

-----------------------------------------------------------------------------
(* The sweeps, which also mark the other requests for their account        *)

LEMMA RacedFields ==
  ASSUME Local, NEW s \in Requests, NEW a, NEW p, p = Raced(req[s], s, a),
         UNCHANGED <<row, oauth>>
  PROVE  /\ p \in Request /\ Placed(p) /\ Grounded(p, row', oauth')
         /\ p.sid = req[s].sid /\ p.pc = req[s].pc /\ p.kind = req[s].kind
         /\ p.account = req[s].account /\ p.pw = req[s].pw
         /\ req[s].raced \/ s \in InFlight(a) => p.raced
<1> DEFINE q == req[s]
<1>1. q \in Request /\ Placed(q) /\ Grounded(q, row', oauth')
  BY Serving
<1>2. CASE s \notin InFlight(a)
  BY <1>1, <1>2 DEF Raced
<1>3. CASE s \in InFlight(a)
  <2>1. q.pc # "idle"
    BY <1>1, <1>3 DEF InFlight, Placed, Idle
  <2>2. p = [q EXCEPT !.raced = TRUE]
    BY <1>3 DEF Raced
  <2> HIDE DEF q
  <2>3. /\ p \in Request /\ p.pc = q.pc /\ p.kind = q.kind /\ p.answer = q.answer
        /\ p.account = q.account /\ p.ident = q.ident /\ p.pw = q.pw /\ p.sid = q.sid
        /\ p.intent = q.intent /\ p.sub = q.sub /\ p.patch = q.patch /\ p.before = q.before
        /\ p.dead = q.dead /\ p.barred = q.barred /\ p.raced
    BY <1>1, <2>2 DEF Request
  <2>4. Placed(p)
    BY <1>1, <2>1, <2>3 DEF Placed, Admitted, LeavesName
  <2>5. Grounded(p, row', oauth')
    BY <1>1, <2>3 DEF Grounded, SignedIn
  <2> QED BY <2>3, <2>4, <2>5 DEF q
<1> QED BY <1>2, <1>3

\* What a sweep does to the requests: r goes on to p, the rest are marked.
Sweeps(r, p) ==
  \A s \in Requests : req'[s] = IF s = r THEN p ELSE Raced(req[s], s, req[r].account)

LEMMA SweepReadMoves ==
  ASSUME Local, NEW r \in Requests, SweepRead(r)
  PROVE  \E p : /\ Sweeps(r, p) /\ Moves(req[r], p, row', oauth') /\ p.sid = req[r].sid
                /\ req' \in [Requests -> Request]
                /\ p.kind = req[r].kind /\ p.account = req[r].account /\ p.pw = req[r].pw
                /\ (p.raced <=> req[r].raced) /\ p.pc = "sweepDelete"
<1> DEFINE q == req[r]
           x == [q EXCEPT !.ids = SessionsOf(q.account)]
           p == At(x, "sweepDelete")
<1>1. /\ q.pc = "sweep" /\ UNCHANGED <<row, oauth>>
      /\ req' = [s \in Requests |-> IF s = r THEN p ELSE Raced(req[s], s, q.account)]
  BY DEF SweepRead
<1>2. q \in Request /\ Placed(q) /\ Grounded(q, row', oauth') /\ q.answer = "none"
  BY <1>1, Serving DEF Placed
<1> HIDE DEF q
<1>3. SessionsOf(q.account) \subseteq Requests
  BY DEF SessionsOf
<1>4. /\ x \in Request /\ x.kind = q.kind /\ x.answer = q.answer /\ x.account = q.account
      /\ x.pw = q.pw /\ x.sid = q.sid /\ x.intent = q.intent /\ x.dead = q.dead
      /\ (x.raced <=> q.raced)
  BY <1>2, <1>3 DEF Request
<1> HIDE DEF x
<1>5. /\ p \in Request /\ p.kind = q.kind /\ p.answer = q.answer /\ p.account = q.account
      /\ p.pw = q.pw /\ p.sid = q.sid /\ p.intent = q.intent /\ p.dead = q.dead
      /\ (p.raced <=> q.raced) /\ p.pc = "sweepDelete"
  BY <1>4 DEF At, Request, PCs
<1> HIDE DEF p
<1>6. Placed(p)
  BY <1>1, <1>2, <1>5 DEF Placed, Admitted, ServesAccount, ServesGoogle
<1>7. Grounded(p, row', oauth')
  BY <1>1, <1>2, <1>5 DEF Grounded, SignedIn
<1>8. \A s \in Requests : Raced(req[s], s, q.account) \in Request
  BY <1>1, RacedFields
<1> QED BY <1>1, <1>2, <1>5, <1>6, <1>7, <1>8 DEF Sweeps, Moves, q

LEMMA SweepDeleteMoves ==
  ASSUME Local, NEW r \in Requests, SweepDelete(r)
  PROVE  \E p : /\ Sweeps(r, p) /\ Moves(req[r], p, row', oauth') /\ p.sid = req[r].sid
                /\ req' \in [Requests -> Request]
                /\ \A a \in AccountIds : ~ChangesNow(p, a)
                /\ HoldsPw(p) => /\ req[r].kind = "change" /\ p.account = req[r].account
                                 /\ p.pw = req[r].pw /\ (p.raced <=> req[r].raced)
<1> DEFINE q == req[r]
           x == [q EXCEPT !.ids = {}]
           p0 == At(x, "issue")
           p == IF x.kind = "change" THEN p0
                ELSE Answered(x, IF x.kind = "refresh" THEN "disabled" ELSE "ok")
<1>1. /\ q.pc = "sweepDelete" /\ UNCHANGED <<row, oauth>>
      /\ req' = [s \in Requests |-> IF s = r THEN p ELSE Raced(req[s], s, q.account)]
  BY DEF SweepDelete
<1>2. /\ q \in Request /\ Placed(q) /\ Grounded(q, row', oauth') /\ q.answer = "none"
      /\ q.kind \in {"disable", "refresh", "change"} /\ q.account # NULL
      /\ q.kind = "disable" /\ q.intent = "login" => q.account \notin q.dead
  BY <1>1, Serving DEF Placed, ServesAccount, Admitted
<1> HIDE DEF q
<1>3. /\ x \in Request /\ x.kind = q.kind /\ x.answer = q.answer /\ x.account = q.account
      /\ x.pw = q.pw /\ x.sid = q.sid /\ x.intent = q.intent /\ x.dead = q.dead
      /\ (x.raced <=> q.raced) /\ x.sub = q.sub
  BY <1>2 DEF Request
<1> HIDE DEF x
<1>4. Grounded(x, row', oauth')
  BY <1>2, <1>3 DEF Grounded, SignedIn
<1>5. CASE x.kind = "change"
  <2>1. /\ p0 \in Request /\ p0.kind = "change" /\ p0.answer = "none"
        /\ p0.account = q.account /\ p0.pw = q.pw /\ p0.sid = q.sid /\ p0.intent = q.intent
        /\ p0.dead = q.dead /\ (p0.raced <=> q.raced) /\ p0.pc = "issue"
    BY <1>2, <1>3, <1>5 DEF At, Request, PCs
  <2> HIDE DEF p0
  <2>2. Placed(p0)
    BY <1>2, <2>1 DEF Placed, Admitted, ServesAccount, ServesGoogle
  <2>3. Grounded(p0, row', oauth')
    BY <1>2, <2>1 DEF Grounded, SignedIn
  <2>4. \A s \in Requests : Raced(req[s], s, q.account) \in Request
    BY <1>1, RacedFields
  <2>5. p = p0
    BY <1>5
  <2> HIDE DEF p
  <2> QED
    BY <1>1, <1>3, <1>5, <2>1, <2>2, <2>3, <2>4, <2>5 DEF Sweeps, Moves, ChangesNow, HoldsPw, q
<1>6. CASE x.kind # "change"
  <2> DEFINE none == [x EXCEPT !.pc = "idle"]
  <2>1. none \in Request /\ none.sid = q.sid /\ none.pc = "idle"
    BY <1>3 DEF Request, PCs
  <2>2. \A a \in AccountIds : ~ChangesNow(none, a)
    BY <2>1 DEF ChangesNow
  <2>3. x.sid # NULL => oauth'[x.sid].intent = "gone"
    BY <1>4 DEF Grounded
  <2> HIDE DEF none
  <2>4. CASE x.kind = "refresh"
    <3>1. Moves(none, Answered(x, "disabled"), row', oauth')
      BY <1>3, <2>1, <2>2, <2>3, <2>4, Refusal DEF Answers
    <3>2. p = Answered(x, "disabled") /\ p.pc = "done" /\ p.sid = q.sid /\ p \in Request
      BY <1>3, <2>4, AnsweredFields DEF Answers
    <3> QED BY <1>1, <2>1, <3>1, <3>2, RacedFields DEF Sweeps, Moves, ChangesNow, HoldsPw, q
  <2>5. CASE x.kind = "disable"
    <3>1. Moves(none, Answered(x, "ok"), row', oauth')
      BY <1>2, <1>3, <1>4, <2>1, <2>2, <2>5, Grant
    <3>2. p = Answered(x, "ok") /\ p.pc = "done" /\ p.sid = q.sid /\ p \in Request
      BY <1>3, <2>5, AnsweredFields DEF Answers
    <3> QED BY <1>1, <2>1, <3>1, <3>2, RacedFields DEF Sweeps, Moves, ChangesNow, HoldsPw, q
  <2> QED BY <1>2, <1>3, <1>6, <2>4, <2>5
<1> QED BY <1>5, <1>6

-----------------------------------------------------------------------------
(* The tables, step by step                                                *)

RowsSound ==
  /\ row \in [AccountIds -> Optional(Row)] /\ blind \subseteq AccountIds
  /\ Unique(row) /\ NamedUnlessBlind

CountersSound ==
  failures \in [Identifiers -> Nat] /\ failed \in [Identifiers -> Nat] /\ failed = failures

OAuthSound == oauth \in [Sids -> OAuthSession] /\ LinksOwned

SessionsSound ==
  /\ session \in [Requests -> Optional(Session)] /\ torn \subseteq AccountIds
  /\ \A s \in Requests : session[s] # NULL => session[s].account \in Born

Sound == RowsSound /\ CountersSound /\ OAuthSound /\ SessionsSound

LEMMA IdentityParts ==
  /\ IdentityInv <=>
       /\ Sound /\ OAuthSessionOnce
       /\ req \in [Requests -> Request]
       /\ \A r \in Requests : Placed(req[r]) /\ Grounded(req[r], row, oauth)
  /\ IdentityInv' <=>
       /\ Sound' /\ OAuthSessionOnce'
       /\ req' \in [Requests -> Request]
       /\ \A r \in Requests : Placed(req'[r]) /\ Grounded(req'[r], row', oauth')
BY DEF IdentityInv, Sound, RowsSound, CountersSound, OAuthSound, SessionsSound, TypeOK, LinksOwned

LEMMA SoundStays ==
  /\ Sound /\ UNCHANGED <<row, failures, oauth, session, failed, blind, torn>> => Sound'
  /\ CountersSound /\ UNCHANGED <<failures, failed>> => CountersSound'
  /\ OAuthSound /\ UNCHANGED oauth => OAuthSound'
  /\ RowsSound /\ UNCHANGED <<row, blind>> => RowsSound'
<1>1. CountersSound /\ UNCHANGED <<failures, failed>> => CountersSound'
  BY DEF CountersSound
<1>2. OAuthSound /\ UNCHANGED oauth => OAuthSound'
  BY DEF OAuthSound, LinksOwned
<1>3. RowsSound /\ UNCHANGED <<row, blind>> => RowsSound'
  BY DEF RowsSound, NamedUnlessBlind, Born, Names
<1>4. SessionsSound /\ UNCHANGED <<row, session, torn>> => SessionsSound'
  BY DEF SessionsSound, Born
<1> QED BY <1>1, <1>2, <1>3, <1>4 DEF Sound

LEMMA SessionsStay ==
  ASSUME SessionsSound, RowsGrow, session' \in [Requests -> Optional(Session)],
         torn' \subseteq AccountIds,
         \A s \in Requests : session'[s] # NULL =>
           \/ session'[s].account \in Born
           \/ session[s] # NULL /\ session'[s].account = session[s].account
  PROVE  SessionsSound'
BY DEF SessionsSound, RowsGrow, Born

\* The password of a row there was is the one it had.
PasswordsStay == \A a \in AccountIds : row[a] # NULL => row'[a].password = row[a].password

\* One INSERT or UPDATE that does not set a password.
LEMMA RowWritten ==
  ASSUME RowsSound, NEW a \in AccountIds, NEW new \in Row, new # NULL, WriteRow(a, new),
         blind \subseteq blind', blind' \subseteq AccountIds,
         new.username # NULL \/ new.email # NULL \/ a \in blind',
         row[a] # NULL => new.password = row[a].password
  PROVE  RowsSound' /\ PasswordsStay
<1>1. /\ row \in [AccountIds -> Optional(Row)] /\ row' = [row EXCEPT ![a] = new]
      /\ Unique(row')
  BY DEF RowsSound, WriteRow
<1>2. row'[a] = new /\ \A b \in AccountIds \ {a} : row'[b] = row[b]
  BY <1>1
<1>3. row' \in [AccountIds -> Optional(Row)]
  BY <1>1 DEF Optional
<1>4. \A b \in AccountIds : row'[b] # NULL /\ {row'[b].username, row'[b].email} \ {NULL} = {}
                              => b \in blind'
  <2>1. ASSUME NEW b \in AccountIds \ {a}, row'[b] # NULL,
               {row'[b].username, row'[b].email} \ {NULL} = {}
        PROVE  b \in blind'
    BY <1>2, <2>1 DEF RowsSound, NamedUnlessBlind, Born, Names
  <2>2. {new.username, new.email} \ {NULL} = {} => a \in blind'
    OBVIOUS
  <2> QED BY <1>2, <2>1, <2>2
<1>5. NamedUnlessBlind'
  BY <1>4 DEF NamedUnlessBlind, Born, Names
<1> QED BY <1>1, <1>2, <1>3, <1>5 DEF RowsSound, PasswordsStay

\* A write to a column that no constraint and no name is about.
LEMMA ColumnWritten ==
  ASSUME RowsSound, UNCHANGED blind, row' \in [AccountIds -> Optional(Row)],
         \A b \in AccountIds : row'[b] # NULL => row[b] # NULL,
         \A b \in AccountIds : row[b] # NULL =>
           /\ row'[b].username = row[b].username /\ row'[b].email = row[b].email
           /\ row'[b].google = row[b].google
  PROVE  RowsSound'
<1>1. Unique(row')
  BY DEF RowsSound, Unique
<1>2. NamedUnlessBlind'
  BY DEF RowsSound, NamedUnlessBlind, Born, Names
<1> QED BY <1>1, <1>2 DEF RowsSound

LEMMA RegisterRows ==
  ASSUME RowsSound, NEW r, NEW u \in Optional(Usernames), NEW e \in Optional(Emails),
         NEW pw \in Passwords, Register(r, u, e, pw)
  PROVE  RowsSound' /\ PasswordsStay
<1>1. CASE UNCHANGED row
  BY <1>1, SoundStays DEF Register, PasswordsStay
<1>2. CASE \E a \in AccountIds \ Born :
             {u, e} # {NULL} /\ WriteRow(a, Fresh(u, e, pw, NULL))
  <2> PICK a \in AccountIds \ Born : {u, e} # {NULL} /\ WriteRow(a, Fresh(u, e, pw, NULL))
    BY <1>2
  <2> DEFINE new == Fresh(u, e, pw, NULL)
  <2>1. new \in Row /\ new # NULL /\ new.username = u /\ new.email = e
    <3>1. pw \in Optional(Passwords) /\ NULL \in Optional(Subs)
      BY DEF Optional
    <3> QED BY <3>1, FreshType
  <2>2. row[a] = NULL /\ UNCHANGED blind
    BY DEF Born, Register
  <2> HIDE DEF new
  <2>3. WriteRow(a, new)
    BY DEF new
  <2> QED BY <2>1, <2>2, <2>3, RowWritten DEF RowsSound
<1>3. UNCHANGED row
      \/ \E a \in AccountIds \ Born : {u, e} # {NULL} /\ WriteRow(a, Fresh(u, e, pw, NULL))
  BY DEF Register, Refused
<1> QED BY <1>1, <1>2, <1>3

LEMMA GoogleCreateRows ==
  ASSUME Local, RowsSound, NEW r \in Requests, GoogleCreate(r)
  PROVE  RowsSound' /\ PasswordsStay
<1> DEFINE q == req[r]
           new == Fresh(NULL, EmailOf[q.sub], NULL, q.sub)
<1>1. \/ UNCHANGED row
      \/ \E a \in AccountIds \ Born : WriteRow(a, new)
  BY DEF GoogleCreate, Refused
<1>2. CASE UNCHANGED row
  BY <1>2, SoundStays DEF GoogleCreate, PasswordsStay
<1>3. CASE \E a \in AccountIds \ Born : WriteRow(a, new)
  <2> PICK a \in AccountIds \ Born : WriteRow(a, new)
    BY <1>3
  <2>1. q.sub \in Subs
    BY AtExchange DEF GoogleCreate, ServesGoogle
  <2>2. /\ NULL \in Optional(Usernames) /\ NULL \in Optional(Passwords)
        /\ EmailOf[q.sub] \in Optional(Emails) /\ q.sub \in Optional(Subs)
        /\ EmailOf[q.sub] # NULL
    BY <2>1, AccountsAssumption, NullAssumption DEF Optional
  <2>3. new \in Row /\ new # NULL /\ new.email # NULL
    BY <2>2, FreshType
  <2>4. row[a] = NULL /\ UNCHANGED blind
    BY DEF Born, GoogleCreate
  <2> HIDE DEF new
  <2> QED BY <2>3, <2>4, RowWritten DEF RowsSound
<1> QED BY <1>1, <1>2, <1>3

LEMMA LinkCreateRows ==
  ASSUME Local, RowsSound, NEW r \in Requests, LinkCreate(r)
  PROVE  RowsSound' /\ PasswordsStay
<1> DEFINE q == req[r]
           a == q.account
           new == [row[a] EXCEPT !.google = q.sub]
<1>1. UNCHANGED blind /\ (UNCHANGED row \/ WriteRow(a, new))
  BY DEF LinkCreate, Refused
<1>2. CASE UNCHANGED row
  BY <1>1, <1>2, SoundStays DEF PasswordsStay
<1>3. CASE WriteRow(a, new)
  <2>1. q.sub \in Subs /\ q.pc = "link"
    BY AtExchange DEF LinkCreate, ServesGoogle
  <2>2. a \in AccountIds /\ row[a] \in Row /\ row[a] # NULL
    BY <2>1, Serving, NullAssumption DEF ServesAccount
  <2>3. /\ new \in Row /\ new.username = row[a].username /\ new.email = row[a].email
        /\ new.password = row[a].password
    BY <2>1, <2>2 DEF Row, Optional
  <2>4. row[a].username # NULL \/ row[a].email # NULL \/ a \in blind
    BY <2>2 DEF RowsSound, NamedUnlessBlind, Born, Names
  <2> HIDE DEF new, a
  <2> QED BY <1>1, <1>3, <2>2, <2>3, <2>4, RowWritten, NullAssumption DEF RowsSound
<1> QED BY <1>1, <1>2, <1>3

\* A patch that wrote over what it had read leaves a name.
LEMMA PatchWriteRows ==
  ASSUME Local, RowsSound, NEW r \in Requests, PatchWrite(r)
  PROVE  RowsSound' /\ PasswordsStay
<1> DEFINE q == req[r]
           a == q.account
           new == Patched(row[a], q.patch)
<1>1. \/ UNCHANGED <<row, blind>>
      \/ WriteRow(a, new) /\ blind' = IF Names(a) # q.before THEN blind \cup {a} ELSE blind
  BY DEF PatchWrite, Refused
<1>2. CASE UNCHANGED <<row, blind>>
  BY <1>2, SoundStays DEF PasswordsStay
<1>3. CASE WriteRow(a, new) /\ blind' = IF Names(a) # q.before THEN blind \cup {a} ELSE blind
  <2>1. /\ q.patch \in Patch /\ a \in AccountIds /\ row[a] \in Row /\ row[a] # NULL
        /\ LeavesName(q)
    BY Serving DEF PatchWrite, Placed, ServesAccount, Request, Optional
  <2>2. /\ new \in Row /\ new # NULL /\ new.password = row[a].password
        /\ new.username = IF q.patch.username = "keep" THEN row[a].username
                                                       ELSE q.patch.username
        /\ new.email = IF q.patch.email = "keep" THEN row[a].email ELSE q.patch.email
    BY <2>1, PatchedType
  <2>3. /\ Names(a) \cap Usernames # {} => row[a].username # NULL
        /\ Names(a) \cap Emails # {} => row[a].email # NULL
    BY <2>1, AccountsAssumption DEF Names, Row, Optional
  <2>4. Names(a) = q.before => new.username # NULL \/ new.email # NULL
    BY <2>1, <2>2, <2>3 DEF LeavesName
  <2> HIDE DEF new, a
  <2>5. /\ new.username # NULL \/ new.email # NULL \/ a \in blind'
        /\ blind \subseteq blind' /\ blind' \subseteq AccountIds
    BY <1>3, <2>1, <2>4 DEF RowsSound
  <2> QED BY <1>3, <2>1, <2>2, <2>5, RowWritten
<1> QED BY <1>1, <1>2, <1>3

-----------------------------------------------------------------------------
(* Stale passwords                                                         *)

Outdated(rows, a, pw) == pw # NULL /\ pw # rows[a].password

SessionsExcused(rows, sessions, died, records) ==
  \A s \in Requests :
    sessions[s] # NULL /\ Outdated(rows, sessions[s].account, sessions[s].pw) =>
      \/ sessions[s].raced \/ sessions[s].account \in died
      \/ \E c \in Requests : ChangesNow(records[c], sessions[s].account)

HoldersExcused(rows, died, records) ==
  \A r \in Requests :
    HoldsPw(records[r]) /\ Outdated(rows, records[r].account, records[r].pw) =>
      \/ records[r].raced \/ records[r].account \in died
      \/ \E c \in Requests \ {r} : ChangesNow(records[c], records[r].account)

LEMMA StaleParts ==
  /\ StaleInv <=> SessionsExcused(row, session, torn, req) /\ HoldersExcused(row, torn, req)
  /\ StaleInv' <=> SessionsExcused(row', session', torn', req')
                   /\ HoldersExcused(row', torn', req')
BY DEF StaleInv, StaleSessionsRaced, Changing, Stale, ChangesNow, SessionsExcused,
       HoldersExcused, Outdated

\* A request that holds a password is for an account there is.
LEMMA HoldersServe ==
  ASSUME Local, NEW r \in Requests, HoldsPw(req[r])
  PROVE  req[r].account \in AccountIds /\ row[req[r].account] # NULL
<1>1. req[r].pc \in ServesAccount
  BY DEF HoldsPw, ChangesNow, ServesAccount
<1>2. req[r] \in Request /\ Placed(req[r])
  BY Serving
<1> QED BY <1>1, <1>2, Serving DEF Placed

LEMMA SessionsOwned ==
  ASSUME SessionsSound, NEW s \in Requests, session[s] # NULL
  PROVE  session[s].account \in AccountIds /\ row[session[s].account] # NULL
BY DEF SessionsSound, Born

\* A quiet step of r leaves the stale sessions and requests excused.
LEMMA QuietStale ==
  ASSUME Local, SessionsSound, StaleInv, NEW r \in Requests, NEW p, Becomes(r, p),
         Quiet(req[r], p, row'), PasswordsStay, UNCHANGED torn
  PROVE  SessionsExcused(row', session, torn', req') /\ HoldersExcused(row', torn', req')
<1>1. /\ req'[r] = p
      /\ \A s \in Requests \ {r} : req'[s] = req[s]
  BY DEF Local, TypeOK, Becomes
<1>2. \A a \in AccountIds, c \in Requests : ChangesNow(req[c], a) => ChangesNow(req'[c], a)
  BY <1>1 DEF Quiet
<1>3. SessionsExcused(row', session, torn', req')
  BY <1>2, StaleParts, SessionsOwned DEF SessionsExcused, Outdated, PasswordsStay
<1>4. ASSUME NEW s \in Requests, HoldsPw(req[s]), HoldsPw(req'[s]),
             Outdated(row', req[s].account, req[s].pw)
      PROVE  \/ req[s].raced \/ req[s].account \in torn'
             \/ \E c \in Requests \ {s} : ChangesNow(req'[c], req[s].account)
  BY <1>2, <1>4, StaleParts, HoldersServe DEF HoldersExcused, Outdated, PasswordsStay
<1>5. ASSUME NEW s \in Requests, HoldsPw(req'[s]),
             Outdated(row', req'[s].account, req'[s].pw)
      PROVE  /\ HoldsPw(req[s]) /\ req'[s].account = req[s].account /\ req'[s].pw = req[s].pw
             /\ req[s].raced => req'[s].raced
  BY <1>1, <1>5 DEF Quiet, Outdated
<1>6. HoldersExcused(row', torn', req')
  BY <1>4, <1>5 DEF HoldersExcused
<1> QED BY <1>3, <1>6

-----------------------------------------------------------------------------
(* One step keeps the invariant                                            *)

LEMMA InvParts ==
  Inv => Local /\ Sound /\ OAuthSessionOnce /\ StaleInv
BY IdentityParts DEF Inv, Local, IdentityInv

LEMMA IdentityKept ==
  ASSUME Inv, NEW r \in Requests, NEW p, Becomes(r, p), Moves(req[r], p, row', oauth'),
         RowsGrow, GoneStays, Sound'
  PROVE  IdentityInv'
<1>1. Local /\ OAuthSessionOnce
  BY InvParts
<1>2. /\ req' \in [Requests -> Request]
      /\ \A s \in Requests : Placed(req'[s]) /\ Grounded(req'[s], row', oauth')
  BY <1>1, MovesLocal
<1>3. OAuthSessionOnce'
  BY <1>1, MovesOnce
<1> QED BY <1>2, <1>3, IdentityParts

\* Most steps: quiet, and the sessions stay.
LEMMA FineKeeps ==
  ASSUME Inv, NEW r \in Requests, Fine(r), Sound', PasswordsStay, UNCHANGED <<torn, session>>
  PROVE  Inv'
<1>1. Local /\ SessionsSound /\ StaleInv
  BY InvParts DEF Sound
<1>2. PICK p : Becomes(r, p) /\ Moves(req[r], p, row', oauth') /\ Quiet(req[r], p, row')
  BY DEF Fine
<1>3. IdentityInv'
  BY <1>2, IdentityKept DEF Fine
<1>4. StaleInv'
  BY <1>1, <1>2, QuietStale, StaleParts
<1> QED BY <1>3, <1>4 DEF Inv

LEMMA ReadOnlyKeeps ==
  ASSUME Inv, NEW r \in Requests, Fine(r),
         UNCHANGED <<row, failures, oauth, session, failed, blind, torn>>
  PROVE  Inv'
<1>1. Sound' /\ PasswordsStay
  BY InvParts, SoundStays DEF PasswordsStay
<1> QED BY <1>1, FineKeeps

\* The session stored is excused as its request was.
LEMMA IssueBundleKeeps ==
  ASSUME Inv, NEW r \in Requests, IssueBundle(r)
  PROVE  Inv'
<1> DEFINE q == req[r]
           new == [account |-> q.account, pw |-> q.pw, raced |-> q.raced]
<1>1. Local /\ Sound /\ StaleInv
  BY InvParts
<1>2. /\ session' = [session EXCEPT ![r] = new] /\ q.pc = "issue"
      /\ UNCHANGED <<row, failures, oauth, failed, blind, torn>>
  BY DEF IssueBundle
<1>3. q \in Request /\ q.account \in AccountIds /\ row[q.account] # NULL
  BY <1>1, <1>2, Serving, NullAssumption DEF ServesAccount
<1>4. /\ new \in Session /\ new # NULL /\ new.account = q.account /\ new.pw = q.pw
      /\ new.raced = q.raced
  <2>1. new \in Session
    BY <1>3 DEF Session, Request
  <2> QED BY <2>1, NullAssumption
<1> HIDE DEF new
<1>5. /\ session' \in [Requests -> Optional(Session)] /\ session'[r] = new
      /\ \A s \in Requests \ {r} : session'[s] = session[s]
  BY <1>1, <1>2, <1>4 DEF Local, TypeOK, Optional
<1>6. Fine(r)
  BY <1>1, IssueBundleFine
<1>7. SessionsSound'
  BY <1>1, <1>2, <1>3, <1>4, <1>5, <1>6, SessionsStay DEF Sound, SessionsSound, Born, Fine
<1>8. Sound'
  BY <1>1, <1>2, <1>7, SoundStays DEF Sound
<1>9. PICK p : Becomes(r, p) /\ Moves(req[r], p, row', oauth') /\ Quiet(req[r], p, row')
  BY <1>6 DEF Fine
<1>10. IdentityInv'
  BY <1>6, <1>8, <1>9, IdentityKept DEF Fine
<1>11. PasswordsStay
  BY <1>2 DEF PasswordsStay
<1>12. SessionsExcused(row', session, torn', req') /\ HoldersExcused(row', torn', req')
  BY <1>1, <1>2, <1>9, <1>11, QuietStale DEF Sound
<1>13. Outdated(row', q.account, q.pw) =>
         \/ q.raced \/ q.account \in torn'
         \/ \E c \in Requests : ChangesNow(req'[c], q.account)
  <2>1. Outdated(row, q.account, q.pw) =>
          \/ q.raced \/ q.account \in torn
          \/ \E c \in Requests \ {r} : ChangesNow(req[c], q.account)
    BY <1>1, <1>2, StaleParts DEF HoldersExcused, HoldsPw
  <2>2. \A c \in Requests \ {r} : req'[c] = req[c]
    BY <1>1, <1>9 DEF Local, TypeOK, Becomes
  <2> QED BY <1>2, <2>1, <2>2 DEF Outdated
<1>14. SessionsExcused(row', session', torn', req')
  BY <1>4, <1>5, <1>12, <1>13 DEF SessionsExcused
<1> QED BY <1>10, <1>12, <1>14, StaleParts DEF Inv

\* The password is written before the sessions are swept: every session it
\* makes stale, and every request that holds one, is excused by the change.
LEMMA ChangeWriteKeeps ==
  ASSUME Inv, NEW r \in Requests, ChangeWrite(r)
  PROVE  Inv'
<1> DEFINE q == req[r]
           a == q.account
<1>1. Local /\ Sound /\ StaleInv /\ TypeOK
  BY InvParts DEF Local
<1>2. /\ row' = [row EXCEPT ![a].password = q.pw] /\ q.pc = "changeWrite"
      /\ UNCHANGED <<failures, oauth, session, failed, blind, torn>>
  BY DEF ChangeWrite
<1>3. a \in AccountIds /\ row[a] # NULL /\ q.pw \in Passwords
  BY <1>1, <1>2, Serving DEF ServesAccount, Placed, Request, Optional
<1>4. PICK p : /\ Becomes(r, p) /\ Moves(q, p, row', oauth')
               /\ ChangesNow(p, a) /\ p.account = a
               /\ p.pw = row'[a].password
  BY <1>1, ChangeWriteMoves
<1>5. RowsGrow /\ GoneStays
  BY <1>1, ChangeWriteMoves
<1> HIDE DEF q, a
<1>6. /\ row' \in [AccountIds -> Optional(Row)]
      /\ \A b \in AccountIds : row[b] # NULL =>
           /\ row'[b].username = row[b].username /\ row'[b].email = row[b].email
           /\ row'[b].google = row[b].google
      /\ \A b \in AccountIds : row'[b] # NULL => row[b] # NULL
      /\ \A b \in AccountIds \ {a} : row'[b] = row[b]
  BY <1>1, <1>2, <1>3, PasswordColumn
<1>7. RowsSound'
  BY <1>1, <1>2, <1>6, ColumnWritten DEF Sound
<1>8. SessionsSound'
  BY <1>1, <1>2, <1>5, SessionsStay DEF Sound, SessionsSound
<1>9. Sound'
  BY <1>1, <1>2, <1>7, <1>8, SoundStays DEF Sound
<1>10. IdentityInv'
  BY <1>4, <1>5, <1>9, IdentityKept DEF q
<1>11. req'[r] = p /\ \A c \in Requests \ {r} : req'[c] = req[c]
  BY <1>1, <1>4 DEF TypeOK, Becomes
<1>12. \A b \in AccountIds, c \in Requests : ChangesNow(req[c], b) => ChangesNow(req'[c], b)
  BY <1>2, <1>11 DEF ChangesNow, q
<1>13. SessionsExcused(row', session', torn', req')
  <2>1. ASSUME NEW s \in Requests, session[s] # NULL, session[s].account # a,
               Outdated(row', session[s].account, session[s].pw)
        PROVE  \/ session[s].raced \/ session[s].account \in torn
               \/ \E c \in Requests : ChangesNow(req'[c], session[s].account)
    <3>1. session[s].account \in AccountIds
      BY <1>1, <2>1, SessionsOwned DEF Sound
    <3> QED BY <1>1, <1>6, <1>12, <2>1, <3>1, StaleParts DEF SessionsExcused, Outdated
  <2> QED BY <1>2, <1>4, <1>11, <2>1 DEF SessionsExcused
<1>14. HoldersExcused(row', torn', req')
  <2>1. ASSUME NEW s \in Requests \ {r}, HoldsPw(req[s]), req[s].account # a,
               Outdated(row', req[s].account, req[s].pw)
        PROVE  \/ req[s].raced \/ req[s].account \in torn
               \/ \E c \in Requests \ {s} : ChangesNow(req'[c], req[s].account)
    <3>1. req[s].account \in AccountIds
      BY <1>1, <2>1, HoldersServe
    <3> QED BY <1>1, <1>6, <1>12, <2>1, <3>1, StaleParts DEF HoldersExcused, Outdated
  <2>2. ~Outdated(row', p.account, p.pw)
    BY <1>4 DEF Outdated
  <2> QED BY <1>2, <1>4, <1>11, <2>1, <2>2 DEF HoldersExcused
<1> QED BY <1>10, <1>13, <1>14, StaleParts DEF Inv

\* A refresh is excused as the session it consumed was.
LEMMA RefreshConsumeKeeps ==
  ASSUME Inv, NEW r \in Requests, NEW s \in Requests, RefreshConsume(r, s)
  PROVE  Inv'
<1> DEFINE a == session[s].account
<1>1. Local /\ Sound /\ StaleInv /\ TypeOK
  BY InvParts DEF Local
<1>2. /\ session[s] # NULL /\ session' = [session EXCEPT ![s] = NULL]
      /\ UNCHANGED <<row, failures, oauth, failed, blind, torn>>
  BY DEF RefreshConsume
<1>3. a \in AccountIds /\ row[a] # NULL /\ a \in Born
  BY <1>1, <1>2, SessionsOwned DEF Sound, Born
<1>4. /\ RowsGrow /\ GoneStays
      /\ \A b \in AccountIds : ~ChangesNow(req[r], b)
  BY <1>1, <1>3, RefreshConsumeMoves
<1>5. PICK p : /\ Becomes(r, p) /\ Moves(req[r], p, row', oauth')
               /\ p.account = a /\ p.pw = session[s].pw
               /\ (p.raced <=> session[s].raced) /\ p.kind = "refresh"
  BY <1>1, <1>3, RefreshConsumeMoves
<1>6. /\ session' \in [Requests -> Optional(Session)] /\ session'[s] = NULL
      /\ \A t \in Requests \ {s} : session'[t] = session[t]
  BY <1>1, <1>2 DEF TypeOK, Optional
<1>7. SessionsSound'
  BY <1>1, <1>2, <1>4, <1>6, SessionsStay DEF Sound, SessionsSound
<1>8. Sound'
  BY <1>1, <1>2, <1>7, SoundStays DEF Sound
<1>9. IdentityInv'
  BY <1>4, <1>5, <1>8, IdentityKept
<1>10. req'[r] = p /\ \A c \in Requests \ {r} : req'[c] = req[c]
  BY <1>1, <1>5 DEF TypeOK, Becomes
<1>11. \A b \in AccountIds, c \in Requests :
         ChangesNow(req[c], b) => c # r /\ ChangesNow(req'[c], b)
  BY <1>4, <1>10
<1>12. SessionsExcused(row', session', torn', req')
  BY <1>1, <1>2, <1>6, <1>11, StaleParts, SessionsOwned DEF SessionsExcused, Sound
<1>13. Outdated(row', p.account, p.pw) =>
         \/ p.raced \/ p.account \in torn'
         \/ \E c \in Requests \ {r} : ChangesNow(req'[c], p.account)
  BY <1>1, <1>2, <1>3, <1>5, <1>11, StaleParts DEF SessionsExcused
<1>14. ASSUME NEW t \in Requests \ {r}, HoldsPw(req[t]),
              Outdated(row, req[t].account, req[t].pw)
       PROVE  \/ req[t].raced \/ req[t].account \in torn
              \/ \E c \in Requests \ {t} : ChangesNow(req'[c], req[t].account)
  BY <1>1, <1>11, <1>14, HoldersServe, StaleParts DEF HoldersExcused
<1>15. HoldersExcused(row', torn', req')
  BY <1>2, <1>10, <1>13, <1>14 DEF HoldersExcused
<1> QED BY <1>9, <1>12, <1>15, StaleParts DEF Inv

\* A change that dies before its sweep ends leaves its account torn.
LEMMA LoseKeeps ==
  ASSUME Inv, NEW r \in Requests, Lose(r)
  PROVE  Inv'
<1>1. Local /\ Sound /\ StaleInv /\ TypeOK
  BY InvParts DEF Local
<1>2. /\ torn \subseteq torn' /\ UNCHANGED <<row, failures, oauth, session, failed, blind>>
      /\ \A a : ChangesNow(req[r], a) => a \in torn'
  BY DEF Lose, ChangesNow
<1>3. PICK p : /\ Becomes(r, p) /\ Moves(req[r], p, row', oauth')
               /\ ~HoldsPw(p) /\ \A a \in AccountIds : ~ChangesNow(p, a)
  BY <1>1, LoseMoves
<1>4. RowsGrow /\ GoneStays
  BY <1>1, LoseMoves
<1>5. torn' \subseteq AccountIds
  <2>1. req[r].pc \in {"sweep", "sweepDelete"} => req[r].account \in AccountIds
    BY <1>1, Serving DEF ServesAccount
  <2> QED BY <1>1, <2>1 DEF Lose, TypeOK
<1>6. SessionsSound'
  BY <1>1, <1>2, <1>4, <1>5, SessionsStay DEF Sound, SessionsSound
<1>7. Sound'
  BY <1>1, <1>2, <1>6, SoundStays DEF Sound
<1>8. IdentityInv'
  BY <1>3, <1>4, <1>7, IdentityKept
<1>9. req'[r] = p /\ \A c \in Requests \ {r} : req'[c] = req[c]
  BY <1>1, <1>3 DEF TypeOK, Becomes
<1>10. \A a : \A c \in Requests : ChangesNow(req[c], a) => a \in torn' \/ ChangesNow(req'[c], a)
  BY <1>2, <1>9
<1>11. SessionsExcused(row', session', torn', req')
  BY <1>1, <1>2, <1>10, StaleParts DEF SessionsExcused
<1>12. ASSUME NEW t \in Requests \ {r}, HoldsPw(req[t]),
              Outdated(row, req[t].account, req[t].pw)
       PROVE  \/ req[t].raced \/ req[t].account \in torn'
              \/ \E c \in Requests \ {t} : ChangesNow(req'[c], req[t].account)
  BY <1>1, <1>2, <1>10, <1>12, StaleParts DEF HoldersExcused
<1>13. HoldersExcused(row', torn', req')
  BY <1>2, <1>3, <1>9, <1>12 DEF HoldersExcused
<1> QED BY <1>8, <1>11, <1>13, StaleParts DEF Inv

\* A sweep step: the requests other than r keep what they hold, and are marked
\* if they were serving the account.
LEMMA SweepKept ==
  ASSUME Inv, NEW r \in Requests, NEW p, Sweeps(r, p), Moves(req[r], p, row', oauth'),
         p.sid = req[r].sid, req' \in [Requests -> Request], UNCHANGED <<row, oauth>>, Sound'
  PROVE  /\ IdentityInv'
         /\ req'[r] = p
         /\ \A s \in Requests \ {r} :
              /\ req'[s].pc = req[s].pc /\ req'[s].kind = req[s].kind
              /\ req'[s].account = req[s].account /\ req'[s].pw = req[s].pw
              /\ req[s].raced \/ s \in InFlight(req[r].account) => req'[s].raced
<1>1. Local /\ OAuthSessionOnce
  BY InvParts
<1>2. \A s \in Requests \ {r} :
        /\ Placed(req'[s]) /\ Grounded(req'[s], row', oauth')
        /\ req'[s].sid = req[s].sid /\ req'[s].pc = req[s].pc /\ req'[s].kind = req[s].kind
        /\ req'[s].account = req[s].account /\ req'[s].pw = req[s].pw
        /\ req[s].raced \/ s \in InFlight(req[r].account) => req'[s].raced
  BY <1>1, RacedFields DEF Sweeps
<1>3. req'[r] = p /\ Placed(p) /\ Grounded(p, row', oauth')
  BY DEF Sweeps, Moves
<1>4. OAuthSessionOnce'
  BY <1>1, <1>2, <1>3 DEF OAuthSessionOnce
<1>5. IdentityInv'
  BY <1>2, <1>3, <1>4, IdentityParts
<1> QED BY <1>2, <1>3, <1>5

LEMMA SweepReadKeeps ==
  ASSUME Inv, NEW r \in Requests, SweepRead(r)
  PROVE  Inv'
<1>1. Local /\ Sound /\ StaleInv
  BY InvParts
<1>2. req[r].pc = "sweep" /\ UNCHANGED <<row, failures, oauth, session, failed, blind, torn>>
  BY DEF SweepRead
<1>3. PICK p : /\ Sweeps(r, p) /\ Moves(req[r], p, row', oauth') /\ p.sid = req[r].sid
               /\ req' \in [Requests -> Request]
               /\ p.kind = req[r].kind /\ p.account = req[r].account /\ p.pw = req[r].pw
               /\ (p.raced <=> req[r].raced) /\ p.pc = "sweepDelete"
  BY <1>1, SweepReadMoves
<1>4. Sound'
  BY <1>1, <1>2, SoundStays
<1>5. /\ IdentityInv' /\ req'[r] = p
      /\ \A s \in Requests \ {r} :
           /\ req'[s].pc = req[s].pc /\ req'[s].kind = req[s].kind
           /\ req'[s].account = req[s].account /\ req'[s].pw = req[s].pw
           /\ req[s].raced => req'[s].raced
  BY <1>2, <1>3, <1>4, SweepKept
<1>6. \A s \in Requests :
        /\ \A a : ChangesNow(req[s], a) => ChangesNow(req'[s], a)
        /\ HoldsPw(req'[s]) => HoldsPw(req[s])
        /\ req'[s].account = req[s].account /\ req'[s].pw = req[s].pw
        /\ req[s].raced => req'[s].raced
  BY <1>2, <1>3, <1>5 DEF ChangesNow, HoldsPw
<1>7. SessionsExcused(row', session', torn', req')
  BY <1>1, <1>2, <1>6, StaleParts DEF SessionsExcused
<1>8. HoldersExcused(row', torn', req')
  BY <1>1, <1>2, <1>6, StaleParts DEF HoldersExcused
<1> QED BY <1>5, <1>7, <1>8, StaleParts DEF Inv

\* What the MULTI does not delete, and whoever has yet to store its session,
\* was in flight during the sweep.
LEMMA SweepDeleteKeeps ==
  ASSUME Inv, NEW r \in Requests, SweepDelete(r)
  PROVE  Inv'
<1> DEFINE a == req[r].account
<1>1. Local /\ Sound /\ StaleInv /\ TypeOK
  BY InvParts DEF Local
<1>2. /\ req[r].pc = "sweepDelete" /\ UNCHANGED <<row, failures, oauth, failed, blind, torn>>
      /\ session' = [s \in Requests |->
                       IF s \in req[r].ids THEN NULL
                       ELSE IF s \in SessionsOf(a) THEN [session[s] EXCEPT !.raced = TRUE]
                       ELSE session[s]]
  BY DEF SweepDelete
<1>3. PICK p : /\ Sweeps(r, p) /\ Moves(req[r], p, row', oauth') /\ p.sid = req[r].sid
               /\ req' \in [Requests -> Request]
               /\ \A b \in AccountIds : ~ChangesNow(p, b)
               /\ HoldsPw(p) => /\ req[r].kind = "change" /\ p.account = req[r].account
                                /\ p.pw = req[r].pw /\ (p.raced <=> req[r].raced)
  BY <1>1, SweepDeleteMoves
<1>4. \A s \in Requests : session'[s] # NULL =>
        /\ session[s] # NULL /\ session'[s] \in Session
        /\ session'[s].account = session[s].account /\ session'[s].pw = session[s].pw
        /\ session[s].raced \/ session[s].account = a => session'[s].raced
  <2>1. ASSUME NEW s \in Requests, session'[s] # NULL
        PROVE  /\ session[s] # NULL /\ session'[s] \in Session
               /\ session'[s].account = session[s].account /\ session'[s].pw = session[s].pw
               /\ session[s].raced \/ session[s].account = a => session'[s].raced
    <3> DEFINE t == session[s]
    <3>1. t \in Optional(Session)
      BY <1>1 DEF TypeOK
    <3>2. \/ session'[s] = t /\ s \notin SessionsOf(a)
          \/ session'[s] = [t EXCEPT !.raced = TRUE] /\ s \in SessionsOf(a)
      BY <1>2, <2>1
    <3>3. t # NULL /\ (s \in SessionsOf(a) <=> t.account = a)
      BY <2>1, <3>2 DEF SessionsOf
    <3>4. t \in Session
      BY <3>1, <3>3 DEF Optional
    <3> HIDE DEF t, a
    <3>5. session'[s] \in Session /\ session'[s].account = t.account /\ session'[s].pw = t.pw
          /\ (t.raced \/ t.account = a => session'[s].raced)
      BY <3>2, <3>3, <3>4 DEF Session
    <3> QED BY <3>3, <3>5 DEF t
  <2> QED BY <2>1
<1>5. session' \in [Requests -> Optional(Session)]
  BY <1>2, <1>4 DEF Optional
<1>6. RowsGrow
  BY <1>2, SameTables
<1>7. SessionsSound'
  BY <1>1, <1>2, <1>4, <1>5, <1>6, SessionsStay DEF Sound, SessionsSound
<1>8. Sound'
  BY <1>1, <1>2, <1>7, SoundStays DEF Sound
<1>9. /\ IdentityInv' /\ req'[r] = p
      /\ \A s \in Requests \ {r} :
           /\ req'[s].pc = req[s].pc /\ req'[s].kind = req[s].kind
           /\ req'[s].account = req[s].account /\ req'[s].pw = req[s].pw
           /\ req[s].raced \/ s \in InFlight(a) => req'[s].raced
  BY <1>2, <1>3, <1>8, SweepKept
<1>10. \A b : \A c \in Requests : ChangesNow(req[c], b) => b = a \/ ChangesNow(req'[c], b)
  BY <1>9 DEF ChangesNow
<1>11. \A b : \A c \in Requests \ {r} : ChangesNow(req[c], b) => ChangesNow(req'[c], b)
  BY <1>9 DEF ChangesNow
<1> HIDE DEF a
<1>12. SessionsExcused(row', session', torn', req')
  <2>1. ASSUME NEW s \in Requests, session'[s] # NULL,
               Outdated(row, session'[s].account, session'[s].pw)
        PROVE  \/ session'[s].raced \/ session'[s].account \in torn
               \/ \E c \in Requests : ChangesNow(req'[c], session'[s].account)
    <3>1. /\ session[s] # NULL /\ session'[s].account = session[s].account
          /\ session'[s].pw = session[s].pw
          /\ session[s].raced \/ session[s].account = a => session'[s].raced
      BY <1>4, <2>1
    <3>2. \/ session[s].raced \/ session[s].account \in torn
          \/ \E c \in Requests : ChangesNow(req[c], session[s].account)
      BY <1>1, <2>1, <3>1, StaleParts DEF SessionsExcused
    <3> QED BY <1>10, <3>1, <3>2
  <2> QED BY <1>2, <2>1 DEF SessionsExcused
<1>13. HoldersExcused(row', torn', req')
  <2>1. ASSUME NEW s \in Requests, HoldsPw(req'[s]), Outdated(row, req'[s].account, req'[s].pw)
        PROVE  \/ req'[s].raced \/ req'[s].account \in torn
               \/ \E c \in Requests \ {s} : ChangesNow(req'[c], req'[s].account)
    <3>1. CASE s = r
      <4>1. HoldsPw(req[r]) /\ p.account = a /\ p.pw = req[r].pw /\ (p.raced <=> req[r].raced)
        BY <1>2, <1>3, <1>9, <2>1, <3>1 DEF HoldsPw, ChangesNow, a
      <4> QED BY <1>1, <1>9, <1>11, <2>1, <3>1, <4>1, StaleParts DEF HoldersExcused, a
    <3>2. CASE s # r
      <4>1. HoldsPw(req[s]) /\ req'[s].account = req[s].account /\ req'[s].pw = req[s].pw
        BY <1>9, <2>1, <3>2 DEF HoldsPw, ChangesNow
      <4>2. req[s].account = a => req'[s].raced
        <5>1. req[s].account = a => s \in InFlight(a)
          BY <4>1 DEF HoldsPw, ChangesNow, InFlight
        <5> QED BY <1>9, <3>2, <5>1
      <4> QED BY <1>1, <1>9, <1>10, <2>1, <3>2, <4>1, <4>2, StaleParts DEF HoldersExcused
    <3> QED BY <3>1, <3>2
  <2> QED BY <1>2, <2>1 DEF HoldersExcused
<1> QED BY <1>9, <1>12, <1>13, StaleParts DEF Inv

-----------------------------------------------------------------------------
(* The invariant                                                           *)

LEMMA CounterStep ==
  ASSUME CountersSound, NEW i \in Identifiers,
         \/ /\ failures' = [failures EXCEPT ![i] = @ + 1]
            /\ failed' = [failed EXCEPT ![i] = @ + 1]
         \/ /\ failures' = [failures EXCEPT ![i] = 0]
            /\ failed' = [failed EXCEPT ![i] = 0]
  PROVE  CountersSound'
BY DEF CountersSound

LEMMA LoginCountersKept ==
  ASSUME Local, CountersSound, NEW r \in Requests, LoginFail(r) \/ LoginReset(r)
  PROVE  CountersSound'
<1>1. req[r].ident \in Identifiers
  BY Serving DEF LoginFail, LoginReset, Placed, Request, Optional
<1> QED BY <1>1, CounterStep DEF LoginFail, LoginReset

\* Steps that write the counters or the OAuth sessions only.
LEMMA SideKeeps ==
  ASSUME Inv, NEW r \in Requests, Fine(r), CountersSound', OAuthSound',
         UNCHANGED <<row, session, blind, torn>>
  PROVE  Inv'
<1>1. Sound /\ RowsGrow
  BY InvParts DEF Fine
<1>2. RowsSound' /\ SessionsSound' /\ PasswordsStay
  BY <1>1, SoundStays, SessionsStay DEF Sound, SessionsSound, PasswordsStay
<1> QED BY <1>2, FineKeeps DEF Sound

\* Steps that write a row but no password.
LEMMA RowKeeps ==
  ASSUME Inv, NEW r \in Requests, Fine(r), RowsSound', PasswordsStay,
         UNCHANGED <<failures, oauth, session, failed, torn>>
  PROVE  Inv'
<1>1. Sound /\ RowsGrow
  BY InvParts DEF Fine
<1>2. CountersSound' /\ OAuthSound' /\ SessionsSound'
  BY <1>1, SoundStays, SessionsStay DEF Sound, SessionsSound
<1> QED BY <1>2, FineKeeps DEF Sound

LEMMA PasswordKeeps ==
  ASSUME Inv, NEW r \in Requests, Password(r)
  PROVE  Inv'
<1>1. Local /\ Sound /\ RowsSound /\ CountersSound /\ OAuthSound /\ failed = failures
  BY InvParts DEF Sound, CountersSound
<1>2. ASSUME NEW u \in Optional(Usernames), NEW e \in Optional(Emails), NEW pw \in Passwords,
             Register(r, u, e, pw)
      PROVE  Inv'
  BY <1>1, <1>2, RegisterFine, RegisterRows, RowKeeps DEF Register
<1>3. ASSUME NEW i \in Identifiers, NEW pw \in Passwords, LoginCount(r, i, pw)
      PROVE  Inv'
  BY <1>1, <1>3, LoginCountFine, ReadOnlyKeeps DEF LoginCount
<1>4. CASE LoginFind(r)
  BY <1>1, <1>4, LoginFindFine, ReadOnlyKeeps DEF LoginFind
<1>5. CASE LoginFail(r)
  <2>1. CountersSound' /\ OAuthSound'
    BY <1>1, <1>5, LoginCountersKept, SoundStays DEF LoginFail
  <2> QED BY <1>1, <1>5, <2>1, LoginFailFine, SideKeeps DEF LoginFail
<1>6. CASE LoginReset(r)
  <2>1. CountersSound' /\ OAuthSound'
    BY <1>1, <1>6, LoginCountersKept, SoundStays DEF LoginReset
  <2> QED BY <1>1, <1>6, <2>1, LoginResetFine, SideKeeps DEF LoginReset
<1>7. CASE IssueBundle(r)
  BY <1>7, IssueBundleKeeps
<1>8. ASSUME NEW a \in Born, NEW current \in Passwords, NEW new \in Passwords,
             ChangeRead(r, a, current, new)
      PROVE  Inv'
  BY <1>1, <1>8, ChangeReadFine, ReadOnlyKeeps DEF ChangeRead
<1>9. CASE ChangeWrite(r)
  BY <1>9, ChangeWriteKeeps
<1> QED BY <1>2, <1>3, <1>4, <1>5, <1>6, <1>7, <1>8, <1>9 DEF Password

LEMMA OAuthKept ==
  ASSUME OAuthSound, NEW sid \in Sids, NEW new \in OAuthSession,
         new.intent = "link" => new.owner # NULL, oauth' = [oauth EXCEPT ![sid] = new]
  PROVE  OAuthSound'
BY DEF OAuthSound, LinksOwned

LEMMA GoogleKeeps ==
  ASSUME Inv, NEW r \in Requests, Google(r)
  PROVE  Inv'
<1>1. Local /\ Sound /\ RowsSound /\ CountersSound /\ OAuthSound /\ LinksOwned
  BY InvParts DEF Sound, OAuthSound
<1>2. ASSUME NEW sid \in Sids, NEW intent \in {"login", "link"}, NEW a \in Optional(Born),
             AuthorizeInit(r, sid, intent, a)
      PROVE  Inv'
  <2> DEFINE new == [intent |-> intent, owner |-> a]
  <2>1. /\ new \in OAuthSession /\ (new.intent = "link" => new.owner # NULL)
        /\ oauth' = [oauth EXCEPT ![sid] = new]
    BY <1>2 DEF AuthorizeInit, OAuthSession, Optional, Born
  <2>2. CountersSound' /\ OAuthSound'
    BY <1>1, <1>2, <2>1, OAuthKept, SoundStays DEF AuthorizeInit
  <2> QED BY <1>1, <1>2, <2>2, AuthorizeInitFine, SideKeeps DEF AuthorizeInit
<1>3. ASSUME NEW sid \in Sids, NEW ok \in BOOLEAN, NEW a \in Optional(Born),
             ExchangeConsume(r, sid, ok, a)
      PROVE  Inv'
  <2>1. /\ Without("gone") \in OAuthSession /\ Without("gone").intent # "link"
        /\ oauth' = [oauth EXCEPT ![sid] = Without("gone")]
    BY <1>3 DEF ExchangeConsume, OAuthSession, Optional, Without, Consumed
  <2>2. CountersSound' /\ OAuthSound'
    BY <1>1, <1>3, <2>1, OAuthKept, SoundStays DEF ExchangeConsume
  <2> QED BY <1>1, <1>3, <2>2, ExchangeConsumeFine, SideKeeps DEF ExchangeConsume
<1>4. CASE ExchangeUpstream(r)
  BY <1>1, <1>4, ExchangeUpstreamFine, ReadOnlyKeeps DEF ExchangeUpstream
<1>5. CASE ResolveSub(r)
  BY <1>1, <1>5, ResolveFine, ReadOnlyKeeps DEF ResolveSub
<1>6. CASE ResolveEmail(r)
  BY <1>1, <1>6, ResolveFine, ReadOnlyKeeps DEF ResolveEmail
<1>7. CASE GoogleCreate(r)
  BY <1>1, <1>7, GoogleCreateFine, GoogleCreateRows, RowKeeps DEF GoogleCreate
<1>8. CASE GoogleLive(r)
  BY <1>1, <1>8, GoogleLiveFine, ReadOnlyKeeps DEF GoogleLive
<1>9. CASE LinkHas(r)
  BY <1>1, <1>9, LinkHasFine, ReadOnlyKeeps DEF LinkHas
<1>10. CASE LinkCreate(r)
  BY <1>1, <1>10, LinkCreateFine, LinkCreateRows, RowKeeps DEF LinkCreate
<1> QED BY <1>2, <1>3, <1>4, <1>5, <1>6, <1>7, <1>8, <1>9, <1>10 DEF Google

LEMMA SelfKeeps ==
  ASSUME Inv, NEW r \in Requests, Self(r)
  PROVE  Inv'
<1>1. Local /\ Sound /\ RowsSound /\ TypeOK
  BY InvParts DEF Sound, Local
<1>2. ASSUME NEW a \in Born, NEW p \in Patch, PatchLive(r, a, p)
      PROVE  Inv'
  BY <1>1, <1>2, PatchLiveFine, ReadOnlyKeeps DEF PatchLive
<1>3. CASE PatchRead(r)
  BY <1>1, <1>3, PatchReadFine, ReadOnlyKeeps DEF PatchRead
<1>4. CASE PatchWrite(r)
  BY <1>1, <1>4, PatchWriteFine, PatchWriteRows, RowKeeps DEF PatchWrite
<1>5. ASSUME NEW a \in Born, DisableLive(r, a)
      PROVE  Inv'
  BY <1>1, <1>5, DisableLiveFine, ReadOnlyKeeps DEF DisableLive
<1>6. CASE DisableWrite(r)
  <2>1. req[r].account \in AccountIds /\ row[req[r].account] # NULL
    BY <1>1, <1>6, Serving, NullAssumption DEF DisableWrite, ServesAccount
  <2>2. RowsSound' /\ PasswordsStay
    BY <1>1, <1>6, <2>1, DisabledColumn, ColumnWritten DEF DisableWrite, PasswordsStay
  <2> QED BY <1>1, <1>6, <2>2, DisableWriteFine, RowKeeps DEF DisableWrite
<1> QED BY <1>2, <1>3, <1>4, <1>5, <1>6 DEF Self

LEMMA TokensKeep ==
  ASSUME Inv, NEW r \in Requests, Tokens(r)
  PROVE  Inv'
<1>1. Local
  BY InvParts
<1>2. CASE RefreshAccount(r)
  BY <1>1, <1>2, RefreshAccountFine, ReadOnlyKeeps DEF RefreshAccount
<1> QED BY <1>2, RefreshConsumeKeeps, SweepReadKeeps, SweepDeleteKeeps DEF Tokens

\* The time limits of the counters and the OAuth sessions.
LEMMA ExpiryKeeps ==
  ASSUME Inv, \/ \E i \in Identifiers : LockExpires(i)
              \/ \E sid \in Sids : OAuthExpires(sid)
  PROVE  Inv'
<1>1. Local /\ Sound /\ OAuthSessionOnce /\ StaleInv /\ TypeOK
  BY InvParts DEF Local
<1>2. UNCHANGED <<row, session, req, blind, torn>>
  BY DEF LockExpires, OAuthExpires
<1>3. CountersSound' /\ OAuthSound' /\ GoneStays
  <2>1. CASE \E i \in Identifiers : LockExpires(i)
    BY <1>1, <2>1, CounterStep, SoundStays, SameTables DEF LockExpires, Sound
  <2>2. ASSUME NEW sid \in Sids, OAuthExpires(sid)
        PROVE  CountersSound' /\ OAuthSound' /\ GoneStays
    <3>1. /\ Without("gone") \in OAuthSession /\ Without("gone").intent = "gone"
          /\ oauth' = [oauth EXCEPT ![sid] = Without("gone")]
      BY <2>2 DEF OAuthExpires, OAuthSession, Optional, Without
    <3>2. OAuthSound'
      BY <1>1, <3>1, OAuthKept DEF Sound
    <3>3. GoneStays
      BY <1>1, <3>1 DEF GoneStays, TypeOK
    <3> QED BY <1>1, <2>2, <3>2, <3>3, SoundStays DEF OAuthExpires, Sound
  <2> QED BY <2>1, <2>2
<1>4. RowsGrow
  BY <1>2, SameTables
<1>5. RowsSound' /\ SessionsSound'
  BY <1>1, <1>2, <1>4, SoundStays, SessionsStay DEF Sound, SessionsSound
<1>6. \A r \in Requests : Placed(req'[r]) /\ Grounded(req'[r], row', oauth')
  BY <1>1, <1>2, <1>3, <1>4, GroundedStays DEF Local, TypeOK
<1>7. IdentityInv'
  BY <1>1, <1>2, <1>3, <1>5, <1>6, IdentityParts DEF Sound, OAuthSessionOnce, TypeOK
<1>8. StaleInv'
  BY <1>1, <1>2, StaleParts
<1> QED BY <1>7, <1>8 DEF Inv

LEMMA StepKeeps == Inv /\ [Next]_vars => Inv'
<1> SUFFICES ASSUME Inv, [Next]_vars
             PROVE  Inv'
  OBVIOUS
<1>1. ASSUME NEW r \in Requests, Password(r) \/ Google(r) \/ Self(r) \/ Tokens(r) \/ Lose(r)
      PROVE  Inv'
  BY <1>1, PasswordKeeps, GoogleKeeps, SelfKeeps, TokensKeep, LoseKeeps
<1>2. CASE (\E i \in Identifiers : LockExpires(i)) \/ (\E sid \in Sids : OAuthExpires(sid))
  BY <1>2, ExpiryKeeps
<1>3. CASE UNCHANGED vars
  <2>1. Local /\ Sound /\ OAuthSessionOnce /\ StaleInv /\ TypeOK
    BY InvParts DEF Local
  <2>2. IdentityInv'
    BY <1>3, <2>1, SoundStays, IdentityParts DEF vars, OAuthSessionOnce, TypeOK, Local
  <2>3. StaleInv'
    BY <1>3, <2>1, StaleParts DEF vars
  <2> QED BY <2>2, <2>3 DEF Inv
<1> QED BY <1>1, <1>2, <1>3 DEF Next

\* Nothing but what was there to begin with is known, held or counted.
LEMMA InitKeeps == Init => Inv
<1> SUFFICES ASSUME Init
             PROVE  Inv
  OBVIOUS
<1>1. /\ row \in [AccountIds -> Optional(Row)]
      /\ \A a \in AccountIds : row[a] # NULL => row[a].username # NULL \/ row[a].email # NULL
  BY DEF Init, Optional
<1>2. RowsSound
  BY <1>1 DEF Init, RowsSound, NamedUnlessBlind, Born, Names
<1>3. CountersSound
  BY DEF Init, CountersSound
<1>4. OAuthSound
  BY DEF Init, OAuthSound, LinksOwned, Without, OAuthSession, Optional
<1>5. SessionsSound
  BY DEF Init, SessionsSound, Optional
<1>6. \A r \in Requests : req[r] = Idle
  BY DEF Init
<1>7. /\ Idle.pc = "idle" /\ Idle.answer = "none" /\ Idle.kind = "none" /\ Idle.account = NULL
      /\ Idle.sid = NULL /\ Idle.dead = {}
  BY DEF Idle
<1>8. Placed(Idle) /\ Grounded(Idle, row, oauth) /\ ~HoldsPw(Idle)
  BY <1>7 DEF Placed, Admitted, ServesAccount, ServesGoogle, Grounded, SignedIn, HoldsPw,
              ChangesNow
<1>9. OAuthSessionOnce
  BY <1>6, <1>7 DEF OAuthSessionOnce
<1>10. req \in [Requests -> Request]
  BY IdleType DEF Init
<1>11. IdentityInv
  BY <1>2, <1>3, <1>4, <1>5, <1>6, <1>8, <1>9, <1>10, IdentityParts DEF Sound
<1>12. StaleInv
  BY <1>6, <1>8, StaleParts DEF Init, SessionsExcused, HoldersExcused
<1> QED BY <1>11, <1>12 DEF Inv

\* The inductive invariant of Accounts.
THEOREM InvCorrect == Spec => []Inv
BY InitKeeps, StepKeeps, PTL DEF Spec

\* Every variable keeps its type.
THEOREM TypeCorrect == Spec => []TypeOK
<1>1. Inv => TypeOK
  BY DEF Inv, IdentityInv
<1> QED BY <1>1, InvCorrect, PTL

\* However the failures of several logins overlap: one that comes in after the
\* threshold was reached for its identifier is never looked at.
THEOREM LockCorrect == Spec => []LockHolds
<1>1. Inv => LockHolds
  BY DEF Inv, IdentityInv, Placed, LockHolds
<1> QED BY <1>1, InvCorrect, PTL

\* An account without a username and an e-mail is one that a PATCH wrote to
\* over identifiers it had not read.
THEOREM NamesCorrect == Spec => []NamedUnlessBlind
<1>1. Inv => NamedUnlessBlind
  BY DEF Inv, IdentityInv
<1> QED BY <1>1, InvCorrect, PTL

\* However signing up, signing in and linking with one Google identity race,
\* the account a request was let into is the one account it is linked to.
THEOREM SubCorrect == Spec => []OneAccountPerSub
<1>1. Inv => OneAccountPerSub
  <2> SUFFICES ASSUME Inv, NEW r \in Requests, req[r].kind = "exchange", req[r].answer = "ok"
               PROVE  Holders(req[r].sub) = {req[r].account}
    BY DEF OneAccountPerSub
  <2>1. /\ req[r].account \in AccountIds /\ row[req[r].account] # NULL /\ req[r].sub # NULL
        /\ row[req[r].account].google = req[r].sub
    <3>1. req[r] \in Request /\ Grounded(req[r], row, oauth)
      BY DEF Inv, IdentityInv, TypeOK
    <3> QED BY <3>1 DEF Grounded, SignedIn, Request, Optional
  <2>2. Unique(row)
    BY DEF Inv, IdentityInv
  <2> QED BY <2>1, <2>2 DEF Unique, Holders, Born
<1> QED BY <1>1, InvCorrect, PTL

\* An OAuth session takes one exchange at most past its consumption.
THEOREM OnceCorrect == Spec => []OAuthSessionOnce
<1>1. Inv => OAuthSessionOnce
  BY DEF Inv, IdentityInv
<1> QED BY <1>1, InvCorrect, PTL

\* A request that comes in for an account already disabled is not answered ok.
THEOREM DisabledCorrect == Spec => []DisabledStaysOut
<1>1. Inv => DisabledStaysOut
  BY DEF Inv, IdentityInv, Placed, Admitted, DisabledStaysOut
<1> QED BY <1>1, InvCorrect, PTL

\* The only sessions that outlive a change of their password are those in
\* flight during a sweep, and those of a change that has not swept or died.
THEOREM StaleCorrect == Spec => []StaleSessionsRaced
<1>1. Inv => StaleSessionsRaced
  BY DEF Inv, StaleInv
<1> QED BY <1>1, InvCorrect, PTL

-----------------------------------------------------------------------------
(* The verdict on an ID token                                              *)

\* The first of several checks that fail.
LEMMA FirstFailing ==
  ASSUME NEW S \in SUBSET (1 .. 11), S # {}
  PROVE  Min(S) \in S /\ \A i \in S : Min(S) <= i
<1>1. \E i \in S : \A j \in S : i <= j
  <2> DEFINE P(n) == S \cap (1 .. n) = {}
  <2>1. P(0) /\ ~P(11)
    <3>1. PICK x \in S : x \in 1 .. 11
      OBVIOUS
    <3> QED
      BY <3>1
  <2>2. \E n \in 0 .. 10 : P(n) /\ ~P(n + 1)
    <3> HIDE DEF P
    <3>1. SUFFICES ASSUME \A n \in 0 .. 10 : P(n) => P(n + 1)
                   PROVE  P(11)
      BY <2>1, Zenon
    <3> QED
      BY <2>1, <3>1
  <2>3. PICK n \in 0 .. 10 : P(n) /\ ~P(n + 1)
    BY <2>2
  <2> QED
    BY <2>3
<1> QED
  BY <1>1 DEF Min

\* What the checks make of a token: the three answers that matter and what each
\* of them says of the token.
LEMMA TokenChecks ==
  ASSUME NEW t \in IdToken, NEW keys \in SUBSET Kids
  PROVE  LET signer == t.kid # {} /\ t.kid \subseteq keys
             result == VerifyGoogleIdToken(t, keys)
         IN  /\ result = "ok" <=> Genuine(t) /\ signer /\ t.verified
             /\ result = "email_verified" <=> Genuine(t) /\ signer /\ ~t.verified
             /\ result = "kid" <=> t.decodes /\ t.rs256 /\ ~signer
             /\ result \in {"ok", "malformed", "alg", "kid", "signature", "iss", "aud", "nonce",
                            "sub", "email", "email_verified"}
<1> DEFINE checks  == Checks(t, keys)
           failing == {i \in DOMAIN checks : ~checks[i].holds}
           first   == Min(failing)
<1>1. /\ DOMAIN checks = 1 .. 11
      /\ checks[1]  = Check(t.decodes, "malformed")
      /\ checks[2]  = Check(t.rs256, "alg")
      /\ checks[3]  = Check(t.kid # {}, "kid")
      /\ checks[4]  = Check(t.kid \subseteq keys, "kid")
      /\ checks[5]  = Check(t.signed, "signature")
      /\ checks[6]  = Check(t.iss, "iss")
      /\ checks[7]  = Check(t.aud, "aud")
      /\ checks[8]  = Check(t.nonce, "nonce")
      /\ checks[9]  = Check(t.sub, "sub")
      /\ checks[10] = Check(t.email, "email")
      /\ checks[11] = Check(t.verified, "email_verified")
  BY DEF Checks
<1>2. VerifyGoogleIdToken(t, keys) = IF failing = {} THEN "ok" ELSE checks[first].error
  BY DEF VerifyGoogleIdToken
<1> HIDE DEF checks
<1>3. \A i \in 1 .. 11 : i \in failing <=> ~checks[i].holds
  BY <1>1
<1>4. failing \in SUBSET (1 .. 11)
  BY <1>1
<1> HIDE DEF failing
<1>5. ASSUME failing # {}
      PROVE  /\ first \in 1 .. 11 /\ first \in failing
             /\ \A i \in 1 .. 11 : i < first => i \notin failing
  <2>1. first \in failing /\ \A i \in failing : first <= i
    BY <1>4, <1>5, FirstFailing
  <2> HIDE DEF first
  <2> QED
    BY <1>4, <2>1
<1> HIDE DEF first
<1>6. CASE failing = {}
  <2>1. VerifyGoogleIdToken(t, keys) = "ok" /\ \A i \in 1 .. 11 : checks[i].holds
    BY <1>2, <1>3, <1>6
  <2>2. /\ checks[1].holds /\ checks[2].holds /\ checks[3].holds /\ checks[4].holds
        /\ checks[5].holds /\ checks[6].holds /\ checks[7].holds /\ checks[8].holds
        /\ checks[9].holds /\ checks[10].holds /\ checks[11].holds
    BY <2>1
  <2>3. /\ t.decodes /\ t.rs256 /\ t.signed /\ t.iss /\ t.aud /\ t.nonce /\ t.sub /\ t.email
        /\ t.verified
    BY <1>1, <2>2 DEF Check, IdToken
  <2>4. checks[3].holds = (t.kid # {}) /\ checks[4].holds = (t.kid \subseteq keys)
    BY <1>1 DEF Check
  <2>5. t.kid # {} /\ t.kid \subseteq keys
    BY <2>2, <2>4, Zenon
  <2> QED
    BY <2>1, <2>3, <2>4, <2>5 DEF Genuine
<1>7. CASE failing # {}
  <2>1. /\ VerifyGoogleIdToken(t, keys) = checks[first].error
        /\ ~checks[first].holds
        /\ \A i \in 1 .. 11 : i < first => checks[i].holds
    BY <1>2, <1>3, <1>5, <1>7
  <2>2. first \in {1, 2, 3, 4, 5, 6, 7, 8, 9, 10, 11}
    BY <1>5, <1>7
  <2> QED
    BY <1>1, <2>1, <2>2 DEF Check, Genuine, IdToken
<1> QED
  BY <1>6, <1>7

\* Key rotation locks nobody out, and the claims the code looks at and the key decide alone.
THEOREM VerdictsCorrect == ClaimsAndKeyDecide
<1> SUFFICES ASSUME NEW t \in IdToken, NEW cache \in Caches, NEW p \in Provider
             PROVE  Verdict(VerifyIdTokenWithRetry(t, cache, p)) =
                      IF Genuine(t) /\ Known(t, cache, p)
                      THEN IF t.verified THEN "ok" ELSE "unverified"
                      ELSE "invalid"
  BY DEF ClaimsAndKeyDecide
<1> DEFINE got == GetJwks(cache, p)
           again == Refresh(got.cache, p)
<1>1. p.keys \in SUBSET Kids /\ p.up \in BOOLEAN
  BY DEF Provider
<1>2. t.kid = {} \/ \E k \in Kids : t.kid = {k}
  BY DEF IdToken
<1>3. CASE cache = NoKeys /\ ~p.up
  BY <1>1, <1>3 DEF GetJwks, VerifyIdTokenWithRetry, Verdict, Known
<1>4. CASE cache = NoKeys /\ p.up
  <2>1. /\ got = [error |-> "none", cache |-> [keys |-> p.keys, fresh |-> TRUE]]
        /\ again = [error |-> "none", cache |-> [keys |-> p.keys, fresh |-> TRUE]]
    BY <1>4 DEF GetJwks, Refresh
  <2>2. VerifyIdTokenWithRetry(t, cache, p) = VerifyGoogleIdToken(t, p.keys)
    BY <2>1 DEF VerifyIdTokenWithRetry
  <2>3. Known(t, cache, p) <=> t.kid # {} /\ t.kid \subseteq p.keys
    BY <1>4 DEF Known
  <2> HIDE DEF got, again
  <2> QED
    BY <1>1, <2>2, <2>3, TokenChecks DEF Verdict
<1>5. CASE cache # NoKeys
  <2>1. cache.keys \in SUBSET Kids
    BY <1>5 DEF Caches
  <2>2. got = [error |-> "none", cache |-> cache]
    BY <1>5 DEF GetJwks
  <2>3. again = IF p.up THEN [error |-> "none", cache |-> [keys |-> p.keys, fresh |-> TRUE]]
                ELSE [error |-> "fetch", cache |-> NoKeys]
    BY DEF GetJwks, Refresh
  <2>4. VerifyIdTokenWithRetry(t, cache, p) =
          IF VerifyGoogleIdToken(t, cache.keys) # "kid" THEN VerifyGoogleIdToken(t, cache.keys)
          ELSE IF ~p.up THEN "fetch"
          ELSE VerifyGoogleIdToken(t, p.keys)
    BY <1>1, <2>2, <2>3 DEF VerifyIdTokenWithRetry
  <2>5. Known(t, cache, p) <=>
          t.kid # {} /\ (t.kid \subseteq cache.keys \/ (p.up /\ t.kid \subseteq p.keys))
    BY <1>1, <1>2, <1>5, <2>1 DEF Known
  <2> HIDE DEF got, again
  <2>6. CASE VerifyGoogleIdToken(t, cache.keys) # "kid"
    BY <2>1, <2>4, <2>5, <2>6, TokenChecks DEF Verdict, Genuine
  <2>7. CASE VerifyGoogleIdToken(t, cache.keys) = "kid" /\ ~p.up
    BY <2>1, <2>4, <2>5, <2>7, TokenChecks DEF Verdict
  <2>8. CASE VerifyGoogleIdToken(t, cache.keys) = "kid" /\ p.up
    BY <1>1, <2>1, <2>4, <2>5, <2>8, TokenChecks DEF Verdict
  <2> QED
    BY <1>1, <2>6, <2>7, <2>8
<1> QED
  BY <1>1, <1>3, <1>4, <1>5

\* So they do whenever an exchange waits for Google's answer.
THEOREM TokenVerdictsCorrect == Spec => []TokenVerdicts
<1>1. TokenVerdicts
  BY VerdictsCorrect DEF TokenVerdicts
<1> QED BY <1>1, PTL

=============================================================================
