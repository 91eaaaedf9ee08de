------------------------ MODULE RefreshSessionsProofs ------------------------
(***************************************************************************)
(* Theorems about RefreshSessions: Inv is inductive, for every finite set  *)
(* of requests and every set of tokens and passwords.                      *)
(***************************************************************************)
EXTENDS RefreshSessions, FiniteSetTheorems, TLAPS

-----------------------------------------------------------------------------
(* The shape of a step.  Whatever else a request does, the store only      *)
(* moves forward under the other requests.                                 *)

\* What no step undoes; a token that comes alive was never minted before, and
\* is counted as missed if some sweep is under way.
Forward ==
  /\ disabled => disabled'
  /\ credential # NULL => credential' # NULL
  /\ missed \subseteq missed'
  /\ \A t \in Tokens : records[t] \in {"used", "gone"} => records'[t] \in {"used", "gone"}
  /\ \A t \in Tokens : records[t] # "unborn" => records'[t] # "unborn"
  /\ \A t \in Live' : t \in Live \/ records[t] = "unborn"
  /\ \A t \in Live' : t \in Live \/ t \in missed' \/ \A s \in Requests : ~Sweeping(s)

StateType ==
  /\ disabled \in BOOLEAN
  /\ credential \in Credential \cup {NULL}
  /\ records \in [Tokens -> RecordStates]
  /\ members \subseteq Tokens
  /\ chosen \in Passwords \cup {NULL}
  /\ missed \subseteq Tokens

\* Nothing but the table of requests changes.
StoreSame == UNCHANGED <<disabled, credential, records, members, chosen, missed>>

LEMMA StoreSameForward ==
  ASSUME Inv, StoreSame
  PROVE  Forward /\ StateType' /\ LiveIndexedOrMissed'
BY DEF Inv, TypeOK, StoreSame, Forward, StateType, LiveIndexedOrMissed, Live

\* A request that does not take part in a step still knows what it knew.
LEMMA ForwardKeeps ==
  ASSUME Forward, NEW q \in Request, PastInv(q),
         q.pc = "sweepDelete" => \E s \in Requests : Sweeping(s)
  PROVE  PastInv(q)'
<1>1. q.outcome = "ok" => q.token \in Tokens /\ records'[q.token] \in {"used", "gone"}
  BY DEF PastInv, Forward
<1>2. \A t \in q.alive : t \in Tokens /\ records[t] # "unborn" /\ records'[t] # "unborn"
  BY DEF PastInv, Forward, Request
<1>3. q.pc = "sweepDelete" => Live' \cup q.alive \subseteq q.ids \cup missed'
  BY DEF PastInv, Forward
<1>4. q.pc \notin {"sweepDelete", "lost"} => q.alive \cap Live' \subseteq missed'
  BY <1>2 DEF PastInv, Forward
<1>5. q.kind = "refresh" /\ q.late => disabled' /\ q.pc # "issue" /\ q.answer # "ok"
  BY DEF PastInv, Forward
<1>6. FirstPassword(q) => credential' # NULL
  BY DEF PastInv, Forward
<1> QED BY <1>1, <1>2, <1>3, <1>4, <1>5, <1>6 DEF PastInv, FirstPassword

\* q may follow req[r] without a second redemption or a second first password:
\* it claims one only if nobody can have claimed it before.
Claims(r, q) ==
  /\ q.outcome = "ok" =>
       \/ req[r].outcome = "ok" /\ req[r].token = q.token
       \/ records[q.token] = "fresh"
  /\ FirstPassword(q) => credential = NULL

LEMMA ClaimsOneEach ==
  ASSUME Inv, NEW r \in Requests, NEW q, Claims(r, q), NEW s \in Requests, s # r
  PROVE  OneEach(req[s], q) /\ OneEach(q, req[s])
<1>1. PastInv(req[s]) /\ OneEach(req[s], req[r])
  BY DEF Inv
<1>2. ~(req[s].outcome = "ok" /\ q.outcome = "ok" /\ req[s].token = q.token)
  <2>1. CASE req[r].outcome = "ok" /\ req[r].token = q.token
    BY <1>1, <2>1 DEF OneEach
  <2>2. CASE records[q.token] = "fresh"
    BY <1>1, <2>2 DEF PastInv
  <2> QED BY <2>1, <2>2 DEF Claims
<1>3. ~(FirstPassword(req[s]) /\ FirstPassword(q))
  BY <1>1 DEF PastInv, Claims
<1> QED BY <1>2, <1>3 DEF OneEach

\* A step that moves request r to a sound q, while the store moves forward,
\* preserves the invariant.
LEMMA StepKeeps ==
  ASSUME Inv, Forward, StateType', LiveIndexedOrMissed',
         NEW r \in Requests, NEW q \in Request, Becomes(r, q),
         PointInv(q), PastInv(q)', Claims(r, q)
  PROVE  Inv'
<1>1. req' = [req EXCEPT ![r] = q] /\ req \in [Requests -> Request]
  BY DEF Becomes, Inv, TypeOK
<1>2. TypeOK'
  BY <1>1 DEF TypeOK, StateType
<1>3. ASSUME NEW s \in Requests PROVE PointInv(req[s])' /\ PastInv(req[s])'
  <2>1. CASE s = r
    <3>1. req'[s] = q
      BY <1>1, <2>1
    <3> QED BY <3>1 DEF PointInv, PastInv, FirstPassword, IdleRequest
  <2>2. CASE s # r
    <3> DEFINE p == req[s]
    <3>1. req'[s] = p /\ p \in Request
      BY <1>1, <2>2
    <3>2. PointInv(p) /\ PastInv(p) /\ (p.pc = "sweepDelete" => Sweeping(s))
      BY DEF Inv, Sweeping
    <3>3. ASSUME NEW x \in Request, x = p PROVE PastInv(x)'
      BY <3>2, <3>3, ForwardKeeps
    <3>4. ASSUME NEW x, x = p PROVE PointInv(req'[s])
      BY <3>1, <3>2
    <3>5. PICK x \in Request : x = p
      BY <3>1
    <3> QED BY <3>1, <3>3, <3>4, <3>5 DEF PointInv, PastInv, FirstPassword, IdleRequest
  <2> QED BY <2>1, <2>2
<1>4. ASSUME NEW s \in Requests, NEW t \in Requests, s # t
      PROVE  OneEach(req'[s], req'[t])
  <2>1. CASE s # r /\ t # r
    BY <1>1, <1>4, <2>1 DEF Inv
  <2>2. CASE s = r
    BY <1>1, <1>4, <2>2, ClaimsOneEach
  <2>3. CASE t = r
    BY <1>1, <1>4, <2>3, ClaimsOneEach
  <2> QED BY <2>1, <2>2, <2>3
<1> QED BY <1>2, <1>3, <1>4 DEF Inv, OneEach, FirstPassword

-----------------------------------------------------------------------------
(* Steps that change nothing but the request that takes them               *)

LEMMA QuietKeeps ==
  ASSUME Inv, StoreSame, NEW r \in Requests, NEW q \in Request, Becomes(r, q),
         PointInv(q), PastInv(q), Claims(r, q)
  PROVE  Inv'
<1>1. Forward /\ StateType' /\ LiveIndexedOrMissed'
  BY StoreSameForward
<1>2. PastInv(q)'
  BY DEF PastInv, StoreSame, Live, FirstPassword
<1> QED BY <1>1, <1>2, StepKeeps

\* b has just started to serve an operation.
Begun(b, kind, token, pw) ==
  /\ b \in Request
  /\ b.kind = kind /\ b.token = token /\ b.pw = pw
  /\ b.pc = "idle" /\ b.outcome = "none" /\ b.answer = "none"
  /\ b.alive = {} /\ b.late = FALSE

LEMMA StartedBegun ==
  ASSUME Inv, NEW r \in Requests, req[r].pc = "idle", NEW kind \in Kinds,
         NEW token \in Tokens \cup {NULL}, NEW pw \in Passwords \cup {NULL}
  PROVE  Begun(Started(r, kind, token, pw), kind, token, pw)
<1>1. req[r] \in Request /\ req[r] = IdleRequest
  BY DEF Inv, TypeOK, PointInv
<1>2. /\ req[r].pc = "idle" /\ req[r].outcome = "none" /\ req[r].answer = "none"
      /\ req[r].alive = {} /\ req[r].late = FALSE
  BY <1>1 DEF IdleRequest
<1> QED BY <1>1, <1>2 DEF Started, Begun, Request

\* A request that starts and answers at once, with anything but a first password.
LEMMA BegunAnswered ==
  ASSUME NEW b, NEW kind, NEW token, NEW pw, Begun(b, kind, token, pw),
         NEW answer \in Answers, ~(kind = "set" /\ answer = "ok"), NEW r,
         NEW q, q = Answered(b, answer)
  PROVE  q \in Request /\ PointInv(q) /\ PastInv(q) /\ Claims(r, q)
<1>1. q \in Request
  BY DEF Answered, Begun, Request, PCs
<1>2. /\ q.pc = "done" /\ q.answer = answer /\ q.kind = kind /\ q.outcome = "none"
      /\ q.alive = {} /\ q.late = FALSE
  BY DEF Answered, Begun, Request
<1> QED BY <1>1, <1>2 DEF PointInv, PastInv, Claims, FirstPassword

\* A request that starts and goes on to another point.
LEMMA BegunAt ==
  ASSUME NEW b, NEW kind, NEW token, NEW pw, Begun(b, kind, token, pw),
         NEW pc \in PCs \ {"idle", "sweepDelete"}, NEW r,
         NEW q, q = At(b, pc)
  PROVE  /\ q \in Request /\ PastInv(q) /\ Claims(r, q)
         /\ q.pc = pc /\ q.kind = kind /\ q.token = token /\ q.pw = pw
         /\ q.answer = "none"
<1>1. q \in Request
  BY DEF At, Begun, Request
<1>2. /\ q.pc = pc /\ q.answer = "none" /\ q.kind = kind /\ q.outcome = "none"
      /\ q.token = token /\ q.pw = pw /\ q.alive = {} /\ q.late = FALSE
  BY DEF At, Begun, Request
<1> QED BY <1>1, <1>2 DEF PastInv, Claims, FirstPassword

\* A request that has started moves on without doing anything else.
LEMMA Moved ==
  ASSUME Inv, NEW r \in Requests, req[r].pc \notin {"idle", "sweepDelete", "lost"},
         NEW pc \in PCs, pc \notin {"idle", "sweepDelete"},
         pc = "issue" => ~(req[r].kind = "refresh" /\ req[r].late),
         NEW q, q = At(req[r], pc)
  PROVE  /\ q \in Request /\ PastInv(q)
         /\ q.outcome = req[r].outcome /\ q.token = req[r].token
         /\ q.pc = pc /\ q.kind = req[r].kind /\ q.pw = req[r].pw
         /\ q.answer = req[r].answer
<1>1. req[r] \in Request /\ PastInv(req[r])
  BY DEF Inv, TypeOK
<1>2. q \in Request
  BY <1>1 DEF At, Request
<1>3. /\ q.outcome = req[r].outcome /\ q.token = req[r].token /\ q.pc = pc
      /\ q.kind = req[r].kind /\ q.pw = req[r].pw /\ q.answer = req[r].answer
      /\ q.alive = req[r].alive /\ q.late = req[r].late
  BY <1>1 DEF At, Request
<1> QED BY <1>1, <1>2, <1>3 DEF PastInv, FirstPassword

LEMMA BeginAnswerKeeps ==
  ASSUME Inv, StoreSame, NEW r \in Requests, NEW b,
         NEW kind, NEW token, NEW pw, Begun(b, kind, token, pw),
         NEW answer \in Answers, ~(kind = "set" /\ answer = "ok"),
         Becomes(r, Answered(b, answer))
  PROVE  Inv'
<1>1. PICK q : q = Answered(b, answer)
  OBVIOUS
<1>2. q \in Request /\ PointInv(q) /\ PastInv(q) /\ Claims(r, q)
  BY <1>1, BegunAnswered
<1> QED BY <1>1, <1>2, QuietKeeps

\* Where a request of each kind goes from its first step.
Enters(kind, pc, token, pw) ==
  \/ kind = "login" /\ pc \in {"rehash", "issue"} /\ pw \in Passwords
  \/ kind = "google" /\ pc = "issue"
  \/ kind = "logout" /\ pc = "logoutDelete" /\ token \in Tokens
  \/ kind = "logoutAll" /\ pc = "sweep"
  \/ kind = "change" /\ pc = "changeWrite" /\ pw \in Passwords
  \/ kind = "set" /\ pc = "setWrite" /\ pw \in Passwords
  \/ kind = "disable" /\ pc = "disableWrite"

LEMMA BeginAtKeeps ==
  ASSUME Inv, StoreSame, NEW r \in Requests, NEW b,
         NEW kind, NEW token, NEW pw, Begun(b, kind, token, pw),
         NEW pc, Enters(kind, pc, token, pw),
         Becomes(r, At(b, pc))
  PROVE  Inv'
<1>1. PICK q : q = At(b, pc)
  OBVIOUS
<1>2. pc \in PCs \ {"idle", "sweepDelete"}
  BY DEF Enters, PCs
<1>3. /\ q \in Request /\ PastInv(q) /\ Claims(r, q)
      /\ q.pc = pc /\ q.kind = kind /\ q.token = token /\ q.pw = pw
      /\ q.answer = "none"
  BY <1>1, <1>2, BegunAt
<1>4. PointInv(q)
  BY <1>3 DEF PointInv, Enters
<1> QED BY <1>1, <1>3, <1>4, QuietKeeps

LEMMA LoginReadKeeps ==
  ASSUME Inv, NEW r \in Requests, NEW pw \in Passwords, LoginRead(r, pw)
  PROVE  Inv'
<1> DEFINE b == Started(r, "login", NULL, pw)
<1>1. Begun(b, "login", NULL, pw) /\ StoreSame
  BY StartedBegun DEF LoginRead, Kinds, StoreSame
<1>2. \/ Becomes(r, Answered(b, "denied"))
      \/ Becomes(r, Answered(b, "disabled"))
      \/ Becomes(r, At(b, "rehash"))
      \/ Becomes(r, At(b, "issue"))
  BY DEF LoginRead
<1> HIDE DEF b
<1>3. /\ Enters("login", "rehash", NULL, pw) /\ Enters("login", "issue", NULL, pw)
      /\ "denied" \in Answers /\ "disabled" \in Answers
  BY DEF Enters, Answers
<1> QED BY <1>1, <1>2, <1>3, BeginAnswerKeeps, BeginAtKeeps

LEMMA GoogleLoginKeeps ==
  ASSUME Inv, NEW r \in Requests, GoogleLogin(r)
  PROVE  Inv'
<1> DEFINE b == Started(r, "google", NULL, NULL)
<1>1. Begun(b, "google", NULL, NULL) /\ StoreSame
  BY StartedBegun DEF GoogleLogin, Kinds, StoreSame
<1>2. \/ Becomes(r, Answered(b, "disabled"))
      \/ Becomes(r, At(b, "issue"))
  BY DEF GoogleLogin
<1> HIDE DEF b
<1>3. Enters("google", "issue", NULL, NULL) /\ "disabled" \in Answers
  BY DEF Enters, Answers
<1> QED BY <1>1, <1>2, <1>3, BeginAnswerKeeps, BeginAtKeeps

LEMMA LogoutReadKeeps ==
  ASSUME Inv, NEW r \in Requests, NEW t \in Tokens, LogoutRead(r, t)
  PROVE  Inv'
<1> DEFINE b == Started(r, "logout", t, NULL)
<1>1. Begun(b, "logout", t, NULL) /\ StoreSame
  BY StartedBegun DEF LogoutRead, Kinds, StoreSame
<1>2. \/ Becomes(r, Answered(b, "ok"))
      \/ Becomes(r, At(b, "logoutDelete"))
  BY DEF LogoutRead
<1> HIDE DEF b
<1>3. Enters("logout", "logoutDelete", t, NULL) /\ "ok" \in Answers
  BY DEF Enters, Answers
<1> QED BY <1>1, <1>2, <1>3, BeginAnswerKeeps, BeginAtKeeps

LEMMA LogoutAllKeeps ==
  ASSUME Inv, NEW r \in Requests, LogoutAll(r)
  PROVE  Inv'
<1> DEFINE b == Started(r, "logoutAll", NULL, NULL)
<1>1. Begun(b, "logoutAll", NULL, NULL) /\ StoreSame
  BY StartedBegun DEF LogoutAll, Kinds, StoreSame
<1>2. Becomes(r, At(b, "sweep"))
  BY DEF LogoutAll
<1> HIDE DEF b
<1>3. Enters("logoutAll", "sweep", NULL, NULL)
  BY DEF Enters
<1> QED BY <1>1, <1>2, <1>3, BeginAtKeeps

LEMMA ChangeReadKeeps ==
  ASSUME Inv, NEW r \in Requests, NEW current \in Passwords, NEW new \in Passwords,
         ChangeRead(r, current, new)
  PROVE  Inv'
<1> DEFINE b == Started(r, "change", NULL, new)
<1>1. Begun(b, "change", NULL, new) /\ StoreSame
  BY StartedBegun DEF ChangeRead, Kinds, StoreSame
<1>2. \/ Becomes(r, Answered(b, "conflict"))
      \/ Becomes(r, Answered(b, "denied"))
      \/ Becomes(r, At(b, "changeWrite"))
  BY DEF ChangeRead
<1> HIDE DEF b
<1>3. /\ Enters("change", "changeWrite", NULL, new)
      /\ "conflict" \in Answers /\ "denied" \in Answers
  BY DEF Enters, Answers
<1> QED BY <1>1, <1>2, <1>3, BeginAnswerKeeps, BeginAtKeeps

LEMMA SetReadKeeps ==
  ASSUME Inv, NEW r \in Requests, NEW new \in Passwords, SetRead(r, new)
  PROVE  Inv'
<1> DEFINE b == Started(r, "set", NULL, new)
<1>1. Begun(b, "set", NULL, new) /\ StoreSame
  BY StartedBegun DEF SetRead, Kinds, StoreSame
<1>2. \/ Becomes(r, Answered(b, "conflict"))
      \/ Becomes(r, At(b, "setWrite"))
  BY DEF SetRead
<1> HIDE DEF b
<1>3. Enters("set", "setWrite", NULL, new) /\ "conflict" \in Answers
  BY DEF Enters, Answers
<1> QED BY <1>1, <1>2, <1>3, BeginAnswerKeeps, BeginAtKeeps

LEMMA DisableReadKeeps ==
  ASSUME Inv, NEW r \in Requests, DisableRead(r)
  PROVE  Inv'
<1> DEFINE b == Started(r, "disable", NULL, NULL)
<1>1. Begun(b, "disable", NULL, NULL) /\ StoreSame
  BY StartedBegun DEF DisableRead, Kinds, StoreSame
<1>2. \/ Becomes(r, Answered(b, "disabled"))
      \/ Becomes(r, At(b, "disableWrite"))
  BY DEF DisableRead
<1> HIDE DEF b
<1>3. Enters("disable", "disableWrite", NULL, NULL) /\ "disabled" \in Answers
  BY DEF Enters, Answers
<1> QED BY <1>1, <1>2, <1>3, BeginAnswerKeeps, BeginAtKeeps

-----------------------------------------------------------------------------
(* Steps that write the account's row or its credential, and moves between *)
(* the points of a handler                                                 *)

LEMMA MovedKeeps ==
  ASSUME Inv, Forward, StateType', LiveIndexedOrMissed', NEW r \in Requests,
         req[r].pc \notin {"idle", "done", "sweepDelete", "lost"},
         NEW pc \in {"issue", "sweep", "lost"}, Becomes(r, At(req[r], pc)),
         pc = "issue" => /\ req[r].kind \in {"login", "google", "refresh", "change"}
                         /\ ~(req[r].kind = "refresh" /\ req[r].late),
         pc = "sweep" => req[r].kind \in {"refresh", "logoutAll", "change", "disable"}
  PROVE  Inv'
<1>1. PICK q : q = At(req[r], pc)
  OBVIOUS
<1>2. pc \in PCs /\ pc \notin {"idle", "sweepDelete"}
  BY DEF PCs
<1>3. /\ q \in Request /\ PastInv(q)
      /\ q.outcome = req[r].outcome /\ q.token = req[r].token
      /\ q.pc = pc /\ q.kind = req[r].kind /\ q.answer = req[r].answer
  BY <1>1, <1>2, Moved
<1>4. req[r].answer = "none"
  BY DEF Inv, PointInv
<1>5. PointInv(q)
  BY <1>3, <1>4 DEF PointInv
<1>6. Claims(r, q)
  BY <1>3, <1>4 DEF Claims, FirstPassword
<1>7. PastInv(q)'
  BY <1>2, <1>3, ForwardKeeps
<1> QED BY <1>1, <1>3, <1>5, <1>6, <1>7, StepKeeps

\* A write of the row or of the credential moves the store forward.
LEMMA RowForward ==
  ASSUME Inv, UNCHANGED <<records, members, missed>>,
         disabled' \in BOOLEAN, disabled => disabled',
         credential' \in Credential \cup {NULL}, credential # NULL => credential' # NULL,
         chosen' \in Passwords \cup {NULL}
  PROVE  Forward /\ StateType' /\ LiveIndexedOrMissed'
BY DEF Inv, TypeOK, Forward, StateType, LiveIndexedOrMissed, Live

LEMMA CredentialWritten ==
  ASSUME NEW pw \in Passwords
  PROVE  /\ [pw |-> pw, old |-> FALSE] \in Credential
         /\ [pw |-> pw, old |-> FALSE] # NULL
<1>1. [pw |-> pw, old |-> FALSE] \in Credential
  BY DEF Credential
<1>2. NULL \notin Credential
  BY SessionAssumption DEF Credential
<1> QED BY <1>1, <1>2

LEMMA LoginRehashKeeps ==
  ASSUME Inv, NEW r \in Requests, LoginRehash(r)
  PROVE  Inv'
<1>1. req[r].pc = "rehash" /\ req[r].kind = "login" /\ req[r].pw \in Passwords
  BY DEF LoginRehash, Inv, PointInv
<1>2. credential' \in Credential /\ credential' # NULL
  BY <1>1, CredentialWritten DEF LoginRehash
<1>3. Forward /\ StateType' /\ LiveIndexedOrMissed'
  BY <1>2, RowForward DEF LoginRehash, Inv, TypeOK
<1> QED BY <1>1, <1>3, MovedKeeps DEF LoginRehash

LEMMA ChangeWriteKeeps ==
  ASSUME Inv, NEW r \in Requests, ChangeWrite(r)
  PROVE  Inv'
<1>1. req[r].pc = "changeWrite" /\ req[r].kind = "change" /\ req[r].pw \in Passwords
  BY DEF ChangeWrite, Inv, PointInv
<1>2. credential' \in Credential /\ credential' # NULL /\ chosen' \in Passwords
  BY <1>1, CredentialWritten DEF ChangeWrite
<1>3. Forward /\ StateType' /\ LiveIndexedOrMissed'
  BY <1>2, RowForward DEF ChangeWrite, Inv, TypeOK
<1> QED BY <1>1, <1>3, MovedKeeps DEF ChangeWrite

LEMMA DisableWriteKeeps ==
  ASSUME Inv, NEW r \in Requests, DisableWrite(r)
  PROVE  Inv'
<1>1. req[r].pc = "disableWrite" /\ req[r].kind = "disable"
  BY DEF DisableWrite, Inv, PointInv
<1>2. Forward /\ StateType' /\ LiveIndexedOrMissed'
  BY RowForward DEF DisableWrite, Inv, TypeOK
<1> QED BY <1>1, <1>2, MovedKeeps DEF DisableWrite

\* An account that is enabled now was enabled at the consume.
LEMMA RefreshAccountKeeps ==
  ASSUME Inv, NEW r \in Requests, RefreshAccount(r)
  PROVE  Inv'
<1>1. req[r].pc = "account" /\ req[r].kind = "refresh" /\ (req[r].late => disabled)
  BY DEF RefreshAccount, Inv, PointInv, PastInv
<1>2. Forward /\ StateType' /\ LiveIndexedOrMissed'
  BY StoreSameForward DEF RefreshAccount, StoreSame
<1>3. CASE disabled
  BY <1>1, <1>2, <1>3, MovedKeeps DEF RefreshAccount
<1>4. CASE ~disabled
  BY <1>1, <1>2, <1>4, MovedKeeps DEF RefreshAccount
<1> QED BY <1>3, <1>4

LEMMA SetWriteKeeps ==
  ASSUME Inv, NEW r \in Requests, SetWrite(r)
  PROVE  Inv'
<1>1. /\ req[r].pc = "setWrite" /\ req[r].kind = "set" /\ req[r].pw \in Passwords
      /\ req[r] \in Request /\ PastInv(req[r])
  BY DEF SetWrite, Inv, TypeOK, PointInv
<1>2. PICK answer \in {"ok", "conflict"} :
        /\ Becomes(r, Answered(req[r], answer))
        /\ answer = "ok" => credential = NULL /\ credential' = [pw |-> req[r].pw, old |-> FALSE]
        /\ answer # "ok" => UNCHANGED credential
        /\ chosen' \in Passwords \cup {NULL}
        /\ UNCHANGED <<disabled, records, members, missed>>
  BY <1>1 DEF SetWrite, Inv, TypeOK
<1>3. /\ credential' \in Credential \cup {NULL}
      /\ credential # NULL => credential' # NULL
      /\ answer = "ok" => credential' # NULL
  BY <1>1, <1>2, CredentialWritten DEF Inv, TypeOK
<1>4. Forward /\ StateType' /\ LiveIndexedOrMissed'
  BY <1>2, <1>3, RowForward DEF Inv, TypeOK
<1>5. PICK q : q = Answered(req[r], answer)
  OBVIOUS
<1>6. answer \in Answers
  BY DEF Answers
<1>7. /\ q \in Request /\ q.pc = "done" /\ q.answer = answer /\ q.kind = "set"
      /\ q.outcome = req[r].outcome /\ q.token = req[r].token
      /\ q.alive = req[r].alive
  BY <1>1, <1>5, <1>6 DEF Answered, Request, PCs
<1>8. PointInv(q)
  BY <1>7 DEF PointInv
<1>9. Claims(r, q)
  BY <1>2, <1>7 DEF Claims, FirstPassword
<1>10. PastInv(q)'
  BY <1>1, <1>2, <1>3, <1>7 DEF PastInv, FirstPassword, Live
<1> QED BY <1>2, <1>4, <1>5, <1>7, <1>8, <1>9, <1>10, StepKeeps

\* A request that is lost keeps its past, and never answers.
LEMMA LoseKeeps ==
  ASSUME Inv, NEW r \in Requests, Lose(r)
  PROVE  Inv'
<1>1. req[r] \in Request /\ PastInv(req[r]) /\ req[r].answer = "none"
  BY DEF Lose, Inv, TypeOK, PointInv
<1>2. PICK q : q = At(req[r], "lost")
  OBVIOUS
<1>3. q \in Request
  BY <1>1, <1>2 DEF At, Request, PCs
<1>4. /\ q.pc = "lost" /\ q.answer = "none" /\ q.kind = req[r].kind
      /\ q.outcome = req[r].outcome /\ q.token = req[r].token
      /\ q.alive = req[r].alive /\ q.late = req[r].late
  BY <1>1, <1>2 DEF At, Request
<1>5. PointInv(q) /\ Claims(r, q)
  BY <1>4 DEF PointInv, Claims, FirstPassword
<1>6. PastInv(q)
  BY <1>1, <1>4 DEF PastInv, FirstPassword
<1> QED BY <1>2, <1>3, <1>5, <1>6, QuietKeeps DEF Lose, StoreSame

LEMMA LogoutFailsKeeps ==
  ASSUME Inv, NEW r \in Requests, LogoutFails(r)
  PROVE  Inv'
<1>1. /\ req[r] \in Request /\ PastInv(req[r])
      /\ req[r].pc = "logoutDelete" /\ req[r].kind = "logout"
  BY DEF LogoutFails, Inv, TypeOK, PointInv
<1>2. PICK q : q = Answered(req[r], "ok")
  OBVIOUS
<1>3. q \in Request
  BY <1>1, <1>2 DEF Answered, Request, PCs, Answers
<1>4. /\ q.pc = "done" /\ q.answer = "ok" /\ q.kind = "logout"
      /\ q.outcome = req[r].outcome /\ q.token = req[r].token
      /\ q.alive = req[r].alive /\ q.late = req[r].late
  BY <1>1, <1>2 DEF Answered, Request
<1>5. PointInv(q) /\ PastInv(q) /\ Claims(r, q)
  BY <1>1, <1>4 DEF PointInv, PastInv, Claims, FirstPassword
<1> QED BY <1>2, <1>3, <1>5, QuietKeeps DEF LogoutFails, StoreSame

-----------------------------------------------------------------------------
(* Steps of the token store                                                *)

LEMMA IssueBundleKeeps ==
  ASSUME Inv, NEW r \in Requests, NEW t \in Tokens, IssueBundle(r, t)
  PROVE  Inv'
<1>1. /\ req[r] \in Request /\ PastInv(req[r]) /\ req[r].pc = "issue"
      /\ req[r].kind \in {"login", "google", "refresh", "change"}
  BY DEF IssueBundle, Inv, TypeOK, PointInv
<1>2. /\ records[t] = "unborn" /\ records' = [records EXCEPT ![t] = "fresh"]
      /\ records \in [Tokens -> RecordStates]
      /\ members' = members \cup {t} /\ missed \subseteq missed' /\ missed' \subseteq Tokens
      /\ (\E s \in Requests : Sweeping(s)) => t \in missed'
      /\ UNCHANGED <<disabled, credential, chosen>>
  BY DEF IssueBundle, Store, Inv, TypeOK
<1>3. records' \in [Tokens -> RecordStates]
  BY <1>2 DEF RecordStates
<1>4. Live' = Live \cup {t} /\ t \notin Live
  BY <1>2 DEF Live
<1>5. Forward
  BY <1>2, <1>4 DEF Forward
<1>6. StateType' /\ LiveIndexedOrMissed'
  BY <1>2, <1>3, <1>4 DEF Inv, TypeOK, StateType, LiveIndexedOrMissed
<1>7. PICK q : q = Answered(req[r], "ok")
  OBVIOUS
<1>8. q \in Request
  BY <1>1, <1>7 DEF Answered, Request, PCs, Answers
<1>9. /\ q.pc = "done" /\ q.answer = "ok" /\ q.kind = req[r].kind
      /\ q.outcome = req[r].outcome /\ q.token = req[r].token
      /\ q.alive = req[r].alive /\ q.late = req[r].late
  BY <1>1, <1>7 DEF Answered, Request
<1>10. PointInv(q) /\ PastInv(q) /\ Claims(r, q)
  BY <1>1, <1>9 DEF PointInv, PastInv, Claims, FirstPassword
<1>11. PastInv(q)'
  BY <1>5, <1>8, <1>9, <1>10, ForwardKeeps
<1>12. Becomes(r, q)
  BY <1>7 DEF IssueBundle
<1> QED BY <1>5, <1>6, <1>8, <1>10, <1>11, <1>12, StepKeeps

\* Tokens die and the index loses only what is dead or missed.
LEMMA DyingForward ==
  ASSUME Inv, UNCHANGED <<disabled, credential, chosen, missed>>,
         records' \in [Tokens -> RecordStates], members' \subseteq Tokens,
         \A t \in Tokens : records'[t] \in {records[t], "gone"},
         Live' \subseteq members' \cup missed
  PROVE  Forward /\ StateType' /\ LiveIndexedOrMissed' /\ Live' \subseteq Live
BY DEF Inv, TypeOK, Forward, StateType, LiveIndexedOrMissed, Live

\* A step of the environment leaves every request alone.
LEMMA NobodyKeeps ==
  ASSUME Inv, Forward, StateType', LiveIndexedOrMissed', UNCHANGED req
  PROVE  Inv'
<1>1. TypeOK'
  BY DEF Inv, TypeOK, StateType
<1>2. ASSUME NEW s \in Requests PROVE PointInv(req[s])' /\ PastInv(req[s])'
  <2>1. PICK x \in Request : x = req[s]
    BY DEF Inv, TypeOK
  <2>2. PastInv(x) /\ (x.pc = "sweepDelete" => Sweeping(s)) /\ PointInv(x)
    BY <2>1 DEF Inv, Sweeping
  <2>3. PastInv(x)'
    BY <2>2, ForwardKeeps
  <2> QED BY <2>1, <2>2, <2>3 DEF PointInv, PastInv, FirstPassword, IdleRequest
<1> QED BY <1>1, <1>2 DEF Inv, OneEach, FirstPassword

LEMMA ExpireKeeps ==
  ASSUME Inv, NEW t \in Tokens, Expire(t)
  PROVE  Inv'
<1>1. /\ records' = [records EXCEPT ![t] = "gone"] /\ records[t] # "unborn"
      /\ records \in [Tokens -> RecordStates]
      /\ UNCHANGED <<disabled, credential, members, req, chosen, missed>>
  BY DEF Expire, Live, Inv, TypeOK
<1>2. records' \in [Tokens -> RecordStates] /\ Live' \subseteq Live
  BY <1>1 DEF RecordStates, Live
<1>3. Forward /\ StateType' /\ LiveIndexedOrMissed'
  BY <1>1, <1>2, DyingForward DEF Inv, TypeOK, LiveIndexedOrMissed
<1> QED BY <1>1, <1>3, NobodyKeeps

LEMMA ExpireIndexKeeps ==
  ASSUME Inv, ExpireIndex
  PROVE  Inv'
<1>1. /\ Live = {} /\ members' = {}
      /\ UNCHANGED <<disabled, credential, records, req, chosen, missed>>
  BY DEF ExpireIndex
<1>2. Live' = {} /\ records' \in [Tokens -> RecordStates]
  BY <1>1 DEF Live, Inv, TypeOK
<1>3. Forward /\ StateType' /\ LiveIndexedOrMissed'
  BY <1>1, <1>2, DyingForward
<1> QED BY <1>1, <1>3, NobodyKeeps

LEMMA LogoutDeleteKeeps ==
  ASSUME Inv, NEW r \in Requests, LogoutDelete(r)
  PROVE  Inv'
<1> DEFINE t == req[r].token
<1>1. /\ req[r] \in Request /\ PastInv(req[r]) /\ req[r].pc = "logoutDelete"
      /\ req[r].kind = "logout" /\ t \in Tokens
  BY DEF LogoutDelete, Inv, TypeOK, PointInv
<1>2. /\ records' = [records EXCEPT ![t] = "gone"] /\ members' = members \ {t}
      /\ records \in [Tokens -> RecordStates]
      /\ UNCHANGED <<disabled, credential, chosen, missed>>
  BY DEF LogoutDelete, Inv, TypeOK
<1> HIDE DEF t
<1>3. t \in Tokens
  BY <1>1 DEF t
<1>4. records' \in [Tokens -> RecordStates] /\ Live' = Live \ {t}
  BY <1>2, <1>3 DEF RecordStates, Live
<1>5. Forward /\ StateType' /\ LiveIndexedOrMissed' /\ Live' \subseteq Live
  <2>1. members' \subseteq Tokens /\ Live' \subseteq members' \cup missed
    BY <1>2, <1>4 DEF Inv, TypeOK, LiveIndexedOrMissed
  <2> QED BY <1>2, <1>3, <1>4, <2>1, DyingForward
<1>6. PICK q : q = Answered(req[r], "ok")
  OBVIOUS
<1>7. q \in Request
  BY <1>1, <1>6 DEF Answered, Request, PCs, Answers
<1>8. /\ q.pc = "done" /\ q.answer = "ok" /\ q.kind = "logout"
      /\ q.outcome = req[r].outcome /\ q.token = req[r].token
      /\ q.alive = req[r].alive /\ q.late = req[r].late
  BY <1>1, <1>6 DEF Answered, Request
<1>9. PointInv(q) /\ PastInv(q) /\ Claims(r, q)
  BY <1>1, <1>8 DEF PointInv, PastInv, Claims, FirstPassword
<1>10. PastInv(q)'
  BY <1>5, <1>7, <1>8, <1>9, ForwardKeeps
<1>11. Becomes(r, q)
  BY <1>6 DEF LogoutDelete
<1> QED BY <1>5, <1>7, <1>9, <1>10, <1>11, StepKeeps

\* The script marks a fresh record and leaves any other as it is.
LEMMA ConsumeForward ==
  ASSUME Inv, NEW t \in Tokens, records[t] # "unborn",
         records' = [records EXCEPT ![t] = Consumed(@)],
         UNCHANGED <<disabled, credential, members, chosen, missed>>
  PROVE  /\ Forward /\ StateType' /\ LiveIndexedOrMissed' /\ Live' = Live
         /\ records'[t] = Consumed(records[t])
<1>1. records \in [Tokens -> RecordStates]
  BY DEF Inv, TypeOK
<1>2. records' \in [Tokens -> RecordStates] /\ records'[t] = Consumed(records[t])
  BY <1>1 DEF Consumed, RecordStates
<1>3. Live' = Live
  BY <1>1 DEF Live, Consumed
<1>4. \A u \in Tokens : /\ records[u] \in {"used", "gone"} => records'[u] = records[u]
                        /\ records[u] # "unborn" => records'[u] # "unborn"
  BY <1>1 DEF Consumed
<1> QED BY <1>1, <1>2, <1>3, <1>4
        DEF Inv, TypeOK, Forward, StateType, LiveIndexedOrMissed

LEMMA RefreshConsumeKeeps ==
  ASSUME Inv, NEW r \in Requests, NEW t \in Tokens, RefreshConsume(r, t)
  PROVE  Inv'
<1> DEFINE b == Started(r, "refresh", t, NULL)
<1>1. Begun(b, "refresh", t, NULL)
  BY StartedBegun DEF RefreshConsume, Kinds
<1>2. /\ records[t] # "unborn" /\ records' = [records EXCEPT ![t] = Consumed(@)]
      /\ UNCHANGED <<disabled, credential, members, chosen, missed>>
  BY DEF RefreshConsume
<1>3. /\ Forward /\ StateType' /\ LiveIndexedOrMissed' /\ Live' = Live
      /\ records'[t] = Consumed(records[t])
  BY <1>2, ConsumeForward
<1>4. PICK q : /\ Becomes(r, q)
               /\ \/ /\ records[t] = "gone"
                     /\ q = [Answered([b EXCEPT !.late = disabled], "revoked")
                               EXCEPT !.outcome = "missing"]
                  \/ /\ records[t] = "used"
                     /\ q = [[b EXCEPT !.late = disabled]
                               EXCEPT !.outcome = "replay", !.pc = "sweep"]
                  \/ /\ records[t] = "fresh"
                     /\ q = [[b EXCEPT !.late = disabled] EXCEPT !.outcome = "ok", !.pc = "account"]
  BY DEF RefreshConsume
<1> HIDE DEF b
<1>5. disabled \in BOOLEAN
  BY DEF Inv, TypeOK
<1>6. q \in Request
  BY <1>1, <1>4, <1>5 DEF Begun, Answered, Request, PCs, Answers, Outcomes
<1>7. /\ q.kind = "refresh" /\ q.token = t /\ q.alive = {} /\ q.late = disabled
      /\ \/ q.pc = "done" /\ q.answer = "revoked" /\ q.outcome = "missing"
         \/ q.pc = "sweep" /\ q.answer = "none" /\ q.outcome = "replay"
         \/ q.pc = "account" /\ q.answer = "none" /\ q.outcome = "ok" /\ records[t] = "fresh"
  BY <1>1, <1>4 DEF Begun, Answered, Request
<1>8. PointInv(q) /\ Claims(r, q)
  BY <1>7 DEF PointInv, Claims, FirstPassword
<1>9. q.outcome = "ok" => q.token \in Tokens /\ records'[q.token] = "used"
  BY <1>3, <1>7 DEF Consumed
<1>10. PastInv(q)'
  BY <1>2, <1>7, <1>9 DEF PastInv, FirstPassword
<1> QED BY <1>3, <1>4, <1>6, <1>8, <1>10, StepKeeps

-----------------------------------------------------------------------------
(* revokeAll                                                               *)

\* Where a sweep leads once it is over.
LEMMA AfterSweepSound ==
  ASSUME NEW p \in Request, p.kind \in {"refresh", "logoutAll", "change", "disable"},
         NEW q, q = AfterSweep(p)
  PROVE  /\ q \in Request
         /\ q.kind = p.kind /\ q.token = p.token /\ q.outcome = p.outcome
         /\ q.alive = p.alive /\ q.late = p.late
         /\ \/ q.pc = "issue" /\ q.kind = "change" /\ q.answer = p.answer
            \/ q.pc = "done" /\ (q.kind = "refresh" => q.answer # "ok")
<1>1. CASE p.kind = "change"
  <2>1. q = At(p, "issue")
    BY <1>1 DEF AfterSweep
  <2>2. q \in Request
    BY <2>1 DEF At, Request, PCs
  <2> QED BY <1>1, <2>1, <2>2 DEF At, Request
<1>2. CASE p.kind # "change"
  <2>1. PICK answer \in {"ok", "replay", "disabled"} :
          q = Answered(p, answer) /\ (p.kind = "refresh" => answer # "ok")
    BY <1>2 DEF AfterSweep
  <2>2. q \in Request
    BY <2>1 DEF Answered, Request, PCs, Answers
  <2> QED BY <2>1, <2>2 DEF Answered, Request
<1> QED BY <1>1, <1>2

LEMMA SweepReadKeeps ==
  ASSUME Inv, NEW r \in Requests, SweepRead(r)
  PROVE  Inv'
<1>1. PICK p : p = [req[r] EXCEPT !.ids = members, !.alive = Live]
  OBVIOUS
<1>2. /\ req[r] \in Request /\ PastInv(req[r]) /\ req[r].pc = "sweep"
      /\ req[r].kind \in {"refresh", "logoutAll", "change", "disable"}
      /\ req[r].answer = "none" /\ members \subseteq Tokens /\ Live \subseteq Tokens
  BY DEF SweepRead, Inv, TypeOK, PointInv, Live
<1>3. p \in Request
  BY <1>1, <1>2 DEF Request
<1>4. /\ p.ids = members /\ p.alive = Live /\ p.pc = "sweep" /\ p.kind = req[r].kind
      /\ p.token = req[r].token /\ p.outcome = req[r].outcome
      /\ p.answer = "none" /\ p.late = req[r].late
  BY <1>1, <1>2 DEF Request
<1>5. Live \subseteq members \cup missed /\ \A t \in Live : records[t] # "unborn"
  BY DEF Inv, LiveIndexedOrMissed, Live
<1>6. StoreSame /\ Becomes(r, IF members = {} THEN AfterSweep(p) ELSE At(p, "sweepDelete"))
  BY <1>1 DEF SweepRead, StoreSame
<1>7. CASE members = {}
  <2>1. PICK q : q = AfterSweep(p)
    OBVIOUS
  <2>2. /\ q \in Request
        /\ q.kind = p.kind /\ q.token = p.token /\ q.outcome = p.outcome
        /\ q.alive = p.alive /\ q.late = p.late
        /\ \/ q.pc = "issue" /\ q.kind = "change" /\ q.answer = p.answer
           \/ q.pc = "done" /\ (q.kind = "refresh" => q.answer # "ok")
    BY <1>2, <1>3, <1>4, <2>1, AfterSweepSound
  <2>3. PointInv(q) /\ Claims(r, q)
    BY <1>2, <1>4, <2>2 DEF PointInv, Claims, FirstPassword
  <2>4. PastInv(q)
    BY <1>2, <1>4, <1>5, <1>7, <2>2 DEF PastInv, FirstPassword
  <2> QED BY <1>6, <1>7, <2>1, <2>2, <2>3, <2>4, QuietKeeps
<1>8. CASE members # {}
  <2>1. PICK q : q = At(p, "sweepDelete")
    OBVIOUS
  <2>2. q \in Request
    BY <1>3, <2>1 DEF At, Request, PCs
  <2>3. /\ q.pc = "sweepDelete" /\ q.kind = p.kind /\ q.token = p.token
        /\ q.outcome = p.outcome /\ q.alive = Live /\ q.ids = members
        /\ q.late = p.late /\ q.answer = "none"
    BY <1>3, <1>4, <2>1 DEF At, Request
  <2>4. PointInv(q) /\ Claims(r, q)
    BY <1>2, <1>4, <2>3 DEF PointInv, Claims, FirstPassword
  <2>5. PastInv(q)
    BY <1>2, <1>4, <1>5, <2>3 DEF PastInv, FirstPassword
  <2> QED BY <1>6, <1>8, <2>1, <2>2, <2>4, <2>5, QuietKeeps
<1> QED BY <1>7, <1>8

\* The sweep deletes every live token its index listed; the others are missed.
LEMMA SweepDeleteKeeps ==
  ASSUME Inv, NEW r \in Requests, SweepDelete(r)
  PROVE  Inv'
<1>1. PICK p : p = [req[r] EXCEPT !.ids = {}]
  OBVIOUS
<1>2. /\ req[r] \in Request /\ PastInv(req[r]) /\ req[r].pc = "sweepDelete"
      /\ req[r].kind \in {"refresh", "logoutAll", "change", "disable"}
      /\ req[r].answer = "none"
  BY DEF SweepDelete, Sweeping, Inv, TypeOK, PointInv
<1>3. p \in Request
  BY <1>1, <1>2 DEF Request
<1>4. /\ p.alive = req[r].alive /\ p.kind = req[r].kind /\ p.token = req[r].token
      /\ p.outcome = req[r].outcome /\ p.answer = "none" /\ p.late = req[r].late
  BY <1>1, <1>2 DEF Request
<1>5. /\ records' = Swept(req[r].ids) /\ members' = {} /\ Becomes(r, AfterSweep(p))
      /\ UNCHANGED <<disabled, credential, chosen, missed>>
      /\ records \in [Tokens -> RecordStates]
  BY <1>1 DEF SweepDelete, Inv, TypeOK
<1>6. /\ records' \in [Tokens -> RecordStates]
      /\ \A t \in Tokens : records'[t] \in {records[t], "gone"}
      /\ Live' = Live \ req[r].ids
  BY <1>5 DEF Swept, RecordStates, Live
<1>7. Live \cup req[r].alive \subseteq req[r].ids \cup missed
  BY <1>2 DEF PastInv
<1>8. Forward /\ StateType' /\ LiveIndexedOrMissed'
  BY <1>5, <1>6, <1>7, DyingForward
<1>9. PICK q : q = AfterSweep(p)
  OBVIOUS
<1>10. /\ q \in Request
       /\ q.kind = p.kind /\ q.token = p.token /\ q.outcome = p.outcome
       /\ q.alive = p.alive /\ q.late = p.late
       /\ \/ q.pc = "issue" /\ q.kind = "change" /\ q.answer = p.answer
          \/ q.pc = "done" /\ (q.kind = "refresh" => q.answer # "ok")
  BY <1>2, <1>3, <1>4, <1>9, AfterSweepSound
<1>11. PointInv(q) /\ Claims(r, q)
  BY <1>2, <1>4, <1>10 DEF PointInv, Claims, FirstPassword
<1>12. q.alive \cap Live' \subseteq missed'
  BY <1>4, <1>5, <1>6, <1>7, <1>10
<1>13. /\ q.outcome = "ok" => q.token \in Tokens /\ records'[q.token] \in {"used", "gone"}
       /\ \A t \in q.alive : records'[t] # "unborn"
  <2>1. /\ q.outcome = "ok" => q.token \in Tokens /\ records[q.token] \in {"used", "gone"}
        /\ \A t \in q.alive : t \in Tokens /\ records[t] # "unborn"
    BY <1>2, <1>4, <1>10 DEF PastInv, Request
  <2> QED BY <1>6, <2>1
<1>14. q.kind = "refresh" /\ q.late => disabled' /\ q.pc # "issue" /\ q.answer # "ok"
  BY <1>2, <1>4, <1>5, <1>10 DEF PastInv
<1>15. PastInv(q)'
  BY <1>2, <1>4, <1>10, <1>12, <1>13, <1>14 DEF PastInv, FirstPassword
<1> QED BY <1>5, <1>8, <1>9, <1>10, <1>11, <1>15, StepKeeps

-----------------------------------------------------------------------------
(* The invariant is inductive                                              *)

LEMMA InitInv == Init => Inv
<1> SUFFICES ASSUME Init PROVE Inv
  OBVIOUS
<1>1. IdleRequest \in Request
  BY DEF IdleRequest, Request, PCs, Kinds, Answers, Outcomes
<1>2. TypeOK
  <2>1. StoredTokens \subseteq Tokens
    BY SessionAssumption
  <2>2. records \in [Tokens -> RecordStates] /\ req \in [Requests -> Request]
    BY <1>1 DEF Init, RecordStates
  <2>3. chosen \in Passwords \cup {NULL}
    BY DEF Init, Credential
  <2> QED BY <2>1, <2>2, <2>3 DEF Init, TypeOK
<1>3. PointInv(IdleRequest) /\ PastInv(IdleRequest) /\ OneEach(IdleRequest, IdleRequest)
  BY DEF PointInv, PastInv, OneEach, FirstPassword, IdleRequest
<1>4. \A r \in Requests : req[r] = IdleRequest
  BY DEF Init
<1>5. LiveIndexedOrMissed
  BY DEF Init, LiveIndexedOrMissed, Live
<1> QED BY <1>2, <1>3, <1>4, <1>5 DEF Inv

LEMMA NextInv == Inv /\ [Next]_vars => Inv'
<1> SUFFICES ASSUME Inv, [Next]_vars PROVE Inv'
  OBVIOUS
<1>1. ASSUME NEW r \in Requests, Login(r) PROVE Inv'
  BY <1>1, LoginReadKeeps, LoginRehashKeeps, GoogleLoginKeeps, IssueBundleKeeps DEF Login
<1>2. ASSUME NEW r \in Requests, Refresh(r) PROVE Inv'
  BY <1>2, RefreshConsumeKeeps, RefreshAccountKeeps DEF Refresh
<1>3. ASSUME NEW r \in Requests, Sweep(r) PROVE Inv'
  BY <1>3, SweepReadKeeps, SweepDeleteKeeps DEF Sweep
<1>4. ASSUME NEW r \in Requests, Logout(r) PROVE Inv'
  BY <1>4, LogoutReadKeeps, LogoutDeleteKeeps, LogoutFailsKeeps, LogoutAllKeeps DEF Logout
<1>5. ASSUME NEW r \in Requests, Password(r) PROVE Inv'
  BY <1>5, ChangeReadKeeps, ChangeWriteKeeps, SetReadKeeps, SetWriteKeeps DEF Password
<1>6. ASSUME NEW r \in Requests, Disable(r) PROVE Inv'
  BY <1>6, DisableReadKeeps, DisableWriteKeeps DEF Disable
<1>7. ASSUME NEW r \in Requests, Lose(r) PROVE Inv'
  BY <1>7, LoseKeeps
<1>8. ASSUME NEW t \in Tokens, Expire(t) PROVE Inv'
  BY <1>8, ExpireKeeps
<1>9. CASE ExpireIndex
  BY <1>9, ExpireIndexKeeps
<1>10. CASE UNCHANGED vars
  <2>1. /\ UNCHANGED <<disabled, credential, records, members, chosen, missed>>
        /\ UNCHANGED req
    BY <1>10 DEF vars
  <2>2. StoreSame
    BY <2>1 DEF StoreSame
  <2> QED BY <2>1, <2>2, StoreSameForward, NobodyKeeps
<1> QED BY <1>1, <1>2, <1>3, <1>4, <1>5, <1>6, <1>7, <1>8, <1>9, <1>10 DEF Next

\* Inv holds in every state of every behaviour.
THEOREM InvCorrect == Spec => []Inv
BY InitInv, NextInv, PTL DEF Spec

-----------------------------------------------------------------------------
(* What follows from it                                                    *)

\* Every variable keeps its type: in particular an account without a password
\* never turns into one with half of one, and no index holds a foreign id.
THEOREM TypeCorrect == Spec => []TypeOK
<1>1. Inv => TypeOK
  BY DEF Inv
<1> QED BY <1>1, InvCorrect, PTL

\* Rotation (CONSUME_REFRESH_LUA): one token passes at most one refresh.
THEOREM RotationCorrect == Spec => []RedeemedOnce
<1>1. Inv => RedeemedOnce
  BY DEF Inv, RedeemedOnce, PastInv, OneEach
<1> QED BY <1>1, InvCorrect, PTL

\* The index lists every live token but those a concurrent sweep missed.
THEOREM IndexCorrect == Spec => []LiveIndexedOrMissed
<1>1. Inv => LiveIndexedOrMissed
  BY DEF Inv
<1> QED BY <1>1, InvCorrect, PTL

\* revokeAll: when its caller answers, the tokens that were live at SMEMBERS
\* are dead, but for those an earlier, overlapping sweep missed.
THEOREM SweepCorrect == Spec => []SweepsKill
<1>1. Inv => SweepsKill
  BY DEF Inv, SweepsKill, PointInv, PastInv
<1> QED BY <1>1, InvCorrect, PTL

\* refreshTokens: no bundle for an account disabled before the consume.
THEOREM DisabledCorrect == Spec => []DisabledNeverRefreshed
<1>1. Inv => DisabledNeverRefreshed
  BY DEF Inv, DisabledNeverRefreshed, PastInv
<1> QED BY <1>1, InvCorrect, PTL

\* setPassword: racing requests give an account at most one first password.
THEOREM FirstPasswordCorrect == Spec => []FirstPasswordOnce
<1>1. Inv => FirstPasswordOnce
  <2> DEFINE S == {r \in Requests : req[r].kind = "set" /\ req[r].answer = "ok"}
  <2> SUFFICES ASSUME Inv PROVE Cardinality(S) <= 1
    BY DEF FirstPasswordOnce
  <2>1. \A r, s \in S : r = s
    BY DEF Inv, OneEach, FirstPassword
  <2> HIDE DEF S
  <2>2. CASE S = {}
    BY <2>2, FS_EmptySet
  <2>3. CASE S # {}
    <3>1. PICK r : r \in S
      BY <2>3
    <3>2. S = {r}
      BY <2>1, <3>1
    <3>3. Cardinality({r}) = 1
      BY FS_Singleton
    <3> QED BY <3>2, <3>3
  <2> QED BY <2>2, <2>3
<1> QED BY <1>1, InvCorrect, PTL

=============================================================================
