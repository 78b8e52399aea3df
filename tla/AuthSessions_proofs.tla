-------------------------- MODULE AuthSessions_proofs --------------------------
(***************************************************************************)
(* Theorems about AuthSessions for any number of requests, sessions,       *)
(* refresh tokens and links.  The invariant says what a request may still  *)
(* rely on of what it has read, since hardly any of it is locked.          *)
(***************************************************************************)
EXTENDS AuthSessions, TLAPS

(* What was read of the account is not newer than it, and a version goes   *)
(* with the password set when it was given out.                            *)
Recent(ver, proof) == ver <= user.version /\ (ver = user.version => proof = user.password)

WithToken == {"rotating", "checked", "rotate", "leaving", "leave"}
WithSession == {"checked", "rotate", "leaving", "leave", "active", "seen"}

Exists(s) == s \in Session /\ session[s].status # "absent"

(* What a request may rely on.                                             *)
Holds(q) ==
    /\ q.pc # "idle" => q.said = "nothing"
    /\ q.said = "loggedOut" => q.session \in Session /\ session[q.session].status = "revoked"
    /\ q.pc = "login" => Recent(q.ver, q.proof)
    /\ q.pc \in WithToken => q.token \in Token /\ token[q.token].status # "absent"
    /\ q.pc \in WithSession => Exists(q.session)
    /\ q.pc \in {"checked", "seen"} => q.ver <= user.version
    /\ q.pc = "deliver" => q.link \in Link /\ link[q.link].status # "absent"
    /\ q.pc = "confirm" =>
          /\ q.link \in Link /\ Active(q.link, q.purpose)
          /\ q.purpose = "reset" => q.ver = user.version

(* A link is locked by one request that confirms it.                       *)
Requests ==
    /\ \A r \in Request : Holds(req[r])
    /\ \A r, q \in Request :
          At(r, "confirm") /\ At(q, "confirm") /\ req[r].link = req[q].link => r = q

Sessions == \A s \in Session : Recent(session[s].ver, session[s].proof)

(* A token has a session, and a parent that is spent.                      *)
Belongs(t) ==
    /\ token[t].status # "absent" => Exists(token[t].of)
    /\ token[t].parent # None => token[token[t].parent].status = "revoked"

Tokens == \A t \in Token : Belongs(t)

(* A link that took effect is consumed, and one of a purpose is active.    *)
Links ==
    /\ \A l \in Link : used[l] = 0 \/ (used[l] = 1 /\ link[l].status = "consumed")
    /\ \A l, k \in Link, p \in Purpose : Active(l, p) /\ Active(k, p) => l = k

RowsTyped ==
    /\ user \in UserRow
    /\ session \in [Session -> SessionRow]
    /\ token \in [Token -> TokenRow]
    /\ link \in [Link -> LinkRow]
    /\ used \in [Link -> Nat]

Inv == TypeOK /\ Requests /\ Sessions /\ Tokens /\ Links

-----------------------------------------------------------------------------
(* How steps keep the invariant.                                           *)

(* A request takes the state s, and the others still hold what they held.  *)
LEMMA Moves ==
    ASSUME Inv, NEW r \in Request, NEW s \in RequestState,
           req' = [req EXCEPT ![r] = s], Holds(s)',
           \A p \in Request \ {r} : \A q \in RequestState : q = req[p] => Holds(q)',
           s.pc = "confirm" => \A p \in Request \ {r} : ~(At(p, "confirm") /\ req[p].link = s.link),
           RowsTyped', Sessions', Tokens', Links'
    PROVE  Inv'
<1>1. \A p \in Request : req'[p] = IF p = r THEN s ELSE req[p]
  BY DEF Inv, TypeOK
<1>2. TypeOK'
  BY DEF Inv, TypeOK, RowsTyped
<1>3. ASSUME NEW p \in Request PROVE Holds(req[p])'
  <2>1. CASE p = r
    <3>1. req'[p] = s
      BY <1>1, <2>1
    <3> QED BY <3>1 DEF Holds
  <2>2. CASE p # r
    <3>1. PICK q \in RequestState : q = req[p]
      BY DEF Inv, TypeOK
    <3>2. Holds(q)' /\ req'[p] = q
      BY <1>1, <2>2, <3>1
    <3> QED BY <3>2 DEF Holds
  <2> QED BY <2>1, <2>2
<1>4. \A p, q \in Request :
         (At(p, "confirm") /\ At(q, "confirm") /\ req[p].link = req[q].link)' => p = q
  BY <1>1 DEF Inv, Requests, At
<1>5. Requests'
  BY <1>3, <1>4 DEF Requests
<1> QED BY <1>2, <1>5 DEF Inv

(* A request takes the state s and writes no row.                          *)
LEMMA Stays ==
    ASSUME Inv, NEW r \in Request, NEW s \in RequestState,
           req' = [req EXCEPT ![r] = s], Holds(s),
           s.pc = "confirm" => \A p \in Request \ {r} : ~(At(p, "confirm") /\ req[p].link = s.link),
           UNCHANGED <<user, session, token, link, used>>
    PROVE  Inv'
<1>1. \A q : Holds(q) => Holds(q)'
  BY DEF Holds, Recent, Exists, Active
<1>2. \A p \in Request \ {r} : \A q \in RequestState : q = req[p] => Holds(q)'
  BY <1>1 DEF Inv, Requests
<1>3. RowsTyped' /\ Sessions' /\ Tokens' /\ Links'
  BY DEF Inv, TypeOK, RowsTyped, Sessions, Tokens, Belongs, Links, Recent, Exists, Active
<1> QED BY <1>1, <1>2, <1>3, Moves

(* Nothing that exists ceases to, and nothing revoked is revoked no more.  *)
MoveOn ==
    /\ \A s \in Session : /\ session[s].status # "absent" => session'[s].status # "absent"
                          /\ session[s].status = "revoked" => session'[s].status = "revoked"
    /\ \A t \in Token : /\ token[t].status # "absent" => token'[t].status # "absent"
                        /\ token[t].status = "revoked" => token'[t].status = "revoked"
    /\ \A l \in Link : link[l].status # "absent" => link'[l].status # "absent"

(* What a request holds it keeps while rows move on, unless the version is *)
(* raised or the link it confirms is written.                              *)
LEMMA StillHolds ==
    ASSUME NEW q \in RequestState, Holds(q), MoveOn,
           user'.version = user.version, user'.password = user.password,
           q.pc = "confirm" => Active(q.link, q.purpose)'
    PROVE  Holds(q)'
<1>1. (q.pc = "login" => Recent(q.ver, q.proof))'
  BY DEF Holds, Recent
<1>2. (q.pc \in WithToken => q.token \in Token /\ token[q.token].status # "absent")'
  BY DEF Holds, MoveOn
<1>3. (q.pc \in WithSession => Exists(q.session))'
  BY DEF Holds, MoveOn, Exists
<1>4. (q.said = "loggedOut" => q.session \in Session /\ session[q.session].status = "revoked")'
  BY DEF Holds, MoveOn
<1>5. (q.pc = "deliver" => q.link \in Link /\ link[q.link].status # "absent")'
  BY DEF Holds, MoveOn
<1> QED BY <1>1, <1>2, <1>3, <1>4, <1>5 DEF Holds

(* An idle request relies on nothing.                                      *)
LEMMA QuietHolds == Quiet \in RequestState /\ Holds(Quiet) /\ Holds(Quiet)' /\ Quiet.pc = "idle"
BY DEF Quiet, RequestState, Stage, Purpose, Holds, WithToken, WithSession

(* A request that ends and writes no row.                                  *)
LEMMA EndKeeps ==
    ASSUME Inv, NEW r \in Request, End(r), UNCHANGED <<user, session, token, link, used>>
    PROVE  Inv'
BY QuietHolds, Stays DEF End

(* What is known of a request.                                             *)
LEMMA Here ==
    ASSUME Inv, NEW r \in Request
    PROVE  req[r] \in RequestState /\ Holds(req[r])
BY DEF Inv, TypeOK, Requests

(* A request that was let in.                                              *)
LEMMA ServedState ==
    ASSUME NEW x \in Session \cup {None}, NEW s, s = [Quiet EXCEPT !.said = "served", !.session = x]
    PROVE  s \in RequestState /\ Holds(s) /\ Holds(s)' /\ s.pc = "idle"
BY QuietHolds DEF Quiet, RequestState, Holds, WithToken, WithSession

(* A request that was told it logged out.                                  *)
LEMMA LoggedOutState ==
    ASSUME NEW x \in Session, NEW s, s = [Quiet EXCEPT !.said = "loggedOut", !.session = x]
    PROVE  /\ s \in RequestState /\ s.pc = "idle"
           /\ session[x].status = "revoked" => Holds(s)
           /\ session'[x].status = "revoked" => Holds(s)'
BY QuietHolds DEF Quiet, RequestState, Holds, WithToken, WithSession

-----------------------------------------------------------------------------
(* Requests begin.                                                         *)

(* A request that has read the account to log in.                          *)
LEMMA AuthenticateKeeps ==
    ASSUME Inv, NEW r \in Request, Authenticate(r)
    PROVE  Inv'
<1> DEFINE s == [Quiet EXCEPT !.pc = "login", !.ver = user.version, !.proof = user.password]
<1>1. req' = [req EXCEPT ![r] = s] /\ UNCHANGED <<user, session, token, link, used>>
  BY DEF Authenticate, Start
<1>2. user.version \in Nat /\ user.password \in Nat
  BY DEF Inv, TypeOK, UserRow
<1>3. s \in RequestState
  BY <1>2, QuietHolds DEF Quiet, RequestState, Stage
<1>4. /\ s.pc = "login" /\ s.said = "nothing"
      /\ s.ver = user.version /\ s.proof = user.password
  BY DEF Quiet
<1> HIDE DEF s
<1>5. Holds(s)
  BY <1>2, <1>4 DEF Holds, Recent, WithToken, WithSession
<1> QED BY <1>1, <1>3, <1>4, <1>5, Stays

(* A request that has found its refresh token.                             *)
LEMMA PresentKeeps ==
    ASSUME Inv, NEW r \in Request, NEW t \in Token, PresentToken(r, t)
    PROVE  Inv'
<1> DEFINE s == [Quiet EXCEPT !.pc = "rotating", !.token = t]
<1>1. /\ req' = [req EXCEPT ![r] = s] /\ UNCHANGED <<user, session, token, link, used>>
      /\ token[t].status # "absent"
  BY DEF PresentToken, Start
<1>2. s \in RequestState
  BY QuietHolds DEF Quiet, RequestState, Stage
<1>3. s.pc = "rotating" /\ s.said = "nothing" /\ s.token = t
  BY DEF Quiet
<1> HIDE DEF s
<1>4. Holds(s)
  BY <1>1, <1>3 DEF Holds, WithToken, WithSession
<1> QED BY <1>1, <1>2, <1>3, <1>4, Stays

(* A request that has found the token to log out with.                     *)
LEMMA FindTokenKeeps ==
    ASSUME Inv, NEW r \in Request, NEW t \in Token, FindToken(r, t)
    PROVE  Inv'
<1> DEFINE s == [Quiet EXCEPT !.pc = "leaving", !.token = t, !.session = token[t].of]
<1>1. /\ req' = [req EXCEPT ![r] = s] /\ UNCHANGED <<user, session, token, link, used>>
      /\ token[t].status # "absent"
  BY DEF FindToken, Start
<1>2. Exists(token[t].of)
  BY <1>1 DEF Inv, Tokens, Belongs
<1>3. s \in RequestState
  BY <1>2, QuietHolds DEF Quiet, RequestState, Stage, Exists
<1>4. s.pc = "leaving" /\ s.said = "nothing" /\ s.token = t /\ s.session = token[t].of
  BY DEF Quiet
<1> HIDE DEF s
<1>5. Holds(s)
  BY <1>1, <1>2, <1>4 DEF Holds, WithToken, WithSession
<1> QED BY <1>1, <1>3, <1>4, <1>5, Stays

(* A request with an access token, a registration, a request for a link.   *)
LEMMA BeginsWithNothing ==
    ASSUME Inv, NEW r \in Request,
           \/ \E x \in Session : ReadUser(r, x)
           \/ \E purpose \in Purpose : AskForLink(r, purpose)
    PROVE  Inv'
<1>1. ASSUME NEW x \in Session, ReadUser(r, x) PROVE Inv'
  <2> DEFINE s == [Quiet EXCEPT !.pc = "active", !.session = x]
  <2>1. /\ req' = [req EXCEPT ![r] = s] /\ UNCHANGED <<user, session, token, link, used>>
        /\ Exists(x)
    BY <1>1 DEF ReadUser, Start, Exists
  <2>2. s \in RequestState
    BY QuietHolds DEF Quiet, RequestState, Stage
  <2>3. s.pc = "active" /\ s.said = "nothing" /\ s.session = x
    BY DEF Quiet
  <2> HIDE DEF s
  <2>4. Holds(s)
    BY <2>1, <2>3 DEF Holds, WithToken, WithSession
  <2> QED BY <2>1, <2>2, <2>3, <2>4, Stays
<1>2. ASSUME NEW purpose \in Purpose, AskForLink(r, purpose) PROVE Inv'
  <2> DEFINE s == [Quiet EXCEPT !.pc = "lock", !.purpose = purpose]
  <2>1. req' = [req EXCEPT ![r] = s] /\ UNCHANGED <<user, session, token, link, used>>
    BY <1>2 DEF AskForLink, Start
  <2>2. s \in RequestState
    BY QuietHolds DEF Quiet, RequestState, Stage
  <2>3. s.pc = "lock" /\ s.said = "nothing"
    BY DEF Quiet
  <2> HIDE DEF s
  <2>4. Holds(s)
    BY <2>3 DEF Holds, WithToken, WithSession
  <2> QED BY <2>1, <2>2, <2>3, <2>4, Stays
<1> QED BY <1>1, <1>2

(* A request that has locked the link it was called with.                  *)
LEMMA FollowKeeps ==
    ASSUME Inv, NEW r \in Request, NEW l \in Link, FollowLink(r, l)
    PROVE  Inv'
<1>0. PICK ver : ver = IF link[l].purpose = "verify" /\ user.verified THEN 0 ELSE user.version
  OBVIOUS
<1>1. PICK purpose : purpose = link[l].purpose
  OBVIOUS
<1> DEFINE s == [Quiet EXCEPT !.pc = "confirm", !.link = l, !.purpose = purpose, !.ver = ver]
<1>2. /\ req' = [req EXCEPT ![r] = s] /\ UNCHANGED <<user, session, token, link, used>>
      /\ link[l].status \in {"fresh", "ripe"}
      /\ \A p \in Request : ~(At(p, "confirm") /\ req[p].link = l)
  BY <1>0, <1>1 DEF FollowLink, ReadLink, Start, LinkLocked
<1>3. purpose \in Purpose /\ ver \in Nat /\ (purpose = "reset" => ver = user.version)
  BY <1>0, <1>1 DEF Inv, TypeOK, UserRow, LinkRow
<1>4. s \in RequestState
  BY <1>3, QuietHolds DEF Quiet, RequestState, Stage
<1>5. /\ s.pc = "confirm" /\ s.said = "nothing" /\ s.link = l /\ s.purpose = purpose /\ s.ver = ver
  BY DEF Quiet
<1> HIDE DEF s
<1>6. Active(l, purpose)
  BY <1>1, <1>2 DEF Active, Unconsumed
<1>7. Holds(s)
  BY <1>3, <1>5, <1>6 DEF Holds, WithToken, WithSession
<1> QED BY <1>2, <1>4, <1>5, <1>7, Stays

-----------------------------------------------------------------------------
(* Reads and answers on the way.                                           *)

(* A refresh finds the session of its token, and compares the version.     *)
LEMMA RefreshReads ==
    ASSUME Inv, NEW r \in Request, ReadSession(r) \/ ValidateVersion(r)
    PROVE  Inv'
<1>0. req[r] \in RequestState /\ Holds(req[r]) /\ UNCHANGED <<user, session, token, link, used>>
  BY Here DEF ReadSession, ValidateVersion
<1>1. CASE End(r)
  BY <1>0, <1>1, EndKeeps
<1>2. CASE ReadSession(r) /\ ~End(r)
  <2>1. PICK x : x = token[req[r].token].of
    OBVIOUS
  <2>2. PICK ver : ver = session[x].ver
    OBVIOUS
  <2> DEFINE s == [req[r] EXCEPT !.pc = "checked", !.session = x, !.ver = ver]
  <2>3. /\ req[r].pc = "rotating" /\ session[x].status = "open"
        /\ req' = [req EXCEPT ![r] = s]
    BY <1>2, <2>1, <2>2 DEF ReadSession, At
  <2>4. Exists(x)
    BY <1>0, <2>1, <2>3 DEF Inv, Tokens, Belongs, Holds, WithToken
  <2>5. ver \in Nat /\ ver <= user.version
    BY <2>2, <2>4 DEF Inv, TypeOK, SessionRow, Sessions, Recent, Exists
  <2>6. s \in RequestState
    BY <1>0, <2>4, <2>5 DEF RequestState, Stage, Exists
  <2>7. /\ s.pc = "checked" /\ s.said = "nothing" /\ s.session = x /\ s.ver = ver
        /\ s.token = req[r].token
    BY <1>0, <2>3 DEF RequestState, Holds
  <2>8. s.token \in Token /\ token[s.token].status # "absent"
    BY <1>0, <2>3, <2>7 DEF Holds, WithToken
  <2> HIDE DEF s
  <2>9. Holds(s)
    BY <2>4, <2>5, <2>7, <2>8 DEF Holds, WithToken, WithSession
  <2> QED BY <1>0, <2>3, <2>6, <2>7, <2>9, Stays
<1>3. CASE ValidateVersion(r) /\ ~End(r)
  <2> DEFINE s == [req[r] EXCEPT !.pc = "rotate"]
  <2>1. req[r].pc = "checked" /\ req' = [req EXCEPT ![r] = s]
    BY <1>3 DEF ValidateVersion, At, Go
  <2>2. s \in RequestState /\ s.pc = "rotate"
    BY <1>0 DEF RequestState, Stage
  <2>3. Holds(s)
    BY <1>0, <2>1 DEF RequestState, Holds, WithToken, WithSession
  <2> HIDE DEF s
  <2> QED BY <1>0, <2>1, <2>2, <2>3, Stays
<1> QED BY <1>1, <1>2, <1>3

(* A logout finds its session.                                             *)
LEMMA FindSessionKeeps ==
    ASSUME Inv, NEW r \in Request, FindSession(r)
    PROVE  Inv'
<1>0. /\ req[r] \in RequestState /\ Holds(req[r]) /\ req[r].pc = "leaving"
      /\ UNCHANGED <<user, session, token, link, used>>
  BY Here DEF FindSession, At
<1>1. CASE session[req[r].session].status = "revoked"
  <2>1. req[r].session \in Session
    BY <1>0 DEF Holds, WithSession, Exists
  <2>2. PICK s : s = [Quiet EXCEPT !.said = "loggedOut", !.session = req[r].session]
    OBVIOUS
  <2>3. req' = [req EXCEPT ![r] = s]
    BY <1>1, <2>2 DEF FindSession, Say
  <2> QED BY <1>0, <1>1, <2>1, <2>2, <2>3, LoggedOutState, Stays
<1>2. CASE session[req[r].session].status # "revoked"
  <2> DEFINE s == [req[r] EXCEPT !.pc = "leave"]
  <2>1. req' = [req EXCEPT ![r] = s]
    BY <1>2 DEF FindSession, Go
  <2>2. s \in RequestState /\ s.pc = "leave"
    BY <1>0 DEF RequestState, Stage
  <2>3. Holds(s)
    BY <1>0 DEF RequestState, Holds, WithToken, WithSession
  <2> HIDE DEF s
  <2> QED BY <1>0, <2>1, <2>2, <2>3, Stays
<1> QED BY <1>1, <1>2

(* An authenticated request sees its session and is let in or not.         *)
LEMMA AccessReads ==
    ASSUME Inv, NEW r \in Request, SeeSession(r) \/ LetIn(r)
    PROVE  Inv'
<1>0. req[r] \in RequestState /\ Holds(req[r]) /\ UNCHANGED <<user, session, token, link, used>>
  BY Here DEF SeeSession, LetIn
<1>1. CASE End(r)
  BY <1>0, <1>1, EndKeeps
<1>2. CASE SeeSession(r) /\ ~End(r)
  <2>1. PICK ver : ver = session[req[r].session].ver
    OBVIOUS
  <2> DEFINE s == [req[r] EXCEPT !.pc = "seen", !.ver = ver]
  <2>2. req[r].pc = "active" /\ req' = [req EXCEPT ![r] = s]
    BY <1>2, <2>1 DEF SeeSession, At
  <2>3. Exists(req[r].session)
    BY <1>0, <2>2 DEF Holds, WithSession
  <2>4. ver \in Nat /\ ver <= user.version
    BY <2>1, <2>3 DEF Inv, TypeOK, SessionRow, Sessions, Recent, Exists
  <2>5. s \in RequestState
    BY <1>0, <2>4 DEF RequestState, Stage
  <2>6. s.pc = "seen" /\ s.said = "nothing" /\ s.session = req[r].session /\ s.ver = ver
    BY <1>0, <2>2 DEF RequestState, Holds
  <2> HIDE DEF s
  <2>7. Holds(s)
    BY <2>3, <2>4, <2>6 DEF Holds, WithToken, WithSession
  <2> QED BY <1>0, <2>2, <2>5, <2>6, <2>7, Stays
<1>3. CASE LetIn(r) /\ ~End(r)
  <2>1. PICK s : s = [Quiet EXCEPT !.said = "served", !.session = req[r].session]
    OBVIOUS
  <2>2. req' = [req EXCEPT ![r] = s]
    BY <1>3, <2>1 DEF LetIn, Say
  <2>3. req[r].session \in Session \cup {None}
    BY <1>0 DEF RequestState
  <2>4. s \in RequestState /\ Holds(s) /\ s.pc = "idle"
    BY <2>1, <2>3, ServedState
  <2> QED BY <1>0, <2>2, <2>4, Stays
<1> QED BY <1>1, <1>2, <1>3

(* The account is locked for a new link.                                   *)
LEMMA LockKeeps ==
    ASSUME Inv, NEW r \in Request, LockUser(r)
    PROVE  Inv'
<1> DEFINE s == [req[r] EXCEPT !.pc = "issue"]
<1>1. /\ req[r] \in RequestState /\ Holds(req[r]) /\ req[r].pc = "lock"
      /\ req' = [req EXCEPT ![r] = s] /\ UNCHANGED <<user, session, token, link, used>>
  BY Here DEF LockUser, At, Go
<1>2. s \in RequestState /\ s.pc = "issue" /\ s.said = "nothing"
  BY <1>1 DEF RequestState, Stage, Holds
<1> HIDE DEF s
<1>3. Holds(s)
  BY <1>2 DEF Holds, WithToken, WithSession
<1> QED BY <1>1, <1>2, <1>3, Stays


-----------------------------------------------------------------------------
(* Rows are written.                                                       *)

(* The links others are confirming stay as they are wanted.                *)
Confirmable(p) == At(p, "confirm") =>
    /\ link'[req[p].link].status \in Unconsumed
    /\ link'[req[p].link].purpose = req[p].purpose

(* A request writes rows, but not the version of the account.              *)
LEMMA Writes ==
    ASSUME Inv, NEW r \in Request, NEW s \in RequestState,
           req' = [req EXCEPT ![r] = s], Holds(s)', s.pc # "confirm",
           MoveOn, user'.version = user.version, user'.password = user.password,
           \A p \in Request \ {r} : Confirmable(p),
           RowsTyped', Sessions', Tokens', Links'
    PROVE  Inv'
<1>1. ASSUME NEW p \in Request \ {r}, NEW q \in RequestState, q = req[p]
      PROVE  Holds(q)'
  <2>1. Holds(q)
    BY <1>1, Here
  <2>2. q.pc = "confirm" => Active(q.link, q.purpose)'
    BY <1>1 DEF Confirmable, At, Active
  <2> QED BY <2>1, <2>2, StillHolds
<1> QED BY <1>1, Moves

(* Rows change under requests that do not move.                            *)
LEMMA Ages ==
    ASSUME Inv, UNCHANGED req,
           MoveOn, user'.version = user.version, user'.password = user.password,
           \A p \in Request : Confirmable(p),
           RowsTyped', Sessions', Tokens', Links'
    PROVE  Inv'
<1>1. ASSUME NEW p \in Request PROVE Holds(req[p])'
  <2>1. PICK q \in RequestState : q = req[p]
    BY Here
  <2>2. Holds(q)
    BY <2>1, Here
  <2>3. q.pc = "confirm" => Active(q.link, q.purpose)'
    BY <2>1 DEF Confirmable, At, Active
  <2>4. Holds(q)' /\ req'[p] = q
    BY <2>1, <2>2, <2>3, StillHolds
  <2> QED BY <2>4 DEF Holds
<1>2. TypeOK' /\ Requests'
  BY <1>1 DEF Inv, TypeOK, RowsTyped, Requests, At
<1> QED BY <1>2 DEF Inv

(* Where links are not written, nobody's link changes.                     *)
LEMMA LinksAlone ==
    ASSUME Inv, UNCHANGED <<link, used>>
    PROVE  Links' /\ \A p \in Request : Confirmable(p)
<1>1. Links'
  BY DEF Inv, Links, Active
<1>2. ASSUME NEW p \in Request PROVE Confirmable(p)
  BY Here DEF Confirmable, At, Holds, Active
<1> QED BY <1>1, <1>2

(* A login stores what it read of the account.                             *)
LEMMA CreateSessionKeeps ==
    ASSUME Inv, NEW r \in Request, NEW x \in Session, NEW t \in Token, CreateSession(r, x, t)
    PROVE  Inv'
<1> DEFINE row == [status |-> "open", ver |-> req[r].ver, proof |-> req[r].proof]
           child == [status |-> "live", of |-> x, parent |-> None]
<1>1. /\ req[r] \in RequestState /\ Holds(req[r]) /\ req[r].pc = "login"
      /\ session' = [session EXCEPT ![x] = row] /\ token' = [token EXCEPT ![t] = child]
      /\ session[x].status = "absent" /\ token[t].status = "absent"
      /\ req' = [req EXCEPT ![r] = Quiet] /\ UNCHANGED <<user, link, used>>
  BY Here DEF CreateSession, At, IsNext, End
<1>2. /\ row \in SessionRow /\ row.status = "open" /\ row.ver = req[r].ver
      /\ row.proof = req[r].proof /\ Recent(row.ver, row.proof)
  BY <1>1 DEF SessionRow, RequestState, Holds
<1>3. child \in TokenRow /\ child.status = "live" /\ child.of = x /\ child.parent = None
  BY DEF TokenRow
<1> HIDE DEF row, child
<1>4. session \in [Session -> SessionRow] /\ token \in [Token -> TokenRow]
  BY DEF Inv, TypeOK
<1>5. \A y \in Session : session'[y] = IF y = x THEN row ELSE session[y]
  BY <1>1, <1>4
<1>6. \A k \in Token : token'[k] = IF k = t THEN child ELSE token[k]
  BY <1>1, <1>4
<1>7. RowsTyped'
  BY <1>1, <1>2, <1>3, <1>4 DEF Inv, TypeOK, RowsTyped
<1>8. MoveOn
  BY <1>1, <1>2, <1>3, <1>5, <1>6 DEF MoveOn
<1>9. Sessions'
  BY <1>1, <1>2, <1>5 DEF Inv, Sessions, Recent
<1>10. Tokens'
  <2> SUFFICES ASSUME NEW k \in Token PROVE Belongs(k)'
    BY DEF Tokens
  <2>0. \A y : Exists(y) => Exists(y)'
    BY <1>8 DEF Exists, MoveOn
  <2>1. CASE k = t
    <3>1. token'[k] = child /\ Exists(x)'
      BY <2>1, <1>2, <1>5, <1>6 DEF Exists
    <3> QED BY <3>1, <1>3 DEF Belongs, Exists
  <2>2. CASE k # t
    <3>1. token'[k] = token[k] /\ token[k] \in TokenRow
      BY <2>2, <1>4, <1>6
    <3>2. token[k].status # "absent" => Exists(token[k].of)
      BY DEF Inv, Tokens, Belongs
    <3>3. token[k].parent # None => token[k].parent \in Token /\ token[token[k].parent].status = "revoked"
      BY <3>1 DEF Inv, Tokens, Belongs, TokenRow
    <3> QED BY <3>1, <3>2, <3>3, <2>0, <1>8 DEF MoveOn, Belongs, Exists
  <2> QED BY <2>1, <2>2
<1>11. Holds(Quiet)' /\ Quiet \in RequestState /\ Quiet.pc # "confirm"
  BY QuietHolds
<1> QED BY <1>1, <1>7, <1>8, <1>9, <1>10, <1>11, LinksAlone, Writes

(* A refresh gives out a child and spends the parent.                      *)
LEMMA RotateKeeps ==
    ASSUME Inv, NEW r \in Request, NEW t \in Token, Rotate(r, t)
    PROVE  Inv'
<1>0. PICK a : a = req[r].token
  OBVIOUS
<1>00. PICK x : x = req[r].session
  OBVIOUS
<1> DEFINE child == [status |-> "live", of |-> x, parent |-> a]
           spent == [token[a] EXCEPT !.status = "revoked"]
           s == [Quiet EXCEPT !.said = "served", !.session = x]
<1>1. /\ Holds(req[r]) /\ req[r].pc = "rotate" /\ token[t].status = "absent"
      /\ token' = [token EXCEPT ![a].status = "revoked", ![t] = child]
      /\ req' = [req EXCEPT ![r] = s] /\ UNCHANGED <<user, session, link, used>>
  BY <1>0, <1>00, Here DEF Rotate, At, IsNext, Say
<1>2. a \in Token /\ token[a].status # "absent" /\ Exists(x) /\ a # t
  BY <1>0, <1>00, <1>1 DEF Holds, WithToken, WithSession
<1>3. s \in RequestState /\ Holds(s)' /\ s.pc # "confirm"
  BY <1>2, ServedState DEF Exists
<1>4. token \in [Token -> TokenRow]
  BY DEF Inv, TypeOK
<1>5. /\ spent \in TokenRow /\ spent.status = "revoked" /\ spent.of = token[a].of
      /\ spent.parent = token[a].parent
  BY <1>2, <1>4 DEF TokenRow
<1>6. child \in TokenRow /\ child.status = "live" /\ child.of = x /\ child.parent = a
  BY <1>2 DEF TokenRow, Exists
<1>7. token' = [token EXCEPT ![a] = spent, ![t] = child]
  BY <1>1, <1>2, <1>4
<1> HIDE DEF child, spent, s
<1>8. \A k \in Token : token'[k] = IF k = t THEN child ELSE IF k = a THEN spent ELSE token[k]
  BY <1>2, <1>4, <1>7
<1>9. RowsTyped'
  BY <1>1, <1>4, <1>5, <1>6, <1>7 DEF Inv, TypeOK, RowsTyped
<1>10. MoveOn
  BY <1>1, <1>2, <1>5, <1>6, <1>8 DEF MoveOn
<1>11. Sessions'
  BY <1>1 DEF Inv, Sessions, Recent
<1>12. Tokens'
  <2> SUFFICES ASSUME NEW k \in Token PROVE Belongs(k)'
    BY DEF Tokens
  <2>0. \A y : Exists(y) => Exists(y)'
    BY <1>1 DEF Exists
  <2>1. CASE k = t
    <3>1. token'[k] = child /\ token'[a] = spent
      BY <2>1, <1>2, <1>8
    <3> QED BY <3>1, <2>0, <1>2, <1>5, <1>6 DEF Belongs, Exists
  <2>2. CASE k # t
    <3>1. token'[k].of = token[k].of /\ token'[k].parent = token[k].parent /\ token[k] \in TokenRow
      BY <2>2, <1>4, <1>5, <1>8
    <3>2. token'[k].status # "absent" => token[k].status # "absent"
      BY <2>2, <1>2, <1>8
    <3>3. token[k].status # "absent" => Exists(token[k].of)
      BY DEF Inv, Tokens, Belongs
    <3>4. token[k].parent # None => token[k].parent \in Token /\ token[token[k].parent].status = "revoked"
      BY <3>1 DEF Inv, Tokens, Belongs, TokenRow
    <3> QED BY <3>1, <3>2, <3>3, <3>4, <2>0, <1>10 DEF MoveOn, Belongs, Exists
  <2> QED BY <2>1, <2>2
<1> QED BY <1>1, <1>3, <1>9, <1>10, <1>11, <1>12, LinksAlone, Writes

(* A logout revokes the session, whatever has become of it.                *)
LEMMA RevokeKeeps ==
    ASSUME Inv, NEW r \in Request, RevokeSession(r)
    PROVE  Inv'
<1>0. PICK a : a = req[r].token
  OBVIOUS
<1>00. PICK x : x = req[r].session
  OBVIOUS
<1> DEFINE closed == [session[x] EXCEPT !.status = "revoked"]
           spent == [token[a] EXCEPT !.status = "revoked"]
           s == [Quiet EXCEPT !.said = "loggedOut", !.session = x]
<1>1. /\ Holds(req[r]) /\ req[r].pc = "leave"
      /\ session' = [session EXCEPT ![x].status = "revoked"]
      /\ token' = [token EXCEPT ![a].status = "revoked"]
      /\ req' = [req EXCEPT ![r] = s] /\ UNCHANGED <<user, link, used>>
  BY <1>0, <1>00, Here DEF RevokeSession, At, Say
<1>2. a \in Token /\ token[a].status # "absent" /\ Exists(x)
  BY <1>0, <1>00, <1>1 DEF Holds, WithToken, WithSession
<1>3. token \in [Token -> TokenRow] /\ session \in [Session -> SessionRow]
  BY DEF Inv, TypeOK
<1>4. /\ spent \in TokenRow /\ spent.status = "revoked" /\ spent.of = token[a].of
      /\ spent.parent = token[a].parent
  BY <1>2, <1>3 DEF TokenRow
<1>5. /\ closed \in SessionRow /\ closed.status = "revoked" /\ closed.ver = session[x].ver
      /\ closed.proof = session[x].proof
  BY <1>2, <1>3 DEF SessionRow, Exists
<1>6. session' = [session EXCEPT ![x] = closed] /\ token' = [token EXCEPT ![a] = spent]
  BY <1>1
<1> HIDE DEF closed, spent
<1>7. /\ \A y \in Session : session'[y] = IF y = x THEN closed ELSE session[y]
      /\ \A k \in Token : token'[k] = IF k = a THEN spent ELSE token[k]
  BY <1>3, <1>6
<1>8. s \in RequestState /\ Holds(s)' /\ s.pc # "confirm"
  BY <1>2, <1>5, <1>7, LoggedOutState DEF Exists
<1> HIDE DEF s
<1>9. RowsTyped'
  BY <1>1, <1>3, <1>4, <1>5, <1>6 DEF Inv, TypeOK, RowsTyped
<1>10. MoveOn
  BY <1>1, <1>2, <1>4, <1>5, <1>7 DEF MoveOn
<1>11. Sessions'
  BY <1>1, <1>5, <1>7 DEF Inv, Sessions, Recent
<1>12. Tokens'
  <2> SUFFICES ASSUME NEW k \in Token PROVE Belongs(k)'
    BY DEF Tokens
  <2>0. \A y : Exists(y) => Exists(y)'
    BY <1>10 DEF Exists, MoveOn
  <2>1. token'[k].of = token[k].of /\ token'[k].parent = token[k].parent /\ token[k] \in TokenRow
    BY <1>3, <1>4, <1>7
  <2>2. token'[k].status # "absent" => token[k].status # "absent"
    BY <1>2, <1>7
  <2>3. token[k].status # "absent" => Exists(token[k].of)
    BY DEF Inv, Tokens, Belongs
  <2>4. token[k].parent # None => token[k].parent \in Token /\ token[token[k].parent].status = "revoked"
    BY <2>1 DEF Inv, Tokens, Belongs, TokenRow
  <2> QED BY <2>0, <2>1, <2>2, <2>3, <2>4, <1>10 DEF MoveOn, Belongs, Exists
<1> QED BY <1>1, <1>8, <1>9, <1>10, <1>11, <1>12, LinksAlone, Writes


(* Sessions and tokens stay as they are when neither is written.           *)
LEMMA SessionsAlone ==
    ASSUME Inv, UNCHANGED <<session, token>>,
           user'.version = user.version, user'.password = user.password
    PROVE  Sessions' /\ Tokens'
BY DEF Inv, Sessions, Recent, Tokens, Belongs, Exists

(* An account is registered, or switched off or on.                        *)
LEMMA AccountKeeps ==
    ASSUME Inv,
           \/ \E r \in Request : Register(r)
           \/ \E active \in BOOLEAN : SetActive(active)
    PROVE  Inv'
<1>1. user \in UserRow
  BY DEF Inv, TypeOK
<1>2. ASSUME NEW r \in Request, Register(r) PROVE Inv'
  <2> DEFINE s == [Quiet EXCEPT !.pc = "register"]
  <2>1. /\ user' = [user EXCEPT !.exists = TRUE] /\ req' = [req EXCEPT ![r] = s]
        /\ UNCHANGED <<session, token, link, used>>
    BY <1>2 DEF Register, Start
  <2>2. user' \in UserRow /\ user'.version = user.version /\ user'.password = user.password
    BY <1>1, <2>1 DEF UserRow
  <2>3. s \in RequestState
    BY QuietHolds DEF Quiet, RequestState, Stage
  <2>4. s.pc = "register" /\ s.said = "nothing"
    BY DEF Quiet
  <2> HIDE DEF s
  <2>5. Holds(s)'
    BY <2>4 DEF Holds, WithToken, WithSession
  <2>6. RowsTyped' /\ MoveOn
    BY <2>1, <2>2 DEF Inv, TypeOK, RowsTyped, MoveOn
  <2> QED BY <2>1, <2>2, <2>3, <2>4, <2>5, <2>6, LinksAlone, SessionsAlone, Writes
<1>3. ASSUME NEW active \in BOOLEAN, SetActive(active) PROVE Inv'
  <2>1. user' = [user EXCEPT !.active = active] /\ UNCHANGED <<session, token, link, req, used>>
    BY <1>3 DEF SetActive
  <2>2. user' \in UserRow /\ user'.version = user.version /\ user'.password = user.password
    BY <1>1, <2>1 DEF UserRow
  <2>3. RowsTyped' /\ MoveOn
    BY <2>1, <2>2 DEF Inv, TypeOK, RowsTyped, MoveOn
  <2> QED BY <2>1, <2>2, <2>3, LinksAlone, SessionsAlone, Ages
<1> QED BY <1>2, <1>3

(* A new link replaces the active one of its purpose, if nobody is         *)
(* confirming that.                                                        *)
LEMMA CreateLinkKeeps ==
    ASSUME Inv, NEW r \in Request, NEW l \in Link, CreateLink(r, l)
    PROVE  Inv'
<1>0. PICK purpose : purpose = req[r].purpose
  OBVIOUS
<1>00. PICK q : q = req[r]
  OBVIOUS
<1> DEFINE s == [q EXCEPT !.pc = "deliver", !.link = l]
           row == [status |-> "fresh", purpose |-> purpose]
<1>1. /\ req[r] \in RequestState /\ Holds(req[r]) /\ req[r].pc \in {"issue", "register"}
      /\ req' = [req EXCEPT ![r] = s] /\ UNCHANGED <<user, session, token, used>>
      /\ link[l].status = "absent" /\ ~Blocked(r)
      /\ link' = [k \in Link |->
           IF k = l THEN row
           ELSE IF Active(k, purpose) THEN [link[k] EXCEPT !.status = "consumed"]
           ELSE link[k]]
  BY <1>0, <1>00, Here DEF CreateLink, At, IsNext
<1>2. purpose \in Purpose
  BY <1>0, <1>1 DEF RequestState
<1>3. s \in RequestState
  BY <1>00, <1>1 DEF RequestState, Stage
<1>4. s.pc = "deliver" /\ s.said = "nothing" /\ s.link = l
  BY <1>00, <1>1 DEF RequestState, Holds
<1>5. row \in LinkRow /\ row.status = "fresh" /\ row.purpose = purpose
  BY <1>2 DEF LinkRow, Unconsumed
<1> HIDE DEF s, row
<1>6. link \in [Link -> LinkRow]
  BY DEF Inv, TypeOK
<1>7. ASSUME NEW k \in Link
      PROVE  /\ link'[k] \in LinkRow
             /\ k = l => link'[k] = row
             /\ k # l /\ Active(k, purpose) => link'[k].status = "consumed"
             /\ k # l /\ ~Active(k, purpose) => link'[k] = link[k]
  <2>1. CASE k = l
    BY <2>1, <1>1, <1>5
  <2>2. CASE k # l /\ Active(k, purpose)
    <3>1. link'[k] = [link[k] EXCEPT !.status = "consumed"] /\ link[k] \in LinkRow
      BY <2>2, <1>1, <1>6
    <3> QED BY <2>2, <3>1 DEF LinkRow
  <2>3. CASE k # l /\ ~Active(k, purpose)
    BY <2>3, <1>1, <1>6
  <2> QED BY <2>1, <2>2, <2>3
<1>8. RowsTyped'
  <2>1. link' \in [Link -> LinkRow]
    BY <1>1, <1>7
  <2> QED BY <1>1, <2>1 DEF Inv, TypeOK, RowsTyped
<1>9. MoveOn
  <2>1. \A k \in Link : link[k].status # "absent" => link'[k].status # "absent"
    BY <1>1, <1>7
  <2> QED BY <1>1, <2>1 DEF MoveOn
<1>10. Holds(s)'
  <2>1. link'[l].status # "absent"
    BY <1>5, <1>7
  <2> QED BY <1>4, <2>1 DEF Holds, WithToken, WithSession
<1>11. ASSUME NEW p \in Request \ {r}
       PROVE  Confirmable(p)
  <2> SUFFICES ASSUME At(p, "confirm") PROVE Confirmable(p)
    BY DEF Confirmable
  <2>1. req[p].link \in Link /\ Active(req[p].link, req[p].purpose)
    BY Here DEF At, Holds
  <2>2. req[p].link # l
    BY <1>1, <2>1 DEF Active, Unconsumed
  <2>3. ~Active(req[p].link, purpose)
    BY <1>0, <1>1, <2>1 DEF Blocked, LinkLocked
  <2> QED BY <1>7, <2>1, <2>2, <2>3 DEF Confirmable, Active
<1>12. Links'
  <2>1. \A k \in Link : used[k] = 0 \/ (used[k] = 1 /\ link'[k].status = "consumed")
    BY <1>1, <1>7 DEF Inv, Links, Active, Unconsumed
  <2>2. ASSUME NEW k \in Link, NEW p \in Purpose, Active(k, p)'
        PROVE  IF p = purpose THEN k = l ELSE Active(k, p)
    <3>1. CASE k = l
      BY <2>2, <3>1, <1>5, <1>7 DEF Active
    <3>2. CASE k # l /\ Active(k, purpose)
      BY <2>2, <3>2, <1>7 DEF Active, Unconsumed
    <3>3. CASE k # l /\ ~Active(k, purpose)
      BY <2>2, <3>3, <1>7 DEF Active
    <3> QED BY <3>1, <3>2, <3>3
  <2>3. \A k, j \in Link, p \in Purpose : Active(k, p)' /\ Active(j, p)' => k = j
    BY <2>2 DEF Inv, Links
  <2> QED BY <1>1, <2>1, <2>3 DEF Links
<1> QED BY <1>1, <1>3, <1>4, <1>8, <1>9, <1>10, <1>11, <1>12, SessionsAlone, Writes

(* A link takes effect, or none does.                                      *)
UsedAtMost(l) ==
    /\ used' \in [Link -> Nat]
    /\ \A k \in Link : used'[k] = used[k] \/ (k = l /\ used'[k] = 1)

(* One link is consumed: nobody else confirms it.                          *)
LEMMA ConsumeOne ==
    ASSUME Inv, NEW r \in Request, NEW l \in Link, link[l].status # "absent",
           link' = [link EXCEPT ![l].status = "consumed"],
           UNCHANGED <<session, token>>,
           user' \in UserRow, user'.version = user.version, user'.password = user.password,
           UsedAtMost(l), req' = [req EXCEPT ![r] = Quiet],
           \A p \in Request \ {r} : ~(At(p, "confirm") /\ req[p].link = l)
    PROVE  Inv'
<1>1. link \in [Link -> LinkRow]
  BY DEF Inv, TypeOK
<1> DEFINE row == [link[l] EXCEPT !.status = "consumed"]
<1>2. row \in LinkRow /\ row.status = "consumed" /\ link' = [link EXCEPT ![l] = row]
  BY <1>1 DEF LinkRow
<1> HIDE DEF row
<1>3. \A k \in Link : link'[k] = IF k = l THEN row ELSE link[k]
  BY <1>1, <1>2
<1>4. RowsTyped'
  BY <1>1, <1>2 DEF Inv, TypeOK, RowsTyped, UsedAtMost
<1>5. MoveOn
  BY <1>2, <1>3 DEF MoveOn
<1>6. \A p \in Request \ {r} : Confirmable(p)
  <2>1. ASSUME NEW p \in Request \ {r}, At(p, "confirm")
        PROVE  /\ link'[req[p].link].status \in Unconsumed
               /\ link'[req[p].link].purpose = req[p].purpose
    <3>1. req[p].link \in Link /\ Active(req[p].link, req[p].purpose) /\ req[p].link # l
      BY <2>1, Here DEF At, Holds
    <3> QED BY <3>1, <1>3 DEF Active
  <2> QED BY <2>1 DEF Confirmable
<1>7. Links'
  <2>1. \A k \in Link : used'[k] = 0 \/ (used'[k] = 1 /\ link'[k].status = "consumed")
    BY <1>2, <1>3 DEF Inv, Links, UsedAtMost
  <2>2. \A k \in Link, p \in Purpose : Active(k, p)' => Active(k, p)
    BY <1>2, <1>3 DEF Active, Unconsumed
  <2> QED BY <2>1, <2>2 DEF Inv, Links
<1> QED BY <1>4, <1>5, <1>6, <1>7, QuietHolds, SessionsAlone, Writes

(* A link that could not be mailed, and one that verifies the account.     *)
LEMMA ConsumersKeep ==
    ASSUME Inv, NEW r \in Request, DeliveryFails(r) \/ ConfirmEmail(r)
    PROVE  Inv'
<1>0. PICK l : l = req[r].link
  OBVIOUS
<1>1. Holds(req[r]) /\ user \in UserRow /\ used \in [Link -> Nat]
  BY Here DEF Inv, TypeOK
<1>2. CASE DeliveryFails(r)
  <2>1. /\ req[r].pc = "deliver" /\ ~LinkLocked(l)
        /\ link' = [link EXCEPT ![l].status = "consumed"]
        /\ req' = [req EXCEPT ![r] = Quiet] /\ UNCHANGED <<user, session, token, used>>
    BY <1>0, <1>2 DEF DeliveryFails, At, End
  <2>2. l \in Link /\ link[l].status # "absent"
    BY <1>0, <1>1, <2>1 DEF Holds
  <2>3. \A p \in Request \ {r} : ~(At(p, "confirm") /\ req[p].link = l)
    BY <2>1 DEF LinkLocked
  <2>4. UsedAtMost(l)
    BY <1>1, <2>1 DEF UsedAtMost
  <2> QED BY <1>1, <2>1, <2>2, <2>3, <2>4, ConsumeOne
<1>3. CASE ConfirmEmail(r)
  <2>1. /\ req[r].pc = "confirm"
        /\ link' = [link EXCEPT ![l].status = "consumed"]
        /\ user' = [user EXCEPT !.verified = TRUE]
        /\ used' = [used EXCEPT ![l] = @ + 1]
        /\ req' = [req EXCEPT ![r] = Quiet] /\ UNCHANGED <<session, token>>
    BY <1>0, <1>3 DEF ConfirmEmail, At, End
  <2>2. l \in Link /\ link[l].status \in Unconsumed
    BY <1>0, <1>1, <2>1 DEF Holds, Active
  <2>3. link[l].status # "absent" /\ used[l] = 0
    BY <2>2 DEF Inv, Links, Unconsumed
  <2>4. UsedAtMost(l)
    BY <1>1, <2>1, <2>2, <2>3 DEF UsedAtMost
  <2>5. user' \in UserRow /\ user'.version = user.version /\ user'.password = user.password
    BY <1>1, <2>1 DEF UserRow
  <2>6. \A p \in Request \ {r} : ~(At(p, "confirm") /\ req[p].link = l)
    BY <1>0, <2>1 DEF Inv, Requests, At
  <2>7. /\ link' = [link EXCEPT ![l].status = "consumed"]
        /\ req' = [req EXCEPT ![r] = Quiet] /\ UNCHANGED <<session, token>>
        /\ l \in Link
    BY <2>1, <2>2
  <2> QED BY <2>3, <2>4, <2>5, <2>6, <2>7, ConsumeOne
<1> QED BY <1>2, <1>3


(* A reset leaves other requests what they hold.                           *)
LEMMA ResetStillHolds ==
    ASSUME NEW q \in RequestState, Holds(q), MoveOn, user.version \in Nat,
           user'.version = user.version + 1,
           q.pc = "confirm" => Active(q.link, q.purpose)' /\ q.purpose # "reset"
    PROVE  Holds(q)'
<1>0. q.ver \in Nat
  BY DEF RequestState
<1>1. (q.pc = "login" => Recent(q.ver, q.proof))'
  BY <1>0 DEF Holds, Recent
<1>2. (q.pc \in WithToken => q.token \in Token /\ token[q.token].status # "absent")'
  BY DEF Holds, MoveOn
<1>3. (q.pc \in WithSession => Exists(q.session))'
  BY DEF Holds, MoveOn, Exists
<1>4. (q.said = "loggedOut" => q.session \in Session /\ session[q.session].status = "revoked")'
  BY DEF Holds, MoveOn
<1>5. (q.pc = "deliver" => q.link \in Link /\ link[q.link].status # "absent")'
  BY DEF Holds, MoveOn
<1>6. (q.pc \in {"checked", "seen"} => q.ver <= user.version)'
  BY <1>0 DEF Holds
<1> QED BY <1>1, <1>2, <1>3, <1>4, <1>5, <1>6 DEF Holds

(* Every session was opened with a version that is now past.               *)
LEMMA ConfirmResetKeeps ==
    ASSUME Inv, NEW r \in Request, ConfirmReset(r)
    PROVE  Inv'
<1>0. PICK x : x = req[r].link
  OBVIOUS
<1>1. /\ Holds(req[r]) /\ req[r].pc = "confirm" /\ req[r].purpose = "reset"
      /\ user' = [user EXCEPT !.version = req[r].ver + 1, !.password = @ + 1]
      /\ link' = [l \in Link |->
           IF Active(l, "reset") THEN [link[l] EXCEPT !.status = "consumed"] ELSE link[l]]
      /\ session' = [s \in Session |->
           IF session[s].status = "absent" THEN session[s]
           ELSE [session[s] EXCEPT !.status = "revoked"]]
      /\ used' = [used EXCEPT ![x] = @ + 1]
      /\ req' = [req EXCEPT ![r] = Quiet] /\ UNCHANGED token
  BY <1>0, Here DEF ConfirmReset, At, End
<1>2. x \in Link /\ Active(x, "reset") /\ req[r].ver = user.version
  BY <1>0, <1>1 DEF Holds
<1>3. /\ user \in UserRow /\ session \in [Session -> SessionRow] /\ token \in [Token -> TokenRow]
      /\ link \in [Link -> LinkRow] /\ used \in [Link -> Nat]
  BY DEF Inv, TypeOK
<1>4. user' \in UserRow /\ user'.version = user.version + 1 /\ user.version \in Nat
  <2>1. PICK v : v = user.version + 1
    OBVIOUS
  <2>2. PICK w : w = user.password + 1
    OBVIOUS
  <2>3. v \in Nat /\ w \in Nat /\ user.version \in Nat
    BY <1>3, <2>1, <2>2 DEF UserRow
  <2>4. user' = [user EXCEPT !.version = v, !.password = w]
    BY <1>1, <1>2, <2>1, <2>2
  <2>5. user' \in UserRow /\ user'.version = v
    BY <1>3, <2>3, <2>4 DEF UserRow
  <2> QED BY <2>1, <2>3, <2>5
<1>5. \A l \in Link : Active(l, "reset") => l = x
  BY <1>2 DEF Inv, Links, Purpose
<1>6. ASSUME NEW l \in Link
      PROVE  /\ link'[l] \in LinkRow
             /\ l # x => link'[l] = link[l]
             /\ l = x => link'[l].status = "consumed"
  <2>1. CASE l = x
    <3>1. link'[l] = [link[l] EXCEPT !.status = "consumed"] /\ link[l] \in LinkRow
      BY <2>1, <1>1, <1>2, <1>3
    <3> QED BY <2>1, <3>1 DEF LinkRow
  <2>2. CASE l # x
    BY <2>2, <1>1, <1>3, <1>5
  <2> QED BY <2>1, <2>2
<1>7. ASSUME NEW s \in Session
      PROVE  /\ session'[s] \in SessionRow /\ session'[s].ver = session[s].ver
             /\ session[s].status # "absent" => session'[s].status = "revoked"
  <2>1. CASE session[s].status = "absent"
    BY <2>1, <1>1, <1>3
  <2>2. CASE session[s].status # "absent"
    <3>1. session'[s] = [session[s] EXCEPT !.status = "revoked"] /\ session[s] \in SessionRow
      BY <2>2, <1>1, <1>3
    <3> QED BY <3>1 DEF SessionRow
  <2> QED BY <2>1, <2>2
<1>8. used[x] = 0 /\ used' \in [Link -> Nat] /\ \A l \in Link : used'[l] = IF l = x THEN 1 ELSE used[l]
  <2>1. used[x] = 0
    BY <1>2 DEF Inv, Links, Active, Unconsumed
  <2> QED BY <2>1, <1>1, <1>2, <1>3
<1>9. RowsTyped'
  <2>1. link' \in [Link -> LinkRow] /\ session' \in [Session -> SessionRow]
    BY <1>1, <1>6, <1>7
  <2> QED BY <2>1, <1>1, <1>3, <1>4, <1>8 DEF RowsTyped
<1>10. MoveOn
  <2>1. link[x].status # "absent"
    BY <1>2 DEF Active, Unconsumed
  <2> QED BY <2>1, <1>1, <1>6, <1>7 DEF MoveOn
<1>11. Sessions'
  <2>1. ASSUME NEW s \in Session PROVE Recent(session[s].ver, session[s].proof)'
    <3>1. session[s].ver \in Nat /\ session[s].ver <= user.version
      BY <1>3 DEF Inv, Sessions, Recent, SessionRow
    <3> QED BY <3>1, <1>4, <1>7 DEF Recent
  <2> QED BY <2>1 DEF Sessions
<1>12. Tokens'
  <2>1. \A y : Exists(y) => Exists(y)'
    BY <1>10 DEF Exists, MoveOn
  <2> QED BY <2>1, <1>1 DEF Inv, Tokens, Belongs
<1>13. Links'
  <2>1. \A l \in Link : used'[l] = 0 \/ (used'[l] = 1 /\ link'[l].status = "consumed")
    BY <1>6, <1>8 DEF Inv, Links
  <2>2. \A l \in Link, p \in Purpose : Active(l, p)' => Active(l, p)
    BY <1>6 DEF Active, Unconsumed
  <2> QED BY <2>1, <2>2 DEF Inv, Links
<1>14. ASSUME NEW p \in Request \ {r}, NEW q \in RequestState, q = req[p]
       PROVE  Holds(q)'
  <2>1. Holds(q)
    BY <1>14, Here
  <2>2. ASSUME q.pc = "confirm"
        PROVE  Active(q.link, q.purpose)' /\ q.purpose # "reset"
    <3>1. q.link \in Link /\ Active(q.link, q.purpose) /\ q.link # x
      BY <2>1, <2>2, <1>0, <1>1, <1>14 DEF Holds, Inv, Requests, At
    <3> QED BY <3>1, <1>5, <1>6 DEF Active
  <2> QED BY <2>1, <2>2, <1>4, <1>10, ResetStillHolds
<1> QED BY <1>1, <1>9, <1>11, <1>12, <1>13, <1>14, QuietHolds, Moves

-----------------------------------------------------------------------------
(* Time.                                                                   *)

(* A session, a token or a link runs out.                                  *)
LEMMA TimeKeeps ==
    ASSUME Inv, TimePasses
    PROVE  Inv'
<1>0. /\ user \in UserRow /\ session \in [Session -> SessionRow] /\ token \in [Token -> TokenRow]
      /\ link \in [Link -> LinkRow] /\ used \in [Link -> Nat]
  BY DEF Inv, TypeOK
<1>1. ASSUME NEW x \in Session, ExpireSession(x) PROVE Inv'
  <2> DEFINE row == [session[x] EXCEPT !.status = "expired"]
  <2>1. /\ session' = [session EXCEPT ![x] = row] /\ session[x].status = "open"
        /\ UNCHANGED <<user, token, link, req, used>>
    BY <1>1 DEF ExpireSession
  <2>2. /\ row \in SessionRow /\ row.status = "expired" /\ row.ver = session[x].ver
        /\ row.proof = session[x].proof
    BY <1>0 DEF SessionRow
  <2> HIDE DEF row
  <2>3. \A y \in Session : session'[y] = IF y = x THEN row ELSE session[y]
    BY <1>0, <2>1
  <2>4. RowsTyped'
    BY <1>0, <2>1, <2>2 DEF RowsTyped
  <2>5. MoveOn
    BY <2>1, <2>2, <2>3 DEF MoveOn
  <2>6. Sessions'
    BY <2>1, <2>2, <2>3 DEF Inv, Sessions, Recent
  <2>7. Tokens'
    <3>1. \A y : Exists(y) => Exists(y)'
      BY <2>5 DEF Exists, MoveOn
    <3> QED BY <3>1, <2>1 DEF Inv, Tokens, Belongs
  <2> QED BY <2>1, <2>4, <2>5, <2>6, <2>7, LinksAlone, Ages
<1>2. ASSUME NEW x \in Token, ExpireToken(x) PROVE Inv'
  <2> DEFINE row == [token[x] EXCEPT !.status = "expired"]
  <2>1. /\ token' = [token EXCEPT ![x] = row] /\ token[x].status = "live"
        /\ UNCHANGED <<user, session, link, req, used>>
    BY <1>2 DEF ExpireToken
  <2>2. /\ row \in TokenRow /\ row.status = "expired" /\ row.of = token[x].of
        /\ row.parent = token[x].parent
    BY <1>0 DEF TokenRow
  <2> HIDE DEF row
  <2>3. \A y \in Token : token'[y] = IF y = x THEN row ELSE token[y]
    BY <1>0, <2>1
  <2>4. RowsTyped'
    BY <1>0, <2>1, <2>2 DEF RowsTyped
  <2>5. MoveOn
    BY <2>1, <2>2, <2>3 DEF MoveOn
  <2>6. Sessions'
    BY <2>1 DEF Inv, Sessions, Recent
  <2>7. Tokens'
    <3> SUFFICES ASSUME NEW k \in Token PROVE Belongs(k)'
      BY DEF Tokens
    <3>1. token'[k].of = token[k].of /\ token'[k].parent = token[k].parent /\ token[k] \in TokenRow
      BY <1>0, <2>2, <2>3
    <3>2. token'[k].status # "absent" => token[k].status # "absent"
      BY <2>1, <2>3
    <3>3. token[k].status # "absent" => Exists(token[k].of)
      BY DEF Inv, Tokens, Belongs
    <3>4. token[k].parent # None => token[k].parent \in Token /\ token[token[k].parent].status = "revoked"
      BY <3>1 DEF Inv, Tokens, Belongs, TokenRow
    <3> QED BY <3>1, <3>2, <3>3, <3>4, <2>1, <2>5 DEF MoveOn, Belongs, Exists
  <2> QED BY <2>1, <2>4, <2>5, <2>6, <2>7, LinksAlone, Ages
<1>3. ASSUME NEW x \in Link, AgeLink(x) PROVE Inv'
  <2>1. PICK status : status = IF link[x] = [status |-> "fresh", purpose |-> "verify"]
                               THEN "ripe" ELSE "expired"
    OBVIOUS
  <2> DEFINE row == [link[x] EXCEPT !.status = status]
  <2>2. /\ link' = [link EXCEPT ![x] = row] /\ link[x].status \in {"fresh", "ripe"}
        /\ UNCHANGED <<user, session, token, req, used>>
    BY <1>3, <2>1 DEF AgeLink
  <2>3. /\ row \in LinkRow /\ row.status \in Unconsumed /\ row.purpose = link[x].purpose
        /\ row.status \notin {"absent", "consumed"}
    BY <1>0, <2>1 DEF LinkRow, Unconsumed
  <2> HIDE DEF row
  <2>4. \A y \in Link : link'[y] = IF y = x THEN row ELSE link[y]
    BY <1>0, <2>2
  <2>5. RowsTyped'
    BY <1>0, <2>2, <2>3 DEF RowsTyped
  <2>6. MoveOn
    BY <2>2, <2>3, <2>4 DEF MoveOn
  <2>7. \A l \in Link, p \in Purpose : Active(l, p)' <=> Active(l, p)
    BY <2>2, <2>3, <2>4 DEF Active, Unconsumed
  <2>8. Links'
    <3>1. \A l \in Link : used'[l] = 0 \/ (used'[l] = 1 /\ link'[l].status = "consumed")
      BY <2>2, <2>4 DEF Inv, Links
    <3> QED BY <2>7, <3>1 DEF Inv, Links
  <2>9. \A p \in Request : Confirmable(p)
    BY <2>3, <2>4, Here DEF Confirmable, At, Holds, Active
  <2> QED BY <2>2, <2>5, <2>6, <2>8, <2>9, SessionsAlone, Ages
<1> QED BY <1>1, <1>2, <1>3 DEF TimePasses


-----------------------------------------------------------------------------
(* The invariant and what follows from it.                                 *)

(* It holds before the first request.                                      *)
LEMMA InvInit == Init => Inv
<1> SUFFICES ASSUME Init PROVE Inv
  OBVIOUS
<1>1. /\ user \in UserRow /\ user.version = 1 /\ user.password = 1
  BY DEF Init, UserRow
<1>2. TypeOK
  BY <1>1, QuietHolds DEF Init, TypeOK, SessionRow, TokenRow, LinkRow, Purpose
<1>3. Requests
  BY QuietHolds DEF Init, Requests, At
<1>4. Sessions
  BY <1>1 DEF Init, Sessions, Recent
<1>5. Tokens
  BY DEF Init, Tokens, Belongs
<1>6. Links
  BY DEF Init, Links, Active, Unconsumed
<1> QED BY <1>2, <1>3, <1>4, <1>5, <1>6 DEF Inv

(* Every step keeps it.                                                    *)
LEMMA InvNext == Inv /\ [Next]_vars => Inv'
<1> SUFFICES ASSUME Inv, [Next]_vars PROVE Inv'
  OBVIOUS
<1>1. ASSUME NEW r \in Request, Begin(r) PROVE Inv'
  BY <1>1, AuthenticateKeeps, AccountKeeps, PresentKeeps, FindTokenKeeps, BeginsWithNothing,
     FollowKeeps DEF Begin
<1>2. ASSUME NEW r \in Request, Proceed(r) PROVE Inv'
  <2>1. CASE CoolDown(r) \/ Deliver(r) \/ BreakDeadlock(r)
    <3>1. End(r) /\ UNCHANGED <<user, session, token, link, used>>
      BY <2>1 DEF CoolDown, Deliver, BreakDeadlock
    <3> QED BY <3>1, EndKeeps
  <2>2. CASE \/ \E s \in Session, t \in Token : CreateSession(r, s, t)
             \/ \E t \in Token : Rotate(r, t)
             \/ \E l \in Link : CreateLink(r, l)
    BY <2>2, CreateSessionKeeps, RotateKeeps, CreateLinkKeeps
  <2>3. CASE ReadSession(r) \/ ValidateVersion(r) \/ SeeSession(r) \/ LetIn(r)
    BY <2>3, RefreshReads, AccessReads
  <2>4. CASE FindSession(r) \/ RevokeSession(r) \/ LockUser(r)
    BY <2>4, FindSessionKeeps, RevokeKeeps, LockKeeps
  <2>5. CASE DeliveryFails(r) \/ ConfirmEmail(r) \/ ConfirmReset(r)
    BY <2>5, ConsumersKeep, ConfirmResetKeeps
  <2> QED BY <1>2, <2>1, <2>2, <2>3, <2>4, <2>5 DEF Proceed
<1>3. ASSUME NEW r \in Request, Abort(r) PROVE Inv'
  BY <1>3, EndKeeps DEF Abort
<1>4. CASE \E active \in BOOLEAN : SetActive(active)
  BY <1>4, AccountKeeps
<1>5. CASE TimePasses
  BY <1>5, TimeKeeps
<1>6. CASE UNCHANGED vars
  <2>1. UNCHANGED <<user, session, token, link, used, req>>
    BY <1>6 DEF vars
  <2>2. RowsTyped' /\ MoveOn
    BY <2>1 DEF Inv, TypeOK, RowsTyped, MoveOn
  <2> QED BY <2>1, <2>2, LinksAlone, SessionsAlone, Ages
<1> QED BY <1>1, <1>2, <1>3, <1>4, <1>5, <1>6 DEF Next

(* It is therefore an invariant.                                           *)
LEMMA InvAlways == Spec => []Inv
BY InvInit, InvNext, PTL DEF Spec

(* The rows of the account and the requests on it keep their types.        *)
THEOREM TypeCorrect == Spec => []TypeOK
<1>1. Inv => TypeOK
  BY DEF Inv
<1> QED BY <1>1, InvAlways, PTL

(* confirm_password_reset writes the version it read plus one: no session  *)
(* opened with an older password is usable, also one stored afterwards.    *)
THEOREM OldPasswordsAreOut == Spec => []ResetShutsOut
<1>1. Inv => ResetShutsOut
  BY DEF Inv, Sessions, Recent, ResetShutsOut, Usable
<1> QED BY <1>1, InvAlways, PTL

(* The row lock of a link and the one active link of a purpose: a mailed   *)
(* link takes effect at most once.                                         *)
THEOREM LinksAreSpent == Spec => []LinksWorkOnce
<1>1. Inv => LinksWorkOnce
  <2> SUFFICES ASSUME Inv, NEW l \in Link PROVE used[l] <= 1
    BY DEF LinksWorkOnce
  <2>1. used[l] = 0 \/ used[l] = 1
    BY DEF Inv, Links
  <2> QED BY <2>1
<1> QED BY <1>1, InvAlways, PTL

(* Rotation, raced or not, leaves no parent usable beside its child.       *)
THEOREM ParentsAreSpent == Spec => []RotatedTokenIsSpent
<1>1. Inv => RotatedTokenIsSpent
  BY DEF Inv, Tokens, Belongs, RotatedTokenIsSpent
<1> QED BY <1>1, InvAlways, PTL

(* A logout that was answered has revoked its session for good.            *)
THEOREM LogoutIsFinal == Spec => []LogoutStands
<1>1. Inv => LogoutStands
  BY Here DEF LogoutStands, Holds
<1> QED BY <1>1, InvAlways, PTL


-----------------------------------------------------------------------------
(* AuthSessions implements SessionAccess.  What it promises is seen in the *)
(* rows of the sessions, the version and the requests; every step is one   *)
(* of five.                                                                *)

States == [s \in Session |-> IF session[s].status = "absent" THEN "new"
                             ELSE IF Usable(s) THEN "open" ELSE "closed"]
Pending == [r \in Request |-> IF Claims(r) THEN req[r].session ELSE None]
Served == [r \in Request |-> req[r].said = "served"]

(* A request in this state has no claim.                                   *)
Claimless(s) == s.pc # "rotate" /\ (s.pc \in {"checked", "seen"} => s.ver # user.version)

(* A claim is on a session.                                                *)
LEMMA ClaimIsOn ==
    ASSUME Inv, NEW r \in Request, Claims(r)
    PROVE  req[r].session \in Session /\ req[r].session # None
<1>1. req[r].session \in Session
  BY Here DEF Claims, At, Holds, WithSession, Exists
<1> QED BY <1>1, AuthAssumption DEF Session

(* 1. A request begins, ends, or goes on without a claim.                  *)
Answers(r) == \E s : /\ req' = [req EXCEPT ![r] = s]
                     /\ Claimless(s)
                     /\ s.said = "served" => Claims(r)
                     /\ UNCHANGED session /\ user'.version = user.version

(* It maps to an answer.                                                   *)
LEMMA AnswersMaps ==
    ASSUME Inv, NEW r \in Request, Answers(r)
    PROVE  \E letIn \in BOOLEAN : Access!Answer(r, letIn)
<1>1. PICK s : /\ req' = [req EXCEPT ![r] = s] /\ Claimless(s)
               /\ s.said = "served" => Claims(r)
               /\ UNCHANGED session /\ user'.version = user.version
  BY DEF Answers
<1>2. PICK b \in BOOLEAN : b = (s.said = "served")
  OBVIOUS
<1>3. \A q \in Request : req'[q] = IF q = r THEN s ELSE req[q]
  BY <1>1 DEF Inv, TypeOK
<1>4. States' = States
  BY <1>1 DEF States, Usable
<1>5. \A q \in Request : Claims(q)' <=> q # r /\ Claims(q)
  BY <1>1, <1>3 DEF Claims, Claimless, At
<1>6. Pending' = [Pending EXCEPT ![r] = None]
  BY <1>3, <1>5 DEF Pending
<1>7. Served' = [Served EXCEPT ![r] = b]
  BY <1>2, <1>3 DEF Served
<1>8. b => Pending[r] # None
  BY <1>1, <1>2, ClaimIsOn DEF Pending
<1>9. Access!Answer(r, b)
  BY <1>4, <1>6, <1>7, <1>8 DEF Access!Answer, States, Pending, Served
<1> QED BY <1>9

(* 2. A request finds its session open and the version unchanged.          *)
LEMMA AsksMaps ==
    ASSUME Inv, NEW r \in Request, NEW s, NEW x \in Session, req[r].pc # "idle",
           req' = [req EXCEPT ![r] = s], UNCHANGED <<session, user>>,
           s.pc \in {"checked", "seen"}, s.ver = user.version, s.session = x,
           s.said = "nothing", Usable(x)
    PROVE  Access!Ask(r, x)
<1>1. \A q \in Request : req'[q] = IF q = r THEN s ELSE req[q]
  BY DEF Inv, TypeOK
<1>2. States' = States /\ States[x] = "open"
  BY DEF States, Usable
<1>3. \A q \in Request : Claims(q)' <=> q = r \/ Claims(q)
  BY <1>1 DEF Claims, At
<1>4. Pending' = [Pending EXCEPT ![r] = x]
  <2>1. Claims(r)' /\ req'[r].session = x
    BY <1>1, <1>3
  <2>2. \A q \in Request : Pending'[q] = IF q = r THEN x ELSE Pending[q]
    BY <1>1, <1>3, <2>1 DEF Pending
  <2>3. Pending' = [q \in Request |-> Pending'[q]] /\ Pending = [q \in Request |-> Pending[q]]
    BY DEF Pending
  <2> QED BY <2>2, <2>3
<1>5. req[r].said = "nothing"
  BY Here DEF Holds
<1>6. Served' = Served
  BY <1>1, <1>5 DEF Served
<1> QED BY <1>2, <1>4, <1>6 DEF Access!Ask, States, Pending, Served

(* 3. Sessions close, and claims of the old version go.                    *)
LEMMA ClosesMaps ==
    ASSUME Inv,
           \A s \in Session : States'[s] = States[s] \/ (States[s] = "open" /\ States'[s] = "closed"),
           \A r \in Request : Pending'[r] = Pending[r] \/ Pending'[r] = None,
           Served' = Served
    PROVE  \E closing \in SUBSET Session, dropped \in SUBSET Request :
              Access!Close(closing, dropped)
<1> DEFINE closing == {s \in Session : States[s] = "open" /\ States'[s] = "closed"}
           dropped == {r \in Request : Pending'[r] = None}
<1>1. \A s \in closing : States[s] = "open"
  OBVIOUS
<1>2. States' = [s \in Session |-> IF s \in closing THEN "closed" ELSE States[s]]
  <2>1. \A s \in Session : States'[s] = IF s \in closing THEN "closed" ELSE States[s]
    OBVIOUS
  <2>2. States' = [s \in Session |-> States'[s]]
    BY DEF States
  <2> HIDE DEF closing
  <2> QED BY <2>1, <2>2
<1>3. Pending' = [r \in Request |-> IF r \in dropped THEN None ELSE Pending[r]]
  <2>1. \A r \in Request : Pending'[r] = IF r \in dropped THEN None ELSE Pending[r]
    OBVIOUS
  <2>2. Pending' = [r \in Request |-> Pending'[r]]
    BY DEF Pending
  <2> HIDE DEF dropped
  <2> QED BY <2>1, <2>2
<1>4. closing \in SUBSET Session /\ dropped \in SUBSET Request
  OBVIOUS
<1> HIDE DEF closing, dropped
<1>5. PICK C, D : C = closing /\ D = dropped
  OBVIOUS
<1>6. Access!Close(C, D)
  BY <1>1, <1>2, <1>3, <1>5 DEF Access!Close, States, Pending, Served
<1> QED BY <1>4, <1>5, <1>6

(* 4. A session is stored, with the version now in force or an older one.  *)
LEMMA OpensMaps ==
    ASSUME Inv, NEW r \in Request, NEW x \in Session, NEW t \in Token, CreateSession(r, x, t)
    PROVE  \E how \in {"open", "closed"} : Access!Begin(x, how)
<1>1. /\ req[r].pc = "login" /\ session[x].status = "absent" /\ req' = [req EXCEPT ![r] = Quiet]
      /\ session' = [session EXCEPT ![x] = [status |-> "open", ver |-> req[r].ver,
                                           proof |-> req[r].proof]]
      /\ UNCHANGED user
  BY DEF CreateSession, At, IsNext, End
<1>2. PICK how \in {"open", "closed"} :
         how = IF req[r].ver = user.version THEN "open" ELSE "closed"
  OBVIOUS
<1>3. /\ \A s \in Session : s # x => session'[s] = session[s]
      /\ session'[x].status = "open" /\ session'[x].ver = req[r].ver
  BY <1>1 DEF Inv, TypeOK
<1>4. States[x] = "new"
  BY <1>1 DEF States
<1>5. States' = [States EXCEPT ![x] = how]
  <2>1. \A y \in Session : y # x => States'[y] = States[y]
    BY <1>1, <1>3 DEF States, Usable
  <2>2. States'[x] = how
    BY <1>1, <1>2, <1>3 DEF States, Usable
  <2>3. /\ States' = [y \in Session |-> States'[y]]
        /\ DOMAIN States = Session
    BY DEF States
  <2> QED BY <2>1, <2>2, <2>3
<1>6. \A q \in Request : req'[q] = IF q = r THEN Quiet ELSE req[q]
  BY <1>1 DEF Inv, TypeOK
<1>7. \A q \in Request : Claims(q)' <=> Claims(q)
  BY <1>1, <1>6 DEF Claims, At, Quiet
<1>8. req[r].said # "served" /\ Quiet.said # "served" /\ ~Claims(r)
  BY <1>1, Here DEF Holds, Quiet, Claims, At
<1>9. Pending' = Pending
  BY <1>6, <1>7, <1>8 DEF Pending
<1>10. Served' = Served
  BY <1>6, <1>8 DEF Served
<1>11. Access!Begin(x, how)
  BY <1>2, <1>4, <1>5, <1>9, <1>10 DEF Access!Begin, States, Pending, Served
<1> QED BY <1>11


(* 5. What is seen stays the same.                                         *)
Unseen == States' = States /\ Pending' = Pending /\ Served' = Served

(* A request starts without a claim.                                       *)
LEMMA StartsUnclaimed ==
    ASSUME NEW r \in Request, Begin(r)
    PROVE  \E s : /\ req' = [req EXCEPT ![r] = s] /\ s.pc \notin {"checked", "seen", "rotate"}
                  /\ s.said = "nothing"
<1> DEFINE Good(s) == s.pc \notin {"checked", "seen", "rotate"} /\ s.said = "nothing"
<1>1. CASE Authenticate(r)
  <2>1. PICK s : s = [Quiet EXCEPT !.pc = "login", !.ver = user.version, !.proof = user.password]
    OBVIOUS
  <2>2. req' = [req EXCEPT ![r] = s]
    BY <1>1, <2>1 DEF Authenticate, Start
  <2>3. Good(s)
    BY <2>1 DEF Quiet
  <2> QED BY <2>2, <2>3
<1>2. CASE Register(r)
  <2>1. PICK s : s = [Quiet EXCEPT !.pc = "register"]
    OBVIOUS
  <2>2. req' = [req EXCEPT ![r] = s]
    BY <1>2, <2>1 DEF Register, Start
  <2>3. Good(s)
    BY <2>1 DEF Quiet
  <2> QED BY <2>2, <2>3
<1>3. ASSUME NEW t \in Token, PresentToken(r, t)
      PROVE  \E s : req' = [req EXCEPT ![r] = s] /\ Good(s)
  <2>1. PICK s : s = [Quiet EXCEPT !.pc = "rotating", !.token = t]
    OBVIOUS
  <2>2. req' = [req EXCEPT ![r] = s]
    BY <1>3, <2>1 DEF PresentToken, Start
  <2>3. Good(s)
    BY <2>1 DEF Quiet
  <2> QED BY <2>2, <2>3
<1>4. ASSUME NEW t \in Token, FindToken(r, t)
      PROVE  \E s : req' = [req EXCEPT ![r] = s] /\ Good(s)
  <2>1. PICK s : s = [Quiet EXCEPT !.pc = "leaving", !.token = t, !.session = token[t].of]
    OBVIOUS
  <2>2. req' = [req EXCEPT ![r] = s]
    BY <1>4, <2>1 DEF FindToken, Start
  <2>3. Good(s)
    BY <2>1 DEF Quiet
  <2> QED BY <2>2, <2>3
<1>5. ASSUME NEW x \in Session, ReadUser(r, x)
      PROVE  \E s : req' = [req EXCEPT ![r] = s] /\ Good(s)
  <2>1. PICK s : s = [Quiet EXCEPT !.pc = "active", !.session = x]
    OBVIOUS
  <2>2. req' = [req EXCEPT ![r] = s]
    BY <1>5, <2>1 DEF ReadUser, Start
  <2>3. Good(s)
    BY <2>1 DEF Quiet
  <2> QED BY <2>2, <2>3
<1>6. ASSUME NEW purpose \in Purpose, AskForLink(r, purpose)
      PROVE  \E s : req' = [req EXCEPT ![r] = s] /\ Good(s)
  <2>1. PICK s : s = [Quiet EXCEPT !.pc = "lock", !.purpose = purpose]
    OBVIOUS
  <2>2. req' = [req EXCEPT ![r] = s]
    BY <1>6, <2>1 DEF AskForLink, Start
  <2>3. Good(s)
    BY <2>1 DEF Quiet
  <2> QED BY <2>2, <2>3
<1>7. ASSUME NEW l \in Link, FollowLink(r, l)
      PROVE  \E s : req' = [req EXCEPT ![r] = s] /\ Good(s)
  <2>1. PICK v : v = IF link[l].purpose = "verify" /\ user.verified THEN 0 ELSE user.version
    OBVIOUS
  <2>2. PICK s : s = [Quiet EXCEPT !.pc = "confirm", !.link = l, !.purpose = link[l].purpose,
                                   !.ver = v]
    OBVIOUS
  <2>3. req' = [req EXCEPT ![r] = s]
    BY <1>7, <2>1, <2>2 DEF FollowLink, ReadLink, Start
  <2>4. Good(s)
    BY <2>2 DEF Quiet
  <2> QED BY <2>3, <2>4
<1> QED BY <1>1, <1>2, <1>3, <1>4, <1>5, <1>6, <1>7 DEF Begin

(* The steps of a request by what is seen of them.                         *)
LEMMA RequestMaps ==
    ASSUME Inv, NEW r \in Request, Begin(r) \/ Proceed(r) \/ Abort(r)
    PROVE  Access!AccessNext \/ Unseen
<1>0. Holds(req[r])
  BY Here
<1>1. ASSUME Answers(r) PROVE Access!AccessNext
  BY <1>1, AnswersMaps DEF Access!AccessNext
<1>2. Claimless(Quiet) /\ Quiet.said = "nothing"
  BY DEF Quiet, Claimless
<1>3. ASSUME End(r), UNCHANGED session, user'.version = user.version
      PROVE  Answers(r)
  BY <1>2, <1>3 DEF Answers, End
<1>4. CASE Begin(r)
  <2>1. PICK s : /\ req' = [req EXCEPT ![r] = s] /\ s.pc \notin {"checked", "seen", "rotate"}
                 /\ s.said = "nothing"
    BY <1>4, StartsUnclaimed
  <2>2. UNCHANGED session /\ user'.version = user.version
    BY <1>4 DEF Begin, Authenticate, Register, PresentToken, FindToken, ReadUser, AskForLink,
                FollowLink, ReadLink, Inv, TypeOK, UserRow
  <2> QED BY <1>1, <2>1, <2>2 DEF Answers, Claimless
<1>5. CASE Abort(r) \/ CoolDown(r) \/ Deliver(r) \/ BreakDeadlock(r) \/ DeliveryFails(r)
  BY <1>1, <1>3, <1>5 DEF Abort, CoolDown, Deliver, BreakDeadlock, DeliveryFails
<1>6. CASE ConfirmEmail(r)
  <2>1. user'.version = user.version
    BY <1>6 DEF ConfirmEmail, Inv, TypeOK, UserRow
  <2> QED BY <1>1, <1>3, <1>6, <2>1 DEF ConfirmEmail
<1>7. CASE FindSession(r) \/ LockUser(r) \/ (\E l \in Link : CreateLink(r, l))
  <2>1. PICK s : req' = [req EXCEPT ![r] = s] /\ s.pc \notin {"checked", "seen", "rotate"}
                 /\ s.said # "served"
    <3>1. req[r].said = "nothing" /\ req[r] \in RequestState
      BY <1>0, <1>7, Here DEF Holds, FindSession, LockUser, CreateLink, At
    <3>2. CASE FindSession(r)
      <4>1. CASE session[req[r].session].status = "revoked"
        <5>1. PICK s : s = [Quiet EXCEPT !.said = "loggedOut", !.session = req[r].session]
          OBVIOUS
        <5>2. req' = [req EXCEPT ![r] = s]
          BY <3>2, <4>1, <5>1 DEF FindSession, Say
        <5>3. s.pc = "idle" /\ s.said = "loggedOut"
          BY <5>1 DEF Quiet
        <5> QED BY <5>2, <5>3
      <4>2. CASE session[req[r].session].status # "revoked"
        <5>1. PICK s : s = [req[r] EXCEPT !.pc = "leave"]
          OBVIOUS
        <5>2. req' = [req EXCEPT ![r] = s]
          BY <3>2, <4>2, <5>1 DEF FindSession, Go
        <5>3. s.pc = "leave" /\ s.said = "nothing"
          BY <3>1, <5>1 DEF RequestState
        <5> QED BY <5>2, <5>3
      <4> QED BY <4>1, <4>2
    <3>3. CASE LockUser(r)
      <4>1. PICK s : s = [req[r] EXCEPT !.pc = "issue"]
        OBVIOUS
      <4>2. req' = [req EXCEPT ![r] = s]
        BY <3>3, <4>1 DEF LockUser, Go
      <4>3. s.pc = "issue" /\ s.said = "nothing"
        BY <3>1, <4>1 DEF RequestState
      <4> QED BY <4>2, <4>3
    <3>4. ASSUME NEW l \in Link, CreateLink(r, l)
          PROVE  \E s : req' = [req EXCEPT ![r] = s] /\ s.pc \notin {"checked", "seen", "rotate"}
                        /\ s.said # "served"
      <4>1. PICK s : s = [req[r] EXCEPT !.pc = "deliver", !.link = l]
        OBVIOUS
      <4>2. req' = [req EXCEPT ![r] = s] /\ s.pc = "deliver" /\ s.said = "nothing"
        BY <3>1, <3>4, <4>1 DEF CreateLink, RequestState
      <4> QED BY <4>2
    <3> QED BY <1>7, <3>2, <3>3, <3>4
  <2>2. UNCHANGED <<session, user>>
    BY <1>7 DEF FindSession, LockUser, CreateLink
  <2> QED BY <1>1, <2>1, <2>2 DEF Answers, Claimless
<1>8. CASE \E t \in Token : Rotate(r, t)
  <2>1. PICK s : s = [Quiet EXCEPT !.said = "served", !.session = req[r].session]
    OBVIOUS
  <2>2. req' = [req EXCEPT ![r] = s] /\ UNCHANGED <<session, user>> /\ Claims(r)
    BY <1>8, <2>1 DEF Rotate, Say, Claims
  <2>3. Claimless(s)
    BY <2>1 DEF Claimless, Quiet
  <2> QED BY <1>1, <2>2, <2>3 DEF Answers
<1>9. CASE LetIn(r)
  <2>1. CASE req[r].ver = user.version
    <3>1. PICK s : s = [Quiet EXCEPT !.said = "served", !.session = req[r].session]
      OBVIOUS
    <3>2. req' = [req EXCEPT ![r] = s] /\ UNCHANGED <<session, user>> /\ Claims(r)
      BY <1>9, <2>1, <3>1 DEF LetIn, At, Say, Claims
    <3>3. Claimless(s)
      BY <3>1 DEF Claimless, Quiet
    <3> QED BY <1>1, <3>2, <3>3 DEF Answers
  <2>2. CASE req[r].ver # user.version
    BY <1>1, <1>3, <1>9, <2>2 DEF LetIn
  <2> QED BY <2>1, <2>2
<1>10. CASE ReadSession(r) \/ SeeSession(r)
  <2>1. CASE End(r)
    BY <1>1, <1>3, <1>10, <2>1 DEF ReadSession, SeeSession
  <2>2. CASE ~End(r)
    <3>0. PICK x \in Session : \E s :
            /\ req' = [req EXCEPT ![r] = s] /\ UNCHANGED <<session, user>>
            /\ session[x].status = "open" /\ s.session = x /\ s.ver = session[x].ver
            /\ s.pc \in {"checked", "seen"} /\ s.said = "nothing" /\ req[r].pc # "idle"
      <4>0. req[r].said = "nothing" /\ req[r] \in RequestState
        BY <1>0, <1>10, Here DEF Holds, ReadSession, SeeSession, At
      <4>1. CASE ReadSession(r)
        <5>1. PICK x : x = token[req[r].token].of
          OBVIOUS
        <5>2. PICK s : s = [req[r] EXCEPT !.pc = "checked", !.session = x, !.ver = session[x].ver]
          OBVIOUS
        <5>3. /\ req[r].pc = "rotating" /\ session[x].status = "open"
              /\ req' = [req EXCEPT ![r] = s] /\ UNCHANGED <<session, user>>
          <6>1. /\ req[r].pc = "rotating" /\ session[x].status = "open"
                /\ req' = [req EXCEPT ![r].pc = "checked", ![r].session = x,
                                      ![r].ver = session[x].ver]
                /\ UNCHANGED <<session, user>>
            BY <2>2, <4>1, <5>1 DEF ReadSession, At
          <6> QED BY <6>1, <5>2 DEF Inv, TypeOK
        <5>4. x \in Session
          BY <1>0, <5>1, <5>3 DEF Inv, Tokens, Belongs, Holds, WithToken, Exists
        <5>5. /\ s.session = x /\ s.ver = session[x].ver /\ s.pc = "checked" /\ s.said = "nothing"
          BY <4>0, <5>2 DEF RequestState
        <5> QED BY <5>3, <5>4, <5>5
      <4>2. CASE SeeSession(r)
        <5>1. PICK x : x = req[r].session
          OBVIOUS
        <5>2. PICK s : s = [req[r] EXCEPT !.pc = "seen", !.ver = session[x].ver]
          OBVIOUS
        <5>3. /\ req[r].pc = "active" /\ session[x].status = "open"
              /\ req' = [req EXCEPT ![r] = s] /\ UNCHANGED <<session, user>>
          <6>1. /\ req[r].pc = "active" /\ session[x].status = "open"
                /\ req' = [req EXCEPT ![r].pc = "seen", ![r].ver = session[x].ver]
                /\ UNCHANGED <<session, user>>
            BY <2>2, <4>2, <5>1 DEF SeeSession, At
          <6> QED BY <6>1, <5>2 DEF Inv, TypeOK
        <5>4. x \in Session
          BY <1>0, <5>1, <5>3 DEF Holds, WithSession, Exists
        <5>5. /\ s.session = x /\ s.ver = session[x].ver /\ s.pc = "seen" /\ s.said = "nothing"
          BY <4>0, <5>1, <5>2 DEF RequestState
        <5> QED BY <5>3, <5>4, <5>5
      <4> QED BY <1>10, <4>1, <4>2
    <3>1. PICK s :
            /\ req' = [req EXCEPT ![r] = s] /\ UNCHANGED <<session, user>>
            /\ session[x].status = "open" /\ s.session = x /\ s.ver = session[x].ver
            /\ s.pc \in {"checked", "seen"} /\ s.said = "nothing" /\ req[r].pc # "idle"
      BY <3>0
    <3>2. CASE s.ver = user.version
      BY <3>1, <3>2, AsksMaps DEF Usable, Access!AccessNext
    <3>3. CASE s.ver # user.version
      BY <1>1, <3>1, <3>3 DEF Answers, Claimless
    <3> QED BY <3>2, <3>3
  <2> QED BY <2>1, <2>2
<1>11. CASE ValidateVersion(r)
  <2>1. CASE req[r].ver # user.version
    BY <1>1, <1>3, <1>11, <2>1 DEF ValidateVersion
  <2>2. CASE req[r].ver = user.version
    <3>1. /\ req[r].pc = "checked" /\ req' = [req EXCEPT ![r].pc = "rotate"]
          /\ UNCHANGED <<session, user>>
      BY <1>11, <2>2 DEF ValidateVersion, At, Go
    <3>2. \A q \in Request : /\ q # r => req'[q] = req[q]
                             /\ req'[q].session = req[q].session /\ req'[q].said = req[q].said
      BY <3>1 DEF Inv, TypeOK, RequestState
    <3>3. req'[r].pc = "rotate"
      BY <3>1 DEF Inv, TypeOK, RequestState
    <3>4. \A q \in Request : Claims(q)' <=> Claims(q)
      BY <2>2, <3>1, <3>2, <3>3 DEF Claims, At
    <3> QED BY <3>1, <3>2, <3>4 DEF Unseen, States, Usable, Pending, Served
  <2> QED BY <2>1, <2>2
<1>12. CASE \E x \in Session, t \in Token : CreateSession(r, x, t)
  BY <1>12, OpensMaps DEF Access!AccessNext
<1>13. CASE RevokeSession(r) \/ ConfirmReset(r)
  <2>1. PICK s : /\ req' = [req EXCEPT ![r] = s] /\ s.pc = "idle" /\ s.said # "served"
                 /\ ~Claims(r) /\ req[r].said = "nothing"
    <3>1. req[r].pc \in {"leave", "confirm"}
      BY <1>13 DEF RevokeSession, ConfirmReset, At
    <3>2. ~Claims(r) /\ req[r].said = "nothing"
      BY <3>1, <1>0 DEF Claims, At, Holds
    <3>3. CASE RevokeSession(r)
      <4>1. PICK s : s = [Quiet EXCEPT !.said = "loggedOut", !.session = req[r].session]
        OBVIOUS
      <4>2. req' = [req EXCEPT ![r] = s]
        BY <3>3, <4>1 DEF RevokeSession, Say
      <4>3. s.pc = "idle" /\ s.said = "loggedOut"
        BY <4>1 DEF Quiet
      <4> QED BY <3>2, <4>2, <4>3
    <3>4. CASE ConfirmReset(r)
      <4>1. PICK s : s = Quiet
        OBVIOUS
      <4>2. req' = [req EXCEPT ![r] = s]
        BY <3>4, <4>1 DEF ConfirmReset, End
      <4>3. s.pc = "idle" /\ s.said = "nothing"
        BY <4>1 DEF Quiet
      <4> QED BY <3>2, <4>2, <4>3
    <3> QED BY <1>13, <3>3, <3>4
  <2>2. user'.version = user.version \/ user'.version = user.version + 1
    <3>1. CASE RevokeSession(r)
      BY <3>1 DEF RevokeSession
    <3>2. CASE ConfirmReset(r)
      <4>1. req[r].ver = user.version
        BY <1>0, <3>2 DEF ConfirmReset, Holds, At
      <4> QED BY <3>2, <4>1 DEF ConfirmReset, Inv, TypeOK, UserRow
    <3> QED BY <1>13, <3>1, <3>2
  <2>3. \A q \in Request : req'[q] = IF q = r THEN s ELSE req[q]
    BY <2>1 DEF Inv, TypeOK
  <2>4. ASSUME NEW q \in Request PROVE Claims(q)' => Claims(q) /\ q # r
    <3>1. CASE q = r
      BY <2>1, <2>3, <3>1 DEF Claims, At
    <3>2. CASE q # r
      <4>1. user.version \in Nat
        BY DEF Inv, TypeOK, UserRow
      <4>2. req[q].pc \in {"checked", "seen"} => req[q].ver \in Nat /\ req[q].ver <= user.version
        BY Here DEF Holds, RequestState
      <4>3. req'[q] = req[q]
        BY <2>3, <3>2
      <4> QED BY <2>2, <3>2, <4>1, <4>2, <4>3 DEF Claims, At
    <3> QED BY <3>1, <3>2
  <2>5. \A q \in Request : Pending'[q] = Pending[q] \/ Pending'[q] = None
    BY <2>3, <2>4 DEF Pending
  <2>6. Served' = Served
    BY <2>1, <2>3 DEF Served
  <2>7. ASSUME NEW x \in Session
        PROVE  /\ session[x].status = "absent" <=> session'[x].status = "absent"
               /\ session'[x].status \in {"absent", "revoked"} \/ session'[x] = session[x]
               /\ user'.version # user.version => session'[x].status \in {"absent", "revoked"}
    <3>1. session \in [Session -> SessionRow]
      BY DEF Inv, TypeOK
    <3>2. CASE RevokeSession(r)
      <4>1. Exists(req[r].session)
        BY <1>0, <3>2 DEF RevokeSession, Holds, WithSession, At
      <4> QED BY <3>1, <3>2, <4>1 DEF RevokeSession, Exists, SessionRow
    <3>3. CASE ConfirmReset(r)
      BY <3>1, <3>3 DEF ConfirmReset, SessionRow
    <3> QED BY <1>13, <3>2, <3>3
  <2>8. \A x \in Session : States'[x] = States[x] \/ (States[x] = "open" /\ States'[x] = "closed")
    BY <2>7 DEF States, Usable
  <2> QED BY <2>5, <2>6, <2>8, ClosesMaps DEF Access!AccessNext
<1> QED BY <1>4, <1>5, <1>6, <1>7, <1>8, <1>9, <1>10, <1>11, <1>12, <1>13 DEF Proceed

(* Time closes sessions; it does not touch a request.                      *)
LEMMA TimeMaps ==
    ASSUME Inv, TimePasses
    PROVE  Access!AccessNext \/ Unseen
<1>1. ASSUME NEW x \in Session, ExpireSession(x) PROVE Access!AccessNext
  <2>1. UNCHANGED <<user, req>> /\ session[x].status = "open"
    BY <1>1 DEF ExpireSession
  <2>2. /\ \A y \in Session : y # x => session'[y] = session[y]
        /\ session'[x].status = "expired"
    BY <1>1 DEF ExpireSession, Inv, TypeOK, SessionRow
  <2>3. \A y \in Session : States'[y] = States[y] \/ (States[y] = "open" /\ States'[y] = "closed")
    BY <2>1, <2>2 DEF States, Usable
  <2>4. Pending' = Pending /\ Served' = Served
    BY <2>1 DEF Pending, Served, Claims, At
  <2> QED BY <2>3, <2>4, ClosesMaps DEF Access!AccessNext
<1>2. ASSUME NEW x \in Token, ExpireToken(x) PROVE Unseen
  BY <1>2 DEF ExpireToken, Unseen, States, Usable, Pending, Served, Claims, At
<1>3. ASSUME NEW x \in Link, AgeLink(x) PROVE Unseen
  BY <1>3 DEF AgeLink, Unseen, States, Usable, Pending, Served, Claims, At
<1> QED BY <1>1, <1>2, <1>3 DEF TimePasses

(* Switching the account off or on is not seen in its sessions.            *)
LEMMA ActiveIsUnseen ==
    ASSUME Inv, NEW active, SetActive(active)
    PROVE  Unseen
<1>1. UNCHANGED <<session, req>> /\ user'.version = user.version
  BY DEF SetActive, Inv, TypeOK, UserRow
<1> QED BY <1>1 DEF Unseen, States, Usable, Pending, Served, Claims, At

(* It starts as SessionAccess does.                                        *)
LEMMA InitMaps == Init => Access!AccessInit
<1> SUFFICES ASSUME Init PROVE Access!AccessInit
  OBVIOUS
<1>1. \A r \in Request : req[r].pc = "idle" /\ req[r].said = "nothing"
  BY DEF Init, Quiet
<1>2. \A r \in Request : ~Claims(r)
  BY <1>1 DEF Claims, At
<1>3. \A s \in Session : session[s].status = "absent"
  BY DEF Init
<1>4. States = [s \in Session |-> "new"]
  BY <1>3 DEF States
<1>5. Pending = [r \in Request |-> None]
  BY <1>2 DEF Pending
<1>6. Served = [r \in Request |-> FALSE]
  <2>1. \A r \in Request : Served[r] = FALSE
    BY <1>1 DEF Served
  <2>2. Served = [r \in Request |-> Served[r]]
    BY DEF Served
  <2> QED BY <2>1, <2>2
<1> QED BY <1>4, <1>5, <1>6 DEF Access!AccessInit, States, Pending, Served

(* Every step of the account is a step of SessionAccess or unseen there.   *)
LEMMA NextMaps == Inv /\ [Next]_vars => [Access!AccessNext]_(Access!accessVars)
<1> SUFFICES ASSUME Inv, [Next]_vars PROVE Access!AccessNext \/ Unseen
  BY DEF Unseen, Access!accessVars, States, Pending, Served
<1>1. ASSUME NEW r \in Request, Begin(r) \/ Proceed(r) \/ Abort(r)
      PROVE  Access!AccessNext \/ Unseen
  BY <1>1, RequestMaps
<1>2. CASE \E active \in BOOLEAN : SetActive(active)
  BY <1>2, ActiveIsUnseen
<1>3. CASE TimePasses
  BY <1>3, TimeMaps
<1>4. CASE UNCHANGED vars
  BY <1>4 DEF vars, Unseen, States, Usable, Pending, Served, Claims, At
<1> QED BY <1>1, <1>2, <1>3, <1>4 DEF Next

(* What signing in promises is kept by every interleaving of logins,       *)
(* refreshes, logouts, resets, expiries and crashes: a session that closed *)
(* stays closed, and who was served had a session that was open meanwhile. *)
THEOREM AccessImplemented == Spec => ImplementsAccess
BY InvAlways, InitMaps, NextMaps, PTL DEF Spec, ImplementsAccess, Access!AccessSpec

=============================================================================
