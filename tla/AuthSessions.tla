---------------------------- MODULE AuthSessions ----------------------------
(***************************************************************************)
(* One account: registration, verification and password-reset links        *)
(* (app/auth/action_service.py), login, refresh-token rotation and logout  *)
(* (app/auth/service.py, app/services/session_service.py) and the check    *)
(* every authenticated request goes through (app/auth/dependencies.py).    *)
(*                                                                         *)
(* Requests run concurrently, each in a transaction of its own at READ     *)
(* COMMITTED.  A request holds what it has read and the row locks it has   *)
(* taken; locks follow from its stage.  Ids are given out in order.  A     *)
(* slot of Request serves one request after the other.                     *)
(***************************************************************************)
EXTENDS Naturals, FiniteSets

CONSTANTS Request,      \* requests that may be under way at one time
          MaxSession,   \* bounds: sessions, refresh tokens and links
          MaxToken,     \* that are ever created
          MaxLink,
          None          \* no session, token or link

ASSUME AuthAssumption ==
    /\ MaxSession \in Nat
    /\ MaxToken \in Nat
    /\ MaxLink \in Nat
    /\ None \notin Nat

VARIABLES user,     \* the users row
          session,  \* the sessions rows
          token,    \* the refresh_tokens rows
          link,     \* the auth_action_tokens rows
          req,      \* what each request holds
          used      \* how often each link was confirmed (history)

vars == <<user, session, token, link, req, used>>

Session == 1..MaxSession
Token == 1..MaxToken
Link == 1..MaxLink
Purpose == {"verify", "reset"}

Stage == {"idle", "login", "rotating", "checked", "rotate", "leaving", "leave",
          "active", "seen", "lock", "issue", "register", "deliver", "confirm"}

Quiet == [pc |-> "idle", session |-> None, token |-> None, link |-> None,
          ver |-> 0, proof |-> 0, purpose |-> "verify", said |-> "nothing"]

RequestState ==
    [pc : Stage,
     session : Session \cup {None},
     token : Token \cup {None},
     link : Link \cup {None},
     ver : Nat,                   \* the session_version it has read
     proof : Nat,                 \* the password it was given (history)
     purpose : Purpose,
     said : {"nothing", "served", "loggedOut"}]

(* Passwords are numbered in the order they were set.                      *)
UserRow == [exists : BOOLEAN, active : BOOLEAN, verified : BOOLEAN,
            version : Nat, password : Nat]
SessionRow == [status : {"absent", "open", "expired", "revoked"}, ver : Nat, proof : Nat]
TokenRow == [status : {"absent", "live", "expired", "revoked"},
             of : Session \cup {None}, parent : Token \cup {None}]
(* "fresh" while it is too soon for another one, then "ripe", "expired".   *)
Unconsumed == {"fresh", "ripe", "expired"}
LinkRow == [status : {"absent", "consumed"} \cup Unconsumed, purpose : Purpose]

TypeOK ==
    /\ user \in UserRow
    /\ session \in [Session -> SessionRow]
    /\ token \in [Token -> TokenRow]
    /\ link \in [Link -> LinkRow]
    /\ req \in [Request -> RequestState]
    /\ used \in [Link -> Nat]

(* Before the account is registered, or long after it was verified.        *)
Init ==
    /\ \E known \in BOOLEAN :
          user = [exists |-> known, active |-> TRUE, verified |-> known,
                  version |-> 1, password |-> 1]
    /\ session = [s \in Session |-> [status |-> "absent", ver |-> 1, proof |-> 1]]
    /\ token = [t \in Token |-> [status |-> "absent", of |-> None, parent |-> None]]
    /\ link = [l \in Link |-> [status |-> "absent", purpose |-> "verify"]]
    /\ req = [r \in Request |-> Quiet]
    /\ used = [l \in Link |-> 0]

At(r, pc) == req[r].pc = pc
Go(r, pc) == req' = [req EXCEPT ![r].pc = pc]
Start(r, state) == At(r, "idle") /\ req' = [req EXCEPT ![r] = state]
End(r) == req' = [req EXCEPT ![r] = Quiet]
Say(r, said, s) == req' = [req EXCEPT ![r] = [Quiet EXCEPT !.said = said, !.session = s]]

IsNext(row, i) == row[i].status = "absent" /\ \A j \in DOMAIN row : j < i => row[j].status # "absent"

(* A request that needs a new row starts only when the bound leaves one.   *)
NewToken == {"login", "rotating", "checked", "rotate"}
NewLink == {"register", "lock", "issue"}
Room(row, stages) ==
    Cardinality({i \in DOMAIN row : row[i].status = "absent"})
        > Cardinality({r \in Request : req[r].pc \in stages})

(* Row locks: SELECT ... FOR UPDATE of the users row lasts from the lock   *)
(* to the commit of the new link, and of a link's row from its check to    *)
(* the commit of what it confirms.                                         *)
UserLocked == \E r \in Request : At(r, "issue")
LinkLocked(l) == \E r \in Request : At(r, "confirm") /\ req[r].link = l

Active(l, purpose) == link[l].status \in Unconsumed /\ link[l].purpose = purpose

-----------------------------------------------------------------------------
(* Login.  authenticate() reads the user once; the session is stored with  *)
(* the version read then.  Its foreign key waits for a locked users row.   *)

Authenticate(r) ==
    /\ user.exists /\ user.active /\ user.verified
    /\ Room(session, {"login"}) /\ Room(token, NewToken)
    /\ Start(r, [Quiet EXCEPT !.pc = "login", !.ver = user.version,
                              !.proof = user.password])
    /\ UNCHANGED <<user, session, token, link, used>>

CreateSession(r, s, t) ==
    /\ At(r, "login")
    /\ ~UserLocked
    /\ IsNext(session, s) /\ IsNext(token, t)
    /\ session' = [session EXCEPT ![s] = [status |-> "open", ver |-> req[r].ver,
                                         proof |-> req[r].proof]]
    /\ token' = [token EXCEPT ![t] = [status |-> "live", of |-> s, parent |-> None]]
    /\ End(r)
    /\ UNCHANGED <<user, link, used>>

-----------------------------------------------------------------------------
(* Refresh: the token, its session and the user's version are read one     *)
(* after the other, none of them locked; then one commit.                  *)

PresentToken(r, t) ==
    /\ token[t].status = "live"
    /\ Room(token, NewToken)
    /\ Start(r, [Quiet EXCEPT !.pc = "rotating", !.token = t])
    /\ UNCHANGED <<user, session, token, link, used>>

ReadSession(r) ==
    /\ At(r, "rotating")
    /\ LET s == token[req[r].token].of IN
          IF session[s].status = "open"
          THEN req' = [req EXCEPT ![r].pc = "checked", ![r].session = s,
                                  ![r].ver = session[s].ver]
          ELSE End(r)
    /\ UNCHANGED <<user, session, token, link, used>>

ValidateVersion(r) ==
    /\ At(r, "checked")
    /\ IF req[r].ver = user.version THEN Go(r, "rotate") ELSE End(r)
    /\ UNCHANGED <<user, session, token, link, used>>

(* Variant: the presented token is left as it is.                          *)
RotateKeepingParent(r, child) ==
    /\ At(r, "rotate")
    /\ IsNext(token, child)
    /\ token' = [token EXCEPT
           ![child] = [status |-> "live", of |-> req[r].session, parent |-> req[r].token]]
    /\ Say(r, "served", req[r].session)
    /\ UNCHANGED <<user, session, link, used>>

Rotate(r, child) ==
    /\ At(r, "rotate")
    /\ IsNext(token, child)
    /\ token' = [token EXCEPT
           ![req[r].token].status = "revoked",
           ![child] = [status |-> "live", of |-> req[r].session, parent |-> req[r].token]]
    /\ Say(r, "served", req[r].session)
    /\ UNCHANGED <<user, session, link, used>>

-----------------------------------------------------------------------------
(* Logout of the session a token belongs to.  The commit is revoke_session *)
(* 's, which makes none when it finds the session revoked.                 *)

FindToken(r, t) ==
    /\ token[t].status # "absent"
    /\ Start(r, [Quiet EXCEPT !.pc = "leaving", !.token = t, !.session = token[t].of])
    /\ UNCHANGED <<user, session, token, link, used>>

FindSession(r) ==
    /\ At(r, "leaving")
    /\ IF session[req[r].session].status = "revoked"
       THEN Say(r, "loggedOut", req[r].session) ELSE Go(r, "leave")
    /\ UNCHANGED <<user, session, token, link, used>>

(* Variant: only the presented token is revoked.                           *)
RevokeTokenOnly(r) ==
    /\ At(r, "leave")
    /\ token' = [token EXCEPT ![req[r].token].status = "revoked"]
    /\ Say(r, "loggedOut", req[r].session)
    /\ UNCHANGED <<user, session, link, used>>

RevokeSession(r) ==
    /\ At(r, "leave")
    /\ session' = [session EXCEPT ![req[r].session].status = "revoked"]
    /\ token' = [token EXCEPT ![req[r].token].status = "revoked"]
    /\ Say(r, "loggedOut", req[r].session)
    /\ UNCHANGED <<user, link, used>>

-----------------------------------------------------------------------------
(* An authenticated request with an access token of session s.             *)

ReadUser(r, s) ==
    /\ session[s].status # "absent"
    /\ user.active
    /\ Start(r, [Quiet EXCEPT !.pc = "active", !.session = s])
    /\ UNCHANGED <<user, session, token, link, used>>

(* Variant: only the version is looked at.                                 *)
SeeSessionAnyStatus(r) ==
    /\ At(r, "active")
    /\ req' = [req EXCEPT ![r].pc = "seen", ![r].ver = session[req[r].session].ver]
    /\ UNCHANGED <<user, session, token, link, used>>

SeeSession(r) ==
    /\ At(r, "active")
    /\ IF session[req[r].session].status = "open"
       THEN req' = [req EXCEPT ![r].pc = "seen", ![r].ver = session[req[r].session].ver]
       ELSE End(r)
    /\ UNCHANGED <<user, session, token, link, used>>

LetIn(r) ==
    /\ At(r, "seen")
    /\ IF req[r].ver = user.version THEN Say(r, "served", req[r].session) ELSE End(r)
    /\ UNCHANGED <<user, session, token, link, used>>

-----------------------------------------------------------------------------
(* Registration commits the account and sends its first link without a     *)
(* lock; an update of the profile may switch the account off and on.       *)

Register(r) ==
    /\ ~user.exists
    /\ Room(link, NewLink)
    /\ user' = [user EXCEPT !.exists = TRUE]
    /\ Start(r, [Quiet EXCEPT !.pc = "register"])
    /\ UNCHANGED <<session, token, link, used>>

SetActive(active) ==
    /\ user.exists
    /\ ~UserLocked
    /\ user' = [user EXCEPT !.active = active]
    /\ UNCHANGED <<session, token, link, req, used>>

-----------------------------------------------------------------------------
(* Links.  The account is read without a lock and then locked; the locked  *)
(* read returns the same object, so what was read first still decides.     *)

AskForLink(r, purpose) ==
    /\ user.exists /\ user.active
    /\ purpose = "verify" => ~user.verified
    /\ Room(link, NewLink)
    /\ Start(r, [Quiet EXCEPT !.pc = "lock", !.purpose = purpose])
    /\ UNCHANGED <<user, session, token, link, used>>

LockUser(r) ==
    /\ At(r, "lock")
    /\ ~UserLocked
    /\ Go(r, "issue")
    /\ UNCHANGED <<user, session, token, link, used>>

TooSoon(r) ==
    /\ req[r].purpose = "verify"
    /\ \E l \in Link : link[l] = [status |-> "fresh", purpose |-> "verify"]

(* Variant: the request waits until the cooldown is over.                  *)
CoolDownByWaiting(r) ==
    /\ At(r, "issue")
    /\ TooSoon(r)
    /\ UNCHANGED vars

CoolDown(r) ==
    /\ At(r, "issue")
    /\ TooSoon(r)
    /\ End(r)
    /\ UNCHANGED <<user, session, token, link, used>>

(* consume_active() has to wait for links that are being confirmed.        *)
Blocked(r) == \E l \in Link : Active(l, req[r].purpose) /\ LinkLocked(l)

CreateLink(r, l) ==
    /\ \/ At(r, "issue") /\ ~TooSoon(r)
       \/ At(r, "register") /\ ~UserLocked
    /\ ~Blocked(r)
    /\ IsNext(link, l)
    /\ link' = [k \in Link |->
           IF k = l THEN [status |-> "fresh", purpose |-> req[r].purpose]
           ELSE IF Active(k, req[r].purpose) THEN [link[k] EXCEPT !.status = "consumed"]
           ELSE link[k]]
    /\ req' = [req EXCEPT ![r].pc = "deliver", ![r].link = l]
    /\ UNCHANGED <<user, session, token, used>>

Deliver(r) ==
    /\ At(r, "deliver")
    /\ End(r)
    /\ UNCHANGED <<user, session, token, link, used>>

(* Variant: a status of its own for a link that could not be mailed.       *)
DeliveryFailsApart(r) ==
    /\ At(r, "deliver")
    /\ ~LinkLocked(req[r].link)
    /\ link' = [link EXCEPT ![req[r].link].status = "undelivered"]
    /\ End(r)
    /\ UNCHANGED <<user, session, token, used>>

(* A link that could not be mailed is withdrawn.                           *)
DeliveryFails(r) ==
    /\ At(r, "deliver")
    /\ ~LinkLocked(req[r].link)
    /\ link' = [link EXCEPT ![req[r].link].status = "consumed"]
    /\ End(r)
    /\ UNCHANGED <<user, session, token, used>>

(* The link's row is read and checked, then the account.                   *)
ReadLink(r, l) ==
    /\ link[l].status \in {"fresh", "ripe"}
    /\ user.active
    /\ Start(r, [Quiet EXCEPT !.pc = "confirm", !.link = l,
                              !.purpose = link[l].purpose,
                              !.ver = IF link[l].purpose = "verify" /\ user.verified
                                      THEN 0 ELSE user.version])
    /\ UNCHANGED <<user, session, token, link, used>>

(* Variant: the row is not locked.                                         *)
FollowLinkUnlocked(r, l) == ReadLink(r, l)

FollowLink(r, l) == ~LinkLocked(l) /\ ReadLink(r, l)

(* 0 when it found nothing of the account to change.                       *)
WritesUser(r) == req[r].ver # 0

ConfirmEmail(r) ==
    /\ At(r, "confirm") /\ req[r].purpose = "verify"
    /\ WritesUser(r) => ~UserLocked
    /\ link' = [link EXCEPT ![req[r].link].status = "consumed"]
    /\ user' = [user EXCEPT !.verified = TRUE]
    /\ used' = [used EXCEPT ![req[r].link] = @ + 1]
    /\ End(r)
    /\ UNCHANGED <<session, token>>

(* Variant: the version is left alone.                                     *)
ConfirmResetKeepingVersion(r) ==
    /\ At(r, "confirm") /\ req[r].purpose = "reset"
    /\ ~UserLocked
    /\ user' = [user EXCEPT !.password = @ + 1]
    /\ link' = [l \in Link |->
           IF Active(l, "reset") THEN [link[l] EXCEPT !.status = "consumed"] ELSE link[l]]
    /\ session' = [s \in Session |->
           IF session[s].status = "absent" THEN session[s]
           ELSE [session[s] EXCEPT !.status = "revoked"]]
    /\ used' = [used EXCEPT ![req[r].link] = @ + 1]
    /\ End(r)
    /\ UNCHANGED token

(* The version is written as read plus one.                                *)
ConfirmReset(r) ==
    /\ At(r, "confirm") /\ req[r].purpose = "reset"
    /\ ~UserLocked
    /\ \A l \in Link : Active(l, "reset") /\ LinkLocked(l) => l = req[r].link
    /\ user' = [user EXCEPT !.version = req[r].ver + 1, !.password = @ + 1]
    /\ link' = [l \in Link |->
           IF Active(l, "reset") THEN [link[l] EXCEPT !.status = "consumed"] ELSE link[l]]
    /\ session' = [s \in Session |->
           IF session[s].status = "absent" THEN session[s]
           ELSE [session[s] EXCEPT !.status = "revoked"]]
    /\ used' = [used EXCEPT ![req[r].link] = @ + 1]
    /\ End(r)
    /\ UNCHANGED token

(* The request for a link holds the user and waits for the link; the one   *)
(* that confirms it holds the link and waits for the user.  Postgres ends  *)
(* one of the two transactions.                                            *)
Deadlocked(issuer, confirmer) ==
    /\ At(issuer, "issue") /\ ~TooSoon(issuer)
    /\ At(confirmer, "confirm") /\ WritesUser(confirmer)
    /\ Active(req[confirmer].link, req[issuer].purpose)

BreakDeadlock(r) ==
    /\ \E q \in Request : Deadlocked(r, q) \/ Deadlocked(q, r)
    /\ End(r)
    /\ UNCHANGED <<user, session, token, link, used>>

-----------------------------------------------------------------------------
(* The process or the connection dies: the open transaction is rolled back.*)
Abort(r) ==
    /\ ~At(r, "idle")
    /\ End(r)
    /\ UNCHANGED <<user, session, token, link, used>>

ExpireSession(s) ==
    /\ session[s].status = "open"
    /\ session' = [session EXCEPT ![s].status = "expired"]
    /\ UNCHANGED <<user, token, link, req, used>>

ExpireToken(t) ==
    /\ token[t].status = "live"
    /\ token' = [token EXCEPT ![t].status = "expired"]
    /\ UNCHANGED <<user, session, link, req, used>>

AgeLink(l) ==
    /\ link[l].status \in {"fresh", "ripe"}
    /\ link' = [link EXCEPT ![l].status =
                   IF link[l] = [status |-> "fresh", purpose |-> "verify"]
                   THEN "ripe" ELSE "expired"]
    /\ UNCHANGED <<user, session, token, req, used>>

-----------------------------------------------------------------------------
Begin(r) ==
    \/ Authenticate(r)
    \/ Register(r)
    \/ \E t \in Token : PresentToken(r, t) \/ FindToken(r, t)
    \/ \E s \in Session : ReadUser(r, s)
    \/ \E purpose \in Purpose : AskForLink(r, purpose)
    \/ \E l \in Link : FollowLink(r, l)

Proceed(r) ==
    \/ \E s \in Session, t \in Token : CreateSession(r, s, t)
    \/ ReadSession(r) \/ ValidateVersion(r) \/ (\E t \in Token : Rotate(r, t))
    \/ FindSession(r) \/ RevokeSession(r)
    \/ SeeSession(r) \/ LetIn(r)
    \/ LockUser(r) \/ CoolDown(r) \/ (\E l \in Link : CreateLink(r, l))
    \/ Deliver(r) \/ DeliveryFails(r)
    \/ ConfirmEmail(r) \/ ConfirmReset(r)
    \/ BreakDeadlock(r)

TimePasses ==
    \/ \E s \in Session : ExpireSession(s)
    \/ \E t \in Token : ExpireToken(t)
    \/ \E l \in Link : AgeLink(l)

Next ==
    \/ \E r \in Request : Begin(r) \/ Proceed(r) \/ Abort(r)
    \/ \E active \in BOOLEAN : SetActive(active)
    \/ TimePasses

Spec == Init /\ [][Next]_vars

(* A coroutine that can go on does; Postgres grants a row lock to whoever  *)
(* has waited for it, so a wait that can end again and again does end.     *)
FairSpec == Spec /\ \A r \in Request : SF_vars(Proceed(r))

-----------------------------------------------------------------------------
(* Properties.                                                             *)

Usable(s) == session[s].status = "open" /\ session[s].ver = user.version

(* A request claims its session from the read that found it open until the *)
(* user's version has been seen to differ.                                 *)
Claims(r) ==
    \/ req[r].pc \in {"checked", "seen"} /\ req[r].ver = user.version
    \/ At(r, "rotate")

Access == INSTANCE SessionAccess WITH
    state <- [s \in Session |-> IF session[s].status = "absent" THEN "new"
                                ELSE IF Usable(s) THEN "open" ELSE "closed"],
    pending <- [r \in Request |-> IF Claims(r) THEN req[r].session ELSE None],
    served <- [r \in Request |-> req[r].said = "served"]

(* Whatever logins, refreshes, logouts, resets and expiries overlap, no    *)
(* closed session opens again, and every request that was served, and      *)
(* every refresh that returned tokens, belonged to a session that was open *)
(* at some moment while it was under way.                                  *)
ImplementsAccess == Access!AccessSpec

(* A session that still works was opened with the password now in force: a *)
(* reset shuts out everybody who knew the old one, also a login that had   *)
(* verified the old password and stores its session after the reset.       *)
ResetShutsOut == \A s \in Session : Usable(s) => session[s].proof = user.password

(* A mailed link takes effect at most once, however often it is followed,  *)
(* at the same time or again.                                              *)
LinksWorkOnce == \A l \in Link : used[l] <= 1

(* A refresh token that has a child is spent: rotation leaves no way to    *)
(* use the parent again once the child exists.                             *)
RotatedTokenIsSpent ==
    \A t \in Token : token[t].parent # None => token[token[t].parent].status = "revoked"

(* Once a logout has been answered the session is revoked, whichever of    *)
(* its tokens was presented and whatever else ran: a refresh that ends     *)
(* later does not bring it back.                                           *)
LogoutStands ==
    \A r \in Request : req[r].said = "loggedOut" => session[req[r].session].status = "revoked"

(* Every request ends.  Links and accounts are locked in opposite orders   *)
(* by the requests that issue links and the ones that confirm them, so     *)
(* this rests on Postgres breaking their deadlocks.                        *)
RequestsEnd == \A r \in Request : ~At(r, "idle") ~> At(r, "idle")
=============================================================================
