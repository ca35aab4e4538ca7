------------------------------ MODULE Accounts ------------------------------
(***************************************************************************)
(* Accounts, invitations, the onboarding gate, password resets and          *)
(* sessions (package auth).  A handler is a few statements, most of them    *)
(* outside any database transaction: here each is a step of the client      *)
(* whose request it is, and the client may be gone, or the database fail,   *)
(* before any of them.  Accepting an invitation by its link and setting a   *)
(* new password are one transaction each.                                   *)
(*                                                                          *)
(* The e-mail address, which is unique among users, stands for the user,    *)
(* and a number for each password a user has had: 0 is none.                *)
(***************************************************************************)
EXTENDS Integers, FiniteSets

CONSTANTS
  Email,
  Google,        \* the addresses with a Google identity
  Household,
  Founders,      \* the users there are at first, one household each,
  Restored,      \* and the members a restored backup has left dormant
  SessionId, InviteId, HandshakeId, TokenId,
  Client,
  Nil,
  HandshakeTTL, ResetTTL, RelayTTL, InviteTTL, SessionTTL,
  MaxTime,       \* bound
  MaxRequests    \* bound

\* The one-to-one functions from S to T.
OneToOne(S, T) == {f \in [S -> T] : \A x, y \in S : f[x] = f[y] => x = y}

ASSUME EmailAssumption == /\ Google \subseteq Email
                          /\ Founders \subseteq Email /\ Restored \subseteq Email \ Founders
ASSUME FoundersAssumption ==
  /\ Founders # {}
  /\ \A Id \in {Household, SessionId, InviteId} : OneToOne(Founders, Id) # {}
ASSUME TimeAssumption ==
  {HandshakeTTL, ResetTTL, RelayTTL, InviteTTL, SessionTTL, MaxTime, MaxRequests} \subseteq Nat

VARIABLES
  household,  \* the households there are
  user,       \* email |-> row or Nil
  cred,       \* email |-> its password, or 0
  session, invite, handshake, token,   \* tables: id |-> row
  request,    \* client |-> the next statement of its request, or Nil
  asked,      \* how many requests there were
  now

vars == <<household, user, cred, session, invite, handshake, token, request, asked, now>>

\* A joined local handshake leaves the empty string for a Google subject.
Sub == {"google", "none", "empty"}

User == [home : Household, by : Email \cup {Nil}, sub : Sub]

ASSUME NilAssumption == Nil \notin Email /\ Nil \notin InviteId /\ Nil \notin User

Session == [of : Email, with : Nat, late : BOOLEAN, expires : Nat]

Invitation == [home : Household, email : Email, by : Email, used : BOOLEAN, expires : Nat]

Handshake == [email : Email, secret : 0 .. 1, expires : Nat]

Token == [of : Email, founders : BOOLEAN, stale : BOOLEAN, expires : Nat]

IsTable(t, Id, Row) == DOMAIN t \subseteq Id /\ \A i \in DOMAIN t : t[i] \in Row

TypeOK ==
  /\ household \subseteq Household
  /\ user \in [Email -> User \cup {Nil}] /\ cred \in [Email -> Nat]
  /\ \A e \in Email : cred[e] # 0 => user[e] # Nil
  /\ \A e \in Email : user[e] # Nil => user[e].home \in household
  /\ IsTable(session, SessionId, Session) /\ \A s \in DOMAIN session : user[session[s].of] # Nil
  /\ IsTable(invite, InviteId, Invitation)
  /\ IsTable(handshake, HandshakeId, Handshake)
  /\ IsTable(token, TokenId, Token) /\ \A t \in DOMAIN token : user[token[t].of] # Nil
  /\ now \in 0 .. MaxTime

Empty == [i \in {} |-> Nil]

\* Each founder is signed in, and some have invited who has no account yet.
Init ==
  LET home == CHOOSE h \in OneToOne(Founders, Household) : TRUE
      at   == CHOOSE h \in OneToOne(Founders, SessionId) : TRUE
      to   == CHOOSE h \in OneToOne(Founders, InviteId) : TRUE
      head == CHOOSE e \in Founders : TRUE
  IN
  \E local, inviters \in SUBSET Founders, guest \in Email \ (Founders \cup Restored) :
    /\ Founders \ local \subseteq Google
    /\ household = {home[e] : e \in Founders}
    /\ user = [e \in Email |->
         IF e \in Founders THEN [home |-> home[e], by |-> Nil,
                                 sub |-> IF e \in local THEN "none" ELSE "google"]
         ELSE IF e \in Restored THEN [home |-> home[head], by |-> head, sub |-> "none"]
         ELSE Nil]
    /\ cred = [e \in Email |-> IF e \in local THEN 1 ELSE 0]
    /\ session = [s \in {at[e] : e \in Founders} |->
         LET e == CHOOSE f \in Founders : at[f] = s
         IN  [of |-> e, with |-> cred[e], late |-> FALSE, expires |-> SessionTTL]]
    /\ invite = [i \in {to[e] : e \in inviters} |->
         LET e == CHOOSE f \in Founders : to[f] = i
         IN  [home |-> home[e], email |-> guest, by |-> e, used |-> FALSE, expires |-> InviteTTL]]
    /\ handshake = Empty /\ token = Empty
    /\ request = [c \in Client |-> Nil]
    /\ asked = 0 /\ now = 0

----------------------------------------------------------------------------
(* Tables and requests *)

\* Ids are random and mean nothing, so one stands for all: the bound is a
\* conjunct of its own, the new row goes where there is room.
HasRoom(t, Id) == Id \ DOMAIN t # {}

Insert(t, Id, row) ==
  LET n == CHOOSE i \in Id : i \notin DOMAIN t
  IN  [i \in DOMAIN t \cup {n} |-> IF i = n THEN row ELSE t[i]]

Keep(t, P(_)) == [i \in {j \in DOMAIN t : P(t[j])} |-> t[i]]

Fresh(row) == row.expires > now

Live(t) == {i \in DOMAIN t : Fresh(t[i])}

\* A handler's first statement, and what is left to do.
Starts(c, next) ==
  /\ request[c] = Nil /\ asked < MaxRequests
  /\ asked' = asked + 1
  /\ request' = [request EXCEPT ![c] = next]

Goes(c, next) == request' = [request EXCEPT ![c] = next] /\ UNCHANGED asked

At(c, do) == request[c] # Nil /\ request[c].do = do

\* The client is gone or the database fails: what was done stays done.
Abort(c) ==
  /\ request[c] # Nil
  /\ Goes(c, Nil)
  /\ UNCHANGED <<household, user, cred, session, invite, handshake, token, now>>

\* What ends every way to sign in; with is the password that was shown, 0 for
\* Google, and late that it is no longer the user's.
SignIn(e, with) == [do |-> "issue", of |-> e, with |-> with]

IssueSession(c) ==
  LET r == request[c]
  IN  /\ At(c, "issue")
      /\ HasRoom(session, SessionId)
      /\ session' = Insert(session, SessionId,
           [of |-> r.of, with |-> r.with, late |-> r.with \notin {0, cred[r.of]},
            expires |-> now + SessionTTL])
      /\ Goes(c, Nil)
      /\ UNCHANGED <<household, user, cred, invite, handshake, token, now>>

----------------------------------------------------------------------------
(* Signing in *)

\* The password is verified.  (A wrong one only concerns the limiter.)
handleLocalLogin(c, e) ==
  /\ user[e] # Nil /\ cred[e] # 0
  /\ Starts(c, SignIn(e, cred[e]))
  /\ UNCHANGED <<household, user, cred, session, invite, handshake, token, now>>

\* Google vouches for e: a known subject signs in, a new one gets a handshake.
handleCallback(c, e) ==
  /\ e \in Google
  /\ Starts(c, IF user[e] # Nil /\ user[e].sub = "google" THEN SignIn(e, 0)
               ELSE [do |-> "handshake", email |-> e, secret |-> 0])
  /\ UNCHANGED <<household, user, cred, session, invite, handshake, token, now>>

handleLocalRegister(c, e) ==
  /\ user[e] = Nil
  /\ Starts(c, [do |-> "handshake", email |-> e, secret |-> 1])
  /\ UNCHANGED <<household, user, cred, session, invite, handshake, token, now>>

BeginOnboarding(c) ==
  LET r == request[c]
  IN  /\ At(c, "handshake")
      /\ HasRoom(handshake, HandshakeId)
      /\ handshake' = Insert(handshake, HandshakeId,
           [email |-> r.email, secret |-> r.secret, expires |-> now + HandshakeTTL])
      /\ Goes(c, Nil)
      /\ UNCHANGED <<household, user, cred, session, invite, token, now>>

handleLogout(s) ==
  /\ s \in DOMAIN session
  /\ session' = [i \in DOMAIN session \ {s} |-> session[i]]
  /\ UNCHANGED <<household, user, cred, invite, handshake, token, request, asked, now>>

\* Any request with a session slides its expiry.
Touched(s) == [session EXCEPT ![s].expires = now + SessionTTL]

SessionMiddleware(s) ==
  /\ s \in Live(session)
  /\ session' = Touched(s)
  /\ UNCHANGED <<household, user, cred, invite, handshake, token, request, asked, now>>

----------------------------------------------------------------------------
(* The onboarding gate *)

\* Broken: an invitation to somebody else will do.
ValidForAnyone(i, e) == i \in Live(invite) /\ ~invite[i].used

GetValidInvitationForEmail(i, e) == i \in Live(invite) /\ ~invite[i].used /\ invite[i].email = e

\* The unique indexes on users.
Admits(e, sub) ==
  /\ user[e] = Nil
  /\ sub = "empty" => \A f \in Email : user[f] # Nil => user[f].sub # "empty"

SubOf(h) == IF handshake[h].secret = 0 THEN "google" ELSE "none"

\* A local handshake has no subject, and joining writes stringOrEmpty of it; the
\* secret it stashed for the credential is left behind (secret |-> 0 below).
JoinSubOf(h) == IF handshake[h].secret = 0 THEN "google" ELSE "empty"

commitJoin(c, h, i) ==
  /\ h \in Live(handshake)
  /\ GetValidInvitationForEmail(i, handshake[h].email)
  /\ Starts(c, [do |-> "user", email |-> handshake[h].email, secret |-> 0, handshake |-> h,
                home |-> invite[i].home, by |-> invite[i].by, sub |-> JoinSubOf(h), invite |-> i])
  /\ UNCHANGED <<household, user, cred, session, invite, handshake, token, now>>

\* Founding makes the household first.
commitFound(c, h) ==
  LET home == CHOOSE n \in Household : n \notin household
  IN  /\ h \in Live(handshake)
      /\ Household # household
      /\ household' = household \cup {home}
      /\ Starts(c, [do |-> "user", email |-> handshake[h].email, secret |-> handshake[h].secret,
                    handshake |-> h, home |-> home, by |-> Nil, sub |-> SubOf(h), invite |-> Nil])
      /\ UNCHANGED <<user, cred, session, invite, handshake, token, now>>

CreateUser(c) ==
  LET r == request[c]
  IN  /\ At(c, "user")
      /\ Admits(r.email, r.sub)
      /\ user' = [user EXCEPT ![r.email] = [home |-> r.home, by |-> r.by, sub |-> r.sub]]
      /\ Goes(c, [r EXCEPT !.do = IF r.invite # Nil THEN "mark"
                                  ELSE IF r.secret # 0 THEN "credential" ELSE "finish"])
      /\ UNCHANGED <<household, cred, session, invite, handshake, token, now>>

\* The password that was chosen on registering; no session is revoked.
StashedCredential(c) ==
  LET r == request[c]
  IN  /\ At(c, "credential")
      /\ cred' = [cred EXCEPT ![r.email] = @ + 1]
      /\ session' = [s \in DOMAIN session |->
                       [session[s] EXCEPT !.late = @ \/ session[s].of = r.email]]
      /\ Goes(c, [r EXCEPT !.do = "finish", !.secret = cred[r.email] + 1])
      /\ UNCHANGED <<household, user, invite, handshake, token, now>>

MarkInvitationUsed(c) ==
  LET r == request[c]
  IN  /\ At(c, "mark")
      /\ invite' = [invite EXCEPT ![r.invite].used = TRUE]
      /\ Goes(c, [r EXCEPT !.do = "finish"])
      /\ UNCHANGED <<household, user, cred, session, handshake, token, now>>

\* Deleting the handshake is best effort.
finishOnboarding(c) ==
  LET r == request[c]
  IN  /\ At(c, "finish")
      /\ handshake' \in {handshake, [i \in DOMAIN handshake \ {r.handshake} |-> handshake[i]]}
      /\ Goes(c, SignIn(r.email, r.secret))
      /\ UNCHANGED <<household, user, cred, session, invite, token, now>>

----------------------------------------------------------------------------
(* Invitations *)

handleCreateInvitation(s, e) ==
  /\ s \in Live(session) /\ e # session[s].of
  /\ asked < MaxRequests /\ asked' = asked + 1
  /\ session' = Touched(s)
  /\ HasRoom(invite, InviteId)
  /\ invite' = Insert(invite, InviteId,
       [home |-> user[session[s].of].home, email |-> e, by |-> session[s].of,
        used |-> FALSE, expires |-> now + InviteTTL])
  /\ UNCHANGED <<household, user, cred, handshake, token, request, now>>

\* Broken: the invitation is consumed before the account is made, and apart.
ConsumeLocalInvite(c, i) ==
  /\ i \in Live(invite) /\ ~invite[i].used
  /\ invite' = [invite EXCEPT ![i].used = TRUE]
  /\ Starts(c, [do |-> "user", email |-> invite[i].email, secret |-> 1, handshake |-> Nil,
                home |-> invite[i].home, by |-> invite[i].by, sub |-> "none", invite |-> Nil])
  /\ UNCHANGED <<household, user, cred, session, handshake, token, now>>

\* One transaction: by the link's token, whoever holds it.
commitLocalInvite(c, i) ==
  LET e == invite[i].email
  IN  /\ i \in Live(invite) /\ ~invite[i].used
      /\ Admits(e, "none")
      /\ invite' = [invite EXCEPT ![i].used = TRUE]
      /\ user' = [user EXCEPT ![e] = [home |-> invite[i].home, by |-> invite[i].by, sub |-> "none"]]
      /\ cred' = [cred EXCEPT ![e] = @ + 1]
      /\ Starts(c, SignIn(e, cred[e] + 1))
      /\ UNCHANGED <<household, session, handshake, token, now>>

----------------------------------------------------------------------------
(* New passwords *)

NewToken(e, ttl, founders) == [do |-> "token", of |-> e, ttl |-> ttl, founders |-> founders]

\* By mail, for who has a password.
issueResetToken(c, e) ==
  /\ user[e] # Nil /\ cred[e] # 0
  /\ Starts(c, NewToken(e, ResetTTL, FALSE))
  /\ UNCHANGED <<household, user, cred, session, invite, handshake, token, now>>

\* By the operator, for who has no Google identity.
MintResetPasswordLink(c, e) ==
  /\ user[e] # Nil /\ user[e].sub = "none"
  /\ Starts(c, NewToken(e, RelayTTL, FALSE))
  /\ UNCHANGED <<household, user, cred, session, invite, handshake, token, now>>

Dormant(e) == user[e] # Nil /\ user[e].sub = "none" /\ cred[e] = 0

\* By the founder of the household, for a dormant member.
handleReactivateMember(c, s, e) ==
  LET f == session[s].of
  IN  /\ s \in Live(session) /\ user[f].by = Nil
      /\ Dormant(e) /\ user[e].home = user[f].home
      /\ session' = Touched(s)
      /\ Starts(c, NewToken(e, RelayTTL, TRUE))
      /\ UNCHANGED <<household, user, cred, invite, handshake, token, now>>

\* stale: the member had a password by the time the token was written.
CreatePasswordResetToken(c) ==
  LET r == request[c]
  IN  /\ At(c, "token")
      /\ HasRoom(token, TokenId)
      /\ token' = Insert(token, TokenId,
           [of |-> r.of, founders |-> r.founders, stale |-> cred[r.of] # 0, expires |-> now + r.ttl])
      /\ Goes(c, Nil)
      /\ UNCHANGED <<household, user, cred, session, invite, handshake, now>>

\* Broken: the sibling tokens live on.
commitPasswordResetOnce(c, t) ==
  LET e == token[t].of
  IN  /\ t \in Live(token)
      /\ cred' = [cred EXCEPT ![e] = @ + 1]
      /\ session' = Keep(session, LAMBDA row : row.of # e)
      /\ token' = [i \in DOMAIN token \ {t} |-> token[i]]
      /\ Starts(c, SignIn(e, cred[e] + 1))
      /\ UNCHANGED <<household, user, invite, handshake, now>>

\* Broken: the sessions live on.
commitPasswordResetOnly(c, t) ==
  LET e == token[t].of
  IN  /\ t \in Live(token)
      /\ cred' = [cred EXCEPT ![e] = @ + 1]
      /\ token' = Keep(token, LAMBDA row : row.of # e)
      /\ Starts(c, SignIn(e, cred[e] + 1))
      /\ UNCHANGED <<household, user, session, invite, handshake, now>>

\* One transaction; the token itself goes with its siblings.
commitPasswordReset(c, t) ==
  LET e == token[t].of
  IN  /\ t \in Live(token)
      /\ cred' = [cred EXCEPT ![e] = @ + 1]
      /\ session' = Keep(session, LAMBDA row : row.of # e)
      /\ token' = Keep(token, LAMBDA row : row.of # e)
      /\ Starts(c, SignIn(e, cred[e] + 1))
      /\ UNCHANGED <<household, user, invite, handshake, now>>

----------------------------------------------------------------------------
(* Time *)

sweep ==
  /\ session' = Keep(session, Fresh)
  /\ handshake' = Keep(handshake, Fresh)
  /\ token' = Keep(token, Fresh)
  /\ <<session, handshake, token>>' # <<session, handshake, token>>
  /\ UNCHANGED <<household, user, cred, invite, request, asked, now>>

Tick ==
  /\ now < MaxTime
  /\ now' = now + 1
  /\ UNCHANGED <<household, user, cred, session, invite, handshake, token, request, asked>>

Next ==
  \/ \E c \in Client :
       \/ Abort(c) \/ IssueSession(c) \/ BeginOnboarding(c) \/ CreateUser(c) \/ StashedCredential(c)
       \/ MarkInvitationUsed(c) \/ finishOnboarding(c) \/ CreatePasswordResetToken(c)
       \/ \E e \in Email : \/ handleLocalLogin(c, e) \/ handleCallback(c, e) \/ handleLocalRegister(c, e)
                           \/ issueResetToken(c, e) \/ MintResetPasswordLink(c, e)
                           \/ \E s \in SessionId : handleReactivateMember(c, s, e)
       \/ \E h \in HandshakeId : \/ \E i \in InviteId : commitJoin(c, h, i)
                                 \/ commitFound(c, h)
       \/ \E i \in InviteId : commitLocalInvite(c, i)
       \/ \E t \in TokenId : commitPasswordReset(c, t)
  \/ \E s \in SessionId : \/ handleLogout(s) \/ SessionMiddleware(s)
                          \/ \E e \in Email : handleCreateInvitation(s, e)
  \/ sweep \/ Tick

Spec == Init /\ [][Next]_vars

----------------------------------------------------------------------------
(* Properties *)

\* A used invitation has its account to show for it, and in its household, by
\* whichever of the two ways it was used and however they crossed with other
\* invitations of the same address (INV-AUTH-07, and "the link is never burned
\* without an account to show for it", auth/local_invite.go).
UsedMeansMember ==
  \A i \in DOMAIN invite :
    invite[i].used => user[invite[i].email] # Nil /\ user[invite[i].email].home = invite[i].home

\* Who is not a founder was invited, by this address, into this household and
\* by this member of it: a forwarded invitation admits nobody else (INV-AUTH-08).
MembersWereInvited ==
  \A e \in Email :
    e \notin Restored /\ user[e] # Nil /\ user[e].by # Nil =>
      /\ user[user[e].by].home = user[e].home
      /\ \E i \in DOMAIN invite :
           invite[i].email = e /\ invite[i].by = user[e].by /\ invite[i].home = user[e].home

\* A person stays in the household they first came to (ADR-0017), though every
\* request that makes an account had read that there was none.
NobodyMoves == [][\A e \in Email : user[e] # Nil => user'[e] = user[e]]_vars

\* A session outlives the password it was opened with only when the new one was
\* set while that login was under way ("reset because compromised", INV-AUTH-19).
ResetRevokes ==
  \A s \in DOMAIN session :
    session[s].with \in {0, cred[session[s].of]} \/ session[s].late

\* A link from the founder gives a member the first password and never replaces
\* one (INV-AUTH-20), unless the member got one before the token was written.
FounderNeverResets ==
  \A t \in DOMAIN token : token[t].founders /\ cred[token[t].of] # 0 => token[t].stale

\* "A User is reachable with a google_sub OR a local_credentials row; a User
\* with neither is legitimately dormant" (00008_local_password_auth.sql), which
\* the founder can undo: Dormant wants the google_sub to be NULL.  A local join
\* writes no credential and an empty google_sub, so it makes a member of
\* neither kind.
ReachableOrDormant == \A e \in Email : user[e] # Nil /\ cred[e] = 0 => user[e].sub # "empty"
=============================================================================
