--------------------------- MODULE Accounts_proofs ---------------------------
(***************************************************************************)
(* Proofs about Accounts: who becomes a member, which sessions survive a    *)
(* new password, and whom a founder's link can reach.  The invariant has a  *)
(* part for each table, written over the tables it speaks of, so that a     *)
(* step disturbs only the parts whose tables it writes.                     *)
(***************************************************************************)
EXTENDS Accounts, TLAPS

\* Nobody signs in as a user without a Google identity or a password.
Awake(u, k, e) == u[e] # Nil /\ (u[e].sub # "none" \/ k[e] # 0)

\* A household has one founder.
UsersOK(hs, u, k) ==
  /\ hs \subseteq Household
  /\ u \in [Email -> User \cup {Nil}] /\ k \in [Email -> Nat]
  /\ \A e \in Email : k[e] # 0 => u[e] # Nil
  /\ \A e \in Email : u[e] # Nil => u[e].home \in hs
  /\ \A e, f \in Email :
       u[e] # Nil /\ u[f] # Nil /\ u[e].by = Nil /\ u[f].by = Nil /\ u[e].home = u[f].home => e = f

SessionsOK(ss, u, k) ==
  /\ IsTable(ss, SessionId, Session)
  /\ \A s \in DOMAIN ss : Awake(u, k, ss[s].of)
  /\ \A s \in DOMAIN ss : ss[s].with \in {0, k[ss[s].of]} \/ ss[s].late

\* Who invites is a member of the household of the invitation.
InvitesOK(is, u) ==
  /\ IsTable(is, InviteId, Invitation)
  /\ \A i \in DOMAIN is : u[is[i].by] # Nil /\ u[is[i].by].home = is[i].home
  /\ \A i \in DOMAIN is : is[i].used => u[is[i].email] # Nil /\ u[is[i].email].home = is[i].home

MembersOK(is, u) ==
  \A e \in Email :
    e \notin Restored /\ u[e] # Nil /\ u[e].by # Nil =>
      /\ u[u[e].by].home = u[e].home
      /\ \E i \in DOMAIN is : is[i].email = e /\ is[i].by = u[e].by /\ is[i].home = u[e].home

\* A founder's link is for somebody who was invited.
TokensOK(ts, u, k) ==
  /\ IsTable(ts, TokenId, Token)
  /\ \A t \in DOMAIN ts : u[ts[t].of] # Nil
  /\ \A t \in DOMAIN ts : ts[t].founders => u[ts[t].of].by # Nil
  /\ \A t \in DOMAIN ts : ts[t].founders /\ k[ts[t].of] # 0 => ts[t].stale

----------------------------------------------------------------------------
(* What a request holds while its statements are under way *)

SigningIn == [do : {"issue"}, of : Email, with : Nat]

Registering == [do : {"handshake"}, email : Email, secret : 0 .. 1]

Linking == [do : {"token"}, of : Email, ttl : Nat, founders : BOOLEAN]

Onboarding ==
  [do : {"user", "mark", "credential", "finish"}, email : Email, secret : Nat,
   handshake : HandshakeId, home : Household, by : Email \cup {Nil}, sub : Sub,
   invite : InviteId \cup {Nil}]

IsFounding(r) == r # Nil /\ r \in Onboarding /\ r.do = "user" /\ r.invite = Nil

IsInvited(r, is) ==
  /\ r.invite \in DOMAIN is
  /\ is[r.invite].email = r.email /\ is[r.invite].home = r.home /\ is[r.invite].by = r.by

\* Who joins by the gate has a subject, who founds has a household to himself,
\* and only a founder is given a password last.
OnboardingOK(r, hs, u, k, is) ==
  /\ r \in Onboarding
  /\ r.invite # Nil => IsInvited(r, is) /\ r.sub # "none"
  /\ r.invite = Nil => r.by = Nil /\ r.home \in hs
  /\ IsFounding(r) => \A e \in Email : u[e] # Nil => u[e].home # r.home
  /\ r.do = "user" /\ r.secret = 0 => r.sub # "none"
  /\ r.do # "user" => u[r.email] = [home |-> r.home, by |-> r.by, sub |-> r.sub]
  /\ r.do = "mark" => r.invite # Nil /\ r.sub # "none"
  /\ r.do = "credential" => r.invite = Nil
  /\ r.do = "finish" => r.sub # "none" \/ k[r.email] # 0

RequestOK(r, hs, u, k, is) ==
  \/ r \in SigningIn /\ Awake(u, k, r.of)
  \/ r \in Registering
  \/ r \in Linking /\ u[r.of] # Nil /\ (r.founders => u[r.of].by # Nil)
  \/ OnboardingOK(r, hs, u, k, is)

RequestsOK(q, hs, u, k, is) ==
  /\ q \in [Client -> SigningIn \cup Registering \cup Linking \cup Onboarding \cup {Nil}]
  /\ \A c \in Client : q[c] # Nil => RequestOK(q[c], hs, u, k, is)
  /\ \A c, d \in Client : IsFounding(q[c]) /\ IsFounding(q[d]) /\ q[c].home = q[d].home => c = d

ClockOK == IsTable(handshake, HandshakeId, Handshake) /\ now \in 0 .. MaxTime

Inv ==
  /\ UsersOK(household, user, cred)
  /\ SessionsOK(session, user, cred)
  /\ InvitesOK(invite, user)
  /\ MembersOK(invite, user)
  /\ TokensOK(token, user, cred)
  /\ RequestsOK(request, household, user, cred, invite)
  /\ ClockOK

----------------------------------------------------------------------------
(* Tables *)

\* An insert adds a row at a fresh id.
LEMMA Inserted ==
  ASSUME NEW t, NEW Id, NEW row, HasRoom(t, Id)
  PROVE  \E n \in Id : /\ n \notin DOMAIN t
                       /\ DOMAIN Insert(t, Id, row) = DOMAIN t \cup {n}
                       /\ Insert(t, Id, row)[n] = row
                       /\ \A i \in DOMAIN t : Insert(t, Id, row)[i] = t[i]
<1> DEFINE n == CHOOSE i \in Id : i \notin DOMAIN t
<1>1. n \in Id /\ n \notin DOMAIN t  BY DEF HasRoom
<1>2. Insert(t, Id, row) = [i \in DOMAIN t \cup {n} |-> IF i = n THEN row ELSE t[i]]
  BY DEF Insert
<1> QED  BY <1>1, <1>2

\* A session may go, be slid or marked late, and one be added.
LEMMA SessionKept ==
  ASSUME NEW ss, NEW tt, NEW u, NEW k, SessionsOK(ss, u, k),
         DOMAIN tt \subseteq DOMAIN ss,
         \A s \in DOMAIN tt : tt[s] \in Session /\ tt[s].of = ss[s].of
                              /\ tt[s].with = ss[s].with /\ (ss[s].late => tt[s].late)
  PROVE  SessionsOK(tt, u, k)
  BY DEF SessionsOK, IsTable

\* Users never change once they are there, nor do they lose their password.
Grows(hs, u, k, is, hs2, u2, k2, is2) ==
  /\ hs \subseteq hs2
  /\ \A e \in Email : u[e] # Nil => u2[e] = u[e]
  /\ \A e \in Email : k[e] # 0 => k2[e] # 0
  /\ \A i \in DOMAIN is : /\ i \in DOMAIN is2
                          /\ is2[i].email = is[i].email
                          /\ is2[i].home = is[i].home /\ is2[i].by = is[i].by

\* A request that is under way stays as it should be when tables grow, and
\* nobody comes to live in the household it is founding.
LEMMA RequestKept ==
  ASSUME NEW r, NEW hs, NEW u, NEW k, NEW is, NEW hs2, NEW u2, NEW k2, NEW is2,
         Grows(hs, u, k, is, hs2, u2, k2, is2),
         RequestOK(r, hs, u, k, is),
         IsFounding(r) => \A e \in Email : u[e] = Nil /\ u2[e] # Nil => u2[e].home # r.home
  PROVE  RequestOK(r, hs2, u2, k2, is2)
<1>1. CASE r \in SigningIn /\ Awake(u, k, r.of)
  BY <1>1 DEF RequestOK, Grows, Awake, SigningIn
<1>2. CASE r \in Registering
  BY <1>2 DEF RequestOK
<1>3. CASE r \in Linking /\ u[r.of] # Nil /\ (r.founders => u[r.of].by # Nil)
  BY <1>3 DEF RequestOK, Grows, Linking
<1>4. CASE OnboardingOK(r, hs, u, k, is)
  <2>1. r \in Onboarding  BY <1>4 DEF OnboardingOK
  <2>2. r.email \in Email /\ r.home \in Household /\ r.sub \in Sub  BY <2>1 DEF Onboarding
  <2>3. r.invite # Nil => IsInvited(r, is2)  BY <1>4 DEF OnboardingOK, IsInvited, Grows
  <2>4. IsFounding(r) => \A e \in Email : u2[e] # Nil => u2[e].home # r.home
    BY <1>4 DEF OnboardingOK, Grows
  <2>5. r.do # "user" => u2[r.email] = [home |-> r.home, by |-> r.by, sub |-> r.sub]
    <3>1. [home |-> r.home, by |-> r.by, sub |-> r.sub] \in User
      BY <2>1, <2>2 DEF Onboarding, User
    <3> QED  BY <1>4, <2>2, <3>1, NilAssumption DEF OnboardingOK, Grows
  <2>6. k[r.email] # 0 => k2[r.email] # 0  BY <2>2 DEF Grows
  <2> QED  BY <1>4, <2>1, <2>3, <2>4, <2>5, <2>6 DEF OnboardingOK, RequestOK, Grows
<1> QED  BY <1>1, <1>2, <1>3, <1>4 DEF RequestOK

\* The requests of all clients when c goes on to r or is done.
LEMMA RequestsKept ==
  ASSUME NEW q, NEW hs, NEW u, NEW k, NEW is, NEW hs2, NEW u2, NEW k2, NEW is2,
         RequestsOK(q, hs, u, k, is),
         Grows(hs, u, k, is, hs2, u2, k2, is2),
         NEW c \in Client, NEW r,
         r = Nil \/ RequestOK(r, hs2, u2, k2, is2),
         \A d \in Client \ {c} : IsFounding(q[d]) =>
           \A e \in Email : u[e] = Nil /\ u2[e] # Nil => u2[e].home # q[d].home,
         \A d \in Client \ {c} : IsFounding(r) /\ IsFounding(q[d]) => r.home # q[d].home
  PROVE  RequestsOK([q EXCEPT ![c] = r], hs2, u2, k2, is2)
<1> DEFINE q2 == [q EXCEPT ![c] = r]
<1>1. r \in SigningIn \cup Registering \cup Linking \cup Onboarding \cup {Nil}
  BY DEF RequestOK, OnboardingOK
<1>2. /\ q2 \in [Client -> SigningIn \cup Registering \cup Linking \cup Onboarding \cup {Nil}]
      /\ q2[c] = r /\ \A d \in Client \ {c} : q2[d] = q[d]
  BY <1>1 DEF RequestsOK
<1>3. ASSUME NEW d \in Client, q2[d] # Nil PROVE RequestOK(q2[d], hs2, u2, k2, is2)
  <2>1. CASE d = c  BY <2>1, <1>2, <1>3
  <2>2. CASE d # c
    <3>1. q2[d] = q[d] /\ RequestOK(q[d], hs, u, k, is)  BY <2>2, <1>2, <1>3 DEF RequestsOK
    <3> QED  BY <2>2, <3>1, RequestKept
  <2> QED  BY <2>1, <2>2
<1>4. \A d, e \in Client : IsFounding(q2[d]) /\ IsFounding(q2[e]) /\ q2[d].home = q2[e].home => d = e
  BY <1>2 DEF RequestsOK
<1> HIDE DEF q2
<1>5. RequestsOK(q2, hs2, u2, k2, is2)  BY <1>2, <1>3, <1>4 DEF RequestsOK
<1> QED  BY <1>5 DEF q2

\* Nothing but the request of c: the tables only have to be as they were.
LEMMA RequestChanged ==
  ASSUME Inv, UNCHANGED <<household, user, cred, invite>>,
         NEW c \in Client, NEW r, request' = [request EXCEPT ![c] = r],
         r = Nil \/ RequestOK(r, household, user, cred, invite),
         ~IsFounding(r)
  PROVE  RequestsOK(request', household', user', cred', invite')
<1>1. Grows(household, user, cred, invite, household, user, cred, invite)  BY DEF Grows
<1>2. RequestsOK([request EXCEPT ![c] = r], household, user, cred, invite)
  BY <1>1, RequestsKept DEF Inv
<1> QED  BY <1>2

----------------------------------------------------------------------------
(* The steps that only change what a request holds *)

LEMMA AbortInv == ASSUME Inv, NEW c \in Client, Abort(c) PROVE Inv'
<1>1. RequestsOK(request', household', user', cred', invite')
  BY RequestChanged DEF Abort, Goes, IsFounding, Onboarding
<1> QED  BY <1>1 DEF Abort, Inv, ClockOK

\* A login, a known Google subject and a reset sign in who can sign in.
LEMMA SignInOK ==
  ASSUME NEW e \in Email, NEW with \in Nat, NEW hs, NEW u, NEW k, NEW is, Awake(u, k, e)
  PROVE  RequestOK(SignIn(e, with), hs, u, k, is) /\ ~IsFounding(SignIn(e, with))
<1>1. SignIn(e, with).do = "issue" /\ SignIn(e, with).of = e /\ SignIn(e, with) \in SigningIn
  BY DEF SignIn, SigningIn
<1> QED  BY <1>1 DEF RequestOK, IsFounding, Onboarding

LEMMA HandshakeOK ==
  ASSUME NEW e \in Email, NEW x \in 0 .. 1, NEW hs, NEW u, NEW k, NEW is
  PROVE  /\ RequestOK([do |-> "handshake", email |-> e, secret |-> x], hs, u, k, is)
         /\ ~IsFounding([do |-> "handshake", email |-> e, secret |-> x])
  BY DEF RequestOK, Registering, IsFounding, Onboarding

LEMMA NewTokenOK ==
  ASSUME NEW e \in Email, NEW ttl \in Nat, NEW founders \in BOOLEAN,
         NEW hs, NEW u, NEW k, NEW is, u[e] # Nil, founders => u[e].by # Nil
  PROVE  RequestOK(NewToken(e, ttl, founders), hs, u, k, is) /\ ~IsFounding(NewToken(e, ttl, founders))
<1>1. /\ NewToken(e, ttl, founders) \in Linking
      /\ NewToken(e, ttl, founders).do = "token" /\ NewToken(e, ttl, founders).of = e
      /\ NewToken(e, ttl, founders).founders = founders
  BY DEF NewToken, Linking
<1> QED  BY <1>1 DEF RequestOK, IsFounding, Onboarding

LEMMA handleLocalLoginInv ==
  ASSUME Inv, NEW c \in Client, NEW e \in Email, handleLocalLogin(c, e) PROVE Inv'
<1>1. cred[e] \in Nat /\ Awake(user, cred, e)
  BY DEF handleLocalLogin, Awake, Inv, UsersOK
<1>2. RequestsOK(request', household', user', cred', invite')
  BY <1>1, SignInOK, RequestChanged DEF handleLocalLogin, Starts
<1> QED  BY <1>2 DEF handleLocalLogin, Inv, ClockOK

LEMMA handleCallbackInv ==
  ASSUME Inv, NEW c \in Client, NEW e \in Email, handleCallback(c, e) PROVE Inv'
<1>1. CASE user[e] # Nil /\ user[e].sub = "google"
  <2>1. Awake(user, cred, e)  BY <1>1 DEF Awake
  <2>2. RequestsOK(request', household', user', cred', invite')
    BY <1>1, <2>1, SignInOK, RequestChanged DEF handleCallback, Starts
  <2> QED  BY <2>2 DEF handleCallback, Inv, ClockOK
<1>2. CASE ~(user[e] # Nil /\ user[e].sub = "google")
  <2>1. RequestsOK(request', household', user', cred', invite')
    <3>1. request' = [request EXCEPT ![c] = [do |-> "handshake", email |-> e, secret |-> 0]]
      BY <1>2 DEF handleCallback, Starts
    <3>2. 0 \in 0 .. 1  OBVIOUS
    <3> QED  BY <3>1, <3>2, HandshakeOK, RequestChanged DEF handleCallback
  <2> QED  BY <2>1 DEF handleCallback, Inv, ClockOK
<1> QED  BY <1>1, <1>2

LEMMA handleLocalRegisterInv ==
  ASSUME Inv, NEW c \in Client, NEW e \in Email, handleLocalRegister(c, e) PROVE Inv'
<1>1. RequestsOK(request', household', user', cred', invite')
  <2>1. request' = [request EXCEPT ![c] = [do |-> "handshake", email |-> e, secret |-> 1]]
    BY DEF handleLocalRegister, Starts
  <2>2. 1 \in 0 .. 1  OBVIOUS
  <2> QED  BY <2>1, <2>2, HandshakeOK, RequestChanged DEF handleLocalRegister
<1> QED  BY <1>1 DEF handleLocalRegister, Inv, ClockOK

LEMMA issueResetTokenInv ==
  ASSUME Inv, NEW c \in Client, NEW e \in Email, issueResetToken(c, e) PROVE Inv'
<1>1. RequestsOK(request', household', user', cred', invite')
  BY NewTokenOK, RequestChanged, TimeAssumption DEF issueResetToken, Starts
<1> QED  BY <1>1 DEF issueResetToken, Inv, ClockOK

LEMMA MintResetPasswordLinkInv ==
  ASSUME Inv, NEW c \in Client, NEW e \in Email, MintResetPasswordLink(c, e) PROVE Inv'
<1>1. RequestsOK(request', household', user', cred', invite')
  BY NewTokenOK, RequestChanged, TimeAssumption DEF MintResetPasswordLink, Starts
<1> QED  BY <1>1 DEF MintResetPasswordLink, Inv, ClockOK

\* The invitation that admits is for the address of the handshake.
LEMMA commitJoinInv ==
  ASSUME Inv, NEW c \in Client, NEW h \in HandshakeId, NEW i \in InviteId, commitJoin(c, h, i)
  PROVE  Inv'
<1> DEFINE r == [do |-> "user", email |-> handshake[h].email, secret |-> 0, handshake |-> h,
                 home |-> invite[i].home, by |-> invite[i].by, sub |-> JoinSubOf(h), invite |-> i]
<1>1. handshake[h].email \in Email
  BY DEF commitJoin, Live, Inv, ClockOK, IsTable, Handshake
<1>2. /\ i \in DOMAIN invite /\ invite[i] \in Invitation
      /\ invite[i].email = handshake[h].email
  BY DEF commitJoin, GetValidInvitationForEmail, Live, Inv, InvitesOK, IsTable
<1>3. JoinSubOf(h) \in Sub /\ JoinSubOf(h) # "none"  BY DEF JoinSubOf, Sub
<1>4. r \in Onboarding  BY <1>1, <1>2, <1>3 DEF Onboarding, Invitation
<1>5. IsInvited(r, invite) /\ r.invite # Nil  BY <1>2, NilAssumption DEF IsInvited
<1>6. OnboardingOK(r, household, user, cred, invite)
  BY <1>3, <1>4, <1>5 DEF OnboardingOK, IsFounding
<1>7. ~IsFounding(r)  BY <1>5 DEF IsFounding
<1>8. request' = [request EXCEPT ![c] = r]  BY DEF commitJoin, Starts
<1> HIDE DEF r
<1>9. RequestsOK(request', household', user', cred', invite')
  BY <1>6, <1>7, <1>8, RequestChanged DEF commitJoin, RequestOK
<1> QED  BY <1>9 DEF commitJoin, Inv, ClockOK

----------------------------------------------------------------------------
(* Sessions *)

LEMMA IssueSessionInv == ASSUME Inv, NEW c \in Client, IssueSession(c) PROVE Inv'
<1> DEFINE r == request[c]
           row == [of |-> r.of, with |-> r.with, late |-> r.with \notin {0, cred[r.of]},
                   expires |-> now + SessionTTL]
<1>1. r \in SigningIn /\ Awake(user, cred, r.of)
  BY DEF IssueSession, At, Inv, RequestsOK, RequestOK, OnboardingOK, SigningIn, Registering,
         Linking, Onboarding
<1>2. row \in Session
  BY <1>1, TimeAssumption DEF Session, SigningIn, Inv, ClockOK
<1>3. HasRoom(session, SessionId) /\ session' = Insert(session, SessionId, row)
  BY DEF IssueSession
<1>4. row.of = r.of /\ (row.with \in {0, cred[row.of]} \/ row.late)  OBVIOUS
<1> HIDE DEF row
<1>5. SessionsOK(session', user, cred)
  <2>1. PICK n \in SessionId :
          /\ DOMAIN session' = DOMAIN session \cup {n} /\ session'[n] = row
          /\ \A s \in DOMAIN session : session'[s] = session[s]
    BY <1>3, Inserted
  <2> QED  BY <1>1, <1>2, <1>4, <2>1 DEF Inv, SessionsOK, IsTable
<1>6. RequestsOK(request', household', user', cred', invite')
  BY RequestChanged DEF IssueSession, Goes, IsFounding, Onboarding
<1> QED  BY <1>5, <1>6 DEF IssueSession, Inv, ClockOK

LEMMA handleLogoutInv == ASSUME Inv, NEW s \in SessionId, handleLogout(s) PROVE Inv'
<1>1. SessionsOK(session', user, cred)
  BY SessionKept DEF handleLogout, Inv, SessionsOK, IsTable
<1> QED  BY <1>1 DEF handleLogout, Inv, ClockOK

LEMMA TouchedOK == ASSUME Inv, NEW s \in DOMAIN session PROVE SessionsOK(Touched(s), user, cred)
<1>1. /\ DOMAIN Touched(s) = DOMAIN session
      /\ \A t \in DOMAIN session :
           Touched(s)[t] = IF t = s THEN [session[s] EXCEPT !.expires = now + SessionTTL]
                           ELSE session[t]
  BY DEF Touched
<1>2. now + SessionTTL \in Nat  BY TimeAssumption DEF Inv, ClockOK
<1>3. \A t \in DOMAIN session : session[t] \in Session  BY DEF Inv, SessionsOK, IsTable
<1>4. \A t \in DOMAIN session :
        /\ Touched(s)[t] \in Session /\ Touched(s)[t].of = session[t].of
        /\ Touched(s)[t].with = session[t].with /\ Touched(s)[t].late = session[t].late
  BY <1>1, <1>2, <1>3 DEF Session
<1> QED  BY <1>1, <1>4, SessionKept DEF Inv

LEMMA SessionMiddlewareInv == ASSUME Inv, NEW s \in SessionId, SessionMiddleware(s) PROVE Inv'
<1>1. SessionsOK(session', user, cred)  BY TouchedOK DEF SessionMiddleware, Live
<1> QED  BY <1>1 DEF SessionMiddleware, Inv, ClockOK

----------------------------------------------------------------------------
(* Invitations and links *)

LEMMA handleCreateInvitationInv ==
  ASSUME Inv, NEW s \in SessionId, NEW e \in Email, handleCreateInvitation(s, e) PROVE Inv'
<1> DEFINE f == session[s].of
           row == [home |-> user[f].home, email |-> e, by |-> f, used |-> FALSE,
                   expires |-> now + InviteTTL]
<1>1. SessionsOK(session', user, cred)  BY TouchedOK DEF handleCreateInvitation, Live
<1>2. s \in DOMAIN session /\ f \in Email /\ user[f] # Nil
  BY DEF handleCreateInvitation, Live, Inv, SessionsOK, IsTable, Session, Awake
<1>3. user[f] \in User  BY <1>2 DEF Inv, UsersOK
<1>4. row \in Invitation
  BY <1>2, <1>3, TimeAssumption DEF Invitation, User, Inv, ClockOK
<1>5. HasRoom(invite, InviteId) /\ invite' = Insert(invite, InviteId, row)
  BY DEF handleCreateInvitation
<1>6. row.by = f /\ row.home = user[f].home /\ ~row.used  OBVIOUS
<1> HIDE DEF row, f
<1>7. PICK n \in InviteId : /\ n \notin DOMAIN invite /\ DOMAIN invite' = DOMAIN invite \cup {n}
                            /\ invite'[n] = row /\ \A i \in DOMAIN invite : invite'[i] = invite[i]
  BY <1>5, Inserted
<1>8. InvitesOK(invite', user)
  BY <1>2, <1>4, <1>6, <1>7 DEF Inv, InvitesOK, IsTable
<1>9. MembersOK(invite', user)  BY <1>7 DEF Inv, MembersOK
<1>10. RequestsOK(request, household, user, cred, invite')
  <2>1. Grows(household, user, cred, invite, household, user, cred, invite')
    BY <1>7 DEF Grows
  <2>2. \A c \in Client : request[c] # Nil => RequestOK(request[c], household, user, cred, invite')
    BY <2>1, RequestKept DEF Inv, RequestsOK
  <2> QED  BY <2>2 DEF Inv, RequestsOK
<1> QED  BY <1>1, <1>8, <1>9, <1>10 DEF handleCreateInvitation, Inv, ClockOK

\* A dormant user of the founder's household has been invited: a household has
\* one founder, and that one is signed in.
LEMMA handleReactivateMemberInv ==
  ASSUME Inv, NEW c \in Client, NEW s \in SessionId, NEW e \in Email, handleReactivateMember(c, s, e)
  PROVE  Inv'
<1> DEFINE f == session[s].of
<1>1. SessionsOK(session', user, cred)  BY TouchedOK DEF handleReactivateMember, Live
<1>2. s \in DOMAIN session /\ f \in Email /\ Awake(user, cred, f) /\ user[f].by = Nil
  BY DEF handleReactivateMember, Live, Inv, SessionsOK, IsTable, Session
<1>3. user[e] # Nil /\ ~Awake(user, cred, e) /\ user[e].home = user[f].home
  BY DEF handleReactivateMember, Dormant, Awake
<1>4. user[e].by # Nil  BY <1>2, <1>3 DEF Inv, UsersOK, Awake
<1>5. RequestsOK(request', household', user', cred', invite')
  BY <1>3, <1>4, NewTokenOK, RequestChanged, TimeAssumption DEF handleReactivateMember, Starts
<1> QED  BY <1>1, <1>5 DEF handleReactivateMember, Inv, ClockOK

LEMMA BeginOnboardingInv == ASSUME Inv, NEW c \in Client, BeginOnboarding(c) PROVE Inv'
<1> DEFINE r == request[c]
           row == [email |-> r.email, secret |-> r.secret, expires |-> now + HandshakeTTL]
<1>1. r \in Registering
  BY DEF BeginOnboarding, At, Inv, RequestsOK, SigningIn, Registering, Linking, Onboarding
<1>2. row \in Handshake
  BY <1>1, TimeAssumption DEF Handshake, Registering, Inv, ClockOK
<1>3. HasRoom(handshake, HandshakeId) /\ handshake' = Insert(handshake, HandshakeId, row)
  BY DEF BeginOnboarding
<1> HIDE DEF row
<1>4. IsTable(handshake', HandshakeId, Handshake)
  <2>1. PICK n \in HandshakeId :
          /\ DOMAIN handshake' = DOMAIN handshake \cup {n} /\ handshake'[n] = row
          /\ \A h \in DOMAIN handshake : handshake'[h] = handshake[h]
    BY <1>3, Inserted
  <2> QED  BY <1>2, <2>1 DEF Inv, ClockOK, IsTable
<1>5. RequestsOK(request', household', user', cred', invite')
  BY RequestChanged DEF BeginOnboarding, Goes, IsFounding, Onboarding
<1> QED  BY <1>4, <1>5 DEF BeginOnboarding, Inv, ClockOK

LEMMA CreatePasswordResetTokenInv ==
  ASSUME Inv, NEW c \in Client, CreatePasswordResetToken(c) PROVE Inv'
<1> DEFINE r == request[c]
           row == [of |-> r.of, founders |-> r.founders, stale |-> cred[r.of] # 0,
                   expires |-> now + r.ttl]
<1>1. r \in Linking /\ user[r.of] # Nil /\ (r.founders => user[r.of].by # Nil)
  BY DEF CreatePasswordResetToken, At, Inv, RequestsOK, RequestOK, OnboardingOK, SigningIn,
         Registering, Linking, Onboarding
<1>2. row \in Token
  BY <1>1 DEF Token, Linking, Inv, ClockOK
<1>3. HasRoom(token, TokenId) /\ token' = Insert(token, TokenId, row)
  BY DEF CreatePasswordResetToken
<1>4. row.of = r.of /\ row.founders = r.founders /\ row.stale = (cred[r.of] # 0)  OBVIOUS
<1> HIDE DEF row
<1>5. TokensOK(token', user, cred)
  <2>1. PICK n \in TokenId :
          /\ DOMAIN token' = DOMAIN token \cup {n} /\ token'[n] = row
          /\ \A t \in DOMAIN token : token'[t] = token[t]
    BY <1>3, Inserted
  <2> QED  BY <1>1, <1>2, <1>4, <2>1 DEF Inv, TokensOK, IsTable
<1>6. RequestsOK(request', household', user', cred', invite')
  BY RequestChanged DEF CreatePasswordResetToken, Goes, IsFounding, Onboarding
<1> QED  BY <1>5, <1>6 DEF CreatePasswordResetToken, Inv, ClockOK

----------------------------------------------------------------------------
(* Founding and joining *)

\* The onboarding requests that are at one statement.
LEMMA AtStatement ==
  ASSUME Inv, NEW c \in Client, NEW do \in {"user", "mark", "credential", "finish"}, At(c, do)
  PROVE  /\ request[c] \in Onboarding /\ request[c].do = do
         /\ OnboardingOK(request[c], household, user, cred, invite)
  BY DEF At, Inv, RequestsOK, RequestOK, OnboardingOK, SigningIn, Registering, Linking, Onboarding

\* The household is new: nobody lives in it and nobody else is founding it.
LEMMA commitFoundInv ==
  ASSUME Inv, NEW c \in Client, NEW h \in HandshakeId, commitFound(c, h) PROVE Inv'
<1> DEFINE home == CHOOSE n \in Household : n \notin household
           r == [do |-> "user", email |-> handshake[h].email, secret |-> handshake[h].secret,
                 handshake |-> h, home |-> home, by |-> Nil, sub |-> SubOf(h), invite |-> Nil]
<1>1. home \in Household /\ home \notin household
  BY DEF commitFound, Inv, UsersOK
<1> HIDE DEF home
<1>2. household' = household \cup {home} /\ request' = [request EXCEPT ![c] = r]
  BY DEF commitFound, Starts, home
<1>3. handshake[h] \in Handshake  BY DEF commitFound, Live, Inv, ClockOK, IsTable
<1>4. SubOf(h) \in Sub /\ (handshake[h].secret = 0 => SubOf(h) # "none")  BY DEF SubOf, Sub
<1>5. r \in Onboarding  BY <1>1, <1>3, <1>4 DEF Onboarding, Handshake
<1>6. \A e \in Email : user[e] # Nil => user[e].home # home  BY <1>1 DEF Inv, UsersOK
<1>7. RequestOK(r, household', user, cred, invite)
  BY <1>2, <1>4, <1>5, <1>6 DEF RequestOK, OnboardingOK
<1>8. \A d \in Client \ {c} : IsFounding(request[d]) => request[d].home # home
  BY <1>1 DEF Inv, RequestsOK, RequestOK, OnboardingOK, IsFounding, SigningIn, Registering, Linking,
              Onboarding
<1>9. Grows(household, user, cred, invite, household', user, cred, invite)  BY <1>2 DEF Grows
<1>10. r.home = home  OBVIOUS
<1> HIDE DEF r
<1>11. RequestsOK(request', household', user, cred, invite)
  BY <1>2, <1>7, <1>8, <1>9, <1>10, RequestsKept DEF Inv
<1>12. UsersOK(household', user, cred)  BY <1>1, <1>2 DEF Inv, UsersOK
<1> QED  BY <1>11, <1>12 DEF commitFound, Inv, ClockOK

\* A user who comes to be had no session, no link and no password, and brings
\* a household of his own or an invitation.
LEMMA UserAdded ==
  ASSUME Inv, NEW e \in Email, user[e] = Nil, NEW row \in User,
         user' = [user EXCEPT ![e] = row],
         row.home \in household,
         row.by = Nil => \A f \in Email : user[f] # Nil => user[f].home # row.home,
         row.by # Nil => \E i \in DOMAIN invite : invite[i].email = e /\ invite[i].by = row.by
                                                  /\ invite[i].home = row.home
  PROVE  /\ UsersOK(household, user', cred)
         /\ SessionsOK(session, user', cred)
         /\ InvitesOK(invite, user')
         /\ MembersOK(invite, user')
         /\ TokensOK(token, user', cred)
         /\ Grows(household, user, cred, invite, household, user', cred, invite)
<1>1. /\ user' \in [Email -> User \cup {Nil}] /\ user'[e] = row /\ row # Nil
      /\ \A f \in Email \ {e} : user'[f] = user[f]
  BY NilAssumption DEF Inv, UsersOK
<1>2. UsersOK(household, user', cred)
  <2>1. \A f \in Email : user'[f] # Nil => user'[f].home \in household
    BY <1>1 DEF Inv, UsersOK
  <2>2. ASSUME NEW f \in Email, NEW g \in Email, user'[f] # Nil, user'[g] # Nil,
               user'[f].by = Nil, user'[g].by = Nil, user'[f].home = user'[g].home
        PROVE  f = g
    BY <1>1, <2>2 DEF Inv, UsersOK
  <2> QED  BY <1>1, <2>1, <2>2 DEF Inv, UsersOK
<1>3. SessionsOK(session, user', cred)
  BY <1>1 DEF Inv, SessionsOK, IsTable, Session, Awake
<1>4. InvitesOK(invite, user')
  BY <1>1 DEF Inv, InvitesOK, IsTable, Invitation
<1>5. MembersOK(invite, user')
  <2> SUFFICES ASSUME NEW f \in Email, f \notin Restored, user'[f] # Nil, user'[f].by # Nil
               PROVE  /\ user'[user'[f].by].home = user'[f].home
                      /\ \E i \in DOMAIN invite : /\ invite[i].email = f
                                                  /\ invite[i].by = user'[f].by
                                                  /\ invite[i].home = user'[f].home
    BY DEF MembersOK
  <2>1. PICK i \in DOMAIN invite : /\ invite[i].email = f
                                   /\ invite[i].by = user'[f].by
                                   /\ invite[i].home = user'[f].home
    <3>1. CASE f = e  BY <3>1, <1>1
    <3>2. CASE f # e  BY <3>2, <1>1 DEF Inv, MembersOK
    <3> QED  BY <3>1, <3>2
  <2>2. user'[invite[i].by].home = invite[i].home  BY <1>4 DEF InvitesOK
  <2> QED  BY <2>1, <2>2
<1>6. TokensOK(token, user', cred)
  BY <1>1 DEF Inv, TokensOK, IsTable, Token
<1>7. Grows(household, user, cred, invite, household, user', cred, invite)
  BY <1>1 DEF Grows
<1> QED  BY <1>2, <1>3, <1>4, <1>5, <1>6, <1>7

\* An invitation is to a household with members, which nobody is founding.
LEMMA InvitedHome ==
  ASSUME Inv, NEW i \in DOMAIN invite
  PROVE  /\ invite[i].home \in household
         /\ \A c \in Client : IsFounding(request[c]) => request[c].home # invite[i].home
<1>1. /\ invite[i].by \in Email /\ user[invite[i].by] # Nil
      /\ user[invite[i].by].home = invite[i].home
  BY DEF Inv, InvitesOK, IsTable, Invitation
<1>2. ASSUME NEW c \in Client, IsFounding(request[c]) PROVE request[c].home # invite[i].home
  <2>1. OnboardingOK(request[c], household, user, cred, invite)
    BY <1>2 DEF Inv, RequestsOK, RequestOK, IsFounding, SigningIn, Registering, Linking, Onboarding
  <2> QED  BY <1>1, <1>2, <2>1 DEF OnboardingOK
<1> QED  BY <1>1, <1>2 DEF Inv, UsersOK

LEMMA CreateUserInv == ASSUME Inv, NEW c \in Client, CreateUser(c) PROVE Inv'
<1> DEFINE r == request[c]
           row == [home |-> r.home, by |-> r.by, sub |-> r.sub]
           next == [r EXCEPT !.do = IF r.invite # Nil THEN "mark"
                                    ELSE IF r.secret # 0 THEN "credential" ELSE "finish"]
<1>1. r \in Onboarding /\ r.do = "user" /\ OnboardingOK(r, household, user, cred, invite)
  BY AtStatement DEF CreateUser
<1>2. r.email \in Email /\ row \in User  BY <1>1 DEF Onboarding, User
<1>3. user[r.email] = Nil /\ user' = [user EXCEPT ![r.email] = row] /\ r # Nil
  BY DEF CreateUser, Admits, At
<1>4. row.home = r.home /\ row.by = r.by  OBVIOUS
<1>5. r.invite # Nil => /\ r.invite \in DOMAIN invite /\ invite[r.invite].email = r.email
                        /\ invite[r.invite].by = r.by /\ invite[r.invite].home = r.home
  BY <1>1 DEF OnboardingOK, IsInvited
<1>6. row.by = Nil => r.invite = Nil
  BY <1>1, <1>4, <1>5, NilAssumption DEF Inv, InvitesOK, IsTable, Invitation
<1>7. row.by # Nil => r.invite # Nil  BY <1>1, <1>4 DEF OnboardingOK
<1>8. r.invite = Nil => IsFounding(r)  BY <1>1, <1>3 DEF IsFounding
<1>9. r.home \in household
  BY <1>1, <1>5, InvitedHome DEF OnboardingOK
<1>10. row.by = Nil => \A f \in Email : user[f] # Nil => user[f].home # row.home
  BY <1>1, <1>4, <1>6, <1>8 DEF OnboardingOK
<1> HIDE DEF row
<1>11. /\ UsersOK(household, user', cred) /\ SessionsOK(session, user', cred)
       /\ InvitesOK(invite, user') /\ MembersOK(invite, user') /\ TokensOK(token, user', cred)
       /\ Grows(household, user, cred, invite, household, user', cred, invite)
  BY <1>2, <1>3, <1>4, <1>5, <1>7, <1>9, <1>10, UserAdded
<1>12. next \in Onboarding /\ next.do # "user"
       /\ next.email = r.email /\ next.home = r.home /\ next.by = r.by /\ next.sub = r.sub
       /\ next.invite = r.invite
       /\ next.do = IF r.invite # Nil THEN "mark" ELSE IF r.secret # 0 THEN "credential" ELSE "finish"
  BY <1>1 DEF Onboarding
<1> HIDE DEF next
<1>13. user'[r.email] = [home |-> r.home, by |-> r.by, sub |-> r.sub]
  BY <1>2, <1>3 DEF row, Inv, UsersOK
<1>14. OnboardingOK(next, household, user', cred, invite)
  BY <1>1, <1>12, <1>13 DEF OnboardingOK, IsFounding, IsInvited
<1>15. ASSUME NEW d \in Client \ {c}, IsFounding(request[d]),
              NEW e \in Email, user[e] = Nil, user'[e] # Nil
       PROVE  user'[e].home # request[d].home
  <2>1. e = r.email /\ user'[e].home = r.home  BY <1>2, <1>3, <1>13, <1>15 DEF Inv, UsersOK
  <2>2. CASE r.invite = Nil
    BY <2>1, <2>2, <1>8, <1>15 DEF Inv, RequestsOK
  <2>3. CASE r.invite # Nil
    BY <2>1, <2>3, <1>5, <1>15, InvitedHome
  <2> QED  BY <2>2, <2>3
<1>16. request' = [request EXCEPT ![c] = next]  BY DEF CreateUser, Goes, next
<1>17. ~IsFounding(next)  BY <1>12 DEF IsFounding
<1>18. RequestsOK(request', household, user', cred, invite)
  <2>1. RequestOK(next, household, user', cred, invite)  BY <1>14 DEF RequestOK
  <2>2. \A d \in Client \ {c} : IsFounding(request[d]) =>
          \A e \in Email : user[e] = Nil /\ user'[e] # Nil => user'[e].home # request[d].home
    BY <1>15
  <2>3. RequestsOK(request, household, user, cred, invite)  BY DEF Inv
  <2>4. Grows(household, user, cred, invite, household, user', cred, invite)  BY <1>11
  <2>5. \A d \in Client \ {c} :
          IsFounding(next) /\ IsFounding(request[d]) => next.home # request[d].home
    BY <1>17
  <2>6. RequestsOK([request EXCEPT ![c] = next], household, user', cred, invite)
    BY <2>1, <2>2, <2>3, <2>4, <2>5, RequestsKept
  <2> QED  BY <2>6, <1>16
<1> QED  BY <1>11, <1>18 DEF CreateUser, Inv, ClockOK

\* An invitation is used when its account is there.
LEMMA InvitationUsed ==
  ASSUME NEW is, NEW u, NEW i \in DOMAIN is, NEW is2, InvitesOK(is, u), MembersOK(is, u),
         u[is[i].email] # Nil, u[is[i].email].home = is[i].home,
         is2 = [is EXCEPT ![i].used = TRUE]
  PROVE  InvitesOK(is2, u) /\ MembersOK(is2, u)
<1>1. is[i] \in Invitation  BY DEF InvitesOK, IsTable
<1>2. /\ DOMAIN is2 = DOMAIN is /\ is2[i] \in Invitation
      /\ is2[i].email = is[i].email /\ is2[i].home = is[i].home /\ is2[i].by = is[i].by
      /\ \A j \in DOMAIN is \ {i} : is2[j] = is[j]
  BY <1>1 DEF Invitation
<1>3. InvitesOK(is2, u)  BY <1>2 DEF InvitesOK, IsTable
<1>4. MembersOK(is2, u)
  <2>1. \A j \in DOMAIN is : is2[j].email = is[j].email /\ is2[j].by = is[j].by
                             /\ is2[j].home = is[j].home
    BY <1>2
  <2> QED  BY <1>2, <2>1 DEF MembersOK
<1> QED  BY <1>3, <1>4

LEMMA MarkInvitationUsedInv == ASSUME Inv, NEW c \in Client, MarkInvitationUsed(c) PROVE Inv'
<1> DEFINE r == request[c]
           next == [r EXCEPT !.do = "finish"]
<1>1. r \in Onboarding /\ r.do = "mark" /\ OnboardingOK(r, household, user, cred, invite)
  BY AtStatement DEF MarkInvitationUsed
<1>2. /\ r.invite \in DOMAIN invite /\ r.sub # "none"
      /\ invite[r.invite].email = r.email /\ invite[r.invite].home = r.home
      /\ user[r.email] = [home |-> r.home, by |-> r.by, sub |-> r.sub]
  BY <1>1 DEF OnboardingOK, IsInvited
<1>3. /\ user[invite[r.invite].email] # Nil
      /\ user[invite[r.invite].email].home = invite[r.invite].home
  BY <1>1, <1>2, NilAssumption DEF Onboarding, User
<1>4. invite' = [invite EXCEPT ![r.invite].used = TRUE]  BY DEF MarkInvitationUsed
<1>5. InvitesOK(invite', user) /\ MembersOK(invite', user)
  BY <1>2, <1>3, <1>4, InvitationUsed DEF Inv
<1>6. Grows(household, user, cred, invite, household, user, cred, invite')
  BY <1>2, <1>4 DEF Grows, Inv, InvitesOK, IsTable, Invitation
<1>7. /\ next \in Onboarding /\ next.do = "finish" /\ next.email = r.email /\ next.home = r.home
      /\ next.by = r.by /\ next.sub = r.sub /\ next.invite = r.invite
  BY <1>1 DEF Onboarding
<1> HIDE DEF next
<1>8. OnboardingOK(next, household, user, cred, invite')
  <2>1. IsInvited(next, invite')
    BY <1>1, <1>6, <1>7 DEF OnboardingOK, IsInvited, Grows
  <2> QED  BY <1>1, <1>2, <1>7, <2>1 DEF OnboardingOK, IsFounding
<1>9. RequestOK(next, household, user, cred, invite') /\ ~IsFounding(next)
  BY <1>7, <1>8 DEF RequestOK, IsFounding
<1>10. request' = [request EXCEPT ![c] = next]  BY DEF MarkInvitationUsed, Goes, next
<1>11. RequestsOK(request', household, user, cred, invite')
  <2>1. RequestsOK([request EXCEPT ![c] = next], household, user, cred, invite')
    BY <1>6, <1>9, RequestsKept DEF Inv
  <2> QED  BY <2>1, <1>10
<1> QED  BY <1>5, <1>11 DEF MarkInvitationUsed, Inv, ClockOK

LEMMA finishOnboardingInv == ASSUME Inv, NEW c \in Client, finishOnboarding(c) PROVE Inv'
<1> DEFINE r == request[c]
<1>1. r \in Onboarding /\ r.do = "finish" /\ OnboardingOK(r, household, user, cred, invite)
  BY AtStatement DEF finishOnboarding
<1>2. [home |-> r.home, by |-> r.by, sub |-> r.sub] \in User /\ r.email \in Email /\ r.secret \in Nat
  BY <1>1 DEF Onboarding, User
<1>3. Awake(user, cred, r.email)
  BY <1>1, <1>2, NilAssumption DEF OnboardingOK, Awake
<1>4. request' = [request EXCEPT ![c] = SignIn(r.email, r.secret)]
  BY DEF finishOnboarding, Goes
<1>5. RequestsOK(request', household', user', cred', invite')
  BY <1>2, <1>3, <1>4, SignInOK, RequestChanged DEF finishOnboarding
<1>6. IsTable(handshake', HandshakeId, Handshake)
  BY DEF finishOnboarding, Inv, ClockOK, IsTable
<1> QED  BY <1>5, <1>6 DEF finishOnboarding, Inv, ClockOK

----------------------------------------------------------------------------
(* New passwords *)

\* A user gets a password, or another.
LEMMA PasswordRaised ==
  ASSUME NEW k \in [Email -> Nat], NEW e \in Email
  PROVE  /\ [k EXCEPT ![e] = k[e] + 1] \in [Email -> Nat]
         /\ [k EXCEPT ![e] = k[e] + 1][e] = k[e] + 1
         /\ k[e] + 1 \in Nat \ {0}
         /\ \A f \in Email \ {e} : [k EXCEPT ![e] = k[e] + 1][f] = k[f]
  OBVIOUS

LEMMA PasswordSet ==
  ASSUME NEW hs, NEW u, NEW k, NEW e \in Email, NEW k2, UsersOK(hs, u, k), u[e] # Nil,
         k2 \in [Email -> Nat], k2[e] # 0, \A f \in Email \ {e} : k2[f] = k[f]
  PROVE  UsersOK(hs, u, k2) /\ \A f \in Email : k[f] # 0 => k2[f] # 0
  BY DEF UsersOK

\* The account, its password and the used invitation are there at once.
LEMMA commitLocalInviteInv ==
  ASSUME Inv, NEW c \in Client, NEW i \in InviteId, commitLocalInvite(c, i) PROVE Inv'
<1> DEFINE e == invite[i].email
           row == [home |-> invite[i].home, by |-> invite[i].by, sub |-> "none"]
<1>1. i \in DOMAIN invite /\ invite[i] \in Invitation
  BY DEF commitLocalInvite, Live, Inv, InvitesOK, IsTable
<1>2. e \in Email /\ row \in User /\ row.by # Nil
  BY <1>1, NilAssumption DEF Invitation, User, Sub
<1>3. user[e] = Nil /\ user' = [user EXCEPT ![e] = row]
  BY DEF commitLocalInvite, Admits
<1>4. row.home \in household  BY <1>1, InvitedHome
<1>5. row.home = invite[i].home /\ row.by = invite[i].by  OBVIOUS
<1> HIDE DEF row
<1>6. /\ UsersOK(household, user', cred) /\ SessionsOK(session, user', cred)
      /\ InvitesOK(invite, user') /\ MembersOK(invite, user') /\ TokensOK(token, user', cred)
      /\ Grows(household, user, cred, invite, household, user', cred, invite)
  BY <1>1, <1>2, <1>3, <1>4, <1>5, UserAdded
<1>7. user'[e] = row /\ row # Nil
  BY <1>2, <1>3, NilAssumption DEF Inv, UsersOK
<1>8. invite' = [invite EXCEPT ![i].used = TRUE] /\ cred' = [cred EXCEPT ![e] = cred[e] + 1]
  BY DEF commitLocalInvite
<1>9. InvitesOK(invite', user') /\ MembersOK(invite', user')
  BY <1>1, <1>5, <1>6, <1>7, <1>8, InvitationUsed
<1>10. /\ UsersOK(household, user', cred') /\ cred'[e] \in Nat \ {0} /\ cred'[e] = cred[e] + 1
       /\ \A f \in Email \ {e} : cred'[f] = cred[f]
       /\ \A f \in Email : cred[f] # 0 => cred'[f] # 0
  <2>0. cred \in [Email -> Nat]  BY DEF Inv, UsersOK
  <2>1. /\ cred' \in [Email -> Nat]
        /\ cred'[e] \in Nat \ {0} /\ cred'[e] = cred[e] + 1
        /\ \A f \in Email \ {e} : cred'[f] = cred[f]
    BY <2>0, <1>2, <1>8, PasswordRaised
  <2>2. user'[e] # Nil  BY <1>7
  <2> QED  BY <2>1, <2>2, <1>2, <1>6, PasswordSet
<1>11. \A s \in DOMAIN session : session[s].of \in Email \ {e}
  BY <1>3 DEF Inv, SessionsOK, Awake, IsTable, Session
<1>12. SessionsOK(session, user', cred')
  BY <1>6, <1>10, <1>11 DEF SessionsOK, Awake
<1>13. \A t \in DOMAIN token : token[t].of \in Email \ {e}
  BY <1>3 DEF Inv, TokensOK, IsTable, Token
<1>14. TokensOK(token, user', cred')
  BY <1>6, <1>10, <1>13 DEF TokensOK
<1>15. Grows(household, user, cred, invite, household, user', cred', invite')
  BY <1>1, <1>6, <1>8, <1>10 DEF Grows, Inv, InvitesOK, IsTable, Invitation
<1>16. Awake(user', cred', e)  BY <1>7, <1>10 DEF Awake
<1>17. \A d \in Client : IsFounding(request[d]) =>
         \A f \in Email : user[f] = Nil /\ user'[f] # Nil => user'[f].home # request[d].home
  BY <1>1, <1>2, <1>3, <1>5, <1>7, InvitedHome DEF Inv, UsersOK
<1>18. request' = [request EXCEPT ![c] = SignIn(e, cred[e] + 1)]
  BY DEF commitLocalInvite, Starts
<1>19. /\ RequestOK(SignIn(e, cred[e] + 1), household, user', cred', invite')
       /\ ~IsFounding(SignIn(e, cred[e] + 1))
  BY <1>2, <1>10, <1>16, SignInOK
<1>20. RequestsOK([request EXCEPT ![c] = SignIn(e, cred[e] + 1)], household, user', cred', invite')
  BY <1>15, <1>17, <1>19, RequestsKept DEF Inv
<1>21. UNCHANGED <<household, session, token, handshake, now>>  BY DEF commitLocalInvite
<1> QED  BY <1>9, <1>10, <1>12, <1>14, <1>18, <1>20, <1>21 DEF Inv, ClockOK

\* The sessions and the links of the user go with the old password.
LEMMA commitPasswordResetInv ==
  ASSUME Inv, NEW c \in Client, NEW t \in TokenId, commitPasswordReset(c, t) PROVE Inv'
<1> DEFINE e == token[t].of
<1>1. e \in Email /\ user[e] # Nil
  BY DEF commitPasswordReset, Live, Inv, TokensOK, IsTable, Token
<1>2. cred' = [cred EXCEPT ![e] = cred[e] + 1]  BY DEF commitPasswordReset
<1>3. /\ UsersOK(household, user, cred') /\ cred'[e] \in Nat \ {0} /\ cred'[e] = cred[e] + 1
      /\ \A f \in Email \ {e} : cred'[f] = cred[f]
      /\ \A f \in Email : cred[f] # 0 => cred'[f] # 0
  <2>0. cred \in [Email -> Nat]  BY DEF Inv, UsersOK
  <2>1. /\ cred' \in [Email -> Nat]
        /\ cred'[e] \in Nat \ {0} /\ cred'[e] = cred[e] + 1
        /\ \A f \in Email \ {e} : cred'[f] = cred[f]
    BY <2>0, <1>1, <1>2, PasswordRaised
  <2> QED  BY <2>1, <1>1, PasswordSet DEF Inv
<1>4. SessionsOK(session', user, cred')
  <2>1. /\ DOMAIN session' \subseteq DOMAIN session
        /\ \A s \in DOMAIN session' : session'[s] = session[s] /\ session[s].of # e
    BY DEF commitPasswordReset, Keep
  <2>2. \A s \in DOMAIN session' : session[s].of \in Email \ {e}
    BY <2>1 DEF Inv, SessionsOK, IsTable, Session
  <2> QED  BY <2>1, <2>2, <1>3 DEF Inv, SessionsOK, IsTable, Awake
<1>5. TokensOK(token', user, cred')
  <2>1. /\ DOMAIN token' \subseteq DOMAIN token
        /\ \A x \in DOMAIN token' : token'[x] = token[x] /\ token[x].of # e
    BY DEF commitPasswordReset, Keep
  <2>2. \A x \in DOMAIN token' : token[x].of \in Email \ {e}
    BY <2>1 DEF Inv, TokensOK, IsTable, Token
  <2> QED  BY <2>1, <2>2, <1>3 DEF Inv, TokensOK, IsTable
<1>6. Grows(household, user, cred, invite, household, user, cred', invite)
  BY <1>3 DEF Grows
<1>7. request' = [request EXCEPT ![c] = SignIn(e, cred[e] + 1)]
  BY DEF commitPasswordReset, Starts
<1>8. /\ RequestOK(SignIn(e, cred[e] + 1), household, user, cred', invite)
      /\ ~IsFounding(SignIn(e, cred[e] + 1))
  BY <1>1, <1>3, SignInOK DEF Awake
<1>9. RequestsOK([request EXCEPT ![c] = SignIn(e, cred[e] + 1)], household, user, cred', invite)
  BY <1>6, <1>8, RequestsKept DEF Inv
<1> QED  BY <1>3, <1>4, <1>5, <1>7, <1>9 DEF commitPasswordReset, Inv, ClockOK

\* Who founds with a password was not invited, so no founder's link is for him.
LEMMA StashedCredentialInv == ASSUME Inv, NEW c \in Client, StashedCredential(c) PROVE Inv'
<1> DEFINE r == request[c]
           e == r.email
           next == [r EXCEPT !.do = "finish", !.secret = cred[r.email] + 1]
<1>1. r \in Onboarding /\ r.do = "credential" /\ OnboardingOK(r, household, user, cred, invite)
  BY AtStatement DEF StashedCredential
<1>2. /\ e \in Email /\ r.by = Nil /\ r.invite = Nil
      /\ user[e] = [home |-> r.home, by |-> r.by, sub |-> r.sub]
  BY <1>1 DEF OnboardingOK, Onboarding
<1>3. user[e] # Nil /\ user[e].by = Nil
  BY <1>1, <1>2, NilAssumption DEF Onboarding, User
<1>4. cred' = [cred EXCEPT ![e] = cred[e] + 1]  BY DEF StashedCredential
<1>5. /\ UsersOK(household, user, cred') /\ cred'[e] \in Nat \ {0} /\ cred'[e] = cred[e] + 1
      /\ \A f \in Email \ {e} : cred'[f] = cred[f]
      /\ \A f \in Email : cred[f] # 0 => cred'[f] # 0
  <2>0. cred \in [Email -> Nat]  BY DEF Inv, UsersOK
  <2>1. /\ cred' \in [Email -> Nat]
        /\ cred'[e] \in Nat \ {0} /\ cred'[e] = cred[e] + 1
        /\ \A f \in Email \ {e} : cred'[f] = cred[f]
    BY <2>0, <1>2, <1>4, PasswordRaised
  <2> QED  BY <2>1, <1>2, <1>3, PasswordSet DEF Inv
<1>6. SessionsOK(session', user, cred')
  <2>1. \A s \in DOMAIN session : session[s] \in Session /\ session[s].of \in Email
    BY DEF Inv, SessionsOK, IsTable, Session
  <2>2. /\ DOMAIN session' = DOMAIN session
        /\ \A s \in DOMAIN session :
             session'[s] = [session[s] EXCEPT !.late = session[s].late \/ session[s].of = r.email]
    BY DEF StashedCredential
  <2>3. \A s \in DOMAIN session :
          /\ session'[s] \in Session /\ session'[s].of = session[s].of
          /\ session'[s].with = session[s].with
          /\ session'[s].late = (session[s].late \/ session[s].of = e)
    BY <2>1, <2>2 DEF Session
  <2>4. IsTable(session', SessionId, Session)  BY <2>2, <2>3 DEF Inv, SessionsOK, IsTable
  <2>5. \A s \in DOMAIN session' : Awake(user, cred', session'[s].of)
    BY <1>5, <2>1, <2>2, <2>3 DEF Inv, SessionsOK, Awake
  <2>6. ASSUME NEW s \in DOMAIN session'
        PROVE  session'[s].with \in {0, cred'[session'[s].of]} \/ session'[s].late
    <3>1. CASE session[s].of = e  BY <2>2, <2>3, <3>1
    <3>2. CASE session[s].of # e
      <4>1. cred'[session[s].of] = cred[session[s].of]  BY <1>5, <2>1, <2>2, <3>2
      <4>2. session[s].with \in {0, cred[session[s].of]} \/ session[s].late
        BY <2>2 DEF Inv, SessionsOK
      <4> QED  BY <2>2, <2>3, <4>1, <4>2
    <3> QED  BY <3>1, <3>2
  <2> QED  BY <2>4, <2>5, <2>6 DEF SessionsOK
<1>7. TokensOK(token, user, cred')
  <2>1. \A t \in DOMAIN token : token[t].of \in Email  BY DEF Inv, TokensOK, IsTable, Token
  <2> QED  BY <1>3, <1>5, <2>1 DEF Inv, TokensOK
<1>8. Grows(household, user, cred, invite, household, user, cred', invite)
  BY <1>5 DEF Grows
<1>9. /\ next \in Onboarding /\ next.do = "finish" /\ next.email = r.email /\ next.home = r.home
      /\ next.by = r.by /\ next.sub = r.sub /\ next.invite = r.invite
  BY <1>1, <1>5 DEF Onboarding
<1>10. request' = [request EXCEPT ![c] = next]  BY DEF StashedCredential, Goes
<1> HIDE DEF next
<1>11. OnboardingOK(next, household, user, cred', invite)
  BY <1>1, <1>2, <1>5, <1>9 DEF OnboardingOK, IsFounding
<1>12. RequestOK(next, household, user, cred', invite) /\ ~IsFounding(next)
  BY <1>9, <1>11 DEF RequestOK, IsFounding
<1>13. RequestsOK([request EXCEPT ![c] = next], household, user, cred', invite)
  BY <1>8, <1>12, RequestsKept DEF Inv
<1> QED  BY <1>5, <1>6, <1>7, <1>10, <1>13 DEF StashedCredential, Inv, ClockOK

----------------------------------------------------------------------------
(* Time, and the theorems *)

LEMMA sweepInv == ASSUME Inv, sweep PROVE Inv'
<1>1. SessionsOK(session', user, cred)
  <2>1. /\ DOMAIN session' \subseteq DOMAIN session
        /\ \A s \in DOMAIN session' : session'[s] = session[s]
    BY DEF sweep, Keep
  <2>2. \A s \in DOMAIN session : session[s] \in Session  BY DEF Inv, SessionsOK, IsTable
  <2> QED  BY <2>1, <2>2, SessionKept DEF Inv
<1>2. TokensOK(token', user, cred)
  <2>1. /\ DOMAIN token' \subseteq DOMAIN token
        /\ \A t \in DOMAIN token' : token'[t] = token[t]
    BY DEF sweep, Keep
  <2> QED  BY <2>1 DEF Inv, TokensOK, IsTable
<1>3. IsTable(handshake', HandshakeId, Handshake)
  <2>1. /\ DOMAIN handshake' \subseteq DOMAIN handshake
        /\ \A h \in DOMAIN handshake' : handshake'[h] = handshake[h]
    BY DEF sweep, Keep
  <2> QED  BY <2>1 DEF Inv, ClockOK, IsTable
<1> QED  BY <1>1, <1>2, <1>3 DEF sweep, Inv, ClockOK

LEMMA TickInv == ASSUME Inv, Tick PROVE Inv'
<1>1. now' \in 0 .. MaxTime  BY TimeAssumption DEF Tick, Inv, ClockOK
<1> QED  BY <1>1 DEF Tick, Inv, ClockOK

LEMMA InitInv == Init => Inv
<1> SUFFICES ASSUME Init PROVE Inv  OBVIOUS
<1> DEFINE home == CHOOSE h \in OneToOne(Founders, Household) : TRUE
           at   == CHOOSE h \in OneToOne(Founders, SessionId) : TRUE
           to   == CHOOSE h \in OneToOne(Founders, InviteId) : TRUE
           head == CHOOSE e \in Founders : TRUE
<1>1. /\ home \in [Founders -> Household]
      /\ \A e, f \in Founders : home[e] = home[f] => e = f
      /\ at \in [Founders -> SessionId] /\ to \in [Founders -> InviteId]
      /\ head \in Founders
  <2>1. home \in OneToOne(Founders, Household) /\ at \in OneToOne(Founders, SessionId)
        /\ to \in OneToOne(Founders, InviteId)
    BY FoundersAssumption
  <2> QED  BY <2>1, FoundersAssumption DEF OneToOne
<1>2. PICK local \in SUBSET Founders, inviters \in SUBSET Founders,
           guest \in Email \ (Founders \cup Restored) :
        /\ Founders \ local \subseteq Google
        /\ household = {home[e] : e \in Founders}
        /\ user = [e \in Email |->
             IF e \in Founders THEN [home |-> home[e], by |-> Nil,
                                     sub |-> IF e \in local THEN "none" ELSE "google"]
             ELSE IF e \in Restored THEN [home |-> home[head], by |-> head, sub |-> "none"]
             ELSE Nil]
        /\ cred = [e \in Email |-> IF e \in local THEN 1 ELSE 0]
        /\ session = [s \in {at[e] : e \in Founders} |->
             LET e == CHOOSE f \in Founders : at[f] = s
             IN  [of |-> e, with |-> cred[e], late |-> FALSE, expires |-> SessionTTL]]
        /\ invite = [i \in {to[e] : e \in inviters} |->
             LET e == CHOOSE f \in Founders : to[f] = i
             IN  [home |-> home[e], email |-> guest, by |-> e, used |-> FALSE,
                  expires |-> InviteTTL]]
        /\ handshake = Empty /\ token = Empty
        /\ request = [c \in Client |-> Nil]
        /\ asked = 0 /\ now = 0
  BY Zenon DEF Init
<1>3. /\ handshake = Empty /\ token = Empty /\ request = [c \in Client |-> Nil] /\ now = 0
  BY <1>2
<1> HIDE DEF home, at, to, head
<1>4. \A e \in Founders : /\ e \in Email /\ user[e] \in User
                          /\ user[e].home = home[e] /\ user[e].by = Nil
                          /\ (user[e].sub = "none" => e \in local)
  BY <1>1, <1>2, EmailAssumption DEF User, Sub
<1>5. \A e \in Email \ Founders : user[e] # Nil =>
        e \in Restored /\ user[e] \in User /\ user[e].home = home[head] /\ user[e].by = head
  BY <1>1, <1>2, EmailAssumption DEF User, Sub
<1>6. UsersOK(household, user, cred)
  <2>1. cred \in [Email -> Nat] /\ \A e \in Email : cred[e] # 0 => e \in Founders
    BY <1>2, EmailAssumption
  <2>2. user \in [Email -> User \cup {Nil}]  BY <1>2, <1>4, <1>5
  <2>3. household \subseteq Household  BY <1>1, <1>2
  <2>4. \A e \in Email : user[e] # Nil => user[e].home \in household
    BY <1>1, <1>2, <1>4, <1>5
  <2>5. \A e \in Email : user[e] # Nil /\ user[e].by = Nil => e \in Founders
    BY <1>1, <1>5, EmailAssumption, NilAssumption
  <2>6. \A e, f \in Email :
          user[e] # Nil /\ user[f] # Nil /\ user[e].by = Nil /\ user[f].by = Nil
            /\ user[e].home = user[f].home => e = f
    BY <1>1, <1>4, <2>5
  <2> QED  BY <1>4, <2>1, <2>2, <2>3, <2>4, <2>6, NilAssumption DEF UsersOK
<1>7. SessionsOK(session, user, cred)
  <2>1. DOMAIN session = {at[e] : e \in Founders}  BY <1>2
  <2>2. ASSUME NEW s \in DOMAIN session
        PROVE  /\ session[s] \in Session /\ session[s].of \in Founders
               /\ session[s].with = cred[session[s].of]
    <3> DEFINE e == CHOOSE f \in Founders : at[f] = s
    <3>1. e \in Founders  BY <2>1, <2>2
    <3>2. session[s] = [of |-> e, with |-> cred[e], late |-> FALSE, expires |-> SessionTTL]
      BY <1>2
    <3> HIDE DEF e
    <3>3. cred[e] \in Nat  BY <1>6, <3>1, EmailAssumption DEF UsersOK
    <3> QED  BY <3>1, <3>2, <3>3, TimeAssumption, EmailAssumption DEF Session
  <2>3. ASSUME NEW e \in Founders PROVE Awake(user, cred, e)
    <3>1. e \in Email /\ user[e] # Nil /\ (user[e].sub = "none" => e \in local)
      BY <1>4, NilAssumption
    <3>2. e \in local => cred[e] = 1  BY <1>2, <3>1
    <3> QED  BY <3>1, <3>2 DEF Awake
  <2> QED  BY <1>1, <2>1, <2>2, <2>3 DEF SessionsOK, IsTable
<1>8. InvitesOK(invite, user)
  <2>1. DOMAIN invite = {to[e] : e \in inviters}  BY <1>2
  <2>2. ASSUME NEW i \in DOMAIN invite
        PROVE  /\ invite[i] \in Invitation /\ invite[i].by \in Founders
               /\ invite[i].home = home[invite[i].by] /\ ~invite[i].used
    <3> DEFINE e == CHOOSE f \in Founders : to[f] = i
    <3>1. e \in Founders  BY <2>1, <2>2
    <3>2. invite[i] = [home |-> home[e], email |-> guest, by |-> e, used |-> FALSE,
                       expires |-> InviteTTL]
      BY <1>2
    <3> HIDE DEF e
    <3> QED  BY <1>1, <3>1, <3>2, TimeAssumption, EmailAssumption DEF Invitation
  <2> QED  BY <1>1, <1>4, <2>1, <2>2, NilAssumption DEF InvitesOK, IsTable
<1>9. MembersOK(invite, user)  BY <1>4, <1>5, NilAssumption DEF MembersOK
<1>10. TokensOK(token, user, cred) /\ ClockOK
  BY <1>3, TimeAssumption DEF TokensOK, ClockOK, IsTable, Empty
<1>11. RequestsOK(request, household, user, cred, invite)
  BY <1>3 DEF RequestsOK, IsFounding
<1> QED  BY <1>6, <1>7, <1>8, <1>9, <1>10, <1>11 DEF Inv

LEMMA NextInv == Inv /\ [Next]_vars => Inv'
<1> SUFFICES ASSUME Inv, [Next]_vars PROVE Inv'  OBVIOUS
<1>1. ASSUME NEW c \in Client, Abort(c) PROVE Inv'  BY <1>1, AbortInv
<1>2. ASSUME NEW c \in Client, IssueSession(c) PROVE Inv'  BY <1>2, IssueSessionInv
<1>3. ASSUME NEW c \in Client, BeginOnboarding(c) PROVE Inv'  BY <1>3, BeginOnboardingInv
<1>4. ASSUME NEW c \in Client, CreateUser(c) PROVE Inv'  BY <1>4, CreateUserInv
<1>5. ASSUME NEW c \in Client, StashedCredential(c) PROVE Inv'  BY <1>5, StashedCredentialInv
<1>6. ASSUME NEW c \in Client, MarkInvitationUsed(c) PROVE Inv'  BY <1>6, MarkInvitationUsedInv
<1>7. ASSUME NEW c \in Client, finishOnboarding(c) PROVE Inv'  BY <1>7, finishOnboardingInv
<1>8. ASSUME NEW c \in Client, CreatePasswordResetToken(c) PROVE Inv'
  BY <1>8, CreatePasswordResetTokenInv
<1>9. ASSUME NEW c \in Client, NEW e \in Email,
             \/ handleLocalLogin(c, e) \/ handleCallback(c, e) \/ handleLocalRegister(c, e)
             \/ issueResetToken(c, e) \/ MintResetPasswordLink(c, e)
             \/ \E s \in SessionId : handleReactivateMember(c, s, e)
      PROVE  Inv'
  BY <1>9, handleLocalLoginInv, handleCallbackInv, handleLocalRegisterInv, issueResetTokenInv,
     MintResetPasswordLinkInv, handleReactivateMemberInv
<1>10. ASSUME NEW c \in Client, NEW h \in HandshakeId,
              (\E i \in InviteId : commitJoin(c, h, i)) \/ commitFound(c, h)
       PROVE  Inv'
  BY <1>10, commitJoinInv, commitFoundInv
<1>11. ASSUME NEW c \in Client, NEW i \in InviteId, commitLocalInvite(c, i) PROVE Inv'
  BY <1>11, commitLocalInviteInv
<1>12. ASSUME NEW c \in Client, NEW t \in TokenId, commitPasswordReset(c, t) PROVE Inv'
  BY <1>12, commitPasswordResetInv
<1>13. ASSUME NEW s \in SessionId,
              \/ handleLogout(s) \/ SessionMiddleware(s)
              \/ \E e \in Email : handleCreateInvitation(s, e)
       PROVE  Inv'
  BY <1>13, handleLogoutInv, SessionMiddlewareInv, handleCreateInvitationInv
<1>14. ASSUME UNCHANGED vars PROVE Inv'
  BY <1>14 DEF vars, Inv, ClockOK
<1> QED
  BY <1>1, <1>2, <1>3, <1>4, <1>5, <1>6, <1>7, <1>8, <1>9, <1>10, <1>11, <1>12, <1>13, <1>14,
     sweepInv, TickInv DEF Next

\* A user, once there, stays as they are: no request, however stale what it read
\* is, makes a second account of an address or moves a member.
THEOREM NobodyMovesHolds == Spec => NobodyMoves
<1>1. Inv /\ [Next]_vars => [\A e \in Email : user[e] # Nil => user'[e] = user[e]]_vars
  <2> SUFFICES ASSUME Inv, Next, NEW e \in Email, user[e] # Nil PROVE user'[e] = user[e]
    OBVIOUS
  <2>1. ASSUME NEW c \in Client, CreateUser(c) PROVE user'[e] = user[e]
    BY <2>1 DEF CreateUser, Admits, Inv, UsersOK
  <2>2. ASSUME NEW c \in Client, NEW i \in InviteId, commitLocalInvite(c, i)
        PROVE  user'[e] = user[e]
    BY <2>2 DEF commitLocalInvite, Admits, Inv, UsersOK
  <2>3. CASE UNCHANGED user  BY <2>3
  <2> QED
    BY <2>1, <2>2, <2>3 DEF Next, Abort, IssueSession, BeginOnboarding, StashedCredential,
       MarkInvitationUsed, finishOnboarding, CreatePasswordResetToken, handleLocalLogin,
       handleCallback, handleLocalRegister, issueResetToken, MintResetPasswordLink,
       handleReactivateMember, commitJoin, commitFound, commitPasswordReset, handleLogout,
       SessionMiddleware, handleCreateInvitation, sweep, Tick
<1> QED  BY <1>1, InitInv, NextInv, PTL DEF Spec, NobodyMoves

\* Type correctness: among others, a password, a session and a link are always
\* those of a user there is, and every user's household is there.
THEOREM TypeCorrect == Spec => []TypeOK
<1>1. Inv => TypeOK
  BY DEF Inv, UsersOK, SessionsOK, InvitesOK, TokensOK, ClockOK, TypeOK, Awake
<1> QED  BY <1>1, InitInv, NextInv, PTL DEF Spec

\* An invitation is never used up without its account, in its household.
THEOREM UsedMeansMemberHolds == Spec => []UsedMeansMember
<1>1. Inv => UsedMeansMember  BY DEF Inv, InvitesOK, UsedMeansMember
<1> QED  BY <1>1, InitInv, NextInv, PTL DEF Spec

\* Who is no founder was invited, by a member of the household they live in.
THEOREM MembersWereInvitedHolds == Spec => []MembersWereInvited
<1>1. Inv => MembersWereInvited  BY DEF Inv, MembersOK, MembersWereInvited
<1> QED  BY <1>1, InitInv, NextInv, PTL DEF Spec

\* A session outlives its password only when its login overlapped the change.
THEOREM ResetRevokesHolds == Spec => []ResetRevokes
<1>1. Inv => ResetRevokes  BY DEF Inv, SessionsOK, ResetRevokes
<1> QED  BY <1>1, InitInv, NextInv, PTL DEF Spec

\* A founder's link never replaces a password that was there when it was made.
THEOREM FounderNeverResetsHolds == Spec => []FounderNeverResets
<1>1. Inv => FounderNeverResets  BY DEF Inv, TokensOK, FounderNeverResets
<1> QED  BY <1>1, InitInv, NextInv, PTL DEF Spec
=============================================================================
