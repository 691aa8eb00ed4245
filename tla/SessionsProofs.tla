--------------------------- MODULE SessionsProofs ---------------------------
(***************************************************************************)
(* Revocation works for every number of users, sessions and requests, and  *)
(* limits never add a permission, for every actor, list and action.  A     *)
(* request acts for the user its Authorization header claims; where these  *)
(* are the claims of its token, what it performs is within the limits of   *)
(* its session.                                                            *)
(***************************************************************************)
EXTENDS Sessions, TLAPS

\* decision.go: "Those roles cannot be higher than defined on the Subject or on
\* the Actor in its profile".  An actor with an access key and a scope may do
\* nothing that the same user may not do without them.
THEOREM LimitsOnlyNarrow ==
  ASSUME NEW a, NEW subject, NEW list, NEW action,
         DecideCanDo(a, subject, list, action)
  PROVE  DecideCanDo([name |-> a.name, roles |-> a.roles, keyed |-> FALSE,
                      key |-> <<>>, scope |-> <<>>], subject, list, action)
<1> DEFINE free == [name |-> a.name, roles |-> a.roles, keyed |-> FALSE,
                    key |-> <<>>, scope |-> <<>>]
<1>1. ~free.keyed /\ free.scope = <<>>
  OBVIOUS
<1>2. free.name = a.name /\ free.roles = a.roles
  OBVIOUS
<1>3. Granted(a, list, action)
  BY DEF DecideCanDo
<1>4. Granted(free, list, action)
  BY <1>2, <1>3 DEF Granted
<1> QED BY <1>1, <1>4 DEF DecideCanDo

-----------------------------------------------------------------------------

\* What the history variable has to do with the table.  Without the second
\* conjunct it would not be inductive: a login could store a session that had
\* been deactivated before it existed.
OpenIsStored ==
    /\ open = rows \ revoked
    /\ revoked \subseteq rows

\* Only as much of the types as the steps need.
Shape ==
    /\ now \in 0..MaxTime
    /\ known \subseteq Tokens
    /\ stage \in [Requests -> {"idle", "authenticated", "loaded"}]
    /\ answer \in [Requests -> Answers]
    /\ token \in [Requests -> Tokens \cup {Unset}]

SessionInv == Shape /\ OpenIsStored

\* Nothing is stored at first.
LEMMA SessionInitInv == Init => SessionInv
  BY MaxTimeAssumption DEF Init, SessionInv, Shape, OpenIsStored, Answers

\* A request that ends stays within the types.
LEMMA RespondShape ==
  ASSUME Shape, NEW q \in Requests, NEW what \in Answers, Respond(q, what)
  PROVE  /\ stage' \in [Requests -> {"idle", "authenticated", "loaded"}]
         /\ answer' \in [Requests -> Answers]
         /\ token' \in [Requests -> Tokens \cup {Unset}]
  BY DEF Respond, Shape

\* Revoking takes a session out of both: the table's valid rows and `open`.
LEMMA RevokeStep ==
  ASSUME SessionInv, NEW q \in Requests, NEW t, NEW sorry \in Answers,
         Revoke(q, t, sorry), UNCHANGED <<now, known, rows>>
  PROVE  SessionInv'
<1>1. CASE t \in rows /\ revoked' = RevokeById(t) /\ open' = open \ {t} /\ Respond(q, "loggedOut")
  <2>1. OpenIsStored'
    BY <1>1 DEF SessionInv, OpenIsStored, RevokeById
  <2>2. Shape'
    BY <1>1, RespondShape DEF SessionInv, Shape, Answers
  <2> QED BY <2>1, <2>2 DEF SessionInv
<1>2. CASE UNCHANGED <<revoked, open>> /\ Respond(q, sorry)
  <2>1. OpenIsStored'
    BY <1>2 DEF SessionInv, OpenIsStored
  <2>2. Shape'
    BY <1>2, RespondShape DEF SessionInv, Shape
  <2> QED BY <2>1, <2>2 DEF SessionInv
<1> QED BY <1>1, <1>2 DEF Revoke

\* Every step keeps the table and the announced sessions in agreement.
LEMMA SessionInvStep == SessionInv /\ [Next]_vars => SessionInv'
<1> SUFFICES ASSUME SessionInv, [Next]_vars PROVE SessionInv'
  OBVIOUS
<1> USE DEF config, table, request
<1>1. CASE Tick
  BY <1>1, MaxTimeAssumption DEF Tick, SessionInv, Shape, OpenIsStored
<1>2. CASE ConfigurationChanges
  BY <1>2 DEF ConfigurationChanges, SessionInv, Shape, OpenIsStored
<1>3. CASE Login
  <2>1. PICK l \in Logins, n \in Rand :
           LET t == [login |-> l, issued |-> now, rand |-> n]
           IN  /\ t \notin rows
               /\ rows' = rows \cup {t}
               /\ known' = known \cup {t}
               /\ open' = open \cup {t}
    BY <1>3 DEF Login
  <2>2. OpenIsStored'
    BY <1>3, <2>1 DEF Login, SessionInv, OpenIsStored
  <2>3. Shape'
    <3>1. [login |-> l, issued |-> now, rand |-> n] \in Tokens
      BY DEF SessionInv, Shape, Tokens
    <3> QED BY <1>3, <2>1, <3>1 DEF Login, SessionInv, Shape
  <2> QED BY <2>2, <2>3 DEF SessionInv
<1>4. CASE RefreshToken
  <2>1. PICK t \in known :
           known' = known \cup {[login |-> t.login, issued |-> now, rand |-> t.rand]}
    BY <1>4 DEF RefreshToken
  <2>2. [login |-> t.login, issued |-> now, rand |-> t.rand] \in Tokens
    BY <2>1 DEF SessionInv, Shape, Tokens
  <2>3. Shape'
    BY <1>4, <2>1, <2>2 DEF RefreshToken, SessionInv, Shape
  <2>4. OpenIsStored'
    BY <1>4 DEF RefreshToken, SessionInv, OpenIsStored
  <2> QED BY <2>3, <2>4 DEF SessionInv
<1>5. ASSUME NEW q \in Requests, Arrive(q) PROVE SessionInv'
  <2>1. OpenIsStored'
    BY <1>5 DEF Arrive, SessionInv, OpenIsStored
  <2>2. Shape'
    BY <1>5 DEF Arrive, SessionInv, Shape, Answers
  <2> QED BY <2>1, <2>2 DEF SessionInv
<1>6. ASSUME NEW q \in Requests, GetContextUser(q) PROVE SessionInv'
  BY <1>6 DEF GetContextUser, SessionInv, Shape, OpenIsStored
<1>7. ASSUME NEW q \in Requests,
             ContextUserMissing(q) \/ CollectionRequest(q) \/ LookupUser(q)
      PROVE  SessionInv'
  <2>1. \E what \in Answers : Respond(q, what)
    BY <1>7 DEF ContextUserMissing, CollectionRequest, LookupUser, Answers
  <2>2. UNCHANGED <<now, known, rows, revoked, open>>
    BY <1>7 DEF ContextUserMissing, CollectionRequest, LookupUser
  <2>3. OpenIsStored'
    BY <2>2 DEF SessionInv, OpenIsStored
  <2>4. Shape'
    BY <2>1, <2>2, RespondShape DEF SessionInv, Shape
  <2> QED BY <2>3, <2>4 DEF SessionInv
<1>8. ASSUME NEW q \in Requests, LogOut(q) PROVE SessionInv'
  <2>1. "failed" \in Answers
    BY DEF Answers
  <2> QED BY <1>8, <2>1, RevokeStep DEF LogOut
<1>9. ASSUME NEW q \in Requests, LogOutSession(q) PROVE SessionInv'
  <2>1. \/ \E t \in known : Revoke(q, t, "notFound")
        \/ \E what \in {"forbidden", "failed"} :
              Respond(q, what) /\ UNCHANGED <<revoked, open>>
    BY <1>9 DEF LogOutSession
  <2>2. UNCHANGED <<now, known, rows>> /\ "notFound" \in Answers
    BY <1>9 DEF LogOutSession, Answers
  <2>3. ASSUME NEW t \in known, Revoke(q, t, "notFound") PROVE SessionInv'
    BY <2>2, <2>3, RevokeStep
  <2>4. ASSUME NEW what \in {"forbidden", "failed"},
               Respond(q, what) /\ UNCHANGED <<revoked, open>>
        PROVE  SessionInv'
    <3>1. OpenIsStored'
      BY <2>2, <2>4 DEF SessionInv, OpenIsStored
    <3>2. Shape'
      BY <2>2, <2>4, RespondShape DEF SessionInv, Shape, Answers
    <3> QED BY <3>1, <3>2 DEF SessionInv
  <2> QED BY <2>1, <2>3, <2>4
<1>10. CASE UNCHANGED vars
  BY <1>10 DEF vars, SessionInv, Shape, OpenIsStored
<1> QED BY <1>1, <1>2, <1>3, <1>4, <1>5, <1>6, <1>7, <1>8, <1>9, <1>10 DEF Next

\* The middleware itself: a signed token that has not expired is let in only if
\* its row is stored and active, and refused on the row's word only if not.
LEMMA ArriveIsExact ==
  ASSUME SessionInv, NEW q \in Requests, NEW r \in Requests, Arrive(r)
  PROVE  AtTheDoor(q)
<1>1. PICK t \in known :
         \E s \in {"idle", "authenticated"}, a \in {"none", "refused", "unread"} :
            /\ stage' = [stage EXCEPT ![r] = s]
            /\ answer' = [answer EXCEPT ![r] = a]
            /\ token' = [token EXCEPT ![r] = t]
            /\ s = "authenticated" => JwtIsValid(t) /\ IsValid(t)
            /\ a = "refused" => ~(JwtIsValid(t) /\ IsValid(t))
  <2>1. stage[r] = "idle" /\ stage = [stage EXCEPT ![r] = "idle"]
    BY DEF Arrive, SessionInv, Shape
  <2> QED BY <2>1 DEF Arrive
<1>2. CASE q # r
  BY <1>1, <1>2 DEF AtTheDoor, SessionInv, Shape
<1>3. CASE q = r
  <2>1. token'[q] = t
    BY <1>1, <1>3 DEF SessionInv, Shape
  <2>2. now \in Nat /\ Expires(t) \in Nat
    BY LifetimeAssumption, MaxTimeAssumption DEF SessionInv, Shape, Tokens, Expires
  <2>3. JwtIsValid(t) /\ IsValid(t) <=> t \in open /\ now < Expires(t)
    BY <2>2 DEF JwtIsValid, IsValid, SessionInv, OpenIsStored
  <2>4. stage'[q] = "authenticated" => JwtIsValid(t) /\ IsValid(t)
    BY <1>1, <1>3 DEF SessionInv, Shape
  <2>5. answer'[q] = "refused" => ~(JwtIsValid(t) /\ IsValid(t))
    BY <1>1, <1>3 DEF SessionInv, Shape
  <2> QED BY <2>1, <2>3, <2>4, <2>5 DEF AtTheDoor
<1> QED BY <1>2, <1>3

\* A request that is answered was past the door, and no other is disturbed.
LEMMA RespondAtTheDoor ==
  ASSUME SessionInv, NEW q \in Requests, NEW r \in Requests,
         NEW what \in Answers \ {"refused"}, Respond(r, what)
  PROVE  AtTheDoor(q)
  BY DEF Respond, AtTheDoor, SessionInv, Shape

\* "All JWT's can be revoked anytime": for every set of users, profiles and
\* requests, a request gets past the authentication middleware only if its
\* session is open, that is, announced, not logged out and not expired, and an
\* open session is turned away only when its row could not be read.
THEOREM OnlyOpenSessionsAreServed == Spec => AdmitsOpenSessions
<1>1. ASSUME SessionInv, [Next]_vars, NEW q \in Requests PROVE AtTheDoor(q)
  <2> USE <1>1 DEF config, table, request
  <2>1. CASE Tick \/ ConfigurationChanges \/ Login \/ RefreshToken
    <3>1. UNCHANGED request
      BY <2>1 DEF Tick, ConfigurationChanges, Login, RefreshToken
    <3> QED BY <3>1 DEF AtTheDoor
  <2>2. ASSUME NEW r \in Requests, Arrive(r) PROVE AtTheDoor(q)
    BY <2>2, ArriveIsExact
  <2>3. ASSUME NEW r \in Requests, GetContextUser(r) PROVE AtTheDoor(q)
    BY <2>3 DEF GetContextUser, AtTheDoor, SessionInv, Shape
  <2>4. ASSUME NEW r \in Requests,
               ContextUserMissing(r) \/ CollectionRequest(r) \/ LookupUser(r)
        PROVE  AtTheDoor(q)
    <3>1. \E what \in Answers \ {"refused"} : Respond(r, what)
      BY <2>4 DEF ContextUserMissing, CollectionRequest, LookupUser, Answers
    <3> QED BY <3>1, RespondAtTheDoor
  <2>5. ASSUME NEW r \in Requests, LogOut(r) \/ LogOutSession(r)
        PROVE  AtTheDoor(q)
    <3>1. \E what \in Answers \ {"refused"} : Respond(r, what)
      BY <2>5 DEF LogOut, LogOutSession, Revoke, Answers
    <3> QED BY <3>1, RespondAtTheDoor
  <2>6. CASE UNCHANGED vars
    BY <2>6 DEF vars, AtTheDoor
  <2> QED BY <2>1, <2>2, <2>3, <2>4, <2>5, <2>6 DEF Next
<1>2. SessionInv /\ [Next]_vars => [\A q \in Requests : AtTheDoor(q)]_vars
  BY <1>1
<1> QED BY <1>2, SessionInitInv, SessionInvStep, PTL
        DEF Spec, AdmitsOpenSessions

-----------------------------------------------------------------------------

\* The context user that a request acts for is the one its Authorization header
\* claims, with the scope claimed there, whatever the configuration says by now.
\* When the header carries the token, that is the user the token was issued to.
ActorIsClaimed ==
    \A q \in Requests : stage[q] = "loaded" =>
        /\ header[q] # NoHeader
        /\ actor[q].name = header[q].user
        /\ actor[q].scope = header[q].scope

ActorInv == SessionsTypeOK /\ OpenIsStored /\ ActorIsClaimed

\* There is a token to stand for none.
LEMMA UnsetIsToken == ASSUME MaxTime \in Nat PROVE Unset \in Tokens
<1>1. PICK l \in Logins, n \in Rand : TRUE
  BY LoginsAssumption
<1>2. [login |-> l, issued |-> 0, rand |-> n] \in Tokens
  BY <1>1 DEF Tokens
<1> QED BY <1>2 DEF Unset

\* No request is there at first.
LEMMA ActorStarts == Init => ActorInv
<1> SUFFICES ASSUME Init PROVE ActorInv
  OBVIOUS
<1>1. Unset \in Tokens /\ 0 \in 0..MaxTime
  BY UnsetIsToken, MaxTimeAssumption
<1>2. token \in [Requests -> Tokens] /\ stage \in [Requests -> {"idle", "authenticated", "loaded"}]
      /\ answer \in [Requests -> Answers]
  BY <1>1 DEF Init, Answers
<1>3. header \in [Requests -> Logins \cup {NoHeader}] /\ actor \in [Requests -> ActorSet]
  BY DEF Init, ActorSet
<1>4. SessionsTypeOK
  BY <1>1, <1>2, <1>3 DEF Init, SessionsTypeOK, ActorSet
<1>5. ActorIsClaimed
  BY DEF Init, ActorIsClaimed
<1> QED BY <1>4, <1>5 DEF Init, ActorInv, OpenIsStored

\* LookupSessionUser answers with a context user of the right shape.
LEMMA SessionAwareUserFits ==
  ASSUME SessionsTypeOK, NEW l \in Logins
  PROVE  /\ SessionAwareUser(l) \in ActorSet
         /\ SessionAwareUser(l).name = l.user /\ SessionAwareUser(l).scope = l.scope
<1> DEFINE spec == profile[l.user]
<1>1. l.user \in Users /\ spec \in AllProfiles
  BY DEF Users, SessionsTypeOK
<1>2. spec.roles \subseteq Roles
  BY <1>1, ProfilesAssumption
<1>3. l.key \in DOMAIN spec.keys =>
         spec.keys[l.key] \in UNION {{p.keys[k] : k \in DOMAIN p.keys} : p \in AllProfiles}
  BY <1>1
<1>4. NoActor.key = <<>>
  BY DEF NoActor
<1> QED BY <1>1, <1>2, <1>3, <1>4 DEF SessionAwareUser, ActorSet

\* A request that ends forgets its context user and its token.
LEMMA RespondForgets ==
  ASSUME ActorInv, NEW q \in Requests, NEW what \in Answers, Respond(q, what)
  PROVE  /\ stage' \in [Requests -> {"idle", "authenticated", "loaded"}]
         /\ answer' \in [Requests -> Answers]
         /\ token' \in [Requests -> Tokens]
         /\ header' \in [Requests -> Logins \cup {NoHeader}]
         /\ actor' \in [Requests -> ActorSet]
         /\ ActorIsClaimed'
<1>1. Unset \in Tokens /\ NoActor \in ActorSet
  BY UnsetIsToken, MaxTimeAssumption DEF ActorSet
<1>2. /\ stage \in [Requests -> {"idle", "authenticated", "loaded"}]
      /\ answer \in [Requests -> Answers]
      /\ token \in [Requests -> Tokens]
      /\ header \in [Requests -> Logins \cup {NoHeader}]
      /\ actor \in [Requests -> ActorSet]
  BY DEF ActorInv, SessionsTypeOK, ActorSet
<1>3. ActorIsClaimed'
  <2> SUFFICES ASSUME NEW r \in Requests, stage'[r] = "loaded"
               PROVE  /\ header'[r] # NoHeader
                      /\ actor'[r].name = header'[r].user
                      /\ actor'[r].scope = header'[r].scope
    BY DEF ActorIsClaimed
  <2>1. r # q
    BY <1>2 DEF Respond
  <2>2. stage[r] = "loaded" /\ actor'[r] = actor[r] /\ header'[r] = header[r]
    BY <1>2, <2>1 DEF Respond
  <2> QED BY <2>2 DEF ActorInv, ActorIsClaimed
<1> QED BY <1>1, <1>2, <1>3 DEF Respond

\* A request that is answered, and may have revoked a session
LEMMA AnswerKeeps ==
  ASSUME ActorInv, NEW q \in Requests, NEW what \in Answers, Respond(q, what),
         UNCHANGED <<now, config, known, rows>>,
         \/ UNCHANGED <<revoked, open>>
         \/ \E t \in rows : revoked' = revoked \cup {t} /\ open' = open \ {t}
  PROVE  ActorInv'
<1> USE DEF ActorInv, config
<1>1. /\ stage' \in [Requests -> {"idle", "authenticated", "loaded"}]
      /\ answer' \in [Requests -> Answers]
      /\ token' \in [Requests -> Tokens]
      /\ header' \in [Requests -> Logins \cup {NoHeader}]
      /\ actor' \in [Requests -> ActorSet]
      /\ ActorIsClaimed'
  BY RespondForgets
<1>2. OpenIsStored' /\ open' \subseteq Tokens
  BY DEF OpenIsStored, SessionsTypeOK
<1>3. SessionsTypeOK'
  BY <1>1, <1>2 DEF SessionsTypeOK, ActorSet, OpenIsStored
<1> QED BY <1>1, <1>2, <1>3

\* What the two ways to log out do
LEMMA LogsOut ==
  ASSUME NEW q \in Requests, LogOut(q) \/ LogOutSession(q)
  PROVE  \E t \in Tokens \cup known \cup {token[q]} :
         \E what \in {"loggedOut", "notFound", "forbidden", "failed"} :
            /\ stage[q] \in {"authenticated", "loaded"}
            /\ Respond(q, what)
            /\ UNCHANGED <<now, config, known, rows>>
            /\ \/ UNCHANGED <<revoked, open>>
               \/ /\ t \in rows /\ revoked' = revoked \cup {t} /\ open' = open \ {t}
                  /\ what = "loggedOut"
                  /\ t = token[q] \/ (stage[q] = "loaded" /\ MayRevoke(q, t))
<1>1. CASE LogOut(q)
  BY <1>1 DEF LogOut, Revoke, RevokeById
<1>2. CASE LogOutSession(q)
  <2>1. /\ stage[q] = "loaded" /\ UNCHANGED <<now, config, known, rows>>
        /\ \/ \E t \in known : MayRevoke(q, t) /\ Revoke(q, t, "notFound")
           \/ \E what \in {"forbidden", "failed"} :
                 Respond(q, what) /\ UNCHANGED <<revoked, open>>
    BY <1>2 DEF LogOutSession
  <2>2. ASSUME NEW t \in known, MayRevoke(q, t), Revoke(q, t, "notFound")
        PROVE  \/ /\ t \in rows /\ revoked' = revoked \cup {t} /\ open' = open \ {t}
                  /\ Respond(q, "loggedOut")
               \/ Respond(q, "notFound") /\ UNCHANGED <<revoked, open>>
    BY <2>2 DEF Revoke, RevokeById
  <2> QED BY <2>1, <2>2
<1> QED BY <1>1, <1>2

\* Every step keeps the context users with the claims they were read from.
LEMMA ActorStep == ActorInv /\ [Next]_vars => ActorInv'
<1> SUFFICES ASSUME ActorInv, [Next]_vars PROVE ActorInv'
  OBVIOUS
<1> USE DEF ActorInv
<1>1. CASE Tick
  <2>1. now' \in 0..MaxTime
    BY <1>1, MaxTimeAssumption DEF Tick, SessionsTypeOK
  <2> QED BY <1>1, <2>1 DEF Tick, SessionsTypeOK, OpenIsStored, ActorIsClaimed, config, table, request
<1>2. CASE ConfigurationChanges
  <2>1. profile' \in [Users -> AllProfiles] /\ acl' \in AccessLists
    BY <1>2 DEF ConfigurationChanges, SessionsTypeOK, AllProfiles
  <2> QED BY <1>2, <2>1 DEF ConfigurationChanges, SessionsTypeOK, OpenIsStored, ActorIsClaimed,
                            table, request
<1>3. CASE Login
  <2>1. PICK l \in Logins, n \in Rand :
           LET t == [login |-> l, issued |-> now, rand |-> n]
           IN  /\ t \notin rows
               /\ rows' = rows \cup {t}
               /\ known' = known \cup {t}
               /\ open' = open \cup {t}
    BY <1>3 DEF Login
  <2>2. [login |-> l, issued |-> now, rand |-> n] \in Tokens
    BY DEF SessionsTypeOK, Tokens
  <2>3. UNCHANGED <<now, profile, acl, revoked, stage, token, header, actor, answer>>
    BY <1>3 DEF Login, config, request
  <2> QED BY <2>1, <2>2, <2>3 DEF SessionsTypeOK, OpenIsStored, ActorIsClaimed
<1>4. CASE RefreshToken
  <2>1. PICK t \in known :
           known' = known \cup {[login |-> t.login, issued |-> now, rand |-> t.rand]}
    BY <1>4 DEF RefreshToken
  <2>2. [login |-> t.login, issued |-> now, rand |-> t.rand] \in Tokens
    BY <2>1 DEF SessionsTypeOK, Tokens
  <2>3. UNCHANGED <<now, profile, acl, rows, revoked, stage, token, header, actor, answer, open>>
    BY <1>4 DEF RefreshToken, config, table, request
  <2> QED BY <2>1, <2>2, <2>3 DEF SessionsTypeOK, OpenIsStored, ActorIsClaimed
<1>5. ASSUME NEW q \in Requests, Arrive(q) PROVE ActorInv'
  <2>1. PICK t \in known :
           /\ stage[q] = "idle"
           /\ \E s \in {"idle", "authenticated"} : stage' = [stage EXCEPT ![q] = s]
           /\ \E a \in {"none", "refused", "unread"} : answer' = [answer EXCEPT ![q] = a]
           /\ token' = [token EXCEPT ![q] = t]
           /\ \E h \in Logins \cup {NoHeader} : header' = [header EXCEPT ![q] = h]
    <3>1. stage = [stage EXCEPT ![q] = stage[q]] /\ header = [header EXCEPT ![q] = header[q]]
          /\ header[q] \in Logins \cup {NoHeader} /\ stage[q] = "idle"
      BY <1>5 DEF Arrive, SessionsTypeOK
    <3> QED BY <1>5, <3>1 DEF Arrive
  <2>2. UNCHANGED <<now, profile, acl, known, rows, revoked, actor, open>>
    BY <1>5 DEF Arrive, config, table
  <2>3. /\ stage' \in [Requests -> {"idle", "authenticated", "loaded"}]
        /\ answer' \in [Requests -> Answers]
        /\ token' \in [Requests -> Tokens]
        /\ header' \in [Requests -> Logins \cup {NoHeader}]
    BY <2>1 DEF SessionsTypeOK, Answers
  <2>4. ActorIsClaimed'
    BY <2>1, <2>2 DEF SessionsTypeOK, ActorIsClaimed
  <2> QED BY <2>2, <2>3, <2>4 DEF SessionsTypeOK, OpenIsStored
<1>6. ASSUME NEW q \in Requests, GetContextUser(q) PROVE ActorInv'
  <2>1. /\ stage' = [stage EXCEPT ![q] = "loaded"]
        /\ actor' = [actor EXCEPT ![q] = SessionAwareUser(header[q])]
        /\ UNCHANGED <<now, profile, acl, known, rows, revoked, token, header, answer, open>>
    BY <1>6 DEF GetContextUser, config, table
  <2>2. header[q] \in Logins /\ header[q] # NoHeader
    BY <1>6 DEF GetContextUser, SessionsTypeOK
  <2>3. /\ SessionAwareUser(header[q]) \in ActorSet
        /\ SessionAwareUser(header[q]).name = header[q].user
        /\ SessionAwareUser(header[q]).scope = header[q].scope
    BY <2>2, SessionAwareUserFits
  <2>4. actor' \in [Requests -> ActorSet]
        /\ stage' \in [Requests -> {"idle", "authenticated", "loaded"}]
    BY <2>1, <2>3 DEF SessionsTypeOK, ActorSet
  <2>5. ActorIsClaimed'
    BY <2>1, <2>2, <2>3 DEF SessionsTypeOK, ActorIsClaimed
  <2> QED BY <2>1, <2>4, <2>5 DEF SessionsTypeOK, OpenIsStored, ActorSet
<1>7. ASSUME NEW q \in Requests,
             ContextUserMissing(q) \/ CollectionRequest(q) \/ LookupUser(q)
      PROVE  ActorInv'
  <2>1. \E what \in Answers : Respond(q, what)
    BY <1>7 DEF ContextUserMissing, CollectionRequest, LookupUser, Answers
  <2>2. UNCHANGED <<now, config, known, rows, revoked, open>>
    BY <1>7 DEF ContextUserMissing, CollectionRequest, LookupUser, table
  <2> QED BY <2>1, <2>2, AnswerKeeps
<1>8. ASSUME NEW q \in Requests, LogOut(q) \/ LogOutSession(q) PROVE ActorInv'
  <2>1. {"loggedOut", "notFound", "forbidden", "failed"} \subseteq Answers
    BY DEF Answers
  <2> QED BY <1>8, <2>1, LogsOut, AnswerKeeps
<1>9. CASE UNCHANGED vars
  BY <1>9 DEF vars, SessionsTypeOK, OpenIsStored, ActorIsClaimed, config, table, request
<1> QED BY <1>1, <1>2, <1>3, <1>4, <1>5, <1>6, <1>7, <1>8, <1>9 DEF Next

\* Every context user is the one claimed in its request's header, and the
\* announced sessions are the active rows.
THEOREM ActorInvariance == Spec => []ActorInv
  BY ActorStarts, ActorStep, PTL DEF Spec

\* Every variable keeps its type: a deactivated row is a row, a row belongs to a
\* token some client has, and a context user has the shape that decisions read.
THEOREM SessionsTypeCorrect == Spec => []SessionsTypeOK
<1>1. ActorInv => SessionsTypeOK
  BY DEF ActorInv
<1> QED BY <1>1, ActorInvariance, PTL

\* Only a logout ends a session, and what it ends is its own session, one of the
\* user it acts for, or any if that user's profile made it a system administrator.
LEMMA EndsOwnOrAdmins ==
  ASSUME ActorInv, [Next]_vars, NEW t \in open \ open'
  PROVE  \E q \in Requests : LogsOutRightly(q, t)
<1> USE DEF config, table, request
<1>1. CASE Tick \/ ConfigurationChanges \/ Login \/ RefreshToken
  BY <1>1 DEF Tick, ConfigurationChanges, Login, RefreshToken
<1>2. ASSUME NEW q \in Requests,
             \/ Arrive(q) \/ GetContextUser(q) \/ ContextUserMissing(q)
             \/ CollectionRequest(q) \/ LookupUser(q)
      PROVE  FALSE
  BY <1>2 DEF Arrive, GetContextUser, ContextUserMissing, CollectionRequest, LookupUser
<1>3. ASSUME NEW q \in Requests, LogOut(q) \/ LogOutSession(q)
      PROVE  LogsOutRightly(q, t)
  <2>1. /\ stage[q] \in {"authenticated", "loaded"} /\ Respond(q, "loggedOut")
        /\ t = token[q] \/ (stage[q] = "loaded" /\ MayRevoke(q, t))
    BY <1>3, LogsOut
  <2>2. stage'[q] = "idle" /\ answer'[q] = "loggedOut"
    BY <2>1 DEF Respond, ActorInv, SessionsTypeOK
  <2>3. stage[q] = "loaded" => actor[q].name = header[q].user
    BY DEF ActorInv, ActorIsClaimed
  <2> QED BY <2>1, <2>2, <2>3 DEF MayRevoke, HasRole, LogsOutRightly
<1>4. CASE UNCHANGED vars
  BY <1>4 DEF vars
<1> QED BY <1>1, <1>2, <1>3, <1>4 DEF Next

\* "systemAdmin (if wanting to log out other user's session)": for every set of
\* users, logins and requests, a session is ended by the request that answers
\* its logout with success: of the session itself, or of a request that acts for
\* the same user or for a system administrator.
THEOREM OnlyOwnerOrAdminRevokes == Spec => RevokedByOwnerOrAdmin
<1>1. ActorInv /\ [Next]_vars =>
         [\A t \in open \ open' : \E q \in Requests : LogsOutRightly(q, t)]_vars
  BY EndsOwnOrAdmins
<1> QED BY <1>1, ActorStarts, ActorStep, PTL DEF Spec, RevokedByOwnerOrAdmin

\* A decision in favour is a grant that every limit of the actor lets through.
LEMMA DecisionIsWithinLimits ==
  ASSUME NEW a, NEW list, NEW action, DecideCanDo(a, Collection, list, action)
  PROVE  /\ Granted(a, list, action)
         /\ a.scope # <<>> => Allows(a.scope, action)
         /\ a.keyed => Allows(a.key, action)
<1>1. Granted(a, list, action)
  BY DEF DecideCanDo
<1>2. a.scope # <<>> => Allows(a.scope, action)
  BY DEF DecideCanDo, ScopeAllows, Mentions, Allows
<1>3. a.keyed => Allows(a.key, action)
  BY DEF DecideCanDo, AccessKeyRolesInContextOf, CanThoseRolesPerformAction, Mentions, Allows
<1> QED BY <1>1, <1>2, <1>3

\* "Those roles cannot be higher than defined on the Subject or on the Actor in
\* its profile", step by step: for all users, keys, scopes and lists, and while
\* all of them change, a request that acts under the claims of its token performs
\* only what is granted to the user of its session and what the scope of its
\* login and its access key let through.
THEOREM PerformedIsWithinLimits == Spec => WithinEveryLimit
<1>1. ASSUME ActorInv, [Next]_vars, NEW q \in Requests,
             NEW action \in {"upload", "uploadAnytime", "download"},
             Performs(q, action), Agrees(q)
      PROVE  LET login == token[q].login IN
             /\ actor[q].name = login.user
             /\ Granted(actor[q], acl, action)
             /\ login.scope # <<>> => Allows(login.scope, action)
             /\ actor[q].keyed => Allows(actor[q].key, action)
  <2> USE DEF request
  <2>1. stage[q] = "loaded" /\ stage'[q] = "idle" /\ answer'[q] = action
    BY <1>1 DEF Performs
  <2>2. stage \in [Requests -> {"idle", "authenticated", "loaded"}]
        /\ answer \in [Requests -> Answers]
    BY <1>1 DEF ActorInv, SessionsTypeOK
  <2>3. ASSUME NEW r \in Requests, NEW what, Respond(r, what) PROVE r = q /\ what = action
    BY <2>1, <2>2, <2>3 DEF Respond
  <2>4. CASE CollectionRequest(q)
    <3>1. May(q, action)
      BY <2>3, <2>4 DEF CollectionRequest
    <3>2. actor[q].name = token[q].login.user /\ actor[q].scope = token[q].login.scope
      BY <1>1, <2>1 DEF ActorInv, ActorIsClaimed, Agrees
    <3> QED BY <3>1, <3>2, DecisionIsWithinLimits DEF May
  <2>5. CASE Tick \/ ConfigurationChanges \/ Login \/ RefreshToken \/ UNCHANGED vars
    BY <2>1, <2>5 DEF Tick, ConfigurationChanges, Login, RefreshToken, vars
  <2>6. ASSUME NEW r \in Requests, Arrive(r) \/ GetContextUser(r) PROVE FALSE
    BY <2>1, <2>2, <2>6 DEF Arrive, GetContextUser
  <2>7. ASSUME NEW r \in Requests, ContextUserMissing(r) \/ LookupUser(r) PROVE FALSE
    BY <2>3, <2>7 DEF ContextUserMissing, LookupUser
  <2>8. ASSUME NEW r \in Requests, LogOut(r) \/ LogOutSession(r) PROVE FALSE
    BY <2>3, <2>8, LogsOut
  <2>9. ASSUME NEW r \in Requests, CollectionRequest(r) PROVE r = q
    BY <2>3, <2>9 DEF CollectionRequest
  <2> QED BY <1>1, <2>4, <2>5, <2>6, <2>7, <2>8, <2>9 DEF Next
<1>2. ActorInv /\ [Next]_vars =>
         [\A q \in Requests : \A action \in {"upload", "uploadAnytime", "download"} :
             Performs(q, action) /\ Agrees(q) =>
                LET login == token[q].login IN
                /\ actor[q].name = login.user
                /\ Granted(actor[q], acl, action)
                /\ login.scope # <<>> => Allows(login.scope, action)
                /\ actor[q].keyed => Allows(actor[q].key, action)]_vars
  BY <1>1
<1> QED BY <1>2, ActorStarts, ActorStep, PTL DEF Spec, WithinEveryLimit
=============================================================================
