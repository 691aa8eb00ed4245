------------------------------ MODULE Sessions ------------------------------
(***************************************************************************)
(* Logins, tokens and what requests may do with them: pkg/http/auth.go,    *)
(* pkg/security/service.go and repository.go, pkg/users.  A token is       *)
(* signed, so a client can only present tokens it was given; whether it is *)
(* still good is looked up in the table granted_accesses.  Users and the   *)
(* collection are read from the configuration by every request anew, and   *)
(* may change while sessions are open.                                     *)
(*                                                                         *)
(* The token comes in the Authorization header or, when that is not of the *)
(* form "Bearer x", as a query parameter or a cookie.  The context user is *)
(* read from the claims in the Authorization header in all three cases, so *)
(* the two are separate inputs of a request: only for a token that came in *)
(* the header are they the same claims.                                    *)
(*                                                                         *)
(* A request takes a step for each reading: the session's row, the user,   *)
(* and the collection or the session to revoke.                            *)
(***************************************************************************)
EXTENDS AccessControl, FiniteSets

CONSTANTS
    Requests,    \* concurrent HTTP requests
    Logins,      \* [user, key, scope] that a login form can have; key "" is none
    Rand,        \* values of the claim "rand"
    Lifetime,    \* validity of a token, in seconds
    MaxTime,     \* bound on the clock
    MaxTokens,   \* bound on the number of tokens given out
    Collection,  \* the collection that requests are about
    Profiles,    \* values that the configuration of each user can take
    AccessLists  \* values that the access control list can take

ASSUME LifetimeAssumption == Lifetime \in Nat \ {0}
ASSUME MaxTimeAssumption == MaxTime \in Nat /\ MaxTokens \in Nat

ASSUME LoginsAssumption == Logins # {} /\ Rand # {}

Users == {l.user : l \in Logins}
AllProfiles == UNION {Profiles[u] : u \in Users}

ASSUME ProfilesAssumption == \A p \in AllProfiles : p.roles \subseteq Roles

\* The claims: who logged in and how, the second of issue, a small random
\* number.  Equal claims make equal tokens, and equal hashes of them.
Tokens == [login : Logins, issued : 0..MaxTime, rand : Rand]

VARIABLES
    now,       \* the clock, in seconds
    profile,   \* configuration of each user: roles, and objects per access key
    acl,       \* accessControl of the collection
    known,     \* tokens in the hands of clients
    rows,      \* granted_accesses: the tokens whose hash is stored
    revoked,   \* the rows with deactivated = true
    stage,     \* where each request is
    token,     \* its token, the one that was authenticated
    header,    \* the claims that its Authorization header decodes to
    actor,     \* its context user
    answer,    \* what it was answered
    open       \* history: sessions announced by a login, not yet logged out

config == <<profile, acl>>
table == <<rows, revoked>>
request == <<stage, token, header, actor, answer>>
vars == <<now, config, known, table, request, open>>

Expires(t) == t.issued + Lifetime

NoActor == [name |-> "", roles |-> {}, keyed |-> FALSE, key |-> <<>>, scope |-> <<>>]

\* What a request without a token holds; no value of it is looked at.
Unset == CHOOSE t \in Tokens : TRUE

\* No Authorization header, or one that does not decode
NoHeader == [user |-> "", key |-> "", scope |-> <<>>]

\* Refusals ("unread": the row could not be read), failures, and the actions
\* that were performed
Answers == {"none", "refused", "unread", "forbidden", "notFound", "failed",
            "loggedOut", "viewed", "upload", "uploadAnytime", "download"}

ActorSet == {NoActor} \cup
    [name : Users, roles : SUBSET Roles, keyed : BOOLEAN,
     key : {NoActor.key} \cup
           UNION {{p.keys[k] : k \in DOMAIN p.keys} : p \in AllProfiles},
     scope : {l.scope : l \in Logins}]

SessionsTypeOK ==
    /\ now \in 0..MaxTime
    /\ profile \in [Users -> AllProfiles]
    /\ acl \in AccessLists
    /\ known \subseteq Tokens
    /\ rows \subseteq known
    /\ revoked \subseteq rows
    /\ stage \in [Requests -> {"idle", "authenticated", "loaded"}]
    /\ token \in [Requests -> Tokens]
    /\ header \in [Requests -> Logins \cup {NoHeader}]
    /\ actor \in [Requests -> ActorSet]
    /\ answer \in [Requests -> Answers]
    /\ open \subseteq Tokens

Init ==
    /\ now = 0
    /\ profile \in {f \in [Users -> AllProfiles] : \A u \in Users : f[u] \in Profiles[u]}
    /\ acl \in AccessLists
    /\ known = {} /\ rows = {} /\ revoked = {} /\ open = {}
    /\ stage = [q \in Requests |-> "idle"]
    /\ token = [q \in Requests |-> Unset]
    /\ header = [q \in Requests |-> NoHeader]
    /\ actor = [q \in Requests |-> NoActor]
    /\ answer = [q \in Requests |-> "none"]

Tick ==
    /\ now < MaxTime
    /\ now' = now + 1
    /\ UNCHANGED <<config, known, table, request, open>>

\* An administrator edits a BackupUser or the BackupCollection.
ConfigurationChanges ==
    /\ \/ \E u \in Users : \E p \in Profiles[u] :
             profile' = [profile EXCEPT ![u] = p] /\ UNCHANGED acl
       \/ \E list \in AccessLists : acl' = list /\ UNCHANGED profile
    /\ UNCHANGED <<now, known, table, request, open>>

-----------------------------------------------------------------------------
(* Login and refresh *)

\* The key named after the "$" of the login must be configured.  Passwords are
\* right here (Credentials is about them); with a wrong one nothing happens.
CanLogIn(l) == l.key = "" \/ l.key \in DOMAIN profile[l.user].keys

\* Authenticator, PayloadFunc and LoginResponse.  When the hash is in the table
\* already ("too short interval between login attempts") the answer has no
\* token in it.
Login ==
    /\ Cardinality(known) < MaxTokens
    /\ \E l \in Logins, n \in Rand :
          LET t == [login |-> l, issued |-> now, rand |-> n]
          IN  /\ CanLogIn(l)
              /\ t \notin rows
              /\ rows' = rows \cup {t}
              /\ known' = known \cup {t}
              /\ open' = open \cup {t}
    /\ UNCHANGED <<now, config, revoked, request>>

\* gin-jwt's RefreshHandler: a token with the same claims and a new time, as
\* long as the old one is not older than MaxRefresh (as long as Lifetime).  It
\* neither asks the table nor writes to it.
RefreshToken ==
    /\ Cardinality(known) < MaxTokens
    /\ \E t \in known :
          /\ now <= Expires(t)
          /\ known' = known \cup {[login |-> t.login, issued |-> now, rand |-> t.rand]}
    /\ UNCHANGED <<now, config, table, request, open>>

-----------------------------------------------------------------------------
(* Requests *)

\* gin-jwt parses the token before anything else: exp must lie ahead.
JwtIsValid(t) == now < Expires(t)

\* Mutants of IsValid: IsNotExpired taken by its name; the row not looked at.
IsValidOnceExpired(t) == t \in rows /\ t \notin revoked /\ now > Expires(t)
IsValidSigned(t) == TRUE

\* IsTokenStillValid: the row is there, not deactivated, and not expired (the
\* method IsNotExpired answers whether it is expired).
IsValid(t) == t \in rows /\ t \notin revoked /\ ~(now > Expires(t))

\* The authentication middleware with IdentityHandler and Authorizator.  A
\* query that fails answers as a session that is not valid, with a 401.  A
\* scope that does not decode does so too; the scopes of tokens that were
\* given out decode, they were encoded by PayloadFunc.
Arrive(q) ==
    /\ stage[q] = "idle"
    /\ \E t \in known :
          \/ /\ JwtIsValid(t) /\ IsValid(t)
             /\ stage' = [stage EXCEPT ![q] = "authenticated"]
             /\ answer' = [answer EXCEPT ![q] = "none"]
             /\ token' = [token EXCEPT ![q] = t]
             /\ \E h \in Logins \cup {NoHeader} : header' = [header EXCEPT ![q] = h]
          \/ /\ ~(JwtIsValid(t) /\ IsValid(t))
             /\ answer' = [answer EXCEPT ![q] = "refused"]
             /\ token' = [token EXCEPT ![q] = t]
             /\ UNCHANGED <<stage, header>>
          \/ /\ JwtIsValid(t)
             /\ answer' = [answer EXCEPT ![q] = "unread"]
             /\ token' = [token EXCEPT ![q] = t]
             /\ UNCHANGED <<stage, header>>
    /\ UNCHANGED <<now, config, known, table, actor, open>>

\* LookupSessionUser.  An access key that is no longer configured leaves
\* currentAccessKey nil.
SessionAwareUser(l) ==
    LET spec == profile[l.user]
        keyed == l.key \in DOMAIN spec.keys
    IN  [name |-> l.user, roles |-> spec.roles, keyed |-> keyed,
         key |-> IF keyed THEN spec.keys[l.key] ELSE <<>>, scope |-> l.scope]

\* User, access key and scope are taken from the Authorization header.
GetContextUser(q) ==
    /\ stage[q] = "authenticated" /\ header[q] # NoHeader
    /\ stage' = [stage EXCEPT ![q] = "loaded"]
    /\ actor' = [actor EXCEPT ![q] = SessionAwareUser(header[q])]
    /\ UNCHANGED <<now, config, known, table, token, header, answer, open>>

\* Write the answer; the request is over.
Respond(q, what) ==
    /\ answer' = [answer EXCEPT ![q] = what]
    /\ stage' = [stage EXCEPT ![q] = "idle"]
    /\ token' = [token EXCEPT ![q] = Unset]
    /\ header' = [header EXCEPT ![q] = NoHeader]
    /\ actor' = [actor EXCEPT ![q] = NoActor]

\* The header does not decode, or a document cannot be read: there is no
\* context user and the handler panics.
ContextUserMissing(q) ==
    /\ stage[q] = "authenticated"
    /\ Respond(q, "failed")
    /\ UNCHANGED <<now, config, known, table, open>>

May(q, action) == DecideCanDo(actor[q], Collection, acl, action)

\* The checks at the head of the upload, download and listing handlers.  Outside
\* the backup windows an upload needs both permissions.
CollectionRequest(q) ==
    /\ stage[q] = "loaded"
    /\ \/ Respond(q, IF May(q, "download") THEN "download" ELSE "forbidden")
       \/ Respond(q, IF May(q, "upload") THEN "upload" ELSE "forbidden")
       \/ Respond(q, IF May(q, "upload") /\ May(q, "uploadAnytime")
                     THEN "uploadAnytime" ELSE "forbidden")
       \/ Respond(q, IF May(q, "upload") \/ May(q, "download")
                     THEN "viewed" ELSE "forbidden")
    /\ UNCHANGED <<now, config, known, table, open>>

\* addLookupUserRoute; the e-mail address stands for the name.
LookupUser(q) ==
    /\ stage[q] = "loaded"
    /\ \E u \in Users :
          Respond(q, IF HasRole(actor[q].roles, "userManager") \/ u = actor[q].name
                     THEN "viewed" ELSE "forbidden")
    /\ UNCHANGED <<now, config, known, table, open>>

\* Mutant of RevokeById: all sessions of the user.
RevokeByUser(t) == revoked \cup {r \in rows : r.login.user = t.login.user}

RevokeById(t) == revoked \cup {t}

\* Mutant of Revoke: no look whether the session exists.
RevokeUnchecked(q, t, sorry) ==
    /\ revoked' = RevokeById(t)
    /\ open' = open \ {t}
    /\ Respond(q, "loggedOut")

\* RevokeSessionBySessionId.  It is an error when the session is not stored and
\* when a statement fails.
Revoke(q, t, sorry) ==
    \/ /\ t \in rows
       /\ revoked' = RevokeById(t)
       /\ open' = open \ {t}
       /\ Respond(q, "loggedOut")
    \/ Respond(q, sorry) /\ UNCHANGED <<revoked, open>>

\* Logout of the session of the request.  It does without the context user:
\* when its document could not be read, the handler goes on.
LogOut(q) ==
    /\ stage[q] = "loaded" \/ (stage[q] = "authenticated" /\ header[q] # NoHeader)
    /\ Revoke(q, token[q], "failed")
    /\ UNCHANGED <<now, config, known, rows>>

\* Mutant of MayRevoke: a user manager will do.
MayRevokeAsManager(q, t) ==
    \/ t \in rows /\ t.login.user = actor[q].name
    \/ HasRole(actor[q].roles, "userManager")

\* A session that is not stored reads as one of the user "".
MayRevoke(q, t) ==
    \/ t \in rows /\ t.login.user = actor[q].name
    \/ HasRole(actor[q].roles, "systemAdmin")

\* Logout with a sessionId, of any session
LogOutSession(q) ==
    /\ stage[q] = "loaded"
    /\ \/ \E t \in known :
             IF MayRevoke(q, t)
             THEN Revoke(q, t, "notFound")
             ELSE Respond(q, "forbidden") /\ UNCHANGED <<revoked, open>>
       \/ \* the session cannot be looked up
          Respond(q, "failed") /\ UNCHANGED <<revoked, open>>
    /\ UNCHANGED <<now, config, known, rows>>

Next ==
    \/ Tick \/ ConfigurationChanges \/ Login \/ RefreshToken
    \/ \E q \in Requests :
          \/ Arrive(q) \/ GetContextUser(q) \/ ContextUserMissing(q)
          \/ CollectionRequest(q) \/ LookupUser(q)
          \/ LogOut(q) \/ LogOutSession(q)

Spec == Init /\ [][Next]_vars

-----------------------------------------------------------------------------
(* Properties *)

\* A request is let in only if its session is open and its time not over, and
\* is refused on the word of its row only if not.
AtTheDoor(q) ==
    LET alive == token'[q] \in open /\ now < Expires(token'[q])
    IN  /\ stage[q] = "idle" /\ stage'[q] = "authenticated" => alive
        /\ answer[q] # "refused" /\ answer'[q] = "refused" => ~alive

\* README.md: "All JWT's can be revoked anytime".  The middleware lets a request
\* in only if its session was announced by a login, no logout of it has been
\* answered and its time is not over: whatever other sessions were opened,
\* refreshed and revoked meanwhile, also in the same second.  An open session
\* is turned away only when its row could not be read.
AdmitsOpenSessions == [][\A q \in Requests : AtTheDoor(q)]_vars

\* The request acts under the claims of the token that was authenticated, as
\* every request does whose token came in the Authorization header.
Agrees(q) == header[q] = token[q].login

\* The request answers having performed the action.
Performs(q, action) ==
    stage[q] = "loaded" /\ stage'[q] = "idle" /\ answer'[q] = action

Allows(list, action) ==
    \E i \in DOMAIN list : /\ list[i].name = Collection
                           /\ CanThoseRolesPerformAction(list[i].roles, action)

\* decision.go: "Those roles cannot be higher than defined on the Subject or on
\* the Actor in its profile".  While profiles, keys and lists change, what a
\* request performs under the claims of its token was granted by the list of the
\* collection as it is now or by the profile as the request read it, and is in
\* the scope of the login and among the objects of its access key, while that
\* key is configured.
WithinEveryLimit ==
    [][\A q \in Requests : \A action \in {"upload", "uploadAnytime", "download"} :
          Performs(q, action) /\ Agrees(q) =>
             LET login == token[q].login IN
             /\ actor[q].name = login.user
             /\ Granted(actor[q], acl, action)
             /\ login.scope # <<>> => Allows(login.scope, action)
             /\ actor[q].keyed => Allows(actor[q].key, action)]_vars

\* The request that logs a session out: its own, one of the user it acts for, or
\* any as a system administrator, by the profile it read of that user.
LogsOutRightly(q, t) ==
    /\ stage[q] \in {"authenticated", "loaded"}
    /\ stage'[q] = "idle" /\ answer'[q] = "loggedOut"
    /\ \/ t = token[q]
       \/ /\ stage[q] = "loaded" /\ actor[q].name = header[q].user
          /\ header[q].user = t.login.user \/ "systemAdmin" \in actor[q].roles

\* docs/api/users/README.md: "systemAdmin (if wanting to log out other user's
\* session)".  A session ends by a logout that is answered with success, of the
\* session itself, or by a request that acts for the same user or for a system
\* administrator; whom a request acts for is what its header claims.
RevokedByOwnerOrAdmin ==
    [][\A t \in open \ open' : \E q \in Requests : LogsOutRightly(q, t)]_vars
=============================================================================
