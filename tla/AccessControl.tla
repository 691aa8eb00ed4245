--------------------------- MODULE AccessControl ---------------------------
(***************************************************************************)
(* pkg/security/decision.go: may an actor perform an action on a           *)
(* collection?  The actor's profile and the collection's access control    *)
(* list grant; the access key a session was opened with and the scope      *)
(* written into its token only take away.                                  *)
(***************************************************************************)
EXTENDS Naturals, Sequences

Roles == {"userManager", "collectionManager", "backupDownloader",
          "backupUploader", "uploadsAnytime", "systemAdmin"}

Actions == {"download", "upload", "uploadAnytime", "viewProfile"}

\* GetRolesInheritance; a role that is not a key of the map has no children.
RolesInheritance ==
    [role \in Roles |->
        CASE role = "systemAdmin" -> {"userManager", "collectionManager"}
          [] role = "collectionManager" -> {"backupDownloader", "uploadsAnytime"}
          [] OTHER -> {}]

\* GetRolesActions
RolesActions ==
    [role \in Roles |->
        CASE role = "backupDownloader" -> {"download"}
          [] role = "backupUploader" -> {"upload"}
          [] role = "uploadsAnytime" -> {"upload", "uploadAnytime"}
          [] role = "userManager" -> {"viewProfile"}
          [] OTHER -> {}]

\* expandRoles of a single role
Expanded[role \in Roles] ==
    {role} \cup UNION {Expanded[child] : child \in RolesInheritance[role]}

CanThoseRolesPerformAction(roles, action) ==
    \E role \in roles : \E r \in Expanded[role] : action \in RolesActions[r]

\* Roles.HasRole does not expand: only the role itself and systemAdmin count.
HasRole(roles, role) == role \in roles \/ "systemAdmin" \in roles

-----------------------------------------------------------------------------
(* Limits.  An access key and a scope are lists of [name, roles], one for  *)
(* each collection they mention; a collection may be mentioned twice.      *)

Mentions(list, subject) == {i \in DOMAIN list : list[i].name = subject}

\* GetAccessKeyRolesInContextOf: the first object that names the collection
AccessKeyRolesInContextOf(key, subject) ==
    LET found == Mentions(key, subject)
    IN  UNION {key[i].roles : i \in {i \in found : \A j \in found : i <= j}}

\* The loop over the scope overwrites its verdict: the last element decides.
ScopeAllows(scope, subject, action) ==
    LET found == Mentions(scope, subject)
    IN  \E i \in found : /\ \A j \in found : j <= i
                         /\ CanThoseRolesPerformAction(scope[i].roles, action)

\* AccessControlList.IsPermitted
IsPermitted(acl, name, action) ==
    \E entry \in acl :
        entry.name = name /\ CanThoseRolesPerformAction(entry.roles, action)

\* What the profile or the collection grants, before any limit
Granted(actor, acl, action) ==
    \/ IsPermitted(acl, actor.name, action)
    \/ CanThoseRolesPerformAction(actor.roles, action)

\* Mutant of DecideCanDo: the access key decides alone.
KeyDecides(actor, subject, acl, action) ==
    IF actor.keyed
    THEN CanThoseRolesPerformAction(AccessKeyRolesInContextOf(actor.key, subject), action)
    ELSE /\ actor.scope # <<>> => ScopeAllows(actor.scope, subject, action)
         /\ Granted(actor, acl, action)

\* DecideCanDo on a collection.  An actor is a SessionAwareUser: its name and
\* roles, whether it is in the context of an access key, that key's objects,
\* and the scope of its token; an empty scope is no limit.
DecideCanDo(actor, subject, acl, action) ==
    /\ actor.keyed => CanThoseRolesPerformAction(
                          AccessKeyRolesInContextOf(actor.key, subject), action)
    /\ actor.scope # <<>> => ScopeAllows(actor.scope, subject, action)
    /\ Granted(actor, acl, action)
=============================================================================
