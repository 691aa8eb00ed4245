----------------------------- MODULE Credentials -----------------------------
(***************************************************************************)
(* How the server learns the password it compares with: the login of a     *)
(* BackupUser or of one of its access keys (Authenticator of               *)
(* pkg/http/auth.go, pkg/users), and the code of a collection's health     *)
(* check (pkg/collections, pkg/http/collection.go).  The document and each *)
(* `kind: Secret` that it refers to are read one after the other from the  *)
(* configuration provider, nothing is cached, and an administrator edits   *)
(* them at any time.                                                       *)
(*                                                                         *)
(* A hash is identified with the password it was made of.  A hash that has *)
(* not the right format is one that nobody knows the password of.          *)
(***************************************************************************)
CONSTANTS
    Passwords,  \* what is presented, or hashed in documents and Secrets
    None        \* no password: an empty field, or no entry in the Secret

ASSUME NoneAssumption == None \notin Passwords

\* What has a password; a user and its access key are in one document.
Entities == {"user", "key", "collection"}

VARIABLES
    inline,   \* `password` in the document
    ref,      \* whether the document has a passwordFromRef or healthSecretRef
    secret,   \* the entry in the Secret of that reference
    request,  \* the login or health check under way
    was       \* what has been true of the configuration since it began

settings == <<inline, ref, secret>>
credentialVars == <<settings, request, was>>

\* The Secret is still to be read.
Fetch == "fetch"

ASSUME FetchAssumption == Fetch \notin Passwords \cup {None}

NoRequest == [stage |-> "none", kind |-> "user", given |-> None,
              hash |-> [e \in Entities |-> None], granted |-> FALSE]

CredentialsTypeOK ==
    /\ inline \in [Entities -> Passwords \cup {None}]
    /\ ref \in [Entities -> BOOLEAN]
    /\ secret \in [Entities -> Passwords \cup {None}]
    /\ request \in [stage : {"none", "begun", "loading", "answered", "failed"},
                    kind : Entities, given : Passwords \cup {None},
                    hash : [Entities -> Passwords \cup {None, Fetch}],
                    granted : BOOLEAN]
    /\ request.stage # "loading" => request.hash = NoRequest.hash
    /\ was \subseteq {"inline", "secret", "referring", "plain", "edited"}

\* The entities that the document of a request is about
Concerned(kind) == IF kind = "collection" THEN {"collection"} ELSE {"user", "key"}

-----------------------------------------------------------------------------
(* What a request is owed (history) *)

\* What the configuration says now about the password that was presented
Evidence ==
    LET e == request.kind IN
    {fact \in {"inline", "secret", "referring", "plain"} :
        \/ fact = "inline" /\ inline[e] = request.given
        \/ fact = "secret" /\ secret[e] = request.given
        \/ fact = "referring" /\ ref[e]
        \/ fact = "plain" /\ ~ref[e]}

\* Every Secret that the document needs has its entry.
Complete(kind) ==
    \A e \in Concerned(kind) :
        ref[e] /\ (e = "key" => inline[e] = None) => secret[e] # None

\* The password in force: a user's Secret goes before the document, an access
\* key's document before the Secret.
InForce(e) == IF ref[e] /\ (e = "key" => inline[e] = None) THEN secret[e] ELSE inline[e]

Deserved ==
    /\ Complete(request.kind)
    /\ \/ InForce(request.kind) = request.given /\ request.given # None
       \/ request.kind = "collection" /\ ~ref["collection"]

-----------------------------------------------------------------------------

\* What the requests are not about makes no difference to them.
CredentialsInit ==
    /\ inline \in [Entities -> Passwords \cup {None}]
    /\ ref \in [Entities -> BOOLEAN]
    /\ secret \in [Entities -> Passwords \cup {None}]
    /\ inline["collection"] = None
    /\ \E kind \in Entities :
          /\ request = [NoRequest EXCEPT !.kind = kind]
          /\ \A e \in Entities \ Concerned(kind) :
                inline[e] = None /\ ~ref[e] /\ secret[e] = None
    /\ was = {}

Begin(given) ==
    /\ request.stage = "none"
    /\ request' = [request EXCEPT !.stage = "begun", !.given = given]
    /\ UNCHANGED settings
    /\ was' = Evidence'

\* Mutant of NeedsSecret: the Secret of a key goes before the document.
NeedsSecretOnReference(e) == ref[e]

\* FillPasswordFromKindSecret is called for it: hydrate and getById always do,
\* fillUpAccessToken only where the key has no password of its own.
NeedsSecret(e) == ref[e] /\ (e = "key" => inline[e] = None)

\* GetSingleDocument
ReadDocument ==
    /\ request.stage = "begun"
    /\ request' = [request EXCEPT !.stage = "loading",
                      !.hash = [e \in Entities |->
                                  IF e \notin Concerned(request.kind) THEN None
                                  ELSE IF NeedsSecret(e) THEN Fetch ELSE inline[e]]]
    /\ UNCHANGED <<settings, was>>

Missing == {e \in Entities : request.hash[e] = Fetch}

\* The user's own Secret is read before those of its keys, and all are read
\* whichever of them the login is with.
NextToFetch == CHOOSE e \in Missing : "user" \in Missing => e = "user"

\* Mutant of ReadSecret: an entry that is not there is an empty password.
ReadSecretOrNothing ==
    /\ request.stage = "loading"
    /\ Missing # {}
    /\ request' = [request EXCEPT !.hash[NextToFetch] = secret[NextToFetch]]
    /\ UNCHANGED <<settings, was>>

\* GetSingleDocumentAnyType, and the entry is not empty
ReadSecret ==
    /\ request.stage = "loading"
    /\ Missing # {}
    /\ secret[NextToFetch] # None
    /\ request' = [request EXCEPT !.hash[NextToFetch] = secret[NextToFetch]]
    /\ UNCHANGED <<settings, was>>

\* Mutant of Answer: the hashes outlive the request.
AnswerKeepingHash(stage, granted) ==
    /\ request' = [request EXCEPT !.stage = stage, !.granted = granted]
    /\ UNCHANGED <<settings, was>>

\* The answer is written, and the hashes read for it are gone.
Answer(stage, granted) ==
    /\ request' = [request EXCEPT !.stage = stage, !.granted = granted,
                                  !.hash = NoRequest.hash]
    /\ UNCHANGED <<settings, was>>

\* "invalid field name in `kind: Secret`", or there is no such Secret
SecretIsMissing ==
    /\ request.stage = "loading"
    /\ Missing # {}
    /\ secret[NextToFetch] = None
    /\ Answer("answered", FALSE)

\* The provider does not answer, or the document is not there.
ProviderFails ==
    /\ request.stage \in {"begun", "loading"}
    /\ Answer("failed", FALSE)

\* ComparePassword and CompareFastCryptoHash; an empty hash is never right.
Matches(e) == request.hash[e] # None /\ request.hash[e] = request.given

\* IsPasswordValid of the entity that the login names
DecideLogin ==
    /\ request.stage = "loading" /\ Missing = {}
    /\ request.kind \in {"user", "key"}
    /\ Answer("answered", Matches(request.kind))

\* IsHealthCheckSecretValid: without a secret everyone is let in.
DecideHealthCheck ==
    /\ request.stage = "loading" /\ Missing = {}
    /\ request.kind = "collection"
    /\ Answer("answered", request.hash["collection"] = None \/ Matches("collection"))

\* The request is over.
Forget ==
    /\ request.stage \in {"answered", "failed"}
    /\ request' = [NoRequest EXCEPT !.kind = request.kind]
    /\ was' = {}
    /\ UNCHANGED settings

\* An administrator edits the document (a collection's has no password in it)
\* or the Secret.
EditDocument(e, value, refers) ==
    /\ request.stage # "none"
    /\ e \in Concerned(request.kind)
    /\ e = "collection" => value = None
    /\ inline' = [inline EXCEPT ![e] = value]
    /\ ref' = [ref EXCEPT ![e] = refers]
    /\ UNCHANGED <<secret, request>>
    /\ was' = was \cup Evidence' \cup {"edited"}

EditSecret(e, value) ==
    /\ request.stage # "none"
    /\ e \in Concerned(request.kind)
    /\ secret' = [secret EXCEPT ![e] = value]
    /\ UNCHANGED <<inline, ref, request>>
    /\ was' = was \cup Evidence' \cup {"edited"}

CredentialsNext ==
    \/ \E given \in Passwords \cup {None} : Begin(given)
    \/ ReadDocument \/ ReadSecret \/ SecretIsMissing \/ ProviderFails
    \/ DecideLogin \/ DecideHealthCheck \/ Forget
    \/ \E e \in Entities, value \in Passwords \cup {None} :
          \/ EditSecret(e, value)
          \/ \E refers \in BOOLEAN : EditDocument(e, value, refers)

CredentialsSpec == CredentialsInit /\ [][CredentialsNext]_credentialVars

-----------------------------------------------------------------------------
(* Properties *)

Granted == request.stage = "answered" /\ request.granted

\* Whatever is edited between the reading of the document and that of the
\* Secrets, a request is let in only with a password that, since it began, was
\* in the place that the document named for it: a Secret that loses its entry
\* or a key that loses its password lets nobody in.  Only a health check of a
\* collection without a reference needs none.
GrantedByCredential ==
    Granted =>
        \/ {"secret", "referring"} \subseteq was /\ request.given # None
        \/ "inline" \in was /\ request.given # None
           /\ (request.kind = "user" => "plain" \in was)
        \/ request.kind = "collection" /\ "plain" \in was

\* Where nothing is edited meanwhile, the answer is right: the password in force
\* is let in and no other, a user's Secret going before the document and a
\* key's document before the Secret.
UneditedAnswerIsRight ==
    request.stage = "answered" /\ "edited" \notin was => (request.granted <=> Deserved)
=============================================================================
