-------------------------- MODULE CredentialsProofs --------------------------
(***************************************************************************)
(* For any set of passwords and any edits: what lets a request in was      *)
(* configured while it ran, and without edits the answer is the right one. *)
(***************************************************************************)
EXTENDS Credentials, TLAPS

\* What the request is let in on, in words of its history
Justified(r) ==
    \/ {"secret", "referring"} \subseteq was /\ r.given # None
    \/ "inline" \in was /\ r.given # None /\ (r.kind = "user" => "plain" \in was)
    \/ r.kind = "collection" /\ "plain" \in was

\* What is known of the hash that will decide, while Secrets are being read
HashIsBacked ==
    LET hash == request.hash[request.kind] IN
    /\ hash = Fetch => "referring" \in was
    /\ hash # None /\ hash = request.given => Justified(request)
    /\ hash = None /\ request.kind = "collection" => "plain" \in was

\* The history covers the present, hashes come from where the history says, and
\* so does the verdict.
BackedInv ==
    /\ CredentialsTypeOK
    /\ inline["collection"] = None
    /\ request.stage # "none" => Evidence \subseteq was
    /\ request.stage = "loading" => HashIsBacked
    /\ Granted => Justified(request)

\* The mark of a hash that is still to be read is neither a password nor absence.
LEMMA FetchIsNoValue == Fetch \notin Passwords /\ Fetch # None /\ None \notin Passwords
  BY FetchAssumption, NoneAssumption

\* The Secret read next is one that is still to be read.
LEMMA NextIsMissing == Missing # {} => NextToFetch \in Missing
  <1>1. SUFFICES ASSUME Missing # {}
                 PROVE  \E e \in Missing : "user" \in Missing => e = "user"
    BY DEF NextToFetch
  <1>2. CASE "user" \in Missing
    BY <1>2
  <1>3. CASE "user" \notin Missing
    BY <1>1, <1>3
  <1> QED  BY <1>2, <1>3

\* The type invariant holds, for every set of passwords.
LEMMA TypeInit == CredentialsInit => CredentialsTypeOK
  <1> SUFFICES ASSUME CredentialsInit  PROVE CredentialsTypeOK
    OBVIOUS
  <1>1. PICK kind \in Entities : request = [NoRequest EXCEPT !.kind = kind]
    BY DEF CredentialsInit
  <1>2. NoRequest.hash \in [Entities -> Passwords \cup {None, Fetch}]
    BY DEF NoRequest
  <1>3. /\ request = [stage |-> "none", kind |-> kind, given |-> None,
                     hash |-> NoRequest.hash, granted |-> FALSE]
    BY <1>1 DEF NoRequest
  <1> QED  BY <1>2, <1>3 DEF CredentialsInit, CredentialsTypeOK

\* Every step of a request and every edit keeps the types.
LEMMA TypeStep == CredentialsTypeOK /\ [CredentialsNext]_credentialVars => CredentialsTypeOK'
  <1> SUFFICES ASSUME CredentialsTypeOK, [CredentialsNext]_credentialVars
               PROVE  CredentialsTypeOK'
    OBVIOUS
  <1>e. Evidence' \subseteq {"inline", "secret", "referring", "plain"}
    BY DEF Evidence
  <1>1. ASSUME NEW given \in Passwords \cup {None}, Begin(given)  PROVE CredentialsTypeOK'
    BY <1>1, <1>e DEF CredentialsTypeOK, Begin, settings, NoRequest, Entities
  <1>2. CASE ReadDocument
    BY <1>2 DEF CredentialsTypeOK, ReadDocument, settings, Entities, Concerned, NeedsSecret
  <1>3. CASE ReadSecret
    BY <1>3, NextIsMissing DEF CredentialsTypeOK, ReadSecret, settings, Missing
  <1>4. CASE SecretIsMissing
    BY <1>4 DEF CredentialsTypeOK, SecretIsMissing, Answer, settings, NoRequest
  <1>5. CASE ProviderFails
    BY <1>5 DEF CredentialsTypeOK, ProviderFails, Answer, settings, NoRequest
  <1>6. CASE DecideLogin
    BY <1>6 DEF CredentialsTypeOK, DecideLogin, Answer, Matches, settings, NoRequest
  <1>7. CASE DecideHealthCheck
    BY <1>7 DEF CredentialsTypeOK, DecideHealthCheck, Answer, Matches, settings, NoRequest
  <1>8. CASE Forget
    BY <1>8 DEF CredentialsTypeOK, Forget, settings, NoRequest
  <1>9. ASSUME NEW e \in Entities, NEW value \in Passwords \cup {None}, EditSecret(e, value)
        PROVE  CredentialsTypeOK'
    BY <1>9, <1>e DEF CredentialsTypeOK, EditSecret
  <1>10. ASSUME NEW e \in Entities, NEW value \in Passwords \cup {None},
                NEW refers \in BOOLEAN, EditDocument(e, value, refers)
         PROVE  CredentialsTypeOK'
    BY <1>10, <1>e DEF CredentialsTypeOK, EditDocument
  <1>11. CASE UNCHANGED credentialVars
    BY <1>11 DEF CredentialsTypeOK, credentialVars, settings
  <1> QED  BY <1>1, <1>2, <1>3, <1>4, <1>5, <1>6, <1>7, <1>8, <1>9, <1>10, <1>11
              DEF CredentialsNext

\* CredentialsTypeOK is an invariant of logins and health checks.
THEOREM CredentialsTypeCorrect == CredentialsSpec => []CredentialsTypeOK
  BY TypeInit, TypeStep, PTL DEF CredentialsSpec

-----------------------------------------------------------------------------
(* Nobody is let in but with a configured password. *)

\* Evidence is about the settings and the request's kind and password; it stays
\* where these do.
LEMMA EvidenceStays ==
    ASSUME UNCHANGED settings, request'.kind = request.kind, request'.given = request.given
    PROVE  Evidence' = Evidence
  BY DEF Evidence, settings

\* An edit adds to the history, and so takes no justification away.
LEMMA EditKeepsBacked ==
    ASSUME BackedInv, CredentialsTypeOK', UNCHANGED request, was' = was \cup Evidence' \cup {"edited"},
           inline'["collection"] = None
    PROVE  BackedInv'
  <1>1. Justified(request) => Justified(request)'
    BY DEF Justified
  <1>2. HashIsBacked => HashIsBacked'
    BY <1>1 DEF HashIsBacked, Justified
  <1>3. Granted' => Granted
    BY DEF Granted
  <1> QED  BY <1>1, <1>2, <1>3 DEF BackedInv

\* The request is answered by something else than a comparison: it is refused.
LEMMA RefusalKeepsBacked ==
    ASSUME BackedInv, CredentialsTypeOK', NEW stage \in {"answered", "failed"}, Answer(stage, FALSE),
           request.stage # "none"
    PROVE  BackedInv'
  <1>1. /\ request'.kind = request.kind /\ request'.given = request.given
        /\ request'.stage = stage /\ request'.granted = FALSE
    BY DEF Answer, BackedInv, CredentialsTypeOK
  <1>2. Evidence' = Evidence /\ UNCHANGED <<inline, was>>
    BY <1>1, EvidenceStays DEF Answer, settings
  <1> QED  BY <1>1, <1>2 DEF BackedInv, Granted

\* The verdict of a comparison rests on the hash that was held.
LEMMA VerdictKeepsBacked ==
    ASSUME BackedInv, CredentialsTypeOK', NEW verdict \in BOOLEAN, Answer("answered", verdict),
           request.stage = "loading", verdict => Justified(request)
    PROVE  BackedInv'
  <1>1. /\ request'.kind = request.kind /\ request'.given = request.given
        /\ request'.stage = "answered" /\ request'.granted = verdict
    BY DEF Answer, BackedInv, CredentialsTypeOK
  <1>2. Evidence' = Evidence /\ UNCHANGED <<inline, was>>
    BY <1>1, EvidenceStays DEF Answer, settings
  <1>3. Justified(request) => Justified(request)'
    BY <1>1, <1>2 DEF Justified
  <1> QED  BY <1>1, <1>2, <1>3 DEF BackedInv, Granted

\* Before the first request there is no verdict to back.
LEMMA BackedInit == CredentialsInit => BackedInv
  BY TypeInit DEF CredentialsInit, BackedInv, Granted, NoRequest

\* No step of a request and no edit leads to a verdict the history does not back.
LEMMA BackedStep == BackedInv /\ [CredentialsNext]_credentialVars => BackedInv'
  <1> SUFFICES ASSUME BackedInv, [CredentialsNext]_credentialVars  PROVE BackedInv'
    OBVIOUS
  <1>t. CredentialsTypeOK /\ CredentialsTypeOK'
    BY TypeStep DEF BackedInv
  <1>1. ASSUME NEW given \in Passwords \cup {None}, Begin(given)  PROVE BackedInv'
    <2>1. request'.stage = "begun"
      BY <1>1, <1>t DEF Begin, CredentialsTypeOK
    <2> QED  BY <1>1, <1>t, <2>1 DEF Begin, BackedInv, Granted, settings
  <1>2. CASE ReadDocument
    <2>1. /\ request'.kind = request.kind /\ request'.given = request.given
          /\ request'.stage = "loading" /\ request.stage = "begun"
      BY <1>2, <1>t DEF ReadDocument, CredentialsTypeOK
    <2>2. Evidence' = Evidence /\ UNCHANGED <<inline, ref, secret, was>>
      BY <1>2, <2>1, EvidenceStays DEF ReadDocument, settings
    <2>3. Evidence \subseteq was
      BY <2>1 DEF BackedInv
    <2>4. request.kind \in Concerned(request.kind) /\ request.kind \in Entities
      BY <1>t DEF CredentialsTypeOK, Concerned, Entities
    <2>5. request'.hash[request.kind] =
             IF NeedsSecret(request.kind) THEN Fetch ELSE inline[request.kind]
      BY <1>2, <1>t, <2>4 DEF ReadDocument, CredentialsTypeOK
    <2>6. CASE NeedsSecret(request.kind)
      <3>1. "referring" \in was
        BY <2>3, <2>6 DEF NeedsSecret, Evidence
      <3>2. Fetch # request.given /\ Fetch # None
        BY <1>t, FetchIsNoValue DEF CredentialsTypeOK
      <3>3. HashIsBacked'
        BY <2>1, <2>2, <2>5, <2>6, <3>1, <3>2 DEF HashIsBacked
      <3> QED  BY <1>t, <2>1, <2>2, <2>3, <3>3 DEF BackedInv, Granted
    <2>7. CASE ~NeedsSecret(request.kind)
      <3>1. inline[request.kind] # Fetch
        BY <1>t, <2>4, FetchIsNoValue DEF CredentialsTypeOK
      <3>2. inline[request.kind] = request.given => "inline" \in was
        BY <2>3 DEF Evidence
      <3>3. request.kind # "key" => "plain" \in was
        BY <2>3, <2>7 DEF NeedsSecret, Evidence
      <3>4. HashIsBacked'
        BY <2>1, <2>2, <2>5, <2>7, <3>1, <3>2, <3>3 DEF HashIsBacked, Justified
      <3> QED  BY <1>t, <2>1, <2>2, <2>3, <3>4 DEF BackedInv, Granted
    <2> QED  BY <2>6, <2>7
  <1>3. CASE ReadSecret
    <2> DEFINE n == NextToFetch
    <2>1. n \in Entities /\ request.hash[n] = Fetch /\ secret[n] # None
      BY <1>3, NextIsMissing DEF ReadSecret, Missing
    <2>2. /\ request'.kind = request.kind /\ request'.given = request.given
          /\ request'.stage = "loading" /\ request.stage = "loading"
          /\ request'.hash = [request.hash EXCEPT ![n] = secret[n]]
      BY <1>3, <1>t DEF ReadSecret, CredentialsTypeOK
    <2>3. Evidence' = Evidence /\ UNCHANGED <<inline, ref, secret, was>>
      BY <1>3, <2>2, EvidenceStays DEF ReadSecret, settings
    <2>4. Evidence \subseteq was /\ HashIsBacked
      BY <2>2 DEF BackedInv
    <2> HIDE DEF n
    <2>5. CASE n = request.kind
      <3>1. "referring" \in was
        BY <2>1, <2>4, <2>5 DEF HashIsBacked
      <3>2. secret[n] = request.given => "secret" \in was
        BY <2>4, <2>5 DEF Evidence
      <3>3. request'.hash[request.kind] = secret[n] /\ secret[n] # Fetch
        BY <1>t, <2>1, <2>2, <2>5, FetchIsNoValue DEF CredentialsTypeOK
      <3>4. HashIsBacked'
        BY <2>1, <2>2, <2>3, <3>1, <3>2, <3>3 DEF HashIsBacked, Justified
      <3> QED  BY <1>t, <2>2, <2>3, <2>4, <3>4 DEF BackedInv, Granted
    <2>6. CASE n # request.kind
      <3>1. request'.hash[request.kind] = request.hash[request.kind]
        BY <1>t, <2>1, <2>2, <2>6 DEF CredentialsTypeOK
      <3>2. HashIsBacked'
        BY <2>2, <2>3, <2>4, <3>1 DEF HashIsBacked, Justified
      <3> QED  BY <1>t, <2>2, <2>3, <2>4, <3>2 DEF BackedInv, Granted
    <2> QED  BY <2>5, <2>6
  <1>4. CASE SecretIsMissing
    BY <1>4, <1>t, RefusalKeepsBacked DEF SecretIsMissing
  <1>5. CASE ProviderFails
    BY <1>5, <1>t, RefusalKeepsBacked DEF ProviderFails
  <1>6. CASE DecideLogin
    <2>1. Matches(request.kind) => Justified(request)
      BY <1>6 DEF DecideLogin, Matches, BackedInv, HashIsBacked
    <2>2. Matches(request.kind) \in BOOLEAN
      BY DEF Matches
    <2> QED  BY <1>6, <1>t, <2>1, <2>2, VerdictKeepsBacked DEF DecideLogin
  <1>7. CASE DecideHealthCheck
    <2> DEFINE verdict == request.hash["collection"] = None \/ Matches("collection")
    <2>1. verdict => Justified(request)
      BY <1>7 DEF DecideHealthCheck, Matches, BackedInv, HashIsBacked, Justified
    <2>2. verdict \in BOOLEAN
      BY DEF Matches
    <2>3. Answer("answered", verdict) /\ request.stage = "loading"
      BY <1>7 DEF DecideHealthCheck
    <2> HIDE DEF verdict
    <2> QED  BY <1>t, <2>1, <2>2, <2>3, VerdictKeepsBacked
  <1>8. CASE Forget
    BY <1>8, <1>t DEF Forget, BackedInv, Granted, settings, NoRequest
  <1>9. ASSUME NEW e \in Entities, NEW value \in Passwords \cup {None}, EditSecret(e, value)
        PROVE  BackedInv'
    BY <1>9, <1>t, EditKeepsBacked DEF EditSecret, BackedInv
  <1>10. ASSUME NEW e \in Entities, NEW value \in Passwords \cup {None},
                NEW refers \in BOOLEAN, EditDocument(e, value, refers)
         PROVE  BackedInv'
    <2>1. inline'["collection"] = None
      BY <1>10, <1>t DEF EditDocument, BackedInv, CredentialsTypeOK, Entities
    <2> QED  BY <1>10, <1>t, <2>1, EditKeepsBacked DEF EditDocument
  <1>11. CASE UNCHANGED credentialVars
    <2>1. UNCHANGED <<inline, ref, secret, request, was>>
      BY <1>11 DEF credentialVars, settings
    <2>2. Evidence' = Evidence /\ (HashIsBacked' <=> HashIsBacked) /\ (Granted' <=> Granted)
          /\ (Justified(request)' <=> Justified(request))
      BY <2>1 DEF Evidence, HashIsBacked, Granted, Justified
    <2> QED  BY <1>t, <2>1, <2>2 DEF BackedInv
  <1> QED  BY <1>1, <1>2, <1>3, <1>4, <1>5, <1>6, <1>7, <1>8, <1>9, <1>10, <1>11
              DEF CredentialsNext

\* For every set of passwords: whatever is edited between the readings of the
\* document and of its Secrets, a request is let in only with a password that was
\* in the place named for it since the request began, or to a health check of a
\* collection that refers to no Secret.
THEOREM OnlyCredentialsAreGranted == CredentialsSpec => []GrantedByCredential
  <1>1. BackedInv => GrantedByCredential
    BY DEF BackedInv, GrantedByCredential, Justified
  <1> QED  BY <1>1, BackedInit, BackedStep, PTL DEF CredentialsSpec

-----------------------------------------------------------------------------
(* Without edits the answer is right. *)

\* Read, or about to be read, from the place that decides
HashIsRight(e) ==
    IF NeedsSecret(e)
    THEN \/ request.hash[e] = Fetch
         \/ request.hash[e] = secret[e] /\ secret[e] # None
    ELSE request.hash[e] = inline[e]

HashesAreRight ==
    /\ \A e \in Concerned(request.kind) : HashIsRight(e)
    /\ \A e \in Entities \ Concerned(request.kind) : request.hash[e] = None

RightInv ==
    /\ CredentialsTypeOK
    /\ inline["collection"] = None
    /\ request.stage = "loading" /\ "edited" \notin was => HashesAreRight
    /\ UneditedAnswerIsRight

\* When nothing is missing the document's Secrets were complete, and each hash is
\* the one in force.
LEMMA AllIsRead ==
    ASSUME CredentialsTypeOK, HashesAreRight, Missing = {}
    PROVE  /\ Complete(request.kind)
           /\ request.hash[request.kind] = InForce(request.kind)
           /\ NeedsSecret(request.kind) => request.hash[request.kind] # None
  <1>1. request.kind \in Concerned(request.kind) /\ Concerned(request.kind) \subseteq Entities
    BY DEF CredentialsTypeOK, Concerned, Entities
  <1>2. \A e \in Concerned(request.kind) : HashIsRight(e) /\ request.hash[e] # Fetch
    BY <1>1 DEF HashesAreRight, Missing
  <1> QED  BY <1>1, <1>2 DEF HashIsRight, NeedsSecret, Complete, InForce

\* A hash that is still to be read is that of a Secret the document needs.
LEMMA MissingIsNeeded ==
    ASSUME CredentialsTypeOK, HashesAreRight, NEW e \in Missing
    PROVE  e \in Concerned(request.kind) /\ NeedsSecret(e)
  <1>1. e \in Entities /\ request.hash[e] = Fetch
    BY DEF Missing
  <1>2. e \in Concerned(request.kind)
    BY <1>1, FetchIsNoValue DEF HashesAreRight
  <1>3. inline[e] # Fetch
    BY <1>1, FetchIsNoValue DEF CredentialsTypeOK
  <1> QED  BY <1>1, <1>2, <1>3 DEF HashesAreRight, HashIsRight

\* An answer is right if it was deserved by the configuration at that moment.
LEMMA AnswerIsRight ==
    ASSUME RightInv, CredentialsTypeOK', NEW stage \in {"answered", "failed"},
           NEW verdict \in BOOLEAN, Answer(stage, verdict),
           stage = "answered" /\ "edited" \notin was => (verdict <=> Deserved)
    PROVE  RightInv'
  <1>1. /\ request'.kind = request.kind /\ request'.given = request.given
        /\ request'.stage = stage /\ request'.granted = verdict
    BY DEF Answer, RightInv, CredentialsTypeOK
  <1>2. UNCHANGED <<inline, ref, secret, was>>
    BY DEF Answer, settings
  <1>3. Deserved' <=> Deserved
    BY <1>1, <1>2 DEF Deserved, Complete, InForce
  <1> QED  BY <1>1, <1>2, <1>3 DEF RightInv, UneditedAnswerIsRight

\* Before the first request there is no answer that could be wrong.
LEMMA RightInit == CredentialsInit => RightInv
  BY TypeInit DEF CredentialsInit, RightInv, UneditedAnswerIsRight, NoRequest

\* Every step keeps the hashes and the answer right while nothing is edited.
LEMMA RightStep == RightInv /\ [CredentialsNext]_credentialVars => RightInv'
  <1> SUFFICES ASSUME RightInv, [CredentialsNext]_credentialVars  PROVE RightInv'
    OBVIOUS
  <1>t. CredentialsTypeOK /\ CredentialsTypeOK'
    BY TypeStep DEF RightInv
  <1>1. ASSUME NEW given \in Passwords \cup {None}, Begin(given)  PROVE RightInv'
    <2>1. request'.stage = "begun"
      BY <1>1, <1>t DEF Begin, CredentialsTypeOK
    <2> QED  BY <1>1, <1>t, <2>1 DEF Begin, RightInv, UneditedAnswerIsRight, settings
  <1>2. CASE ReadDocument
    <2>1. /\ request'.kind = request.kind /\ request'.stage = "loading"
          /\ request'.hash = [e \in Entities |->
                                IF e \notin Concerned(request.kind) THEN None
                                ELSE IF NeedsSecret(e) THEN Fetch ELSE inline[e]]
      BY <1>2, <1>t DEF ReadDocument, CredentialsTypeOK
    <2>2. UNCHANGED <<inline, ref, secret, was>>
      BY <1>2 DEF ReadDocument, settings
    <2>3. Concerned(request.kind) \subseteq Entities
      BY DEF Concerned, Entities
    <2>4. HashesAreRight'
      BY <2>1, <2>2, <2>3 DEF HashesAreRight, HashIsRight, NeedsSecret
    <2> QED  BY <1>t, <2>1, <2>2, <2>4 DEF RightInv, UneditedAnswerIsRight
  <1>3. CASE ReadSecret
    <2> DEFINE n == NextToFetch
    <2>1. n \in Missing /\ n \in Entities /\ secret[n] # None
      BY <1>3, NextIsMissing DEF ReadSecret, Missing
    <2>2. /\ request'.kind = request.kind
          /\ request'.stage = "loading" /\ request.stage = "loading"
          /\ request'.hash = [request.hash EXCEPT ![n] = secret[n]]
      BY <1>3, <1>t DEF ReadSecret, CredentialsTypeOK
    <2>3. UNCHANGED <<inline, ref, secret, was>>
      BY <1>3 DEF ReadSecret, settings
    <2> HIDE DEF n
    <2>4. ASSUME "edited" \notin was  PROVE HashesAreRight'
      <3>1. HashesAreRight
        BY <2>2, <2>4 DEF RightInv
      <3>2. n \in Concerned(request.kind) /\ NeedsSecret(n)
        BY <1>t, <2>1, <3>1, MissingIsNeeded
      <3>3. \A e \in Entities : request'.hash[e] = IF e = n THEN secret[n] ELSE request.hash[e]
        BY <1>t, <2>2 DEF CredentialsTypeOK
      <3>4. Concerned(request.kind) \subseteq Entities
        BY DEF Concerned, Entities
      <3> QED  BY <2>1, <2>2, <2>3, <3>1, <3>2, <3>3, <3>4
                  DEF HashesAreRight, HashIsRight, NeedsSecret
    <2> QED  BY <1>t, <2>2, <2>3, <2>4 DEF RightInv, UneditedAnswerIsRight
  <1>4. CASE SecretIsMissing
    <2>1. ASSUME "edited" \notin was  PROVE ~Deserved
      <3>1. HashesAreRight /\ NextToFetch \in Missing /\ secret[NextToFetch] = None
        BY <1>4, <2>1, NextIsMissing DEF SecretIsMissing, RightInv
      <3>2. NextToFetch \in Concerned(request.kind) /\ NeedsSecret(NextToFetch)
        BY <1>t, <3>1, MissingIsNeeded
      <3> QED  BY <3>1, <3>2 DEF Deserved, Complete, NeedsSecret
    <2> QED  BY <1>4, <1>t, <2>1, AnswerIsRight DEF SecretIsMissing
  <1>5. CASE ProviderFails
    BY <1>5, <1>t, AnswerIsRight DEF ProviderFails
  <1>6. CASE DecideLogin
    <2>1. ASSUME "edited" \notin was  PROVE Matches(request.kind) <=> Deserved
      <3>1. HashesAreRight /\ Missing = {} /\ request.kind # "collection"
        BY <1>6, <2>1 DEF DecideLogin, RightInv
      <3>2. Complete(request.kind) /\ request.hash[request.kind] = InForce(request.kind)
        BY <1>t, <3>1, AllIsRead
      <3> QED  BY <3>1, <3>2 DEF Deserved, Matches
    <2>2. Matches(request.kind) \in BOOLEAN
      BY DEF Matches
    <2> QED  BY <1>6, <1>t, <2>1, <2>2, AnswerIsRight DEF DecideLogin
  <1>7. CASE DecideHealthCheck
    <2> DEFINE verdict == request.hash["collection"] = None \/ Matches("collection")
    <2>1. ASSUME "edited" \notin was  PROVE verdict <=> Deserved
      <3>1. HashesAreRight /\ Missing = {} /\ request.kind = "collection"
        BY <1>7, <2>1 DEF DecideHealthCheck, RightInv
      <3>2. /\ Complete(request.kind) /\ request.hash[request.kind] = InForce(request.kind)
            /\ NeedsSecret(request.kind) => request.hash[request.kind] # None
        BY <1>t, <3>1, AllIsRead
      <3>3. ~ref["collection"] => InForce("collection") = None
        BY DEF InForce, RightInv
      <3> QED  BY <3>1, <3>2, <3>3 DEF Deserved, Matches, NeedsSecret
    <2>2. verdict \in BOOLEAN
      BY DEF Matches
    <2>3. Answer("answered", verdict)
      BY <1>7 DEF DecideHealthCheck
    <2> HIDE DEF verdict
    <2> QED  BY <1>t, <2>1, <2>2, <2>3, AnswerIsRight
  <1>8. CASE Forget
    BY <1>8, <1>t DEF Forget, RightInv, UneditedAnswerIsRight, settings, NoRequest
  <1>9. ASSUME NEW e \in Entities, NEW value \in Passwords \cup {None}, EditSecret(e, value)
        PROVE  RightInv'
    BY <1>9, <1>t DEF EditSecret, RightInv, UneditedAnswerIsRight
  <1>10. ASSUME NEW e \in Entities, NEW value \in Passwords \cup {None},
                NEW refers \in BOOLEAN, EditDocument(e, value, refers)
         PROVE  RightInv'
    <2>1. inline'["collection"] = None
      BY <1>10, <1>t DEF EditDocument, RightInv, CredentialsTypeOK, Entities
    <2> QED  BY <1>10, <1>t, <2>1 DEF EditDocument, RightInv, UneditedAnswerIsRight
  <1>11. CASE UNCHANGED credentialVars
    <2>1. UNCHANGED <<inline, ref, secret, request, was>>
      BY <1>11 DEF credentialVars, settings
    <2>2. (HashesAreRight' <=> HashesAreRight) /\ (Deserved' <=> Deserved)
      BY <2>1 DEF HashesAreRight, HashIsRight, NeedsSecret, Deserved, Complete, InForce
    <2> QED  BY <1>t, <2>1, <2>2 DEF RightInv, UneditedAnswerIsRight
  <1> QED  BY <1>1, <1>2, <1>3, <1>4, <1>5, <1>6, <1>7, <1>8, <1>9, <1>10, <1>11
              DEF CredentialsNext

\* For every set of passwords: when nothing is edited between a request's readings,
\* the password in force is let in and no other, and a Secret without its entry
\* refuses the whole document's logins.
THEOREM UneditedAnswersAreRight == CredentialsSpec => []UneditedAnswerIsRight
  <1>1. RightInv => UneditedAnswerIsRight
    BY DEF RightInv
  <1> QED  BY <1>1, RightInit, RightStep, PTL DEF CredentialsSpec
=============================================================================
