--------------------------- MODULE DownloadProofs ---------------------------
(***************************************************************************)
(* Downloads beside any number of uploads: they change nothing, they send  *)
(* what was uploaded, and they miss only what the collection has given up. *)
(***************************************************************************)
EXTENDS Download, UploadProofs

\* A download only reads: with the readers hidden, the system does what Upload allows,
\* so that all that is proved of uploads holds beside downloads.
THEOREM DownloadsOnlyRead == DownloadSpec => Spec
<1>1. DownloadInit => Init
  BY DEF DownloadInit
<1>2. [DownloadNext]_allVars => [Next]_vars
  BY DEF DownloadNext, allVars
<1> QED BY <1>1, <1>2, PTL DEF DownloadSpec, Spec

-----------------------------------------------------------------------------
(* Types *)

\* A reply
LEMMA ReplyTypes ==
  ASSUME DownloadTypeOK, NEW d \in Readers, NEW answer \in Answered, Reply(d, answer)
  PROVE  DownloadTypeOK'
<1>1. reading' = [reading EXCEPT ![d] = answer] /\ answer # "opened"
  BY DEF Reply, Answered
<1>2. reading' \in [Readers -> {"new", "numbered", "found", "opened"} \cup Answered]
  BY <1>1 DEF DownloadTypeOK
<1>3. wanted' \in [Readers -> Nat] /\ found' \in [Readers -> Clients \cup {NoVersion}]
      /\ stream' \in [Readers -> Object \cup {NoObject}]
  BY DEF Reply, DownloadTypeOK
<1>4. \A e \in Readers : reading'[e] = "opened" => stream'[e] \in Object
  BY <1>1 DEF Reply, DownloadTypeOK
<1> QED BY <1>2, <1>3, <1>4 DEF DownloadTypeOK, Object

\* A step of a download
LEMMA ReadTypes ==
  ASSUME UploadTypeOK, DownloadTypeOK, NEW d \in Readers, Read(d)
  PROVE  DownloadTypeOK'
<1>1. ASSUME NEW n \in Nat, AskForNumber(d, n) PROVE DownloadTypeOK'
  BY <1>1 DEF AskForNumber, DownloadTypeOK, Object
<1>2. CASE \E n \in 1..Cardinality(Clients) : AskForNumber(d, n)
  <2>1. 1..Cardinality(Clients) \subseteq Nat
    BY ClientsAssumption, FS_CardinalityType
  <2> QED BY <1>1, <1>2, <2>1
<1>3. CASE AskForLatest(d)
  <2>1. Active \in SUBSET Clients /\ num \in [Clients -> Nat]
    BY DEF Active, UploadTypeOK
  <2>2. HighestNumber(Active, num) \in Nat
    BY <2>1, VersionsAreFinite, HighestIsReached
  <2> QED BY <1>1, <1>3, <2>2 DEF AskForLatest
<1>4. CASE GetByVersionNum(d)
  <2>1. PICK v \in Clients \cup {NoVersion} : found' = [found EXCEPT ![d] = v]
    BY <1>4 DEF GetByVersionNum, Active
  <2> QED BY <1>4, <2>1 DEF GetByVersionNum, DownloadTypeOK, Object
<1>5. CASE ReadFile(d)
  <2>1. PICK o \in Object : stream' = [stream EXCEPT ![d] = o]
    BY <1>5 DEF ReadFile, ObjectsOf, At, UploadTypeOK
  <2> QED BY <1>5, <2>1 DEF ReadFile, DownloadTypeOK
<1>6. CASE RefuseDownload(d) \/ QueryFails(d) \/ ObjectIsMissing(d) \/ SendFile(d) \/ DownloadFails(d)
  <2>1. PICK answer \in Answered : Reply(d, answer)
    BY <1>6 DEF RefuseDownload, QueryFails, ObjectIsMissing, SendFile, DownloadFails, Answered
  <2> QED BY <2>1, ReplyTypes
<1> QED BY <1>2, <1>3, <1>4, <1>5, <1>6 DEF Read

\* What a download holds is of its type, for every number of downloads and uploads.
THEOREM DownloadTypeCorrect == DownloadSpec => []DownloadTypeOK
<1>1. DownloadInit => DownloadTypeOK
  BY DEF DownloadInit, DownloadTypeOK
<1>2. UploadTypeOK /\ DownloadTypeOK /\ [DownloadNext]_allVars => DownloadTypeOK'
  <2> SUFFICES ASSUME UploadTypeOK, DownloadTypeOK, [DownloadNext]_allVars PROVE DownloadTypeOK'
    OBVIOUS
  <2>1. CASE UNCHANGED readVars
    BY <2>1 DEF readVars, DownloadTypeOK, Object
  <2> QED BY <2>1, ReadTypes DEF DownloadNext, allVars
<1>3. DownloadSpec => []UploadTypeOK
  BY DownloadsOnlyRead, UploadTypeCorrect, PTL
<1> QED BY <1>1, <1>2, <1>3, PTL DEF DownloadSpec

-----------------------------------------------------------------------------
(* What is sent and what is missed *)

\* The row that a download got is that of its number, and stays registered if not
\* active; what it has opened is that version's own object, whole.
ReadFits(d) ==
    /\ reading[d] \in {"found", "opened"} /\ found[d] # NoVersion =>
          found[d] \in Registry /\ num[found[d]] = wanted[d]
    /\ reading[d] = "opened" => found[d] # NoVersion /\ stream[d] = Own(found[d])

\* No step of an upload takes a version out of the registry, or changes its number
\* or its size.
LEMMA RegistryIsKept ==
  ASSUME SerialInv, SerialInv', RegistryInv, "dbCreate" \notin Faults, [Next]_vars,
         NEW v \in Registry
  PROVE  v \in Registry' /\ num'[v] = num[v] /\ Own(v)' = Own(v)
<1>0. UploadTypeOK /\ UploadTypeOK'
  BY DEF SerialInv
<1>1. size'[v] = size[v]
  BY SizesStay
<1>2. Own(v)' = Own(v)
  BY <1>1 DEF Own
<1>3. CASE row' = row /\ \A w \in Registry : num'[w] = num[w]
  BY <1>2, <1>3 DEF Registry
<1>4. ASSUME NEW r \in Clients, RegisterVersion(r) PROVE v \in Registry' /\ num'[v] = num[v]
  BY <1>0, <1>4 DEF RegisterVersion, Registry, UploadTypeOK, version
<1>5. ASSUME NEW r \in Clients, RotateRow(r) PROVE v \in Registry' /\ num'[v] = num[v]
  <2>1. num' = num
    BY <1>5 DEF RotateRow, version
  <2>2. PICK u : row' = row \/ row' = [row EXCEPT ![u] = IF @ = "active" THEN "deleted" ELSE @]
    BY <1>5 DEF RotateRow, DeleteRow
  <2> QED BY <1>0, <2>1, <2>2 DEF Registry, UploadTypeOK
<1> QED BY <1>0, <1>2, <1>3, <1>4, <1>5, RegistryChanges

\* A step of an upload
LEMMA UploadKeepsReads ==
  ASSUME SerialInv, SerialInv', RegistryInv, "dbCreate" \notin Faults, [Next]_vars,
         UNCHANGED readVars, NEW d \in Readers, ReadFits(d)
  PROVE  ReadFits(d)'
<1>1. UNCHANGED <<reading, wanted, found, stream>>
  BY DEF readVars
<1>2. CASE found[d] = NoVersion
  BY <1>1, <1>2 DEF ReadFits
<1>3. CASE found[d] \in Registry
  <2>1. PICK v \in Registry : v = found[d]
    BY <1>3
  <2>2. v \in Registry' /\ num'[v] = num[v] /\ Own(v)' = Own(v)
    BY RegistryIsKept
  <2>3. Own(found[d]) = Own(v) /\ Own(found[d])' = Own(v)'
    BY <1>1, <2>1
  <2> QED BY <1>1, <2>1, <2>2, <2>3 DEF ReadFits
<1>4. CASE reading[d] \notin {"found", "opened"}
  BY <1>1, <1>4 DEF ReadFits
<1> QED BY <1>2, <1>3, <1>4 DEF ReadFits

\* A step of a download
LEMMA ReadKeepsReads ==
  ASSUME UploadTypeOK, DownloadTypeOK, StoreInv, NEW e \in Readers, Read(e), UNCHANGED vars,
         NEW d \in Readers, ReadFits(d)
  PROVE  ReadFits(d)'
<1> USE DEF DownloadTypeOK
<1>0. Registry' = Registry /\ num' = num /\ size' = size
  BY DEF vars, uploadVars, version, stores, Registry
<1>1. ASSUME NEW answer \in Answered, Reply(e, answer) PROVE ReadFits(d)'
  BY <1>0, <1>1 DEF Reply, Answered, ReadFits, Own
<1>2. ASSUME NEW n, AskForNumber(e, n) PROVE ReadFits(d)'
  BY <1>0, <1>2 DEF AskForNumber, ReadFits, Own
<1>3. CASE GetByVersionNum(e)
  <2>1. PICK v : /\ found' = [found EXCEPT ![e] = v]
                 /\ v = NoVersion \/ (v \in Active /\ num[v] = wanted[e])
    BY <1>3 DEF GetByVersionNum
  <2>2. reading' = [reading EXCEPT ![e] = "found"] /\ UNCHANGED <<wanted, stream>>
    BY <1>3 DEF GetByVersionNum
  <2>3. v = NoVersion \/ (v \in Registry /\ num[v] = wanted[e])
    BY <2>1 DEF Active, Registry
  <2> QED BY <1>0, <2>1, <2>2, <2>3 DEF ReadFits, Own
<1>4. CASE ReadFile(e)
  <2>1. PICK o \in ObjectsOf(found[e]) : stream' = [stream EXCEPT ![e] = o]
    BY <1>4 DEF ReadFile
  <2>2. reading' = [reading EXCEPT ![e] = "opened"] /\ UNCHANGED <<wanted, found>>
        /\ reading[e] = "found"
    BY <1>4 DEF ReadFile
  <2>3. found[e] # NoVersion /\ o \in At(file[found[e]])
    BY <2>1 DEF ObjectsOf
  <2>4. d = e => found[e] \in Registry /\ o = Own(found[e])
    BY <2>2, <2>3 DEF ReadFits, StoreInv, StoredFits
  <2>5. Own(found[d])' = Own(found[d])
    BY <1>0, <2>2 DEF Own
  <2> QED BY <1>0, <2>1, <2>2, <2>3, <2>4, <2>5 DEF ReadFits
<1>5. CASE RefuseDownload(e) \/ QueryFails(e) \/ ObjectIsMissing(e) \/ SendFile(e) \/ DownloadFails(e)
  <2>1. PICK answer \in Answered : Reply(e, answer)
    BY <1>5 DEF RefuseDownload, QueryFails, ObjectIsMissing, SendFile, DownloadFails, Answered
  <2> QED BY <1>1, <2>1
<1> QED BY <1>2, <1>3, <1>4, <1>5 DEF Read, AskForLatest

\* What a download has read agrees with the registry and the storage, although it takes
\* no lock and uploads register and rotate between its readings.
THEOREM ReadInvariance ==
  ASSUME {"overrun", "dbCreate"} \cap Faults = {}, \A s \in Specs : s.versioned,
         StorageIsSound \/ NothingLeftBehind
  PROVE  DownloadSpec => [](SerialInv /\ RegistryInv /\ StoreInv /\ DownloadTypeOK
                            /\ \A d \in Readers : ReadFits(d))
<1> DEFINE Inv == SerialInv /\ RegistryInv /\ StoreInv
           Fits == \A d \in Readers : ReadFits(d)
<1>1. DownloadSpec => []Inv
  <2>1. Spec => [](SerialInv /\ RegistryInv /\ StoreInv /\ (NothingLeftBehind => NoStrays))
    BY StoreInvariance
  <2>2. Spec => []Inv
    BY <2>1, PTL
  <2> QED BY <2>2, DownloadsOnlyRead, PTL
<1>2. DownloadInit => Fits
  BY DEF DownloadInit, ReadFits
<1>3. Inv /\ Inv' /\ DownloadTypeOK /\ Fits /\ [DownloadNext]_allVars => Fits'
  <2> SUFFICES ASSUME Inv, Inv', DownloadTypeOK, Fits, [DownloadNext]_allVars,
                      NEW d \in Readers
               PROVE  ReadFits(d)'
    OBVIOUS
  <2>1. CASE [Next]_vars /\ UNCHANGED readVars
    BY <2>1, UploadKeepsReads
  <2>2. ASSUME NEW e \in Readers, Read(e), UNCHANGED vars PROVE ReadFits(d)'
    BY <2>2, ReadKeepsReads DEF SerialInv
  <2> QED BY <2>1, <2>2 DEF DownloadNext, allVars
<1> QED BY <1>1, <1>2, <1>3, DownloadTypeCorrect, PTL DEF DownloadSpec

\* What the client gets is the version of its number, whole and as it was uploaded,
\* whatever is registered, rotated away or undone between the readings.
THEOREM DownloadsSendWhatWasUploaded ==
  ASSUME {"overrun", "dbCreate"} \cap Faults = {}, \A s \in Specs : s.versioned,
         StorageIsSound \/ NothingLeftBehind
  PROVE  DownloadSpec => SendsWhatWasUploaded
<1> DEFINE Fits == \A d \in Readers : ReadFits(d)
           Sends == \A d \in Readers :
                       reading[d] = "opened" /\ reading'[d] = "sent" =>
                          /\ num[found[d]] = wanted[d]
                          /\ stream[d] = [by |-> found[d], bytes |-> size[found[d]]]
<1>1. Fits /\ [DownloadNext]_allVars => [Sends]_allVars
  BY DEF ReadFits, Own
<1>2. DownloadSpec => []Fits
  BY ReadInvariance, PTL
<1> QED BY <1>1, <1>2, PTL DEF DownloadSpec, SendsWhatWasUploaded

\* The versions newer than a registered one count as registered since.
LEMMA NewerSupersede ==
  ASSUME UploadTypeOK, NEW v \in Registry, Cardinality(NewerThan(v)) >= Limit
  PROVE  Superseded(num[v])
<1> DEFINE since == {w \in Clients : row[w] # "none" /\ num[w] > num[v]}
<1>1. NewerThan(v) \subseteq since /\ since \in SUBSET Clients
  BY DEF NewerThan, Active
<1> HIDE DEF since
<1>2. Cardinality(NewerThan(v)) <= Cardinality(since) /\ Cardinality(since) \in Nat
      /\ Cardinality(NewerThan(v)) \in Nat
  BY <1>1, FewerVersions
<1>3. Cardinality(since) >= Limit
  BY <1>2, LimitIsLeast
<1> QED BY <1>3 DEF Superseded, since

\* A download misses a registered version, its row or its object, only after as many
\* newer versions as the collection keeps have been registered.
THEOREM DownloadsMissOnlySuperseded ==
  ASSUME {"overrun", "dbCreate"} \cap Faults = {}, \A s \in Specs : s.versioned,
         StorageIsSound \/ NothingLeftBehind
  PROVE  DownloadSpec => MissesOnlySuperseded
<1> DEFINE Inv == SerialInv /\ RegistryInv /\ StoreInv /\ DownloadTypeOK
                  /\ \A d \in Readers : ReadFits(d)
           Misses(d) ==
              \/ /\ reading[d] = "numbered" /\ reading'[d] = "found"
                 /\ found'[d] = NoVersion /\ Registered(wanted[d])
              \/ /\ reading[d] = "found" /\ reading'[d] = "missing"
                 /\ found[d] # NoVersion
<1>1. ASSUME Inv, [DownloadNext]_allVars, NEW d \in Readers, Misses(d) PROVE Superseded(wanted[d])
  <2> USE <1>1 DEF DownloadTypeOK
  <2>0. UploadTypeOK
    BY DEF SerialInv
  <2>1. PICK e \in Readers : Read(e)
    BY DEF DownloadNext, allVars, readVars
  <2>2. d = e
    BY <2>1 DEF Read, RefuseDownload, AskForNumber, AskForLatest, GetByVersionNum, QueryFails,
                ReadFile, ObjectIsMissing, SendFile, DownloadFails, Reply
  <2>3. CASE reading[d] = "numbered"
    <3>1. GetByVersionNum(d) /\ found'[d] = NoVersion /\ Registered(wanted[d])
      BY <2>1, <2>2, <2>3 DEF Read, RefuseDownload, AskForNumber, AskForLatest, QueryFails,
                ReadFile, ObjectIsMissing, SendFile, DownloadFails, Reply
    <3>2. {v \in Active : num[v] = wanted[d]} = {}
      BY <3>1, NoVersionAssumption DEF GetByVersionNum, Active
    <3>3. PICK v \in Registry : num[v] = wanted[d]
      BY <3>1 DEF Registered, Registry
    <3>4. row[v] = "deleted"
      BY <2>0, <3>2, <3>3 DEF Registry, Active, UploadTypeOK
    <3>5. Cardinality(NewerThan(v)) >= Limit
      BY <3>4 DEF RegistryInv, DeletedAreSuperseded
    <3> QED BY <2>0, <3>3, <3>5, NewerSupersede
  <2>4. CASE reading[d] = "found"
    <3>1. ObjectIsMissing(d) /\ found[d] # NoVersion
      BY <2>1, <2>2, <2>4 DEF Read, RefuseDownload, AskForNumber, AskForLatest, GetByVersionNum,
                QueryFails, ReadFile, SendFile, DownloadFails, Reply
    <3>2. PICK v \in Registry : v = found[d] /\ num[v] = wanted[d]
      BY <2>4, <3>1 DEF ReadFits
    <3>3. At(file[v]) = {}
      BY <3>1, <3>2 DEF ObjectIsMissing, ObjectsOf
    <3>4. ~Intact(v)
      BY <3>3 DEF Intact, At
    <3>5. Cardinality(NewerThan(v)) >= Limit
      BY <3>4 DEF StoreInv, StoredFits
    <3> QED BY <2>0, <3>2, <3>5, NewerSupersede
  <2> QED BY <2>3, <2>4
<1>2. Inv /\ [DownloadNext]_allVars => [\A d \in Readers : Misses(d) => Superseded(wanted[d])]_allVars
  BY <1>1
<1>3. DownloadSpec => []Inv
  BY ReadInvariance
<1> QED BY <1>2, <1>3, PTL DEF DownloadSpec, MissesOnlySuperseded
=============================================================================
