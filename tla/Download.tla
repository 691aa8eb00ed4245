------------------------------ MODULE Download ------------------------------
(***************************************************************************)
(* GET /api/alpha/repository/collection/:collectionId/version/:versionNum, *)
(* beside the uploads of the same collection: addDownloadRoute of          *)
(* pkg/http/collection.go with GetVersionByNum and ReadFile of             *)
(* pkg/storage.  A download takes no lock.  It reads the highest number,   *)
(* the row and the object one after the other, and an upload can register  *)
(* and rotate between any two of these.                                    *)
(***************************************************************************)
EXTENDS Upload

CONSTANT Readers  \* download requests

VARIABLES
    reading,  \* where each download is, or how it was answered
    wanted,   \* number of the version it is about
    found,    \* the version whose row it got
    stream    \* the object it has opened

readVars == <<reading, wanted, found, stream>>
allVars == <<vars, readVars>>

Answered == {"forbidden", "notFound", "missing", "failed", "sent"}

\* The empty UploadedVersion that a query without a result leaves, and no object
NoVersion == "noVersion"
NoObject == [by |-> NoVersion, bytes |-> 0]

ASSUME NoVersionAssumption == NoVersion \notin Clients

DownloadTypeOK ==
    /\ reading \in [Readers -> {"new", "numbered", "found", "opened"} \cup Answered]
    /\ wanted \in [Readers -> Nat]
    /\ found \in [Readers -> Clients \cup {NoVersion}]
    /\ stream \in [Readers -> Object \cup {NoObject}]
    /\ \A d \in Readers : reading[d] = "opened" => stream[d] \in Object

DownloadInit ==
    /\ Init
    /\ reading = [d \in Readers |-> "new"]
    /\ wanted = [d \in Readers |-> 0]
    /\ found = [d \in Readers |-> NoVersion]
    /\ stream = [d \in Readers |-> NoObject]

\* The response is written and the handler's variables are gone.
Reply(d, answer) ==
    /\ reading' = [reading EXCEPT ![d] = answer]
    /\ wanted' = [wanted EXCEPT ![d] = 0]
    /\ found' = [found EXCEPT ![d] = NoVersion]
    /\ stream' = [stream EXCEPT ![d] = NoObject]

\* No such collection, or CanDownloadFromMe says no.
RefuseDownload(d) ==
    /\ reading[d] = "new"
    /\ Reply(d, "forbidden")

\* A number in the URL is what it is; "latest" is the highest active number
\* (0 in an empty collection, which is no error).
AskForNumber(d, n) ==
    /\ reading[d] = "new"
    /\ reading' = [reading EXCEPT ![d] = "numbered"]
    /\ wanted' = [wanted EXCEPT ![d] = n]
    /\ UNCHANGED <<found, stream>>

AskForLatest(d) == AskForNumber(d, HighestNumber(Active, num))

\* Mutants of GetByVersionNum: the number is not in the condition; it is compared
\* with the first row only.
GetAnyVersion(d) ==
    /\ reading[d] = "numbered"
    /\ reading' = [reading EXCEPT ![d] = "found"]
    /\ \E v \in IF Active = {} THEN {NoVersion} ELSE Active :
          found' = [found EXCEPT ![d] = v]
    /\ UNCHANGED <<wanted, stream>>
GetFirstVersion(d) ==
    /\ reading[d] = "numbered"
    /\ reading' = [reading EXCEPT ![d] = "found"]
    /\ found' = [found EXCEPT ![d] =
                     IF Active # {} /\ num[OldestOf(Active)] = wanted[d]
                     THEN OldestOf(Active) ELSE NoVersion]
    /\ UNCHANGED <<wanted, stream>>

\* Limit(1).Find: any active row with the number; none is not an error.
GetByVersionNum(d) ==
    /\ reading[d] = "numbered"
    /\ reading' = [reading EXCEPT ![d] = "found"]
    /\ LET matching == {v \in Active : num[v] = wanted[d]}
       IN  \E v \in IF matching = {} THEN {NoVersion} ELSE matching :
              found' = [found EXCEPT ![d] = v]
    /\ UNCHANGED <<wanted, stream>>

\* A statement fails: "cannot find specified version".
QueryFails(d) ==
    /\ reading[d] \in {"new", "numbered"}
    /\ Reply(d, "notFound")

\* Mutant of ObjectsOf: the path "/" can be opened, and is empty.
ObjectsOfAnyPath(v) == IF v = NoVersion THEN {NoObject} ELSE At(file[v])

\* What is stored at GetTargetPath of the row; nothing is at the path "/".
ObjectsOf(v) == IF v = NoVersion THEN {} ELSE At(file[v])

ReadFile(d) ==
    /\ reading[d] = "found"
    /\ \E o \in ObjectsOf(found[d]) : stream' = [stream EXCEPT ![d] = o]
    /\ reading' = [reading EXCEPT ![d] = "opened"]
    /\ UNCHANGED <<wanted, found>>

\* NewReader reports that there is no object.  The deferred Close of the nil
\* reader panics after the answer; gin recovers with the same status 500.
ObjectIsMissing(d) ==
    /\ reading[d] = "found"
    /\ ObjectsOf(found[d]) = {}
    /\ Reply(d, "missing")

\* CopyStream to the end of the object.  An object that is deleted or replaced
\* meanwhile is either read to its end or breaks off.
SendFile(d) ==
    /\ reading[d] = "opened"
    /\ Reply(d, "sent")

\* The storage fails, the client goes away, or the timeout fires.
DownloadFails(d) ==
    /\ reading[d] \in {"found", "opened"}
    /\ Reply(d, "failed")

Read(d) ==
    \/ RefuseDownload(d)
    \/ \E n \in 1..Cardinality(Clients) : AskForNumber(d, n)
    \/ AskForLatest(d)
    \/ GetByVersionNum(d) \/ QueryFails(d)
    \/ ReadFile(d) \/ ObjectIsMissing(d)
    \/ SendFile(d) \/ DownloadFails(d)

DownloadNext ==
    \/ Next /\ UNCHANGED readVars
    \/ \E d \in Readers : Read(d) /\ UNCHANGED vars

DownloadSpec == DownloadInit /\ [][DownloadNext]_allVars

-----------------------------------------------------------------------------
(* Properties *)

\* What the client gets is the version of its number, whole and as it was
\* uploaded, of the length that the header Content-Length says: whatever was
\* registered, rotated away, undone or overwritten between the three readings.
SendsWhatWasUploaded ==
    [][\A d \in Readers :
          reading[d] = "opened" /\ reading'[d] = "sent" =>
             /\ num[found[d]] = wanted[d]
             /\ stream[d] = [by |-> found[d], bytes |-> size[found[d]]]]_allVars

\* As many newer versions as the collection keeps have been registered.
Registered(n) == \E v \in Clients : row[v] # "none" /\ num[v] = n
Superseded(n) ==
    Cardinality({v \in Clients : row[v] # "none" /\ num[v] > n}) >= Limit

\* A download misses a version that was registered, its row or the object of
\* its row, only when as many newer ones as the collection keeps have been
\* registered since: "latest" fails only after being overtaken that often, and
\* not because an upload happens to rotate.
MissesOnlySuperseded ==
    [][\A d \in Readers :
          \/ /\ reading[d] = "numbered" /\ reading'[d] = "found"
             /\ found'[d] = NoVersion /\ Registered(wanted[d])
          \/ /\ reading[d] = "found" /\ reading'[d] = "missing"
             /\ found[d] # NoVersion
          => Superseded(wanted[d])]_allVars
=============================================================================
