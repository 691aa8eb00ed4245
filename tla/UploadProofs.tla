---------------------------- MODULE UploadProofs ----------------------------
(***************************************************************************)
(* The upload handler, for any finite set of requests and any limits, body *)
(* sizes, faults and crashes: it inherits the exclusion of the lock        *)
(* service; its registry is a Retention; and, within the leases, rotation  *)
(* catches up with the limit, what the registry lists is intact, nothing   *)
(* is orphaned and the quota is held.                                      *)
(*                                                                         *)
(* The invariants build on one another: UploadTypeOK, RegistryInv (what a  *)
(* request knows of the registry at each stage), CatchInv (how many rows   *)
(* its plan leaves), StoreInv (which object is at whose path) and SpaceInv *)
(* (how much room a plan leaves, whatever earlier requests left behind).   *)
(***************************************************************************)
EXTENDS Upload, LocksProofs, SetLemmas

\* The steps that touch the lock service; all others leave it alone.
LEMMA UploadStepOnLocks ==
  ASSUME [Next]_vars
  PROVE  \/ \E r \in Clients :
               Admit(r) \/ LockStep(r) \/ Release(r) \/ Crash(r)
         \/ LeaseEnds
         \/ UNCHANGED lockVars
<1>1. ASSUME NEW r \in Clients,
             Refuse(r) \/ ClientCancels(r) \/ RequestTimesOut(r)
      PROVE  UNCHANGED lockVars
  BY <1>1 DEF Refuse, ClientCancels, RequestTimesOut
<1>2. ASSUME NEW r \in Clients, Handler(r), ~LockStep(r), ~Release(r)
      PROVE  UNCHANGED lockVars
  <2>1. CASE CreateNewVersion(r) \/ CreateRotationStrategyCase(r)
             \/ EarlyReturn(r) \/ CreateStandardMiddleWares(r)
             \/ CollectionIsCorrupted(r)
    BY <2>1 DEF CreateNewVersion, CreateRotationStrategyCase, EarlyReturn,
                CreateStandardMiddleWares, CollectionIsCorrupted
  <2>2. CASE CopyStream(r) \/ CopyStreamFails(r) \/ CloseWriter(r)
             \/ CheckObject(r) \/ CheckObjectFails(r) \/ UploadFilePanics(r)
    BY <2>2 DEF CopyStream, CopyStreamFails, CloseWriter, CheckObject,
                CheckObjectFails, UploadFilePanics
  <2>3. CASE ContextIsLive(r) \/ ContextIsCancelled(r) \/ RegisterVersion(r)
             \/ RegisterVersionFails(r)
    BY <2>3 DEF ContextIsLive, ContextIsCancelled, RegisterVersion,
                RegisterVersionFails
  <2>4. CASE UndoRow(r) \/ UndoObject(r) \/ RotateRow(r) \/ RotateObject(r)
             \/ Uploaded(r)
    BY <2>4 DEF UndoRow, UndoObject, RotateRow, RotateObject, Uploaded
  <2> QED BY <1>2, <2>1, <2>2, <2>3, <2>4 DEF Handler
<1>3. ASSUME ConfigurationChanges \/ Finished \/ UNCHANGED vars PROVE UNCHANGED lockVars
  BY <1>3 DEF ConfigurationChanges, Finished, vars
<1> QED BY <1>1, <1>2, <1>3 DEF Next

\* Every step of the handler and of its environment is a step of the lock
\* service, or leaves it alone.
LEMMA UploadStepIsLockStep == [Next]_vars => [LockNext]_lockVars
<1> SUFFICES ASSUME [Next]_vars PROVE [LockNext]_lockVars
  OBVIOUS
<1>1. ASSUME NEW r \in Clients, Admit(r) PROVE LockNext
  BY <1>1, CollectionAssumption DEF Admit, LockNext
<1>2. ASSUME NEW r \in Clients, LockStep(r) PROVE LockNext
  BY <1>2 DEF LockStep, LockNext
<1>3. ASSUME NEW r \in Clients, Release(r) PROVE LockNext
  BY <1>3 DEF Release, LockNext
<1>4. ASSUME NEW r \in Clients, Crash(r) PROVE LockNext
  BY <1>4 DEF Crash, LockNext
<1>5. ASSUME LeaseEnds PROVE LockNext
  BY <1>5, CollectionAssumption DEF LeaseEnds, LockNext
<1> QED BY <1>1, <1>2, <1>3, <1>4, <1>5, UploadStepOnLocks

\* The upload handler implements the lock service's protocol.
THEOREM UploadImplementsLocks == Spec => LockSpec
<1>1. Init => LockInit
  BY DEF Init
<1> QED BY <1>1, UploadStepIsLockStep, PTL DEF Spec, LockSpec

\* Whatever goes wrong, overruns included: two requests are in the handler's
\* body together only while one of them has outlived its lease.
THEOREM UploadExclusiveWithinLease == Spec => []ExclusiveWithinLease
  BY UploadImplementsLocks, LockExclusive, PTL

\* Only LeaseEnds can add to the overrun ids, and only with that fault.
LEMMA NoOverrunStep ==
  ASSUME "overrun" \notin Faults, LockTypeOK, overrun = {}, [Next]_vars
  PROVE  overrun' = {}
<1>1. ASSUME NEW r \in Clients, Admit(r) PROVE overrun' = {}
  BY <1>1 DEF Admit, Select
<1>2. ASSUME NEW r \in Clients, LockStep(r) PROVE overrun' = {}
  BY <1>2 DEF LockStep, LockCall, SkipCleanUp, CleanUp, AddLock, AddLockFails
<1>3. ASSUME NEW r \in Clients, Release(r) \/ Crash(r) PROVE overrun' = {}
  BY <1>3 DEF Release, Crash, Unlock, UnlockFails, Die, HolderLeft
<1>4. ASSUME LeaseEnds PROVE overrun' = {}
  BY <1>4 DEF LeaseEnds, LeaseExpires
<1>5. CASE UNCHANGED lockVars
  BY <1>5 DEF lockVars
<1> QED BY <1>1, <1>2, <1>3, <1>4, <1>5, UploadStepOnLocks

\* "Do not allow parallel uploads to the same collection": proved for every
\* number of requests and every set of faults without an overrun.
THEOREM UploadsAreNotParallel ==
  ASSUME "overrun" \notin Faults
  PROVE  Spec => []NoParallelUploads
<1> DEFINE Inv == LockInv /\ overrun = {}
<1>1. Init => Inv
  BY LockInitInv DEF Init, LockInit
<1>2. Inv /\ [Next]_vars => Inv'
  BY LockInvStep, UploadStepIsLockStep, NoOverrunStep DEF LockInv
<1>3. Inv => NoParallelUploads
  <2> SUFFICES ASSUME Inv, NEW r \in Clients, NEW s \in Clients,
                      InUpload(r), InUpload(s)
               PROVE  r = s
    BY DEF NoParallelUploads
  <2>1. Holds(r, Collection) /\ Holds(s, Collection)
    BY CollectionAssumption DEF InUpload, Holds, LockInv, LockTypeOK
  <2>2. Collection \in Ids \ overrun
    BY CollectionAssumption
  <2> QED BY <2>1, <2>2, BackedIsExclusive DEF LockInv, ExclusiveWithinLease
<1> QED BY <1>1, <1>2, <1>3, PTL DEF Spec

-----------------------------------------------------------------------------
(* Type correctness *)

\* Lock types are those of the lock service, whatever the handler does.
LEMMA UploadLockTypeStep == LockTypeOK /\ [Next]_vars => LockTypeOK'
  BY LockTypeStep, UploadStepIsLockStep

\* A document that has not been read is one of the documents.
LEMMA UnreadIsSpec == Unread \in Specs
  BY SpecsAssumption DEF Unread

\* A step that ends the handler
LEMMA LeaveTypes ==
  ASSUME UploadTypeOK, NEW r \in Clients, Leave(r)
  PROVE  /\ spec' \in Specs
         /\ coll' \in [Clients -> Specs]
         /\ pc' \in [Clients -> Stages]
         /\ ctx' \in [Clients -> {"live", "cancelled", "timedOut"}]
         /\ num' \in [Clients -> Nat]
         /\ file' \in [Clients -> Nat]
         /\ size' \in [Clients -> Nat]
         /\ maxAllowed' \in [Clients -> Nat]
         /\ toDelete' \in [Clients -> SUBSET Clients]
         /\ row' \in [Clients -> {"none", "active", "deleted"}]
         /\ objects' \subseteq Object
<1>1. pc' \in [Clients -> Stages]
  BY DEF Leave, Goto, UploadTypeOK, Stages
<1>2. /\ coll' \in [Clients -> Specs]
      /\ ctx' \in [Clients -> {"live", "cancelled", "timedOut"}]
      /\ maxAllowed' \in [Clients -> Nat]
      /\ toDelete' \in [Clients -> SUBSET Clients]
  BY UnreadIsSpec DEF Leave, UploadTypeOK
<1>3. num' \in [Clients -> Nat] /\ file' \in [Clients -> Nat] /\ size' \in [Clients -> Nat]
  BY DEF Leave, UploadTypeOK, version
<1>4. /\ spec' \in Specs
      /\ row' \in [Clients -> {"none", "active", "deleted"}]
      /\ objects' \subseteq Object
  BY DEF Leave, UploadTypeOK, stores
<1> QED BY <1>1, <1>2, <1>3, <1>4

\* The steps of the handler before the stream
LEMMA PreparationTypes ==
  ASSUME UploadTypeOK, LockTypeOK', NEW r \in Clients,
         \/ CreateNewVersion(r) \/ CreateRotationStrategyCase(r) \/ EarlyReturn(r)
         \/ CreateStandardMiddleWares(r) \/ CollectionIsCorrupted(r)
  PROVE  UploadTypeOK'
<1> USE DEF UploadTypeOK, Goto, Respond, config, version, plan, stores
<1>0. Active \subseteq Clients /\ IsFiniteSet(Active)
  BY ClientsAssumption, FS_Subset DEF Active
<1>1. CASE CreateNewVersion(r)
  <2>1. HighestNumber(Active, num) \in Nat
    BY <1>0, HighestIsReached
  <2>2. NextVersionNumber(Active, num) \in Nat
    BY <2>1 DEF NextVersionNumber
  <2>3. GenerateNextVersionFilename(coll[r], NextVersionNumber(Active, num)) \in Nat
    BY <2>2 DEF GenerateNextVersionFilename
  <2> QED BY <1>1, <2>2, <2>3 DEF CreateNewVersion, Stages
<1>2. CASE CreateRotationStrategyCase(r)
  <2>1. PICK doomed \in VersionsToDelete(coll[r], Active, num) :
           toDelete' = [toDelete EXCEPT ![r] = doomed]
    BY <1>2 DEF CreateRotationStrategyCase
  <2>2. IsSpec(coll[r])
    BY SpecsAssumption
  <2>4. doomed \subseteq Active
    BY ONLY <1>0, <2>1, <2>2, PlanIsFifo
  <2>3. doomed \in SUBSET Clients
    BY <1>0, <2>4
  <2> QED BY <1>2, <2>1, <2>3 DEF CreateRotationStrategyCase, Stages
<1>3. CASE EarlyReturn(r) \/ CollectionIsCorrupted(r)
  BY <1>3 DEF EarlyReturn, CollectionIsCorrupted, Stages
<1>4. CASE CreateStandardMiddleWares(r)
  <2>1. MaximumAllowedFilesize(coll[r], Active, toDelete[r], size) \in Nat
    <3>1. IsSpec(coll[r]) /\ \A v \in Active : size[v] \in Nat
      BY <1>0, SpecsAssumption
    <3> QED BY <1>0, <1>4, <3>1, AllowedIsAtLeastOne DEF CreateStandardMiddleWares
  <2> QED BY <1>4, <2>1 DEF CreateStandardMiddleWares, Stages
<1> QED BY <1>1, <1>2, <1>3, <1>4

\* What is written is an object of its writer.
LEMMA PutTypes ==
  ASSUME objects \subseteq Object, NEW r \in Clients, NEW n \in Nat
  PROVE  Put(r, n) \subseteq Object
  BY DEF Put, At, Object

\* UploadFile and what undoes it
LEMMA StreamTypes ==
  ASSUME UploadTypeOK, LockTypeOK', NEW r \in Clients,
         \/ CopyStream(r) \/ CopyStreamFails(r) \/ CloseWriter(r)
         \/ CheckObject(r) \/ CheckObjectFails(r) \/ UploadFilePanics(r)
  PROVE  UploadTypeOK'
<1> USE DEF UploadTypeOK, Goto, Respond, config, version, plan, stores
<1>1. CASE CopyStream(r)
  BY <1>1, UploadSizesAssumption DEF CopyStream, Stages
<1>2. CASE CopyStreamFails(r)
  <2>1. objects' \subseteq Object
    BY <1>2, PutTypes, UploadSizesAssumption DEF CopyStreamFails
  <2> QED BY <1>2, <2>1 DEF CopyStreamFails, Stages
<1>3. CASE CloseWriter(r)
  <2>1. objects' \subseteq Object
    BY <1>3, PutTypes DEF CloseWriter
  <2> QED BY <1>3, <2>1 DEF CloseWriter, Stages
<1>4. CASE CheckObject(r) \/ CheckObjectFails(r) \/ UploadFilePanics(r)
  BY <1>4 DEF CheckObject, CheckObjectFails, UploadFilePanics, Stages
<1> QED BY <1>1, <1>2, <1>3, <1>4

\* Registration, undo and rotation
LEMMA RegistrationTypes ==
  ASSUME UploadTypeOK, LockTypeOK', NEW r \in Clients,
         \/ ContextIsLive(r) \/ ContextIsCancelled(r)
         \/ RegisterVersion(r) \/ RegisterVersionFails(r)
         \/ UndoRow(r) \/ UndoObject(r)
         \/ RotateRow(r) \/ RotateObject(r) \/ Uploaded(r)
  PROVE  UploadTypeOK'
<1> USE DEF UploadTypeOK, Goto, Respond, config, version, plan, stores
<1>1. CASE ContextIsLive(r) \/ ContextIsCancelled(r) \/ Uploaded(r)
  BY <1>1 DEF ContextIsLive, ContextIsCancelled, Uploaded, Stages
<1>2. CASE RegisterVersion(r) \/ RegisterVersionFails(r)
  BY <1>2 DEF RegisterVersion, RegisterVersionFails, Stages
<1>3. ASSUME NEW v, DeleteRow(v) PROVE row' \in [Clients -> {"none", "active", "deleted"}]
  BY <1>3 DEF DeleteRow
<1>4. ASSUME NEW v, DeleteObject(v) PROVE objects' \subseteq Object
  BY <1>4 DEF DeleteObject
<1>5. CASE UndoRow(r)
  BY <1>3, <1>5 DEF UndoRow, Stages
<1>6. CASE UndoObject(r)
  BY <1>4, <1>6 DEF UndoObject, Stages
<1>7. CASE RotateRow(r)
  BY <1>3, <1>7 DEF RotateRow, Stages
<1>8. CASE RotateObject(r)
  BY <1>4, <1>8 DEF RotateObject, Stages
<1> QED BY <1>1, <1>2, <1>5, <1>6, <1>7, <1>8

\* Every step of the handler and of its environment keeps the types.
LEMMA UploadTypeStep == UploadTypeOK /\ [Next]_vars => UploadTypeOK'
<1> SUFFICES ASSUME UploadTypeOK, [Next]_vars PROVE UploadTypeOK'
  OBVIOUS
<1>0. LockTypeOK'
  BY UploadLockTypeStep DEF UploadTypeOK
<1>1. ASSUME NEW r \in Clients, Refuse(r) \/ Admit(r) PROVE UploadTypeOK'
  BY <1>0, <1>1 DEF Refuse, Admit, UploadTypeOK, Goto, Stages, config, version, plan, stores
<1>2. ASSUME NEW r \in Clients, LockStep(r) PROVE UploadTypeOK'
  <2>1. CASE UNCHANGED uploadVars
    BY <1>0, <2>1 DEF uploadVars, UploadTypeOK, config, version, plan, stores
  <2>2. CASE Goto(r, "locked") /\ UNCHANGED <<config, ctx, outcome, version, plan, stores>>
    BY <1>0, <2>2 DEF UploadTypeOK, Goto, Stages, config, version, plan, stores
  <2>3. CASE Leave(r) /\ outcome' = [outcome EXCEPT ![r] = "error"]
    BY <1>0, <2>3, LeaveTypes DEF UploadTypeOK
  <2> QED BY <1>2, <2>1, <2>2, <2>3 DEF LockStep
<1>3. ASSUME NEW r \in Clients, Release(r) PROVE UploadTypeOK'
  BY <1>0, <1>3, LeaveTypes DEF Release, UploadTypeOK
<1>4. ASSUME NEW r \in Clients, Crash(r) PROVE UploadTypeOK'
  <2>1. outcome' \in [Clients -> {"none", "ok", "error", "corrupted"}]
    BY <1>4 DEF Crash, UploadTypeOK
  <2> QED BY <1>0, <1>4, <2>1, LeaveTypes DEF Crash, UploadTypeOK
<1>5. ASSUME NEW r \in Clients, Handler(r) PROVE UploadTypeOK'
  BY <1>0, <1>2, <1>3, <1>5, PreparationTypes, StreamTypes, RegistrationTypes DEF Handler
<1>6. ASSUME NEW r \in Clients, ClientCancels(r) \/ RequestTimesOut(r) PROVE UploadTypeOK'
  BY <1>0, <1>6 DEF ClientCancels, RequestTimesOut, UploadTypeOK, config, version, plan, stores
<1>7. CASE ConfigurationChanges
  BY <1>0, <1>7 DEF ConfigurationChanges, UploadTypeOK, version, plan, stores
<1>8. CASE LeaseEnds \/ Finished \/ UNCHANGED vars
  BY <1>0, <1>8 DEF LeaseEnds, Finished, vars, uploadVars, UploadTypeOK, config, version, plan, stores
<1> QED BY <1>1, <1>3, <1>4, <1>5, <1>6, <1>7, <1>8 DEF Next

\* For every set of requests, documents, body sizes and faults: the handler's state
\* is of its type.  In particular the limit that CalculateMaximumAllowedUploadFilesize
\* gives the quota middleware is never negative.
THEOREM UploadTypeCorrect == Spec => []UploadTypeOK
<1>1. Init => UploadTypeOK
  BY LockInitInv, UnreadIsSpec DEF Init, UploadTypeOK, LockInv, Stages
<1> QED BY <1>1, UploadTypeStep, PTL DEF Spec

-----------------------------------------------------------------------------
(* Where a request is and what it holds *)

\* Between Lock and the deferred Unlock
Body == Stages \ {"new", "locking", "done"}

\* A request is in the handler's body exactly while it holds the lock.
PhaseFollowsPc ==
    \A r \in Clients :
        /\ pc[r] \in Body <=> phase[r] = "held"
        /\ pc[r] \in {"new", "done"} <=> phase[r] = "idle"

\* The steps of the handler between Lock and Unlock
BodyStep(r) ==
    \/ CreateNewVersion(r) \/ CreateRotationStrategyCase(r) \/ EarlyReturn(r)
    \/ CreateStandardMiddleWares(r) \/ CollectionIsCorrupted(r)
    \/ CopyStream(r) \/ CopyStreamFails(r) \/ CloseWriter(r)
    \/ CheckObject(r) \/ CheckObjectFails(r) \/ UploadFilePanics(r)
    \/ ContextIsLive(r) \/ ContextIsCancelled(r)
    \/ RegisterVersion(r) \/ RegisterVersionFails(r)
    \/ UndoRow(r) \/ UndoObject(r)
    \/ RotateRow(r) \/ RotateObject(r) \/ Uploaded(r)

\* A context is cancelled or times out once.
ContextFollows(r) ==
    \/ ctx'[r] = ctx[r]
    \/ ctx[r] = "live" /\ ctx'[r] = "cancelled" /\ "cancel" \in Faults
    \/ ctx[r] = "live" /\ ctx'[r] = "timedOut" /\ "timeout" \in Faults

\* The steps that move no request and touch no version, no row and no object
Bystander ==
    /\ UNCHANGED <<coll, pc, outcome, version, plan, stores>>
    /\ \A r \in Clients : phase'[r] = phase[r]
    /\ \A r \in Clients : ContextFollows(r)

\* Every step is one of these.
LEMMA StepCases ==
  ASSUME UploadTypeOK, [Next]_vars
  PROVE  \/ \E r \in Clients : Refuse(r) \/ Admit(r) \/ LockStep(r)
                               \/ Release(r) \/ Crash(r) \/ BodyStep(r)
         \/ Bystander
<1> USE DEF Bystander, ContextFollows, UploadTypeOK, version, plan, stores
<1>1. ASSUME NEW r \in Clients, ClientCancels(r) \/ RequestTimesOut(r) PROVE Bystander
  BY <1>1 DEF ClientCancels, RequestTimesOut, config, lockVars
<1>2. CASE ConfigurationChanges
  BY <1>2 DEF ConfigurationChanges, lockVars
<1>3. CASE LeaseEnds
  BY <1>3 DEF LeaseEnds, LeaseExpires, uploadVars, config
<1>4. CASE Finished \/ UNCHANGED vars
  BY <1>4 DEF Finished, vars, uploadVars, config, lockVars
<1> QED BY <1>1, <1>2, <1>3, <1>4 DEF Next, Handler, BodyStep

\* A step of the body starts and ends in it, and holds on to the lock.
LEMMA BodyStepStays ==
  ASSUME UploadTypeOK, NEW r \in Clients, BodyStep(r)
  PROVE  /\ pc[r] \in Body /\ pc'[r] \in Body
         /\ \A s \in Clients \ {r} : pc'[s] = pc[s]
         /\ UNCHANGED lockVars
<1> USE DEF UploadTypeOK, Goto, Respond, Body, Stages
<1>1. CASE CreateNewVersion(r) \/ CreateRotationStrategyCase(r) \/ EarlyReturn(r)
           \/ CreateStandardMiddleWares(r) \/ CollectionIsCorrupted(r)
  BY <1>1 DEF CreateNewVersion, CreateRotationStrategyCase, EarlyReturn,
              CreateStandardMiddleWares, CollectionIsCorrupted
<1>2. CASE CopyStream(r) \/ CopyStreamFails(r) \/ CloseWriter(r)
           \/ CheckObject(r) \/ CheckObjectFails(r) \/ UploadFilePanics(r)
  BY <1>2 DEF CopyStream, CopyStreamFails, CloseWriter, CheckObject,
              CheckObjectFails, UploadFilePanics, NilDereference
<1>3. CASE ContextIsLive(r) \/ ContextIsCancelled(r) \/ RegisterVersion(r)
           \/ RegisterVersionFails(r)
  BY <1>3 DEF ContextIsLive, ContextIsCancelled, RegisterVersion, RegisterVersionFails
<1>4. CASE UndoRow(r) \/ UndoObject(r) \/ RotateRow(r) \/ RotateObject(r) \/ Uploaded(r)
  BY <1>4 DEF UndoRow, UndoObject, RotateRow, RotateObject, Uploaded
<1> QED BY <1>1, <1>2, <1>3, <1>4 DEF BodyStep

\* Where a request is agrees with what the lock service knows of it.
LEMMA PhaseStep ==
  ASSUME UploadTypeOK, UploadTypeOK', PhaseFollowsPc, [Next]_vars
  PROVE  PhaseFollowsPc'
<1> USE DEF UploadTypeOK, LockTypeOK, PhaseFollowsPc, Body, Stages, Phases
<1>1. ASSUME NEW r \in Clients, Refuse(r) PROVE PhaseFollowsPc'
  BY <1>1 DEF Refuse, Goto, lockVars
<1>2. ASSUME NEW r \in Clients, Admit(r) PROVE PhaseFollowsPc'
  BY <1>2 DEF Admit, Goto, Select
<1>3. ASSUME NEW r \in Clients, LockStep(r) PROVE PhaseFollowsPc'
  <2>1. phase' \in [Clients -> Phases] /\ \A s \in Clients \ {r} : phase'[s] = phase[s]
    BY <1>3 DEF LockStep, LockCall, SkipCleanUp, CleanUp, AddLock, AddLockFails
  <2>2. CASE phase'[r] = "adding" /\ UNCHANGED uploadVars
    BY <1>3, <2>1, <2>2 DEF LockStep, uploadVars
  <2>3. CASE phase'[r] = "held" /\ Goto(r, "locked")
    BY <2>1, <2>3 DEF Goto
  <2>4. CASE phase'[r] = "idle" /\ Leave(r)
    BY <2>1, <2>4 DEF Leave, Goto
  <2> QED BY <1>3, <2>2, <2>3, <2>4 DEF LockStep
<1>4. ASSUME NEW r \in Clients, Release(r) PROVE PhaseFollowsPc'
  BY <1>4 DEF Release, Unlock, UnlockFails, Leave, Goto
<1>5. ASSUME NEW r \in Clients, Crash(r) PROVE PhaseFollowsPc'
  BY <1>5 DEF Crash, Die, Leave, Goto
<1>6. ASSUME NEW r \in Clients, BodyStep(r) PROVE PhaseFollowsPc'
  <2>1. /\ pc[r] \in Body /\ pc'[r] \in Body
        /\ \A s \in Clients \ {r} : pc'[s] = pc[s]
        /\ UNCHANGED lockVars
    BY <1>6, BodyStepStays
  <2> QED BY <2>1 DEF lockVars
<1>7. CASE Bystander
  BY <1>7 DEF Bystander
<1> QED BY <1>1, <1>2, <1>3, <1>4, <1>5, <1>6, <1>7, StepCases

\* One upload at a time is in the body.
OneAtATime == \A r, s \in Clients : pc[r] \in Body /\ pc[s] \in Body => r = s

\* What the lock gives the handler, where no handler outlives its lease
SerialInv == UploadTypeOK /\ LockInv /\ overrun = {} /\ PhaseFollowsPc

\* Exclusion in terms of where the requests are
LEMMA SerialIsOneAtATime == SerialInv => OneAtATime
<1> SUFFICES ASSUME SerialInv, NEW r \in Clients, NEW s \in Clients,
                    pc[r] \in Body, pc[s] \in Body
             PROVE  r = s
  BY DEF OneAtATime
<1>1. Holds(r, Collection) /\ Holds(s, Collection)
  BY CollectionAssumption DEF SerialInv, PhaseFollowsPc, Holds, LockInv, LockTypeOK
<1>2. Collection \in Ids \ overrun
  BY CollectionAssumption DEF SerialInv
<1> QED BY <1>1, <1>2, BackedIsExclusive DEF SerialInv, LockInv, ExclusiveWithinLease

\* Initially
LEMMA SerialInit == Init => SerialInv
<1> SUFFICES ASSUME Init PROVE SerialInv
  OBVIOUS
<1>1. UploadTypeOK
  BY LockInitInv, UnreadIsSpec DEF Init, UploadTypeOK, LockInv, Stages
<1>2. LockInv /\ overrun = {}
  BY LockInitInv DEF Init, LockInit
<1>3. PhaseFollowsPc
  BY DEF Init, LockInit, PhaseFollowsPc, Body
<1> QED BY <1>1, <1>2, <1>3 DEF SerialInv

\* And always
LEMMA SerialStep ==
  ASSUME "overrun" \notin Faults
  PROVE  SerialInv /\ [Next]_vars => SerialInv'
<1> SUFFICES ASSUME SerialInv, [Next]_vars PROVE SerialInv'
  OBVIOUS
<1>1. UploadTypeOK'
  BY UploadTypeStep DEF SerialInv
<1>2. LockInv'
  BY UploadStepIsLockStep, LockInvStep DEF SerialInv
<1>3. overrun' = {}
  BY NoOverrunStep DEF SerialInv, UploadTypeOK
<1>4. PhaseFollowsPc'
  BY <1>1, PhaseStep DEF SerialInv
<1> QED BY <1>1, <1>2, <1>3, <1>4 DEF SerialInv

-----------------------------------------------------------------------------
(* The registry of versions *)

\* Versions that have or had a row; the numbers that have been given out
Registry == {v \in Clients : row[v] # "none"}

\* Before the INSERT; after numbering and before the INSERT; while the list of
\* versions to delete still counts
Unregistered == Stages \ {"rotating", "rotatingObject", "releasing", "done"}
Numbered == Unregistered \ {"new", "locking", "locked"}
Planned == Stages \ {"new", "locking", "locked", "numbered", "undoRow", "undoObject",
                     "releasing", "done"}

\* A version is registered between "registering" and "rotating", and 200 is answered
\* only for a registered one.
RowFits(r) ==
    /\ pc[r] \in Unregistered => row[r] = "none"
    /\ pc[r] \in {"rotating", "rotatingObject"} => row[r] = "active"
    /\ pc[r] \in {"undoRow", "undoObject"} => outcome[r] # "none"
    /\ outcome[r] = "ok" => row[r] # "none"

\* The number that a request has computed is the next one that was never given out.
IsNext(r) ==
    /\ \A v \in Registry : num[v] < num[r]
    /\ num[r] = 1 \/ \E v \in Registry : num[v] + 1 = num[r]

\* The versions that stay and are newer than v, the request's own aside
StaysOver(r, v) == {w \in Active \ toDelete[r] : w # r /\ num[w] > num[v]}

\* With the request's own version there are as many newer ones as are to be kept.
PlanFits(r) ==
    /\ toDelete[r] \subseteq Registry \ {r}
    /\ \A v \in toDelete[r] :
          /\ num[v] < num[r]
          /\ Cardinality(StaysOver(r, v)) >= coll[r].maxBackupsCount - 1

RequestFits(r) ==
    /\ RowFits(r)
    /\ pc[r] \in Numbered => IsNext(r)
    /\ pc[r] \in Planned => PlanFits(r)

\* No number is given out twice, not even that of a deleted version: one that is
\* active is always at least as high.
NumbersAreDistinct ==
    /\ \A v \in Registry : num[v] >= 1
    /\ \A v, w \in Registry : num[v] = num[w] => v = w
    /\ \A v \in Registry : \E w \in Active : num[v] <= num[w]

DeletedAreSuperseded ==
    \A v \in Registry : row[v] = "deleted" => Cardinality(NewerThan(v)) >= Limit

RegistryInv ==
    /\ NumbersAreDistinct
    /\ DeletedAreSuperseded
    /\ \A r \in Clients : RequestFits(r)

\* Any set of versions is finite.
LEMMA VersionsAreFinite == ASSUME NEW S \in SUBSET Clients PROVE IsFiniteSet(S) /\ Cardinality(S) \in Nat
  BY ClientsAssumption, FS_Subset, FS_CardinalityType

\* Fewer versions are not more.
LEMMA FewerVersions ==
  ASSUME NEW S \in SUBSET Clients, NEW T \in SUBSET S
  PROVE  Cardinality(T) \in Nat /\ Cardinality(S) \in Nat /\ Cardinality(T) <= Cardinality(S)
  BY VersionsAreFinite, FS_Subset, T \in SUBSET Clients

\* Limit is the least of the documents' limits.
LEMMA LimitIsLeast == Limit \in Nat /\ \A s \in Specs : Limit <= s.maxBackupsCount
<1> DEFINE S == {s.maxBackupsCount : s \in Specs}
<1>1. S \in SUBSET Nat /\ S # {}
  BY SpecsAssumption DEF IsSpec
<1>2. Min(S) \in S /\ \A y \in S : Min(S) <= y
  <2> HIDE DEF S
  <2> QED BY <1>1, MinIsLeast
<1> QED BY <1>1, <1>2 DEF Limit

\* A step that changes no row, and no number of a registered version, keeps the
\* registry's part of the invariant, and everything about the requests that it
\* leaves alone.
LEMMA QuietStep ==
  ASSUME UploadTypeOK, UploadTypeOK', RegistryInv, NEW r \in Clients,
         row' = row, \A v \in Registry : num'[v] = num[v],
         \A s \in Clients \ {r} :
             /\ pc'[s] = pc[s] /\ outcome'[s] = outcome[s] /\ num'[s] = num[s]
             /\ toDelete'[s] = toDelete[s] /\ coll'[s] = coll[s],
         RequestFits(r)'
  PROVE  RegistryInv'
<1>0. Registry' = Registry /\ Active' = Active /\ Active \subseteq Registry
  BY DEF Registry, Active
<1>1. NumbersAreDistinct'
  BY <1>0 DEF RegistryInv, NumbersAreDistinct
<1>2. ASSUME NEW v \in Registry PROVE NewerThan(v)' = NewerThan(v)
  BY <1>0 DEF NewerThan
<1>3. DeletedAreSuperseded'
  BY <1>0, <1>2 DEF RegistryInv, DeletedAreSuperseded
<1>4. ASSUME NEW s \in Clients, s # r PROVE RequestFits(s)'
  <2>1. RequestFits(s)
    BY DEF RegistryInv
  <2>2. RowFits(s)'
    BY <1>4, <2>1 DEF RequestFits, RowFits
  <2>3. IsNext(s) => IsNext(s)'
    BY <1>0, <1>4 DEF IsNext
  <2>4. PlanFits(s) => PlanFits(s)'
    <3> SUFFICES ASSUME PlanFits(s) PROVE PlanFits(s)'
      OBVIOUS
    <3>1. toDelete'[s] \subseteq Registry' \ {s}
      BY <1>0, <1>4 DEF PlanFits
    <3>2. ASSUME NEW v \in toDelete[s] PROVE StaysOver(s, v)' = StaysOver(s, v)
      BY <1>0, <1>4 DEF StaysOver, PlanFits
    <3> QED BY <1>0, <1>4, <3>1, <3>2 DEF PlanFits
  <2> QED BY <1>4, <2>1, <2>2, <2>3, <2>4 DEF RequestFits
<1> QED BY <1>1, <1>3, <1>4 DEF RegistryInv

\* A step that does not even number or plan anything new
LEMMA SteadyStep ==
  ASSUME UploadTypeOK, UploadTypeOK', RegistryInv, NEW r \in Clients,
         UNCHANGED <<row, num, toDelete, coll>>,
         \A s \in Clients \ {r} : pc'[s] = pc[s] /\ outcome'[s] = outcome[s],
         pc'[r] \in Numbered => pc[r] \in Numbered,
         pc'[r] \in Planned => pc[r] \in Planned,
         RowFits(r)'
  PROVE  RegistryInv'
<1>0. Registry' = Registry /\ Active' = Active
  BY DEF Registry, Active
<1>1. IsNext(r)' = IsNext(r) /\ PlanFits(r)' = PlanFits(r)
  BY <1>0 DEF IsNext, PlanFits, StaysOver
<1>2. RequestFits(r)
  BY DEF RegistryInv
<1>3. RequestFits(r)'
  BY <1>1, <1>2 DEF RequestFits
<1> QED BY <1>3, QuietStep

\* The end of the handler
LEMMA LeaveKeepsRegistry ==
  ASSUME UploadTypeOK, UploadTypeOK', RegistryInv, NEW r \in Clients, Leave(r),
         \A s \in Clients \ {r} : outcome'[s] = outcome[s],
         outcome'[r] = "ok" => outcome[r] = "ok"
  PROVE  RegistryInv'
<1> USE DEF UploadTypeOK
<1>1. row' = row /\ \A s \in Clients \ {r} :
           /\ pc'[s] = pc[s] /\ num'[s] = num[s]
           /\ toDelete'[s] = toDelete[s] /\ coll'[s] = coll[s]
  BY DEF Leave, Goto, stores, version
<1>2. \A v \in Registry : num'[v] = num[v]
  BY <1>1 DEF Leave, Registry, version
<1>3. RequestFits(r)
  BY DEF RegistryInv
<1>4. RequestFits(r)'
  BY <1>1, <1>3 DEF Leave, Goto, RequestFits, RowFits, Unregistered, Numbered, Planned
<1> QED BY <1>1, <1>2, <1>4, QuietStep

\* Admission, the lock, and the ends of the handler
LEMMA OutsideKeepsRegistry ==
  ASSUME UploadTypeOK, UploadTypeOK', RegistryInv, NEW r \in Clients,
         Refuse(r) \/ Admit(r) \/ LockStep(r) \/ Release(r) \/ Crash(r)
  PROVE  RegistryInv'
<1> USE DEF UploadTypeOK
<1>0. RequestFits(r)
  BY DEF RegistryInv
<1>1. CASE Refuse(r)
  <2>1. RowFits(r)'
    BY <1>0, <1>1 DEF Refuse, Goto, stores, RequestFits, RowFits, Unregistered
  <2> QED BY <1>1, <2>1, SteadyStep
          DEF Refuse, Goto, config, version, plan, stores, Numbered, Unregistered, Planned
<1>2. CASE Admit(r)
  <2>1. row' = row /\ num' = num /\ toDelete' = toDelete /\ outcome' = outcome
        /\ pc' = [pc EXCEPT ![r] = "locking"] /\ pc[r] = "new"
    BY <1>2 DEF Admit, Goto, version, plan, stores
  <2>2. RequestFits(r)'
    BY <1>0, <2>1 DEF RequestFits, RowFits, Unregistered, Numbered, Planned, Stages
  <2>3. \A s \in Clients \ {r} : coll'[s] = coll[s]
    BY <1>2 DEF Admit
  <2> QED BY <2>1, <2>2, <2>3, QuietStep
<1>3. CASE LockStep(r)
  <2>1. CASE UNCHANGED uploadVars
    <3>1. RowFits(r)'
      BY <1>0, <2>1 DEF uploadVars, stores, RequestFits, RowFits
    <3> QED BY <2>1, <3>1, SteadyStep DEF uploadVars, config, version, plan, stores
  <2>2. CASE Goto(r, "locked") /\ UNCHANGED <<config, ctx, outcome, version, plan, stores>>
    <3>1. RowFits(r)'
      BY <1>0, <1>3, <2>2 DEF LockStep, Goto, stores, RequestFits, RowFits, Unregistered, Stages
    <3> QED BY <2>2, <3>1, SteadyStep
            DEF Goto, config, version, plan, stores, Numbered, Unregistered, Planned
  <2>3. CASE Leave(r) /\ outcome' = [outcome EXCEPT ![r] = "error"]
    BY <2>3, LeaveKeepsRegistry
  <2> QED BY <1>3, <2>1, <2>2, <2>3 DEF LockStep
<1>4. CASE Release(r)
  BY <1>4, LeaveKeepsRegistry DEF Release
<1>5. CASE Crash(r)
  <2>1. Leave(r) /\ (\A s \in Clients \ {r} : outcome'[s] = outcome[s])
        /\ (outcome'[r] = "ok" => outcome[r] = "ok")
    BY <1>5 DEF Crash
  <2> QED BY <2>1, LeaveKeepsRegistry
<1> QED BY <1>1, <1>2, <1>3, <1>4, <1>5

\* CreateNewVersion takes the next number.
LEMMA NumberingKeepsRegistry ==
  ASSUME UploadTypeOK, UploadTypeOK', RegistryInv, NEW r \in Clients, CreateNewVersion(r)
  PROVE  RegistryInv'
<1> USE DEF UploadTypeOK
<1> DEFINE h == HighestNumber(Active, num)
<1>1. /\ row' = row /\ toDelete' = toDelete /\ coll' = coll /\ outcome' = outcome
      /\ pc' = [pc EXCEPT ![r] = "numbered"] /\ pc[r] = "locked"
      /\ num' = [num EXCEPT ![r] = h + 1]
  BY DEF CreateNewVersion, Goto, config, plan, stores, NextVersionNumber
<1>2. RequestFits(r)
  BY DEF RegistryInv
<1>3. row[r] = "none" /\ r \notin Registry
  BY <1>1, <1>2 DEF RequestFits, RowFits, Unregistered, Stages, Registry
<1>4. Active \subseteq Registry /\ Registry' = Registry /\ Active \in SUBSET Clients
  BY <1>1 DEF Active, Registry
<1>5. h \in Nat /\ (\A v \in Active : num[v] <= h) /\ (h = 0 \/ \E v \in Active : num[v] = h)
  BY <1>4, VersionsAreFinite, HighestIsReached
<1> HIDE DEF h
<1>6. \A v \in Registry : num'[v] = num[v] /\ num[v] \in Nat
  BY <1>1, <1>3 DEF Registry
<1>7. \A v \in Registry : num[v] <= h
  <2> TAKE v \in Registry
  <2>1. PICK w \in Active : num[v] <= num[w]
    BY DEF RegistryInv, NumbersAreDistinct
  <2> QED BY <1>4, <1>5, <1>6, <2>1
<1>8. IsNext(r)'
  <2>1. num'[r] = h + 1
    BY <1>1
  <2>2. \A v \in Registry : num'[v] < num'[r]
    BY <1>5, <1>6, <1>7, <2>1
  <2>3. num'[r] = 1 \/ \E v \in Registry : num'[v] + 1 = num'[r]
    BY <1>4, <1>5, <1>6, <2>1
  <2> QED BY <1>4, <2>2, <2>3 DEF IsNext
<1>9. RequestFits(r)'
  BY <1>1, <1>2, <1>3, <1>8 DEF RequestFits, RowFits, Planned
<1> QED BY <1>1, <1>6, <1>9, QuietStep

\* CreateRotationStrategyCase plans to delete what has enough newer versions.
LEMMA PlanningKeepsRegistry ==
  ASSUME UploadTypeOK, UploadTypeOK', RegistryInv, NEW r \in Clients,
         CreateRotationStrategyCase(r)
  PROVE  RegistryInv'
<1> USE DEF UploadTypeOK
<1>1. /\ row' = row /\ num' = num /\ coll' = coll /\ outcome' = outcome
      /\ pc' = [pc EXCEPT ![r] = "planned"] /\ pc[r] = "numbered"
  BY DEF CreateRotationStrategyCase, Goto, config, version, stores
<1>2. PICK doomed \in VersionsToDelete(coll[r], Active, num) :
          toDelete' = [toDelete EXCEPT ![r] = doomed]
  BY DEF CreateRotationStrategyCase
<1>3. RequestFits(r)
  BY DEF RegistryInv
<1>4. row[r] = "none" /\ IsNext(r)
  BY <1>1, <1>3 DEF RequestFits, RowFits, Unregistered, Numbered, Stages
<1>5. Active \subseteq Registry /\ Registry' = Registry /\ Active' = Active
      /\ Active \in SUBSET Clients /\ r \notin Registry
  BY <1>1, <1>4 DEF Active, Registry
<1> DEFINE max == coll[r].maxBackupsCount
<1>6. IsSpec(coll[r]) /\ max \in Nat
  BY SpecsAssumption DEF IsSpec
<1>7. /\ doomed \subseteq Active
      /\ \A v \in doomed, w \in Active \ doomed : num[v] <= num[w]
      /\ doomed # {} => Cardinality(Active \ doomed) >= max - 1
  <2>1. IsFiniteSet(Active)
    BY <1>5, VersionsAreFinite
  <2> QED BY ONLY <1>2, <1>6, <2>1, PlanIsFifo
<1>8. toDelete'[r] = doomed /\ \A s \in Clients \ {r} : toDelete'[s] = toDelete[s]
  BY <1>2
<1>9. PlanFits(r)'
  <2>1. toDelete'[r] \subseteq Registry' \ {r}
    BY <1>5, <1>7, <1>8
  <2>2. ASSUME NEW v \in doomed
        PROVE  num'[v] < num'[r] /\ Cardinality(StaysOver(r, v)') >= max - 1
    <3>1. num[v] < num[r]
      BY <1>4, <1>5, <1>7 DEF IsNext
    <3>2. StaysOver(r, v)' = Active \ doomed
      <4>1. \A w \in Active \ doomed : w # r /\ num[w] > num[v]
        <5> TAKE w \in Active \ doomed
        <5>1. v \in Registry /\ w \in Registry /\ v # w /\ num[v] \in Nat /\ num[w] \in Nat
          BY <1>5, <1>7 DEF Registry
        <5>2. num[v] <= num[w] /\ num[v] # num[w]
          BY <1>7, <5>1 DEF RegistryInv, NumbersAreDistinct
        <5> QED BY <1>5, <5>1, <5>2
      <4> QED BY <1>1, <1>5, <1>8, <4>1 DEF StaysOver
    <3> QED BY <1>1, <1>7, <3>1, <3>2
  <2> QED BY <1>1, <1>8, <2>1, <2>2 DEF PlanFits
<1>10. IsNext(r)'
  BY <1>1, <1>4, <1>5 DEF IsNext
<1>11. RequestFits(r)'
  BY <1>1, <1>3, <1>4, <1>9, <1>10 DEF RequestFits, RowFits
<1> QED BY <1>1, <1>8, <1>11, QuietStep

\* The steps of the body that leave rows, numbers and plans alone
LEMMA StreamKeepsRegistry ==
  ASSUME UploadTypeOK, UploadTypeOK', RegistryInv, NEW r \in Clients,
         \/ EarlyReturn(r) \/ CreateStandardMiddleWares(r) \/ CollectionIsCorrupted(r)
         \/ CopyStream(r) \/ CopyStreamFails(r) \/ CloseWriter(r)
         \/ CheckObject(r) \/ CheckObjectFails(r) \/ UploadFilePanics(r)
         \/ ContextIsLive(r) \/ ContextIsCancelled(r)
         \/ UndoRow(r) \/ UndoObject(r) \/ Uploaded(r)
  PROVE  RegistryInv' /\ UNCHANGED <<row, num>>
<1> USE DEF UploadTypeOK, Goto, Respond, config, version, plan, stores
<1>0. RowFits(r)
  BY DEF RegistryInv, RequestFits
<1>1. CASE EarlyReturn(r) \/ CreateStandardMiddleWares(r) \/ CollectionIsCorrupted(r)
  <2> USE DEF EarlyReturn, CreateStandardMiddleWares, CollectionIsCorrupted
  <2>1. RowFits(r)'
    BY <1>0, <1>1 DEF RowFits, Unregistered, Stages
  <2>2. (pc'[r] \in Numbered => pc[r] \in Numbered) /\ (pc'[r] \in Planned => pc[r] \in Planned)
    BY <1>1 DEF Numbered, Unregistered, Planned, Stages
  <2>3. UNCHANGED <<row, num, toDelete, coll>>
        /\ \A s \in Clients \ {r} : pc'[s] = pc[s] /\ outcome'[s] = outcome[s]
    BY <1>1
  <2> QED BY <2>1, <2>2, <2>3, SteadyStep
<1>2. CASE CopyStream(r) \/ CopyStreamFails(r) \/ CloseWriter(r)
           \/ CheckObject(r) \/ CheckObjectFails(r) \/ UploadFilePanics(r)
  <2> USE DEF CopyStream, CopyStreamFails, CloseWriter, CheckObject, CheckObjectFails,
              UploadFilePanics
  <2>1. RowFits(r)'
    BY <1>0, <1>2 DEF RowFits, Unregistered, Stages
  <2>2. (pc'[r] \in Numbered => pc[r] \in Numbered) /\ (pc'[r] \in Planned => pc[r] \in Planned)
    BY <1>2 DEF Numbered, Unregistered, Planned, Stages
  <2>3. UNCHANGED <<row, num, toDelete, coll>>
        /\ \A s \in Clients \ {r} : pc'[s] = pc[s] /\ outcome'[s] = outcome[s]
    BY <1>2
  <2> QED BY <2>1, <2>2, <2>3, SteadyStep
<1>3. CASE ContextIsLive(r) \/ ContextIsCancelled(r) \/ Uploaded(r)
  <2> USE DEF ContextIsLive, ContextIsCancelled, Uploaded
  <2>1. RowFits(r)'
    BY <1>0, <1>3 DEF RowFits, Unregistered, Stages
  <2>2. (pc'[r] \in Numbered => pc[r] \in Numbered) /\ (pc'[r] \in Planned => pc[r] \in Planned)
    BY <1>3 DEF Numbered, Unregistered, Planned, Stages
  <2>3. UNCHANGED <<row, num, toDelete, coll>>
        /\ \A s \in Clients \ {r} : pc'[s] = pc[s] /\ outcome'[s] = outcome[s]
    BY <1>3
  <2> QED BY <2>1, <2>2, <2>3, SteadyStep
<1>4. CASE UndoRow(r)
  \* there is no row to delete
  <2>1. row[r] = "none" /\ outcome[r] # "none"
    BY <1>0, <1>4 DEF UndoRow, RowFits, Unregistered, Stages
  <2>2. row' = row
    BY <1>4, <2>1 DEF UndoRow, DeleteRow
  <2>3. RowFits(r)'
    BY <1>0, <1>4, <2>1, <2>2 DEF UndoRow, RowFits, Unregistered, Stages
  <2> QED BY <1>4, <2>2, <2>3, SteadyStep DEF UndoRow, Numbered, Unregistered, Planned, Stages
<1>5. CASE UndoObject(r)
  <2>1. row[r] = "none" /\ outcome[r] # "none"
    BY <1>0, <1>5 DEF UndoObject, RowFits, Unregistered, Stages
  <2>2. pc' = [pc EXCEPT ![r] = "releasing"]
    BY <1>5, <2>1 DEF UndoObject
  <2>3. RowFits(r)'
    BY <1>0, <1>5, <2>1, <2>2 DEF UndoObject, RowFits, Unregistered, Stages
  <2> QED BY <1>5, <2>2, <2>3, SteadyStep DEF UndoObject, Numbered, Unregistered, Planned, Stages
<1> QED BY <1>1, <1>2, <1>3, <1>4, <1>5

\* The oldest of some versions is one of them.
LEMMA OldestIsOneOfThem ==
  ASSUME UploadTypeOK, NEW V \in SUBSET Clients, V # {}
  PROVE  OldestOf(V) \in V /\ \A w \in V : num[OldestOf(V)] <= num[w]
<1>0. num \in [Clients -> Nat]
  BY DEF UploadTypeOK
<1>1. \E v \in V : \A w \in V : num[v] <= num[w]
  BY <1>0, OldestExists
<1> QED BY <1>1, Zenon DEF OldestOf

\* A version that has been gone through leaves the plan; the others keep theirs.
LEMMA RotatedObjectKeepsRegistry ==
  ASSUME UploadTypeOK, UploadTypeOK', RegistryInv, NEW r \in Clients, RotateObject(r)
  PROVE  RegistryInv'
<1> USE DEF UploadTypeOK
<1>1. /\ row' = row /\ num' = num /\ coll' = coll /\ outcome' = outcome
      /\ pc' = [pc EXCEPT ![r] = "rotating"] /\ pc[r] = "rotatingObject"
      /\ toDelete'[r] \subseteq toDelete[r]
      /\ \A s \in Clients \ {r} : toDelete'[s] = toDelete[s]
  BY DEF RotateObject, Goto, config, version
<1>2. RequestFits(r)
  BY DEF RegistryInv
<1>3. PlanFits(r)
  BY <1>1, <1>2 DEF RequestFits, Planned, Stages
<1>4. Registry' = Registry /\ Active' = Active
  BY <1>1 DEF Registry, Active
<1>5. ASSUME NEW v \in toDelete'[r]
      PROVE  num'[v] < num'[r]
             /\ Cardinality(StaysOver(r, v)') >= coll'[r].maxBackupsCount - 1
  <2>1. StaysOver(r, v) \subseteq StaysOver(r, v)' /\ StaysOver(r, v)' \in SUBSET Clients
    BY <1>1, <1>4 DEF StaysOver, Active
  <2>2. Cardinality(StaysOver(r, v)) >= coll[r].maxBackupsCount - 1 /\ num[v] < num[r]
    BY <1>1, <1>3 DEF PlanFits
  <2>3. coll[r].maxBackupsCount \in Nat
    BY SpecsAssumption DEF IsSpec
  <2>4. /\ Cardinality(StaysOver(r, v)) \in Nat /\ Cardinality(StaysOver(r, v)') \in Nat
        /\ Cardinality(StaysOver(r, v)) <= Cardinality(StaysOver(r, v)')
    BY <2>1, FewerVersions
  <2> QED BY <1>1, <2>2, <2>3, <2>4
<1>6. PlanFits(r)'
  BY <1>1, <1>3, <1>4, <1>5 DEF PlanFits
<1>7. RequestFits(r)'
  BY <1>1, <1>2, <1>6 DEF RequestFits, RowFits, Numbered, Unregistered
<1> QED BY <1>1, <1>7, QuietStep

\* The other requests are outside the body, and the registry hardly knows them.
LEMMA OthersAreOutside ==
  ASSUME UploadTypeOK, OneAtATime, NEW r \in Clients, pc[r] \in Body,
         NEW s \in Clients, s # r
  PROVE  pc[s] \in {"new", "locking", "done"}
  BY DEF OneAtATime, UploadTypeOK, Body

\* The INSERT
LEMMA RegisteringKeepsRegistry ==
  ASSUME UploadTypeOK, UploadTypeOK', OneAtATime, RegistryInv, NEW r \in Clients,
         RegisterVersion(r)
  PROVE  RegistryInv'
<1> USE DEF UploadTypeOK
<1>1. /\ num' = num /\ coll' = coll /\ outcome' = outcome /\ toDelete' = toDelete
      /\ pc' = [pc EXCEPT ![r] = "rotating"] /\ pc[r] = "registering"
      /\ row' = [row EXCEPT ![r] = "active"]
  BY DEF RegisterVersion, Goto, config, version, plan
<1>2. RequestFits(r)
  BY DEF RegistryInv
<1>3. row[r] = "none" /\ IsNext(r) /\ PlanFits(r)
  BY <1>1, <1>2 DEF RequestFits, RowFits, Unregistered, Numbered, Planned, Stages
<1>4. /\ Registry' = Registry \cup {r} /\ Active' = Active \cup {r} /\ r \notin Registry
      /\ Active \subseteq Registry /\ Registry \in SUBSET Clients
  BY <1>1, <1>3 DEF Registry, Active
<1>5. \A v \in Registry : num[v] < num[r] /\ num[v] \in Nat
  BY <1>3, <1>4 DEF IsNext
<1>6. num[r] \in Nat /\ num[r] >= 1
  <2>1. \A v \in Registry : num[v] >= 1
    BY DEF RegistryInv, NumbersAreDistinct
  <2> QED BY <1>3, <1>5, <2>1 DEF IsNext
<1>7. NumbersAreDistinct'
  <2>1. \A v \in Registry' : num'[v] >= 1
    BY <1>1, <1>4, <1>6 DEF RegistryInv, NumbersAreDistinct
  <2>2. \A v, w \in Registry' : num'[v] = num'[w] => v = w
    BY <1>1, <1>4, <1>5, <1>6 DEF RegistryInv, NumbersAreDistinct
  <2>3. \A v \in Registry' : \E w \in Active' : num'[v] <= num'[w]
    <3>1. \A v \in Registry' : num'[v] <= num'[r]
      BY <1>1, <1>4, <1>5, <1>6
    <3> QED BY <1>4, <3>1
  <2> QED BY <2>1, <2>2, <2>3 DEF NumbersAreDistinct
<1>8. DeletedAreSuperseded'
  <2> SUFFICES ASSUME NEW v \in Registry', row'[v] = "deleted"
               PROVE  Cardinality(NewerThan(v)') >= Limit
    BY DEF DeletedAreSuperseded, Limit
  <2>1. v \in Registry /\ row[v] = "deleted"
    BY <1>1, <1>4
  <2>2. Cardinality(NewerThan(v)) >= Limit
    BY <2>1 DEF RegistryInv, DeletedAreSuperseded
  <2>3. NewerThan(v) \subseteq NewerThan(v)' /\ NewerThan(v)' \in SUBSET Clients
    BY <1>1, <1>4 DEF NewerThan
  <2>4. /\ Cardinality(NewerThan(v)) \in Nat /\ Cardinality(NewerThan(v)') \in Nat
        /\ Cardinality(NewerThan(v)) <= Cardinality(NewerThan(v)')
    BY <2>3, FewerVersions
  <2> QED BY <2>2, <2>4, LimitIsLeast
<1>9. RequestFits(r)'
  <2>1. toDelete'[r] \subseteq Registry' \ {r}
    BY <1>1, <1>3, <1>4 DEF PlanFits
  <2>2. ASSUME NEW v \in toDelete[r] PROVE StaysOver(r, v)' = StaysOver(r, v)
    BY <1>1, <1>4 DEF StaysOver
  <2>3. PlanFits(r)'
    BY <1>1, <1>3, <2>1, <2>2 DEF PlanFits
  <2> QED BY <1>1, <1>2, <2>3 DEF RequestFits, RowFits, Numbered, Unregistered
<1>10. ASSUME NEW s \in Clients, s # r PROVE RequestFits(s)'
  <2>1. pc[s] \in {"new", "locking", "done"}
    BY <1>1, <1>10, OthersAreOutside DEF Body, Stages
  <2>2. RequestFits(s)
    BY DEF RegistryInv
  <2> QED BY <1>1, <1>10, <2>1, <2>2 DEF RequestFits, RowFits, Numbered, Unregistered, Planned
<1> QED BY <1>7, <1>8, <1>9, <1>10 DEF RegistryInv

\* What RotateRow deletes, if it does: an older version with as many newer ones, of
\* those that stay, as are to be kept.
LEMMA RotatedHasNewer ==
  ASSUME UploadTypeOK, RegistryInv, NEW r \in Clients,
         pc[r] \in {"rotating", "rotatingObject"}, toDelete[r] # {}
  PROVE  LET v == OldestOf(toDelete[r])
         IN  /\ v \in toDelete[r] /\ v \in Registry /\ v # r /\ r \in Active
             /\ num[v] < num[r]
             /\ Cardinality({w \in Active \ {v} : num[w] > num[v]}) >= Limit
<1> USE DEF UploadTypeOK
<1> DEFINE v == OldestOf(toDelete[r])
           newer == {w \in Active \ {v} : num[w] > num[v]}
<1>1. v \in toDelete[r]
  BY OldestIsOneOfThem
<1>2. RequestFits(r)
  BY DEF RegistryInv
<1>3. PlanFits(r) /\ r \in Active
  BY <1>2 DEF RequestFits, RowFits, Planned, Stages, Active
<1> HIDE DEF v
<1>4. v \in Registry /\ v # r /\ num[v] < num[r]
      /\ Cardinality(StaysOver(r, v)) >= coll[r].maxBackupsCount - 1
  BY <1>1, <1>3 DEF PlanFits
<1>5. StaysOver(r, v) \in SUBSET Clients /\ r \notin StaysOver(r, v)
      /\ StaysOver(r, v) \cup {r} \subseteq newer /\ newer \in SUBSET Clients
  BY <1>1, <1>3, <1>4 DEF StaysOver, Active, Registry
<1> HIDE DEF newer
<1>6. IsFiniteSet(StaysOver(r, v)) /\ Cardinality(StaysOver(r, v)) \in Nat
  BY <1>5, VersionsAreFinite
<1>7. Cardinality(StaysOver(r, v) \cup {r}) = Cardinality(StaysOver(r, v)) + 1
  BY <1>5, <1>6, FS_AddElement
<1>8. Cardinality(StaysOver(r, v) \cup {r}) <= Cardinality(newer) /\ Cardinality(newer) \in Nat
  BY <1>5, FewerVersions
<1>9. Limit \in Nat /\ coll[r].maxBackupsCount \in Nat /\ Limit <= coll[r].maxBackupsCount
  BY LimitIsLeast, SpecsAssumption DEF IsSpec
<1>10. Cardinality(newer) >= Limit
  BY <1>4, <1>6, <1>7, <1>8, <1>9
<1> QED BY <1>1, <1>3, <1>4, <1>10 DEF v, newer

\* Deleting a version with enough newer ones: no other version falls short.
LEMMA DeletionKeepsNewer ==
  ASSUME UploadTypeOK, NEW v \in Clients,
         Cardinality({w \in Active \ {v} : num[w] > num[v]}) >= Limit,
         num' = num, Active' = Active \ {v},
         NEW u \in Clients, u = v \/ Cardinality(NewerThan(u)) >= Limit
  PROVE  Cardinality(NewerThan(u)') >= Limit
<1> DEFINE newer == {w \in Active \ {v} : num[w] > num[v]}
<1>1. NewerThan(u)' = {w \in Active \ {v} : num[w] > num[u]}
  BY DEF NewerThan
<1>2. CASE v \notin NewerThan(u)
  <2>1. u # v => NewerThan(u)' = NewerThan(u)
    BY <1>1, <1>2 DEF NewerThan, Active
  <2> QED BY <1>1, <2>1
<1>3. CASE v \in NewerThan(u)
  <2>1. newer \subseteq NewerThan(u)' /\ NewerThan(u)' \in SUBSET Clients
    BY <1>1, <1>3 DEF NewerThan, Active, UploadTypeOK
  <2> HIDE DEF newer
  <2>2. /\ Cardinality(newer) <= Cardinality(NewerThan(u)')
        /\ Cardinality(newer) \in Nat /\ Cardinality(NewerThan(u)') \in Nat
    BY <2>1, FewerVersions
  <2>3. Cardinality(newer) >= Limit
    BY DEF newer
  <2> QED BY <2>2, <2>3, LimitIsLeast
<1> QED BY <1>2, <1>3

\* The soft delete of a version in the rotation
LEMMA RotatedRowKeepsRegistry ==
  ASSUME UploadTypeOK, UploadTypeOK', OneAtATime, RegistryInv, NEW r \in Clients,
         RotateRow(r)
  PROVE  RegistryInv'
<1> USE DEF UploadTypeOK
<1> DEFINE v == OldestOf(toDelete[r])
<1>1. /\ num' = num /\ coll' = coll /\ outcome' = outcome /\ toDelete' = toDelete
      /\ pc' = [pc EXCEPT ![r] = "rotatingObject"] /\ pc[r] = "rotating"
      /\ toDelete[r] # {}
      /\ row' = row \/ row' = [row EXCEPT ![v] = IF @ = "active" THEN "deleted" ELSE @]
  BY DEF RotateRow, DeleteRow, Goto, config, version, plan
<1>2. /\ v \in toDelete[r] /\ v \in Registry /\ v # r /\ r \in Active /\ num[v] < num[r]
      /\ Cardinality({w \in Active \ {v} : num[w] > num[v]}) >= Limit
  BY <1>1, RotatedHasNewer
<1> HIDE DEF v
<1>3. RowFits(r) /\ PlanFits(r)
  BY <1>1 DEF RegistryInv, RequestFits, Planned, Stages
<1>4. CASE row' = row
  <2>1. RowFits(r)'
    BY <1>1, <1>3, <1>4 DEF RowFits, Unregistered
  <2> QED BY <1>1, <1>4, <2>1, SteadyStep DEF Numbered, Unregistered, Planned, Stages
<1>5. CASE row' # row
  <2>1. row[v] = "active" /\ row' = [row EXCEPT ![v] = "deleted"]
    BY <1>1, <1>2, <1>5 DEF Registry
  <2>2. Registry' = Registry /\ Active' = Active \ {v} /\ v \in Clients
    BY <1>2, <2>1 DEF Registry, Active
  <2>3. NumbersAreDistinct'
    <3>1. ASSUME NEW u \in Registry PROVE \E w \in Active' : num[u] <= num[w]
      <4>1. PICK w \in Active : num[u] <= num[w]
        BY DEF RegistryInv, NumbersAreDistinct
      <4>2. CASE w # v
        BY <2>2, <4>1, <4>2
      <4>3. CASE w = v
        <5>1. num[u] <= num[r] /\ r \in Active'
          BY <1>2, <2>2, <4>1, <4>3 DEF Registry
        <5> QED BY <5>1
      <4> QED BY <4>2, <4>3
    <3> QED BY <1>1, <2>2, <3>1 DEF RegistryInv, NumbersAreDistinct
  <2>4. DeletedAreSuperseded'
    <3> SUFFICES ASSUME NEW u \in Registry', row'[u] = "deleted"
                 PROVE  Cardinality(NewerThan(u)') >= Limit
      BY DEF DeletedAreSuperseded, Limit
    <3>1. u \in Clients /\ (u = v \/ Cardinality(NewerThan(u)) >= Limit)
      BY <2>1, <2>2 DEF RegistryInv, DeletedAreSuperseded, Registry
    <3> QED BY <1>1, <1>2, <2>2, <3>1, DeletionKeepsNewer
  <2>5. RequestFits(r)'
    <3>1. ASSUME NEW u \in toDelete[r] PROVE StaysOver(r, u)' = StaysOver(r, u)
      BY <1>1, <1>2, <2>2 DEF StaysOver
    <3>2. PlanFits(r)'
      BY <1>1, <1>3, <2>2, <3>1 DEF PlanFits
    <3>3. RowFits(r)'
      BY <1>1, <1>2, <1>3, <2>1 DEF RowFits, Unregistered
    <3> QED BY <1>1, <3>2, <3>3 DEF RequestFits, Numbered, Unregistered
  <2>6. ASSUME NEW s \in Clients, s # r PROVE RequestFits(s)'
    <3>1. pc[s] \in {"new", "locking", "done"}
      BY <1>1, <2>6, OthersAreOutside DEF Body, Stages
    <3>2. RequestFits(s)
      BY DEF RegistryInv
    <3> QED BY <1>1, <2>1, <2>6, <3>1, <3>2
            DEF RequestFits, RowFits, Numbered, Unregistered, Planned
  <2> QED BY <2>3, <2>4, <2>5, <2>6 DEF RegistryInv
<1> QED BY <1>4, <1>5

\* What a step can do to the registry
LEMMA RegistryChanges ==
  ASSUME UploadTypeOK, UploadTypeOK', RegistryInv, "dbCreate" \notin Faults, [Next]_vars
  PROVE  \/ row' = row /\ \A v \in Registry : num'[v] = num[v]
         \/ \E r \in Clients : RegisterVersion(r) \/ RotateRow(r)
<1> USE DEF UploadTypeOK
<1>1. ASSUME NEW r \in Clients, Leave(r) PROVE row' = row /\ \A v \in Registry : num'[v] = num[v]
  BY <1>1 DEF Leave, Registry, version, stores
<1>2. ASSUME NEW r \in Clients, Refuse(r) \/ Admit(r) \/ LockStep(r) \/ Release(r) \/ Crash(r)
      PROVE  row' = row /\ \A v \in Registry : num'[v] = num[v]
  BY <1>1, <1>2 DEF Refuse, Admit, LockStep, Release, Crash, uploadVars, version, stores
<1>3. ASSUME NEW r \in Clients, CreateNewVersion(r)
      PROVE  row' = row /\ \A v \in Registry : num'[v] = num[v]
  <2>1. r \notin Registry
    BY <1>3 DEF CreateNewVersion, RegistryInv, RequestFits, RowFits, Unregistered, Stages, Registry
  <2> QED BY <1>3, <2>1 DEF CreateNewVersion, stores, Registry
<1>4. ASSUME NEW r \in Clients, CreateRotationStrategyCase(r) \/ RotateObject(r)
      PROVE  row' = row /\ \A v \in Registry : num'[v] = num[v]
  BY <1>4 DEF CreateRotationStrategyCase, RotateObject, version, stores
<1>5. ASSUME NEW r \in Clients, BodyStep(r)
      PROVE  \/ row' = row /\ \A v \in Registry : num'[v] = num[v]
             \/ RegisterVersion(r) \/ RotateRow(r)
  <2>1. ~RegisterVersionFails(r)
    BY DEF RegisterVersionFails
  <2> QED BY <1>3, <1>4, <1>5, <2>1, StreamKeepsRegistry DEF BodyStep
<1>6. CASE Bystander
  BY <1>6 DEF Bystander, version, stores
<1> QED BY <1>2, <1>5, <1>6, StepCases

\* The registry's invariant is inductive where the INSERT reports what it did.
LEMMA RegistryStep ==
  ASSUME SerialInv, UploadTypeOK', RegistryInv, "dbCreate" \notin Faults, [Next]_vars
  PROVE  RegistryInv'
<1>0. UploadTypeOK /\ OneAtATime
  BY SerialIsOneAtATime DEF SerialInv
<1>1. ASSUME NEW r \in Clients, BodyStep(r) PROVE RegistryInv'
  <2>1. ~RegisterVersionFails(r)
    BY DEF RegisterVersionFails
  <2> QED BY <1>0, <1>1, <2>1, NumberingKeepsRegistry, PlanningKeepsRegistry,
             StreamKeepsRegistry, RegisteringKeepsRegistry, RotatedRowKeepsRegistry,
             RotatedObjectKeepsRegistry DEF BodyStep
<1>2. CASE Bystander
  <2>1. Registry' = Registry /\ Active' = Active
        /\ UNCHANGED <<row, num, toDelete, coll, pc, outcome>>
    BY <1>2 DEF Bystander, version, plan, stores, Registry, Active
  <2>2. NumbersAreDistinct' /\ DeletedAreSuperseded'
    BY <2>1 DEF RegistryInv, NumbersAreDistinct, DeletedAreSuperseded, NewerThan, Limit
  <2>3. ASSUME NEW r \in Clients PROVE RequestFits(r)'
    BY <2>1 DEF RegistryInv, RequestFits, RowFits, IsNext, PlanFits, StaysOver
  <2> QED BY <2>2, <2>3 DEF RegistryInv
<1> QED BY <1>0, <1>1, <1>2, OutsideKeepsRegistry, StepCases

\* The empty registry
LEMMA RegistryInit == Init => RegistryInv
<1> SUFFICES ASSUME Init PROVE RegistryInv
  OBVIOUS
<1>1. Registry = {}
  BY DEF Init, Registry
<1>2. NumbersAreDistinct /\ DeletedAreSuperseded
  BY <1>1 DEF NumbersAreDistinct, DeletedAreSuperseded
<1>3. ASSUME NEW r \in Clients PROVE RequestFits(r)
  BY DEF Init, RequestFits, RowFits, Unregistered, Numbered, Planned
<1> QED BY <1>2, <1>3 DEF RegistryInv

\* What has been registered, and when it may be given up
THEOREM RegistryInvariance ==
  ASSUME "overrun" \notin Faults, "dbCreate" \notin Faults
  PROVE  Spec => [](SerialInv /\ RegistryInv)
<1>1. Init => SerialInv /\ RegistryInv
  BY SerialInit, RegistryInit
<1>2. SerialInv /\ RegistryInv /\ [Next]_vars => SerialInv' /\ RegistryInv'
  <2> SUFFICES ASSUME SerialInv, RegistryInv, [Next]_vars PROVE SerialInv' /\ RegistryInv'
    OBVIOUS
  <2>1. SerialInv'
    BY SerialStep
  <2>2. UploadTypeOK'
    BY <2>1 DEF SerialInv
  <2> QED BY <2>1, <2>2, RegistryStep
<1> QED BY <1>1, <1>2, PTL DEF Spec

-----------------------------------------------------------------------------
(* The registry implements Retention *)

Kept == {num[v] : v \in Active}
Latest == HighestNumber(Registry, num)

\* What does not touch the registry stutters.
LEMMA QuietIsStutter ==
  ASSUME row' = row, \A v \in Registry : num'[v] = num[v]
  PROVE  Kept' = Kept /\ Latest' = Latest
<1>1. Registry' = Registry /\ Active' = Active /\ Active \subseteq Registry
  BY DEF Registry, Active
<1>2. Kept' = Kept
  BY <1>1 DEF Kept
<1>3. {num'[v] : v \in Registry'} = {num[v] : v \in Registry}
  BY <1>1
<1>4. Latest' = Latest
  BY <1>3 DEF Latest, HighestNumber
<1> QED BY <1>2, <1>4

\* The INSERT is the abstract Upload.
LEMMA RegisteringUploads ==
  ASSUME UploadTypeOK, UploadTypeOK', RegistryInv, NEW r \in Clients, RegisterVersion(r)
  PROVE  Latest' = Latest + 1 /\ Kept' = Kept \cup {Latest + 1}
<1> USE DEF UploadTypeOK
<1>1. num' = num /\ pc[r] = "registering" /\ row' = [row EXCEPT ![r] = "active"]
  BY DEF RegisterVersion, version
<1>2. row[r] = "none" /\ IsNext(r)
  BY <1>1 DEF RegistryInv, RequestFits, RowFits, Unregistered, Numbered, Stages
<1>3. /\ Registry' = Registry \cup {r} /\ Active' = Active \cup {r}
      /\ Registry \in SUBSET Clients /\ Registry' \in SUBSET Clients
  BY <1>1 DEF Registry, Active
<1>4. IsFiniteSet(Registry) /\ IsFiniteSet(Registry')
  BY <1>3, VersionsAreFinite
<1>5. num[r] \in Nat /\ num[r] >= 1 /\ num \in [Clients -> Nat]
      /\ \A v \in Registry : num[v] \in Nat
  BY <1>2, <1>3 DEF IsNext
<1>6. Latest = num[r] - 1
  <2> DEFINE h == num[r] - 1
  <2>1. h \in Nat /\ (\A v \in Registry : num[v] <= h)
        /\ (h = 0 \/ \E v \in Registry : num[v] = h)
    BY <1>2, <1>5 DEF IsNext
  <2> HIDE DEF h
  <2>2. HighestNumber(Registry, num) = h
    BY ONLY <1>3, <1>4, <1>5, <2>1, HighestIsUnique
  <2> QED BY <2>2 DEF Latest, h
<1>7. Latest' = num[r]
  <2>1. \A v \in Registry' : num[v] <= num[r]
    BY <1>2, <1>3, <1>5 DEF IsNext
  <2>2. \E v \in Registry' : num[v] = num[r]
    BY <1>3
  <2>3. HighestNumber(Registry', num) = num[r]
    BY ONLY <1>3, <1>4, <1>5, <2>1, <2>2, HighestIsUnique
  <2> QED BY <1>1, <2>3 DEF Latest
<1>8. Kept' = Kept \cup {num[r]}
  BY <1>1, <1>3 DEF Kept
<1> QED BY <1>5, <1>6, <1>7, <1>8

\* A soft delete in the rotation is the abstract GiveUp, or nothing.
LEMMA RotatingGivesUp ==
  ASSUME UploadTypeOK, UploadTypeOK', RegistryInv, NEW r \in Clients, RotateRow(r)
  PROVE  /\ Latest' = Latest
         /\ \/ Kept' = Kept
            \/ \E n \in Kept : /\ Cardinality({m \in Kept : m > n}) >= Limit
                               /\ Kept' = Kept \ {n}
<1> USE DEF UploadTypeOK
<1> DEFINE v == OldestOf(toDelete[r])
<1>1. /\ num' = num /\ pc[r] = "rotating" /\ toDelete[r] # {}
      /\ row' = row \/ row' = [row EXCEPT ![v] = IF @ = "active" THEN "deleted" ELSE @]
  BY DEF RotateRow, DeleteRow, version
<1>2. /\ v \in Registry
      /\ Cardinality({w \in Active \ {v} : num[w] > num[v]}) >= Limit
  BY <1>1, RotatedHasNewer
<1> HIDE DEF v
<1>3. Registry' = Registry /\ Active \subseteq Registry /\ v \in Clients
  BY <1>1, <1>2 DEF Registry, Active
<1>4. Latest' = Latest
  BY <1>1, <1>3 DEF Latest
<1>5. CASE row' = row
  BY <1>1, <1>4, <1>5 DEF Kept, Active
<1>6. CASE row' # row
  <2>1. v \in Active /\ Active' = Active \ {v}
    BY <1>1, <1>2, <1>6 DEF Active, Registry
  <2>2. \A x, y \in Active : num[x] = num[y] => x = y
    BY <1>3 DEF RegistryInv, NumbersAreDistinct
  <2>3. Kept' = Kept \ {num[v]} /\ num[v] \in Kept
    BY <1>1, <2>1, <2>2 DEF Kept
  <2> DEFINE newer == {w \in Active \ {v} : num[w] > num[v]}
  <2>4. {m \in Kept : m > num[v]} = {num[w] : w \in newer}
    <3>1. ~(num[v] > num[v])
      BY <1>3
    <3> QED BY <3>1 DEF Kept
  <2>5. IsFiniteSet(newer) /\ \A x, y \in newer : num[x] = num[y] => x = y
    <3>1. newer \in SUBSET Clients /\ newer \subseteq Active
      BY DEF Active
    <3> QED BY <2>2, <3>1, VersionsAreFinite
  <2>6. Cardinality({num[w] : w \in newer}) = Cardinality(newer)
    <3> HIDE DEF newer
    <3> QED BY <2>5, ImageHasSameSize
  <2> QED BY <1>2, <1>4, <2>3, <2>4, <2>6
<1> QED BY <1>5, <1>6

\* Counting means the same in both modules.
LEMMA RetainedCounts == ASSUME NEW S PROVE Retained!Cardinality(S) = Cardinality(S)
  BY DEF Retained!Cardinality, Cardinality

\* "Retained" of Upload: for every number of requests and every document, and
\* whichever requests crash, are cancelled, time out or fail to delete, the registry
\* behaves like a fifo that numbers its versions 1, 2, 3 ..., gives a version up only
\* when as many newer ones are there as the collection keeps, and never reuses a
\* number.
THEOREM RegistryIsRetention ==
  ASSUME "overrun" \notin Faults, "dbCreate" \notin Faults
  PROVE  Spec => IsRetention
<1>1. Init => Retained!Init
  <2> SUFFICES ASSUME Init PROVE Retained!Init
    OBVIOUS
  <2>1. Registry = {} /\ Active = {}
    BY DEF Init, Registry, Active
  <2>2. HighestNumber({}, num) = 0
    <3>1. num \in [Clients -> Nat] /\ {} \in SUBSET Clients /\ IsFiniteSet({})
      BY FS_EmptySet DEF Init
    <3> QED BY <3>1, HighestIsReached
  <2> QED BY <2>1, <2>2 DEF Retained!Init, Registry
<1>2. SerialInv /\ RegistryInv /\ (SerialInv /\ RegistryInv)' /\ [Next]_vars
         => [Retained!Next]_<<Kept, Latest>>
  <2> SUFFICES ASSUME SerialInv, RegistryInv, SerialInv', [Next]_vars
               PROVE  [Retained!Next]_<<Kept, Latest>>
    OBVIOUS
  <2>0. UploadTypeOK /\ UploadTypeOK'
    BY DEF SerialInv
  <2>1. CASE row' = row /\ \A v \in Registry : num'[v] = num[v]
    BY <2>1, QuietIsStutter
  <2>2. ASSUME NEW r \in Clients, RegisterVersion(r) PROVE Retained!Next
    BY <2>0, <2>2, RegisteringUploads DEF Retained!Next, Retained!Upload, Kept, Latest, Registry
  <2>3. ASSUME NEW r \in Clients, RotateRow(r) PROVE [Retained!Next]_<<Kept, Latest>>
    <3>1. /\ Latest' = Latest
          /\ \/ Kept' = Kept
             \/ \E n \in Kept : /\ Cardinality({m \in Kept : m > n}) >= Limit
                                /\ Kept' = Kept \ {n}
      BY <2>0, <2>3, RotatingGivesUp
    <3>2. CASE Kept' = Kept
      BY <3>1, <3>2
    <3>3. CASE \E n \in Kept : Cardinality({m \in Kept : m > n}) >= Limit /\ Kept' = Kept \ {n}
      <4>1. PICK n \in Kept : Cardinality({m \in Kept : m > n}) >= Limit /\ Kept' = Kept \ {n}
        BY <3>3
      <4>2. Retained!GiveUp(n)
        BY <3>1, <4>1, RetainedCounts DEF Retained!GiveUp, Kept, Latest, Registry
      <4>3. Retained!Next
        BY <4>1, <4>2 DEF Retained!Next, Kept
      <4> QED BY <4>3
    <3> QED BY <3>1, <3>2, <3>3
  <2> QED BY <2>0, <2>1, <2>2, <2>3, RegistryChanges
<1>3. IsRetention <=> Retained!Init /\ [][Retained!Next]_<<Kept, Latest>>
  BY DEF IsRetention, Retained!Spec, Kept, Latest, Registry
<1> QED BY <1>1, <1>2, <1>3, RegistryInvariance, PTL DEF Spec

-----------------------------------------------------------------------------
(* What a request in the body sees of the others' steps *)

\* Rows and objects stay, and so does all that is known of a version with either.
VersionsKept ==
    /\ row' = row /\ objects' = objects
    /\ \A v \in Clients :
          \/ num'[v] = num[v] /\ file'[v] = file[v] /\ size'[v] = size[v]
          \/ row[v] = "none" /\ \A o \in objects : o.by # v

\* Nothing happens to a request but to its context.
Still(s) ==
    /\ pc'[s] = pc[s] /\ coll'[s] = coll[s] /\ outcome'[s] = outcome[s]
    /\ num'[s] = num[s] /\ file'[s] = file[s] /\ size'[s] = size[s]
    /\ maxAllowed'[s] = maxAllowed[s] /\ toDelete'[s] = toDelete[s]
    /\ ContextFollows(s)

\* A request comes to the body, or goes.
Passes(s) ==
    /\ ctx'[s] \in {ctx[s], "live"}
    /\ \/ pc[s] = "new" /\ pc'[s] = "locking"
       \/ pc[s] = "locking" /\ pc'[s] = "locked"
       \/ pc[s] \in {"new", "locking", "releasing"} /\ pc'[s] = "done"
       \/ "crash" \in Faults /\ pc'[s] = "done"

\* Either one request takes a step in the body and no other is there, or rows,
\* objects and the requests in the body stay as they are.
LEMMA BodyView ==
  ASSUME SerialInv, SerialInv', [Next]_vars
  PROVE  \/ \E r \in Clients :
               /\ BodyStep(r)
               /\ \A s \in Clients \ {r} : pc[s] \notin Body /\ pc'[s] = pc[s]
         \/ VersionsKept /\ \A s \in Clients : Still(s) \/ Passes(s)
<1>0. UploadTypeOK /\ UploadTypeOK' /\ OneAtATime
  BY SerialIsOneAtATime DEF SerialInv
<1> USE DEF UploadTypeOK, ContextFollows
<1> DEFINE Rest == VersionsKept /\ \A s \in Clients : Still(s) \/ Passes(s)
<1>1. ASSUME NEW r \in Clients, BodyStep(r)
      PROVE  \A s \in Clients \ {r} : pc[s] \notin Body /\ pc'[s] = pc[s]
  BY <1>0, <1>1, BodyStepStays DEF OneAtATime
<1>2. ASSUME NEW r \in Clients, Leave(r), \A s \in Clients \ {r} : outcome'[s] = outcome[s],
             pc[r] \in {"locking", "releasing"} \/ "crash" \in Faults
      PROVE  Rest
  <2>1. VersionsKept
    BY <1>0, <1>2 DEF Leave, VersionsKept, version, stores
  <2>2. ASSUME NEW s \in Clients, s # r PROVE Still(s)
    BY <1>0, <1>2, <2>2 DEF Leave, Goto, Still, version
  <2>3. Passes(r)
    BY <1>0, <1>2 DEF Leave, Goto, Passes
  <2> QED BY <2>1, <2>2, <2>3
<1>3. ASSUME NEW r \in Clients, Refuse(r) \/ Admit(r) PROVE Rest
  <2>1. VersionsKept
    BY <1>0, <1>3 DEF Refuse, Admit, VersionsKept, version, stores
  <2>2. ASSUME NEW s \in Clients, s # r PROVE Still(s)
    BY <1>0, <1>3, <2>2 DEF Refuse, Admit, Goto, Still, version, plan, config
  <2>3. Passes(r)
    BY <1>0, <1>3 DEF Refuse, Admit, Goto, Passes
  <2> QED BY <2>1, <2>2, <2>3
<1>4. ASSUME NEW r \in Clients, LockStep(r) PROVE Rest
  <2>1. CASE UNCHANGED uploadVars
    BY <1>0, <2>1 DEF uploadVars, VersionsKept, Still, version, plan, config, stores
  <2>2. CASE Goto(r, "locked") /\ UNCHANGED <<config, ctx, outcome, version, plan, stores>>
    <3>1. Passes(r)
      BY <1>0, <1>4, <2>2 DEF LockStep, Goto, Passes
    <3> QED BY <1>0, <2>2, <3>1 DEF Goto, VersionsKept, Still, version, plan, config, stores
  <2>3. CASE Leave(r) /\ outcome' = [outcome EXCEPT ![r] = "error"]
    BY <1>0, <1>2, <1>4, <2>3 DEF LockStep
  <2> QED BY <1>4, <2>1, <2>2, <2>3 DEF LockStep
<1>5. ASSUME NEW r \in Clients, Release(r) \/ Crash(r) PROVE Rest
  BY <1>0, <1>2, <1>5 DEF Release, Crash
<1>6. CASE Bystander
  <2>1. VersionsKept
    BY <1>0, <1>6 DEF Bystander, VersionsKept, version, stores
  <2>2. ASSUME NEW s \in Clients PROVE Still(s)
    BY <1>0, <1>6 DEF Bystander, Still, version, plan
  <2> QED BY <2>1, <2>2
<1> QED BY <1>0, <1>1, <1>3, <1>4, <1>5, <1>6, StepCases

-----------------------------------------------------------------------------
(* Rotation catches up *)

\* How many rows remain once the request has carried out the rest of its plan; the
\* oldest planned version has lost its row when its object is about to go.
CatchFits(r) ==
    LET stay == Cardinality(Active \ toDelete[r])
        max == coll[r].maxBackupsCount
    IN  /\ pc[r] \in Planned \cap Unregistered => stay <= max - 1
        /\ pc[r] \in {"rotating", "rotatingObject"} => stay <= max
        /\ pc[r] = "rotatingObject" =>
              \A v \in toDelete[r] :
                 (\A w \in toDelete[r] : num[v] <= num[w]) => v \notin Active
        /\ pc[r] = "releasing" /\ outcome[r] = "ok" => Cardinality(Active) <= max

CatchInv == \A r \in Clients : CatchFits(r)

\* A step that leaves the registry and a request alone leaves its count of rows.
LEMMA StillCatches ==
  ASSUME UploadTypeOK, RegistryInv, VersionsKept, NEW s \in Clients, Still(s), CatchFits(s)
  PROVE  CatchFits(s)'
<1>1. Active' = Active
  BY DEF VersionsKept, Active
<1>2. /\ pc'[s] = pc[s] /\ coll'[s] = coll[s] /\ outcome'[s] = outcome[s]
      /\ toDelete'[s] = toDelete[s]
  BY DEF Still
<1>3. pc[s] = "rotatingObject" => \A v \in toDelete[s] : num'[v] = num[v]
  <2> SUFFICES ASSUME pc[s] = "rotatingObject", NEW v \in toDelete[s] PROVE num'[v] = num[v]
    OBVIOUS
  <2>1. PlanFits(s)
    BY DEF RegistryInv, RequestFits, Planned, Stages
  <2> QED BY <2>1 DEF PlanFits, Registry, VersionsKept
<1> QED BY <1>1, <1>2, <1>3 DEF CatchFits

\* The handler's own steps while it holds the lock keep the count its plan promises.
LEMMA BodyStepCatches ==
  ASSUME UploadTypeOK, UploadTypeOK', RegistryInv, NEW r \in Clients, BodyStep(r), CatchFits(r),
         {"dbCreate", "dbDelete"} \cap Faults = {}, coll[r].maxBackupsCount >= 1
  PROVE  CatchFits(r)'
<1> USE DEF UploadTypeOK, Goto, Respond, config, version, plan, stores
<1> DEFINE max == coll[r].maxBackupsCount
           v == OldestOf(toDelete[r])
<1>0. RowFits(r) /\ max \in Nat /\ Active \in SUBSET Clients
  BY SpecsAssumption DEF RegistryInv, RequestFits, IsSpec, Active
<1>1. CASE \/ CreateStandardMiddleWares(r) \/ CopyStream(r) \/ CloseWriter(r)
           \/ CheckObject(r) \/ ContextIsLive(r)
  <2>1. /\ UNCHANGED <<row, toDelete, coll>>
        /\ pc[r] \in Planned \cap Unregistered
        /\ pc'[r] \notin {"rotating", "rotatingObject", "releasing"}
    BY <1>1 DEF CreateStandardMiddleWares, CopyStream, CloseWriter, CheckObject, ContextIsLive,
                Planned, Unregistered, Stages
  <2> QED BY <2>1 DEF CatchFits, Active
<1>2. CASE \/ CreateNewVersion(r) \/ EarlyReturn(r) \/ CollectionIsCorrupted(r)
           \/ CopyStreamFails(r) \/ CheckObjectFails(r) \/ UploadFilePanics(r)
           \/ ContextIsCancelled(r)
  <2>1. /\ pc'[r] \in {"numbered", "releasing", "undoRow"}
        /\ pc'[r] = "releasing" => outcome'[r] # "ok"
    BY <1>2 DEF CreateNewVersion, EarlyReturn, CollectionIsCorrupted, CopyStreamFails,
                CheckObjectFails, UploadFilePanics, ContextIsCancelled
  <2> QED BY <2>1 DEF CatchFits, Planned, Unregistered
<1>3. CASE UndoRow(r) \/ UndoObject(r)
  <2>1. outcome[r] \notin {"none", "ok"}
    BY <1>0, <1>3 DEF UndoRow, UndoObject, RowFits, Unregistered, Stages
  <2>2. pc'[r] \in {"undoObject", "releasing"} /\ outcome'[r] # "ok"
    BY <1>3, <2>1 DEF UndoRow, UndoObject
  <2> QED BY <2>2 DEF CatchFits, Planned, Unregistered
<1>4. CASE CreateRotationStrategyCase(r)
  <2>1. PICK doomed \in VersionsToDelete(coll[r], Active, num) :
            toDelete' = [toDelete EXCEPT ![r] = doomed]
    BY <1>4 DEF CreateRotationStrategyCase
  <2>2. IsSpec(coll[r]) /\ IsFiniteSet(Active)
    BY <1>0, SpecsAssumption, VersionsAreFinite
  <2>3. max >= 1 => Cardinality(Active \ doomed) <= max - 1
    BY ONLY <2>1, <2>2, PlanIsFifo
  <2>4. pc'[r] = "planned" /\ Active' = Active /\ coll' = coll /\ toDelete'[r] = doomed
    BY <1>4, <2>1 DEF CreateRotationStrategyCase, Active
  <2> QED BY <2>3, <2>4 DEF CatchFits
<1>5. CASE RegisterVersion(r)
  <2>1. /\ pc[r] = "registering" /\ pc'[r] = "rotating" /\ UNCHANGED <<toDelete, coll>>
        /\ row' = [row EXCEPT ![r] = "active"]
    BY <1>5 DEF RegisterVersion
  <2>2. PlanFits(r) /\ r \notin Active /\ Cardinality(Active \ toDelete[r]) <= max - 1
    BY <1>0, <2>1 DEF RegistryInv, RequestFits, RowFits, CatchFits, Planned, Unregistered,
                      Stages, Active
  <2>3. Active' \ toDelete'[r] = (Active \ toDelete[r]) \cup {r}
    BY <2>1, <2>2 DEF PlanFits, Active
  <2>4. IsFiniteSet(Active \ toDelete[r]) /\ Cardinality(Active \ toDelete[r]) \in Nat
    BY <1>0, VersionsAreFinite
  <2>5. Cardinality((Active \ toDelete[r]) \cup {r}) = Cardinality(Active \ toDelete[r]) + 1
    BY <2>2, <2>4, FS_AddElement
  <2>6. Cardinality(Active' \ toDelete'[r]) <= max
    <3> DEFINE n == Cardinality(Active \ toDelete[r])
    <3>1. Cardinality(Active' \ toDelete'[r]) = n + 1
      BY <2>3, <2>5
    <3>2. n \in Nat /\ n <= max - 1 /\ max \in Nat
      BY <1>0, <2>2, <2>4
    <3> HIDE DEF n, max
    <3>3. n + 1 <= max
      BY <3>2
    <3> QED BY <3>1, <3>3
  <2> QED BY <2>1, <2>6 DEF CatchFits, Unregistered
<1>6. CASE RotateRow(r)
  <2>1. /\ pc[r] = "rotating" /\ pc'[r] = "rotatingObject" /\ UNCHANGED <<toDelete, coll, num>>
        /\ toDelete[r] # {}
        /\ row' = [row EXCEPT ![v] = IF @ = "active" THEN "deleted" ELSE @]
    BY <1>6 DEF RotateRow, DeleteRow
  <2>2. v \in toDelete[r] /\ (\A w \in toDelete[r] : num[v] <= num[w])
    BY <2>1, OldestIsOneOfThem
  <2> HIDE DEF v
  <2>3. Active' = Active \ {v}
    BY <2>1, <2>2 DEF Active
  <2>4. Active' \ toDelete'[r] = Active \ toDelete[r]
    BY <2>1, <2>2, <2>3
  <2>5. PlanFits(r)
    BY <2>1 DEF RegistryInv, RequestFits, Planned, Stages
  <2>6. ASSUME NEW u \in toDelete[r], \A w \in toDelete[r] : num[u] <= num[w] PROVE u = v
    <3>1. num[u] <= num[v] /\ num[v] <= num[u] /\ u \in Registry /\ v \in Registry
          /\ num[u] \in Nat /\ num[v] \in Nat
      BY <2>2, <2>5, <2>6 DEF PlanFits, Registry
    <3>2. num[u] = num[v]
      BY <3>1
    <3> QED BY <3>1, <3>2 DEF RegistryInv, NumbersAreDistinct
  <2> QED BY <2>1, <2>3, <2>4, <2>6 DEF CatchFits, Unregistered
<1>7. CASE RotateObject(r)
  <2>1. /\ pc[r] = "rotatingObject" /\ pc'[r] = "rotating" /\ UNCHANGED <<row, coll, num>>
        /\ toDelete'[r] = toDelete[r] \ {v}
    BY <1>7 DEF RotateObject
  <2>2. toDelete[r] = {} \/ v \notin Active
    <3>1. toDelete[r] # {} => v \in toDelete[r] /\ \A w \in toDelete[r] : num[v] <= num[w]
      BY OldestIsOneOfThem
    <3> HIDE DEF v
    <3> QED BY <2>1, <3>1 DEF CatchFits
  <2> HIDE DEF v
  <2>3. Active' \ toDelete'[r] = Active \ toDelete[r]
    BY <2>1, <2>2 DEF Active
  <2> QED BY <2>1, <2>3 DEF CatchFits, Unregistered
<1>8. CASE Uploaded(r)
  <2>1. /\ pc[r] = "rotating" /\ pc'[r] = "releasing" /\ UNCHANGED <<row, coll, num>>
        /\ toDelete[r] = {}
    BY <1>8 DEF Uploaded
  <2>2. Active' = Active /\ Active \ toDelete[r] = Active
    BY <2>1 DEF Active
  <2> QED BY <2>1, <2>2 DEF CatchFits, Planned
<1>9. ~RegisterVersionFails(r)
  BY DEF RegisterVersionFails
<1> QED BY <1>1, <1>2, <1>3, <1>4, <1>5, <1>6, <1>7, <1>8, <1>9 DEF BodyStep

\* For every number of requests and every document that keeps at least one copy, and
\* whichever requests crash, panic, are cancelled, time out or leave objects behind:
\* an upload that answers 200 leaves at most maxBackupsCount versions, also when
\* earlier ones stopped between registering and rotating.
THEOREM UploadCatchesUp ==
  ASSUME {"overrun", "dbCreate", "dbDelete"} \cap Faults = {},
         \A s \in Specs : s.maxBackupsCount >= 1
  PROVE  Spec => []RotationCatchesUp
<1> DEFINE Inv == SerialInv /\ RegistryInv
<1>0. Spec => []Inv
  BY RegistryInvariance
<1>1. Init => CatchInv
  BY DEF Init, CatchInv, CatchFits, Planned
<1>2. Inv /\ Inv' /\ CatchInv /\ [Next]_vars => CatchInv'
  <2> SUFFICES ASSUME Inv, Inv', CatchInv, [Next]_vars, NEW s \in Clients PROVE CatchFits(s)'
    BY DEF CatchInv
  <2>0. UploadTypeOK /\ UploadTypeOK' /\ coll[s].maxBackupsCount >= 1 /\ CatchFits(s)
    BY DEF SerialInv, UploadTypeOK, CatchInv
  <2>1. CASE pc'[s] \notin Body \/ Passes(s)
    BY <2>1 DEF CatchFits, Passes, Body, Stages, Planned, Unregistered
  <2>2. CASE BodyStep(s)
    BY <2>0, <2>2, BodyStepCatches
  <2>3. CASE VersionsKept /\ Still(s)
    BY <2>0, <2>3, StillCatches
  <2> QED BY <2>1, <2>2, <2>3, BodyView
<1>3. CatchInv => RotationCatchesUp
  BY DEF CatchInv, CatchFits, RotationCatchesUp
<1> QED BY <1>0, <1>1, <1>2, <1>3, PTL DEF Spec

-----------------------------------------------------------------------------
(* The object storage *)

Own(v) == [by |-> v, bytes |-> size[v]]

\* Nothing but the version's own whole object is at its path.
Alone(v) == At(file[v]) = {Own(v)}

BeforeStored == {"new", "locking", "locked", "numbered", "planned", "streaming", "written"}

\* What a request has stored.  Close may have failed unnoticed; a version comes to be
\* registered all the same only where Attributes saw its own object.
StoreFits(r) ==
    /\ pc[r] \in BeforeStored => \A o \in objects : o.by # r
    /\ pc[r] = "closed" => Alone(r) \/ ctx[r] = "cancelled" \/ At(file[r]) = {}
    /\ pc[r] = "uploaded" => Alone(r) \/ ctx[r] = "cancelled"
    /\ pc[r] = "registering" => Alone(r)
    /\ pc[r] = "rotatingObject" => toDelete[r] # {}
    /\ ctx[r] = "timedOut" => "timeout" \in Faults
    /\ ctx[r] = "cancelled" => "cancel" \in Faults

\* A registered version's path has its own object or none, and none only where as
\* many newer versions are there as are kept.
StoredFits(v) ==
    /\ At(file[v]) \subseteq {Own(v)}
    /\ Intact(v) \/ Cardinality(NewerThan(v)) >= Limit

FileIsNumber == file = num

StoreInv ==
    /\ FileIsNumber
    /\ \A r \in Clients : StoreFits(r)
    /\ \A v \in Registry : StoredFits(v)

\* Either nothing is ever left behind at a path: no process dies, deletions work, and
\* Attributes does not fail once Exists has found the object, be it by itself or because
\* the driver looks at a context that has ended ...
NothingLeftBehind ==
    /\ {"crash", "examine", "blobDelete"} \cap Faults = {}
    /\ HeedsContext => {"timeout", "cancel"} \cap Faults = {}

\* ... or Close has stored what was written whenever an upload that is not cancelled goes
\* on after it: it does not fail, and a driver that does not look at the context is given
\* none that has timed out.
StorageIsSound ==
    /\ "close" \notin Faults
    /\ HeedsContext \/ "timeout" \notin Faults

\* An object is that of an active version, of an upload that is under way or being
\* undone, or of the version that the rotation is at.
NoStrays ==
    \A o \in objects :
       \/ row[o.by] = "active"
       \/ pc[o.by] \in {"closed", "uploaded", "registering", "undoRow", "undoObject"}
       \/ \E r \in Clients :
             /\ pc[r] = "rotatingObject" /\ o.by \in toDelete[r]
             /\ \A w \in toDelete[r] : num[o.by] <= num[w]

\* With ${version} in the template a version's path is its number.
LEMMA FileStep ==
  ASSUME UploadTypeOK, \A s \in Specs : s.versioned, FileIsNumber, [Next]_vars
  PROVE  FileIsNumber'
<1> USE DEF UploadTypeOK, FileIsNumber, version
<1>1. ASSUME NEW r \in Clients, Leave(r) PROVE FileIsNumber'
  BY <1>1 DEF Leave
<1>2. ASSUME NEW r \in Clients, Refuse(r) \/ Admit(r) \/ LockStep(r) \/ Release(r) \/ Crash(r)
      PROVE  FileIsNumber'
  BY <1>1, <1>2 DEF Refuse, Admit, LockStep, Release, Crash, uploadVars
<1>3. ASSUME NEW r \in Clients, CreateNewVersion(r) PROVE FileIsNumber'
  BY <1>3 DEF CreateNewVersion, GenerateNextVersionFilename
<1>4. ASSUME NEW r \in Clients, BodyStep(r), ~CreateNewVersion(r) PROVE UNCHANGED <<num, file>>
  <2>1. CASE CreateRotationStrategyCase(r) \/ EarlyReturn(r)
           \/ CreateStandardMiddleWares(r) \/ CollectionIsCorrupted(r)
    BY <2>1 DEF CreateRotationStrategyCase, EarlyReturn,
                CreateStandardMiddleWares, CollectionIsCorrupted
  <2>2. CASE CopyStream(r) \/ CopyStreamFails(r) \/ CloseWriter(r)
             \/ CheckObject(r) \/ CheckObjectFails(r) \/ UploadFilePanics(r)
    BY <2>2 DEF CopyStream, CopyStreamFails, CloseWriter, CheckObject,
                CheckObjectFails, UploadFilePanics
  <2>3. CASE ContextIsLive(r) \/ ContextIsCancelled(r) \/ RegisterVersion(r)
             \/ RegisterVersionFails(r)
    BY <2>3 DEF ContextIsLive, ContextIsCancelled, RegisterVersion, RegisterVersionFails
  <2>4. CASE UndoRow(r) \/ UndoObject(r) \/ RotateRow(r) \/ RotateObject(r) \/ Uploaded(r)
    BY <2>4 DEF UndoRow, UndoObject, RotateRow, RotateObject, Uploaded
  <2> QED BY <1>4, <2>1, <2>2, <2>3, <2>4 DEF BodyStep
<1>5. CASE Bystander
  BY <1>5 DEF Bystander
<1> QED BY <1>2, <1>3, <1>4, <1>5, StepCases

\* Steps outside the body change nothing that the storage's invariant is about.
LEMMA KeptStoredFits ==
  ASSUME UploadTypeOK, VersionsKept, NEW v \in Registry, StoredFits(v)
  PROVE  StoredFits(v)'
<1> USE DEF UploadTypeOK, VersionsKept
<1>1. num'[v] = num[v] /\ file'[v] = file[v] /\ size'[v] = size[v]
  BY DEF Registry
<1>2. \A o \in objects : file'[o.by] = file[o.by]
  BY DEF Object
<1>3. At(file[v])' = At(file[v]) /\ Own(v)' = Own(v) /\ Intact(v)' = Intact(v)
  BY <1>1, <1>2 DEF At, Own, Intact
<1>4. NewerThan(v)' = NewerThan(v)
  BY <1>1 DEF NewerThan, Active
<1> QED BY <1>3, <1>4 DEF StoredFits, Limit

\* What a request knows of its object survives a step that changes neither.
LEMMA KeptStoreFits ==
  ASSUME UploadTypeOK, VersionsKept, NEW s \in Clients, Still(s) \/ Passes(s), StoreFits(s)
  PROVE  StoreFits(s)'
<1> USE DEF UploadTypeOK, VersionsKept
<1>1. CASE Still(s)
  <2>1. \A o \in objects : file'[o.by] = file[o.by]
    BY DEF Object
  <2>2. At(file[s])' = At(file[s]) /\ Own(s)' = Own(s)
    BY <1>1, <2>1 DEF Still, At, Own
  <2>3. Alone(s)' = Alone(s)
    BY <2>2 DEF Alone
  <2> QED BY <1>1, <2>2, <2>3 DEF Still, ContextFollows, StoreFits
<1>2. CASE Passes(s)
  BY <1>2 DEF Passes, StoreFits, BeforeStored
<1> QED BY <1>1, <1>2

\* What one step in the body can store, and that it leaves the contexts alone
LEMMA BodyStepObjects ==
  ASSUME UploadTypeOK, NEW r \in Clients, BodyStep(r)
  PROVE  ctx' = ctx /\ \A o \in objects' : o \in objects \/ o.by = r
<1>1. CASE CreateNewVersion(r) \/ CreateRotationStrategyCase(r) \/ EarlyReturn(r)
           \/ CreateStandardMiddleWares(r) \/ CollectionIsCorrupted(r)
  BY <1>1 DEF CreateNewVersion, CreateRotationStrategyCase, EarlyReturn,
              CreateStandardMiddleWares, CollectionIsCorrupted, stores
<1>2. CASE CopyStream(r) \/ CopyStreamFails(r) \/ CloseWriter(r)
           \/ CheckObject(r) \/ CheckObjectFails(r) \/ UploadFilePanics(r)
  BY <1>2 DEF CopyStream, CopyStreamFails, CloseWriter, CheckObject,
              CheckObjectFails, UploadFilePanics, stores, Put
<1>3. CASE ContextIsLive(r) \/ ContextIsCancelled(r) \/ RegisterVersion(r)
           \/ RegisterVersionFails(r)
  BY <1>3 DEF ContextIsLive, ContextIsCancelled, RegisterVersion, RegisterVersionFails, stores
<1>4. CASE UndoRow(r) \/ UndoObject(r) \/ RotateRow(r) \/ RotateObject(r) \/ Uploaded(r)
  BY <1>4 DEF UndoRow, UndoObject, RotateRow, RotateObject, Uploaded, DeleteObject, stores
<1> QED BY <1>1, <1>2, <1>3, <1>4 DEF BodyStep

\* Requests outside the body have stored nothing and do not come to have.
LEMMA OthersStoreFits ==
  ASSUME UploadTypeOK, NEW r \in Clients, BodyStep(r),
         NEW s \in Clients, s # r, pc[s] \notin Body, pc'[s] = pc[s], StoreFits(s)
  PROVE  StoreFits(s)'
<1>1. ctx' = ctx /\ \A o \in objects' : o \in objects \/ o.by = r
  BY BodyStepObjects
<1> QED BY <1>1 DEF StoreFits, BeforeStored, Body, Stages

\* No registered version is at the path of one that is not yet.
LEMMA FreshPath ==
  ASSUME UploadTypeOK, RegistryInv, FileIsNumber, NEW r \in Clients, pc[r] \in Numbered,
         NEW v \in Registry
  PROVE  file[v] # file[r]
<1>1. IsNext(r)
  BY DEF RegistryInv, RequestFits
<1>2. num[v] < num[r] /\ num[v] \in Nat /\ num[r] \in Nat
  BY <1>1 DEF IsNext, UploadTypeOK, Registry
<1> QED BY <1>2 DEF FileIsNumber

\* Replacing or removing what is at a path leaves every version at another alone.
LEMMA OtherPathsStay ==
  ASSUME UploadTypeOK, NEW v \in Clients, NEW p, file[v] # p, StoredFits(v),
         UNCHANGED <<row, num, file, size>>,
         \A o : file[o.by] # p => (o \in objects' <=> o \in objects)
  PROVE  StoredFits(v)'
<1>1. At(file[v])' = At(file[v]) /\ Own(v)' = Own(v)
  BY DEF At, Own
<1>2. Intact(v)' = Intact(v)
  BY DEF Intact
<1>3. NewerThan(v)' = NewerThan(v)
  BY DEF NewerThan, Active
<1> QED BY <1>1, <1>2, <1>3 DEF StoredFits, Limit

\* Steps of the body that store and delete nothing
LEMMA LookingStores ==
  ASSUME UploadTypeOK, UploadTypeOK', RegistryInv, StoreInv, NEW r \in Clients,
         \/ EarlyReturn(r) \/ CreateRotationStrategyCase(r) \/ CreateStandardMiddleWares(r)
         \/ CollectionIsCorrupted(r) \/ CheckObject(r) \/ CheckObjectFails(r)
         \/ UploadFilePanics(r) \/ ContextIsLive(r) \/ ContextIsCancelled(r)
         \/ UndoRow(r) \/ Uploaded(r)
  PROVE  StoreFits(r)' /\ \A v \in Registry' : StoredFits(v)'
<1> USE DEF UploadTypeOK, Goto, Respond, config, version, plan, stores
<1>1. UNCHANGED <<row, num, file, size, objects, ctx>>
  <2>1. CASE EarlyReturn(r) \/ CreateRotationStrategyCase(r) \/ CreateStandardMiddleWares(r)
             \/ CollectionIsCorrupted(r)
    BY <2>1 DEF EarlyReturn, CreateRotationStrategyCase, CreateStandardMiddleWares,
                CollectionIsCorrupted
  <2>2. CASE CheckObject(r) \/ CheckObjectFails(r) \/ UploadFilePanics(r) \/ ContextIsLive(r)
             \/ ContextIsCancelled(r) \/ Uploaded(r)
    BY <2>2 DEF CheckObject, CheckObjectFails, UploadFilePanics, ContextIsLive,
                ContextIsCancelled, Uploaded
  <2>3. CASE UndoRow(r)
    BY <2>3, StreamKeepsRegistry DEF UndoRow
  <2> QED BY <2>1, <2>2, <2>3
<1>2. Registry' = Registry /\ Active' = Active
  BY <1>1 DEF Registry, Active
<1>3. ASSUME NEW v \in Registry' PROVE StoredFits(v)'
  <2>1. StoredFits(v)
    BY <1>2 DEF StoreInv
  <2> QED BY <1>1, <1>2, <2>1 DEF StoredFits, At, Own, Intact, NewerThan, Limit
<1>4. Alone(r)' = Alone(r) /\ At(file[r])' = At(file[r])
  BY <1>1 DEF Alone, At, Own
<1>5. StoreFits(r)
  BY DEF StoreInv
<1>6. StoreFits(r)'
  <2>1. CASE EarlyReturn(r) \/ CreateRotationStrategyCase(r) \/ CreateStandardMiddleWares(r)
             \/ CollectionIsCorrupted(r)
    BY <1>1, <1>5, <2>1 DEF EarlyReturn, CreateRotationStrategyCase, CreateStandardMiddleWares,
                CollectionIsCorrupted, StoreFits, BeforeStored
  <2>2. CASE CheckObjectFails(r) \/ UploadFilePanics(r) \/ ContextIsCancelled(r)
             \/ Uploaded(r) \/ UndoRow(r)
    BY <1>1, <1>5, <2>2 DEF CheckObjectFails, UploadFilePanics, ContextIsCancelled, Uploaded,
                UndoRow, StoreFits, BeforeStored
  <2>3. CASE CheckObject(r)
    \* there is an object at the path, so it is the request's own
    <3>1. At(file[r]) # {}
      BY <2>3 DEF CheckObject, SizeMatches
    <3> QED BY <1>1, <1>4, <1>5, <2>3, <3>1 DEF CheckObject, StoreFits, BeforeStored
  <2>4. CASE ContextIsLive(r)
    BY <1>1, <1>4, <1>5, <2>4 DEF ContextIsLive, StoreFits, BeforeStored
  <2> QED BY <2>1, <2>2, <2>3, <2>4
<1> QED BY <1>3, <1>6

\* Numbering and streaming change what is known of a version that nobody has seen.
LEMMA UnseenStores ==
  ASSUME UploadTypeOK, UploadTypeOK', RegistryInv, StoreInv, NEW r \in Clients,
         CreateNewVersion(r) \/ CopyStream(r)
  PROVE  StoreFits(r)' /\ \A v \in Registry' : StoredFits(v)'
<1> USE DEF UploadTypeOK, Goto, config, version, plan, stores
<1>1. /\ UNCHANGED <<row, objects, ctx>>
      /\ pc[r] \in {"locked", "streaming"} /\ pc'[r] \in {"numbered", "written"}
      /\ \A v \in Clients \ {r} : num'[v] = num[v] /\ file'[v] = file[v] /\ size'[v] = size[v]
  BY DEF CreateNewVersion, CopyStream
<1>2. StoreFits(r) /\ row[r] = "none"
  BY <1>1 DEF StoreInv, RegistryInv, RequestFits, RowFits, Unregistered, Stages
<1>3. \A o \in objects : o.by # r
  BY <1>1, <1>2 DEF StoreFits, BeforeStored
<1>4. VersionsKept
  BY <1>1, <1>2, <1>3 DEF VersionsKept
<1>5. StoreFits(r)'
  BY <1>1, <1>2, <1>3 DEF StoreFits, BeforeStored
<1>6. Registry' = Registry
  BY <1>1 DEF Registry
<1> QED BY <1>4, <1>5, <1>6, KeptStoredFits DEF StoreInv

\* Storing at a fresh path
LEMMA WritingStores ==
  ASSUME UploadTypeOK, UploadTypeOK', OneAtATime, RegistryInv, StoreInv, NEW r \in Clients,
         CopyStreamFails(r) \/ CloseWriter(r),
         StorageIsSound \/ (NothingLeftBehind /\ NoStrays)
  PROVE  StoreFits(r)' /\ \A v \in Registry' : StoredFits(v)'
<1> USE DEF UploadTypeOK, Goto, config, version, plan, stores
<1>1. /\ UNCHANGED <<row, num, file, size, ctx>>
      /\ pc[r] \in {"streaming", "written"} /\ pc'[r] \in {"undoRow", "closed"}
      /\ objects' = objects \/ \E n : objects' = Put(r, n)
  BY DEF CopyStreamFails, CloseWriter
<1>2. \A o : file[o.by] # file[r] => (o \in objects' <=> o \in objects)
  BY <1>1 DEF Put, At
<1>3. FileIsNumber /\ pc[r] \in Numbered /\ StoreFits(r)
  BY <1>1 DEF StoreInv, Numbered, Unregistered, Stages
<1>4. ASSUME NEW v \in Registry' PROVE StoredFits(v)'
  <2>1. v \in Registry /\ v \in Clients /\ StoredFits(v)
    BY <1>1 DEF Registry, StoreInv
  <2>2. file[v] # file[r]
    BY <1>3, <2>1, FreshPath
  <2> QED BY <1>1, <1>2, <2>1, <2>2, OtherPathsStay
<1>5. StoreFits(r)'
  <2>1. CASE CopyStreamFails(r)
    BY <1>1, <1>3, <2>1 DEF CopyStreamFails, StoreFits, BeforeStored
  <2>2. CASE CloseWriter(r) /\ objects' = Put(r, size[r])
    <3>1. At(file[r])' = {Own(r)'}
      BY <1>1, <2>2 DEF Put, At, Own
    <3>2. Alone(r)'
      BY <3>1 DEF Alone
    <3> QED BY <1>1, <1>3, <2>2, <3>2 DEF CloseWriter, StoreFits, BeforeStored
  <2>3. CASE CloseWriter(r) /\ pc'[r] = "undoRow"
    BY <1>1, <1>3, <2>3 DEF StoreFits, BeforeStored
  <2>4. CASE /\ CloseWriter(r) /\ objects' = objects /\ pc'[r] = "closed"
             /\ "close" \in Faults \/ (ctx[r] # "live" /\ ~HeedsContext)
    \* Close failed
    <3>1. pc[r] = "written" /\ pc'[r] = "closed"
      BY <2>4 DEF CloseWriter
    <3>2. CASE StorageIsSound
      <4>1. ctx[r] = "cancelled"
        BY <1>3, <2>4, <3>2 DEF StoreFits, StorageIsSound
      <4> QED BY <1>1, <1>3, <3>1, <4>1 DEF StoreFits, BeforeStored
    <3>3. CASE NothingLeftBehind /\ NoStrays
      <4>1. ASSUME NEW o \in At(file[r]) PROVE FALSE
        <5>1. o \in objects /\ file[o.by] = file[r] /\ o.by \in Clients
          BY DEF At, Object
        <5>2. o.by \notin Registry
          BY <1>3, <5>1, FreshPath
        <5>3. row[o.by] # "active"
          BY <5>1, <5>2 DEF Registry
        <5>4. ASSUME NEW q \in Clients, pc[q] \in Body PROVE q = r
          BY <3>1, <5>4 DEF OneAtATime, Body, Stages
        <5>5. pc[o.by] \notin {"closed", "uploaded", "registering", "undoRow", "undoObject"}
          BY <3>1, <5>1, <5>4 DEF Body, Stages
        <5>6. ~\E q \in Clients : pc[q] = "rotatingObject"
          BY <3>1, <5>4 DEF Body, Stages
        <5> QED BY <3>3, <5>1, <5>3, <5>5, <5>6 DEF NoStrays
      <4>2. At(file[r])' = {}
        BY <1>1, <2>4, <4>1 DEF At
      <4> QED BY <1>1, <1>3, <3>1, <4>2 DEF StoreFits, BeforeStored
    <3> QED BY <3>2, <3>3
  <2> QED BY <2>1, <2>2, <2>3, <2>4 DEF CloseWriter
<1> QED BY <1>4, <1>5

\* Registering makes the request's own object a version's.
LEMMA RegisteringStores ==
  ASSUME UploadTypeOK, UploadTypeOK', RegistryInv, StoreInv, NEW r \in Clients,
         RegisterVersion(r)
  PROVE  StoreFits(r)' /\ \A v \in Registry' : StoredFits(v)'
<1> USE DEF UploadTypeOK, Goto, config, version, plan, stores
<1>1. /\ UNCHANGED <<num, file, size, ctx, objects, toDelete>>
      /\ pc[r] = "registering" /\ pc'[r] = "rotating"
      /\ row' = [row EXCEPT ![r] = "active"]
  BY DEF RegisterVersion
<1>2. StoreFits(r) /\ Alone(r)
  BY <1>1 DEF StoreInv, StoreFits
<1>3. Registry' = Registry \cup {r} /\ Active \subseteq Active' /\ Active' \in SUBSET Clients
  BY <1>1 DEF Registry, Active
<1>4. StoreFits(r)'
  BY <1>1, <1>2 DEF StoreFits, BeforeStored
<1>5. \A v \in Clients : /\ At(file[v])' = At(file[v]) /\ Own(v)' = Own(v)
                         /\ Intact(v)' = Intact(v)
  BY <1>1 DEF At, Own, Intact
<1>6. StoredFits(r)'
  <2>1. At(file[r]) = {Own(r)} /\ Own(r) \in objects
    BY <1>2 DEF Alone, At
  <2>2. Intact(r)
    BY <2>1 DEF Intact, Own
  <2> QED BY <1>5, <2>1, <2>2 DEF StoredFits
<1>7. ASSUME NEW v \in Registry PROVE StoredFits(v)'
  <2>1. StoredFits(v) /\ v \in Clients
    BY DEF StoreInv, Registry
  <2>2. Cardinality(NewerThan(v)) >= Limit => Cardinality(NewerThan(v)') >= Limit
    <3>1. NewerThan(v) \subseteq NewerThan(v)' /\ NewerThan(v)' \in SUBSET Clients
      BY <1>1, <1>3 DEF NewerThan
    <3>2. /\ Cardinality(NewerThan(v)) \in Nat /\ Cardinality(NewerThan(v)') \in Nat
          /\ Cardinality(NewerThan(v)) <= Cardinality(NewerThan(v)')
      BY <3>1, FewerVersions
    <3> QED BY <3>2, LimitIsLeast
  <2> QED BY <1>5, <2>1, <2>2 DEF StoredFits, Limit
<1> QED BY <1>3, <1>4, <1>6, <1>7

\* Giving a version up takes no newer copy from another that needs it.
LEMMA RotatingRowStores ==
  ASSUME UploadTypeOK, UploadTypeOK', RegistryInv, StoreInv, NEW r \in Clients, RotateRow(r)
  PROVE  StoreFits(r)' /\ \A v \in Registry' : StoredFits(v)'
<1> USE DEF UploadTypeOK, Goto, config, version, plan, stores
<1> DEFINE u == OldestOf(toDelete[r])
<1>1. /\ UNCHANGED <<num, file, size, ctx, objects, toDelete>>
      /\ pc[r] = "rotating" /\ pc'[r] = "rotatingObject" /\ toDelete[r] # {}
      /\ row' = row \/ row' = [row EXCEPT ![u] = IF @ = "active" THEN "deleted" ELSE @]
  BY DEF RotateRow, DeleteRow
<1>2. /\ u \in Registry
      /\ Cardinality({w \in Active \ {u} : num[w] > num[u]}) >= Limit
  BY <1>1, RotatedHasNewer
<1> HIDE DEF u
<1>3. u \in Clients /\ Registry' = Registry /\ (Active' = Active \/ Active' = Active \ {u})
  BY <1>1, <1>2 DEF Registry, Active
<1>4. StoreFits(r)'
  <2>1. StoreFits(r)
    BY DEF StoreInv
  <2> QED BY <1>1, <2>1 DEF StoreFits, BeforeStored
<1>5. ASSUME NEW v \in Registry PROVE StoredFits(v)'
  <2>1. StoredFits(v) /\ v \in Clients
    BY DEF StoreInv, Registry
  <2>2. At(file[v])' = At(file[v]) /\ Own(v)' = Own(v) /\ Intact(v)' = Intact(v)
    BY <1>1 DEF At, Own, Intact
  <2>3. Cardinality(NewerThan(v)) >= Limit => Cardinality(NewerThan(v)') >= Limit
    <3>1. CASE Active' = Active
      BY <1>1, <3>1 DEF NewerThan
    <3>2. CASE Active' = Active \ {u}
      BY <1>1, <1>2, <1>3, <2>1, <3>2, DeletionKeepsNewer
    <3> QED BY <1>3, <3>1, <3>2
  <2> QED BY <2>1, <2>2, <2>3 DEF StoredFits, Limit
<1> QED BY <1>3, <1>4, <1>5

\* Deleting the object of a version that is undone or given up
LEMMA DeletingStores ==
  ASSUME UploadTypeOK, UploadTypeOK', RegistryInv, StoreInv, NEW r \in Clients,
         UndoObject(r) \/ RotateObject(r)
  PROVE  StoreFits(r)' /\ \A v \in Registry' : StoredFits(v)'
<1> USE DEF UploadTypeOK, Goto, config, version, plan, stores
<1>0. StoreFits(r) /\ FileIsNumber
  BY DEF StoreInv
<1>1. /\ UNCHANGED <<row, num, file, size, ctx>>
      /\ pc'[r] \in {"rotating", "releasing"}
  BY DEF UndoObject, RotateObject
<1>2. Registry' = Registry /\ Registry \in SUBSET Clients
  BY <1>1 DEF Registry
<1>3. StoreFits(r)'
  BY <1>0, <1>1 DEF StoreFits, BeforeStored
<1>4. CASE UndoObject(r)
  <2>1. \A o : file[o.by] # file[r] => (o \in objects' <=> o \in objects)
    BY <1>4 DEF UndoObject, DeleteObject, At
  <2>2. pc[r] \in Numbered
    BY <1>4 DEF UndoObject, Numbered, Unregistered, Stages
  <2>3. ASSUME NEW v \in Registry PROVE StoredFits(v)'
    <3>1. file[v] # file[r] /\ StoredFits(v)
      BY <1>0, <2>2, FreshPath DEF StoreInv
    <3> QED BY <1>1, <1>2, <2>1, <3>1, OtherPathsStay
  <2> QED BY <1>2, <1>3, <2>3
<1>5. CASE RotateObject(r)
  <2>1. pc[r] = "rotatingObject" /\ toDelete[r] # {}
    BY <1>0, <1>5 DEF RotateObject, StoreFits
  <2>2. PICK u \in Registry :
           /\ u = OldestOf(toDelete[r])
           /\ Cardinality({w \in Active \ {u} : num[w] > num[u]}) >= Limit
    BY <2>1, RotatedHasNewer
  <2>3. /\ \A o : file[o.by] # file[u] => (o \in objects' <=> o \in objects)
        /\ objects' \subseteq objects
    BY <1>5, <2>2 DEF RotateObject, DeleteObject, At
  <2>4. ASSUME NEW v \in Registry, v # u PROVE StoredFits(v)'
    <3>1. file[v] # file[u]
      BY <1>0, <2>2, <2>4 DEF FileIsNumber, RegistryInv, NumbersAreDistinct
    <3>2. StoredFits(v)
      BY DEF StoreInv
    <3> QED BY <1>1, <1>2, <2>3, <3>1, <3>2, OtherPathsStay
  <2>5. StoredFits(u)'
    <3>1. At(file[u])' \subseteq At(file[u]) /\ Own(u)' = Own(u)
      BY <1>1, <2>3 DEF At, Own
    <3>2. NewerThan(u)' = {w \in Active \ {u} : num[w] > num[u]}
      <4>1. ~(num[u] > num[u])
        BY <1>2, <2>2
      <4> QED BY <1>1, <4>1 DEF NewerThan, Active
    <3>3. StoredFits(u)
      BY <2>2 DEF StoreInv
    <3> QED BY <2>2, <3>1, <3>2, <3>3 DEF StoredFits, Limit
  <2> QED BY <1>2, <1>3, <2>4, <2>5
<1> QED BY <1>4, <1>5

\* The storage's invariant is inductive.
LEMMA StoreStep ==
  ASSUME SerialInv, SerialInv', RegistryInv, StoreInv, [Next]_vars,
         "dbCreate" \notin Faults, \A s \in Specs : s.versioned,
         StorageIsSound \/ (NothingLeftBehind /\ NoStrays)
  PROVE  StoreInv'
<1>0. UploadTypeOK /\ UploadTypeOK' /\ OneAtATime
  BY SerialIsOneAtATime DEF SerialInv
<1>1. FileIsNumber'
  BY <1>0, FileStep DEF StoreInv
<1>2. CASE VersionsKept /\ \A s \in Clients : Still(s) \/ Passes(s)
  <2>1. \A s \in Clients : StoreFits(s)'
    BY <1>0, <1>2, KeptStoreFits DEF StoreInv
  <2>2. Registry' = Registry
    BY <1>2 DEF VersionsKept, Registry
  <2>3. \A v \in Registry : StoredFits(v)'
    BY <1>0, <1>2, KeptStoredFits DEF StoreInv
  <2> QED BY <1>1, <2>1, <2>2, <2>3 DEF StoreInv
<1>3. ASSUME NEW r \in Clients, BodyStep(r),
             \A s \in Clients \ {r} : pc[s] \notin Body /\ pc'[s] = pc[s]
      PROVE  StoreInv'
  <2>1. ~RegisterVersionFails(r)
    BY DEF RegisterVersionFails
  <2>2. StoreFits(r)' /\ \A v \in Registry' : StoredFits(v)'
    BY <1>0, <1>3, <2>1, LookingStores, UnseenStores, WritingStores, RegisteringStores,
       RotatingRowStores, DeletingStores DEF BodyStep
  <2>3. ASSUME NEW s \in Clients, s # r PROVE StoreFits(s)'
    BY <1>0, <1>3, <2>3, OthersStoreFits DEF StoreInv
  <2> QED BY <1>1, <2>2, <2>3 DEF StoreInv
<1> QED BY <1>2, <1>3, BodyView

\* Two least versions of a plan are the same one.
LEMMA LeastIsUnique ==
  ASSUME UploadTypeOK, RegistryInv, NEW r \in Clients, pc[r] \in Planned,
         NEW u \in toDelete[r], \A w \in toDelete[r] : num[u] <= num[w],
         NEW v \in toDelete[r], \A w \in toDelete[r] : num[v] <= num[w]
  PROVE  u = v
<1>1. PlanFits(r)
  BY DEF RegistryInv, RequestFits
<1>2. u \in Registry /\ v \in Registry /\ num[u] \in Nat /\ num[v] \in Nat
  BY <1>1 DEF PlanFits, Registry, UploadTypeOK
<1>3. num[u] = num[v]
  BY <1>2
<1> QED BY <1>2, <1>3 DEF RegistryInv, NumbersAreDistinct

\* A step of the body leaves no object without a version or an upload.
LEMMA BodyStepStrays ==
  ASSUME UploadTypeOK, UploadTypeOK', RegistryInv, StoreInv, NoStrays,
         NothingLeftBehind, "dbCreate" \notin Faults, NEW r \in Clients, BodyStep(r),
         \A s \in Clients \ {r} : pc[s] \notin Body
  PROVE  NoStrays'
<1> USE DEF UploadTypeOK, Goto, Respond, config, version, plan, stores
<1> DEFINE Under == {"closed", "uploaded", "registering", "undoRow", "undoObject"}
           Least(q, v) == v \in toDelete[q] /\ \A w \in toDelete[q] : num[v] <= num[w]
<1>0. RowFits(r) /\ StoreFits(r)
  BY DEF RegistryInv, RequestFits, StoreInv
<1>1. ASSUME NEW o \in objects
      PROVE  /\ o.by \in Clients
             /\ \/ row[o.by] = "active"
                \/ o.by = r /\ pc[r] \in Under
                \/ pc[r] = "rotatingObject" /\ Least(r, o.by)
  BY DEF NoStrays, Body, Stages, Object
<1>2. CASE ~RotateRow(r) /\ ~RotateObject(r)
  <2>1. pc[r] # "rotatingObject" /\ \A s \in Clients \ {r} : row'[s] = row[s]
    <3>1. CASE CreateNewVersion(r) \/ CreateRotationStrategyCase(r) \/ EarlyReturn(r)
               \/ CreateStandardMiddleWares(r) \/ CollectionIsCorrupted(r)
      BY <3>1 DEF CreateNewVersion, CreateRotationStrategyCase, EarlyReturn,
                  CreateStandardMiddleWares, CollectionIsCorrupted
    <3>2. CASE CopyStream(r) \/ CopyStreamFails(r) \/ CloseWriter(r)
               \/ CheckObject(r) \/ CheckObjectFails(r) \/ UploadFilePanics(r)
      BY <3>2 DEF CopyStream, CopyStreamFails, CloseWriter, CheckObject,
                  CheckObjectFails, UploadFilePanics, NilDereference
    <3>3. CASE ContextIsLive(r) \/ ContextIsCancelled(r) \/ RegisterVersion(r)
               \/ RegisterVersionFails(r)
      BY <3>3 DEF ContextIsLive, ContextIsCancelled, RegisterVersion, RegisterVersionFails
    <3>4. CASE UndoRow(r) \/ UndoObject(r) \/ Uploaded(r)
      BY <3>4 DEF UndoRow, UndoObject, Uploaded, DeleteRow
    <3> QED BY <1>2, <3>1, <3>2, <3>3, <3>4 DEF BodyStep
  <2>2. ASSUME NEW o \in objects', o.by = r PROVE row'[r] = "active" \/ pc'[r] \in Under
    <3>1. CASE CreateNewVersion(r) \/ CreateRotationStrategyCase(r) \/ EarlyReturn(r)
               \/ CreateStandardMiddleWares(r) \/ CollectionIsCorrupted(r)
      BY <1>0, <2>2, <3>1 DEF CreateNewVersion, CreateRotationStrategyCase, EarlyReturn,
                  CreateStandardMiddleWares, CollectionIsCorrupted, StoreFits, BeforeStored
    <3>2. CASE CopyStream(r) \/ CopyStreamFails(r) \/ CloseWriter(r)
               \/ CheckObject(r) \/ CheckObjectFails(r) \/ UploadFilePanics(r)
      <4>1. ctx[r] = "live" \/ ~HeedsContext
        BY <1>0 DEF StoreFits, NothingLeftBehind
      <4> QED BY <1>0, <2>2, <3>2, <4>1 DEF CopyStream, CopyStreamFails, CloseWriter, CheckObject,
                  CheckObjectFails, UploadFilePanics, NilDereference, ExamineMayFail, StoreFits,
                  BeforeStored, NothingLeftBehind
    <3>3. CASE ContextIsLive(r) \/ ContextIsCancelled(r) \/ RegisterVersion(r)
               \/ RegisterVersionFails(r)
      BY <3>3 DEF ContextIsLive, ContextIsCancelled, RegisterVersion, RegisterVersionFails
    <3>4. CASE UndoRow(r) \/ Uploaded(r)
      BY <1>0, <3>4 DEF UndoRow, Uploaded, RowFits
    <3>5. CASE UndoObject(r)
      <4>1. objects' = objects \ At(file[r])
        BY <3>5 DEF UndoObject, DeleteObject, NothingLeftBehind
      <4> QED BY <2>2, <4>1 DEF At
    <3> QED BY <1>2, <3>1, <3>2, <3>3, <3>4, <3>5 DEF BodyStep
  <2>3. ASSUME NEW o \in objects', o.by # r PROVE row'[o.by] = "active"
    <3>1. o \in objects
      BY <2>3, BodyStepObjects
    <3> QED BY <1>1, <2>1, <2>3, <3>1
  <2> QED BY <2>2, <2>3 DEF NoStrays
<1>3. CASE RotateRow(r)
  <2>1. /\ UNCHANGED <<num, objects, toDelete>> /\ toDelete[r] # {}
        /\ pc[r] = "rotating" /\ pc'[r] = "rotatingObject"
        /\ \A v \in Clients : v # OldestOf(toDelete[r]) => row'[v] = row[v]
    BY <1>3 DEF RotateRow, DeleteRow
  <2>2. Least(r, OldestOf(toDelete[r]))
    BY <2>1, OldestIsOneOfThem
  <2>3. ASSUME NEW o \in objects' PROVE row'[o.by] = "active" \/ Least(r, o.by)'
    <3>1. row[o.by] = "active" /\ o.by \in Clients
      BY <1>1, <2>1
    <3>2. CASE o.by = OldestOf(toDelete[r])
      BY <2>1, <2>2, <3>2
    <3>3. CASE o.by # OldestOf(toDelete[r])
      BY <2>1, <3>1, <3>3
    <3> QED BY <3>2, <3>3
  <2> QED BY <2>1, <2>3 DEF NoStrays
<1>4. CASE RotateObject(r)
  <2>1. UNCHANGED <<num, file, row>> /\ pc[r] = "rotatingObject" /\ toDelete[r] # {}
        /\ objects' = objects \ At(file[OldestOf(toDelete[r])])
    BY <1>0, <1>4 DEF RotateObject, DeleteObject, NothingLeftBehind, StoreFits
  <2>2. Least(r, OldestOf(toDelete[r]))
    BY <2>1, OldestIsOneOfThem
  <2>3. ASSUME NEW o \in objects' PROVE row'[o.by] = "active"
    <3>1. o \in objects /\ o.by # OldestOf(toDelete[r])
      BY <2>1 DEF At
    <3>2. ~Least(r, o.by)
      BY <2>1, <2>2, <3>1, LeastIsUnique DEF Planned, Stages
    <3> QED BY <1>1, <2>1, <3>1, <3>2
  <2> QED BY <2>3 DEF NoStrays
<1> QED BY <1>2, <1>3, <1>4

\* Nor does a step of the others.
LEMMA StraysStep ==
  ASSUME SerialInv, SerialInv', RegistryInv, StoreInv, NoStrays, [Next]_vars,
         NothingLeftBehind, "dbCreate" \notin Faults
  PROVE  NoStrays'
<1>0. UploadTypeOK /\ UploadTypeOK'
  BY DEF SerialInv
<1>1. ASSUME VersionsKept, \A s \in Clients : Still(s) \/ Passes(s) PROVE NoStrays'
  <2> SUFFICES ASSUME NEW o \in objects'
               PROVE  \/ row'[o.by] = "active"
                      \/ pc'[o.by] \in {"closed", "uploaded", "registering", "undoRow", "undoObject"}
                      \/ \E r \in Clients :
                            /\ pc'[r] = "rotatingObject" /\ o.by \in toDelete'[r]
                            /\ \A w \in toDelete'[r] : num'[o.by] <= num'[w]
    BY DEF NoStrays
  <2>1. o \in objects /\ o.by \in Clients /\ row' = row
    BY <1>0, <1>1 DEF VersionsKept, UploadTypeOK, Object
  <2>2. \A s \in Clients : pc[s] \in Body \ {"releasing"} => Still(s)
    BY <1>1 DEF Passes, NothingLeftBehind, Body, Stages
  <2>3. CASE row[o.by] = "active"
    BY <2>1, <2>3
  <2>4. CASE pc[o.by] \in {"closed", "uploaded", "registering", "undoRow", "undoObject"}
    BY <2>1, <2>2, <2>4 DEF Still, Body, Stages
  <2>5. ASSUME NEW r \in Clients, pc[r] = "rotatingObject", o.by \in toDelete[r],
               \A w \in toDelete[r] : num[o.by] <= num[w]
        PROVE  /\ pc'[r] = "rotatingObject" /\ o.by \in toDelete'[r]
               /\ \A w \in toDelete'[r] : num'[o.by] <= num'[w]
    <3>1. pc'[r] = pc[r] /\ toDelete'[r] = toDelete[r]
      BY <2>2, <2>5 DEF Still, Body, Stages
    <3>2. PlanFits(r)
      BY <2>5 DEF RegistryInv, RequestFits, Planned, Stages
    <3>3. \A w \in toDelete[r] : num'[w] = num[w]
      BY <1>1, <3>2 DEF PlanFits, Registry, VersionsKept
    <3> QED BY <2>5, <3>1, <3>3
  <2> QED BY <2>1, <2>3, <2>4, <2>5 DEF NoStrays
<1>2. ASSUME NEW r \in Clients, BodyStep(r),
             \A s \in Clients \ {r} : pc[s] \notin Body /\ pc'[s] = pc[s]
      PROVE  NoStrays'
  BY <1>0, <1>2, BodyStepStrays
<1> QED BY <1>1, <1>2, BodyView

\* Nothing is stored at first.
LEMMA StoreInit == Init => StoreInv /\ NoStrays
<1> SUFFICES ASSUME Init PROVE StoreInv /\ NoStrays
  OBVIOUS
<1>1. Registry = {} /\ objects = {} /\ FileIsNumber
  BY DEF Init, Registry, FileIsNumber
<1>2. \A r \in Clients : StoreFits(r)
  BY DEF Init, StoreFits
<1> QED BY <1>1, <1>2 DEF StoreInv, NoStrays

\* Registry and storage together, in a collection whose template has ${version}.
\* Objects that are left behind and calls to the storage that fail unnoticed are
\* harmless apart; together they would let an upload be registered on the strength
\* of another's object.
THEOREM StoreInvariance ==
  ASSUME {"overrun", "dbCreate"} \cap Faults = {}, \A s \in Specs : s.versioned,
         StorageIsSound \/ NothingLeftBehind
  PROVE  Spec => [](SerialInv /\ RegistryInv /\ StoreInv /\ (NothingLeftBehind => NoStrays))
<1> DEFINE Reg == SerialInv /\ RegistryInv
           Inv == StoreInv /\ (NothingLeftBehind => NoStrays)
<1>1. Spec => []Reg
  BY RegistryInvariance
<1>2. Init => Inv
  BY StoreInit
<1>3. Reg /\ Reg' /\ Inv /\ [Next]_vars => Inv'
  <2> SUFFICES ASSUME Reg, Reg', Inv, [Next]_vars PROVE Inv'
    OBVIOUS
  <2>1. StoreInv'
    BY StoreStep
  <2>2. NothingLeftBehind => NoStrays'
    BY StraysStep
  <2> QED BY <2>1, <2>2 DEF NothingLeftBehind
<1> QED BY <1>1, <1>2, <1>3, PTL DEF Spec

\* For every number of requests, documents and bodies: each of the newest versions, as
\* many as the collection keeps, is in the storage whole, whichever uploads crash, are
\* cancelled, time out, fail to delete or stop within their rotation.
THEOREM NewestStayIntact ==
  ASSUME {"overrun", "dbCreate"} \cap Faults = {}, \A s \in Specs : s.versioned,
         StorageIsSound \/ NothingLeftBehind
  PROVE  Spec => []NewestAreIntact
<1>1. SerialInv /\ StoreInv => NewestAreIntact
  <2> SUFFICES ASSUME SerialInv, StoreInv, NEW v \in Newest PROVE Intact(v)
    BY DEF NewestAreIntact
  <2>1. v \in Registry /\ NewerThan(v) \in SUBSET Clients /\ ~(Cardinality(NewerThan(v)) >= Limit)
    <3>1. v \in Registry /\ NewerThan(v) \in SUBSET Clients /\ Cardinality(NewerThan(v)) < Limit
      BY DEF Newest, Active, Registry, NewerThan
    <3> QED BY <3>1, VersionsAreFinite, LimitIsLeast
  <2> QED BY <2>1 DEF StoreInv, StoredFits
<1> QED BY <1>1, StoreInvariance, PTL

\* An answer 200 is kept: with k of them given, min(k, maxBackupsCount) whole versions
\* are in the collection at every moment.
THEOREM AnswersAreKept ==
  ASSUME {"overrun", "dbCreate"} \cap Faults = {}, \A s \in Specs : s.versioned,
         StorageIsSound \/ NothingLeftBehind
  PROVE  Spec => []AnsweredCopiesAreKept
<1>1. SerialInv /\ RegistryInv /\ NewestAreIntact => AnsweredCopiesAreKept
  <2> SUFFICES ASSUME SerialInv, RegistryInv, NewestAreIntact PROVE AnsweredCopiesAreKept
    OBVIOUS
  <2> DEFINE answered == {r \in Clients : outcome[r] = "ok"}
             intact == {v \in Active : Intact(v)}
             least == Min({Limit, Cardinality(answered)})
  <2>1. Newest \subseteq intact /\ intact \in SUBSET Clients /\ answered \in SUBSET Clients
        /\ Active \in SUBSET Clients
    BY DEF NewestAreIntact, Newest, Active
  <2>2. answered \subseteq Registry
    BY DEF RegistryInv, RequestFits, RowFits, Registry
  <2>3. Limit \in Nat /\ Cardinality(answered) \in Nat /\ Cardinality(intact) \in Nat
        /\ Cardinality(Newest) \in Nat /\ Cardinality(Newest) <= Cardinality(intact)
    BY <2>1, LimitIsLeast, VersionsAreFinite, FewerVersions
  <2>4. least \in Nat /\ least <= Limit /\ least <= Cardinality(answered)
    <3> DEFINE S == {Limit, Cardinality(answered)}
    <3>1. S \in SUBSET Nat /\ S # {} /\ Limit \in S /\ Cardinality(answered) \in S
      BY <2>3
    <3>2. Min(S) \in S /\ \A y \in S : Min(S) <= y
      <4> HIDE DEF S
      <4> QED BY <3>1, MinIsLeast
    <3> QED BY <3>1, <3>2
  <2>5. Cardinality(Newest) >= Limit \/ Newest = Active
    <3>1. num \in [Clients -> Nat] /\ IsFiniteSet(Active)
      BY <2>1, VersionsAreFinite DEF SerialInv, UploadTypeOK
    <3>2. ASSUME NEW A \in SUBSET Clients, IsFiniteSet(A), NEW L \in Nat
          PROVE  LET top == {v \in A : Cardinality({w \in A : num[w] > num[v]}) < L}
                 IN  Cardinality(top) >= L \/ top = A
      BY ONLY <3>1, <3>2, NewestAreMany, SMTT(60)
    <3>3. LET top == {v \in Active : Cardinality({w \in Active : num[w] > num[v]}) < Limit}
          IN  Cardinality(top) >= Limit \/ top = Active
      BY ONLY <2>1, <2>3, <3>1, <3>2
    <3> QED BY <3>3 DEF Newest, NewerThan
  <2>6. Cardinality(intact) >= least
    <3>1. CASE Cardinality(Newest) >= Limit
      <4> HIDE DEF intact, answered, least
      <4> QED BY <2>3, <2>4, <3>1
    <3>2. CASE Newest = Active
      <4>1. intact = Active
        BY <2>1, <3>2
      <4>2. CASE \E v \in Registry : row[v] = "deleted"
        <5>1. PICK v \in Registry : row[v] = "deleted"
          BY <4>2
        <5>2. Cardinality(NewerThan(v)) >= Limit
          BY <5>1 DEF RegistryInv, DeletedAreSuperseded
        <5>3. NewerThan(v) \subseteq Active
          BY DEF NewerThan
        <5>4. Cardinality(NewerThan(v)) <= Cardinality(Active) /\ Cardinality(NewerThan(v)) \in Nat
          BY <2>1, <5>3, FewerVersions
        <5> HIDE DEF intact, answered, least
        <5> QED BY <2>3, <2>4, <4>1, <5>2, <5>4
      <4>3. CASE ~\E v \in Registry : row[v] = "deleted"
        <5>1. answered \subseteq Active
          BY <2>2, <4>3 DEF SerialInv, UploadTypeOK, Registry, Active
        <5>2. Cardinality(answered) <= Cardinality(Active)
          BY <2>1, <5>1, FewerVersions
        <5> HIDE DEF intact, answered, least
        <5> QED BY <2>3, <2>4, <4>1, <5>2
      <4> QED BY <4>2, <4>3
    <3> QED BY <2>5, <3>1, <3>2
  <2> QED BY <2>6 DEF AnsweredCopiesAreKept
<1> QED BY <1>1, NewestStayIntact, StoreInvariance, PTL

\* Where no process dies, the storage deletes what it is asked to, and answers when it
\* is asked about an object it has: with no upload in the body every object is the whole object of a registered
\* version, also after uploads that failed, were cancelled or timed out.
THEOREM NothingIsOrphaned ==
  ASSUME {"overrun", "dbCreate"} \cap Faults = {}, \A s \in Specs : s.versioned,
         NothingLeftBehind
  PROVE  Spec => []NoOrphanObjects
<1>1. SerialInv /\ StoreInv /\ NoStrays => NoOrphanObjects
  <2> SUFFICES ASSUME SerialInv, StoreInv, NoStrays, \A r \in Clients : ~InUpload(r),
                      NEW o \in objects
               PROVE  o \in {[by |-> v, bytes |-> size[v]] : v \in Active}
    BY DEF NoOrphanObjects
  <2>1. \A r \in Clients : pc[r] \notin Body
    BY DEF SerialInv, PhaseFollowsPc, InUpload
  <2>2. o.by \in Active
    BY <2>1 DEF NoStrays, Body, Stages, SerialInv, UploadTypeOK, Object, Active
  <2>3. o \in At(file[o.by]) /\ o.by \in Registry
    BY <2>2 DEF At, Active, Registry
  <2>4. o = Own(o.by)
    BY <2>3 DEF StoreInv, StoredFits
  <2> QED BY <2>2, <2>4 DEF Own
<1> QED BY <1>1, StoreInvariance, PTL

-----------------------------------------------------------------------------
(* The quota *)

\* The document's limit of one version, and the extra space it grants to all
One == Unread.maxOneVersionSize
Extra == ExtraSpace(Unread)

\* Edits of the document leave both alone, and change maxBackupsCount by one at most.
SameAllowance ==
    /\ Extra >= 0
    /\ \A s \in Specs : /\ s.maxOneVersionSize = One /\ ExtraSpace(s) = Extra
                        /\ s.maxBackupsCount <= Limit + 1

\* What a version takes of the extra space
Above == [v \in Clients |-> IF size[v] > One THEN size[v] - One ELSE 0]

\* From reading the limit to the INSERT
Allowed == {"streaming", "written", "closed", "uploaded", "registering"}

\* What is not to be deleted fits in the extra space, and so does the new version
\* with it.
SpaceFits(r) ==
    LET used == Total(Above, Active \ toDelete[r])
    IN  /\ pc[r] \in Planned \cap Unregistered => used <= Extra
        /\ pc[r] \in Allowed => maxAllowed[r] <= One + Extra - used
        /\ pc[r] \in Allowed \ {"streaming"} => size[r] <= maxAllowed[r]

SpaceInv ==
    /\ Total(Above, Newest) <= Extra
    /\ \A r \in Clients : SpaceFits(r) /\ outcome[r] # "corrupted"

\* The numbers of the document
LEMMA AllowanceTypes == One \in Nat \ {0} /\ Extra \in Int
  BY UnreadIsSpec, SpecsAssumption DEF One, Extra, ExtraSpace, IsSpec

\* What a version takes is a number of bytes.
LEMMA AboveTypes ==
  ASSUME UploadTypeOK
  PROVE  /\ \A v \in Clients : Above[v] \in Nat /\ Above[v] \in Int /\ 0 <= Above[v]
         /\ \A v \in Clients : size[v] \in Int /\ size[v] <= One + Above[v]
  BY AllowanceTypes DEF Above, UploadTypeOK

\* And their sum over any versions
LEMMA SpaceTypes ==
  ASSUME UploadTypeOK, NEW S \in SUBSET Clients
  PROVE  Total(Above, S) \in Nat
  BY AboveTypes, VersionsAreFinite, TotalIsNat

\* The same of the next state
LEMMA PrimedSpaceTypes ==
  ASSUME UploadTypeOK', NEW S \in SUBSET Clients
  PROVE  Total(Above', S) \in Nat
<1> DEFINE f == Above'
<1>1. \A v \in S : f[v] \in Nat
  BY AllowanceTypes DEF Above, UploadTypeOK
<1>2. IsFiniteSet(S)
  BY VersionsAreFinite
<1>3. Total(f, S) \in Nat
  <2> HIDE DEF f
  <2> QED BY <1>1, <1>2, TotalIsNat
<1> QED BY <1>3

\* Fewer versions take no more, as long as their sizes stay.
LEMMA SpaceShrinks ==
  ASSUME UploadTypeOK, UploadTypeOK', NEW S \in SUBSET Clients, NEW T \in SUBSET S,
         \A v \in T : size'[v] = size[v]
  PROVE  Total(Above', T) <= Total(Above, S)
<1>1. \A v \in Clients : Above[v] \in Int /\ 0 <= Above[v]
  BY AboveTypes
<1>2. \A v \in Clients : Above'[v] \in Int
  BY AllowanceTypes DEF Above, UploadTypeOK
<1>3. \A v \in T : Above'[v] <= Above[v]
  <2>1. \A v \in T : Above'[v] = Above[v]
    BY DEF Above
  <2> QED BY <1>1, <2>1
<1>4. IsFiniteSet(S)
  BY VersionsAreFinite
<1> DEFINE f == Above'
           g == Above
<1>5. /\ \A v \in S : f[v] \in Int /\ g[v] \in Int
      /\ \A v \in T : f[v] <= g[v]
      /\ \A v \in S \ T : 0 <= g[v]
  BY <1>1, <1>2, <1>3
<1>6. Total(f, T) <= Total(g, S)
  <2> HIDE DEF f, g
  <2> QED BY <1>4, <1>5, TotalIsMonotonic
<1> QED BY <1>6

\* The limit is that of some document.
LEMMA LimitIsReached == \E s \in Specs : s.maxBackupsCount = Limit
<1> DEFINE S == {s.maxBackupsCount : s \in Specs}
<1>1. S \in SUBSET Nat /\ S # {}
  BY SpecsAssumption DEF IsSpec
<1>2. Min(S) \in S
  <2> HIDE DEF S
  <2> QED BY <1>1, MinIsLeast
<1> QED BY <1>2 DEF Limit

\* The allocated space as the handler adds it up
LEMMA UsedSpace ==
  ASSUME UploadTypeOK, SameAllowance, NEW r \in Clients
  PROVE  /\ IsSpec(coll[r]) /\ ExtraSpace(coll[r]) = Extra /\ coll[r].maxOneVersionSize = One
         /\ SpaceAboveLimit(coll[r], Active \ toDelete[r], size) = Total(Above, Active \ toDelete[r])
<1> DEFINE counted == Active \ toDelete[r]
           above == [v \in counted |-> IF size[v] > One THEN size[v] - One ELSE 0]
<1>1. coll[r] \in Specs
  BY DEF UploadTypeOK
<1>2. IsSpec(coll[r]) /\ ExtraSpace(coll[r]) = Extra /\ coll[r].maxOneVersionSize = One
  BY <1>1, SpecsAssumption DEF SameAllowance
<1>3. counted \in SUBSET Clients /\ IsFiniteSet(counted)
  BY VersionsAreFinite DEF Active
<1>4. \A v \in counted : Above[v] \in Int /\ above[v] = Above[v]
  BY <1>3, AboveTypes DEF Above
<1>5. Total(Above, counted) = Total(above, counted)
  <2> HIDE DEF counted, above
  <2> QED BY <1>3, <1>4, TotalAgrees
<1>6. SpaceAboveLimit(coll[r], counted, size) = Total(above, counted)
  BY <1>2 DEF SpaceAboveLimit
<1> QED BY <1>2, <1>5, <1>6

\* The newest are Limit at most.
LEMMA NewestWithinLimit ==
  ASSUME UploadTypeOK, RegistryInv
  PROVE  Newest \in SUBSET Clients /\ Cardinality(Newest) <= Limit
<1>1. num \in [Clients -> Nat] /\ Active \in SUBSET Clients /\ IsFiniteSet(Active)
      /\ Limit \in Nat /\ \A v, w \in Active : num[v] = num[w] => v = w
  BY VersionsAreFinite, LimitIsLeast
     DEF UploadTypeOK, Active, RegistryInv, NumbersAreDistinct, Registry
<1>2. ASSUME NEW A \in SUBSET Clients, IsFiniteSet(A), NEW L \in Nat,
             \A v, w \in A : num[v] = num[w] => v = w
      PROVE  Cardinality({v \in A : Cardinality({w \in A : num[w] > num[v]}) < L}) <= L
  BY ONLY <1>1, <1>2, NewestAreFew, SMTT(60)
<1>3. Cardinality({v \in Active : Cardinality({w \in Active : num[w] > num[v]}) < Limit}) <= Limit
  BY ONLY <1>1, <1>2
<1> QED BY <1>1, <1>3 DEF Newest, NewerThan

\* No step changes the size of a registered version.
LEMMA SizesStay ==
  ASSUME SerialInv, SerialInv', RegistryInv, [Next]_vars
  PROVE  \A v \in Registry : size'[v] = size[v]
<1>0. UploadTypeOK
  BY DEF SerialInv
<1>1. ASSUME NEW r \in Clients, BodyStep(r), ~CopyStream(r) PROVE size' = size
  BY <1>1 DEF BodyStep, CreateNewVersion, CreateRotationStrategyCase, EarlyReturn,
              CreateStandardMiddleWares, CollectionIsCorrupted, CopyStreamFails, CloseWriter,
              CheckObject, CheckObjectFails, UploadFilePanics, ContextIsLive,
              ContextIsCancelled, RegisterVersion, RegisterVersionFails, UndoRow, UndoObject,
              RotateRow, RotateObject, Uploaded, version
<1>2. ASSUME NEW r \in Clients, CopyStream(r) PROVE \A v \in Registry : size'[v] = size[v]
  <2>1. r \notin Registry
    BY <1>2 DEF CopyStream, RegistryInv, RequestFits, RowFits, Unregistered, Stages, Registry
  <2> QED BY <1>0, <1>2, <2>1 DEF CopyStream, Registry, UploadTypeOK
<1>3. CASE VersionsKept
  BY <1>3 DEF VersionsKept, Registry
<1> QED BY <1>1, <1>2, <1>3, BodyView

\* Only the INSERT brings a version among the newest.
LEMMA NewestShrink ==
  ASSUME UploadTypeOK, UploadTypeOK', RegistryInv, "dbCreate" \notin Faults, [Next]_vars,
         ~\E r \in Clients : RegisterVersion(r)
  PROVE  Newest' \subseteq Newest
<1> USE DEF UploadTypeOK
<1>1. CASE row' = row /\ \A v \in Registry : num'[v] = num[v]
  <2>1. Active' = Active /\ Active \subseteq Registry
    BY <1>1 DEF Active, Registry
  <2>2. \A v \in Active : NewerThan(v)' = NewerThan(v)
    BY <1>1, <2>1 DEF NewerThan
  <2> QED BY <2>1, <2>2 DEF Newest, Limit
<1>2. ASSUME NEW r \in Clients, RotateRow(r) PROVE Newest' \subseteq Newest
  <2> DEFINE u == OldestOf(toDelete[r])
  <2>1. PICK v : v = u
    OBVIOUS
  <2>2. /\ num' = num /\ pc[r] = "rotating" /\ toDelete[r] # {}
        /\ row' = row \/ row' = [row EXCEPT ![v] = IF @ = "active" THEN "deleted" ELSE @]
    BY <1>2, <2>1 DEF RotateRow, DeleteRow, version
  <2>3. v \in Clients /\ Cardinality({w \in Active \ {v} : num[w] > num[v]}) >= Limit
    <3>1. u \in Registry /\ Cardinality({w \in Active \ {u} : num[w] > num[u]}) >= Limit
      BY <2>2, RotatedHasNewer
    <3> HIDE DEF u
    <3> QED BY <2>1, <3>1 DEF Registry
  <2> HIDE DEF u
  <2>4. CASE row' = row
    BY <1>1, <2>2, <2>4
  <2>5. CASE row' # row
    <3>1. Active' = Active \ {v}
      BY <2>2, <2>3, <2>5 DEF Active
    <3>2. ASSUME NEW w \in Active', w \notin Newest PROVE w \notin Newest'
      <4>1. w \in Clients /\ NewerThan(w) \in SUBSET Clients /\ NewerThan(w)' \in SUBSET Clients
            /\ ~(Cardinality(NewerThan(w)) < Limit)
        BY <3>1, <3>2 DEF Active, Newest, NewerThan
      <4>2. Cardinality(NewerThan(w)) >= Limit
        BY <4>1, VersionsAreFinite, LimitIsLeast
      <4>3. Cardinality(NewerThan(w)') >= Limit
        BY <2>2, <2>3, <3>1, <4>1, <4>2, DeletionKeepsNewer
      <4>4. ~(Cardinality(NewerThan(w)') < Limit)
        BY <4>1, <4>3, VersionsAreFinite, LimitIsLeast
      <4> QED BY <4>4 DEF Newest, Limit
    <3> QED BY <3>2 DEF Newest
  <2> QED BY <2>4, <2>5
<1> QED BY <1>1, <1>2, RegistryChanges

\* After the INSERT the newest are the new version and some that are not to be deleted.
LEMMA NewestAfterInsert ==
  ASSUME UploadTypeOK, RegistryInv, NEW r \in Clients, RegisterVersion(r)
  PROVE  Newest' \subseteq (Active \ toDelete[r]) \cup {r}
<1> USE DEF UploadTypeOK
<1>1. /\ num' = num /\ pc[r] = "registering" /\ row' = [row EXCEPT ![r] = "active"]
  BY DEF RegisterVersion, version
<1>2. row[r] = "none" /\ IsNext(r) /\ PlanFits(r)
  BY <1>1 DEF RegistryInv, RequestFits, RowFits, Unregistered, Numbered, Planned, Stages
<1>3. Active' = Active \cup {r} /\ r \notin Active /\ Active \subseteq Registry
      /\ Active \in SUBSET Clients
  BY <1>1, <1>2 DEF Active, Registry
<1> SUFFICES ASSUME NEW v \in Active, v \in toDelete[r] PROVE v \notin Newest'
  BY <1>3 DEF Newest
<1>4. num[v] < num[r] /\ Cardinality(StaysOver(r, v)) >= coll[r].maxBackupsCount - 1
  BY <1>2 DEF PlanFits
<1>5. NewerThan(v)' \in SUBSET Clients /\ StaysOver(r, v) \cup {r} \subseteq NewerThan(v)'
      /\ r \notin StaysOver(r, v) /\ StaysOver(r, v) \in SUBSET Clients
  BY <1>1, <1>3, <1>4 DEF NewerThan, StaysOver
<1>6. IsFiniteSet(StaysOver(r, v)) /\ Cardinality(StaysOver(r, v)) \in Nat
  BY <1>5, VersionsAreFinite
<1>7. Cardinality(StaysOver(r, v) \cup {r}) = Cardinality(StaysOver(r, v)) + 1
  BY <1>5, <1>6, FS_AddElement
<1>8. Cardinality(StaysOver(r, v) \cup {r}) <= Cardinality(NewerThan(v)')
      /\ Cardinality(NewerThan(v)') \in Nat
  BY <1>5, FewerVersions
<1>9. Limit \in Nat /\ coll[r].maxBackupsCount \in Nat /\ Limit <= coll[r].maxBackupsCount
  BY LimitIsLeast, SpecsAssumption DEF IsSpec
<1>10. ~(Cardinality(NewerThan(v)') < Limit)
  BY <1>4, <1>6, <1>7, <1>8, <1>9
<1> QED BY <1>10 DEF Newest, Limit

\* What the rotation leaves is among the newest.
LEMMA PlanLeavesNewest ==
  ASSUME UploadTypeOK, SameAllowance, NEW r \in Clients,
         NEW doomed \in VersionsToDelete(coll[r], Active, num)
  PROVE  Active \ doomed \subseteq Newest
<1> USE DEF UploadTypeOK
<1> DEFINE max == coll[r].maxBackupsCount
           stay == Active \ doomed
<1>1. IsSpec(coll[r]) /\ max \in Nat /\ Limit \in Nat /\ max <= Limit + 1
      /\ Active \in SUBSET Clients /\ IsFiniteSet(Active)
  BY SpecsAssumption, LimitIsLeast, VersionsAreFinite DEF IsSpec, SameAllowance, Active
<1>2. doomed \in VersionsToDelete(coll[r], Active, num) /\ IsSpec(coll[r]) /\ IsFiniteSet(Active)
  BY <1>1
<1>3. /\ \A v \in doomed, w \in stay : num[v] <= num[w]
      /\ max >= 1 => Cardinality(stay) <= max - 1
      /\ max = 0 => stay = {}
  <2>1. \A v \in doomed, w \in Active \ doomed : num[v] <= num[w]
    BY ONLY <1>2, PlanIsFifo
  <2>2. max >= 1 => Cardinality(Active \ doomed) <= max - 1
    BY ONLY <1>2, PlanIsFifo
  <2>3. max = 0 => Active \ doomed = {}
    BY ONLY <1>2, PlanIsFifo
  <2> QED BY <2>1, <2>2, <2>3
<1> SUFFICES ASSUME NEW v \in stay PROVE Cardinality(NewerThan(v)) < Limit
  BY DEF Newest
<1>4. NewerThan(v) \subseteq stay \ {v}
  <2> SUFFICES ASSUME NEW w \in Active, num[w] > num[v] PROVE w \in stay \ {v}
    BY DEF NewerThan
  <2>1. w \in Clients /\ v \in Clients /\ num[w] \in Nat /\ num[v] \in Nat
    BY <1>1
  <2> QED BY <1>3, <2>1
<1>5. stay \in SUBSET Clients /\ IsFiniteSet(stay) /\ Cardinality(stay) \in Nat
  <2>1. stay \in SUBSET Clients
    BY <1>1
  <2> QED BY <2>1, VersionsAreFinite
<1>6. max >= 1
  BY <1>1, <1>3
<1> HIDE DEF stay, max
<1>7. Cardinality(stay \ {v}) = Cardinality(stay) - 1
  BY <1>5, FS_RemoveElement
<1>8. Cardinality(NewerThan(v)) <= Cardinality(stay \ {v}) /\ Cardinality(NewerThan(v)) \in Nat
  BY <1>4, <1>5, FewerVersions, stay \ {v} \in SUBSET Clients
<1> QED BY <1>1, <1>3, <1>5, <1>6, <1>7, <1>8

\* A request that stands still, or that changes neither plan nor limit nor its size
LEMMA SpaceFitsStays ==
  ASSUME UploadTypeOK, UploadTypeOK', NEW s \in Clients, SpaceFits(s), Active' = Active,
         \A v \in Active : size'[v] = size[v], toDelete'[s] = toDelete[s],
         pc'[s] \in Planned \cap Unregistered => pc[s] \in Planned \cap Unregistered,
         pc'[s] \in Allowed => pc[s] \in Allowed /\ maxAllowed'[s] = maxAllowed[s],
         pc'[s] \in Allowed \ {"streaming"} =>
            size'[s] <= maxAllowed[s] \/ (pc[s] # "streaming" /\ size'[s] = size[s])
  PROVE  SpaceFits(s)'
<1> DEFINE stay == Active \ toDelete[s]
           used == Total(Above, stay)
           after == Total(Above', stay)
<1>1. stay \in SUBSET Clients /\ \A v \in stay : size'[v] = size[v]
  BY DEF Active
<1>2. used \in Nat /\ after <= used
  BY <1>1, SpaceTypes, SpaceShrinks
<1>3. after \in Int
  BY <1>1, PrimedSpaceTypes
<1>4. used = Total(Above, Active \ toDelete[s]) /\ after = Total(Above', Active' \ toDelete'[s])
  OBVIOUS
<1> HIDE DEF used, after, stay
<1>5. maxAllowed[s] \in Nat /\ maxAllowed'[s] \in Nat /\ One \in Nat /\ Extra \in Int
  BY AllowanceTypes DEF UploadTypeOK
<1>6. /\ pc[s] \in Planned \cap Unregistered => used <= Extra
      /\ pc[s] \in Allowed => maxAllowed[s] <= One + Extra - used
      /\ pc[s] \in Allowed \ {"streaming"} => size[s] <= maxAllowed[s]
  BY <1>4 DEF SpaceFits
<1>7. pc'[s] \in Planned \cap Unregistered => after <= Extra
  BY <1>2, <1>3, <1>5, <1>6
<1>8. pc'[s] \in Allowed => maxAllowed'[s] <= One + Extra - after
  BY <1>2, <1>3, <1>5, <1>6
<1>9. pc'[s] \in Allowed \ {"streaming"} => size'[s] <= maxAllowed'[s]
  BY <1>6
<1> QED BY <1>4, <1>7, <1>8, <1>9 DEF SpaceFits, One, Extra

\* A step of the body
LEMMA BodyStepFits ==
  ASSUME UploadTypeOK, UploadTypeOK', RegistryInv, SameAllowance, "dbCreate" \notin Faults,
         Total(Above, Newest) <= Extra, NEW r \in Clients, SpaceFits(r), BodyStep(r)
  PROVE  SpaceFits(r)'
<1> USE DEF UploadTypeOK, Goto, Respond, config, version, plan, stores
<1>0. RowFits(r) /\ Active \in SUBSET Clients
  BY DEF RegistryInv, RequestFits, Active
<1>1. CASE \/ CloseWriter(r) \/ CheckObject(r) \/ ContextIsLive(r)
  <2>1. /\ UNCHANGED <<row, toDelete, size, maxAllowed>>
        /\ pc[r] \in {"written", "closed", "uploaded"}
    BY <1>1 DEF CloseWriter, CheckObject, ContextIsLive
  <2>2. Active' = Active /\ pc[r] \in Planned \cap Unregistered /\ pc[r] \in Allowed
        /\ pc[r] # "streaming"
    BY <2>1 DEF Active, Planned, Unregistered, Stages, Allowed
  <2> QED BY <2>1, <2>2, SpaceFitsStays
<1>2. CASE CopyStream(r)
  <2>1. /\ UNCHANGED <<row, toDelete, maxAllowed>> /\ pc[r] = "streaming"
        /\ size'[r] <= maxAllowed[r] /\ \A v \in Clients \ {r} : size'[v] = size[v]
    BY <1>2, UploadSizesAssumption DEF CopyStream
  <2>2. Active' = Active /\ pc[r] \in Planned \cap Unregistered /\ pc[r] \in Allowed
        /\ r \notin Active
    BY <1>0, <2>1 DEF Active, Planned, Unregistered, Stages, Allowed, RowFits
  <2> QED BY <1>0, <2>1, <2>2, SpaceFitsStays
<1>3. CASE \/ CreateNewVersion(r) \/ EarlyReturn(r) \/ CollectionIsCorrupted(r)
           \/ CopyStreamFails(r) \/ CheckObjectFails(r) \/ UploadFilePanics(r)
           \/ ContextIsCancelled(r)
  <2>1. pc'[r] \in {"numbered", "releasing", "undoRow"}
    BY <1>3 DEF CreateNewVersion, EarlyReturn, CollectionIsCorrupted, CopyStreamFails,
                CheckObjectFails, UploadFilePanics, ContextIsCancelled
  <2> QED BY <2>1 DEF SpaceFits, Planned, Unregistered, Allowed
<1>4. CASE \/ UndoRow(r) \/ UndoObject(r) \/ RegisterVersion(r) \/ RotateRow(r) \/ RotateObject(r)
           \/ Uploaded(r)
  <2>1. pc'[r] \in {"undoObject", "rotating", "rotatingObject", "releasing"}
    BY <1>4 DEF UndoRow, UndoObject, RegisterVersion, RotateRow, RotateObject, Uploaded
  <2> QED BY <2>1 DEF SpaceFits, Planned, Unregistered, Allowed
<1>5. CASE CreateRotationStrategyCase(r)
  <2>1. PICK doomed \in VersionsToDelete(coll[r], Active, num) :
            toDelete' = [toDelete EXCEPT ![r] = doomed]
    BY <1>5 DEF CreateRotationStrategyCase
  <2>2. pc'[r] = "planned" /\ Active' = Active /\ size' = size /\ toDelete'[r] = doomed
        /\ Above' = Above
    BY <1>5, <2>1 DEF CreateRotationStrategyCase, Active, Above, One
  <2>3. Active \ doomed \subseteq Newest /\ Newest \in SUBSET Clients
    BY <1>0, PlanLeavesNewest DEF Newest
  <2>4. Total(Above', Active \ doomed) <= Total(Above, Newest)
    BY <2>2, <2>3, SpaceShrinks
  <2>5. Total(Above, Active \ doomed) <= Total(Above, Newest)
        /\ Total(Above, Active \ doomed) \in Nat /\ Total(Above, Newest) \in Nat
    BY <2>2, <2>3, <2>4, SpaceTypes
  <2>6. Total(Above, Active \ doomed) <= Extra
    BY <2>5, AllowanceTypes
  <2> QED BY <2>2, <2>6 DEF SpaceFits, Allowed, Extra
<1>6. CASE CreateStandardMiddleWares(r)
  <2> DEFINE used == Total(Above, Active \ toDelete[r])
  <2>1. /\ pc'[r] = "streaming" /\ pc[r] = "planned"
        /\ UNCHANGED <<row, toDelete, size>>
        /\ maxAllowed'[r] = MaximumAllowedFilesize(coll[r], Active, toDelete[r], size)
    BY <1>6 DEF CreateStandardMiddleWares
  <2>2. Active' = Active /\ Above' = Above
    BY <2>1 DEF Active, Above, One
  <2>3. used \in Nat /\ Extra \in Int /\ One \in Nat /\ used <= Extra
    <3>1. used <= Extra
      BY <2>1 DEF SpaceFits, Planned, Unregistered, Stages
    <3>2. Active \ toDelete[r] \in SUBSET Clients
      BY <1>0
    <3>3. used \in Nat
      BY <3>2, SpaceTypes
    <3> QED BY <3>1, <3>3, AllowanceTypes
  <2>4. maxAllowed'[r] = IF Extra = 0 THEN One ELSE Extra - used + One
    BY <2>1, UsedSpace DEF MaximumAllowedFilesize, RemainedExtraSpace
  <2>5. maxAllowed'[r] <= One + Extra - used
    <3> HIDE DEF used
    <3> QED BY <2>3, <2>4
  <2>6. used = Total(Above', Active' \ toDelete'[r])
    BY <2>1, <2>2
  <2> QED BY <2>1, <2>3, <2>5, <2>6 DEF SpaceFits, Allowed, One, Extra
<1>7. ~RegisterVersionFails(r)
  BY DEF RegisterVersionFails
<1> QED BY <1>1, <1>2, <1>3, <1>4, <1>5, <1>6, <1>7 DEF BodyStep

\* The newest versions keep within the extra space.
LEMMA NewestFit ==
  ASSUME SerialInv, SerialInv', RegistryInv, SameAllowance, "dbCreate" \notin Faults,
         SpaceInv, [Next]_vars
  PROVE  Total(Above', Newest') <= Extra
<1>0. UploadTypeOK /\ UploadTypeOK'
  BY DEF SerialInv
<1> USE DEF UploadTypeOK
<1>1. CASE ~\E r \in Clients : RegisterVersion(r)
  <2>1. Newest' \subseteq Newest
    BY <1>0, <1>1, NewestShrink
  <2>2. Newest \in SUBSET Clients /\ Newest \subseteq Registry
    BY DEF Newest, Active, Registry
  <2>3. \A v \in Newest' : size'[v] = size[v]
    BY <2>1, <2>2, SizesStay
  <2>4. Total(Above', Newest') <= Total(Above, Newest)
    BY <1>0, <2>1, <2>2, <2>3, SpaceShrinks
  <2>5. Total(Above, Newest) \in Nat /\ Total(Above, Newest) <= Extra
    BY <1>0, <2>2, SpaceTypes DEF SpaceInv
  <2>6. Total(Above', Newest') \in Int
    BY <1>0, <2>1, <2>2, PrimedSpaceTypes
  <2> QED BY <2>4, <2>5, <2>6, AllowanceTypes
<1>2. ASSUME NEW r \in Clients, RegisterVersion(r) PROVE Total(Above', Newest') <= Extra
  <2> DEFINE stay == Active \ toDelete[r]
             used == Total(Above, stay)
  <2>1. pc[r] = "registering" /\ size' = size /\ r \notin Active
    BY <1>2 DEF RegisterVersion, version, RegistryInv, RequestFits, RowFits, Unregistered,
                Stages, Active
  <2>2. used <= Extra /\ maxAllowed[r] <= One + Extra - used /\ size[r] <= maxAllowed[r]
    BY <2>1 DEF SpaceInv, SpaceFits, Planned, Unregistered, Stages, Allowed
  <2>3. stay \in SUBSET Clients /\ r \notin stay /\ IsFiniteSet(stay)
    <3>1. stay \in SUBSET Clients /\ r \notin stay
      BY <2>1 DEF Active
    <3> QED BY <3>1, VersionsAreFinite
  <2>4. \A v \in Clients : Above[v] \in Nat /\ Above[v] \in Int
    BY <1>0, AboveTypes
  <2>5. used \in Nat
    BY <1>0, <2>3, SpaceTypes
  <2>6. Above[r] <= Extra - used
    <3>1. Above[r] = IF size[r] > One THEN size[r] - One ELSE 0
      BY DEF Above
    <3>2. size[r] \in Nat /\ maxAllowed[r] \in Nat
      BY <1>0
    <3> HIDE DEF used
    <3> QED BY <2>2, <2>5, <3>1, <3>2, AllowanceTypes
  <2>7. Total(Above, stay \cup {r}) = Above[r] + used
    <3>1. \A v \in stay \cup {r} : Above[v] \in Int
      BY <2>3, <2>4
    <3> HIDE DEF stay
    <3> QED BY <2>3, <3>1, TotalAdds
  <2>8. Newest' \subseteq stay \cup {r} /\ stay \cup {r} \in SUBSET Clients
    BY <1>0, <1>2, <2>3, NewestAfterInsert
  <2>9. Total(Above', Newest') <= Total(Above, stay \cup {r})
    <3> HIDE DEF stay
    <3> QED BY <1>0, <2>1, <2>8, SpaceShrinks
  <2>10. Total(Above', Newest') \in Int
    BY <1>0, <2>8, PrimedSpaceTypes
  <2>11. Above[r] \in Nat
    BY <2>4
  <2> HIDE DEF used, stay
  <2> QED BY <2>5, <2>6, <2>7, <2>9, <2>10, <2>11, AllowanceTypes
<1> QED BY <1>1, <1>2

\* Nothing negative is ever computed.
LEMMA NotCorrupted ==
  ASSUME UploadTypeOK, SameAllowance, NEW r \in Clients, SpaceFits(r)
  PROVE  ~CollectionIsCorrupted(r)
<1> SUFFICES ASSUME CollectionIsCorrupted(r) PROVE FALSE
  OBVIOUS
<1> DEFINE used == Total(Above, Active \ toDelete[r])
<1>1. pc[r] = "planned" /\ IsCorrupted(coll[r], Active, toDelete[r], size)
  BY DEF CollectionIsCorrupted
<1>2. used <= Extra
  BY <1>1 DEF SpaceFits, Planned, Unregistered, Stages
<1>3. Extra - used < 0
  BY <1>1, UsedSpace DEF IsCorrupted, RemainedExtraSpace
<1>4. used \in Nat
  <2>1. Active \ toDelete[r] \in SUBSET Clients
    BY DEF Active
  <2> QED BY <2>1, SpaceTypes
<1> HIDE DEF used
<1> QED BY <1>2, <1>3, <1>4, AllowanceTypes

\* The error message is the only step that gives this answer.
LEMMA CorruptedIsReported ==
  ASSUME UploadTypeOK, NEW r \in Clients, outcome[r] # "corrupted", [Next]_vars,
         ~CollectionIsCorrupted(r)
  PROVE  outcome'[r] # "corrupted"
<1> USE DEF UploadTypeOK
<1>1. ASSUME NEW s \in Clients, Refuse(s) \/ Admit(s) \/ LockStep(s) \/ Release(s) \/ Crash(s)
      PROVE  outcome'[r] # "corrupted"
  BY <1>1 DEF Refuse, Admit, LockStep, Release, Crash, uploadVars
<1>2. ASSUME NEW s \in Clients, BodyStep(s), ~CollectionIsCorrupted(s)
      PROVE  outcome'[r] # "corrupted"
  BY <1>2 DEF BodyStep, Respond, CreateNewVersion, CreateRotationStrategyCase, EarlyReturn,
              CreateStandardMiddleWares, CopyStream, CopyStreamFails, CloseWriter,
              CheckObject, CheckObjectFails, UploadFilePanics, ContextIsLive,
              ContextIsCancelled, RegisterVersion, RegisterVersionFails, UndoRow, UndoObject,
              RotateRow, RotateObject, Uploaded
<1>3. ASSUME NEW s \in Clients, CollectionIsCorrupted(s) PROVE outcome'[r] # "corrupted"
  BY <1>3 DEF CollectionIsCorrupted, Respond
<1>4. CASE Bystander
  BY <1>4 DEF Bystander
<1> QED BY <1>1, <1>2, <1>3, <1>4, StepCases

\* The space the newest versions take, and the space every upload is allowed
THEOREM SpaceInvariance ==
  ASSUME {"overrun", "dbCreate"} \cap Faults = {}, SameAllowance
  PROVE  Spec => []SpaceInv
<1> DEFINE Inv == SerialInv /\ RegistryInv
<1>0. Spec => []Inv
  BY RegistryInvariance
<1>1. Init => SpaceInv
  <2> SUFFICES ASSUME Init PROVE SpaceInv
    OBVIOUS
  <2>1. Newest = {}
    BY DEF Init, Newest, Active
  <2>2. Total(Above, Newest) <= Extra
    BY <2>1, TotalOfNone DEF SameAllowance
  <2>3. \A r \in Clients : SpaceFits(r) /\ outcome[r] # "corrupted"
    BY DEF Init, SpaceFits, Planned, Allowed
  <2> QED BY <2>2, <2>3 DEF SpaceInv
<1>2. Inv /\ Inv' /\ SpaceInv /\ [Next]_vars => SpaceInv'
  <2> SUFFICES ASSUME Inv, Inv', SpaceInv, [Next]_vars PROVE SpaceInv'
    OBVIOUS
  <2>0. UploadTypeOK /\ UploadTypeOK' /\ Total(Above, Newest) <= Extra
    BY DEF SerialInv, SpaceInv
  <2>1. Total(Above', Newest') <= Extra
    BY NewestFit
  <2>2. ASSUME NEW s \in Clients PROVE SpaceFits(s)'
    <3>0. SpaceFits(s)
      BY DEF SpaceInv
    <3>1. CASE pc'[s] \notin Body \/ Passes(s)
      BY <3>1 DEF SpaceFits, Passes, Body, Stages, Planned, Unregistered, Allowed
    <3>2. CASE BodyStep(s)
      BY <2>0, <3>0, <3>2, BodyStepFits
    <3>3. CASE VersionsKept /\ Still(s)
      <4>1. Active' = Active /\ \A v \in Active : size'[v] = size[v]
        BY <3>3 DEF VersionsKept, Active
      <4> QED BY <2>0, <3>0, <3>3, <4>1, SpaceFitsStays DEF Still
    <3> QED BY <3>1, <3>2, <3>3, BodyView
  <2>3. ASSUME NEW s \in Clients PROVE outcome'[s] # "corrupted"
    BY <2>0, NotCorrupted, CorruptedIsReported DEF SpaceInv
  <2> QED BY <2>1, <2>2, <2>3 DEF SpaceInv, Extra
<1> QED BY <1>0, <1>1, <1>2, PTL DEF Spec

\* "Corrupted collection" is never answered, whatever crashes and failed deletions of
\* earlier uploads leave behind: where the document grants the same extra space to
\* every upload, what an upload counts as used is within it.
THEOREM UploadNeverCorrupted ==
  ASSUME {"overrun", "dbCreate"} \cap Faults = {}, SameAllowance
  PROVE  Spec => []NeverCorrupted
<1>1. SpaceInv => NeverCorrupted
  BY DEF SpaceInv, NeverCorrupted
<1> QED BY <1>1, SpaceInvariance, PTL

\* The newest maxBackupsCount versions together keep within maxCollectionSize, for
\* every document, number of requests and size of a body.
THEOREM UploadHoldsQuota ==
  ASSUME {"overrun", "dbCreate"} \cap Faults = {}, SameAllowance
  PROVE  Spec => []QuotaIsHeld
<1>1. SerialInv /\ RegistryInv /\ SpaceInv => QuotaIsHeld
  <2> SUFFICES ASSUME SerialInv, RegistryInv, SpaceInv PROVE QuotaIsHeld
    OBVIOUS
  <2>0. UploadTypeOK
    BY DEF SerialInv
  <2>1. Newest \in SUBSET Clients /\ IsFiniteSet(Newest) /\ Cardinality(Newest) \in Nat
        /\ Cardinality(Newest) <= Limit /\ Limit \in Nat
    BY <2>0, NewestWithinLimit, VersionsAreFinite, LimitIsLeast
  <2>2. \A v \in Newest : size[v] \in Int /\ Above[v] \in Int /\ size[v] <= One + Above[v]
    BY <2>0, <2>1, AboveTypes
  <2>3. One \in Nat /\ Extra \in Int
    BY AllowanceTypes
  <2>4. Total(size, Newest) <= One * Cardinality(Newest) + Total(Above, Newest)
    BY ONLY <2>1, <2>2, <2>3, TotalIsBounded
  <2>5. Total(Above, Newest) \in Nat /\ Total(Above, Newest) <= Extra /\ Total(size, Newest) \in Int
    <3>1. Total(size, Newest) \in Int
      BY <2>1, <2>2, TotalTakesOut
    <3> QED BY <2>0, <2>1, <3>1, SpaceTypes DEF SpaceInv
  <2>6. PICK s \in Specs : s.maxBackupsCount = Limit
    BY LimitIsReached
  <2>7. s.maxCollectionSize = One * Limit + Extra
    <3>1. ExtraSpace(s) = Extra /\ s.maxOneVersionSize = One /\ s.maxCollectionSize \in Nat
      BY SpecsAssumption DEF SameAllowance, IsSpec
    <3>2. Extra = s.maxCollectionSize - Limit * One
      BY <2>6, <3>1 DEF ExtraSpace
    <3> QED BY <2>1, <2>3, <3>1, <3>2
  <2>8. One * Cardinality(Newest) <= One * Limit
    <3> DEFINE n == Cardinality(Newest)
    <3>1. n \in Nat /\ n <= Limit
      BY <2>1
    <3> HIDE DEF n
    <3>2. One * n <= One * Limit
      BY <2>1, <2>3, <3>1
    <3> QED BY <3>2 DEF n
  <2>9. Total(size, Newest) <= s.maxCollectionSize
    <3> DEFINE a == One * Cardinality(Newest)
               b == One * Limit
    <3>1. a \in Int /\ b \in Int /\ a <= b
      BY <2>1, <2>3, <2>8
    <3>2. Total(size, Newest) <= a + Total(Above, Newest) /\ s.maxCollectionSize = b + Extra
      BY <2>4, <2>7
    <3> HIDE DEF a, b
    <3> QED BY <2>3, <2>5, <3>1, <3>2
  <2> DEFINE S == {t.maxCollectionSize : t \in Specs}
  <2>10. Max(S) \in S /\ \A y \in S : y <= Max(S)
    <3>1. S \in SUBSET Nat /\ S # {}
      BY SpecsAssumption DEF IsSpec
    <3>2. S \subseteq {One * Limit + Extra, One * (Limit + 1) + Extra}
      <4> SUFFICES ASSUME NEW t \in Specs
                   PROVE  t.maxCollectionSize \in {One * Limit + Extra, One * (Limit + 1) + Extra}
        OBVIOUS
      <4> DEFINE m == t.maxBackupsCount
                 c == t.maxCollectionSize
      <4>1. ExtraSpace(t) = Extra /\ t.maxOneVersionSize = One /\ c \in Nat /\ m \in Nat
            /\ m <= Limit + 1 /\ Limit <= m
        BY SpecsAssumption, LimitIsLeast DEF SameAllowance, IsSpec
      <4>2. Extra = c - m * One
        BY <4>1 DEF ExtraSpace
      <4> HIDE DEF m, c
      <4>3. m = Limit \/ m = Limit + 1
        BY <2>1, <4>1
      <4>4. c = One * m + Extra
        BY <2>3, <4>1, <4>2
      <4>5. c \in {One * Limit + Extra, One * (Limit + 1) + Extra}
        BY <4>3, <4>4
      <4> QED BY <4>5 DEF c
    <3> DEFINE x == One * Limit + Extra
               y == One * (Limit + 1) + Extra
    <3>3. IsFiniteSet(S)
      <4>1. S \subseteq {x, y}
        BY <3>2
      <4> HIDE DEF x, y, S
      <4>2. IsFiniteSet({x} \cup {y})
        BY FS_Singleton, FS_AddElement
      <4>3. S \subseteq {x} \cup {y}
        BY <4>1
      <4> QED BY <4>2, <4>3, FS_Subset
    <3> HIDE DEF S
    <3> QED BY <3>1, <3>3, MaxIsGreatest
  <2>11. s.maxCollectionSize \in S /\ s.maxCollectionSize \in Nat /\ S \in SUBSET Nat
    BY SpecsAssumption DEF IsSpec
  <2>12. Total(size, Newest) <= Max(S)
    <3> DEFINE c == s.maxCollectionSize
               m == Max(S)
               n == Total(size, Newest)
    <3>1. c \in Nat /\ m \in Nat /\ n \in Int /\ c <= m /\ n <= c
      <4> HIDE DEF S
      <4> QED BY <2>5, <2>9, <2>10, <2>11
    <3> HIDE DEF c, m, n
    <3>2. n <= m
      BY <3>1
    <3> QED BY <3>2 DEF n, m
  <2> QED BY <2>12 DEF QuotaIsHeld
<1>2. Spec => []SpaceInv
  BY SpaceInvariance
<1>3. Spec => [](SerialInv /\ RegistryInv)
  BY RegistryInvariance
<1> QED BY <1>1, <1>2, <1>3, PTL
=============================================================================
