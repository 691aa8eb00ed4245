---------------------------- MODULE LocksProofs ----------------------------
(***************************************************************************)
(* Locks is exclusive within a lease, for every set of clients and ids.    *)
(*                                                                         *)
(* ExclusiveWithinLease says nothing about the table, so it is not         *)
(* inductive: a holder without a row would let a second client insert one. *)
(* HeldIsBacked adds what is missing.                                      *)
(***************************************************************************)
EXTENDS Locks, TLAPS

\* Two holders of one id would both own its single row.
LEMMA BackedIsExclusive == HeldIsBacked => ExclusiveWithinLease
<1> SUFFICES ASSUME HeldIsBacked, NEW id \in Ids \ overrun,
                    NEW c \in Clients, NEW d \in Clients,
                    Holds(c, id), Holds(d, id)
             PROVE  c = d
  BY DEF ExclusiveWithinLease
<1>1. table[id] = [owner |-> c, expired |-> FALSE]
  BY DEF HeldIsBacked, HolderOwnsRow
<1>2. table[id] = [owner |-> d, expired |-> FALSE]
  BY DEF HeldIsBacked, HolderOwnsRow
<1>3. table[id].owner = c
  BY <1>1
<1>4. table[id].owner = d
  BY <1>2
<1> QED BY <1>3, <1>4

\* Initially no row is stored and nobody holds anything.
LEMMA LockInitInv == LockInit => LockInv
  BY DEF LockInit, LockInv, LockTypeOK, HeldIsBacked, Holds, Phases

\* Every statement writes values of the declared types.
LEMMA LockTypeStep == LockTypeOK /\ [LockNext]_lockVars => LockTypeOK'
<1> SUFFICES ASSUME LockTypeOK, [LockNext]_lockVars PROVE LockTypeOK'
  OBVIOUS
<1> USE DEF LockTypeOK, Phases
<1>1. ASSUME NEW c \in Clients, NEW id \in Ids, Select(c, id) PROVE LockTypeOK'
  BY <1>1 DEF Select
<1>2. ASSUME NEW c \in Clients, LockCall(c) PROVE LockTypeOK'
  <2>1. CASE SkipCleanUp(c)
    BY <2>1 DEF SkipCleanUp, AfterSelect
  <2>2. CASE CleanUp(c)
    BY <2>2 DEF CleanUp, AfterSelect, Purged
  <2>3. CASE AddLock(c)
    BY <2>3 DEF AddLock, Row
  <2>4. CASE AddLockFails(c)
    BY <2>4 DEF AddLockFails
  <2> QED BY <1>2, <2>1, <2>2, <2>3, <2>4 DEF LockCall
<1>3. ASSUME NEW c \in Clients PROVE HolderLeft(c) \subseteq Ids
  BY DEF HolderLeft
<1>4. ASSUME NEW c \in Clients, Unlock(c) \/ UnlockFails(c) \/ Die(c)
      PROVE LockTypeOK'
  BY <1>3, <1>4 DEF Unlock, UnlockFails, Die
<1>5. ASSUME NEW id \in Ids, LeaseExpires(id) PROVE LockTypeOK'
  <2>1. PICK r \in Row : table[id] = r
    BY <1>5 DEF LeaseExpires, Live, Stored
  <2>2. table'[id] = [owner |-> r.owner, expired |-> TRUE]
    BY <1>5, <2>1 DEF LeaseExpires, Row
  <2>3. table'[id] \in Row
    BY <2>1, <2>2 DEF Row
  <2>4. table' \in [Ids -> Row \cup {NoRow}]
    BY <1>5, <2>3 DEF LeaseExpires
  <2>5. overrun' \subseteq Ids
    BY <1>5 DEF LeaseExpires, Holds
  <2> QED BY <1>5, <2>4, <2>5 DEF LeaseExpires
<1>6. CASE UNCHANGED lockVars
  BY <1>6 DEF lockVars
<1> QED BY <1>1, <1>2, <1>4, <1>5, <1>6 DEF LockNext

\* No statement of any client takes the row from a holder inside its lease.
LEMMA BackedStep == LockInv /\ [LockNext]_lockVars => HeldIsBacked'
<1> SUFFICES ASSUME LockInv, [LockNext]_lockVars,
                    NEW h \in Clients, NEW i \in Ids,
                    Holds(h, i)', i \notin overrun'
             PROVE  HolderOwnsRow(h, i)'
  BY DEF HeldIsBacked
<1> USE DEF LockInv, LockTypeOK, Holds, HolderOwnsRow
<1>0. Holds(h, i) /\ i \notin overrun => table[i] = [owner |-> h, expired |-> FALSE]
  BY DEF HeldIsBacked
<1>1. ASSUME NEW c \in Clients, NEW id \in Ids, Select(c, id)
      PROVE HolderOwnsRow(h, i)'
  BY <1>0, <1>1 DEF Select
<1>2. ASSUME NEW c \in Clients, SkipCleanUp(c) PROVE HolderOwnsRow(h, i)'
  BY <1>0, <1>2 DEF SkipCleanUp, AfterSelect
<1>3. ASSUME NEW c \in Clients, CleanUp(c) PROVE HolderOwnsRow(h, i)'
  \* cleanUp deletes expired rows only
  <2>1. Holds(h, i) /\ i \notin overrun
    BY <1>3 DEF CleanUp, AfterSelect
  <2>2. table'[i] = table[i]
    BY <1>0, <1>3, <2>1 DEF CleanUp, Purged
  <2> QED BY <1>0, <2>1, <2>2
<1>4. ASSUME NEW c \in Clients, AddLock(c) PROVE HolderOwnsRow(h, i)'
  \* the primary key: h already holding i means the row is there
  <2>1. CASE h = c
    BY <1>4, <2>1 DEF AddLock
  <2>2. CASE h # c
    <3>1. Holds(h, i) /\ i \notin overrun
      BY <1>4, <2>2 DEF AddLock
    <3>2. Stored(i)
      BY <1>0, <3>1 DEF Stored, NoRow
    <3>3. table'[i] = table[i]
      BY <1>4, <3>2 DEF AddLock
    <3> QED BY <1>0, <3>1, <3>3
  <2> QED BY <2>1, <2>2
<1>5. ASSUME NEW c \in Clients, AddLockFails(c) PROVE HolderOwnsRow(h, i)'
  BY <1>0, <1>5 DEF AddLockFails
<1>6. ASSUME NEW c \in Clients, Unlock(c) \/ UnlockFails(c) \/ Die(c)
      PROVE HolderOwnsRow(h, i)'
  \* h did not leave; if c had held the same id, either they are the same
  \* client, or the id had been overrun and still is, h being there
  <2>1. h # c /\ Holds(h, i)
    BY <1>6 DEF Unlock, UnlockFails, Die
  <2>2. i \notin overrun
    BY <1>6, <2>1 DEF Unlock, UnlockFails, Die, HolderLeft
  <2>3. table[i] = [owner |-> h, expired |-> FALSE]
    BY <1>0, <2>1, <2>2
  <2>4. CASE Unlock(c)
    <3>1. target[c] # i
      <4> SUFFICES ASSUME target[c] = i PROVE FALSE
        OBVIOUS
      <4>1. Holds(c, i)
        BY <2>4 DEF Unlock
      <4>2. table[i] = [owner |-> c, expired |-> FALSE]
        BY <2>2, <4>1 DEF HeldIsBacked
      <4> QED BY <2>1, <2>3, <4>2
    <3> QED BY <2>3, <2>4, <3>1 DEF Unlock
  <2>5. CASE UnlockFails(c) \/ Die(c)
    BY <2>3, <2>5 DEF UnlockFails, Die
  <2> QED BY <1>6, <2>4, <2>5
<1>7. ASSUME NEW id \in Ids, LeaseExpires(id) PROVE HolderOwnsRow(h, i)'
  <2>1. Holds(h, i) /\ i \notin overrun
    BY <1>7 DEF LeaseExpires
  <2>2. table[i] = [owner |-> h, expired |-> FALSE]
    BY <1>0, <2>1
  <2>3. id # i
    BY <1>7, <2>1, <2>2 DEF LeaseExpires
  <2> QED BY <1>7, <2>2, <2>3 DEF LeaseExpires
<1>8. CASE UNCHANGED lockVars
  BY <1>0, <1>8 DEF lockVars
<1> QED BY <1>1, <1>2, <1>3, <1>4, <1>5, <1>6, <1>7, <1>8 DEF LockNext, LockCall

\* The two halves together: the invariant is inductive.
LEMMA LockInvStep == LockInv /\ [LockNext]_lockVars => LockInv'
  BY LockTypeStep, BackedStep DEF LockInv

\* For every set of clients and of ids: the table and the clients' phases are
\* of their types, and a client inside its lease owns the live row of its id.
THEOREM LockInvariance == LockSpec => [](LockTypeOK /\ HeldIsBacked)
<1>1. LockInit => LockInv
  BY LockInitInv
<1>2. LockInv /\ [LockNext]_lockVars => LockInv'
  BY LockInvStep
<1>3. LockInv => LockTypeOK /\ HeldIsBacked
  BY DEF LockInv
<1> QED BY <1>1, <1>2, <1>3, PTL DEF LockSpec

\* For every set of clients and of ids: a stored row names a client, and a client
\* is at a statement of Lock() or Unlock().
THEOREM LockTypeCorrect == LockSpec => []LockTypeOK
<1>1. LockTypeOK /\ HeldIsBacked => LockTypeOK
  OBVIOUS
<1> QED BY <1>1, LockInvariance, PTL

\* For every set of clients and of ids, and whether or not statements fail:
\* two clients are never inside Lock() .. Unlock() of one id, unless one of
\* them has outlived its own lease.
THEOREM LockExclusive == LockSpec => []ExclusiveWithinLease
<1>1. LockTypeOK /\ HeldIsBacked => ExclusiveWithinLease
  BY BackedIsExclusive
<1> QED BY <1>1, LockInvariance, PTL
=============================================================================
