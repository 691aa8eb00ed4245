------------------------------- MODULE Locks -------------------------------
(***************************************************************************)
(* pkg/concurrency/locking.go: leases on named resources, kept as rows of  *)
(* the SQL table `locks` that every replica of the server shares.  A lock  *)
(* is the row itself; its primary key is the resource id, so a second      *)
(* INSERT of the same id fails even when the first row has expired.        *)
(*                                                                         *)
(* Each SQL statement is one atomic step.  What a client does between two  *)
(* statements interleaves with the statements of all other clients.        *)
(***************************************************************************)
EXTENDS Naturals, FiniteSets

CONSTANTS
    Clients,   \* threads that call LocksService.Lock (HTTP handlers)
    Ids,       \* lock ids, e.g. "collection:iwa-ait"
    DbMayFail  \* TRUE: a statement may fail without having any effect

ASSUME DbMayFailAssumption == DbMayFail \in BOOLEAN
ASSUME NobodyAssumption == "nobody" \notin Clients

VARIABLES
    table,    \* the locks table: what is stored under each id
    phase,    \* where each client is inside Lock() .. Unlock()
    target,   \* the id each client is locking or has locked
    overrun   \* history: ids whose holder has outlived its own lease

lockVars == <<table, phase, target, overrun>>

NoRow == [owner |-> "nobody", expired |-> TRUE]

\* Lock.Expires is compared with the clock only, so a row is either live or
\* expired.  `owner` is a history field: the table does not record it.
Row == [owner : Clients, expired : BOOLEAN]

Phases == {"idle", "found", "notFound", "adding", "held"}

LockTypeOK ==
    /\ table \in [Ids -> Row \cup {NoRow}]
    /\ phase \in [Clients -> Phases]
    /\ target \in [Clients -> Ids]
    /\ overrun \subseteq Ids

Stored(id) == table[id] # NoRow
Live(id) == Stored(id) /\ ~table[id].expired

Holds(c, id) == phase[c] = "held" /\ target[c] = id

-----------------------------------------------------------------------------

LockInit ==
    /\ table = [id \in Ids |-> NoRow]
    /\ phase = [c \in Clients |-> "idle"]
    /\ target \in [Clients -> Ids]
    /\ overrun = {}

\* isLockedAlready, the SELECT.  Its error is not looked at: a failed query
\* leaves the counter at 0, which reads as "not locked".
Select(c, id) ==
    /\ phase[c] = "idle"
    /\ target' = [target EXCEPT ![c] = id]
    /\ \/ phase' = [phase EXCEPT ![c] = IF Live(id) THEN "found" ELSE "notFound"]
       \/ DbMayFail /\ phase' = [phase EXCEPT ![c] = "notFound"]
    /\ UNCHANGED <<table, overrun>>

\* What Lock does with the answer: "already locked" ends the call.
AfterSelect(c) == IF phase[c] = "found" THEN "idle" ELSE "adding"

\* isLockedAlready, the other four calls out of five: no clean-up.
SkipCleanUp(c) ==
    /\ phase[c] \in {"found", "notFound"}
    /\ phase' = [phase EXCEPT ![c] = AfterSelect(c)]
    /\ UNCHANGED <<table, target, overrun>>

\* Mutant of Purged: the comparison with the clock is the wrong way round.
PurgedLive(t) == [id \in Ids |-> IF t[id].expired THEN t[id] ELSE NoRow]

\* Mutant of Purged: an expired row is blanked and made current, not deleted.
PurgedBlank(t) ==
    [id \in Ids |-> IF t[id].expired
                    THEN [owner |-> "nobody", expired |-> FALSE] ELSE t[id]]

Purged(t) == [id \in Ids |-> IF t[id].expired THEN NoRow ELSE t[id]]

\* isLockedAlready, one call out of five: cleanUp deletes the expired rows of
\* every id, not only of the id being locked.  Its error is not looked at
\* either, and then it was the same as no clean-up.
CleanUp(c) ==
    /\ phase[c] \in {"found", "notFound"}
    /\ phase' = [phase EXCEPT ![c] = AfterSelect(c)]
    /\ table' = Purged(table)
    /\ UNCHANGED <<target, overrun>>

\* Mutant of AddLock: the table has no primary key, or the INSERT updates on
\* conflict.
AddLockOrReplace(c) ==
    /\ phase[c] = "adding"
    /\ table' = [table EXCEPT ![target[c]] = [owner |-> c, expired |-> FALSE]]
    /\ phase' = [phase EXCEPT ![c] = "held"]
    /\ UNCHANGED <<target, overrun>>

\* addLock, the INSERT.
AddLock(c) ==
    /\ phase[c] = "adding"
    /\ ~Stored(target[c])
    /\ table' = [table EXCEPT ![target[c]] = [owner |-> c, expired |-> FALSE]]
    /\ phase' = [phase EXCEPT ![c] = "held"]
    /\ UNCHANGED <<target, overrun>>

\* addLock failed: on the primary key, or on a broken connection.
AddLockFails(c) ==
    /\ phase[c] = "adding"
    /\ Stored(target[c]) \/ DbMayFail
    /\ phase' = [phase EXCEPT ![c] = "idle"]
    /\ UNCHANGED <<table, target, overrun>>

\* The history variable forgets an overrun when the last holder of the id
\* has left.
HolderLeft(c) ==
    {id \in overrun : \E d \in Clients \ {c} : Holds(d, id)}

\* Lock.Unlock: DELETE by id.  The statement names no owner, so it deletes
\* whatever row is there.
Unlock(c) ==
    /\ phase[c] = "held"
    /\ table' = [table EXCEPT ![target[c]] = NoRow]
    /\ phase' = [phase EXCEPT ![c] = "idle"]
    /\ overrun' = HolderLeft(c)
    /\ UNCHANGED target

\* Unlock ignores the error of its DELETE: the row stays until it expires.
UnlockFails(c) ==
    /\ DbMayFail
    /\ phase[c] = "held"
    /\ phase' = [phase EXCEPT ![c] = "idle"]
    /\ overrun' = HolderLeft(c)
    /\ UNCHANGED <<table, target>>

\* The server process dies in the middle of the call, or while holding the
\* lock; nothing removes its row.
Die(c) ==
    /\ phase[c] # "idle"
    /\ phase' = [phase EXCEPT ![c] = "idle"]
    /\ overrun' = HolderLeft(c)
    /\ UNCHANGED <<table, target>>

\* The clock passes Lock.Expires.  Nothing tells the holder.
LeaseExpires(id) ==
    /\ Live(id)
    /\ table' = [table EXCEPT ![id].expired = TRUE]
    /\ overrun' = IF Holds(table[id].owner, id) THEN overrun \cup {id} ELSE overrun
    /\ UNCHANGED <<phase, target>>

LockCall(c) ==
    SkipCleanUp(c) \/ CleanUp(c) \/ AddLock(c) \/ AddLockFails(c)

LockNext ==
    \/ \E c \in Clients :
          \/ \E id \in Ids : Select(c, id)
          \/ LockCall(c)
          \/ Unlock(c) \/ UnlockFails(c) \/ Die(c)
    \/ \E id \in Ids : LeaseExpires(id)

LockSpec == LockInit /\ [][LockNext]_lockVars

-----------------------------------------------------------------------------
(* Safety *)

\* The holder's row is the one in the table and is still live.
HolderOwnsRow(c, id) == table[id] = [owner |-> c, expired |-> FALSE]

\* Lock() .. Unlock() is exclusive per id, whatever SELECTs, INSERTs and
\* clean-ups of other clients interleave, whichever statements fail and
\* whoever dies, as long as no holder of that id outlives its lease: the
\* SELECT alone would not give this, the primary key does.
ExclusiveWithinLease ==
    \A id \in Ids \ overrun :
        \A c, d \in Clients : Holds(c, id) /\ Holds(d, id) => c = d

\* The inductive form: without an overrun every holder is backed by its own
\* live row, so no other client can insert, clean up or unlock it away.
HeldIsBacked ==
    \A c \in Clients, id \in Ids \ overrun :
        Holds(c, id) => HolderOwnsRow(c, id)

LockInv == LockTypeOK /\ HeldIsBacked

-----------------------------------------------------------------------------
(* Liveness *)

\* A row nobody holds: its holder died or its DELETE failed.
Abandoned(id) == Stored(id) /\ ~Holds(table[id].owner, id)

\* Statements return and the clock advances (weak fairness).  The clean-up is
\* taken with probability 1/5 by every call, independently of the others, so a
\* call that happens infinitely often cleans up infinitely often (strong
\* fairness).
LockFairness ==
    /\ \A c \in Clients : WF_lockVars(LockCall(c))
    /\ \A id \in Ids : WF_lockVars(LeaseExpires(id))
    /\ SF_lockVars(\E c \in Clients : CleanUp(c))

LockFairSpec == LockSpec /\ LockFairness

\* Requests keep arriving, for any id at all.
RequestsKeepArriving == []<><<\E c \in Clients, id \in Ids : Select(c, id)>>_lockVars

\* A row left behind by a dead process blocks its id (its INSERTs fail on the
\* primary key although the SELECT says free) only for a time: while requests
\* keep arriving, some call's clean-up removes the row.
AbandonedRowGoes ==
    RequestsKeepArriving => \A id \in Ids : Abandoned(id) ~> ~Abandoned(id)
=============================================================================
