----------------------------- MODULE DatabaseLock -----------------------------
(***************************************************************************)
(* The lock that keeps two processes from using one database file at the   *)
(* same time (internal/database/lock.go): a marker file created with       *)
(* O_EXCL, kept young by its holder and taken for abandoned when it is     *)
(* older than databaseLockStaleAfter. Time passes in ticks.                *)
(*                                                                         *)
(* Every system call is a step: other processes run between any two. The   *)
(* marker is removed by its path, whoever created the file that is there.  *)
(* The flock each process takes is on the file it has just created, which  *)
(* no other process has open, so it never conflicts; only its other errors *)
(* are modelled.                                                           *)
(***************************************************************************)
EXTENDS Integers

CONSTANTS
  Processes,   \* serve, import, export, purge and restore, on any host
  OneAtATime,  \* does each process start only when the others have started?
  Suspends,    \* may a process be suspended for any time?
  Heartbeat,   \* databaseLockHeartbeat
  StaleAfter,  \* databaseLockStaleAfter
  LockFaults,   \* bound on crashes and failing system calls
  NoMarker,    \* there is no file at the path
  Orphan       \* the file there was created by a process that has died

ASSUME LockAssumption ==
  /\ NoMarker \notin Processes /\ Orphan \notin Processes /\ NoMarker # Orphan
  /\ OneAtATime \in BOOLEAN /\ Suspends \in BOOLEAN
  /\ Heartbeat \in Nat \ {0} /\ StaleAfter \in Nat /\ Heartbeat <= StaleAfter
  /\ LockFaults \in Nat

VARIABLES
  marker,     \* the creator of the file at the path
  age,        \* of that file, StaleAfter + 1 and more alike
  where,      \* where a process is; "in" while it uses the database
  again,      \* is a process in its second attempt?
  lockFaults  \* crashes and failures so far

lockVars == <<marker, age, where, again, lockFaults>>

Starting == {"create", "stat", "remove", "write", "flock"}

RemoveMarker == marker' = NoMarker /\ age' = 0

\* Faulty variant: the limit is within the heartbeat's own period.
StaleTooSoon == age >= Heartbeat

Stale == age > StaleAfter

LockFault == lockFaults < LockFaults /\ lockFaults' = lockFaults + 1

Become(p, place) == where' = [where EXCEPT ![p] = place]

Give(p) == Become(p, "out") /\ again' = [again EXCEPT ![p] = FALSE]

(***************************************************************************)
(* acquireDatabaseLock                                                     *)
(***************************************************************************)

Open(p) ==
  /\ where[p] = "out"
  /\ OneAtATime => \A q \in Processes : where[q] \notin Starting
  /\ Become(p, "create")
  /\ UNCHANGED <<marker, age, again, lockFaults>>

\* O_CREATE with O_EXCL.
Create(p) ==
  /\ where[p] = "create" /\ marker = NoMarker
  /\ marker' = p /\ age' = 0
  /\ Become(p, "write")
  /\ UNCHANGED <<again, lockFaults>>

Exists(p) ==
  /\ where[p] = "create" /\ marker # NoMarker
  /\ Become(p, "stat")
  /\ UNCHANGED <<marker, age, again, lockFaults>>

\* Faulty variant: the process that is refused cleans up like the other errors.
RefuseRemoves(p) ==
  /\ where[p] = "stat" /\ marker # NoMarker /\ ~Stale
  /\ RemoveMarker
  /\ Give(p)
  /\ UNCHANGED lockFaults

\* "database is already in use"
Refuse(p) ==
  /\ where[p] = "stat" /\ marker # NoMarker /\ ~Stale
  /\ Give(p)
  /\ UNCHANGED <<marker, age, lockFaults>>

\* Faulty variant: only a marker that has vanished is taken for abandoned.
ReclaimVanished(p) ==
  /\ where[p] = "stat" /\ marker = NoMarker
  /\ Become(p, "remove")
  /\ UNCHANGED <<marker, age, again, lockFaults>>

\* staleDatabaseLock: the marker is old, or has vanished meanwhile.
Reclaim(p) ==
  /\ where[p] = "stat" /\ (marker = NoMarker \/ Stale)
  /\ Become(p, "remove")
  /\ UNCHANGED <<marker, age, again, lockFaults>>

\* Faulty variant: the age of the removed file is remembered.
RemoveKeepsAge(p) ==
  /\ where[p] = "remove"
  /\ marker' = NoMarker
  /\ again' = [again EXCEPT ![p] = ~@]
  /\ Become(p, IF again[p] THEN "out" ELSE "create")
  /\ UNCHANGED <<age, lockFaults>>

\* The second attempt removes the marker too, and is refused all the same.
RemoveStale(p) ==
  /\ where[p] = "remove"
  /\ RemoveMarker
  /\ again' = [again EXCEPT ![p] = ~@]
  /\ Become(p, IF again[p] THEN "out" ELSE "create")
  /\ UNCHANGED lockFaults

\* The marker cannot be inspected or removed.
InspectFails(p) ==
  /\ where[p] \in {"create", "stat", "remove"}
  /\ LockFault
  /\ Give(p)
  /\ UNCHANGED <<marker, age>>

\* refresh writes through the open file, which may be unlinked by now.
Write(p) ==
  /\ where[p] = "write"
  /\ age' = IF marker = p THEN 0 ELSE age
  /\ Become(p, "flock")
  /\ UNCHANGED <<marker, again, lockFaults>>

Flock(p) ==
  /\ where[p] = "flock"
  /\ Become(p, "in")
  /\ again' = [again EXCEPT ![p] = FALSE]
  /\ UNCHANGED <<marker, age, lockFaults>>

\* The refresh or the flock fails: the marker is removed.
AcquireFails(p) ==
  /\ where[p] \in {"write", "flock"}
  /\ LockFault
  /\ RemoveMarker
  /\ Give(p)

(***************************************************************************)
(* The holder                                                              *)
(***************************************************************************)

\* heartbeat
Beat(p) ==
  /\ where[p] = "in" /\ marker = p /\ age > 0
  /\ age' = 0
  /\ UNCHANGED <<marker, where, again, lockFaults>>

\* The database is closed, the heartbeat has ended and the flock is released.
Close(p) ==
  /\ where[p] = "in"
  /\ Become(p, "closing")
  /\ UNCHANGED <<marker, age, again, lockFaults>>

Unlink(p) ==
  /\ where[p] = "closing"
  /\ RemoveMarker
  /\ Become(p, "out")
  /\ UNCHANGED <<again, lockFaults>>

(***************************************************************************)
(* The environment                                                         *)
(***************************************************************************)

\* A running holder refreshes the marker in time; a running process is done
\* with the few system calls before and after that before the limit.
Tick ==
  /\ marker # NoMarker /\ ~Stale
  /\ marker \in Processes /\ ~Suspends =>
       age < (IF where[marker] = "in" THEN Heartbeat ELSE StaleAfter)
  /\ age' = age + 1
  /\ UNCHANGED <<marker, where, again, lockFaults>>

Die(p) ==
  /\ where[p] # "out"
  /\ LockFault
  /\ marker' = IF marker = p THEN Orphan ELSE marker
  /\ Give(p)
  /\ UNCHANGED age

LockInit ==
  /\ marker = NoMarker /\ age = 0
  /\ where = [p \in Processes |-> "out"]
  /\ again = [p \in Processes |-> FALSE]
  /\ lockFaults = 0

\* What a started process does by itself.
Advance(p) ==
  \/ Create(p) \/ Exists(p) \/ Refuse(p) \/ Reclaim(p) \/ RemoveStale(p)
  \/ Write(p) \/ Flock(p)

Step(p) ==
  \/ Open(p) \/ Advance(p) \/ InspectFails(p) \/ AcquireFails(p)
  \/ Beat(p) \/ Close(p) \/ Unlink(p) \/ Die(p)

LockNext == Tick \/ \E p \in Processes : Step(p)

LockSpec == LockInit /\ [][LockNext]_lockVars

\* What a process does in the end, whichever of the three its place asks for.
Proceed(p) == Open(p) \/ Advance(p) \/ Unlink(p)

\* Started processes run, refused commands are repeated, and time passes.
\* Nothing makes a holder finish.
LockFairSpec == LockSpec /\ WF_lockVars(Tick) /\ \A p \in Processes : WF_lockVars(Proceed(p))

-----------------------------------------------------------------------------

LockTypeOK ==
  /\ marker \in Processes \cup {NoMarker, Orphan}
  /\ age \in 0..(StaleAfter + 1)
  /\ where \in [Processes -> Starting \cup {"out", "in", "closing"}]
  /\ again \in [Processes -> BOOLEAN]
  /\ lockFaults \in 0..LockFaults
  /\ marker = NoMarker => age = 0
  /\ \A p \in Processes : again[p] => where[p] \in Starting

(***************************************************************************)
(* "migrations, imports, exports, purge, and restore cannot run            *)
(* concurrently" (docs/tokemon-spec-v0.2.md, 407-409): at most one process *)
(* uses the database.                                                      *)
(***************************************************************************)
Exclusive ==
  \A p, q \in Processes : where[p] = "in" /\ where[q] = "in" => p = q

(***************************************************************************)
(* The inductive strengthening of Exclusive, when processes start one at a *)
(* time and none is suspended: whoever has created the marker still owns   *)
(* the file at the path, only an abandoned one grows old, and what a       *)
(* process is about to remove is abandoned or gone.                        *)
(***************************************************************************)
OwnerKeepsMarker ==
  /\ \A p \in Processes : where[p] \in {"write", "flock", "in", "closing"} => marker = p
  /\ \A p \in Processes : where[p] = "remove" => marker \in {NoMarker, Orphan}
  /\ Stale => marker = Orphan
  /\ \A p, q \in Processes : where[p] \in Starting /\ where[q] \in Starting => p = q

(***************************************************************************)
(* "A small heartbeat makes a marker left by a crashed process             *)
(* reclaimable" (lock.go, 21-24): the database does not stay locked by     *)
(* nobody; once some process has started, some process gets in.            *)
(***************************************************************************)
Reclaimed == (\E p \in Processes : where[p] \in Starting) ~> (\E p \in Processes : where[p] = "in")

=============================================================================
