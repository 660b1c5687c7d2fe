------------------------------ MODULE JobLocks ------------------------------
(***************************************************************************)
(* The per-job locks of the manager: lockJob, the unlock function it       *)
(* returns, and the nesting of manager.mutex inside a job lock             *)
(* (src/internal/jobs/manager.go).  A lock object exists only while a      *)
(* goroutine uses it: users counts them, under manager.mutex, and the last *)
(* one removes the object from the map.  The danger is two goroutines that *)
(* hold different lock objects for one job.                                *)
(***************************************************************************)
EXTENDS Integers, FiniteSets

CONSTANTS
    Process, \* goroutines that lock jobs
    Key,     \* job identifiers
    Object,  \* addresses a new jobMutex can have
    Nobody   \* no goroutine, no object

ASSUME LockAssumption ==
    /\ IsFiniteSet(Process)
    /\ Nobody \notin Process /\ Nobody \notin Object /\ Nobody \notin Key

VARIABLES
    jobLocks, \* manager.jobLocks: the object of a key, or Nobody
    users,    \* jobMutex.users
    holder,   \* the goroutine that holds the embedded sync.Mutex
    mutex,    \* the goroutine that holds manager.mutex across steps
    pc,       \* where a goroutine is
    key,      \* the id it passed to lockJob
    ref       \* the lock object its unlock closure keeps

vars == <<jobLocks, users, holder, mutex, pc, key, ref>>

Pc == {"idle", "waiting", "critical", "nested", "unlocked"}

\* One type invariant for the lock table and the goroutines.
TypeOK ==
    /\ jobLocks \in [Key -> Object \cup {Nobody}]
    /\ users \in [Object -> Nat]
    /\ holder \in [Object -> Process \cup {Nobody}]
    /\ mutex \in Process \cup {Nobody}
    /\ pc \in [Process -> Pc]
    /\ key \in [Process -> Key \cup {Nobody}]
    /\ ref \in [Process -> Object \cup {Nobody}]

\* The goroutines whose closure keeps object o.
Users(o) == {p \in Process : ref[p] = o}

\* An address &jobMutex{} can return: nothing reaches it.
Fresh(o) == Users(o) = {} /\ \A k \in Key : jobLocks[k] # o

\* lockJob up to lock.Lock(), one section of manager.mutex.
Register(p, k, o) ==
    /\ pc[p] = "idle" /\ mutex = Nobody
    /\ IF jobLocks[k] = Nobody THEN Fresh(o) ELSE o = jobLocks[k]
    /\ jobLocks' = [jobLocks EXCEPT ![k] = o]
    /\ users' = [users EXCEPT ![o] = IF jobLocks[k] = Nobody THEN 1 ELSE @ + 1]
    /\ pc' = [pc EXCEPT ![p] = "waiting"]
    /\ key' = [key EXCEPT ![p] = k]
    /\ ref' = [ref EXCEPT ![p] = o]
    /\ UNCHANGED <<holder, mutex>>

\* lock.Lock() returns.
Acquire(p) ==
    /\ pc[p] = "waiting" /\ holder[ref[p]] = Nobody
    /\ holder' = [holder EXCEPT ![ref[p]] = p]
    /\ pc' = [pc EXCEPT ![p] = "critical"]
    /\ UNCHANGED <<jobLocks, users, mutex, key, ref>>

\* Inside the section: Start, Leased, acquireLease, Cancel and Delete take
\* manager.mutex while they hold the job lock ...
Nest(p) ==
    /\ pc[p] = "critical" /\ mutex = Nobody
    /\ mutex' = p
    /\ pc' = [pc EXCEPT ![p] = "nested"]
    /\ UNCHANGED <<jobLocks, users, holder, key, ref>>

\* The deferred calls run in the wrong order: manager.mutex is still held.
MutexAfterUnnestBug(p) == mutex

MutexAfterUnnest(p) == Nobody

\* ... and release it before the job lock: deferred calls run last in, first out.
Unnest(p) ==
    /\ pc[p] = "nested"
    /\ mutex' = MutexAfterUnnest(p)
    /\ pc' = [pc EXCEPT ![p] = "critical"]
    /\ UNCHANGED <<jobLocks, users, holder, key, ref>>

\* The unlock closure: lock.Unlock() ...
Unlock(p) ==
    /\ pc[p] = "critical"
    /\ holder' = [holder EXCEPT ![ref[p]] = Nobody]
    /\ pc' = [pc EXCEPT ![p] = "unlocked"]
    /\ UNCHANGED <<jobLocks, users, mutex, key, ref>>

\* The entry is dropped as soon as one user is done.
JobLocksAfterBug(p) == [jobLocks EXCEPT ![key[p]] = Nobody]

\* The entry is never dropped.
JobLocksKeptBug(p) == jobLocks

\* delete(manager.jobLocks, id) when the last user leaves.
JobLocksAfter(p) ==
    IF users[ref[p]] = 1 THEN [jobLocks EXCEPT ![key[p]] = Nobody] ELSE jobLocks

\* ... then one section of manager.mutex that drops the reference.
Deregister(p) ==
    /\ pc[p] = "unlocked" /\ mutex = Nobody
    /\ users' = [users EXCEPT ![ref[p]] = @ - 1]
    /\ jobLocks' = JobLocksAfter(p)
    /\ pc' = [pc EXCEPT ![p] = "idle"]
    /\ key' = [key EXCEPT ![p] = Nobody]
    /\ ref' = [ref EXCEPT ![p] = Nobody]
    /\ UNCHANGED <<holder, mutex>>

Init ==
    /\ jobLocks = [k \in Key |-> Nobody]
    /\ users = [o \in Object |-> 0]
    /\ holder = [o \in Object |-> Nobody]
    /\ mutex = Nobody
    /\ pc = [p \in Process |-> "idle"]
    /\ key = [p \in Process |-> Nobody]
    /\ ref = [p \in Process |-> Nobody]

Step(p) == Acquire(p) \/ Nest(p) \/ Unnest(p) \/ Unlock(p) \/ Deregister(p)

Next == \E p \in Process : Step(p) \/ \E k \in Key, o \in Object : Register(p, k, o)

Spec == Init /\ [][Next]_vars

\* A section takes manager.mutex a bounded number of times and ends, and the
\* mutexes are starvation free: sync.Mutex hands the lock over to a waiter that
\* has waited for a millisecond.
Fairness ==
    \A p \in Process :
        /\ SF_vars(Acquire(p)) /\ SF_vars(Deregister(p))
        /\ WF_vars(Unnest(p)) /\ SF_vars(Unlock(p))

LiveSpec == Spec /\ Fairness

-----------------------------------------------------------------------------
InSection(p) == pc[p] \in {"critical", "nested"}

\* Two goroutines are never inside sections of the same job, although the lock
\* objects come and go: manifests are read, changed and written by one of them.
MutualExclusion ==
    \A p, q \in Process : InSection(p) /\ InSection(q) /\ key[p] = key[q] => p = q

\* The table holds an entry exactly for the jobs somebody is using: it neither
\* grows with the number of jobs ever served nor loses a lock in use.
TableIsExact ==
    \A k \in Key : jobLocks[k] # Nobody <=> \E p \in Process : key[p] = k

\* The goroutine inside the section of k, as the abstract mutex names it.
Owner == [k \in Key |->
            IF \E p \in Process : InSection(p) /\ key[p] = k
              THEN CHOOSE p \in Process : InSection(p) /\ key[p] = k
              ELSE Nobody]

Abstract == INSTANCE JobMutex WITH owner <- Owner

\* Lock objects, reference counts and all, lockJob is one mutex per job.
ImplementsMutex == Abstract!Spec

\* Whoever asks for a job lock gets it and gets rid of it: neither the reference
\* counting nor the nesting of manager.mutex inside job locks blocks a goroutine
\* for ever.
LockCallCompletes == \A p \in Process : pc[p] = "waiting" ~> pc[p] = "idle"
=============================================================================
