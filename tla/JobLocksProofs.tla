--------------------------- MODULE JobLocksProofs ---------------------------
(***************************************************************************)
(* Mutual exclusion of the per-job locks, the exactness of the lock table  *)
(* and the refinement of the abstract mutex, for any set of goroutines,    *)
(* jobs and lock objects.                                                  *)
(***************************************************************************)
EXTENDS JobLocks, FiniteSetTheorems, TLAPS

\* A goroutine keeps a lock object exactly between lockJob and the end of its
\* unlock function.
RefsMatchPc ==
    \A p \in Process : /\ pc[p] = "idle" <=> ref[p] = Nobody
                       /\ pc[p] = "idle" <=> key[p] = Nobody

\* The object it keeps is the one the table holds for its job.
RefsAreMapped == \A p \in Process : pc[p] # "idle" => jobLocks[key[p]] = ref[p]

\* No two jobs share an object.
MapIsInjective ==
    \A k, l \in Key : jobLocks[k] = jobLocks[l] /\ jobLocks[k] # Nobody => k = l

\* An entry has a user.
EntriesAreUsed ==
    \A k \in Key : jobLocks[k] # Nobody => \E p \in Process : key[p] = k

\* users is the number of goroutines that keep the object.
UsersAreCounted == \A o \in Object : users[o] = Cardinality(Users(o))

\* The embedded mutex is held by the goroutine inside the section.
HoldersAreInside ==
    \A o \in Object, p \in Process : holder[o] = p <=> ref[p] = o /\ InSection(p)

\* The inductive invariant.
LockInv ==
    /\ TypeOK /\ RefsMatchPc /\ RefsAreMapped /\ MapIsInjective
    /\ EntriesAreUsed /\ UsersAreCounted /\ HoldersAreInside

-----------------------------------------------------------------------------
\* The users of an object form a finite set of goroutines, so they can be counted.
LEMMA UsersFinite == \A o : IsFiniteSet(Users(o)) /\ Cardinality(Users(o)) \in Nat
<1>1. ASSUME NEW o PROVE IsFiniteSet(Users(o)) /\ Cardinality(Users(o)) \in Nat
  <2>1. Users(o) \in SUBSET Process
    BY DEF Users
  <2>2. IsFiniteSet(Users(o))
    BY <2>1, FS_Subset, LockAssumption
  <2> QED
    BY <2>2, FS_CardinalityType
<1> QED
  BY <1>1

\* Every lock table starts empty and unused.
LEMMA LockInit == Init => LockInv
<1> SUFFICES ASSUME Init PROVE LockInv
  OBVIOUS
<1>1. TypeOK
  BY DEF Init, TypeOK, Pc
<1>2. RefsMatchPc /\ RefsAreMapped /\ MapIsInjective /\ EntriesAreUsed
  BY DEF Init, RefsMatchPc, RefsAreMapped, MapIsInjective, EntriesAreUsed
<1>3. UsersAreCounted
  <2> SUFFICES ASSUME NEW o \in Object PROVE users[o] = Cardinality(Users(o))
    BY DEF UsersAreCounted
  <2>1. Users(o) = {}
    BY LockAssumption DEF Init, Users
  <2> QED
    BY <2>1, FS_EmptySet DEF Init
<1>4. HoldersAreInside
  BY LockAssumption DEF Init, HoldersAreInside, InSection
<1> QED
  BY <1>1, <1>2, <1>3, <1>4 DEF LockInv

\* lockJob registers a user with the object of its job, new or found.
LEMMA RegisterStep ==
    ASSUME LockInv, NEW p \in Process, NEW k \in Key, NEW o \in Object, Register(p, k, o)
    PROVE  LockInv'
<1> USE LockAssumption DEF LockInv
<1>1. TypeOK'
  BY DEF TypeOK, Register, Pc
<1>2. RefsMatchPc'
  BY DEF TypeOK, Register, RefsMatchPc
<1>3. RefsAreMapped'
  BY DEF TypeOK, Register, RefsAreMapped, RefsMatchPc
<1>4. MapIsInjective'
  BY DEF TypeOK, Register, MapIsInjective, Fresh
<1>5. EntriesAreUsed'
  BY DEF TypeOK, Register, EntriesAreUsed, RefsMatchPc
<1>6. UsersAreCounted'
  <2>1. p \notin Users(o)
    BY DEF Register, RefsMatchPc, Users, TypeOK
  <2>2. Users(o)' = Users(o) \cup {p}
    BY DEF Register, Users, TypeOK
  <2>3. \A x \in Object \ {o} : Users(x)' = Users(x)
    BY DEF Register, Users, TypeOK, RefsMatchPc
  <2>4. Cardinality(Users(o)') = Cardinality(Users(o)) + 1
    BY <2>1, <2>2, FS_AddElement, UsersFinite
  <2>5. users'[o] = Cardinality(Users(o)) + 1
    <3>1. CASE jobLocks[k] = Nobody
      <4>1. Users(o) = {}
        BY <3>1 DEF Register, Fresh
      <4> QED
        BY <3>1, <4>1, FS_EmptySet DEF Register, TypeOK
    <3>2. CASE jobLocks[k] # Nobody
      BY <3>2 DEF Register, TypeOK, UsersAreCounted
    <3> QED
      BY <3>1, <3>2
  <2>6. \A x \in Object \ {o} : users'[x] = users[x]
    BY DEF Register, TypeOK
  <2> SUFFICES ASSUME NEW x \in Object PROVE users'[x] = Cardinality(Users(x)')
    BY DEF UsersAreCounted
  <2> QED
    BY <2>3, <2>4, <2>5, <2>6 DEF UsersAreCounted
<1>7. HoldersAreInside'
  BY DEF TypeOK, Register, HoldersAreInside, InSection, RefsMatchPc
<1> QED
  BY <1>1, <1>2, <1>3, <1>4, <1>5, <1>6, <1>7

\* Taking and giving back the lock and manager.mutex moves no reference.
LEMMA SectionStep ==
    ASSUME LockInv, NEW p \in Process,
           Acquire(p) \/ Nest(p) \/ Unnest(p) \/ Unlock(p)
    PROVE  LockInv'
<1> USE LockAssumption DEF LockInv
<1>1. ref[p] \in Object
  BY DEF Acquire, Nest, Unnest, Unlock, RefsMatchPc, TypeOK
<1>2. TypeOK'
  BY <1>1 DEF TypeOK, Acquire, Nest, Unnest, Unlock, Pc, MutexAfterUnnest
<1>3. RefsMatchPc' /\ RefsAreMapped'
  BY DEF TypeOK, Acquire, Nest, Unnest, Unlock, RefsMatchPc, RefsAreMapped
<1>4. MapIsInjective' /\ EntriesAreUsed'
  BY DEF Acquire, Nest, Unnest, Unlock, MapIsInjective, EntriesAreUsed
<1>5. UsersAreCounted'
  BY DEF Acquire, Nest, Unnest, Unlock, UsersAreCounted, Users
<1>6. HoldersAreInside'
  BY <1>1 DEF TypeOK, Acquire, Nest, Unnest, Unlock, HoldersAreInside, InSection
<1> QED
  BY <1>2, <1>3, <1>4, <1>5, <1>6

\* The unlock function drops its reference, and the entry with the last one.
LEMMA DeregisterStep ==
    ASSUME LockInv, NEW p \in Process, Deregister(p)
    PROVE  LockInv'
<1> USE LockAssumption DEF LockInv
<1>0. PICK o \in Object, k \in Key : ref[p] = o /\ key[p] = k
  BY DEF Deregister, RefsMatchPc, TypeOK
<1>1. ref[p] = o /\ key[p] = k /\ jobLocks[k] = o
  BY <1>0 DEF Deregister, RefsAreMapped
<1>2. p \in Users(o) /\ users[o] = Cardinality(Users(o))
  BY <1>1 DEF Users, UsersAreCounted
<1>3. Users(o)' = Users(o) \ {p}
  BY <1>1 DEF Deregister, Users, TypeOK
<1>4. \A x \in Object \ {o} : Users(x)' = Users(x)
  BY <1>1 DEF Deregister, Users, TypeOK
<1>5. Cardinality(Users(o)') = Cardinality(Users(o)) - 1
  BY <1>2, <1>3, FS_RemoveElement, UsersFinite
<1>6. Cardinality(Users(o)) >= 1
  BY <1>2, FS_EmptySet, UsersFinite
<1>7. users[o] = 1 => \A q \in Process : key[q] = k => q = p
  <2> SUFFICES ASSUME users[o] = 1, NEW q \in Process, key[q] = k PROVE q = p
    OBVIOUS
  <2>1. PICK x : Users(o) = {x}
    BY <1>2, FS_Singleton, UsersFinite
  <2>2. q \in Users(o)
    BY <1>1 DEF RefsMatchPc, RefsAreMapped, Users
  <2> QED
    BY <1>2, <2>1, <2>2
<1>8. users[o] # 1 => \E q \in Process : q # p /\ key[q] = k
  <2> SUFFICES ASSUME users[o] # 1 PROVE \E q \in Process : q # p /\ key[q] = k
    OBVIOUS
  <2>1. Users(o) # {p}
    BY <1>2, FS_Singleton
  <2>2. PICK q \in Users(o) : q # p
    BY <1>2, <2>1
  <2>3. q \in Process /\ ref[q] = o
    BY <2>2 DEF Users
  <2>4. pc[q] # "idle"
    BY <1>1, <2>3 DEF RefsMatchPc
  <2>5. key[q] \in Key /\ jobLocks[key[q]] = o
    BY <2>3, <2>4 DEF RefsMatchPc, RefsAreMapped, TypeOK
  <2>6. key[q] = k
    BY <1>1, <2>5 DEF MapIsInjective
  <2> QED
    BY <2>2, <2>3, <2>6
<1>9. users' = [users EXCEPT ![o] = @ - 1] /\ users[o] \in Nat
  BY <1>1 DEF Deregister, TypeOK
<1>10. TypeOK'
  <2>1. users' \in [Object -> Nat]
    BY <1>2, <1>6, <1>9 DEF TypeOK
  <2> QED
    BY <1>1, <2>1 DEF TypeOK, Deregister, Pc, JobLocksAfter
<1>11. RefsMatchPc'
  BY DEF TypeOK, Deregister, RefsMatchPc
<1>12. RefsAreMapped'
  BY <1>1, <1>7 DEF TypeOK, Deregister, JobLocksAfter, RefsAreMapped, RefsMatchPc
<1>13. MapIsInjective'
  BY <1>1 DEF TypeOK, Deregister, JobLocksAfter, MapIsInjective
<1>14. EntriesAreUsed'
  BY <1>1, <1>8 DEF TypeOK, Deregister, JobLocksAfter, EntriesAreUsed
<1>15. UsersAreCounted'
  <2> SUFFICES ASSUME NEW x \in Object PROVE users'[x] = Cardinality(Users(x)')
    BY DEF UsersAreCounted
  <2> QED
    BY <1>1, <1>2, <1>4, <1>5, <1>9 DEF UsersAreCounted, TypeOK
<1>16. HoldersAreInside'
  BY <1>1 DEF TypeOK, Deregister, HoldersAreInside, InSection
<1> QED
  BY <1>10, <1>11, <1>12, <1>13, <1>14, <1>15, <1>16

\* Nothing changes: the invariant is about these variables only.
LEMMA LockStutter == ASSUME LockInv, UNCHANGED vars PROVE LockInv'
<1>1. \A o : Users(o)' = Users(o)
  BY DEF vars, Users
<1> QED
  BY <1>1 DEF LockInv, vars, TypeOK, RefsMatchPc, RefsAreMapped, MapIsInjective,
              EntriesAreUsed, UsersAreCounted, HoldersAreInside, InSection

\* The invariant holds in every reachable state.
THEOREM LockInvariance == Spec => []LockInv
<1>1. LockInv /\ [Next]_vars => LockInv'
  <2> SUFFICES ASSUME LockInv, [Next]_vars PROVE LockInv'
    OBVIOUS
  <2>1. ASSUME NEW p \in Process, NEW k \in Key, NEW o \in Object, Register(p, k, o)
        PROVE  LockInv'
    BY <2>1, RegisterStep
  <2>2. ASSUME NEW p \in Process, Step(p) PROVE LockInv'
    BY <2>2, SectionStep, DeregisterStep DEF Step
  <2>3. CASE UNCHANGED vars
    BY <2>3, LockStutter
  <2> QED
    BY <2>1, <2>2, <2>3 DEF Next
<1> QED
  BY <1>1, LockInit, PTL DEF Spec

\* The invariant makes a goroutine inside a section the holder of the one object
\* its job has.
LEMMA InvImpliesMutex == LockInv => MutualExclusion
<1> SUFFICES ASSUME LockInv, NEW p \in Process, NEW q \in Process,
                    InSection(p), InSection(q), key[p] = key[q]
             PROVE  p = q
  BY DEF MutualExclusion
<1>1. ref[p] = ref[q] /\ ref[p] \in Object
  BY LockAssumption DEF LockInv, RefsAreMapped, RefsMatchPc, InSection, TypeOK
<1> QED
  BY <1>1 DEF LockInv, HoldersAreInside

\* Sections of one job exclude each other for any number of goroutines and jobs:
\* the atomicity that module JobManager gives to its actions.
THEOREM JobSectionsExclude == Spec => []MutualExclusion
BY LockInvariance, InvImpliesMutex, PTL

\* The table holds an entry exactly for the jobs in use.
THEOREM LockTableIsExact == Spec => []TableIsExact
<1>1. LockInv => TableIsExact
  BY LockAssumption DEF LockInv, TableIsExact, EntriesAreUsed, RefsMatchPc, RefsAreMapped, TypeOK
<1> QED
  BY <1>1, LockInvariance, PTL

-----------------------------------------------------------------------------
\* Owner names the goroutine inside the section of a job, if there is one.
OwnerMatches ==
    /\ Owner \in [Key -> Process \cup {Nobody}]
    /\ \A k \in Key, p \in Process : Owner[k] = p <=> InSection(p) /\ key[p] = k

\* Mutual exclusion makes the CHOOSE of Owner unambiguous.
LEMMA OwnerIsInside == MutualExclusion => OwnerMatches
<1> USE LockAssumption DEF OwnerMatches
<1> SUFFICES ASSUME MutualExclusion PROVE OwnerMatches
  OBVIOUS
<1>1. ASSUME NEW k \in Key
      PROVE  /\ Owner[k] \in Process \cup {Nobody}
             /\ \A p \in Process : Owner[k] = p <=> InSection(p) /\ key[p] = k
  <2>1. CASE \E q \in Process : InSection(q) /\ key[q] = k
    <3>1. Owner[k] = CHOOSE q \in Process : InSection(q) /\ key[q] = k
      BY <2>1 DEF Owner
    <3>2. Owner[k] \in Process /\ InSection(Owner[k]) /\ key[Owner[k]] = k
      BY <2>1, <3>1
    <3> QED
      BY <3>2 DEF MutualExclusion
  <2>2. CASE ~\E q \in Process : InSection(q) /\ key[q] = k
    BY <2>2 DEF Owner
  <2> QED
    BY <2>1, <2>2
<1>2. Owner = [k \in Key |-> Owner[k]]
  BY DEF Owner
<1> QED
  BY <1>1, <1>2

\* The lock objects implement one mutex per job: lock.Lock() enters it,
\* lock.Unlock() leaves it, and the bookkeeping around them is invisible.
THEOREM LocksImplementMutex == Spec => ImplementsMutex
<1> USE LockAssumption
<1>1. Init => Abstract!Init
  BY DEF Init, Abstract!Init, Owner, InSection
<1>2. ASSUME LockInv, LockInv', [Next]_vars PROVE [Abstract!Next]_Owner
  <2>1. /\ Owner \in [Key -> Process \cup {Nobody}]
        /\ \A k \in Key, p \in Process : Owner[k] = p <=> InSection(p) /\ key[p] = k
    BY <1>2, InvImpliesMutex, OwnerIsInside DEF OwnerMatches
  <2>2. MutualExclusion'
    BY <1>2, InvImpliesMutex, PTL
  <2>3. /\ Owner' \in [Key -> Process \cup {Nobody}]
        /\ \A k \in Key, p \in Process : Owner'[k] = p <=> InSection(p)' /\ key'[p] = k
    <3>1. OwnerMatches'
      BY <2>2, OwnerIsInside, PTL
    <3> QED
      BY <3>1 DEF OwnerMatches
  <2>4. ASSUME NEW p \in Process, Acquire(p) PROVE Abstract!Next
    <3>1. key[p] \in Key /\ ref[p] \in Object
      BY <1>2, <2>4 DEF Acquire, LockInv, RefsMatchPc, TypeOK
    <3>2. \A q \in Process : InSection(q)' <=> InSection(q) \/ q = p
      BY <1>2, <2>4 DEF Acquire, InSection, LockInv, TypeOK
    <3>3. \A q \in Process : InSection(q) => key[q] # key[p]
      BY <1>2, <2>4, <3>1 DEF Acquire, InSection, LockInv, HoldersAreInside, RefsAreMapped
    <3>4. Owner[key[p]] = Nobody
      BY <2>1, <3>1, <3>3
    <3>5. Owner' = [Owner EXCEPT ![key[p]] = p]
      <4>1. \A k \in Key \ {key[p]} : Owner'[k] = Owner[k]
        BY <2>1, <2>3, <2>4, <3>2 DEF Acquire
      <4>2. Owner'[key[p]] = p
        BY <2>3, <2>4, <3>1, <3>2 DEF Acquire
      <4> QED
        BY <2>1, <2>3, <4>1, <4>2
    <3> QED
      BY <3>1, <3>4, <3>5 DEF Abstract!Next, Abstract!Enter
  <2>5. ASSUME NEW p \in Process, Unlock(p) PROVE Abstract!Next
    <3>1. key[p] \in Key /\ InSection(p)
      BY <1>2, <2>5 DEF Unlock, LockInv, RefsMatchPc, TypeOK, InSection
    <3>2. \A q \in Process : InSection(q)' <=> InSection(q) /\ q # p
      BY <1>2, <2>5 DEF Unlock, InSection, LockInv, TypeOK
    <3>3. Owner[key[p]] = p
      BY <2>1, <3>1
    <3>4. Owner' = [Owner EXCEPT ![key[p]] = Nobody]
      <4>1. \A k \in Key \ {key[p]} : Owner'[k] = Owner[k]
        BY <2>1, <2>3, <2>5, <3>2 DEF Unlock
      <4>2. Owner'[key[p]] = Nobody
        <5>1. \A q \in Process : InSection(q)' => key'[q] # key[p]
          BY <1>2, <2>5, <3>1, <3>2, InvImpliesMutex DEF Unlock, MutualExclusion
        <5> QED
          BY <2>3, <3>1, <5>1
      <4> QED
        BY <2>1, <2>3, <4>1, <4>2
    <3> QED
      BY <3>1, <3>3, <3>4 DEF Abstract!Next, Abstract!Leave
  <2>6. ASSUME \A p \in Process, k \in Key :
                   InSection(p)' /\ key'[p] = k <=> InSection(p) /\ key[p] = k
        PROVE  Owner' = Owner
    BY <2>1, <2>3, <2>6
  <2>7. ASSUME NEW p \in Process, NEW k \in Key, NEW o \in Object, Register(p, k, o)
        PROVE  Owner' = Owner
    <3>1. \A q \in Process, l \in Key :
             InSection(q)' /\ key'[q] = l <=> InSection(q) /\ key[q] = l
      BY <1>2, <2>7 DEF Register, InSection, LockInv, TypeOK
    <3> QED
      BY <2>6, <3>1
  <2>8. ASSUME NEW p \in Process, Nest(p) \/ Unnest(p) \/ Deregister(p)
        PROVE  Owner' = Owner
    <3>1. \A q \in Process, l \in Key :
             InSection(q)' /\ key'[q] = l <=> InSection(q) /\ key[q] = l
      BY <1>2, <2>8 DEF Nest, Unnest, Deregister, InSection, LockInv, TypeOK
    <3> QED
      BY <2>6, <3>1
  <2>9. CASE UNCHANGED vars
    BY <2>9 DEF vars, Owner, InSection
  <2> QED
    BY <1>2, <2>4, <2>5, <2>7, <2>8, <2>9 DEF Next, Step
<1> QED
  BY <1>1, <1>2, LockInvariance, PTL DEF Spec, ImplementsMutex, Abstract!Spec
=============================================================================
