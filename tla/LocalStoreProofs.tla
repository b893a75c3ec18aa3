-------------------------- MODULE LocalStoreProofs --------------------------
(***************************************************************************)
(* Proofs about LocalStore while no process dies in a call (MayCrash is    *)
(* FALSE): the lock file excludes, PutIfAbsent is atomic, and every        *)
(* behaviour is one of ConditionalStore.  With crashes the first two fail  *)
(* (run local_stale).                                                      *)
(***************************************************************************)
EXTENDS LocalStore, TLAPS

Section == {"check", "write", "unlock"}

\* The lock file belongs to the one call in its section; it never goes stale.
LockInv ==
    /\ lock # "stale"
    /\ lock = "fresh" => holder \in Calls /\ pc[holder] \in Section
    /\ \A c \in Calls : pc[c] \in Section => lock = "fresh" /\ holder = c
    /\ \A c \in Calls : pc[c] # "break"

\* What was read under the lock still holds at the write.
DataInv ==
    /\ \A c \in Calls : pc[c] = "write" => object = request[c].expected
    /\ \A c \in Calls : wrote[c] => pc[c] \in {"unlock", "done"} /\ object # Absent

\* Truthful speaks of outcomes of the abstract store; this is the local one.
Honest(c, o) ==
    CASE o = "created" -> request[c].kind = "create" /\ request[c].content \in seen[c]
      [] o = "exists"  -> request[c].kind = "create" /\ seen[c] \cap Contents # {}
      [] o = "swapped" -> request[c].kind = "swap" /\ wrote[c]
      [] o = "refused" -> request[c].kind = "swap" /\ ~wrote[c]
      [] o = "failed"  -> TRUE
      [] OTHER -> FALSE

\* What a call knows when it returns.
CallInv ==
    /\ \A c \in Calls : pc[c] = "idle" <=> request[c] = NoRequest
    /\ \A c \in Calls : Running(c) => object \in seen[c]
    /\ \A c \in Calls : pc[c] = "unlock" => Honest(c, outcome[c])
    /\ \A c \in Calls : pc[c] = "done" => outcome[c] # "none"

IInv == TypeOK /\ LockInv /\ DataInv /\ CallInv /\ PutIfAbsentAtomic

USE LocalAssumption

\* A request is none, a create or a swap, with its content and its condition.
LEMMA RequestFields ==
    /\ NoRequest \notin Requests /\ NoRequest.content = Absent
    /\ \A r \in Requests :
          /\ r.kind \in {"create", "swap"}
          /\ r.content \in Contents
          /\ r.kind = "create" => r.expected = Absent
          /\ r.kind = "swap" => r.expected \in Contents
BY DEF Requests, NoRequest, Abstract!Requests, Abstract!NoRequest

\* The inductive invariant holds before the first call.
THEOREM InitInv == Init => IInv
BY RequestFields DEF Init, IInv, TypeOK, LockInv, DataInv, CallInv, PutIfAbsentAtomic, Values, Places, Section,
    Running, Creates, Abstract!Outcomes

\* Every step keeps the types; death of a process included.
LEMMA TypeStep == TypeOK /\ [Next]_vars => TypeOK'
<1> SUFFICES ASSUME TypeOK, [Next]_vars
             PROVE  TypeOK'
    OBVIOUS
<1> USE RequestFields DEF TypeOK, Values, Places, Abstract!Outcomes
<1>1. ASSUME NEW c \in Calls, Start(c) PROVE TypeOK'
  BY <1>1 DEF Start, Move
<1>2. ASSUME NEW c \in Calls, Acquire(c) \/ Contend(c) \/ StatStale(c) \/ StatFresh(c)
                                 \/ Break(c) \/ Poll(c) \/ Unlock(c) \/ Proceed(c)
      PROVE  TypeOK'
  BY <1>2 DEF Acquire, Contend, StatStale, StatFresh, Break, Poll, Unlock, Proceed, Move, callVars
<1>3. ASSUME NEW c \in Calls, Conflict(c) \/ WriteError(c) \/ Cancel(c) \/ Crash(c)
      PROVE  TypeOK'
  BY <1>3 DEF Conflict, WriteError, Cancel, Crash, Move
<1>4. ASSUME NEW c \in Calls, Write(c) PROVE TypeOK'
  BY <1>4 DEF Write, Move
<1>5. ASSUME Age PROVE TypeOK'
  BY <1>5 DEF Age, callVars
<1>6. CASE UNCHANGED vars
  BY <1>6 DEF vars
<1> QED
  BY <1>1, <1>2, <1>3, <1>4, <1>5, <1>6 DEF Next, Step

(***************************************************************************)
(* While nobody dies                                                       *)
(***************************************************************************)
\* Only the call whose lock file it is creates, holds and removes it.
LEMMA LockStep == ~MayCrash /\ TypeOK /\ LockInv /\ [Next]_vars => LockInv'
<1> SUFFICES ASSUME ~MayCrash, TypeOK, LockInv, [Next]_vars
             PROVE  LockInv'
    OBVIOUS
<1> USE DEF TypeOK, LockInv, Section, Places
<1>1. ASSUME NEW c \in Calls, Start(c) \/ Contend(c) \/ StatFresh(c) \/ Poll(c) \/ Cancel(c)
      PROVE  LockInv'
  BY <1>1 DEF Start, Contend, StatFresh, Poll, Cancel, Move
<1>2. ASSUME NEW c \in Calls, Proceed(c) \/ Conflict(c) \/ Write(c) \/ WriteError(c)
      PROVE  LockInv'
  BY <1>2 DEF Proceed, Conflict, Write, WriteError, Move
<1>3. ASSUME NEW c \in Calls, Acquire(c) PROVE LockInv'
  BY <1>3 DEF Acquire, Move
<1>4. ASSUME NEW c \in Calls, Unlock(c) PROVE LockInv'
  BY <1>4 DEF Unlock, Move
<1>5. ASSUME NEW c \in Calls PROVE ~StatStale(c) /\ ~Break(c) /\ ~Crash(c)
  BY DEF StatStale, Break, Crash, Move
<1>6. ~Age
  BY DEF Age
<1>7. CASE UNCHANGED vars
  BY <1>7 DEF vars
<1> QED
  BY <1>1, <1>2, <1>3, <1>4, <1>5, <1>6, <1>7 DEF Next, Step

\* Nobody else writes between the read and the write of the lock's holder.
LEMMA DataStep ==
    ~MayCrash /\ TypeOK /\ LockInv /\ DataInv /\ CallInv /\ [Next]_vars => DataInv'
<1> SUFFICES ASSUME ~MayCrash, TypeOK, LockInv, DataInv, CallInv, [Next]_vars
             PROVE  DataInv'
    OBVIOUS
<1> USE RequestFields DEF TypeOK, DataInv
<1>1. ASSUME NEW c \in Calls, Start(c) PROVE DataInv'
  BY <1>1 DEF Start, Move
<1>2. ASSUME NEW c \in Calls, Acquire(c) \/ Contend(c) \/ StatFresh(c) \/ StatStale(c)
                                 \/ Break(c) \/ Poll(c) \/ Proceed(c) \/ Unlock(c)
      PROVE  DataInv'
  BY <1>2 DEF Acquire, Contend, StatFresh, StatStale, Break, Poll, Proceed, Unlock, Move, callVars
<1>3. ASSUME NEW c \in Calls, Conflict(c) \/ WriteError(c) \/ Cancel(c) PROVE DataInv'
  BY <1>3 DEF Conflict, WriteError, Cancel, Move
<1>4. ASSUME NEW c \in Calls, Write(c) PROVE DataInv'
  <2>1. request[c].content # Absent
    BY <1>4 DEF Write, Move, CallInv
  <2>2. \A d \in Calls : pc'[d] # "write"
    BY <1>4 DEF Write, Move, LockInv, Section
  <2> QED
    BY <1>4, <2>1, <2>2 DEF Write, Move
<1>5. CASE Age
  BY <1>5 DEF Age, callVars
<1>6. CASE UNCHANGED vars
  BY <1>6 DEF vars
<1> QED
  BY <1>1, <1>2, <1>3, <1>4, <1>5, <1>6 DEF Next, Step, Crash

\* A call knows a true answer when it unlocks.
LEMMA CallStep ==
    ~MayCrash /\ TypeOK /\ DataInv /\ CallInv /\ [Next]_vars => CallInv'
<1> SUFFICES ASSUME ~MayCrash, TypeOK, DataInv, CallInv, [Next]_vars
             PROVE  CallInv'
    OBVIOUS
<1> USE RequestFields DEF TypeOK, CallInv, Values, Places
<1>1. ASSUME NEW c \in Calls, Start(c) PROVE CallInv'
  BY <1>1 DEF Start, Move, Running, Honest
<1>2. ASSUME NEW c \in Calls, Acquire(c) \/ Contend(c) \/ StatFresh(c) \/ StatStale(c)
                                 \/ Break(c) \/ Poll(c) \/ Proceed(c)
      PROVE  CallInv'
  BY <1>2 DEF Acquire, Contend, StatFresh, StatStale, Break, Poll, Proceed, Move, callVars,
              Running, Honest
<1>3. ASSUME NEW c \in Calls, Unlock(c) PROVE CallInv'
  BY <1>3 DEF Unlock, Move, callVars, Running, Honest
<1>4. ASSUME NEW c \in Calls, WriteError(c) \/ Cancel(c) PROVE CallInv'
  BY <1>4 DEF WriteError, Cancel, Move, Running, Honest
<1>5. ASSUME NEW c \in Calls, Conflict(c) PROVE CallInv'
  <2>1. request[c] \in Requests /\ ~wrote[c] /\ object \in seen[c]
    BY <1>5 DEF Conflict, Move, Running, DataInv
  <2>2. Creates(c) => object \in seen[c] \cap Contents
    BY <1>5, <2>1 DEF Conflict, Creates
  <2>3. Honest(c, outcome[c])'
    BY <1>5, <2>1, <2>2 DEF Conflict, Creates, Honest
  <2> QED
    BY <1>5, <2>3 DEF Conflict, Move, Running, Honest
<1>6. ASSUME NEW c \in Calls, Write(c) PROVE CallInv'
  <2>1. request[c] \in Requests /\ Running(c)
    BY <1>6 DEF Write, Move, Running
  <2>2. Honest(c, outcome[c])'
    BY <1>6, <2>1 DEF Write, Creates, Honest
  <2>3. \A d \in Calls : seen[d] \subseteq seen'[d]
    BY <1>6 DEF Write
  <2>4. \A d \in Calls \ {c} : pc'[d] = "unlock" => Honest(d, outcome[d])'
    BY <1>6, <2>3 DEF Write, Move, Honest
  <2>5. \A d \in Calls : Running(d)' => (object \in seen[d])'
    BY <1>6 DEF Write, Move, Running
  <2> QED
    BY <1>6, <2>2, <2>4, <2>5 DEF Write, Move
<1>7. CASE Age
  BY <1>7 DEF Age, callVars, Running, Honest
<1>8. CASE UNCHANGED vars
  BY <1>8 DEF vars, Running, Honest
<1> QED
  BY <1>1, <1>2, <1>3, <1>4, <1>5, <1>6, <1>7, <1>8 DEF Next, Step, Crash

\* A create that writes finds the object absent, so no create wrote before it.
LEMMA AtomicStep ==
    TypeOK /\ DataInv /\ CallInv /\ PutIfAbsentAtomic /\ [Next]_vars => PutIfAbsentAtomic'
<1> SUFFICES ASSUME TypeOK, DataInv, CallInv, PutIfAbsentAtomic, [Next]_vars
             PROVE  PutIfAbsentAtomic'
    OBVIOUS
<1> USE RequestFields DEF PutIfAbsentAtomic, Creates, TypeOK
<1>1. ASSUME NEW c \in Calls, Start(c) PROVE PutIfAbsentAtomic'
  BY <1>1 DEF Start, Move, DataInv
<1>2. ASSUME NEW c \in Calls, Write(c) PROVE PutIfAbsentAtomic'
  BY <1>2 DEF Write, Move, DataInv, CallInv
<1>3. CASE UNCHANGED <<request, wrote>>
  BY <1>3
<1> QED
  BY <1>1, <1>2, <1>3 DEF Next, Step, vars, callVars, Age, Acquire, Contend, StatFresh, StatStale, Break,
      Poll, Proceed, Unlock, Conflict, WriteError, Cancel, Crash

\* Lock, read and rename of the directory backend keep the inductive invariant
\* while no process dies (local.go, lock).
THEOREM Invariance == ~MayCrash /\ Spec => []IInv
<1> SUFFICES ASSUME ~MayCrash PROVE Spec => []IInv
    OBVIOUS
<1>1. IInv /\ [Next]_vars => IInv'
  BY TypeStep, LockStep, DataStep, CallStep, AtomicStep DEF IInv
<1> QED
  BY InitInv, <1>1, PTL DEF Spec

\* The model's variables keep their types, whether or not processes die.
THEOREM TypeCorrect == Spec => []TypeOK
<1>1. Init => TypeOK
  BY InitInv DEF IInv
<1> QED
  BY <1>1, TypeStep, PTL DEF Spec

\* Two calls are never between their read of the object and their write, for any
\* number of processes.
THEOREM Exclusion == ~MayCrash /\ Spec => []ExclusiveSection
<1>1. IInv => ExclusiveSection
  BY DEF IInv, LockInv, Section, ExclusiveSection
<1> QED
  BY Invariance, <1>1, PTL

\* store.go:2: of the calls that create one key, at most one writes it.
THEOREM Atomicity == ~MayCrash /\ Spec => []PutIfAbsentAtomic
<1>1. IInv => PutIfAbsentAtomic
  BY DEF IInv
<1> QED
  BY Invariance, <1>1, PTL

(***************************************************************************)
(* Refinement                                                              *)
(***************************************************************************)
\* What the abstract store sees of the outcomes.
Returned == [c \in Calls |-> IF pc[c] = "done" THEN outcome[c] ELSE "none"]

\* A call is open in the abstract store exactly while it runs here.
LEMMA OpenIsRunning == IInv => \A c \in Calls : Abstract!Open(c) <=> Running(c)
BY DEF IInv, TypeOK, CallInv, Abstract!Open, Running, NoRequest, Returned

\* Every step is a step of the abstract store, or changes nothing it sees.
LEMMA RefinesStep ==
    ~MayCrash /\ IInv /\ IInv' /\ [Next]_vars => [Abstract!Next]_Abstract!vars
<1> SUFFICES ASSUME ~MayCrash, IInv, IInv', [Next]_vars
             PROVE  Abstract!Next \/ UNCHANGED Abstract!vars
    BY DEF Abstract!vars
<1> USE RequestFields DEF TypeOK, IInv
<1>1. ASSUME NEW c \in Calls, Start(c) PROVE Abstract!Next
  <2>1. PICK r \in Requests : request' = [request EXCEPT ![c] = r]
    BY <1>1 DEF Start
  <2>2. request[c] = NoRequest /\ Returned' = Returned
    BY <1>1 DEF Start, Move, CallInv, Returned
  <2>3. Abstract!Invoke(c, r)
    BY <1>1, <2>1, <2>2 DEF Start, Move, Abstract!Invoke, NoRequest, Returned
  <2> QED
    BY <2>1, <2>3 DEF Abstract!Next, Requests
<1>2. ASSUME NEW c \in Calls, Acquire(c) \/ Contend(c) \/ StatFresh(c) \/ StatStale(c)
                                 \/ Break(c) \/ Poll(c) \/ Proceed(c) \/ Conflict(c) \/ WriteError(c)
      PROVE  UNCHANGED Abstract!vars
  <2>1. Returned' = Returned
    BY <1>2 DEF Acquire, Contend, StatFresh, StatStale, Break, Poll, Proceed, Conflict,
                WriteError, Move, callVars, Returned
  <2> QED
    BY <1>2, <2>1 DEF Acquire, Contend, StatFresh, StatStale, Break, Poll, Proceed, Conflict,
                WriteError, callVars, Abstract!vars, Returned
<1>3. ASSUME NEW c \in Calls, Write(c) PROVE Abstract!Next
  <2>1. request[c] # NoRequest /\ ~wrote[c] /\ object = request[c].expected
    BY <1>3 DEF Write, Move, CallInv, DataInv
  <2>2. Returned' = Returned
    BY <1>3 DEF Write, Move, Returned
  <2>3. seen' = [d \in Calls |-> IF Abstract!Open(d) THEN seen[d] \cup {object'} ELSE seen[d]]
    BY <1>3, OpenIsRunning DEF Write
  <2>4. Abstract!TakeEffect(c)
    BY <1>3, <2>1, <2>2, <2>3 DEF Write, Abstract!TakeEffect, Abstract!Permits, NoRequest, Returned
  <2> QED
    BY <2>4 DEF Abstract!Next
<1>4. ASSUME NEW c \in Calls, Unlock(c) PROVE Abstract!Next
  <2>1. PICK o \in Abstract!Outcomes : o = outcome[c]
    BY DEF Abstract!Outcomes
  <2>2. Abstract!Open(c) /\ Honest(c, o)
    BY <1>4, <2>1, OpenIsRunning DEF Unlock, Move, Running, CallInv, Honest
  <2>3. Abstract!Truthful(c, o)
    BY <2>2 DEF Honest, Abstract!Truthful
  <2>4. Returned' = [Returned EXCEPT ![c] = o]
    BY <1>4, <2>1 DEF Unlock, Move, callVars, Returned
  <2>5. Abstract!Return(c, o)
    BY <1>4, <2>2, <2>3, <2>4 DEF Unlock, callVars, Abstract!Return, Returned
  <2> QED
    BY <2>5 DEF Abstract!Next
<1>5. ASSUME NEW c \in Calls, Cancel(c) PROVE Abstract!Next
  <2>1. Abstract!Open(c) /\ Abstract!Truthful(c, "failed")
    BY <1>5, OpenIsRunning DEF Cancel, Running, Abstract!Truthful
  <2>2. Returned' = [Returned EXCEPT ![c] = "failed"]
    BY <1>5 DEF Cancel, Returned
  <2>3. Abstract!Return(c, "failed")
    BY <1>5, <2>1, <2>2 DEF Cancel, Abstract!Return, Returned
  <2> QED
    BY <2>3 DEF Abstract!Next, Abstract!Outcomes
<1>6. CASE Age \/ UNCHANGED vars
  BY <1>6 DEF Age, callVars, vars, Abstract!vars
<1> QED
  BY <1>1, <1>2, <1>3, <1>4, <1>5, <1>6 DEF Next, Step, Crash

\* The lock, the read, the rename and the unlock are one atomic conditional write
\* with a true answer, as store.go promises of a Backend.
THEOREM Refinement == ~MayCrash /\ Spec => ImplementsConditionalStore
<1> SUFFICES ASSUME ~MayCrash PROVE Spec => ImplementsConditionalStore
    OBVIOUS
<1>1. Init => Abstract!Init
  BY DEF Init, Abstract!Init, NoRequest
<1>2. IInv /\ IInv' /\ [Next]_vars => [Abstract!Next]_Abstract!vars
  BY RefinesStep
<1> QED
  BY <1>1, <1>2, Invariance, PTL DEF Spec, Abstract!Spec, ImplementsConditionalStore
=============================================================================
