----------------------------- MODULE LocalStore -----------------------------
(***************************************************************************)
(* The directory backend of internal/store/local.go writing one object:    *)
(* an O_EXCL lock file per key, a read of the object, a write by rename,   *)
(* and the removal of the lock file.  A lock file older than an hour is    *)
(* taken to be abandoned: whoever waits for it stats it, removes it by     *)
(* name, and tries again.                                                  *)
(***************************************************************************)
EXTENDS Integers

CONSTANTS Calls,        \* conditional writes, each by a process of its own
          Contents,     \* the bytes an object can hold; also its ETag
          Absent,       \* the object, or the lock file, does not exist
          MayCrash      \* whether a process may die before it unlocks

ASSUME LocalAssumption ==
    /\ Absent \notin Contents \cup {"fresh", "stale"}
    /\ MayCrash \in BOOLEAN

VARIABLES object,       \* the object's file
          lock,         \* the lock file: Absent, "fresh" or, after an hour, "stale"
          holder,       \* history: the call whose lock file it is
          request,      \* request[c]: the conditional write asked for
          pc,           \* where call c is
          wrote,        \* history: call c has renamed its file into place
          outcome,      \* the result of the call, returned when it is "done"
          seen          \* history: the values the object had while c was open

callVars == <<request, wrote, outcome, seen>>
vars == <<object, lock, holder, request, pc, wrote, outcome, seen>>

\* A call has returned once it is "done"; until then its result is a local.
Abstract == INSTANCE ConditionalStore
    WITH effect <- wrote,
         outcome <- [c \in Calls |-> IF pc[c] = "done" THEN outcome[c] ELSE "none"]

Values    == Contents \cup {Absent}
NoRequest == Abstract!NoRequest
Requests  == Abstract!Requests
Places    == {"idle", "open", "stat", "break", "wait", "check", "write", "unlock", "done"}

TypeOK ==
    /\ object \in Values
    /\ lock \in {Absent, "fresh", "stale"}
    /\ holder \in Calls \cup {Absent}
    /\ request \in [Calls -> Requests \cup {NoRequest}]
    /\ pc \in [Calls -> Places]
    /\ wrote \in [Calls -> BOOLEAN]
    /\ outcome \in [Calls -> Abstract!Outcomes]
    /\ seen \in [Calls -> SUBSET Values]

Init ==
    /\ object = Absent
    /\ lock = Absent
    /\ holder = Absent
    /\ request = [c \in Calls |-> NoRequest]
    /\ pc = [c \in Calls |-> "idle"]
    /\ wrote = [c \in Calls |-> FALSE]
    /\ outcome = [c \in Calls |-> "none"]
    /\ seen = [c \in Calls |-> {}]

Move(c, from, to) == pc[c] = from /\ pc' = [pc EXCEPT ![c] = to]

Running(c) == pc[c] \notin {"idle", "done"}

Start(c) ==
    /\ Move(c, "idle", "open")
    /\ \E r \in Requests : request' = [request EXCEPT ![c] = r]
    /\ seen' = [seen EXCEPT ![c] = {object}]
    /\ UNCHANGED <<object, lock, holder, wrote, outcome>>

(***************************************************************************)
(* lock                                                                    *)
(***************************************************************************)
\* Mutant: the lock file is opened without O_EXCL.
AcquireAnyway(c) ==
    /\ Move(c, "open", "check")
    /\ lock' = "fresh"
    /\ holder' = c
    /\ UNCHANGED <<object, callVars>>

\* OpenFile(O_CREATE|O_EXCL) creates the lock file.
Acquire(c) ==
    /\ lock = Absent
    /\ Move(c, "open", "check")
    /\ lock' = "fresh"
    /\ holder' = c
    /\ UNCHANGED <<object, callVars>>

\* It exists already.
Contend(c) ==
    /\ lock # Absent
    /\ Move(c, "open", "stat")
    /\ UNCHANGED <<object, lock, holder, callVars>>

\* Mutant: a stale lock file is waited for like any other.
WaitForStale(c) ==
    /\ lock = "stale"
    /\ Move(c, "stat", "wait")
    /\ UNCHANGED <<object, lock, holder, callVars>>

\* Stat: only a lock file older than an hour is broken.
StatStale(c) ==
    /\ lock = "stale"
    /\ Move(c, "stat", "break")
    /\ UNCHANGED <<object, lock, holder, callVars>>

StatFresh(c) ==
    /\ lock # "stale"
    /\ Move(c, "stat", "wait")
    /\ UNCHANGED <<object, lock, holder, callVars>>

\* Remove the lock file of that name, whatever file it is by now.
Break(c) ==
    /\ Move(c, "break", "open")
    /\ lock' = Absent
    /\ holder' = Absent
    /\ UNCHANGED <<object, callVars>>

\* 25 milliseconds later.
Poll(c) ==
    /\ Move(c, "wait", "open")
    /\ UNCHANGED <<object, lock, holder, callVars>>

(***************************************************************************)
(* PutIfAbsent and CompareAndSwap under the lock                           *)
(***************************************************************************)
Creates(c) == request[c].kind = "create"

\* Mutants: nothing is read under the lock; the ETag of a swap is not compared.
ProceedBlindly(c) ==
    /\ Move(c, "check", "write")
    /\ UNCHANGED <<object, lock, holder, callVars>>

ProceedWithAnyETag(c) ==
    /\ Creates(c) => object = Absent
    /\ Move(c, "check", "write")
    /\ UNCHANGED <<object, lock, holder, callVars>>

\* The Head under the lock decides: absent for a create, the ETag for a swap.
Proceed(c) ==
    /\ object = request[c].expected
    /\ Move(c, "check", "write")
    /\ UNCHANGED <<object, lock, holder, callVars>>

Conflict(c) ==
    /\ object # request[c].expected
    /\ Move(c, "check", "unlock")
    /\ outcome' = [outcome EXCEPT ![c] = IF Creates(c) THEN "exists" ELSE "refused"]
    /\ UNCHANGED <<object, lock, holder, request, wrote, seen>>

\* writeAtomic: the rename is the only change anyone can see.
Write(c) ==
    /\ Move(c, "write", "unlock")
    /\ object' = request[c].content
    /\ wrote' = [wrote EXCEPT ![c] = TRUE]
    /\ outcome' = [outcome EXCEPT ![c] = IF Creates(c) THEN "created" ELSE "swapped"]
    /\ seen' = [d \in Calls |-> IF Running(d) THEN seen[d] \cup {object'} ELSE seen[d]]
    /\ UNCHANGED <<lock, holder, request>>

\* An I/O error before the rename.
WriteError(c) ==
    /\ pc[c] \in {"check", "write"}
    /\ pc' = [pc EXCEPT ![c] = "unlock"]
    /\ outcome' = [outcome EXCEPT ![c] = "failed"]
    /\ UNCHANGED <<object, lock, holder, request, wrote, seen>>

\* The deferred unlock also removes by name.
Unlock(c) ==
    /\ Move(c, "unlock", "done")
    /\ lock' = Absent
    /\ holder' = Absent
    /\ UNCHANGED <<object, callVars>>

(***************************************************************************)
(* The caller gives up, the process dies, the lock file ages               *)
(***************************************************************************)
\* The lock file cannot be opened, or the context ends while it is waited for.
Cancel(c) ==
    /\ pc[c] \in {"open", "wait"}
    /\ pc' = [pc EXCEPT ![c] = "done"]
    /\ outcome' = [outcome EXCEPT ![c] = "failed"]
    /\ UNCHANGED <<object, lock, holder, request, wrote, seen>>

Crash(c) ==
    /\ MayCrash
    /\ Running(c)
    /\ pc' = [pc EXCEPT ![c] = "done"]
    /\ outcome' = [outcome EXCEPT ![c] = "failed"]
    /\ UNCHANGED <<object, lock, holder, request, wrote, seen>>

\* Only the lock file of a dead process reaches an hour: a live process
\* holds the lock for one read and one write.
Age ==
    /\ lock = "fresh"
    /\ pc[holder] = "done"
    /\ lock' = "stale"
    /\ UNCHANGED <<object, holder, pc, callVars>>

Step(c) ==
    \/ Acquire(c)
    \/ Contend(c)
    \/ StatStale(c)
    \/ StatFresh(c)
    \/ Break(c)
    \/ Poll(c)
    \/ Proceed(c)
    \/ Conflict(c)
    \/ Write(c)
    \/ WriteError(c)
    \/ Unlock(c)

Next ==
    \/ \E c \in Calls : Start(c) \/ Step(c) \/ Cancel(c) \/ Crash(c)
    \/ Age

\* Scheduling is fair to each process, and clocks run.
Fairness == WF_vars(Age) /\ \A c \in Calls : WF_vars(Step(c))

Spec == Init /\ [][Next]_vars
FairSpec == Spec /\ Fairness

(***************************************************************************)
(* Properties                                                              *)
(***************************************************************************)
\* internal/store/store.go:2, "Backends must make PutIfAbsent atomic": of the
\* calls that create one key, at most one writes it.
PutIfAbsentAtomic ==
    \A c, d \in Calls :
        Creates(c) /\ Creates(d) /\ wrote[c] /\ wrote[d] => c = d

\* The lock does its work: two calls are never between their read of the
\* object and the write that relies on it.
ExclusiveSection ==
    \A c, d \in Calls : pc[c] \in {"check", "write"} /\ pc[d] \in {"check", "write"} => c = d

\* Locking, reading, renaming and unlocking are one atomic conditional write.
ImplementsConditionalStore == Abstract!Spec

\* Nobody waits for ever on a lock file, the one of a dead process included.
EveryCallReturns == \A c \in Calls : pc[c] = "open" ~> pc[c] = "done"
=============================================================================
