------------------------------ MODULE S3Client ------------------------------
(***************************************************************************)
(* The S3/R2 client of internal/store/s3.go writing one object: bounded    *)
(* replays of a conditional create, each ambiguous answer settled by a     *)
(* HEAD of the object before the next replay, and a compare-and-swap that  *)
(* is never replayed.  A request the client gave up on may still reach the *)
(* service afterwards.                                                     *)
(*                                                                         *)
(* A call is one PutIfAbsent or CompareAndSwap of any fsbuild process; the *)
(* service serialises what it applies.  A read (HEAD) is one step: it has  *)
(* retries of its own but no effect, so only its final answer matters.     *)
(***************************************************************************)
EXTENDS Integers

CONSTANTS Calls,        \* conditional writes, by any number of processes
          Contents,     \* the bytes an object can hold; also its ETag
          Absent,       \* the object does not exist
          MaxAttempts   \* defaultS3RetryAttempts

ASSUME S3Assumption == Absent \notin Contents /\ MaxAttempts \in Nat \ {0}

VARIABLES object,       \* the object as the service holds it
          request,      \* request[c]: the conditional write asked for
          wire,         \* wire[c][i]: what became of the i-th request sent for c
          client,       \* client[c]: the client's place in PutIfAbsent,
                        \* CompareAndSwap and doQuery, with their locals
          outcome,      \* what the call returned
          seen          \* history: the values the object had while c was open

clientVars == <<request, client, outcome>>
vars == <<object, request, wire, client, outcome, seen>>

Attempts == 1..MaxAttempts

Abstract == INSTANCE ConditionalStore
    WITH effect <- [c \in Calls |-> \E i \in Attempts : wire[c][i] = "applied"]

Values    == Contents \cup {Absent}
NoRequest == [kind |-> "none", expected |-> Absent, content |-> Absent]
Requests  ==
    [kind : {"create"}, expected : {Absent}, content : Contents]
        \cup [kind : {"swap"}, expected : Contents, content : Contents]
Outcomes  == {"none", "created", "exists", "swapped", "refused", "failed"}
Answers   == {"none", "transport", "transient", "conflict", "precondition", "rejected"}
Fates     == {"unsent", "inflight", "applied", "precondition", "conflict", "rejected"}

\* attempt: requests sent so far; unresolved: unresolvedConditionalCreate;
\* answer: the failure being dealt with.
Clients ==
    [pc : {"idle", "send", "await", "probe", "head", "confirm", "done"},
     attempt : 0..MaxAttempts, unresolved : BOOLEAN, answer : Answers]

At(place) == [pc |-> place, attempt |-> 0, unresolved |-> FALSE, answer |-> "none"]

TypeOK ==
    /\ object \in Values
    /\ request \in [Calls -> Requests \cup {NoRequest}]
    /\ wire \in [Calls -> [Attempts -> Fates]]
    /\ client \in [Calls -> Clients]
    /\ outcome \in [Calls -> Outcomes]
    /\ seen \in [Calls -> SUBSET Values]

Init ==
    /\ object = Absent
    /\ request = [c \in Calls |-> NoRequest]
    /\ wire = [c \in Calls |-> [i \in Attempts |-> "unsent"]]
    /\ client = [c \in Calls |-> At("idle")]
    /\ outcome = [c \in Calls |-> "none"]
    /\ seen = [c \in Calls |-> {}]

Creates(c) == request[c].kind = "create"

\* Mutant: every conditional write is replayed.
ReplayEverything(c) == MaxAttempts

\* s3ReplaySafe: only a create, which a HEAD can reconcile, is sent again.
AllowedAttempts(c) == IF Creates(c) THEN MaxAttempts ELSE 1

CanRetry(c) == client[c].attempt < AllowedAttempts(c)

\* Mutant: a create without If-None-Match.
ConditionOfSwapsOnly(c) == ~Creates(c) => object = request[c].expected

\* The condition newRequest puts on the wire: If-None-Match "*" or If-Match.
ConditionHolds(c) == object = request[c].expected

Goto(c, place) == client' = [client EXCEPT ![c].pc = place]

\* The call returns and its locals are gone.
Finish(c, result) ==
    /\ client' = [client EXCEPT ![c] = At("done")]
    /\ outcome' = [outcome EXCEPT ![c] = result]

(***************************************************************************)
(* The call and its requests                                               *)
(***************************************************************************)
Start(c) ==
    /\ client[c].pc = "idle"
    /\ \E r \in Requests : request' = [request EXCEPT ![c] = r]
    /\ seen' = [seen EXCEPT ![c] = {object}]
    /\ Goto(c, "send")
    /\ UNCHANGED <<object, wire, outcome>>

Send(c) ==
    /\ client[c].pc = "send"
    /\ LET i == client[c].attempt + 1 IN
          /\ wire' = [wire EXCEPT ![c][i] = "inflight"]
          /\ client' = [client EXCEPT ![c].pc = "await", ![c].attempt = i,
                                      ![c].answer = "none"]
    /\ UNCHANGED <<object, request, outcome, seen>>

\* The service applies a request whenever it reaches it, if its condition
\* then holds; or it answers without applying it.
Apply(c, i) ==
    /\ wire[c][i] = "inflight"
    /\ ConditionHolds(c)
    /\ object' = request[c].content
    /\ wire' = [wire EXCEPT ![c][i] = "applied"]
    /\ seen' = [d \in Calls |->
                   IF client[d].pc \notin {"idle", "done"} THEN seen[d] \cup {object'}
                   ELSE seen[d]]
    /\ UNCHANGED clientVars

Decline(c, i) ==
    /\ wire[c][i] = "inflight"
    /\ \E fate \in {"conflict", "rejected", "precondition"} :
          /\ fate = "precondition" => ~ConditionHolds(c)
          /\ wire' = [wire EXCEPT ![c][i] = fate]
    /\ UNCHANGED <<object, seen, clientVars>>

(***************************************************************************)
(* Answers                                                                 *)
(***************************************************************************)
Success(c) == IF Creates(c) THEN "created" ELSE "swapped"

\* 2xx.  Without an ETag header the client asks for the object once more.
Succeeded(c) ==
    /\ client[c].pc = "await"
    /\ wire[c][client[c].attempt] = "applied"
    /\ \/ Finish(c, Success(c))
       \/ Goto(c, "confirm") /\ UNCHANGED outcome
    /\ UNCHANGED <<object, request, wire, seen>>

Confirm(c) ==
    /\ client[c].pc = "confirm"
    /\ \/ object # Absent /\ Finish(c, Success(c))
       \/ Finish(c, "failed")
    /\ UNCHANGED <<object, request, wire, seen>>

\* Every transport error, and retryableS3Status: a conflict only of a create.
Retryable(c, a) == a \in {"transport", "transient"} \/ (a = "conflict" /\ Creates(c))

\* Answers the client can get to a request in this state.  A connection can
\* break and an edge can time out whatever the service did with the request.
PossibleAnswers(fate) ==
    {"transport", "transient"} \cup ({fate} \cap {"conflict", "precondition", "rejected"})

\* What becomes of a call whose request is not sent again: ErrPrecondition
\* sends PutIfAbsent to HEAD the winner; any other error is returned.
GiveUp(c, a) ==
    \/ a \notin {"precondition", "conflict"} /\ Finish(c, "failed")
    \/ a \in {"precondition", "conflict"} /\ ~Creates(c) /\ Finish(c, "refused")
    \/ /\ a \in {"precondition", "conflict"} /\ Creates(c)
       /\ client' = [client EXCEPT ![c] = At("head")]
       /\ UNCHANGED outcome

\* Send again, or give up.
Continue(c, a, unresolved) ==
    IF Retryable(c, a) /\ CanRetry(c)
    THEN /\ client' = [client EXCEPT ![c].pc = "send", ![c].unresolved = unresolved]
         /\ UNCHANGED outcome
    ELSE GiveUp(c, a)

\* Any other answer.  A create is probed if this answer is ambiguous, or if an
\* earlier attempt still is.
Failed(c) ==
    /\ client[c].pc = "await"
    /\ \E a \in PossibleAnswers(wire[c][client[c].attempt]) :
          IF Creates(c) /\ (Retryable(c, a) \/ client[c].unresolved)
          THEN /\ client' = [client EXCEPT ![c].pc = "probe", ![c].answer = a,
                                           ![c].unresolved = TRUE]
               /\ UNCHANGED outcome
          ELSE Continue(c, a, client[c].unresolved)
    /\ UNCHANGED <<object, request, wire, seen>>

\* Mutant: any object that is there is taken for the caller's own.
AnyObjectIsOurs(c) ==
    /\ object # Absent
    /\ Finish(c, "created")

\* reconcileConditionalCreate, and what doQuery does with its verdict.
ProbeFindsOurs(c) ==
    /\ object = request[c].content
    /\ Finish(c, "created")

ProbeFindsOther(c) ==
    /\ object \notin {request[c].content, Absent}
    /\ client' = [client EXCEPT ![c] = At("head")]
    /\ UNCHANGED outcome

\* Confirmed absence makes the create resolved again.
ProbeFindsNothing(c) == object = Absent /\ Continue(c, client[c].answer, FALSE)

ProbeFails(c) == Continue(c, client[c].answer, TRUE)

Probe(c) ==
    /\ client[c].pc = "probe"
    /\ \/ ProbeFindsOurs(c)
       \/ ProbeFindsOther(c)
       \/ ProbeFindsNothing(c)
       \/ ProbeFails(c)
    /\ UNCHANGED <<object, request, wire, seen>>

\* Mutant: the HEAD waits until there is an object.
HeadUntilFound(c) ==
    /\ client[c].pc = "head"
    /\ object # Absent
    /\ Finish(c, "exists")
    /\ UNCHANGED <<object, request, wire, seen>>

\* PutIfAbsent after ErrPrecondition: describe the object that is there.
HeadExisting(c) ==
    /\ client[c].pc = "head"
    /\ \/ object # Absent /\ Finish(c, "exists")
       \/ Finish(c, "failed")
    /\ UNCHANGED <<object, request, wire, seen>>

\* The context is cancelled, or the process dies, anywhere in the call.
Cancel(c) ==
    /\ client[c].pc \notin {"idle", "done"}
    /\ Finish(c, "failed")
    /\ UNCHANGED <<object, request, wire, seen>>

ClientStep(c) ==
    \/ Send(c)
    \/ Succeeded(c)
    \/ Confirm(c)
    \/ Failed(c)
    \/ Probe(c)
    \/ HeadExisting(c)

Next ==
    \E c \in Calls :
        \/ Start(c)
        \/ ClientStep(c)
        \/ Cancel(c)
        \/ \E i \in Attempts : Apply(c, i) \/ Decline(c, i)

Fairness == \A c \in Calls : WF_vars(ClientStep(c))

Spec == Init /\ [][Next]_vars
FairSpec == Spec /\ Fairness

(***************************************************************************)
(* Properties                                                              *)
(***************************************************************************)
\* However often a call is replayed, the service applies it at most once
\* (s3ReplaySafe: a swap is not replayed because it invalidates its own
\* precondition, a create because the object then exists).
AppliedAtMostOnce ==
    \A c \in Calls : \A i, j \in Attempts :
        wire[c][i] = "applied" /\ wire[c][j] = "applied" => i = j

\* PutIfAbsent is atomic for the key: however many processes create it at
\* once, with whatever delays and replays, only one request ever creates it.
OneCreator ==
    \A c, d \in Calls : \A i, j \in Attempts :
        (/\ Creates(c) /\ Creates(d)
         /\ wire[c][i] = "applied" /\ wire[d][j] = "applied") => c = d

\* A swap whose caller was told it won, or lost, has nothing left on the way
\* that could change the manifest later; only a failed call leaves that open.
SettledBeforeReturn ==
    \A c \in Calls :
        outcome[c] \in {"swapped", "refused"} => \A i \in Attempts : wire[c][i] # "inflight"

\* Replays, probes and late requests together are one atomic conditional
\* write, truthfully reported: the client implements ConditionalStore.
ImplementsConditionalStore == Abstract!Spec

\* Every call ends, whatever the service does: attempts are bounded and each
\* request ends in an answer, a broken connection or the client's timeout.
EveryCallReturns == \A c \in Calls : client[c].pc = "send" ~> client[c].pc = "done"
=============================================================================
