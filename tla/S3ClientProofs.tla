--------------------------- MODULE S3ClientProofs ---------------------------
(***************************************************************************)
(* Proofs about S3Client, for any number of calls, contents and attempts:  *)
(* a call is applied at most once however often it is replayed, one create *)
(* creates the key, and a swap with a definite answer is settled.          *)
(***************************************************************************)
EXTENDS S3Client, TLAPS

Waiting == {"await", "probe", "confirm"}

\* Requests are sent in order, and of a swap only one is.
WireInv ==
    \A c \in Calls :
        /\ client[c].pc = "idle" => request[c] = NoRequest /\ client[c].attempt = 0
        /\ request[c] = NoRequest => \A i \in Attempts : wire[c][i] = "unsent"
        /\ client[c].pc \notin {"idle", "done"} => request[c] # NoRequest
        /\ client[c].pc = "send" => client[c].attempt < AllowedAttempts(c)
        /\ client[c].pc \in Waiting => client[c].attempt \in 1..AllowedAttempts(c)
        /\ client[c].pc \in {"probe", "head"} => Creates(c)
        /\ client[c].pc = "confirm" => wire[c][client[c].attempt] = "applied"
        /\ request[c].kind = "swap" => \A i \in Attempts \ {1} : wire[c][i] = "unsent"
        /\ client[c].pc \in {"send"} \cup Waiting =>
              \A i \in Attempts : i > client[c].attempt => wire[c][i] = "unsent"

\* An object that was written once is there for good.
ObjectInv ==
    \A c \in Calls : \A i \in Attempts : wire[c][i] = "applied" => object # Absent

\* What a swap was told is what happened to its one request.
AnswerInv ==
    \A c \in Calls :
        /\ client[c].pc # "done" => outcome[c] = "none"
        /\ outcome[c] \in {"swapped", "refused"} =>
              /\ request[c].kind = "swap"
              /\ wire[c][1] \in {"applied", "precondition", "conflict"}

IInv ==
    TypeOK /\ WireInv /\ ObjectInv /\ AnswerInv /\ AppliedAtMostOnce /\ OneCreator

USE S3Assumption

\* A request is none, a create or a swap, with its content and its condition.
LEMMA RequestFields ==
    /\ NoRequest \notin Requests /\ NoRequest.content = Absent /\ NoRequest.kind = "none"
    /\ \A r \in Requests :
          /\ r.kind \in {"create", "swap"}
          /\ r.content \in Contents
          /\ r.kind = "create" => r.expected = Absent
          /\ r.kind = "swap" => r.expected \in Contents
BY DEF Requests, NoRequest

\* The two places a call can be that hold no locals.
LEMMA Places ==
    /\ At("idle") \in Clients /\ At("done") \in Clients /\ At("head") \in Clients
    /\ \A p \in {"idle", "done", "head"} : At(p).pc = p /\ At(p).attempt = 0
BY DEF At, Clients, Answers

\* The inductive invariant holds before the first call.
THEOREM InitInv == Init => IInv
BY RequestFields, Places DEF Init, IInv, TypeOK, WireInv, ObjectInv, AnswerInv, AppliedAtMostOnce,
    OneCreator, Values, Attempts, Fates, Outcomes, Waiting

\* A call is allowed at least one attempt and at most MaxAttempts (s3ReplaySafe).
LEMMA AttemptBound == \A c \in Calls : AllowedAttempts(c) \in 1..MaxAttempts
BY DEF AllowedAttempts

\* The client's half of the type invariant, and what the client's moves do to it.
ClientTypes == client \in [Calls -> Clients] /\ outcome \in [Calls -> Outcomes]

\* Returning keeps the types.
LEMMA FinishTypes ==
    ASSUME ClientTypes, NEW c \in Calls, NEW o \in Outcomes, Finish(c, o)
    PROVE  ClientTypes'
BY Places DEF ClientTypes, Finish

\* So does moving on,
LEMMA GotoTypes ==
    ASSUME ClientTypes, NEW c \in Calls, UNCHANGED outcome,
           NEW p \in {"send", "confirm"}, Goto(c, p)
    PROVE  ClientTypes'
BY DEF ClientTypes, Goto, Clients

\* and sending again or giving up.
LEMMA ContinueTypes ==
    ASSUME ClientTypes, NEW c \in Calls, NEW a \in Answers, NEW u \in BOOLEAN,
           Continue(c, a, u)
    PROVE  ClientTypes'
<1>1. CASE Retryable(c, a) /\ CanRetry(c)
  BY <1>1 DEF Continue, ClientTypes, Clients
<1>2. CASE ~(Retryable(c, a) /\ CanRetry(c))
  <2>1. GiveUp(c, a)
    BY <1>2 DEF Continue
  <2>2. CASE Finish(c, "failed") \/ Finish(c, "refused")
    BY <2>2, FinishTypes DEF Outcomes
  <2>3. CASE client' = [client EXCEPT ![c] = At("head")] /\ UNCHANGED outcome
    BY <2>3, Places DEF ClientTypes
  <2> QED
    BY <2>1, <2>2, <2>3 DEF GiveUp
<1> QED
  BY <1>1, <1>2

\* Every step of client and service keeps the types.
LEMMA TypeStep == TypeOK /\ WireInv /\ [Next]_vars => TypeOK'
<1> SUFFICES ASSUME TypeOK, WireInv, [Next]_vars
             PROVE  TypeOK'
    OBVIOUS
<1> USE RequestFields, AttemptBound DEF TypeOK, Values, Attempts
<1>0. ClientTypes
  BY DEF ClientTypes
<1>1. ASSUME NEW c \in Calls, Start(c) PROVE TypeOK'
  BY <1>0, <1>1, GotoTypes DEF Start, ClientTypes
<1>2. ASSUME NEW c \in Calls, Send(c) PROVE TypeOK'
  BY <1>2 DEF Send, Clients, Answers, Fates, WireInv
<1>3. ASSUME NEW c \in Calls, Succeeded(c) \/ Confirm(c) \/ HeadExisting(c) \/ Cancel(c)
      PROVE  TypeOK'
  <2>1. CASE \E o \in Outcomes : Finish(c, o)
    BY <1>0, <1>3, <2>1, FinishTypes DEF Succeeded, Confirm, HeadExisting, Cancel, ClientTypes
  <2>2. CASE Goto(c, "confirm") /\ UNCHANGED outcome
    BY <1>0, <1>3, <2>2, GotoTypes DEF Succeeded, Confirm, HeadExisting, Cancel, ClientTypes
  <2> QED
    BY <1>3, <2>1, <2>2 DEF Succeeded, Confirm, HeadExisting, Cancel, Success, Outcomes
<1>4. ASSUME NEW c \in Calls, Failed(c) PROVE TypeOK'
  <2>1. PICK a \in PossibleAnswers(wire[c][client[c].attempt]) :
           IF Creates(c) /\ (Retryable(c, a) \/ client[c].unresolved)
           THEN /\ client' = [client EXCEPT ![c].pc = "probe", ![c].answer = a,
                                            ![c].unresolved = TRUE]
                /\ UNCHANGED outcome
           ELSE Continue(c, a, client[c].unresolved)
    BY <1>4 DEF Failed
  <2>2. a \in Answers /\ client[c].unresolved \in BOOLEAN
    BY <2>1 DEF PossibleAnswers, Answers, Clients
  <2>3. ClientTypes'
    <3>1. CASE Continue(c, a, client[c].unresolved)
      <4>1. PICK u \in BOOLEAN : u = client[c].unresolved
        BY <2>2
      <4>2. Continue(c, a, u)
        BY <3>1, <4>1 DEF Continue
      <4> QED
        BY <1>0, <2>2, <4>2, ContinueTypes
    <3>2. CASE /\ client' = [client EXCEPT ![c].pc = "probe", ![c].answer = a,
                                            ![c].unresolved = TRUE]
               /\ UNCHANGED outcome
      <4>1. [client[c] EXCEPT !.pc = "probe", !.answer = a, !.unresolved = TRUE] \in Clients
        <5>1. client[c] \in Clients
          OBVIOUS
        <5> QED
          BY <2>2, <5>1 DEF Clients
      <4>2. client' = [client EXCEPT ![c] =
               [client[c] EXCEPT !.pc = "probe", !.answer = a, !.unresolved = TRUE]]
        BY <3>2
      <4> QED
        BY <1>0, <3>2, <4>1, <4>2 DEF ClientTypes
    <3> QED
      BY <2>1, <3>1, <3>2
  <2> QED
    BY <1>4, <2>3 DEF Failed, ClientTypes
<1>5. ASSUME NEW c \in Calls, Probe(c) PROVE TypeOK'
  <2>1. PICK a \in Answers : a = client[c].answer
    BY DEF Clients
  <2>2. CASE Continue(c, client[c].answer, TRUE) \/ Continue(c, client[c].answer, FALSE)
    <3>1. Continue(c, a, TRUE) \/ Continue(c, a, FALSE)
      BY <2>1, <2>2 DEF Continue, GiveUp, Retryable
    <3>2. ClientTypes'
      BY <1>0, <3>1, ContinueTypes
    <3> QED
      BY <1>5, <3>2 DEF Probe, ClientTypes
  <2>3. CASE Finish(c, "created")
    BY <1>0, <1>5, <2>3, FinishTypes DEF Probe, ClientTypes, Outcomes
  <2>4. CASE client' = [client EXCEPT ![c] = At("head")] /\ UNCHANGED outcome
    BY <1>5, <2>4, Places DEF Probe
  <2> QED
    BY <1>5, <2>2, <2>3, <2>4 DEF Probe, ProbeFindsOurs, ProbeFindsOther, ProbeFindsNothing, ProbeFails
<1>6. ASSUME NEW c \in Calls, NEW i \in Attempts, Apply(c, i) PROVE TypeOK'
  BY <1>6 DEF Apply, Fates, clientVars
<1>7. ASSUME NEW c \in Calls, NEW i \in Attempts, Decline(c, i) PROVE TypeOK'
  BY <1>7 DEF Decline, Fates, clientVars
<1>8. CASE UNCHANGED vars
  BY <1>8 DEF vars
<1> QED
  BY <1>1, <1>2, <1>3, <1>4, <1>5, <1>6, <1>7, <1>8 DEF Next, ClientStep

(***************************************************************************)
(* What a client does between two requests                                 *)
(***************************************************************************)
\* A client that sends nothing in this step: it ends the call with an answer its
\* last request was given, or it goes on with the same attempt.
Moved(c) ==
    /\ UNCHANGED <<object, request, wire, seen>>
    /\ \A d \in Calls \ {c} : client'[d] = client[d] /\ outcome'[d] = outcome[d]
    /\ client[c].pc \notin {"idle", "done"}
    /\ \/ /\ client'[c].pc = "done"
          /\ outcome'[c] \in {"swapped", "refused"} =>
                /\ ~Creates(c)
                /\ client[c].pc \in Waiting
                /\ wire[c][client[c].attempt] \in {"applied", "precondition", "conflict"}
       \/ /\ outcome'[c] = outcome[c]
          /\ \/ client'[c].pc = "head" /\ Creates(c)
             \/ /\ client'[c].attempt = client[c].attempt
                /\ client[c].pc \in Waiting
                /\ \/ client'[c].pc = "send" /\ CanRetry(c)
                   \/ client'[c].pc = "probe" /\ Creates(c)
                   \/ client'[c].pc = "confirm" /\ wire[c][client[c].attempt] = "applied"

LEMMA FinishMoves ==
    ASSUME ClientTypes, UNCHANGED <<object, request, wire, seen>>, NEW c \in Calls,
           client[c].pc \notin {"idle", "done"}, NEW o, Finish(c, o),
           o \in {"swapped", "refused"} =>
                /\ ~Creates(c)
                /\ client[c].pc \in Waiting
                /\ wire[c][client[c].attempt] \in {"applied", "precondition", "conflict"}
    PROVE  Moved(c)
BY Places DEF ClientTypes, Finish, Moved

LEMMA ContinueMoves ==
    ASSUME ClientTypes, UNCHANGED <<object, request, wire, seen>>, NEW c \in Calls,
           client[c].pc \in Waiting, NEW a, NEW u, Continue(c, a, u),
           ~Creates(c) /\ a \in {"precondition", "conflict"} => wire[c][client[c].attempt] = a
    PROVE  Moved(c)
<1>1. CASE Retryable(c, a) /\ CanRetry(c)
  BY <1>1 DEF Continue, ClientTypes, Clients, Moved, Waiting
<1>2. CASE ~(Retryable(c, a) /\ CanRetry(c))
  <2>1. GiveUp(c, a)
    BY <1>2 DEF Continue
  <2> client[c].pc \notin {"idle", "done"}
    BY DEF Waiting
  <2>2. CASE Finish(c, "failed")
    BY <2>2, FinishMoves
  <2>4. CASE Finish(c, "refused") /\ ~Creates(c) /\ a \in {"precondition", "conflict"}
    <3>1. wire[c][client[c].attempt] \in {"applied", "precondition", "conflict"}
      BY <2>4
    <3> QED
      BY <2>4, <3>1, FinishMoves
  <2>3. CASE client' = [client EXCEPT ![c] = At("head")] /\ UNCHANGED outcome /\ Creates(c)
    BY <2>3, Places DEF ClientTypes, Moved, Waiting
  <2> QED
    BY <2>1, <2>2, <2>3, <2>4 DEF GiveUp
<1> QED
  BY <1>1, <1>2

LEMMA ClientMoves ==
    ASSUME TypeOK, WireInv, NEW c \in Calls,
           Succeeded(c) \/ Confirm(c) \/ Failed(c) \/ Probe(c) \/ HeadExisting(c) \/ Cancel(c)
    PROVE  Moved(c)
<1>0. ClientTypes
  BY DEF TypeOK, ClientTypes
<1>1. CASE Succeeded(c)
  <2>1. CASE Finish(c, Success(c))
    <3>1. PICK o \in Outcomes : o = Success(c)
      BY DEF Success, Outcomes
    <3>2. Finish(c, o) /\ (o = "swapped" => ~Creates(c)) /\ o # "refused"
      BY <2>1, <3>1 DEF Finish, Success
    <3> QED
      BY <1>0, <1>1, <3>2, FinishMoves DEF Succeeded, Waiting
  <2>2. CASE Goto(c, "confirm") /\ UNCHANGED outcome
    BY <1>0, <1>1, <2>2 DEF Succeeded, Goto, ClientTypes, Clients, Moved, Waiting
  <2> QED
    BY <1>1, <2>1, <2>2 DEF Succeeded
<1>2. CASE Confirm(c)
  <2>1. PICK o \in Outcomes : o \in {Success(c), "failed"} /\ Finish(c, o)
    BY <1>2 DEF Confirm, Success, Outcomes, Finish
  <2>2. wire[c][client[c].attempt] = "applied" /\ client[c].pc \in Waiting
    BY <1>2 DEF Confirm, WireInv, Waiting
  <2> QED
    BY <1>0, <1>2, <2>1, <2>2, FinishMoves DEF Confirm, Success
<1>3. CASE Failed(c)
  <2>1. PICK a \in PossibleAnswers(wire[c][client[c].attempt]) :
           IF Creates(c) /\ (Retryable(c, a) \/ client[c].unresolved)
           THEN /\ client' = [client EXCEPT ![c].pc = "probe", ![c].answer = a,
                                            ![c].unresolved = TRUE]
                /\ UNCHANGED outcome
           ELSE Continue(c, a, client[c].unresolved)
    BY <1>3 DEF Failed
  <2>2. CASE Creates(c) /\ (Retryable(c, a) \/ client[c].unresolved)
    <3>1. client' = [client EXCEPT ![c] =
             [client[c] EXCEPT !.pc = "probe", !.answer = a, !.unresolved = TRUE]]
      BY <2>1, <2>2
    <3>2. client'[c].pc = "probe" /\ client'[c].attempt = client[c].attempt
      BY <1>0, <3>1 DEF ClientTypes, Clients
    <3>3. \A d \in Calls \ {c} : client'[d] = client[d]
      BY <1>0, <3>1 DEF ClientTypes
    <3> QED
      BY <1>3, <2>1, <2>2, <3>2, <3>3 DEF Failed, Moved, Waiting
  <2>3. CASE ~(Creates(c) /\ (Retryable(c, a) \/ client[c].unresolved))
    <3>1. PICK u : u = client[c].unresolved
      OBVIOUS
    <3>2. Continue(c, a, u)
      BY <2>1, <2>3, <3>1 DEF Continue
    <3>3. a \in {"precondition", "conflict"} => wire[c][client[c].attempt] = a
      BY <2>1 DEF PossibleAnswers
    <3> QED
      BY <1>0, <1>3, <3>2, <3>3, ContinueMoves DEF Failed, Waiting
  <2> QED
    BY <2>2, <2>3
<1>4. CASE Probe(c)
  <2>1. Creates(c) /\ client[c].pc \in Waiting
    BY <1>4 DEF Probe, WireInv, Waiting
  <2>2. CASE ProbeFindsOurs(c)
    BY <1>0, <1>4, <2>1, <2>2, FinishMoves DEF Probe, ProbeFindsOurs
  <2>3. CASE ProbeFindsOther(c)
    BY <1>0, <1>4, <2>1, <2>3, Places DEF Probe, ProbeFindsOther, ClientTypes, Moved
  <2>4. CASE ProbeFindsNothing(c) \/ ProbeFails(c)
    <3>1. PICK a : a = client[c].answer
      OBVIOUS
    <3>2. Continue(c, a, TRUE) \/ Continue(c, a, FALSE)
      BY <2>4, <3>1 DEF ProbeFindsNothing, ProbeFails, Continue, GiveUp, Retryable
    <3> QED
      BY <1>0, <1>4, <2>1, <3>2, ContinueMoves DEF Probe
  <2> QED
    BY <1>4, <2>2, <2>3, <2>4 DEF Probe
<1>5. CASE HeadExisting(c)
  BY <1>0, <1>5, FinishMoves DEF HeadExisting
<1>6. CASE Cancel(c)
  BY <1>0, <1>6, FinishMoves DEF Cancel
<1> QED
  BY <1>1, <1>2, <1>3, <1>4, <1>5, <1>6

\* Requests go out in order, and a swap only once.
LEMMA WireStep == TypeOK /\ WireInv /\ [Next]_vars => WireInv'
<1> SUFFICES ASSUME TypeOK, WireInv, [Next]_vars
             PROVE  WireInv'
    OBVIOUS
<1> USE RequestFields, AttemptBound DEF WireInv, Waiting, AllowedAttempts, Creates, Attempts
<1>1. ASSUME NEW c \in Calls, Start(c) PROVE WireInv'
  BY <1>1 DEF Start, Goto, TypeOK, Clients
<1>2. ASSUME NEW c \in Calls, Send(c) PROVE WireInv'
  BY <1>2 DEF Send, TypeOK, Clients, Fates
<1>3. ASSUME NEW c \in Calls, Moved(c) PROVE WireInv'
  BY <1>3 DEF Moved, CanRetry, TypeOK
<1>4. ASSUME NEW c \in Calls, NEW i \in Attempts, Apply(c, i) PROVE WireInv'
  BY <1>4 DEF Apply, clientVars, TypeOK
<1>5. ASSUME NEW c \in Calls, NEW i \in Attempts, Decline(c, i) PROVE WireInv'
  BY <1>5 DEF Decline, clientVars, TypeOK
<1>6. CASE UNCHANGED vars
  BY <1>6 DEF vars
<1> QED
  BY <1>1, <1>2, <1>3, <1>4, <1>5, <1>6, ClientMoves DEF Next, ClientStep

LEMMA ObjectStep == TypeOK /\ WireInv /\ ObjectInv /\ [Next]_vars => ObjectInv'
<1> SUFFICES ASSUME TypeOK, WireInv, ObjectInv, [Next]_vars
             PROVE  ObjectInv'
    OBVIOUS
<1> USE RequestFields DEF ObjectInv
<1>1. ASSUME NEW c \in Calls, Start(c) PROVE ObjectInv'
  BY <1>1 DEF Start
<1>2. ASSUME NEW c \in Calls, Send(c) PROVE ObjectInv'
  BY <1>2 DEF Send, TypeOK
<1>3. ASSUME NEW c \in Calls, Moved(c) PROVE ObjectInv'
  BY <1>3 DEF Moved
<1>4. ASSUME NEW c \in Calls, NEW i \in Attempts, Apply(c, i) PROVE ObjectInv'
  <2>1. request[c] # NoRequest
    BY <1>4 DEF Apply, WireInv
  <2>2. object' \in Contents
    BY <1>4, <2>1 DEF Apply, TypeOK
  <2> QED
    BY <2>2
<1>5. ASSUME NEW c \in Calls, NEW i \in Attempts, Decline(c, i) PROVE ObjectInv'
  BY <1>5 DEF Decline, TypeOK
<1>6. CASE UNCHANGED vars
  BY <1>6 DEF vars
<1> QED
  BY <1>1, <1>2, <1>3, <1>4, <1>5, <1>6, ClientMoves DEF Next, ClientStep

LEMMA AnswerStep == TypeOK /\ WireInv /\ AnswerInv /\ [Next]_vars => AnswerInv'
<1> SUFFICES ASSUME TypeOK, WireInv, AnswerInv, [Next]_vars
             PROVE  AnswerInv'
    OBVIOUS
<1> USE RequestFields DEF AnswerInv
<1>1. ASSUME NEW c \in Calls, Start(c) PROVE AnswerInv'
  BY <1>1 DEF Start, Goto, TypeOK, Clients
<1>2. ASSUME NEW c \in Calls, Send(c) PROVE AnswerInv'
  BY <1>2 DEF Send, TypeOK, Clients
<1>3. ASSUME NEW c \in Calls, Moved(c) PROVE AnswerInv'
  <2>1. request[c] \in Requests
    BY <1>3 DEF Moved, WireInv, TypeOK
  <2>2. ~Creates(c) /\ client[c].pc \in Waiting => client[c].attempt = 1
    BY DEF WireInv, AllowedAttempts
  <2> QED
    BY <1>3, <2>1, <2>2 DEF Moved, Creates
<1>4. ASSUME NEW c \in Calls, NEW i \in Attempts, Apply(c, i) PROVE AnswerInv'
  BY <1>4 DEF Apply, clientVars, TypeOK, Attempts
<1>5. ASSUME NEW c \in Calls, NEW i \in Attempts, Decline(c, i) PROVE AnswerInv'
  BY <1>5 DEF Decline, clientVars, TypeOK, Attempts
<1>6. CASE UNCHANGED vars
  BY <1>6 DEF vars
<1> QED
  BY <1>1, <1>2, <1>3, <1>4, <1>5, <1>6, ClientMoves DEF Next, ClientStep

\* A request that is applied finds none applied before it: of a create because it
\* finds the object absent, of a swap because there is no other.
LEMMA OnceStep ==
    /\ TypeOK /\ WireInv /\ ObjectInv /\ AppliedAtMostOnce /\ OneCreator /\ [Next]_vars
    => AppliedAtMostOnce' /\ OneCreator'
<1> SUFFICES ASSUME TypeOK, WireInv, ObjectInv, AppliedAtMostOnce, OneCreator, [Next]_vars
             PROVE  AppliedAtMostOnce' /\ OneCreator'
    OBVIOUS
<1> USE RequestFields DEF AppliedAtMostOnce, OneCreator, Creates
<1>1. ASSUME NEW c \in Calls, Start(c) PROVE AppliedAtMostOnce' /\ OneCreator'
  BY <1>1 DEF Start, WireInv, TypeOK
<1>2. ASSUME NEW c \in Calls, Send(c) PROVE AppliedAtMostOnce' /\ OneCreator'
  BY <1>2 DEF Send, TypeOK
<1>3. ASSUME NEW c \in Calls, Moved(c) PROVE AppliedAtMostOnce' /\ OneCreator'
  BY <1>3 DEF Moved
<1>4. ASSUME NEW c \in Calls, NEW i \in Attempts, Apply(c, i)
      PROVE  AppliedAtMostOnce' /\ OneCreator'
  <2>1. request[c] \in Requests
    BY <1>4 DEF Apply, WireInv, TypeOK
  <2>2. CASE request[c].kind = "create"
    <3>1. \A d \in Calls, j \in Attempts : wire[d][j] # "applied"
      BY <1>4, <2>1, <2>2 DEF Apply, ConditionHolds, ObjectInv
    <3> QED
      BY <1>4, <3>1 DEF Apply, clientVars, TypeOK
  <2>3. CASE request[c].kind = "swap"
    <3>1. i = 1 /\ \A j \in Attempts \ {1} : wire[c][j] # "applied"
      BY <1>4, <2>3 DEF Apply, WireInv
    <3>2. wire' = [wire EXCEPT ![c][1] = "applied"] /\ request' = request
      BY <1>4, <3>1 DEF Apply, clientVars
    <3> QED
      BY <2>3, <3>1, <3>2 DEF TypeOK
  <2> QED
    BY <2>1, <2>2, <2>3
<1>5. ASSUME NEW c \in Calls, NEW i \in Attempts, Decline(c, i)
      PROVE  AppliedAtMostOnce' /\ OneCreator'
  BY <1>5 DEF Decline, clientVars, TypeOK
<1>6. CASE UNCHANGED vars
  BY <1>6 DEF vars
<1> QED
  BY <1>1, <1>2, <1>3, <1>4, <1>5, <1>6, ClientMoves DEF Next, ClientStep

(***************************************************************************)
(* Theorems                                                                *)
(***************************************************************************)
\* Clients and service keep the inductive invariant, whatever is lost, late or
\* refused (s3.go, doQuery).
THEOREM Invariance == Spec => []IInv
<1>1. IInv /\ [Next]_vars => IInv'
  BY TypeStep, WireStep, ObjectStep, AnswerStep, OnceStep DEF IInv
<1> QED
  BY InitInv, <1>1, PTL DEF Spec

\* The client's variables keep their types: attempts stay within their bound.
THEOREM TypeCorrect == Spec => []TypeOK
<1>1. IInv => TypeOK
  BY DEF IInv
<1> QED
  BY Invariance, <1>1, PTL

\* The service applies a call at most once, however often it is replayed and
\* however late its requests arrive.
THEOREM AtMostOnce == Spec => []AppliedAtMostOnce
<1>1. IInv => AppliedAtMostOnce
  BY DEF IInv
<1> QED
  BY Invariance, <1>1, PTL

\* Only one request of any process ever creates a key.
THEOREM Atomicity == Spec => []OneCreator
<1>1. IInv => OneCreator
  BY DEF IInv
<1> QED
  BY Invariance, <1>1, PTL

\* A swap that was told it won or lost has no request left that could still land.
THEOREM Settled == Spec => []SettledBeforeReturn
<1>1. IInv => SettledBeforeReturn
  BY DEF IInv, WireInv, AnswerInv, SettledBeforeReturn
<1> QED
  BY Invariance, <1>1, PTL

(***************************************************************************)
(* The client implements ConditionalStore                                  *)
(***************************************************************************)
\* An open call has seen the object as it is, and its own bytes once one of its
\* requests was applied; a call that ended has a result.
SeenInv ==
    \A c \in Calls :
        /\ client[c].pc \notin {"idle", "done"} =>
              /\ object \in seen[c]
              /\ \A i \in Attempts : wire[c][i] = "applied" => request[c].content \in seen[c]
        /\ client[c].pc = "done" => outcome[c] # "none"

Ongoing(c) == client[c].pc \notin {"idle", "done"}

\* A result that ConditionalStore allows this call now.
Honest(c, o) ==
    /\ o \in Outcomes \ {"none"}
    /\ o = "created" => Creates(c) /\ request[c].content \in seen[c]
    /\ o = "exists" => Creates(c) /\ seen[c] \cap Contents # {}
    /\ o = "swapped" => request[c].kind = "swap" /\ \E i \in Attempts : wire[c][i] = "applied"
    /\ o = "refused" => request[c].kind = "swap" /\ \A i \in Attempts : wire[c][i] # "applied"

\* A step of a client that ends the call with such a result, or goes on with it.
Continues(c) ==
    \/ \E o : Honest(c, o) /\ Finish(c, o)
    \/ UNCHANGED outcome /\ client'[c].pc # "done"

LEMMA ContinueAnswers ==
    ASSUME TypeOK, NEW c \in Calls, request[c] \in Requests, NEW a, NEW u, Continue(c, a, u),
           ~Creates(c) /\ a \in {"precondition", "conflict"} =>
               \A i \in Attempts : wire[c][i] # "applied"
    PROVE  Continues(c)
<1>1. CASE Retryable(c, a) /\ CanRetry(c)
  BY <1>1 DEF Continue, TypeOK, Clients, Continues
<1>2. CASE ~(Retryable(c, a) /\ CanRetry(c))
  <2>1. GiveUp(c, a)
    BY <1>2 DEF Continue
  <2>2. CASE Finish(c, "failed")
    BY <2>2 DEF Continues, Honest, Outcomes
  <2>3. CASE Finish(c, "refused") /\ ~Creates(c) /\ a \in {"precondition", "conflict"}
    <3>1. Honest(c, "refused")
      BY <2>3, RequestFields DEF Honest, Outcomes, Creates
    <3> QED
      BY <2>3, <3>1 DEF Continues
  <2>4. CASE client' = [client EXCEPT ![c] = At("head")] /\ UNCHANGED outcome
    BY <2>4, Places DEF TypeOK, Continues
  <2> QED
    BY <2>1, <2>2, <2>3, <2>4 DEF GiveUp
<1> QED
  BY <1>1, <1>2

\* No probe, no HEAD and no answer makes a call say what is not so.
LEMMA ClientAnswers ==
    ASSUME TypeOK, WireInv, SeenInv, NEW c \in Calls,
           Succeeded(c) \/ Confirm(c) \/ Failed(c) \/ Probe(c) \/ HeadExisting(c) \/ Cancel(c)
    PROVE  Continues(c)
<1>1. client[c].pc \notin {"idle", "done"}
  BY DEF Succeeded, Confirm, Failed, Probe, HeadExisting, Cancel
<1>2. request[c] \in Requests /\ request[c].kind \in {"create", "swap"}
  BY <1>1, RequestFields DEF WireInv, TypeOK
<1>3. /\ object \in seen[c] /\ object \in Values
      /\ \A i \in Attempts : wire[c][i] = "applied" => request[c].content \in seen[c]
  BY <1>1 DEF SeenInv, TypeOK
<1>4. Honest(c, "failed")
  BY DEF Honest, Outcomes
<1>5. object # Absent /\ Creates(c) => Honest(c, "exists")
  BY <1>3 DEF Honest, Outcomes, Values
<1>6. client[c].pc \in Waiting =>
          /\ client[c].attempt \in Attempts
          /\ ~Creates(c) => \A i \in Attempts : i # client[c].attempt => wire[c][i] # "applied"
  BY <1>2, AttemptBound DEF WireInv, Waiting, Attempts, AllowedAttempts, Creates
<1>7. client[c].pc \in Waiting /\ wire[c][client[c].attempt] = "applied" => Honest(c, Success(c))
  BY <1>2, <1>3, <1>6 DEF Honest, Outcomes, Success, Creates
<1>8. CASE Succeeded(c)
  <2>1. CASE Finish(c, Success(c))
    BY <1>7, <1>8, <2>1 DEF Succeeded, Continues, Waiting
  <2>2. CASE Goto(c, "confirm") /\ UNCHANGED outcome
    BY <2>2 DEF Goto, TypeOK, Clients, Continues
  <2> QED
    BY <1>8, <2>1, <2>2 DEF Succeeded
<1>9. CASE Confirm(c)
  <2>1. Honest(c, Success(c))
    BY <1>7, <1>9 DEF Confirm, WireInv, Waiting
  <2> QED
    BY <1>4, <1>9, <2>1 DEF Confirm, Continues
<1>10. CASE Failed(c)
  <2>1. PICK a \in PossibleAnswers(wire[c][client[c].attempt]) :
           IF Creates(c) /\ (Retryable(c, a) \/ client[c].unresolved)
           THEN /\ client' = [client EXCEPT ![c].pc = "probe", ![c].answer = a,
                                            ![c].unresolved = TRUE]
                /\ UNCHANGED outcome
           ELSE Continue(c, a, client[c].unresolved)
    BY <1>10 DEF Failed
  <2>2. CASE Creates(c) /\ (Retryable(c, a) \/ client[c].unresolved)
    <3>1. client' = [client EXCEPT ![c] =
             [client[c] EXCEPT !.pc = "probe", !.answer = a, !.unresolved = TRUE]]
      BY <2>1, <2>2
    <3>2. client'[c].pc = "probe" /\ UNCHANGED outcome
      BY <2>1, <2>2, <3>1 DEF TypeOK, Clients
    <3> QED
      BY <3>2 DEF Continues
  <2>3. CASE ~(Creates(c) /\ (Retryable(c, a) \/ client[c].unresolved))
    <3>1. PICK u : u = client[c].unresolved
      OBVIOUS
    <3>2. Continue(c, a, u)
      BY <2>1, <2>3, <3>1 DEF Continue
    <3>3. a \in {"precondition", "conflict"} => wire[c][client[c].attempt] = a
      BY <2>1 DEF PossibleAnswers
    <3>4. ~Creates(c) /\ a \in {"precondition", "conflict"} =>
              \A i \in Attempts : wire[c][i] # "applied"
      BY <1>6, <1>10, <3>3 DEF Failed, Waiting
    <3> QED
      BY <1>2, <3>2, <3>4, ContinueAnswers
  <2> QED
    BY <2>2, <2>3
<1>11. CASE Probe(c)
  <2>1. Creates(c)
    BY <1>11 DEF Probe, WireInv
  <2>2. CASE ProbeFindsOurs(c)
    <3>1. Honest(c, "created")
      BY <1>3, <2>1, <2>2 DEF Honest, Outcomes, ProbeFindsOurs
    <3> QED
      BY <2>2, <3>1 DEF ProbeFindsOurs, Continues
  <2>3. CASE ProbeFindsOther(c)
    BY <2>3, Places DEF ProbeFindsOther, TypeOK, Continues
  <2>4. CASE ProbeFindsNothing(c) \/ ProbeFails(c)
    <3>1. PICK a : a = client[c].answer
      OBVIOUS
    <3>2. Continue(c, a, TRUE) \/ Continue(c, a, FALSE)
      BY <2>4, <3>1 DEF ProbeFindsNothing, ProbeFails, Continue, GiveUp, Retryable
    <3> QED
      BY <1>2, <2>1, <3>2, ContinueAnswers
  <2> QED
    BY <1>11, <2>2, <2>3, <2>4 DEF Probe
<1>12. CASE HeadExisting(c)
  <2>1. Creates(c)
    BY <1>12 DEF HeadExisting, WireInv
  <2> QED
    BY <1>4, <1>5, <1>12, <2>1 DEF HeadExisting, Continues
<1>13. CASE Cancel(c)
  BY <1>4, <1>13 DEF Cancel, Continues
<1> QED
  BY <1>8, <1>9, <1>10, <1>11, <1>12, <1>13

LEMMA SeenStep == IInv /\ SeenInv /\ [Next]_vars => SeenInv'
<1> SUFFICES ASSUME TypeOK, WireInv, SeenInv, AnswerInv, [Next]_vars
             PROVE  SeenInv'
    BY DEF IInv
<1> USE RequestFields DEF SeenInv
<1>1. ASSUME NEW c \in Calls, Start(c) PROVE SeenInv'
  BY <1>1 DEF Start, Goto, TypeOK, Clients, WireInv
<1>2. ASSUME NEW c \in Calls, Send(c) PROVE SeenInv'
  BY <1>2 DEF Send, TypeOK, Clients
<1>3. ASSUME NEW c \in Calls,
             Succeeded(c) \/ Confirm(c) \/ Failed(c) \/ Probe(c) \/ HeadExisting(c) \/ Cancel(c)
      PROVE  SeenInv'
  <2>1. Moved(c)
    BY <1>3, ClientMoves
  <2>2. client'[c].pc = "done" => outcome'[c] # "none"
    BY <1>3, ClientAnswers DEF Continues, Honest, Finish, TypeOK
  <2> QED
    BY <2>1, <2>2 DEF Moved
<1>4. ASSUME NEW c \in Calls, NEW i \in Attempts, Apply(c, i) PROVE SeenInv'
  BY <1>4 DEF Apply, clientVars, TypeOK
<1>5. ASSUME NEW c \in Calls, NEW i \in Attempts, Decline(c, i) PROVE SeenInv'
  BY <1>5 DEF Decline, clientVars, TypeOK
<1>6. CASE UNCHANGED vars
  BY <1>6 DEF vars
<1> QED
  BY <1>1, <1>2, <1>3, <1>4, <1>5, <1>6 DEF Next, ClientStep

\* A call is open in the abstract store exactly while it runs here.
LEMMA OpenIsOngoing ==
    ASSUME TypeOK, WireInv, AnswerInv, SeenInv, NEW c \in Calls
    PROVE  Abstract!Open(c) <=> Ongoing(c)
BY DEF TypeOK, WireInv, AnswerInv, SeenInv, Abstract!Open, Ongoing, Abstract!NoRequest, NoRequest, Clients

\* Every step is a step of the abstract store, or changes nothing it sees.
LEMMA RefinesStep == IInv /\ SeenInv /\ [Next]_vars => [Abstract!Next]_Abstract!vars
<1> SUFFICES ASSUME TypeOK, WireInv, ObjectInv, AnswerInv, SeenInv, [Next]_vars
             PROVE  Abstract!Next \/ UNCHANGED Abstract!vars
    BY DEF IInv, Abstract!vars
<1> USE RequestFields
<1>1. ASSUME NEW c \in Calls, Start(c) PROVE Abstract!Next
  <2>1. PICK r \in Requests : request' = [request EXCEPT ![c] = r]
    BY <1>1 DEF Start
  <2>2. request[c] = NoRequest
    BY <1>1 DEF Start, WireInv
  <2>3. Abstract!Invoke(c, r)
    BY <1>1, <2>1, <2>2 DEF Start, Abstract!Invoke, NoRequest, Abstract!NoRequest
  <2> QED
    BY <2>1, <2>3 DEF Abstract!Next, Requests, Abstract!Requests
<1>2. ASSUME NEW c \in Calls, Send(c) PROVE UNCHANGED Abstract!vars
  <2>1. PICK n \in Attempts : /\ n = client[c].attempt + 1
                              /\ wire' = [wire EXCEPT ![c][n] = "inflight"]
    <3>1. client[c].attempt \in 0..MaxAttempts /\ client[c].attempt < AllowedAttempts(c)
      BY <1>2 DEF Send, WireInv, TypeOK, Clients
    <3>2. client[c].attempt + 1 \in Attempts
      BY <3>1, AttemptBound DEF Attempts
    <3> QED
      BY <1>2, <3>2 DEF Send
  <2>2. wire[c][n] = "unsent"
    BY <1>2, <2>1 DEF Send, WireInv, TypeOK, Clients, Attempts
  <2>3. \A d \in Calls, i \in Attempts : wire'[d][i] = "applied" <=> wire[d][i] = "applied"
    BY <2>1, <2>2 DEF TypeOK
  <2>4. UNCHANGED [d \in Calls |-> \E i \in Attempts : wire[d][i] = "applied"]
    BY <2>3, Zenon
  <2> QED
    BY <1>2, <2>4 DEF Send, Abstract!vars
<1>3. ASSUME NEW c \in Calls,
             Succeeded(c) \/ Confirm(c) \/ Failed(c) \/ Probe(c) \/ HeadExisting(c) \/ Cancel(c)
      PROVE  Abstract!Next \/ UNCHANGED Abstract!vars
  <2>1. UNCHANGED <<object, request, wire, seen>> /\ client[c].pc \notin {"idle", "done"}
    BY <1>3, ClientMoves DEF Moved
  <2>2. CASE UNCHANGED outcome
    BY <2>1, <2>2 DEF Abstract!vars
  <2>3. ASSUME NEW o, Honest(c, o), Finish(c, o)
        PROVE  Abstract!Next
    <3>1. Abstract!Open(c)
      BY <2>1, OpenIsOngoing DEF Ongoing
    <3>2. Abstract!Truthful(c, o)
      BY <2>3 DEF Honest, Abstract!Truthful, Outcomes, Creates
    <3>3. outcome' = [outcome EXCEPT ![c] = o]
      BY <2>3 DEF Finish
    <3>4. Abstract!Return(c, o)
      BY <2>1, <3>1, <3>2, <3>3 DEF Abstract!Return
    <3>5. o \in Abstract!Outcomes
      BY <2>3 DEF Honest, Outcomes, Abstract!Outcomes
    <3> QED
      BY <3>4, <3>5 DEF Abstract!Next
  <2>4. Continues(c)
    BY <1>3, ClientAnswers
  <2> QED
    BY <2>2, <2>3, <2>4 DEF Continues
<1>4. ASSUME NEW c \in Calls, NEW i \in Attempts, Apply(c, i) PROVE Abstract!Next
  <2>1. request[c] \in Requests /\ request[c] # NoRequest
    BY <1>4 DEF Apply, WireInv, TypeOK
  <2>2. \A j \in Attempts : wire[c][j] # "applied"
    <3>1. CASE request[c].kind = "create"
      BY <1>4, <2>1, <3>1 DEF Apply, ConditionHolds, ObjectInv
    <3>2. CASE request[c].kind = "swap"
      BY <1>4, <3>2 DEF Apply, WireInv
    <3> QED
      BY <2>1, <3>1, <3>2
  <2>3. \A d \in Calls, j \in Attempts :
            wire'[d][j] = "applied" <=> wire[d][j] = "applied" \/ (d = c /\ j = i)
    BY <1>4 DEF Apply, TypeOK
  <2>4. [d \in Calls |-> \E j \in Attempts : wire'[d][j] = "applied"]
        = [[d \in Calls |-> \E j \in Attempts : wire[d][j] = "applied"] EXCEPT ![c] = TRUE]
    <3>1. \A d \in Calls : (\E j \in Attempts : wire'[d][j] = "applied")
                        = IF d = c THEN TRUE ELSE \E j \in Attempts : wire[d][j] = "applied"
      BY <2>3, Zenon
    <3> QED
      BY <3>1, Zenon
  <2>5. seen' = [d \in Calls |-> IF Abstract!Open(d) THEN seen[d] \cup {object'} ELSE seen[d]]
    BY <1>4, OpenIsOngoing DEF Apply, Ongoing
  <2>6. Abstract!TakeEffect(c)
    BY <1>4, <2>1, <2>2, <2>4, <2>5
       DEF Apply, clientVars, ConditionHolds, Abstract!TakeEffect, Abstract!Permits, NoRequest, Abstract!NoRequest
  <2> QED
    BY <2>6 DEF Abstract!Next
<1>5. ASSUME NEW c \in Calls, NEW i \in Attempts, Decline(c, i) PROVE UNCHANGED Abstract!vars
  <2>1. \A d \in Calls, j \in Attempts : wire'[d][j] = "applied" <=> wire[d][j] = "applied"
    BY <1>5 DEF Decline, TypeOK
  <2>2. UNCHANGED [d \in Calls |-> \E j \in Attempts : wire[d][j] = "applied"]
    BY <2>1, Zenon
  <2> QED
    BY <1>5, <2>2 DEF Decline, clientVars, Abstract!vars
<1>6. CASE UNCHANGED vars
  BY <1>6 DEF vars, Abstract!vars
<1> QED
  BY <1>1, <1>2, <1>3, <1>4, <1>5, <1>6 DEF Next, ClientStep

\* Replays, probes and late requests together are one atomic conditional write
\* with a true answer, as store.go promises of a Backend.
THEOREM Refinement == Spec => ImplementsConditionalStore
<1>1. Init => Abstract!Init
  <2> SUFFICES ASSUME Init PROVE Abstract!Init
    OBVIOUS
  <2>1. [c \in Calls |-> \E i \in Attempts : wire[c][i] = "applied"] = [c \in Calls |-> FALSE]
    <3>1. \A c \in Calls, i \in Attempts : wire[c][i] # "applied"
      BY DEF Init
    <3> QED
      BY <3>1, Zenon
  <2> QED
    BY <2>1 DEF Init, Abstract!Init, NoRequest, Abstract!NoRequest
<1>2. Init => SeenInv
  BY Places DEF Init, SeenInv
<1>3. IInv /\ SeenInv /\ [Next]_vars => SeenInv'
  BY SeenStep
<1>4. IInv /\ SeenInv /\ [Next]_vars => [Abstract!Next]_Abstract!vars
  BY RefinesStep
<1> QED
  BY <1>1, <1>2, <1>3, <1>4, Invariance, PTL DEF Spec, Abstract!Spec, ImplementsConditionalStore
=============================================================================
