-------------------------- MODULE ConditionalStore --------------------------
(***************************************************************************)
(* What every fsbuild storage backend promises about one object            *)
(* (internal/store/store.go, type Backend): PutIfAbsent creates the object *)
(* atomically, CompareAndSwap replaces it only while it still has the      *)
(* expected ETag, each call takes effect at most once, and an answer is    *)
(* truthful about some moment of the call.  A call that ends in an error   *)
(* promises nothing: its effect may happen during the call, later, or      *)
(* never.                                                                  *)
(*                                                                         *)
(* An ETag identifies the bytes it was computed from (store.go, local.go), *)
(* so the expected ETag of a swap is modelled by the content it names.     *)
(***************************************************************************)
CONSTANTS Calls,      \* calls to the backend; each is made at most once
          Contents,   \* the bytes an object can hold
          Absent      \* the object does not exist

VARIABLES object,     \* what the key holds: a content or Absent
          request,    \* request[c]: what call c asks for, NoRequest before it is made
          effect,     \* effect[c]: call c has changed the object
          seen,       \* seen[c]: every value the object had while call c was open
          outcome     \* outcome[c]: what call c returned, "none" before it returns

vars == <<object, request, effect, seen, outcome>>

Values    == Contents \cup {Absent}
NoRequest == [kind |-> "none", expected |-> Absent, content |-> Absent]
Requests  ==
    [kind : {"create"}, expected : {Absent}, content : Contents]
        \cup [kind : {"swap"}, expected : Contents, content : Contents]
Outcomes  == {"none", "created", "exists", "swapped", "refused", "failed"}

Open(c) == request[c] # NoRequest /\ outcome[c] = "none"

\* The precondition of a request: If-None-Match "*" or If-Match.
Permits(r, o) == o = r.expected

Init ==
    /\ object = Absent
    /\ request = [c \in Calls |-> NoRequest]
    /\ effect = [c \in Calls |-> FALSE]
    /\ seen = [c \in Calls |-> {}]
    /\ outcome = [c \in Calls |-> "none"]

Invoke(c, r) ==
    /\ request[c] = NoRequest
    /\ request' = [request EXCEPT ![c] = r]
    /\ seen' = [seen EXCEPT ![c] = {object}]
    /\ UNCHANGED <<object, effect, outcome>>

\* The one atomic change call c can make, while it is open or after it failed.
TakeEffect(c) ==
    /\ request[c] # NoRequest
    /\ ~effect[c]
    /\ Permits(request[c], object)
    /\ object' = request[c].content
    /\ effect' = [effect EXCEPT ![c] = TRUE]
    /\ seen' = [d \in Calls |-> IF Open(d) THEN seen[d] \cup {object'} ELSE seen[d]]
    /\ UNCHANGED <<request, outcome>>

\* What an outcome claims about the time the call was open.
Truthful(c, o) ==
    CASE o = "created" -> request[c].kind = "create" /\ request[c].content \in seen[c]
      [] o = "exists"  -> request[c].kind = "create" /\ seen[c] \cap Contents # {}
      [] o = "swapped" -> request[c].kind = "swap" /\ effect[c]
      [] o = "refused" -> request[c].kind = "swap" /\ ~effect[c]
      [] o = "failed"  -> TRUE
      [] OTHER -> FALSE

Return(c, o) ==
    /\ Open(c)
    /\ Truthful(c, o)
    /\ outcome' = [outcome EXCEPT ![c] = o]
    /\ UNCHANGED <<object, request, effect, seen>>

Next ==
    \E c \in Calls :
        \/ \E r \in Requests : Invoke(c, r)
        \/ TakeEffect(c)
        \/ \E o \in Outcomes : Return(c, o)

Spec == Init /\ [][Next]_vars
=============================================================================
