-------------------------- MODULE ProfileContract --------------------------
(***************************************************************************)
(* What trait ProfileRepository promises (store/mod.rs 100-148), whatever  *)
(* the backend: a profile is the log of its accepted writes, its version   *)
(* is the length of that log, and each call takes effect at one instant    *)
(* between its start and its return.                                       *)
(***************************************************************************)
EXTENDS Repository

CONSTANT
    EagerExhaustion \* TRUE: an update is refused on the version it names alone

VARIABLES
    log,            \* log[u]: the payloads accepted for u, oldest first
    request,        \* request[c]: what c asked, None when c is not in a call
    reply           \* reply[c]: what c is about to be told, None before that

vars == <<log, request, reply>>

Init ==
    /\ log = [u \in Users |-> <<>>]
    /\ request = [c \in Callers |-> None]
    /\ reply = [c \in Callers |-> None]

Latest(u) == Profile(Len(log[u]), log[u][Len(log[u])])

Begin(c) ==
    /\ request[c] = None
    /\ \E r \in Requests : request' = [request EXCEPT ![c] = r]
    /\ UNCHANGED <<log, reply>>

Pending(c, op) == request[c] # None /\ reply[c] = None /\ request[c].op = op

Answer(c, answer) ==
    /\ reply' = [reply EXCEPT ![c] = answer]
    /\ UNCHANGED request

Create(c) ==
    LET u == request[c].user IN
    /\ Pending(c, "create")
    /\ \/ /\ log[u] = <<>>
          /\ log' = [log EXCEPT ![u] = <<request[c].input>>]
          /\ Answer(c, Holding("created", Profile(1, request[c].input)))
       \/ /\ log[u] # <<>>
          /\ Answer(c, Plain("exists"))
          /\ UNCHANGED log

Get(c) ==
    LET u == request[c].user IN
    /\ Pending(c, "get")
    /\ Answer(c, IF log[u] = <<>> THEN Plain("missing") ELSE Holding("found", Latest(u)))
    /\ UNCHANGED log

Exhausts(u, expected) ==
    /\ expected >= LastVersion
    /\ EagerExhaustion \/ expected = Len(log[u])

Update(c) ==
    LET u == request[c].user
        expected == request[c].expected
    IN
    /\ Pending(c, "update")
    /\ \/ /\ Exhausts(u, expected)
          /\ Answer(c, Plain("exhausted"))
          /\ UNCHANGED log
       \/ /\ ~Exhausts(u, expected)
          /\ log[u] = <<>>
          /\ Answer(c, Plain("missing"))
          /\ UNCHANGED log
       \/ /\ ~Exhausts(u, expected)
          /\ log[u] # <<>> /\ expected # Len(log[u])
          /\ Answer(c, Stale(Len(log[u])))
          /\ UNCHANGED log
       \/ /\ ~Exhausts(u, expected)
          /\ log[u] # <<>> /\ expected = Len(log[u])
          /\ log' = [log EXCEPT ![u] = Append(@, request[c].input)]
          /\ Answer(c, Holding("applied", Profile(expected + 1, request[c].input)))

ReadHistory(c) ==
    LET u == request[c].user IN
    /\ Pending(c, "history")
    /\ Answer(c, History([i \in 1..Len(log[u]) |-> Profile(i, log[u][i])]))
    /\ UNCHANGED log

(* StoreError::Backend: the call failed, and nothing of it remains.        *)
Fail(c) ==
    /\ request[c] # None /\ reply[c] = None
    /\ Answer(c, Plain("backend"))
    /\ UNCHANGED log

End(c) ==
    /\ reply[c] # None
    /\ request' = [request EXCEPT ![c] = None]
    /\ reply' = [reply EXCEPT ![c] = None]
    /\ UNCHANGED log

(* The process stops: every open call is forgotten, no accepted write is.  *)
Crash ==
    /\ request' = [c \in Callers |-> None]
    /\ reply' = [c \in Callers |-> None]
    /\ UNCHANGED log

Next ==
    \/ Crash
    \/ \E c \in Callers :
          \/ Begin(c) \/ End(c) \/ Fail(c)
          \/ Create(c) \/ Get(c) \/ Update(c) \/ ReadHistory(c)

Spec == Init /\ [][Next]_vars
=============================================================================
