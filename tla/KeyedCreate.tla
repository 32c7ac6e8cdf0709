----------------------------- MODULE KeyedCreate -----------------------------
(***************************************************************************)
(* What a client of POST /profile may rely on (routes/profile.rs 40-83,    *)
(* idempotency.rs 1-20): a profile is made at one instant by one request,  *)
(* and a request is only told what is so; if the profile was made with its *)
(* own key, and nothing of that key has been forgotten, it is told that it *)
(* made it, or to wait, or that it reuses the key for something else.      *)
(* There are no entries, jobs or clocks here.                              *)
(***************************************************************************)
EXTENDS Naturals

CONSTANTS Users, Keys, Bodies, Valid, Handlers, None

Calls == [user: Users, key: Keys \cup {None}, body: Bodies]
Answers ==
    [kind: {"mismatch", "inflight", "invalid", "exists", "backend"}]
        \cup [kind: {"created"}, body: Bodies]

VARIABLES
    profile,    \* profile[u]: the request that made u's profile, or None
    request,    \* request[h]: what is being served in place h, or None
    told,       \* told[h]: what its client is told, or None before that
    lapsed      \* the keys of which something has been forgotten

vars == <<profile, request, told, lapsed>>

Init ==
    /\ profile = [u \in Users |-> None]
    /\ request = [h \in Handlers |-> None]
    /\ told = [h \in Handlers |-> None]
    /\ lapsed = {}

Pending(h) == request[h] # None /\ told[h] = None

(* The profile was made with c's key, and that is still known.             *)
Remembered(c) ==
    /\ c.key # None /\ profile[c.user] # None /\ profile[c.user].key = c.key
    /\ <<c.user, c.key>> \notin lapsed

Honest(h, reply) ==
    LET c == request[h] IN
    /\ reply.kind = "created" => profile[c.user] = c /\ reply.body = c.body
    /\ reply.kind = "exists" => profile[c.user] # None
    /\ reply.kind = "invalid" => c.body \notin Valid
    /\ reply.kind \in {"mismatch", "inflight"} => c.key # None
    /\ Remembered(c) =>
          IF profile[c.user] = c
          THEN reply.kind \in {"created", "inflight"}
          ELSE reply.kind = "mismatch"

Forget == lapsed \subseteq lapsed'

Ask(h) ==
    /\ request[h] = None
    /\ \E c \in Calls : request' = [request EXCEPT ![h] = c]
    /\ UNCHANGED <<profile, told, lapsed>>

(* Its client may have hung up before, and then nobody is told.            *)
Make(h) ==
    LET c == request[h] IN
    /\ Pending(h) /\ c.body \in Valid
    /\ profile[c.user] = None
    /\ profile' = [profile EXCEPT ![c.user] = c]
    /\ UNCHANGED request \/ request' = [request EXCEPT ![h] = None]
    /\ UNCHANGED <<told, lapsed>>

Tell(h) ==
    /\ Pending(h) /\ Forget
    /\ UNCHANGED <<profile, request>>
    /\ \E reply \in Answers :
          told' = [told EXCEPT ![h] = reply] /\ Honest(h, reply)'

Leave(h) ==
    /\ request[h] # None
    /\ request' = [request EXCEPT ![h] = None]
    /\ told' = [told EXCEPT ![h] = None]
    /\ UNCHANGED <<profile, lapsed>>

Next ==
    \/ \E h \in Handlers : Ask(h) \/ Make(h) \/ Tell(h) \/ Leave(h)
    \/ Forget /\ UNCHANGED <<profile, request, told>>

Spec == Init /\ [][Next]_vars
=============================================================================
