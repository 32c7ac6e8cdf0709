--------------------------- MODULE IdempotentCreate ---------------------------
(***************************************************************************)
(* POST /profile and the idempotency keys that make its retry safe         *)
(* (routes/profile.rs, idempotency.rs).  A handler reserves its key, waits *)
(* for the repository's create, and settles the key; its only await is     *)
(* that create, and there a client that hangs up cuts it off, while the    *)
(* create itself, on a blocking thread, runs on.                           *)
(*                                                                         *)
(* An Instant is modelled by its age, counted in ticks up to the longest   *)
(* window: the code only ever compares ages with its two windows.  Bodies  *)
(* stand for their fingerprints.                                           *)
(***************************************************************************)
EXTENDS Naturals, FiniteSets

CONSTANTS
    Users,              \* the callers the gateway vouches for
    Keys,               \* the idempotency keys clients choose
    Bodies, Valid,      \* the request bodies, and those that parse and validate
    Handlers,           \* the requests the service may have open at one time
    ReservationTimeout, \* how long an unfinished request holds its key
    Retention,          \* how long a completed outcome stays replayable
    None

ASSUME ValidAssumption == Valid \subseteq Bodies
ASSUME WindowsAssumption ==
    /\ ReservationTimeout \in Nat \ {0}
    /\ Retention \in Nat
    /\ ReservationTimeout < Retention

Slots == Users \X Keys
Calls == [user: Users, key: Keys \cup {None}, body: Bodies]
Entries == [kind: {"inflight", "complete"}, body: Bodies, age: 0..Retention]
Results == {"queued", "created", "exists", "backend"}
Answers ==
    [kind: {"mismatch", "inflight", "invalid", "exists", "backend"}]
        \cup [kind: {"created"}, body: Bodies]

ASSUME NoneAssumption ==
    None \notin Keys \cup Bodies \cup Users \cup Calls \cup Entries \cup Results \cup Answers

VARIABLES
    profile,    \* profile[u]: the call that created u's profile, or None
    entries,    \* entries[<<u, k>>]: what the store knows of a key, or None
    pc,         \* pc[h]: where handler h is
    call,       \* call[h]: the user, key and body of its request
    job,        \* job[h]: its create on the blocking pool
    answer,     \* answer[h]: what its client is told
    held,       \* held[h]: how long h has been at work (history)
    past        \* what has befallen a key: its "inflight" or its "complete"
                \* entry ran out, or its request was "cut" off (history)

idempotency == <<entries, past>>
handler == <<pc, call, answer>>
vars == <<profile, entries, pc, call, job, answer, held, past>>

Slot(h) == <<call[h].user, call[h].key>>

InFlight(body) == [kind |-> "inflight", body |-> body, age |-> 0]
Complete(body) == [kind |-> "complete", body |-> body, age |-> 0]

Told(kind) == [kind |-> kind]
Created(body) == [kind |-> "created", body |-> body]

Init ==
    /\ profile = [u \in Users |-> None]
    /\ entries = [s \in Slots |-> None]
    /\ pc = [h \in Handlers |-> "idle"]
    /\ call = [h \in Handlers |-> None]
    /\ job = [h \in Handlers |-> None]
    /\ answer = [h \in Handlers |-> None]
    /\ held = [h \in Handlers |-> 0]
    /\ past = {}

Older(age, longest) == IF age < longest THEN age + 1 ELSE age

Working == {"run", "await"}

Tick ==
    /\ entries' = [s \in Slots |->
                      IF entries[s] = None
                      THEN None
                      ELSE [entries[s] EXCEPT !.age = Older(@, Retention)]]
    /\ held' = [h \in Handlers |->
                   IF pc[h] \in Working THEN Older(held[h], ReservationTimeout) ELSE 0]
    /\ UNCHANGED <<profile, handler, job, past>>

Go(h, step) == pc' = [pc EXCEPT ![h] = step]

Answer(h, told) ==
    /\ answer' = [answer EXCEPT ![h] = told]
    /\ held' = [held EXCEPT ![h] = 0]
    /\ Go(h, "answer")
    /\ UNCHANGED call

Arrive(h) ==
    /\ pc[h] = "idle"
    /\ \E c \in Calls :
          /\ call' = [call EXCEPT ![h] = c]
          /\ Go(h, IF c.key = None THEN "run" ELSE "begin")
    /\ UNCHANGED <<profile, idempotency, job, answer, held>>

RunOut(entry) ==
    entry.age >= (IF entry.kind = "inflight" THEN ReservationTimeout ELSE Retention)

(* expire(), on every entry of the map.                                    *)
Gone == {s \in Slots : entries[s] # None /\ RunOut(entries[s])}
Kept == [s \in Slots |-> IF s \in Gone THEN None ELSE entries[s]]

ReserveNothing(s, body) == Kept   \* mutant: the key is looked up but not taken
Reserve(s, body) == [Kept EXCEPT ![s] = InFlight(body)]

NeverMismatched(entry, body) == FALSE   \* mutant: a reused key replays the first body
Mismatched(entry, body) == entry.body # body

(* begin(), under one hold of the entries mutex.                           *)
Begin(h) ==
    LET s == Slot(h)
        known == Kept[s]
        body == call[h].body
    IN
    /\ pc[h] = "begin"
    /\ \/ /\ known = None
          /\ entries' = Reserve(s, body)
          /\ Go(h, "run")
          /\ UNCHANGED <<call, answer, held>>
       \/ /\ known # None
          /\ Answer(h, IF Mismatched(known, body) THEN Told("mismatch")
                       ELSE IF known.kind = "inflight" THEN Told("inflight")
                       ELSE Created(known.body))
          /\ entries' = Kept
    /\ past' = past \cup {<<gone, entries[gone].kind>> : gone \in Gone}
    /\ UNCHANGED <<profile, job>>

(* create_once() up to its await: the create goes to the blocking pool.    *)
Submit(h) ==
    /\ pc[h] = "run"
    /\ call[h].body \in Valid
    /\ job' = [job EXCEPT ![h] = "queued"]
    /\ Go(h, "await")
    /\ UNCHANGED <<profile, idempotency, call, answer, held>>

DeliverAlways(h, result) ==   \* mutant: a cut handler is handed its result
    /\ job' = [job EXCEPT ![h] = result]
    /\ UNCHANGED <<call, pc>>

(* The repository's create, one indivisible step (ProfileContract), whose  *)
(* result has nobody to go to when the handler has been cut off.           *)
Deliver(h, result) ==
    IF pc[h] = "cut"
    THEN /\ job' = [job EXCEPT ![h] = None]
         /\ call' = [call EXCEPT ![h] = None]
         /\ Go(h, "idle")
    ELSE /\ job' = [job EXCEPT ![h] = result]
         /\ UNCHANGED <<call, pc>>

Create(h) ==
    LET u == call[h].user IN
    /\ job[h] = "queued"
    /\ \/ /\ profile[u] = None
          /\ profile' = [profile EXCEPT ![u] = call[h]]
          /\ Deliver(h, "created")
       \/ /\ profile[u] # None
          /\ Deliver(h, "exists")
          /\ UNCHANGED profile
       \/ /\ Deliver(h, "backend")
          /\ UNCHANGED profile
    /\ UNCHANGED <<idempotency, answer, held>>

(* finish(), whatever the key holds by now.                                *)
Finish(h) ==
    /\ pc[h] = "await" /\ job[h] = "created"
    /\ entries' = IF call[h].key = None
                  THEN entries
                  ELSE [entries EXCEPT ![Slot(h)] = Complete(call[h].body)]
    /\ Answer(h, Created(call[h].body))
    /\ job' = [job EXCEPT ![h] = None]
    /\ UNCHANGED <<profile, past>>

Failure(h) ==
    CASE pc[h] = "run" /\ call[h].body \notin Valid -> "invalid"
      [] pc[h] = "await" /\ job[h] \in {"exists", "backend"} -> job[h]
      [] OTHER -> "none"

ReleasesNone(entry) == FALSE   \* mutant: a failed request keeps its key
ReleasesAny(entry) == entry # None   \* mutant: a recorded outcome is released too
Releases(entry) == entry # None /\ entry.kind = "inflight"

(* abandon(), whoever made the reservation it finds.                       *)
Abandon(h) ==
    /\ Failure(h) # "none"
    /\ entries' = IF call[h].key # None /\ Releases(entries[Slot(h)])
                  THEN [entries EXCEPT ![Slot(h)] = None]
                  ELSE entries
    /\ Answer(h, Told(Failure(h)))
    /\ job' = [job EXCEPT ![h] = None]
    /\ UNCHANGED <<profile, past>>

HangUpReleasing(h) ==   \* mutant: a handler that is dropped releases its key
    /\ pc[h] = "await"
    /\ \/ job[h] = "queued" /\ Go(h, "cut") /\ UNCHANGED <<call, job>>
       \/ /\ job[h] # "queued" /\ Go(h, "idle")
          /\ call' = [call EXCEPT ![h] = None] /\ job' = [job EXCEPT ![h] = None]
    /\ entries' = IF call[h].key = None THEN entries ELSE [entries EXCEPT ![Slot(h)] = None]
    /\ held' = [held EXCEPT ![h] = 0]
    /\ UNCHANGED <<profile, answer, past>>

(* The client, or the gateway on its behalf, gives up: the handler's       *)
(* future is dropped where it waits, and neither settles its key.          *)
HangUp(h) ==
    /\ pc[h] = "await"
    /\ \/ /\ job[h] = "queued"
          /\ Go(h, "cut")
          /\ UNCHANGED <<call, job>>
       \/ /\ job[h] # "queued"
          /\ Go(h, "idle")
          /\ call' = [call EXCEPT ![h] = None]
          /\ job' = [job EXCEPT ![h] = None]
    /\ held' = [held EXCEPT ![h] = 0]
    /\ past' = IF call[h].key = None THEN past ELSE past \cup {<<Slot(h), "cut">>}
    /\ UNCHANGED <<profile, entries, answer>>

Return(h) ==
    /\ pc[h] = "answer"
    /\ call' = [call EXCEPT ![h] = None]
    /\ answer' = [answer EXCEPT ![h] = None]
    /\ Go(h, "idle")
    /\ UNCHANGED <<profile, idempotency, job, held>>

Work(h) == Begin(h) \/ Submit(h) \/ Create(h) \/ Finish(h) \/ Abandon(h) \/ Return(h)

Next == Tick \/ \E h \in Handlers : Arrive(h) \/ HangUp(h) \/ Work(h)

Spec == Init /\ [][Next]_vars
-----------------------------------------------------------------------------
(* Every variable keeps to its type, and a handler has a request, a job    *)
(* and an answer exactly when its program counter says so.                 *)
TypeOK ==
    /\ profile \in [Users -> Calls \cup {None}]
    /\ entries \in [Slots -> Entries \cup {None}]
    /\ held \in [Handlers -> 0..ReservationTimeout]
    /\ past \subseteq Slots \X {"inflight", "complete", "cut"}
    /\ \A h \in Handlers :
          /\ call[h] \in (IF pc[h] = "idle" THEN {None} ELSE Calls)
          /\ job[h] \in CASE pc[h] = "await" -> {"queued", "created", "exists", "backend"}
                          [] pc[h] = "cut" -> {"queued"}
                          [] OTHER -> {None}
          /\ (answer[h] # None) = (pc[h] = "answer")

(* h is doing the work of its key, or left it half done.                   *)
Runs(h) == pc[h] \in {"run", "await", "cut"} /\ call[h].key # None

SameKey(g, h) == g # h /\ Runs(g) /\ Runs(h) /\ Slot(g) = Slot(h)

(* Two requests with the same key do the work at once only if a            *)
(* reservation of that key has run out.                                    *)
OneRunUntilLapse ==
    \A g, h \in Handlers : SameKey(g, h) => <<Slot(h), "inflight">> \in past

(* A request that has failed leaves no reservation behind: a key is in     *)
(* flight only while some request is at work on it, or if one was cut off. *)
ReservationHasOwner ==
    \A s \in Slots :
        entries[s] # None /\ entries[s].kind = "inflight" =>
            \/ \E h \in Handlers : Runs(h) /\ Slot(h) = s
            \/ <<s, "cut">> \in past

(* A recorded outcome stays until its retention is over: no late finish,   *)
(* no late abandon and no other body takes it away.                        *)
CompleteIsKept ==
    [][\A s \in Slots :
          entries[s] # None /\ entries[s].kind = "complete" /\ entries[s].age < Retention =>
              /\ entries'[s] # None
              /\ entries'[s].kind = "complete" /\ entries'[s].body = entries[s].body]_vars

(* Whoever is told 201, at once or by a replay, sent the very request that *)
(* created the profile, or a retry of it.                                  *)
CreatedIsMine ==
    \A h \in Handlers :
        answer[h] # None /\ answer[h].kind = "created" =>
            profile[call[h].user] = call[h] /\ answer[h].body = call[h].body

(* h's own key and body created the profile, and h is told that somebody   *)
(* else's did.                                                             *)
Confused(h) ==
    /\ answer[h] = Told("exists") /\ call[h].key # None
    /\ profile[call[h].user] = call[h]

(* A retry of the request that created the profile is not told 409         *)
(* profile exists, unless an entry of its key has run out.                 *)
OutcomeIsReplayed ==
    \A h \in Handlers :
        Confused(h) => \E kind \in {"inflight", "complete"} : <<Slot(h), kind>> \in past

(* With all its entries, windows and handlers that are cut off, POST       *)
(* /profile is what KeyedCreate promises: a profile is made once, and a    *)
(* retry under a key of which nothing has run out is told that it made it, *)
(* to wait, or that it reuses the key, and never anything else.            *)
Lapsed(s) == <<s, "inflight">> \in past \/ <<s, "complete">> \in past

Keyed == INSTANCE KeyedCreate
            WITH request <- call, told <- answer, lapsed <- {s \in Slots : Lapsed(s)}

KeyedSpec == Keyed!Spec

(* What idempotency.rs 9-11 says: within the retention, the retry receives *)
(* the original 201, not a confusing 409.                                  *)
RetryGetsOriginal ==
    \A h \in Handlers : Confused(h) => <<Slot(h), "complete">> \in past

(* What routes/profile.rs 57 says: two concurrent retries cannot both run, *)
(* here while neither has held its key beyond the reservation timeout.     *)
RetriesNeverBothRun ==
    \A g, h \in Handlers :
        SameKey(g, h) /\ {pc[g], pc[h]} \subseteq Working =>
            held[g] >= ReservationTimeout \/ held[h] >= ReservationTimeout
=============================================================================
