----------------------------- MODULE MemoryStore -----------------------------
(***************************************************************************)
(* InMemoryProfiles (store/memory.rs), at the grain at which its callers   *)
(* interleave.  What a thread does under one hold of a shard lock is one   *)
(* step; an update, which holds the mutex of a record while readers load   *)
(* the projection without any lock, takes a step per access to it.         *)
(***************************************************************************)
EXTENDS Repository

VARIABLES
    current,        \* current[u]: Record.current, None while u has no record
    revisions,      \* revisions[u]: Record.revisions
    holder,         \* holder[u]: who holds the mutex around revisions[u]
    draft,          \* draft[c]: the projection an update has built, or None
    pc,             \* pc[c]: the step c takes next
    request, reply  \* as in ProfileContract

store == <<current, revisions>>
calls == <<request, reply>>
vars == <<current, revisions, holder, draft, pc, request, reply>>

Steps == {"idle", "create", "slot", "load", "lock", "check", "push", "publish",
          "unlock", "return"}
Locked == {"check", "push", "publish", "unlock"}

Init ==
    /\ current = [u \in Users |-> None]
    /\ revisions = [u \in Users |-> <<>>]
    /\ holder = [u \in Users |-> None]
    /\ draft = [c \in Callers |-> None]
    /\ pc = [c \in Callers |-> "idle"]
    /\ request = [c \in Callers |-> None]
    /\ reply = [c \in Callers |-> None]

Go(c, step) == pc' = [pc EXCEPT ![c] = step]

Answer(c, answer) ==
    /\ reply' = [reply EXCEPT ![c] = answer]
    /\ UNCHANGED request

Invoke(c) ==
    /\ pc[c] = "idle"
    /\ \E r \in Requests :
          /\ request' = [request EXCEPT ![c] = r]
          /\ Go(c, IF r.op = "create" THEN "create" ELSE "slot")
    /\ UNCHANGED <<store, holder, draft, reply>>

CreateOverOccupied(c) ==   \* mutant: insert without looking at the entry
    LET first == Profile(1, request[c].input) IN
    /\ pc[c] = "create"
    /\ current' = [current EXCEPT ![request[c].user] = first]
    /\ revisions' = [revisions EXCEPT ![request[c].user] = <<first>>]
    /\ Answer(c, Holding("created", first))
    /\ Go(c, "return")
    /\ UNCHANGED <<holder, draft>>

(* The shard's write lock spans the whole of create.                       *)
Create(c) ==
    LET u == request[c].user
        first == Profile(1, request[c].input)
    IN
    /\ pc[c] = "create"
    /\ \/ /\ current[u] # None
          /\ Answer(c, Plain("exists"))
          /\ UNCHANGED store
       \/ /\ current[u] = None
          /\ current' = [current EXCEPT ![u] = first]
          /\ revisions' = [revisions EXCEPT ![u] = <<first>>]
          /\ Answer(c, Holding("created", first))
    /\ Go(c, "return")
    /\ UNCHANGED <<holder, draft>>

(* slot(): the shard is locked for the lookup and no longer.  No record    *)
(* is ever removed, so the one found stays the record of u.                *)
Slot(c) ==
    LET u == request[c].user IN
    /\ pc[c] = "slot"
    /\ \/ /\ current[u] = None
          /\ Answer(c, IF request[c].op = "history" THEN History(<<>>) ELSE Plain("missing"))
          /\ Go(c, "return")
       \/ /\ current[u] # None
          /\ Go(c, IF request[c].op = "get" THEN "load" ELSE "lock")
          /\ UNCHANGED calls
    /\ UNCHANGED <<store, holder, draft>>

LoadUnpublished(c) ==   \* mutant: read the newest revision, not the projection
    LET all == revisions[request[c].user] IN
    /\ pc[c] = "load"
    /\ Answer(c, Holding("found", all[Len(all)]))
    /\ Go(c, "return")
    /\ UNCHANGED <<store, holder, draft>>

Load(c) ==
    /\ pc[c] = "load"
    /\ Answer(c, Holding("found", current[request[c].user]))
    /\ Go(c, "return")
    /\ UNCHANGED <<store, holder, draft>>

LockNothing(c) ==   \* mutant: run the compare-and-swap without the mutex
    /\ pc[c] = "lock" /\ request[c].op = "update"
    /\ holder' = [holder EXCEPT ![request[c].user] = c]
    /\ Go(c, "check")
    /\ UNCHANGED <<store, draft, calls>>

Lock(c) ==
    LET u == request[c].user IN
    /\ pc[c] = "lock" /\ request[c].op = "update"
    /\ holder[u] = None
    /\ holder' = [holder EXCEPT ![u] = c]
    /\ Go(c, "check")
    /\ UNCHANGED <<store, draft, calls>>

(* history() clones the revisions under a hold that ends with the clone.   *)
Clone(c) ==
    LET u == request[c].user IN
    /\ pc[c] = "lock" /\ request[c].op = "history"
    /\ holder[u] = None
    /\ Answer(c, History(revisions[u]))
    /\ Go(c, "return")
    /\ UNCHANGED <<store, holder, draft>>

RefusesOlder(version, expected) == expected < version   \* mutant: a later one passes
Mismatch(version, expected) == version # expected

NeverExhausted(version) == FALSE   \* mutant: the counter runs past its width
Exhausted(version) == version = LastVersion

Check(c) ==
    LET version == current[request[c].user].version
        mismatch == Mismatch(version, request[c].expected)
    IN
    /\ pc[c] = "check"
    /\ \/ /\ mismatch
          /\ Answer(c, Stale(version))
          /\ Go(c, "unlock")
          /\ UNCHANGED draft
       \/ /\ ~mismatch /\ Exhausted(version)
          /\ Answer(c, Plain("exhausted"))
          /\ Go(c, "unlock")
          /\ UNCHANGED draft
       \/ /\ ~mismatch /\ ~Exhausted(version)
          /\ draft' = [draft EXCEPT ![c] = Profile(version + 1, request[c].input)]
          /\ Go(c, "push")
          /\ UNCHANGED calls
    /\ UNCHANGED <<store, holder>>

PushOverwrites(c) ==   \* mutant: keep the latest revision only
    /\ pc[c] = "push"
    /\ revisions' = [revisions EXCEPT ![request[c].user] = <<draft[c]>>]
    /\ Go(c, "publish")
    /\ UNCHANGED <<current, holder, draft, calls>>

PushForgotten(c) ==   \* mutant: publish a projection that no revision backs
    /\ pc[c] = "push"
    /\ Go(c, "publish")
    /\ UNCHANGED <<current, revisions, holder, draft, calls>>

Push(c) ==
    /\ pc[c] = "push"
    /\ revisions' = [revisions EXCEPT ![request[c].user] = Append(@, draft[c])]
    /\ Go(c, "publish")
    /\ UNCHANGED <<current, holder, draft, calls>>

Publish(c) ==
    /\ pc[c] = "publish"
    /\ current' = [current EXCEPT ![request[c].user] = draft[c]]
    /\ Answer(c, Holding("applied", draft[c]))
    /\ draft' = [draft EXCEPT ![c] = None]
    /\ Go(c, "unlock")
    /\ UNCHANGED <<revisions, holder>>

UnlockForgotten(c) ==   \* mutant: the guard outlives the call
    /\ pc[c] = "unlock"
    /\ Go(c, "return")
    /\ UNCHANGED <<store, holder, draft, calls>>

(* The guard is dropped as update returns.                                 *)
Unlock(c) ==
    /\ pc[c] = "unlock"
    /\ holder' = [holder EXCEPT ![request[c].user] = None]
    /\ Go(c, "return")
    /\ UNCHANGED <<store, draft, calls>>

Return(c) ==
    /\ pc[c] = "return"
    /\ request' = [request EXCEPT ![c] = None]
    /\ reply' = [reply EXCEPT ![c] = None]
    /\ Go(c, "idle")
    /\ UNCHANGED <<store, holder, draft>>

Step(c) ==
    \/ Create(c) \/ Slot(c) \/ Load(c) \/ Lock(c) \/ Clone(c) \/ Check(c)
    \/ Push(c) \/ Publish(c) \/ Unlock(c) \/ Return(c)

Next == \E c \in Callers : Invoke(c) \/ Step(c)

Spec == Init /\ [][Next]_vars

(* Threads keep running, and parking_lot hands a contended mutex to its    *)
(* longest waiter from time to time, so whoever keeps finding it free      *)
(* between holds gets it in the end.                                       *)
Fairness == \A c \in Callers : WF_vars(Step(c)) /\ SF_vars(Lock(c) \/ Clone(c))

FairSpec == Spec /\ Fairness
-----------------------------------------------------------------------------
Typing ==
    /\ current \in [Users -> Profiles \cup {None}]
    /\ revisions \in [Users -> Seq(Profiles)]
    /\ holder \in [Users -> Callers \cup {None}]
    /\ draft \in [Callers -> Profiles \cup {None}]
    /\ pc \in [Callers -> Steps]
    /\ request \in [Callers -> Requests \cup {None}]
    /\ reply \in [Callers -> Replies \cup {None}]

(* What the program counter of a call says of its other variables.         *)
CallShape ==
    \A c \in Callers :
        /\ (pc[c] = "idle") = (request[c] = None)
        /\ (pc[c] \in {"unlock", "return"}) = (reply[c] # None)
        /\ (pc[c] \in {"push", "publish"}) = (draft[c] # None)
        /\ pc[c] = "create" => request[c].op = "create"
        /\ pc[c] = "slot" => request[c].op # "create"
        /\ pc[c] = "load" => request[c].op = "get"
        /\ pc[c] = "lock" => request[c].op \in {"update", "history"}
        /\ pc[c] \in Locked => request[c].op = "update"

(* Every variable keeps to its type: no version outruns the u64, and no    *)
(* step of a call is taken with the locals of another.                     *)
TypeOK == Typing /\ CallShape

(* The mutex of a record belongs to exactly one caller, and that caller is *)
(* between its lock() and the drop of its guard.                           *)
MutexOwned ==
    \A u \in Users, c \in Callers :
        holder[u] = c <=> pc[c] \in Locked /\ request[c].user = u

Retained(u, profile) ==
    /\ profile.version <= Len(revisions[u])
    /\ revisions[u][profile.version] = profile

(* No reader sees an address, and no writer is told of its success, before *)
(* the audit history holds the revision that says so.                      *)
EvidenceBeforeVisibility ==
    /\ \A u \in Users : current[u] # None => Retained(u, current[u])
    /\ \A c \in Callers :
          reply[c] # None /\ reply[c].kind \in {"created", "found", "applied"}
              => Retained(request[c].user, reply[c].profile)

Publishing(u) == \E c \in Callers : pc[c] = "publish" /\ request[c].user = u

(* The history numbers its revisions 1, 2, 3, ... without a gap, and apart *)
(* from the instant between push and store, under the mutex, it ends with  *)
(* the projection that readers load.                                       *)
HistoryMatchesProjection ==
    \A u \in Users :
        /\ \A i \in 1..Len(revisions[u]) : revisions[u][i].version = i
        /\ Len(revisions[u]) = (IF current[u] = None THEN 0 ELSE current[u].version)
                                   + (IF Publishing(u) THEN 1 ELSE 0)

Passed(c, u, version) ==
    /\ request[c] # None /\ request[c].op = "update"
    /\ request[c].user = u /\ request[c].expected = version
    /\ \/ pc[c] \in {"push", "publish"}
       \/ reply[c] # None /\ reply[c].kind = "applied"

(* Of the open updates that name the same version, at most one has passed  *)
(* the version test: no two writers both believe they won.                 *)
OneWinner ==
    \A c, d \in Callers, u \in Users, version \in Versions :
        Passed(c, u, version) /\ Passed(d, u, version) => c = d

(* A projection is replaced only by an update that named exactly the       *)
(* version being replaced, at the moment it is replaced, and only by that  *)
(* update's own payload one version on: no accepted write is overwritten   *)
(* unseen, and no reader ever sees a version go back.                      *)
ReplacesWhatItNamed ==
    \A u \in Users :
        current[u] # None /\ current'[u] # current[u] =>
            \E c \in Callers :
                /\ pc[c] = "publish" /\ request[c].user = u
                /\ current[u].version = request[c].expected
                /\ current'[u] = Profile(request[c].expected + 1, request[c].input)
NoLostUpdate == [][ReplacesWhatItNamed]_vars

Extends(longer, shorter) ==
    /\ Len(shorter) <= Len(longer)
    /\ \A i \in 1..Len(shorter) : longer[i] = shorter[i]

(* A revision, once accepted, is never altered or dropped.                 *)
HistoryAppendOnly == [][\A u \in Users : Extends(revisions'[u], revisions[u])]_vars

(* Whatever is asked is answered: no call waits forever on a mutex.        *)
EveryCallReturns == \A c \in Callers : pc[c] # "idle" ~> pc[c] = "idle"

(* The log of the contract: the revisions up to the published projection.  *)
PublishedLog ==
    [u \in Users |->
        IF current[u] = None
        THEN <<>>
        ELSE [i \in 1..current[u].version |-> revisions[u][i].input]]

Contract ==
    INSTANCE ProfileContract
        WITH log <- PublishedLog, EagerExhaustion <- FALSE

(* The store implements ProfileContract: each call takes effect at one     *)
(* instant, the load of a read and the publish of a write included.        *)
ContractSpec == Contract!Spec
=============================================================================
