------------------------------- MODULE Gateway -------------------------------
(***************************************************************************)
(* The way of a profile request from a client through the gateway          *)
(* (routes/gateway.rs) to the handlers of the profile service              *)
(* (routes/profile.rs) and back, for the clients of one account.  The      *)
(* gateway gives up after its timeout and answers 502; what it has sent    *)
(* may be served all the same, then or later.                              *)
(*                                                                         *)
(* Each client has one edit to make, and is known by it.  The store is the *)
(* log of ProfileContract.  Tokens are TokenService's affair.              *)
(***************************************************************************)
EXTENDS Naturals, Sequences, FiniteSets, Functions

CONSTANTS
    Clients,
    MaxFaults,  \* how many timeouts, failures and mistakes a run may have
    Wildcard,   \* the If-Match *, or any other that is not a version
    None

ASSUME FaultsAssumption == MaxFaults \in Nat

Slots == 1..(MaxFaults + 1)
Tasks == {"read", "write", "audit", "settled"}
Answers ==
    [status: {"ok", "missing", "exists", "stale", "rejected", "fault"},
     etag: Nat \cup {None}, body: Clients \cup Seq(Clients) \cup {None}]
Calls ==
    [client: Clients, slot: Slots, op: {"get", "post", "put", "history"}, valid: BOOLEAN,
     ifMatch: Nat \cup {None, Wildcard}, answer: Answers \cup {None}]

ASSUME NoneAssumption ==
    /\ None # Wildcard /\ {None, Wildcard} \cap (Clients \cup Nat) = {}
    /\ None \notin Answers

VARIABLES
    log,        \* the edits accepted, oldest first
    calls,      \* the requests the gateway has sent on
    awaiting,   \* awaiting[c]: the slot of c's open request, or 0
    task,       \* what c is about to do
    base, basis,    \* the version c means to replace, and what c read of it
    doubt,      \* whether a write on that version had no definite answer
    faults

client == <<task, base, basis, doubt>>
vars == <<log, calls, awaiting, task, base, basis, doubt, faults>>

Init ==
    /\ log = <<>> /\ calls = {} /\ faults = 0
    /\ awaiting = [c \in Clients |-> 0]
    /\ task = [c \in Clients |-> "read"]
    /\ base = [c \in Clients |-> 0]
    /\ basis = [c \in Clients |-> None]
    /\ doubt = [c \in Clients |-> FALSE]

Version == Len(log)

Fault == faults < MaxFaults /\ faults' = faults + 1
-----------------------------------------------------------------------------
(* auth-service: proxy()                                                   *)

ForwardsNoPrecondition == {"content-type", "idempotency-key"}   \* mutant
ForwardedToUpstream == {"content-type", "if-match", "idempotency-key"}
ForwardedToClient == {"content-type", "etag"}

Copied(header, allowed, value) == IF header \in allowed THEN value ELSE None

Op(c) ==
    CASE task[c] = "read" -> "get"
      [] task[c] = "audit" -> "history"
      [] task[c] = "write" /\ base[c] = 0 -> "post"
      [] OTHER -> "put"

Forward(c, ifMatch, valid) ==
    /\ awaiting[c] = 0
    /\ \E slot \in Slots :
          /\ \A call \in calls : call.client = c => call.slot # slot
          /\ calls' = calls \cup
                {[client |-> c, slot |-> slot, op |-> Op(c), valid |-> valid, answer |-> None,
                  ifMatch |-> Copied("if-match", ForwardedToUpstream, ifMatch)]}
          /\ awaiting' = [awaiting EXCEPT ![c] = slot]
    /\ UNCHANGED <<log, client>>

Send(c) ==
    /\ task[c] # "settled"
    /\ Forward(c, IF Op(c) = "put" THEN base[c] ELSE None, TRUE)
    /\ UNCHANGED faults

(* A write with a body that does not validate, or a PUT without a version. *)
Mistake(c) ==
    /\ task[c] = "write"
    /\ \/ Forward(c, base[c], FALSE)
       \/ /\ Op(c) = "put"
          /\ \E ifMatch \in {None, Wildcard} : Forward(c, ifMatch, TRUE)
    /\ Fault

Open(call) == awaiting[call.client] = call.slot

(* No connection, no answer in time, or no client any more: 502 or silence.*)
(* A request that was sent may yet be served.                              *)
GiveUp(c) ==
    \E call \in calls :
        /\ call.client = c /\ Open(call)
        /\ \/ calls' = calls \ {call}
           \/ call.answer = None /\ UNCHANGED calls
        /\ awaiting' = [awaiting EXCEPT ![c] = 0]
        /\ doubt' = [doubt EXCEPT ![c] = @ \/ task[c] = "write"]
        /\ Fault
        /\ UNCHANGED <<log, task, base, basis>>

-----------------------------------------------------------------------------
(* profile-service: the handlers, each one call on the store               *)

Status(status) == [status |-> status, etag |-> None, body |-> None]
Tagged(status, body) == [status |-> status, etag |-> Len(log'), body |-> body]

AnswerKept(call, answer) ==   \* mutant: an answer waits for nobody
    calls' = (calls \ {call}) \cup {[call EXCEPT !.answer = answer]}

(* The answer to a request that was given up goes nowhere.                 *)
Answer(call, answer) ==
    calls' = (calls \ {call}) \cup
                (IF Open(call) THEN {[call EXCEPT !.answer = answer]} ELSE {})

Read(call) ==
    /\ call.op = "get"
    /\ UNCHANGED log
    /\ Answer(call, IF log = <<>> THEN Status("missing") ELSE Tagged("ok", log[Version]))

History(call) ==
    /\ call.op = "history"
    /\ UNCHANGED log
    /\ Answer(call, IF log = <<>> THEN Status("missing") ELSE [Status("ok") EXCEPT !.body = log])

CreateReplacing(call) ==   \* mutant: a POST replaces what is there
    /\ call.op = "post"
    /\ log' = <<call.client>>
    /\ Answer(call, Tagged("ok", call.client))

Create(call) ==
    /\ call.op = "post"
    /\ \/ /\ ~call.valid
          /\ UNCHANGED log
          /\ Answer(call, Status("rejected"))
       \/ /\ call.valid /\ log # <<>>
          /\ UNCHANGED log
          /\ Answer(call, Status("exists"))
       \/ /\ call.valid /\ log = <<>>
          /\ log' = <<call.client>>
          /\ Answer(call, Tagged("ok", call.client))

VerdictLenient(ifMatch) ==   \* mutant: the wildcard means any version
    IF ifMatch = None THEN "rejected"
    ELSE IF log = <<>> THEN "missing"
    ELSE IF ifMatch = Version \/ ifMatch = Wildcard THEN "ok" ELSE "stale"

VerdictOlder(ifMatch) ==   \* mutant: only a version from the future is refused
    IF ifMatch \in {None, Wildcard} THEN "rejected"
    ELSE IF log = <<>> THEN "missing"
    ELSE IF ifMatch <= Version THEN "ok" ELSE "stale"

(* parse_if_match(), then the store's compare-and-swap.                    *)
Verdict(ifMatch) ==
    IF ifMatch \in {None, Wildcard} THEN "rejected"
    ELSE IF log = <<>> THEN "missing"
    ELSE IF ifMatch = Version THEN "ok" ELSE "stale"

Update(call) ==
    LET verdict == IF call.valid THEN Verdict(call.ifMatch) ELSE "rejected" IN
    /\ call.op = "put"
    /\ log' = IF verdict = "ok" THEN Append(log, call.client) ELSE log
    /\ Answer(call, IF verdict = "ok" THEN Tagged("ok", call.client)
                    ELSE IF verdict = "stale" THEN Tagged("stale", None)
                    ELSE Status(verdict))

Sent(c, slot) == {call \in calls : call.client = c /\ call.slot = slot /\ call.answer = None}

Serve(c, slot) ==
    /\ \E call \in Sent(c, slot) : Read(call) \/ History(call) \/ Create(call) \/ Update(call)
    /\ UNCHANGED <<awaiting, client, faults>>

FailAsStale(c, slot) ==   \* mutant: an error of the store is mapped to 412
    /\ UNCHANGED <<log, awaiting, client>>
    /\ \E call \in Sent(c, slot) : Answer(call, Tagged("stale", None))
    /\ Fault

(* The store fails, and the answer is a 500.                               *)
Fail(c, slot) ==
    /\ \E call \in Sent(c, slot) : Answer(call, Status("fault"))
    /\ Fault
    /\ UNCHANGED <<log, awaiting, client>>

(* A request that was given up is never served, for its connection is gone *)
(* or the service has stopped.                                             *)
Vanish(c, slot) ==
    /\ awaiting[c] # slot /\ Sent(c, slot) # {}
    /\ calls' = calls \ Sent(c, slot)
    /\ UNCHANGED <<log, awaiting, client, faults>>

-----------------------------------------------------------------------------
(* The client: it re-reads or retries on the ETag when it is told that it  *)
(* lost, repeats the same request when it is told nothing definite, and    *)
(* consults the history when it has lost after such a repetition.          *)

Do(c, next) == task' = [task EXCEPT ![c] = next]

Rebase(c, version, seen) ==
    /\ Do(c, "write")
    /\ base' = [base EXCEPT ![c] = version]
    /\ basis' = [basis EXCEPT ![c] = seen]
    /\ doubt' = [doubt EXCEPT ![c] = FALSE]

HasRead(c, answer, etag) ==
    \/ answer.status = "ok" /\ Rebase(c, etag, answer.body)
    \/ answer.status = "missing" /\ Rebase(c, 0, None)

HasWritten(c, answer, etag) ==
    \/ /\ answer.status = "ok"
       /\ Do(c, "settled")
       /\ UNCHANGED <<base, basis, doubt>>
    \/ /\ answer.status \in {"stale", "exists"} /\ doubt[c]
       /\ Do(c, "audit")
       /\ UNCHANGED <<base, basis, doubt>>
    \/ /\ answer.status \in {"stale", "exists"} /\ ~doubt[c]
       /\ Do(c, "read")
       /\ UNCHANGED <<base, basis, doubt>>
    \/ answer.status = "stale" /\ ~doubt[c] /\ Rebase(c, etag, None)

RecordedLast(c, history) == history[Len(history)] = c   \* mutant: only the latest is looked at
Recorded(c, history) == Len(history) > base[c] /\ history[base[c] + 1] = c

HasAudited(c, answer) ==
    /\ answer.status = "ok"
    /\ Do(c, IF Recorded(c, answer.body) THEN "settled" ELSE "read")
    /\ UNCHANGED <<base, basis, doubt>>

(* Nothing is learned from a 500, and what was rejected is sent anew.      *)
HasFailed(c, answer) ==
    /\ answer.status \in {"fault", "rejected"}
    /\ doubt' = [doubt EXCEPT ![c] = @ \/ (task[c] = "write" /\ answer.status = "fault")]
    /\ UNCHANGED <<task, base, basis>>

Deliver(c) ==
    \E call \in calls :
        LET answer == call.answer
            etag == Copied("etag", ForwardedToClient, answer.etag)
        IN  /\ call.client = c /\ Open(call) /\ call.answer # None
            /\ \/ task[c] = "read" /\ HasRead(c, answer, etag)
               \/ task[c] = "write" /\ HasWritten(c, answer, etag)
               \/ task[c] = "audit" /\ HasAudited(c, answer)
               \/ HasFailed(c, answer)
            /\ calls' = calls \ {call}
            /\ awaiting' = [awaiting EXCEPT ![c] = 0]
            /\ UNCHANGED <<log, faults>>

Next ==
    \E c \in Clients :
        \/ Send(c) \/ Mistake(c) \/ GiveUp(c) \/ Deliver(c)
        \/ \E slot \in Slots : Serve(c, slot) \/ Fail(c, slot) \/ Vanish(c, slot)

Spec == Init /\ [][Next]_vars

(* Clients persist, and an open request is served unless it is given up.   *)
Fairness ==
    \A c \in Clients :
        /\ WF_vars(Send(c)) /\ WF_vars(Deliver(c))
        /\ \A slot \in Slots : WF_vars(awaiting[c] = slot /\ Serve(c, slot))

FairSpec == Spec /\ Fairness
-----------------------------------------------------------------------------
(* Every variable keeps to its type, a client's open request is among those*)
(* sent on, and an answer is kept only for a client that waits for it.     *)
TypeOK ==
    /\ log \in Seq(Clients)
    /\ faults \in 0..MaxFaults
    /\ awaiting \in [Clients -> Slots \cup {0}]
    /\ task \in [Clients -> Tasks]
    /\ base \in [Clients -> Nat]
    /\ basis \in [Clients -> Clients \cup {None}]
    /\ doubt \in [Clients -> BOOLEAN]
    /\ calls \subseteq Calls
    /\ \A call \in calls : call.answer # None => Open(call)
    /\ \A c \in Clients :
          Cardinality({call \in calls : call.client = c /\ Open(call)})
              = (IF awaiting[c] = 0 THEN 0 ELSE 1)

(* An edit follows exactly the version its client named, and if the client *)
(* has read that version, it is what it read: nobody's edit is overwritten *)
(* without having been seen or at least been counted.  So no edit is in    *)
(* the log twice, however often it is sent and however late it is served.  *)
EditStandsWhereItClaims ==
    \A i \in 1..Len(log) :
        /\ base[log[i]] = i - 1
        /\ basis[log[i]] # None => basis[log[i]] = log[i - 1]

(* What a client is told is so, and what it is told after a failure it     *)
(* could not interpret as well: an edit it holds for made is in the        *)
(* history, and one it holds for refused is not.                           *)
FateIsKnown ==
    \A c \in Clients :
        /\ task[c] = "settled" => c \in Range(log)
        /\ task[c] = "read" => c \notin Range(log)

(* A refusal is final: once a client has been told, of any of its requests,*)
(* that it lost, none of the earlier ones that are still on their way is   *)
(* accepted.                                                               *)
RefusalIsFinal ==
    [][\A c \in Clients :
          c \in Range(log') \ Range(log) => task[c] = "write" /\ base[c] = Len(log)]_vars

(* Seen from outside, with all that is sent twice, late, in vain or never  *)
(* answered, the clients' edits are atomic.                                *)
Edits == INSTANCE AtomicEdits WITH made <- {c \in Clients : task[c] = "settled"}

EditsSpec == Edits!Spec

(* Clients that repeat what failed are told in the end, and their edits    *)
(* are made, though each may lose to all the others before.                *)
EveryEditSettles == \A c \in Clients : <>(task[c] = "settled")
=============================================================================
