-------------------------------- MODULE Login --------------------------------
(***************************************************************************)
(* POST /login (auth-service, routes/login.rs), the throttle it consults   *)
(* before a slow verification and updates after it (throttle.rs), and the  *)
(* permits that bound how many verifications run at once.  The handler     *)
(* waits for the verification at its only await; a client that hangs up    *)
(* cuts it off there, while the verification, which has taken the permit   *)
(* along to the blocking pool, runs on.                                    *)
(*                                                                         *)
(* An Instant is modelled by its age, counted up to the window.  A count   *)
(* is kept up to its limit: the code only asks whether it has reached it.  *)
(***************************************************************************)
EXTENDS Naturals, FiniteSets

CONSTANTS
    Accounts,       \* the usernames that exist
    Names,          \* the usernames that are tried
    Addresses,      \* the addresses requests come from
    Handlers,       \* the requests the service may have open at one time
    Permits,        \* how many verifications may run at once
    AccountLimit,   \* failures of one account before it is throttled
    AddressLimit,   \* failures from one address before it is throttled
    Window,         \* how long failures are remembered, in ticks
    None            \* no counter, no attempt, no address

ASSUME AccountsAssumption == Accounts \subseteq Names
ASSUME LimitsAssumption ==
    /\ Permits \in Nat \ {0} /\ Window \in Nat \ {0}
    /\ AccountLimit \in Nat \ {0} /\ AddressLimit \in Nat \ {0}
ASSUME HandlersAssumption == IsFiniteSet(Handlers)

Attempts == [name: Names, right: BOOLEAN, address: Addresses \cup {None}]
Entries == [count: Nat, age: Nat]

ASSUME NoneAssumption == None \notin Names \cup Addresses \cup Attempts \cup Entries

VARIABLES
    byAccount,  \* byAccount[n]: the failures counted against n, or None
    byAddress,  \* byAddress[a]: the failures counted from a, or None
    available,  \* the permits of the semaphore
    pc, attempt,    \* where a handler is, and its request
    verdict,    \* what the throttle said of it
    job,        \* its verification on the blocking pool
    reply,      \* what its client is told
    decoy,      \* "cold", or "warm": the hash unknown names are verified against
    passes,     \* the runs of Argon2 a request has cost (history)
    guesses     \* guesses[n]: wrong passwords of n that were admitted,
                \* verified and counted in its present window (history)

throttle == <<byAccount, byAddress>>
vars == <<byAccount, byAddress, available, pc, attempt, verdict, job, reply,
          decoy, passes, guesses>>

Steps == {"idle", "address", "account", "submit", "await", "cut",
          "countAccount", "countAddress", "clear", "issue", "answer"}

SeededCold == "cold"   \* mutant: the seeding leaves the decoy for later

(* with_seed_user() computes the decoy before there is a directory.        *)
SeededDecoy == "warm"

Init ==
    /\ byAccount = [n \in Names |-> None]
    /\ byAddress = [a \in Addresses |-> None]
    /\ available = Permits
    /\ pc = [h \in Handlers |-> "idle"]
    /\ attempt = [h \in Handlers |-> None]
    /\ verdict = [h \in Handlers |-> "none"]
    /\ job = [h \in Handlers |-> "none"]
    /\ reply = [h \in Handlers |-> "none"]
    /\ decoy = SeededDecoy
    /\ passes = [h \in Handlers |-> 0]
    /\ guesses = [n \in Names |-> 0]

Go(h, step) == pc' = [pc EXCEPT ![h] = step]

Answer(h, told) ==
    /\ reply' = [reply EXCEPT ![h] = told]
    /\ Go(h, "answer")

-----------------------------------------------------------------------------
(* throttle.rs: counters that lapse                                        *)

Lapsed(entry) == entry # None /\ entry.age >= Window

Over(entry, limit) == entry # None /\ ~Lapsed(entry) /\ entry.count >= limit

(* What over() leaves of the entry it has looked at.                       *)
Swept(entry) == IF Lapsed(entry) THEN None ELSE entry

Capped(count, limit) == IF count < limit THEN count ELSE limit

Bump(entry, limit) ==
    IF entry = None \/ Lapsed(entry)
    THEN [count |-> 1, age |-> 0]
    ELSE [entry EXCEPT !.count = Capped(@ + 1, limit)]

Aged(entry) ==
    IF entry = None \/ entry.age >= Window THEN entry ELSE [entry EXCEPT !.age = @ + 1]

Tick ==
    /\ byAccount' = [n \in Names |-> Aged(byAccount[n])]
    /\ byAddress' = [a \in Addresses |-> Aged(byAddress[a])]
    /\ UNCHANGED <<available, pc, attempt, verdict, job, reply, decoy, passes, guesses>>

-----------------------------------------------------------------------------
AcquireAlways(h) ==   \* mutant: a missing permit is not noticed
    /\ pc[h] = "idle"
    /\ \E a \in Attempts :
          /\ a.right => a.name \in Accounts
          /\ attempt' = [attempt EXCEPT ![h] = a]
    /\ available' = IF available = 0 THEN 0 ELSE available - 1
    /\ Go(h, "address")
    /\ UNCHANGED <<throttle, verdict, job, reply, decoy, passes, guesses>>

(* A request arrives and tries for a permit: shed rather than queue.       *)
Acquire(h) ==
    /\ pc[h] = "idle"
    /\ \E a \in Attempts :
          /\ a.right => a.name \in Accounts
          /\ attempt' = [attempt EXCEPT ![h] = a]
    /\ \/ /\ available = 0
          /\ Answer(h, "overloaded")
          /\ UNCHANGED available
       \/ /\ available > 0
          /\ available' = available - 1
          /\ Go(h, "address")
          /\ UNCHANGED reply
    /\ UNCHANGED <<throttle, verdict, job, decoy, passes, guesses>>

(* check(), the half under the mutex of the addresses.  A refusal returns, *)
(* and drops the permit.                                                   *)
CheckAddress(h) ==
    LET a == attempt[h].address IN
    /\ pc[h] = "address"
    /\ \/ /\ a = None
          /\ Go(h, "account")
          /\ UNCHANGED <<byAddress, available, reply>>
       \/ /\ a # None /\ ~Over(byAddress[a], AddressLimit)
          /\ byAddress' = [byAddress EXCEPT ![a] = Swept(@)]
          /\ Go(h, "account")
          /\ UNCHANGED <<available, reply>>
       \/ /\ a # None /\ Over(byAddress[a], AddressLimit)
          /\ available' = available + 1
          /\ Answer(h, "throttled")
          /\ UNCHANGED byAddress
    /\ UNCHANGED <<byAccount, attempt, verdict, job, decoy, passes, guesses>>

(* check(), the half under the mutex of the accounts.                      *)
CheckAccount(h) ==
    LET n == attempt[h].name IN
    /\ pc[h] = "account"
    /\ verdict' = [verdict EXCEPT ![h] =
                      IF Over(byAccount[n], AccountLimit) THEN "throttled" ELSE "allowed"]
    /\ byAccount' = [byAccount EXCEPT ![n] = Swept(@)]
    /\ guesses' = [guesses EXCEPT ![n] = IF Lapsed(byAccount[n]) THEN 0 ELSE @]
    /\ Go(h, "submit")
    /\ UNCHANGED <<byAddress, available, attempt, job, reply, decoy, passes>>

(* spawn_blocking: the closure takes the permit along.                     *)
Submit(h) ==
    /\ pc[h] = "submit"
    /\ job' = [job EXCEPT ![h] = "running"]
    /\ Go(h, "await")
    /\ UNCHANGED <<throttle, available, attempt, verdict, reply, decoy, passes, guesses>>

(* What authenticate() hashes: the password offered, after the decoy if the *)
(* name has no account and nobody has needed the decoy before.             *)
Hash(h) ==
    IF attempt[h].name \in Accounts
    THEN /\ passes' = [passes EXCEPT ![h] = @ + 1]
         /\ UNCHANGED decoy
    ELSE /\ passes' = [passes EXCEPT ![h] = @ + (IF decoy = "cold" THEN 2 ELSE 1)]
         /\ decoy' = "warm"

(* The password of a throttled account is replaced by an unmatchable one.  *)
Matches(h) == attempt[h].right /\ verdict[h] = "allowed"

Forget(h) ==
    /\ attempt' = [attempt EXCEPT ![h] = None]
    /\ verdict' = [verdict EXCEPT ![h] = "none"]
    /\ passes' = [passes EXCEPT ![h] = 0]

VerifyKeepsPermit(h) ==   \* mutant: the permit is not dropped with the closure
    /\ job[h] = "running" /\ pc[h] = "await"
    /\ job' = [job EXCEPT ![h] = IF Matches(h) THEN "authenticated" ELSE "rejected"]
    /\ Hash(h)
    /\ UNCHANGED <<throttle, available, pc, attempt, verdict, reply, guesses>>

(* authenticate(), for a known account or an unknown one; or it panics,    *)
(* and the permit is dropped as the stack unwinds.  The result of a        *)
(* handler that was cut off goes nowhere.                                  *)
Verify(h) ==
    /\ job[h] = "running"
    /\ available' = available + 1
    /\ \/ /\ pc[h] = "await"
          /\ \/ job' = [job EXCEPT ![h] = IF Matches(h) THEN "authenticated" ELSE "rejected"]
             \/ job' = [job EXCEPT ![h] = "panicked"]
          /\ Hash(h)
          /\ UNCHANGED <<pc, attempt, verdict>>
       \/ /\ pc[h] = "cut"
          /\ job' = [job EXCEPT ![h] = "none"]
          /\ decoy' = IF attempt[h].name \in Accounts THEN decoy ELSE "warm"
          /\ Forget(h)
          /\ Go(h, "idle")
    /\ UNCHANGED <<throttle, reply, guesses>>

(* The handler is resumed with the outcome.                                *)
Resume(h) ==
    /\ pc[h] = "await" /\ job[h] # "running"
    /\ \/ /\ job[h] = "authenticated"
          /\ Go(h, "clear")
          /\ UNCHANGED reply
       \/ /\ job[h] = "rejected"
          /\ Go(h, "countAccount")
          /\ UNCHANGED reply
       \/ /\ job[h] = "panicked"
          /\ Answer(h, "fault")
    /\ job' = [job EXCEPT ![h] = "none"]
    /\ UNCHANGED <<throttle, available, attempt, verdict, decoy, passes, guesses>>

(* The window of n lapses by being looked at; a guess counts in the new.   *)
Guessed(n, h) ==
    (IF Lapsed(byAccount[n]) THEN 0 ELSE guesses[n]) + (IF verdict[h] = "allowed" THEN 1 ELSE 0)

CountAccountUncounted(h) ==   \* mutant: a throttled or an unlucky try is free
    LET n == attempt[h].name IN
    /\ pc[h] = "countAccount"
    /\ guesses' = [guesses EXCEPT ![n] = Guessed(n, h)]
    /\ Go(h, "countAddress")
    /\ UNCHANGED <<throttle, available, attempt, verdict, job, reply, decoy, passes>>

(* record_failure(), the half under the mutex of the accounts ...          *)
CountAccount(h) ==
    LET n == attempt[h].name IN
    /\ pc[h] = "countAccount"
    /\ byAccount' = [byAccount EXCEPT ![n] = Bump(@, AccountLimit)]
    /\ guesses' = [guesses EXCEPT ![n] = Guessed(n, h)]
    /\ Go(h, "countAddress")
    /\ UNCHANGED <<byAddress, available, attempt, verdict, job, reply, decoy, passes>>

(* ... and the half under the mutex of the addresses.                      *)
CountAddress(h) ==
    LET a == attempt[h].address IN
    /\ pc[h] = "countAddress"
    /\ byAddress' = IF a = None
                    THEN byAddress
                    ELSE [byAddress EXCEPT ![a] = Bump(@, AddressLimit)]
    /\ Answer(h, "invalid")
    /\ UNCHANGED <<byAccount, available, attempt, verdict, job, decoy, passes, guesses>>

ClearAll(h) ==   \* mutant: a success excuses the address as well
    LET n == attempt[h].name
        a == attempt[h].address
    IN
    /\ pc[h] = "clear"
    /\ byAccount' = [byAccount EXCEPT ![n] = None]
    /\ byAddress' = IF a = None THEN byAddress ELSE [byAddress EXCEPT ![a] = None]
    /\ guesses' = [guesses EXCEPT ![n] = 0]
    /\ Go(h, "issue")
    /\ UNCHANGED <<available, attempt, verdict, job, reply, decoy, passes>>

(* record_success()                                                        *)
Clear(h) ==
    LET n == attempt[h].name IN
    /\ pc[h] = "clear"
    /\ byAccount' = [byAccount EXCEPT ![n] = None]
    /\ guesses' = [guesses EXCEPT ![n] = 0]
    /\ Go(h, "issue")
    /\ UNCHANGED <<byAddress, available, attempt, verdict, job, reply, decoy, passes>>

(* The token is issued, or cannot be signed.                               *)
Issue(h) ==
    /\ pc[h] = "issue"
    /\ \E told \in {"token", "fault"} : Answer(h, told)
    /\ UNCHANGED <<throttle, available, attempt, verdict, job, decoy, passes, guesses>>

HangUpDropsPermit(h) ==   \* mutant: the permit belongs to the handler
    /\ pc[h] = "await"
    /\ \/ /\ job[h] = "running"
          /\ available' = available + 1
          /\ verdict' = [verdict EXCEPT ![h] = "none"]
          /\ Go(h, "cut")
          /\ UNCHANGED <<job, attempt, passes>>
       \/ /\ job[h] # "running"
          /\ job' = [job EXCEPT ![h] = "none"]
          /\ Forget(h)
          /\ Go(h, "idle")
          /\ UNCHANGED available
    /\ UNCHANGED <<throttle, reply, decoy, guesses>>

(* The client hangs up: what the verification finds is never recorded.     *)
HangUp(h) ==
    /\ pc[h] = "await"
    /\ \/ /\ job[h] = "running"
          /\ verdict' = [verdict EXCEPT ![h] = "none"]
          /\ Go(h, "cut")
          /\ UNCHANGED <<job, attempt, passes>>
       \/ /\ job[h] # "running"
          /\ job' = [job EXCEPT ![h] = "none"]
          /\ Forget(h)
          /\ Go(h, "idle")
    /\ UNCHANGED <<throttle, available, reply, decoy, guesses>>

Return(h) ==
    /\ pc[h] = "answer"
    /\ reply' = [reply EXCEPT ![h] = "none"]
    /\ Forget(h)
    /\ Go(h, "idle")
    /\ UNCHANGED <<throttle, available, job, decoy, guesses>>

Work(h) ==
    \/ CheckAddress(h) \/ CheckAccount(h) \/ Submit(h) \/ Verify(h) \/ Resume(h)
    \/ CountAccount(h) \/ CountAddress(h) \/ Clear(h) \/ Issue(h)
    \/ Return(h)

Next == Tick \/ \E h \in Handlers : Acquire(h) \/ HangUp(h) \/ Work(h)

Spec == Init /\ [][Next]_vars

(* The runtime polls what is ready, and the blocking pool runs its jobs.   *)
Fairness == \A h \in Handlers : WF_vars(Work(h))

FairSpec == Spec /\ Fairness
-----------------------------------------------------------------------------
Counters(limit) == [count: 1..limit, age: 0..Window] \cup {None}

(* Every variable keeps to its type: above all, no permit is given back    *)
(* that was not taken.                                                     *)
TypeOK ==
    /\ byAccount \in [Names -> Counters(AccountLimit)]
    /\ byAddress \in [Addresses -> Counters(AddressLimit)]
    /\ available \in 0..Permits
    /\ pc \in [Handlers -> Steps]
    /\ attempt \in [Handlers -> Attempts \cup {None}]
    /\ verdict \in [Handlers -> {"none", "allowed", "throttled"}]
    /\ job \in [Handlers -> {"none", "running", "authenticated", "rejected", "panicked"}]
    /\ reply \in [Handlers -> {"none", "overloaded", "throttled", "invalid", "fault", "token"}]
    /\ decoy \in {"cold", "warm"}
    /\ passes \in [Handlers -> Nat]
    /\ guesses \in [Names -> Nat]
    /\ \A h \in Handlers : (pc[h] = "idle") = (attempt[h] = None)

HoldsPermit(h) == pc[h] \in {"address", "account", "submit"} \/ job[h] = "running"

(* A permit belongs to exactly one request that is on its way to its       *)
(* verification, or to the verification itself, also after the client has  *)
(* hung up: no more than Permits of them ever run at once.                 *)
PermitsConserved == available + Cardinality({h \in Handlers : HoldsPermit(h)}) = Permits

(* A guess at n that the throttle has let pass and has not yet counted.    *)
OpenGuess(h, n) ==
    /\ attempt[h] # None /\ attempt[h].name = n /\ ~attempt[h].right
    /\ verdict[h] = "allowed"
    /\ pc[h] \in {"submit", "await", "countAccount"}

(* Within one window, an account takes no more wrong passwords than its    *)
(* limit allows and, beyond that, one for each other request that was open *)
(* when the limit was reached.  (Requests and not permits: a verification  *)
(* gives its permit back before its handler counts the failure.)           *)
GuessesBounded ==
    \A n \in Names :
        guesses[n] + Cardinality({h \in Handlers : OpenGuess(h, n)})
            <= AccountLimit - 1 + Cardinality(Handlers)

(* A throttled account, a wrong password and an unknown name, the first    *)
(* since the start included, are answered alike: the same 401 for the same *)
(* one run of Argon2, which is what a success costs too.  And a throttled  *)
(* account is given no token, be the password right.                       *)
UniformRefusal ==
    \A h \in Handlers :
        /\ reply[h] \in {"invalid", "token"} => passes[h] = 1
        /\ reply[h] = "token" => attempt[h].right /\ verdict[h] = "allowed"

Remembers(now, before) ==
    before # None /\ ~Lapsed(before) => now # None /\ now.count >= before.count

Excused(n) == \E h \in Handlers : pc[h] = "clear" /\ attempt[h].right /\ attempt[h].name = n

(* Within its window a counter is never lowered: an address's by nothing,  *)
(* not even a login that succeeds, and an account's only by a login of     *)
(* that account that succeeds.                                             *)
CountersRemember ==
    [][/\ \A a \in Addresses : Remembers(byAddress'[a], byAddress[a])
       /\ \A n \in Names : Remembers(byAccount'[n], byAccount[n]) \/ Excused(n)]_vars

(* Overload passes: whatever clients do and whenever they hang up, and     *)
(* though verifications panic, a permit becomes free again.                *)
PermitsReturn == []<>(available > 0)
=============================================================================
