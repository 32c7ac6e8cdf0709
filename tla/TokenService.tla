----------------------------- MODULE TokenService -----------------------------
(***************************************************************************)
(* TokenService (auth-service, token.rs) and the requests that present its *)
(* tokens: the extractor Authenticated, then logout or the gateway.        *)
(*                                                                         *)
(* The wall clock is read, never waited for, and may be set back.  The     *)
(* token library accepts a token for Leeway seconds past its expiry, which *)
(* token.rs leaves at the library's default.  Restarts and the rotation of *)
(* keys follow the procedure that token.rs 5-10 lays down.                 *)
(***************************************************************************)
EXTENDS Naturals, Sequences, FiniteSets

CONSTANTS
    Tokens,     \* the jti's there are to give out
    Keys,       \* key material: records [kid, secret]
    Handlers,   \* the requests the service may have open at one time
    Ttl,        \* lifetime of a token, in seconds
    Leeway,     \* seconds for which an expired token is still accepted
    BackStep,   \* the most seconds by which the clock is ever set back
    LastSecond, \* the last second of a run
    None

ASSUME TimesAssumption ==
    /\ Ttl \in Nat \ {0} /\ Leeway \in Nat
    /\ BackStep \in Nat /\ LastSecond \in Nat

Claims == [key: Keys, exp: Nat]

ASSUME NoneAssumption == None \notin Tokens \cup Nat \cup Claims

VARIABLES
    now,        \* the wall clock
    keys,       \* the keys of this process: the active one, then the retired
    claims,     \* claims[t]: the key that signed t and its expiry, or None
    revoked,    \* revoked[t]: the expiry retained for a revoked t, or None
    pc, token, cutoff,  \* a request, its token, the clock its logout has read
    latest,     \* the furthest the clock has been (history)
    rotated,    \* latest at the last rotation (the operator's note)
    loggedOut,  \* the tokens whose logout this process has answered (history)
    outAt,      \* latest when t was first logged out, by whichever process, or
                \* None (history)
    late,       \* the requests that began after such an answer (history)
    pruned      \* the clock by which revoked was last pruned (history)

clocks == <<now, latest>>
process == <<keys, claims, rotated>>
handler == <<pc, token, cutoff>>
vars == <<now, keys, claims, revoked, pc, token, cutoff, latest, rotated,
          loggedOut, outAt, late, pruned>>

Steps == {"idle", "decode", "consult", "clock", "revoke", "forward", "logout", "refused"}

Active == keys[1]

Init ==
    /\ now = 0 /\ latest = 0 /\ rotated = 0
    /\ \E key \in Keys : keys = <<key>>
    /\ claims = [t \in Tokens |-> None]
    /\ revoked = [t \in Tokens |-> None]
    /\ pc = [h \in Handlers |-> "idle"]
    /\ token = [h \in Handlers |-> None]
    /\ cutoff = [h \in Handlers |-> 0]
    /\ loggedOut = {} /\ late = {} /\ pruned = 0
    /\ outAt = [t \in Tokens |-> None]

Later(a, b) == IF a > b THEN a ELSE b

SetClock(second) ==
    /\ second \in 0..LastSecond
    /\ second = now + 1 \/ (second < now /\ now - second <= BackStep)
    /\ now' = second
    /\ latest' = Later(latest, second)
    /\ UNCHANGED <<process, revoked, handler, loggedOut, outAt, late, pruned>>

DecodesActive(kid, secret) ==   \* mutant: retired keys are not loaded
    Active.kid = kid /\ Active.secret = secret

(* The map built by new(): of the keys with one kid, the last one stays.   *)
Decodes(kid, secret) ==
    \E i \in 1..Len(keys) :
        /\ keys[i].kid = kid /\ keys[i].secret = secret
        /\ \A j \in 1..Len(keys) : keys[j].kid = kid => j <= i

(* issue(), at the end of a login.                                         *)
Issue(t) ==
    /\ claims[t] = None
    /\ claims' = [claims EXCEPT ![t] = [key |-> Active, exp |-> now + Ttl]]
    /\ UNCHANGED <<clocks, keys, rotated, revoked, handler, loggedOut, outAt, late, pruned>>

Go(h, step) == pc' = [pc EXCEPT ![h] = step]

Arrive(h) ==
    /\ pc[h] = "idle"
    /\ \E t \in Tokens :
          /\ claims[t] # None
          /\ token' = [token EXCEPT ![h] = t]
          /\ late' = IF t \in loggedOut THEN late \cup {h} ELSE late \ {h}
    /\ Go(h, "decode")
    /\ UNCHANGED <<clocks, process, revoked, cutoff, loggedOut, outAt, pruned>>

Genuine(claim) == Decodes(claim.key.kid, claim.key.secret)
CurrentAlways(claim) == TRUE   \* mutant: expiry is not looked at
Current(claim) == now <= claim.exp + Leeway

(* verify(), up to the list of revocations.                                *)
Decode(h) ==
    LET claim == claims[token[h]] IN
    /\ pc[h] = "decode"
    /\ Go(h, IF Genuine(claim) /\ Current(claim) THEN "consult" ELSE "refused")
    /\ UNCHANGED <<clocks, process, revoked, token, cutoff, loggedOut, outAt, late, pruned>>

(* verify() reads the list; a request that passes is a logout or is        *)
(* forwarded by the gateway.                                               *)
Consult(h) ==
    /\ pc[h] = "consult"
    /\ \/ /\ revoked[token[h]] # None
          /\ Go(h, "refused")
       \/ /\ revoked[token[h]] = None
          /\ \E op \in {"clock", "forward"} : Go(h, op)
    /\ UNCHANGED <<clocks, process, revoked, token, cutoff, loggedOut, outAt, late, pruned>>

(* revoke() reads the clock before it waits for the list.                  *)
ReadClock(h) ==
    /\ pc[h] = "clock"
    /\ cutoff' = [cutoff EXCEPT ![h] = now]
    /\ Go(h, "revoke")
    /\ UNCHANGED <<clocks, process, revoked, token, loggedOut, outAt, late, pruned>>

RetainedReversed(expiry, second) == expiry # None /\ expiry <= second   \* mutant
RetainedAll(expiry, second) == expiry # None   \* mutant: nothing is forgotten
Retained(expiry, second) == expiry # None /\ expiry > second

UntilNow(h) == cutoff[h]   \* mutant: the clock is recorded for the expiry
Until(h) == claims[token[h]].exp

Revoke(h) ==
    /\ pc[h] = "revoke"
    /\ revoked' =
          [t \in Tokens |->
              IF t = token[h] THEN Until(h)
              ELSE IF Retained(revoked[t], cutoff[h]) THEN revoked[t]
              ELSE None]
    /\ pruned' = cutoff[h]
    /\ cutoff' = [cutoff EXCEPT ![h] = 0]
    /\ Go(h, "logout")
    /\ UNCHANGED <<clocks, process, token, loggedOut, outAt, late>>

Return(h) ==
    /\ pc[h] \in {"forward", "logout", "refused"}
    /\ loggedOut' = IF pc[h] = "logout" THEN loggedOut \cup {token[h]} ELSE loggedOut
    /\ outAt' = IF pc[h] = "logout" /\ outAt[token[h]] = None
                THEN [outAt EXCEPT ![token[h]] = latest]
                ELSE outAt
    /\ token' = [token EXCEPT ![h] = None]
    /\ late' = late \ {h}
    /\ Go(h, "idle")
    /\ UNCHANGED <<clocks, process, revoked, cutoff, pruned>>

(* new() in a new process: nothing revoked, no request open.               *)
Boot ==
    /\ revoked' = [t \in Tokens |-> None]
    /\ pc' = [h \in Handlers |-> "idle"]
    /\ token' = [h \in Handlers |-> None]
    /\ cutoff' = [h \in Handlers |-> 0]
    /\ loggedOut' = {} /\ late' = {} /\ pruned' = 0
    /\ UNCHANGED <<clocks, claims, outAt>>

Restart == Boot /\ UNCHANGED <<keys, rotated>>

(* A new key becomes the active one and every key in use stays accepted.   *)
Rotate ==
    /\ \E key \in Keys \ {keys[i] : i \in 1..Len(keys)} : keys' = <<key>> \o keys
    /\ rotated' = latest
    /\ Boot

(* The lifetime of a token has been waited out since the last rotation.    *)
DropRetired ==
    /\ Len(keys) > 1
    /\ latest >= rotated + Ttl
    /\ keys' = <<Active>>
    /\ Boot
    /\ UNCHANGED rotated

Next ==
    \/ \E second \in 0..LastSecond : SetClock(second)
    \/ \E t \in Tokens : Issue(t)
    \/ \E h \in Handlers :
          \/ Arrive(h) \/ Decode(h) \/ Consult(h) \/ ReadClock(h)
          \/ Revoke(h) \/ Return(h)
    \/ Restart \/ Rotate \/ DropRetired

Spec == Init /\ [][Next]_vars
-----------------------------------------------------------------------------
(* Every variable keeps to its type, an open request has a token that was  *)
(* issued, and what is retained of a revocation is its token's expiry.     *)
TypeOK ==
    /\ now \in Nat /\ latest \in Nat /\ now <= latest
    /\ rotated \in Nat /\ rotated <= latest
    /\ keys \in Seq(Keys) /\ keys # <<>>
    /\ claims \in [Tokens -> Claims \cup {None}]
    /\ revoked \in [Tokens -> Nat \cup {None}]
    /\ \A t \in Tokens :
          revoked[t] # None => claims[t] # None /\ revoked[t] = claims[t].exp
    /\ pc \in [Handlers -> Steps]
    /\ token \in [Handlers -> Tokens \cup {None}]
    /\ cutoff \in [Handlers -> Nat] /\ pruned \in Nat
    /\ outAt \in [Tokens -> Nat \cup {None}]
    /\ loggedOut \subseteq Tokens /\ late \subseteq Handlers
    /\ \A h \in Handlers :
          /\ (pc[h] = "idle") = (token[h] = None)
          /\ token[h] # None => claims[token[h]] # None

Admitted(h) == pc[h] \in {"clock", "revoke", "forward", "logout"}

(* A request that begins after the logout of its token was answered is not *)
(* admitted, whatever else is revoked or pruned meanwhile and however the  *)
(* clock is set, so long as the clock has never reached the expiry.        *)
RevocationHolds ==
    \A h \in Handlers : Admitted(h) /\ h \in late => latest >= claims[token[h]].exp

(* A restart forgets who was logged out, but not for long: however often   *)
(* the service restarts, a token is let pass no later than its lifetime    *)
(* and the leeway after its first logout was answered.                     *)
LogoutOutlivesRestart ==
    [][\A h \in Handlers :
          pc[h] = "decode" /\ pc'[h] = "consult" /\ outAt[token[h]] # None
          => now <= outAt[token[h]] + Ttl + Leeway]_vars

(* The list of revocations does not grow with time: all it retains, but    *)
(* for the last one added, were of unexpired tokens when last it was       *)
(* pruned, and none lies further ahead than a token's lifetime.            *)
ListIsBounded ==
    /\ Cardinality({t \in Tokens : revoked[t] # None /\ revoked[t] <= pruned}) <= 1
    /\ \A t \in Tokens : revoked[t] # None => revoked[t] <= latest + Ttl

(* Rotation is an overlap and not an outage: every token whose expiry is   *)
(* ahead finds the key that signed it, across restarts and rotations, and  *)
(* however the clock is set.                                               *)
LiveTokenAccepted ==
    \A t \in Tokens :
        claims[t] # None /\ latest < claims[t].exp => Genuine(claims[t])

(* What token.rs 170-173 says: a revocation is effective immediately, and  *)
(* forgotten only when the token would have expired anyway.                *)
RevokedStaysRefused == \A h \in Handlers : Admitted(h) => h \notin late
=============================================================================
