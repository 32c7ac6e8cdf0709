-------------------------- MODULE TokenServiceProofs --------------------------
(***************************************************************************)
(* Proofs about TokenService, for any tokens, keys, requests and times.    *)
(***************************************************************************)
EXTENDS TokenService, FiniteSetTheorems, TLAPS

LEMMA NoneIsNothing ==
    None \notin Tokens /\ None \notin Nat /\ None \notin Claims
BY NoneAssumption

LEMMA ClaimFields ==
    ASSUME NEW claim \in Claims
    PROVE  claim.key \in Keys /\ claim.exp \in Nat
BY DEF Claims

(* The moves of the operator leave the clock and the tokens alone.         *)
Moves == Restart \/ Rotate \/ DropRetired

LEMMA InitType == Init => TypeOK
BY DEF Init, TypeOK, Steps

LEMMA NextType ==
    ASSUME TypeOK, [Next]_vars
    PROVE  TypeOK'
<1> USE NoneIsNothing, TimesAssumption DEF TypeOK
<1>1. CASE UNCHANGED vars
  BY <1>1 DEF vars
<1>2. ASSUME NEW second \in 0..LastSecond, SetClock(second)
      PROVE  TypeOK'
  BY <1>2 DEF SetClock, Later, process, handler
<1>3. ASSUME NEW t \in Tokens, Issue(t)
      PROVE  TypeOK'
  <2>1. Active \in Keys
    BY DEF Active
  <2>2. [key |-> Active, exp |-> now + Ttl] \in Claims
    BY <2>1 DEF Claims
  <2>3. claims' \in [Tokens -> Claims \cup {None}]
    BY <1>3, <2>2 DEF Issue
  <2>4. \A u \in Tokens : claims[u] # None => claims'[u] = claims[u]
    BY <1>3 DEF Issue
  <2> QED
    BY <1>3, <2>3, <2>4 DEF Issue, clocks, handler
<1>4. ASSUME NEW h \in Handlers, Arrive(h)
      PROVE  TypeOK'
  BY <1>4 DEF Arrive, Go, Steps, clocks, process
<1>5. ASSUME NEW h \in Handlers, Decode(h)
      PROVE  TypeOK'
  BY <1>5 DEF Decode, Go, Steps, clocks, process
<1>6. ASSUME NEW h \in Handlers, Consult(h)
      PROVE  TypeOK'
  <2>1. PICK step \in {"refused", "clock", "forward"} : pc' = [pc EXCEPT ![h] = step]
    BY <1>6 DEF Consult, Go
  <2> QED
    BY <1>6, <2>1 DEF Consult, Steps, clocks, process
<1>7. ASSUME NEW h \in Handlers, ReadClock(h)
      PROVE  TypeOK'
  BY <1>7 DEF ReadClock, Go, Steps, clocks, process
<1>8. ASSUME NEW h \in Handlers, Revoke(h)
      PROVE  TypeOK'
  <2>1. token[h] \in Tokens /\ claims[token[h]] \in Claims
    BY <1>8 DEF Revoke
  <2>2. \A t \in Tokens : revoked'[t] = IF t = token[h] THEN claims[t].exp
                                        ELSE IF Retained(revoked[t], cutoff[h])
                                             THEN revoked[t] ELSE None
    BY <1>8 DEF Revoke, Until
  <2>3. revoked' \in [Tokens -> Nat \cup {None}]
    BY <1>8, <2>1, <2>2, ClaimFields DEF Revoke, Until
  <2>4. \A t \in Tokens :
           revoked'[t] # None => claims[t] # None /\ revoked'[t] = claims[t].exp
    BY <2>1, <2>2
  <2> QED
    BY <1>8, <2>3, <2>4 DEF Revoke, Go, Steps, clocks, process
<1>9. ASSUME NEW h \in Handlers, Return(h)
      PROVE  TypeOK'
  BY <1>9 DEF Return, Go, Steps, clocks, process
<1>10. CASE Moves
  <2>1. keys' \in Seq(Keys) /\ keys' # <<>>
    <3>1. CASE Restart
      BY <3>1 DEF Restart
    <3>2. CASE Rotate
      <4>1. PICK key \in Keys : keys' = <<key>> \o keys
        BY <3>2 DEF Rotate
      <4> QED
        BY <4>1
    <3>3. CASE DropRetired
      <4>1. Active \in Keys
        BY DEF Active
      <4> QED
        BY <3>3, <4>1 DEF DropRetired
    <3> QED
      BY <1>10, <3>1, <3>2, <3>3 DEF Moves
  <2>2. rotated' \in Nat /\ rotated' <= latest' /\ Boot
    BY <1>10 DEF Moves, Restart, Rotate, DropRetired, Boot, clocks
  <2> QED
    BY <2>1, <2>2 DEF Boot, Steps, clocks
<1> QED
  BY <1>1, <1>2, <1>3, <1>4, <1>5, <1>6, <1>7, <1>8, <1>9, <1>10 DEF Next, Moves

(* Every variable of the token service keeps to its type.                  *)
THEOREM TokenTypeCorrect == Spec => []TypeOK
<1>1. Init => TypeOK
  BY InitType
<1>2. TypeOK /\ [Next]_vars => TypeOK'
  BY NextType
<1> QED
  BY <1>1, <1>2, PTL DEF Spec
-----------------------------------------------------------------------------
(* Revocation.  A token that was logged out is on the list or has expired. *)
Settled(t) == revoked[t] # None \/ latest >= claims[t].exp

Listed ==
    /\ \A t \in loggedOut : claims[t] # None /\ Settled(t)
    /\ \A h \in Handlers : pc[h] = "logout" => Settled(token[h])

LateOnes == \A h \in late : token[h] \in loggedOut

Cutoffs == \A h \in Handlers : cutoff[h] <= latest

RevocationInv == TypeOK /\ Listed /\ LateOnes /\ Cutoffs /\ RevocationHolds

LEMMA InitRevocation == Init => RevocationInv
BY InitType, TimesAssumption
   DEF Init, RevocationInv, Listed, LateOnes, Cutoffs, RevocationHolds

LEMMA NextRevocation ==
    ASSUME RevocationInv, [Next]_vars
    PROVE  RevocationInv'
<1> USE NoneIsNothing, TimesAssumption
<1> DEFINE Rest == Listed /\ LateOnes /\ Cutoffs /\ RevocationHolds
<1>0. TypeOK /\ TypeOK'
  BY NextType DEF RevocationInv
<1>a. Rest
  BY DEF RevocationInv
<1> SUFFICES Rest'
  BY <1>0 DEF RevocationInv
<1> USE DEF Listed, Settled, LateOnes, Cutoffs, RevocationHolds, Admitted
<1>1. CASE UNCHANGED vars
  BY <1>1, <1>a DEF vars
<1>2. ASSUME NEW second \in 0..LastSecond, SetClock(second)
      PROVE  Rest'
  <2>1. latest' >= latest /\ latest \in Nat /\ latest' \in Nat
    BY <1>0, <1>2 DEF SetClock, Later, TypeOK
  <2>2. UNCHANGED <<claims, revoked, pc, token, cutoff, loggedOut, late>>
    BY <1>2 DEF SetClock, process, handler
  <2>3. \A t \in Tokens : claims[t] # None /\ Settled(t) => Settled(t)'
    <3> SUFFICES ASSUME NEW t \in Tokens, claims[t] # None, latest >= claims[t].exp
                 PROVE  latest' >= claims[t].exp
      BY <2>2
    <3>1. claims[t].exp \in Nat
      BY <1>0, ClaimFields DEF TypeOK
    <3> QED
      BY <2>1, <3>1
  <2>4. \A h \in Handlers : token[h] # None => token[h] \in Tokens /\ claims[token[h]] # None
    BY <1>0 DEF TypeOK
  <2>5. Listed'
    <3>1. \A t \in loggedOut : t \in Tokens /\ claims[t] # None /\ Settled(t)'
      BY <1>0, <1>a, <2>3 DEF TypeOK
    <3>2. ASSUME NEW h \in Handlers, pc[h] = "logout"
          PROVE  Settled(token[h])'
      <4>1. token[h] \in Tokens /\ claims[token[h]] # None
        <5>1. token[h] # None
          BY <1>0, <3>2 DEF TypeOK
        <5> QED
          BY <2>4, <5>1
      <4>2. Settled(token[h])
        BY <1>a, <3>2
      <4> QED
        BY <2>2, <2>3, <4>1, <4>2
    <3> QED
      BY <2>2, <3>1, <3>2
  <2>6. LateOnes'
    BY <1>a, <2>2
  <2>7. Cutoffs'
    <3>1. \A h \in Handlers : cutoff[h] \in Nat
      BY <1>0 DEF TypeOK
    <3> QED
      BY <1>a, <2>1, <2>2, <3>1
  <2>8. RevocationHolds'
    <3> SUFFICES ASSUME NEW h \in Handlers, Admitted(h), h \in late
                 PROVE  latest' >= claims[token[h]].exp
      BY <2>2
    <3>1. token[h] # None
      BY <1>0 DEF TypeOK
    <3>2. claims[token[h]].exp \in Nat
      BY <1>0, <2>4, <3>1, ClaimFields DEF TypeOK
    <3>3. latest >= claims[token[h]].exp
      BY <1>a
    <3> QED
      BY <2>1, <3>2, <3>3
  <2> QED
    BY <2>5, <2>6, <2>7, <2>8
<1>3. ASSUME NEW t \in Tokens, Issue(t)
      PROVE  Rest'
  <2>1. \A u \in Tokens : claims[u] # None => claims'[u] = claims[u]
    BY <1>0, <1>3 DEF Issue, TypeOK
  <2> QED
    BY <1>0, <1>a, <1>3, <2>1 DEF Issue, clocks, handler, TypeOK
<1>4. ASSUME NEW h \in Handlers, Arrive(h)
      PROVE  Rest'
  BY <1>0, <1>a, <1>4 DEF Arrive, Go, clocks, process, TypeOK
<1>5. ASSUME NEW h \in Handlers, Decode(h)
      PROVE  Rest'
  BY <1>0, <1>a, <1>5 DEF Decode, Go, clocks, process, TypeOK
<1>6. ASSUME NEW h \in Handlers, Consult(h)
      PROVE  Rest'
  BY <1>0, <1>a, <1>6 DEF Consult, Go, clocks, process, TypeOK
<1>7. ASSUME NEW h \in Handlers, ReadClock(h)
      PROVE  Rest'
  BY <1>0, <1>a, <1>7 DEF ReadClock, Go, clocks, process, TypeOK
<1>8. ASSUME NEW h \in Handlers, Revoke(h)
      PROVE  Rest'
  <2>1. UNCHANGED <<now, latest, claims, token, loggedOut, late>>
    BY <1>8 DEF Revoke, clocks, process
  <2>2. token[h] \in Tokens /\ claims[token[h]] \in Claims
    <3>1. /\ pc[h] = "revoke"
          /\ (pc[h] = "idle") = (token[h] = None)
          /\ token[h] \in Tokens \cup {None}
      BY <1>0, <1>8 DEF Revoke, TypeOK
    <3>2. token[h] # None /\ token[h] \in Tokens
      BY <3>1
    <3> QED
      BY <1>0, <3>2 DEF TypeOK
  <2>3. ASSUME NEW t \in Tokens, claims[t] # None, Settled(t)
        PROVE  Settled(t)'
    <3>1. claims[t].exp \in Nat /\ cutoff[h] \in Nat /\ latest \in Nat
      BY <1>0, <2>3, ClaimFields DEF TypeOK
    <3>2. CASE t = token[h]
      BY <1>8, <2>2, <3>1, <3>2 DEF Revoke, Until
    <3>3. CASE t # token[h] /\ revoked[t] # None /\ ~(revoked[t] > cutoff[h])
      BY <1>0, <1>a, <2>1, <2>3, <3>1, <3>3 DEF TypeOK
    <3>4. CASE t # token[h] /\ revoked[t] # None /\ revoked[t] > cutoff[h]
      BY <1>8, <3>4 DEF Revoke, Retained
    <3>5. CASE revoked[t] = None
      BY <2>1, <2>3, <3>5
    <3> QED BY <3>2, <3>3, <3>4, <3>5
  <2>4. Settled(token[h])'
    <3>1. revoked'[token[h]] = claims[token[h]].exp
      BY <1>8, <2>2 DEF Revoke, Until
    <3> QED BY <2>1, <2>2, <3>1, ClaimFields
  <2>5. Listed'
    BY <1>0, <1>a, <1>8, <2>1, <2>3, <2>4 DEF Revoke, Go, TypeOK
  <2>6. LateOnes'
    BY <1>a, <2>1
  <2>7. Cutoffs'
    BY <1>0, <1>a, <1>8, <2>1 DEF Revoke, TypeOK
  <2>8. RevocationHolds'
    BY <1>0, <1>a, <1>8, <2>1 DEF Revoke, Go, TypeOK
  <2> QED
    BY <2>5, <2>6, <2>7, <2>8
<1>9. ASSUME NEW h \in Handlers, Return(h)
      PROVE  Rest'
  BY <1>0, <1>a, <1>9 DEF Return, Go, clocks, process, TypeOK
<1>10. CASE Moves
  BY <1>0, <1>a, <1>10 DEF Moves, Restart, Rotate, DropRetired, Boot, clocks, TypeOK
<1> QED
  BY <1>1, <1>2, <1>3, <1>4, <1>5, <1>6, <1>7, <1>8, <1>9, <1>10 DEF Next, Moves

(* A request that begins after the logout of its token was answered is     *)
(* not admitted before the clock has reached the token's expiry.           *)
THEOREM RevocationIsEffective == Spec => []RevocationHolds
<1>1. Init => RevocationInv
  BY InitRevocation
<1>2. RevocationInv /\ [Next]_vars => RevocationInv'
  BY NextRevocation
<1>3. RevocationInv => RevocationHolds
  BY DEF RevocationInv
<1> QED
  BY <1>1, <1>2, <1>3, PTL DEF Spec
-----------------------------------------------------------------------------
(* Rotation, for keys that are named apart.                                *)
NamedApart == \A a, b \in Keys : a.kid = b.kid => a = b

Held(key) == \E i \in 1..Len(keys) : keys[i] = key

NoKeyTwice == \A i, j \in 1..Len(keys) : keys[i] = keys[j] => i = j

Lifetimes ==
    \A t \in Tokens :
        claims[t] # None =>
            /\ claims[t].exp <= latest + Ttl
            /\ claims[t].key = Active \/ claims[t].exp <= rotated + Ttl
            /\ latest < claims[t].exp => Held(claims[t].key)

RotationInv == TypeOK /\ NoKeyTwice /\ Lifetimes

LEMMA InitRotation == Init => RotationInv
BY InitType DEF Init, RotationInv, NoKeyTwice, Lifetimes

LEMMA NextRotation ==
    ASSUME RotationInv, [Next]_vars
    PROVE  RotationInv'
<1> USE NoneIsNothing, TimesAssumption
<1>0. TypeOK /\ TypeOK' /\ NoKeyTwice /\ Lifetimes
  BY NextType DEF RotationInv
<1> SUFFICES NoKeyTwice' /\ Lifetimes'
  BY <1>0 DEF RotationInv
<1>e. \A t \in Tokens : claims[t] # None => claims[t] \in Claims /\ claims[t].exp \in Nat
  BY <1>0, ClaimFields DEF TypeOK
<1>1. CASE UNCHANGED <<keys, claims, latest, rotated>>
  BY <1>0, <1>1 DEF NoKeyTwice, Lifetimes, Held, Active
<1>2. ASSUME NEW second \in 0..LastSecond, SetClock(second)
      PROVE  NoKeyTwice' /\ Lifetimes'
  <2>1. latest' >= latest /\ latest \in Nat /\ latest' \in Nat
    BY <1>0, <1>2 DEF SetClock, Later, TypeOK
  <2>2. UNCHANGED <<keys, claims, rotated>>
    BY <1>2 DEF SetClock, process
  <2> QED
    BY <1>0, <1>e, <2>1, <2>2 DEF NoKeyTwice, Lifetimes, Held, Active
<1>3. ASSUME NEW t \in Tokens, Issue(t)
      PROVE  NoKeyTwice' /\ Lifetimes'
  <2>1. UNCHANGED <<keys, latest, rotated>> /\ now <= latest /\ now \in Nat /\ latest \in Nat
    BY <1>0, <1>3 DEF Issue, clocks, TypeOK
  <2>2. claims'[t].key = Active /\ claims'[t].exp = now + Ttl
    BY <1>0, <1>3 DEF Issue, TypeOK
  <2>3. \A u \in Tokens : u # t => claims'[u] = claims[u]
    BY <1>0, <1>3 DEF Issue, TypeOK
  <2>4. Held(Active)
    BY <1>0 DEF Held, Active, TypeOK
  <2> QED
    BY <1>0, <1>e, <2>1, <2>2, <2>3, <2>4 DEF NoKeyTwice, Lifetimes, Held, Active
<1>4. CASE Restart
  BY <1>0, <1>1, <1>4 DEF Restart, Boot, clocks
<1>5. CASE Rotate
  <2>1. PICK key \in Keys \ {keys[i] : i \in 1..Len(keys)} : keys' = <<key>> \o keys
    BY <1>5 DEF Rotate
  <2>2. rotated' = latest /\ UNCHANGED <<claims, latest>> /\ latest \in Nat
    BY <1>0, <1>5 DEF Rotate, Boot, clocks, TypeOK
  <2>3. /\ Len(keys') = Len(keys) + 1
        /\ keys'[1] = key
        /\ \A i \in 1..Len(keys) : keys'[i + 1] = keys[i]
        /\ \A i \in 2..Len(keys') : i - 1 \in 1..Len(keys) /\ keys'[i] = keys[i - 1]
    BY <1>0, <2>1 DEF TypeOK
  <2>4. NoKeyTwice'
    <3> SUFFICES ASSUME NEW i \in 1..Len(keys'), NEW j \in 1..Len(keys'), keys'[i] = keys'[j]
                 PROVE  i = j
      BY DEF NoKeyTwice
    <3>1. CASE i = 1 \/ j = 1
      BY <1>0, <2>1, <2>3, <3>1 DEF TypeOK
    <3>2. CASE i # 1 /\ j # 1
      <4>1. i \in 2..Len(keys') /\ j \in 2..Len(keys')
        BY <1>0, <2>3, <3>2 DEF TypeOK
      <4>2. keys[i - 1] = keys[j - 1] /\ i - 1 \in 1..Len(keys) /\ j - 1 \in 1..Len(keys)
        BY <2>3, <4>1
      <4>3. i - 1 = j - 1
        BY <1>0, <4>2 DEF NoKeyTwice
      <4> QED
        BY <4>1, <4>3
    <3> QED BY <3>1, <3>2
  <2>5. ASSUME NEW k, Held(k)
        PROVE  Held(k)'
    <3>1. PICK i \in 1..Len(keys) : keys[i] = k
      BY <2>5 DEF Held
    <3>2. i + 1 \in 1..Len(keys')
      BY <1>0, <2>3 DEF TypeOK
    <3> QED
      BY <2>3, <3>1, <3>2 DEF Held
  <2>6. Lifetimes'
    BY <1>0, <1>e, <2>2, <2>5 DEF Lifetimes
  <2> QED BY <2>4, <2>6
<1>6. CASE DropRetired
  <2>1. keys' = <<Active>> /\ latest >= rotated + Ttl
    BY <1>6 DEF DropRetired
  <2>2. UNCHANGED <<claims, latest, rotated>> /\ latest \in Nat /\ rotated \in Nat
    BY <1>0, <1>6 DEF DropRetired, Boot, clocks, TypeOK
  <2>3. Held(Active)' /\ Active' = Active
    BY <2>1 DEF Held, Active
  <2>4. NoKeyTwice'
    BY <2>1 DEF NoKeyTwice
  <2>5. Lifetimes'
    BY <1>0, <1>e, <2>1, <2>2 DEF Lifetimes, Held, Active
  <2> QED BY <2>4, <2>5
<1>7. ASSUME NEW h \in Handlers,
             \/ Arrive(h) \/ Decode(h) \/ Consult(h) \/ ReadClock(h)
             \/ Revoke(h) \/ Return(h)
      PROVE  NoKeyTwice' /\ Lifetimes'
  BY <1>1, <1>7 DEF Arrive, Decode, Consult, ReadClock, Revoke, Return, clocks, process
<1>8. CASE UNCHANGED vars
  BY <1>1, <1>8 DEF vars
<1> QED
  BY <1>2, <1>3, <1>4, <1>5, <1>6, <1>7, <1>8 DEF Next

(* If keys are named apart, every token whose expiry is ahead finds the    *)
(* key that signed it.                                                     *)
THEOREM RotationIsAnOverlap ==
    ASSUME NamedApart
    PROVE  Spec => []LiveTokenAccepted
<1>1. Init => RotationInv
  BY InitRotation
<1>2. RotationInv /\ [Next]_vars => RotationInv'
  BY NextRotation
<1>3. RotationInv => LiveTokenAccepted
  <2> SUFFICES ASSUME RotationInv, NEW t \in Tokens, claims[t] # None, latest < claims[t].exp
               PROVE  Genuine(claims[t])
    BY DEF LiveTokenAccepted
  <2>1. PICK i \in 1..Len(keys) : keys[i] = claims[t].key
    BY DEF RotationInv, Lifetimes, Held
  <2>2. \A j \in 1..Len(keys) : keys[j].kid = claims[t].key.kid => j = i
    <3>1. \A j \in 1..Len(keys) : keys[j] \in Keys
      BY DEF RotationInv, TypeOK
    <3> SUFFICES ASSUME NEW j \in 1..Len(keys), keys[j].kid = claims[t].key.kid
                 PROVE  j = i
      OBVIOUS
    <3>2. keys[j] = keys[i]
      BY <2>1, <3>1, NamedApart DEF NamedApart
    <3> QED
      BY <3>2 DEF RotationInv, NoKeyTwice
  <2> QED
    BY <2>1, <2>2 DEF Genuine, Decodes
<1> QED
  BY <1>1, <1>2, <1>3, PTL DEF Spec
-----------------------------------------------------------------------------
(* The list of revocations: what it holds of expired tokens is one at most,*)
(* and the rest follows from the lifetimes.                                *)
Stale == {t \in Tokens : revoked[t] # None /\ revoked[t] <= pruned}

AtMostOne == \E u : Stale \subseteq {u}

Nearby == \A t \in Tokens : claims[t] # None => claims[t].exp <= latest + Ttl

ListInv == TypeOK /\ AtMostOne /\ Nearby

LEMMA NextList ==
    ASSUME ListInv, [Next]_vars
    PROVE  ListInv'
<1> USE NoneIsNothing, TimesAssumption
<1>0. TypeOK /\ TypeOK' /\ AtMostOne /\ Nearby
  BY NextType DEF ListInv
<1> SUFFICES AtMostOne' /\ Nearby'
  BY <1>0 DEF ListInv
<1>e. \A t \in Tokens : claims[t] # None => claims[t] \in Claims /\ claims[t].exp \in Nat
  BY <1>0, ClaimFields DEF TypeOK
<1>1. ASSUME UNCHANGED <<revoked, pruned>>
      PROVE  AtMostOne'
  BY <1>0, <1>1 DEF AtMostOne, Stale
<1>2. ASSUME UNCHANGED <<claims, latest>>
      PROVE  Nearby'
  BY <1>0, <1>2 DEF Nearby
<1>3. ASSUME NEW second \in 0..LastSecond, SetClock(second)
      PROVE  AtMostOne' /\ Nearby'
  <2>1. latest' >= latest /\ latest \in Nat /\ latest' \in Nat
    BY <1>0, <1>3 DEF SetClock, Later, TypeOK
  <2>2. UNCHANGED <<claims, revoked, pruned>>
    BY <1>3 DEF SetClock, process
  <2>3. Nearby'
    BY <1>0, <1>e, <2>1, <2>2 DEF Nearby
  <2> QED BY <1>1, <2>2, <2>3
<1>4. ASSUME NEW t \in Tokens, Issue(t)
      PROVE  AtMostOne' /\ Nearby'
  <2>1. UNCHANGED <<now, latest, revoked, pruned>> /\ now <= latest /\ now \in Nat /\ latest \in Nat
    BY <1>0, <1>4 DEF Issue, clocks, TypeOK
  <2>2. claims'[t].exp = now + Ttl /\ \A u \in Tokens : u # t => claims'[u] = claims[u]
    BY <1>0, <1>4 DEF Issue, TypeOK
  <2>3. Nearby'
    BY <1>0, <1>e, <2>1, <2>2 DEF Nearby
  <2> QED BY <1>1, <2>1, <2>3
<1>5. ASSUME NEW h \in Handlers, Revoke(h)
      PROVE  AtMostOne' /\ Nearby'
  <2>1. Stale' \subseteq {token[h]}
    <3> SUFFICES ASSUME NEW t \in Tokens, t # token[h],
                        revoked'[t] # None, revoked'[t] <= pruned'
                 PROVE  FALSE
      BY DEF Stale
    <3>1. revoked'[t] = revoked[t] /\ Retained(revoked[t], cutoff[h]) /\ pruned' = cutoff[h]
      BY <1>5 DEF Revoke
    <3>2. revoked[t] \in Nat /\ cutoff[h] \in Nat
      BY <1>0, <3>1 DEF TypeOK, Retained
    <3> QED BY <3>1, <3>2 DEF Retained
  <2>2. UNCHANGED <<claims, latest>>
    BY <1>5 DEF Revoke, clocks, process
  <2> QED BY <1>2, <2>1, <2>2 DEF AtMostOne
<1>6. CASE Moves
  <2>1. UNCHANGED <<claims, latest>> /\ \A t \in Tokens : revoked'[t] = None
    BY <1>6 DEF Moves, Restart, Rotate, DropRetired, Boot, clocks
  <2>2. Stale' = {}
    BY <2>1 DEF Stale
  <2> QED BY <1>2, <2>1, <2>2 DEF AtMostOne
<1>7. ASSUME NEW h \in Handlers,
             Arrive(h) \/ Decode(h) \/ Consult(h) \/ ReadClock(h) \/ Return(h)
      PROVE  AtMostOne' /\ Nearby'
  <2>1. UNCHANGED <<claims, latest, revoked, pruned>>
    BY <1>7 DEF Arrive, Decode, Consult, ReadClock, Return, clocks, process
  <2> QED BY <1>1, <1>2, <2>1
<1>8. CASE UNCHANGED vars
  BY <1>1, <1>2, <1>8 DEF vars
<1> QED
  BY <1>3, <1>4, <1>5, <1>6, <1>7, <1>8 DEF Next, Moves

(* At most one revocation on the list was of a token that had expired when *)
(* the list was last pruned, and none lies more than a lifetime ahead.     *)
THEOREM ListStaysBounded == Spec => []ListIsBounded
<1>1. Init => ListInv
  <2> SUFFICES ASSUME Init PROVE ListInv
    OBVIOUS
  <2>1. Stale = {}
    BY DEF Init, Stale
  <2> QED BY <2>1, InitType DEF Init, ListInv, AtMostOne, Nearby
<1>2. ListInv /\ [Next]_vars => ListInv'
  BY NextList
<1>3. ListInv => ListIsBounded
  <2> SUFFICES ASSUME ListInv PROVE ListIsBounded
    OBVIOUS
  <2>1. PICK u : Stale \subseteq {u}
    BY DEF ListInv, AtMostOne
  <2>2. Cardinality(Stale) <= 1
    <3>1. IsFiniteSet({u}) /\ Cardinality({u}) = 1
      BY FS_Singleton
    <3>2. IsFiniteSet(Stale) /\ Cardinality(Stale) <= Cardinality({u})
      BY <2>1, <3>1, FS_Subset
    <3>3. Cardinality(Stale) \in Nat
      BY <3>2, FS_CardinalityType
    <3> QED BY <3>1, <3>2
  <2>3. \A t \in Tokens : revoked[t] # None => revoked[t] <= latest + Ttl
    BY DEF ListInv, TypeOK, Nearby
  <2> QED BY <2>2, <2>3 DEF ListIsBounded, Stale
<1> QED
  BY <1>1, <1>2, <1>3, PTL DEF Spec
-----------------------------------------------------------------------------
(* Restarts.  A token that was logged out expires within a lifetime of the *)
(* clock at that logout, whatever has since been forgotten.                *)
Outlived ==
    \A t \in Tokens :
        outAt[t] # None => claims[t] # None /\ claims[t].exp <= outAt[t] + Ttl

OutInv == ListInv /\ Outlived

LEMMA NextOut ==
    ASSUME OutInv, [Next]_vars
    PROVE  OutInv'
<1> USE NoneIsNothing, TimesAssumption
<1>0. TypeOK /\ TypeOK' /\ Nearby /\ Outlived /\ ListInv'
  BY NextList, NextType DEF OutInv, ListInv
<1> SUFFICES Outlived'
  BY <1>0 DEF OutInv
<1>1. ASSUME UNCHANGED <<claims, outAt>>
      PROVE  Outlived'
  BY <1>0, <1>1 DEF Outlived
<1>2. ASSUME NEW t \in Tokens, Issue(t)
      PROVE  Outlived'
  <2>1. \A u \in Tokens : claims[u] # None => claims'[u] = claims[u]
    BY <1>0, <1>2 DEF Issue, TypeOK
  <2>2. outAt' = outAt
    BY <1>2 DEF Issue
  <2> QED
    BY <1>0, <2>1, <2>2 DEF Outlived
<1>3. ASSUME NEW h \in Handlers, Return(h)
      PROVE  Outlived'
  <2>1. claims' = claims
    BY <1>3 DEF Return, process
  <2>2. CASE outAt' = outAt
    BY <1>1, <2>1, <2>2
  <2>3. CASE outAt' = [outAt EXCEPT ![token[h]] = latest]
    <3>1. token[h] \in Tokens /\ claims[token[h]] # None
      <4>1. pc[h] # "idle"
        BY <1>3 DEF Return
      <4> QED
        BY <1>0, <4>1 DEF TypeOK
    <3>2. outAt'[token[h]] = latest /\ \A t \in Tokens : t # token[h] => outAt'[t] = outAt[t]
      BY <1>0, <2>3, <3>1 DEF TypeOK
    <3>3. claims[token[h]].exp <= latest + Ttl
      BY <1>0, <3>1 DEF Nearby
    <3> QED
      BY <1>0, <2>1, <3>1, <3>2, <3>3 DEF Outlived
  <2> QED
    BY <1>3, <2>2, <2>3 DEF Return
<1>4. ASSUME NEW second \in 0..LastSecond, SetClock(second)
      PROVE  Outlived'
  BY <1>1, <1>4 DEF SetClock, process
<1>5. CASE Moves
  BY <1>1, <1>5 DEF Moves, Restart, Rotate, DropRetired, Boot
<1>6. ASSUME NEW h \in Handlers,
             Arrive(h) \/ Decode(h) \/ Consult(h) \/ ReadClock(h) \/ Revoke(h)
      PROVE  Outlived'
  BY <1>1, <1>6 DEF Arrive, Decode, Consult, ReadClock, Revoke, process
<1>7. CASE UNCHANGED vars
  BY <1>1, <1>7 DEF vars
<1> QED
  BY <1>2, <1>3, <1>4, <1>5, <1>6, <1>7 DEF Next, Moves

(* A token is let pass no later than a lifetime and the leeway after its   *)
(* first logout was answered, however often the service restarts.          *)
THEOREM RestartsForgetBriefly == Spec => LogoutOutlivesRestart
<1> DEFINE Lets ==
      \A h \in Handlers :
          pc[h] = "decode" /\ pc'[h] = "consult" /\ outAt[token[h]] # None
          => now <= outAt[token[h]] + Ttl + Leeway
<1>1. Init => OutInv
  <2> SUFFICES ASSUME Init PROVE OutInv
    OBVIOUS
  <2>1. Stale = {}
    BY DEF Init, Stale
  <2> QED
    BY <2>1, InitType DEF Init, OutInv, Outlived, ListInv, AtMostOne, Nearby
<1>2. OutInv /\ [Next]_vars => OutInv'
  BY NextOut
<1>3. OutInv /\ [Next]_vars => [Lets]_vars
  <2> SUFFICES ASSUME OutInv, Next, NEW h \in Handlers,
                      pc[h] = "decode", pc'[h] = "consult", outAt[token[h]] # None
               PROVE  now <= outAt[token[h]] + Ttl + Leeway
    BY DEF vars
  <2>1. TypeOK /\ Outlived
    BY DEF OutInv, ListInv
  <2>2. Decode(h)
    <3>1. \A other \in Handlers :
             Arrive(other) \/ Consult(other) \/ ReadClock(other) \/ Revoke(other) \/ Return(other)
             => pc'[h] # "consult" \/ pc[h] # "decode"
      BY <2>1 DEF Arrive, Consult, ReadClock, Revoke, Return, Go, TypeOK
    <3>2. \A other \in Handlers : Decode(other) => other = h \/ pc'[h] = pc[h]
      BY <2>1 DEF Decode, Go, TypeOK
    <3>3. ~(\E second \in 0..LastSecond : SetClock(second)) /\ ~(\E t \in Tokens : Issue(t))
      BY DEF SetClock, Issue, handler
    <3>4. ~Moves
      BY DEF Moves, Restart, Rotate, DropRetired, Boot
    <3> QED
      BY <3>1, <3>2, <3>3, <3>4 DEF Next, Moves
  <2>3. token[h] \in Tokens /\ claims[token[h]] \in Claims
    BY <2>1 DEF TypeOK
  <2>4. Current(claims[token[h]])
    BY <2>1, <2>2 DEF Decode, Go, TypeOK
  <2>5. claims[token[h]].exp <= outAt[token[h]] + Ttl
    BY <2>1, <2>3 DEF Outlived
  <2>6. claims[token[h]].exp \in Nat /\ outAt[token[h]] \in Nat /\ now \in Nat
    BY <2>1, <2>3, ClaimFields DEF TypeOK
  <2> QED
    BY <2>4, <2>5, <2>6, TimesAssumption DEF Current
<1> QED
  BY <1>1, <1>2, <1>3, PTL DEF Spec, LogoutOutlivesRestart
=============================================================================
