------------------------ MODULE MemoryStoreRefinement ------------------------
(***************************************************************************)
(* MemoryStore implements ProfileContract: its callers cannot tell it from *)
(* a store that answers every call in one indivisible step.                *)
(***************************************************************************)
EXTENDS MemoryStoreProofs

(* The log of a user that nobody is writing is the whole history; in any   *)
(* case its length is the version of the projection.                       *)
LEMMA LogFacts ==
    ASSUME Inv, NEW u \in Users
    PROVE  /\ PublishedLog[u] \in Seq(Inputs)
           /\ Len(PublishedLog[u]) = Height(u)
           /\ Height(u) \in Nat
           /\ (PublishedLog[u] = <<>>) <=> (current[u] = None)
           /\ current[u] # None => /\ current[u] \in Profiles
                                   /\ current[u].version \in Versions
                                   /\ current[u] = Contract!Latest(u)
           /\ \A i \in 1..Height(u) : /\ revisions[u][i] \in Profiles
                                      /\ PublishedLog[u][i] = revisions[u][i].input
<1> USE NoneIsNothing
<1>1. current[u] \in Profiles \cup {None} /\ revisions[u] \in Seq(Profiles)
  BY DEF Inv, Shape, TypeOK, Typing
<1>2. CASE current[u] = None
  BY <1>2 DEF PublishedLog, Height
<1>3. CASE current[u] # None
  <2> DEFINE n == current[u].version
  <2>1. n \in Versions /\ n \in Nat /\ n > 0
    BY <1>1, <1>3, ProfileForms DEF Versions
  <2>2. n <= Len(revisions[u]) /\ revisions[u][n] = current[u]
    BY <1>3 DEF Inv, Records, Retained
  <2>3. PublishedLog[u] = [i \in 1..n |-> revisions[u][i].input] /\ Height(u) = n
    BY <1>3 DEF PublishedLog, Height
  <2>4. \A i \in 1..n : revisions[u][i] \in Profiles /\ revisions[u][i].input \in Inputs
    BY <1>1, <2>1, <2>2, ProfileForms
  <2> HIDE DEF n
  <2>5. PublishedLog[u] \in Seq(Inputs) /\ Len(PublishedLog[u]) = n
    BY <2>1, <2>3, <2>4
  <2>6. PublishedLog[u] # <<>>
    BY <2>1, <2>5
  <2>7. PublishedLog[u][n] = current[u].input
    BY <2>1, <2>2, <2>3
  <2>8. current[u] = Profile(n, current[u].input)
    BY <1>1, <1>3 DEF n, Profiles, Profile
  <2>9. current[u] = Contract!Latest(u)
    BY <2>5, <2>7, <2>8 DEF Contract!Latest, Contract!Profile, Profile
  <2> QED BY <1>1, <1>3, <2>1, <2>3, <2>4, <2>5, <2>6, <2>9 DEF n
<1> QED BY <1>2, <1>3

(* The contract's vocabulary is the store's own.                           *)
LEMMA SameWords ==
    /\ Contract!Requests = Requests
    /\ \A v, i : Contract!Profile(v, i) = Profile(v, i)
    /\ \A k, p : Contract!Holding(k, p) = Holding(k, p)
    /\ \A k : Contract!Plain(k) = Plain(k)
    /\ \A v : Contract!Stale(v) = Stale(v)
    /\ \A h : Contract!History(h) = History(h)
BY DEF Contract!Requests, Requests, Contract!Profile, Profile, Contract!Holding, Holding,
       Contract!Plain, Plain, Contract!Stale, Stale, Contract!History, History

(* A log changes only where its record's projection does.                  *)
LEMMA SameLog ==
    ASSUME Inv, Inv', UNCHANGED current, Next
    PROVE  PublishedLog' = PublishedLog
<1>1. ASSUME NEW u \in Users, current[u] # None, NEW i \in 1..current[u].version
      PROVE  revisions'[u][i] = revisions[u][i]
  <2>1. Extends(revisions'[u], revisions[u])
    <3>1. CASE revisions'[u] = revisions[u]
      BY <3>1 DEF Extends, Inv, Shape, TypeOK, Typing
    <3>2. CASE revisions'[u] # revisions[u]
      <4>1. PICK c \in Callers : Create(c) \/ Push(c)
        BY <3>2 DEF Next, Step, Invoke, Slot, Load, Lock, Clone, Check, Publish, Unlock,
                    Return, store
      <4>2. Push(c) /\ request[c].user = u
        BY <1>1, <3>2, <4>1 DEF Create, Push, store, Inv, Shape, TypeOK, Typing
      <4>3. revisions'[u] = Append(revisions[u], draft[c]) /\ draft[c] \in Profiles
            /\ revisions[u] \in Seq(Profiles)
        BY <4>2, WriterFacts DEF Push, Inv, Shape, TypeOK, Typing
      <4> QED BY <4>3 DEF Extends
    <3> QED BY <3>1, <3>2
  <2>2. current[u].version <= Len(revisions[u]) /\ current[u].version \in Nat
        /\ Len(revisions[u]) \in Nat
    BY <1>1, ProfileForms DEF Inv, Records, Retained, Shape, TypeOK, Typing, Versions
  <2> QED BY <1>1, <2>1, <2>2 DEF Extends
<1>2. \A u \in Users : current[u] # None =>
          [i \in 1..current[u].version |-> revisions[u][i].input]
              = [i \in 1..current[u].version |-> revisions'[u][i].input]
  BY <1>1
<1> QED BY <1>2 DEF PublishedLog

LEMMA InitRefines == Init => Contract!Init
BY DEF Init, Contract!Init, PublishedLog

LEMMA CreateRefines ==
    ASSUME Inv, Inv', NEW c \in Callers, Create(c)
    PROVE  Contract!Create(c)
<1> DEFINE u == request[c].user
           first == Profile(1, request[c].input)
<1>1. request[c] \in Requests /\ request[c] # None /\ request[c].op = "create" /\ u \in Users
      /\ reply[c] = None
  <2>1. request[c] # None /\ request[c].op = "create" /\ reply[c] = None
    BY DEF Create, Inv, Shape, TypeOK, CallShape
  <2>2. request[c] \in Requests
    BY <2>1 DEF Inv, Shape, TypeOK, Typing
  <2> QED
    BY <2>1, <2>2, RequestFields
<1>2. Contract!Pending(c, "create")
  BY <1>1 DEF Contract!Pending
<1>3. CASE current[u] # None /\ Answer(c, Plain("exists")) /\ UNCHANGED store
  <2>1. PublishedLog[u] # <<>> /\ PublishedLog' = PublishedLog
    BY <1>1, <1>3, LogFacts DEF PublishedLog, store
  <2> QED BY <1>2, <1>3, <2>1, SameWords DEF Contract!Create, Contract!Answer, Answer
<1>4. CASE /\ current[u] = None
           /\ current' = [current EXCEPT ![u] = first]
           /\ revisions' = [revisions EXCEPT ![u] = <<first>>]
           /\ Answer(c, Holding("created", first))
  <2>1. PublishedLog[u] = <<>>
    BY <1>1, <1>4, LogFacts
  <2>2. /\ current'[u] = first /\ revisions'[u] = <<first>> /\ first # None
        /\ first.version = 1 /\ first.input = request[c].input
        /\ \A v \in Users \ {u} : current'[v] = current[v] /\ revisions'[v] = revisions[v]
    BY <1>1, <1>4, NoneIsNothing, FirstVersion, ProfileForms, RequestFields
       DEF Inv, Shape, TypeOK, Typing, Profile
  <2>3. [i \in 1..1 |-> revisions'[u][i].input] = <<request[c].input>>
    BY <2>2
  <2>4. PublishedLog' = [PublishedLog EXCEPT ![u] = <<request[c].input>>]
    <3> HIDE DEF first
    <3>1. current'[u] # None /\ current'[u].version = 1
      BY <2>2
    <3>2. PublishedLog'[u] = <<request[c].input>>
      BY <1>1, <2>3, <3>1 DEF PublishedLog
    <3>3. \A v \in Users \ {u} : PublishedLog'[v] = PublishedLog[v]
      BY <2>2 DEF PublishedLog
    <3>4. /\ PublishedLog = [v \in Users |-> PublishedLog[v]]
          /\ PublishedLog' = [v \in Users |-> PublishedLog'[v]]
      BY DEF PublishedLog
    <3> QED BY <1>1, <3>2, <3>3, <3>4
  <2> QED BY <1>2, <1>4, <2>1, <2>4, SameWords DEF Contract!Create, Contract!Answer, Answer
<1> QED BY <1>3, <1>4 DEF Create

LEMMA ReadRefines ==
    ASSUME Inv, Inv', NEW c \in Callers, Slot(c) \/ Load(c) \/ Clone(c),
           PublishedLog' = PublishedLog
    PROVE  \/ Contract!Get(c) \/ Contract!Update(c) \/ Contract!ReadHistory(c)
           \/ UNCHANGED <<PublishedLog, request, reply>>
<1> DEFINE u == request[c].user
<1>1. /\ request[c] \in Requests /\ request[c] # None /\ u \in Users
      /\ request[c].op \in {"get", "update", "history"} /\ reply[c] = None
  BY RequestFields, NoneIsNothing DEF Slot, Load, Clone, Inv, Shape, TypeOK, Typing, CallShape
<1>2. \A op \in {"get", "update", "history"} : request[c].op = op => Contract!Pending(c, op)
  BY <1>1 DEF Contract!Pending
<1>3. CASE Slot(c) /\ current[u] # None
  BY <1>3 DEF Slot, calls
<1>4. CASE Slot(c) /\ current[u] = None
  <2>1. PublishedLog[u] = <<>>
    BY <1>1, <1>4, LogFacts
  <2>2. CASE request[c].op = "get"
    BY <1>2, <1>4, <2>1, <2>2, SameWords DEF Slot, Answer, Contract!Get, Contract!Answer
  <2>3. CASE request[c].op = "update"
    <3>1. ~Contract!Exhausts(u, request[c].expected)
      BY <2>1, LastVersionAssumption DEF Contract!Exhausts
    <3> QED BY <1>2, <1>4, <2>1, <2>3, <3>1, SameWords
            DEF Slot, Answer, Contract!Update, Contract!Answer
  <2>4. CASE request[c].op = "history"
    <3>1. [i \in 1..Len(PublishedLog[u]) |-> Contract!Profile(i, PublishedLog[u][i])] = <<>>
      BY <2>1
    <3> QED BY <1>2, <1>4, <2>4, <3>1, SameWords
            DEF Slot, Answer, Contract!ReadHistory, Contract!Answer
  <2> QED BY <1>1, <2>2, <2>3, <2>4
<1>5. CASE Load(c)
  <2>1. request[c].op = "get" /\ current[u] # None
    BY <1>5 DEF Load, Inv, Shape, TypeOK, CallShape, Found
  <2>2. PublishedLog[u] # <<>> /\ current[u] = Contract!Latest(u)
    BY <1>1, <2>1, LogFacts
  <2> QED BY <1>2, <1>5, <2>1, <2>2, SameWords DEF Load, Answer, Contract!Get, Contract!Answer
<1>6. CASE Clone(c)
  <2>1. request[c].op = "history" /\ current[u] # None /\ holder[u] = None
    BY <1>6 DEF Clone, Inv, Shape, TypeOK, CallShape, Found
  <2>2. \A d \in Callers : ~Between(u, d)
    BY <1>1, <2>1, NoneIsNothing DEF Between, Inv, MutexOwned, Locked
  <2>3. Len(revisions[u]) = Height(u) /\ Numbered(u) /\ revisions[u] \in Seq(Profiles)
    BY <1>1, <2>2 DEF Inv, Records, Shape, TypeOK, Typing
  <2>4. \A i \in 1..Height(u) : revisions[u][i] = Profile(i, PublishedLog[u][i])
    BY <1>1, <2>3, LogFacts DEF Numbered, Profiles, Profile
  <2>5. [i \in 1..Len(PublishedLog[u]) |-> Contract!Profile(i, PublishedLog[u][i])]
            = revisions[u]
    <3>1. Len(PublishedLog[u]) = Len(revisions[u])
      BY <1>1, <2>1, <2>3, LogFacts
    <3>2. \A i \in 1..Len(revisions[u]) :
             Contract!Profile(i, PublishedLog[u][i]) = revisions[u][i]
      BY <2>3, <2>4, SameWords
    <3>3. revisions[u] = [i \in 1..Len(revisions[u]) |-> revisions[u][i]]
      BY <2>3
    <3> QED
      BY <3>1, <3>2, <3>3
  <2> QED BY <1>2, <1>6, <2>1, <2>5, SameWords
          DEF Clone, Answer, Contract!ReadHistory, Contract!Answer
<1> QED BY <1>3, <1>4, <1>5, <1>6

LEMMA CheckRefines ==
    ASSUME Inv, Inv', NEW c \in Callers, Check(c), PublishedLog' = PublishedLog
    PROVE  Contract!Update(c) \/ UNCHANGED <<PublishedLog, request, reply>>
<1> DEFINE u == request[c].user
           version == current[u].version
           expected == request[c].expected
<1>1. /\ request[c] \in Requests /\ request[c] # None /\ u \in Users
      /\ request[c].op = "update" /\ reply[c] = None /\ expected \in Nat
  BY RequestFields, NoneIsNothing, NamedAssumption
     DEF Check, Inv, Shape, TypeOK, Typing, CallShape, Locked
<1>2. Contract!Pending(c, "update")
  BY <1>1 DEF Contract!Pending
<1>3. current[u] # None
  BY DEF Check, Inv, Shape, Found, Locked
<1>4. PublishedLog[u] # <<>> /\ Len(PublishedLog[u]) = version /\ version \in Nat
  BY <1>1, <1>3, LogFacts DEF Height
<1>5. CASE version # expected /\ Answer(c, Stale(version))
  <2>1. ~Contract!Exhausts(u, expected)
    BY <1>4, <1>5 DEF Contract!Exhausts
  <2> QED BY <1>2, <1>4, <1>5, <2>1, SameWords DEF Answer, Contract!Update, Contract!Answer
<1>6. CASE version = expected /\ version = LastVersion /\ Answer(c, Plain("exhausted"))
  <2>1. Contract!Exhausts(u, expected)
    BY <1>4, <1>6, LastVersionAssumption DEF Contract!Exhausts
  <2> QED BY <1>2, <1>6, <2>1, SameWords DEF Answer, Contract!Update, Contract!Answer
<1> QED BY <1>5, <1>6 DEF Check, Mismatch, Exhausted, calls

LEMMA PublishRefines ==
    ASSUME Inv, Inv', NEW c \in Callers, Publish(c)
    PROVE  Contract!Update(c)
<1> DEFINE u == request[c].user
           n == request[c].expected
<1>1. /\ request[c] \in Requests /\ request[c] # None /\ u \in Users
      /\ request[c].op = "update" /\ reply[c] = None /\ request[c].input \in Inputs
      /\ current[u] \in Profiles /\ draft[c] \in Profiles
      /\ n = current[u].version /\ Drafted(c)
  BY WriterFacts, RequestFields, NoneIsNothing DEF Publish, Inv, Drafts
<1>2. Contract!Pending(c, "update")
  BY <1>1 DEF Contract!Pending
<1>3. /\ PublishedLog[u] # <<>> /\ Len(PublishedLog[u]) = n /\ n \in Nat
      /\ PublishedLog[u] \in Seq(Inputs) /\ Height(u) = n
  BY <1>1, NoneIsNothing, LogFacts DEF Height
<1>4. draft[c] = Profile(n + 1, request[c].input)
  BY <1>1 DEF Drafted
<1>5. ~Contract!Exhausts(u, n)
  <2>1. n + 1 \in Versions
    BY <1>1, <1>4, ProfileForms DEF Profile
  <2> QED BY <1>3, <2>1, LastVersionAssumption DEF Contract!Exhausts, Versions
<1>6. /\ current'[u] = draft[c] /\ request'[c] = request[c]
      /\ revisions' = revisions
      /\ \A v \in Users \ {u} : current'[v] = current[v]
  BY <1>1 DEF Publish, Answer, Inv, Shape, TypeOK, Typing
<1>7. revisions[u][n + 1] = draft[c]
  BY <1>1, <1>3 DEF Publish, Inv, Records, Between
<1>8. PublishedLog'[u] = Append(PublishedLog[u], request[c].input)
  <2>1. current'[u] # None /\ current'[u].version = n + 1
    BY <1>1, <1>4, <1>6, NoneIsNothing DEF Profile
  <2>2. PublishedLog'[u] = [i \in 1..(n + 1) |-> revisions[u][i].input]
    BY <1>1, <1>6, <2>1 DEF PublishedLog
  <2>3. PublishedLog[u] = [i \in 1..n |-> revisions[u][i].input]
    BY <1>1, NoneIsNothing DEF PublishedLog
  <2>4. revisions[u][n + 1].input = request[c].input
    BY <1>4, <1>7 DEF Profile
  <2> HIDE DEF n, u
  <2>5. \A i \in 1..n : PublishedLog[u][i] = revisions[u][i].input
    BY <2>3
  <2>6. Append(PublishedLog[u], request[c].input)
            = [i \in 1..(n + 1) |-> IF i = n + 1 THEN request[c].input ELSE PublishedLog[u][i]]
    BY <1>1, <1>3
  <2>7. \A i \in 1..(n + 1) : i # n + 1 => i \in 1..n
    BY <1>3
  <2>8. \A i \in 1..(n + 1) :
            revisions[u][i].input
                = IF i = n + 1 THEN request[c].input ELSE PublishedLog[u][i]
    BY <2>4, <2>5, <2>7
  <2> QED BY <2>2, <2>6, <2>8
<1>9. PublishedLog' = [PublishedLog EXCEPT ![u] = Append(@, request[c].input)]
  <2>1. \A v \in Users \ {u} : PublishedLog'[v] = PublishedLog[v]
    BY <1>6 DEF PublishedLog
  <2>2. /\ PublishedLog = [v \in Users |-> PublishedLog[v]]
        /\ PublishedLog' = [v \in Users |-> PublishedLog'[v]]
    BY DEF PublishedLog
  <2> QED BY <1>1, <1>8, <2>1, <2>2
<1>10. Contract!Answer(c, Holding("applied", Profile(n + 1, request[c].input)))
  BY <1>4 DEF Publish, Answer, Contract!Answer
<1> QED BY <1>2, <1>3, <1>5, <1>9, <1>10, SameWords DEF Contract!Update

LEMMA NextRefines ==
    ASSUME Inv, Inv', [Next]_vars
    PROVE  [Contract!Next]_(Contract!vars)
<1>1. CASE UNCHANGED vars
  BY <1>1 DEF vars, Contract!vars, PublishedLog
<1>2. ASSUME NEW c \in Callers, Invoke(c)
      PROVE  Contract!Next
  <2>1. PublishedLog' = PublishedLog
    BY <1>2 DEF Invoke, store, PublishedLog
  <2>2. request[c] = None
    BY <1>2 DEF Invoke, Inv, Shape, TypeOK, CallShape
  <2>3. Contract!Begin(c)
    BY <1>2, <2>1, <2>2, SameWords DEF Invoke, Contract!Begin
  <2> QED BY <2>3 DEF Contract!Next
<1>3. ASSUME NEW c \in Callers, Create(c)
      PROVE  Contract!Next
  BY <1>3, CreateRefines DEF Contract!Next
<1>4. ASSUME NEW c \in Callers, Publish(c)
      PROVE  Contract!Next
  BY <1>4, PublishRefines DEF Contract!Next
<1>5. ASSUME NEW c \in Callers, Slot(c) \/ Load(c) \/ Clone(c)
      PROVE  Contract!Next \/ UNCHANGED Contract!vars
  <2>1. PublishedLog' = PublishedLog
    BY <1>5, SameLog DEF Slot, Load, Clone, store, Next, Step
  <2> QED BY <1>5, <2>1, ReadRefines DEF Contract!Next, Contract!vars
<1>6. ASSUME NEW c \in Callers, Check(c)
      PROVE  Contract!Next \/ UNCHANGED Contract!vars
  <2>1. PublishedLog' = PublishedLog
    BY <1>6, SameLog DEF Check, store, Next, Step
  <2> QED BY <1>6, <2>1, CheckRefines DEF Contract!Next, Contract!vars
<1>7. ASSUME NEW c \in Callers, Lock(c) \/ Push(c) \/ Unlock(c)
      PROVE  UNCHANGED Contract!vars
  <2>1. PublishedLog' = PublishedLog
    BY <1>7, SameLog DEF Lock, Push, Unlock, store, Next, Step
  <2> QED BY <1>7, <2>1 DEF Lock, Push, Unlock, calls, Contract!vars
<1>8. ASSUME NEW c \in Callers, Return(c)
      PROVE  Contract!Next
  <2>1. PublishedLog' = PublishedLog
    BY <1>8 DEF Return, store, PublishedLog
  <2>2. reply[c] # None
    BY <1>8 DEF Return, Inv, Shape, TypeOK, CallShape
  <2>3. Contract!End(c)
    BY <1>8, <2>1, <2>2 DEF Return, Contract!End
  <2> QED BY <2>3 DEF Contract!Next
<1> QED
  BY <1>1, <1>2, <1>3, <1>4, <1>5, <1>6, <1>7, <1>8 DEF Next, Step

(* The in-memory store is linearizable: every behaviour of it is one of    *)
(* the contract, each call taking effect at a single step.                 *)
THEOREM MemoryStoreImplementsContract == Spec => ContractSpec
<1>1. Init => Contract!Init
  BY InitRefines
<1>2. Inv /\ Inv' /\ [Next]_vars => [Contract!Next]_(Contract!vars)
  BY NextRefines
<1> QED BY <1>1, <1>2, AlwaysInv, PTL DEF Spec, ContractSpec, Contract!Spec
=============================================================================
