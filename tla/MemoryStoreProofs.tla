-------------------------- MODULE MemoryStoreProofs --------------------------
(***************************************************************************)
(* Proofs about MemoryStore, for every number of users, callers, payloads  *)
(* and versions.                                                           *)
(***************************************************************************)
EXTENDS MemoryStore, TLAPS

(* A call past its lookup has found a record, and records are never        *)
(* removed.                                                                *)
Found ==
    \A c \in Callers :
        pc[c] \in {"load", "lock"} \cup Locked => current[request[c].user] # None

Shape == TypeOK /\ Found

LEMMA RequestFields ==
    ASSUME NEW r \in Requests
    PROVE  /\ r.op \in {"create", "get", "history", "update"}
           /\ r.user \in Users
           /\ r.op \in {"create", "update"} => r.input \in Inputs
           /\ r.op = "update" => r.expected \in Named
BY DEF Requests

LEMMA ReplyForms ==
    /\ \A k \in {"created", "found", "applied"}, p \in Profiles : Holding(k, p) \in Replies
    /\ \A k \in {"exists", "missing", "exhausted", "backend"} : Plain(k) \in Replies
    /\ \A v \in Versions : Stale(v) \in Replies
    /\ \A s \in Seq(Profiles) : History(s) \in Replies
BY DEF Replies, Holding, Plain, Stale, History

LEMMA ProfileForms ==
    /\ \A v \in Versions, i \in Inputs : Profile(v, i) \in Profiles
    /\ \A p \in Profiles : p.version \in Versions /\ p.input \in Inputs
BY DEF Profiles, Profile

LEMMA NoneIsNothing ==
    /\ None \notin Callers
    /\ None \notin Profiles
    /\ None \notin Requests
    /\ None \notin Replies
BY NoneAssumption

LEMMA FirstVersion == 1 \in Versions
BY LastVersionAssumption DEF Versions

LEMMA InitShape == Init => Shape
BY DEF Init, Shape, TypeOK, Typing, CallShape, Found, Steps, Locked

LEMMA NextShape ==
    ASSUME Shape, [Next]_vars
    PROVE  Shape'
<1> USE NoneIsNothing
<1> USE DEF Shape, TypeOK
<1>1. CASE UNCHANGED vars
  BY <1>1 DEF vars, Typing, CallShape, Found, Locked
<1>2. ASSUME NEW c \in Callers, Invoke(c)
      PROVE  Shape'
  <2>1. PICK r \in Requests : /\ request' = [request EXCEPT ![c] = r]
                              /\ Go(c, IF r.op = "create" THEN "create" ELSE "slot")
    BY <1>2 DEF Invoke
  <2>2. Typing'
    BY <1>2, <2>1 DEF Invoke, Go, Typing, Steps, store
  <2>3. CallShape'
    BY <1>2, <2>1, RequestFields DEF Invoke, Go, Typing, CallShape, Locked
  <2>4. Found'
    BY <1>2, <2>1 DEF Invoke, Go, Typing, Found, Locked, store
  <2> QED BY <2>2, <2>3, <2>4
<1>3. ASSUME NEW c \in Callers, Create(c)
      PROVE  Shape'
  <2>1. request[c] \in Requests /\ request[c].op = "create"
    BY <1>3 DEF Create, Typing, CallShape
  <2>2. request[c].user \in Users /\ Profile(1, request[c].input) \in Profiles
    BY <2>1, RequestFields, FirstVersion, ProfileForms
  <2> DEFINE first == Profile(1, request[c].input)
  <2>a. CASE UNCHANGED store /\ Answer(c, Plain("exists"))
    <3>1. Typing'
      BY <1>3, <2>a, ReplyForms DEF Create, Answer, Go, Typing, Steps, store
    <3>2. CallShape'
      BY <1>3, <2>a, <2>1, ReplyForms DEF Create, Answer, Go, Typing, CallShape, Locked
    <3>3. Found'
      BY <1>3, <2>a DEF Create, Answer, Go, Typing, Found, Locked, store
    <3> QED BY <3>1, <3>2, <3>3
  <2>b. CASE /\ current' = [current EXCEPT ![request[c].user] = first]
             /\ revisions' = [revisions EXCEPT ![request[c].user] = <<first>>]
             /\ Answer(c, Holding("created", first))
    <3> HIDE DEF first
    <3>1. first \in Profiles /\ <<first>> \in Seq(Profiles)
      BY <2>2 DEF first
    <3>2. Typing'
      BY <1>3, <2>b, <2>2, <3>1, ReplyForms DEF Create, Answer, Go, Typing, Steps
    <3>3. CallShape'
      BY <1>3, <2>b, <2>1, <3>1, ReplyForms DEF Create, Answer, Go, Typing, CallShape, Locked
    <3>4. Found'
      BY <1>3, <2>b, <3>1 DEF Create, Answer, Go, Typing, Found, Locked
    <3> QED BY <3>2, <3>3, <3>4
  <2> QED BY <1>3, <2>a, <2>b DEF Create
<1>4. ASSUME NEW c \in Callers, Slot(c)
      PROVE  Shape'
  <2>1. request[c] \in Requests /\ request[c].op \in {"get", "history", "update"}
    BY <1>4, RequestFields DEF Slot, Typing, CallShape
  <2>2. <<>> \in Seq(Profiles)
    OBVIOUS
  <2>3. ASSUME NEW answer \in Replies, Answer(c, answer), Go(c, "return")
        PROVE  Shape'
    <3>1. Typing'
      BY <1>4, <2>3 DEF Slot, Answer, Go, Typing, Steps, store
    <3>2. CallShape'
      BY <1>4, <2>1, <2>3 DEF Slot, Answer, Go, Typing, CallShape, Locked
    <3>3. Found'
      BY <1>4, <2>3 DEF Slot, Answer, Go, Typing, Found, Locked, store
    <3> QED BY <3>1, <3>2, <3>3
  <2>4. CASE /\ current[request[c].user] # None
             /\ Go(c, IF request[c].op = "get" THEN "load" ELSE "lock")
             /\ UNCHANGED calls
    <3>1. Typing'
      BY <1>4, <2>4 DEF Slot, Go, Typing, Steps, store, calls
    <3>2. CallShape'
      BY <1>4, <2>1, <2>4 DEF Slot, Go, Typing, CallShape, Locked, calls
    <3>3. Found'
      BY <1>4, <2>4 DEF Slot, Go, Typing, Found, Locked, store, calls
    <3> QED BY <3>1, <3>2, <3>3
  <2>5. (IF request[c].op = "history" THEN History(<<>>) ELSE Plain("missing")) \in Replies
    BY <2>2, ReplyForms
  <2> QED BY <1>4, <2>3, <2>4, <2>5 DEF Slot
<1>5. ASSUME NEW c \in Callers, Load(c)
      PROVE  Shape'
  <2>1. request[c] \in Requests /\ current[request[c].user] \in Profiles
    BY <1>5, RequestFields DEF Load, Typing, CallShape, Found
  <2>2. Typing'
    BY <1>5, <2>1, ReplyForms DEF Load, Answer, Go, Typing, Steps, store
  <2>3. CallShape'
    BY <1>5, <2>1, ReplyForms DEF Load, Answer, Go, Typing, CallShape, Locked
  <2>4. Found'
    BY <1>5 DEF Load, Answer, Go, Typing, Found, Locked, store
  <2> QED BY <2>2, <2>3, <2>4
<1>6. ASSUME NEW c \in Callers, Lock(c)
      PROVE  Shape'
  <2>1. Typing'
    BY <1>6 DEF Lock, Go, Typing, Steps, store, calls
  <2>2. CallShape'
    BY <1>6 DEF Lock, Go, Typing, CallShape, Locked, calls
  <2>3. Found'
    BY <1>6 DEF Lock, Go, Typing, Found, Locked, store, calls
  <2> QED BY <2>1, <2>2, <2>3
<1>7. ASSUME NEW c \in Callers, Clone(c)
      PROVE  Shape'
  <2>1. request[c] \in Requests /\ revisions[request[c].user] \in Seq(Profiles)
    BY <1>7, RequestFields DEF Clone, Typing, CallShape
  <2>2. Typing'
    BY <1>7, <2>1, ReplyForms DEF Clone, Answer, Go, Typing, Steps, store
  <2>3. CallShape'
    BY <1>7, <2>1, ReplyForms DEF Clone, Answer, Go, Typing, CallShape, Locked
  <2>4. Found'
    BY <1>7 DEF Clone, Answer, Go, Typing, Found, Locked, store
  <2> QED BY <2>2, <2>3, <2>4
<1>8. ASSUME NEW c \in Callers, Check(c)
      PROVE  Shape'
  <2> DEFINE version == current[request[c].user].version
             next == Profile(version + 1, request[c].input)
  <2>1. request[c] \in Requests /\ request[c].op = "update"
    BY <1>8 DEF Check, Typing, CallShape, Locked
  <2>2. current[request[c].user] \in Profiles
    BY <1>8, <2>1, RequestFields DEF Check, Typing, Found, Locked
  <2>3. version \in Versions
    BY <2>2, ProfileForms
  <2>4. ~Exhausted(version) => next \in Profiles
    <3>1. ~Exhausted(version) => version + 1 \in Versions
      BY <2>3, LastVersionAssumption DEF Exhausted, Versions
    <3> QED BY <2>1, <3>1, RequestFields, ProfileForms
  <2>5. Typing'
    <3>1. reply' \in [Callers -> Replies \cup {None}]
      <4>1. Stale(version) \in Replies /\ Plain("exhausted") \in Replies
        BY <2>3, ReplyForms
      <4>2. \/ reply' = reply
            \/ reply' = [reply EXCEPT ![c] = Stale(version)]
            \/ reply' = [reply EXCEPT ![c] = Plain("exhausted")]
        BY <1>8 DEF Check, Answer, calls
      <4> QED
        BY <4>1, <4>2 DEF Typing
    <3>2. draft' \in [Callers -> Profiles \cup {None}]
      BY <1>8, <2>4 DEF Check, Typing
    <3> QED
      BY <1>8, <3>1, <3>2 DEF Check, Answer, Go, Typing, Steps, store, calls
  <2>6. CallShape'
    BY <1>8, <2>1, <2>3, <2>4, ReplyForms
       DEF Check, Answer, Go, Typing, CallShape, Locked, calls
  <2>7. Found'
    BY <1>8, <2>1 DEF Check, Answer, Go, Typing, Found, Locked, store, calls
  <2> QED BY <2>5, <2>6, <2>7
<1>9. ASSUME NEW c \in Callers, Push(c)
      PROVE  Shape'
  <2>1. request[c] \in Requests /\ draft[c] \in Profiles
    BY <1>9 DEF Push, Typing, CallShape
  <2>2. Typing'
    BY <1>9, <2>1, RequestFields DEF Push, Go, Typing, Steps, calls
  <2>3. CallShape'
    BY <1>9 DEF Push, Go, Typing, CallShape, Locked, calls
  <2>4. Found'
    BY <1>9 DEF Push, Go, Typing, Found, Locked, calls
  <2> QED BY <2>2, <2>3, <2>4
<1>10. ASSUME NEW c \in Callers, Publish(c)
       PROVE  Shape'
  <2>1. request[c] \in Requests /\ draft[c] \in Profiles
    BY <1>10 DEF Publish, Typing, CallShape
  <2>2. Typing'
    BY <1>10, <2>1, RequestFields, ReplyForms DEF Publish, Answer, Go, Typing, Steps
  <2>3. CallShape'
    BY <1>10, <2>1, ReplyForms DEF Publish, Answer, Go, Typing, CallShape, Locked
  <2>4. Found'
    BY <1>10, <2>1 DEF Publish, Answer, Go, Typing, Found, Locked
  <2> QED BY <2>2, <2>3, <2>4
<1>11. ASSUME NEW c \in Callers, Unlock(c)
       PROVE  Shape'
  <2>1. Typing'
    BY <1>11 DEF Unlock, Go, Typing, Steps, store, calls
  <2>2. CallShape'
    BY <1>11 DEF Unlock, Go, Typing, CallShape, Locked, calls
  <2>3. Found'
    BY <1>11 DEF Unlock, Go, Typing, Found, Locked, store, calls
  <2> QED BY <2>1, <2>2, <2>3
<1>12. ASSUME NEW c \in Callers, Return(c)
       PROVE  Shape'
  <2>1. Typing'
    BY <1>12 DEF Return, Go, Typing, Steps, store
  <2>2. CallShape'
    BY <1>12 DEF Return, Go, Typing, CallShape, Locked
  <2>3. Found'
    BY <1>12 DEF Return, Go, Typing, Found, Locked, store
  <2> QED BY <2>1, <2>2, <2>3
<1> QED
  BY <1>1, <1>2, <1>3, <1>4, <1>5, <1>6, <1>7, <1>8, <1>9, <1>10, <1>11, <1>12
     DEF Next, Step

LEMMA AlwaysShape == Spec => []Shape
<1>1. Init => Shape
  BY InitShape
<1>2. Shape /\ [Next]_vars => Shape'
  BY NextShape
<1> QED BY <1>1, <1>2, PTL DEF Spec

(* Every variable keeps to its type, whatever the callers do: in           *)
(* particular no version passes LastVersion, and no call is answered       *)
(* before its last step.                                                   *)
THEOREM TypeCorrect == Spec => []TypeOK
<1>1. Shape => TypeOK
  BY DEF Shape
<1> QED BY <1>1, AlwaysShape, PTL
-----------------------------------------------------------------------------
(* The mutex: what holder says and where the callers are agree.            *)
LEMMA NextMutex ==
    ASSUME Shape, MutexOwned, [Next]_vars
    PROVE  MutexOwned'
<1> USE NoneIsNothing
<1> USE DEF Shape, TypeOK, Typing, MutexOwned
<1>1. CASE UNCHANGED vars
  BY <1>1 DEF vars
<1>2. ASSUME NEW c \in Callers, Invoke(c)
      PROVE  MutexOwned'
  BY <1>2 DEF Invoke, Go, Locked, store
<1>3. ASSUME NEW c \in Callers, Create(c)
      PROVE  MutexOwned'
  BY <1>3 DEF Create, Answer, Go, Locked
<1>4. ASSUME NEW c \in Callers, Slot(c)
      PROVE  MutexOwned'
  BY <1>4 DEF Slot, Answer, Go, Locked, calls
<1>5. ASSUME NEW c \in Callers, Load(c)
      PROVE  MutexOwned'
  BY <1>5 DEF Load, Answer, Go, Locked
<1>6. ASSUME NEW c \in Callers, Lock(c)
      PROVE  MutexOwned'
  <2>1. request[c].user \in Users
    BY <1>6, RequestFields DEF Lock, CallShape
  <2> QED BY <1>6, <2>1 DEF Lock, Go, Locked, calls
<1>7. ASSUME NEW c \in Callers, Clone(c)
      PROVE  MutexOwned'
  BY <1>7 DEF Clone, Answer, Go, Locked
<1>8. ASSUME NEW c \in Callers, Check(c)
      PROVE  MutexOwned'
  BY <1>8 DEF Check, Answer, Go, Locked, calls
<1>9. ASSUME NEW c \in Callers, Push(c)
      PROVE  MutexOwned'
  BY <1>9 DEF Push, Go, Locked, calls
<1>10. ASSUME NEW c \in Callers, Publish(c)
       PROVE  MutexOwned'
  BY <1>10 DEF Publish, Answer, Go, Locked
<1>11. ASSUME NEW c \in Callers, Unlock(c)
       PROVE  MutexOwned'
  <2>1. request[c].user \in Users
    BY <1>11, RequestFields DEF Unlock, CallShape
  <2> QED BY <1>11, <2>1 DEF Unlock, Go, Locked, calls
<1>12. ASSUME NEW c \in Callers, Return(c)
       PROVE  MutexOwned'
  BY <1>12 DEF Return, Go, Locked
<1> QED
  BY <1>1, <1>2, <1>3, <1>4, <1>5, <1>6, <1>7, <1>8, <1>9, <1>10, <1>11, <1>12
     DEF Next, Step

LEMMA InitMutex == Init => MutexOwned
BY NoneIsNothing DEF Init, MutexOwned, Locked

(* At most one caller is inside the critical section of a record, and the  *)
(* holder of its mutex is that caller.                                     *)
THEOREM MutualExclusion == Spec => []MutexOwned
<1>1. Init => Shape /\ MutexOwned
  BY InitShape, InitMutex
<1>2. Shape /\ MutexOwned /\ [Next]_vars => (Shape /\ MutexOwned)'
  BY NextShape, NextMutex
<1> QED BY <1>1, <1>2, PTL DEF Spec
-----------------------------------------------------------------------------
(* The inductive invariant behind the safety properties.  The projection   *)
(* of a record is one of its revisions, and the last one unless its writer *)
(* is between push and store; what a writer has drafted still follows the  *)
(* projection, since nobody else can have moved it; and what a caller has  *)
(* been told is already in the history.                                    *)
Height(u) == IF current[u] = None THEN 0 ELSE current[u].version

Numbered(u) == \A i \in 1..Len(revisions[u]) : revisions[u][i].version = i

Between(u, c) == pc[c] = "publish" /\ request[c].user = u

Records ==
    \A u \in Users :
        /\ Numbered(u)
        /\ current[u] # None => Retained(u, current[u])
        /\ (\A c \in Callers : ~Between(u, c)) => Len(revisions[u]) = Height(u)
        /\ \A c \in Callers :
              Between(u, c) => /\ Len(revisions[u]) = Height(u) + 1
                               /\ revisions[u][Len(revisions[u])] = draft[c]

Drafted(c) ==
    /\ request[c].expected = Height(request[c].user)
    /\ draft[c] = Profile(request[c].expected + 1, request[c].input)

Drafts == \A c \in Callers : pc[c] \in {"push", "publish"} => Drafted(c)

Told ==
    \A c \in Callers :
        /\ reply[c] # None /\ reply[c].kind \in {"created", "found", "applied"}
              => Retained(request[c].user, reply[c].profile)
        /\ reply[c] # None /\ reply[c].kind = "applied"
              => request[c].op = "update" /\ request[c].expected < Height(request[c].user)

Inv == Shape /\ MutexOwned /\ Records /\ Drafts /\ Told

(* Steps that touch neither the record nor a draft keep what is known of   *)
(* both, as long as they move no caller across a push or a publish.        *)
LEMMA QuietStep ==
    ASSUME Inv, Shape', MutexOwned', NEW c \in Callers,
           UNCHANGED <<store, draft>>,
           pc[c] \notin {"push", "publish"}, pc'[c] \notin {"push", "publish"},
           \A d \in Callers \ {c} : /\ pc'[d] = pc[d]
                                    /\ request'[d] = request[d]
    PROVE  Records' /\ Drafts'
<1> USE DEF store
<1>1. \A u \in Users, d \in Callers : Between(u, d)' <=> Between(u, d)
  BY DEF Between
<1>2. \A u \in Users : /\ Height(u)' = Height(u)
                       /\ Numbered(u)' <=> Numbered(u)
                       /\ current'[u] = current[u] /\ revisions'[u] = revisions[u]
                       /\ Retained(u, current[u])' <=> Retained(u, current[u])
  BY DEF Height, Numbered, Retained
<1>3. Records'
  BY <1>1, <1>2 DEF Inv, Records, Retained
<1>4. Drafts'
  <2>1. ASSUME NEW d \in Callers, pc'[d] \in {"push", "publish"}
        PROVE  Drafted(d)'
    <3>1. d # c /\ pc[d] \in {"push", "publish"} /\ request'[d] = request[d]
      BY <2>1
    <3>2. Drafted(d)
      BY <3>1 DEF Inv, Drafts
    <3> QED BY <3>1, <3>2 DEF Drafted, Height
  <2> QED BY <2>1 DEF Drafts
<1> QED BY <1>3, <1>4

(* A step that leaves the store alone tells callers nothing wrong about it *)
(* as long as the reply it gives is right.                                 *)
LEMMA QuietTold ==
    ASSUME Inv, UNCHANGED store, NEW c \in Callers,
           \A d \in Callers \ {c} : reply'[d] = reply[d] /\ request'[d] = request[d],
           reply'[c] # None =>
               /\ reply'[c].kind \in {"created", "found"}
                     => Retained(request'[c].user, reply'[c].profile)
               /\ reply'[c].kind = "applied"
                     => reply'[c] = reply[c] /\ request'[c] = request[c]
    PROVE  Told'
BY DEF Inv, Told, Retained, Height, store

LEMMA CreateInv ==
    ASSUME Inv, Shape', MutexOwned', NEW c \in Callers, Create(c)
    PROVE  Records' /\ Drafts' /\ Told'
<1> DEFINE u == request[c].user
           first == Profile(1, request[c].input)
<1> USE NoneIsNothing
<1>1. request[c] \in Requests /\ u \in Users /\ first \in Profiles
  <2>1. request[c] \in Requests /\ request[c].op = "create"
    BY DEF Inv, Shape, TypeOK, Typing, CallShape, Create
  <2> QED
    BY <2>1, RequestFields, FirstVersion, ProfileForms
<1>2. CASE UNCHANGED store /\ Answer(c, Plain("exists"))
  <2>1. Records' /\ Drafts'
    BY <1>2, QuietStep DEF Create, Answer, Go, Inv, Shape, TypeOK, Typing
  <2>2. Told'
    BY <1>2, QuietTold DEF Answer, Plain, Inv, Shape, TypeOK, Typing
  <2> QED BY <2>1, <2>2
<1>3. CASE /\ current[u] = None
           /\ current' = [current EXCEPT ![u] = first]
           /\ revisions' = [revisions EXCEPT ![u] = <<first>>]
           /\ Answer(c, Holding("created", first))
  <2>1. \A d \in Callers : ~Between(u, d) /\ (pc[d] \in {"push", "publish"} => request[d].user # u)
    BY <1>3 DEF Inv, Shape, Found, Locked, Between
  <2>2. Len(revisions[u]) = 0
    BY <1>1, <1>3, <2>1 DEF Inv, Records, Height
  <2>3. \A d \in Callers : /\ pc'[d] \in {"push", "publish"} => pc'[d] = pc[d]
                           /\ pc[d] \in {"push", "publish"} => pc'[d] = pc[d]
                           /\ request'[d] = request[d]
                           /\ draft'[d] = draft[d]
    BY <1>3 DEF Create, Go, Answer, Inv, Shape, TypeOK, Typing
  <2>4. \A v \in Users, d \in Callers : Between(v, d)' <=> Between(v, d)
    BY <2>3 DEF Between
  <2>5. current'[u] = first /\ revisions'[u] = <<first>> /\ first.version = 1
    BY <1>1, <1>3 DEF Inv, Shape, TypeOK, Typing, Profile
  <2>6. \A v \in Users \ {u} : current'[v] = current[v] /\ revisions'[v] = revisions[v]
    BY <1>3 DEF Inv, Shape, TypeOK, Typing
  <2>7. Records'
    <3>1. ASSUME NEW v \in Users
          PROVE  /\ Numbered(v)'
                 /\ (current[v] # None => Retained(v, current[v]))'
                 /\ ((\A d \in Callers : ~Between(v, d)) => Len(revisions[v]) = Height(v))'
                 /\ (\A d \in Callers :
                        Between(v, d) => /\ Len(revisions[v]) = Height(v) + 1
                                         /\ revisions[v][Len(revisions[v])] = draft[d])'
      <4>1. CASE v = u
        BY <4>1, <2>1, <2>4, <2>5, <1>1 DEF Numbered, Retained, Height
      <4>2. CASE v # u
        BY <4>2, <2>3, <2>4, <2>6 DEF Inv, Records, Numbered, Retained, Height
      <4> QED BY <4>1, <4>2
    <3> QED BY <3>1 DEF Records
  <2>8. Drafts'
    <3>1. ASSUME NEW d \in Callers, pc'[d] \in {"push", "publish"}
          PROVE  Drafted(d)'
      <4>1. Drafted(d) /\ pc[d] \in {"push", "publish"}
        BY <2>3, <3>1 DEF Inv, Drafts
      <4>2. request[d].user \in Users \ {u}
        BY <4>1, <2>1, RequestFields DEF Inv, Shape, TypeOK, Typing, CallShape
      <4> QED BY <4>1, <4>2, <2>3, <2>6 DEF Drafted, Height
    <3> QED BY <3>1 DEF Drafts
  <2>9. Told'
    <3>1. ASSUME NEW d \in Callers, d # c, reply'[d] # None
          PROVE  /\ reply'[d].kind \in {"created", "found", "applied"}
                      => Retained(request[d].user, reply[d].profile)'
                 /\ reply'[d].kind = "applied"
                      => (request[d].op = "update" /\ request[d].expected < Height(request[d].user))'
      <4>1. reply'[d] = reply[d] /\ request'[d] = request[d] /\ reply[d] \in Replies
        BY <1>3, <3>1 DEF Answer, Inv, Shape, TypeOK, Typing
      <4>2. request[d].user \in Users
        <5>1. request[d] # None
          BY <3>1, <4>1 DEF Inv, Shape, TypeOK, CallShape
        <5>2. request[d] \in Requests
          BY <5>1 DEF Inv, Shape, TypeOK, Typing
        <5> QED
          BY <5>2, RequestFields
      <4>3. CASE reply[d].kind \in {"created", "found", "applied"}
        <5>1. Retained(request[d].user, reply[d].profile)
          BY <4>1, <4>3 DEF Inv, Told
        <5>2. reply[d].profile \in Profiles
          BY <4>1, <4>3 DEF Replies
        <5>3. request[d].user # u
          BY <5>1, <5>2, <2>2, ProfileForms DEF Retained, Versions
        <5> QED BY <4>1, <4>2, <4>3, <5>1, <5>3, <2>6 DEF Retained, Height, Inv, Told
      <4> QED BY <4>1, <4>3
    <3>2. /\ reply'[c] = Holding("created", first) /\ request'[c] = request[c]
          /\ Retained(u, first)'
      BY <1>1, <1>3, <2>5 DEF Answer, Retained, Inv, Shape, TypeOK, Typing
    <3> QED BY <3>1, <3>2 DEF Told, Holding
  <2> QED BY <2>7, <2>8, <2>9
<1> QED BY <1>2, <1>3 DEF Create

(* What holds of a caller about to push or to publish: it is the only one  *)
(* inside its critical section, and its record is as it found it.          *)
LEMMA WriterFacts ==
    ASSUME Inv, NEW c \in Callers, pc[c] \in {"push", "publish"}
    PROVE  /\ request[c] \in Requests /\ request[c].op = "update"
           /\ request[c].user \in Users
           /\ current[request[c].user] \in Profiles
           /\ draft[c] \in Profiles
           /\ draft[c].version = current[request[c].user].version + 1
           /\ request[c].expected = current[request[c].user].version
           /\ reply[c] = None
           /\ \A d \in Callers \ {c} : ~(pc[d] \in Locked /\ request[d].user = request[c].user)
<1> USE NoneIsNothing DEF Inv, Shape, TypeOK
<1>1. request[c] \in Requests /\ request[c].op = "update" /\ draft[c] \in Profiles
  BY DEF Typing, CallShape, Locked
<1>2. request[c].user \in Users
  BY <1>1, RequestFields
<1>3. current[request[c].user] \in Profiles
  BY <1>2 DEF Typing, Found, Locked
<1>4. Drafted(c)
  BY DEF Drafts
<1>5. draft[c].version = current[request[c].user].version + 1
  BY <1>3, <1>4 DEF Drafted, Profile, Height
<1>6. request[c].expected = current[request[c].user].version
  BY <1>3, <1>4 DEF Drafted, Height
<1>7. holder[request[c].user] = c
  BY <1>2 DEF MutexOwned, Locked
<1>8. \A d \in Callers \ {c} : ~(pc[d] \in Locked /\ request[d].user = request[c].user)
  BY <1>2, <1>7 DEF MutexOwned
<1>9. reply[c] = None
  BY DEF CallShape
<1> QED BY <1>1, <1>2, <1>3, <1>5, <1>6, <1>8, <1>9

LEMMA PushInv ==
    ASSUME Inv, Shape', MutexOwned', NEW c \in Callers, Push(c)
    PROVE  Records' /\ Drafts' /\ Told'
<1> DEFINE u == request[c].user
           n == Len(revisions[u])
<1> USE NoneIsNothing
<1>1. /\ u \in Users /\ current[u] \in Profiles /\ draft[c] \in Profiles
      /\ draft[c].version = current[u].version + 1
      /\ \A d \in Callers \ {c} : ~(pc[d] \in Locked /\ request[d].user = u)
  BY WriterFacts DEF Push
<1>2. /\ \A v \in Users : current'[v] = current[v]
      /\ \A d \in Callers : /\ request'[d] = request[d] /\ reply'[d] = reply[d]
                            /\ draft'[d] = draft[d]
      /\ pc[c] = "push" /\ pc'[c] = "publish"
      /\ \A d \in Callers \ {c} : pc'[d] = pc[d]
  BY DEF Push, Go, calls, Inv, Shape, TypeOK, Typing
<1>3. /\ revisions'[u] = Append(revisions[u], draft[c])
      /\ \A v \in Users \ {u} : revisions'[v] = revisions[v]
      /\ \A v \in Users : revisions[v] \in Seq(Profiles)
  BY <1>1 DEF Push, Inv, Shape, TypeOK, Typing
<1>4. n = current[u].version /\ n \in Nat
  <2>1. \A d \in Callers : ~Between(u, d)
    BY <1>1, <1>2 DEF Between, Locked
  <2> QED BY <2>1, <1>1, <1>3 DEF Inv, Records, Height
<1>5. /\ Len(revisions'[u]) = n + 1
      /\ revisions'[u][n + 1] = draft[c]
      /\ \A i \in 1..n : revisions'[u][i] = revisions[u][i]
  BY <1>1, <1>3, <1>4
<1>6. \A v \in Users, p \in Profiles : Retained(v, p) => Retained(v, p)'
  <2> SUFFICES ASSUME NEW v \in Users, NEW p \in Profiles, Retained(v, p)
               PROVE  Retained(v, p)'
    OBVIOUS
  <2>1. CASE v # u
    BY <2>1, <1>3 DEF Retained
  <2>2. CASE v = u
    <3>1. p.version \in 1..n
      BY <2>2, <1>4, ProfileForms DEF Retained, Versions
    <3>2. revisions[u][p.version] = p
      BY <2>2 DEF Retained
    <3> HIDE DEF n, u
    <3>3. revisions'[u][p.version] = revisions[u][p.version]
      BY <3>1, <1>5
    <3>4. p.version <= n + 1
      BY <3>1, <1>4
    <3> QED BY <2>2, <3>2, <3>3, <3>4, <1>5 DEF Retained
  <2> QED BY <2>1, <2>2
<1>7. Records'
  <2>1. ASSUME NEW v \in Users
        PROVE  Numbered(v)'
    <3>1. CASE v = u
      <4>1. \A i \in 1..n : revisions'[u][i].version = i
        BY <1>1, <1>5 DEF Inv, Records, Numbered
      <4>2. revisions'[u][n + 1].version = n + 1
        BY <1>1, <1>4, <1>5
      <4> HIDE DEF n
      <4>3. \A i \in 1..(n + 1) : i \in 1..n \/ i = n + 1
        BY <1>4
      <4> QED BY <3>1, <4>1, <4>2, <4>3, <1>5 DEF Numbered
    <3>2. CASE v # u
      BY <3>2, <1>3 DEF Numbered, Inv, Records
    <3> QED BY <3>1, <3>2
  <2>2. ASSUME NEW v \in Users, current'[v] # None
        PROVE  Retained(v, current[v])'
    <3>1. current[v] \in Profiles /\ Retained(v, current[v])
      BY <2>2, <1>2 DEF Inv, Records, Shape, TypeOK, Typing
    <3> QED BY <3>1, <1>2, <1>6 DEF Retained
  <2>3. ASSUME NEW v \in Users, \A d \in Callers : ~Between(v, d)'
        PROVE  (Len(revisions[v]) = Height(v))'
    <3>1. v # u /\ \A d \in Callers : ~Between(v, d)
      BY <2>3, <1>2 DEF Between
    <3> QED BY <3>1, <1>2, <1>3 DEF Inv, Records, Height
  <2>4. ASSUME NEW v \in Users, NEW d \in Callers, Between(v, d)'
        PROVE  (/\ Len(revisions[v]) = Height(v) + 1
                /\ revisions[v][Len(revisions[v])] = draft[d])'
    <3>1. CASE d = c
      BY <3>1, <2>4, <1>1, <1>2, <1>4, <1>5 DEF Between, Height
    <3>2. CASE d # c
      <4>1. v # u /\ Between(v, d)
        BY <3>2, <2>4, <1>1, <1>2 DEF Between, Locked
      <4> QED BY <4>1, <1>2, <1>3 DEF Inv, Records, Height
    <3> QED BY <3>1, <3>2
  <2> QED BY <2>1, <2>2, <2>3, <2>4 DEF Records
<1>8. Drafts'
  BY <1>2 DEF Inv, Drafts, Drafted, Height, Push
<1>9. Told'
  <2>1. ASSUME NEW d \in Callers, reply[d] # None,
               reply[d].kind \in {"created", "found", "applied"}
        PROVE  Retained(request[d].user, reply[d].profile)'
    <3>1. reply[d] \in Replies /\ reply[d].profile \in Profiles
      BY <2>1 DEF Replies, Inv, Shape, TypeOK, Typing
    <3>2. request[d].user \in Users
      BY <2>1, RequestFields DEF Inv, Shape, TypeOK, Typing, CallShape
    <3>3. Retained(request[d].user, reply[d].profile)
      BY <2>1 DEF Inv, Told
    <3> QED BY <3>1, <3>2, <3>3, <1>2, <1>6 DEF Retained
  <2>2. ASSUME NEW d \in Callers, reply[d] # None, reply[d].kind = "applied"
        PROVE  (request[d].op = "update" /\ request[d].expected < Height(request[d].user))'
    BY <2>2, <1>2 DEF Push, Inv, Told, Height
  <2> QED BY <2>1, <2>2, <1>2 DEF Told
<1> QED BY <1>7, <1>8, <1>9

LEMMA PublishInv ==
    ASSUME Inv, Shape', MutexOwned', NEW c \in Callers, Publish(c)
    PROVE  Records' /\ Drafts' /\ Told'
<1> DEFINE u == request[c].user
<1> USE NoneIsNothing
<1>1. /\ request[c].op = "update" /\ u \in Users
      /\ current[u] \in Profiles /\ draft[c] \in Profiles
      /\ draft[c].version = current[u].version + 1
      /\ request[c].expected = current[u].version
      /\ \A d \in Callers \ {c} : ~(pc[d] \in Locked /\ request[d].user = u)
  BY WriterFacts DEF Publish
<1>2. /\ \A v \in Users : revisions'[v] = revisions[v]
      /\ current'[u] = draft[c]
      /\ \A v \in Users \ {u} : current'[v] = current[v]
      /\ \A d \in Callers : request'[d] = request[d]
      /\ \A d \in Callers \ {c} : /\ reply'[d] = reply[d] /\ draft'[d] = draft[d]
                                 /\ pc'[d] = pc[d]
      /\ reply'[c] = Holding("applied", draft[c])
      /\ pc[c] = "publish" /\ pc'[c] = "unlock"
  BY <1>1 DEF Publish, Answer, Go, Inv, Shape, TypeOK, Typing
<1>3. /\ Len(revisions[u]) = current[u].version + 1
      /\ revisions[u][Len(revisions[u])] = draft[c]
  BY <1>1, <1>2 DEF Inv, Records, Between, Height
<1>4. /\ current'[u].version = Len(revisions'[u])
      /\ revisions'[u][current'[u].version] = current'[u]
      /\ Len(revisions'[u]) \in Nat
  BY <1>1, <1>2, <1>3, ProfileForms DEF Versions
<1>5. \A v \in Users, p \in Profiles : Retained(v, p) => Retained(v, p)'
  BY <1>2 DEF Retained
<1>6. Records'
  <2>1. ASSUME NEW v \in Users
        PROVE  Numbered(v)'
    BY <1>2 DEF Numbered, Inv, Records
  <2>2. ASSUME NEW v \in Users, current'[v] # None
        PROVE  Retained(v, current[v])'
    <3>1. CASE v = u
      BY <3>1, <1>4 DEF Retained
    <3>2. CASE v # u
      BY <3>2, <2>2, <1>2 DEF Inv, Records, Retained
    <3> QED BY <3>1, <3>2
  <2>3. ASSUME NEW v \in Users, \A d \in Callers : ~Between(v, d)'
        PROVE  (Len(revisions[v]) = Height(v))'
    <3>1. CASE v = u
      BY <3>1, <1>1, <1>2, <1>3 DEF Height
    <3>2. CASE v # u
      <4>1. \A d \in Callers : ~Between(v, d)
        BY <3>2, <2>3, <1>2 DEF Between
      <4> QED BY <3>2, <4>1, <1>2 DEF Inv, Records, Height
    <3> QED BY <3>1, <3>2
  <2>4. ASSUME NEW v \in Users, NEW d \in Callers, Between(v, d)'
        PROVE  (/\ Len(revisions[v]) = Height(v) + 1
                /\ revisions[v][Len(revisions[v])] = draft[d])'
    <3>1. d # c /\ v # u /\ Between(v, d)
      BY <2>4, <1>1, <1>2 DEF Between, Locked
    <3> QED BY <3>1, <1>2 DEF Inv, Records, Height
  <2> QED BY <2>1, <2>2, <2>3, <2>4 DEF Records
<1>7. Drafts'
  <2>1. ASSUME NEW d \in Callers, pc'[d] \in {"push", "publish"}
        PROVE  Drafted(d)'
    <3>1. d # c /\ pc[d] \in {"push", "publish"} /\ request[d].user # u
      BY <2>1, <1>1, <1>2 DEF Locked
    <3>2. Drafted(d) /\ request[d].user \in Users
      BY <3>1, WriterFacts DEF Inv, Drafts
    <3> QED BY <3>1, <3>2, <1>2 DEF Drafted, Height
  <2> QED BY <2>1 DEF Drafts
<1>8. Told'
  <2>1. ASSUME NEW d \in Callers, d # c, reply[d] # None,
               reply[d].kind \in {"created", "found", "applied"}
        PROVE  Retained(request[d].user, reply[d].profile)'
    BY <2>1, <1>2 DEF Retained, Inv, Told, Publish
  <2>2. ASSUME NEW d \in Callers, d # c, reply[d] # None, reply[d].kind = "applied"
        PROVE  (request[d].op = "update" /\ request[d].expected < Height(request[d].user))'
    <3>1. request[d] \in Requests /\ request[d].op = "update"
      <4>1. request[d].op = "update"
        BY <2>2 DEF Inv, Told
      <4>2. request[d] # None
        BY <2>2 DEF Inv, Shape, TypeOK, Typing, CallShape
      <4> QED
        BY <4>1, <4>2 DEF Inv, Shape, TypeOK, Typing
    <3>2. request[d].expected < Height(request[d].user)
      BY <2>2 DEF Inv, Told
    <3>3. request[d].expected \in Nat
      BY <3>1, RequestFields, NamedAssumption
    <3>4. CASE request[d].user = u
      BY <3>1, <3>2, <3>3, <3>4, <1>1, <1>2, ProfileForms DEF Height, Versions
    <3>5. CASE request[d].user # u
      BY <3>1, <3>2, <3>5, <1>2, RequestFields DEF Height
    <3> QED BY <3>4, <3>5
  <2>3. /\ reply'[c].kind = "applied" /\ reply'[c].profile = draft[c]
        /\ request[c].expected < draft[c].version
    BY <1>1, <1>2, ProfileForms DEF Holding, Versions
  <2>4. Retained(request[c].user, reply[c].profile)'
    BY <2>3, <1>2, <1>4 DEF Retained
  <2>5. (request[c].op = "update" /\ request[c].expected < Height(request[c].user))'
    BY <2>3, <1>1, <1>2, NoneIsNothing DEF Height
  <2> QED BY <2>1, <2>2, <2>4, <2>5, <1>2 DEF Told
<1> QED BY <1>6, <1>7, <1>8

LEMMA CheckInv ==
    ASSUME Inv, Shape', MutexOwned', NEW c \in Callers, Check(c)
    PROVE  Records' /\ Drafts' /\ Told'
<1> DEFINE u == request[c].user
           version == current[u].version
           mismatch == Mismatch(version, request[c].expected)
           next == Profile(version + 1, request[c].input)
<1> USE NoneIsNothing
<1>1. /\ UNCHANGED store
      /\ \A d \in Callers : /\ request'[d] = request[d]
                            /\ d # c => /\ reply'[d] = reply[d] /\ draft'[d] = draft[d]
                                       /\ pc'[d] = pc[d]
  BY DEF Check, Answer, Go, calls, Inv, Shape, TypeOK, Typing
<1>2. current[u] # None /\ pc[c] = "check"
  BY DEF Check, Inv, Shape, Found, Locked
<1>3. CASE /\ reply'[c] # None => reply'[c].kind \in {"stale", "exhausted"}
           /\ pc'[c] = "unlock" /\ UNCHANGED draft
  <2>1. Records' /\ Drafts'
    BY <1>1, <1>2, <1>3, QuietStep
  <2>2. Told'
    BY <1>1, <1>3, QuietTold
  <2> QED BY <2>1, <2>2
<1>4. CASE /\ ~mismatch /\ draft' = [draft EXCEPT ![c] = next]
           /\ pc'[c] = "push" /\ UNCHANGED calls
  <2>1. reply'[c] = None
    BY <1>2, <1>4 DEF calls, Inv, Shape, TypeOK, CallShape
  <2>2. Told'
    BY <1>1, <2>1, QuietTold
  <2>3. /\ \A v \in Users : /\ current'[v] = current[v] /\ revisions'[v] = revisions[v]
        /\ \A d \in Callers : pc'[d] = "publish" <=> pc[d] = "publish"
        /\ \A d \in Callers : pc[d] = "publish" => draft'[d] = draft[d]
    BY <1>1, <1>2, <1>4 DEF store
  <2>4. \A v \in Users, d \in Callers : Between(v, d)' <=> Between(v, d)
    BY <1>1, <2>3 DEF Between
  <2>5. ASSUME NEW v \in Users
        PROVE  /\ Numbered(v)'
               /\ (current[v] # None => Retained(v, current[v]))'
               /\ ((\A d \in Callers : ~Between(v, d)) => Len(revisions[v]) = Height(v))'
               /\ (\A d \in Callers :
                      Between(v, d) => /\ Len(revisions[v]) = Height(v) + 1
                                       /\ revisions[v][Len(revisions[v])] = draft[d])'
    BY <2>3, <2>4 DEF Inv, Records, Numbered, Retained, Height, Between
  <2>6. Records'
    BY <2>5 DEF Records
  <2>7. ASSUME NEW d \in Callers, pc'[d] \in {"push", "publish"}
        PROVE  Drafted(d)'
    <3>1. CASE d = c
      <4>1. request'[c] = request[c] /\ draft'[c] = next /\ current' = current
        BY <1>1, <1>4 DEF store, Inv, Shape, TypeOK, Typing
      <4>2. request[c].expected = version
        BY <1>4 DEF Mismatch
      <4> QED BY <3>1, <4>1, <4>2, <1>2 DEF Drafted, Height
    <3>2. CASE d # c
      BY <3>2, <2>7, <1>1 DEF Inv, Drafts, Drafted, Height, store
    <3> QED BY <3>1, <3>2
  <2>8. Drafts'
    BY <2>7 DEF Drafts
  <2> QED BY <2>2, <2>6, <2>8
<1>5. \/ /\ Answer(c, Stale(version)) /\ Go(c, "unlock") /\ UNCHANGED draft
      \/ /\ Answer(c, Plain("exhausted")) /\ Go(c, "unlock") /\ UNCHANGED draft
      \/ /\ ~mismatch /\ draft' = [draft EXCEPT ![c] = next] /\ Go(c, "push")
         /\ UNCHANGED calls
  BY DEF Check
<1> QED BY <1>3, <1>4, <1>5 DEF Answer, Go, Stale, Plain, Inv, Shape, TypeOK, Typing

LEMMA InitInv == Init => Inv
BY InitShape, InitMutex
   DEF Init, Inv, Records, Drafts, Told, Numbered, Height, Between, Locked

LEMMA NextInv ==
    ASSUME Inv, [Next]_vars
    PROVE  Inv'
<1> USE NoneIsNothing
<1>1. Shape' /\ MutexOwned'
  BY NextShape, NextMutex DEF Inv
<1>2. SUFFICES Records' /\ Drafts' /\ Told'
  BY <1>1 DEF Inv
<1>3. CASE UNCHANGED vars
  BY <1>3 DEF vars, Inv, Records, Drafts, Drafted, Told, Numbered, Retained, Height, Between
<1>4. ASSUME NEW c \in Callers, Invoke(c)
      PROVE  Records' /\ Drafts' /\ Told'
  <2>1. /\ UNCHANGED <<store, draft, reply>>
        /\ pc[c] = "idle" /\ pc'[c] \in {"create", "slot"}
        /\ \A d \in Callers \ {c} : pc'[d] = pc[d] /\ request'[d] = request[d]
    BY <1>4 DEF Invoke, Go, Inv, Shape, TypeOK, Typing
  <2>2. reply'[c] = None
    BY <2>1 DEF Inv, Shape, TypeOK, CallShape
  <2> QED BY <1>1, <2>1, <2>2, QuietStep, QuietTold
<1>5. ASSUME NEW c \in Callers, Slot(c)
      PROVE  Records' /\ Drafts' /\ Told'
  <2>1. /\ UNCHANGED <<store, draft>>
        /\ pc[c] = "slot" /\ pc'[c] \in {"load", "lock", "return"}
        /\ \A d \in Callers \ {c} : /\ pc'[d] = pc[d] /\ request'[d] = request[d]
                                   /\ reply'[d] = reply[d]
        /\ reply'[c] # None => reply'[c] = reply[c] \/ reply'[c].kind \in {"history", "missing"}
    BY <1>5 DEF Slot, Go, Answer, calls, Plain, History, Inv, Shape, TypeOK, Typing
  <2>2. reply[c] = None
    BY <2>1 DEF Inv, Shape, TypeOK, CallShape
  <2> QED BY <1>1, <2>1, <2>2, QuietStep, QuietTold
<1>6. ASSUME NEW c \in Callers, Load(c)
      PROVE  Records' /\ Drafts' /\ Told'
  <2>1. /\ UNCHANGED <<store, draft>>
        /\ pc[c] = "load" /\ pc'[c] = "return" /\ request'[c] = request[c]
        /\ \A d \in Callers \ {c} : /\ pc'[d] = pc[d] /\ request'[d] = request[d]
                                   /\ reply'[d] = reply[d]
        /\ reply'[c] = Holding("found", current[request[c].user])
    BY <1>6 DEF Load, Go, Answer, Inv, Shape, TypeOK, Typing
  <2>2. current[request[c].user] # None /\ request[c].user \in Users
    BY <2>1, RequestFields DEF Inv, Shape, TypeOK, Typing, CallShape, Found
  <2>3. Retained(request[c].user, current[request[c].user])
    BY <2>2 DEF Inv, Records
  <2> QED BY <1>1, <2>1, <2>3, QuietStep, QuietTold DEF Holding
<1>7. ASSUME NEW c \in Callers, Lock(c) \/ Unlock(c)
      PROVE  Records' /\ Drafts' /\ Told'
  <2>1. /\ UNCHANGED <<store, draft, request, reply>>
        /\ pc[c] \in {"lock", "unlock"} /\ pc'[c] \in {"check", "return"}
        /\ \A d \in Callers \ {c} : pc'[d] = pc[d]
    BY <1>7 DEF Lock, Unlock, Go, calls, Inv, Shape, TypeOK, Typing
  <2>2. reply'[c] # None /\ reply'[c].kind \in {"created", "found"}
          => Retained(request'[c].user, reply'[c].profile)
    BY <2>1 DEF Inv, Told
  <2> QED BY <1>1, <2>1, <2>2, QuietStep, QuietTold
<1>8. ASSUME NEW c \in Callers, Clone(c)
      PROVE  Records' /\ Drafts' /\ Told'
  <2>1. /\ UNCHANGED <<store, draft>>
        /\ pc[c] = "lock" /\ pc'[c] = "return"
        /\ \A d \in Callers \ {c} : /\ pc'[d] = pc[d] /\ request'[d] = request[d]
                                   /\ reply'[d] = reply[d]
        /\ reply'[c].kind = "history"
    BY <1>8 DEF Clone, Go, Answer, History, Inv, Shape, TypeOK, Typing
  <2> QED BY <1>1, <2>1, QuietStep, QuietTold
<1>9. ASSUME NEW c \in Callers, Return(c)
      PROVE  Records' /\ Drafts' /\ Told'
  <2>1. /\ UNCHANGED <<store, draft>>
        /\ pc[c] = "return" /\ pc'[c] = "idle"
        /\ \A d \in Callers \ {c} : /\ pc'[d] = pc[d] /\ request'[d] = request[d]
                                   /\ reply'[d] = reply[d]
        /\ reply'[c] = None
    BY <1>9 DEF Return, Go, Inv, Shape, TypeOK, Typing
  <2> QED BY <1>1, <2>1, QuietStep, QuietTold
<1> QED
  BY <1>1, <1>3, <1>4, <1>5, <1>6, <1>7, <1>8, <1>9,
     CreateInv, CheckInv, PushInv, PublishInv DEF Next, Step

LEMMA AlwaysInv == Spec => []Inv
<1>1. Inv /\ [Next]_vars => Inv'
  BY NextInv
<1> QED BY <1>1, InitInv, PTL DEF Spec
-----------------------------------------------------------------------------
(* A projection that can be read, and a success that has been reported,    *)
(* is in the audit history of its profile.                                 *)
THEOREM EvidenceFirst == Spec => []EvidenceBeforeVisibility
<1>1. Inv => EvidenceBeforeVisibility
  BY DEF Inv, Records, Told, EvidenceBeforeVisibility
<1> QED BY <1>1, AlwaysInv, PTL

(* The history has no gap and no rival: its revisions are numbered 1, 2,   *)
(* 3, ..., and it ends with the projection unless a push is about to be    *)
(* followed by its store.                                                  *)
THEOREM HistoryFaithful == Spec => []HistoryMatchesProjection
<1>1. ASSUME Inv, NEW u \in Users
      PROVE  /\ \A i \in 1..Len(revisions[u]) : revisions[u][i].version = i
             /\ Len(revisions[u]) = (IF current[u] = None THEN 0 ELSE current[u].version)
                                        + (IF Publishing(u) THEN 1 ELSE 0)
  <2>1. Height(u) \in Nat
    BY <1>1, ProfileForms DEF Height, Inv, Shape, TypeOK, Typing, Versions
  <2>2. CASE Publishing(u)
    BY <1>1, <2>1, <2>2 DEF Publishing, Between, Height, Inv, Records, Numbered
  <2>3. CASE ~Publishing(u)
    BY <1>1, <2>1, <2>3 DEF Publishing, Between, Height, Inv, Records, Numbered
  <2> QED BY <2>2, <2>3
<1>2. Inv => HistoryMatchesProjection
  BY <1>1 DEF HistoryMatchesProjection
<1> QED BY <1>2, AlwaysInv, PTL

(* What Passed means to the invariant: a writer inside the critical        *)
(* section names the version the record is at, one that has returned names *)
(* an earlier one.                                                         *)
LEMMA PassedFacts ==
    ASSUME Inv, NEW c \in Callers, NEW u \in Users, NEW v \in Versions, Passed(c, u, v)
    PROVE  \/ pc[c] \in {"push", "publish"} /\ v = Height(u) /\ holder[u] = c
           \/ pc[c] \in {"unlock", "return"} /\ v < Height(u)
<1>1. CASE pc[c] \in {"push", "publish"}
  <2>1. Drafted(c)
    BY <1>1 DEF Inv, Drafts
  <2>2. holder[u] = c
    BY <1>1 DEF Passed, Inv, MutexOwned, Locked
  <2> QED BY <1>1, <2>1, <2>2 DEF Passed, Drafted
<1>2. CASE pc[c] \notin {"push", "publish"}
  BY <1>2 DEF Passed, Inv, Told, Shape, TypeOK, CallShape
<1> QED BY <1>1, <1>2

LEMMA NextWinner ==
    ASSUME Inv, Inv', OneWinner, [Next]_vars
    PROVE  OneWinner'
<1> USE NoneIsNothing
<1>1. SUFFICES ASSUME NEW c \in Callers, NEW d \in Callers, NEW u \in Users,
                      NEW v \in Versions, c # d, Passed(c, u, v)', Passed(d, u, v)'
               PROVE  FALSE
  BY DEF OneWinner
<1>2. CASE Passed(c, u, v) /\ Passed(d, u, v)
  BY <1>1, <1>2 DEF OneWinner
<1>3. ASSUME NEW a \in {c, d}, NEW b \in {c, d}, a # b, ~Passed(a, u, v)
      PROVE  FALSE
  <2>1. Passed(a, u, v)' /\ Passed(b, u, v)' /\ a \in Callers /\ b \in Callers
    BY <1>1, <1>3
  <2>2. /\ Check(a) \/ Publish(a)
        /\ \A e \in Callers \ {a} : /\ pc'[e] = pc[e] /\ request'[e] = request[e]
                                   /\ reply'[e] = reply[e]
    <3>1. request'[a] # None /\ request'[a] \in Requests /\ pc'[a] # "idle"
      BY <2>1 DEF Passed, Inv, Shape, TypeOK, Typing, CallShape
    <3>2. ~UNCHANGED vars
      BY <2>1, <1>3 DEF Passed, vars
    <3>3. PICK e \in Callers : Invoke(e) \/ Step(e)
      BY <3>2 DEF Next
    <3>4. e = a
      BY <3>3, <1>3, <2>1
         DEF Step, Invoke, Create, Slot, Load, Lock, Clone, Check, Push, Publish, Unlock,
             Return, Answer, Go, calls, Passed, Inv, Shape, TypeOK, Typing
    <3>5. Check(a) \/ Publish(a)
      BY <3>1, <3>3, <3>4, <1>3, <2>1
         DEF Step, Invoke, Create, Slot, Load, Lock, Clone, Push, Unlock,
             Return, Answer, Go, calls, Passed, Holding, Plain, History,
             Inv, Shape, TypeOK, Typing, CallShape
    <3> QED
      BY <3>5 DEF Check, Publish, Answer, Go, calls, Inv, Shape, TypeOK, Typing
  <2>3. Passed(b, u, v)
    BY <2>1, <2>2, <1>3 DEF Passed
  <2>4. \/ pc[b] \in {"push", "publish"} /\ v = Height(u) /\ holder[u] = b
        \/ pc[b] \in {"unlock", "return"} /\ v < Height(u)
    BY <2>1, <2>3, PassedFacts
  <2>5. request'[a] = request[a] /\ request[a].user = u /\ request[a].expected = v
    BY <2>1, <2>2 DEF Passed, Check, Publish, Answer, calls
  <2>6. holder[u] = a
    BY <2>1, <2>2, <2>5 DEF Check, Publish, Locked, Inv, MutexOwned
  <2>7. v = Height(u)
    <3>1. CASE Publish(a)
      BY <3>1, <2>1, <2>5, WriterFacts DEF Publish, Height
    <3>2. CASE Check(a)
      <4>1. ~Mismatch(current[u].version, v)
        BY <3>2, <2>1, <2>5
           DEF Check, Answer, Go, Passed, Stale, Plain, Inv, Shape, TypeOK, Typing, CallShape
      <4>2. current[u] # None
        BY <3>2, <2>1, <2>5 DEF Check, Inv, Shape, Found, Locked
      <4> QED BY <4>1, <4>2 DEF Mismatch, Height
    <3> QED BY <3>1, <3>2, <2>2
  <2>8. Height(u) \in Nat
    BY ProfileForms DEF Height, Inv, Shape, TypeOK, Typing, Versions
  <2> QED BY <1>3, <2>4, <2>6, <2>7, <2>8
<1> QED BY <1>1, <1>2, <1>3

(* Two open updates never both win with the same If-Match version.         *)
THEOREM SingleWinner == Spec => []OneWinner
<1>1. Init => OneWinner
  BY DEF Init, OneWinner, Passed
<1>2. Inv /\ OneWinner /\ Inv' /\ [Next]_vars => OneWinner'
  BY NextWinner
<1> QED BY <1>1, <1>2, AlwaysInv, PTL DEF Spec

(* A published projection replaces exactly the version its writer named.   *)
THEOREM WritesNameWhatTheyReplace == Spec => NoLostUpdate
<1>1. ASSUME Inv, Next, NEW u \in Users, current[u] # None, current'[u] # current[u]
      PROVE  \E c \in Callers :
                /\ pc[c] = "publish" /\ request[c].user = u
                /\ current[u].version = request[c].expected
                /\ current'[u] = Profile(request[c].expected + 1, request[c].input)
  <2>1. PICK c \in Callers : Create(c) \/ Publish(c)
    BY <1>1 DEF Next, Step, Invoke, Slot, Load, Lock, Clone, Check, Push, Unlock, Return, store
  <2>2. CASE Create(c)
    <3>1. request[c].user # u \/ UNCHANGED store
      BY <1>1, <2>2 DEF Create
    <3> QED BY <1>1, <2>2, <3>1 DEF Create, store, Inv, Shape, TypeOK, Typing
  <2>3. CASE Publish(c)
    <3>1. request[c].user = u
      BY <1>1, <2>3 DEF Publish, Inv, Shape, TypeOK, Typing
    <3>2. current'[u] = draft[c] /\ Drafted(c) /\ current[u].version = request[c].expected
      BY <1>1, <2>3, <3>1, WriterFacts DEF Publish, Inv, Drafts, Shape, TypeOK, Typing
    <3> QED BY <2>3, <3>1, <3>2 DEF Drafted, Publish
  <2> QED BY <2>1, <2>2, <2>3
<1>2. Inv /\ [Next]_vars => [ReplacesWhatItNamed]_vars
  BY <1>1 DEF ReplacesWhatItNamed
<1> QED BY <1>2, AlwaysInv, PTL DEF Spec, NoLostUpdate

(* Accepted revisions are permanent.                                       *)
THEOREM HistoryPermanent == Spec => HistoryAppendOnly
<1>1. ASSUME Inv, Next, NEW u \in Users
      PROVE  Extends(revisions'[u], revisions[u])
  <2>1. revisions[u] \in Seq(Profiles)
    BY <1>1 DEF Inv, Shape, TypeOK, Typing
  <2>2. CASE revisions'[u] = revisions[u]
    BY <2>1, <2>2 DEF Extends
  <2>3. CASE revisions'[u] # revisions[u]
    <3>1. PICK c \in Callers : Create(c) \/ Push(c)
      BY <1>1, <2>3 DEF Next, Step, Invoke, Slot, Load, Lock, Clone, Check, Publish, Unlock,
                        Return, store
    <3>2. request[c].user = u
      BY <1>1, <2>3, <3>1 DEF Create, Push, store, Inv, Shape, TypeOK, Typing
    <3>3. CASE Create(c)
      <4>1. current[u] = None
        BY <2>3, <3>2, <3>3 DEF Create, store
      <4>2. \A d \in Callers : ~Between(u, d)
        BY <1>1, <4>1 DEF Between, Inv, Shape, Found, Locked
      <4>3. Len(revisions[u]) = 0
        BY <1>1, <4>1, <4>2 DEF Inv, Records, Height
      <4>4. revisions'[u] = <<Profile(1, request[c].input)>>
        BY <1>1, <2>3, <3>2, <3>3 DEF Create, store, Inv, Shape, TypeOK, Typing
      <4> QED BY <4>3, <4>4 DEF Extends
    <3>4. CASE Push(c)
      <4>1. revisions'[u] = Append(revisions[u], draft[c]) /\ draft[c] \in Profiles
        BY <1>1, <3>2, <3>4, WriterFacts DEF Push, Inv, Shape, TypeOK, Typing
      <4> QED BY <2>1, <4>1 DEF Extends
    <3> QED BY <3>1, <3>3, <3>4
  <2> QED BY <2>2, <2>3
<1>2. ASSUME Inv, [Next]_vars
      PROVE  [\A u \in Users : Extends(revisions'[u], revisions[u])]_vars
  BY <1>1, <1>2
<1> QED BY <1>2, AlwaysInv, PTL DEF Spec, HistoryAppendOnly
-----------------------------------------------------------------------------
(* Whatever is asked is answered.  The prover knows nothing of ENABLED, so *)
(* here fairness is stated with the guards written out: a call steps again *)
(* and again unless it is idle or waits for a mutex that is held, and it   *)
(* does get a mutex that is free again and again.                          *)
Waits(c) == pc[c] = "lock" /\ holder[request[c].user] # None
Ready(c) == pc[c] # "idle" /\ ~Waits(c)
Turn(c) == pc[c] = "lock" /\ ~Waits(c)

Runs(c) == []<>~Ready(c) \/ []<><<Step(c)>>_vars
Gets(c) == <>[]~Turn(c) \/ []<><<Lock(c) \/ Clone(c)>>_vars

Scheduled == \A c \in Callers : Runs(c) /\ Gets(c)

(* This is the fairness of MemoryStore, if the guards say what is enabled. *)
Guarded(c) ==
    /\ Ready(c) => ENABLED <<Step(c)>>_vars
    /\ Turn(c) => ENABLED <<Lock(c) \/ Clone(c)>>_vars

Fair(c) == WF_vars(Step(c)) /\ SF_vars(Lock(c) \/ Clone(c))

LEMMA FairlyScheduled ==
    Fairness /\ (\A c \in Callers : []Guarded(c)) => Scheduled
<1>1. Fairness => \A c \in Callers : Fair(c)
  BY PTL DEF Fairness, Fair
<1>2. ASSUME NEW c \in Callers
      PROVE  Fair(c) /\ []Guarded(c) => Runs(c) /\ Gets(c)
  BY PTL DEF Fair, Guarded, Runs, Gets
<1>3. QED
  BY <1>1, <1>2, Zenon DEF Scheduled

After(place) ==
    CASE place = "create" -> {"return"}
      [] place = "slot" -> {"load", "lock", "return"}
      [] place = "load" -> {"return"}
      [] place = "lock" -> {"check", "return"}
      [] place = "check" -> {"push", "unlock"}
      [] place = "push" -> {"publish"}
      [] place = "publish" -> {"unlock"}
      [] place = "unlock" -> {"return"}
      [] place = "return" -> {"idle"}
      [] OTHER -> {}

At(c, place) == pc[c] = place
Onward(c, place) == pc[c] \in After(place)
Passes(c, place) == At(c, place) ~> Onward(c, place)

LEMMA StepOn ==
    ASSUME Inv, NEW c \in Callers, Step(c)
    PROVE  pc'[c] \in After(pc[c])
<1>1. pc \in [Callers -> Steps]
  BY DEF Inv, Shape, TypeOK, Typing
<1>2. CASE Create(c) \/ Load(c) \/ Publish(c) \/ Unlock(c) \/ Return(c) \/ Push(c)
  BY <1>1, <1>2 DEF Create, Load, Publish, Unlock, Return, Push, Go, After
<1>3. CASE Slot(c) \/ Lock(c) \/ Clone(c) \/ Check(c)
  BY <1>1, <1>3 DEF Slot, Lock, Clone, Check, Go, After
<1>4. QED
  BY <1>2, <1>3 DEF Step

LEMMA StepOther ==
    ASSUME Inv, NEW c \in Callers, NEW d \in Callers, d # c, Invoke(d) \/ Step(d)
    PROVE  pc'[c] = pc[c] /\ request'[c] = request[c]
<1>1. pc \in [Callers -> Steps] /\ request \in [Callers -> Requests \cup {None}]
  BY DEF Inv, Shape, TypeOK, Typing
<1>2. CASE Invoke(d) \/ Return(d)
  BY <1>1, <1>2 DEF Invoke, Return, Go
<1>3. CASE Create(d) \/ Slot(d) \/ Load(d) \/ Lock(d) \/ Clone(d)
  BY <1>1, <1>3 DEF Create, Slot, Load, Lock, Clone, Go, Answer, calls
<1>4. CASE Check(d) \/ Push(d) \/ Publish(d) \/ Unlock(d)
  BY <1>1, <1>4 DEF Check, Push, Publish, Unlock, Go, Answer, calls
<1>5. QED
  BY <1>2, <1>3, <1>4 DEF Step

LEMMA StaysOrGoesOn ==
    ASSUME Inv, [Next]_vars, NEW c \in Callers, pc[c] # "idle"
    PROVE  (pc'[c] = pc[c] /\ request'[c] = request[c]) \/ pc'[c] \in After(pc[c])
<1>1. CASE UNCHANGED vars
  BY <1>1 DEF vars
<1>2. ASSUME NEW d \in Callers, Invoke(d) \/ Step(d)
      PROVE  (pc'[c] = pc[c] /\ request'[c] = request[c]) \/ pc'[c] \in After(pc[c])
  <2>1. CASE d # c
    BY <1>2, <2>1, StepOther
  <2>2. CASE d = c
    BY <1>2, <2>2, StepOn DEF Invoke
  <2>3. QED
    BY <2>1, <2>2
<1>3. QED
  BY <1>1, <1>2 DEF Next

(* Every place but the wait for a mutex is left behind.                    *)
LEMMA GoesOn ==
    ASSUME NEW c \in Callers, NEW place \in Steps \ {"idle", "lock"}
    PROVE  []Inv /\ [][Next]_vars /\ Runs(c) => Passes(c, place)
<1>1. Inv /\ At(c, place) /\ [Next]_vars => At(c, place)' \/ Onward(c, place)'
  BY StaysOrGoesOn DEF At, Onward
<1>2. Inv /\ At(c, place) /\ <<Step(c)>>_vars => Onward(c, place)'
  BY StepOn DEF At, Onward
<1>3. At(c, place) => Ready(c)
  BY DEF At, Ready, Waits
<1>4. QED
  BY <1>1, <1>2, <1>3, PTL DEF Runs, Passes

(* So a mutex that is held becomes free.                                   *)
Owns(c, u) == holder[u] = c
Free(u) == holder[u] = None
Gives(c, u) == [](Owns(c, u) => <>Free(u))

LEMMA GivesBack ==
    ASSUME NEW c \in Callers, NEW u \in Users
    PROVE  []Inv /\ [][Next]_vars /\ Runs(c) => Gives(c, u)
<1>1. Inv /\ Owns(c, u) /\ [Next]_vars => Owns(c, u)' \/ Free(u)'
  <2>1. ASSUME Inv, Owns(c, u), NEW d \in Callers, Invoke(d) \/ Step(d)
        PROVE  Owns(c, u)' \/ Free(u)'
    <3>1. holder \in [Users -> Callers \cup {None}] /\ holder[u] # None
      BY <2>1, NoneIsNothing DEF Inv, Shape, TypeOK, Typing, Owns
    <3>2. CASE Lock(d)
      BY <2>1, <3>1, <3>2 DEF Lock, Owns
    <3>3. CASE Unlock(d)
      BY <2>1, <3>1, <3>3 DEF Unlock, Owns, Free
    <3>4. CASE ~Lock(d) /\ ~Unlock(d)
      BY <2>1, <3>4 DEF Step, Invoke, Create, Slot, Load, Clone, Check, Push, Publish, Return, Owns
    <3>5. QED
      BY <3>2, <3>3, <3>4
  <2>2. QED
    BY <2>1 DEF Next, vars, Owns
<1>2. Inv /\ Owns(c, u) => At(c, "check") \/ At(c, "push") \/ At(c, "publish") \/ At(c, "unlock")
  BY DEF Inv, MutexOwned, Owns, At, Locked
<1>3. Inv /\ Owns(c, u) => ~At(c, "return")
  BY DEF Inv, MutexOwned, Owns, At, Locked
<1>4. /\ Onward(c, "check") => At(c, "push") \/ At(c, "unlock")
      /\ Onward(c, "push") => At(c, "publish")
      /\ Onward(c, "publish") => At(c, "unlock")
      /\ Onward(c, "unlock") => At(c, "return")
  BY DEF Onward, After, At
<1>5. ASSUME NEW place \in {"check", "push", "publish", "unlock"}
      PROVE  []Inv /\ [][Next]_vars /\ Runs(c) => Passes(c, place)
  BY GoesOn DEF Steps
<1>6. []Inv /\ [][Next]_vars /\ Runs(c)
        => Passes(c, "check") /\ Passes(c, "push") /\ Passes(c, "publish") /\ Passes(c, "unlock")
  BY <1>5, Zenon
<1>7. QED
  BY <1>1, <1>2, <1>3, <1>4, <1>6, PTL DEF Passes, Gives

LEMMA FreeAgain ==
    ASSUME NEW u \in Users
    PROVE  []Inv /\ [][Next]_vars /\ Scheduled => []<>Free(u)
<1>1. []Inv /\ [][Next]_vars /\ Scheduled => \A c \in Callers : Gives(c, u)
  <2>1. Scheduled => \A c \in Callers : Runs(c)
    BY Zenon DEF Scheduled
  <2>2. QED
    BY <2>1, GivesBack, Zenon
<1>2. (\A c \in Callers : Gives(c, u))
        => [](\A c \in Callers : Owns(c, u) => <>Free(u))
  BY Zenon DEF Gives
<1>3. Inv /\ (\A c \in Callers : Owns(c, u) => <>Free(u)) => Free(u) \/ <>Free(u)
  <2>1. Inv => Free(u) \/ \E c \in Callers : Owns(c, u)
    BY DEF Inv, Shape, TypeOK, Typing, Free, Owns
  <2>2. QED
    BY <2>1, Zenon
<1>4. QED
  BY <1>1, <1>2, <1>3, PTL

(* Who waits for it gets it in the end.                                    *)
WaitsFor(c, u) == At(c, "lock") /\ request[c].user = u

LEMMA GetsIt ==
    ASSUME NEW c \in Callers, NEW u \in Users
    PROVE  []Inv /\ [][Next]_vars /\ Scheduled => [](WaitsFor(c, u) => <>Onward(c, "lock"))
<1>1. Inv /\ WaitsFor(c, u) /\ [Next]_vars => WaitsFor(c, u)' \/ Onward(c, "lock")'
  BY StaysOrGoesOn DEF WaitsFor, At, Onward
<1>2. Inv /\ WaitsFor(c, u) /\ <<Lock(c) \/ Clone(c)>>_vars => Onward(c, "lock")'
  BY StepOn DEF WaitsFor, At, Onward, Step
<1>3. WaitsFor(c, u) /\ Free(u) => Turn(c)
  BY DEF WaitsFor, Free, Turn, Waits, At
<1>4. Scheduled => Gets(c)
  BY DEF Scheduled
<1>5. []Inv /\ [][Next]_vars /\ Scheduled => []<>Free(u)
  BY FreeAgain
<1>6. QED
  BY <1>1, <1>2, <1>3, <1>4, <1>5, PTL DEF Gets

LEMMA LeavesTheLock ==
    ASSUME NEW c \in Callers
    PROVE  []Inv /\ [][Next]_vars /\ Scheduled => (At(c, "lock") ~> Onward(c, "lock"))
<1>1. []Inv /\ [][Next]_vars /\ Scheduled
        => \A u \in Users : [](WaitsFor(c, u) => <>Onward(c, "lock"))
  BY GetsIt
<1>2. (\A u \in Users : [](WaitsFor(c, u) => <>Onward(c, "lock")))
        => [](\A u \in Users : WaitsFor(c, u) => <>Onward(c, "lock"))
  BY Zenon
<1>3. Inv /\ At(c, "lock") /\ (\A u \in Users : WaitsFor(c, u) => <>Onward(c, "lock"))
        => <>Onward(c, "lock")
  <2>1. Inv /\ At(c, "lock") => \E u \in Users : WaitsFor(c, u)
    BY RequestFields DEF Inv, Shape, TypeOK, Typing, CallShape, At, WaitsFor
  <2>2. QED
    BY <2>1, Zenon
<1>4. QED
  BY <1>1, <1>2, <1>3, PTL

(* Every call returns, for any number of callers and users.                *)
THEOREM CallsReturn == Spec /\ Scheduled => EveryCallReturns
<1>1. ASSUME NEW c \in Callers
      PROVE  []Inv /\ [][Next]_vars /\ Scheduled => (~At(c, "idle") ~> At(c, "idle"))
  <2>1. []Inv /\ [][Next]_vars /\ Scheduled => (At(c, "lock") ~> Onward(c, "lock"))
    BY LeavesTheLock
  <2>2. ASSUME NEW place \in {"create", "slot", "load", "check", "push", "publish", "unlock", "return"}
        PROVE  []Inv /\ [][Next]_vars /\ Scheduled => Passes(c, place)
    <3>1. Scheduled => Runs(c)
      BY Zenon DEF Scheduled
    <3>2. place \in Steps \ {"idle", "lock"}
      BY DEF Steps
    <3>3. QED
      BY <3>1, <3>2, GoesOn
  <2>3. []Inv /\ [][Next]_vars /\ Scheduled
          => /\ Passes(c, "create") /\ Passes(c, "slot") /\ Passes(c, "load") /\ Passes(c, "check")
             /\ Passes(c, "push") /\ Passes(c, "publish") /\ Passes(c, "unlock")
             /\ Passes(c, "return")
    BY <2>2, Zenon
  <2>4. /\ Onward(c, "create") => At(c, "return")
        /\ Onward(c, "slot") => At(c, "load") \/ At(c, "lock") \/ At(c, "return")
        /\ Onward(c, "load") => At(c, "return")
        /\ Onward(c, "lock") => At(c, "check") \/ At(c, "return")
        /\ Onward(c, "check") => At(c, "push") \/ At(c, "unlock")
        /\ Onward(c, "push") => At(c, "publish")
        /\ Onward(c, "publish") => At(c, "unlock")
        /\ Onward(c, "unlock") => At(c, "return")
        /\ Onward(c, "return") => At(c, "idle")
    BY DEF Onward, After, At
  <2>5. Inv => \/ At(c, "idle") \/ At(c, "create") \/ At(c, "slot") \/ At(c, "load") \/ At(c, "lock")
               \/ At(c, "check") \/ At(c, "push") \/ At(c, "publish") \/ At(c, "unlock")
               \/ At(c, "return")
    BY DEF Inv, Shape, TypeOK, Typing, Steps, At
  <2>6. QED
    BY <2>1, <2>3, <2>4, <2>5, PTL DEF Passes
<1>2. ASSUME NEW c \in Callers
      PROVE  Spec /\ Scheduled => (pc[c] # "idle" ~> pc[c] = "idle")
  <2>1. At(c, "idle") <=> pc[c] = "idle"
    BY DEF At
  <2>2. QED
    BY <1>1, <2>1, AlwaysInv, PTL DEF Spec
<1>3. QED
  BY <1>2 DEF EveryCallReturns
=============================================================================
