-------------------------- MODULE SqliteStoreProofs --------------------------
(***************************************************************************)
(* Proofs about SqliteStore, for any users, callers, payloads and          *)
(* versions: its invariants, and that it implements ProfileContract.       *)
(***************************************************************************)
EXTENDS SqliteStore, FiniteSetTheorems, FunctionTheorems, TLAPS

LEMMA RequestFields ==
    ASSUME NEW r \in Requests
    PROVE  /\ r.op \in {"create", "get", "history", "update"}
           /\ r.user \in Users
           /\ r.op \in {"create", "update"} => r.input \in Inputs
           /\ r.op = "update" => r.expected \in Nat
BY NamedAssumption DEF Requests

LEMMA ReplyForms ==
    /\ \A k \in {"created", "found", "applied"}, p \in Profiles : Holding(k, p) \in Replies
    /\ \A k \in {"exists", "missing", "exhausted", "backend"} : Plain(k) \in Replies
    /\ \A v \in Versions : Stale(v) \in Replies
    /\ \A s \in Seq(Profiles) : History(s) \in Replies
BY DEF Replies, Holding, Plain, Stale, History

LEMMA ProfileForms ==
    /\ \A v \in Versions, i \in Inputs : Profile(v, i) \in Profiles
    /\ \A v, i : Profile(v, i).version = v /\ Profile(v, i).input = i
    /\ \A p \in Profiles : /\ p.version \in Versions /\ p.version \in Nat /\ p.version > 0
                           /\ p.input \in Inputs /\ p = Profile(p.version, p.input)
BY LastVersionAssumption DEF Profiles, Profile, Versions

LEMMA NoneIsNothing ==
    /\ None \notin Callers
    /\ None \notin Profiles
    /\ None \notin Requests
    /\ None \notin Replies
BY NoneAssumption
-----------------------------------------------------------------------------
(* Revisions that are numbered 1 to n, one each.                           *)
Tidy(S, n) ==
    /\ S \subseteq Profiles
    /\ \A r \in S : r.version \in 1..n
    /\ \A v \in 1..n : \E r \in S : r.version = v
    /\ \A r, q \in S : r.version = q.version => r = q

Rev(S, v) == CHOOSE r \in S : r.version = v

LEMMA TheRev ==
    ASSUME NEW S, NEW n \in Nat, Tidy(S, n), NEW v \in 1..n
    PROVE  /\ Rev(S, v) \in S /\ Rev(S, v).version = v /\ Rev(S, v) \in Profiles
           /\ \A r \in S : r.version = v => r = Rev(S, v)
BY DEF Tidy, Rev

(* Up to any version there are as many of them as it says.                 *)
LEMMA EarlierCount ==
    ASSUME NEW S, NEW n \in Nat, Tidy(S, n), NEW k \in 0..n
    PROVE  LET T == {r \in S : r.version <= k}
           IN  IsFiniteSet(T) /\ Cardinality(T) = k
<1> DEFINE T == {r \in S : r.version <= k}
           f == [i \in 1..k |-> Rev(S, i)]
<1>1. \A i \in 1..k : i \in 1..n
  OBVIOUS
<1>2. \A i \in 1..k : Rev(S, i) \in T /\ Rev(S, i).version = i
  BY <1>1, TheRev
<1>3. f \in [1..k -> T]
  BY <1>2
<1>4. \A i, j \in 1..k : f[i] = f[j] => i = j
  BY <1>2
<1>5. \A r \in T : \E i \in 1..k : f[i] = r
  <2>1. ASSUME NEW r \in T
        PROVE  r.version \in 1..k /\ f[r.version] = r
    <3>1. r \in S /\ r.version \in 1..n /\ r.version <= k
      BY DEF Tidy
    <3>2. r.version \in 1..k
      BY <3>1
    <3>3. Rev(S, r.version) = r
      BY <3>1, TheRev
    <3>4. QED
      BY <3>2, <3>3
  <2>2. QED
    BY <2>1
<1>6. f \in Bijection(1..k, T)
  <2> HIDE DEF f, T
  <2>1. QED
    BY <1>3, <1>4, <1>5, Fun_IsBij
<1>7. ExistsBijection(1..k, T)
  BY <1>6 DEF ExistsBijection
<1>8. IsFiniteSet(1..k) /\ Cardinality(1..k) = k
  <2>1. Cardinality(1..k) = IF 1 > k THEN 0 ELSE k - 1 + 1
    BY FS_Interval
  <2>2. QED
    BY <2>1, FS_Interval
<1>9. IsFiniteSet(T) /\ Cardinality(T) = k
  <2> HIDE DEF T
  <2>1. QED
    BY <1>7, <1>8, FS_Bijection
<1>10. QED
  BY <1>9

(* ORDER BY puts the revision of version i in place i.                     *)
LEMMA InOrder ==
    ASSUME NEW S, NEW n \in Nat, Tidy(S, n)
    PROVE  /\ IsFiniteSet(S) /\ Cardinality(S) = n
           /\ {r.version : r \in S} = 1..n
           /\ Ordered(S) = [i \in 1..n |-> Rev(S, i)]
<1>1. IsFiniteSet(S) /\ Cardinality(S) = n
  <2>1. S = {r \in S : r.version <= n}
    BY DEF Tidy
  <2>2. n \in 0..n
    OBVIOUS
  <2>3. IsFiniteSet({r \in S : r.version <= n}) /\ Cardinality({r \in S : r.version <= n}) = n
    BY <2>2, EarlierCount
  <2>4. QED
    BY <2>1, <2>3
<1>2. {r.version : r \in S} = 1..n
  BY DEF Tidy
<1>3. ASSUME NEW r \in S
      PROVE  Cardinality(Earlier(S, r.version)) = r.version - 1
  <2>1. r.version \in 1..n /\ \A q \in S : q.version \in 1..n
    BY DEF Tidy
  <2>2. r.version - 1 \in 0..n
    BY <2>1
  <2>3. Earlier(S, r.version) = {q \in S : q.version <= r.version - 1}
    BY <2>1 DEF Earlier
  <2>4. QED
    BY <2>2, <2>3, EarlierCount
<1>4. ASSUME NEW i \in 1..n
      PROVE  (CHOOSE r \in S : Cardinality(Earlier(S, r.version)) = i - 1) = Rev(S, i)
  <2>1. \A r \in S : Cardinality(Earlier(S, r.version)) = i - 1 => r.version = i
    BY <1>3 DEF Tidy
  <2>2. Rev(S, i) \in S /\ Rev(S, i).version = i
    BY TheRev
  <2>3. Cardinality(Earlier(S, Rev(S, i).version)) = i - 1
    BY <1>3, <2>2
  <2>4. PICK q : q = (CHOOSE r \in S : Cardinality(Earlier(S, r.version)) = i - 1)
    OBVIOUS
  <2>5. q \in S /\ Cardinality(Earlier(S, q.version)) = i - 1
    BY <2>2, <2>3, <2>4
  <2>6. q = Rev(S, i)
    BY <2>1, <2>5, TheRev
  <2>7. QED
    BY <2>4, <2>6
<1>5. QED
  BY <1>1, <1>2, <1>4 DEF Ordered

(* A revision more.                                                        *)
LEMMA OneMore ==
    ASSUME NEW S, NEW n \in Nat, Tidy(S, n), NEW p \in Profiles, p.version = n + 1
    PROVE  /\ Tidy(S \cup {p}, n + 1)
           /\ Rev(S \cup {p}, n + 1) = p
           /\ \A v \in 1..n : Rev(S \cup {p}, v) = Rev(S, v)
<1>1. Tidy(S \cup {p}, n + 1)
  <2>1. \A r \in S : r.version \in 1..n /\ r.version # p.version
    BY DEF Tidy
  <2>2. \A v \in 1..(n + 1) : v \in 1..n \/ v = n + 1
    OBVIOUS
  <2>3. QED
    BY <2>1, <2>2 DEF Tidy
<1>2. n + 1 \in 1..(n + 1) /\ n + 1 \in Nat /\ \A v \in 1..n : v \in 1..(n + 1)
  OBVIOUS
<1>3. Rev(S \cup {p}, n + 1) = p
  BY <1>1, <1>2, TheRev
<1>4. ASSUME NEW v \in 1..n
      PROVE  Rev(S \cup {p}, v) = Rev(S, v)
  <2>1. Rev(S, v) \in S \cup {p} /\ Rev(S, v).version = v
    BY TheRev
  <2>2. QED
    BY <1>1, <1>2, <2>1, TheRev
<1>5. QED
  BY <1>1, <1>3, <1>4
-----------------------------------------------------------------------------
(* The inductive invariant.                                                *)

(* Where a call is says what there is of it.                               *)
Call(c) ==
    /\ pc[c] = "idle" <=> request[c] = None
    /\ pc[c] \in {"release", "return"} <=> reply[c] # None
    /\ pc[c] = "insert" => request[c].op = "create"
    /\ pc[c] \in {"update", "classify"} => request[c].op = "update"
    /\ pc[c] = "select" => request[c].op \in {"get", "history"}
    /\ pc[c] \in {"audit", "commit"} => request[c].op \in {"create", "update"}

Within(c) == pc[c] \in Statements \cup {"release"}

(* The connection belongs to the one call that is between its statements.  *)
Held ==
    /\ \A c \in Callers : Within(c) => connection = c
    /\ connection # None => Within(connection)

Writing(c) == pc[c] \in {"audit", "commit"}

New(c) == Profile(Written(c), request[c].input)

(* What the transaction of a writer has done so far.                       *)
Draft(c) ==
    LET u == request[c].user IN
    /\ New(c) \in Profiles
    /\ Written(c) = Height(u) + 1
    /\ request[c].op = "update" => rows[u] # None
    /\ txRows = [rows EXCEPT ![u] = New(c)]
    /\ txAudit = IF pc[c] = "audit" THEN audit ELSE [audit EXCEPT ![u] = @ \cup {New(c)}]

View ==
    /\ \A c \in Callers : Writing(c) => Draft(c)
    /\ (\A c \in Callers : ~Writing(c)) => view = disk

Agree ==
    \A u \in Users :
        /\ Tidy(audit[u], Height(u))
        /\ rows[u] # None => rows[u] \in audit[u]

SqlInv ==
    /\ TypeOK
    /\ \A c \in Callers : Call(c)
    /\ Held /\ View /\ Agree

LEMMA Heights ==
    ASSUME TypeOK, NEW u \in Users
    PROVE  Height(u) \in Nat /\ (rows[u] = None <=> Height(u) = 0)
BY ProfileForms DEF TypeOK, Height

(* Only one call at a time is between its statements.                      *)
LEMMA Alone ==
    ASSUME Held, NEW c \in Callers, Within(c), NEW d \in Callers \ {c}
    PROVE  ~Within(d) /\ ~Writing(d)
BY DEF Held, Within, Writing, Statements

LEMMA Asked ==
    ASSUME SqlInv, NEW c \in Callers, pc[c] # "idle"
    PROVE  /\ request[c] \in Requests
           /\ request[c].user \in Users
           /\ request[c].op \in {"create", "update"} => request[c].input \in Inputs
           /\ request[c].op = "update" => request[c].expected \in Nat
<1>1. request[c] \in Requests
  BY DEF SqlInv, TypeOK, Call
<1>2. QED
  BY <1>1, RequestFields

(* A step of c moves no other call.                                        *)
Mine(c) ==
    /\ pc' \in [Callers -> Steps]
    /\ request' \in [Callers -> Requests \cup {None}]
    /\ reply' \in [Callers -> Replies \cup {None}]
    /\ \A d \in Callers \ {c} :
          pc'[d] = pc[d] /\ request'[d] = request[d] /\ reply'[d] = reply[d]

LEMMA CallsOfOthers ==
    ASSUME SqlInv, NEW c \in Callers, Mine(c), Call(c)'
    PROVE  \A d \in Callers : Call(d)'
BY DEF SqlInv, Mine, Call

(* Steps that do not write: afterwards, as before, nobody is writing.      *)
Calm(c) ==
    /\ Mine(c) /\ Call(c)' /\ Held'
    /\ connection' \in Callers \cup {None}
    /\ disk' = disk /\ view' = disk /\ ~Writing(c)'
    /\ \A d \in Callers \ {c} : ~Writing(d)

LEMMA CalmStep ==
    ASSUME SqlInv, NEW c \in Callers, Calm(c)
    PROVE  SqlInv'
<1>1. \A d \in Callers : Call(d)'
  BY CallsOfOthers DEF Calm
<1>2. \A d \in Callers : ~Writing(d)'
  BY DEF Calm, Mine, Writing
<1>3. rows' = rows /\ audit' = audit /\ txRows' = rows /\ txAudit' = audit
  BY DEF Calm, disk, view
<1>4. TypeOK'
  BY <1>3 DEF SqlInv, TypeOK, Calm, Mine
<1>5. View'
  BY <1>2, <1>3 DEF View, disk, view
<1>6. Agree'
  BY <1>3 DEF SqlInv, Agree, Height
<1>7. QED
  BY <1>1, <1>4, <1>5, <1>6 DEF SqlInv, Calm

(* A call that stays between its statements, or is outside them before and *)
(* after, leaves the connection where it is.                               *)
LEMMA HeldStill ==
    ASSUME SqlInv, NEW c \in Callers, Mine(c), connection' = connection,
           Within(c)' <=> Within(c)
    PROVE  Held'
<1>1. \A d \in Callers : Within(d)' <=> Within(d)
  BY DEF Mine, Within
<1>2. QED
  BY <1>1, NoneIsNothing DEF SqlInv, Held, TypeOK
-----------------------------------------------------------------------------
(* One lemma per step.                                                     *)

(* What the step of a call moves of it: no more than where it is.          *)
LEMMA MineGoes ==
    ASSUME SqlInv, NEW c \in Callers, NEW step \in Steps, Go(c, step), UNCHANGED calls
    PROVE  Mine(c) /\ pc'[c] = step /\ request'[c] = request[c] /\ reply'[c] = reply[c]
BY DEF SqlInv, TypeOK, Mine, Go, calls

(* Or its answer as well.                                                  *)
LEMMA MineAnswers ==
    ASSUME SqlInv, NEW c \in Callers, NEW a \in Replies, Answer(c, a)
    PROVE  /\ Mine(c) /\ pc'[c] = "release" /\ request'[c] = request[c] /\ reply'[c] = a
           /\ pc[c] # "idle" => Call(c)'
<1>1. Mine(c) /\ pc'[c] = "release" /\ request'[c] = request[c] /\ reply'[c] = a
  BY DEF SqlInv, TypeOK, Mine, Answer, Go, Steps, Statements
<1>2. a # None
  BY NoneIsNothing
<1>3. pc[c] # "idle" => Call(c)'
  BY <1>1, <1>2 DEF SqlInv, Call
<1>4. QED
  BY <1>1, <1>3

(* Steps of a call that does not have the connection.                      *)
LEMMA OutsideStep ==
    ASSUME SqlInv, NEW c \in Callers, Mine(c), Call(c)', ~Within(c), ~Within(c)',
           UNCHANGED <<disk, view, connection>>
    PROVE  SqlInv'
<1>1. \A d \in Callers : Call(d)'
  BY CallsOfOthers
<1>2. Held'
  BY HeldStill
<1>3. rows' = rows /\ audit' = audit /\ txRows' = txRows /\ txAudit' = txAudit
  BY DEF disk, view
<1>4. TypeOK'
  BY <1>3 DEF SqlInv, TypeOK, Mine
<1>5. ~Writing(c) /\ ~Writing(c)'
  BY DEF Within, Writing, Statements
<1>6. \A d \in Callers : (Writing(d)' <=> Writing(d))
  BY <1>5 DEF Mine, Writing
<1>7. ASSUME NEW d \in Callers, Writing(d)'
      PROVE  Draft(d)'
  <2>1. Writing(d) /\ d # c
    BY <1>5, <1>6, <1>7
  <2>2. pc'[d] = pc[d] /\ request'[d] = request[d]
    BY <2>1 DEF Mine
  <2>3. Draft(d)
    BY <2>1 DEF SqlInv, View
  <2>4. New(d)' = New(d) /\ Written(d)' = Written(d)
    BY <2>2 DEF New, Written
  <2>5. Height(request[d].user)' = Height(request[d].user)
    BY <1>3, <2>2 DEF Height
  <2>6. QED
    BY <1>3, <2>2, <2>3, <2>4, <2>5 DEF Draft
<1>8. View'
  BY <1>3, <1>6, <1>7 DEF SqlInv, View, view, disk
<1>9. Agree'
  BY <1>3 DEF SqlInv, Agree, Height
<1>10. QED
  BY <1>1, <1>2, <1>4, <1>8, <1>9 DEF SqlInv

LEMMA InvokeStep ==
    ASSUME SqlInv, NEW c \in Callers, Invoke(c)
    PROVE  SqlInv'
<1>1. PICK r \in Requests : request' = [request EXCEPT ![c] = r]
  BY DEF Invoke
<1>2. Mine(c) /\ pc'[c] = "queued" /\ request'[c] = r /\ reply'[c] = reply[c]
  BY <1>1 DEF Invoke, Go, SqlInv, TypeOK, Mine, Steps
<1>3. Call(c)'
  BY <1>2, NoneIsNothing DEF Invoke, SqlInv, Call
<1>4. ~Within(c) /\ ~Within(c)'
  BY <1>2 DEF Invoke, Within, Statements
<1>5. QED
  BY <1>2, <1>3, <1>4, OutsideStep DEF Invoke

LEMMA ReturnStep ==
    ASSUME SqlInv, NEW c \in Callers, Return(c)
    PROVE  SqlInv'
<1>1. Mine(c) /\ pc'[c] = "idle" /\ request'[c] = None /\ reply'[c] = None
  BY DEF Return, Go, SqlInv, TypeOK, Mine, Steps
<1>2. Call(c)'
  BY <1>1 DEF Call
<1>3. ~Within(c) /\ ~Within(c)'
  BY <1>1 DEF Return, Within, Statements
<1>4. QED
  BY <1>1, <1>2, <1>3, OutsideStep DEF Return

(* Whoever has the connection and is not writing sees what is on disk.     *)
LEMMA SeesDisk ==
    ASSUME SqlInv, NEW c \in Callers, Within(c), ~Writing(c)
    PROVE  /\ view = disk /\ txRows = rows /\ txAudit = audit
           /\ \A d \in Callers \ {c} : ~Writing(d)
<1>1. \A d \in Callers \ {c} : ~Writing(d)
  BY Alone DEF SqlInv
<1>2. view = disk
  BY <1>1 DEF SqlInv, View
<1>3. QED
  BY <1>1, <1>2 DEF view, disk

LEMMA AcquireStep ==
    ASSUME SqlInv, NEW c \in Callers, Acquire(c)
    PROVE  SqlInv'
<1> DEFINE step == FirstStatement(request[c].op)
<1>1. pc[c] = "queued" /\ connection = None /\ connection' = c /\ Go(c, step)
      /\ UNCHANGED <<disk, view, calls>>
  BY DEF Acquire
<1>2. request[c].op \in {"create", "get", "history", "update"}
  BY <1>1, Asked, RequestFields
<1>3. /\ step \in {"insert", "update", "select"}
      /\ step = "insert" <=> request[c].op = "create"
      /\ step = "update" <=> request[c].op = "update"
  BY <1>2 DEF FirstStatement
<1> HIDE DEF step
<1>4. step \in Steps
  BY <1>3 DEF Steps, Statements
<1>5. Mine(c) /\ pc'[c] = step /\ request'[c] = request[c] /\ reply'[c] = reply[c]
  BY <1>1, <1>4, MineGoes
<1>6. Call(c)'
  BY <1>1, <1>2, <1>3, <1>5 DEF SqlInv, Call
<1>7. \A d \in Callers : ~Within(d) /\ ~Writing(d)
  BY <1>1, NoneIsNothing DEF SqlInv, Held, Within, Writing, Statements
<1>8. view = disk
  BY <1>7 DEF SqlInv, View
<1>9. Held'
  BY <1>1, <1>3, <1>5, <1>7 DEF Held, Within, Mine, Statements
<1>10. ~Writing(c)'
  BY <1>3, <1>5 DEF Writing
<1>11. Calm(c)
  BY <1>1, <1>5, <1>6, <1>7, <1>8, <1>9, <1>10 DEF Calm
<1>12. QED
  BY <1>11, CalmStep

(* A call that has the connection answers and gives back what it did not   *)
(* commit.                                                                 *)
LEMMA RefuseStep ==
    ASSUME SqlInv, NEW c \in Callers, pc[c] \in Statements, NEW a \in Replies, Refuse(c, a)
    PROVE  SqlInv'
<1>1. Answer(c, a) /\ view' = disk /\ disk' = disk /\ connection' = connection
  BY DEF Refuse, Rollback, view, disk
<1>2. Within(c) /\ pc[c] # "idle"
  BY DEF Within, Statements
<1>3. Mine(c) /\ pc'[c] = "release" /\ Call(c)'
  BY <1>1, <1>2, MineAnswers
<1>4. Within(c)' /\ ~Writing(c)'
  BY <1>3 DEF Within, Writing
<1>5. Held'
  BY <1>1, <1>2, <1>3, <1>4, HeldStill
<1>6. \A d \in Callers \ {c} : ~Writing(d)
  BY <1>2, Alone DEF SqlInv
<1>7. Calm(c)
  BY <1>1, <1>3, <1>4, <1>5, <1>6 DEF Calm, SqlInv, TypeOK
<1>8. QED
  BY <1>7, CalmStep

LEMMA FailStep ==
    ASSUME SqlInv, NEW c \in Callers, Fail(c)
    PROVE  SqlInv'
BY RefuseStep, ReplyForms DEF Fail

LEMMA ClassifyStep ==
    ASSUME SqlInv, NEW c \in Callers, Classify(c)
    PROVE  SqlInv'
<1>1. request[c].user \in Users /\ pc[c] \in Statements
  BY Asked DEF Classify, Statements
<1> DEFINE row == txRows[request[c].user]
<1>2. row = None \/ row.version \in Versions
  BY <1>1, ProfileForms DEF SqlInv, TypeOK
<1>3. CASE row = None
  BY <1>1, <1>3, RefuseStep, ReplyForms DEF Classify
<1>4. CASE row # None
  BY <1>1, <1>2, <1>4, RefuseStep, ReplyForms DEF Classify
<1>5. QED
  BY <1>3, <1>4

LEMMA SelectStep ==
    ASSUME SqlInv, NEW c \in Callers, Select(c)
    PROVE  SqlInv'
<1> DEFINE u == request[c].user
           a == IF request[c].op = "history" THEN History(Ordered(txAudit[u]))
                ELSE IF txRows[u] = None THEN Plain("missing")
                ELSE Holding("found", txRows[u])
<1>1. pc[c] = "select" /\ Answer(c, a) /\ UNCHANGED <<disk, view, connection>>
  BY DEF Select
<1>2. u \in Users /\ Within(c) /\ ~Writing(c)
  BY <1>1, Asked DEF Within, Writing, Statements
<1>3. /\ view = disk /\ txAudit = audit
      /\ \A d \in Callers \ {c} : ~Writing(d)
  BY <1>2, SeesDisk
<1>4. a \in Replies
  <2>1. Ordered(audit[u]) \in Seq(Profiles)
    <3>1. Height(u) \in Nat /\ Tidy(audit[u], Height(u))
      BY <1>2, Heights DEF SqlInv, Agree
    <3>2. Ordered(audit[u]) = [i \in 1..Height(u) |-> Rev(audit[u], i)]
      BY <3>1, InOrder
    <3>3. \A i \in 1..Height(u) : Rev(audit[u], i) \in Profiles
      BY <3>1, TheRev
    <3>4. QED
      BY <3>1, <3>2, <3>3
  <2>2. txRows[u] \in Profiles \cup {None}
    BY <1>2 DEF SqlInv, TypeOK
  <2>3. QED
    BY <1>3, <2>1, <2>2, ReplyForms
<1> HIDE DEF a
<1>5. Mine(c) /\ pc'[c] = "release" /\ Call(c)'
  BY <1>1, <1>4, MineAnswers
<1>6. Within(c)' /\ ~Writing(c)'
  BY <1>5 DEF Within, Writing
<1>7. Held'
  BY <1>1, <1>2, <1>5, <1>6, HeldStill
<1>8. Calm(c)
  BY <1>1, <1>3, <1>5, <1>6, <1>7 DEF Calm, SqlInv, TypeOK
<1>9. QED
  BY <1>8, CalmStep

LEMMA ReleaseStep ==
    ASSUME SqlInv, NEW c \in Callers, Release(c)
    PROVE  SqlInv'
<1>1. pc[c] = "release" /\ connection' = None /\ Go(c, "return") /\ UNCHANGED <<disk, view, calls>>
  BY DEF Release
<1>2. Within(c) /\ ~Writing(c)
  BY <1>1 DEF Within, Writing
<1>3. Mine(c) /\ pc'[c] = "return" /\ request'[c] = request[c] /\ reply'[c] = reply[c]
  BY <1>1, MineGoes DEF Steps
<1>4. Call(c)'
  BY <1>1, <1>3 DEF SqlInv, Call
<1>5. view = disk /\ \A d \in Callers \ {c} : ~Writing(d) /\ ~Within(d)
  BY <1>2, SeesDisk, Alone DEF SqlInv
<1>6. ~Within(c)' /\ ~Writing(c)'
  BY <1>3 DEF Within, Writing, Statements
<1>7. Held'
  BY <1>1, <1>3, <1>5, <1>6 DEF Held, Within, Mine
<1>8. Calm(c)
  BY <1>1, <1>3, <1>4, <1>5, <1>6, <1>7 DEF Calm
<1>9. QED
  BY <1>8, CalmStep

(* A row is written, and the transaction goes on to its revision.          *)
LEMMA PutStep ==
    ASSUME SqlInv, NEW c \in Callers, pc[c] \in {"insert", "update"},
           Put(c, Written(c)), Go(c, "audit"),
           UNCHANGED <<disk, txAudit, connection, calls>>,
           Written(c) \in Versions, Written(c) = Height(request[c].user) + 1,
           request[c].op = "update" => rows[request[c].user] # None
    PROVE  SqlInv'
<1> DEFINE u == request[c].user
<1>1. /\ u \in Users /\ request[c].input \in Inputs /\ Call(c)
      /\ Within(c) /\ ~Writing(c) /\ pc[c] # "idle"
  BY Asked DEF SqlInv, Call, Within, Writing, Statements
<1>2. /\ view = disk /\ txRows = rows /\ txAudit = audit
      /\ \A d \in Callers \ {c} : ~Writing(d)
  BY <1>1, SeesDisk
<1>3. New(c) \in Profiles
  BY <1>1, ProfileForms DEF New
<1>4. Mine(c) /\ pc'[c] = "audit" /\ request'[c] = request[c] /\ reply'[c] = reply[c]
  BY MineGoes DEF Steps, Statements
<1>5. Call(c)'
  BY <1>1, <1>4 DEF Call
<1>6. \A d \in Callers : Call(d)'
  BY <1>4, <1>5, CallsOfOthers
<1>7. Within(c)'
  BY <1>4 DEF Within, Statements
<1>8. Held'
  BY <1>1, <1>4, <1>7, HeldStill
<1>9. /\ rows' = rows /\ audit' = audit /\ txAudit' = audit
      /\ txRows' = [rows EXCEPT ![u] = New(c)]
  BY <1>2 DEF Put, New, disk
<1>10. New(c)' = New(c) /\ Written(c)' = Written(c) /\ Height(u)' = Height(u)
  BY <1>4, <1>9 DEF New, Written, Height
<1>11. Draft(c)'
  BY <1>3, <1>4, <1>9, <1>10 DEF Draft
<1>12. \A d \in Callers : Writing(d)' => d = c
  BY <1>2, <1>4 DEF Mine, Writing
<1>13. Writing(c)'
  BY <1>4 DEF Writing
<1>14. View'
  BY <1>11, <1>12, <1>13 DEF View
<1>15. TypeOK'
  BY <1>3, <1>4, <1>9 DEF SqlInv, TypeOK, Mine
<1>16. Agree'
  BY <1>9 DEF SqlInv, Agree, Height
<1>17. QED
  BY <1>6, <1>8, <1>14, <1>15, <1>16 DEF SqlInv

LEMMA InsertStep ==
    ASSUME SqlInv, NEW c \in Callers, Insert(c)
    PROVE  SqlInv'
<1> DEFINE u == request[c].user
<1>1. pc[c] = "insert" /\ pc[c] \in Statements /\ Within(c) /\ ~Writing(c)
      /\ request[c].op = "create" /\ u \in Users
  BY Asked DEF Insert, Statements, Within, Writing, SqlInv, Call
<1>2. CASE Refuse(c, Plain("exists"))
  BY <1>1, <1>2, RefuseStep, ReplyForms
<1>3. CASE txRows[u] = None /\ Put(c, 1) /\ Go(c, "audit")
           /\ UNCHANGED <<disk, txAudit, connection, calls>>
  <2>1. Height(u) = 0
    BY <1>1, <1>3, SeesDisk DEF Height
  <2>2. Written(c) = 1 /\ 1 \in Versions
    BY <1>1, LastVersionAssumption DEF Written, Versions
  <2>3. QED
    BY <1>1, <1>3, <2>1, <2>2, PutStep
<1>4. QED
  BY <1>2, <1>3 DEF Insert

LEMMA UpdateStep ==
    ASSUME SqlInv, NEW c \in Callers, Update(c)
    PROVE  SqlInv'
<1> DEFINE u == request[c].user
           expected == request[c].expected
<1>1. pc[c] = "update" /\ pc[c] \in Statements /\ Within(c) /\ ~Writing(c)
      /\ request[c].op = "update" /\ u \in Users /\ expected \in Nat
  <2>1. pc[c] = "update" /\ request[c].op = "update"
    BY DEF Update, SqlInv, Call
  <2>2. QED
    BY <2>1, Asked DEF Statements, Within, Writing
<1>2. CASE Refuse(c, Plain("exhausted"))
  BY <1>1, <1>2, RefuseStep, ReplyForms
<1>3. CASE Go(c, "classify") /\ UNCHANGED <<disk, view, connection, calls>>
  <2>1. Mine(c) /\ pc'[c] = "classify" /\ request'[c] = request[c] /\ reply'[c] = reply[c]
    BY <1>3, MineGoes DEF Steps, Statements
  <2>2. Call(c)'
    BY <1>1, <2>1 DEF SqlInv, Call
  <2>3. Within(c)' /\ ~Writing(c)'
    BY <2>1 DEF Within, Writing, Statements
  <2>4. Held'
    BY <1>1, <1>3, <2>1, <2>3, HeldStill
  <2>5. view = disk /\ \A d \in Callers \ {c} : ~Writing(d)
    BY <1>1, SeesDisk
  <2>6. Calm(c)
    BY <1>3, <2>1, <2>2, <2>3, <2>4, <2>5 DEF Calm, SqlInv, TypeOK
  <2>7. QED
    BY <2>6, CalmStep
<1>4. CASE ~Exhausted(expected) /\ Matches(u, expected) /\ Put(c, expected + 1) /\ Go(c, "audit")
           /\ UNCHANGED <<disk, txAudit, connection, calls>>
  <2>1. Height(u) = expected /\ rows[u] # None
    BY <1>1, <1>4, SeesDisk DEF Height, Matches
  <2>2. Written(c) = expected + 1 /\ expected + 1 \in Versions
    BY <1>1, <1>4, LastVersionAssumption DEF Written, Versions, Exhausted
  <2>3. QED
    BY <1>1, <1>4, <2>1, <2>2, PutStep
<1>5. QED
  BY <1>2, <1>3, <1>4 DEF Update

(* What a writer has done, and what its transaction makes of the tables.   *)
LEMMA Writers ==
    ASSUME SqlInv, NEW c \in Callers, Writing(c)
    PROVE  LET u == request[c].user IN
           /\ Draft(c) /\ Within(c) /\ u \in Users /\ New(c) \in Profiles
           /\ request[c] \in Requests /\ pc[c] # "idle" /\ Call(c)
           /\ New(c).version = Height(u) + 1 /\ Height(u) \in Nat
           /\ New(c).input = request[c].input
           /\ \A d \in Callers \ {c} : ~Writing(d)
<1>1. pc[c] # "idle" /\ Within(c) /\ Call(c) /\ Draft(c)
  BY DEF Writing, Within, Statements, SqlInv, View
<1>2. request[c] \in Requests /\ request[c].user \in Users
  BY <1>1, Asked
<1>3. \A d \in Callers \ {c} : ~Writing(d)
  BY <1>1, Alone DEF SqlInv
<1>4. New(c).version = Height(request[c].user) + 1 /\ Height(request[c].user) \in Nat
  BY <1>1, <1>2, ProfileForms, Heights DEF Draft, New, SqlInv
<1>5. New(c).input = request[c].input
  BY ProfileForms DEF New
<1>6. QED
  BY <1>1, <1>2, <1>3, <1>4, <1>5 DEF Draft

LEMMA RevisionStep ==
    ASSUME SqlInv, NEW c \in Callers, InsertRevision(c)
    PROVE  SqlInv'
<1> DEFINE u == request[c].user
<1>1. pc[c] = "audit" /\ Writing(c) /\ Go(c, "commit")
      /\ txAudit' = [txAudit EXCEPT ![u] = @ \cup {New(c)}]
      /\ UNCHANGED <<disk, txRows, connection, calls>>
  BY DEF InsertRevision, New, Writing
<1>2. /\ Draft(c) /\ Within(c) /\ u \in Users /\ New(c) \in Profiles /\ Call(c)
      /\ \A d \in Callers \ {c} : ~Writing(d)
  BY <1>1, Writers
<1>3. Mine(c) /\ pc'[c] = "commit" /\ request'[c] = request[c] /\ reply'[c] = reply[c]
  BY <1>1, MineGoes DEF Steps, Statements
<1>4. Call(c)'
  BY <1>1, <1>2, <1>3 DEF Call
<1>5. \A d \in Callers : Call(d)'
  BY <1>3, <1>4, CallsOfOthers
<1>6. Within(c)' /\ Writing(c)'
  BY <1>3 DEF Within, Writing, Statements
<1>7. Held'
  BY <1>1, <1>2, <1>3, <1>6, HeldStill
<1>8. /\ rows' = rows /\ audit' = audit /\ txRows' = [rows EXCEPT ![u] = New(c)]
      /\ txAudit' = [audit EXCEPT ![u] = @ \cup {New(c)}]
  BY <1>1, <1>2 DEF Draft, disk
<1>9. New(c)' = New(c) /\ Written(c)' = Written(c) /\ Height(u)' = Height(u)
  BY <1>3, <1>8 DEF New, Written, Height
<1>10. Draft(c)'
  BY <1>2, <1>3, <1>8, <1>9 DEF Draft
<1>11. \A d \in Callers : Writing(d)' => d = c
  BY <1>2, <1>3 DEF Mine, Writing
<1>12. View'
  BY <1>6, <1>10, <1>11 DEF View
<1>13. TypeOK'
  <2>1. TypeOK
    BY DEF SqlInv
  <2>2. audit[u] \cup {New(c)} \in SUBSET Profiles
    BY <1>2, <2>1 DEF TypeOK
  <2>3. txRows' \in [Users -> Profiles \cup {None}]
    BY <1>2, <1>8, <2>1 DEF TypeOK
  <2>4. txAudit' \in [Users -> SUBSET Profiles]
    BY <1>8, <2>1, <2>2 DEF TypeOK
  <2>5. connection' \in Callers \cup {None}
    BY <1>1, <2>1 DEF TypeOK
  <2>6. QED
    BY <1>3, <1>8, <2>1, <2>3, <2>4, <2>5 DEF TypeOK, Mine
<1>14. Agree'
  BY <1>8 DEF SqlInv, Agree, Height
<1>15. QED
  BY <1>5, <1>7, <1>12, <1>13, <1>14 DEF SqlInv

(* What a commit makes of the tables.                                      *)
LEMMA Committed ==
    ASSUME SqlInv, NEW c \in Callers, Commit(c), NEW u \in Users, u = request[c].user
    PROVE  /\ rows' = [rows EXCEPT ![u] = New(c)]
           /\ audit' = [audit EXCEPT ![u] = @ \cup {New(c)}]
           /\ Height(u)' = Height(u) + 1
           /\ \A v \in Users \ {u} : /\ audit'[v] = audit[v] /\ rows'[v] = rows[v]
                                     /\ Height(v)' = Height(v)
           /\ audit'[u] = audit[u] \cup {New(c)} /\ rows'[u] = New(c)
<1>1. pc[c] = "commit" /\ Writing(c) /\ rows' = txRows /\ audit' = txAudit
  BY DEF Commit, Writing
<1>2. Draft(c) /\ u \in Users /\ New(c) \in Profiles /\ New(c).version = Height(u) + 1
  BY <1>1, Writers
<1>3. rows' = [rows EXCEPT ![u] = New(c)] /\ audit' = [audit EXCEPT ![u] = @ \cup {New(c)}]
  BY <1>1, <1>2 DEF Draft
<1>4. /\ audit'[u] = audit[u] \cup {New(c)} /\ rows'[u] = New(c)
      /\ \A v \in Users \ {u} : audit'[v] = audit[v] /\ rows'[v] = rows[v]
  BY <1>2, <1>3 DEF SqlInv, TypeOK
<1>5. Height(u)' = Height(u) + 1
  <2>1. rows'[u] # None /\ rows'[u].version = Height(u) + 1
    BY <1>2, <1>4, NoneIsNothing
  <2>2. Height(u)' = rows'[u].version
    <3>1. Height(u)' = IF rows'[u] = None THEN 0 ELSE rows'[u].version
      BY DEF Height
    <3>2. QED
      BY <2>1, <3>1
  <2>3. QED
    BY <2>1, <2>2
<1>6. \A v \in Users \ {u} : Height(v)' = Height(v)
  BY <1>4 DEF Height
<1>7. QED
  BY <1>3, <1>4, <1>5, <1>6

LEMMA CommitStep ==
    ASSUME SqlInv, NEW c \in Callers, Commit(c)
    PROVE  SqlInv'
<1> DEFINE u == request[c].user
           a == Holding(IF request[c].op = "create" THEN "created" ELSE "applied", New(c))
<1>1. pc[c] = "commit" /\ Writing(c) /\ Answer(c, a)
      /\ rows' = txRows /\ audit' = txAudit /\ UNCHANGED <<view, connection>>
  BY DEF Commit, Writing, New
<1>2. /\ Within(c) /\ u \in Users /\ New(c) \in Profiles /\ pc[c] # "idle"
      /\ New(c).version = Height(u) + 1 /\ Height(u) \in Nat
      /\ \A d \in Callers \ {c} : ~Writing(d)
  BY <1>1, Writers
<1>3. a \in Replies
  BY <1>2, ReplyForms
<1> HIDE DEF a
<1>4. Mine(c) /\ pc'[c] = "release" /\ Call(c)'
  BY <1>1, <1>2, <1>3, MineAnswers
<1>5. \A d \in Callers : Call(d)'
  BY <1>4, CallsOfOthers
<1>6. Within(c)' /\ ~Writing(c)'
  BY <1>4 DEF Within, Writing
<1>7. Held'
  BY <1>1, <1>2, <1>4, <1>6, HeldStill
<1>8. view' = disk'
  BY <1>1 DEF view, disk
<1>9. \A d \in Callers : ~Writing(d)'
  BY <1>2, <1>4, <1>6 DEF Mine, Writing
<1>10. View'
  BY <1>8, <1>9 DEF View
<1>11. TypeOK'
  BY <1>1, <1>4 DEF SqlInv, TypeOK, Mine, view
<1>12. ASSUME NEW v \in Users
       PROVE  /\ Tidy(audit[v], Height(v))'
              /\ rows'[v] # None => rows'[v] \in audit'[v]
  <2>1. Tidy(audit[v], Height(v)) /\ (rows[v] # None => rows[v] \in audit[v])
    BY DEF SqlInv, Agree
  <2>2. CASE v = u
    <3>1. audit'[v] = audit[v] \cup {New(c)} /\ rows'[v] = New(c) /\ Height(v)' = Height(v) + 1
      BY <2>2, Committed
    <3>2. Tidy(audit[v] \cup {New(c)}, Height(v) + 1)
      BY <1>2, <2>1, <2>2, OneMore
    <3>3. Tidy(audit'[v], Height(v)')
      BY <3>1, <3>2
    <3>4. QED
      BY <3>1, <3>3 DEF Tidy
  <2>3. CASE v # u
    <3>1. audit'[v] = audit[v] /\ rows'[v] = rows[v] /\ Height(v)' = Height(v)
      BY <1>2, <2>3, Committed
    <3>2. Tidy(audit'[v], Height(v)')
      BY <2>1, <3>1
    <3>3. QED
      BY <2>1, <3>1, <3>2 DEF Tidy
  <2>4. QED
    BY <2>2, <2>3
<1>13. Agree'
  BY <1>12 DEF Agree
<1>14. QED
  BY <1>5, <1>7, <1>10, <1>11, <1>13 DEF SqlInv

LEMMA CrashStep ==
    ASSUME SqlInv, Crash
    PROVE  SqlInv'
<1>1. /\ rows' = rows /\ audit' = audit /\ txRows' = rows /\ txAudit' = audit
      /\ connection' = None
      /\ pc' = [c \in Callers |-> "idle"]
      /\ request' = [c \in Callers |-> None] /\ reply' = [c \in Callers |-> None]
  BY DEF Crash, Rollback, disk
<1>2. TypeOK'
  BY <1>1 DEF SqlInv, TypeOK, Steps
<1>3. \A c \in Callers : Call(c)'
  BY <1>1 DEF Call
<1>4. \A c \in Callers : ~Within(c)' /\ ~Writing(c)'
  BY <1>1 DEF Within, Writing, Statements
<1>5. Held' /\ View'
  BY <1>1, <1>4 DEF Held, View, view, disk
<1>6. Agree'
  BY <1>1 DEF SqlInv, Agree, Height
<1>7. QED
  BY <1>2, <1>3, <1>5, <1>6 DEF SqlInv

LEMMA SqlInit == Init => SqlInv
<1> SUFFICES ASSUME Init
             PROVE  SqlInv
  OBVIOUS
<1>1. TypeOK
  BY DEF Init, TypeOK, Steps
<1>2. \A c \in Callers : Call(c) /\ ~Within(c) /\ ~Writing(c)
  BY DEF Init, Call, Within, Writing, Statements
<1>3. Held /\ View
  BY <1>2 DEF Init, Held, View, view, disk
<1>4. \A u \in Users : rows[u] = None /\ audit[u] = {} /\ Height(u) = 0
  BY DEF Init, Height
<1>5. Tidy({}, 0)
  BY DEF Tidy
<1>6. Agree
  BY <1>4, <1>5 DEF Agree
<1>7. QED
  BY <1>1, <1>2, <1>3, <1>6 DEF SqlInv

LEMMA SqlStep == SqlInv /\ [Next]_vars => SqlInv'
<1> SUFFICES ASSUME SqlInv, [Next]_vars
             PROVE  SqlInv'
  OBVIOUS
<1>1. ASSUME NEW c \in Callers, Invoke(c) \/ Step(c)
      PROVE  SqlInv'
  BY <1>1, InvokeStep, AcquireStep, InsertStep, UpdateStep, ClassifyStep, RevisionStep,
     CommitStep, SelectStep, FailStep, ReleaseStep, ReturnStep DEF Step
<1>2. CASE UNCHANGED vars
  BY <1>2 DEF vars, disk, view, calls, SqlInv, TypeOK, Call, Held, Within, View, Writing, Draft,
              New, Written, Agree, Height
<1>3. QED
  BY <1>1, <1>2, CrashStep DEF Next

THEOREM SqlInvariant == Spec => []SqlInv
BY SqlInit, SqlStep, PTL DEF Spec
-----------------------------------------------------------------------------
(* Every variable keeps to its type.                                       *)
THEOREM Typing == Spec => []TypeOK
<1>1. SqlInv => TypeOK
  BY DEF SqlInv
<1>2. QED
  BY <1>1, SqlInvariant, PTL

LEMMA NothingLeft == SqlInv => NoLeftovers
<1> SUFFICES ASSUME SqlInv, connection = None \/ pc[connection] = "release"
             PROVE  view = disk
  BY DEF NoLeftovers
<1>1. \A c \in Callers : ~Writing(c)
  BY NoneIsNothing DEF SqlInv, Held, Within, Writing, Statements
<1>2. QED
  BY <1>1 DEF SqlInv, View

(* The next caller sees what is on disk, whatever the last one began.      *)
THEOREM Cleanliness == Spec => []NoLeftovers
BY SqlInvariant, NothingLeft, PTL

LEMMA Agreed == SqlInv => TablesAgree
<1> SUFFICES ASSUME SqlInv, NEW u \in Users
             PROVE  /\ {r.version : r \in audit[u]} = 1..Height(u)
                    /\ Cardinality(audit[u]) = Height(u)
                    /\ rows[u] # None => rows[u] \in audit[u]
  BY DEF TablesAgree
<1>1. Tidy(audit[u], Height(u)) /\ Height(u) \in Nat
  BY Heights DEF SqlInv, Agree
<1>2. QED
  BY <1>1, InOrder DEF SqlInv, Agree

(* Whatever fails, and whenever the process stops, row and revisions agree.*)
THEOREM Agreement == Spec => []TablesAgree
BY SqlInvariant, Agreed, PTL

LEMMA OnlyCommitWrites ==
    ASSUME Next, ~UNCHANGED disk
    PROVE  \E c \in Callers : Commit(c)
BY DEF Next, Step, Crash, Invoke, Acquire, Insert, Update, Classify, InsertRevision, Select, Fail,
       Release, Return, Refuse

LEMMA Durable ==
    SqlInv /\ [Next]_vars =>
        [\A u \in Users : audit[u] \subseteq audit'[u] /\ Height(u) <= Height(u)']_vars
<1> SUFFICES ASSUME SqlInv, Next, NEW u \in Users
             PROVE  audit[u] \subseteq audit'[u] /\ Height(u) <= Height(u)'
  OBVIOUS
<1>1. Height(u) \in Nat
  BY Heights DEF SqlInv
<1>2. CASE UNCHANGED disk
  BY <1>1, <1>2 DEF disk, Height
<1>3. CASE ~UNCHANGED disk
  <2>1. PICK c \in Callers : Commit(c)
    BY <1>3, OnlyCommitWrites
  <2>2. CASE u = request[c].user
    <3>1. audit'[u] = audit[u] \cup {New(c)} /\ Height(u)' = Height(u) + 1
      BY <2>1, <2>2, Committed
    <3>2. QED
      BY <1>1, <3>1
  <2>3. CASE u # request[c].user
    <3>1. audit'[u] = audit[u] /\ Height(u)' = Height(u)
      <4>1. request[c].user \in Users
        BY <2>1, Writers DEF Commit, Writing
      <4>2. QED
        BY <2>1, <2>3, <4>1, Committed
    <3>2. QED
      BY <1>1, <3>1
  <2>4. QED
    BY <2>2, <2>3
<1>4. QED
  BY <1>2, <1>3

(* No failure and no restart takes back what was accepted.                 *)
THEOREM Durability == Spec => AcceptedIsDurable
BY SqlInvariant, Durable, PTL DEF Spec, AcceptedIsDurable
-----------------------------------------------------------------------------
(* The refinement.  A call that classifies a failed update knows why it    *)
(* has failed, for it is alone with the tables since.                      *)
Misses(c) ==
    LET u == request[c].user IN
    /\ ~Exhausted(request[c].expected)
    /\ rows[u] # None => request[c].expected # Height(u)

Missed == \A c \in Callers : pc[c] = "classify" => Misses(c)

LEMMA MissedStep == SqlInv /\ Missed /\ [Next]_vars => Missed'
<1> SUFFICES ASSUME SqlInv, Missed, [Next]_vars, NEW c \in Callers, pc'[c] = "classify"
             PROVE  Misses(c)'
  BY DEF Missed
<1>1. CASE Crash \/ UNCHANGED vars
  BY <1>1 DEF Crash, vars, disk, calls, view, Missed, Misses, Exhausted, Height
<1>2. ASSUME NEW d \in Callers, Invoke(d) \/ Step(d), pc[c] = "classify", d # c
      PROVE  Misses(c)'
  <2>1. request'[c] = request[c]
    BY <1>2 DEF Step, Invoke, Acquire, Insert, Update, Classify, InsertRevision, Commit, Select,
                Fail, Release, Return, Refuse, Answer, calls, SqlInv, TypeOK
  <2>2. Within(c)
    BY <1>2 DEF Within, Statements
  <2>3. ~Within(d)
    BY <1>2, <2>2, Alone DEF SqlInv
  <2>4. rows' = rows
    BY <1>2, <2>3 DEF Step, Invoke, Acquire, Insert, Update, Classify, InsertRevision, Commit,
                      Select, Fail, Release, Return, Refuse, disk, Within, Statements
  <2>5. QED
    BY <1>2, <2>1, <2>4 DEF Missed, Misses, Exhausted, Height
<1>3. ASSUME NEW d \in Callers, Invoke(d) \/ Step(d), pc[c] # "classify" \/ d = c
      PROVE  Misses(c)'
  <2>1. pc[c] # "classify" => d = c
    BY <1>3 DEF Step, Invoke, Acquire, Insert, Update, Classify, InsertRevision, Commit, Select,
                Fail, Release, Return, Refuse, Answer, Go, SqlInv, TypeOK
  <2>2. d = c
    BY <1>3, <2>1
  <2>3. Update(c) /\ pc[c] = "update"
    <3>1. FirstStatement(request[c].op) # "classify"
      BY DEF FirstStatement
    <3>2. QED
      BY <1>3, <2>2, <3>1 DEF Step, Invoke, Acquire, Insert, Update, Classify, InsertRevision,
                Commit, Select, Fail, Release, Return, Refuse, Answer, Go, SqlInv, TypeOK
  <2>4. ~Exhausted(request[c].expected) /\ ~Matches(request[c].user, request[c].expected)
        /\ UNCHANGED <<disk, view, connection, calls>>
    BY <2>3 DEF Update, Refuse, Answer, Go, SqlInv, TypeOK
  <2>5. txRows = rows
    BY <2>3, SeesDisk DEF Within, Writing, Statements
  <2>6. QED
    BY <2>4, <2>5 DEF Misses, Matches, Exhausted, Height, disk, calls
<1>4. QED
  BY <1>1, <1>2, <1>3 DEF Next

Inv == SqlInv /\ Missed

LEMMA AlwaysInv == Spec => []Inv
<1>1. Init => Missed
  BY DEF Init, Missed
<1>2. QED
  BY <1>1, SqlInit, SqlStep, MissedStep, PTL DEF Spec, Inv

(* The log that is committed, as the tables hold it.                       *)
LEMMA LogFacts ==
    ASSUME SqlInv, NEW u \in Users
    PROVE  /\ Height(u) \in Nat /\ Tidy(audit[u], Height(u))
           /\ CommittedLog[u] = [i \in 1..Height(u) |-> Rev(audit[u], i).input]
           /\ CommittedLog[u] \in Seq(Inputs) /\ Len(CommittedLog[u]) = Height(u)
           /\ CommittedLog[u] = <<>> <=> rows[u] = None
           /\ rows[u] # None => /\ rows[u] \in Profiles
                               /\ rows[u] = Profile(Height(u), CommittedLog[u][Height(u)])
           /\ Ordered(audit[u]) = [i \in 1..Height(u) |-> Profile(i, CommittedLog[u][i])]
<1>1. /\ Height(u) \in Nat /\ Tidy(audit[u], Height(u)) /\ (rows[u] = None <=> Height(u) = 0)
      /\ rows[u] \in Profiles \cup {None}
  BY Heights DEF SqlInv, Agree, TypeOK
<1> DEFINE n == Height(u)
<1>2. Cardinality(audit[u]) = n /\ Ordered(audit[u]) = [i \in 1..n |-> Rev(audit[u], i)]
  BY <1>1, InOrder
<1>3. \A i \in 1..n : /\ Rev(audit[u], i) \in Profiles /\ Rev(audit[u], i).input \in Inputs
                     /\ Rev(audit[u], i).version = i
                     /\ Rev(audit[u], i) = Profile(i, Rev(audit[u], i).input)
  BY <1>1, TheRev, ProfileForms
<1>4. CommittedLog[u] = [i \in 1..n |-> Rev(audit[u], i).input]
  <2>1. CommittedLog[u] = [i \in 1..n |-> Ordered(audit[u])[i].input]
    BY <1>2 DEF CommittedLog
  <2>2. \A i \in 1..n : Ordered(audit[u])[i] = Rev(audit[u], i)
    BY <1>2
  <2>3. QED
    BY <2>1, <2>2
<1> HIDE DEF n
<1>5. n \in Nat
  BY <1>1 DEF n
<1>6. CommittedLog[u] \in Seq(Inputs) /\ Len(CommittedLog[u]) = n
  BY <1>3, <1>4, <1>5
<1>7. CommittedLog[u] = <<>> <=> rows[u] = None
  BY <1>1, <1>5, <1>6 DEF n
<1>8. ASSUME rows[u] # None
      PROVE  rows[u] = Profile(n, CommittedLog[u][n])
  <2>1. rows[u] \in Profiles /\ rows[u].version = n /\ rows[u] \in audit[u]
    BY <1>1, <1>8 DEF Height, n, SqlInv, Agree
  <2>2. n \in 1..n
    BY <1>1, <1>5, <1>8 DEF n
  <2>3. Tidy(audit[u], n)
    BY <1>1 DEF n
  <2>4. rows[u] = Rev(audit[u], n)
    BY <1>5, <2>1, <2>2, <2>3, TheRev
  <2>5. CommittedLog[u][n] = Rev(audit[u], n).input
    BY <1>4, <2>2
  <2>6. QED
    BY <1>3, <2>2, <2>4, <2>5
<1>9. Ordered(audit[u]) = [i \in 1..n |-> Profile(i, CommittedLog[u][i])]
  <2>1. Ordered(audit[u]) = [i \in 1..n |-> Rev(audit[u], i)]
    BY <1>2 DEF n
  <2>2. \A i \in 1..n : Rev(audit[u], i) = Profile(i, CommittedLog[u][i])
    BY <1>3, <1>4
  <2>3. QED
    BY <2>1, <2>2
<1>10. QED
  BY <1>1, <1>4, <1>6, <1>7, <1>8, <1>9 DEF n

(* The contract's vocabulary is the store's own.                           *)
LEMMA SameWords ==
    /\ Contract!Requests = Requests
    /\ \A v, i : Contract!Profile(v, i) = Profile(v, i)
    /\ \A k, p : Contract!Holding(k, p) = Holding(k, p)
    /\ \A k : Contract!Plain(k) = Plain(k)
    /\ \A v : Contract!Stale(v) = Stale(v)
    /\ \A h : Contract!History(h) = History(h)
    /\ \A c, a : Contract!Answer(c, a) <=> reply' = [reply EXCEPT ![c] = a] /\ UNCHANGED request
    /\ \A u, v : Contract!Exhausts(u, v) <=> Exhausted(v)
BY DEF Contract!Requests, Requests, Contract!Profile, Profile, Contract!Holding, Holding,
       Contract!Plain, Plain, Contract!Stale, Stale, Contract!History, History,
       Contract!Answer, Contract!Exhausts, Exhausted

LEMMA PendingCall ==
    ASSUME SqlInv, NEW c \in Callers, pc[c] \in Statements
    PROVE  /\ request[c] # None /\ reply[c] = None /\ request[c].user \in Users
           /\ Contract!Pending(c, request[c].op)
<1>1. request[c] # None /\ reply[c] = None /\ pc[c] # "idle"
  BY DEF SqlInv, Call, Statements
<1>2. QED
  BY <1>1, Asked DEF Contract!Pending

LEMMA SameLog ==
    ASSUME UNCHANGED disk
    PROVE  CommittedLog' = CommittedLog
BY DEF disk, CommittedLog

LEMMA InsertRefines ==
    ASSUME Inv, NEW c \in Callers, Insert(c)
    PROVE  Contract!Create(c) \/ UNCHANGED Contract!vars
<1> DEFINE u == request[c].user
<1>1. /\ u \in Users /\ Contract!Pending(c, "create") /\ txRows = rows
  BY PendingCall, SeesDisk DEF Insert, Inv, SqlInv, Call, Within, Writing, Statements
<1>2. CASE txRows[u] # None /\ Refuse(c, Plain("exists"))
  <2>1. CommittedLog[u] # <<>>
    BY <1>1, <1>2, LogFacts DEF Inv
  <2>2. CommittedLog' = CommittedLog
    BY <1>2, SameLog DEF Refuse
  <2>3. Contract!Answer(c, Contract!Plain("exists"))
    BY <1>2, SameWords DEF Refuse, Answer
  <2>4. QED
    BY <1>1, <2>1, <2>2, <2>3 DEF Contract!Create
<1>3. CASE UNCHANGED <<disk, txAudit, connection, calls>>
  <2>1. CommittedLog' = CommittedLog
    BY <1>3, SameLog
  <2>2. QED
    BY <1>3, <2>1 DEF calls, Contract!vars
<1>4. QED
  BY <1>2, <1>3 DEF Insert

LEMMA UpdateRefines ==
    ASSUME Inv, NEW c \in Callers, Update(c)
    PROVE  Contract!Update(c) \/ UNCHANGED Contract!vars
<1> DEFINE u == request[c].user
           expected == request[c].expected
<1>1. Contract!Pending(c, "update")
  BY PendingCall DEF Update, Inv, SqlInv, Call, Statements
<1>2. CASE Exhausted(expected) /\ Refuse(c, Plain("exhausted"))
  <2>1. CommittedLog' = CommittedLog
    BY <1>2, SameLog DEF Refuse
  <2>2. Contract!Answer(c, Contract!Plain("exhausted")) /\ Contract!Exhausts(u, expected)
    BY <1>2, SameWords DEF Refuse, Answer
  <2>3. QED
    BY <1>1, <2>1, <2>2 DEF Contract!Update
<1>3. CASE UNCHANGED <<disk, connection, calls>>
  <2>1. CommittedLog' = CommittedLog
    BY <1>3, SameLog
  <2>2. QED
    BY <1>3, <2>1 DEF calls, Contract!vars
<1>4. QED
  BY <1>2, <1>3 DEF Update

LEMMA ClassifyRefines ==
    ASSUME Inv, NEW c \in Callers, Classify(c)
    PROVE  Contract!Update(c)
<1> DEFINE u == request[c].user
           expected == request[c].expected
<1>1. /\ u \in Users /\ Contract!Pending(c, "update") /\ txRows = rows
  BY PendingCall, SeesDisk DEF Classify, Inv, SqlInv, Call, Within, Writing, Statements
<1>2. ~Contract!Exhausts(u, expected) /\ (rows[u] # None => expected # Height(u))
  BY SameWords DEF Classify, Inv, Missed, Misses
<1>3. CommittedLog' = CommittedLog
  BY SameLog DEF Classify, Refuse
<1>4. CASE rows[u] = None
  <2>1. CommittedLog[u] = <<>>
    BY <1>1, <1>4, LogFacts DEF Inv
  <2>2. Contract!Answer(c, Contract!Plain("missing"))
    BY <1>1, <1>4, SameWords DEF Classify, Refuse, Answer
  <2>3. QED
    BY <1>1, <1>2, <1>3, <2>1, <2>2 DEF Contract!Update
<1>5. CASE rows[u] # None
  <2>1. CommittedLog[u] # <<>> /\ Len(CommittedLog[u]) = Height(u)
    BY <1>1, <1>5, LogFacts DEF Inv
  <2>2. Height(u) = rows[u].version
    BY <1>5 DEF Height
  <2>3. Contract!Answer(c, Contract!Stale(Len(CommittedLog[u])))
    BY <1>1, <1>5, <2>1, <2>2, SameWords DEF Classify, Refuse, Answer
  <2>4. QED
    BY <1>1, <1>2, <1>3, <1>5, <2>1, <2>3 DEF Contract!Update
<1>6. QED
  BY <1>4, <1>5

LEMMA SelectRefines ==
    ASSUME Inv, NEW c \in Callers, Select(c)
    PROVE  Contract!Get(c) \/ Contract!ReadHistory(c)
<1> DEFINE u == request[c].user
<1>1. /\ u \in Users /\ txRows = rows /\ txAudit = audit
      /\ request[c].op \in {"get", "history"} /\ Contract!Pending(c, request[c].op)
  BY PendingCall, SeesDisk DEF Select, Inv, SqlInv, Call, Within, Writing, Statements
<1>2. CommittedLog' = CommittedLog
  BY SameLog DEF Select
<1>3. CASE request[c].op = "history"
  <2>1. Ordered(audit[u])
            = [i \in 1..Len(CommittedLog[u]) |-> Contract!Profile(i, CommittedLog[u][i])]
    <3>1. /\ Ordered(audit[u]) = [i \in 1..Height(u) |-> Profile(i, CommittedLog[u][i])]
          /\ Len(CommittedLog[u]) = Height(u)
      BY <1>1, LogFacts DEF Inv
    <3>2. \A i \in 1..Height(u) :
              Contract!Profile(i, CommittedLog[u][i]) = Profile(i, CommittedLog[u][i])
      BY SameWords
    <3>3. QED
      BY <3>1, <3>2
  <2>2. Contract!Answer(c, Contract!History(Ordered(audit[u])))
    BY <1>1, <1>3, SameWords DEF Select, Answer
  <2>3. QED
    BY <1>1, <1>2, <1>3, <2>1, <2>2 DEF Contract!ReadHistory
<1>4. CASE request[c].op = "get" /\ rows[u] = None
  <2>1. CommittedLog[u] = <<>>
    BY <1>1, <1>4, LogFacts DEF Inv
  <2>2. Contract!Answer(c, Contract!Plain("missing"))
    BY <1>1, <1>4, SameWords DEF Select, Answer
  <2>3. QED
    BY <1>1, <1>2, <1>4, <2>1, <2>2 DEF Contract!Get
<1>5. CASE request[c].op = "get" /\ rows[u] # None
  <2>1. CommittedLog[u] # <<>> /\ rows[u] = Contract!Latest(u)
    BY <1>1, <1>5, LogFacts, SameWords DEF Inv, Contract!Latest
  <2>2. Contract!Answer(c, Contract!Holding("found", rows[u]))
    BY <1>1, <1>5, SameWords DEF Select, Answer
  <2>3. QED
    BY <1>1, <1>2, <1>5, <2>1, <2>2 DEF Contract!Get
<1>6. QED
  BY <1>1, <1>3, <1>4, <1>5

(* A commit appends what its call has written.                             *)
LEMMA CommitAppends ==
    ASSUME SqlInv, NEW c \in Callers, Commit(c), NEW u \in Users, u = request[c].user
    PROVE  CommittedLog' = [CommittedLog EXCEPT ![u] = Append(@, request[c].input)]
<1>1. /\ New(c) \in Profiles /\ New(c).version = Height(u) + 1 /\ New(c).input = request[c].input
      /\ request[c].input \in Inputs
  BY Writers, ProfileForms DEF Commit, Writing
<1>2. /\ audit'[u] = audit[u] \cup {New(c)} /\ Height(u)' = Height(u) + 1
      /\ \A v \in Users \ {u} : audit'[v] = audit[v]
  BY Committed
<1> DEFINE n == Height(u)
           before == CommittedLog[u]
<1>3. /\ n \in Nat /\ Tidy(audit[u], n) /\ before \in Seq(Inputs) /\ Len(before) = n
      /\ before = [i \in 1..n |-> Rev(audit[u], i).input]
  BY LogFacts
<1>4. SqlInv'
  BY CommitStep
<1> HIDE DEF n, before
<1>5. /\ Tidy(audit'[u], n + 1) /\ Rev(audit'[u], n + 1) = New(c)
      /\ \A v \in 1..n : Rev(audit'[u], v) = Rev(audit[u], v)
  <2>1. New(c).version = n + 1
    BY <1>1 DEF n
  <2>2. PICK S, p : S = audit[u] /\ p = New(c)
    OBVIOUS
  <2>3. p \in Profiles /\ p.version = n + 1 /\ n \in Nat /\ Tidy(S, n)
    BY <1>1, <1>3, <2>1, <2>2
  <2>4. /\ Tidy(S \cup {p}, n + 1) /\ Rev(S \cup {p}, n + 1) = p
        /\ \A v \in 1..n : Rev(S \cup {p}, v) = Rev(S, v)
    BY <2>3, OneMore
  <2>5. audit'[u] = S \cup {p}
    BY <1>2, <2>2
  <2>6. QED
    BY <2>2, <2>4, <2>5
<1>6. CommittedLog'[u] = [i \in 1..(n + 1) |-> Rev(audit'[u], i).input]
  <2>1. n + 1 \in Nat
    BY <1>3
  <2>2. Cardinality(audit'[u]) = n + 1
        /\ Ordered(audit'[u]) = [i \in 1..(n + 1) |-> Rev(audit'[u], i)]
    BY <1>5, <2>1, InOrder
  <2>3. CommittedLog'[u] = [i \in 1..(n + 1) |-> Ordered(audit'[u])[i].input]
    BY <2>2 DEF CommittedLog
  <2>4. \A i \in 1..(n + 1) : Ordered(audit'[u])[i] = Rev(audit'[u], i)
    BY <2>2
  <2>5. QED
    BY <2>3, <2>4
<1>7. CommittedLog'[u] = Append(before, request[c].input)
  <2>1. Append(before, request[c].input)
            = [i \in 1..(n + 1) |-> IF i = n + 1 THEN request[c].input ELSE before[i]]
    BY <1>1, <1>3
  <2>2. \A i \in 1..(n + 1) : i # n + 1 => i \in 1..n
    BY <1>3
  <2>3. \A i \in 1..n : before[i] = Rev(audit[u], i).input
    BY <1>3
  <2>4. \A i \in 1..(n + 1) :
            Rev(audit'[u], i).input = IF i = n + 1 THEN request[c].input ELSE before[i]
    BY <1>1, <1>5, <2>2, <2>3
  <2>5. QED
    BY <1>6, <2>1, <2>4
<1>8. \A v \in Users \ {u} : CommittedLog'[v] = CommittedLog[v]
  BY <1>2 DEF CommittedLog
<1>9. /\ CommittedLog = [v \in Users |-> CommittedLog[v]]
      /\ CommittedLog' = [v \in Users |-> CommittedLog'[v]]
  BY DEF CommittedLog
<1>10. QED
  BY <1>7, <1>8, <1>9 DEF before

LEMMA CommitRefines ==
    ASSUME Inv, NEW c \in Callers, Commit(c)
    PROVE  Contract!Create(c) \/ Contract!Update(c)
<1> DEFINE u == request[c].user
<1>1. /\ pc[c] = "commit" /\ Writing(c) /\ pc[c] \in Statements
      /\ request[c].op \in {"create", "update"} /\ Contract!Pending(c, request[c].op)
      /\ u \in Users /\ SqlInv
  BY PendingCall DEF Commit, Writing, Statements, Inv, SqlInv, Call
<1>2. /\ Draft(c) /\ New(c) \in Profiles /\ New(c).version = Height(u) + 1
      /\ New(c).input = request[c].input
  BY <1>1, Writers
<1>3. CommittedLog' = [CommittedLog EXCEPT ![u] = Append(@, request[c].input)]
  BY <1>1, CommitAppends
<1>4. /\ CommittedLog[u] \in Seq(Inputs) /\ Len(CommittedLog[u]) = Height(u) /\ Height(u) \in Nat
      /\ CommittedLog[u] = <<>> <=> rows[u] = None
  BY <1>1, LogFacts
<1>5. Written(c) = Height(u) + 1 /\ Written(c) \in Versions
  BY <1>2, ProfileForms DEF Draft
<1>6. CASE request[c].op = "create"
  <2>1. Height(u) = 0 /\ Written(c) = 1
    BY <1>4, <1>5, <1>6 DEF Written
  <2>2. CommittedLog[u] = <<>>
    BY <1>4, <2>1
  <2>3. CommittedLog' = [CommittedLog EXCEPT ![u] = <<request[c].input>>]
    BY <1>3, <2>2
  <2>4. Contract!Answer(c, Contract!Holding("created", Contract!Profile(1, request[c].input)))
    BY <1>6, <2>1, SameWords DEF Commit, Answer
  <2>5. QED
    BY <1>1, <1>6, <2>2, <2>3, <2>4 DEF Contract!Create
<1>7. CASE request[c].op = "update"
  <2>1. Written(c) = request[c].expected + 1 /\ request[c].expected \in Nat
    BY <1>1, <1>7, Asked DEF Written
  <2>2. request[c].expected = Len(CommittedLog[u]) /\ CommittedLog[u] # <<>>
    BY <1>2, <1>4, <1>5, <1>7, <2>1 DEF Draft
  <2>3. ~Contract!Exhausts(u, request[c].expected)
    <3>1. ~Exhausted(request[c].expected)
      BY <1>5, <2>1, LastVersionAssumption DEF Exhausted, Versions
    <3>2. QED
      BY <3>1, SameWords
  <2>4. Contract!Answer(c, Contract!Holding("applied",
            Contract!Profile(request[c].expected + 1, request[c].input)))
    BY <1>7, <2>1, SameWords DEF Commit, Answer
  <2>5. QED
    BY <1>1, <1>3, <1>7, <2>2, <2>3, <2>4 DEF Contract!Update
<1>8. QED
  BY <1>1, <1>6, <1>7

LEMMA OtherRefines ==
    ASSUME Inv, NEW c \in Callers,
           Invoke(c) \/ Acquire(c) \/ InsertRevision(c) \/ Fail(c) \/ Release(c) \/ Return(c)
    PROVE  \/ Contract!Begin(c) \/ Contract!Fail(c) \/ Contract!End(c)
           \/ UNCHANGED Contract!vars
<1>1. CommittedLog' = CommittedLog
  BY SameLog DEF Invoke, Acquire, InsertRevision, Fail, Refuse, Release, Return
<1>2. CASE Invoke(c)
  <2>1. request[c] = None
    BY <1>2 DEF Invoke, Inv, SqlInv, Call
  <2>2. QED
    BY <1>1, <1>2, <2>1, SameWords DEF Invoke, Contract!Begin
<1>3. CASE Acquire(c) \/ InsertRevision(c) \/ Release(c)
  BY <1>1, <1>3 DEF Acquire, InsertRevision, Release, calls, Contract!vars
<1>4. CASE Fail(c)
  <2>1. request[c] # None /\ reply[c] = None
    BY <1>4, PendingCall DEF Fail, Inv
  <2>2. Contract!Answer(c, Contract!Plain("backend"))
    BY <1>4, SameWords DEF Fail, Refuse, Answer
  <2>3. QED
    BY <1>1, <2>1, <2>2 DEF Contract!Fail
<1>5. CASE Return(c)
  <2>1. reply[c] # None
    BY <1>5 DEF Return, Inv, SqlInv, Call
  <2>2. QED
    BY <1>1, <1>5, <2>1 DEF Return, Contract!End
<1>6. QED
  BY <1>2, <1>3, <1>4, <1>5

LEMMA NextRefines == Inv /\ [Next]_vars => [Contract!Next]_(Contract!vars)
<1> SUFFICES ASSUME Inv, [Next]_vars
             PROVE  Contract!Next \/ UNCHANGED Contract!vars
  OBVIOUS
<1>1. CASE UNCHANGED vars
  BY <1>1, SameLog DEF vars, calls, Contract!vars
<1>2. CASE Crash
  BY <1>2, SameLog DEF Crash, Contract!Crash, Contract!Next
<1>3. ASSUME NEW c \in Callers, Invoke(c) \/ Step(c)
      PROVE  Contract!Next \/ UNCHANGED Contract!vars
  BY <1>3, InsertRefines, UpdateRefines, ClassifyRefines, SelectRefines, CommitRefines,
     OtherRefines DEF Step, Contract!Next
<1>4. QED
  BY <1>1, <1>2, <1>3 DEF Next

LEMMA InitRefines == Init => Contract!Init
<1> SUFFICES ASSUME Init
             PROVE  Contract!Init
  OBVIOUS
<1>1. SqlInv /\ \A u \in Users : rows[u] = None
  BY SqlInit DEF Init
<1>2. \A u \in Users : CommittedLog[u] = <<>>
  BY <1>1, LogFacts
<1>3. CommittedLog = [u \in Users |-> CommittedLog[u]]
  BY DEF CommittedLog
<1>4. QED
  BY <1>2, <1>3 DEF Init, Contract!Init

(* The database store is linearizable and survives failures and restarts:  *)
(* each write takes effect at its commit, or not at all.                   *)
THEOREM SqliteStoreImplementsContract == Spec => ContractSpec
BY InitRefines, NextRefines, AlwaysInv, PTL DEF Spec, ContractSpec, Contract!Spec
-----------------------------------------------------------------------------
(* Whatever is asked is answered.  Fairness has its guards written out, as *)
(* in MemoryStoreProofs: a call that is under way steps again and again    *)
(* unless it waits for the connection, which it gets if that is free again *)
(* and again.                                                              *)
Waits(c) == pc[c] = "queued" /\ connection # None
Ready(c) == pc[c] # "idle" /\ ~Waits(c)
Turn(c) == pc[c] = "queued" /\ ~Waits(c)

Runs(c) == []<>~Ready(c) \/ []<><<Step(c)>>_vars
Gets(c) == <>[]~Turn(c) \/ []<><<Acquire(c)>>_vars

Scheduled == \A c \in Callers : Runs(c) /\ Gets(c)

(* This is the fairness of SqliteStore, if the guards say what is enabled. *)
Guarded(c) ==
    /\ Ready(c) => ENABLED <<Step(c)>>_vars
    /\ Turn(c) => ENABLED <<Acquire(c)>>_vars

Fair(c) == WF_vars(Step(c)) /\ SF_vars(Acquire(c))

LEMMA FairlyScheduled ==
    Fairness /\ (\A c \in Callers : []Guarded(c)) => Scheduled
<1>1. Fairness => \A c \in Callers : Fair(c)
  BY PTL DEF Fairness, Fair
<1>2. ASSUME NEW c \in Callers
      PROVE  Fair(c) /\ []Guarded(c) => Runs(c) /\ Gets(c)
  BY PTL DEF Fair, Guarded, Runs, Gets
<1>3. QED
  BY <1>1, <1>2, Zenon DEF Scheduled

(* A statement goes on to the next one or gives up; a restart ends them all. *)
After(place) ==
    CASE place = "queued" -> {"insert", "update", "select", "idle"}
      [] place = "insert" -> {"audit", "release", "idle"}
      [] place = "update" -> {"classify", "audit", "release", "idle"}
      [] place = "audit" -> {"commit", "release", "idle"}
      [] place \in {"classify", "commit", "select"} -> {"release", "idle"}
      [] place = "release" -> {"return", "idle"}
      [] OTHER -> {"idle"}

At(c, place) == pc[c] = place
Onward(c, place) == pc[c] \in After(place)
Passes(c, place) == At(c, place) ~> Onward(c, place)

LEMMA StepOn ==
    ASSUME Inv, NEW c \in Callers, Step(c)
    PROVE  pc'[c] \in After(pc[c])
<1>1. pc \in [Callers -> Steps]
  BY DEF Inv, SqlInv, TypeOK
<1>2. CASE Acquire(c) \/ Insert(c) \/ Update(c) \/ InsertRevision(c)
  BY <1>1, <1>2 DEF Acquire, Insert, Update, InsertRevision, FirstStatement, Refuse, Answer, Go,
     After
<1>3. CASE Classify(c) \/ Commit(c) \/ Select(c) \/ Release(c) \/ Return(c)
  BY <1>1, <1>3 DEF Classify, Commit, Select, Release, Return, Refuse, Answer, Go, After
<1>4. CASE Fail(c)
  BY <1>1, <1>4 DEF Fail, Refuse, Answer, Go, Statements, After
<1>5. QED
  BY <1>2, <1>3, <1>4 DEF Step

LEMMA StepOther ==
    ASSUME Inv, NEW c \in Callers, NEW d \in Callers, d # c, Invoke(d) \/ Step(d)
    PROVE  pc'[c] = pc[c]
<1>1. pc \in [Callers -> Steps]
  BY DEF Inv, SqlInv, TypeOK
<1>2. CASE Invoke(d) \/ Acquire(d) \/ Insert(d) \/ Update(d) \/ InsertRevision(d)
  BY <1>1, <1>2 DEF Invoke, Acquire, Insert, Update, InsertRevision, Refuse, Answer, Go
<1>3. CASE Classify(d) \/ Commit(d) \/ Select(d) \/ Release(d) \/ Return(d) \/ Fail(d)
  BY <1>1, <1>3 DEF Classify, Commit, Select, Release, Return, Fail, Refuse, Answer, Go
<1>4. QED
  BY <1>2, <1>3 DEF Step

LEMMA StaysOrGoesOn ==
    ASSUME Inv, [Next]_vars, NEW c \in Callers, pc[c] # "idle"
    PROVE  pc'[c] = pc[c] \/ pc'[c] \in After(pc[c])
<1>1. CASE UNCHANGED vars
  BY <1>1 DEF vars
<1>2. CASE Crash
  BY <1>2 DEF Crash, After, Inv, SqlInv, TypeOK, Steps, Statements
<1>3. ASSUME NEW d \in Callers, Invoke(d) \/ Step(d)
      PROVE  pc'[c] = pc[c] \/ pc'[c] \in After(pc[c])
  <2>1. CASE d # c
    BY <1>3, <2>1, StepOther
  <2>2. CASE d = c
    BY <1>3, <2>2, StepOn DEF Invoke
  <2>3. QED
    BY <2>1, <2>2
<1>4. QED
  BY <1>1, <1>2, <1>3 DEF Next

(* Every place but the wait for the connection is left behind.             *)
LEMMA GoesOn ==
    ASSUME NEW c \in Callers, NEW place \in Steps \ {"idle", "queued"}
    PROVE  []Inv /\ [][Next]_vars /\ Runs(c) => Passes(c, place)
<1>1. Inv /\ At(c, place) /\ [Next]_vars => At(c, place)' \/ Onward(c, place)'
  BY StaysOrGoesOn DEF At, Onward
<1>2. Inv /\ At(c, place) /\ <<Step(c)>>_vars => Onward(c, place)'
  BY StepOn DEF At, Onward
<1>3. At(c, place) => Ready(c)
  BY DEF At, Ready, Waits
<1>4. QED
  BY <1>1, <1>2, <1>3, PTL DEF Runs, Passes

LEMMA EveryPlace ==
    ASSUME NEW c \in Callers
    PROVE  []Inv /\ [][Next]_vars /\ Runs(c)
              => /\ Passes(c, "insert") /\ Passes(c, "update") /\ Passes(c, "audit")
                 /\ Passes(c, "classify") /\ Passes(c, "commit") /\ Passes(c, "select")
                 /\ Passes(c, "release") /\ Passes(c, "return")
<1>1. {"insert", "update", "audit", "classify", "commit", "select", "release", "return"}
        = Steps \ {"idle", "queued"}
  BY DEF Steps, Statements
<1>2. ASSUME NEW place \in {"insert", "update", "audit", "classify", "commit", "select",
                            "release", "return"}
      PROVE  []Inv /\ [][Next]_vars /\ Runs(c) => Passes(c, place)
  BY <1>1, GoesOn
<1>3. QED
  BY <1>2, Zenon

LEMMA Ways ==
    ASSUME NEW c \in Callers
    PROVE  /\ Onward(c, "queued")
                => At(c, "insert") \/ At(c, "update") \/ At(c, "select") \/ At(c, "idle")
           /\ Onward(c, "insert") => At(c, "audit") \/ At(c, "release") \/ At(c, "idle")
           /\ Onward(c, "update")
                => At(c, "classify") \/ At(c, "audit") \/ At(c, "release") \/ At(c, "idle")
           /\ Onward(c, "audit") => At(c, "commit") \/ At(c, "release") \/ At(c, "idle")
           /\ Onward(c, "classify") => At(c, "release") \/ At(c, "idle")
           /\ Onward(c, "commit") => At(c, "release") \/ At(c, "idle")
           /\ Onward(c, "select") => At(c, "release") \/ At(c, "idle")
           /\ Onward(c, "release") => At(c, "return") \/ At(c, "idle")
           /\ Onward(c, "return") => At(c, "idle")
BY DEF Onward, After, At

(* So the connection is given back, and is free again and again.           *)
Owns(c) == connection = c
Free == connection = None

LEMMA GivesBack ==
    ASSUME NEW c \in Callers
    PROVE  []Inv /\ [][Next]_vars /\ Runs(c) => [](Owns(c) => <>Free)
<1>1. Inv /\ Owns(c) /\ [Next]_vars => Owns(c)' \/ Free'
  <2>1. ASSUME Inv, Owns(c), NEW d \in Callers, Invoke(d) \/ Step(d)
        PROVE  Owns(c)' \/ Free'
    BY <2>1, NoneIsNothing DEF Owns, Free, Step, Invoke, Acquire, Insert, Update, InsertRevision,
       Classify, Commit, Select, Fail, Release, Return, Refuse
  <2>2. QED
    BY <2>1 DEF Next, Crash, vars, Owns, Free
<1>2. Inv /\ Owns(c)
        => \/ At(c, "insert") \/ At(c, "update") \/ At(c, "audit") \/ At(c, "classify")
           \/ At(c, "commit") \/ At(c, "select") \/ At(c, "release")
  BY NoneIsNothing DEF Inv, SqlInv, Held, Within, Statements, Owns, At
<1>3. Inv /\ Owns(c) => ~At(c, "return") /\ ~At(c, "idle")
  BY NoneIsNothing DEF Inv, SqlInv, Held, Within, Statements, Owns, At
<1>4. QED
  BY <1>1, <1>2, <1>3, EveryPlace, Ways, PTL DEF Passes

LEMMA FreeAgain == []Inv /\ [][Next]_vars /\ Scheduled => []<>Free
<1>1. []Inv /\ [][Next]_vars /\ Scheduled => \A c \in Callers : [](Owns(c) => <>Free)
  <2>1. Scheduled => \A c \in Callers : Runs(c)
    BY Zenon DEF Scheduled
  <2>2. QED
    BY <2>1, GivesBack
<1>2. (\A c \in Callers : [](Owns(c) => <>Free)) => [](\A c \in Callers : Owns(c) => <>Free)
  BY Zenon
<1>3. Inv /\ (\A c \in Callers : Owns(c) => <>Free) => Free \/ <>Free
  <2>1. Inv => Free \/ \E c \in Callers : Owns(c)
    BY DEF Inv, SqlInv, TypeOK, Free, Owns
  <2>2. QED
    BY <2>1, Zenon
<1>4. QED
  BY <1>1, <1>2, <1>3, PTL

(* Who waits for it gets it in the end.                                    *)
LEMMA LeavesTheQueue ==
    ASSUME NEW c \in Callers
    PROVE  []Inv /\ [][Next]_vars /\ Scheduled => (At(c, "queued") ~> Onward(c, "queued"))
<1>1. Inv /\ At(c, "queued") /\ [Next]_vars => At(c, "queued")' \/ Onward(c, "queued")'
  BY StaysOrGoesOn DEF At, Onward
<1>2. Inv /\ At(c, "queued") /\ <<Acquire(c)>>_vars => Onward(c, "queued")'
  BY StepOn DEF At, Onward, Step
<1>3. At(c, "queued") /\ Free => Turn(c)
  BY DEF At, Free, Turn, Waits
<1>4. Scheduled => Gets(c)
  BY DEF Scheduled
<1>5. QED
  BY <1>1, <1>2, <1>3, <1>4, FreeAgain, PTL DEF Gets

(* Every call returns, for any number of callers and users, whatever the   *)
(* database refuses and however often the process restarts.                *)
THEOREM CallsReturn == Spec /\ Scheduled => EveryCallReturns
<1>1. ASSUME NEW c \in Callers
      PROVE  Spec /\ Scheduled => (pc[c] # "idle" ~> pc[c] = "idle")
  <2>1. Scheduled => Runs(c)
    BY Zenon DEF Scheduled
  <2>2. []Inv /\ [][Next]_vars /\ Scheduled => (At(c, "queued") ~> Onward(c, "queued"))
    BY LeavesTheQueue
  <2>3. Inv => \/ At(c, "idle") \/ At(c, "queued") \/ At(c, "insert") \/ At(c, "update")
               \/ At(c, "audit") \/ At(c, "classify") \/ At(c, "commit") \/ At(c, "select")
               \/ At(c, "release") \/ At(c, "return")
    BY DEF Inv, SqlInv, TypeOK, Steps, Statements, At
  <2>4. At(c, "idle") <=> pc[c] = "idle"
    BY DEF At
  <2>5. QED
    BY <2>1, <2>2, <2>3, <2>4, EveryPlace, Ways, AlwaysInv, PTL DEF Spec, Passes
<1>2. QED
  BY <1>1 DEF EveryCallReturns
=============================================================================
