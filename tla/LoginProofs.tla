----------------------------- MODULE LoginProofs -----------------------------
(***************************************************************************)
(* Proofs about Login, for any accounts and addresses, any limits, any     *)
(* number of permits and any finite number of requests at a time.          *)
(***************************************************************************)
EXTENDS Login, FiniteSetTheorems, TLAPS

Jobs == {"none", "running", "authenticated", "rejected", "panicked"}
Replies == {"none", "overloaded", "throttled", "invalid", "fault", "token"}
Verdicts == {"none", "allowed", "throttled"}

Shape ==
    /\ byAccount \in [Names -> Counters(AccountLimit)]
    /\ byAddress \in [Addresses -> Counters(AddressLimit)]
    /\ available \in Nat
    /\ pc \in [Handlers -> Steps]
    /\ attempt \in [Handlers -> Attempts \cup {None}]
    /\ verdict \in [Handlers -> Verdicts]
    /\ job \in [Handlers -> Jobs]
    /\ reply \in [Handlers -> Replies]
    /\ decoy = "warm"
    /\ passes \in [Handlers -> Nat]
    /\ guesses \in [Names -> Nat]

(* Where a request is says what there is of it.                            *)
Course(h) ==
    /\ (pc[h] = "idle") = (attempt[h] = None)
    /\ job[h] # "none" => pc[h] = "await" \/ (pc[h] = "cut" /\ job[h] = "running")
    /\ pc[h] = "cut" => job[h] = "running"
    /\ reply[h] # "none" => pc[h] = "answer"

(* What it has cost.                                                       *)
Cost(h) ==
    /\ pc[h] \in {"idle", "address", "account", "submit"} => passes[h] = 0
    /\ pc[h] = "await" /\ job[h] = "running" => passes[h] = 0
    /\ job[h] \in {"authenticated", "rejected"} => passes[h] = 1
    /\ pc[h] \in {"countAccount", "countAddress", "clear", "issue"} => passes[h] = 1
    /\ reply[h] \in {"invalid", "token"} => passes[h] = 1

(* And whether the password was the right one, and allowed.                *)
Just(h) ==
    /\ job[h] = "authenticated" \/ pc[h] \in {"clear", "issue"} \/ reply[h] = "token" => Matches(h)
    /\ job[h] = "rejected" \/ pc[h] = "countAccount" => ~Matches(h)

Way(h) == Course(h) /\ Cost(h) /\ Just(h)

LoginInv == Shape /\ \A h \in Handlers : Way(h)

Row(h) == <<pc[h], attempt[h], verdict[h], job[h], reply[h], passes[h]>>

LEMMA NoneIsNothing ==
    /\ None \notin Attempts
    /\ \A count, age \in Nat : None # [count |-> count, age |-> age]
BY NoneAssumption DEF Entries

-----------------------------------------------------------------------------
(* The counters of the throttle.                                           *)

LEMMA EntryFields ==
    ASSUME NEW limit \in Nat \ {0}, NEW entry \in Counters(limit), entry # None
    PROVE  /\ entry.count \in 1..limit /\ entry.age \in 0..Window
           /\ entry = [count |-> entry.count, age |-> entry.age]
BY DEF Counters

LEMMA EntryMade ==
    ASSUME NEW limit \in Nat \ {0}, NEW count \in 1..limit, NEW age \in 0..Window
    PROVE  /\ [count |-> count, age |-> age] \in Counters(limit)
           /\ [count |-> count, age |-> age] # None
<1>1. count \in Nat /\ age \in Nat
  BY LimitsAssumption
<1>2. QED
  BY <1>1, NoneIsNothing DEF Counters

(* A counter that is bumped, aged or looked at stays one, and while it has *)
(* not lapsed none of these lowers it.                                     *)
LEMMA Bumped ==
    ASSUME NEW limit \in Nat \ {0}, NEW entry \in Counters(limit)
    PROVE  /\ Bump(entry, limit) \in Counters(limit)
           /\ Bump(entry, limit) # None
           /\ entry = None \/ Lapsed(entry) => Bump(entry, limit).count = 1
           /\ entry # None /\ ~Lapsed(entry) =>
                 Bump(entry, limit).count = (IF entry.count < limit THEN entry.count + 1 ELSE limit)
<1>1. CASE entry = None \/ Lapsed(entry)
  <2>1. 1 \in 1..limit /\ 0 \in 0..Window
    BY LimitsAssumption
  <2>2. Bump(entry, limit) = [count |-> 1, age |-> 0]
    BY <1>1 DEF Bump
  <2>3. QED
    BY <1>1, <2>1, <2>2, EntryMade
<1>2. CASE entry # None /\ ~Lapsed(entry)
  <2> DEFINE more == Capped(entry.count + 1, limit)
  <2>1. entry.count \in 1..limit /\ entry.age \in 0..Window
    BY <1>2, EntryFields
  <2>2. entry = [count |-> entry.count, age |-> entry.age]
    BY <1>2, EntryFields
  <2>3. Bump(entry, limit) = [entry EXCEPT !.count = more]
    BY <1>2 DEF Bump
  <2>4. Bump(entry, limit) = [count |-> more, age |-> entry.age]
    <3> HIDE DEF more
    <3>1. QED
      BY <2>2, <2>3
  <2>5. more \in 1..limit /\ more = (IF entry.count < limit THEN entry.count + 1 ELSE limit)
    BY <2>1 DEF Capped
  <2>6. [count |-> more, age |-> entry.age] \in Counters(limit)
        /\ [count |-> more, age |-> entry.age] # None
    <3> HIDE DEF more
    <3>1. QED
      BY <2>1, <2>5, EntryMade
  <2>7. QED
    <3> HIDE DEF more
    <3>1. QED
      BY <1>2, <2>4, <2>5, <2>6
<1>3. QED
  BY <1>1, <1>2

LEMMA AgedKeeps ==
    ASSUME NEW limit \in Nat \ {0}, NEW entry \in Counters(limit)
    PROVE  /\ Aged(entry) \in Counters(limit)
           /\ (Aged(entry) = None) = (entry = None)
           /\ entry # None => Aged(entry).count = entry.count
<1>1. CASE entry = None \/ entry.age >= Window
  BY <1>1 DEF Aged
<1>2. CASE entry # None /\ ~(entry.age >= Window)
  <2>1. entry.count \in 1..limit /\ entry.age \in 0..Window
    BY <1>2, EntryFields
  <2>2. entry = [count |-> entry.count, age |-> entry.age]
    BY <1>2, EntryFields
  <2>3. entry.age + 1 \in 0..Window
    BY <1>2, <2>1, LimitsAssumption
  <2>4. Aged(entry) = [count |-> entry.count, age |-> entry.age + 1]
    BY <1>2, <2>2 DEF Aged
  <2>5. QED
    BY <1>2, <2>1, <2>3, <2>4, EntryMade
<1>3. QED
  BY <1>1, <1>2
-----------------------------------------------------------------------------
LEMMA InitLogin == Init => LoginInv
<1> SUFFICES ASSUME Init PROVE LoginInv
  OBVIOUS
<1>1. Shape
  BY LimitsAssumption DEF Init, Shape, Counters, Steps, Verdicts, Jobs, Replies, SeededDecoy
<1>2. ASSUME NEW h \in Handlers PROVE Way(h)
  BY DEF Init, Way, Course, Cost, Just, Matches
<1>3. QED
  BY <1>1, <1>2 DEF LoginInv

LEMMA RowAlone ==
    ASSUME NEW h \in Handlers, Way(h), Row(h)' = Row(h)
    PROVE  Way(h)'
<1>1. /\ pc'[h] = pc[h] /\ attempt'[h] = attempt[h] /\ verdict'[h] = verdict[h]
      /\ job'[h] = job[h] /\ reply'[h] = reply[h] /\ passes'[h] = passes[h]
  BY DEF Row
<1>2. QED
  BY <1>1 DEF Way, Course, Cost, Just, Matches

(* The rows of the other requests are left alone by every step of one.     *)
LEMMA OthersAlone ==
    ASSUME Shape, NEW h \in Handlers, Acquire(h) \/ HangUp(h) \/ Work(h),
           NEW g \in Handlers, g # h
    PROVE  Row(g)' = Row(g)
<1> USE DEF Shape, Row
<1>1. CASE Acquire(h)
  BY <1>1 DEF Acquire, Answer, Go
<1>2. CASE HangUp(h)
  BY <1>2 DEF HangUp, Forget, Go
<1>3. CASE CheckAddress(h)
  BY <1>3 DEF CheckAddress, Answer, Go
<1>4. CASE CheckAccount(h)
  BY <1>4 DEF CheckAccount, Go
<1>5. CASE Submit(h)
  BY <1>5 DEF Submit, Go
<1>6. CASE Verify(h)
  <2>1. /\ pc'[g] = pc[g] /\ attempt'[g] = attempt[g] /\ verdict'[g] = verdict[g] /\ reply' = reply
    BY <1>6 DEF Verify, Forget, Go
  <2>2. job'[g] = job[g]
    BY <1>6 DEF Verify
  <2>3. passes'[g] = passes[g]
    BY <1>6 DEF Verify, Forget, Hash
  <2>4. QED
    BY <2>1, <2>2, <2>3
<1>7. CASE Resume(h)
  BY <1>7 DEF Resume, Answer, Go
<1>8. CASE CountAccount(h)
  BY <1>8 DEF CountAccount, Go
<1>9. CASE CountAddress(h)
  BY <1>9 DEF CountAddress, Answer, Go
<1>10. CASE Clear(h)
  BY <1>10 DEF Clear, Go
<1>11. CASE Issue(h)
  BY <1>11 DEF Issue, Answer, Go
<1>12. CASE Return(h)
  BY <1>12 DEF Return, Forget, Go
<1>13. QED
  BY <1>1, <1>2, <1>3, <1>4, <1>5, <1>6, <1>7, <1>8, <1>9, <1>10, <1>11, <1>12 DEF Work

-----------------------------------------------------------------------------
(* The permits: whoever holds one gives it back once.                      *)

Holders == {h \in Handlers : HoldsPermit(h)}

LEMMA HoldersCounted == IsFiniteSet(Holders) /\ Cardinality(Holders) \in Nat
<1>1. Holders \subseteq Handlers
  BY DEF Holders
<1>2. IsFiniteSet(Holders)
  BY <1>1, HandlersAssumption, FS_Subset
<1>3. QED
  BY <1>2, FS_CardinalityType

(* What a step of one request does to the permits.                         *)
Keeps(h) == available' = available /\ HoldsPermit(h)' = HoldsPermit(h)
Takes(h) == available > 0 /\ available' = available - 1 /\ ~HoldsPermit(h) /\ HoldsPermit(h)'
Returns(h) == available' = available + 1 /\ HoldsPermit(h) /\ ~HoldsPermit(h)'

LEMMA PermitStep ==
    ASSUME LoginInv, NEW h \in Handlers, Acquire(h) \/ HangUp(h) \/ Work(h)
    PROVE  Keeps(h) \/ Takes(h) \/ Returns(h)
<1> USE DEF LoginInv, Shape, Keeps, Takes, Returns, HoldsPermit
<1>0. Course(h)
  BY DEF Way
<1>1. CASE Acquire(h)
  BY <1>0, <1>1 DEF Acquire, Answer, Go, Course
<1>2. CASE HangUp(h)
  BY <1>0, <1>2 DEF HangUp, Go, Course
<1>3. CASE CheckAddress(h)
  BY <1>0, <1>3 DEF CheckAddress, Answer, Go, Course
<1>4. CASE CheckAccount(h)
  BY <1>0, <1>4 DEF CheckAccount, Go, Course
<1>5. CASE Submit(h)
  BY <1>0, <1>5 DEF Submit, Go, Course
<1>6. CASE Verify(h)
  BY <1>0, <1>6 DEF Verify, Go, Course
<1>7. CASE Resume(h)
  BY <1>0, <1>7 DEF Resume, Answer, Go, Course
<1>8. CASE CountAccount(h)
  BY <1>0, <1>8 DEF CountAccount, Go, Course
<1>9. CASE CountAddress(h)
  BY <1>0, <1>9 DEF CountAddress, Answer, Go, Course
<1>10. CASE Clear(h)
  BY <1>0, <1>10 DEF Clear, Go, Course
<1>11. CASE Issue(h)
  BY <1>0, <1>11 DEF Issue, Answer, Go, Course
<1>12. CASE Return(h)
  BY <1>0, <1>12 DEF Return, Go, Course
<1>13. QED
  BY <1>1, <1>2, <1>3, <1>4, <1>5, <1>6, <1>7, <1>8, <1>9, <1>10, <1>11, <1>12 DEF Work

LEMMA StepPermits ==
    ASSUME LoginInv, PermitsConserved, [Next]_vars
    PROVE  PermitsConserved'
<1> USE DEF LoginInv
<1>0. IsFiniteSet(Holders) /\ Cardinality(Holders) \in Nat /\ IsFiniteSet(Holders')
      /\ Cardinality(Holders') \in Nat
  <2>1. Holders' \subseteq Handlers
    BY DEF Holders
  <2>2. QED
    BY <2>1, HoldersCounted, HandlersAssumption, FS_Subset, FS_CardinalityType
<1>1. available + Cardinality(Holders) = Permits /\ available \in Nat /\ Permits \in Nat
  BY LimitsAssumption DEF PermitsConserved, Holders, Shape
<1>2. SUFFICES available' + Cardinality(Holders') = Permits
  BY DEF PermitsConserved, Holders
<1>3. CASE UNCHANGED vars \/ Tick
  <2>1. Holders' = Holders /\ available' = available
    BY <1>3 DEF vars, Tick, Holders, HoldsPermit
  <2>2. QED
    BY <1>1, <2>1
<1>4. ASSUME NEW h \in Handlers, Acquire(h) \/ HangUp(h) \/ Work(h)
      PROVE  available' + Cardinality(Holders') = Permits
  <2>1. ASSUME NEW g \in Handlers, g # h PROVE HoldsPermit(g)' = HoldsPermit(g)
    BY <1>4, <2>1, OthersAlone DEF Row, HoldsPermit
  <2>2. CASE Keeps(h)
    <3>1. Holders' = Holders
      BY <2>1, <2>2 DEF Holders, Keeps
    <3>2. QED
      BY <1>1, <2>2, <3>1 DEF Keeps
  <2>3. CASE Takes(h)
    <3>1. Holders' = Holders \cup {h} /\ h \notin Holders
      BY <2>1, <2>3 DEF Holders, Takes
    <3>2. Cardinality(Holders') = Cardinality(Holders) + 1
      BY <1>0, <3>1, FS_AddElement
    <3>3. QED
      BY <1>0, <1>1, <2>3, <3>2 DEF Takes
  <2>4. CASE Returns(h)
    <3>1. Holders' = Holders \ {h} /\ h \in Holders
      BY <2>1, <2>4 DEF Holders, Returns
    <3>2. Cardinality(Holders') = Cardinality(Holders) - 1
      BY <1>0, <3>1, FS_RemoveElement
    <3>3. QED
      BY <1>0, <1>1, <2>4, <3>2 DEF Returns
  <2>5. QED
    BY <1>4, <2>2, <2>3, <2>4, PermitStep
<1>5. QED
  BY <1>3, <1>4 DEF Next

LEMMA InitPermits == Init => PermitsConserved
<1> SUFFICES ASSUME Init PROVE PermitsConserved
  OBVIOUS
<1>1. Holders = {}
  BY DEF Init, Holders, HoldsPermit
<1>2. Cardinality(Holders) = 0
  BY <1>1, FS_EmptySet
<1>3. QED
  BY <1>2, LimitsAssumption DEF Init, PermitsConserved, Holders
-----------------------------------------------------------------------------
(* The types of what is one request's.                                     *)
LEMMA StepRows ==
    ASSUME LoginInv, NEW h \in Handlers, Acquire(h) \/ HangUp(h) \/ Work(h)
    PROVE  /\ pc' \in [Handlers -> Steps]
           /\ attempt' \in [Handlers -> Attempts \cup {None}]
           /\ verdict' \in [Handlers -> Verdicts]
           /\ job' \in [Handlers -> Jobs]
           /\ reply' \in [Handlers -> Replies]
           /\ passes' \in [Handlers -> Nat]
           /\ decoy' = "warm"
<1> USE DEF LoginInv, Shape, Steps, Verdicts, Jobs, Replies
<1>1. CASE Acquire(h)
  BY <1>1 DEF Acquire, Answer, Go
<1>2. CASE HangUp(h)
  BY <1>2 DEF HangUp, Forget, Go
<1>3. CASE CheckAddress(h)
  BY <1>3 DEF CheckAddress, Answer, Go
<1>4. CASE CheckAccount(h)
  BY <1>4 DEF CheckAccount, Go
<1>5. CASE Submit(h)
  BY <1>5 DEF Submit, Go
<1>6. CASE Verify(h)
  BY <1>6 DEF Verify, Forget, Go, Hash
<1>7. CASE Resume(h)
  BY <1>7 DEF Resume, Answer, Go
<1>8. CASE CountAccount(h)
  BY <1>8 DEF CountAccount, Go
<1>9. CASE CountAddress(h)
  BY <1>9 DEF CountAddress, Answer, Go
<1>10. CASE Clear(h)
  BY <1>10 DEF Clear, Go
<1>11. CASE Issue(h)
  BY <1>11 DEF Issue, Answer, Go
<1>12. CASE Return(h)
  BY <1>12 DEF Return, Forget, Go
<1>13. QED
  BY <1>1, <1>2, <1>3, <1>4, <1>5, <1>6, <1>7, <1>8, <1>9, <1>10, <1>11, <1>12 DEF Work

LEMMA StepCourse ==
    ASSUME LoginInv, NEW h \in Handlers, Acquire(h) \/ HangUp(h) \/ Work(h)
    PROVE  Course(h)'
<1> USE DEF LoginInv, Shape, Course
<1>0. Course(h)
  BY DEF Way
<1>1. CASE Acquire(h)
  BY <1>0, <1>1, NoneIsNothing DEF Acquire, Answer, Go
<1>2. CASE HangUp(h)
  BY <1>0, <1>2 DEF HangUp, Forget, Go
<1>3. CASE CheckAddress(h)
  BY <1>0, <1>3 DEF CheckAddress, Answer, Go
<1>4. CASE CheckAccount(h)
  BY <1>0, <1>4 DEF CheckAccount, Go
<1>5. CASE Submit(h)
  BY <1>0, <1>5 DEF Submit, Go
<1>6. CASE Verify(h)
  BY <1>0, <1>6 DEF Verify, Forget, Go, Hash
<1>7. CASE Resume(h)
  BY <1>0, <1>7 DEF Resume, Answer, Go
<1>8. CASE CountAccount(h)
  BY <1>0, <1>8 DEF CountAccount, Go
<1>9. CASE CountAddress(h)
  BY <1>0, <1>9 DEF CountAddress, Answer, Go
<1>10. CASE Clear(h)
  BY <1>0, <1>10 DEF Clear, Go
<1>11. CASE Issue(h)
  BY <1>0, <1>11 DEF Issue, Answer, Go
<1>12. CASE Return(h)
  BY <1>0, <1>12 DEF Return, Forget, Go
<1>13. QED
  BY <1>1, <1>2, <1>3, <1>4, <1>5, <1>6, <1>7, <1>8, <1>9, <1>10, <1>11, <1>12 DEF Work

LEMMA StepCost ==
    ASSUME LoginInv, NEW h \in Handlers, Acquire(h) \/ HangUp(h) \/ Work(h)
    PROVE  Cost(h)'
<1> USE DEF LoginInv, Shape, Cost
<1>0. Course(h) /\ Cost(h)
  BY DEF Way
<1>1. CASE Acquire(h)
  BY <1>0, <1>1 DEF Acquire, Answer, Go, Course
<1>2. CASE HangUp(h)
  BY <1>0, <1>2 DEF HangUp, Forget, Go, Course
<1>3. CASE CheckAddress(h)
  BY <1>0, <1>3 DEF CheckAddress, Answer, Go, Course
<1>4. CASE CheckAccount(h)
  BY <1>0, <1>4 DEF CheckAccount, Go, Course
<1>5. CASE Submit(h)
  BY <1>0, <1>5 DEF Submit, Go, Course
<1>6. CASE Verify(h)
  BY <1>0, <1>6 DEF Verify, Forget, Go, Hash, Course
<1>7. CASE Resume(h)
  BY <1>0, <1>7 DEF Resume, Answer, Go, Course
<1>8. CASE CountAccount(h)
  BY <1>0, <1>8 DEF CountAccount, Go, Course
<1>9. CASE CountAddress(h)
  BY <1>0, <1>9 DEF CountAddress, Answer, Go, Course
<1>10. CASE Clear(h)
  BY <1>0, <1>10 DEF Clear, Go, Course
<1>11. CASE Issue(h)
  BY <1>0, <1>11 DEF Issue, Answer, Go, Course
<1>12. CASE Return(h)
  BY <1>0, <1>12 DEF Return, Forget, Go, Course
<1>13. QED
  BY <1>1, <1>2, <1>3, <1>4, <1>5, <1>6, <1>7, <1>8, <1>9, <1>10, <1>11, <1>12 DEF Work

LEMMA StepJust ==
    ASSUME LoginInv, NEW h \in Handlers, Acquire(h) \/ HangUp(h) \/ Work(h)
    PROVE  Just(h)'
<1> USE DEF LoginInv, Shape, Just
<1>0. Course(h) /\ Just(h)
  BY DEF Way
<1>1. CASE Acquire(h)
  BY <1>0, <1>1 DEF Acquire, Answer, Go, Course, Matches
<1>2. CASE HangUp(h)
  BY <1>0, <1>2 DEF HangUp, Forget, Go, Course, Matches
<1>3. CASE CheckAddress(h)
  BY <1>0, <1>3 DEF CheckAddress, Answer, Go, Course, Matches
<1>4. CASE CheckAccount(h)
  BY <1>0, <1>4 DEF CheckAccount, Go, Course, Matches
<1>5. CASE Submit(h)
  BY <1>0, <1>5 DEF Submit, Go, Course, Matches
<1>6. CASE Verify(h)
  BY <1>0, <1>6 DEF Verify, Forget, Go, Hash, Course, Matches
<1>7. CASE Resume(h)
  BY <1>0, <1>7 DEF Resume, Answer, Go, Course, Matches
<1>8. CASE CountAccount(h)
  BY <1>0, <1>8 DEF CountAccount, Go, Course, Matches
<1>9. CASE CountAddress(h)
  BY <1>0, <1>9 DEF CountAddress, Answer, Go, Course, Matches
<1>10. CASE Clear(h)
  BY <1>0, <1>10 DEF Clear, Go, Course, Matches
<1>11. CASE Issue(h)
  BY <1>0, <1>11 DEF Issue, Answer, Go, Course, Matches
<1>12. CASE Return(h)
  BY <1>0, <1>12 DEF Return, Forget, Go, Course, Matches
<1>13. QED
  BY <1>1, <1>2, <1>3, <1>4, <1>5, <1>6, <1>7, <1>8, <1>9, <1>10, <1>11, <1>12 DEF Work
-----------------------------------------------------------------------------
(* The counters and what the clients have had of them.                     *)

LEMMA Attempted ==
    ASSUME LoginInv, NEW h \in Handlers, pc[h] # "idle"
    PROVE  /\ attempt[h] # None /\ attempt[h].name \in Names
           /\ attempt[h].address \in Addresses \cup {None}
<1>1. attempt[h] \in Attempts /\ attempt[h] # None
  BY DEF LoginInv, Shape, Way, Course
<1>2. QED
  BY <1>1 DEF Attempts

(* Guesses are counted as long as the counter they are held against.       *)
Tally(n) ==
    IF byAccount[n] = None THEN guesses[n] = 0
    ELSE guesses[n] <= byAccount[n].count \/ byAccount[n].count = AccountLimit

(* What a step does to one name, one address: nothing is forgotten that    *)
(* has not lapsed, but for the name of a login that succeeds.              *)
NameKept(n) ==
    /\ byAccount'[n] \in Counters(AccountLimit) /\ guesses'[n] \in Nat
    /\ Remembers(byAccount'[n], byAccount[n]) \/ Excused(n)
    /\ Tally(n) => Tally(n)'

AddressKept(a) ==
    /\ byAddress'[a] \in Counters(AddressLimit)
    /\ Remembers(byAddress'[a], byAddress[a])

(* Only these look at the counters.                                        *)
Accounting(h) == CheckAddress(h) \/ CheckAccount(h) \/ CountAccount(h) \/ CountAddress(h) \/ Clear(h)

LEMMA Remembered ==
    ASSUME NEW limit \in Nat \ {0}, NEW entry \in Counters(limit)
    PROVE  Remembers(entry, entry)
<1>1. CASE entry = None
  BY <1>1 DEF Remembers
<1>2. CASE entry # None
  <2>1. entry.count \in 1..limit
    BY <1>2, EntryFields
  <2>2. QED
    BY <1>2, <2>1 DEF Remembers
<1>3. QED
  BY <1>1, <1>2

LEMMA NameAlone ==
    ASSUME LoginInv, NEW n \in Names, byAccount'[n] = byAccount[n], guesses'[n] = guesses[n]
    PROVE  NameKept(n)
<1>1. byAccount[n] \in Counters(AccountLimit) /\ guesses[n] \in Nat
  BY DEF LoginInv, Shape
<1>2. Remembers(byAccount'[n], byAccount[n])
  BY <1>1, Remembered, LimitsAssumption
<1>3. Tally(n) => Tally(n)'
  BY DEF Tally
<1>4. QED
  BY <1>1, <1>2, <1>3 DEF NameKept

LEMMA AddressAlone ==
    ASSUME LoginInv, NEW a \in Addresses, byAddress'[a] = byAddress[a]
    PROVE  AddressKept(a)
<1>1. byAddress[a] \in Counters(AddressLimit)
  BY DEF LoginInv, Shape
<1>2. QED
  BY <1>1, Remembered, LimitsAssumption DEF AddressKept

LEMMA StepAddresses ==
    ASSUME LoginInv, NEW h \in Handlers, Accounting(h), NEW a \in Addresses
    PROVE  AddressKept(a)
<1> USE DEF LoginInv
<1>0. /\ pc[h] # "idle" /\ byAddress \in [Addresses -> Counters(AddressLimit)]
      /\ byAddress[a] \in Counters(AddressLimit) /\ AddressLimit \in Nat \ {0}
  BY LimitsAssumption DEF Accounting, CheckAddress, CheckAccount, CountAccount, CountAddress, Clear, Shape
<1> DEFINE its == attempt[h].address
<1>1. its \in Addresses \cup {None}
  BY <1>0, Attempted
<1>2. CASE byAddress'[a] = byAddress[a]
  BY <1>2, AddressAlone
<1>3. CASE byAddress'[a] = Swept(byAddress[a])
  <2>1. CASE Lapsed(byAddress[a])
    <3>1. byAddress'[a] = None
      BY <1>3, <2>1 DEF Swept
    <3>2. QED
      BY <2>1, <3>1 DEF AddressKept, Remembers, Counters
  <2>2. CASE ~Lapsed(byAddress[a])
    BY <1>3, <2>2, AddressAlone DEF Swept
  <2>3. QED
    BY <2>1, <2>2
<1>4. CASE byAddress'[a] = Bump(byAddress[a], AddressLimit)
  <2>1. byAddress'[a] \in Counters(AddressLimit) /\ byAddress'[a] # None
    BY <1>0, <1>4, Bumped
  <2>2. ASSUME byAddress[a] # None, ~Lapsed(byAddress[a])
        PROVE  byAddress'[a].count >= byAddress[a].count
    <3>1. byAddress[a].count \in 1..AddressLimit
      BY <1>0, <2>2, EntryFields
    <3>2. byAddress'[a].count =
             (IF byAddress[a].count < AddressLimit THEN byAddress[a].count + 1 ELSE AddressLimit)
      BY <1>0, <1>4, <2>2, Bumped
    <3>3. QED
      BY <1>0, <3>1, <3>2
  <2>3. QED
    BY <2>1, <2>2 DEF AddressKept, Remembers
<1>5. CASE CheckAddress(h)
  BY <1>0, <1>1, <1>2, <1>3, <1>5 DEF CheckAddress
<1>6. CASE CountAddress(h)
  BY <1>0, <1>1, <1>2, <1>4, <1>6 DEF CountAddress
<1>7. CASE CheckAccount(h) \/ CountAccount(h) \/ Clear(h)
  BY <1>2, <1>7 DEF CheckAccount, CountAccount, Clear
<1>8. QED
  BY <1>5, <1>6, <1>7 DEF Accounting

LEMMA StepNames ==
    ASSUME LoginInv, NEW h \in Handlers, Accounting(h), NEW n \in Names
    PROVE  NameKept(n)
<1> USE DEF LoginInv
<1>0. /\ pc[h] # "idle"
      /\ byAccount \in [Names -> Counters(AccountLimit)] /\ guesses \in [Names -> Nat]
      /\ byAccount[n] \in Counters(AccountLimit) /\ guesses[n] \in Nat
      /\ AccountLimit \in Nat \ {0}
  BY LimitsAssumption DEF Accounting, CheckAddress, CheckAccount, CountAccount, CountAddress, Clear, Shape
<1> DEFINE its == attempt[h].name
<1>1. its \in Names
  BY <1>0, Attempted
<1>2. CASE byAccount'[n] = byAccount[n] /\ guesses'[n] = guesses[n]
  BY <1>2, NameAlone
<1>3. CASE CheckAccount(h) /\ n = its
  <2>1. /\ byAccount'[n] = Swept(byAccount[n])
        /\ guesses'[n] = (IF Lapsed(byAccount[n]) THEN 0 ELSE guesses[n])
    BY <1>0, <1>1, <1>3 DEF CheckAccount
  <2>2. CASE Lapsed(byAccount[n])
    <3>1. byAccount'[n] = None /\ guesses'[n] = 0
      BY <2>1, <2>2 DEF Swept
    <3>2. QED
      BY <2>2, <3>1 DEF NameKept, Remembers, Counters, Tally
  <2>3. CASE ~Lapsed(byAccount[n])
    BY <1>2, <2>1, <2>3 DEF Swept
  <2>4. QED
    BY <2>2, <2>3
<1>4. CASE CountAccount(h) /\ n = its
  <2>1. /\ byAccount'[n] = Bump(byAccount[n], AccountLimit)
        /\ guesses'[n] = Guessed(n, h)
    BY <1>0, <1>1, <1>4 DEF CountAccount
  <2>2. byAccount'[n] \in Counters(AccountLimit) /\ byAccount'[n] # None
    BY <1>0, <2>1, Bumped
  <2>3. CASE byAccount[n] = None \/ Lapsed(byAccount[n])
    <3>1. byAccount'[n].count = 1
      BY <1>0, <2>1, <2>3, Bumped
    <3>2. Tally(n) => guesses'[n] \in {0, 1}
      BY <1>0, <2>1, <2>3 DEF Guessed, Tally
    <3>3. guesses'[n] \in Nat
      BY <1>0, <2>1 DEF Guessed
    <3>4. Tally(n) => Tally(n)'
      BY <2>2, <3>1, <3>2 DEF Tally
    <3>5. Remembers(byAccount'[n], byAccount[n])
      BY <2>3 DEF Remembers
    <3>6. QED
      BY <2>2, <3>3, <3>4, <3>5 DEF NameKept
  <2>4. CASE byAccount[n] # None /\ ~Lapsed(byAccount[n])
    <3>1. byAccount[n].count \in 1..AccountLimit
      BY <1>0, <2>4, EntryFields
    <3>2. byAccount'[n].count =
             (IF byAccount[n].count < AccountLimit THEN byAccount[n].count + 1 ELSE AccountLimit)
      BY <1>0, <2>1, <2>4, Bumped
    <3>3. guesses'[n] \in {guesses[n], guesses[n] + 1}
      BY <1>0, <2>1, <2>4 DEF Guessed
    <3>4. Tally(n) => Tally(n)'
      BY <1>0, <2>2, <2>4, <3>1, <3>2, <3>3 DEF Tally
    <3>5. Remembers(byAccount'[n], byAccount[n])
      BY <1>0, <2>2, <3>1, <3>2 DEF Remembers
    <3>6. QED
      BY <1>0, <2>2, <3>3, <3>4, <3>5 DEF NameKept
  <2>5. QED
    BY <2>3, <2>4
<1>5. CASE Clear(h) /\ n = its
  <2>1. byAccount'[n] = None /\ guesses'[n] = 0
    BY <1>0, <1>1, <1>5 DEF Clear
  <2>2. Excused(n)
    BY <1>5 DEF Clear, Excused, Way, Just, Matches
  <2>3. QED
    BY <2>1, <2>2 DEF NameKept, Counters, Tally
<1>6. CASE n # its \/ CheckAddress(h) \/ CountAddress(h)
  <2>1. byAccount'[n] = byAccount[n] /\ guesses'[n] = guesses[n]
    BY <1>0, <1>1, <1>6 DEF Accounting, CheckAddress, CheckAccount, CountAccount, CountAddress, Clear
  <2>2. QED
    BY <1>2, <2>1
<1>7. QED
  BY <1>3, <1>4, <1>5, <1>6 DEF Accounting
LEMMA StepCounters ==
    ASSUME LoginInv, [Next]_vars
    PROVE  /\ byAccount' \in [Names -> Counters(AccountLimit)] /\ guesses' \in [Names -> Nat]
           /\ byAddress' \in [Addresses -> Counters(AddressLimit)]
           /\ \A n \in Names : NameKept(n)
           /\ \A a \in Addresses : AddressKept(a)
<1> USE DEF LoginInv
<1>0. /\ byAccount \in [Names -> Counters(AccountLimit)] /\ guesses \in [Names -> Nat]
      /\ byAddress \in [Addresses -> Counters(AddressLimit)]
      /\ AccountLimit \in Nat \ {0} /\ AddressLimit \in Nat \ {0}
  BY LimitsAssumption DEF Shape
<1> DEFINE Functions ==
      /\ \E f : byAccount' = [n \in Names |-> f[n]]
      /\ \E f : guesses' = [n \in Names |-> f[n]]
      /\ \E f : byAddress' = [a \in Addresses |-> f[a]]
<1>1. SUFFICES /\ Functions
               /\ \A n \in Names : NameKept(n)
               /\ \A a \in Addresses : AddressKept(a)
  <2>1. ASSUME Functions, \A n \in Names : NameKept(n), \A a \in Addresses : AddressKept(a)
        PROVE  /\ byAccount' \in [Names -> Counters(AccountLimit)] /\ guesses' \in [Names -> Nat]
               /\ byAddress' \in [Addresses -> Counters(AddressLimit)]
    <3>1. \A n \in Names : byAccount'[n] \in Counters(AccountLimit) /\ guesses'[n] \in Nat
      BY <2>1 DEF NameKept
    <3>2. \A a \in Addresses : byAddress'[a] \in Counters(AddressLimit)
      BY <2>1 DEF AddressKept
    <3>3. byAccount' \in [Names -> Counters(AccountLimit)]
      BY <2>1, <3>1
    <3>4. guesses' \in [Names -> Nat]
      BY <2>1, <3>1
    <3>5. byAddress' \in [Addresses -> Counters(AddressLimit)]
      BY <2>1, <3>2
    <3>6. QED
      BY <3>3, <3>4, <3>5
  <2> HIDE DEF Functions
  <2>2. QED
    BY <2>1
<1>2. CASE UNCHANGED <<throttle, guesses>>
  <2>1. byAccount' = byAccount /\ byAddress' = byAddress /\ guesses' = guesses
    BY <1>2 DEF throttle
  <2>2. Functions
    BY <1>0, <2>1
  <2>3. QED
    BY <2>1, <2>2, NameAlone, AddressAlone
<1>3. CASE Tick
  <2>1. /\ byAccount' = [n \in Names |-> Aged(byAccount[n])]
        /\ byAddress' = [a \in Addresses |-> Aged(byAddress[a])]
        /\ guesses' = guesses
    BY <1>3 DEF Tick
  <2>2. Functions
    <3>1. \E f : byAccount' = [n \in Names |-> f[n]]
      <4>1. byAccount' = [n \in Names |-> byAccount'[n]]
        BY <2>1
      <4>2. QED
        BY <4>1
    <3>2. \E f : byAddress' = [a \in Addresses |-> f[a]]
      <4>1. byAddress' = [a \in Addresses |-> byAddress'[a]]
        BY <2>1
      <4>2. QED
        BY <4>1
    <3>3. QED
      BY <1>0, <2>1, <3>1, <3>2
  <2>3. ASSUME NEW n \in Names PROVE NameKept(n)
    <3>1. byAccount[n] \in Counters(AccountLimit) /\ guesses[n] \in Nat
      BY <1>0
    <3>2. byAccount'[n] = Aged(byAccount[n]) /\ guesses'[n] = guesses[n]
      BY <2>1
    <3>3. /\ byAccount'[n] \in Counters(AccountLimit)
          /\ (byAccount'[n] = None) = (byAccount[n] = None)
          /\ byAccount[n] # None => byAccount'[n].count = byAccount[n].count
      BY <1>0, <3>1, <3>2, AgedKeeps
    <3>4. Remembers(byAccount'[n], byAccount[n])
      BY <1>0, <3>1, <3>3, EntryFields DEF Remembers
    <3>5. Tally(n) => Tally(n)'
      BY <3>2, <3>3 DEF Tally
    <3>6. QED
      BY <3>1, <3>2, <3>3, <3>4, <3>5 DEF NameKept
  <2>4. ASSUME NEW a \in Addresses PROVE AddressKept(a)
    <3>1. byAddress[a] \in Counters(AddressLimit)
      BY <1>0
    <3>2. byAddress'[a] = Aged(byAddress[a])
      BY <2>1
    <3>3. /\ byAddress'[a] \in Counters(AddressLimit)
          /\ (byAddress'[a] = None) = (byAddress[a] = None)
          /\ byAddress[a] # None => byAddress'[a].count = byAddress[a].count
      BY <1>0, <3>1, <3>2, AgedKeeps
    <3>4. Remembers(byAddress'[a], byAddress[a])
      BY <1>0, <3>1, <3>3, EntryFields DEF Remembers
    <3>5. QED
      BY <3>3, <3>4 DEF AddressKept
  <2> HIDE DEF Functions
  <2>5. QED
    BY <2>2, <2>3, <2>4
<1>4. ASSUME NEW h \in Handlers, Accounting(h)
      PROVE  /\ Functions
             /\ \A n \in Names : NameKept(n)
             /\ \A a \in Addresses : AddressKept(a)
  <2>1. Functions
    <3>1. /\ DOMAIN byAccount' = Names /\ byAccount' = [n \in DOMAIN byAccount' |-> byAccount'[n]]
          /\ DOMAIN guesses' = Names /\ guesses' = [n \in DOMAIN guesses' |-> guesses'[n]]
      BY <1>0, <1>4 DEF Accounting, CheckAddress, CheckAccount, CountAccount, CountAddress, Clear
    <3>2. DOMAIN byAddress' = Addresses /\ byAddress' = [a \in DOMAIN byAddress' |-> byAddress'[a]]
      BY <1>0, <1>4 DEF Accounting, CheckAddress, CheckAccount, CountAccount, CountAddress, Clear
    <3>3. QED
      BY <3>1, <3>2
  <2>2. \A n \in Names : NameKept(n)
    BY <1>4, StepNames
  <2>3. \A a \in Addresses : AddressKept(a)
    BY <1>4, StepAddresses
  <2> HIDE DEF Functions
  <2>4. QED
    BY <2>1, <2>2, <2>3
<1>5. ASSUME NEW h \in Handlers, Acquire(h) \/ HangUp(h) \/ Work(h)
      PROVE  Accounting(h) \/ UNCHANGED <<throttle, guesses>>
  BY <1>5 DEF Work, Accounting, throttle, Acquire, HangUp, Submit, Verify, Resume, Issue, Return
<1> HIDE DEF Functions
<1>6. CASE UNCHANGED vars
  BY <1>2, <1>6 DEF vars, throttle
<1>7. QED
  BY <1>2, <1>3, <1>4, <1>5, <1>6 DEF Next

LEMMA StepLogin == LoginInv /\ [Next]_vars /\ available' \in Nat => LoginInv'
<1> SUFFICES ASSUME LoginInv, [Next]_vars, available' \in Nat PROVE LoginInv'
  OBVIOUS
<1>1. /\ byAccount' \in [Names -> Counters(AccountLimit)] /\ guesses' \in [Names -> Nat]
      /\ byAddress' \in [Addresses -> Counters(AddressLimit)]
  BY StepCounters
<1>2. CASE UNCHANGED vars \/ Tick
  <2>1. UNCHANGED <<pc, attempt, verdict, job, reply, passes, decoy>>
    BY <1>2 DEF vars, Tick
  <2>2. Shape'
    BY <1>1, <2>1 DEF LoginInv, Shape
  <2>3. ASSUME NEW g \in Handlers PROVE Way(g)'
    <3>1. Row(g)' = Row(g)
      BY <2>1 DEF Row
    <3>2. QED
      BY <3>1, RowAlone DEF LoginInv
  <2>4. QED
    BY <2>2, <2>3 DEF LoginInv
<1>3. ASSUME NEW h \in Handlers, Acquire(h) \/ HangUp(h) \/ Work(h) PROVE LoginInv'
  <2>1. /\ pc' \in [Handlers -> Steps]
        /\ attempt' \in [Handlers -> Attempts \cup {None}]
        /\ verdict' \in [Handlers -> Verdicts]
        /\ job' \in [Handlers -> Jobs]
        /\ reply' \in [Handlers -> Replies]
        /\ passes' \in [Handlers -> Nat]
        /\ decoy' = "warm"
    BY <1>3, StepRows
  <2>2. Shape'
    BY <1>1, <2>1 DEF Shape
  <2>3. ASSUME NEW g \in Handlers, g # h PROVE Way(g)'
    <3>1. Row(g)' = Row(g)
      BY <1>3, <2>3, OthersAlone DEF LoginInv
    <3>2. QED
      BY <3>1, RowAlone DEF LoginInv
  <2>4. Way(h)'
    BY <1>3, StepCourse, StepCost, StepJust DEF Way
  <2>5. QED
    BY <2>2, <2>3, <2>4 DEF LoginInv
<1>4. QED
  BY <1>2, <1>3 DEF Next

LEMMA StepAvailable == LoginInv /\ [Next]_vars => available' \in Nat
<1> SUFFICES ASSUME LoginInv, [Next]_vars PROVE available' \in Nat
  OBVIOUS
<1>1. available \in Nat
  BY DEF LoginInv, Shape
<1>2. CASE UNCHANGED vars \/ Tick
  BY <1>1, <1>2 DEF vars, Tick
<1>3. ASSUME NEW h \in Handlers, Acquire(h) \/ HangUp(h) \/ Work(h) PROVE available' \in Nat
  <2>1. Keeps(h) \/ Takes(h) \/ Returns(h)
    BY <1>3, PermitStep
  <2>2. QED
    BY <1>1, <2>1 DEF Keeps, Takes, Returns
<1>4. QED
  BY <1>2, <1>3 DEF Next

THEOREM LoginInvariant == Spec => []LoginInv
<1>1. LoginInv /\ [Next]_vars => LoginInv'
  BY StepLogin, StepAvailable
<1>2. QED
  BY InitLogin, <1>1, PTL DEF Spec

(* No permit is lost and none is made up: whatever panics and whoever      *)
(* hangs up, there are as many as the service started with.                *)
THEOREM PermitConservation == Spec => []PermitsConserved
<1>1. LoginInv /\ PermitsConserved /\ [Next]_vars => PermitsConserved'
  BY StepPermits
<1>2. QED
  BY InitPermits, LoginInvariant, <1>1, PTL DEF Spec

LEMMA LoginTypes == LoginInv /\ PermitsConserved => TypeOK
<1> SUFFICES ASSUME LoginInv, PermitsConserved PROVE TypeOK
  OBVIOUS
<1>1. available + Cardinality(Holders) = Permits
  BY DEF PermitsConserved, Holders
<1>2. available \in 0..Permits
  BY <1>1, HoldersCounted, LimitsAssumption DEF LoginInv, Shape
<1>3. \A h \in Handlers : (pc[h] = "idle") = (attempt[h] = None)
  BY DEF LoginInv, Way, Course
<1>4. QED
  BY <1>2, <1>3 DEF TypeOK, LoginInv, Shape, Verdicts, Jobs, Replies

(* The variables keep to their types.                                      *)
THEOREM Typing == Spec => []TypeOK
BY LoginInvariant, PermitConservation, LoginTypes, PTL

LEMMA LoginUniform == LoginInv => UniformRefusal
BY DEF LoginInv, UniformRefusal, Way, Cost, Just, Matches

(* Refusals cost the same one run of Argon2 and tell the same, and a       *)
(* throttled account is given no token.                                    *)
THEOREM Uniformity == Spec => []UniformRefusal
BY LoginInvariant, LoginUniform, PTL

(* However logins interleave, nothing but a login that succeeds, or the    *)
(* end of its window, lowers a counter of the throttle.                    *)
THEOREM Memory == Spec => CountersRemember
<1>1. LoginInv /\ [Next]_vars =>
        [/\ \A a \in Addresses : Remembers(byAddress'[a], byAddress[a])
         /\ \A n \in Names : Remembers(byAccount'[n], byAccount[n]) \/ Excused(n)]_vars
  BY StepCounters DEF NameKept, AddressKept
<1>2. QED
  BY LoginInvariant, <1>1, PTL DEF Spec, CountersRemember
-----------------------------------------------------------------------------
(* How many guesses a window takes.                                        *)

Guessing(n) == {h \in Handlers : OpenGuess(h, n)}
Bounded(n) == guesses[n] + Cardinality(Guessing(n)) <= AccountLimit - 1 + Cardinality(Handlers)

LEMMA GuessingCounted ==
    ASSUME NEW n
    PROVE  /\ IsFiniteSet(Guessing(n)) /\ IsFiniteSet(Guessing(n)')
           /\ Cardinality(Guessing(n)) \in Nat /\ Cardinality(Guessing(n)') \in Nat
           /\ Cardinality(Guessing(n)') <= Cardinality(Handlers)
           /\ Cardinality(Handlers) \in Nat
<1>1. Guessing(n) \subseteq Handlers /\ Guessing(n)' \subseteq Handlers
  BY DEF Guessing
<1>2. QED
  BY <1>1, HandlersAssumption, FS_Subset, FS_CardinalityType

(* The four ways of a step: few guesses are left; the throttle counts the  *)
(* first of a window, which is no longer open; there are no more of them   *)
(* than before; or one that was open is counted.                           *)
Few(n) == guesses'[n] <= AccountLimit - 1
First(n, h) == guesses'[n] <= AccountLimit /\ ~OpenGuess(h, n)'
NoMore(n) == guesses'[n] <= guesses[n] /\ Guessing(n)' \subseteq Guessing(n)
Counted(n, h) ==
    /\ guesses'[n] = guesses[n] + 1
    /\ OpenGuess(h, n) /\ Guessing(n)' \subseteq Guessing(n) \ {h}

LEMMA BoundKept ==
    ASSUME NEW n, guesses[n] \in Nat, guesses'[n] \in Nat, Bounded(n), NEW h \in Handlers,
           Few(n) \/ First(n, h) \/ NoMore(n) \/ Counted(n, h)
    PROVE  Bounded(n)'
<1> DEFINE open == Cardinality(Guessing(n))
           next == Cardinality(Guessing(n)')
           all == Cardinality(Handlers)
<1>1. open \in Nat /\ next \in Nat /\ all \in Nat /\ next <= all /\ AccountLimit \in Nat \ {0}
  BY GuessingCounted, LimitsAssumption
<1>2. guesses[n] + open <= AccountLimit - 1 + all
  BY DEF Bounded
<1>3. SUFFICES guesses'[n] + next <= AccountLimit - 1 + all
  BY DEF Bounded
<1>4. CASE Few(n)
  <2> HIDE DEF next, all
  <2>1. QED
    BY <1>1, <1>4 DEF Few
<1>5. CASE First(n, h)
  <2>1. Guessing(n)' \subseteq Handlers \ {h}
    BY <1>5 DEF First, Guessing
  <2>2. IsFiniteSet(Handlers \ {h}) /\ Cardinality(Handlers \ {h}) = all - 1
    BY HandlersAssumption, FS_RemoveElement
  <2>3. next <= all - 1
    BY <2>1, <2>2, FS_Subset
  <2> HIDE DEF next, all
  <2>4. QED
    BY <1>1, <1>5, <2>3 DEF First
<1>6. CASE NoMore(n)
  <2>1. next <= open
    BY <1>6, GuessingCounted, FS_Subset DEF NoMore
  <2> HIDE DEF next, open, all
  <2>2. QED
    BY <1>1, <1>2, <1>6, <2>1 DEF NoMore
<1>7. CASE Counted(n, h)
  <2>1. IsFiniteSet(Guessing(n) \ {h}) /\ Cardinality(Guessing(n) \ {h}) = open - 1
    <3>1. h \in Guessing(n)
      BY <1>7 DEF Counted, Guessing
    <3>2. IsFiniteSet(Guessing(n))
      BY GuessingCounted
    <3>3. QED
      BY <3>1, <3>2, FS_RemoveElement
  <2>2. next <= open - 1
    BY <1>7, <2>1, FS_Subset DEF Counted
  <2> HIDE DEF next, open, all
  <2>3. QED
    BY <1>1, <1>2, <1>7, <2>2 DEF Counted
<1>8. QED
  BY <1>4, <1>5, <1>6, <1>7

LEMMA OthersGuess ==
    ASSUME LoginInv, NEW h \in Handlers, Acquire(h) \/ HangUp(h) \/ Work(h), NEW n,
           OpenGuess(h, n)' => OpenGuess(h, n)
    PROVE  Guessing(n)' \subseteq Guessing(n)
<1>1. ASSUME NEW g \in Handlers, g # h, OpenGuess(g, n)' PROVE OpenGuess(g, n)
  BY <1>1, OthersAlone DEF LoginInv, Row, OpenGuess
<1>2. QED
  BY <1>1 DEF Guessing

(* Only check() opens a guess.                                             *)
LEMMA NoneOpened ==
    ASSUME LoginInv, NEW h \in Handlers, Acquire(h) \/ HangUp(h) \/ Work(h), ~CheckAccount(h),
           NEW n
    PROVE  OpenGuess(h, n)' => OpenGuess(h, n)
<1> USE DEF LoginInv, Shape, OpenGuess
<1>0. Course(h)
  BY DEF Way
<1>1. CASE Acquire(h)
  BY <1>1 DEF Acquire, Answer, Go
<1>2. CASE HangUp(h)
  BY <1>2 DEF HangUp, Go
<1>3. CASE CheckAddress(h)
  BY <1>3 DEF CheckAddress, Answer, Go
<1>5. CASE Submit(h)
  BY <1>5 DEF Submit, Go
<1>6. CASE Verify(h)
  BY <1>6 DEF Verify, Go
<1>7. CASE Resume(h)
  BY <1>7 DEF Resume, Answer, Go
<1>8. CASE CountAccount(h)
  BY <1>8 DEF CountAccount, Go
<1>9. CASE CountAddress(h)
  BY <1>9 DEF CountAddress, Answer, Go
<1>10. CASE Clear(h)
  BY <1>10 DEF Clear, Go
<1>11. CASE Issue(h)
  BY <1>11 DEF Issue, Answer, Go
<1>12. CASE Return(h)
  BY <1>12 DEF Return, Go
<1>13. QED
  BY <1>1, <1>2, <1>3, <1>5, <1>6, <1>7, <1>8, <1>9, <1>10, <1>11, <1>12 DEF Work

LEMMA StepGuess ==
    ASSUME LoginInv, NEW h \in Handlers, Acquire(h) \/ HangUp(h) \/ Work(h),
           NEW n \in Names, Tally(n)
    PROVE  Few(n) \/ First(n, h) \/ NoMore(n) \/ Counted(n, h)
<1>0. /\ byAccount \in [Names -> Counters(AccountLimit)] /\ guesses \in [Names -> Nat]
      /\ verdict \in [Handlers -> Verdicts] /\ pc \in [Handlers -> Steps]
      /\ byAccount[n] \in Counters(AccountLimit) /\ guesses[n] \in Nat
      /\ AccountLimit \in Nat \ {0}
  BY LimitsAssumption DEF LoginInv, Shape
<1> DEFINE its == attempt[h].name
<1>1. CASE CheckAccount(h) /\ n = its
  <2>1. pc[h] = "account" /\ its \in Names
    BY <1>1, Attempted DEF CheckAccount
  <2>2. guesses'[n] = (IF Lapsed(byAccount[n]) THEN 0 ELSE guesses[n])
    BY <1>0, <1>1, <2>1 DEF CheckAccount
  <2>3. CASE Lapsed(byAccount[n])
    BY <1>0, <2>2, <2>3 DEF Few
  <2>4. CASE Over(byAccount[n], AccountLimit)
    <3>1. ~OpenGuess(h, n)'
      BY <1>0, <1>1, <2>4 DEF CheckAccount, OpenGuess
    <3>2. Guessing(n)' \subseteq Guessing(n)
      BY <3>1, OthersGuess
    <3>3. guesses'[n] <= guesses[n]
      BY <1>0, <2>2
    <3>4. QED
      BY <3>2, <3>3 DEF NoMore
  <2>5. CASE ~Lapsed(byAccount[n]) /\ ~Over(byAccount[n], AccountLimit)
    <3>1. CASE byAccount[n] = None
      BY <1>0, <2>2, <2>5, <3>1 DEF Tally, Few
    <3>2. CASE byAccount[n] # None
      <4>1. byAccount[n].count \in 1..AccountLimit
        BY <1>0, <3>2, EntryFields
      <4>2. byAccount[n].count < AccountLimit
        BY <1>0, <2>5, <3>2, <4>1 DEF Over
      <4>3. guesses[n] <= byAccount[n].count
        BY <1>0, <3>2, <4>1, <4>2 DEF Tally
      <4>4. QED
        BY <1>0, <2>2, <2>5, <4>1, <4>2, <4>3 DEF Few
    <3>3. QED
      BY <3>1, <3>2
  <2>6. QED
    BY <2>3, <2>4, <2>5
<1>2. CASE CountAccount(h) /\ n = its
  <2>1. pc[h] = "countAccount" /\ its \in Names
    BY <1>2, Attempted DEF CountAccount
  <2>2. guesses'[n] = Guessed(n, h)
    BY <1>0, <1>2, <2>1 DEF CountAccount
  <2>3. ~OpenGuess(h, n)'
    BY <1>0, <1>2 DEF CountAccount, Go, OpenGuess
  <2>4. Guessing(n)' \subseteq Guessing(n) \ {h}
    <3>1. Guessing(n)' \subseteq Guessing(n)
      BY <2>3, OthersGuess
    <3>2. h \notin Guessing(n)'
      BY <2>3 DEF Guessing
    <3>3. QED
      BY <3>1, <3>2
  <2>5. CASE Lapsed(byAccount[n])
    BY <1>0, <2>2, <2>3, <2>5 DEF Guessed, First
  <2>6. CASE ~Lapsed(byAccount[n]) /\ verdict[h] # "allowed"
    BY <1>0, <2>2, <2>4, <2>6 DEF Guessed, NoMore
  <2>7. CASE ~Lapsed(byAccount[n]) /\ verdict[h] = "allowed"
    <3>1. ~attempt[h].right
      BY <2>1, <2>7 DEF LoginInv, Way, Just, Matches
    <3>2. OpenGuess(h, n)
      BY <1>2, <2>1, <2>7, <3>1, Attempted DEF OpenGuess
    <3>3. guesses'[n] = guesses[n] + 1
      BY <2>2, <2>7 DEF Guessed
    <3>4. QED
      BY <2>4, <3>2, <3>3 DEF Counted
  <2>8. QED
    BY <2>5, <2>6, <2>7
<1>3. CASE Clear(h) /\ n = its
  <2>1. guesses'[n] = 0
    BY <1>0, <1>3 DEF Clear
  <2>2. QED
    BY <1>0, <2>1 DEF Few
<1>4. CASE CheckAccount(h) /\ n # its
  <2>1. guesses'[n] = guesses[n]
    BY <1>0, <1>4 DEF CheckAccount
  <2>2. ~OpenGuess(h, n)'
    BY <1>4 DEF CheckAccount, OpenGuess
  <2>3. QED
    BY <1>0, <2>1, <2>2, OthersGuess DEF NoMore
<1>5. CASE ~CheckAccount(h) /\ ~(CountAccount(h) /\ n = its) /\ ~(Clear(h) /\ n = its)
  <2>1. guesses'[n] = guesses[n]
    BY <1>0, <1>5 DEF Work, Acquire, HangUp, CheckAddress, Submit, Verify, Resume, CountAccount,
       CountAddress, Clear, Issue, Return
  <2>2. QED
    BY <1>0, <1>5, <2>1, NoneOpened, OthersGuess DEF NoMore
<1>6. QED
  BY <1>1, <1>2, <1>3, <1>4, <1>5

GuessInv == \A n \in Names : Tally(n) /\ Bounded(n)

LEMMA StepGuesses == LoginInv /\ LoginInv' /\ GuessInv /\ [Next]_vars => GuessInv'
<1> SUFFICES ASSUME LoginInv, LoginInv', GuessInv, [Next]_vars, NEW n \in Names
             PROVE  (Tally(n) /\ Bounded(n))'
  BY DEF GuessInv
<1>1. Tally(n) /\ Bounded(n) /\ guesses[n] \in Nat /\ guesses'[n] \in Nat
  BY DEF GuessInv, LoginInv, Shape
<1>2. Tally(n)'
  BY <1>1, StepCounters DEF NameKept
<1>3. CASE UNCHANGED vars \/ Tick
  <2>1. guesses' = guesses /\ Guessing(n)' = Guessing(n)
    BY <1>3 DEF vars, Tick, Guessing, OpenGuess
  <2>2. QED
    BY <1>1, <1>2, <2>1 DEF Bounded
<1>4. ASSUME NEW h \in Handlers, Acquire(h) \/ HangUp(h) \/ Work(h) PROVE Bounded(n)'
  BY <1>1, <1>4, StepGuess, BoundKept
<1>5. QED
  BY <1>2, <1>3, <1>4 DEF Next

LEMMA InitGuesses == Init => GuessInv
<1> SUFFICES ASSUME Init, NEW n \in Names PROVE Tally(n) /\ Bounded(n)
  BY DEF GuessInv
<1>1. Guessing(n) = {}
  BY DEF Init, Guessing, OpenGuess
<1>2. Cardinality(Guessing(n)) = 0 /\ Cardinality(Handlers) \in Nat
  BY <1>1, FS_EmptySet, HandlersAssumption, FS_CardinalityType
<1>3. QED
  BY <1>2, LimitsAssumption DEF Init, Tally, Bounded

(* For any limit and any number of racing requests, an account takes no    *)
(* more wrong passwords in a window than the limit and the other requests  *)
(* open when it was reached.                                               *)
THEOREM GuessBound == Spec => []GuessesBounded
<1>1. GuessInv => GuessesBounded
  BY DEF GuessInv, GuessesBounded, Bounded, Guessing
<1>2. QED
  BY InitGuesses, LoginInvariant, StepGuesses, <1>1, PTL DEF Spec
-----------------------------------------------------------------------------
(* A permit always becomes free again.  Fairness has its guard written     *)
(* out: a request that is not idle works again and again, on its handler's *)
(* side or on the blocking pool.                                           *)
Ready(h) == pc[h] # "idle" /\ (pc[h] = "await" => job[h] # "none")

Runs(h) == []<>~Ready(h) \/ []<><<Work(h)>>_vars

Scheduled == \A h \in Handlers : Runs(h)

(* This is the fairness of Login, if the guard says what is enabled.       *)
Guarded(h) == Ready(h) => ENABLED <<Work(h)>>_vars

Fair(h) == WF_vars(Work(h))

LEMMA FairlyScheduled ==
    Fairness /\ (\A h \in Handlers : []Guarded(h)) => Scheduled
<1>1. Fairness => \A h \in Handlers : Fair(h)
  BY PTL DEF Fairness, Fair
<1>2. ASSUME NEW h \in Handlers
      PROVE  Fair(h) /\ []Guarded(h) => Runs(h)
  BY PTL DEF Fair, Guarded, Runs
<1>3. QED
  BY <1>1, <1>2, Zenon DEF Scheduled

At(h, step) == pc[h] = step
Verifying(h) == job[h] = "running"
Some == available > 0

(* What can become of a request that holds a permit.                       *)
LEMMA HolderGoesOn ==
    ASSUME LoginInv, [Next]_vars, NEW h \in Handlers
    PROVE  /\ At(h, "address") => At(h, "address")' \/ At(h, "account")' \/ Some'
           /\ At(h, "account") => At(h, "account")' \/ At(h, "submit")'
           /\ At(h, "submit") => At(h, "submit")' \/ Verifying(h)'
           /\ Verifying(h) => Verifying(h)' \/ Some'
<1> USE DEF At, Verifying, Some
<1>1. CASE UNCHANGED <<pc, job>>
  BY <1>1
<1>2. UNCHANGED vars \/ Tick => UNCHANGED <<pc, job>>
  BY DEF vars, Tick
<1>3. ASSUME NEW g \in Handlers, g # h, Acquire(g) \/ HangUp(g) \/ Work(g)
      PROVE  pc'[h] = pc[h] /\ job'[h] = job[h]
  BY <1>3, OthersAlone DEF LoginInv, Row
<1>4. CASE Acquire(h) \/ HangUp(h)
  BY <1>4 DEF Acquire, HangUp, Go, LoginInv, Shape, Way, Course
<1>5. CASE Work(h)
  <2>1. /\ available \in Nat /\ pc \in [Handlers -> Steps] /\ job \in [Handlers -> Jobs]
        /\ Course(h)
    BY DEF LoginInv, Shape, Way
  <2>2. CASE CheckAddress(h) \/ CheckAccount(h) \/ Submit(h)
    BY <2>1, <2>2 DEF CheckAddress, CheckAccount, Submit, Answer, Go, Course
  <2>3. CASE Verify(h)
    BY <2>1, <2>3 DEF Verify, Course
  <2>4. CASE Resume(h) \/ CountAccount(h) \/ CountAddress(h) \/ Clear(h) \/ Issue(h) \/ Return(h)
    BY <2>1, <2>4 DEF Resume, CountAccount, CountAddress, Clear, Issue, Return, Course
  <2>5. QED
    BY <1>5, <2>2, <2>3, <2>4 DEF Work
<1>6. QED
  BY <1>1, <1>2, <1>3, <1>4, <1>5 DEF Next

(* And what its own next step makes of it.                                 *)
LEMMA HolderWorks ==
    ASSUME LoginInv, NEW h \in Handlers, Work(h)
    PROVE  /\ At(h, "address") => At(h, "account")' \/ Some'
           /\ At(h, "account") => At(h, "submit")'
           /\ At(h, "submit") => Verifying(h)'
           /\ Verifying(h) => Some'
<1> USE DEF At, Verifying, Some
<1>1. /\ available \in Nat /\ pc \in [Handlers -> Steps] /\ job \in [Handlers -> Jobs]
      /\ Course(h)
  BY DEF LoginInv, Shape, Way
<1>2. CASE CheckAddress(h) \/ CheckAccount(h) \/ Submit(h)
  BY <1>1, <1>2 DEF CheckAddress, CheckAccount, Submit, Answer, Go, Course
<1>3. CASE Verify(h)
  BY <1>1, <1>3 DEF Verify, Course
<1>4. CASE Resume(h) \/ CountAccount(h) \/ CountAddress(h) \/ Clear(h) \/ Issue(h) \/ Return(h)
  BY <1>1, <1>4 DEF Resume, CountAccount, CountAddress, Clear, Issue, Return, Course
<1>5. QED
  BY <1>2, <1>3, <1>4 DEF Work

Holding(h) == HoldsPermit(h)
Gives(h) == [](Holding(h) => <>Some)

LEMMA GivesBack ==
    ASSUME NEW h \in Handlers
    PROVE  []LoginInv /\ [][Next]_vars /\ Runs(h) => Gives(h)
<1>1. LoginInv => (Holding(h) <=> \/ At(h, "address") \/ At(h, "account") \/ At(h, "submit")
                                 \/ Verifying(h))
  BY DEF Holding, HoldsPermit, At, Verifying
<1>2. LoginInv /\ Holding(h) => Ready(h)
  BY DEF Holding, HoldsPermit, Ready, LoginInv, Way, Course
<1>3. LoginInv /\ [Next]_vars
        => /\ At(h, "address") => At(h, "address")' \/ At(h, "account")' \/ Some'
           /\ At(h, "account") => At(h, "account")' \/ At(h, "submit")'
           /\ At(h, "submit") => At(h, "submit")' \/ Verifying(h)'
           /\ Verifying(h) => Verifying(h)' \/ Some'
  BY HolderGoesOn
<1>4. LoginInv /\ <<Work(h)>>_vars
        => /\ At(h, "address") => At(h, "account")' \/ Some'
           /\ At(h, "account") => At(h, "submit")'
           /\ At(h, "submit") => Verifying(h)'
           /\ Verifying(h) => Some'
  BY HolderWorks
<1>5. QED
  BY <1>1, <1>2, <1>3, <1>4, PTL DEF Runs, Gives

(* When no permit is left, somebody holds one.                             *)
LEMMA SomebodyHolds ==
    LoginInv /\ PermitsConserved => Some \/ \E h \in Handlers : Holding(h)
<1> SUFFICES ASSUME LoginInv, PermitsConserved, ~Some
             PROVE  Holders # {}
  BY DEF Holders, Holding
<1>1. available = 0 /\ Permits > 0
  BY LimitsAssumption DEF LoginInv, Shape, Some
<1>2. Cardinality(Holders) = Permits
  BY <1>1, LimitsAssumption, HoldersCounted DEF PermitsConserved, Holders
<1>3. QED
  BY <1>1, <1>2, FS_EmptySet

(* Overload passes: a permit becomes free again, whatever clients do.      *)
THEOREM PermitsComeBack == Spec /\ Scheduled => PermitsReturn
<1>1. []LoginInv /\ [][Next]_vars /\ Scheduled => \A h \in Handlers : Gives(h)
  <2>1. Scheduled => \A h \in Handlers : Runs(h)
    BY Zenon DEF Scheduled
  <2>2. QED
    BY <2>1, GivesBack, Zenon
<1>2. (\A h \in Handlers : Gives(h)) => [](\A h \in Handlers : Holding(h) => <>Some)
  BY Zenon DEF Gives
<1>3. LoginInv /\ PermitsConserved /\ (\A h \in Handlers : Holding(h) => <>Some)
        => Some \/ <>Some
  BY SomebodyHolds, Zenon
<1>4. Some <=> available > 0
  BY DEF Some
<1>5. QED
  BY <1>1, <1>2, <1>3, <1>4, LoginInvariant, PermitConservation, PTL DEF Spec, PermitsReturn
=============================================================================
