------------------------ MODULE IdempotentCreateProofs ------------------------
(***************************************************************************)
(* Proofs about IdempotentCreate, for any users, keys and bodies, any      *)
(* windows and any number of requests at a time.                           *)
(***************************************************************************)
EXTENDS IdempotentCreate, TLAPS

Steps == {"idle", "begin", "run", "await", "cut", "answer"}

Shape ==
    /\ profile \in [Users -> Calls \cup {None}]
    /\ \A u \in Users : profile[u] # None => profile[u].user = u
    /\ entries \in [Slots -> Entries \cup {None}]
    /\ pc \in [Handlers -> Steps]
    /\ call \in [Handlers -> Calls \cup {None}]
    /\ job \in [Handlers -> Results \cup {None}]
    /\ answer \in [Handlers -> Answers \cup {None}]
    /\ held \in [Handlers -> 0..ReservationTimeout]
    /\ past \subseteq Slots \X {"inflight", "complete", "cut"}

(* Where a handler is says what there is of its request; and one that is   *)
(* cut off is remembered.                                                  *)
Course(h) ==
    /\ (pc[h] = "idle") = (call[h] = None)
    /\ (job[h] # None) = (pc[h] \in {"await", "cut"})
    /\ pc[h] = "cut" => job[h] = "queued"
    /\ (answer[h] # None) = (pc[h] = "answer")
    /\ pc[h] = "begin" => call[h].key # None
    /\ pc[h] = "cut" /\ call[h].key # None => <<Slot(h), "cut">> \in past
    /\ pc[h] \in {"await", "cut"} => call[h].body \in Valid

(* What a handler has learned of the create, or tells of it, is so.        *)
Truth(h) ==
    /\ job[h] = "created" => profile[call[h].user] = call[h]
    /\ answer[h] # None /\ answer[h].kind = "created" =>
          profile[call[h].user] = call[h] /\ answer[h].body = call[h].body
    /\ job[h] = "exists" \/ answer[h] = Told("exists") => profile[call[h].user] # None

(* Told of a profile that its own request has created, it or a retry has   *)
(* outlived an entry of its key.                                           *)
Excused(h) ==
    /\ call[h] # None /\ call[h].key # None /\ profile[call[h].user] = call[h]
    /\ job[h] = "exists" \/ answer[h] = Told("exists")
    => Lapsed(Slot(h))

Way(h) == Course(h) /\ Truth(h) /\ Excused(h)

InFlightAt(s) == entries[s] # None /\ entries[s].kind = "inflight"
CompleteAt(s) == entries[s] # None /\ entries[s].kind = "complete"

HeldFor(s, body) == InFlightAt(s) /\ entries[s].body = body

(* A handler at work has its key in flight, with the body it was sent,     *)
(* unless the entry has run out.                                           *)
Reserved(h) ==
    Runs(h) => HeldFor(Slot(h), call[h].body) \/ <<Slot(h), "inflight">> \in past

Alone(h) == \A g \in Handlers : SameKey(g, h) => <<Slot(h), "inflight">> \in past

Owned(s) ==
    InFlightAt(s) => (\E h \in Handlers : Runs(h) /\ Slot(h) = s) \/ <<s, "cut">> \in past

(* An outcome is recorded for the request that created the profile; and as *)
(* long as no entry of its key has run out, that key has an entry, and is  *)
(* at work only for the creator.                                           *)
Recorded(s) ==
    CompleteAt(s) => profile[s[1]] = [user |-> s[1], key |-> s[2], body |-> entries[s].body]

Known(s) ==
    profile[s[1]] # None /\ profile[s[1]].key = s[2] /\ ~Lapsed(s) =>
        /\ entries[s] # None /\ entries[s].body = profile[s[1]].body
        /\ \A h \in Handlers : Runs(h) /\ Slot(h) = s => job[h] = "created"

Desk(h) == Reserved(h) /\ Alone(h)
Book(s) == Owned(s) /\ Recorded(s) /\ Known(s)

KeyInv ==
    /\ Shape
    /\ \A h \in Handlers : Way(h) /\ Desk(h)
    /\ \A s \in Slots : Book(s)

Step(h) == Arrive(h) \/ HangUp(h) \/ Work(h)

Row(h) == <<pc[h], call[h], job[h], answer[h]>>

-----------------------------------------------------------------------------
LEMMA NoneIsNothing ==
    /\ None \notin Calls /\ None \notin Entries /\ None \notin Results /\ None \notin Answers
    /\ None \notin Keys
BY NoneAssumption

LEMMA CallFields ==
    ASSUME NEW c \in Calls
    PROVE  /\ c.user \in Users /\ c.key \in Keys \cup {None} /\ c.body \in Bodies
           /\ c = [user |-> c.user, key |-> c.key, body |-> c.body]
BY DEF Calls

LEMMA AnswerMade ==
    /\ \A body \in Bodies : Created(body) \in Answers /\ Created(body).kind = "created"
                            /\ Created(body).body = body /\ Created(body) # Told("exists")
    /\ \A kind \in {"mismatch", "inflight", "invalid", "exists", "backend"} :
          Told(kind) \in Answers /\ Told(kind).kind = kind
          /\ (kind # "exists" => Told(kind) # Told("exists"))
<1>1. ASSUME NEW body \in Bodies
      PROVE  Created(body) \in Answers /\ Created(body).kind = "created"
             /\ Created(body).body = body /\ Created(body) # Told("exists")
  <2>1. Created(body).kind = "created" /\ Told("exists").kind = "exists"
    BY DEF Created, Told
  <2>2. Created(body) # Told("exists")
    BY <2>1
  <2>3. QED
    BY <2>1, <2>2 DEF Created, Answers
<1>2. ASSUME NEW kind \in {"mismatch", "inflight", "invalid", "exists", "backend"}
      PROVE  Told(kind) \in Answers /\ Told(kind).kind = kind
             /\ (kind # "exists" => Told(kind) # Told("exists"))
  <2>1. Told(kind).kind = kind /\ Told("exists").kind = "exists"
    BY DEF Told
  <2>2. kind # "exists" => Told(kind) # Told("exists")
    BY <2>1
  <2>3. QED
    BY <2>1, <2>2 DEF Told, Answers
<1>3. QED
  BY <1>1, <1>2

LEMMA EntryMade ==
    ASSUME NEW body \in Bodies
    PROVE  /\ InFlight(body) \in Entries /\ InFlight(body) # None
           /\ InFlight(body).kind = "inflight" /\ InFlight(body).body = body
           /\ Complete(body) \in Entries /\ Complete(body) # None
           /\ Complete(body).kind = "complete" /\ Complete(body).body = body
<1>1. 0 \in 0..Retention
  BY WindowsAssumption
<1>2. QED
  BY <1>1, NoneIsNothing DEF InFlight, Complete, Entries

(* A request that is not idle has a call, and with a key it has a slot.    *)
LEMMA Called ==
    ASSUME Shape, NEW h \in Handlers, Course(h), pc[h] # "idle"
    PROVE  /\ call[h] \in Calls /\ call[h] # None
           /\ call[h].user \in Users /\ call[h].body \in Bodies
           /\ call[h].key # None => Slot(h) \in Slots /\ Slot(h)[1] = call[h].user
                                    /\ Slot(h)[2] = call[h].key
<1>1. call[h] \in Calls /\ call[h] # None
  BY DEF Shape, Course
<1>2. QED
  BY <1>1, CallFields DEF Slots, Slot

(* expire() takes away only what has run out.                              *)
LEMMA Expired ==
    ASSUME Shape, NEW s \in Slots
    PROVE  \/ Kept[s] = entries[s] /\ s \notin Gone
           \/ Kept[s] = None /\ s \in Gone /\ entries[s] # None /\ RunOut(entries[s])
BY DEF Kept, Gone

LEMMA KeptShape ==
    ASSUME Shape
    PROVE  Kept \in [Slots -> Entries \cup {None}]
BY DEF Shape, Kept

-----------------------------------------------------------------------------
LEMMA InitKey == Init => KeyInv
<1> SUFFICES ASSUME Init PROVE KeyInv
  OBVIOUS
<1>1. Shape
  BY WindowsAssumption DEF Init, Shape, Steps
<1>2. ASSUME NEW h \in Handlers PROVE Way(h) /\ Desk(h)
  <2>1. ~Runs(h) /\ \A g \in Handlers : ~SameKey(g, h)
    BY DEF Init, Runs, SameKey
  <2>2. Course(h)
    BY NoneIsNothing DEF Init, Course
  <2>3. Truth(h) /\ Excused(h)
    BY NoneIsNothing, AnswerMade DEF Init, Truth, Excused, Results
  <2>4. QED
    BY <2>1, <2>2, <2>3 DEF Way, Desk, Reserved, Alone
<1>3. ASSUME NEW s \in Slots PROVE Book(s)
  BY DEF Init, Book, Owned, Recorded, Known, InFlightAt, CompleteAt, Slots
<1>4. QED
  BY <1>1, <1>2, <1>3 DEF KeyInv

(* The rows of other handlers are left alone, no memory is lost, and the   *)
(* first call to create a profile stays the one that did.                  *)
LEMMA OthersAlone ==
    ASSUME Shape, NEW h \in Handlers, Step(h), NEW g \in Handlers, g # h
    PROVE  Row(g)' = Row(g)
<1> USE DEF Shape, Row
<1>1. CASE Arrive(h)
  BY <1>1 DEF Arrive, Go
<1>2. CASE HangUp(h)
  BY <1>2 DEF HangUp, Go
<1>3. CASE Begin(h)
  BY <1>3 DEF Begin, Go, Answer
<1>4. CASE Submit(h)
  BY <1>4 DEF Submit, Go
<1>5. CASE Create(h)
  BY <1>5 DEF Create, Go, Deliver
<1>6. CASE Finish(h)
  BY <1>6 DEF Finish, Go, Answer
<1>7. CASE Abandon(h)
  BY <1>7 DEF Abandon, Go, Answer
<1>8. CASE Return(h)
  BY <1>8 DEF Return, Go
<1>9. QED
  BY <1>1, <1>2, <1>3, <1>4, <1>5, <1>6, <1>7, <1>8 DEF Step, Work

LEMMA NothingUndone ==
    ASSUME Shape, NEW h \in Handlers, Step(h)
    PROVE  /\ past \subseteq past'
           /\ \A u \in Users : profile[u] # None => profile'[u] = profile[u]
<1>1. past \subseteq past'
  BY DEF Step, Work, Arrive, HangUp, Begin, Submit, Create, Finish, Abandon, Return, idempotency
<1>2. \A u \in Users : profile[u] # None => profile'[u] = profile[u]
  <2>1. profile' = profile \/ Create(h)
    BY DEF Step, Work, Arrive, HangUp, Begin, Submit, Finish, Abandon, Return, Create
  <2>2. CASE Create(h)
    BY <2>2 DEF Create, Shape
  <2>3. QED
    BY <2>1, <2>2
<1>3. QED
  BY <1>1, <1>2

LEMMA StepEntries ==
    ASSUME Shape, NEW h \in Handlers, Course(h), Step(h)
    PROVE  entries' \in [Slots -> Entries \cup {None}]
<1>1. CASE Begin(h)
  <2>1. Kept \in [Slots -> Entries \cup {None}]
    BY KeptShape
  <2>2. InFlight(call[h].body) \in Entries
    BY <1>1, Called, EntryMade DEF Begin
  <2>3. Reserve(Slot(h), call[h].body) \in [Slots -> Entries \cup {None}]
    BY <2>1, <2>2 DEF Reserve
  <2>4. QED
    BY <1>1, <2>1, <2>3 DEF Begin
<1>2. CASE Finish(h)
  <2>1. Complete(call[h].body) \in Entries
    BY <1>2, Called, EntryMade DEF Finish
  <2>2. QED
    BY <1>2, <2>1 DEF Finish, Shape
<1>3. CASE Abandon(h)
  BY <1>3 DEF Abandon, Shape
<1>4. CASE Arrive(h) \/ HangUp(h) \/ Submit(h) \/ Create(h) \/ Return(h)
  BY <1>4 DEF Arrive, HangUp, Submit, Create, Return, idempotency, Shape
<1>5. QED
  BY <1>1, <1>2, <1>3, <1>4 DEF Step, Work

(* What a handler is given to tell is an answer.                           *)
LEMMA AnswerShape ==
    ASSUME Shape, NEW h \in Handlers, NEW told \in Answers, Answer(h, told)
    PROVE  /\ answer' \in [Handlers -> Answers \cup {None}] /\ answer'[h] = told
           /\ held' \in [Handlers -> 0..ReservationTimeout]
           /\ pc' \in [Handlers -> Steps] /\ pc'[h] = "answer"
           /\ call' = call
<1>1. 0 \in 0..ReservationTimeout
  BY WindowsAssumption
<1>2. QED
  BY <1>1 DEF Answer, Go, Shape, Steps

LEMMA BeginAnswers ==
    ASSUME KeyInv, NEW h \in Handlers, Begin(h)
    PROVE  /\ pc[h] = "begin" /\ call[h] \in Calls /\ Slot(h) \in Slots /\ profile' = profile
           /\ \/ /\ Kept[Slot(h)] = None
                 /\ entries' = [Kept EXCEPT ![Slot(h)] = InFlight(call[h].body)]
                 /\ Go(h, "run") /\ UNCHANGED <<call, answer, held>>
              \/ /\ Kept[Slot(h)] # None /\ entries' = Kept
                 /\ \E told \in Answers :
                       /\ Answer(h, told) /\ told # Told("exists")
                       /\ told.kind = "created" =>
                             told.body = call[h].body /\ profile[call[h].user] = call[h]
<1> DEFINE s == Slot(h)
           known == Kept[s]
           body == call[h].body
<1>1. pc[h] = "begin" /\ Shape /\ Course(h) /\ profile' = profile
  BY DEF Begin, KeyInv, Way
<1>2. /\ call[h] \in Calls /\ body \in Bodies /\ s \in Slots
      /\ s[1] = call[h].user /\ s[2] = call[h].key
  BY <1>1, Called DEF Course
<1>3. CASE known = None /\ entries' = Reserve(s, body) /\ Go(h, "run") /\ UNCHANGED <<call, answer, held>>
  BY <1>1, <1>2, <1>3 DEF Reserve
<1>4. CASE /\ known # None /\ entries' = Kept
           /\ Answer(h, IF Mismatched(known, body) THEN Told("mismatch")
                        ELSE IF known.kind = "inflight" THEN Told("inflight")
                        ELSE Created(known.body))
  <2> DEFINE told == IF Mismatched(known, body) THEN Told("mismatch")
                     ELSE IF known.kind = "inflight" THEN Told("inflight")
                     ELSE Created(known.body)
  <2>1. known \in Entries /\ known = entries[s]
    BY <1>1, <1>2, <1>4, KeptShape, Expired
  <2>2. CASE Mismatched(known, body)
    BY <1>1, <1>2, <1>4, <2>2, AnswerMade
  <2>3. CASE ~Mismatched(known, body) /\ known.kind = "inflight"
    BY <1>1, <1>2, <1>4, <2>3, AnswerMade
  <2>4. CASE ~Mismatched(known, body) /\ known.kind # "inflight"
    <3>1. known.kind = "complete" /\ known.body = body
      BY <2>1, <2>4 DEF Entries, Mismatched
    <3>2. CompleteAt(s)
      BY <1>4, <2>1, <3>1 DEF CompleteAt
    <3>3. profile[s[1]] = [user |-> s[1], key |-> s[2], body |-> entries[s].body]
      BY <1>2, <3>2 DEF KeyInv, Book, Recorded
    <3>4. profile[call[h].user] = call[h]
      BY <1>2, <2>1, <3>1, <3>3, CallFields
    <3>5. told = Created(body)
      BY <2>4, <3>1
    <3>6. /\ Created(body) \in Answers /\ Created(body).body = body
          /\ Created(body) # Told("exists")
      BY <1>2, AnswerMade
    <3>7. Answer(h, Created(body))
      BY <1>4, <3>5
    <3>8. QED
      BY <1>1, <1>2, <1>4, <3>4, <3>6, <3>7
  <2>5. QED
    BY <2>2, <2>3, <2>4
<1>5. QED
  BY <1>3, <1>4 DEF Begin

LEMMA StepShape ==
    ASSUME KeyInv, NEW h \in Handlers, Step(h)
    PROVE  Shape'
<1>0. Shape /\ Course(h) /\ (pc[h] # "idle" => call[h] \in Calls /\ call[h].body \in Bodies)
  BY Called DEF KeyInv, Way
<1>1. entries' \in [Slots -> Entries \cup {None}]
  BY <1>0, StepEntries
<1>2. CASE Arrive(h)
  BY <1>0, <1>1, <1>2 DEF Arrive, Go, Shape, Steps, idempotency
<1>3. CASE HangUp(h)
  <2>1. past' \subseteq Slots \X {"inflight", "complete", "cut"}
    BY <1>0, <1>3, Called DEF HangUp, Shape
  <2>2. QED
    BY <1>0, <1>1, <1>3, <2>1, WindowsAssumption DEF HangUp, Go, Shape, Steps
<1>4. CASE Begin(h)
  <2>1. past' \subseteq Slots \X {"inflight", "complete", "cut"}
    <3>1. \A s \in Gone : s \in Slots /\ entries[s].kind \in {"inflight", "complete"}
      BY <1>0 DEF Gone, Shape, Entries
    <3>2. QED
      BY <1>0, <1>4, <3>1 DEF Begin, Shape
  <2>2. UNCHANGED <<profile, job>>
    BY <1>4 DEF Begin
  <2>3. CASE Go(h, "run") /\ UNCHANGED <<call, answer, held>>
    BY <1>0, <1>1, <2>1, <2>2, <2>3 DEF Shape, Go, Steps
  <2>4. CASE \E told \in Answers : Answer(h, told)
    BY <1>0, <1>1, <2>1, <2>2, <2>4, AnswerShape DEF Shape
  <2>5. QED
    BY <1>4, <2>3, <2>4, BeginAnswers
<1>5. CASE Submit(h)
  BY <1>0, <1>1, <1>5 DEF Submit, Go, Shape, Steps, Results, idempotency
<1>6. CASE Create(h)
  <2>1. /\ profile' \in [Users -> Calls \cup {None}] /\ UNCHANGED <<past, answer, held>>
    BY <1>0, <1>6 DEF Create, Shape, Course, idempotency
  <2>2. \A u \in Users : profile'[u] # None => profile'[u].user = u
    <3>1. call[h] \in Calls /\ call[h].user \in Users
      BY <1>0, <1>6, CallFields, NoneIsNothing DEF Create, Course, Results
    <3>2. profile' = profile \/ profile' = [profile EXCEPT ![call[h].user] = call[h]]
      BY <1>6 DEF Create
    <3>3. QED
      BY <1>0, <3>1, <3>2 DEF Shape
  <2>3. \E result \in Results : Deliver(h, result)
    BY <1>6 DEF Create, Results
  <2>4. job' \in [Handlers -> Results \cup {None}] /\ call' \in [Handlers -> Calls \cup {None}]
        /\ pc' \in [Handlers -> Steps]
    BY <1>0, <2>3 DEF Deliver, Go, Shape, Steps
  <2>5. QED
    BY <1>0, <1>1, <2>1, <2>4, <2>2 DEF Shape
<1>7. CASE Finish(h)
  <2>1. Answer(h, Created(call[h].body)) /\ Created(call[h].body) \in Answers
    BY <1>0, <1>7, AnswerMade DEF Finish
  <2>2. UNCHANGED <<profile, past>> /\ job' \in [Handlers -> Results \cup {None}]
    BY <1>0, <1>7 DEF Finish, Shape
  <2>3. QED
    BY <1>0, <1>1, <2>1, <2>2, AnswerShape DEF Shape
<1>8. CASE Abandon(h)
  <2>1. Failure(h) \in {"invalid", "exists", "backend"}
    BY <1>8 DEF Abandon, Failure
  <2>2. Answer(h, Told(Failure(h))) /\ Told(Failure(h)) \in Answers
    BY <1>8, <2>1, AnswerMade DEF Abandon
  <2>3. UNCHANGED <<profile, past>> /\ job' \in [Handlers -> Results \cup {None}]
    BY <1>0, <1>8 DEF Abandon, Shape
  <2>4. QED
    BY <1>0, <1>1, <2>2, <2>3, AnswerShape DEF Shape
<1>9. CASE Return(h)
  BY <1>0, <1>1, <1>9 DEF Return, Go, Shape, Steps, idempotency
<1>10. QED
  BY <1>2, <1>3, <1>4, <1>5, <1>6, <1>7, <1>8, <1>9 DEF Step, Work

-----------------------------------------------------------------------------
(* Row by row: what is true of a handler that does not move stays true.    *)
LEMMA RowAlone ==
    ASSUME Shape, NEW g \in Handlers, Way(g), Row(g)' = Row(g), past \subseteq past',
           \A u \in Users : profile[u] # None => profile'[u] = profile[u]
    PROVE  Way(g)'
<1>1. /\ pc'[g] = pc[g] /\ call'[g] = call[g] /\ job'[g] = job[g] /\ answer'[g] = answer[g]
      /\ Slot(g)' = Slot(g)
  BY DEF Row, Slot
<1>2. Course(g)'
  BY <1>1 DEF Way, Course
<1>3. CASE pc[g] = "idle"
  <2>1. call[g] = None /\ job[g] = None /\ answer[g] = None
    BY <1>3 DEF Way, Course
  <2>2. QED
    BY <1>1, <1>2, <2>1, NoneIsNothing, AnswerMade DEF Way, Truth, Excused, Results
<1>4. CASE pc[g] # "idle"
  <2>1. call[g] \in Calls /\ call[g] # None /\ call[g].user \in Users
    BY <1>4, Called DEF Way
  <2>2. Truth(g)'
    BY <1>1, <2>1 DEF Way, Truth
  <2>3. Lapsed(Slot(g)) => Lapsed(Slot(g))'
    BY <1>1 DEF Lapsed
  <2>4. Excused(g)'
    BY <1>1, <2>1, <2>3 DEF Way, Truth, Excused
  <2>5. QED
    BY <1>2, <2>2, <2>4 DEF Way
<1>5. QED
  BY <1>3, <1>4

LEMMA CreateEnds ==
    ASSUME KeyInv, NEW h \in Handlers, Create(h)
    PROVE  /\ job[h] = "queued" /\ pc[h] \in {"await", "cut"} /\ answer' = answer /\ past' = past
           /\ entries' = entries /\ call[h] \in Calls /\ call[h].user \in Users
           /\ \/ pc'[h] = "idle" /\ job'[h] = None /\ call'[h] = None
              \/ /\ pc'[h] = "await" /\ call'[h] = call[h]
                 /\ \/ job'[h] = "created" /\ profile'[call[h].user] = call[h]
                    \/ job'[h] = "exists" /\ profile' = profile /\ profile[call[h].user] # None
                    \/ job'[h] = "backend" /\ profile' = profile
           /\ \/ profile' = profile
              \/ /\ profile[call[h].user] = None
                 /\ profile' = [profile EXCEPT ![call[h].user] = call[h]]
                 /\ pc'[h] = "idle" \/ job'[h] = "created"
<1>1. /\ job[h] = "queued" /\ answer' = answer /\ past' = past /\ entries' = entries
      /\ Shape /\ Course(h)
  BY DEF Create, idempotency, KeyInv, Way
<1>2. pc[h] \in {"await", "cut"}
  BY <1>1, NoneIsNothing DEF Course, Results
<1>3. call[h] \in Calls /\ call[h].user \in Users
  BY <1>1, <1>2, Called
<1>4. ASSUME NEW result \in Results, Deliver(h, result)
      PROVE  \/ pc'[h] = "idle" /\ job'[h] = None /\ call'[h] = None
             \/ pc'[h] = "await" /\ call'[h] = call[h] /\ job'[h] = result
  BY <1>1, <1>2, <1>4 DEF Deliver, Go, Shape
<1>5. CASE /\ profile[call[h].user] = None
           /\ profile' = [profile EXCEPT ![call[h].user] = call[h]]
           /\ Deliver(h, "created")
  <2>1. profile'[call[h].user] = call[h]
    BY <1>1, <1>3, <1>5 DEF Shape
  <2>2. QED
    BY <1>1, <1>2, <1>3, <1>4, <1>5, <2>1 DEF Results
<1>6. CASE profile[call[h].user] # None /\ Deliver(h, "exists") /\ UNCHANGED profile
  BY <1>1, <1>2, <1>3, <1>4, <1>6 DEF Results
<1>7. CASE Deliver(h, "backend") /\ UNCHANGED profile
  BY <1>1, <1>2, <1>3, <1>4, <1>7 DEF Results
<1>8. QED
  BY <1>5, <1>6, <1>7 DEF Create

(* And of the one that does.                                               *)
LEMMA StepCourse ==
    ASSUME KeyInv, NEW h \in Handlers, Step(h)
    PROVE  Course(h)'
<1> USE NoneIsNothing DEF Course
<1>0. Shape /\ Course(h) /\ (pc[h] # "idle" => call[h] \in Calls)
  BY Called DEF KeyInv, Way
<1>1. CASE Arrive(h)
  BY <1>0, <1>1 DEF Arrive, Go, Shape
<1>2. CASE HangUp(h)
  <2>1. CASE job[h] = "queued" /\ Go(h, "cut") /\ UNCHANGED <<call, job>>
    BY <1>0, <1>2, <2>1 DEF HangUp, Go, Shape, Slot
  <2>2. CASE /\ job[h] # "queued" /\ Go(h, "idle")
             /\ call' = [call EXCEPT ![h] = None] /\ job' = [job EXCEPT ![h] = None]
    BY <1>0, <1>2, <2>2 DEF HangUp, Go, Shape
  <2>3. QED
    BY <1>2, <2>1, <2>2 DEF HangUp
<1>3. CASE Begin(h)
  <2>1. UNCHANGED <<job, call>> /\ pc[h] = "begin"
    BY <1>3 DEF Begin, Answer
  <2>2. CASE Go(h, "run") /\ UNCHANGED <<call, answer, held>>
    BY <1>0, <2>1, <2>2 DEF Go, Shape
  <2>3. CASE \E told \in Answers : Answer(h, told)
    BY <1>0, <2>1, <2>3, AnswerShape
  <2>4. QED
    BY <1>3, <2>2, <2>3, BeginAnswers
<1>4. CASE Submit(h)
  BY <1>0, <1>4 DEF Submit, Go, Shape, Results
<1>5. CASE Create(h)
  <2>1. answer'[h] = answer[h] /\ answer[h] = None
    BY <1>0, <1>5, CreateEnds
  <2>2. \/ pc'[h] = "idle" /\ job'[h] = None /\ call'[h] = None
        \/ pc'[h] = "await" /\ call'[h] = call[h] /\ call[h] # None /\ job'[h] \in Results
    BY <1>5, CreateEnds DEF Results
  <2>3. pc[h] \in {"await", "cut"} /\ call[h].body \in Valid
    BY <1>0, <1>5, CreateEnds
  <2>4. QED
    BY <2>1, <2>2, <2>3
<1>6. CASE Finish(h)
  <2>1. Answer(h, Created(call[h].body)) /\ Created(call[h].body) \in Answers
    BY <1>0, <1>6, CallFields, AnswerMade DEF Finish
  <2>2. job'[h] = None
    BY <1>0, <1>6 DEF Finish, Shape
  <2>3. QED
    BY <1>0, <1>6, <2>1, <2>2, AnswerShape DEF Finish
<1>7. CASE Abandon(h)
  <2>1. Failure(h) \in {"invalid", "exists", "backend"} /\ pc[h] \in {"run", "await"}
    BY <1>7 DEF Abandon, Failure
  <2>2. Answer(h, Told(Failure(h))) /\ Told(Failure(h)) \in Answers
    BY <1>7, <2>1, AnswerMade DEF Abandon
  <2>3. job'[h] = None
    BY <1>0, <1>7 DEF Abandon, Shape
  <2>4. QED
    BY <1>0, <2>1, <2>2, <2>3, AnswerShape
<1>8. CASE Return(h)
  BY <1>0, <1>8 DEF Return, Go, Shape
<1>9. QED
  BY <1>1, <1>2, <1>3, <1>4, <1>5, <1>6, <1>7, <1>8 DEF Step, Work

LEMMA StepTruth ==
    ASSUME KeyInv, NEW h \in Handlers, Step(h)
    PROVE  Truth(h)' /\ Excused(h)'
<1> USE NoneIsNothing
<1>0. Shape /\ Course(h) /\ Truth(h) /\ Excused(h) /\ (pc[h] # "idle" => call[h] \in Calls)
  BY Called DEF KeyInv, Way
<1>1. ASSUME job'[h] = None, answer'[h] = None PROVE Truth(h)' /\ Excused(h)'
  BY <1>1, AnswerMade DEF Truth, Excused, Results
<1>2. CASE Arrive(h)
  BY <1>0, <1>1, <1>2 DEF Arrive, Course
<1>3. CASE HangUp(h)
  <2>1. CASE job[h] = "queued" /\ UNCHANGED <<call, job>>
    <3>1. job'[h] = "queued" /\ answer'[h] = None
      BY <1>0, <1>3, <2>1 DEF HangUp, Course
    <3>2. QED
      BY <3>1, AnswerMade DEF Truth, Excused
  <2>2. CASE job' = [job EXCEPT ![h] = None] /\ answer' = answer
    BY <1>0, <1>1, <1>3, <2>2 DEF HangUp, Course, Shape
  <2>3. QED
    BY <1>3, <2>1, <2>2 DEF HangUp
<1>4. CASE Begin(h)
  <2>1. UNCHANGED <<job, call, profile>> /\ pc[h] = "begin" /\ job[h] = None /\ answer[h] = None
    BY <1>0, <1>4 DEF Begin, Answer, Course
  <2>2. CASE UNCHANGED answer
    BY <1>1, <2>1, <2>2
  <2>3. CASE \E told \in Answers :
                /\ Answer(h, told) /\ told # Told("exists")
                /\ told.kind = "created" =>
                      told.body = call[h].body /\ profile[call[h].user] = call[h]
    <3>1. PICK told \in Answers :
                /\ Answer(h, told) /\ told # Told("exists")
                /\ told.kind = "created" =>
                      told.body = call[h].body /\ profile[call[h].user] = call[h]
      BY <2>3
    <3>2. answer'[h] = told
      BY <1>0, <3>1, AnswerShape
    <3>3. QED
      BY <2>1, <3>1, <3>2 DEF Truth, Excused, Results
  <2>4. QED
    BY <1>4, <2>2, <2>3, BeginAnswers
<1>5. CASE Submit(h)
  <2>1. job'[h] = "queued" /\ answer'[h] = None
    BY <1>0, <1>5 DEF Submit, Shape, Course
  <2>2. QED
    BY <2>1, AnswerMade DEF Truth, Excused
<1>6. CASE Create(h)
  <2>1. answer[h] = None /\ answer' = answer
    BY <1>0, <1>6, CreateEnds DEF Course
  <2>2. CASE job'[h] = None
    BY <1>1, <2>1, <2>2
  <2>3. CASE job'[h] = "created" /\ call'[h] = call[h] /\ profile'[call[h].user] = call[h]
    BY <2>1, <2>3, AnswerMade DEF Truth, Excused
  <2>4. CASE job'[h] = "backend"
    BY <2>1, <2>4, AnswerMade DEF Truth, Excused
  <2>5. CASE job'[h] = "exists" /\ call'[h] = call[h] /\ profile' = profile /\ profile[call[h].user] # None
    <3>1. Truth(h)'
      BY <2>1, <2>5, AnswerMade DEF Truth
    <3>2. ASSUME call[h].key # None, profile[call[h].user] = call[h] PROVE Lapsed(Slot(h))
      <4>1. /\ Slot(h) \in Slots /\ Slot(h)[1] = call[h].user /\ Slot(h)[2] = call[h].key
        BY <1>0, <1>6, <3>2, CreateEnds, Called
      <4>2. Runs(h) /\ job[h] = "queued"
        BY <1>6, <3>2, CreateEnds DEF Runs
      <4>3. Known(Slot(h))
        BY <4>1 DEF KeyInv, Book
      <4>4. QED
        BY <2>5, <3>2, <4>1, <4>2, <4>3 DEF Known
    <3>3. Lapsed(Slot(h)) => Lapsed(Slot(h))'
      BY <1>6, <2>5, CreateEnds DEF Lapsed, Slot
    <3>4. Excused(h)'
      BY <2>5, <3>2, <3>3 DEF Excused
    <3>5. QED
      BY <3>1, <3>4
  <2>6. QED
    BY <1>6, <2>2, <2>3, <2>4, <2>5, CreateEnds
<1>7. CASE Finish(h)
  <2>1. /\ Answer(h, Created(call[h].body)) /\ profile' = profile /\ job[h] = "created"
        /\ call[h].body \in Bodies
    BY <1>0, <1>7, CallFields DEF Finish, Course
  <2>2. /\ answer'[h] = Created(call[h].body) /\ call' = call /\ job'[h] = None
    BY <1>0, <1>7, <2>1, AnswerMade, AnswerShape DEF Finish, Shape
  <2>3. profile[call[h].user] = call[h]
    BY <1>0, <2>1 DEF Truth
  <2>4. Created(call[h].body).body = call[h].body /\ Created(call[h].body) # Told("exists")
    BY <2>1, AnswerMade
  <2>5. QED
    BY <2>1, <2>2, <2>3, <2>4 DEF Truth, Excused, Results
<1>8. CASE Abandon(h)
  <2>1. Failure(h) \in {"invalid", "exists", "backend"} /\ (Failure(h) = "exists" => job[h] = "exists")
        /\ pc[h] \in {"run", "await"}
    BY <1>8 DEF Abandon, Failure
  <2>2. /\ Answer(h, Told(Failure(h))) /\ UNCHANGED <<profile, past>>
    BY <1>8 DEF Abandon
  <2>3. /\ Told(Failure(h)) \in Answers /\ Told(Failure(h)).kind = Failure(h)
        /\ Failure(h) # "exists" => Told(Failure(h)) # Told("exists")
    BY <2>1, AnswerMade
  <2>4. answer'[h] = Told(Failure(h)) /\ call' = call
    BY <1>0, <2>2, <2>3, AnswerShape
  <2>5. job'[h] = None
    BY <1>0, <1>8 DEF Abandon, Shape
  <2>6. Truth(h)'
    BY <1>0, <2>1, <2>2, <2>3, <2>4, <2>5 DEF Truth, Results
  <2>7. Lapsed(Slot(h)) => Lapsed(Slot(h))'
    BY <2>2, <2>4 DEF Lapsed, Slot
  <2>8. Excused(h)'
    BY <1>0, <2>1, <2>2, <2>3, <2>4, <2>5, <2>7 DEF Excused, Results
  <2>9. QED
    BY <2>6, <2>8
<1>9. CASE Return(h)
  <2>1. job'[h] = None /\ answer'[h] = None
    BY <1>0, <1>9 DEF Return, Shape, Course
  <2>2. QED
    BY <1>1, <2>1
<1>10. QED
  BY <1>2, <1>3, <1>4, <1>5, <1>6, <1>7, <1>8, <1>9 DEF Step, Work

-----------------------------------------------------------------------------
(* Key by key.                                                             *)
Same(s) ==
    /\ (entries'[s] = None) = (entries[s] = None)
    /\ entries[s] # None => entries'[s].kind = entries[s].kind /\ entries'[s].body = entries[s].body

RunsOn(g) ==
    Runs(g)' => Runs(g) /\ call'[g] = call[g] /\ (job[g] = "created" => job'[g] = "created")

(* Steps that neither reserve nor settle a key: requests at most stop      *)
(* being at work, and only by being cut off.                               *)
LEMMA Quiet ==
    ASSUME KeyInv, past \subseteq past', profile' = profile,
           \A s \in Slots : Same(s),
           \A g \in Handlers : RunsOn(g),
           \A g \in Handlers : Runs(g) => Runs(g)' \/ <<Slot(g), "cut">> \in past',
           \A g \in Handlers : Runs(g) => Slot(g) \in Slots
    PROVE  /\ \A g \in Handlers : Desk(g)'
           /\ \A s \in Slots : Book(s)'
<1>1. \A s \in Slots : InFlightAt(s)' = InFlightAt(s) /\ CompleteAt(s)' = CompleteAt(s)
  BY DEF Same, InFlightAt, CompleteAt
<1>2. \A s : Lapsed(s) => Lapsed(s)'
  BY DEF Lapsed
<1>3. ASSUME NEW g \in Handlers PROVE Reserved(g)'
  <2>1. SUFFICES ASSUME Runs(g)'
                 PROVE HeldFor(Slot(g), call[g].body)' \/ <<Slot(g)', "inflight">> \in past'
    BY DEF Reserved
  <2>2. Runs(g) /\ call'[g] = call[g] /\ Slot(g)' = Slot(g) /\ Slot(g) \in Slots
    BY <2>1 DEF RunsOn, Slot
  <2>3. HeldFor(Slot(g), call[g].body) \/ <<Slot(g), "inflight">> \in past
    BY <2>2 DEF KeyInv, Desk, Reserved
  <2>4. HeldFor(Slot(g), call[g].body) => HeldFor(Slot(g), call[g].body)'
    BY <2>2 DEF HeldFor, InFlightAt, Same
  <2>5. QED
    BY <2>2, <2>3, <2>4
<1>4. ASSUME NEW g \in Handlers PROVE Alone(g)'
  <2>1. SUFFICES ASSUME NEW f \in Handlers, SameKey(f, g)' PROVE <<Slot(g)', "inflight">> \in past'
    BY DEF Alone
  <2>2. Runs(f)' /\ Runs(g)' /\ f # g /\ Slot(f)' = Slot(g)'
    BY <2>1 DEF SameKey
  <2>3. Runs(f) /\ Runs(g) /\ Slot(f) = Slot(g) /\ Slot(g)' = Slot(g)
    BY <2>2 DEF RunsOn, Slot
  <2>4. SameKey(f, g)
    BY <2>2, <2>3 DEF SameKey
  <2>5. QED
    BY <2>3, <2>4 DEF KeyInv, Desk, Alone
<1>5. ASSUME NEW s \in Slots PROVE Owned(s)'
  <2>1. SUFFICES ASSUME InFlightAt(s)
                 PROVE (\E g \in Handlers : Runs(g)' /\ Slot(g)' = s) \/ <<s, "cut">> \in past'
    BY <1>1 DEF Owned
  <2>2. CASE <<s, "cut">> \in past
    BY <2>2
  <2>3. CASE \E g \in Handlers : Runs(g) /\ Slot(g) = s
    <3>1. PICK g \in Handlers : Runs(g) /\ Slot(g) = s
      BY <2>3
    <3>2. CASE Runs(g)'
      BY <3>1, <3>2 DEF RunsOn, Slot
    <3>3. CASE <<Slot(g), "cut">> \in past'
      BY <3>1, <3>3
    <3>4. QED
      BY <3>1, <3>2, <3>3
  <2>4. QED
    BY <2>1, <2>2, <2>3 DEF KeyInv, Book, Owned
<1>6. ASSUME NEW s \in Slots PROVE Recorded(s)'
  BY <1>1 DEF KeyInv, Book, Recorded, Same, CompleteAt
<1>7. ASSUME NEW s \in Slots PROVE Known(s)'
  <2>1. SUFFICES ASSUME profile[s[1]] # None, profile[s[1]].key = s[2], ~Lapsed(s)
                 PROVE  /\ entries'[s] # None /\ entries'[s].body = profile[s[1]].body
                        /\ \A g \in Handlers : Runs(g)' /\ Slot(g)' = s => job'[g] = "created"
    BY <1>2 DEF Known
  <2>2. /\ entries[s] # None /\ entries[s].body = profile[s[1]].body
        /\ \A g \in Handlers : Runs(g) /\ Slot(g) = s => job[g] = "created"
    BY <2>1 DEF KeyInv, Book, Known
  <2>3. entries'[s] # None /\ entries'[s].body = profile[s[1]].body
    BY <2>2 DEF Same
  <2>4. \A g \in Handlers : Runs(g)' /\ Slot(g)' = s => job'[g] = "created"
    BY <2>2 DEF RunsOn, Slot
  <2>5. QED
    BY <2>3, <2>4
<1>8. QED
  BY <1>3, <1>4, <1>5, <1>6, <1>7 DEF Desk, Book

LEMMA RunnersCalled ==
    ASSUME KeyInv, NEW g \in Handlers, Runs(g)
    PROVE  /\ Slot(g) \in Slots /\ Slot(g)[1] = call[g].user /\ Slot(g)[2] = call[g].key
           /\ call[g] \in Calls /\ call[g].key # None
BY Called DEF Runs, KeyInv, Way

LEMMA OthersRun ==
    ASSUME KeyInv, NEW h \in Handlers, Step(h), NEW g \in Handlers, g # h
    PROVE  /\ Runs(g)' = Runs(g) /\ Slot(g)' = Slot(g) /\ job'[g] = job[g]
           /\ pc'[g] = pc[g] /\ call'[g] = call[g]
<1>1. Row(g)' = Row(g)
  BY OthersAlone DEF KeyInv
<1>2. QED
  BY <1>1 DEF Row, Runs, Slot

LEMMA QuietStep ==
    ASSUME KeyInv, NEW h \in Handlers, Step(h), entries' = entries, profile' = profile,
           RunsOn(h), Runs(h) => Runs(h)' \/ <<Slot(h), "cut">> \in past'
    PROVE  /\ \A g \in Handlers : Desk(g)'
           /\ \A s \in Slots : Book(s)'
<1>1. past \subseteq past'
  BY NothingUndone DEF KeyInv
<1>2. \A s \in Slots : Same(s)
  BY DEF Same
<1>3. \A g \in Handlers : RunsOn(g)
  BY OthersRun DEF RunsOn
<1>4. \A g \in Handlers : Runs(g) => Runs(g)' \/ <<Slot(g), "cut">> \in past'
  BY OthersRun
<1>5. \A g \in Handlers : Runs(g) => Slot(g) \in Slots
  BY RunnersCalled
<1>6. QED
  BY <1>1, <1>2, <1>3, <1>4, <1>5, Quiet

LEMMA QuietSteps ==
    ASSUME KeyInv, NEW h \in Handlers, Arrive(h) \/ HangUp(h) \/ Submit(h) \/ Return(h)
    PROVE  /\ \A g \in Handlers : Desk(g)'
           /\ \A s \in Slots : Book(s)'
<1>0. Shape /\ Course(h) /\ Step(h)
  BY DEF KeyInv, Way, Step, Work
<1>1. entries' = entries /\ profile' = profile
  BY DEF Arrive, HangUp, Submit, Return, idempotency
<1>2. CASE Arrive(h)
  <2>1. ~Runs(h) /\ ~Runs(h)'
    <3>1. PICK c \in Calls : call' = [call EXCEPT ![h] = c] /\ Go(h, IF c.key = None THEN "run" ELSE "begin")
      BY <1>2 DEF Arrive
    <3>2. call'[h] = c /\ pc'[h] = (IF c.key = None THEN "run" ELSE "begin") /\ pc[h] = "idle"
      BY <1>0, <1>2, <3>1 DEF Arrive, Go, Shape
    <3>3. QED
      BY <3>2 DEF Runs
  <2>2. QED
    BY <1>0, <1>1, <2>1, QuietStep DEF RunsOn
<1>3. CASE HangUp(h)
  <2>1. RunsOn(h)
    BY <1>0, <1>3 DEF HangUp, Go, Shape, RunsOn, Runs, Slot
  <2>2. Runs(h) => <<Slot(h), "cut">> \in past'
    BY <1>3 DEF HangUp, Runs
  <2>3. QED
    BY <1>0, <1>1, <2>1, <2>2, QuietStep
<1>4. CASE Submit(h)
  <2>1. pc[h] = "run" /\ pc'[h] = "await" /\ call'[h] = call[h] /\ job[h] = None
    BY <1>0, <1>4 DEF Submit, Go, Shape, Course
  <2>2. RunsOn(h) /\ (Runs(h) => Runs(h)')
    BY <2>1, NoneIsNothing DEF RunsOn, Runs, Slot, Results
  <2>3. QED
    BY <1>0, <1>1, <2>2, QuietStep
<1>5. CASE Return(h)
  <2>1. ~Runs(h) /\ ~Runs(h)'
    BY <1>0, <1>5 DEF Return, Go, Shape, Runs
  <2>2. QED
    BY <1>0, <1>1, <2>1, QuietStep DEF RunsOn
<1>6. QED
  BY <1>2, <1>3, <1>4, <1>5

LEMMA QuietTick ==
    ASSUME KeyInv, Tick
    PROVE  /\ Shape'
           /\ \A g \in Handlers : Way(g)' /\ Desk(g)'
           /\ \A s \in Slots : Book(s)'
<1>0. Shape
  BY DEF KeyInv
<1>1. /\ UNCHANGED <<profile, pc, call, answer, job, past>>
  BY DEF Tick, handler
<1>2. ASSUME NEW s \in Slots
      PROVE  entries'[s] \in Entries \cup {None} /\ Same(s)
  <2>1. CASE entries[s] = None
    BY <2>1 DEF Tick, Same
  <2>2. CASE entries[s] # None
    <3>1. entries[s] \in Entries
      BY <1>0, <2>2 DEF Shape
    <3>2. Older(entries[s].age, Retention) \in 0..Retention
      BY <3>1, WindowsAssumption DEF Entries, Older
    <3>3. entries'[s] = [entries[s] EXCEPT !.age = Older(entries[s].age, Retention)]
      BY <2>2 DEF Tick
    <3>4. /\ entries'[s] \in Entries /\ entries'[s].kind = entries[s].kind
          /\ entries'[s].body = entries[s].body
      BY <3>1, <3>2, <3>3 DEF Entries
    <3>5. QED
      BY <2>2, <3>4, NoneIsNothing DEF Same
  <2>3. QED
    BY <2>1, <2>2
<1>3. entries' \in [Slots -> Entries \cup {None}]
  BY <1>2 DEF Tick
<1>4. held' \in [Handlers -> 0..ReservationTimeout]
  BY <1>0, WindowsAssumption DEF Tick, Older, Shape
<1>5. Shape'
  BY <1>0, <1>1, <1>3, <1>4 DEF Shape
<1>6. ASSUME NEW g \in Handlers PROVE Way(g)'
  <2>1. Row(g)' = Row(g)
    BY <1>1 DEF Row
  <2>2. QED
    BY <1>1, <2>1, RowAlone DEF KeyInv
<1>7. \A g \in Handlers : RunsOn(g) /\ (Runs(g) => Runs(g)')
  BY <1>1 DEF RunsOn, Runs, Slot
<1>8. QED
  BY <1>1, <1>2, <1>5, <1>6, <1>7, RunnersCalled, Quiet

-----------------------------------------------------------------------------
LEMMA BeginKeeps ==
    ASSUME KeyInv, Shape', NEW h \in Handlers, Begin(h)
    PROVE  /\ \A g \in Handlers : Desk(g)'
           /\ \A s \in Slots : Book(s)'
<1> DEFINE own == Slot(h)
<1>0. Shape /\ Step(h) /\ pc[h] = "begin" /\ own \in Slots /\ profile' = profile /\ ~Runs(h)
  BY BeginAnswers DEF KeyInv, Step, Work, Runs
<1>1. \A s \in Slots : s \in Gone => <<s, entries[s].kind>> \in past'
  BY DEF Begin
<1>2. past \subseteq past' /\ \A s : Lapsed(s) => Lapsed(s)'
  BY DEF Begin, Lapsed
<1>3. \A s \in Slots : s \in Gone => Lapsed(s)'
  <2>1. \A s \in Gone : entries[s].kind \in {"inflight", "complete"}
    BY <1>0, NoneIsNothing DEF Gone, Shape, Entries
  <2>2. QED
    BY <1>1, <2>1 DEF Lapsed
(* A slot keeps its entry, loses it because it has run out, or is reserved.*)
<1>4. ASSUME NEW s \in Slots
      PROVE  \/ entries'[s] = entries[s] /\ s \notin Gone
             \/ entries'[s] = None /\ s \in Gone
             \/ /\ s = own /\ Kept[s] = None /\ Runs(h)' /\ Slot(h)' = s
                /\ HeldFor(s, call[h].body)'
  <2>1. \/ Kept[s] = entries[s] /\ s \notin Gone
        \/ Kept[s] = None /\ s \in Gone
    BY <1>0, Expired
  <2>2. CASE entries' = Kept
    BY <2>1, <2>2
  <2>3. CASE /\ Kept[own] = None /\ entries' = [Kept EXCEPT ![own] = InFlight(call[h].body)]
             /\ Go(h, "run") /\ UNCHANGED <<call, answer, held>>
    <3>1. CASE s # own
      BY <1>0, <2>1, <2>3, <3>1, KeptShape
    <3>2. CASE s = own
      <4>1. entries'[s] = InFlight(call[h].body) /\ call[h].body \in Bodies
        BY <1>0, <2>3, <3>2, KeptShape, BeginAnswers, CallFields
      <4>2. InFlightAt(s)' /\ entries'[s].body = call[h].body
        BY <4>1, EntryMade DEF InFlightAt
      <4>3. Slot(h)' = own /\ call'[h] = call[h] /\ pc'[h] = "run"
        BY <1>0, <2>3 DEF Slot, Go, Shape
      <4>4. Runs(h)'
        BY <1>0, <4>3 DEF Runs, KeyInv, Way, Course
      <4>5. QED
        BY <2>3, <3>2, <4>2, <4>3, <4>4 DEF HeldFor
    <3>3. QED
      BY <3>1, <3>2
  <2>4. QED
    BY <2>2, <2>3, BeginAnswers
<1>5. Runs(h)' => Slot(h)' = own /\ Kept[own] = None /\ HeldFor(own, call[h].body)'
  <2>1. CASE \E told \in Answers : Answer(h, told)
    BY <1>0, <2>1, AnswerShape DEF Runs
  <2>2. CASE /\ Kept[own] = None /\ UNCHANGED call
             /\ entries' = [Kept EXCEPT ![own] = InFlight(call[h].body)]
    <3>1. Slot(h)' = own /\ call'[h] = call[h] /\ call[h].body \in Bodies
      BY <2>2, BeginAnswers, CallFields DEF Slot
    <3>2. entries'[own] = InFlight(call[h].body)
      BY <1>0, <2>2, KeptShape
    <3>3. QED
      BY <2>2, <3>1, <3>2, EntryMade DEF HeldFor, InFlightAt
  <2>3. QED
    BY <2>1, <2>2, BeginAnswers
<1>6. ASSUME NEW g \in Handlers, g # h, Runs(g)
      PROVE  HeldFor(Slot(g), call[g].body)' \/ <<Slot(g), "inflight">> \in past'
  <2> DEFINE s == Slot(g)
  <2>1. s \in Slots /\ Slot(g)' = Slot(g) /\ call'[g] = call[g]
    BY <1>0, <1>6, RunnersCalled, OthersRun
  <2>2. HeldFor(s, call[g].body) \/ <<s, "inflight">> \in past
    BY <1>6 DEF KeyInv, Desk, Reserved
  <2>3. CASE <<s, "inflight">> \in past
    BY <1>2, <2>3
  <2>4. CASE HeldFor(s, call[g].body)
    <3>1. entries[s] # None /\ entries[s].kind = "inflight"
      BY <2>4 DEF HeldFor, InFlightAt
    <3>2. CASE entries'[s] = entries[s]
      BY <2>1, <2>4, <3>2 DEF HeldFor, InFlightAt
    <3>3. CASE s \in Gone
      BY <1>1, <2>1, <3>1, <3>3
    <3>4. CASE Kept[s] = None
      BY <1>0, <2>1, <3>1, <3>3, <3>4, Expired
    <3>5. QED
      BY <1>4, <2>1, <3>2, <3>3, <3>4
  <2>5. QED
    BY <2>2, <2>3, <2>4
<1>7. ASSUME NEW g \in Handlers PROVE Reserved(g)'
  <2>1. CASE g # h
    BY <1>0, <1>6, <2>1, OthersRun DEF Reserved
  <2>2. CASE g = h
    <3>1. ASSUME Runs(h)' PROVE call'[h] = call[h]
      BY <1>0 DEF Begin, Answer
    <3>2. QED
      BY <1>5, <2>2, <3>1 DEF Reserved, HeldFor, InFlightAt
  <2>3. QED
    BY <2>1, <2>2
(* Who finds the key free while another is at work on it, finds it so      *)
(* because the other's reservation has run out.                            *)
<1>8. ASSUME NEW g \in Handlers, g # h, Runs(g), Slot(g) = own, Runs(h)'
      PROVE  <<own, "inflight">> \in past'
  <2>1. InFlightAt(own) \/ <<own, "inflight">> \in past
    BY <1>8 DEF KeyInv, Desk, Reserved, HeldFor
  <2>2. CASE InFlightAt(own)
    <3>1. own \in Gone
      BY <1>0, <1>5, <1>8, <2>2, Expired DEF InFlightAt
    <3>2. QED
      BY <1>0, <1>1, <2>2, <3>1 DEF InFlightAt
  <2>3. QED
    BY <1>2, <2>1, <2>2
<1>9. ASSUME NEW g \in Handlers PROVE Alone(g)'
  <2>1. SUFFICES ASSUME NEW f \in Handlers, SameKey(f, g)' PROVE <<Slot(g)', "inflight">> \in past'
    BY DEF Alone
  <2>2. Runs(f)' /\ Runs(g)' /\ f # g /\ Slot(f)' = Slot(g)'
    BY <2>1 DEF SameKey
  <2>3. CASE f # h /\ g # h
    <3>1. SameKey(f, g) /\ Slot(g)' = Slot(g)
      BY <1>0, <2>2, <2>3, OthersRun DEF SameKey
    <3>2. QED
      BY <1>2, <3>1 DEF KeyInv, Desk, Alone
  <2>4. CASE f = h
    BY <1>0, <1>5, <1>8, <2>2, <2>4, OthersRun
  <2>5. CASE g = h
    BY <1>0, <1>5, <1>8, <2>2, <2>5, OthersRun
  <2>6. QED
    BY <2>3, <2>4, <2>5
<1>10. ASSUME NEW s \in Slots PROVE Owned(s)'
  <2>1. SUFFICES ASSUME InFlightAt(s)'
                 PROVE (\E g \in Handlers : Runs(g)' /\ Slot(g)' = s) \/ <<s, "cut">> \in past'
    BY DEF Owned
  <2>2. CASE entries'[s] = entries[s]
    <3>1. InFlightAt(s)
      BY <2>1, <2>2 DEF InFlightAt
    <3>2. CASE \E g \in Handlers : Runs(g) /\ Slot(g) = s
      BY <1>0, <3>2, OthersRun
    <3>3. QED
      BY <1>2, <3>1, <3>2 DEF KeyInv, Book, Owned
  <2>3. QED
    BY <1>4, <2>1, <2>2 DEF InFlightAt
<1>11. ASSUME NEW s \in Slots PROVE Recorded(s)'
  <2>1. SUFFICES ASSUME CompleteAt(s)'
                 PROVE profile[s[1]] = [user |-> s[1], key |-> s[2], body |-> entries'[s].body]
    BY <1>0 DEF Recorded
  <2>2. entries'[s] = entries[s]
    BY <1>4, <2>1 DEF CompleteAt, InFlightAt, HeldFor
  <2>3. QED
    BY <2>1, <2>2 DEF CompleteAt, KeyInv, Book, Recorded
<1>12. ASSUME NEW s \in Slots PROVE Known(s)'
  <2>1. SUFFICES ASSUME profile[s[1]] # None, profile[s[1]].key = s[2], ~Lapsed(s)'
                 PROVE  /\ entries'[s] # None /\ entries'[s].body = profile[s[1]].body
                        /\ \A g \in Handlers : Runs(g)' /\ Slot(g)' = s => job'[g] = "created"
    BY <1>0 DEF Known
  <2>2. /\ entries[s] # None /\ entries[s].body = profile[s[1]].body
        /\ \A g \in Handlers : Runs(g) /\ Slot(g) = s => job[g] = "created"
    BY <1>2, <2>1 DEF KeyInv, Book, Known
  <2>3. s \notin Gone
    BY <1>3, <2>1
  <2>4. Kept[s] = entries[s]
    BY <1>0, <2>3, Expired
  <2>5. entries'[s] = entries[s]
    BY <1>4, <2>2, <2>3, <2>4
  <2>6. ASSUME NEW g \in Handlers, Runs(g)', Slot(g)' = s PROVE job'[g] = "created"
    <3>1. g # h
      BY <1>5, <2>2, <2>4, <2>6
    <3>2. QED
      BY <1>0, <2>2, <2>6, <3>1, OthersRun
  <2>7. QED
    BY <2>2, <2>5, <2>6
<1>13. QED
  BY <1>7, <1>9, <1>10, <1>11, <1>12 DEF Desk, Book

(* The create itself touches no key, and if it was the one that made the   *)
(* profile, nobody else is at work on its key.                             *)
LEMMA CreateKeeps ==
    ASSUME KeyInv, NEW h \in Handlers, Create(h)
    PROVE  /\ \A g \in Handlers : Desk(g)'
           /\ \A s \in Slots : Book(s)'
<1>0. /\ Shape /\ Step(h) /\ past' = past /\ entries' = entries
      /\ job[h] = "queued" /\ pc[h] \in {"await", "cut"} /\ call[h] \in Calls /\ call[h].user \in Users
  BY CreateEnds DEF KeyInv, Step, Work
<1>1. \/ ~Runs(h)'
      \/ pc'[h] = "await" /\ (Runs(h)' = Runs(h)) /\ Slot(h)' = Slot(h)
  BY <1>0, CreateEnds DEF Runs, Slot
<1>2. \A g \in Handlers : Runs(g)' => Runs(g) /\ Slot(g)' = Slot(g)
  BY <1>0, <1>1, OthersRun
<1>3. \A u \in Users : profile[u] # None => profile'[u] = profile[u]
  BY <1>0, NothingUndone
<1>4. ASSUME NEW g \in Handlers PROVE Desk(g)'
  <2>1. Runs(g)' => call'[g] = call[g]
    BY <1>0, <1>1, OthersRun, CreateEnds DEF Runs
  <2>2. Reserved(g)'
    BY <1>0, <1>2, <2>1 DEF KeyInv, Desk, Reserved, HeldFor, InFlightAt
  <2>3. Alone(g)'
    BY <1>0, <1>2 DEF KeyInv, Desk, Alone, SameKey
  <2>4. QED
    BY <2>2, <2>3 DEF Desk
<1>5. ASSUME NEW s \in Slots PROVE Owned(s)'
  <2>1. SUFFICES ASSUME InFlightAt(s)
                 PROVE (\E g \in Handlers : Runs(g)' /\ Slot(g)' = s) \/ <<s, "cut">> \in past
    BY <1>0 DEF Owned, InFlightAt
  <2>2. CASE \E g \in Handlers : Runs(g) /\ Slot(g) = s
    <3>1. PICK g \in Handlers : Runs(g) /\ Slot(g) = s
      BY <2>2
    <3>2. CASE g # h
      BY <1>0, <3>1, <3>2, OthersRun
    <3>3. CASE g = h /\ pc[h] = "cut"
      BY <3>1, <3>3 DEF KeyInv, Way, Course, Runs
    <3>4. CASE g = h /\ pc[h] = "await"
      <4>1. pc'[h] = "await"
        BY <1>0, <3>4 DEF Create, Deliver
      <4>2. Runs(h)'
        BY <1>0, <3>1, <3>4, <4>1, CreateEnds DEF Runs
      <4>3. QED
        BY <1>2, <3>1, <3>4, <4>2
    <3>5. QED
      BY <1>0, <3>2, <3>3, <3>4
  <2>3. QED
    BY <2>1, <2>2 DEF KeyInv, Book, Owned
<1>6. ASSUME NEW s \in Slots PROVE Recorded(s)'
  <2>1. SUFFICES ASSUME CompleteAt(s)
                 PROVE profile'[s[1]] = [user |-> s[1], key |-> s[2], body |-> entries[s].body]
    BY <1>0 DEF Recorded, CompleteAt
  <2>2. profile[s[1]] = [user |-> s[1], key |-> s[2], body |-> entries[s].body]
    BY <2>1 DEF KeyInv, Book, Recorded
  <2>3. entries[s].body \in Bodies /\ s[1] \in Users /\ s[2] \in Keys
    BY <1>0, <2>1 DEF CompleteAt, Shape, Entries, Slots
  <2>4. profile[s[1]] \in Calls
    BY <2>2, <2>3 DEF Calls
  <2>5. QED
    BY <1>3, <2>2, <2>3, <2>4, NoneIsNothing
<1>7. ASSUME NEW s \in Slots PROVE Known(s)'
  <2>1. SUFFICES ASSUME profile'[s[1]] # None, profile'[s[1]].key = s[2], ~Lapsed(s)
                 PROVE  /\ entries[s] # None /\ entries[s].body = profile'[s[1]].body
                        /\ \A g \in Handlers : Runs(g)' /\ Slot(g)' = s => job'[g] = "created"
    BY <1>0 DEF Known, Lapsed
  <2>2. s[1] \in Users /\ s[2] \in Keys /\ s = <<s[1], s[2]>>
    BY DEF Slots
  <2>3. CASE profile[s[1]] # None
    <3>1. profile'[s[1]] = profile[s[1]]
      BY <1>3, <2>2, <2>3
    <3>2. /\ entries[s] # None /\ entries[s].body = profile[s[1]].body
          /\ \A g \in Handlers : Runs(g) /\ Slot(g) = s => job[g] = "created"
      BY <2>1, <2>3, <3>1 DEF KeyInv, Book, Known
    <3>3. ~(Runs(h) /\ Slot(h) = s)
      BY <1>0, <3>2
    <3>4. ASSUME NEW g \in Handlers, Runs(g)', Slot(g)' = s PROVE job'[g] = "created"
      <4>1. Runs(g) /\ Slot(g) = s
        BY <1>2, <3>4
      <4>2. g # h
        BY <3>3, <4>1
      <4>3. QED
        BY <1>0, <3>2, <4>1, <4>2, OthersRun
    <3>5. QED
      BY <3>1, <3>2, <3>4
  <2>4. CASE profile[s[1]] = None
    <3>1. /\ s[1] = call[h].user /\ profile'[s[1]] = call[h]
          /\ pc'[h] = "idle" \/ job'[h] = "created"
      BY <1>0, <2>1, <2>2, <2>4, CreateEnds DEF Shape
    <3>2. s = Slot(h) /\ Runs(h)
      BY <1>0, <2>1, <2>2, <3>1, NoneIsNothing DEF Slot, Runs
    <3>3. <<s, "inflight">> \notin past
      BY <2>1 DEF Lapsed
    <3>4. entries[s] # None /\ entries[s].body = profile'[s[1]].body
      BY <3>1, <3>2, <3>3 DEF KeyInv, Desk, Reserved, HeldFor, InFlightAt
    <3>5. ASSUME NEW g \in Handlers, Runs(g)', Slot(g)' = s PROVE job'[g] = "created"
      <4>1. Runs(g) /\ Slot(g) = s
        BY <1>2, <3>5
      <4>2. CASE g # h
        <5>1. SameKey(g, h)
          BY <3>2, <4>1, <4>2 DEF SameKey
        <5>2. QED
          BY <3>2, <3>3, <5>1 DEF KeyInv, Desk, Alone
      <4>3. CASE g = h
        BY <3>1, <3>5, <4>3 DEF Runs
      <4>4. QED
        BY <4>2, <4>3
    <3>6. QED
      BY <3>4, <3>5
  <2>5. QED
    BY <2>3, <2>4
<1>8. QED
  BY <1>4, <1>5, <1>6, <1>7 DEF Book

(* The two that settle a key: another request at work on the same one      *)
(* means that a reservation of it has run out.                             *)
LEMMA SettlesOwn ==
    ASSUME KeyInv, NEW h \in Handlers, Step(h), UNCHANGED <<profile, past>>, ~Runs(h)',
           \A s \in Slots : ~(Runs(h) /\ Slot(h) = s) => entries'[s] = entries[s]
    PROVE  /\ \A g \in Handlers : Desk(g)'
           /\ \A s \in Slots : ~(Runs(h) /\ Slot(h) = s) => Book(s)'
<1>1. \A g \in Handlers : Runs(g)' => g # h /\ Runs(g) /\ Slot(g)' = Slot(g) /\ job'[g] = job[g]
  BY OthersRun
<1>2. ASSUME NEW g \in Handlers PROVE Reserved(g)'
  <2>1. SUFFICES ASSUME Runs(g)'
                 PROVE HeldFor(Slot(g), call[g].body)' \/ <<Slot(g), "inflight">> \in past
    BY <1>1 DEF Reserved
  <2>2. g # h /\ Runs(g) /\ Slot(g)' = Slot(g) /\ call'[g] = call[g] /\ Slot(g) \in Slots
    BY <1>1, <2>1, RunnersCalled, OthersRun
  <2>3. CASE Runs(h) /\ Slot(h) = Slot(g)
    BY <2>2, <2>3 DEF KeyInv, Desk, Alone, SameKey
  <2>4. CASE ~(Runs(h) /\ Slot(h) = Slot(g))
    BY <2>2, <2>4 DEF KeyInv, Desk, Reserved, HeldFor, InFlightAt
  <2>5. QED
    BY <2>3, <2>4
<1>3. ASSUME NEW g \in Handlers PROVE Alone(g)'
  BY <1>1 DEF KeyInv, Desk, Alone, SameKey
<1>4. ASSUME NEW s \in Slots, ~(Runs(h) /\ Slot(h) = s) PROVE Book(s)'
  <2>1. entries'[s] = entries[s]
    BY <1>4
  <2>2. Owned(s)'
    <3>1. SUFFICES ASSUME InFlightAt(s)
                   PROVE (\E g \in Handlers : Runs(g)' /\ Slot(g)' = s) \/ <<s, "cut">> \in past
      BY <2>1 DEF Owned, InFlightAt
    <3>2. CASE \E g \in Handlers : Runs(g) /\ Slot(g) = s
      BY <1>4, <3>2, OthersRun
    <3>3. QED
      BY <3>1, <3>2 DEF KeyInv, Book, Owned
  <2>3. Recorded(s)'
    BY <2>1 DEF KeyInv, Book, Recorded, CompleteAt
  <2>4. Known(s)'
    BY <1>1, <2>1 DEF KeyInv, Book, Known, Lapsed
  <2>5. QED
    BY <2>2, <2>3, <2>4 DEF Book
<1>5. QED
  BY <1>2, <1>3, <1>4 DEF Desk

LEMMA FinishKeeps ==
    ASSUME KeyInv, NEW h \in Handlers, Finish(h)
    PROVE  /\ \A g \in Handlers : Desk(g)'
           /\ \A s \in Slots : Book(s)'
<1>0. /\ Shape /\ Step(h) /\ UNCHANGED <<profile, past>> /\ pc[h] = "await" /\ job[h] = "created"
      /\ call[h] \in Calls /\ profile[call[h].user] = call[h] /\ Runs(h) = (call[h].key # None)
  BY Called DEF Finish, KeyInv, Way, Course, Truth, Step, Work, Runs
<1>1. ~Runs(h)'
  <2>1. Created(call[h].body) \in Answers
    BY <1>0, CallFields, AnswerMade
  <2>2. Answer(h, Created(call[h].body))
    BY DEF Finish
  <2>3. pc'[h] = "answer"
    BY <1>0, <2>1, <2>2, AnswerShape
  <2>4. QED
    BY <2>3 DEF Runs
<1>2. \A s \in Slots : ~(Runs(h) /\ Slot(h) = s) => entries'[s] = entries[s]
  BY <1>0 DEF Finish, Shape
<1>3. /\ \A g \in Handlers : Desk(g)'
      /\ \A s \in Slots : ~(Runs(h) /\ Slot(h) = s) => Book(s)'
  BY <1>0, <1>1, <1>2, SettlesOwn
<1>4. ASSUME NEW s \in Slots, Runs(h), Slot(h) = s PROVE Book(s)'
  <2>1. s[1] = call[h].user /\ s[2] = call[h].key /\ call[h].body \in Bodies
    BY <1>0, <1>4, RunnersCalled, CallFields
  <2>2. entries'[s] = Complete(call[h].body)
    BY <1>0, <1>4 DEF Finish, Shape
  <2>3. /\ entries'[s] # None /\ entries'[s].kind = "complete"
        /\ entries'[s].body = call[h].body
    BY <2>1, <2>2, EntryMade
  <2>4. Owned(s)'
    BY <2>3 DEF Owned, InFlightAt
  <2>5. Recorded(s)'
    BY <1>0, <2>1, <2>3, CallFields DEF Recorded
  <2>6. Known(s)'
    <3>1. SUFFICES ASSUME ~Lapsed(s), NEW g \in Handlers, Runs(g)', Slot(g)' = s PROVE FALSE
      BY <1>0, <2>1, <2>3 DEF Known, Lapsed
    <3>2. g # h /\ Runs(g) /\ Slot(g) = s
      BY <1>0, <1>1, <3>1, OthersRun
    <3>3. QED
      BY <1>4, <3>1, <3>2 DEF KeyInv, Desk, Alone, SameKey, Lapsed
  <2>7. QED
    BY <2>4, <2>5, <2>6 DEF Book
<1>5. QED
  BY <1>3, <1>4

LEMMA AbandonKeeps ==
    ASSUME KeyInv, NEW h \in Handlers, Abandon(h)
    PROVE  /\ \A g \in Handlers : Desk(g)'
           /\ \A s \in Slots : Book(s)'
<1>0. /\ Shape /\ Step(h) /\ UNCHANGED <<profile, past>> /\ pc[h] \in {"run", "await"}
      /\ job[h] # "created" /\ call[h] \in Calls /\ Runs(h) = (call[h].key # None)
      /\ Failure(h) \in {"invalid", "exists", "backend"}
  BY Called, NoneIsNothing DEF Abandon, Failure, KeyInv, Way, Course, Step, Work, Runs, Results
<1>1. ~Runs(h)'
  <2>1. Told(Failure(h)) \in Answers
    BY <1>0, AnswerMade
  <2>2. Answer(h, Told(Failure(h)))
    BY DEF Abandon
  <2>3. pc'[h] = "answer"
    BY <1>0, <2>1, <2>2, AnswerShape
  <2>4. QED
    BY <2>3 DEF Runs
<1>2. \A s \in Slots : ~(Runs(h) /\ Slot(h) = s) => entries'[s] = entries[s]
  BY <1>0 DEF Abandon, Shape
<1>3. /\ \A g \in Handlers : Desk(g)'
      /\ \A s \in Slots : ~(Runs(h) /\ Slot(h) = s) => Book(s)'
  BY <1>0, <1>1, <1>2, SettlesOwn
<1>4. ASSUME NEW s \in Slots, Runs(h), Slot(h) = s PROVE Book(s)'
  <2>1. IF InFlightAt(s) THEN entries'[s] = None ELSE entries'[s] = entries[s]
    BY <1>0, <1>4 DEF Abandon, Releases, InFlightAt, Shape
  <2>2. Owned(s)'
    BY <2>1 DEF Owned, InFlightAt
  <2>3. Recorded(s)'
    BY <1>0, <2>1 DEF KeyInv, Book, Recorded, CompleteAt
  (* Had its own request created the profile, it would not have failed.    *)
  <2>4. Known(s)'
    BY <1>0, <1>4 DEF KeyInv, Book, Known, Lapsed
  <2>5. QED
    BY <2>2, <2>3, <2>4 DEF Book
<1>5. QED
  BY <1>3, <1>4

LEMMA StepKey == KeyInv /\ [Next]_vars => KeyInv'
<1> SUFFICES ASSUME KeyInv, [Next]_vars PROVE KeyInv'
  OBVIOUS
<1>1. CASE UNCHANGED vars
  <2>1. Shape'
    BY <1>1 DEF vars, KeyInv, Shape
  <2>2. ASSUME NEW g \in Handlers PROVE Way(g)'
    <3>1. Row(g)' = Row(g) /\ past' = past /\ profile' = profile
      BY <1>1 DEF vars, Row
    <3>2. QED
      BY <3>1, RowAlone DEF KeyInv
  <2>3. \A s \in Slots : Same(s)
    BY <1>1 DEF vars, Same
  <2>4. \A g \in Handlers : RunsOn(g) /\ (Runs(g) => Runs(g)')
    BY <1>1 DEF vars, RunsOn, Runs, Slot
  <2>5. past' = past /\ profile' = profile
    BY <1>1 DEF vars
  <2>6. /\ \A g \in Handlers : Desk(g)'
        /\ \A s \in Slots : Book(s)'
    BY <2>3, <2>4, <2>5, RunnersCalled, Quiet
  <2>7. QED
    BY <2>1, <2>2, <2>6 DEF KeyInv
<1>2. CASE Tick
  BY <1>2, QuietTick DEF KeyInv
<1>3. ASSUME NEW h \in Handlers, Step(h) PROVE KeyInv'
  <2>1. Shape'
    BY <1>3, StepShape
  <2>2. ASSUME NEW g \in Handlers PROVE Way(g)'
    <3>1. CASE g = h
      BY <1>3, <3>1, StepCourse, StepTruth DEF Way
    <3>2. CASE g # h
      BY <1>3, <3>2, OthersAlone, NothingUndone, RowAlone DEF KeyInv
    <3>3. QED
      BY <3>1, <3>2
  <2>3. /\ \A g \in Handlers : Desk(g)'
        /\ \A s \in Slots : Book(s)'
    <3>1. CASE Arrive(h) \/ HangUp(h) \/ Submit(h) \/ Return(h)
      BY <3>1, QuietSteps
    <3>2. CASE Begin(h)
      BY <2>1, <3>2, BeginKeeps
    <3>3. CASE Create(h)
      BY <3>3, CreateKeeps
    <3>4. CASE Finish(h)
      BY <3>4, FinishKeeps
    <3>5. CASE Abandon(h)
      BY <3>5, AbandonKeeps
    <3>6. QED
      BY <1>3, <3>1, <3>2, <3>3, <3>4, <3>5 DEF Step, Work
  <2>4. QED
    BY <2>1, <2>2, <2>3 DEF KeyInv
<1>4. QED
  BY <1>1, <1>2, <1>3 DEF Next, Step

THEOREM KeyInvariant == Spec => []KeyInv
BY InitKey, StepKey, PTL DEF Spec

-----------------------------------------------------------------------------
LEMMA KeyTypes == KeyInv => TypeOK
<1> SUFFICES ASSUME KeyInv PROVE TypeOK
  OBVIOUS
<1>1. Shape
  BY DEF KeyInv
<1>2. ASSUME NEW h \in Handlers
      PROVE  /\ call[h] \in (IF pc[h] = "idle" THEN {None} ELSE Calls)
             /\ job[h] \in CASE pc[h] = "await" -> {"queued", "created", "exists", "backend"}
                             [] pc[h] = "cut" -> {"queued"}
                             [] OTHER -> {None}
             /\ (answer[h] # None) = (pc[h] = "answer")
  <2>1. Course(h)
    BY DEF KeyInv, Way
  <2>2. call[h] \in (IF pc[h] = "idle" THEN {None} ELSE Calls)
    BY <1>1, <2>1 DEF Shape, Course
  <2>3. job[h] \in Results \cup {None}
    BY <1>1 DEF Shape
  <2>4. QED
    BY <2>1, <2>2, <2>3 DEF Course, Results
<1>3. QED
  BY <1>1, <1>2 DEF Shape, TypeOK

(* The variables keep to their types.                                      *)
THEOREM Typing == Spec => []TypeOK
BY KeyInvariant, KeyTypes, PTL

LEMMA KeyAlone == KeyInv => OneRunUntilLapse
BY DEF KeyInv, Desk, Alone, OneRunUntilLapse

(* Two requests with one key are at work at once only after a reservation  *)
(* of that key has run out.                                                *)
THEOREM OneRun == Spec => []OneRunUntilLapse
BY KeyInvariant, KeyAlone, PTL

LEMMA KeyOwned == KeyInv => ReservationHasOwner
BY DEF KeyInv, Book, Owned, InFlightAt, ReservationHasOwner

(* No reservation is left behind but that of a request that was cut off.   *)
THEOREM Ownership == Spec => []ReservationHasOwner
BY KeyInvariant, KeyOwned, PTL

LEMMA KeyMine == KeyInv => CreatedIsMine
BY DEF KeyInv, Way, Truth, CreatedIsMine

(* A 201, also a replayed one, is told to the request that created the     *)
(* profile or to a retry of it.                                            *)
THEOREM Created201 == Spec => []CreatedIsMine
BY KeyInvariant, KeyMine, PTL

LEMMA KeyReplayed == KeyInv => OutcomeIsReplayed
<1> SUFFICES ASSUME KeyInv, NEW h \in Handlers, Confused(h) PROVE Lapsed(Slot(h))
  BY DEF OutcomeIsReplayed, Lapsed
<1>1. answer[h] = Told("exists") /\ answer[h] # None
  BY AnswerMade, NoneIsNothing DEF Confused
<1>2. call[h] # None
  BY <1>1 DEF KeyInv, Way, Course
<1>3. QED
  BY <1>1, <1>2 DEF Confused, KeyInv, Way, Excused

(* Nobody who retries is told that somebody else created the profile,      *)
(* unless an entry of the key has run out.                                 *)
THEOREM Replay == Spec => []OutcomeIsReplayed
BY KeyInvariant, KeyReplayed, PTL

LEMMA StepKept ==
    ASSUME KeyInv, [Next]_vars, NEW s \in Slots, CompleteAt(s), entries[s].age < Retention
    PROVE  CompleteAt(s)' /\ entries'[s].body = entries[s].body
<1>0. Shape /\ entries[s] \in Entries
  BY DEF KeyInv, Shape, CompleteAt
<1>1. CASE entries'[s] = entries[s]
  BY <1>1 DEF CompleteAt
<1>2. CASE Tick
  <2>1. entries'[s] = [entries[s] EXCEPT !.age = Older(entries[s].age, Retention)]
    BY <1>2 DEF Tick, CompleteAt
  <2>2. entries'[s] \in Entries /\ entries'[s].kind = entries[s].kind /\ entries'[s].body = entries[s].body
    BY <1>0, <2>1, WindowsAssumption DEF Entries, Older
  <2>3. QED
    BY <2>2, NoneIsNothing DEF CompleteAt
<1>3. ASSUME NEW h \in Handlers, Begin(h) PROVE entries'[s] = entries[s]
  <2>1. s \notin Gone
    <3>1. entries[s].age \in 0..Retention /\ Retention \in Nat
      BY <1>0, WindowsAssumption DEF Entries
    <3>2. QED
      BY <3>1 DEF Gone, RunOut, CompleteAt
  <2>2. Kept[s] = entries[s]
    BY <1>0, <2>1, Expired
  <2>3. Kept[s] # None
    BY <2>2 DEF CompleteAt
  <2>4. QED
    BY <1>0, <1>3, <2>2, <2>3, BeginAnswers, KeptShape
<1>4. ASSUME NEW h \in Handlers, Finish(h) PROVE CompleteAt(s)' /\ entries'[s].body = entries[s].body
  <2>1. CASE call[h].key # None /\ Slot(h) = s
    <3>1. /\ pc[h] = "await" /\ call[h] \in Calls /\ profile[call[h].user] = call[h]
          /\ s[1] = call[h].user /\ s[2] = call[h].key /\ call[h].body \in Bodies
      BY <1>4, <2>1, Called DEF Finish, KeyInv, Way, Course, Truth
    <3>2. profile[s[1]] = [user |-> s[1], key |-> s[2], body |-> entries[s].body]
      BY DEF KeyInv, Book, Recorded
    <3>3. entries[s].body = call[h].body
      BY <3>1, <3>2
    <3>4. entries'[s] = Complete(call[h].body)
      BY <1>0, <1>4, <2>1 DEF Finish, Shape
    <3>5. QED
      BY <3>1, <3>3, <3>4, EntryMade DEF CompleteAt
  <2>2. CASE ~(call[h].key # None /\ Slot(h) = s)
    BY <1>0, <1>1, <1>4, <2>2 DEF Finish, Shape
  <2>3. QED
    BY <2>1, <2>2
<1>5. ASSUME NEW h \in Handlers, Abandon(h) PROVE entries'[s] = entries[s]
  BY <1>0, <1>5 DEF Abandon, Releases, CompleteAt, Shape
<1>6. ASSUME NEW h \in Handlers, Arrive(h) \/ HangUp(h) \/ Submit(h) \/ Create(h) \/ Return(h)
      PROVE  entries'[s] = entries[s]
  BY <1>6 DEF Arrive, HangUp, Submit, Create, Return, idempotency
<1>7. CASE UNCHANGED vars
  BY <1>1, <1>7 DEF vars
<1>8. QED
  BY <1>1, <1>2, <1>3, <1>4, <1>5, <1>6, <1>7 DEF Next, Work

(* An outcome that is recorded stays for its retention.                    *)
THEOREM OutcomeKept == Spec => CompleteIsKept
<1>1. KeyInv /\ [Next]_vars =>
        [\A s \in Slots :
            entries[s] # None /\ entries[s].kind = "complete" /\ entries[s].age < Retention =>
                /\ entries'[s] # None
                /\ entries'[s].kind = "complete" /\ entries'[s].body = entries[s].body]_vars
  BY StepKept DEF CompleteAt
<1>2. QED
  BY KeyInvariant, <1>1, PTL DEF Spec, CompleteIsKept

-----------------------------------------------------------------------------
(* What a client may rely on (KeyedCreate): the store's entries, the jobs  *)
(* on the pool and the handlers' paths are an implementation of it.        *)
Seen == <<profile, call, answer, {s \in Slots : Lapsed(s)}>>

LEMMA Unseen ==
    ASSUME UNCHANGED <<profile, call, answer>>, past \subseteq past'
    PROVE  Keyed!Next
<1>1. Keyed!Forget
  BY DEF Keyed!Forget, Lapsed
<1>2. QED
  BY <1>1 DEF Keyed!Next

(* What the store answers a request whose key it knows is the truth about  *)
(* the profile, because the entry that is known has the creator's body.    *)
LEMMA Retold ==
    ASSUME KeyInv, KeyInv', NEW h \in Handlers, Begin(h)
    PROVE  Keyed!Next
<1> DEFINE own == Slot(h)
           c == call[h]
<1>0. /\ Shape /\ Course(h) /\ pc[h] = "begin" /\ own \in Slots /\ c \in Calls
      /\ c # None /\ c.key # None /\ answer[h] = None /\ profile' = profile
      /\ own[1] = c.user /\ own[2] = c.key /\ c.user \in Users /\ c.body \in Bodies
  BY BeginAnswers, Called DEF KeyInv, Way, Course
<1>1. past \subseteq past'
  BY DEF Begin
<1>2. CASE UNCHANGED <<call, answer, held>>
  BY <1>0, <1>1, <1>2, Unseen
<1>3. ASSUME Kept[own] # None, entries' = Kept,
             NEW told, told = (IF Mismatched(Kept[own], c.body) THEN Told("mismatch")
                               ELSE IF Kept[own].kind = "inflight" THEN Told("inflight")
                               ELSE Created(Kept[own].body)),
             Answer(h, told)
      PROVE  Keyed!Next
  <2>1. Kept[own] \in Entries
    BY <1>0, <1>3, KeptShape
  <2>2. told \in Answers /\ told.kind \in {"mismatch", "inflight", "created"}
        /\ (told.kind = "mismatch") = (Kept[own].body # c.body)
    <3>1. Kept[own].body \in Bodies
      BY <2>1 DEF Entries
    <3>2. QED
      BY <1>3, <3>1, AnswerMade DEF Mismatched
  <2>3. answer' = [answer EXCEPT ![h] = told] /\ call' = call /\ answer'[h] = told
    BY <1>0, <1>3 DEF Answer, Shape
  <2>4. told.kind = "created" => profile[c.user] = c /\ told.body = c.body
    BY <1>0, <2>2, <2>3, NoneIsNothing DEF KeyInv, Way, Truth
  <2>5. ASSUME profile[c.user] # None, profile[c.user].key = c.key, ~Lapsed(own)'
        PROVE  IF profile[c.user] = c THEN told.kind \in {"created", "inflight"}
               ELSE told.kind = "mismatch"
    <3>1. Kept[own].body = profile[c.user].body
      <4>1. own' = own
        BY <2>3 DEF Slot
      <4>2. Known(own)'
        BY <1>0, <4>1 DEF KeyInv, Book
      <4>3. QED
        BY <1>0, <1>3, <2>5, <4>1, <4>2 DEF Known
    <3>2. /\ profile[c.user] \in Calls /\ profile[c.user].user = c.user
      BY <1>0, <2>5 DEF Shape
    <3>3. profile[c.user] = c <=> profile[c.user].body = c.body
      BY <1>0, <2>5, <3>2, CallFields
    <3>4. QED
      BY <2>2, <3>1, <3>3
  <2>6. Keyed!Honest(h, told)'
    BY <1>0, <2>2, <2>3, <2>4, <2>5 DEF Keyed!Honest, Keyed!Remembered, Slot
  <2>7. Keyed!Tell(h)
    BY <1>0, <1>1, <2>2, <2>3, <2>6
       DEF Keyed!Tell, Keyed!Pending, Keyed!Forget, Keyed!Answers, Answers, Lapsed
  <2>8. QED
    BY <2>7 DEF Keyed!Next
<1>4. QED
  BY <1>2, <1>3 DEF Begin

(* The repository's create is the instant at which the profile is made.    *)
LEMMA MadeAtCreate ==
    ASSUME KeyInv, NEW h \in Handlers, Create(h)
    PROVE  Keyed!Next
<1>0. /\ Shape /\ Course(h) /\ pc[h] \in {"await", "cut"} /\ answer[h] = None
      /\ answer' = answer /\ past' = past /\ call[h] # None /\ call[h].body \in Valid
  BY CreateEnds DEF KeyInv, Way, Course
<1>1. \/ UNCHANGED call \/ call' = [call EXCEPT ![h] = None]
  BY DEF Create, Deliver
<1>2. CASE profile' = profile
  <2>1. CASE UNCHANGED call
    BY <1>0, <1>2, <2>1, Unseen
  <2>2. CASE call' = [call EXCEPT ![h] = None]
    <3>1. answer' = [answer EXCEPT ![h] = None]
      BY <1>0 DEF Shape
    <3>2. Keyed!Leave(h)
      BY <1>0, <1>2, <2>2, <3>1 DEF Keyed!Leave, Lapsed
    <3>3. QED
      BY <3>2 DEF Keyed!Next
  <2>3. QED
    BY <1>1, <2>1, <2>2
<1>3. CASE profile[call[h].user] = None /\ profile' = [profile EXCEPT ![call[h].user] = call[h]]
  <2>1. Keyed!Make(h)
    BY <1>0, <1>1, <1>3 DEF Keyed!Make, Keyed!Pending, Lapsed
  <2>2. QED
    BY <2>1 DEF Keyed!Next
<1>4. QED
  BY <1>2, <1>3, CreateEnds

(* The one that made the profile is told so; the one that fails is not the *)
(* one that made it, or its key has been forgotten.                        *)
LEMMA ToldAtEnd ==
    ASSUME KeyInv, NEW h \in Handlers, Finish(h) \/ Abandon(h)
    PROVE  Keyed!Next
<1> DEFINE c == call[h]
<1>0. /\ Shape /\ Course(h) /\ Truth(h) /\ pc[h] \in {"run", "await"} /\ c \in Calls
      /\ c # None /\ c.body \in Bodies /\ answer[h] = None /\ UNCHANGED <<profile, past, call>>
  BY Called DEF Finish, Abandon, Failure, Answer, KeyInv, Way, Course
<1>1. ASSUME NEW told \in Answers, Answer(h, told), Keyed!Honest(h, told)'
      PROVE  Keyed!Next
  <2>1. answer' = [answer EXCEPT ![h] = told]
    BY <1>1 DEF Answer
  <2>2. Keyed!Tell(h)
    BY <1>0, <1>1, <2>1
       DEF Keyed!Tell, Keyed!Pending, Keyed!Forget, Keyed!Answers, Answers, Lapsed
  <2>3. QED
    BY <2>2 DEF Keyed!Next
<1>2. ASSUME Finish(h), NEW told, told = Created(c.body)
      PROVE  Keyed!Next
  <2>1. told \in Answers /\ told.kind = "created" /\ told.body = c.body
    BY <1>0, <1>2, AnswerMade
  <2>2. Answer(h, told) /\ profile[c.user] = c
    BY <1>0, <1>2 DEF Finish, Truth
  <2>3. Keyed!Honest(h, told)'
    BY <1>0, <2>1, <2>2 DEF Keyed!Honest
  <2>4. QED
    BY <1>1, <2>1, <2>2, <2>3
<1>3. ASSUME Abandon(h), NEW told, told = Told(Failure(h))
      PROVE  Keyed!Next
  <2>1. /\ Failure(h) \in {"invalid", "exists", "backend"}
        /\ Failure(h) = "invalid" => c.body \notin Valid
        /\ Failure(h) = "exists" => job[h] = "exists"
        /\ job[h] # "created"
    BY <1>0, <1>3, NoneIsNothing DEF Abandon, Failure, Course, Results
  <2>2. told \in Answers /\ told.kind = Failure(h) /\ Answer(h, told)
    BY <1>3, <2>1, AnswerMade DEF Abandon
  <2>3. Failure(h) = "exists" => profile[c.user] # None
    BY <1>0, <2>1 DEF Truth
  <2>4. ASSUME c.key # None, profile[c.user] # None, profile[c.user].key = c.key PROVE Lapsed(Slot(h))
    <3>1. Runs(h)
      BY <1>0, <2>4 DEF Runs
    <3>2. Slot(h) \in Slots /\ Slot(h)[1] = c.user /\ Slot(h)[2] = c.key
      BY <3>1, RunnersCalled
    <3>3. QED
      BY <2>1, <2>4, <3>1, <3>2 DEF KeyInv, Book, Known
  <2>5. c.key # None => Slot(h) \in Slots
    BY <1>0, Called
  <2>6. Keyed!Honest(h, told)'
    BY <1>0, <2>1, <2>2, <2>3, <2>4, <2>5
       DEF Keyed!Honest, Keyed!Remembered, Lapsed, Slot
  <2>7. QED
    BY <1>1, <2>2, <2>6
<1>4. QED
  BY <1>2, <1>3

LEMMA KeyImplements == KeyInv /\ KeyInv' /\ [Next]_vars => [Keyed!Next]_Seen
<1> SUFFICES ASSUME KeyInv, KeyInv', [Next]_vars PROVE Keyed!Next \/ UNCHANGED Seen
  OBVIOUS
<1>1. CASE UNCHANGED vars
  BY <1>1 DEF vars, Seen, Lapsed
<1>2. CASE Tick
  BY <1>2, Unseen DEF Tick, handler
<1>3. ASSUME NEW h \in Handlers, Arrive(h) PROVE Keyed!Next
  <2>1. call[h] = None
    BY <1>3 DEF Arrive, KeyInv, Way, Course
  <2>2. Keyed!Ask(h)
    BY <1>3, <2>1 DEF Arrive, Keyed!Ask, Keyed!Calls, Calls, Lapsed, idempotency
  <2>3. QED
    BY <2>2 DEF Keyed!Next
<1>4. ASSUME NEW h \in Handlers, HangUp(h) PROVE Keyed!Next
  <2>1. Shape /\ call[h] # None /\ answer[h] = None /\ UNCHANGED <<profile, answer>>
    BY <1>4 DEF HangUp, KeyInv, Way, Course
  <2>2. past \subseteq past' /\ \A s : Lapsed(s)' = Lapsed(s)
    BY <1>4 DEF HangUp, Lapsed
  <2>3. CASE UNCHANGED call
    BY <2>1, <2>2, <2>3, Unseen
  <2>4. CASE call' = [call EXCEPT ![h] = None]
    <3>1. answer' = [answer EXCEPT ![h] = None]
      BY <2>1 DEF Shape
    <3>2. Keyed!Leave(h)
      BY <2>1, <2>2, <2>4, <3>1 DEF Keyed!Leave
    <3>3. QED
      BY <3>2 DEF Keyed!Next
  <2>5. QED
    BY <1>4, <2>3, <2>4 DEF HangUp
<1>5. ASSUME NEW h \in Handlers, Submit(h) PROVE Keyed!Next
  BY <1>5, Unseen DEF Submit, idempotency
<1>6. ASSUME NEW h \in Handlers, Return(h) PROVE Keyed!Next
  <2>1. call[h] # None
    BY <1>6 DEF Return, KeyInv, Way, Course
  <2>2. Keyed!Leave(h)
    BY <1>6, <2>1 DEF Return, Keyed!Leave, Lapsed, idempotency
  <2>3. QED
    BY <2>2 DEF Keyed!Next
<1>7. QED
  BY <1>1, <1>2, <1>3, <1>4, <1>5, <1>6, Retold, MadeAtCreate, ToldAtEnd DEF Next, Work

LEMMA InitImplements == Init => Keyed!Init
BY DEF Init, Keyed!Init, Lapsed

(* POST /profile is what a client may rely on: the profile is made once,   *)
(* and nobody is told anything of it that is not so, a retry under a key   *)
(* of which nothing has been forgotten least of all.                       *)
THEOREM ImplementsKeyed == Spec => KeyedSpec
<1>1. KeyInv /\ KeyInv' /\ [Next]_vars => [Keyed!Next]_Keyed!vars
  BY KeyImplements DEF Keyed!vars, Seen
<1>2. QED
  BY KeyInvariant, InitImplements, <1>1, PTL DEF Spec, KeyedSpec, Keyed!Spec
=============================================================================
