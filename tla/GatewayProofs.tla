---------------------------- MODULE GatewayProofs ----------------------------
(***************************************************************************)
(* What the runs show of Gateway for two clients holds for any clients and *)
(* any number of failures.  A write that is on its way is dead, for the    *)
(* store is past the version it names, or it names the version its client  *)
(* is still at; that and what an answer says of the log carry the rest.    *)
(***************************************************************************)
EXTENDS Gateway, FiniteSetTheorems, TLAPS

Shape ==
    /\ log \in Seq(Clients)
    /\ calls \subseteq Calls
    /\ faults \in 0..MaxFaults
    /\ awaiting \in [Clients -> Slots \cup {0}]
    /\ task \in [Clients -> Tasks]
    /\ base \in [Clients -> Nat]
    /\ basis \in [Clients -> Clients \cup {None}]
    /\ doubt \in [Clients -> BOOLEAN]

Made(c) == c \in Range(log)

(* A write that could be accepted, and the version it names.               *)
Writes(x) ==
    /\ x.answer = None /\ x.valid
    /\ x.op = "post" \/ (x.op = "put" /\ x.ifMatch \in Nat)
Named(x) == IF x.op = "post" THEN 0 ELSE x.ifMatch

(* What an answer that c is to be given says of the log.                   *)
Says(c, op, a) ==
    /\ op = "get" /\ a.status = "ok" => a.etag \in 1..Len(log) /\ a.body = log[a.etag]
    /\ op \in {"post", "put"} /\ a.status = "ok" => Made(c)
    /\ op = "history" /\ a.status = "ok" =>
          /\ a.body \in Seq(Clients) /\ base[c] < Len(a.body) /\ Len(a.body) <= Len(log)
          /\ \A i \in 1..Len(a.body) : a.body[i] = log[i]
    /\ a.status \in {"stale", "exists"} => base[c] < Len(log)
    /\ a.status = "stale" => a.etag \in 0..Len(log)

Live(x) ==
    \/ Named(x) < Len(log)
    \/ /\ Named(x) = base[x.client] /\ task[x.client] = "write"
       /\ Open(x) \/ doubt[x.client]

Row(x) ==
    /\ Writes(x) => Live(x)
    /\ Open(x) =>
          /\ x.op = Op(x.client)
          /\ x.op = "put" => x.ifMatch \in {base[x.client], None, Wildcard}
    /\ x.answer # None => Open(x) /\ Says(x.client, x.op, x.answer)

Way(c) ==
    /\ base[c] <= Len(log)
    /\ basis[c] # None => base[c] # 0 /\ log[base[c]] = basis[c]
    /\ task[c] = "read" => ~Made(c)
    /\ task[c] = "settled" => Made(c)
    /\ task[c] = "audit" => base[c] < Len(log)
    /\ task[c] = "write" /\ ~doubt[c] /\ Made(c) =>
          \E x \in calls : x.client = c /\ Open(x) /\ x.answer # None /\ x.answer.status = "ok"
    /\ awaiting[c] # 0 => \E x \in calls : x.client = c /\ Open(x)

Single == \A x, y \in calls : x.client = y.client /\ x.slot = y.slot => x = y
Placed == \A i \in 1..Len(log) : base[log[i]] = i - 1

GateInv ==
    /\ Shape
    /\ \A x \in calls : Row(x)
    /\ \A c \in Clients : Way(c)
    /\ Single /\ Placed
-----------------------------------------------------------------------------
(* The log only grows.                                                     *)
Longer ==
    /\ log' \in Seq(Clients) /\ Len(log) <= Len(log')
    /\ \A i \in 1..Len(log) : log'[i] = log[i]
    /\ \A c \in Clients : Made(c) => Made(c)'

LEMMA LogGrows ==
    ASSUME Shape, NEW c \in Clients, log' = log \/ log' = Append(log, c)
    PROVE  Longer
<1>1. CASE log' = log
  BY <1>1 DEF Shape, Longer, Made, Range
<1>2. CASE log' = Append(log, c)
  <2>1. /\ log' \in Seq(Clients) /\ Len(log') = Len(log) + 1
        /\ \A i \in 1..Len(log) : log'[i] = log[i]
    BY <1>2 DEF Shape
  <2>2. Len(log) \in Nat
    BY DEF Shape
  <2>3. ASSUME NEW d \in Clients, Made(d)
        PROVE  Made(d)'
    <3>1. PICK i \in 1..Len(log) : d = log[i]
      BY <2>3 DEF Made, Range
    <3>2. i \in 1..Len(log') /\ log'[i] = d
      BY <2>1, <2>2, <3>1
    <3>3. QED
      BY <3>2 DEF Made, Range
  <2>4. QED
    BY <2>1, <2>2, <2>3 DEF Longer
<1>3. QED
  BY <1>1, <1>2

(* What is said of the log stays true while it grows.                      *)
LEMMA SaysStill ==
    ASSUME Shape, Longer, NEW c \in Clients, NEW op, NEW a, Says(c, op, a), base'[c] = base[c]
    PROVE  Says(c, op, a)'
<1>1. Len(log) \in Nat /\ Len(log') \in Nat /\ Len(log) <= Len(log')
  BY DEF Shape, Longer
<1>2. base[c] \in Nat
  BY DEF Shape
<1>3. ASSUME op = "get", a.status = "ok"
      PROVE  a.etag \in 1..Len(log') /\ a.body = log'[a.etag]
  BY <1>1, <1>3 DEF Says, Longer
<1>4. ASSUME op \in {"post", "put"}, a.status = "ok"
      PROVE  Made(c)'
  BY <1>4 DEF Says, Longer
<1>5. ASSUME op = "history", a.status = "ok"
      PROVE  /\ a.body \in Seq(Clients) /\ base'[c] < Len(a.body) /\ Len(a.body) <= Len(log')
             /\ \A i \in 1..Len(a.body) : a.body[i] = log'[i]
  <2>1. /\ a.body \in Seq(Clients) /\ base[c] < Len(a.body) /\ Len(a.body) <= Len(log)
        /\ \A i \in 1..Len(a.body) : a.body[i] = log[i]
    BY <1>5 DEF Says
  <2>2. Len(a.body) \in Nat
    BY <2>1
  <2>3. QED
    BY <1>1, <2>1, <2>2 DEF Longer
<1>6. /\ a.status \in {"stale", "exists"} => base'[c] < Len(log')
      /\ a.status = "stale" => a.etag \in 0..Len(log')
  BY <1>1, <1>2 DEF Says
<1>7. QED
  BY <1>3, <1>4, <1>5, <1>6 DEF Says

(* The write that is accepted is the one of its client's present version,  *)
(* which is not in the log yet.                                            *)
LEMMA OnlyTheLive ==
    ASSUME GateInv, NEW x \in calls, Writes(x), Named(x) = Len(log)
    PROVE  /\ task[x.client] = "write" /\ base[x.client] = Len(log)
           /\ Open(x) \/ doubt[x.client]
           /\ ~Made(x.client)
<1>1. Len(log) \in Nat
  BY DEF GateInv, Shape
<1>2. /\ task[x.client] = "write" /\ base[x.client] = Len(log)
      /\ Open(x) \/ doubt[x.client]
  BY <1>1 DEF GateInv, Row, Live
<1>3. ASSUME Made(x.client)
      PROVE  FALSE
  <2>1. PICK i \in 1..Len(log) : x.client = log[i]
    BY <1>3 DEF Made, Range
  <2>2. base[x.client] = i - 1
    BY <2>1 DEF GateInv, Placed
  <2>3. QED
    BY <1>1, <1>2, <2>1, <2>2
<1>4. QED
  BY <1>2, <1>3
-----------------------------------------------------------------------------
(* The service answers a request: what it answers is true of the log it    *)
(* leaves, and the log grows only by a write of the version it is at.      *)
Answered(x, a) ==
    /\ x.answer = None
    /\ Answer(x, a)
    /\ UNCHANGED <<awaiting, client>>
    /\ faults' \in 0..MaxFaults
    /\ \/ log' = log
       \/ log' = Append(log, x.client) /\ Writes(x) /\ Named(x) = Len(log) /\ a.status = "ok"
    /\ Open(x) => Says(x.client, x.op, a)'

LEMMA Answering ==
    ASSUME GateInv, NEW x \in calls, NEW a \in Answers, Answered(x, a)
    PROVE  GateInv'
<1> DEFINE y == [x EXCEPT !.answer = a]
<1>1. x \in Calls /\ x.client \in Clients /\ Shape
  BY DEF GateInv, Shape, Calls
<1>2. y \in Calls /\ y.client = x.client /\ y.slot = x.slot /\ y.op = x.op /\ y.ifMatch = x.ifMatch
      /\ y.answer = a /\ y.answer # None
  BY <1>1, NoneAssumption DEF Calls
<1>3. calls' = (calls \ {x}) \cup (IF Open(x) THEN {y} ELSE {})
  BY DEF Answered, Answer
<1> HIDE DEF y
<1>4. /\ awaiting' = awaiting /\ task' = task /\ base' = base /\ basis' = basis /\ doubt' = doubt
  BY DEF Answered, client
<1>5. Longer
  BY <1>1, LogGrows DEF Answered
<1>6. \A z : Open(z)' = Open(z) /\ (Op(z.client)' = Op(z.client))
  BY <1>4 DEF Open, Op
<1>7. Shape'
  BY <1>1, <1>2, <1>3, <1>4, <1>5 DEF Shape, Longer, Answered
<1>8. Len(log) \in Nat /\ Len(log') \in Nat /\ Len(log) <= Len(log')
  BY <1>1, <1>5 DEF Shape, Longer
<1>9. ASSUME NEW z \in calls
      PROVE  Row(z)'
  <2>1. z \in Calls /\ z.client \in Clients /\ Row(z)
    BY <1>1 DEF GateInv, Shape, Calls
  <2>2. Writes(z) => Named(z) \in Nat
    BY DEF Writes, Named
  <2>3. Writes(z)' = Writes(z) /\ Named(z)' = Named(z)
    BY DEF Writes, Named
  <2>4. Writes(z)' => Live(z)'
    BY <1>4, <1>6, <1>8, <2>1, <2>2, <2>3 DEF Row, Live
  <2>5. z.answer # None => Open(z)' /\ Says(z.client, z.op, z.answer)'
    BY <1>1, <1>4, <1>5, <1>6, <2>1, SaysStill DEF Row
  <2>6. QED
    BY <1>4, <1>6, <2>1, <2>4, <2>5 DEF Row
<1>10. ASSUME Open(x)
       PROVE  Row(y)'
  <2>1. Row(x)
    BY DEF GateInv
  <2>2. ~Writes(y)'
    BY <1>2 DEF Writes
  <2>3. Open(y)' = Open(x)
    BY <1>2, <1>4 DEF Open
  <2>4. Says(y.client, y.op, y.answer)'
    BY <1>2, <1>10 DEF Answered
  <2>5. QED
    BY <1>2, <1>4, <1>6, <1>10, <2>1, <2>2, <2>3, <2>4 DEF Row
<1>11. ASSUME NEW z \in calls'
       PROVE  Row(z)'
  BY <1>3, <1>9, <1>10, <1>11
<1>12. ASSUME NEW c \in Clients
       PROVE  Way(c)'
  <2>1. Way(c)
    BY DEF GateInv
  <2>2. /\ base'[c] <= Len(log')
        /\ basis'[c] # None => base'[c] # 0 /\ log'[base'[c]] = basis'[c]
        /\ task'[c] = "audit" => base'[c] < Len(log')
    <3>1. base[c] \in Nat /\ base'[c] = base[c] /\ basis'[c] = basis[c] /\ task'[c] = task[c]
      BY <1>1, <1>4 DEF Shape
    <3>2. base[c] # 0 => log'[base[c]] = log[base[c]]
      BY <1>5, <1>8, <2>1, <3>1 DEF Longer, Way
    <3>3. QED
      BY <1>8, <2>1, <3>1, <3>2 DEF Way
  <2>3. task'[c] = "settled" => Made(c)'
    BY <1>4, <1>5, <2>1 DEF Way, Longer
  <2>4. Made(c)' => Made(c) \/ (/\ c = x.client /\ a.status = "ok" /\ task[c] = "write"
                                /\ Open(x) \/ doubt[c])
    <3>1. CASE log' = log
      BY <3>1 DEF Made, Range
    <3>2. CASE log' = Append(log, x.client) /\ Writes(x) /\ Named(x) = Len(log) /\ a.status = "ok"
      <4>1. Made(c)' => Made(c) \/ c = x.client
        BY <1>1, <3>2 DEF Made, Range, Shape
      <4>2. QED
        BY <3>2, <4>1, OnlyTheLive
    <3>3. QED
      BY <3>1, <3>2 DEF Answered
  <2>5. task'[c] = "read" => ~Made(c)'
    BY <1>4, <2>1, <2>4 DEF Way
  <2>6. ASSUME NEW z \in calls, Open(z)
        PROVE  \E w \in calls' : /\ w.client = z.client /\ Open(w)'
                                 /\ z = x => w = y
                                 /\ z # x => w = z
    BY <1>2, <1>3, <1>4, <2>6 DEF Open
  <2>7. awaiting'[c] # 0 => \E w \in calls' : w.client = c /\ Open(w)'
    BY <1>4, <2>1, <2>6 DEF Way
  <2>8. ASSUME task'[c] = "write", ~doubt'[c], Made(c)'
        PROVE  \E w \in calls' : w.client = c /\ Open(w)' /\ w.answer # None /\ w.answer.status = "ok"
    <3>1. CASE Made(c)
      <4>1. PICK z \in calls : z.client = c /\ Open(z) /\ z.answer # None /\ z.answer.status = "ok"
        BY <1>4, <2>1, <2>8, <3>1 DEF Way
      <4>2. z # x
        BY <4>1 DEF Answered
      <4>3. QED
        BY <2>6, <4>1, <4>2
    <3>2. CASE ~Made(c)
      <4>1. c = x.client /\ a.status = "ok" /\ Open(x)
        BY <1>4, <2>4, <2>8, <3>2
      <4>2. QED
        BY <1>2, <2>6, <4>1
    <3>3. QED
      BY <3>1, <3>2
  <2>9. QED
    BY <2>2, <2>3, <2>5, <2>7, <2>8 DEF Way
<1>13. Single'
  BY <1>2, <1>3 DEF GateInv, Single
<1>14. Placed'
  <2>1. CASE log' = log
    BY <1>4, <2>1 DEF GateInv, Placed
  <2>2. CASE log' = Append(log, x.client) /\ Writes(x) /\ Named(x) = Len(log) /\ a.status = "ok"
    <3>1. base[x.client] = Len(log)
      BY <2>2, OnlyTheLive
    <3>2. Len(log') = Len(log) + 1 /\ log'[Len(log) + 1] = x.client
      BY <1>1, <2>2 DEF Shape
    <3>3. ASSUME NEW i \in 1..Len(log')
          PROVE  base'[log'[i]] = i - 1
      <4>1. CASE i = Len(log) + 1
        BY <1>4, <1>8, <3>1, <3>2, <4>1
      <4>2. CASE i # Len(log) + 1
        <5>1. i \in 1..Len(log)
          BY <1>8, <3>2, <4>2
        <5>2. QED
          BY <1>4, <1>5, <5>1 DEF GateInv, Placed, Longer
      <4>3. QED
        BY <4>1, <4>2
    <3>4. QED
      BY <3>3 DEF Placed
  <2>3. QED
    BY <2>1, <2>2 DEF Answered
<1>15. QED
  BY <1>7, <1>11, <1>12, <1>13, <1>14 DEF GateInv
-----------------------------------------------------------------------------
(* The handlers of the profile service.                                    *)

LEMMA TheSent ==
    ASSUME GateInv, NEW c \in Clients, NEW slot, NEW x \in Sent(c, slot)
    PROVE  x \in calls /\ x.answer = None /\ x \in Calls /\ x.client = c /\ Row(x)
BY DEF Sent, GateInv, Shape

LEMMA StatusAnswer ==
    ASSUME NEW status \in {"missing", "exists", "rejected", "fault"}
    PROVE  /\ Status(status) \in Answers
           /\ Status(status).status = status
BY DEF Status, Answers

LEMMA TaggedAnswer ==
    ASSUME NEW status \in {"ok", "stale"}, NEW body \in Clients \cup {None}, Longer
    PROVE  \E a \in Answers :
              /\ a = Tagged(status, body)
              /\ a.status = status /\ a.etag = Len(log') /\ a.body = body
<1>1. Len(log') \in Nat
  BY DEF Longer
<1>2. [status |-> status, etag |-> Len(log'), body |-> body] \in Answers
  BY <1>1 DEF Answers
<1>3. Tagged(status, body) = [status |-> status, etag |-> Len(log'), body |-> body]
  BY DEF Tagged
<1>4. QED
  BY <1>2, <1>3

(* What the service leaves alone.                                          *)
Aside == UNCHANGED <<awaiting, client>> /\ faults' \in 0..MaxFaults

LEMMA ReadStep ==
    ASSUME GateInv, NEW x \in calls, x.answer = None, Aside, Read(x)
    PROVE  GateInv'
<1>1. /\ x.op = "get" /\ log' = log
      /\ Answer(x, IF log = <<>> THEN Status("missing") ELSE Tagged("ok", log[Version]))
  BY DEF Read
<1>2. Shape /\ x.client \in Clients
  BY DEF GateInv, Shape, Calls
<1>3. Longer
  BY <1>1, <1>2, LogGrows
<1>4. CASE log = <<>>
  <2>1. Answered(x, Status("missing"))
    BY <1>1, <1>4, StatusAnswer DEF Answered, Aside, Says
  <2>2. QED
    BY <2>1, StatusAnswer, Answering
<1>5. CASE log # <<>>
  <2>1. Len(log) \in Nat /\ Len(log) # 0
    BY <1>2, <1>5 DEF Shape
  <2>2. Version \in 1..Len(log) /\ log[Version] \in Clients
    BY <1>2, <2>1 DEF Version, Shape
  <2>3. PICK a \in Answers : /\ a = Tagged("ok", log[Version])
                            /\ a.status = "ok" /\ a.etag = Len(log') /\ a.body = log[Version]
    BY <1>3, <2>2, TaggedAnswer
  <2>4. Says(x.client, x.op, a)'
    BY <1>1, <2>1, <2>2, <2>3 DEF Says, Version
  <2>5. Answered(x, a)
    BY <1>1, <1>5, <2>3, <2>4 DEF Answered, Aside
  <2>6. QED
    BY <2>5, Answering
<1>6. QED
  BY <1>4, <1>5

LEMMA HistoryStep ==
    ASSUME GateInv, NEW x \in calls, x.answer = None, Aside, History(x)
    PROVE  GateInv'
<1>1. /\ x.op = "history" /\ log' = log
      /\ Answer(x, IF log = <<>> THEN Status("missing") ELSE [Status("ok") EXCEPT !.body = log])
  BY DEF History
<1>2. Shape /\ x.client \in Clients /\ Row(x)
  BY DEF GateInv, Shape, Calls
<1>3. CASE log = <<>>
  <2>1. Answered(x, Status("missing"))
    BY <1>1, <1>3, StatusAnswer DEF Answered, Aside, Says
  <2>2. QED
    BY <2>1, StatusAnswer, Answering
<1>4. CASE log # <<>>
  <2> DEFINE a == [Status("ok") EXCEPT !.body = log]
  <2>1. a \in Answers /\ a.status = "ok" /\ a.body = log
    BY <1>2 DEF Shape, Status, Answers
  <2>2. Open(x) => base[x.client] < Len(log)
    <3>1. Open(x) => task[x.client] = "audit"
      BY <1>1, <1>2 DEF Row, Op
    <3>2. QED
      BY <1>2, <3>1 DEF GateInv, Way
  <2>3. Open(x) => Says(x.client, x.op, a)'
    <3>1. Len(log) \in Nat /\ base' = base
      BY <1>2 DEF Shape, Aside, client
    <3>2. QED
      BY <1>1, <1>2, <2>1, <2>2, <3>1 DEF Says, Shape
  <2>4. Answered(x, a)
    BY <1>1, <1>4, <2>3 DEF Answered, Aside
  <2>5. QED
    BY <2>1, <2>4, Answering
<1>5. QED
  BY <1>3, <1>4

(* A write that is accepted says the truth, and so does a refusal: the log *)
(* is past the version the write names.                                    *)
LEMMA Accepted ==
    ASSUME GateInv, NEW x \in calls, x.answer = None, Aside,
           Writes(x), Named(x) = Len(log), log' = Append(log, x.client),
           Answer(x, Tagged("ok", x.client))
    PROVE  GateInv'
<1>1. Shape /\ x.client \in Clients /\ x.op \in {"post", "put"}
  BY DEF GateInv, Shape, Calls, Writes
<1>2. Longer
  BY <1>1, LogGrows
<1>3. Made(x.client)'
  <2>1. Len(log) + 1 \in 1..Len(log') /\ log'[Len(log) + 1] = x.client
    BY <1>1 DEF Shape
  <2>2. QED
    BY <2>1 DEF Made, Range
<1>4. PICK a \in Answers : a = Tagged("ok", x.client) /\ a.status = "ok"
  BY <1>1, <1>2, TaggedAnswer
<1>5. Says(x.client, x.op, a)'
  BY <1>1, <1>3, <1>4 DEF Says
<1>6. Answered(x, a)
  BY <1>4, <1>5 DEF Answered, Aside
<1>7. QED
  BY <1>6, Answering

LEMMA Refused ==
    ASSUME GateInv, NEW x \in calls, x.answer = None, Aside, log' = log,
           NEW a \in Answers, Answer(x, a), a.status # "ok",
           Open(x) /\ a.status \in {"stale", "exists"} => base[x.client] < Len(log),
           a.status = "stale" => a.etag = Len(log)
    PROVE  GateInv'
<1>1. Shape /\ x.client \in Clients /\ base' = base
  BY DEF GateInv, Shape, Calls, Aside, client
<1>2. Len(log) \in Nat
  BY <1>1 DEF Shape
<1>3. Open(x) => Says(x.client, x.op, a)'
  BY <1>1, <1>2 DEF Says
<1>4. Answered(x, a)
  BY <1>3 DEF Answered, Aside
<1>5. QED
  BY <1>4, Answering

LEMMA CreateStep ==
    ASSUME GateInv, NEW x \in calls, x.answer = None, Aside, Create(x)
    PROVE  GateInv'
<1>1. x.op = "post" /\ Shape /\ x.client \in Clients /\ Row(x)
  BY DEF Create, GateInv, Shape, Calls
<1>2. CASE ~x.valid /\ UNCHANGED log /\ Answer(x, Status("rejected"))
  BY <1>2, StatusAnswer, Refused
<1>3. CASE x.valid /\ log # <<>> /\ UNCHANGED log /\ Answer(x, Status("exists"))
  <2>1. Len(log) \in Nat /\ Len(log) # 0
    BY <1>1, <1>3 DEF Shape
  <2>2. Open(x) => base[x.client] = 0
    BY <1>1 DEF Row, Op
  <2>3. QED
    BY <1>3, <2>1, <2>2, StatusAnswer, Refused
<1>4. CASE x.valid /\ log = <<>> /\ log' = <<x.client>> /\ Answer(x, Tagged("ok", x.client))
  <2>1. Writes(x) /\ Named(x) = Len(log)
    BY <1>1, <1>4 DEF Writes, Named
  <2>2. log' = Append(log, x.client)
    BY <1>1, <1>4
  <2>3. QED
    BY <1>4, <2>1, <2>2, Accepted
<1>5. QED
  BY <1>2, <1>3, <1>4 DEF Create

LEMMA UpdateStep ==
    ASSUME GateInv, NEW x \in calls, x.answer = None, Aside, Update(x)
    PROVE  GateInv'
<1> DEFINE verdict == IF x.valid THEN Verdict(x.ifMatch) ELSE "rejected"
<1>1. x.op = "put" /\ Shape /\ x \in Calls /\ x.client \in Clients /\ Row(x)
  BY DEF Update, GateInv, Shape, Calls
<1>2. /\ log' = IF verdict = "ok" THEN Append(log, x.client) ELSE log
      /\ Answer(x, IF verdict = "ok" THEN Tagged("ok", x.client)
                   ELSE IF verdict = "stale" THEN Tagged("stale", None)
                   ELSE Status(verdict))
  BY DEF Update
<1>3. verdict \in {"ok", "stale", "missing", "rejected"}
  BY DEF Verdict
<1>4. Len(log) \in Nat /\ base[x.client] \in Nat /\ base[x.client] <= Len(log)
  BY <1>1 DEF Shape, GateInv, Way
<1>5. CASE verdict = "ok"
  <2>1. x.valid /\ x.ifMatch = Len(log)
    BY <1>5 DEF Verdict, Version
  <2>2. Writes(x) /\ Named(x) = Len(log)
    BY <1>1, <1>4, <2>1 DEF Writes, Named
  <2>3. QED
    BY <1>2, <1>5, <2>2, Accepted
<1>6. CASE verdict = "stale"
  <2>1. x.ifMatch \notin {None, Wildcard} /\ x.ifMatch # Len(log)
    BY <1>6 DEF Verdict, Version
  <2>2. Open(x) => base[x.client] < Len(log)
    BY <1>1, <1>4, <2>1 DEF Row
  <2>3. log' = log /\ Answer(x, Tagged("stale", None))
    BY <1>2, <1>6
  <2>4. Longer
    BY <1>1, <2>3, LogGrows
  <2>5. PICK a \in Answers : /\ a = Tagged("stale", None)
                            /\ a.status = "stale" /\ a.etag = Len(log')
    BY <2>4, TaggedAnswer
  <2>6. QED
    BY <2>2, <2>3, <2>5, Refused
<1>7. CASE verdict \in {"missing", "rejected"}
  <2>1. log' = log /\ Answer(x, Status(verdict))
    BY <1>2, <1>7
  <2>2. QED
    BY <1>7, <2>1, StatusAnswer, Refused
<1>8. QED
  BY <1>3, <1>5, <1>6, <1>7

LEMMA ServeStep ==
    ASSUME GateInv, NEW c \in Clients, NEW slot \in Slots, Serve(c, slot)
    PROVE  GateInv'
<1>1. PICK x \in Sent(c, slot) : Read(x) \/ History(x) \/ Create(x) \/ Update(x)
  BY DEF Serve
<1>2. x \in calls /\ x.answer = None
  BY TheSent
<1>3. Aside
  BY DEF Serve, Aside, GateInv, Shape
<1>4. QED
  BY <1>1, <1>2, <1>3, ReadStep, HistoryStep, CreateStep, UpdateStep

LEMMA FaultCounts ==
    ASSUME Shape, Fault
    PROVE  faults' \in 0..MaxFaults
BY FaultsAssumption DEF Shape, Fault

LEMMA FailStep ==
    ASSUME GateInv, NEW c \in Clients, NEW slot \in Slots, Fail(c, slot)
    PROVE  GateInv'
<1>1. PICK x \in Sent(c, slot) : Answer(x, Status("fault"))
  BY DEF Fail
<1>2. x \in calls /\ x.answer = None
  BY TheSent
<1>3. Aside /\ log' = log
  BY FaultCounts DEF Fail, Aside, GateInv
<1>4. QED
  BY <1>1, <1>2, <1>3, StatusAnswer, Refused
-----------------------------------------------------------------------------
(* What moves requests and clients leaves the log alone.  A row of another *)
(* client than c, or a row of a request that is not open, is not disturbed.*)

Others(c) ==
    /\ \A d \in Clients \ {c} :
          /\ awaiting'[d] = awaiting[d] /\ task'[d] = task[d]
          /\ base'[d] = base[d] /\ basis'[d] = basis[d] /\ doubt'[d] = doubt[d]
    /\ \A x \in Calls : x.client # c => (x \in calls' <=> x \in calls)
    /\ log' = log

LEMMA OthersKeep ==
    ASSUME GateInv, NEW c \in Clients, Others(c)
    PROVE  /\ \A x \in calls' \cap Calls : x.client # c => Row(x)'
           /\ \A d \in Clients \ {c} : Way(d)'
<1>1. Shape
  BY DEF GateInv
<1>2. \A z \in Calls : z.client # c => (Open(z)' = Open(z)) /\ (Op(z.client)' = Op(z.client))
  BY DEF Open, Op, Others, Calls
<1>3. \A op, a : \A z \in Calls : z.client # c => Says(z.client, op, a)' = Says(z.client, op, a)
  BY DEF Says, Made, Others, Calls
<1>4. ASSUME NEW x \in calls' \cap Calls, x.client # c
      PROVE  Row(x)'
  <2>1. x \in calls /\ x.client \in Clients \ {c}
    BY <1>4 DEF Others, Calls
  <2>2. Row(x)
    BY <2>1 DEF GateInv
  <2>3. Writes(x)' = Writes(x) /\ Named(x)' = Named(x)
    BY DEF Writes, Named
  <2>4. Live(x)' = Live(x)
    BY <1>2, <1>4, <2>1, <2>3 DEF Live, Others
  <2>5. QED
    BY <1>2, <1>3, <1>4, <2>1, <2>2, <2>3, <2>4 DEF Row, Others
<1>5. ASSUME NEW d \in Clients \ {c}
      PROVE  Way(d)'
  <2>1. Way(d)
    BY DEF GateInv
  <2>2. \A z \in calls : z.client = d => z \in calls' /\ Open(z)' = Open(z)
    BY <1>1, <1>2 DEF Shape, Others
  <2>3. Made(d)' = Made(d)
    BY DEF Made, Others
  <2>4. task'[d] = "write" /\ ~doubt'[d] /\ Made(d)' =>
            \E x \in calls' : x.client = d /\ Open(x)' /\ x.answer # None /\ x.answer.status = "ok"
    BY <2>1, <2>2, <2>3 DEF Way, Others
  <2>5. awaiting'[d] # 0 => \E x \in calls' : x.client = d /\ Open(x)'
    BY <2>1, <2>2 DEF Way, Others
  <2>6. QED
    BY <2>1, <2>3, <2>4, <2>5 DEF Way, Others
<1>6. QED
  BY <1>4, <1>5

(* Of the requests of one client at most one is open.                      *)
LEMMA OneOpen ==
    ASSUME GateInv, NEW x \in calls, NEW y \in calls, x.client = y.client, Open(x), x # y
    PROVE  ~Open(y) /\ y.answer = None
BY DEF GateInv, Single, Open, Row

(* A request that is not open stays as it is while its client moves.       *)
LEMMA Waiting ==
    ASSUME GateInv, log' = log, NEW z \in calls, ~Open(z), ~Open(z)', z.answer = None,
           Writes(z) => \/ Named(z) < Len(log)
                        \/ /\ Named(z) = base'[z.client] /\ task'[z.client] = "write"
                           /\ doubt'[z.client]
    PROVE  Row(z)'
<1>1. Writes(z)' = Writes(z) /\ Named(z)' = Named(z)
  BY DEF Writes, Named
<1>2. QED
  BY <1>1 DEF Row, Live

LEMMA LogKept ==
    ASSUME GateInv, log' = log, base' = base
    PROVE  Placed'
BY DEF GateInv, Placed

LEMMA ForwardStep ==
    ASSUME GateInv, NEW c \in Clients, NEW ifMatch \in Nat \cup {None, Wildcard},
           NEW valid \in BOOLEAN, Forward(c, ifMatch, valid), task[c] # "settled",
           faults' \in 0..MaxFaults,
           Op(c) = "put" => ifMatch \in {base[c], None, Wildcard}
    PROVE  GateInv'
<1>1. Shape
  BY DEF GateInv
<1>2. PICK slot \in Slots :
          /\ \A call \in calls : call.client = c => call.slot # slot
          /\ calls' = calls \cup
                {[client |-> c, slot |-> slot, op |-> Op(c), valid |-> valid, answer |-> None,
                  ifMatch |-> ifMatch]}
          /\ awaiting' = [awaiting EXCEPT ![c] = slot]
  BY DEF Forward, Copied, ForwardedToUpstream
<1>3. PICK y : y = [client |-> c, slot |-> slot, op |-> Op(c), valid |-> valid, answer |-> None,
                    ifMatch |-> ifMatch]
  OBVIOUS
<1>4. /\ y \in Calls /\ y.client = c /\ y.slot = slot /\ y.op = Op(c)
      /\ y.answer = None /\ y.ifMatch = ifMatch
  BY <1>3 DEF Calls, Op
<1>5. calls' = calls \cup {y}
  BY <1>2, <1>3
<1>6. /\ log' = log /\ task' = task /\ base' = base /\ basis' = basis /\ doubt' = doubt
      /\ awaiting[c] = 0
  BY DEF Forward, client
<1>7. slot # 0 /\ awaiting'[c] = slot /\ \A d \in Clients \ {c} : awaiting'[d] = awaiting[d]
  BY <1>1, <1>2, FaultsAssumption DEF Slots, Shape
<1>8. Others(c)
  BY <1>4, <1>5, <1>6, <1>7 DEF Others
<1>9. Shape'
  BY <1>1, <1>2, <1>4, <1>5, <1>6 DEF Shape
<1>10. Single'
  BY <1>2, <1>4, <1>5 DEF GateInv, Single
<1>11. \A z \in calls : z.client = c => ~Open(z) /\ ~Open(z)'
  <2>1. \A z \in calls : z.slot # 0
    BY <1>1, FaultsAssumption DEF Shape, Calls, Slots
  <2>2. QED
    BY <1>2, <1>6, <1>7, <2>1 DEF Open
<1>12. ASSUME NEW z \in calls, z.client = c
       PROVE  Row(z)'
  <2>1. Row(z) /\ ~Open(z) /\ ~Open(z)'
    BY <1>11, <1>12 DEF GateInv
  <2>2. QED
    BY <1>6, <2>1, Waiting DEF Row, Live
<1>13. Open(y)'
  BY <1>4, <1>7 DEF Open
<1>14. Row(y)'
  <2>1. Op(y.client)' = Op(c)
    BY <1>4, <1>6 DEF Op
  <2>2. Writes(y)' => Live(y)'
    <3>1. ASSUME Writes(y)'
          PROVE  Named(y)' = base[c] /\ task[c] = "write"
      <4>1. y.op = "post" \/ (y.op = "put" /\ y.ifMatch \in Nat)
        BY <3>1 DEF Writes
      <4>2. task[c] = "write"
        BY <1>1, <1>4, <4>1 DEF Op, Shape, Tasks
      <4>3. y.op = "post" => base[c] = 0
        BY <1>4 DEF Op
      <4>4. y.op = "put" => y.ifMatch = base[c]
        BY <1>4, <4>1, NoneAssumption
      <4>5. QED
        BY <4>1, <4>2, <4>3, <4>4 DEF Named
    <3>2. QED
      BY <1>4, <1>6, <1>13, <3>1 DEF Live
  <2>3. QED
    BY <1>4, <1>6, <1>13, <2>1, <2>2 DEF Row
<1>15. Way(c)'
  <2>1. Way(c) /\ Made(c)' = Made(c)
    BY <1>6 DEF GateInv, Made
  <2>2. task[c] = "write" /\ ~doubt[c] => ~Made(c)
    BY <1>11, <2>1 DEF Way
  <2>3. \E x \in calls' : x.client = c /\ Open(x)'
    BY <1>4, <1>5, <1>13
  <2>4. QED
    BY <1>6, <2>1, <2>2, <2>3 DEF Way
<1>16. \A x \in calls' : Row(x)'
  BY <1>4, <1>5, <1>8, <1>9, <1>12, <1>14, OthersKeep DEF Shape
<1>17. \A d \in Clients : Way(d)'
  BY <1>8, <1>15, OthersKeep
<1>18. QED
  BY <1>6, <1>9, <1>10, <1>16, <1>17, LogKept DEF GateInv

LEMMA SendStep ==
    ASSUME GateInv, NEW c \in Clients, Send(c)
    PROVE  GateInv'
<1>1. base[c] \in Nat /\ faults' \in 0..MaxFaults
  BY DEF Send, GateInv, Shape
<1>2. QED
  BY <1>1, ForwardStep DEF Send

LEMMA MistakeStep ==
    ASSUME GateInv, NEW c \in Clients, Mistake(c)
    PROVE  GateInv'
<1>1. base[c] \in Nat /\ faults' \in 0..MaxFaults /\ task[c] = "write"
  BY FaultCounts DEF Mistake, GateInv, Shape
<1>2. CASE Forward(c, base[c], FALSE)
  BY <1>1, <1>2, ForwardStep
<1>3. ASSUME NEW ifMatch \in {None, Wildcard}, Forward(c, ifMatch, TRUE)
      PROVE  GateInv'
  BY <1>1, <1>3, ForwardStep
<1>4. QED
  BY <1>2, <1>3 DEF Mistake

LEMMA GiveUpStep ==
    ASSUME GateInv, NEW c \in Clients, GiveUp(c)
    PROVE  GateInv'
<1>1. Shape
  BY DEF GateInv
<1>2. PICK call \in calls :
          /\ call.client = c /\ Open(call)
          /\ calls' = calls \ {call} \/ (call.answer = None /\ calls' = calls)
  BY DEF GiveUp
<1>3. /\ awaiting' = [awaiting EXCEPT ![c] = 0]
      /\ doubt' = [doubt EXCEPT ![c] = @ \/ task[c] = "write"]
      /\ log' = log /\ task' = task /\ base' = base /\ basis' = basis
      /\ faults' \in 0..MaxFaults
  BY <1>1, FaultCounts DEF GiveUp
<1>4. awaiting'[c] = 0 /\ doubt' \in [Clients -> BOOLEAN] /\ (doubt'[c] <=> doubt[c] \/ task[c] = "write")
      /\ \A d \in Clients \ {c} : awaiting'[d] = awaiting[d] /\ doubt'[d] = doubt[d]
  BY <1>1, <1>3 DEF Shape
<1>5. Others(c)
  BY <1>2, <1>3, <1>4 DEF Others
<1>6. Shape'
  BY <1>1, <1>2, <1>3, <1>4 DEF Shape
<1>7. Single'
  BY <1>2 DEF GateInv, Single
<1>8. ASSUME NEW z \in calls', z.client = c
      PROVE  Row(z)'
  <2>1. z \in calls /\ Row(z) /\ z.slot # 0
    BY <1>1, <1>2, FaultsAssumption DEF GateInv, Shape, Calls, Slots
  <2>2. z.answer = None /\ (z = call \/ ~Open(z))
    BY <1>2, <1>8, <2>1, OneOpen
  <2>3. ~Open(z)'
    BY <1>4, <1>8, <2>1 DEF Open
  <2>4. Writes(z) => Live(z)
    BY <2>1 DEF Row
  <2>5. ~Writes(z)' => Row(z)'
    BY <2>2, <2>3 DEF Row
  <2>6. Writes(z)' = Writes(z) /\ Named(z)' = Named(z)
    BY DEF Writes, Named
  <2>7. Live(z) => Live(z)'
    BY <1>3, <1>4, <1>8, <2>6 DEF Live
  <2>8. QED
    BY <2>2, <2>3, <2>4, <2>5, <2>6, <2>7 DEF Row
<1>9. Way(c)'
  <2>1. Way(c) /\ Made(c)' = Made(c)
    BY <1>3 DEF GateInv, Made
  <2>2. QED
    BY <1>3, <1>4, <2>1 DEF Way
<1>10. \A x \in calls' : Row(x)'
  BY <1>5, <1>6, <1>8, OthersKeep DEF Shape
<1>11. \A d \in Clients : Way(d)'
  BY <1>5, <1>9, OthersKeep
<1>12. QED
  BY <1>3, <1>6, <1>7, <1>10, <1>11, LogKept DEF GateInv

LEMMA VanishStep ==
    ASSUME GateInv, NEW c \in Clients, NEW slot \in Slots, Vanish(c, slot)
    PROVE  GateInv'
<1>1. Shape
  BY DEF GateInv
<1>2. /\ calls' = calls \ Sent(c, slot) /\ awaiting[c] # slot
      /\ log' = log /\ awaiting' = awaiting /\ faults' = faults
      /\ task' = task /\ base' = base /\ basis' = basis /\ doubt' = doubt
  BY DEF Vanish, client
<1>3. \A x \in Sent(c, slot) : x.client = c /\ ~Open(x)
  BY <1>2 DEF Sent, Open
<1>4. Others(c)
  BY <1>2, <1>3 DEF Others
<1>5. Shape' /\ Single'
  BY <1>1, <1>2 DEF Shape, GateInv, Single
<1>6. \A x \in calls : Open(x) => x \in calls' /\ Open(x)'
  BY <1>2, <1>3 DEF Open
<1>7. ASSUME NEW z \in calls'
      PROVE  Row(z)'
  <2>1. Row(z)
    BY <1>2 DEF GateInv
  <2>2. QED
    BY <1>2, <2>1 DEF Row, Writes, Named, Live, Open, Op, Says, Made
<1>8. ASSUME NEW d \in Clients
      PROVE  Way(d)'
  <2>1. Way(d) /\ Made(d)' = Made(d)
    BY <1>2 DEF GateInv, Made
  <2>2. awaiting'[d] # 0 => \E x \in calls' : x.client = d /\ Open(x)'
    BY <1>2, <1>6, <2>1 DEF Way
  <2>3. task'[d] = "write" /\ ~doubt'[d] /\ Made(d)' =>
            \E x \in calls' : x.client = d /\ Open(x)' /\ x.answer # None /\ x.answer.status = "ok"
    BY <1>2, <1>6, <2>1 DEF Way
  <2>4. QED
    BY <1>2, <2>1, <2>2, <2>3 DEF Way
<1>9. QED
  BY <1>2, <1>5, <1>7, <1>8, LogKept DEF GateInv
-----------------------------------------------------------------------------
(* A client takes the answer to its open request, and moves on to task t   *)
(* with base b, what it has read there s and doubt d.                      *)
Moved(c, x, t, b, s, d) ==
    /\ x.client = c /\ Open(x) /\ x.answer # None
    /\ calls' = calls \ {x} /\ awaiting' = [awaiting EXCEPT ![c] = 0]
    /\ log' = log /\ faults' = faults
    /\ task' = [task EXCEPT ![c] = t] /\ base' = [base EXCEPT ![c] = b]
    /\ basis' = [basis EXCEPT ![c] = s] /\ doubt' = [doubt EXCEPT ![c] = d]

(* It is right to do so.                                                   *)
Sound(c, x, t, b, s, d) ==
    /\ s # None => b # 0 /\ log[b] = s
    /\ Made(c) => b = base[c]
    /\ t = "read" => ~Made(c)
    /\ t = "settled" => Made(c)
    /\ t = "audit" => b < Len(log)
    /\ t = "write" /\ ~d => ~Made(c)
    /\ \A z \in calls :
          z.client = c /\ z # x /\ Writes(z) =>
              Named(z) < Len(log) \/ (Named(z) = b /\ t = "write" /\ d)

LEMMA Moving ==
    ASSUME GateInv, NEW c \in Clients, NEW x \in calls, NEW t \in Tasks, NEW b \in 0..Len(log),
           NEW s \in Clients \cup {None}, NEW d \in BOOLEAN,
           Moved(c, x, t, b, s, d), Sound(c, x, t, b, s, d)
    PROVE  GateInv'
<1>1. Shape /\ Len(log) \in Nat /\ b \in Nat
  BY DEF GateInv, Shape
<1>2. /\ x.client = c /\ Open(x) /\ x.answer # None
      /\ calls' = calls \ {x} /\ log' = log /\ faults' = faults
  BY DEF Moved
<1>3. awaiting'[c] = 0 /\ task'[c] = t /\ base'[c] = b /\ basis'[c] = s /\ doubt'[c] = d
  BY <1>1 DEF Moved, Shape
<1>4. \A e \in Clients \ {c} :
          /\ awaiting'[e] = awaiting[e] /\ task'[e] = task[e] /\ base'[e] = base[e]
          /\ basis'[e] = basis[e] /\ doubt'[e] = doubt[e]
  BY <1>1 DEF Moved, Shape
<1>5. Others(c)
  BY <1>2, <1>4 DEF Others
<1>6. Shape'
  BY <1>1 DEF Moved, Shape
<1>7. Single'
  BY <1>2 DEF GateInv, Single
<1>8. ASSUME NEW z \in calls', z.client = c
      PROVE  Row(z)'
  <2>1. z \in calls /\ z # x /\ z.slot # 0
    BY <1>1, <1>2, FaultsAssumption DEF Shape, Calls, Slots
  <2>2. ~Open(z) /\ z.answer = None
    BY <1>2, <1>8, <2>1, OneOpen
  <2>3. ~Open(z)'
    BY <1>3, <1>8, <2>1 DEF Open
  <2>4. QED
    BY <1>2, <1>3, <1>8, <2>1, <2>2, <2>3, Waiting DEF Sound
<1>9. Way(c)'
  <2>1. Made(c)' = Made(c)
    BY <1>2 DEF Made
  <2>2. QED
    BY <1>1, <1>2, <1>3, <2>1 DEF Way, Sound
<1>10. Placed'
  <2>1. ASSUME NEW i \in 1..Len(log)
        PROVE  base'[log[i]] = i - 1
    <3>1. base[log[i]] = i - 1 /\ log[i] \in Clients
      BY <1>1 DEF GateInv, Placed, Shape
    <3>2. log[i] = c => base'[c] = base[c]
      BY <1>3 DEF Sound, Made, Range
    <3>3. QED
      BY <1>4, <3>1, <3>2
  <2>2. QED
    BY <1>2, <2>1 DEF Placed
<1>11. \A z \in calls' : Row(z)'
  BY <1>5, <1>6, <1>8, OthersKeep DEF Shape
<1>12. \A e \in Clients : Way(e)'
  BY <1>5, <1>9, OthersKeep
<1>13. QED
  BY <1>6, <1>7, <1>10, <1>11, <1>12 DEF GateInv

(* What c knows when it is given an answer.                                *)
LEMMA Given ==
    ASSUME GateInv, NEW c \in Clients, NEW x \in calls,
           x.client = c, Open(x), x.answer # None
    PROVE  /\ x.answer \in Answers /\ Says(c, Op(c), x.answer)
           /\ task[c] = "write" /\ ~doubt[c] /\ Made(c) => x.answer.status = "ok"
           /\ \A z \in calls :
                 z.client = c /\ z # x /\ Writes(z) =>
                     \/ Named(z) < Len(log)
                     \/ Named(z) = base[c] /\ task[c] = "write" /\ doubt[c]
<1>1. Row(x) /\ Way(c) /\ x \in Calls
  BY DEF GateInv, Shape
<1>2. x.answer \in Answers /\ Says(c, Op(c), x.answer)
  BY <1>1 DEF Row, Calls
<1>3. ASSUME task[c] = "write", ~doubt[c], Made(c)
      PROVE  x.answer.status = "ok"
  BY <1>1, <1>3, OneOpen DEF Way
<1>4. ASSUME NEW z \in calls, z.client = c, z # x, Writes(z)
      PROVE  \/ Named(z) < Len(log)
             \/ Named(z) = base[c] /\ task[c] = "write" /\ doubt[c]
  BY <1>4, OneOpen DEF GateInv, Row, Live
<1>5. QED
  BY <1>2, <1>3, <1>4

(* What a step of the client leaves as it is.                              *)
LEMMA Stays ==
    ASSUME Shape, NEW c \in Clients
    PROVE  /\ [task EXCEPT ![c] = task[c]] = task
           /\ [base EXCEPT ![c] = base[c]] = base
           /\ [basis EXCEPT ![c] = basis[c]] = basis
           /\ [doubt EXCEPT ![c] = doubt[c]] = doubt
           /\ task[c] \in Tasks /\ base[c] \in Nat
           /\ basis[c] \in Clients \cup {None} /\ doubt[c] \in BOOLEAN
BY DEF Shape

(* The answer is taken.                                                    *)
Taken(c, x) ==
    /\ x.client = c /\ Open(x) /\ x.answer # None
    /\ calls' = calls \ {x} /\ awaiting' = [awaiting EXCEPT ![c] = 0]
    /\ UNCHANGED <<log, faults>>

LEMMA ReadingStep ==
    ASSUME GateInv, NEW c \in Clients, NEW x \in calls, Taken(c, x), task[c] = "read",
           HasRead(c, x.answer, x.answer.etag)
    PROVE  GateInv'
<1>1. Shape /\ Len(log) \in Nat /\ ~Made(c) /\ Op(c) = "get"
  BY DEF GateInv, Shape, Way, Op
<1>2. x.answer \in Answers /\ Says(c, Op(c), x.answer)
  BY Given DEF Taken
<1>3. \A z \in calls : z.client = c /\ z # x /\ Writes(z) => Named(z) < Len(log)
  BY Given DEF Taken
<1>4. "write" \in Tasks
  BY DEF Tasks
<1>5. CASE x.answer.status = "ok" /\ Rebase(c, x.answer.etag, x.answer.body)
  <2>1. x.answer.etag \in 1..Len(log) /\ x.answer.body = log[x.answer.etag]
    BY <1>1, <1>2, <1>5 DEF Says
  <2>2. x.answer.etag \in 0..Len(log) /\ x.answer.etag # 0 /\ x.answer.body \in Clients
    BY <1>1, <2>1 DEF Shape
  <2>3. Moved(c, x, "write", x.answer.etag, x.answer.body, FALSE)
    BY <1>5 DEF Moved, Taken, Rebase, Do
  <2>4. Sound(c, x, "write", x.answer.etag, x.answer.body, FALSE)
    BY <1>1, <1>3, <2>1, <2>2 DEF Sound
  <2>5. QED
    BY <1>4, <2>2, <2>3, <2>4, Moving
<1>6. CASE x.answer.status = "missing" /\ Rebase(c, 0, None)
  <2>1. Moved(c, x, "write", 0, None, FALSE)
    BY <1>6 DEF Moved, Taken, Rebase, Do
  <2>2. Sound(c, x, "write", 0, None, FALSE)
    BY <1>1, <1>3 DEF Sound
  <2>3. 0 \in 0..Len(log) /\ None \in Clients \cup {None} /\ FALSE \in BOOLEAN
    BY <1>1
  <2>4. QED
    BY <1>4, <2>1, <2>2, <2>3, Moving
<1>7. QED
  BY <1>5, <1>6 DEF HasRead

LEMMA WritingStep ==
    ASSUME GateInv, NEW c \in Clients, NEW x \in calls, Taken(c, x), task[c] = "write",
           HasWritten(c, x.answer, x.answer.etag)
    PROVE  GateInv'
<1>1. Shape /\ Len(log) \in Nat /\ Way(c) /\ Op(c) \in {"post", "put"}
  BY DEF GateInv, Shape, Op
<1>2. /\ x.answer \in Answers /\ Says(c, Op(c), x.answer)
      /\ ~doubt[c] /\ Made(c) => x.answer.status = "ok"
  BY Given DEF Taken
<1>3. \A z \in calls :
          z.client = c /\ z # x /\ Writes(z) => Named(z) < Len(log) \/ Named(z) = base[c]
  BY Given DEF Taken
<1>4. \A t \in {"read", "write", "settled", "audit"} : t \in Tasks
  BY DEF Tasks
<1>5. base[c] \in 0..Len(log) /\ basis[c] \in Clients \cup {None} /\ doubt[c] \in BOOLEAN
  BY <1>1 DEF Shape, Way
<1>6. basis[c] # None => base[c] # 0 /\ log[base[c]] = basis[c]
  BY <1>1 DEF Way
<1>7. ASSUME Made(c)
      PROVE  base[c] < Len(log)
  <2>1. PICK i \in 1..Len(log) : c = log[i]
    BY <1>7 DEF Made, Range
  <2>2. base[c] = i - 1
    BY <2>1 DEF GateInv, Placed
  <2>3. QED
    BY <1>1, <2>1, <2>2
<1>8. CASE x.answer.status = "ok" /\ Do(c, "settled") /\ UNCHANGED <<base, basis, doubt>>
  <2>1. Made(c)
    BY <1>1, <1>2, <1>8 DEF Says
  <2>2. Moved(c, x, "settled", base[c], basis[c], doubt[c])
    BY <1>1, <1>8, Stays DEF Moved, Taken, Do
  <2>3. \A z \in calls : z.client = c /\ z # x /\ Writes(z) => Named(z) < Len(log)
    BY <1>3, <1>7, <2>1
  <2>4. Sound(c, x, "settled", base[c], basis[c], doubt[c])
    BY <1>6, <2>1, <2>3 DEF Sound
  <2>5. QED
    BY <1>4, <1>5, <2>2, <2>4, Moving
<1>9. CASE x.answer.status \in {"stale", "exists"}
  <2>1. base[c] < Len(log)
    BY <1>2, <1>9 DEF Says
  <2>2. \A z \in calls : z.client = c /\ z # x /\ Writes(z) => Named(z) < Len(log)
    BY <1>3, <2>1
  <2>3. CASE Do(c, "audit") /\ UNCHANGED <<base, basis, doubt>>
    <3>1. Moved(c, x, "audit", base[c], basis[c], doubt[c])
      BY <1>1, <2>3, Stays DEF Moved, Taken, Do
    <3>2. Sound(c, x, "audit", base[c], basis[c], doubt[c])
      BY <1>6, <2>1, <2>2 DEF Sound
    <3>3. QED
      BY <1>4, <1>5, <3>1, <3>2, Moving
  <2>4. CASE ~doubt[c] /\ Do(c, "read") /\ UNCHANGED <<base, basis, doubt>>
    <3>1. ~Made(c)
      BY <1>2, <1>9, <2>4
    <3>2. Moved(c, x, "read", base[c], basis[c], doubt[c])
      BY <1>1, <2>4, Stays DEF Moved, Taken, Do
    <3>3. Sound(c, x, "read", base[c], basis[c], doubt[c])
      BY <1>6, <2>2, <3>1 DEF Sound
    <3>4. QED
      BY <1>4, <1>5, <3>2, <3>3, Moving
  <2>5. CASE x.answer.status = "stale" /\ ~doubt[c] /\ Rebase(c, x.answer.etag, None)
    <3>1. ~Made(c)
      BY <1>2, <2>5
    <3>2. x.answer.etag \in 0..Len(log)
      BY <1>2, <2>5 DEF Says
    <3>3. Moved(c, x, "write", x.answer.etag, None, FALSE)
      BY <2>5 DEF Moved, Taken, Rebase, Do
    <3>4. Sound(c, x, "write", x.answer.etag, None, FALSE)
      BY <2>2, <3>1 DEF Sound
    <3>5. QED
      BY <1>4, <3>2, <3>3, <3>4, Moving
  <2>6. QED
    BY <1>9, <2>3, <2>4, <2>5 DEF HasWritten
<1>10. QED
  BY <1>8, <1>9 DEF HasWritten

LEMMA AuditingStep ==
    ASSUME GateInv, NEW c \in Clients, NEW x \in calls, Taken(c, x), task[c] = "audit",
           HasAudited(c, x.answer)
    PROVE  GateInv'
<1>1. Shape /\ Len(log) \in Nat /\ Way(c) /\ Op(c) = "history"
  BY DEF GateInv, Shape, Op
<1>2. x.answer \in Answers /\ Says(c, Op(c), x.answer) /\ x.answer.status = "ok"
  BY Given DEF Taken, HasAudited
<1>3. \A z \in calls : z.client = c /\ z # x /\ Writes(z) => Named(z) < Len(log)
  BY Given DEF Taken
<1>4. base[c] \in 0..Len(log) /\ basis[c] \in Clients \cup {None} /\ doubt[c] \in BOOLEAN
  BY <1>1 DEF Shape, Way
<1>5. basis[c] # None => base[c] # 0 /\ log[base[c]] = basis[c]
  BY <1>1 DEF Way
<1> DEFINE past == x.answer.body
<1>6. /\ past \in Seq(Clients) /\ base[c] < Len(past) /\ Len(past) <= Len(log)
      /\ \A i \in 1..Len(past) : past[i] = log[i]
  BY <1>1, <1>2 DEF Says
<1>7. Recorded(c, past) <=> Made(c)
  <2>1. Len(past) \in Nat
    BY <1>6
  <2>2. /\ base[c] + 1 \in 1..Len(past) /\ base[c] + 1 \in 1..Len(log)
        /\ past[base[c] + 1] = log[base[c] + 1]
    BY <1>1, <1>4, <1>6, <2>1
  <2>3. ASSUME Recorded(c, past)
        PROVE  Made(c)
    <3>1. log[base[c] + 1] = c
      BY <2>2, <2>3 DEF Recorded
    <3>2. base[c] + 1 \in DOMAIN log
      BY <1>1, <2>2 DEF Shape
    <3>3. QED
      BY <3>1, <3>2 DEF Made, Range
  <2>4. ASSUME Made(c)
        PROVE  Recorded(c, past)
    <3>1. PICK i \in 1..Len(log) : c = log[i]
      BY <2>4 DEF Made, Range
    <3>2. base[c] = i - 1
      BY <3>1 DEF GateInv, Placed
    <3>3. i = base[c] + 1
      BY <1>1, <3>1, <3>2
    <3>4. QED
      BY <1>6, <2>2, <3>1, <3>3 DEF Recorded
  <2>5. QED
    BY <2>3, <2>4
<1> DEFINE next == IF Recorded(c, past) THEN "settled" ELSE "read"
<1>8. Do(c, next) /\ UNCHANGED <<base, basis, doubt>>
  BY DEF HasAudited
<1>9. Moved(c, x, next, base[c], basis[c], doubt[c])
  BY <1>1, <1>8, Stays DEF Moved, Taken, Do
<1>10. Sound(c, x, next, base[c], basis[c], doubt[c])
  BY <1>3, <1>5, <1>7 DEF Sound
<1>11. next \in Tasks
  BY DEF Tasks
<1> HIDE DEF next
<1>12. QED
  BY <1>4, <1>9, <1>10, <1>11, Moving

LEMMA FailedStep ==
    ASSUME GateInv, NEW c \in Clients, NEW x \in calls, Taken(c, x), HasFailed(c, x.answer)
    PROVE  GateInv'
<1> DEFINE d == doubt[c] \/ (task[c] = "write" /\ x.answer.status = "fault")
<1>1. Shape /\ Len(log) \in Nat /\ Way(c) /\ d \in BOOLEAN
  BY DEF GateInv, Shape
<1>2. x.answer.status # "ok"
  BY DEF HasFailed
<1>3. task[c] = "write" /\ ~doubt[c] => ~Made(c)
  BY <1>2, Given DEF Taken
<1>4. \A z \in calls :
          z.client = c /\ z # x /\ Writes(z) =>
              Named(z) < Len(log) \/ (Named(z) = base[c] /\ task[c] = "write" /\ doubt[c])
  BY Given DEF Taken
<1>5. /\ base[c] \in 0..Len(log) /\ basis[c] \in Clients \cup {None} /\ task[c] \in Tasks
  BY <1>1 DEF Shape, Way
<1>6. doubt' = [doubt EXCEPT ![c] = d] /\ UNCHANGED <<task, base, basis>>
  BY DEF HasFailed
<1>7. doubt[c] => d
  OBVIOUS
<1> HIDE DEF d
<1>8. Moved(c, x, task[c], base[c], basis[c], d)
  BY <1>1, <1>6, Stays DEF Moved, Taken
<1>9. Sound(c, x, task[c], base[c], basis[c], d)
  BY <1>1, <1>3, <1>4, <1>7 DEF Sound, Way
<1>10. QED
  BY <1>1, <1>5, <1>8, <1>9, Moving

LEMMA DeliverStep ==
    ASSUME GateInv, NEW c \in Clients, Deliver(c)
    PROVE  GateInv'
<1>1. PICK x \in calls :
          /\ Taken(c, x)
          /\ \/ task[c] = "read" /\ HasRead(c, x.answer, x.answer.etag)
             \/ task[c] = "write" /\ HasWritten(c, x.answer, x.answer.etag)
             \/ task[c] = "audit" /\ HasAudited(c, x.answer)
             \/ HasFailed(c, x.answer)
  BY DEF Deliver, Taken, Copied, ForwardedToClient
<1>2. QED
  BY <1>1, ReadingStep, WritingStep, AuditingStep, FailedStep
-----------------------------------------------------------------------------

LEMMA GateInit == Init => GateInv
<1> SUFFICES ASSUME Init
             PROVE  GateInv
  OBVIOUS
<1>1. Shape
  BY FaultsAssumption DEF Init, Shape, Tasks
<1>2. Len(log) = 0 /\ \A c : ~Made(c)
  BY DEF Init, Made, Range
<1>3. \A c \in Clients : Way(c)
  BY <1>2 DEF Init, Way
<1>4. QED
  BY <1>1, <1>2, <1>3 DEF Init, GateInv, Single, Placed

LEMMA GateStep == GateInv /\ [Next]_vars => GateInv'
<1> SUFFICES ASSUME GateInv, [Next]_vars
             PROVE  GateInv'
  OBVIOUS
<1>1. ASSUME NEW c \in Clients, NEW slot \in Slots,
             Serve(c, slot) \/ Fail(c, slot) \/ Vanish(c, slot)
      PROVE  GateInv'
  BY <1>1, ServeStep, FailStep, VanishStep
<1>2. ASSUME NEW c \in Clients, Send(c) \/ Mistake(c) \/ GiveUp(c) \/ Deliver(c)
      PROVE  GateInv'
  BY <1>2, SendStep, MistakeStep, GiveUpStep, DeliverStep
<1>3. CASE UNCHANGED vars
  BY <1>3 DEF vars, client, GateInv, Shape, Row, Way, Single, Placed, Writes, Named, Live, Says,
              Open, Op, Made
<1>4. QED
  BY <1>1, <1>2, <1>3 DEF Next

THEOREM GateInvariant == Spec => []GateInv
BY GateInit, GateStep, PTL DEF Spec

LEMMA GateTyped == GateInv => TypeOK
<1> SUFFICES ASSUME GateInv
             PROVE  TypeOK
  OBVIOUS
<1>1. Shape
  BY DEF GateInv
<1>2. \A x \in calls : x.answer # None => Open(x)
  BY DEF GateInv, Row
<1>3. ASSUME NEW c \in Clients
      PROVE  Cardinality({call \in calls : call.client = c /\ Open(call)})
                 = (IF awaiting[c] = 0 THEN 0 ELSE 1)
  <2> DEFINE S == {call \in calls : call.client = c /\ Open(call)}
  <2>1. CASE awaiting[c] = 0
    <3>1. \A x \in calls : x.slot # 0
      BY <1>1, FaultsAssumption DEF Shape, Calls, Slots
    <3>2. S = {}
      BY <2>1, <3>1 DEF Open
    <3>3. QED
      BY <2>1, <3>2, FS_EmptySet
  <2>2. CASE awaiting[c] # 0
    <3>1. PICK x \in calls : x.client = c /\ Open(x)
      BY <2>2 DEF GateInv, Way
    <3>2. S = {x}
      BY <3>1, OneOpen
    <3>3. QED
      BY <2>2, <3>2, FS_Singleton
  <2>3. QED
    BY <2>1, <2>2
<1>4. QED
  BY <1>1, <1>2, <1>3 DEF Shape, TypeOK

(* Every variable keeps to its type, a client has one open request at most,*)
(* and an answer is kept only for a client that waits for it.              *)
THEOREM Typing == Spec => []TypeOK
BY GateInvariant, GateTyped, PTL

LEMMA GatePlaced == GateInv => EditStandsWhereItClaims
<1> SUFFICES ASSUME GateInv, NEW i \in 1..Len(log)
             PROVE  /\ base[log[i]] = i - 1
                    /\ basis[log[i]] # None => basis[log[i]] = log[i - 1]
  BY DEF EditStandsWhereItClaims
<1>1. base[log[i]] = i - 1 /\ log[i] \in Clients
  BY DEF GateInv, Placed, Shape
<1>2. QED
  BY <1>1 DEF GateInv, Way

(* An edit follows exactly the version its client named, so no repetition  *)
(* and no late arrival makes it twice or overwrites another's unseen.      *)
THEOREM Standing == Spec => []EditStandsWhereItClaims
BY GateInvariant, GatePlaced, PTL

LEMMA GateFate == GateInv => FateIsKnown
BY DEF GateInv, Way, Made, FateIsKnown

(* A client that holds its edit for made or for refused is right.          *)
THEOREM Fate == Spec => []FateIsKnown
BY GateInvariant, GateFate, PTL

(* The service makes an edit, or leaves the log as it is.                  *)
LEMMA GateEdits ==
    ASSUME GateInv, [Next]_vars, log' # log
    PROVE  \E c \in Clients :
              /\ task[c] = "write" /\ base[c] = Len(log) /\ ~Made(c)
              /\ log' = Append(log, c)
              /\ UNCHANGED client
<1>1. PICK d \in Clients, slot \in Slots : Serve(d, slot)
  BY DEF Next, vars, Send, Mistake, Forward, GiveUp, Deliver, Fail, Vanish
<1>2. PICK x \in Sent(d, slot) : Create(x) \/ Update(x)
  BY <1>1 DEF Serve, Read, History
<1>3. x \in calls /\ x.answer = None /\ Shape /\ x.client \in Clients /\ UNCHANGED client
  BY <1>1, TheSent DEF GateInv, Serve
<1>4. log' = Append(log, x.client) /\ Writes(x) /\ Named(x) = Len(log)
  <2>1. Len(log) \in Nat
    BY <1>3 DEF Shape
  <2>2. CASE Create(x)
    <3>1. x.op = "post" /\ x.valid /\ log = <<>> /\ log' = <<x.client>>
      BY <2>2 DEF Create
    <3>2. QED
      BY <1>3, <3>1 DEF Writes, Named
  <2>3. CASE Update(x)
    <3>1. x.op = "put" /\ x.valid /\ Verdict(x.ifMatch) = "ok" /\ log' = Append(log, x.client)
      BY <2>3 DEF Update
    <3>2. x.ifMatch = Len(log)
      BY <3>1 DEF Verdict, Version
    <3>3. QED
      BY <1>3, <2>1, <3>1, <3>2 DEF Writes, Named
  <2>4. QED
    BY <1>2, <2>2, <2>3
<1>5. QED
  BY <1>3, <1>4, OnlyTheLive

LEMMA GateFinal ==
    GateInv /\ [Next]_vars =>
        [\A c \in Clients :
            c \in Range(log') \ Range(log) => task[c] = "write" /\ base[c] = Len(log)]_vars
<1> SUFFICES ASSUME GateInv, [Next]_vars, NEW c \in Clients, c \in Range(log'), ~Made(c)
             PROVE  task[c] = "write" /\ base[c] = Len(log)
  BY DEF Made
<1>1. PICK d \in Clients : /\ task[d] = "write" /\ base[d] = Len(log)
                          /\ log' = Append(log, d)
  BY GateEdits DEF Made
<1>2. c = d
  BY <1>1 DEF Made, Range, GateInv, Shape
<1>3. QED
  BY <1>1, <1>2

(* Once a client has been told that it lost, nothing it sent earlier is    *)
(* accepted any more.                                                      *)
THEOREM Final == Spec => RefusalIsFinal
BY GateInvariant, GateFinal, PTL DEF Spec, RefusalIsFinal

-----------------------------------------------------------------------------
(* What c does with an answer: it looks anew, or goes on with what it has. *)
Relooks(c) ==
    /\ task[c] # "settled" /\ task' = [task EXCEPT ![c] = "write"] /\ doubt'[c] = FALSE
    /\ \E version, seen :
          base' = [base EXCEPT ![c] = version] /\ basis' = [basis EXCEPT ![c] = seen]

GoesOn(c) ==
    /\ UNCHANGED <<base, basis>>
    /\ \E t \in Tasks : task' = [task EXCEPT ![c] = t] /\ (task[c] = "settled" => t = "settled")

LEMMA GateMoves ==
    ASSUME GateInv, NEW c \in Clients, Deliver(c)
    PROVE  log' = log /\ awaiting'[c] = 0 /\ (Relooks(c) \/ GoesOn(c))
<1>1. Shape
  BY DEF GateInv
<1>2. PICK x \in calls :
          /\ \/ task[c] = "read" /\ HasRead(c, x.answer, x.answer.etag)
             \/ task[c] = "write" /\ HasWritten(c, x.answer, x.answer.etag)
             \/ task[c] = "audit" /\ HasAudited(c, x.answer)
             \/ HasFailed(c, x.answer)
          /\ awaiting' = [awaiting EXCEPT ![c] = 0] /\ log' = log
  BY DEF Deliver, Copied, ForwardedToClient
<1>3. log' = log /\ awaiting'[c] = 0
  BY <1>1, <1>2 DEF Shape
<1>4. ASSUME NEW version, NEW seen, Rebase(c, version, seen), task[c] # "settled"
      PROVE  Relooks(c)
  BY <1>1, <1>4 DEF Rebase, Do, Shape, Relooks
<1>5. ASSUME NEW t \in Tasks, Do(c, t), UNCHANGED <<base, basis>>, task[c] # "settled"
      PROVE  GoesOn(c)
  BY <1>5 DEF Do, GoesOn
<1>6. "settled" \in Tasks /\ "audit" \in Tasks /\ "read" \in Tasks
  BY DEF Tasks
<1>7. CASE task[c] = "read" /\ HasRead(c, x.answer, x.answer.etag)
  <2>1. task[c] # "settled"
    BY <1>7
  <2>2. \/ Rebase(c, x.answer.etag, x.answer.body)
        \/ Rebase(c, 0, None)
    BY <1>7 DEF HasRead
  <2>3. QED
    BY <1>3, <1>4, <2>1, <2>2
<1>8. CASE task[c] = "write" /\ HasWritten(c, x.answer, x.answer.etag)
  <2>1. task[c] # "settled"
    BY <1>8
  <2>2. \/ /\ Do(c, "settled") \/ Do(c, "audit") \/ Do(c, "read")
           /\ UNCHANGED <<base, basis>>
        \/ Rebase(c, x.answer.etag, None)
    BY <1>8 DEF HasWritten
  <2>3. QED
    BY <1>3, <1>4, <1>5, <1>6, <2>1, <2>2
<1>9. CASE task[c] = "audit" /\ HasAudited(c, x.answer)
  <2>1. task[c] # "settled"
    BY <1>9
  <2>2. /\ Do(c, "settled") \/ Do(c, "read")
        /\ UNCHANGED <<base, basis>>
    BY <1>9 DEF HasAudited
  <2>3. QED
    BY <1>3, <1>5, <1>6, <2>1, <2>2
<1>10. CASE HasFailed(c, x.answer)
  <2>1. task' = task /\ UNCHANGED <<base, basis>>
    BY <1>10 DEF HasFailed
  <2>2. task' = [task EXCEPT ![c] = task[c]] /\ task[c] \in Tasks
    BY <1>1, <2>1 DEF Shape
  <2>3. QED
    BY <1>3, <2>1, <2>2 DEF GoesOn
<1>11. QED
  BY <1>2, <1>7, <1>8, <1>9, <1>10

LEMMA SameMade == \A c \in Clients : Edits!Made(c) <=> Made(c)
BY DEF Edits!Made, Edits!Range, Made, Range

Settled == {c \in Clients : task[c] = "settled"}

(* A client that has nothing open knows what became of its edit.           *)
LEMMA GateDelivers ==
    ASSUME GateInv, GateInv', NEW c \in Clients, Deliver(c)
    PROVE  Edits!Look(c) \/ Edits!Learn(c) \/ UNCHANGED Edits!vars
<1>1. Shape /\ Shape' /\ Way(c)' /\ log' = log /\ awaiting'[c] = 0
  BY GateMoves DEF GateInv
<1>2. PICK t \in Tasks :
          task' = [task EXCEPT ![c] = t] /\ (GoesOn(c) /\ task[c] = "settled" => t = "settled")
  BY GateMoves DEF Relooks, GoesOn, Tasks
<1>3. t = "settled" => Settled' = Settled \cup {c}
  BY <1>1, <1>2 DEF Settled, Shape
<1>4. task[c] # "settled" /\ t # "settled" => Settled' = Settled
  BY <1>1, <1>2 DEF Settled, Shape
<1>5. task'[c] = t /\ (Made(c)' <=> Made(c))
  BY <1>1, <1>2 DEF Shape, Made
<1>6. CASE GoesOn(c)
  <2> UNCHANGED <<base, basis>>
    BY <1>6 DEF GoesOn
  <2>1. CASE t = "settled"
    <3>1. Made(c)
      BY <1>1, <1>5, <2>1 DEF Way
    <3>2. QED
      BY <1>1, <1>3, <1>6, <2>1, <3>1, SameMade DEF Edits!Learn, Settled
  <2>2. CASE t # "settled"
    <3>1. task[c] # "settled"
      BY <1>2, <1>6, <2>2
    <3>2. QED
      BY <1>1, <1>4, <1>6, <2>2, <3>1 DEF Edits!vars, Settled
  <2>3. QED
    BY <2>1, <2>2
<1>7. CASE Relooks(c)
  <2>1. PICK version, seen :
              base' = [base EXCEPT ![c] = version] /\ basis' = [basis EXCEPT ![c] = seen]
    BY <1>7 DEF Relooks
  <2>2. base'[c] = version /\ basis'[c] = seen /\ version \in Nat
    BY <1>1, <2>1 DEF Shape
  <2>3. version \in 0..Len(log) /\ (seen # None => version # 0 /\ log[version] = seen)
    BY <1>1, <2>2 DEF Way, Shape
  <2>4. ~Made(c)
    <3>1. ~\E x \in calls' : x.client = c /\ Open(x)'
      BY <1>1, FaultsAssumption DEF Shape, Calls, Slots, Open
    <3>2. QED
      BY <1>1, <1>5, <1>7, <3>1 DEF Way, Relooks, Shape
  <2>5. seen \in {None} \cup {log[i] : i \in {version} \ {0}}
    BY <2>3
  <2>6. Settled' = Settled
    BY <1>1, <1>4, <1>5, <1>7 DEF Relooks, Shape
  <2>7. QED
    BY <1>1, <2>1, <2>3, <2>4, <2>5, <2>6, SameMade DEF Edits!Look, Settled
<1>8. QED
  BY <1>6, <1>7, GateMoves

LEMMA GateImplements == GateInv /\ GateInv' /\ [Next]_vars => [Edits!Next]_Edits!vars
<1> SUFFICES ASSUME GateInv, GateInv', [Next]_vars
             PROVE  Edits!Next \/ UNCHANGED Edits!vars
  OBVIOUS
<1>1. CASE log' # log
  <2>1. PICK c \in Clients :
          /\ base[c] = Len(log) /\ ~Made(c) /\ log' = Append(log, c) /\ UNCHANGED client
    BY <1>1, GateEdits
  <2>2. Edits!Edit(c)
    BY <2>1, SameMade DEF Edits!Edit, client
  <2>3. QED
    BY <2>2 DEF Edits!Next
<1>2. ASSUME NEW c \in Clients, Deliver(c)
      PROVE  Edits!Next \/ UNCHANGED Edits!vars
  BY <1>2, GateDelivers DEF Edits!Next
<1>3. CASE log' = log /\ ~\E c \in Clients : Deliver(c)
  <2>1. UNCHANGED <<task, base, basis>>
    BY <1>3 DEF Next, vars, client, Send, Mistake, Forward, GiveUp, Serve, Fail, Vanish
  <2>2. QED
    BY <1>3, <2>1 DEF Edits!vars
<1>4. QED
  BY <1>1, <1>2, <1>3

(* Requests that are sent twice, served late, lost or never answered leave *)
(* no trace in what the clients of an account see: their edits are made at *)
(* one instant each, on the version their client holds then.               *)
THEOREM ImplementsEdits == Spec => EditsSpec
<1>1. Init => Edits!Init
  BY DEF Init, Edits!Init
<1>2. QED
  BY <1>1, GateInvariant, GateImplements, PTL DEF Spec, EditsSpec, Edits!Spec
=============================================================================
