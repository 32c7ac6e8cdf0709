-------------------------- MODULE RequestPathProofs --------------------------
(***************************************************************************)
(* Proofs about RequestPath, for any users, ids, bodies and number of      *)
(* requests at a time: its types, that a profile is touched only for the   *)
(* subject of a verified token, and that one id spans the hop; and, for    *)
(* texts of any length, how far Validate tells the first of the faults     *)
(* that InvalidProfile documents, and which of them what is stored has.    *)
(***************************************************************************)
EXTENDS RequestPath, FiniteSetTheorems, TLAPS

AnyId == Ids \cup {Junk, None} \cup {Minted(r) : r \in Requests}

Shape ==
    /\ pc \in [Requests -> Steps]
    /\ target \in [Requests -> [path : DOMAIN ProfileRoutes, method : Methods] \cup {None}]
    /\ id \in [Requests -> AnyId]
    /\ subject \in [Requests -> Users \cup {None}]
    /\ hop \in [Requests -> [secret : {Secret, Junk, None}, user : Users \cup {None}, id : AnyId]]
    /\ span \in [Requests -> [Services -> AnyId]]
    /\ lines \in [Requests -> SUBSET [service : Services, id : AnyId]]
    /\ reply \in [Requests -> [status : Nat, owner : Users \cup {None}, id : AnyId]]
    /\ stored \in [Users -> Bodies \cup {None}]

(* Until the proxy has built it, there is no second hop; and only the      *)
(* proxy puts the secret into one, with the id and the subject it holds.   *)
Before(r) == pc[r] \in {"idle", "route", "authenticate", "forward"} => hop[r] = Nobody

Vouched(r) ==
    hop[r].secret = Secret =>
        /\ id[r] # None /\ hop[r].id = id[r]
        /\ subject[r] \in Users /\ hop[r].user = subject[r]

(* A request that came by the gateway has an id, and passes the guard.     *)
ByGateway(r) ==
    /\ pc[r] \in {"route", "authenticate", "forward", "relay", "respond"} => id[r] # None
    /\ pc[r] = "forward" => subject[r] \in Users
    /\ pc[r] = "guard" /\ id[r] # None => hop[r].secret = Secret
    /\ pc[r] \in {"serve", "echo"} => hop[r].secret = Secret

Fresh(r) ==
    pc[r] = "idle" => id[r] = None /\ lines[r] = {} /\ reply[r] = NoReply /\ span[r] = NoSpan

(* What is logged and told of it.                                          *)
Traced(r) ==
    /\ id[r] \in GivenIds(r) \cup {None}
    /\ pc[r] = "serve" => span[r]["profile"] = hop[r].id
    /\ \A line \in lines[r] :
          line.service = "profile" /\ id[r] # None => line.id = id[r]
    /\ pc[r] = "answered" /\ id[r] # None => reply[r].id = id[r]
    /\ pc[r] \in {"idle", "route", "authenticate"} => reply[r].owner = None
    /\ reply[r].owner \in {None, subject[r]}

IdsOf(r) ==
    /\ hop[r].id \in GivenIds(r) \cup {Junk, None}
    /\ \A s \in Services : span[r][s] \in GivenIds(r) \cup {None}
    /\ \A line \in lines[r] : line.id \in GivenIds(r) \cup {None}
    /\ reply[r].id \in GivenIds(r) \cup {Junk, None}

Way(r) == Before(r) /\ Vouched(r) /\ ByGateway(r) /\ Fresh(r) /\ Traced(r) /\ IdsOf(r)

PathInv == Shape /\ \A r \in Requests : Way(r)
-----------------------------------------------------------------------------
Row(q) == <<pc[q], target[q], id[q], subject[q], hop[q], span[q], lines[q], reply[q]>>

LEMMA InitPath == Init => PathInv
<1> SUFFICES ASSUME Init PROVE PathInv
  OBVIOUS
<1>1. None \in AnyId
  BY DEF AnyId
<1>2. Nobody.secret # Secret
  BY NamesAssumption DEF Nobody
<1>3. Shape
  BY <1>1 DEF Init, Shape, Steps, Nobody, NoReply, NoSpan
<1>4. ASSUME NEW r \in Requests PROVE Way(r)
  BY <1>2 DEF Init, Way, Before, Vouched, ByGateway, Fresh, Traced, IdsOf, GivenIds, NoReply,
     NoSpan, Nobody
<1>5. QED
  BY <1>3, <1>4 DEF PathInv

(* What holds of a request rests on nothing but its own row.               *)
LEMMA RowAlone ==
    ASSUME NEW q \in Requests, Way(q), Row(q)' = Row(q)
    PROVE  Way(q)'
<1>1. /\ pc'[q] = pc[q] /\ target'[q] = target[q] /\ id'[q] = id[q] /\ subject'[q] = subject[q]
      /\ hop'[q] = hop[q] /\ span'[q] = span[q] /\ lines'[q] = lines[q] /\ reply'[q] = reply[q]
  BY DEF Row
<1>2. Before(q)' /\ Vouched(q)' /\ ByGateway(q)' /\ Fresh(q)'
  BY <1>1 DEF Way, Before, Vouched, ByGateway, Fresh
<1>3. Traced(q)' /\ IdsOf(q)'
  BY <1>1 DEF Way, Traced, IdsOf, GivenIds
<1>4. QED
  BY <1>2, <1>3 DEF Way

(* Logging adds a line with the id of the span, and touches no other row.  *)
LEMMA Logged ==
    ASSUME Shape, NEW r \in Requests, NEW s \in Services, Log(r, s)
    PROVE  /\ lines' \in [Requests -> SUBSET [service : Services, id : AnyId]]
           /\ lines'[r] = lines[r] \cup {[service |-> s, id |-> span[r][s]]}
           /\ \A q \in Requests : q # r => lines'[q] = lines[q]
<1>1. span[r][s] \in AnyId
  BY DEF Shape
<1>2. [service |-> s, id |-> span[r][s]] \in [service : Services, id : AnyId]
  BY <1>1
<1>3. QED
  BY <1>2 DEF Log, Shape

(* A response says whose profile it is about, and carries no id yet.       *)
LEMMA Responded ==
    ASSUME Shape, NEW r \in Requests, NEW status \in Nat, NEW owner \in Users \cup {None},
           NEW step \in Steps, Respond(r, status, owner, step)
    PROVE  /\ reply' \in [Requests -> [status : Nat, owner : Users \cup {None}, id : AnyId]]
           /\ pc' \in [Requests -> Steps]
           /\ pc'[r] = step /\ reply'[r].owner = owner /\ reply'[r].id = None
           /\ \A q \in Requests : q # r => reply'[q] = reply[q] /\ pc'[q] = pc[q]
<1>1. None \in AnyId
  BY DEF AnyId
<1>2. QED
  BY <1>1 DEF Respond, Go, Shape

-----------------------------------------------------------------------------
LEMMA PropagateKeeps ==
    ASSUME PathInv, NEW r \in Requests, Propagate(r)
    PROVE  PathInv'
<1> USE DEF PathInv
<1>1. PICK quoted \in Ids \cup {Junk, None} :
         id' = [id EXCEPT ![r] = IF quoted \in Ids THEN quoted ELSE Minted(r)]
  BY DEF Propagate
<1>2. id'[r] \in GivenIds(r) /\ id'[r] # None /\ id'[r] \in AnyId
  BY <1>1, NamesAssumption DEF Shape, GivenIds, AnyId
<1>3. Shape'
  <2>1. id' \in [Requests -> AnyId]
    BY <1>1, <1>2 DEF Shape
  <2>2. pc' \in [Requests -> Steps]
    BY DEF Propagate, Go, Shape, Steps
  <2>3. QED
    BY <2>1, <2>2 DEF Propagate, Shape
<1>4. ASSUME NEW q \in Requests, q # r PROVE Way(q)'
  <2>1. Row(q)' = Row(q)
    BY <1>1, <1>4 DEF Propagate, Go, Shape, Row
  <2>2. QED
    BY <2>1, RowAlone
<1>5. Way(r)'
  <2>1. pc'[r] = "route" /\ pc[r] = "idle"
    BY DEF Propagate, Go, Shape
  <2>2. /\ lines'[r] = {} /\ hop'[r] = Nobody /\ reply'[r] = NoReply /\ span'[r] = NoSpan
    BY <2>1 DEF Propagate, Way, Before, Fresh
  <2>3. Nobody.secret # Secret
    BY NamesAssumption DEF Nobody
  <2>4. Before(r)' /\ Vouched(r)' /\ ByGateway(r)' /\ Fresh(r)'
    BY <1>2, <2>1, <2>2, <2>3 DEF Before, Vouched, ByGateway, Fresh
  <2>5. Traced(r)' /\ IdsOf(r)'
    BY <1>2, <2>1, <2>2 DEF Traced, IdsOf, GivenIds, Nobody, NoReply, NoSpan
  <2>6. QED
    BY <2>4, <2>5 DEF Way
<1>6. QED
  BY <1>3, <1>4, <1>5

(* A step that answers a request of the gateway without the second hop, or *)
(* takes it on to the next layer.                                          *)
LEMMA RouteKeeps ==
    ASSUME PathInv, NEW r \in Requests, Route(r)
    PROVE  PathInv'
<1> USE DEF PathInv
<1>1. /\ UNCHANGED <<id, subject, hop, span, lines, stored>>
      /\ pc[r] = "route" /\ id[r] # None /\ hop[r] = Nobody
  BY DEF Route, Way, ByGateway, Before
<1>2. \/ \E status \in Nat : Respond(r, status, None, "respond") /\ UNCHANGED target
      \/ \E path \in DOMAIN ProfileRoutes, method \in Methods :
            /\ target' = [target EXCEPT ![r] = [path |-> path, method |-> method]]
            /\ Go(r, "authenticate") /\ UNCHANGED reply
  BY DEF Route, LoginStatuses
<1>3. Nobody.secret # Secret
  BY NamesAssumption DEF Nobody
<1>4. CASE \E status \in Nat : Respond(r, status, None, "respond") /\ UNCHANGED target
  <2>1. PICK status \in Nat : Respond(r, status, None, "respond") /\ UNCHANGED target
    BY <1>4
  <2>2. /\ reply' \in [Requests -> [status : Nat, owner : Users \cup {None}, id : AnyId]]
        /\ pc' \in [Requests -> Steps]
        /\ pc'[r] = "respond" /\ reply'[r].owner = None /\ reply'[r].id = None
        /\ \A q \in Requests : q # r => reply'[q] = reply[q] /\ pc'[q] = pc[q]
    BY <2>1, Responded DEF Steps
  <2>3. Shape'
    BY <1>1, <2>1, <2>2 DEF Shape
  <2>4. ASSUME NEW q \in Requests, q # r PROVE Way(q)'
    <3>1. Row(q)' = Row(q)
      BY <1>1, <2>1, <2>2, <2>4 DEF Row
    <3>2. QED
      BY <3>1, RowAlone
  <2>5. Before(r)' /\ Vouched(r)' /\ ByGateway(r)' /\ Fresh(r)'
    BY <1>1, <1>3, <2>2 DEF Before, Vouched, ByGateway, Fresh
  <2>6. Traced(r)' /\ IdsOf(r)'
    BY <1>1, <2>2 DEF Way, Traced, IdsOf, GivenIds
  <2>7. QED
    BY <2>3, <2>4, <2>5, <2>6 DEF Way
<1>5. CASE \E path \in DOMAIN ProfileRoutes, method \in Methods :
            /\ target' = [target EXCEPT ![r] = [path |-> path, method |-> method]]
            /\ Go(r, "authenticate") /\ UNCHANGED reply
  <2>1. PICK path \in DOMAIN ProfileRoutes, method \in Methods :
            /\ target' = [target EXCEPT ![r] = [path |-> path, method |-> method]]
            /\ Go(r, "authenticate") /\ UNCHANGED reply
    BY <1>5
  <2>2. /\ pc' \in [Requests -> Steps] /\ pc'[r] = "authenticate"
        /\ \A q \in Requests : q # r => pc'[q] = pc[q] /\ target'[q] = target[q]
    BY <2>1 DEF Shape, Go, Steps
  <2>3. Shape'
    <3>1. target' \in [Requests -> [path : DOMAIN ProfileRoutes, method : Methods] \cup {None}]
      BY <2>1 DEF Shape
    <3>2. QED
      BY <1>1, <2>1, <2>2, <3>1 DEF Shape
  <2>4. ASSUME NEW q \in Requests, q # r PROVE Way(q)'
    <3>1. Row(q)' = Row(q)
      BY <1>1, <2>1, <2>2, <2>4 DEF Row
    <3>2. QED
      BY <3>1, RowAlone
  <2>5. Before(r)' /\ Vouched(r)' /\ ByGateway(r)' /\ Fresh(r)'
    BY <1>1, <1>3, <2>2 DEF Before, Vouched, ByGateway, Fresh
  <2>6. Traced(r)' /\ IdsOf(r)'
    BY <1>1, <2>1, <2>2 DEF Way, Traced, IdsOf, GivenIds
  <2>7. QED
    BY <2>3, <2>4, <2>5, <2>6 DEF Way
<1>6. QED
  BY <1>2, <1>4, <1>5

LEMMA AuthenticateKeeps ==
    ASSUME PathInv, NEW r \in Requests, Authenticate(r)
    PROVE  PathInv'
<1> USE DEF PathInv
<1>1. /\ UNCHANGED <<target, id, hop, span, stored>>
      /\ pc[r] = "authenticate" /\ id[r] # None /\ hop[r] = Nobody
  BY DEF Authenticate, Way, ByGateway, Before
<1>2. Nobody.secret # Secret
  BY NamesAssumption DEF Nobody
<1>3. CASE Respond(r, 401, None, "respond") /\ Log(r, "auth") /\ UNCHANGED subject
  <2>1. /\ reply' \in [Requests -> [status : Nat, owner : Users \cup {None}, id : AnyId]]
        /\ pc' \in [Requests -> Steps]
        /\ pc'[r] = "respond" /\ reply'[r].owner = None /\ reply'[r].id = None
        /\ \A q \in Requests : q # r => reply'[q] = reply[q] /\ pc'[q] = pc[q]
    BY <1>3, Responded DEF Steps
  <2>2. /\ lines' \in [Requests -> SUBSET [service : Services, id : AnyId]]
        /\ lines'[r] = lines[r] \cup {[service |-> "auth", id |-> span[r]["auth"]]}
        /\ \A q \in Requests : q # r => lines'[q] = lines[q]
    BY <1>3, Logged DEF Services
  <2>3. Shape'
    BY <1>1, <1>3, <2>1, <2>2 DEF Shape
  <2>4. ASSUME NEW q \in Requests, q # r PROVE Way(q)'
    <3>1. Row(q)' = Row(q)
      BY <1>1, <1>3, <2>1, <2>2, <2>4 DEF Row
    <3>2. QED
      BY <3>1, RowAlone
  <2>5. Before(r)' /\ Vouched(r)' /\ ByGateway(r)' /\ Fresh(r)'
    BY <1>1, <1>2, <2>1 DEF Before, Vouched, ByGateway, Fresh
  <2>6. Traced(r)' /\ IdsOf(r)'
    BY <1>1, <1>3, <2>1, <2>2 DEF Way, Traced, IdsOf, GivenIds, Services
  <2>7. QED
    BY <2>3, <2>4, <2>5, <2>6 DEF Way
<1>4. CASE \E user \in Users :
              /\ subject' = [subject EXCEPT ![r] = user]
              /\ Go(r, "forward") /\ UNCHANGED <<lines, reply>>
  <2>1. PICK user \in Users :
              /\ subject' = [subject EXCEPT ![r] = user]
              /\ Go(r, "forward") /\ UNCHANGED <<lines, reply>>
    BY <1>4
  <2>2. /\ pc' \in [Requests -> Steps] /\ pc'[r] = "forward"
        /\ subject' \in [Requests -> Users \cup {None}] /\ subject'[r] = user
        /\ \A q \in Requests : q # r => pc'[q] = pc[q] /\ subject'[q] = subject[q]
    BY <2>1 DEF Shape, Go, Steps
  <2>3. Shape'
    BY <1>1, <2>1, <2>2 DEF Shape
  <2>4. ASSUME NEW q \in Requests, q # r PROVE Way(q)'
    <3>1. Row(q)' = Row(q)
      BY <1>1, <2>1, <2>2, <2>4 DEF Row
    <3>2. QED
      BY <3>1, RowAlone
  <2>5. Before(r)' /\ Vouched(r)' /\ ByGateway(r)' /\ Fresh(r)'
    BY <1>1, <1>2, <2>2 DEF Before, Vouched, ByGateway, Fresh
  <2>6. Traced(r)' /\ IdsOf(r)'
    BY <1>1, <2>1, <2>2 DEF Way, Traced, IdsOf, GivenIds
  <2>7. QED
    BY <2>3, <2>4, <2>5, <2>6 DEF Way
<1>5. QED
  BY <1>3, <1>4 DEF Authenticate
LEMMA ForwardKeeps ==
    ASSUME PathInv, NEW r \in Requests, Forward(r)
    PROVE  PathInv'
<1> USE DEF PathInv
<1>1. /\ UNCHANGED <<target, id, subject, span, stored>>
      /\ pc[r] = "forward" /\ id[r] # None /\ hop[r] = Nobody
      /\ subject[r] \in Users
  BY DEF Forward, Way, ByGateway, Before
<1>2. Nobody.secret # Secret
  BY NamesAssumption DEF Nobody
<1>3. CASE Respond(r, 502, None, "respond") /\ Log(r, "auth") /\ UNCHANGED hop
  <2>1. /\ reply' \in [Requests -> [status : Nat, owner : Users \cup {None}, id : AnyId]]
        /\ pc' \in [Requests -> Steps]
        /\ pc'[r] = "respond" /\ reply'[r].owner = None /\ reply'[r].id = None
        /\ \A q \in Requests : q # r => reply'[q] = reply[q] /\ pc'[q] = pc[q]
    BY <1>3, Responded DEF Steps
  <2>2. /\ lines' \in [Requests -> SUBSET [service : Services, id : AnyId]]
        /\ lines'[r] = lines[r] \cup {[service |-> "auth", id |-> span[r]["auth"]]}
        /\ \A q \in Requests : q # r => lines'[q] = lines[q]
    BY <1>3, Logged DEF Services
  <2>3. Shape'
    BY <1>1, <1>3, <2>1, <2>2 DEF Shape
  <2>4. ASSUME NEW q \in Requests, q # r PROVE Way(q)'
    <3>1. Row(q)' = Row(q)
      BY <1>1, <1>3, <2>1, <2>2, <2>4 DEF Row
    <3>2. QED
      BY <3>1, RowAlone
  <2>5. Before(r)' /\ Vouched(r)' /\ ByGateway(r)' /\ Fresh(r)'
    BY <1>1, <1>2, <1>3, <2>1 DEF Before, Vouched, ByGateway, Fresh
  <2>6. Traced(r)' /\ IdsOf(r)'
    BY <1>1, <1>3, <2>1, <2>2 DEF Way, Traced, IdsOf, GivenIds, Services
  <2>7. QED
    BY <2>3, <2>4, <2>5, <2>6 DEF Way
<1>4. CASE /\ \E claimed \in Users \cup {None}, guess \in {Junk, None} :
                hop' = [hop EXCEPT ![r] =
                           [secret |-> Header("x-internal-token", Secret, guess),
                            user |-> Header("x-user-id", subject[r], claimed),
                            id |-> Header("x-request-id", id[r], None)]]
           /\ Go(r, "guard") /\ UNCHANGED <<lines, reply>>
  <2> DEFINE built == [secret |-> Secret, user |-> subject[r], id |-> id[r]]
  (* The proxy's own value is the first, whatever the client's is.         *)
  <2>1. hop' = [hop EXCEPT ![r] = built]
    <3>1. Secret # None /\ subject[r] # None
      BY <1>1, NamesAssumption
    <3>2. QED
      BY <1>1, <1>4, <3>1 DEF Header
  <2>2. built \in [secret : {Secret, Junk, None}, user : Users \cup {None}, id : AnyId]
    BY <1>1 DEF Shape
  <2>3. /\ hop' \in [Requests -> [secret : {Secret, Junk, None}, user : Users \cup {None}, id : AnyId]]
        /\ hop'[r] = built
        /\ pc' \in [Requests -> Steps] /\ pc'[r] = "guard"
        /\ \A q \in Requests : q # r => pc'[q] = pc[q] /\ hop'[q] = hop[q]
    <3> HIDE DEF built
    <3>1. QED
      BY <1>4, <2>1, <2>2 DEF Shape, Go, Steps
  <2>4. Shape'
    BY <1>1, <1>4, <2>3 DEF Shape
  <2>5. ASSUME NEW q \in Requests, q # r PROVE Way(q)'
    <3>1. Row(q)' = Row(q)
      BY <1>1, <1>4, <2>3, <2>5 DEF Row
    <3>2. QED
      BY <3>1, RowAlone
  <2>6. Before(r)' /\ Vouched(r)' /\ ByGateway(r)' /\ Fresh(r)'
    BY <1>1, <1>4, <2>3 DEF Before, Vouched, ByGateway, Fresh
  <2>7. Traced(r)' /\ IdsOf(r)'
    BY <1>1, <1>4, <2>3 DEF Way, Traced, IdsOf, GivenIds
  <2>8. QED
    BY <2>4, <2>5, <2>6, <2>7 DEF Way
<1>5. QED
  BY <1>3, <1>4 DEF Forward

(* Whoever leaves the gateway out does not have the secret.                *)
LEMMA DirectKeeps ==
    ASSUME PathInv, NEW r \in Requests, Direct(r)
    PROVE  PathInv'
<1> USE DEF PathInv
<1>1. /\ UNCHANGED <<id, subject, span, lines, stored>>
      /\ pc[r] = "idle" /\ id[r] = None /\ lines[r] = {} /\ span[r] = NoSpan /\ reply[r] = NoReply
  BY DEF Direct, Way, Fresh
<1>2. PICK user \in Users \cup {None}, secret \in {Junk, None}, quoted \in Ids \cup {Junk, None} :
         hop' = [hop EXCEPT ![r] = [secret |-> secret, user |-> user, id |-> quoted]]
  BY DEF Direct
<1>3. /\ hop' \in [Requests -> [secret : {Secret, Junk, None}, user : Users \cup {None}, id : AnyId]]
      /\ hop'[r].secret # Secret /\ hop'[r].id \in Ids \cup {Junk, None}
      /\ \A q \in Requests : q # r => hop'[q] = hop[q]
  <2>1. quoted \in AnyId
    BY DEF AnyId
  <2>2. secret # Secret
    BY NamesAssumption
  <2>3. QED
    BY <1>2, <2>1, <2>2 DEF Shape
<1>4. /\ pc' \in [Requests -> Steps] /\ pc'[r] \in {"answered", "guard"}
      /\ target' \in [Requests -> [path : DOMAIN ProfileRoutes, method : Methods] \cup {None}]
      /\ reply' \in [Requests -> [status : Nat, owner : Users \cup {None}, id : AnyId]]
      /\ reply'[r].owner = None /\ reply'[r].id = None
      /\ \A q \in Requests : q # r => pc'[q] = pc[q] /\ target'[q] = target[q] /\ reply'[q] = reply[q]
  <2>1. CASE Respond(r, 200, None, "answered") /\ UNCHANGED target
    BY <2>1, Responded DEF Steps, Shape
  <2>2. CASE /\ \E path \in DOMAIN ProfileRoutes, method \in Methods :
                   target' = [target EXCEPT ![r] = [path |-> path, method |-> method]]
             /\ Go(r, "guard") /\ UNCHANGED reply
    BY <1>1, <2>2 DEF Shape, Go, Steps, NoReply
  <2>3. QED
    BY <2>1, <2>2 DEF Direct
<1>5. Shape'
  BY <1>1, <1>3, <1>4 DEF Shape
<1>6. ASSUME NEW q \in Requests, q # r PROVE Way(q)'
  <2>1. Row(q)' = Row(q)
    BY <1>1, <1>3, <1>4, <1>6 DEF Row
  <2>2. QED
    BY <2>1, RowAlone
<1>7. Before(r)' /\ Vouched(r)' /\ ByGateway(r)' /\ Fresh(r)'
  BY <1>1, <1>3, <1>4 DEF Before, Vouched, ByGateway, Fresh
<1>8. Traced(r)' /\ IdsOf(r)'
  BY <1>1, <1>3, <1>4 DEF Way, Traced, IdsOf, GivenIds
<1>9. QED
  BY <1>5, <1>6, <1>7, <1>8 DEF Way

LEMMA GuardKeeps ==
    ASSUME PathInv, NEW r \in Requests, Guard(r)
    PROVE  PathInv'
<1> USE DEF PathInv
<1>1. UNCHANGED <<target, id, subject, hop, stored>> /\ pc[r] = "guard"
  BY DEF Guard
<1>2. CASE /\ hop[r].secret # Secret
           /\ Respond(r, 403, None, Back(r)) /\ Log(r, "profile") /\ UNCHANGED span
  <2>1. id[r] = None /\ Back(r) = "answered"
    BY <1>1, <1>2 DEF Way, ByGateway, Back
  <2>2. /\ reply' \in [Requests -> [status : Nat, owner : Users \cup {None}, id : AnyId]]
        /\ pc' \in [Requests -> Steps]
        /\ pc'[r] = "answered" /\ reply'[r].owner = None /\ reply'[r].id = None
        /\ \A q \in Requests : q # r => reply'[q] = reply[q] /\ pc'[q] = pc[q]
    BY <1>2, <2>1, Responded DEF Steps
  <2>3. /\ lines' \in [Requests -> SUBSET [service : Services, id : AnyId]]
        /\ lines'[r] = lines[r] \cup {[service |-> "profile", id |-> span[r]["profile"]]}
        /\ \A q \in Requests : q # r => lines'[q] = lines[q]
    BY <1>2, Logged DEF Services
  <2>4. Shape'
    BY <1>1, <1>2, <2>2, <2>3 DEF Shape
  <2>5. ASSUME NEW q \in Requests, q # r PROVE Way(q)'
    <3>1. Row(q)' = Row(q)
      BY <1>1, <1>2, <2>2, <2>3, <2>5 DEF Row
    <3>2. QED
      BY <3>1, RowAlone
  <2>6. Before(r)' /\ Vouched(r)' /\ ByGateway(r)' /\ Fresh(r)'
    BY <1>1, <1>2, <2>1, <2>2 DEF Before, Vouched, ByGateway, Fresh
  <2>7. Traced(r)' /\ IdsOf(r)'
    BY <1>1, <1>2, <2>1, <2>2, <2>3 DEF Way, Traced, IdsOf, GivenIds, Services
  <2>8. QED
    BY <2>4, <2>5, <2>6, <2>7 DEF Way
<1>3. CASE /\ hop[r].secret = Secret
           /\ span' = [span EXCEPT ![r].profile = hop[r].id]
           /\ Go(r, "serve") /\ UNCHANGED <<lines, reply>>
  <2>1. /\ span' \in [Requests -> [Services -> AnyId]]
        /\ span'[r]["profile"] = hop[r].id /\ span'[r]["auth"] = span[r]["auth"]
        /\ \A q \in Requests : q # r => span'[q] = span[q]
    <3>1. hop[r].id \in AnyId
      BY DEF Shape
    <3>2. [span[r] EXCEPT !["profile"] = hop[r].id] \in [Services -> AnyId]
      BY <3>1 DEF Shape
    <3>3. span' = [span EXCEPT ![r] = [span[r] EXCEPT !["profile"] = hop[r].id]]
      BY <1>3 DEF Shape
    <3>4. "profile" \in DOMAIN span[r] /\ "auth" \in DOMAIN span[r]
      BY DEF Shape, Services
    <3>5. QED
      BY <3>2, <3>3, <3>4 DEF Shape
  <2>2. /\ pc' \in [Requests -> Steps] /\ pc'[r] = "serve"
        /\ \A q \in Requests : q # r => pc'[q] = pc[q]
    BY <1>3 DEF Shape, Go, Steps
  <2>3. Shape'
    BY <1>1, <1>3, <2>1, <2>2 DEF Shape
  <2>4. ASSUME NEW q \in Requests, q # r PROVE Way(q)'
    <3>1. Row(q)' = Row(q)
      BY <1>1, <1>3, <2>1, <2>2, <2>4 DEF Row
    <3>2. QED
      BY <3>1, RowAlone
  <2>5. Before(r)' /\ Vouched(r)' /\ ByGateway(r)' /\ Fresh(r)'
    BY <1>1, <1>3, <2>2 DEF Way, Before, Vouched, ByGateway, Fresh
  <2>6. hop[r].id = id[r] /\ id[r] # None
    BY <1>3 DEF Way, Vouched
  <2>7. Traced(r)' /\ IdsOf(r)'
    BY <1>1, <1>3, <2>1, <2>2, <2>6 DEF Way, Traced, IdsOf, GivenIds, Services
  <2>8. QED
    BY <2>3, <2>4, <2>5, <2>7 DEF Way
<1>4. QED
  BY <1>2, <1>3 DEF Guard
(* Whatever a handler makes of it, a request is answered about its caller, *)
(* at most one line is logged, and at most its caller's profile changes.   *)
LEMMA Served ==
    ASSUME NEW r \in Requests, Serve(r)
    PROVE  /\ pc[r] = "serve" /\ UNCHANGED <<target, id, subject, hop, span>>
           /\ \E status \in Nat, owner \in {None, Caller(r)} : Respond(r, status, owner, "echo")
           /\ Log(r, "profile") \/ UNCHANGED lines
           /\ UNCHANGED stored \/ \E input \in Bodies : stored' = [stored EXCEPT ![Caller(r)] = input]
<1> DEFINE Done ==
      /\ \E status \in Nat, owner \in {None, Caller(r)} : Respond(r, status, owner, "echo")
      /\ Log(r, "profile") \/ UNCHANGED lines
      /\ UNCHANGED stored \/ \E input \in Bodies : stored' = [stored EXCEPT ![Caller(r)] = input]
<1>0. SUFFICES Done
  BY DEF Serve
<1>1. ASSUME NEW status \in Nat, Refuse(r, status) PROVE Done
  BY <1>1 DEF Refuse
<1>2. ASSUME NEW status \in Nat, NEW input \in Bodies, Write(r, input, status) PROVE Done
  BY <1>2 DEF Write
<1>3. CASE \E input \in Bodies : Create(r, input)
  <2> HIDE DEF Done
  <2>1. QED
    BY <1>1, <1>2, <1>3 DEF Create
<1>4. CASE \E input \in Bodies : Update(r, input)
  <2> HIDE DEF Done
  <2>1. PICK input \in Bodies :
           \/ \E status \in Nat : Refuse(r, status)
           \/ Write(r, input, 200)
    BY <1>4 DEF Update
  <2>2. QED
    BY <1>1, <1>2, <2>1
<1>5. CASE Read(r)
  <2>1. CASE Refuse(r, 404)
    <3> HIDE DEF Done
    <3>1. QED
      BY <1>1, <2>1
  <2>2. CASE Respond(r, 200, Caller(r), "echo") /\ UNCHANGED <<lines, stored>>
    BY <2>2
  <2>3. QED
    BY <1>5, <2>1, <2>2 DEF Read
<1>6. CASE Fail(r)
  <2>1. ASSUME NEW status \in Nat, Unread(r, status) PROVE Done
    BY <2>1 DEF Unread
  <2> HIDE DEF Done
  <2>2. QED
    BY <1>1, <1>6, <2>1 DEF Fail
<1>7. QED
  BY <1>3, <1>4, <1>5, <1>6 DEF Serve

LEMMA ServeKeeps ==
    ASSUME PathInv, NEW r \in Requests, Serve(r)
    PROVE  PathInv'
<1> USE DEF PathInv
<1>1. /\ pc[r] = "serve" /\ UNCHANGED <<target, id, subject, hop, span>>
      /\ Log(r, "profile") \/ UNCHANGED lines
      /\ UNCHANGED stored \/ \E input \in Bodies : stored' = [stored EXCEPT ![Caller(r)] = input]
  BY Served
<1>2. /\ hop[r].secret = Secret /\ hop[r].id = id[r] /\ id[r] # None
      /\ Caller(r) = subject[r] /\ hop[r].user = subject[r] /\ subject[r] \in Users
      /\ span[r]["profile"] = id[r]
  BY <1>1 DEF Way, Vouched, ByGateway, Traced, Caller
<1>3. PICK status \in Nat, owner \in {None, Caller(r)} : Respond(r, status, owner, "echo")
  BY Served
<1>4. /\ reply' \in [Requests -> [status : Nat, owner : Users \cup {None}, id : AnyId]]
      /\ pc' \in [Requests -> Steps]
      /\ pc'[r] = "echo" /\ reply'[r].owner \in {None, subject[r]} /\ reply'[r].id = None
      /\ \A q \in Requests : q # r => reply'[q] = reply[q] /\ pc'[q] = pc[q]
  BY <1>2, <1>3, Responded DEF Steps
<1>5. /\ lines' \in [Requests -> SUBSET [service : Services, id : AnyId]]
      /\ \A line \in lines'[r] : line \in lines[r] \/ line.id = id[r]
      /\ \A q \in Requests : q # r => lines'[q] = lines[q]
  <2>1. CASE Log(r, "profile")
    <3>1. /\ lines' \in [Requests -> SUBSET [service : Services, id : AnyId]]
          /\ lines'[r] = lines[r] \cup {[service |-> "profile", id |-> span[r]["profile"]]}
          /\ \A q \in Requests : q # r => lines'[q] = lines[q]
      BY <2>1, Logged DEF Services
    <3>2. QED
      BY <1>2, <3>1
  <2>2. CASE UNCHANGED lines
    BY <2>2 DEF Shape
  <2>3. QED
    BY <1>1, <2>1, <2>2
<1>6. stored' \in [Users -> Bodies \cup {None}]
  BY <1>1 DEF Shape
<1>7. Shape'
  BY <1>1, <1>4, <1>5, <1>6 DEF Shape
<1>8. ASSUME NEW q \in Requests, q # r PROVE Way(q)'
  <2>1. Row(q)' = Row(q)
    BY <1>1, <1>4, <1>5, <1>8 DEF Row
  <2>2. QED
    BY <2>1, RowAlone
<1>9. Before(r)' /\ Vouched(r)' /\ ByGateway(r)' /\ Fresh(r)'
  BY <1>1, <1>2, <1>4 DEF Before, Vouched, ByGateway, Fresh
<1>10. Traced(r)' /\ IdsOf(r)'
  BY <1>1, <1>2, <1>4, <1>5 DEF Way, Traced, IdsOf, GivenIds
<1>11. QED
  BY <1>7, <1>8, <1>9, <1>10 DEF Way

(* The steps back to the client change the id of the reply and no more.    *)
LEMMA StampKeeps ==
    ASSUME PathInv, NEW r \in Requests, NEW stamp \in AnyId, NEW step \in Steps,
           reply' = [reply EXCEPT ![r].id = stamp], Go(r, step),
           UNCHANGED <<target, id, subject, hop, span, lines, stored>>,
           stamp \in GivenIds(r) \cup {Junk, None},
           pc[r] \notin {"idle", "route", "authenticate", "forward"},
           step \in {"relay", "respond", "answered"},
           step # "answered" => id[r] # None,
           step = "answered" /\ id[r] # None => stamp = id[r]
    PROVE  PathInv'
<1> USE DEF PathInv
<1>1. /\ reply' \in [Requests -> [status : Nat, owner : Users \cup {None}, id : AnyId]]
      /\ reply'[r].owner = reply[r].owner /\ reply'[r].id = stamp
      /\ \A q \in Requests : q # r => reply'[q] = reply[q]
  BY DEF Shape
<1>2. /\ pc' \in [Requests -> Steps] /\ pc'[r] = step
      /\ \A q \in Requests : q # r => pc'[q] = pc[q]
  BY DEF Shape, Go
<1>3. Shape'
  BY <1>1, <1>2 DEF Shape
<1>4. ASSUME NEW q \in Requests, q # r PROVE Way(q)'
  <2>1. Row(q)' = Row(q)
    BY <1>1, <1>2, <1>4 DEF Row
  <2>2. QED
    BY <2>1, RowAlone
<1>5. Before(r)' /\ Vouched(r)' /\ ByGateway(r)' /\ Fresh(r)'
  BY <1>1, <1>2 DEF Way, Before, Vouched, ByGateway, Fresh
<1>6. Traced(r)' /\ IdsOf(r)'
  BY <1>1, <1>2 DEF Way, Traced, IdsOf, GivenIds
<1>7. QED
  BY <1>3, <1>4, <1>5, <1>6 DEF Way

LEMMA EchoKeeps ==
    ASSUME PathInv, NEW r \in Requests, Echo(r)
    PROVE  PathInv'
<1>1. /\ hop[r].id = id[r] /\ id[r] # None /\ id[r] \in GivenIds(r) /\ id[r] \in AnyId
  BY DEF Echo, PathInv, Shape, Way, Vouched, ByGateway, Traced
<1>2. Back(r) = "relay"
  BY <1>1 DEF Back
<1>3. QED
  BY <1>1, <1>2, StampKeeps DEF Echo, Steps

LEMMA RelayKeeps ==
    ASSUME PathInv, NEW r \in Requests, Relay(r)
    PROVE  PathInv'
<1>1. id[r] # None /\ None \in AnyId
  BY DEF Relay, PathInv, Way, ByGateway, AnyId
<1>2. reply' = [reply EXCEPT ![r].id = None]
  BY DEF Relay, ForwardedToClient
<1>3. QED
  BY <1>1, <1>2, StampKeeps DEF Relay, Steps

LEMMA FinishKeeps ==
    ASSUME PathInv, NEW r \in Requests, Finish(r)
    PROVE  PathInv'
<1>1. id[r] \in GivenIds(r) \cup {None} /\ id[r] \in AnyId /\ id[r] # None
  BY DEF Finish, PathInv, Shape, Way, ByGateway, Traced
<1>2. QED
  BY <1>1, StampKeeps DEF Finish, Steps

LEMMA CloseKeeps ==
    ASSUME PathInv, NEW r \in Requests, Close(r)
    PROVE  PathInv'
<1> USE DEF PathInv
<1>1. None \in AnyId /\ Nobody.secret # Secret
  BY NamesAssumption DEF AnyId, Nobody
<1>2. Shape'
  <2>1. /\ Nobody \in [secret : {Secret, Junk, None}, user : Users \cup {None}, id : AnyId]
        /\ NoReply \in [status : Nat, owner : Users \cup {None}, id : AnyId]
        /\ NoSpan \in [Services -> AnyId]
    BY <1>1 DEF Nobody, NoReply, NoSpan
  <2>2. QED
    BY <1>1, <2>1 DEF Close, Shape, Go, Steps
<1>3. ASSUME NEW q \in Requests, q # r PROVE Way(q)'
  <2>1. Row(q)' = Row(q)
    BY <1>3 DEF Close, Shape, Go, Row
  <2>2. QED
    BY <2>1, RowAlone
<1>4. /\ pc'[r] = "idle" /\ id'[r] = None /\ subject'[r] = None /\ hop'[r] = Nobody
      /\ span'[r] = NoSpan /\ lines'[r] = {} /\ reply'[r] = NoReply
  BY DEF Close, Shape, Go
<1>5. Before(r)' /\ Vouched(r)' /\ ByGateway(r)' /\ Fresh(r)'
  BY <1>1, <1>4 DEF Before, Vouched, ByGateway, Fresh
<1>6. Traced(r)' /\ IdsOf(r)'
  BY <1>4 DEF Traced, IdsOf, GivenIds, Nobody, NoReply, NoSpan
<1>7. QED
  BY <1>2, <1>3, <1>5, <1>6 DEF Way

LEMMA StepPath == PathInv /\ [Next]_vars => PathInv'
<1> SUFFICES ASSUME PathInv, [Next]_vars PROVE PathInv'
  OBVIOUS
<1>1. CASE UNCHANGED vars
  <2>1. Shape'
    BY <1>1 DEF vars, PathInv, Shape
  <2>2. ASSUME NEW q \in Requests PROVE Way(q)'
    <3>1. Row(q)' = Row(q)
      BY <1>1 DEF vars, Row
    <3>2. QED
      BY <3>1, RowAlone DEF PathInv
  <2>3. QED
    BY <2>1, <2>2 DEF PathInv
<1>2. ASSUME NEW r \in Requests,
             \/ Propagate(r) \/ Route(r) \/ Authenticate(r) \/ Forward(r)
             \/ Direct(r) \/ Guard(r) \/ Serve(r) \/ Echo(r)
             \/ Relay(r) \/ Finish(r) \/ Close(r)
      PROVE  PathInv'
  BY <1>2, PropagateKeeps, RouteKeeps, AuthenticateKeeps, ForwardKeeps, DirectKeeps, GuardKeeps,
     ServeKeeps, EchoKeeps, RelayKeeps, FinishKeeps, CloseKeeps
<1>3. QED
  BY <1>1, <1>2 DEF Next

THEOREM PathInvariant == Spec => []PathInv
BY InitPath, StepPath, PTL DEF Spec

-----------------------------------------------------------------------------
LEMMA PathTypes == PathInv => TypeOK
<1> SUFFICES ASSUME PathInv PROVE TypeOK
  OBVIOUS
<1>1. pc \in [Requests -> Steps] /\ stored \in [Users -> Bodies \cup {None}]
  BY DEF PathInv, Shape
<1>2. ASSUME NEW r \in Requests
      PROVE  /\ target[r] # None =>
                   target[r].path \in DOMAIN ProfileRoutes /\ target[r].method \in Methods
             /\ subject[r] \in Users \cup {None}
             /\ hop[r].secret \in {Secret, Junk, None}
             /\ hop[r].user \in Users \cup {None}
             /\ \A line \in lines[r] : line.service \in Services
             /\ reply[r].status \in Nat /\ reply[r].owner \in Users \cup {None}
  BY DEF PathInv, Shape
<1>3. ASSUME NEW r \in Requests
      PROVE  /\ id[r] \in GivenIds(r) \cup {None}
             /\ hop[r].id \in GivenIds(r) \cup {Junk, None}
             /\ \A s \in Services : span[r][s] \in GivenIds(r) \cup {None}
             /\ \A line \in lines[r] : line.id \in GivenIds(r) \cup {None}
             /\ reply[r].id \in GivenIds(r) \cup {Junk, None}
             /\ pc[r] = "serve" => hop[r].user \in Users
  BY DEF PathInv, Way, Traced, IdsOf, ByGateway, Vouched
<1>4. QED
  BY <1>1, <1>2, <1>3 DEF TypeOK

(* The variables keep to their types, and no handler of profile-service    *)
(* ever runs without a caller (auth.rs, MissingCaller).                    *)
THEOREM Typing == Spec => []TypeOK
BY PathInvariant, PathTypes, PTL

LEMMA PathTraced == PathInv => OneIdSpansTheHop
<1> SUFFICES ASSUME PathInv, NEW r \in Requests, pc[r] = "answered", id[r] # None
             PROVE  /\ reply[r].id \in GivenIds(r)
                    /\ \A line \in lines[r] : line.service = "profile" => line.id = reply[r].id
  BY DEF OneIdSpansTheHop
<1>1. QED
  BY DEF PathInv, Way, Traced

(* One id spans a request of the gateway: the client is told it, and every *)
(* line that a handler or an error response of profile-service logs of the *)
(* request carries it.                                                     *)
THEOREM OneId == Spec => []OneIdSpansTheHop
BY PathInvariant, PathTraced, PTL

LEMMA StepActs ==
    ASSUME PathInv, PathInv', [Next]_vars
    PROVE  /\ \A u \in Users :
                 Changed(u) => \E r \in Requests : pc[r] = "serve" /\ pc'[r] # "serve" /\ subject[r] = u
           /\ \A r \in Requests : reply'[r].owner \in {None, subject'[r]}
<1>1. ASSUME NEW r \in Requests PROVE reply'[r].owner \in {None, subject'[r]}
  BY DEF PathInv, Way, Traced
<1>2. ASSUME NEW u \in Users, Changed(u)
      PROVE  \E r \in Requests : pc[r] = "serve" /\ pc'[r] # "serve" /\ subject[r] = u
  <2>1. stored' # stored
    BY <1>2 DEF Changed
  <2>2. PICK r \in Requests : Serve(r)
    BY <2>1 DEF Next, vars, Propagate, Route, Authenticate, Forward, Direct, Guard, Echo, Relay,
       Finish, Close
  <2>3. PICK input \in Bodies : stored' = [stored EXCEPT ![Caller(r)] = input]
    BY <2>1, <2>2, Served
  <2>4. pc[r] = "serve" /\ pc'[r] = "echo"
    BY <2>2, Served DEF Respond, Go, PathInv, Shape
  <2>5. Caller(r) = subject[r]
    BY <2>4 DEF PathInv, Way, ByGateway, Vouched, Caller
  <2>6. u = Caller(r)
    BY <1>2, <2>3 DEF Changed, PathInv, Shape
  <2>7. QED
    BY <2>4, <2>5, <2>6
<1>3. QED
  BY <1>1, <1>2

(* Nobody's profile is touched but for the subject of a verified token,    *)
(* and nobody is shown one but that subject's.                             *)
THEOREM ActsForSubject == Spec => ActsForItsSubject
<1>1. PathInv /\ PathInv' /\ [Next]_vars =>
        [/\ \A u \in Users :
               Changed(u) => \E r \in Requests : pc[r] = "serve" /\ pc'[r] # "serve" /\ subject[r] = u
         /\ \A r \in Requests : reply'[r].owner \in {None, subject'[r]}]_vars
  BY StepActs
<1>2. QED
  BY PathInvariant, <1>1, PTL DEF Spec, ActsForItsSubject


-----------------------------------------------------------------------------
(* Every set of numbers that is not empty has a least one, and a finite    *)
(* range of them a greatest: what Min and Max choose.                      *)
Below == {pair \in Nat \X Nat : pair[1] < pair[2]}

LEMMA BelowFounded == IsWellFoundedOn(Below, Nat)
<1>1. Below = OpToRel(<, Nat)
  BY Zenon DEF Below, OpToRel
<1>2. QED
  BY <1>1, NatLessThanWellFounded, Zenon

LEMMA LeastOf ==
    ASSUME NEW S, S \subseteq Nat, S # {}
    PROVE  \E n \in S : \A m \in S : n <= m
<1>1. \E x \in S : \A y \in S : ~(<<y, x>> \in Below)
  BY BelowFounded, WFMin, Zenon
<1>2. PICK n \in S : \A y \in S : ~(<<y, n>> \in Below)
  BY <1>1
<1>3. ASSUME NEW m \in S PROVE n <= m
  <2>1. n \in Nat /\ m \in Nat /\ (m < n => <<m, n>> \in Below)
    BY DEF Below
  <2>2. ~(m < n)
    BY <1>2, <2>1
  <2>3. QED
    BY <2>1, <2>2
<1>4. QED
  BY <1>3

LEMMA MinOf ==
    ASSUME NEW S, S \subseteq Nat, S # {}
    PROVE  Min(S) \in S /\ \A n \in S : Min(S) <= n
BY LeastOf DEF Min

LEMMA MaxOf ==
    ASSUME NEW S, NEW top \in Nat, S \subseteq 0..top, S # {}
    PROVE  Max(S) \in S /\ \A n \in S : n <= Max(S)
<1> DEFINE gaps == {gap \in 0..top : top - gap \in S}
<1>1. gaps \subseteq Nat /\ gaps # {}
  <2>1. PICK n \in S : TRUE
    OBVIOUS
  <2>2. top - n \in 0..top /\ top - (top - n) = n
    BY <2>1
  <2>3. top - n \in gaps
    BY <2>1, <2>2
  <2>4. gaps # {}
    BY <2>3
  <2>5. gaps \subseteq Nat
    OBVIOUS
  <2>6. QED
    BY <2>4, <2>5
<1>2. PICK gap \in gaps : \A other \in gaps : gap <= other
  <2> HIDE DEF gaps
  <2>1. QED
    BY <1>1, LeastOf
<1>3. ASSUME NEW n \in S PROVE n <= top - gap
  <2>1. n \in 0..top /\ top - n \in 0..top /\ top - (top - n) = n
    OBVIOUS
  <2>2. top - n \in gaps
    BY <2>1
  <2>3. gap <= top - n /\ gap \in 0..top
    BY <1>2, <2>2
  <2>4. QED
    BY <2>1, <2>3
<1>4. \E x \in S : \A y \in S : x >= y
  BY <1>2, <1>3
<1>5. Max(S) \in S /\ \A y \in S : Max(S) >= y
  BY <1>4 DEF Max
<1>6. QED
  BY <1>5

LEMMA MinIs ==
    ASSUME NEW S, S \subseteq Nat, NEW n \in S, \A m \in S : n <= m
    PROVE  Min(S) = n
<1>1. Min(S) \in S
  BY MinOf
<1>2. Min(S) <= n /\ n <= Min(S) /\ Min(S) \in Nat
  BY <1>1, MinOf
<1>3. QED
  BY <1>2

-----------------------------------------------------------------------------
(* What trim() leaves of a text: what lies between its first and its last  *)
(* character that is not white.                                            *)
FirstInked(text) == Min(Inked(text))
LastInked(text) == Max(Inked(text))

LEMMA Ends ==
    ASSUME NEW text \in Texts, Inked(text) # {}
    PROVE  /\ FirstInked(text) \in Inked(text) /\ LastInked(text) \in Inked(text)
           /\ \A i \in Inked(text) : FirstInked(text) <= i /\ i <= LastInked(text)
           /\ FirstInked(text) \in 1..Len(text) /\ LastInked(text) \in 1..Len(text)
           /\ FirstInked(text) <= LastInked(text)
<1>1. Len(text) \in Nat /\ DOMAIN text = 1..Len(text) /\ Inked(text) \subseteq 1..Len(text)
  BY DEF Texts, Inked
<1>2. Inked(text) \subseteq Nat /\ Inked(text) \subseteq 0..Len(text)
  BY <1>1
<1>3. FirstInked(text) \in Inked(text) /\ \A i \in Inked(text) : FirstInked(text) <= i
  BY <1>2, MinOf DEF FirstInked
<1>4. LastInked(text) \in Inked(text) /\ \A i \in Inked(text) : i <= LastInked(text)
  BY <1>1, <1>2, MaxOf DEF LastInked
<1>5. QED
  BY <1>1, <1>3, <1>4

LEMMA TrimIs ==
    ASSUME NEW text \in Texts, Inked(text) # {}
    PROVE  /\ Len(Trim(text)) = LastInked(text) - FirstInked(text) + 1
           /\ DOMAIN Trim(text) = 1..LastInked(text) - FirstInked(text) + 1
           /\ \A j \in 1..LastInked(text) - FirstInked(text) + 1 :
                 Trim(text)[j] = text[FirstInked(text) + j - 1]
<1>1. Trim(text) = SubSeq(text, FirstInked(text), LastInked(text))
  BY DEF Trim, FirstInked, LastInked
<1>2. FirstInked(text) \in 1..Len(text) /\ LastInked(text) \in 1..Len(text) /\ FirstInked(text) <= LastInked(text)
  BY Ends
<1>3. QED
  BY <1>1, <1>2 DEF Texts

LEMMA TrimOfBlank ==
    ASSUME NEW text \in Texts, Inked(text) = {}
    PROVE  Trim(text) = <<>> /\ \A i \in DOMAIN text : text[i] \in White
BY DEF Trim, Inked

(* Nothing is left exactly if all of it is white.                          *)
LEMMA TrimEmpty ==
    ASSUME NEW text \in Texts
    PROVE  Trim(text) = <<>> <=> Range(text) \subseteq White
<1>1. CASE Inked(text) = {}
  BY <1>1, TrimOfBlank DEF Range
<1>2. CASE Inked(text) # {}
  <2>1. FirstInked(text) \in Inked(text) /\ FirstInked(text) <= LastInked(text)
        /\ FirstInked(text) \in Nat /\ LastInked(text) \in Nat
    BY <1>2, Ends
  <2>2. Len(Trim(text)) # 0
    BY <1>2, <2>1, TrimIs
  <2>3. text[FirstInked(text)] \in Range(text) /\ text[FirstInked(text)] \notin White
    BY <2>1 DEF Inked, Range
  <2>4. QED
    BY <2>2, <2>3
<1>3. QED
  BY <1>1, <1>2

LEMMA WithinIs ==
    ASSUME NEW text \in Texts, Inked(text) # {}, NEW i \in DOMAIN text
    PROVE  Inside(text, i) <=> FirstInked(text) <= i /\ i <= LastInked(text)
<1>1. Inked(text) \subseteq Nat /\ i \in Nat
  BY DEF Inked, Texts
<1>2. QED
  BY <1>1, Ends DEF Inside

(* What is left holds the characters in between, and no other.             *)
LEMMA TrimCharacters ==
    ASSUME NEW text \in Texts
    PROVE  (\E j \in DOMAIN Trim(text) : Trim(text)[j] \notin Dialled)
           <=> \E i \in DOMAIN text : Inside(text, i) /\ text[i] \notin Dialled
<1>1. CASE Inked(text) = {}
  BY <1>1, TrimOfBlank DEF Inside
<1>2. CASE Inked(text) # {}
  <2>1. /\ FirstInked(text) \in 1..Len(text) /\ LastInked(text) \in 1..Len(text)
        /\ FirstInked(text) <= LastInked(text)
        /\ DOMAIN text = 1..Len(text) /\ Len(text) \in Nat
    BY <1>2, Ends DEF Texts
  <2>2. ASSUME NEW j \in DOMAIN Trim(text), Trim(text)[j] \notin Dialled
        PROVE  \E i \in DOMAIN text : Inside(text, i) /\ text[i] \notin Dialled
    <3> DEFINE i == FirstInked(text) + j - 1
    <3>1. j \in 1..LastInked(text) - FirstInked(text) + 1 /\ Trim(text)[j] = text[i]
      BY <1>2, TrimIs
    <3>2. i \in DOMAIN text /\ FirstInked(text) <= i /\ i <= LastInked(text)
      BY <2>1, <3>1
    <3>3. QED
      BY <1>2, <2>2, <3>1, <3>2, WithinIs
  <2>3. ASSUME NEW i \in DOMAIN text, Inside(text, i), text[i] \notin Dialled
        PROVE  \E j \in DOMAIN Trim(text) : Trim(text)[j] \notin Dialled
    <3> DEFINE j == i - FirstInked(text) + 1
    <3>1. FirstInked(text) <= i /\ i <= LastInked(text)
      BY <1>2, <2>3, WithinIs
    <3>2. j \in 1..LastInked(text) - FirstInked(text) + 1 /\ FirstInked(text) + j - 1 = i
      BY <2>1, <3>1
    <3>3. j \in DOMAIN Trim(text) /\ Trim(text)[j] = text[i]
      BY <1>2, <3>2, TrimIs
    <3>4. QED
      BY <2>3, <3>3
  <2>4. QED
    BY <2>2, <2>3
<1>3. QED
  BY <1>1, <1>2

(* No digit is lost: there are as many in what is left as in all of it.    *)
LEMMA TrimDigits ==
    ASSUME NEW text \in Texts
    PROVE  Count(Trim(text)) = Count(text)
<1> DEFINE left == {j \in DOMAIN Trim(text) : Trim(text)[j] = "digit"}
           all == {i \in DOMAIN text : text[i] = "digit"}
<1>1. CASE Inked(text) = {}
  <2>1. all = {}
    BY <1>1, TrimOfBlank DEF White
  <2>2. left = {}
    BY <1>1, TrimOfBlank
  <2>3. QED
    BY <2>1, <2>2 DEF Count
<1>2. CASE Inked(text) # {}
  <2> DEFINE shift == [j \in left |-> FirstInked(text) + j - 1]
  <2>1. /\ FirstInked(text) \in 1..Len(text) /\ LastInked(text) \in 1..Len(text)
        /\ FirstInked(text) <= LastInked(text)
        /\ DOMAIN text = 1..Len(text) /\ Len(text) \in Nat
    BY <1>2, Ends DEF Texts
  <2>2. ASSUME NEW j \in left PROVE j \in Nat /\ shift[j] \in all
    <3>1. j \in 1..LastInked(text) - FirstInked(text) + 1 /\ Trim(text)[j] = "digit"
      BY <1>2, TrimIs
    <3>2. shift[j] = FirstInked(text) + j - 1 /\ text[FirstInked(text) + j - 1] = "digit"
      BY <1>2, <3>1, TrimIs
    <3>3. QED
      BY <2>1, <3>1, <3>2
  <2>3. ASSUME NEW i \in all PROVE \E j \in left : shift[j] = i
    <3> DEFINE j == i - FirstInked(text) + 1
    <3>1. i \in Inked(text)
      BY DEF Inked, White
    <3>2. FirstInked(text) <= i /\ i <= LastInked(text) /\ i \in Nat
      BY <1>2, <2>1, <3>1, Ends
    <3>3. j \in 1..LastInked(text) - FirstInked(text) + 1 /\ FirstInked(text) + j - 1 = i
      BY <2>1, <3>2
    <3>4. j \in left
      BY <1>2, <3>3, TrimIs
    <3>5. QED
      BY <3>3, <3>4
  <2>4. ASSUME NEW j \in left, NEW k \in left, shift[j] = shift[k] PROVE j = k
    <3>1. j \in Nat /\ k \in Nat
      BY <2>2
    <3>2. FirstInked(text) + j - 1 = FirstInked(text) + k - 1
      BY <2>4
    <3>3. QED
      BY <2>1, <3>1, <3>2
  <2>5. shift \in Bijection(left, all)
    <3>1. shift \in [left -> all]
      BY <2>2
    <3>2. QED
      BY <2>3, <2>4, <3>1 DEF Bijection, Injection, Surjection, IsInjective
  <2>6. IsFiniteSet(left)
    <3>1. left \in SUBSET (1..LastInked(text) - FirstInked(text) + 1)
      BY <1>2, TrimIs
    <3>2. IsFiniteSet(1..LastInked(text) - FirstInked(text) + 1)
      <4>1. LastInked(text) - FirstInked(text) + 1 \in Int
        BY <2>1
      <4> HIDE DEF left
      <4>2. QED
        BY <4>1, FS_Interval
    <3>3. QED
      BY <3>1, <3>2, FS_Subset
  <2>7. Cardinality(all) = Cardinality(left)
    BY <2>5, <2>6, FS_Bijection DEF ExistsBijection
  <2>8. QED
    BY <2>7 DEF Count
<1>3. QED
  BY <1>1, <1>2
-----------------------------------------------------------------------------
(* The faults that validate() looks for: it has a check for each that is   *)
(* documented, but for the characters of a padded number.                  *)
Sought(input) == Faults(input) \ Overlooked(input)

LEMMA ChecksAreFaults ==
    ASSUME NEW input \in Inputs
    PROVE  /\ Size(input.address) > MaxAddressBytes <=> "AddressTooLong" \in Sought(input)
           /\ Trim(input.address) = <<>> <=> "EmptyAddress" \in Sought(input)
           /\ Size(input.phone) > MaxPhoneBytes <=> "PhoneTooLong" \in Sought(input)
           /\ Trim(input.phone) = <<>> <=> "EmptyPhone" \in Sought(input)
           /\ (\E i \in DOMAIN Trim(input.phone) : Trim(input.phone)[i] \notin Dialled)
                 <=> "PhoneCharacters" \in Sought(input)
           /\ Count(Trim(input.phone)) \notin MinPhoneDigits..MaxPhoneDigits
                 <=> "PhoneDigitCount" \in Sought(input)
<1> DEFINE W == Wrong(input)
           phone == input.phone
<1>1. input.address \in Texts /\ phone \in Texts
  BY DEF Inputs
<1>2. /\ DOMAIN W = {"EmptyAddress", "AddressTooLong", "EmptyPhone", "PhoneTooLong",
                     "PhoneCharacters", "PhoneDigitCount"}
      /\ W["AddressTooLong"] <=> Size(input.address) > MaxAddressBytes
      /\ W["EmptyAddress"] <=> Range(input.address) \subseteq White
      /\ W["PhoneTooLong"] <=> Size(phone) > MaxPhoneBytes
      /\ W["EmptyPhone"] <=> Range(phone) \subseteq White
      /\ W["PhoneCharacters"] <=> ~(Range(phone) \subseteq Dialled)
      /\ W["PhoneDigitCount"] <=> Count(phone) \notin MinPhoneDigits..MaxPhoneDigits
  BY DEF Wrong
<1>3. /\ "AddressTooLong" \in Sought(input) <=> W["AddressTooLong"]
      /\ "EmptyAddress" \in Sought(input) <=> W["EmptyAddress"]
      /\ "PhoneTooLong" \in Sought(input) <=> W["PhoneTooLong"]
      /\ "EmptyPhone" \in Sought(input) <=> W["EmptyPhone"]
      /\ "PhoneDigitCount" \in Sought(input) <=> W["PhoneDigitCount"]
      /\ "PhoneCharacters" \in Sought(input) <=> W["PhoneCharacters"] /\ ~Padded(phone)
  <2> HIDE DEF W
  <2>1. QED
    BY <1>2 DEF Sought, Faults, Overlooked, W
(* A character no number may contain is overlooked but for one within.     *)
<1>4. W["PhoneCharacters"] /\ ~Padded(phone)
      <=> \E i \in DOMAIN phone : Inside(phone, i) /\ phone[i] \notin Dialled
  <2>1. ~(Range(phone) \subseteq Dialled) <=> \E i \in DOMAIN phone : phone[i] \notin Dialled
    BY DEF Range
  <2> HIDE DEF W, phone
  <2>2. QED
    BY <1>2, <2>1 DEF Padded
<1> HIDE DEF W
<1>5. QED
  BY <1>1, <1>2, <1>3, <1>4, TrimEmpty, TrimCharacters, TrimDigits

LEMMA ToldIs ==
    ASSUME NEW faults,
           NEW n \in 1..6, Sequence[n] \in faults,
           \A m \in 1..6 : m < n => Sequence[m] \notin faults
    PROVE  Told(faults) = Sequence[n]
<1> DEFINE places == {m \in DOMAIN Sequence : Sequence[m] \in faults}
<1>1. DOMAIN Sequence = 1..6
  BY DEF Sequence
<1>2. n \in places /\ places \subseteq Nat /\ \A m \in places : n <= m
  BY <1>1
<1>3. Min(places) = n
  <2> HIDE DEF places
  <2>1. QED
    BY <1>2, MinIs
<1>4. QED
  BY <1>2, <1>3 DEF Told

LEMMA SoughtIsTold ==
    ASSUME NEW input \in Inputs
    PROVE  Validate(input) = Told(Sought(input))
<1> DEFINE S == Sought(input)
<1>1. /\ Sequence[1] = "AddressTooLong" /\ Sequence[2] = "EmptyAddress"
      /\ Sequence[3] = "PhoneTooLong" /\ Sequence[4] = "EmptyPhone"
      /\ Sequence[5] = "PhoneCharacters" /\ Sequence[6] = "PhoneDigitCount"
      /\ DOMAIN Sequence = 1..6
  BY DEF Sequence
<1>2. Validate(input) =
        IF Sequence[1] \in S THEN Sequence[1] ELSE IF Sequence[2] \in S THEN Sequence[2]
        ELSE IF Sequence[3] \in S THEN Sequence[3] ELSE IF Sequence[4] \in S THEN Sequence[4]
        ELSE IF Sequence[5] \in S THEN Sequence[5] ELSE IF Sequence[6] \in S THEN Sequence[6]
        ELSE "ok"
  <2> HIDE DEF S
  <2>1. /\ Size(input.address) > MaxAddressBytes <=> Sequence[1] \in S
        /\ Trim(input.address) = <<>> <=> Sequence[2] \in S
        /\ Size(input.phone) > MaxPhoneBytes <=> Sequence[3] \in S
        /\ Trim(input.phone) = <<>> <=> Sequence[4] \in S
        /\ (\E i \in DOMAIN Trim(input.phone) : Trim(input.phone)[i] \notin Dialled)
              <=> Sequence[5] \in S
        /\ Count(Trim(input.phone)) \notin MinPhoneDigits..MaxPhoneDigits <=> Sequence[6] \in S
    BY <1>1, ChecksAreFaults DEF S
  <2>2. QED
    BY <1>1, <2>1 DEF Validate
<1> HIDE DEF S
<1>3. \A m \in 1..6 : m = 1 \/ m = 2 \/ m = 3 \/ m = 4 \/ m = 5 \/ m = 6
  OBVIOUS
<1>4. CASE \A m \in 1..6 : Sequence[m] \notin S
  <2>1. {m \in DOMAIN Sequence : Sequence[m] \in S} = {}
    BY <1>1, <1>4
  <2>2. Told(S) = "ok"
    BY <2>1 DEF Told
  <2>3. Sequence[1] \notin S /\ Sequence[2] \notin S /\ Sequence[3] \notin S
        /\ Sequence[4] \notin S /\ Sequence[5] \notin S /\ Sequence[6] \notin S
    BY <1>4
  <2>4. QED
    BY <1>2, <2>2, <2>3 DEF S
<1>5. CASE \E m \in 1..6 : Sequence[m] \in S
  <2> DEFINE places == {m \in 1..6 : Sequence[m] \in S}
  <2>1. \E n \in places : \A m \in places : n <= m
    <3>1. places # {} /\ places \subseteq Nat
      BY <1>5
    <3> HIDE DEF places
    <3>2. QED
      BY <3>1, LeastOf
  <2>2. PICK n \in 1..6 : Sequence[n] \in S /\ \A m \in 1..6 : m < n => Sequence[m] \notin S
    BY <2>1
  <2>3. Told(S) = Sequence[n]
    BY <2>2, ToldIs
  <2>4. Validate(input) = Sequence[n]
    <3>1. /\ 1 < n => Sequence[1] \notin S
          /\ 2 < n => Sequence[2] \notin S
          /\ 3 < n => Sequence[3] \notin S
          /\ 4 < n => Sequence[4] \notin S
          /\ 5 < n => Sequence[5] \notin S
      BY <2>2
    <3>2. QED
      BY <1>2, <1>3, <2>2, <3>1
  <2>5. QED
    BY <2>3, <2>4 DEF S
<1>6. QED
  BY <1>4, <1>5

(* Of every input whatever, of whatever length: validate() accepts it      *)
(* exactly if it has none of the documented faults, and what it refuses it *)
(* for is the first of those it has, as long as no white space but the     *)
(* space stands around the number; if it does, so that PhoneCharacters is  *)
(* one of the faults, the verdict is the first of the others.              *)
THEOREM ValidateNamesFirstFault ==
    ASSUME NEW input \in Inputs
    PROVE  /\ ~Padded(input.phone) => Validate(input) = Told(Faults(input))
           /\ Padded(input.phone) =>
                 /\ "PhoneCharacters" \in Faults(input)
                 /\ Validate(input) = Told(Faults(input) \ {"PhoneCharacters"})
<1>1. CASE ~Padded(input.phone)
  <2>1. Sought(input) = Faults(input)
    BY <1>1 DEF Sought, Overlooked
  <2>2. QED
    BY <1>1, <2>1, SoughtIsTold
<1>2. CASE Padded(input.phone)
  <2>1. Sought(input) = Faults(input) \ {"PhoneCharacters"}
    BY <1>2 DEF Sought, Overlooked
  <2>2. ~(Range(input.phone) \subseteq Dialled)
    BY <1>2 DEF Padded, Range
  <2>3. "PhoneCharacters" \in Faults(input)
    BY <2>2 DEF Faults, Wrong
  <2>4. QED
    BY <1>2, <2>1, <2>3, SoughtIsTold
<1>3. QED
  BY <1>1, <1>2

LEMMA AcceptedIsSound ==
    ASSUME NEW input \in Inputs, Validate(input) = "ok"
    PROVE  Faults(input) \subseteq Overlooked(input)
<1>1. \A fault \in {"EmptyAddress", "AddressTooLong", "EmptyPhone", "PhoneTooLong",
                    "PhoneCharacters", "PhoneDigitCount"} : fault \notin Sought(input)
  BY ChecksAreFaults DEF Validate
<1>2. Faults(input) \subseteq {"EmptyAddress", "AddressTooLong", "EmptyPhone", "PhoneTooLong",
                              "PhoneCharacters", "PhoneDigitCount"}
  BY DEF Faults, Wrong
<1>3. QED
  BY <1>1, <1>2 DEF Sought

-----------------------------------------------------------------------------
(* What is stored is an input that has been accepted.                      *)
Sound ==
    \A u \in Users : stored[u] # None => Faults(stored[u]) \subseteq Overlooked(stored[u])

LEMMA ServedInput ==
    ASSUME NEW r \in Requests, Serve(r), stored' # stored
    PROVE  \E input \in Bodies : /\ Validate(input) = "ok"
                                 /\ stored' = [stored EXCEPT ![Caller(r)] = input]
BY DEF Serve, Create, Update, Read, Fail, Unread, Refuse, Write

LEMMA StepSound == PathInv /\ Sound /\ [Next]_vars => Sound'
<1> SUFFICES ASSUME PathInv, Sound, [Next]_vars, NEW u \in Users, stored'[u] # None
             PROVE  Faults(stored'[u]) \subseteq Overlooked(stored'[u])
  BY DEF Sound
<1>1. CASE stored'[u] = stored[u]
  BY <1>1 DEF Sound
<1>2. CASE stored'[u] # stored[u]
  <2>1. stored' # stored
    BY <1>2
  <2>2. PICK r \in Requests : Serve(r)
    BY <2>1 DEF Next, vars, Propagate, Route, Authenticate, Forward, Direct, Guard, Echo, Relay,
       Finish, Close
  <2>3. PICK input \in Bodies : /\ Validate(input) = "ok"
                                /\ stored' = [stored EXCEPT ![Caller(r)] = input]
    BY <2>1, <2>2, ServedInput
  <2>4. stored'[u] = input
    BY <1>2, <2>3 DEF PathInv, Shape
  <2>5. Faults(input) \subseteq Overlooked(input)
    BY <2>3, BodiesAssumption, AcceptedIsSound
  <2>6. QED
    BY <2>4, <2>5
<1>3. QED
  BY <1>1, <1>2

LEMMA SoundNamesFaults == Sound => FaultIsNamed
<1>1. \A input \in Samples : Validate(input) = Told(Faults(input) \ Overlooked(input))
  BY SamplesAssumption, SoughtIsTold DEF Sought
<1>2. Misjudged = {}
  BY <1>1 DEF Misjudged
<1>3. QED
  BY <1>2 DEF FaultIsNamed, Sound

(* Whatever inputs are sent, in whatever order and by whomever, the fault  *)
(* a handler tells is the first documented one, and nothing is ever stored *)
(* that has one, but for the padding around a number.                      *)
THEOREM OnlyPaddingIsStored == Spec => []FaultIsNamed
<1>1. Init => Sound
  BY DEF Init, Sound
<1>2. QED
  BY <1>1, PathInvariant, StepSound, SoundNamesFaults, PTL DEF Spec
=============================================================================
