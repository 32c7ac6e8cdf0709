----------------------------- MODULE RequestPath -----------------------------
(***************************************************************************)
(* The way of one request through the layers of both services: the         *)
(* correlation of auth-service (tracing_id.rs), its routes (lib.rs), the   *)
(* extractor Authenticated, the proxy (routes/gateway.rs), the guard of    *)
(* profile-service (auth.rs), its handlers and back; and of one that finds *)
(* the port of profile-service and leaves the gateway out.                 *)
(*                                                                         *)
(* Each step runs to the next await.  What a client may put into a header  *)
(* is chosen where the header is read.  Versions, keys and timeouts are    *)
(* Gateway's and IdempotentCreate's, tokens are TokenService's.            *)
(***************************************************************************)
EXTENDS Payload

CONSTANTS
    Users,
    Bodies,     \* the inputs that are sent
    Requests,   \* the requests that may be open at one time
    Ids,        \* request ids that clients quote and is_acceptable() lets pass
    Junk,       \* one that it does not
    Secret,     \* INTERNAL_TOKEN, as both services are configured with it
    None

Minted(r) == [minted |-> r]

ASSUME BodiesAssumption == Bodies \subseteq Inputs

ASSUME NamesAssumption ==
    /\ Junk \notin Ids /\ \A r \in Requests : Minted(r) \notin Ids \cup {Junk}
    /\ None \notin Users \cup Ids \cup Bodies \cup {Junk, Secret} /\ Junk # Secret
    /\ \A r \in Requests : None # Minted(r)

VARIABLES
    pc, target,     \* where a request is, and what it asks for
    id,         \* its id in the hands of the gateway
    subject,    \* claims.sub of its token, once verified
    hop,        \* what profile-service reads in its headers
    span,       \* span[r][s]: the span entered whenever s polls the request
    lines,      \* the lines logged of it: [service, id] (history)
    reply,      \* the response on its way to whoever asked
    stored      \* stored[u]: the input of u's profile, or None

vars == <<pc, target, id, subject, hop, span, lines, reply, stored>>

Services == {"auth", "profile"}
Steps == {"idle", "route", "authenticate", "forward", "guard", "serve", "echo",
          "relay", "respond", "answered"}

Nobody == [secret |-> None, user |-> None, id |-> None]
NoReply == [status |-> 0, owner |-> None, id |-> None]
NoSpan == [s \in Services |-> None]

Init ==
    /\ pc = [r \in Requests |-> "idle"]
    /\ target = [r \in Requests |-> None]
    /\ id = [r \in Requests |-> None]
    /\ subject = [r \in Requests |-> None]
    /\ hop = [r \in Requests |-> Nobody]
    /\ span = [r \in Requests |-> NoSpan]
    /\ lines = [r \in Requests |-> {}]
    /\ reply = [r \in Requests |-> NoReply]
    /\ stored = [u \in Users |-> None]

Go(r, step) == pc' = [pc EXCEPT ![r] = step]

Respond(r, status, owner, step) ==
    /\ reply' = [reply EXCEPT ![r] = [status |-> status, owner |-> owner, id |-> None]]
    /\ Go(r, step)

Log(r, service) ==
    lines' = [lines EXCEPT ![r] = @ \cup {[service |-> service, id |-> span[r][service]]}]

-----------------------------------------------------------------------------
(* auth-service                                                            *)

PropagateAny(r) ==   \* mutant: whatever is quoted is taken over
    /\ pc[r] = "idle"
    /\ \E quoted \in Ids \cup {Junk, None} :
          id' = [id EXCEPT ![r] = IF quoted # None THEN quoted ELSE Minted(r)]
    /\ Go(r, "route")
    /\ UNCHANGED <<target, subject, hop, span, lines, reply, stored>>

(* propagate(): the span is entered while the future is built, and has     *)
(* been left when the future is first polled.                              *)
Propagate(r) ==
    /\ pc[r] = "idle"
    /\ \E quoted \in Ids \cup {Junk, None} :
          id' = [id EXCEPT ![r] = IF quoted \in Ids THEN quoted ELSE Minted(r)]
    /\ Go(r, "route")
    /\ UNCHANGED <<target, subject, hop, span, lines, reply, stored>>

PublicRoutes ==
    [login |-> {"POST"}, logout |-> {"POST"}, health |-> {"GET"},
     profile |-> {"GET", "POST", "PUT"}, history |-> {"GET"}]
ProfileRoutes ==
    [profile |-> {"GET", "POST", "PUT"}, history |-> {"GET"}]
Methods == {"GET", "POST", "PUT", "DELETE"}

(* What Login and TokenService answer, and axum in front of them.          *)
LoginStatuses == {200, 204, 400, 401, 422, 429, 500, 503}

Route(r) ==
    /\ pc[r] = "route"
    /\ \E path \in DOMAIN PublicRoutes \cup {"other"}, method \in Methods :
          \/ /\ path = "other"
             /\ Respond(r, 404, None, "respond")
             /\ UNCHANGED target
          \/ /\ path # "other" /\ method \notin PublicRoutes[path]
             /\ Respond(r, 405, None, "respond")
             /\ UNCHANGED target
          \/ /\ path # "other" /\ method \in PublicRoutes[path]
             /\ \/ /\ path = "health"
                   /\ Respond(r, 200, None, "respond")
                   /\ UNCHANGED target
                \/ /\ path \in {"login", "logout"}
                   /\ \E status \in LoginStatuses : Respond(r, status, None, "respond")
                   /\ UNCHANGED target
                \/ /\ path \in DOMAIN ProfileRoutes
                   /\ target' = [target EXCEPT ![r] = [path |-> path, method |-> method]]
                   /\ Go(r, "authenticate")
                   /\ UNCHANGED reply
    /\ UNCHANGED <<id, subject, hop, span, lines, stored>>

Schemes == {"Bearer", "bearer", "Basic"}

(* Authenticated: a header there is, of the one scheme in whatever case,   *)
(* with a token that verifies; whose it is comes from the token alone.     *)
Authenticate(r) ==
    /\ pc[r] = "authenticate"
    /\ \E scheme \in Schemes \cup {None}, user \in Users \cup {None} :
          \/ /\ scheme \in {"Bearer", "bearer"} /\ user # None
             /\ subject' = [subject EXCEPT ![r] = user]
             /\ Go(r, "forward")
             /\ UNCHANGED <<lines, reply>>
          \/ /\ scheme \notin {"Bearer", "bearer"} \/ user = None
             /\ Respond(r, 401, None, "respond")
             /\ Log(r, "auth")
             /\ UNCHANGED subject
    /\ UNCHANGED <<target, id, hop, span, stored>>

ForwardedToUpstream == {"content-type", "if-match", "idempotency-key"}

(* reqwest appends, and HeaderMap::get finds the first.                    *)
Header(name, own, client) ==
    IF own # None THEN own ELSE IF name \in ForwardedToUpstream THEN client ELSE None

ForwardClaimed(r) ==   \* mutant: the client's own headers are used where there are any
    /\ pc[r] = "forward"
    /\ \E claimed \in Users \cup {None} :
          hop' = [hop EXCEPT ![r] =
                     [secret |-> Secret, id |-> id[r],
                      user |-> IF claimed # None THEN claimed ELSE subject[r]]]
    /\ Go(r, "guard")
    /\ UNCHANGED <<target, id, subject, span, lines, reply, stored>>

(* proxy(), to its await: profile-service is reached, or a 502 is told.    *)
Forward(r) ==
    /\ pc[r] = "forward"
    /\ \/ /\ \E claimed \in Users \cup {None}, guess \in {Junk, None} :
                hop' = [hop EXCEPT ![r] =
                           [secret |-> Header("x-internal-token", Secret, guess),
                            user |-> Header("x-user-id", subject[r], claimed),
                            id |-> Header("x-request-id", id[r], None)]]
          /\ Go(r, "guard")
          /\ UNCHANGED <<lines, reply>>
       \/ /\ Respond(r, 502, None, "respond")
          /\ Log(r, "auth")
          /\ UNCHANGED hop
    /\ UNCHANGED <<target, id, subject, span, stored>>

-----------------------------------------------------------------------------
(* profile-service                                                         *)

(* A request from elsewhere, with whatever it carries but the secret.      *)
Direct(r) ==
    /\ pc[r] = "idle"
    /\ \E user \in Users \cup {None}, secret \in {Junk, None}, quoted \in Ids \cup {Junk, None} :
          hop' = [hop EXCEPT ![r] = [secret |-> secret, user |-> user, id |-> quoted]]
    /\ \/ /\ Respond(r, 200, None, "answered")   \* GET /health, outside the guard
          /\ UNCHANGED target
       \/ /\ \E path \in DOMAIN ProfileRoutes, method \in Methods :
                target' = [target EXCEPT ![r] = [path |-> path, method |-> method]]
          /\ Go(r, "guard")
          /\ UNCHANGED reply
    /\ UNCHANGED <<id, subject, span, lines, stored>>

Back(r) == IF id[r] = None THEN "answered" ELSE "relay"

GuardUninstrumented(r) ==   \* mutant: the span is entered and not carried along
    /\ pc[r] = "guard"
    /\ \/ /\ hop[r].secret # Secret
          /\ Respond(r, 403, None, Back(r))
          /\ Log(r, "profile")
       \/ /\ hop[r].secret = Secret
          /\ Go(r, "serve")
          /\ UNCHANGED <<lines, reply>>
    /\ UNCHANGED <<target, id, subject, hop, span, stored>>

(* gateway_guard(): what follows is instrumented with the span; a refusal  *)
(* is rendered, and logged, after the guard has left it.                   *)
Guard(r) ==
    /\ pc[r] = "guard"
    /\ \/ /\ hop[r].secret # Secret
          /\ Respond(r, 403, None, Back(r))
          /\ Log(r, "profile")
          /\ UNCHANGED span
       \/ /\ hop[r].secret = Secret
          /\ span' = [span EXCEPT ![r].profile = hop[r].id]
          /\ Go(r, "serve")
          /\ UNCHANGED <<lines, reply>>
    /\ UNCHANGED <<target, id, subject, hop, stored>>

Asks(r, path, method) == target[r] = [path |-> path, method |-> method]

Caller(r) == hop[r].user

Refuse(r, status) ==
    /\ Respond(r, status, None, "echo")
    /\ Log(r, "profile")
    /\ UNCHANGED stored

Write(r, input, status) ==
    /\ stored' = [stored EXCEPT ![Caller(r)] = input]
    /\ Respond(r, status, Caller(r), "echo")
    /\ Log(r, "profile")

Create(r, input) ==
    /\ Asks(r, "profile", "POST")
    /\ \/ Validate(input) # "ok" /\ Refuse(r, 422)
       \/ Validate(input) = "ok" /\ stored[Caller(r)] # None /\ Refuse(r, 409)
       \/ Validate(input) = "ok" /\ stored[Caller(r)] = None /\ Write(r, input, 201)

(* The version in If-Match is missing, malformed, stale or the current one.*)
Update(r, input) ==
    /\ Asks(r, "profile", "PUT")
    /\ \/ Validate(input) # "ok" /\ Refuse(r, 422)
       \/ /\ Validate(input) = "ok"
          /\ \/ \E status \in {400, 428} : Refuse(r, status)
             \/ stored[Caller(r)] = None /\ Refuse(r, 404)
             \/ stored[Caller(r)] # None /\ Refuse(r, 412)
             \/ stored[Caller(r)] # None /\ Write(r, input, 200)

(* GET /profile and GET /profile/history: what there is of the caller's.   *)
Read(r) ==
    /\ target[r].method = "GET"
    /\ \/ stored[Caller(r)] = None /\ Refuse(r, 404)
       \/ /\ stored[Caller(r)] # None
          /\ Respond(r, 200, Caller(r), "echo")
          /\ UNCHANGED <<lines, stored>>

(* A body the extractor cannot read: the handler never runs, and no line   *)
(* is logged.                                                              *)
Unread(r, status) ==
    /\ Respond(r, status, None, "echo")
    /\ UNCHANGED <<lines, stored>>

(* The extractor of POST takes a String, and its handler parses it; that   *)
(* of PUT parses.  A store may fail whatever is asked.                     *)
Fail(r) ==
    \/ target[r].method = "POST" /\ (Unread(r, 400) \/ Refuse(r, 400))
    \/ target[r].method = "PUT" /\ \E status \in {400, 415, 422} : Unread(r, status)
    \/ Refuse(r, 500)

Serve(r) ==
    /\ pc[r] = "serve"
    /\ \/ \E input \in Bodies : Create(r, input) \/ Update(r, input)
       \/ Read(r) \/ Fail(r)
    /\ UNCHANGED <<target, id, subject, hop, span>>

(* echo(), on what the guard has let pass.                                 *)
Echo(r) ==
    /\ pc[r] = "echo"
    /\ reply' = [reply EXCEPT ![r].id = hop[r].id]
    /\ Go(r, Back(r))
    /\ UNCHANGED <<target, id, subject, hop, span, lines, stored>>

-----------------------------------------------------------------------------
(* auth-service again                                                      *)

ForwardedToClient == {"content-type", "etag"}

(* proxy(), after its await: the status and the body, and few headers.     *)
Relay(r) ==
    /\ pc[r] = "relay"
    /\ reply' = [reply EXCEPT ![r].id = IF "x-request-id" \in ForwardedToClient THEN @ ELSE None]
    /\ Go(r, "respond")
    /\ UNCHANGED <<target, id, subject, hop, span, lines, stored>>

(* propagate(), after its await.                                           *)
Finish(r) ==
    /\ pc[r] = "respond"
    /\ reply' = [reply EXCEPT ![r].id = id[r]]
    /\ Go(r, "answered")
    /\ UNCHANGED <<target, id, subject, hop, span, lines, stored>>

Close(r) ==
    /\ pc[r] = "answered"
    /\ target' = [target EXCEPT ![r] = None]
    /\ id' = [id EXCEPT ![r] = None]
    /\ subject' = [subject EXCEPT ![r] = None]
    /\ hop' = [hop EXCEPT ![r] = Nobody]
    /\ span' = [span EXCEPT ![r] = NoSpan]
    /\ lines' = [lines EXCEPT ![r] = {}]
    /\ reply' = [reply EXCEPT ![r] = NoReply]
    /\ Go(r, "idle")
    /\ UNCHANGED stored

Next ==
    \E r \in Requests :
        \/ Propagate(r) \/ Route(r) \/ Authenticate(r) \/ Forward(r)
        \/ Direct(r) \/ Guard(r) \/ Serve(r) \/ Echo(r)
        \/ Relay(r) \/ Finish(r) \/ Close(r)

Spec == Init /\ [][Next]_vars
-----------------------------------------------------------------------------
GivenIds(r) == Ids \cup {Minted(r)}

(* Every variable keeps to its type, and behind the guard there is always  *)
(* a caller: MissingCaller is never raised.                                *)
TypeOK ==
    /\ pc \in [Requests -> Steps]
    /\ stored \in [Users -> Bodies \cup {None}]
    /\ \A r \in Requests :
          /\ target[r] # None =>
                target[r].path \in DOMAIN ProfileRoutes /\ target[r].method \in Methods
          /\ id[r] \in GivenIds(r) \cup {None}
          /\ subject[r] \in Users \cup {None}
          /\ hop[r].secret \in {Secret, Junk, None}
          /\ hop[r].user \in Users \cup {None}
          /\ hop[r].id \in GivenIds(r) \cup {Junk, None}
          /\ \A s \in Services : span[r][s] \in GivenIds(r) \cup {None}
          /\ \A line \in lines[r] :
                line.service \in Services /\ line.id \in GivenIds(r) \cup {None}
          /\ reply[r].status \in Nat /\ reply[r].owner \in Users \cup {None}
          /\ reply[r].id \in GivenIds(r) \cup {Junk, None}
          /\ pc[r] = "serve" => hop[r].user \in Users

Changed(u) == stored'[u] # stored[u]

(* Nobody's profile is read or written but through the gateway and by a    *)
(* request whose own token verified for that user, whatever its headers    *)
(* say and whatever other requests are open.                               *)
ActsForItsSubject ==
    [][/\ \A u \in Users :
             Changed(u) => \E r \in Requests : pc[r] = "serve" /\ pc'[r] # "serve" /\ subject[r] = u
       /\ \A r \in Requests : reply'[r].owner \in {None, subject'[r]}]_vars

(* One id spans a request that came by the gateway, refused ones included: *)
(* the client is told it, it is one it may safely have chosen or a new     *)
(* one, and every line that a handler of profile-service or one of its     *)
(* error responses logs carries it.                                        *)
OneIdSpansTheHop ==
    \A r \in Requests :
        pc[r] = "answered" /\ id[r] # None =>
            /\ reply[r].id \in GivenIds(r)
            /\ \A line \in lines[r] : line.service = "profile" => line.id = reply[r].id

(* Whatever is sent to a handler that validates it, the verdict is the     *)
(* first fault that InvalidProfile documents, and nothing that has one is  *)
(* stored: with the one exception that the code makes and its comments do  *)
(* not, a number padded with white space other than the space, which is    *)
(* judged by its other faults, accepted where it has none, and stored with *)
(* its padding.                                                            *)
FaultIsNamed ==
    /\ \A r \in Requests : pc[r] = "serve" /\ target[r].method # "GET" => Misjudged = {}
    /\ \A u \in Users : stored[u] # None => Faults(stored[u]) \subseteq Overlooked(stored[u])

(* What headers.rs 17 says: the id correlates the lines both services emit *)
(* for a request.                                                          *)
BothLogsCorrelated ==
    \A r \in Requests :
        pc[r] = "answered" /\ id[r] # None =>
            \A line \in lines[r] : line.id = reply[r].id
=============================================================================
