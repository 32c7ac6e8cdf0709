----------------------------- MODULE SqliteStore -----------------------------
(***************************************************************************)
(* SqliteProfiles (store/sqlite.rs).  Every call runs on a blocking thread *)
(* with the one connection to itself; what interleaves with it is failure: *)
(* any statement may be refused by the database, and the process may stop  *)
(* between two of them.  The tables survive a stop, as they do for a       *)
(* database opened from a file; an open transaction does not.              *)
(*                                                                         *)
(* LastVersion is the largest i64: to_sql refuses what lies beyond it.     *)
(***************************************************************************)
EXTENDS Repository, FiniteSets

VARIABLES
    rows,           \* rows[u]: the committed row of table profiles, or None
    audit,          \* audit[u]: the committed rows of profile_revisions
    txRows, txAudit,    \* the same tables as the connection sees them
    connection,     \* who holds the mutex around the connection
    pc,             \* pc[c]: the step c takes next
    request, reply  \* as in ProfileContract

disk == <<rows, audit>>
view == <<txRows, txAudit>>
calls == <<request, reply>>
vars == <<disk, view, connection, pc, calls>>

Statements == {"insert", "select", "update", "classify", "audit", "commit"}
Steps == Statements \cup {"idle", "queued", "release", "return"}

Init ==
    /\ rows = [u \in Users |-> None] /\ txRows = rows
    /\ audit = [u \in Users |-> {}] /\ txAudit = audit
    /\ connection = None
    /\ pc = [c \in Callers |-> "idle"]
    /\ request = [c \in Callers |-> None]
    /\ reply = [c \in Callers |-> None]

Go(c, step) == pc' = [pc EXCEPT ![c] = step]

Answer(c, answer) ==
    /\ reply' = [reply EXCEPT ![c] = answer]
    /\ Go(c, "release")
    /\ UNCHANGED request

RollbackForgotten == UNCHANGED view   \* mutant: the next call inherits the writes

(* A transaction that is dropped without a commit takes its writes along.  *)
Rollback == txRows' = rows /\ txAudit' = audit

Refuse(c, answer) ==
    /\ Answer(c, answer)
    /\ Rollback
    /\ UNCHANGED <<disk, connection>>

Invoke(c) ==
    /\ pc[c] = "idle"
    /\ \E r \in Requests : request' = [request EXCEPT ![c] = r]
    /\ Go(c, "queued")
    /\ UNCHANGED <<disk, view, connection, reply>>

FirstStatement(op) ==
    CASE op = "create" -> "insert"
      [] op = "update" -> "update"
      [] OTHER -> "select"

Acquire(c) ==
    /\ pc[c] = "queued"
    /\ connection = None
    /\ connection' = c
    /\ Go(c, FirstStatement(request[c].op))
    /\ UNCHANGED <<disk, view, calls>>

Put(c, version) ==
    txRows' = [txRows EXCEPT ![request[c].user] = Profile(version, request[c].input)]

(* INSERT OR IGNORE INTO profiles                                          *)
Insert(c) ==
    LET u == request[c].user IN
    /\ pc[c] = "insert"
    /\ \/ /\ txRows[u] # None
          /\ Refuse(c, Plain("exists"))
       \/ /\ txRows[u] = None
          /\ Put(c, 1)
          /\ Go(c, "audit")
          /\ UNCHANGED <<disk, txAudit, connection, calls>>

(* checked_next() and to_sql() come before the UPDATE, and look only at    *)
(* the version the caller named.                                           *)
NeverExhausted(expected) == FALSE   \* mutant: the counter runs past an i64
Exhausted(expected) == expected >= LastVersion

(* UPDATE profiles ... WHERE user_id = ? AND version = ?                   *)
MatchesOwner(u, expected) == txRows[u] # None   \* mutant: WHERE user_id = ? only
Matches(u, expected) == txRows[u] # None /\ txRows[u].version = expected

Update(c) ==
    LET u == request[c].user
        expected == request[c].expected
    IN
    /\ pc[c] = "update"
    /\ \/ /\ Exhausted(expected)
          /\ Refuse(c, Plain("exhausted"))
       \/ /\ ~Exhausted(expected) /\ ~Matches(u, expected)
          /\ Go(c, "classify")
          /\ UNCHANGED <<disk, view, connection, calls>>
       \/ /\ ~Exhausted(expected) /\ Matches(u, expected)
          /\ Put(c, expected + 1)
          /\ Go(c, "audit")
          /\ UNCHANGED <<disk, txAudit, connection, calls>>

(* SELECT version, to tell a stale update from one that has no profile.    *)
Classify(c) ==
    LET row == txRows[request[c].user] IN
    /\ pc[c] = "classify"
    /\ Refuse(c, IF row = None THEN Plain("missing") ELSE Stale(row.version))

(* The version a write gives its profile.                                  *)
Written(c) == IF request[c].op = "create" THEN 1 ELSE request[c].expected + 1

InsertForgotten(c) ==   \* mutant: commit a row that no revision backs
    /\ pc[c] = "audit"
    /\ Go(c, "commit")
    /\ UNCHANGED <<disk, view, connection, calls>>

InsertReplacing(c) ==   \* mutant: keep the newest revision only
    /\ pc[c] = "audit"
    /\ txAudit' = [txAudit EXCEPT ![request[c].user] = {Profile(Written(c), request[c].input)}]
    /\ Go(c, "commit")
    /\ UNCHANGED <<disk, txRows, connection, calls>>

(* INSERT INTO profile_revisions, whose key is (user_id, version).         *)
InsertRevision(c) ==
    LET u == request[c].user
        revision == Profile(Written(c), request[c].input)
    IN
    /\ pc[c] = "audit"
    /\ \A old \in txAudit[u] : old.version # revision.version
    /\ txAudit' = [txAudit EXCEPT ![u] = @ \cup {revision}]
    /\ Go(c, "commit")
    /\ UNCHANGED <<disk, txRows, connection, calls>>

Commit(c) ==
    /\ pc[c] = "commit"
    /\ rows' = txRows /\ audit' = txAudit
    /\ Answer(c, Holding(IF request[c].op = "create" THEN "created" ELSE "applied",
                         Profile(Written(c), request[c].input)))
    /\ UNCHANGED <<view, connection>>

(* ORDER BY version ASC                                                    *)
Earlier(revisions, version) == {r \in revisions : r.version < version}

Ordered(revisions) ==
    [i \in 1..Cardinality(revisions) |->
        CHOOSE r \in revisions : Cardinality(Earlier(revisions, r.version)) = i - 1]

Select(c) ==
    LET u == request[c].user IN
    /\ pc[c] = "select"
    /\ Answer(c, IF request[c].op = "history" THEN History(Ordered(txAudit[u]))
                 ELSE IF txRows[u] = None THEN Plain("missing")
                 ELSE Holding("found", txRows[u]))
    /\ UNCHANGED <<disk, view, connection>>

(* The database refuses a statement, a busy or a full one or a key that is *)
(* there already: the error returns from the closure, which drops the      *)
(* transaction.                                                            *)
Fail(c) ==
    /\ pc[c] \in Statements
    /\ Refuse(c, Plain("backend"))

ReleaseForgotten(c) ==   \* mutant: the guard outlives the closure
    /\ pc[c] = "release"
    /\ Go(c, "return")
    /\ UNCHANGED <<disk, view, connection, calls>>

(* The closure returns and the guard of the connection is dropped.         *)
Release(c) ==
    /\ pc[c] = "release"
    /\ connection' = None
    /\ Go(c, "return")
    /\ UNCHANGED <<disk, view, calls>>

Return(c) ==
    /\ pc[c] = "return"
    /\ request' = [request EXCEPT ![c] = None]
    /\ reply' = [reply EXCEPT ![c] = None]
    /\ Go(c, "idle")
    /\ UNCHANGED <<disk, view, connection>>

(* The process stops and comes back: SqliteProfiles::open on the file.     *)
Crash ==
    /\ Rollback
    /\ connection' = None
    /\ pc' = [c \in Callers |-> "idle"]
    /\ request' = [c \in Callers |-> None]
    /\ reply' = [c \in Callers |-> None]
    /\ UNCHANGED disk

Step(c) ==
    \/ Acquire(c) \/ Insert(c) \/ Update(c) \/ Classify(c) \/ InsertRevision(c)
    \/ Commit(c) \/ Select(c) \/ Fail(c) \/ Release(c) \/ Return(c)

Next == Crash \/ \E c \in Callers : Invoke(c) \/ Step(c)

Spec == Init /\ [][Next]_vars

(* Blocking threads run, and the parking_lot mutex is fair in the end.     *)
Fairness == \A c \in Callers : WF_vars(Step(c)) /\ SF_vars(Acquire(c))

FairSpec == Spec /\ Fairness
-----------------------------------------------------------------------------
TypeOK ==
    /\ rows \in [Users -> Profiles \cup {None}]
    /\ audit \in [Users -> SUBSET Profiles]
    /\ txRows \in [Users -> Profiles \cup {None}]
    /\ txAudit \in [Users -> SUBSET Profiles]
    /\ connection \in Callers \cup {None}
    /\ pc \in [Callers -> Steps]
    /\ request \in [Callers -> Requests \cup {None}]
    /\ reply \in [Callers -> Replies \cup {None}]

(* Nothing that is not committed outlives the call that wrote it: when the *)
(* next caller is handed the connection, it sees what is on disk.          *)
NoLeftovers == connection = None \/ pc[connection] = "release" => view = disk

Height(u) == IF rows[u] = None THEN 0 ELSE rows[u].version

(* Whatever fails and whenever the process stops, the two tables agree: a  *)
(* profile at version n has the revisions 1 to n, one each, and its row is *)
(* the newest of them.                                                     *)
TablesAgree ==
    \A u \in Users :
        /\ {r.version : r \in audit[u]} = 1..Height(u)
        /\ Cardinality(audit[u]) = Height(u)
        /\ rows[u] # None => rows[u] \in audit[u]

(* No failure and no restart takes back what was accepted.                 *)
AcceptedIsDurable ==
    [][\A u \in Users : audit[u] \subseteq audit'[u] /\ Height(u) <= Height(u)']_vars

(* Whatever is asked is answered, or its process has stopped.              *)
EveryCallReturns == \A c \in Callers : pc[c] # "idle" ~> pc[c] = "idle"

CommittedLog ==
    [u \in Users |->
        [i \in 1..Cardinality(audit[u]) |-> Ordered(audit[u])[i].input]]

Contract ==
    INSTANCE ProfileContract
        WITH log <- CommittedLog, EagerExhaustion <- TRUE

(* The store implements ProfileContract with restarts: a write takes       *)
(* effect at its commit, or not at all.                                    *)
ContractSpec == Contract!Spec

(* What store/mod.rs 133 says of VersionExhausted: the counter of the      *)
(* profile cannot advance.                                                 *)
ExhaustedOnlyAtLimit ==
    \A c \in Callers :
        reply[c] = Plain("exhausted") => Height(request[c].user) = LastVersion
=============================================================================
