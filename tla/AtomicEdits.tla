----------------------------- MODULE AtomicEdits -----------------------------
(***************************************************************************)
(* What GET, POST and PUT of a profile with ETag and If-Match promise the  *)
(* clients of one account (routes/profile.rs), whatever lies in between:   *)
(* each client's edit is made at one instant, once or not at all, on the   *)
(* version the client holds then, and a client is only told of an edit     *)
(* that has been made.  There are no requests, no answers and no failures. *)
(***************************************************************************)
EXTENDS Naturals, Sequences, Functions

CONSTANTS Clients, None

VARIABLES
    log,        \* the edits made, oldest first
    base,       \* base[c]: the version c holds
    basis,      \* basis[c]: what c has seen of it, or None
    made        \* the clients that know their edit is made

vars == <<log, base, basis, made>>

Init ==
    /\ log = <<>> /\ made = {}
    /\ base = [c \in Clients |-> 0]
    /\ basis = [c \in Clients |-> None]

Made(c) == c \in Range(log)

(* A version that there is or has been, and maybe what it holds.           *)
Look(c) ==
    /\ ~Made(c)
    /\ \E version \in 0..Len(log) :
          /\ base' = [base EXCEPT ![c] = version]
          /\ \E seen \in {None} \cup {log[i] : i \in {version} \ {0}} :
                basis' = [basis EXCEPT ![c] = seen]
    /\ UNCHANGED <<log, made>>

Edit(c) ==
    /\ ~Made(c) /\ base[c] = Len(log)
    /\ log' = Append(log, c)
    /\ UNCHANGED <<base, basis, made>>

Learn(c) ==
    /\ Made(c)
    /\ made' = made \cup {c}
    /\ UNCHANGED <<log, base, basis>>

Next == \E c \in Clients : Look(c) \/ Edit(c) \/ Learn(c)

Spec == Init /\ [][Next]_vars
=============================================================================
