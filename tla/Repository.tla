----------------------------- MODULE Repository -----------------------------
(***************************************************************************)
(* The vocabulary of profile-service's storage interface, store/mod.rs:    *)
(* what a caller may ask a ProfileRepository, and what it may be told.     *)
(*                                                                         *)
(* A payload (address and phone number) is one value of Inputs.  The audit *)
(* timestamp of a revision is left out: nothing is ordered by it, so a     *)
(* revision and the projection built from it hold the same two fields.     *)
(***************************************************************************)
EXTENDS Naturals, Sequences

CONSTANTS
    Users,          \* the owners of profiles
    Inputs,         \* the payloads a create or an update may carry
    Callers,        \* the requests the service may have open at one time
    LastVersion,    \* the version that has no successor
    Named,          \* the versions an update may say it replaces
    None            \* no profile, no request, no reply, nobody

Versions == 1..LastVersion

ASSUME LastVersionAssumption == LastVersion \in Nat \ {0}
ASSUME NamedAssumption == Versions \subseteq Named /\ Named \subseteq Nat

Profile(version, input) == [version |-> version, input |-> input]
Profiles == [version: Versions, input: Inputs]

Requests ==
    [op: {"create"}, user: Users, input: Inputs]
        \cup [op: {"get", "history"}, user: Users]
        \cup [op: {"update"}, user: Users, expected: Named, input: Inputs]

Replies ==
    [kind: {"created", "found", "applied"}, profile: Profiles]
        \cup [kind: {"exists", "missing", "exhausted", "backend"}]
        \cup [kind: {"stale"}, current: Versions]
        \cup [kind: {"history"}, revisions: Seq(Profiles)]

Holding(kind, profile) == [kind |-> kind, profile |-> profile]
Plain(kind) == [kind |-> kind]
Stale(version) == [kind |-> "stale", current |-> version]
History(revisions) == [kind |-> "history", revisions |-> revisions]

ASSUME NoneAssumption == None \notin Users \cup Callers \cup Profiles \cup Requests \cup Replies
=============================================================================
