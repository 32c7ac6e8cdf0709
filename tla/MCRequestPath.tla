---------------------------- MODULE MCRequestPath ----------------------------
(***************************************************************************)
(* RequestPath for TLC.                                                    *)
(***************************************************************************)
EXTENDS RequestPath, TLC

Input(address, phone) == [address |-> address, phone |-> phone]

Addresses == BoundedSeq({"letter", "space", "wideSpace"}, 3)
Phones == BoundedSeq(DOMAIN Bytes, 4)

MCSamples == {Input(a, p) : a \in Addresses, p \in Phones}

(* An input with nothing wrong with it, one with a tab after its number,   *)
(* which is accepted though it has a fault, and two that are blank.        *)
MCBodies ==
    {Input(<<"letter">>, <<"digit", "sign">>), Input(<<"letter", "space">>, <<"space", "digit", "tab">>)}
    \cup {Input(<<"space">>, <<"digit">>), Input(<<"letter">>, <<"tab">>)}

Symmetry == Permutations(Requests) \cup Permutations(Users)
=============================================================================
