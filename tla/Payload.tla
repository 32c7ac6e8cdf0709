------------------------------- MODULE Payload -------------------------------
(***************************************************************************)
(* ProfileInput::validate (common, dto.rs): what a profile may hold.  A    *)
(* text is a sequence of kinds of characters, which is all the checks tell *)
(* apart: their width in bytes, whether trim() takes them for white space, *)
(* and whether a phone number may contain them.                            *)
(***************************************************************************)
EXTENDS Naturals, Sequences, FiniteSets, SequencesExt

CONSTANTS
    MaxAddressBytes, MaxPhoneBytes,     \* 512 and 32
    MinPhoneDigits, MaxPhoneDigits,     \* 7 and 15
    Samples     \* the inputs over which the checks are compared

ASSUME BoundsAssumption ==
    /\ MaxAddressBytes \in Nat /\ MaxPhoneBytes \in Nat
    /\ MinPhoneDigits \in Nat \ {0} /\ MaxPhoneDigits \in Nat

Bytes == [digit |-> 1, sign |-> 1, space |-> 1, tab |-> 1, letter |-> 1, wideSpace |-> 3]
White == {"space", "tab", "wideSpace"}
Dialled == {"digit", "sign", "space"}

Texts == Seq(DOMAIN Bytes)
Inputs == [address : Texts, phone : Texts]

ASSUME SamplesAssumption == Samples \subseteq Inputs

Size(text) == FoldLeft(LAMBDA sum, char : sum + Bytes[char], 0, text)

Inked(text) == {i \in DOMAIN text : text[i] \notin White}

Trim(text) ==
    IF Inked(text) = {} THEN <<>> ELSE SubSeq(text, Min(Inked(text)), Max(Inked(text)))

Count(text) == Cardinality({i \in DOMAIN text : text[i] = "digit"})

ValidateTrimmedSize(input) ==   \* mutant: the number is trimmed before it is measured
    LET phone == Trim(input.phone) IN
    IF Size(input.address) > MaxAddressBytes THEN "AddressTooLong"
    ELSE IF Trim(input.address) = <<>> THEN "EmptyAddress"
    ELSE IF Size(phone) > MaxPhoneBytes THEN "PhoneTooLong"
    ELSE IF phone = <<>> THEN "EmptyPhone"
    ELSE IF \E i \in DOMAIN phone : phone[i] \notin Dialled THEN "PhoneCharacters"
    ELSE IF Count(phone) \notin MinPhoneDigits..MaxPhoneDigits THEN "PhoneDigitCount"
    ELSE "ok"

(* The first check that fails, in the order of the code: sizes are those   *)
(* of the text as sent, the rest looks at the trimmed text.                *)
Validate(input) ==
    LET phone == Trim(input.phone) IN
    IF Size(input.address) > MaxAddressBytes THEN "AddressTooLong"
    ELSE IF Trim(input.address) = <<>> THEN "EmptyAddress"
    ELSE IF Size(input.phone) > MaxPhoneBytes THEN "PhoneTooLong"
    ELSE IF phone = <<>> THEN "EmptyPhone"
    ELSE IF \E i \in DOMAIN phone : phone[i] \notin Dialled THEN "PhoneCharacters"
    ELSE IF Count(phone) \notin MinPhoneDigits..MaxPhoneDigits THEN "PhoneDigitCount"
    ELSE "ok"

-----------------------------------------------------------------------------
(* What each variant of InvalidProfile says of an input as it is sent and  *)
(* stored, in its comment and its message.                                 *)
Wrong(input) ==
    [EmptyAddress |-> Range(input.address) \subseteq White,
     AddressTooLong |-> Size(input.address) > MaxAddressBytes,
     EmptyPhone |-> Range(input.phone) \subseteq White,
     PhoneTooLong |-> Size(input.phone) > MaxPhoneBytes,
     PhoneCharacters |-> ~(Range(input.phone) \subseteq Dialled),
     PhoneDigitCount |-> Count(input.phone) \notin MinPhoneDigits..MaxPhoneDigits]

Faults(input) == {fault \in DOMAIN Wrong(input) : Wrong(input)[fault]}

(* Of several faults the first is told: what a text is too long to be      *)
(* looked at for comes before anything about what is in it.                *)
Sequence == <<"AddressTooLong", "EmptyAddress", "PhoneTooLong", "EmptyPhone",
              "PhoneCharacters", "PhoneDigitCount">>

Told(faults) ==
    LET places == {n \in DOMAIN Sequence : Sequence[n] \in faults}
    IN  IF places = {} THEN "ok" ELSE Sequence[Min(places)]

(* Where the code departs from that.  trim() takes away the white space on *)
(* both sides of a number before its characters are looked at, and a space *)
(* is the only white space that a number may contain: of one that is       *)
(* padded with any other, the faulty characters are overlooked.            *)
Inside(text, i) == \E j, k \in Inked(text) : j <= i /\ i <= k

Padded(text) ==
    /\ \E i \in DOMAIN text : text[i] \notin Dialled
    /\ \A i \in DOMAIN text : Inside(text, i) => text[i] \in Dialled

Overlooked(input) == IF Padded(input.phone) THEN {"PhoneCharacters"} ELSE {}

Misjudged ==
    {input \in Samples : Validate(input) # Told(Faults(input) \ Overlooked(input))}
=============================================================================
