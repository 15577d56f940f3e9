---------------------------------- MODULE Tokens ----------------------------------
(***************************************************************************)
(* The text of an invite on its way from `session invite` to the host's    *)
(* validator: minted as bytes, printed in base58, typed by whoever joins,  *)
(* read back.  Bytes and characters are numbers in two bases, so that the  *)
(* lengths of the two and the zeros in front of both come out as they do   *)
(* with 256 and 58.  That nobody else can make the bytes of an invite is   *)
(* the MAC's; whether it is spent or expired, SessionStore's.              *)
(***************************************************************************)
EXTENDS Integers, SequencesExt

CONSTANTS Base,      \* values of a byte, 256 in the code
          Radix,     \* characters of the alphabet, 58 in the code
          InviteLen, \* bytes of an invite, 40 in the code
          MaxTyped   \* bound: characters typed

ASSUME BaseAssumption == Base \in Nat /\ Radix \in 2..Base
ASSUME TokenLengthAssumption == InviteLen \in Nat \ {0} /\ MaxTyped \in Nat

VARIABLES invite, \* "none", "printed", "typed" or "read"
          minted, \* the bytes of the invite
          typed   \* the characters typed

tokenVars == <<invite, minted, typed>>

Bytes == 0..(Base - 1)
Characters == 0..Radix \* Radix itself stands for those not in the alphabet
Invites == [1..InviteLen -> Bytes]

----------------------------------------------------------------------------------
(* big.Int: the number digits stand for, and its digits, none for zero.    *)
ValueOf(digits, base) ==
  LET value[n \in 0..Len(digits)] == IF n = 0 THEN 0 ELSE value[n - 1] * base + digits[n]
  IN  value[Len(digits)]
DigitsOf(number, base) ==
  LET digits[n \in 0..number] ==
        IF n = 0 THEN <<>> ELSE Append(digits[n \div base], n % base)
  IN  digits[number]

LeadingZeros(s) == CHOOSE n \in 0..Len(s) : /\ \A i \in 1..n : s[i] = 0
                                            /\ n < Len(s) => s[n + 1] # 0
Zeros(n) == [i \in 1..n |-> 0]

(* A faulty variant of base58Encode: zeros in front are lost.              *)
EncodeNumberOnly(input) == DigitsOf(ValueOf(input, Base), Radix)

(* base58Encode and base58Decode.                                          *)
Encode(input) == Zeros(LeadingZeros(input)) \o DigitsOf(ValueOf(input, Base), Radix)
Decode(s) == [ok |-> \A i \in DOMAIN s : s[i] # Radix,
              bytes |-> Zeros(LeadingZeros(s)) \o DigitsOf(ValueOf(s, Radix), Base)]

(* ParseInvite up to its MAC, which is right for the bytes minted only.    *)
ParseInvite(token) ==
  LET raw == Decode(token)
  IN  raw.ok /\ Len(raw.bytes) = InviteLen /\ raw.bytes = minted

----------------------------------------------------------------------------------
TokensInit == invite = "none" /\ minted = <<>> /\ typed = <<>>

GenerateInvite == /\ invite = "none"
                  /\ minted' \in Invites
                  /\ invite' = "printed"
                  /\ UNCHANGED typed

TypeToken == /\ invite = "printed"
             /\ typed' \in BoundedSeq(Characters, MaxTyped)
             /\ invite' = "typed"
             /\ UNCHANGED minted

(* What the validator made of it is SessionStore's; the text is forgotten. *)
ReadToken == /\ invite = "typed"
             /\ invite' = "read" /\ minted' = <<>> /\ typed' = <<>>

TokenNext == GenerateInvite \/ TypeToken \/ ReadToken

----------------------------------------------------------------------------------
(* An invite opens the session when it is typed as it was printed, however *)
(* many of its bytes are zero, and no other text stands for it             *)
(* (base58Encode, base58Decode, ParseInvite).                              *)
InviteAsPrinted == invite = "typed" => (ParseInvite(typed) <=> typed = Encode(minted))
===================================================================================
