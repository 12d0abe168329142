------------------------------ MODULE ScriptNum ------------------------------
(***************************************************************************)
(* The numbers of scripts (scriptnum.go).  An int64 is serialized as its   *)
(* magnitude, least significant byte first, with the sign in the highest   *)
(* bit.  A byte is a number below Base, an int64 has Width bytes.          *)
(***************************************************************************)
EXTENDS Integers, Sequences

CONSTANTS
    Base,          \* 256 in the code
    Width,         \* 8 in the code
    Narrow,        \* how many of its bytes an int32 has, 4 in the code
    Panic          \* a model value, the panic of Go

ASSUME BaseAssumption == Base \in Nat /\ Base > 2 /\ Base % 2 = 0
ASSUME WidthAssumption == Width \in Nat /\ Narrow \in 1 .. Width

Half(bytes) == Base ^ bytes \div 2
Ints(bytes) == -Half(bytes) .. Half(bytes) - 1

\* 0x80
SignBit == Base \div 2

\* Go's -n: the least number is its own negative.
Negate(n) == IF n = -Half(Width) THEN n ELSE -n

\* What the loop takes off a number while it is positive.
Digits(m) ==
    LET from[r \in 0 .. m] == IF r = 0 THEN <<>> ELSE <<r % Base>> \o from[r \div Base]
    IN IF m > 0 THEN from[m] ELSE <<>>

\* Mutant: the sign always has a byte of its own.
BytesWide(n) ==
    LET digits == Digits(IF n < 0 THEN Negate(n) ELSE n)
    IN CASE n = 0 -> <<>>
         [] n # 0 /\ digits = <<>> -> Panic
         [] digits # <<>> -> Append(digits, IF n < 0 THEN SignBit ELSE 0)

\* Without a digit there is no last byte to look at.
Bytes(n) ==
    LET digits == Digits(IF n < 0 THEN Negate(n) ELSE n)
        last   == digits[Len(digits)]
        sign   == IF n < 0 THEN SignBit ELSE 0
    IN CASE n = 0 -> <<>>
         [] n # 0 /\ digits = <<>> -> Panic
         [] digits # <<>> /\ last >= SignBit -> Append(digits, sign)
         [] digits # <<>> /\ last < SignBit -> [digits EXCEPT ![Len(digits)] = @ + sign]

\* Mutant: a simple cast.
Int32Cast(n) == ((n + Half(Narrow)) % (Base ^ Narrow)) - Half(Narrow)

Int32(n) ==
    CASE n > Half(Narrow) - 1 -> Half(Narrow) - 1
      [] n < -Half(Narrow)    -> -Half(Narrow)
      [] n \in Ints(Narrow)   -> n

-----------------------------------------------------------------------------
(* How the network reads such bytes, and what it asks of them.             *)

Decode(bytes) ==
    LET last == Len(bytes)
        from[i \in 1 .. last + 1] ==
            IF i > last THEN 0
            ELSE (IF i = last THEN bytes[i] % SignBit ELSE bytes[i]) + Base * from[i + 1]
    IN CASE bytes = <<>> -> 0
         [] bytes # <<>> /\ bytes[last] >= SignBit -> -from[1]
         [] bytes # <<>> /\ bytes[last] < SignBit  -> from[1]

Minimal(bytes) ==
    LET last == Len(bytes)
    IN \/ bytes = <<>>
       \/ bytes[last] % SignBit # 0
       \/ last > 1 /\ bytes[last - 1] >= SignBit
=============================================================================
