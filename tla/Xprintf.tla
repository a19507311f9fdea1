------------------------------ MODULE Xprintf -------------------------------
(***************************************************************************)
(* xvprintf (xprintf.c): the conversion of one argument, character by      *)
(* character.  The digits of a number are put into the buffer s[], least   *)
(* significant first, and are written from its end, between the padding.   *)
(*                                                                         *)
(* Words have Bits bits and the buffer Size characters; in the code they   *)
(* are 32 and 16.  What a % sequence says is a record; the parsing of the  *)
(* sequence is left out.                                                   *)
(***************************************************************************)
EXTENDS Integers, Sequences

CONSTANTS
    Bits, Size,
    Widths,  \* the minimum widths tried
    Lengths  \* the lengths of strings tried

XprintfConstants ==
    /\ Bits \in Nat \ {0} /\ Size \in Nat \ {0}
    /\ Widths \subseteq Nat /\ Lengths \subseteq Nat

Word == 0 .. 2^Bits - 1

\* Characters: the digits 0 to 15 and these; Letter is a character of a string.
Minus == 16
Space == 17
Letter == 18

VARIABLES
    seq,     \* the % sequence: type, flag and width w
    arg,     \* its argument, a word, or the length of a string
    v,       \* the value still to be converted
    s, i, j, \* the buffer, its index and the count of characters
    signed,  \* flag 8: the number is negative
    pc,
    out      \* the characters written by xputc

vars == <<seq, arg, v, s, i, j, signed, pc, out>>

Radix(type) == CASE type = "b" -> 2 [] type = "o" -> 8
                 [] type \in {"d", "u"} -> 10 [] type = "x" -> 16

Types == {"b", "o", "d", "u", "x", "s"}

Init ==
    /\ \E t \in Types, f \in {"none", "zero", "left"}, n \in Widths :
         seq = [type |-> t, flag |-> f, w |-> n]
    /\ arg \in IF seq.type = "s" THEN Lengths ELSE Word
    /\ v = arg /\ s = [k \in 0 .. Size - 1 |-> Space]
    /\ i = 0 /\ j = 0 /\ signed = FALSE /\ pc = "type" /\ out = <<>>

\* Faulty Type: the sign is forgotten.
TypeUnsigned ==
    /\ pc = "type"
    /\ pc' = IF seq.type = "s" THEN "before" ELSE "digits"
    /\ j' = IF seq.type = "s" THEN arg ELSE 0
    /\ UNCHANGED <<seq, arg, v, signed, s, i, out>>

\* A string is measured; a negative number is negated.
Type ==
    /\ pc = "type"
    /\ pc' = IF seq.type = "s" THEN "before" ELSE "digits"
    /\ j' = IF seq.type = "s" THEN arg ELSE 0
    /\ signed' = (seq.type = "d" /\ arg >= 2^(Bits - 1))
    /\ v' = IF signed' THEN (0 - arg) % 2^Bits ELSE arg
    /\ UNCHANGED <<seq, arg, s, i, out>>

\* Faulty Digit: nothing stops at the end of the buffer.
DigitUnbounded ==
    /\ pc = "digits"
    /\ s' = [k \in DOMAIN s |-> IF k = i THEN v % Radix(seq.type) ELSE s[k]]
    /\ v' = v \div Radix(seq.type)
    /\ i' = i + 1
    /\ pc' = IF v' # 0 THEN "digits" ELSE "sign"
    /\ UNCHANGED <<seq, arg, j, signed, out>>

\* One turn of the loop that fills the buffer.
Digit ==
    /\ pc = "digits"
    /\ s' = [k \in DOMAIN s |-> IF k = i THEN v % Radix(seq.type) ELSE s[k]]
    /\ v' = v \div Radix(seq.type)
    /\ i' = i + 1
    /\ pc' = IF v' # 0 /\ i' < Size THEN "digits" ELSE "sign"
    /\ UNCHANGED <<seq, arg, j, signed, out>>

Sign ==
    /\ pc = "sign"
    /\ s' = [k \in DOMAIN s |-> IF signed /\ k = i THEN Minus ELSE s[k]]
    /\ i' = IF signed THEN i + 1 ELSE i
    /\ j' = i'
    /\ pc' = "before"
    /\ UNCHANGED <<seq, arg, v, signed, out>>

\* The padding before: j is counted even when the comparison fails.
Before ==
    /\ pc = "before"
    /\ LET padded == seq.flag # "left" /\ j < seq.w
       IN  /\ out' = IF padded
                       THEN Append(out, IF seq.flag = "zero" /\ seq.type # "s"
                                          THEN 0 ELSE Space)
                       ELSE out
           /\ pc' = IF padded THEN "before" ELSE "body"
    /\ j' = IF seq.flag # "left" THEN j + 1 ELSE j
    /\ UNCHANGED <<seq, arg, v, s, i, signed>>

\* The string, or one digit of the number.
Body ==
    /\ pc = "body"
    /\ IF seq.type = "s"
         THEN /\ out' = out \o [k \in 1 .. arg |-> Letter]
              /\ pc' = "after"
              /\ UNCHANGED i
         ELSE /\ i' = i - 1
              /\ out' = Append(out, s[i'])
              /\ pc' = IF i' # 0 THEN "body" ELSE "after"
    /\ UNCHANGED <<seq, arg, v, s, j, signed>>

After ==
    /\ pc = "after"
    /\ out' = IF j < seq.w THEN Append(out, Space) ELSE out
    /\ pc' = IF j < seq.w THEN "after" ELSE "done"
    /\ j' = j + 1
    /\ UNCHANGED <<seq, arg, v, s, i, signed>>

Done == pc = "done" /\ UNCHANGED vars

Next == Type \/ Digit \/ Sign \/ Before \/ Body \/ After \/ Done

Spec == Init /\ [][Next]_vars

-----------------------------------------------------------------------------
(* Properties.                                                              *)

\* The index never leaves the buffer, the sign included.
BufferFits == i <= Size

\* What the digits of a numeral denote, most significant first.
Denotes(digits, radix) ==
    LET value[k \in 0 .. Len(digits)] ==
            IF k = 0 THEN 0 ELSE radix * value[k - 1] + digits[k]
    IN  value[Len(digits)]

\* The shortest numeral of the argument, with its sign; only the lowest Size
\* digits of a longer one are kept.
IsNumeral(n) ==
    LET negative == seq.type = "d" /\ arg >= 2^(Bits - 1)
        digits == IF negative THEN Tail(n) ELSE n
        radix == Radix(seq.type)
        size == IF negative THEN 2^Bits - arg ELSE arg
    IN  /\ negative => Len(n) > 1 /\ n[1] = Minus
        /\ Len(digits) >= 1
        /\ \A k \in 1 .. Len(digits) : digits[k] \in 0 .. radix - 1
        /\ Denotes(digits, radix) = size % radix^Size
        /\ Len(digits) > 1 /\ size < radix^Size => digits[1] # 0

\* The output is the numeral or the string, filled up to the width and no
\* further, on the side the flag says.
Converted ==
    pc = "done" =>
        \E n \in 0 .. Len(out) :
            LET pad == IF seq.w > n THEN seq.w - n ELSE 0
                from == IF seq.flag = "left" THEN 0 ELSE pad
                body == SubSeq(out, from + 1, from + n)
            IN  /\ Len(out) = n + pad
                /\ IF seq.type = "s"
                     THEN body = [k \in 1 .. arg |-> Letter]
                     ELSE IsNumeral(body)
                /\ \A k \in 1 .. Len(out) :
                     /\ k <= from => out[k] = IF seq.flag = "zero" /\ seq.type # "s"
                                                THEN 0 ELSE Space
                     /\ k > from + n => out[k] = Space
=============================================================================
