-------------------------------- MODULE Format --------------------------------
(***************************************************************************)
(* How vprint (src/src/lib/io.c) prints an integer: %d, %u, %x, %b and %o  *)
(* with a width and a padding character.  A printed text is the sequence   *)
(* of the calls of putchar_func; a digit stands for its value.             *)
(***************************************************************************)
EXTENDS Integers, Sequences

CONSTANTS
  ArgRange,  \* 2^32: the values of an argument are 0 .. ArgRange - 1
  PadRange   \* 2^8: the values of an int8_t

ASSUME FormatAssumption ==
  /\ ArgRange \in Nat \ {0} /\ ArgRange % 2 = 0
  /\ PadRange \in Nat \ {0} /\ PadRange % 2 = 0

SPACE == -1
MINUS == -2

\* A value that is stored in an int8_t.
Int8(n) == ((n + PadRange \div 2) % PadRange) - PadRange \div 2

\* The padding width that stands in the format, digit by digit.
Pad(width) ==
  LET pad[i \in 0 .. Len(width)] == IF i = 0 THEN 0 ELSE Int8(pad[i - 1] * 10 + width[i])
  IN pad[Len(width)]

\* The digits are found from the last one to the first; pad counts down with them.
io_putint(n, radix, pad, pad_char) ==
  LET digits[m \in 0 .. n] ==
        IF m = 0 THEN <<>> ELSE Append(digits[m \div radix], m % radix)
      text == IF n = 0 THEN <<0>> ELSE digits[n]
      left == Int8(pad - Len(text))
  IN [i \in 1 .. (IF left > 0 THEN left ELSE 0) |-> pad_char] \o text

IsNegative(arg) == arg >= ArgRange \div 2

\* A plausible slip: only the sign bit is dropped.
SignBitMutant(arg, pad, pad_char) ==
  IF IsNegative(arg)
  THEN <<MINUS>> \o io_putint(arg % (ArgRange \div 2), 10, Int8(pad - 1), pad_char)
  ELSE io_putint(arg, 10, pad, pad_char)

\* The sign comes before the padding, whatever the padding character.
Decimal(arg, pad, pad_char) ==
  IF IsNegative(arg)
  THEN <<MINUS>> \o io_putint((ArgRange - arg) % ArgRange, 10, Int8(pad - 1), pad_char)
  ELSE io_putint(arg, 10, pad, pad_char)

Radix == [d |-> 10, u |-> 10, x |-> 16, b |-> 2, o |-> 8]

vprint(specifier, width, pad_char, arg) ==
  IF specifier = "d" THEN Decimal(arg, Pad(width), pad_char)
                     ELSE io_putint(arg, Radix[specifier], Pad(width), pad_char)

-----------------------------------------------------------------------------
(* Reading a printed number again, from its first character to its last.   *)

IsDigit(c) == c >= 0

ReadBack(text, radix) ==
  LET value[i \in 0 .. Len(text)] ==
        IF i = 0 THEN 0
        ELSE IF IsDigit(text[i]) THEN value[i - 1] * radix + text[i]
        ELSE value[i - 1]
  IN IF text[1] = MINUS THEN -value[Len(text)] ELSE value[Len(text)]

Meaning(specifier, arg) == IF specifier = "d" /\ IsNegative(arg) THEN arg - ArgRange ELSE arg

\* The text with the padding taken away.
Bare(text) == SelectSeq(text, LAMBDA c : c # SPACE)

(* Every argument, the least negative number included, is printed so that   *)
(* it can be read again; the text fills the width and is longer only when  *)
(* the number is, and a number has no leading zeros of its own.            *)
PrintsWhatItIsGiven(arg, width) ==
  \A specifier \in DOMAIN Radix, pad_char \in {SPACE, 0} :
    LET text == vprint(specifier, <<width>>, pad_char, arg)
        bare == vprint(specifier, <<>>, pad_char, arg)
    IN /\ ReadBack(text, Radix[specifier]) = Meaning(specifier, arg)
       /\ Len(text) = IF width > Len(bare) THEN width ELSE Len(bare)
       /\ pad_char = SPACE => Bare(text) = bare
       /\ IsDigit(bare[1]) /\ Len(bare) > 1 => bare[1] # 0
=============================================================================
