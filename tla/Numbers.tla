------------------------------- MODULE Numbers --------------------------------
(***************************************************************************)
(* How numbers are written and read: FORMAT-NUMBER and the words like it   *)
(* in src/src/runtime/prim.c, af_parse_number and af_parse_2number of      *)
(* src/src/runtime/inner.c, in whatever BASE a program sets.               *)
(*                                                                         *)
(* A cell is Width bits here and a double as many; the readers and writers *)
(* of the two differ in nothing else but the full stop that ends a double, *)
(* so one width does for both.  The buffers hold Width characters, 64 for  *)
(* a cell and 128 for a double.                                            *)
(*                                                                         *)
(* A character is a number: a digit its value, upper and lower case the    *)
(* same, and the others one each.                                          *)
(***************************************************************************)
EXTENDS Integers, Sequences, SequencesExt, Arithmetic

CONSTANTS Width, Bases,
          Alphabet, MaxText   \* bounds: the texts read that no word wrote

Minus == 36
Dot == 37
BasePrefixes == 38..41      \* % / # $
Other == 42
Characters == 0..42

\* in one bit, the signed -1 takes two characters
ASSUME NumberSizes ==
  /\ Width \in Nat \ {0, 1} /\ Bases \subseteq Nat /\ 10 \in Bases
  /\ Alphabet \subseteq Characters /\ MaxText \in Nat

VARIABLES base,
          written,      \* what the last FORMAT word wrote, or Nothing
          read          \* what the last text was read as, or Nothing

vars == <<base, written, read>>

M == Power(2, Width)
Cells == 0..(M - 1)
Nothing == [form |-> "none"]
Forms == {"cell", "double"}

-----------------------------------------------------------------------------
(* Writing.                                                                *)

\* the digits of a value in base b, none for zero
Digits(value, b) ==
  LET D[n \in 0..value] == IF n = 0 THEN <<>> ELSE Append(D[n \div b], n % b)
  IN  D[value]

\* mutant: the sign is for every base
Negative_AnyBase(value, b, signed) == signed /\ 2 * value >= M

\* only in base ten is a cell signed
Negative(value, b, signed) == signed /\ b = 10 /\ 2 * value >= M

\* FORMAT-NUMBER and FORMAT-2NUMBER, which are signed, and the UNSIGNED ones
Written(value, b, signed) ==
  CASE value = 0 -> <<0>>
    [] value # 0 /\ b \notin 2..36 -> <<>>
    [] OTHER -> IF Negative(value, b, signed)
                THEN <<Minus>> \o Digits(M - value, b)
                ELSE Digits(value, b)

-----------------------------------------------------------------------------
(* Reading.                                                                *)

\* the text without its prefix, if any, and the base it is in then
Unprefixed(text, b) ==
  IF text # <<>> /\ Head(text) \in BasePrefixes
  THEN [text |-> Tail(text),
        base |-> CASE Head(text) = 38 -> 2 [] Head(text) = 39 -> 8
                   [] Head(text) = 40 -> 10 [] Head(text) = 41 -> 16]
  ELSE [text |-> text, base |-> b]

\* mutants: one digit too many, or the last letter is refused
Accepts_Next(c, b) == IF c < 10 THEN c <= b ELSE c < 36 /\ (b < 10 \/ c < b)
Accepts_Less(c, b) == IF c < 10 THEN c < b ELSE c < 36 /\ (b < 10 \/ c < b - 1)

\* a digit is compared with the base, a letter's place in the alphabet with the
\* base less ten, which for a smaller base is a very large cell
Accepts(c, b) == IF c < 10 THEN c < b ELSE c < 36 /\ (b < 10 \/ c < b)

Accumulated(value, c, b) == (value * b + c) % M

Failed == [ok |-> FALSE, value |-> 0]

\* the digits of a text, one after the other, to the first that is none
Value(digits, b) ==
  FoldLeft(LAMBDA r, c : IF r.ok /\ Accepts(c, b)
                         THEN [ok |-> TRUE, value |-> Accumulated(r.value, c, b)]
                         ELSE Failed,
           [ok |-> TRUE, value |-> 0], digits)

\* mutant: the sign is skipped
Signed_Not(r, negative) == r

Signed(r, negative) == IF negative THEN [r EXCEPT !.value = (M - @) % M] ELSE r

\* af_parse_number, and af_parse_2number, which reads to the full stop at the
\* end of the text
Parsed(form, text, b) ==
  LET plain == Unprefixed(text, b)
      negative == plain.text # <<>> /\ Head(plain.text) = Minus
      rest == IF negative THEN Tail(plain.text) ELSE plain.text
  IN  IF plain.base \notin 2..36 \/ rest = <<>> \/ (form = "double" /\ Last(rest) # Dot)
      THEN Failed
      ELSE Signed(Value(IF form = "double" THEN Front(rest) ELSE rest, plain.base), negative)

-----------------------------------------------------------------------------
Init == base = 10 /\ written = Nothing /\ read = Nothing

\* BASE !; what was read before is done with
SetBase(b) == base' = b /\ read' = Nothing /\ written' = written

\* the FORMAT words; here before a text is read
Format(form, signed, n) ==
  /\ read = Nothing
  /\ written' = [form |-> form, base |-> base, number |-> n,
                 text |-> Written(n, base, signed)]
  /\ UNCHANGED <<base, read>>

Reads(form, text) ==
  LET r == Parsed(form, text, base)
  IN  /\ read' = [form |-> form, base |-> base, text |-> text,
                  ok |-> r.ok, value |-> r.value]
      /\ UNCHANGED <<base, written>>

\* the interpreter reads what a FORMAT word wrote, a double with a full stop
ReadBack ==
  /\ written # Nothing
  /\ Reads(written.form,
           IF written.form = "double" THEN Append(written.text, Dot) ELSE written.text)

\* ... or another text, here before any was written and one in a base
ReadText(form, text) == written = Nothing /\ read = Nothing /\ Reads(form, text)

Next ==
  \/ \E b \in Bases : SetBase(b)
  \/ \E form \in Forms, signed \in BOOLEAN, n \in Cells : Format(form, signed, n)
  \/ ReadBack
  \/ \E form \in Forms, text \in SeqOf(Alphabet, MaxText) : ReadText(form, text)

Spec == Init /\ [][Next]_vars

-----------------------------------------------------------------------------
(* Properties.                                                             *)

\* No FORMAT word writes past the start of its buffer, in any base.
TextFits == written # Nothing => Len(written.text) <= Width

\* What a FORMAT word writes is read as the same number if the base is still the
\* one it was written in: the least number, zero and the unsigned ones included.
RoundTrip ==
  written # Nothing /\ read # Nothing /\ written.base \in 2..36 =>
    (read.base = written.base => read.ok /\ read.value = written.number)

\* The texts that mean a number, without a word of how to read them: the digits d
\* in the base b after a prefix and a sign.
Meaning(d, b, negative) ==
  LET sum == SumFunction([i \in DOMAIN d |-> d[i] * Power(b, Len(d) - i)])
  IN  (IF negative THEN -sum ELSE sum) % M

BaseOf(p, b) == IF p = <<>> THEN b ELSE <<2, 8, 10, 16>>[Head(p) - 37]

Signs == {<<>>, <<Minus>>}
PrefixTexts == {<<>>} \cup {<<c>> : c \in BasePrefixes}
\* the texts left without up to two characters before and one after
Parts(text) == {SubSeq(text, i, j) : i \in 1..3, j \in {Len(text) - 1, Len(text)}}

\* the text last read is the prefix p, the sign s and the characters d
ReadIs(p, s, d) ==
  /\ read.text = p \o s \o d \o (IF read.form = "double" THEN <<Dot>> ELSE <<>>)
  /\ BaseOf(p, read.base) \in 2..36

ReadAs(p, s, d) == read.ok /\ read.value = Meaning(d, BaseOf(p, read.base), s # <<>>)

\* Every text that is a number in the base is read, as the number it means.
ReadsNumerals ==
  read # Nothing =>
    \A p \in PrefixTexts, s \in Signs, d \in Parts(read.text) :
      ReadIs(p, s, d) /\ d # <<>> /\ (\A i \in DOMAIN d : d[i] < BaseOf(p, read.base))
        => ReadAs(p, s, d)

\* No other is, but for what the code lets through: any letter in a base below
\* ten, and a double without digits.
ReadsNothingElse ==
  read # Nothing /\ read.ok =>
    \E p \in PrefixTexts, s \in Signs, d \in Parts(read.text) :
      /\ ReadIs(p, s, d) /\ ReadAs(p, s, d)
      /\ d = <<>> => read.form = "double"
      /\ \A i \in DOMAIN d :
           d[i] < BaseOf(p, read.base) \/ (BaseOf(p, read.base) < 10 /\ d[i] \in 10..35)

=============================================================================
