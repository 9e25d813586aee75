-------------------------------- MODULE Money --------------------------------
(***************************************************************************)
(* The arithmetic every amount goes through (shared/src/money): integers,  *)
(* one explicit rounding, decimal strings in and out.  A decimal string    *)
(* is its sign and its two runs of digits; strings the grammar refuses are *)
(* left out.  Scales are parameters: TLC counts in 32 bits, the code in    *)
(* BigInt.                                                                 *)
(***************************************************************************)
EXTENDS Integers, Sequences, FiniteSets, Functions, Folds

AbsInt(n) == IF n < 0 THEN -n ELSE n
MaxInt(a, b) == IF a < b THEN b ELSE a
MinInt(a, b) == IF a < b THEN a ELSE b
SumInts(f) == FoldFunction(LAMBDA a, b : a + b, 0, f)

Pow10(n) == LET p[i \in 0..n] == IF i = 0 THEN 1 ELSE 10 * p[i - 1] IN p[n]

RoundingModes == {"floor", "ceil", "trunc", "half-up", "half-even"}

\* The division of BigInt: towards zero.
TruncDiv(n, d) == IF n < 0 THEN -((-n) \div d) ELSE n \div d

\* One step away from zero.
AwayFromZero(n, quotient) == IF n < 0 THEN quotient - 1 ELSE quotient + 1

\* divideRounded, once the denominator is positive.
Rounded(n, d, mode) ==
    LET quotient == TruncDiv(n, d)
        remainder == n - quotient * d
        twice == 2 * AbsInt(remainder)
    IN  CASE remainder = 0 -> quotient
          [] remainder # 0 /\ mode = "trunc" -> quotient
          [] remainder # 0 /\ mode = "floor" -> IF n < 0 THEN quotient - 1 ELSE quotient
          [] remainder # 0 /\ mode = "ceil" -> IF n < 0 THEN quotient ELSE quotient + 1
          [] remainder # 0 /\ mode = "half-up" ->
                IF twice >= d THEN AwayFromZero(n, quotient) ELSE quotient
          [] remainder # 0 /\ mode = "half-even" ->
                IF twice > d \/ (twice = d /\ quotient % 2 = 1)
                THEN AwayFromZero(n, quotient) ELSE quotient

DivideRounded(n, d, mode) ==
    IF d < 0 THEN Rounded(-n, -d, mode) ELSE Rounded(n, d, mode)

MulDiv(value, multiplier, divisor, mode) ==
    DivideRounded(value * multiplier, divisor, mode)

Rescale(value, from, to, mode) ==
    IF to >= from THEN value * Pow10(to - from)
    ELSE DivideRounded(value, Pow10(from - to), mode)
-----------------------------------------------------------------------------
(* Decimal strings.                                                        *)

\* The integer a run of digits writes.
Digits(run) ==
    SumInts([i \in DOMAIN run |-> run[i] * Pow10(Len(run) - i)])

Zeros(n) == [i \in 1..n |-> 0]

\* More digits than the scale are refused (<<>>), or rounded where allowed.
ParseDecimal(text, decimals, allowTruncation, mode) ==
    LET spare == decimals - Len(text.frac)
        magnitude == IF spare >= 0
                     THEN Digits(text.int \o text.frac \o Zeros(spare))
                     ELSE DivideRounded(Digits(text.int \o text.frac),
                                        Pow10(-spare), mode)
    IN  IF spare < 0 /\ ~allowTruncation THEN <<>>
        ELSE <<IF text.negative THEN -magnitude ELSE magnitude>>

\* TLC has no numbers of more digits.
MaxDigits == 9

\* The digits of a natural number, at least width of them.
DigitsOf(n, width) ==
    LET long == {k \in width..MaxDigits : n < Pow10(k)}
        count == CHOOSE k \in long : \A j \in long : k <= j
    IN  [i \in 1..count |-> (n \div Pow10(count - i)) % 10]

\* Without the zeros it ends in.
Trimmed(run) ==
    LET kept == {k \in 0..Len(run) : \A i \in (k + 1)..Len(run) : run[i] = 0}
    IN  SubSeq(run, 1, CHOOSE k \in kept : \A j \in kept : k <= j)

\* A value of 0 is never written with a sign.
FormatDecimal(value, decimals, trim) ==
    LET all == DigitsOf(AbsInt(value), decimals + 1)
        frac == SubSeq(all, Len(all) - decimals + 1, Len(all))
    IN  [negative |-> value < 0, int |-> SubSeq(all, 1, Len(all) - decimals),
         frac |-> IF trim THEN Trimmed(frac) ELSE frac]
-----------------------------------------------------------------------------
(* Amounts, rates and prices.                                              *)

\* Shares of an amount: the remainder goes to the first ones, one unit each.
Allocate(minor, parts) ==
    LET base == DivideRounded(minor, parts, "trunc")
        left == minor - base * parts
        step == IF left < 0 THEN -1 ELSE 1
    IN  [i \in 1..parts |-> IF i <= AbsInt(left) THEN base + step ELSE base]

\* An amount times factor / unit, rounded once.
WorthOf(amount, factor, unit) == MulDiv(amount * factor, 1, unit, "half-even")

\* minor units of the base currency in those of the quote currency.
ConvertFiat(minor, rate, scale, fromDecimals, toDecimals) ==
    WorthOf(minor, rate * Pow10(MaxInt(0, toDecimals - fromDecimals)),
            Pow10(scale) * Pow10(MaxInt(0, fromDecimals - toDecimals)))

InvertRate(rate, scale) == MulDiv(Pow10(scale), Pow10(scale), rate, "half-even")

\* What a quantity of a token is worth, in one rounding.
ValueOfToken(raw, price, scale, tokenDecimals, fiatDecimals) ==
    WorthOf(raw, price * Pow10(fiatDecimals), Pow10(tokenDecimals) * Pow10(scale))

\* A quantity for the eye: fewer places, zeros trimmed.
ToDisplay(raw, decimals, maxFractionDigits) ==
    LET places == MinInt(decimals, maxFractionDigits)
    IN  FormatDecimal(Rescale(raw, decimals, places, "half-up"), places, TRUE)

\* An amount for the eye: the sign is decided before the rounding.
FormatFiat(minor, decimals, fractionDigits) ==
    LET text == FormatDecimal(Rescale(AbsInt(minor), decimals, fractionDigits, "half-up"),
                              fractionDigits, FALSE)
    IN  [text EXCEPT !.negative = minor < 0]
-----------------------------------------------------------------------------
(* What is expected of them, over small numbers.                           *)

Small == -24..24
Scales == 0..2
Texts == [negative : BOOLEAN, int : [1..1 -> {0, 1, 9}],
          frac : {<<>>} \cup [1..1 -> {0, 5, 9}] \cup [1..2 -> {0, 4, 5}]]

\* Each rounding mode is what its name says of the exact quotient, whatever
\* the signs: r is on the right side of n/d, and nearer than any other.
RoundsAs(n, d, mode) ==
    LET r == DivideRounded(n, d, mode)
        err == (r * d - n) * (IF d < 0 THEN -1 ELSE 1)
        size == AbsInt(d)
    IN  /\ AbsInt(err) < size
        /\ mode = "floor" => err <= 0
        /\ mode = "ceil" => err >= 0
        /\ mode = "trunc" => AbsInt(r * d) <= AbsInt(n)
        /\ mode \in {"half-up", "half-even"} => 2 * AbsInt(err) <= size
        /\ mode = "half-up" /\ 2 * AbsInt(err) = size => AbsInt(r * d) > AbsInt(n)
        /\ mode = "half-even" /\ 2 * AbsInt(err) = size => r % 2 = 0

RoundsAsNamed ==
    \A n \in Small, d \in (-5..5) \ {0}, mode \in RoundingModes : RoundsAs(n, d, mode)

\* What is written is read back as the same amount, trimmed or not, and what
\* is read with more places than the scale is refused, not cut.
ReadBack(value, decimals, trim) ==
    ParseDecimal(FormatDecimal(value, decimals, trim), decimals, FALSE, "trunc") = <<value>>
RefusedNotCut(text, decimals) ==
    (ParseDecimal(text, decimals, FALSE, "trunc") = <<>>) <=> (Len(text.frac) > decimals)

DecimalsRoundTrip ==
    /\ \A value \in -120..120, decimals \in Scales, trim \in BOOLEAN :
          ReadBack(value, decimals, trim)
    /\ \A text \in Texts, decimals \in Scales : RefusedNotCut(text, decimals)

\* Instalments add up to the amount and differ by at most one unit.
AllocatedInFull(minor, parts) ==
    LET shares == Allocate(minor, parts)
    IN  /\ SumInts(shares) = minor
        /\ \A i, j \in 1..parts : AbsInt(shares[i] - shares[j]) <= 1

AllocatesAll == \A minor \in Small, parts \in 1..5 : AllocatedInFull(minor, parts)

\* Conversion and valuation are odd and monotone: an expense is worth what the
\* same income is worth, and more is never worth less.  A rate times
\* its inverse is 1, to within the rounding of the inverse.
ConvertsEvenly ==
    /\ \A a, b \in Small, rate \in {1, 5, 37, 150} :
          /\ ConvertFiat(-a, rate, 1, 2, 2) = -ConvertFiat(a, rate, 1, 2, 2)
          /\ ValueOfToken(-a, rate, 1, 2, 1) = -ValueOfToken(a, rate, 1, 2, 1)
          /\ a <= b => /\ ConvertFiat(a, rate, 1, 2, 2) <= ConvertFiat(b, rate, 1, 2, 2)
                       /\ ValueOfToken(a, rate, 1, 2, 1) <= ValueOfToken(b, rate, 1, 2, 1)
    /\ \A rate \in 1..100 :
          2 * AbsInt(InvertRate(rate, 2) * rate - Pow10(4)) <= rate

\* What is shown is the amount, to within half of the last place shown.
ShownAsIs(value, decimals, places) ==
    LET token == ParseDecimal(ToDisplay(value, decimals, places), decimals, FALSE, "trunc")[1]
        fiat == ParseDecimal(FormatFiat(value, decimals, places), decimals, FALSE, "trunc")[1]
    IN  /\ 2 * AbsInt(token - value) <= Pow10(decimals - places)
        /\ token = fiat

ShownRounded == \A value \in -120..120, places \in 0..2 : ShownAsIs(value, 2, places)

\* The amounts the system shows, stores and adds are exact where the code
\* says they are, and rounded as it says everywhere else.
MoneyIsExact ==
    RoundsAsNamed /\ DecimalsRoundTrip /\ AllocatesAll /\ ConvertsEvenly /\ ShownRounded
==============================================================================
