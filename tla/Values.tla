-------------------------------- MODULE Values --------------------------------
(***************************************************************************)
(* Values and the forms they are stored in: amounts of money, the column   *)
(* types of entities, and what an audit entry and a database error say.    *)
(***************************************************************************)
EXTENDS Integers, Sequences, FiniteSets, FiniteSetsExt, SequencesExt

-------------------------------------------------------------------------------
(***************************************************************************)
(* Package money: amounts in integer cents, exact chains of fractions with *)
(* one rounding at the end, and the exact split of an amount.  Bits is the *)
(* width of an amount (64 in Go); Unit is the cents of one unit and Scale  *)
(* the units of a rate in one percent (100 and 100,000).                   *)
(* An outcome is {} for a panic or an error and {value} otherwise.         *)
(***************************************************************************)

CONSTANTS Bits, Unit, Scale

MinInt == -(2^(Bits - 1))
MaxInt == 2^(Bits - 1) - 1
IsInt64(v) == v \in MinInt..MaxInt
Wrap(v) == ((v - MinInt) % (2^Bits)) + MinInt
magnitude(v) == IF v < 0 THEN -v ELSE v
\* mustInt64 panics out of range.
mustInt64(v) == IF IsInt64(v) THEN {v} ELSE {}

New(cents, currency) == [cents |-> cents, currency |-> currency]
priced(cents, currency) == {New(c, currency) : c \in cents}

-----------------------------------------------------------------------------
(* Fractions: a pair with a positive denominator.                           *)
Rat(num, den) == IF den < 0 THEN <<-num, -den>> ELSE <<num, den>>
Times(x, y) == <<x[1] * y[1], x[2] * y[2]>>
Plus(x, y) == <<x[1] * y[2] + y[1] * x[2], x[2] * y[2]>>
Over(x, y) == Rat(x[1] * y[2], x[2] * y[1])
AtMost(x, y) == x[1] * y[2] <= y[1] * x[2]

\* roundRat: half away from zero.
roundRat(rat) ==
  LET q == magnitude(rat[1]) \div rat[2] r == magnitude(rat[1]) % rat[2]
      near == IF 2 * r >= rat[2] THEN q + 1 ELSE q
  IN IF rat[1] < 0 THEN -near ELSE near
floorRat(rat) == rat[1] \div rat[2]
roundScaled(val, scale) == mustInt64(roundRat(Times(val, <<scale, 1>>)))

(* Exact, and the operations of Money that are an Exact rounded once.       *)
ratio(r) == <<r, Scale * Unit>>
Percent(whole) == Wrap(whole * Scale)
FromMoney(m) == [r |-> <<m.cents, 1>>, currency |-> m.currency]
MulRate(e, r) == {[e EXCEPT !.r = Times(@, ratio(r))]}
AddRate(e, r) == {[e EXCEPT !.r = Times(@, Plus(<<1, 1>>, ratio(r)))]}
RemoveRate(e, r) ==
  LET gross == Plus(<<1, 1>>, ratio(r)) IN IF gross[1] = 0 THEN {} ELSE {[e EXCEPT !.r = Over(@, gross)]}
MulRatio(e, num, den) == IF den = 0 THEN {} ELSE {[e EXCEPT !.r = Times(@, Rat(num, den))]}
Round(e) == priced(mustInt64(roundRat(e.r)), e.currency)
RoundTo(e, step, mode) ==
  IF step <= 0 THEN {}
  ELSE LET quo == Over(e.r, <<step, 1>>)
           whole == CASE mode = "up" -> -floorRat(<<-quo[1], quo[2]>>) [] mode = "down" -> floorRat(quo) [] OTHER -> roundRat(quo)
       IN priced(mustInt64(whole * step), e.currency)
rounded(es) == UNION {Round(e) : e \in es}
DivInt(m, n) == rounded(MulRatio(FromMoney(m), 1, n))

-----------------------------------------------------------------------------
(* Sums.                                                                    *)
combine(a, b) ==
  CASE a = "" \/ a = b -> {b} [] b = "" -> {a} [] OTHER -> {}
\* The sum wraps; it overflowed when its sign is neither addend's.
Add(m, other) ==
  LET sum == Wrap(m.cents + other.cents)
      overflow == (m.cents < 0) # (sum < 0) /\ (other.cents < 0) # (sum < 0)
  IN IF overflow THEN {} ELSE {New(sum, c) : c \in combine(m.currency, other.currency)}
Neg(m) == [m EXCEPT !.cents = Wrap(-@)]
Abs(m) == IF m.cents < 0 THEN Neg(m) ELSE m
Sub(m, other) == Add(m, Neg(other))
Cmp(m, other) == IF m.cents < other.cents THEN -1 ELSE IF m.cents > other.cents THEN 1 ELSE 0
Sum(ms) == FoldLeft(LAMBDA total, one : UNION {Add(t, one) : t \in total}, {New(0, "")}, ms)
ExactAdd(e, other) == {[r |-> Plus(e.r, other.r), currency |-> c] : c \in combine(e.currency, other.currency)}
PercentOf(part, whole, decimals) ==
  IF whole.cents = 0 \/ combine(part.currency, whole.currency) = {} THEN {}
  ELSE roundScaled(Rat(part.cents * Unit, whole.cents), 10^(IF decimals > 0 THEN decimals ELSE 0))

-----------------------------------------------------------------------------
(* Allocate: shares rounded down, the cents left over to the largest        *)
(* remainders, the earlier part first.                                      *)
total(weights) == FoldLeft(LAMBDA a, b : a + b, 0, weights)
goesFirst(rems, i, j) == rems[i] > rems[j] \/ (rems[i] = rems[j] /\ i < j)
Allocate(amount, weights) ==
  IF (\E i \in DOMAIN weights : weights[i] < 0) \/ total(weights) = 0 THEN {}
  ELSE LET abs == magnitude(amount.cents) n == DOMAIN weights
           share == [i \in n |-> (abs * weights[i]) \div total(weights)]
           rems == [i \in n |-> (abs * weights[i]) % total(weights)]
           left == abs - total(share)
           lucky == {i \in n : Cardinality({j \in n : goesFirst(rems, j, i)}) < left}
           part == [i \in n |-> share[i] + (IF i \in lucky THEN 1 ELSE 0)]
       IN IF ~IsInt64(abs) THEN {}
          ELSE {[i \in n |-> New(IF amount.cents < 0 THEN -part[i] ELSE part[i], amount.currency)]}

-----------------------------------------------------------------------------
(* Text: a sequence of characters; a digit is its own number, the other     *)
(* characters are negative.                                                 *)
Minus == -1
PlusSign == -2
Point == -3
Signs == {Minus, PlusSign}
isDigit(c) == c \in 0..9
value(digits) == FoldLeft(LAMBDA n, d : 10 * n + d, 0, digits)
\* Cut at the first point, if there is one.
points(body) == {i \in DOMAIN body : body[i] = Point}
Cut(body) ==
  IF points(body) = {} THEN <<body, <<>>>>
  ELSE <<SubSeq(body, 1, Min(points(body)) - 1), SubSeq(body, Min(points(body)) + 1, Len(body))>>
parseDecimal(text) ==
  LET signs == {n \in 0..Len(text) : \A i \in 1..n : text[i] \in Signs}
      body == SubSeq(text, Max(signs) + 1, Len(text))
      whole == Cut(body)[1] frac == Cut(body)[2] digits == whole \o frac
      bad == \/ Max(signs) > 1 \/ body = <<>> \/ digits = <<>>
             \/ \E i \in DOMAIN digits : ~isDigit(digits[i])
             \/ points(body) # {} /\ frac = <<>>
  IN IF bad THEN {} ELSE LET v == value(digits) IN {<<IF text[1] = Minus THEN -v ELSE v, 10^Len(frac)>>}
FromDecimal(text, currency) == UNION {priced(roundScaled(v, Unit), currency) : v \in parseDecimal(text)}
RateFromDecimal(text) == UNION {roundScaled(v, Scale) : v \in parseDecimal(text)}
MulDecimal(e, text) == {[e EXCEPT !.r = Times(v, @)] : v \in parseDecimal(text)}
\* String, without the currency; Unit is 100 there and here 10 or 100.
places == IF Unit = 100 THEN 2 ELSE 1
twoDigits(n) == IF places = 2 THEN <<n \div 10, n % 10>> ELSE <<n>>
wholeDigits(n) == IF n < 10 THEN <<n>> ELSE IF n < 100 THEN <<n \div 10, n % 10>> ELSE <<n \div 100, (n \div 10) % 10, n % 10>>
String(m) ==
  LET abs == magnitude(m.cents)
  IN (IF m.cents < 0 THEN <<Minus>> ELSE <<>>) \o wholeDigits(abs \div Unit) \o <<Point>> \o twoDigits(abs % Unit)

-----------------------------------------------------------------------------
(* A split loses and makes no cent, gives each part its share to within a   *)
(* cent, nothing where there is no weight and no less to a larger weight.   *)
SplitExact(amount, weights) ==
  \A parts \in Allocate(amount, weights) :
     LET t == total(weights) abs == [i \in DOMAIN parts |-> magnitude(parts[i].cents)]
     IN /\ total([i \in DOMAIN parts |-> parts[i].cents]) = amount.cents
        /\ \A i \in DOMAIN parts :
              /\ magnitude(abs[i] * t - magnitude(amount.cents) * weights[i]) < t
              /\ weights[i] = 0 => abs[i] = 0
              /\ parts[i].cents # 0 => (parts[i].cents < 0) = (amount.cents < 0)
              /\ \A j \in DOMAIN parts : weights[i] > weights[j] => abs[i] >= abs[j]

(* Every rounding is to the nearest (a half away from zero) or the asked    *)
(* side; taking off a rate that was put on gives the amount back.           *)
RoundsOnce(m, r, num, den, step) ==
  LET near(e, k, s) == /\ 2 * magnitude(k * s * e.r[2] - e.r[1]) <= s * e.r[2]
                       /\ 2 * magnitude(k * s * e.r[2] - e.r[1]) = s * e.r[2] => magnitude(k * s) * e.r[2] >= magnitude(e.r[1])
  IN /\ \A e \in MulRatio(FromMoney(m), num, den) \cup MulRate(FromMoney(m), r) :
           /\ \A out \in Round(e) : near(e, out.cents, 1)
           /\ \A out \in RoundTo(e, step, "nearest") : out.cents % step = 0 /\ near(e, out.cents \div step, step)
           /\ \A out \in RoundTo(e, step, "up") : AtMost(e.r, <<out.cents, 1>>) /\ ~AtMost(<<out.cents, 1>>, Plus(e.r, <<-step, 1>>))
           /\ \A out \in RoundTo(e, step, "down") : AtMost(<<out.cents, 1>>, e.r) /\ ~AtMost(Plus(e.r, <<step, 1>>), <<out.cents, 1>>)
     /\ r >= 0 => \A gross \in rounded(AddRate(FromMoney(m), r)) : rounded(RemoveRate(FromMoney(gross), r)) = {m}

(* A sum that does not fit is refused, every other sum is the sum, and no   *)
(* two currencies are ever added.                                           *)
SumsRight(ms) ==
  LET all == {ms[i].currency : i \in DOMAIN ms} \ {""} sum == total([i \in DOMAIN ms |-> ms[i].cents])
      partial(n) == total([i \in 1..n |-> ms[i].cents])
      fits == \A n \in DOMAIN ms : IsInt64(partial(n))
  IN Sum(ms) = IF fits /\ Cardinality(all) <= 1 THEN {New(sum, IF all = {} THEN "" ELSE CHOOSE c \in all : TRUE)} ELSE {}

(* A decimal is read exactly or refused: a sign, digits, and after a point  *)
(* at least one digit; what String writes reads back as the same amount.    *)
TextRight(text, cents) ==
  LET unsigned == IF text # <<>> /\ text[1] \in Signs THEN Tail(text) ELSE text
      ok == /\ \A i \in DOMAIN unsigned : isDigit(unsigned[i]) \/ unsigned[i] = Point
            /\ Cardinality(points(unsigned)) <= 1 /\ unsigned # <<>> /\ unsigned[Len(unsigned)] # Point
      after == IF points(unsigned) = {} THEN 0 ELSE Len(unsigned) - Min(points(unsigned))
      v == value(SelectSeq(unsigned, LAMBDA c : c # Point))
  IN /\ parseDecimal(text) = IF ok THEN {<<IF text[1] = Minus THEN -v ELSE v, 10^after>>} ELSE {}
     /\ FromDecimal(String(New(cents, "EUR")), "EUR") = {New(cents, "EUR")}

(* Sub is m - other, with the errors of Add.                                *)
SubtractsRight(m, other) ==
  LET d == m.cents - other.cents
  IN Sub(m, other) = IF IsInt64(d) THEN {New(d, c) : c \in combine(m.currency, other.currency)} ELSE {}

-------------------------------------------------------------------------------
(***************************************************************************)
(* database/types: the column types of entities, how each one is written   *)
(* to the database, read back, and sent as JSON; and the type chosen for a *)
(* column (ColumnTypes).                                                   *)
(*                                                                         *)
(* A value in memory is {} for nil and {n} otherwise.  A time is a number  *)
(* of half seconds since Go's zero time, a day of Day of them; the server  *)
(* is LocalZone ahead of UTC.  A cell is [as, t, n]: how the driver hands  *)
(* it over, what it says and the number it says.                           *)
(***************************************************************************)

Day == 8
LocalZone == 2

Cell(as, t, n) == [as |-> as, t |-> t, n |-> n]
Nil == Cell("nil", "nil", 0)
Text(t, n) == Cell("text", t, n)
\* What cannot be read gives an error, for which no value stands.
Fails == {-98, -99}
Read(v) == Cardinality(v) <= 1

(********************************* in memory ********************************)

NewDate(instant, zone) == {(instant + zone) \div Day}
zeroDateValue(instant, zone) == IF (instant + zone) \div Day = 0 THEN {} ELSE {(instant + zone) \div Day}
NewNullDate(instant, zone) == zeroDateValue(instant, zone)
NewZeroDate(instant, zone) == zeroDateValue(instant, zone)
NewDateTime(instant) == {instant}
NewNullDateTime(instant) == IF instant = 0 THEN {} ELSE {instant}
NewZeroDateTime(instant) == IF instant = 0 THEN {} ELSE {instant}
NewNullString(s) == IF s.t = "empty" THEN {} ELSE {s}
NewLegacyBoolEnum(n) == {IF n = 1 THEN 1 ELSE 0}

(******************************* to the database ****************************)

The(v) == CHOOSE x \in v : TRUE
NilOr(v, cell) == IF v = {} THEN Nil ELSE cell
dayText(d) == Text("day", d)
wallText(i) == Text("wall", (i + LocalZone) \div 2)

BoolValue(v) == Cell("bool", "truth", The(v))
NullBoolValue(v) == IF v = {} THEN Nil ELSE Cell("bool", "truth", The(v))
IntValue(v) == Cell("int64", "digits", The(v))
NullIntValue(v) == IF v = {} THEN Nil ELSE Cell("int64", "digits", The(v))
FloatValue(v) == Cell("float64", "halves", The(v))
NullFloatValue(v) == IF v = {} THEN Nil ELSE Cell("float64", "halves", The(v))
StringValue(v) == The(v)
NullStringValue(v) == IF v = {} THEN Nil ELSE The(v)
EnumValue(v) == The(v)
LegacyBoolEnumValue(v) == Text("digits", The(v))
\* gorm writes a zero Date or DateTime as the zero text; database/sql as NULL.
DateValue(v) == IF The(v) = 0 THEN Text("zero day", 0) ELSE dayText(The(v))
NullDateValue(v) == IF v = {} \/ v = {0} THEN Nil ELSE dayText(The(v))
ZeroDateValue(v) == IF v = {} \/ v = {0} THEN Text("zero day", 0) ELSE dayText(The(v))
DateTimeValue(v) == IF The(v) = 0 THEN Text("zero wall", 0) ELSE wallText(The(v))
NullDateTimeValue(v) == IF v = {} \/ v = {0} THEN Nil ELSE wallText(The(v))
ZeroDateTimeValue(v) == IF v = {} \/ v = {0} THEN Text("zero wall", 0) ELSE wallText(The(v))

\* The driver (external): dates as text, or as times when it parses them; a
\* number or a bool as a number or as its digits.
handed(cell, parses) ==
  CASE cell.t = "day" /\ parses -> {Cell("time", "instant", cell.n * Day)}
    [] cell.t = "wall" /\ parses -> {Cell("time", "instant", 2 * cell.n - LocalZone)}
    [] cell.t \in {"zero day", "zero wall"} /\ parses -> {Cell("time", "instant", 0)}
    [] cell.as = "bool" -> {Cell("int64", "digits", cell.n), Text("digits", cell.n), cell}
    [] cell.as = "int64" -> {cell, Text("digits", cell.n)}
    [] cell.as = "float64" -> {cell, Text("halves", cell.n)}
    [] OTHER -> {cell}

(****************************** from the database ***************************)

\* A number's text: digits, or halves with a decimal point.
truth(c) == IF c.n = 0 THEN 0 ELSE 1
scanBool(c) == IF c.as = "bool" \/ (c.as \in {"int64", "text"} /\ c.t = "digits") THEN {truth(c)} ELSE Fails
scanInt(c) == CASE c.as \in {"int64", "text"} /\ c.t = "digits" -> {c.n}
                [] c.as = "float64" -> {IF c.n >= 0 THEN c.n \div 2 ELSE -((-c.n) \div 2)}
                [] OTHER -> Fails
scanFloat(c) == CASE c.t = "halves" -> {c.n}
                  [] c.as \in {"int64", "text"} /\ c.t = "digits" -> {2 * c.n}
                  [] OTHER -> Fails
scanString(c) == IF c.as = "text" THEN {c} ELSE IF c.as \in {"int64", "float64"} THEN {Text(c.t, c.n)} ELSE Fails

BoolScan(c) == scanBool(c)
NullBoolScan(c) == IF c = Nil THEN {} ELSE scanBool(c)
IntScan(c) == scanInt(c)
NullIntScan(c) == IF c = Nil THEN {} ELSE scanInt(c)
FloatScan(c) == scanFloat(c)
NullFloatScan(c) == IF c = Nil THEN {} ELSE scanFloat(c)
StringScan(c) == scanString(c)
NullStringScan(c) == IF c = Nil \/ c.t = "empty" THEN {} ELSE scanString(c)
EnumScan(c) == IF c.as = "text" THEN {c} ELSE Fails
LegacyBoolEnumScan(c) == IF c.as \in {"text", "int64"} THEN {IF c.t = "digits" /\ c.n = 1 THEN 1 ELSE 0} ELSE Fails

\* time.Parse refuses the zero date: it has no month.
scanDay(c) == CASE c.as = "time" -> {c.n \div Day}
                [] c.as = "text" /\ c.t = "day" -> {c.n}
                [] OTHER -> Fails
scanWall(c) == CASE c.as = "time" -> {c.n}
                 [] c.as = "text" /\ c.t = "wall" -> {2 * c.n - LocalZone}
                 [] OTHER -> Fails
isZeroCell(c) == c = Nil \/ (c.as = "time" /\ c.n = 0) \/ (c.as = "text" /\ c.t \in {"zero day", "zero wall", "empty"})
DateScan(c) == IF c = Nil THEN {0} ELSE scanDay(c)
NullDateScan(c) == IF c = Nil THEN {} ELSE scanDay(c)
ZeroDateScan(c) == IF isZeroCell(c) THEN {} ELSE scanDay(c)
DateTimeScan(c) == IF c = Nil THEN {0} ELSE scanWall(c)
NullDateTimeScan(c) == IF c = Nil THEN {} ELSE scanWall(c)
ZeroDateTimeScan(c) == IF isZeroCell(c) THEN {} ELSE scanWall(c)

(*********************************** JSON ***********************************)

Json(t, n) == Cell("json", t, n)
JsonNull == Json("null", 0)
BoolMarshal(v) == Json("truth", The(v))
NullBoolMarshal(v) == IF v = {} THEN JsonNull ELSE Json("truth", The(v))
IntMarshal(v) == Json("digits", The(v))
NullIntMarshal(v) == IF v = {} THEN JsonNull ELSE Json("digits", The(v))
FloatMarshal(v) == Json("halves", The(v))
NullFloatMarshal(v) == IF v = {} THEN JsonNull ELSE Json("halves", The(v))
StringMarshal(v) == Json(The(v).t, The(v).n)
NullStringMarshal(v) == IF v = {} THEN JsonNull ELSE Json(The(v).t, The(v).n)
EnumMarshal(v) == Json(The(v).t, The(v).n)
LegacyBoolEnumMarshal(v) == Json("truth", The(v))
jsonDay(v) == Json("day", The(v))
jsonWall(v) == Json("wall", (The(v) + LocalZone) \div 2)
DateMarshal(v) == IF v = {0} THEN JsonNull ELSE jsonDay(v)
NullDateMarshal(v) == IF v = {} THEN JsonNull ELSE jsonDay(v)
ZeroDateMarshal(v) == IF v = {} THEN JsonNull ELSE jsonDay(v)
DateTimeMarshal(v) == IF v = {0} THEN JsonNull ELSE jsonWall(v)
NullDateTimeMarshal(v) == IF v = {} THEN JsonNull ELSE jsonWall(v)
ZeroDateTimeMarshal(v) == IF v = {} THEN JsonNull ELSE jsonWall(v)

OfKind(j, t) == IF j.t = t THEN {j.n} ELSE Fails
OfNumber(j) == IF j.t = "digits" THEN {2 * j.n} ELSE OfKind(j, "halves")
NotText == {"null", "digits", "halves", "truth"}
OfText(j) == IF j.t \in NotText THEN Fails ELSE {Text(j.t, j.n)}
BoolUnmarshal(j) == IF j = JsonNull THEN {0} ELSE OfKind(j, "truth")
NullBoolUnmarshal(j) == IF j = JsonNull THEN {} ELSE OfKind(j, "truth")
IntUnmarshal(j) == IF j = JsonNull THEN {0} ELSE OfKind(j, "digits")
NullIntUnmarshal(j) == IF j = JsonNull THEN {} ELSE OfKind(j, "digits")
FloatUnmarshal(j) == IF j = JsonNull THEN {0} ELSE OfNumber(j)
NullFloatUnmarshal(j) == IF j = JsonNull THEN {} ELSE OfNumber(j)
StringUnmarshal(j) == IF j = JsonNull THEN {Text("empty", 0)} ELSE OfText(j)
NullStringUnmarshal(j) == IF j = JsonNull \/ j.t = "empty" THEN {} ELSE OfText(j)
EnumUnmarshal(j) == OfText(j)
LegacyBoolEnumUnmarshal(j) == CASE j.t = "truth" -> {j.n}
                                [] OTHER -> {IF j = Json("digits", 1) THEN 1 ELSE 0}
dayOf(j) == OfKind(j, "day")
wallOf(j) == IF j.t = "wall" THEN {2 * j.n - LocalZone} ELSE Fails
DateUnmarshal(j) == IF j = JsonNull \/ j.t = "empty" THEN {0} ELSE dayOf(j)
NullDateUnmarshal(j) == IF j = JsonNull \/ j.t = "empty" THEN {} ELSE dayOf(j)
ZeroDateUnmarshal(j) == IF j = JsonNull \/ j.t \in {"empty", "zero day"} THEN {} ELSE dayOf(j)
DateTimeUnmarshal(j) == IF j = JsonNull \/ j.t = "empty" THEN {0} ELSE wallOf(j)
NullDateTimeUnmarshal(j) == IF j = JsonNull \/ j.t = "empty" THEN {} ELSE wallOf(j)
ZeroDateTimeUnmarshal(j) == IF j = JsonNull \/ j.t \in {"empty", "zero wall"} THEN {} ELSE wallOf(j)

(******************************** all of them *******************************)

Stored(type, v) ==
  CASE type = "Bool" -> BoolValue(v)
    [] type = "NullBool" -> NullBoolValue(v)
    [] type = "Int" -> IntValue(v)
    [] type = "NullInt" -> NullIntValue(v)
    [] type = "Float" -> FloatValue(v)
    [] type = "NullFloat" -> NullFloatValue(v)
    [] type = "String" -> StringValue(v)
    [] type = "NullString" -> NullStringValue(v)
    [] type = "Enum" -> EnumValue(v)
    [] type = "LegacyBoolEnum" -> LegacyBoolEnumValue(v)
    [] type = "Date" -> DateValue(v)
    [] type = "NullDate" -> NullDateValue(v)
    [] type = "ZeroDate" -> ZeroDateValue(v)
    [] type = "DateTime" -> DateTimeValue(v)
    [] type = "NullDateTime" -> NullDateTimeValue(v)
    [] type = "ZeroDateTime" -> ZeroDateTimeValue(v)
Scanned(type, c) ==
  CASE type = "Bool" -> BoolScan(c)
    [] type = "NullBool" -> NullBoolScan(c)
    [] type = "Int" -> IntScan(c)
    [] type = "NullInt" -> NullIntScan(c)
    [] type = "Float" -> FloatScan(c)
    [] type = "NullFloat" -> NullFloatScan(c)
    [] type = "String" -> StringScan(c)
    [] type = "NullString" -> NullStringScan(c)
    [] type = "Enum" -> EnumScan(c)
    [] type = "LegacyBoolEnum" -> LegacyBoolEnumScan(c)
    [] type = "Date" -> DateScan(c)
    [] type = "NullDate" -> NullDateScan(c)
    [] type = "ZeroDate" -> ZeroDateScan(c)
    [] type = "DateTime" -> DateTimeScan(c)
    [] type = "NullDateTime" -> NullDateTimeScan(c)
    [] type = "ZeroDateTime" -> ZeroDateTimeScan(c)
Marshalled(type, v) ==
  CASE type = "Bool" -> BoolMarshal(v)
    [] type = "NullBool" -> NullBoolMarshal(v)
    [] type = "Int" -> IntMarshal(v)
    [] type = "NullInt" -> NullIntMarshal(v)
    [] type = "Float" -> FloatMarshal(v)
    [] type = "NullFloat" -> NullFloatMarshal(v)
    [] type = "String" -> StringMarshal(v)
    [] type = "NullString" -> NullStringMarshal(v)
    [] type = "Enum" -> EnumMarshal(v)
    [] type = "LegacyBoolEnum" -> LegacyBoolEnumMarshal(v)
    [] type = "Date" -> DateMarshal(v)
    [] type = "NullDate" -> NullDateMarshal(v)
    [] type = "ZeroDate" -> ZeroDateMarshal(v)
    [] type = "DateTime" -> DateTimeMarshal(v)
    [] type = "NullDateTime" -> NullDateTimeMarshal(v)
    [] type = "ZeroDateTime" -> ZeroDateTimeMarshal(v)
Unmarshalled(type, j) ==
  CASE type = "Bool" -> BoolUnmarshal(j)
    [] type = "NullBool" -> NullBoolUnmarshal(j)
    [] type = "Int" -> IntUnmarshal(j)
    [] type = "NullInt" -> NullIntUnmarshal(j)
    [] type = "Float" -> FloatUnmarshal(j)
    [] type = "NullFloat" -> NullFloatUnmarshal(j)
    [] type = "String" -> StringUnmarshal(j)
    [] type = "NullString" -> NullStringUnmarshal(j)
    [] type = "Enum" -> EnumUnmarshal(j)
    [] type = "LegacyBoolEnum" -> LegacyBoolEnumUnmarshal(j)
    [] type = "Date" -> DateUnmarshal(j)
    [] type = "NullDate" -> NullDateUnmarshal(j)
    [] type = "ZeroDate" -> ZeroDateUnmarshal(j)
    [] type = "DateTime" -> DateTimeUnmarshal(j)
    [] type = "NullDateTime" -> NullDateTimeUnmarshal(j)
    [] type = "ZeroDateTime" -> ZeroDateTimeUnmarshal(j)

\* What a value can be, by the constructors.
Texts == {Text("empty", 0), Text("word", 0), Text("word", 1)}
Zones == {-2, 0, 2}
Instants == {0, 6, 7, 17, 20}
Made(type) ==
  CASE type = "Bool" -> {{0}, {1}}
    [] type = "NullBool" -> {{}, {0}, {1}}
    [] type = "LegacyBoolEnum" -> {NewLegacyBoolEnum(n) : n \in 0..2}
    [] type \in {"Int", "Float"} -> {{n} : n \in (-3)..3}
    [] type \in {"NullInt", "NullFloat"} -> {{}} \cup {{n} : n \in (-3)..3}
    [] type \in {"String", "Enum"} -> {{s} : s \in Texts}
    [] type = "NullString" -> {NewNullString(s) : s \in Texts}
    [] type = "Date" -> {NewDate(i, z) : i \in Instants \ {0}, z \in Zones} \cup {NewDate(0, 0)}
    [] type = "NullDate" -> {{}} \cup {NewNullDate(i, z) : i \in Instants \ {0}, z \in Zones}
    [] type = "ZeroDate" -> {{}} \cup {NewZeroDate(i, z) : i \in Instants \ {0}, z \in Zones}
    [] type = "DateTime" -> {NewDateTime(i) : i \in Instants}
    [] type = "NullDateTime" -> {{}} \cup {NewNullDateTime(i) : i \in Instants}
    [] type = "ZeroDateTime" -> {{}} \cup {NewZeroDateTime(i) : i \in Instants}

\* Times keep whole seconds.
kept(type, v) == IF type \in {"DateTime", "NullDateTime", "ZeroDateTime"} THEN {(i \div 2) * 2 : i \in v} ELSE v

\* A zero Date or DateTime that gorm wrote is unreadable where the driver hands
\* dates over as text.
ZeroUnread(type, v, parses) == type \in {"Date", "DateTime"} /\ v = {0} /\ ~parses

\* What was written is read, from whatever the driver makes of it; and a client
\* that sends back what it was sent changes nothing.
ComesBack(type, v, parses) ==
  /\ ~ZeroUnread(type, v, parses) => \A c \in handed(Stored(type, v), parses) : Scanned(type, c) = kept(type, v)
  /\ Unmarshalled(type, Marshalled(type, v)) = kept(type, v)

(******************************** ColumnTypes *******************************)

\* A column is [type, null, zero, one, bits]: its type, whether it is nullable,
\* has the zero default, is a tinyint(1), is an enum('0','1').
nullable(col, plain, null) == IF col.null THEN null ELSE plain
zeroDefault(col, plain, null, zero) == IF col.null THEN null ELSE IF col.zero THEN zero ELSE plain
tinyint(col) == IF col.one THEN nullable(col, "Bool", "NullBool") ELSE nullable(col, "Int", "NullInt")
enum(col) == IF col.bits THEN "LegacyBoolEnum" ELSE "Enum"
ColumnTypes(col) ==
  CASE col.type = "tinyint" -> tinyint(col)
    [] col.type = "int" -> nullable(col, "Int", "NullInt")
    [] col.type = "decimal" -> nullable(col, "Float", "NullFloat")
    [] col.type = "boolean" -> "Bool"
    [] col.type = "date" -> zeroDefault(col, "Date", "NullDate", "ZeroDate")
    [] col.type = "datetime" -> zeroDefault(col, "DateTime", "NullDateTime", "ZeroDateTime")
    [] col.type = "varchar" -> nullable(col, "String", "NullString")
    [] col.type = "enum" -> enum(col)

\* What a row may hold in the column (external).
Cells(col) ==
  (IF col.null THEN {Nil} ELSE {}) \cup
  CASE col.type \in {"tinyint", "boolean"} -> {Cell("int64", "digits", n) : n \in 0..1}
    [] col.type = "int" -> {Cell("int64", "digits", 3)}
    [] col.type = "decimal" -> {Cell("float64", "halves", 3)}
    [] col.type = "date" -> {Text("day", 2)} \cup (IF col.zero THEN {Text("zero day", 0)} ELSE {})
    [] col.type = "datetime" -> {Text("wall", 9)} \cup (IF col.zero THEN {Text("zero wall", 0)} ELSE {})
    [] col.type = "varchar" -> Texts
    [] col.type = "enum" -> IF col.bits THEN {Text("digits", 0), Text("digits", 1)} ELSE {Text("word", 0)}

\* An entity generated from a table reads every row of it, a NULL in a boolean
\* or an enum column, and a zero date in a nullable one, aside.
TypeFitsColumn(col, parses) ==
  \A cell \in Cells(col) :
    \/ cell = Nil /\ col.type \in {"boolean", "enum"}
    \/ cell.t \in {"zero day", "zero wall"} /\ col.null /\ ~parses
    \/ \A c \in handed(cell, parses) : Read(Scanned(ColumnTypes(col), c))

-------------------------------------------------------------------------------
(***************************************************************************)
(* audit: what an entry says.  A state is a Go value: a struct of fields   *)
(* [name, json, off, shown, v] (off for audit:"-", shown for an exported   *)
(* one; json is the tag's name, "-" or "" and "," for a tag that names     *)
(* nothing), a list, a map, nil or a scalar.  A JSON value is a map from   *)
(* keys to values, a list or a scalar.  database: reading an error, the    *)
(* configuration of a connection and the search over columns.              *)
(***************************************************************************)

Scalar(n) == [k |-> "scalar", n |-> n]
NilValue == [k |-> "nil"]
Redacted == [k |-> "scalar", n |-> -1]

---------------------------------------------------------------------------
\* The name a field is stored under; a tag of options alone names nothing, and
\* the key is then empty.
jsonKey(fl) == IF fl.json = "" THEN fl.name ELSE IF fl.json = "," THEN "" ELSE fl.json

RECURSIVE stripAuditFields(_)
stripKept(fields) == SelectSeq(fields, LAMBDA fl : fl.shown /\ ~fl.off /\ fl.json # "-")
\* A struct becomes a map of what it shows; anything else is left to the
\* encoder, which knows no audit tag.
stripAuditFields(v) ==
    CASE v.k = "struct" ->
           LET fields == stripKept(v.fields)
           IN [k |-> "map", m |-> [key \in {jsonKey(fields[i]) : i \in 1..Len(fields)} |->
                 stripAuditFields(fields[CHOOSE i \in 1..Len(fields) : jsonKey(fields[i]) = key
                                         /\ \A j \in i+1..Len(fields) : jsonKey(fields[j]) # key].v)]]
      [] OTHER -> v

RECURSIVE encode(_)
encode(v) ==
    CASE v.k = "struct" ->
           LET fields == SelectSeq(v.fields, LAMBDA fl : fl.shown /\ fl.json # "-")
               key(fl) == IF fl.json \in {"", ","} THEN fl.name ELSE fl.json
           IN [k |-> "map", m |-> [x \in {key(fields[i]) : i \in 1..Len(fields)} |->
                                     encode(fields[CHOOSE i \in 1..Len(fields) : key(fields[i]) = x].v)]]
      [] v.k = "map" -> [k |-> "map", m |-> [x \in DOMAIN v.m |-> encode(v.m[x])]]
      [] v.k = "list" -> [k |-> "list", items |-> [i \in DOMAIN v.items |-> encode(v.items[i])]]
      [] OTHER -> v

\* isSensitiveKey: by what the key contains, whatever its case.
isSensitiveKey(key) == key \in {"password", "AccessToken", "api_key"}

RECURSIVE maskRecursive(_)
NoRecursionMutant(v) ==
    IF v.k = "map" THEN [k |-> "map", m |-> [x \in DOMAIN v.m |-> IF isSensitiveKey(x) THEN Redacted ELSE v.m[x]]] ELSE v
maskRecursive(v) ==
    CASE v.k = "map" -> [k |-> "map", m |-> [x \in DOMAIN v.m |-> IF isSensitiveKey(x) THEN Redacted ELSE maskRecursive(v.m[x])]]
      [] v.k = "list" -> [k |-> "list", items |-> [i \in DOMAIN v.items |-> maskRecursive(v.items[i])]]
      [] OTHER -> v
\* Mask: over the JSON form.
Mask(v) == IF v.k = "nil" THEN v ELSE maskRecursive(encode(v))

\* Repository.Write: the state as it is stored.
StoredState(v) == Mask(stripAuditFields(v))

---------------------------------------------------------------------------
structValue(v) == IF v.k = "struct" THEN {v} ELSE {}
diffName(fl) == IF fl.json \in {"", "-"} THEN fl.name ELSE IF fl.json = "," THEN "" ELSE fl.json
\* Diff: the names of the shown fields whose values differ, in order; nothing
\* to compare gives none.
Diff(before, after) ==
    IF structValue(before) = {} \/ structValue(after) = {} \/ Len(before.fields) # Len(after.fields) THEN <<>>
    ELSE LET differs == {i \in 1..Len(before.fields) : /\ ~before.fields[i].off /\ before.fields[i].shown
                                                       /\ before.fields[i].v # after.fields[i].v}
         IN [n \in 1..Cardinality(differs) |->
               diffName(before.fields[CHOOSE i \in differs : Cardinality({j \in differs : j <= i}) = n])]

---------------------------------------------------------------------------
\* AsSystem, AsSystemEvenSignedIn: how a context acts for the system.
SystemMark(job, always) == [job |-> job, always |-> always]
\* actorOf: the person signed in, or the system when the context is marked so
\* or is one of all tenants; neither is an error ({}).
actorOf(person, mark, allTenants) ==
    IF person > 0 /\ ~(\E m \in mark : m.always) THEN {[actor |-> person, meta |-> {}]}
    ELSE IF mark = {} /\ ~allTenants THEN {}
    ELSE {[actor |-> 0, meta |-> {<<"actor", "system">>} \cup {<<"job", m.job>> : m \in {x \in mark : x.job # ""}}]}

\* maps.Copy: the second map wins on a shared key.
copied(into, from) == {p \in into : \A q \in from : q[1] # p[1]} \cup from
WithContextMetadata(outer, meta) == copied(outer, meta)
WithMetadata(entry, meta) == copied(entry, meta)
\* Record: the context's metadata, then the actor's, then the caller's own.
Record(person, mark, allTenants, ctxMeta, ownMeta, before, after) ==
    {[actor |-> a.actor, metadata |-> WithMetadata(WithMetadata(WithMetadata({}, ctxMeta), a.meta), ownMeta),
      before |-> StoredState(before), after |-> StoredState(after),
      changed |-> IF before.k = "nil" \/ after.k = "nil" THEN <<>> ELSE Diff(before, after)] :
        a \in actorOf(person, mark, allTenants)}

---------------------------------------------------------------------------
\* What a stored value shows, with the keys leading to it.
RECURSIVE Shown(_, _)
Shown(v, path) ==
    CASE v.k = "map" -> UNION {Shown(v.m[x], Append(path, x)) : x \in DOMAIN v.m}
      [] v.k = "list" -> UNION {Shown(v.items[i], path) : i \in DOMAIN v.items}
      [] v.k = "scalar" -> {<<path, v.n>>}
      [] OTHER -> {}
HasSlice(v) == v.k = "struct" /\ \E i \in 1..Len(v.fields) : v.fields[i].v.k = "list"
OptionsOnly(v) == v.k = "struct" /\ \E i \in 1..Len(v.fields) : v.fields[i].json = ","

(* What an entry stores shows no value under a sensitive key at any depth and *)
(* no field tagged audit:"-" outside a list, and every other shown field is   *)
(* there; a named change is one the fields show (Write, stripAuditFields,     *)
(* Mask, Diff).                                                               *)
EntryTells(before, after) ==
    \A e \in Record(1, {}, FALSE, {}, {}, before, after) :
        /\ \A s \in Shown(e.before, <<>>) : (\E i \in DOMAIN s[1] : isSensitiveKey(s[1][i])) => s[2] = -1
        /\ before.k = "struct" => \A i \in 1..Len(before.fields) :
             LET fl == before.fields[i] IN
             fl.v.k = "scalar" =>
               /\ fl.off /\ ~HasSlice(before) => \A s \in Shown(e.before, <<>>) : s[2] # fl.v.n
               /\ fl.shown /\ ~fl.off /\ fl.json # "-" /\ ~OptionsOnly(before) /\ ~isSensitiveKey(jsonKey(fl)) =>
                    <<<<jsonKey(fl)>>, fl.v.n>> \in Shown(e.before, <<>>)
        /\ before = after => e.changed = <<>>
        /\ before.k = "struct" /\ after.k = "struct" =>
             \A i \in 1..Len(before.fields) : before.fields[i].off =>
                 \A j \in DOMAIN e.changed : e.changed[j] # diffName(before.fields[i])

(* An entry is never the system's while a person acts, unless its context     *)
(* says so even then, and never nobody's: actor 0 always says "system"        *)
(* unless the caller's own metadata says otherwise (Record, actorOf).         *)
ActorKnown(person, mark, allTenants, ctxMeta, ownMeta) ==
    \A e \in Record(person, mark, allTenants, ctxMeta, ownMeta, NilValue, NilValue) :
        /\ e.actor = 0 => /\ person = 0 \/ \E m \in mark : m.always
                          /\ (\A p \in ownMeta : p[1] # "actor") => <<"actor", "system">> \in e.metadata
        /\ e.actor # 0 => e.actor = person

---------------------------------------------------------------------------
\* An error as the driver gives it: [nil, gorm (ErrDuplicatedKey), number (of
\* a MySQL error, 0 for another kind), says (what its text contains)].
IsDuplicateKey(err) ==
    /\ ~err.nil
    /\ \/ err.gorm
       \/ IF err.number # 0 THEN err.number = 1062
          ELSE err.says \cap {"unique constraint failed", "duplicate entry", "duplicate key value"} # {}
IsDeadlock(err) == ~err.nil /\ err.number = 1213
IsDuplicateKeyNamed(err, key) == ~err.nil /\ err.number = 1062 /\ key \in err.says
\* CreateUnlessDuplicate: whether it was created, and the error.
CreateUnlessDuplicate(err) ==
    IF err.nil THEN [created |-> TRUE, failed |-> FALSE]
    ELSE [created |-> FALSE, failed |-> ~IsDuplicateKey(err)]
NotFoundAs(err) == CASE err = "record not found" \/ err = "no rows" -> "sentinel" [] OTHER -> err

\* validateConfig, withDefaults: a config is the set of fields given.
driverOf(cfg) == IF cfg.driver = "" THEN "mysql" ELSE cfg.driver
validateConfig(cfg) ==
    /\ cfg.name # ""
    /\ CASE driverOf(cfg) = "mysql" -> {"host", "port", "database", "username", "password"} \subseteq cfg.given
         [] driverOf(cfg) = "sqlite" -> "database" \in cfg.given
         [] OTHER -> FALSE
withDefaults(cfg) == [cfg EXCEPT !.idle = IF @ = 0 THEN 5 ELSE @, !.open = IF @ = 0 THEN 75 ELSE @]
\* openConnection: the driver that opens it.
openConnection(cfg) == CASE driverOf(cfg) = "sqlite" -> "openSQLite" [] driverOf(cfg) = "mysql" -> "openMySQL" [] OTHER -> "error"
\* mysqlDSN: what every session gets.
mysqlDSN(cfg) == [charset |-> IF cfg.charset = "" THEN "utf8mb4" ELSE cfg.charset, clientFoundRows |-> TRUE, parseTime |-> TRUE]

(* A config that Register accepts is opened by a driver there is, and a pool  *)
(* is never left unbounded (validateConfig, openConnection, withDefaults).    *)
ConfigOpens(cfg) == validateConfig(cfg) => openConnection(cfg) # "error" /\ withDefaults(cfg).open > 0

---------------------------------------------------------------------------
\* EscapeLike: a sequence of characters; "%", "_" and "\" match themselves.
EscapeLike(s) == FlattenSeq([i \in DOMAIN s |-> IF s[i] \in {"\\", "%", "_"} THEN <<"\\", s[i]>> ELSE <<s[i]>>])

\* LIKE (external), with backslash as its escape.
RECURSIVE Like(_, _)
Like(s, pat) ==
    IF pat = <<>> THEN s = <<>>
    ELSE CASE Head(pat) = "%" -> \E i \in 0..Len(s) : Like(SubSeq(s, i + 1, Len(s)), Tail(pat))
           [] Head(pat) = "_" -> s # <<>> /\ Like(Tail(s), Tail(pat))
           [] Head(pat) = "\\" /\ Len(pat) > 1 -> s # <<>> /\ Head(s) = pat[2] /\ Like(Tail(s), SubSeq(pat, 3, Len(pat)))
           [] OTHER -> s # <<>> /\ Head(s) = Head(pat) /\ Like(Tail(s), Tail(pat))

\* Fields: the parts of a text between blanks.
RECURSIVE Words(_)
Words(s) ==
    IF s = <<>> THEN <<>>
    ELSE IF Head(s) = " " THEN Words(Tail(s))
    ELSE LET ends == {i \in 1..Len(s) : i = Len(s) \/ s[i+1] = " "}
             e == CHOOSE i \in ends : \A j \in ends : i <= j
         IN <<SubSeq(s, 1, e)>> \o Words(SubSeq(s, e + 1, Len(s)))

\* ApplyFullTextSearch: each word in some column; no columns, no condition.
ApplyFullTextSearch(row, columns, term) ==
    columns = {} \/ \A i \in DOMAIN Words(term) :
        \E c \in columns : Like(row[c], <<"%">> \o EscapeLike(Words(term)[i]) \o <<"%">>)

HasPart(s, part) == \E i \in 0..Len(s) - Len(part) : SubSeq(s, i + 1, i + Len(part)) = part
(* A search finds the rows that hold every word of it, as typed, in some      *)
(* column (ApplyFullTextSearch, EscapeLike).                                  *)
SearchFinds(row, columns, term) ==
    columns # {} => (ApplyFullTextSearch(row, columns, term) <=>
                       \A i \in DOMAIN Words(term) : \E c \in columns : HasPart(row[c], Words(term)[i]))
===============================================================================
