------------------------------- MODULE Printf -------------------------------
(***************************************************************************)
(* src/src/printf.c: printf and snprintf of the kernel.  The firmware and  *)
(* the user library have copies that only differ in _putchar.              *)
(*                                                                         *)
(* A format is a sequence of characters, read from place at; a step is a   *)
(* round of the loop of _vsnprintf.  The integer types have the widths of  *)
(* the constants; a plain char has no sign, as on this machine.  The       *)
(* conversions of floating point numbers, which this system has none of,   *)
(* are left out.                                                           *)
(***************************************************************************)
EXTENDS Integers, Sequences, SequencesExt

CONSTANTS Calls,                                      \* what may be called
          CharBits, ShortBits, IntBits, LongBits,     \* of the types
          PtrBytes,                                   \* sizeof(void *)
          NtoaSize,                                   \* PRINTF_NTOA_BUFFER_SIZE
          BufferSize                                  \* bytes at the address for snprintf

VARIABLES job, format, args,                          \* the call
          at, va, idx, console, buffer, finished      \* how far it is

vars == <<job, format, args, at, va, idx, console, buffer, finished>>

NUL == "NUL"
None == "none"
Digits == <<"0", "1", "2", "3", "4", "5", "6", "7", "8", "9">>
Numerals == Digits \o <<"a", "b", "c", "d", "e", "f">>
Capitals == Digits \o <<"A", "B", "C", "D", "E", "F">>

Spaces(n) == [i \in 1 .. n |-> " "]
Zeros(n) == [i \in 1 .. n |-> "0"]

(***************************************************************************)
(* A call is a destination, the size for snprintf, and pieces: characters  *)
(* to copy, and conversions with their arguments, which are a number, or   *)
(* characters, and the numbers for the stars.  The functions only see the  *)
(* text of the pieces and the list of the arguments.                       *)
(***************************************************************************)
IsPlain(p) == DOMAIN p = {"char"}

IsInteger(p) == p.conversion \in {"d", "i", "u", "x", "X", "o", "b"}

Written(p) == IF IsPlain(p) THEN <<p.char>>
              ELSE <<"%">> \o p.flags \o p.width \o p.precision \o p.length \o <<p.conversion>>

Given(p) ==
  IF IsPlain(p) THEN <<>>
  ELSE p.stars \o (IF IsInteger(p) \/ p.conversion = "p" THEN <<p.number>>
                   ELSE IF p.conversion = "s" THEN <<p.text>>
                   ELSE IF p.conversion = "c" THEN p.text ELSE <<>>)

----------------------------------------------------------------------------
(* The characters go to the console one by one, or into the buffer as far  *)
(* as maxlen lets them.                                                    *)
OneTooMany(i, maxlen) == i <= maxlen                  \* mutant: an off-by-one

InBuffer(i, maxlen) == i < maxlen

_out_char(chars) == /\ console' = console \o SelectSeq(chars, LAMBDA c : c # NUL)
                    /\ UNCHANGED buffer

_out_buffer(chars, from) ==
  /\ buffer' = [i \in DOMAIN buffer |->
                  IF i - from \in 0 .. Len(chars) - 1 /\ InBuffer(i, job.maxlen)
                  THEN chars[i - from + 1] ELSE buffer[i]]
  /\ UNCHANGED console

Out(chars, from) ==
  IF job.dest = "console" THEN _out_char(chars) ELSE _out_buffer(chars, from)

At(k) == IF k <= Len(format) THEN format[k] ELSE NUL

\* how far the characters from k on are in the set
Past(k, set) ==
  CHOOSE j \in k .. Len(format) + 1 : At(j) \notin set /\ \A i \in k .. j - 1 : At(i) \in set

DigitOf(c) == (CHOOSE i \in DOMAIN Digits : Digits[i] = c) - 1

_atoi(k) ==
  LET value[j \in k .. Past(k, Range(Digits))] ==
        IF j = k THEN 0 ELSE (value[j - 1] * 10 + DigitOf(format[j - 1])) % 2 ^ IntBits
  IN  value[Past(k, Range(Digits))]

_strnlen_s(s, max) == IF max # 0 /\ max < Len(s) THEN max ELSE Len(s)

\* buf has the last character first
_out_rev(buf, width, flags) ==
  LET text == Reverse(buf)
      gap  == Spaces(width - Len(buf))
  IN  IF "-" \in flags THEN text \o gap ELSE IF "0" \in flags THEN text ELSE gap \o text

Put(buf, c) == IF Len(buf) < NtoaSize THEN Append(buf, c) ELSE buf

PutZeros(buf, len) ==
  buf \o Zeros((IF len < NtoaSize THEN len ELSE NtoaSize) - Len(buf))

\* the sign takes one of the places that zeros would fill
NoRoomForSign(width, negative, flags) == width        \* mutant: the sign comes on top

ZeroWidth(width, negative, flags) ==
  IF /\ "-" \notin flags /\ width > 0 /\ "0" \in flags
     /\ negative \/ flags \cap {"+", " "} # {}
  THEN width - 1 ELSE width

\* the prefix takes the place of zeros that filled the width, or of whatever is there
Hashed(buf, base, prec, width, flags) ==
  LET cut == IF "." \notin flags /\ buf # <<>> /\ Len(buf) \in {prec, width}
             THEN SubSeq(buf, 1, Len(buf) - IF Len(buf) > 1 /\ base = 16 THEN 2 ELSE 1)
             ELSE buf
      letter == IF base = 16 THEN Put(cut, IF "upper" \in flags THEN "X" ELSE "x")
                ELSE IF base = 2 THEN Put(cut, "b") ELSE cut
  IN  Put(letter, "0")

_ntoa_format(buf, negative, base, prec, width, flags) ==
  LET w      == ZeroWidth(width, negative, flags)
      filled == IF "-" \in flags THEN buf
                ELSE IF "0" \in flags THEN PutZeros(PutZeros(buf, prec), w)
                ELSE PutZeros(buf, prec)
      hashed == IF "#" \in flags THEN Hashed(filled, base, prec, w, flags) ELSE filled
      signed == IF negative THEN Put(hashed, "-")
                ELSE IF "+" \in flags THEN Put(hashed, "+")
                ELSE IF " " \in flags THEN Put(hashed, " ") ELSE hashed
  IN  _out_rev(signed, w, flags)

_ntoa_long(value, negative, base, prec, width, flags) ==
  LET digit(n) == (IF "upper" \in flags THEN Capitals ELSE Numerals)[n + 1]
      digits[n \in Nat] ==
        <<digit(n % base)>> \o IF n \div base = 0 THEN <<>> ELSE digits[n \div base]
      all == IF "." \in flags /\ value = 0 THEN <<>> ELSE digits[value]
  IN  _ntoa_format(SubSeq(all, 1, IF Len(all) < NtoaSize THEN Len(all) ELSE NtoaSize),
                   negative, base, prec, width,
                   IF value = 0 THEN flags \ {"#"} ELSE flags)

----------------------------------------------------------------------------
(***************************************************************************)
(* What lies behind a percent sign: each part, with the place behind it in *)
(* next and the argument that comes next in va.  A star takes an argument. *)
(***************************************************************************)
FlagChars == {"0", "-", "+", " ", "#"}

ReadFlags ==
  LET next == Past(at + 1, FlagChars)
  IN  [flags |-> {format[i] : i \in at + 1 .. next - 1}, next |-> next, va |-> va]

ReadWidth(d) ==
  IF At(d.next) = "*"
  THEN LET w == args[d.va]
       IN  [flags |-> d.flags \cup (IF w < 0 THEN {"-"} ELSE {}),
            width |-> IF w < 0 THEN -w ELSE w, next |-> d.next + 1, va |-> d.va + 1]
  ELSE [flags |-> d.flags, width |-> _atoi(d.next), next |-> Past(d.next, Range(Digits)),
        va |-> d.va]

ReadPrecision(d) ==
  LET Read(f, p, n, v) == [flags |-> f, width |-> d.width, precision |-> p, next |-> n, va |-> v]
      dot == d.flags \cup {"."}
  IN  IF At(d.next) # "." THEN Read(d.flags, 0, d.next, d.va)
      ELSE IF At(d.next + 1) = "*"
      THEN Read(dot, IF args[d.va] > 0 THEN args[d.va] ELSE 0, d.next + 2, d.va + 1)
      ELSE Read(dot, _atoi(d.next + 1), Past(d.next + 1, Range(Digits)), d.va)

\* a long has the width of a long long, and of ptrdiff_t, intmax_t and size_t
ReadLength(d) ==
  LET c     == At(d.next)
      twice == c \in {"l", "h"} /\ At(d.next + 1) = c
  IN  [length |-> CASE c \in {"l", "t", "j", "z"} -> "long"
                    [] c = "h" -> IF twice THEN "char" ELSE "short"
                    [] OTHER -> "int",
       next |-> d.next + IF twice THEN 2 ELSE IF c \in {"l", "h", "t", "j", "z"} THEN 1 ELSE 0]

\* all of it, up to the conversion character
Directive ==
  LET d == ReadPrecision(ReadWidth(ReadFlags))
      l == ReadLength(d)
  IN  [flags |-> d.flags, width |-> d.width, precision |-> d.precision, length |-> l.length,
       conversion |-> At(l.next), next |-> l.next + 1, va |-> d.va]

Unsigned(v, bits) == v % 2 ^ bits
Signed(v, bits) == ((v + 2 ^ (bits - 1)) % 2 ^ bits) - 2 ^ (bits - 1)

SignedValue(v, length) ==
  CASE length = "long"  -> Signed(v, LongBits)
    [] length = "int"   -> Signed(v, IntBits)
    [] length = "short" -> Signed(v, ShortBits)
    [] length = "char"  -> Unsigned(v, CharBits)

UnsignedValue(v, length) ==
  Unsigned(v, CASE length = "long" -> LongBits [] length = "int" -> IntBits
                [] length = "short" -> ShortBits [] length = "char" -> CharBits)

Base(c) == CASE c \in {"x", "X"} -> 16 [] c = "o" -> 8 [] c = "b" -> 2 [] OTHER -> 10

\* the flags that count for an integer
IntegerFlags(flags, c) ==
  LET ignored == (IF Base(c) = 10 THEN {"#"} ELSE {})
                 \cup (IF c \in {"d", "i"} THEN {} ELSE {"+", " "})
                 \cup (IF "." \in flags THEN {"0"} ELSE {})
  IN  (flags \ ignored) \cup IF c = "X" THEN {"upper"} ELSE {}

----------------------------------------------------------------------------
InitWith(call) ==
  /\ job = call
  /\ format = FlattenSeq([i \in DOMAIN call.pieces |-> Written(call.pieces[i])])
  /\ args = FlattenSeq([i \in DOMAIN call.pieces |-> Given(call.pieces[i])])
  /\ at = 1 /\ va = 1 /\ idx = 0 /\ finished = FALSE
  /\ console = <<>> /\ buffer = [i \in 0 .. BufferSize - 1 |-> None]

Init == \E call \in Calls : InitWith(call)

\* out for the characters, and where the loop goes on
Emit(chars, next, arg) ==
  /\ Out(chars, idx)
  /\ idx' = idx + Len(chars)
  /\ at' = next /\ va' = arg
  /\ UNCHANGED <<job, format, args, finished>>

Here(chars) == at <= Len(format) /\ format[at] \in chars

Literal == /\ at <= Len(format) /\ ~Here({"%"})
           /\ Emit(<<format[at]>>, at + 1, va)

_integer(d) ==
  LET v     == SignedValue(args[d.va], d.length)
      type  == IF d.length = "long" THEN LongBits ELSE IntBits
      flags == IntegerFlags(d.flags, d.conversion)
      base  == Base(d.conversion)
  IN  IF d.conversion \in {"d", "i"}
      THEN _ntoa_long(Unsigned(IF v > 0 THEN v ELSE -v, type), v < 0, base, d.precision,
                      d.width, flags)
      ELSE _ntoa_long(UnsignedValue(args[d.va], d.length), FALSE, base, d.precision,
                      d.width, flags)

Integer ==
  /\ Here({"%"})
  /\ LET d == Directive
     IN  IsInteger(d) /\ Emit(_integer(d), d.next, d.va + 1)

Padded(text, d) ==
  LET gap == Spaces(d.width - Len(text)) IN IF "-" \in d.flags THEN text \o gap ELSE gap \o text

Char ==
  /\ Here({"%"})
  /\ LET d == Directive
     IN  d.conversion = "c" /\ Emit(Padded(<<args[d.va]>>, d), d.next, d.va + 1)

String ==
  /\ Here({"%"})
  /\ LET d == Directive
         s == args[d.va]
         n == _strnlen_s(s, d.precision)
         l == IF "." \in d.flags /\ d.precision < n THEN d.precision ELSE n
     IN  d.conversion = "s" /\ Emit(Padded(SubSeq(s, 1, l), d), d.next, d.va + 1)

Pointer ==
  /\ Here({"%"})
  /\ LET d == Directive
         v == Unsigned(args[d.va], LongBits)
     IN  /\ d.conversion = "p"
         /\ Emit(_ntoa_long(v, FALSE, 16, d.precision, 2 * PtrBytes, d.flags \cup {"0", "upper"}),
                 d.next, d.va + 1)

\* the percent sign, and what is no conversion
Itself ==
  /\ Here({"%"})
  /\ LET d == Directive
     IN  /\ ~IsInteger(d) /\ d.conversion \notin {"c", "s", "p"}
         /\ Emit(<<d.conversion>>, d.next, d.va)

\* the terminator; for a size of zero its place is the last of all addresses
Finish ==
  /\ at = Len(format) + 1 /\ ~finished
  /\ Out(<<NUL>>, IF idx < job.maxlen THEN idx ELSE job.maxlen - 1)
  /\ finished' = TRUE
  /\ UNCHANGED <<job, format, args, at, va, idx>>

Next == Literal \/ Integer \/ Char \/ String \/ Pointer \/ Itself \/ Finish

----------------------------------------------------------------------------
(* What C says of the same pieces.                                         *)
Value(digits) ==
  LET v[i \in 0 .. Len(digits)] ==
        IF i = 0 THEN 0 ELSE v[i - 1] * 10 + DigitOf(digits[i])
  IN  v[Len(digits)]

Asked(p) == IF p.width = <<"*">> THEN p.stars[1] ELSE Value(p.width)

FieldWidth(p) == IF Asked(p) < 0 THEN -Asked(p) ELSE Asked(p)

LeftOf(p) == "-" \in Range(p.flags) \/ Asked(p) < 0

HasPrecision(p) == p.precision # <<>>

PrecisionOf(p) == IF p.precision = <<".", "*">> THEN Last(p.stars) ELSE Value(Tail(p.precision))

\* n in the base, without leading zeros
Numeral(n, base, letters) ==
  LET size == CHOOSE k \in 1 .. LongBits :
                base ^ k > n /\ (k = 1 \/ base ^ (k - 1) <= n)
  IN  [i \in 1 .. size |-> letters[((n \div base ^ (size - i)) % base) + 1]]

TypeOf(p) == IF p.length \in {<<"l">>, <<"l", "l">>, <<"z">>} THEN LongBits
             ELSE IF p.length = <<"h">> THEN ShortBits
             ELSE IF p.length = <<"h", "h">> THEN CharBits ELSE IntBits

\* v is what the type makes of the argument
ValueOf(p) ==
  LET rest == p.number % 2 ^ TypeOf(p)
  IN  IF p.conversion = "d" /\ 2 * rest >= 2 ^ TypeOf(p) THEN rest - 2 ^ TypeOf(p) ELSE rest

Magnitude(p) == IF ValueOf(p) < 0 THEN -ValueOf(p) ELSE ValueOf(p)

NumeralOf(p) ==
  IF HasPrecision(p) /\ PrecisionOf(p) = 0 /\ ValueOf(p) = 0 THEN <<>>
  ELSE Numeral(Magnitude(p), Base(p.conversion), IF p.conversion = "X" THEN Capitals ELSE Numerals)

Justified(p, text) ==
  LET gap == Spaces(FieldWidth(p) - Len(text)) IN IF LeftOf(p) THEN text \o gap ELSE gap \o text

SignOf(p) ==
  IF p.conversion # "d" THEN <<>>
  ELSE IF ValueOf(p) < 0 THEN <<"-">>
  ELSE IF "+" \in Range(p.flags) THEN <<"+">>
  ELSE IF " " \in Range(p.flags) THEN <<" ">> ELSE <<>>

PrefixOf(p) ==
  IF "#" \notin Range(p.flags) \/ ValueOf(p) = 0 THEN <<>>
  ELSE CASE p.conversion = "x" -> <<"0", "x">> [] p.conversion = "X" -> <<"0", "X">>
         [] p.conversion = "o" -> <<"0">> [] p.conversion = "b" -> <<"0", "b">>
         [] OTHER -> <<>>

IntegerText(p) ==
  LET front == SignOf(p) \o PrefixOf(p)
      body  == Zeros(IF ~HasPrecision(p) THEN 0 ELSE PrecisionOf(p) - Len(NumeralOf(p)))
               \o NumeralOf(p)
      fill  == FieldWidth(p) - Len(front) - Len(body)
  IN  IF "0" \in Range(p.flags) /\ ~LeftOf(p) /\ ~HasPrecision(p)
      THEN front \o Zeros(fill) \o body ELSE Justified(p, front \o body)

Expected(p) ==
  IF IsPlain(p) THEN <<p.char>>
  ELSE CASE p.conversion = "%" -> <<"%">>
         [] p.conversion = "c" -> Justified(p, p.text)
         [] p.conversion = "s" ->
              Justified(p, IF HasPrecision(p) /\ PrecisionOf(p) < Len(p.text)
                           THEN SubSeq(p.text, 1, PrecisionOf(p)) ELSE p.text)
         [] p.conversion = "p" ->
              Zeros(2 * PtrBytes - Len(Numeral(p.number, 16, Capitals)))
              \o Numeral(p.number, 16, Capitals)
         [] OTHER -> IntegerText(p)

\* Where the code keeps to C: a precision for a number is not negative and comes
\* without a minus flag, all digits and zeros find room in the buffer of _ntoa_long,
\* %hhd is not used; with # there are not as many digits as the width, %o has no
\* precision, and a zero flag leaves room for the prefix and does not come with %b.
\* What C leaves open is left open.
AsInC(p) ==
  IF IsPlain(p) THEN TRUE
  ELSE IF p.conversion \in {"%", "p", "k"}
  THEN p.conversion # "k" /\ p.flags = <<>> /\ ~HasPrecision(p)
  ELSE IF p.conversion \in {"c", "s"}
  THEN Range(p.flags) \subseteq {"-"} /\ (~HasPrecision(p) \/ PrecisionOf(p) >= 0)
  ELSE LET size == Len(NumeralOf(p))
           zero == "0" \in Range(p.flags) /\ ~LeftOf(p) /\ ~HasPrecision(p)
       IN  /\ HasPrecision(p) => PrecisionOf(p) >= 0 /\ ~LeftOf(p)
                                    /\ PrecisionOf(p) < NtoaSize
           /\ size + Len(SignOf(p)) + Len(PrefixOf(p)) <= NtoaSize
           /\ zero => FieldWidth(p) <= NtoaSize
           /\ ~(p.conversion = "d" /\ p.length = <<"h", "h">>)
           /\ PrefixOf(p) # <<>> =>
                /\ p.conversion = "o" => ~HasPrecision(p)
                /\ HasPrecision(p) \/ size # FieldWidth(p)
                /\ zero => /\ p.conversion # "b"
                           /\ size + Len(PrefixOf(p)) \notin FieldWidth(p) + 1 .. FieldWidth(p) + 2

\* What C prints goes to the console in full, or into the buffer as far as there is
\* room, with a terminator, and nothing behind the given size is touched; the answer
\* is the length of the full text (printf.c:639-1021, include/printf.h:60-69).
FormattedRight ==
  finished /\ (\A i \in DOMAIN job.pieces : AsInC(job.pieces[i])) =>
    LET text == FlattenSeq([i \in DOMAIN job.pieces |-> Expected(job.pieces[i])])
        kept == IF Len(text) < job.maxlen THEN Len(text) ELSE job.maxlen - 1
    IN  /\ idx = Len(text) /\ va = Len(args) + 1
        /\ IF job.dest = "console" THEN console = SelectSeq(text, LAMBDA c : c # NUL)
           ELSE \A i \in DOMAIN buffer :
                  buffer[i] = IF i < kept THEN text[i + 1] ELSE IF i = kept THEN NUL ELSE None
=============================================================================
