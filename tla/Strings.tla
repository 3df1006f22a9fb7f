------------------------------- MODULE Strings -------------------------------
(***************************************************************************)
(* The helpers for strings and memory:                                     *)
(*   src/src/strhelp.c, src/src/memhelp.c, src/user/libc/string.c,         *)
(*   src/src/vfs.c vfs_parse_first and vfs_parse_last                      *)
(*                                                                         *)
(* A string is the sequence of its bytes, CStr what is in memory: indices  *)
(* from 0 and a NUL.  There is nothing behind the NUL, so that TLC reports *)
(* a function that reads further.  The loops are recursive functions of    *)
(* their counters.  An int goes from -Half to Half - 1; its overflow       *)
(* wraps, as the machine code does.                                        *)
(***************************************************************************)
EXTENDS Integers, Sequences

CONSTANTS Half, Word          \* 2^31, bytes of a long

NUL == 0
Minus == 45
Slash == 47
Digits == 48 .. 57
None == -1                    \* NULL, or the answer -1

CStr(s) == [k \in 0 .. Len(s) |-> IF k = Len(s) THEN NUL ELSE s[k + 1]]

\* the string that lies at s + k
Behind(s, k) == SubSeq(s, k + 1, Len(s))

Wrap(x) == ((x + Half) % (2 * Half)) - Half

\* the digits from the last to the first, with r and p as after i of them
atoi(st) ==
  LET n == CStr(st)[0] = Minus
      d == CStr(IF n THEN Tail(st) ELSE st)
      count[k \in DOMAIN d] == IF d[k] \in Digits THEN count[k + 1] ELSE k
      l == count[0]
      p[i \in 0 .. l] == IF i = 0 THEN 1 ELSE Wrap(p[i - 1] * 10)
      r[i \in 0 .. l] == IF i = 0 THEN 0 ELSE Wrap(r[i - 1] + p[i - 1] * (d[l - i] - 48))
  IN  IF n THEN Wrap(-r[l]) ELSE r[l]

strcmp(l, r) ==
  LET differ[k \in 0 .. Len(l)] ==
        IF CStr(l)[k] = NUL \/ CStr(l)[k] # CStr(r)[k]
        THEN CStr(l)[k] - CStr(r)[k] ELSE differ[k + 1]
  IN  differ[0]

\* n >> 2 rounds of four; and n & 3 more
RoundsAlways(n) == (n \div 4) + 1                   \* mutant: a round too many

Rounds(n) == n \div 4

strncmp(left, right, n) ==
  LET looked == IF n >= 4 THEN 4 * Rounds(n) + (n % 4) ELSE n
      differ[k \in 0 .. Len(left)] ==
        IF k >= looked THEN 0
        ELSE IF CStr(left)[k] = NUL \/ CStr(left)[k] # CStr(right)[k]
             THEN CStr(left)[k] - CStr(right)[k] ELSE differ[k + 1]
  IN  differ[0]

strfindchr(r, t) ==
  LET find[i \in 0 .. Len(r)] ==
        IF CStr(r)[i] = t THEN i ELSE IF CStr(r)[i] = NUL THEN None ELSE find[i + 1]
  IN  find[0]

strlen(s) ==
  LET len[k \in 0 .. Len(s)] == IF CStr(s)[k] = NUL THEN k ELSE len[k + 1]
  IN  len[0]

\* as strfindchr, but a pointer
strchr(s, c) ==
  LET find[i \in 0 .. Len(s)] ==
        IF CStr(s)[i] = c THEN i ELSE IF CStr(s)[i] = NUL THEN None ELSE find[i + 1]
  IN  find[0]

\* the string that strcpy leaves in its destination
strcpy(s) == SubSeq(s, 1, strlen(s))

CutAt(s, k) == IF k = None THEN s ELSE SubSeq(s, 1, k)

vfs_parse_first(path) ==
  LET first == strcpy(IF CStr(path)[0] = Slash THEN Behind(path, 1) ELSE path)
  IN  CutAt(first, strchr(first, Slash))

\* from one slash to the next, as long as there is one
vfs_parse_last(path) ==
  LET from[k \in 0 .. Len(path)] ==
        LET next == strchr(Behind(path, k), Slash)
        IN  IF next = None THEN k ELSE from[k + next + 1]
  IN  strcpy(Behind(path, from[0]))

----------------------------------------------------------------------------
\* a memory m, after i bytes and after i words
memset(m, dst, data, size) ==
  LET after[i \in 0 .. size] ==
        IF i = 0 THEN m ELSE [after[i - 1] EXCEPT ![dst + i - 1] = data]
  IN  after[size]

memcpy(m, dst, src, size) ==
  LET after[i \in 0 .. size] ==
        IF i = 0 THEN m ELSE [after[i - 1] EXCEPT ![dst + i - 1] = after[i - 1][src + i - 1]]
  IN  after[size]

memcmp(m, haystack, needle, size) ==
  LET same[i \in 0 .. size] ==
        IF i = size THEN TRUE
        ELSE IF m[haystack + i] # m[needle + i] THEN FALSE ELSE same[i + 1]
  IN  same[0]

\* a long is loaded, then stored
StoreLong(m, dst, src) ==
  [a \in DOMAIN m |-> IF a \in dst .. dst + Word - 1 THEN m[src + a - dst] ELSE m[a]]

RestFromStart(src, words) == src                  \* mutant: the rest from the beginning

RestFrom(src, words) == src + Word * words

user_memset(m, dst, data, size) ==
  LET words == size \div Word
      l == [a \in DOMAIN m |-> IF a \in dst .. dst + Word * words - 1 THEN data ELSE m[a]]
  IN  memset(l, RestFrom(dst, words), data, size % Word)

user_memcpy(m, dst, src, size) ==
  LET words == size \div Word
      longs[i \in 0 .. words] ==
        IF i = 0 THEN m
        ELSE StoreLong(longs[i - 1], dst + Word * (i - 1), src + Word * (i - 1))
  IN  memcpy(longs[words], RestFrom(dst, words), RestFrom(src, words), size % Word)

\* the other functions of the user library are the same code
user_memcmp(m, haystack, needle, size) == memcmp(m, haystack, needle, size)
user_atoi(st)                == atoi(st)
user_strcmp(l, r)            == strcmp(l, r)
user_strncmp(left, right, n) == strncmp(left, right, n)
user_strfindchr(r, t)        == strfindchr(r, t)
user_strlen(s)               == strlen(s)

----------------------------------------------------------------------------
(* What the properties of their callers are stated with. *)
IsPrefix(p, s) == Len(p) <= Len(s) /\ SubSeq(s, 1, Len(p)) = p

\* the longest beginning that a number can be
Number(s) ==
  LET sign == IF s # <<>> /\ s[1] = Minus THEN 1 ELSE 0
      numeric(k) == \A j \in sign + 1 .. k : s[j] \in Digits
      end == CHOOSE k \in sign .. Len(s) : numeric(k) /\ ~(k < Len(s) /\ numeric(k + 1))
      value[k \in sign .. end] == IF k = sign THEN 0 ELSE 10 * value[k - 1] + s[k] - 48
  IN  IF sign = 1 THEN -value[end] ELSE value[end]

Fits(n) == n \in -Half .. Half - 1
=============================================================================
