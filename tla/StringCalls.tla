---------------------------- MODULE StringCalls ----------------------------
(***************************************************************************)
(* The helpers of Strings, each called once with every argument of a small *)
(* set, and what they are for.  Copying does not look at the bytes, so     *)
(* each cell of the memory is its own address, and every byte tells where  *)
(* it comes from.                                                          *)
(***************************************************************************)
EXTENDS Strings

CONSTANTS Texts,              \* the strings that are given to the functions
          Counts,             \* the third arguments of strncmp
          MemSize             \* of the memory for memset, memcpy and memcmp

VARIABLES call, result

vars == <<call, result>>

Memory == [a \in 0 .. MemSize - 1 |-> a]

(* Every call with the given arguments. *)
Bytes == {NUL} \cup UNION {{s[k] : k \in DOMAIN s} : s \in Texts}

Moves == {c \in [dst : 0 .. MemSize - 1, src : 0 .. MemSize - 1, size : 0 .. MemSize] :
            c.dst + c.size <= MemSize /\ c.src + c.size <= MemSize}

Calls == {<<"text", s>> : s \in Texts} \cup {<<"find", s, c>> : s \in Texts, c \in Bytes}
         \cup {<<"compare", s, t, n>> : s \in Texts, t \in Texts, n \in Counts}
         \cup {<<"move", c>> : c \in Moves}

NoResult == <<>>

InitWith(c) == call = c /\ result = NoResult

Init == \E c \in Calls : InitWith(c)

Returns(what, r) == call[1] = what /\ result = NoResult /\ result' = <<r>> /\ UNCHANGED call

Text ==
  /\ call[1] = "text"
  /\ LET s == call[2]
     IN  Returns("text", [atoi |-> {atoi(s), user_atoi(s)}, strcpy |-> strcpy(s),
                          strlen |-> {strlen(s), user_strlen(s)},
                          first |-> vfs_parse_first(s), last |-> vfs_parse_last(s)])

Find ==
  /\ call[1] = "find"
  /\ LET s == call[2]
         c == call[3]
     IN  Returns("find", {strfindchr(s, c), user_strfindchr(s, c), strchr(s, c)})

Compare ==
  /\ call[1] = "compare"
  /\ LET l == call[2]
         r == call[3]
         n == call[4]
     IN  Returns("compare", [whole |-> {strcmp(l, r), user_strcmp(l, r)},
                             n |-> {strncmp(l, r, n), user_strncmp(l, r, n)}])

Move ==
  /\ call[1] = "move"
  /\ LET c == call[2]
     IN  Returns("move", [set  |-> {memset(Memory, c.dst, None, c.size),
                                    user_memset(Memory, c.dst, None, c.size)},
                          copy |-> <<memcpy(Memory, c.dst, c.src, c.size),
                                     user_memcpy(Memory, c.dst, c.src, c.size)>>,
                          same |-> {memcmp(Memory, c.dst, c.src, c.size),
                                    user_memcmp(Memory, c.dst, c.src, c.size)}])

Next == Text \/ Find \/ Compare \/ Move

Spec == Init /\ [][Next]_vars

----------------------------------------------------------------------------
(* What the functions are for. *)
\* l comes before r: it is a proper prefix, or has the smaller byte where they part
Before(l, r) ==
  \/ IsPrefix(l, r) /\ l # r
  \/ \E k \in 1 .. Len(l) : /\ k <= Len(r) /\ l[k] < r[k]
                            /\ SubSeq(l, 1, k - 1) = SubSeq(r, 1, k - 1)

Truncated(s, n) == IF n < Len(s) THEN SubSeq(s, 1, n) ELSE s

Sign(n) == IF n < 0 THEN -1 ELSE IF n > 0 THEN 1 ELSE 0

Order(l, r) == IF Before(l, r) THEN -1 ELSE IF Before(r, l) THEN 1 ELSE 0

\* what lies between slashes, and between them and the ends
Parts(s) ==
  {p \in (1 .. Len(s) + 1) \X (0 .. Len(s)) :
      /\ p[1] <= p[2] + 1 /\ \A k \in p[1] .. p[2] : s[k] # Slash
      /\ p[1] = 1 \/ s[p[1] - 1] = Slash
      /\ p[2] = Len(s) \/ s[p[2] + 1] = Slash}

PartFrom(s, i) == LET p == CHOOSE q \in Parts(s) : q[1] = i IN SubSeq(s, p[1], p[2])

TextRight(s, r) ==
  /\ Fits(Number(s)) => r.atoi = {Number(s)}
  /\ r.strlen = {Len(s)} /\ r.strcpy = s
  /\ r.first = PartFrom(s, IF s # <<>> /\ s[1] = Slash THEN 2 ELSE 1)
  /\ r.last = PartFrom(s, CHOOSE i \in {p[1] : p \in Parts(s)} :
                            \A p \in Parts(s) : p[1] <= i)

FindRight(s, c, r) ==
  LET places == {k \in DOMAIN CStr(s) : CStr(s)[k] = c}
  IN  \A n \in r :
        IF places = {} THEN n = None ELSE n \in places /\ \A k \in places : n <= k

MoveRight(c, r) ==
  LET there == c.dst .. c.dst + c.size - 1
  IN  /\ r.set = {[a \in DOMAIN Memory |-> IF a \in there THEN None ELSE a]}
      /\ c.dst <= c.src \/ c.dst >= c.src + c.size =>
           \A k \in 1 .. 2 : r.copy[k] =
             [a \in DOMAIN Memory |-> IF a \in there THEN c.src + a - c.dst ELSE a]
      /\ r.same = {c.size = 0 \/ c.dst = c.src}

\* The helpers do what their names say, those of the kernel and the user library
\* alike: numbers that fit, the order of strings whatever the count for strncmp is,
\* the names in a path, and copies to disjoint or lower addresses, where no byte
\* around the destination changes (strhelp.c, memhelp.c, string.c, vfs.c:35-70).
HelpersRight ==
  result # NoResult =>
    LET r == result[1]
    IN  CASE call[1] = "text" -> TextRight(call[2], r)
          [] call[1] = "find" -> FindRight(call[2], call[3], r)
          [] call[1] = "compare" ->
               /\ \A n \in r.whole : Sign(n) = Order(call[2], call[3])
               /\ \A n \in r.n :
                    Sign(n) = Order(Truncated(call[2], call[4]), Truncated(call[3], call[4]))
          [] call[1] = "move" -> MoveRight(call[2], r)
=============================================================================
