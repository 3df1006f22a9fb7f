-------------------------- MODULE SbiConsoleProofs --------------------------
(***************************************************************************)
(* Proofs about SbiConsole for rings and command lines of every size, any  *)
(* number of harts that read, and any number of characters.                *)
(***************************************************************************)
EXTENDS SbiConsole, TLAPS

\* Hart 0 is not one of the others, the lock's free value is no hart, the ring has
\* room for something.
SbiConsoleConstants ==
  /\ Console \notin Others /\ Nobody \notin Readers
  /\ BuffSize \in Nat \ {0} /\ LineSize \in Nat /\ MaxTyped \in Nat

\* A hart has taken the first character, but not counted it off yet.
Taking == \E h \in Readers : pc[h] = "get_count" /\ char[h] # NoChar

Filled == IF Taking THEN end - 1 ELSE end

\* Who can be where, and what that says of the lock and of the handler's character.
Places ==
  /\ pc \in [Readers -> {"call", "get_read", "get_count", "got", "wfi", "asleep",
                         "irq", "put_lock", "put_store", "put_count"}]
  /\ \A h \in Others : pc[h] \in {"call", "get_read", "get_count", "got"}
  /\ \A h \in Readers : pc[h] \in {"get_read", "get_count"} => mutex = h
  /\ pc[Console] \in {"put_store", "put_count"} => mutex = Console
  /\ irqChar # NoChar <=> pc[Console] \in {"put_lock", "put_store", "put_count"}
  /\ pc[Console] = "put_count" /\ Room => buf[(start + end) % BuffSize] = irqChar
  /\ Taking => end > 0

Ascending(s) == \A i, j \in 1 .. Len(s) : i < j => s[i] < s[j]

Before(s, t) == \A i \in 1 .. Len(s), j \in 1 .. Len(t) : s[i] < t[j]

Upto(s, n) == s \in Seq(Ids) /\ \A i \in 1 .. Len(s) : s[i] <= n

In(n, s) == \E i \in 1 .. Len(s) : s[i] = n

\* The stations on the way, in order, and that nothing on it is yet to be typed: d was
\* delivered, r is in the ring, f with the handler, u in the UART, n were typed.
InLine(d, r, f, u, n) ==
  /\ Ascending(d) /\ Ascending(r) /\ Ascending(u)
  /\ Before(d, r) /\ Before(d, f) /\ Before(d, u)
  /\ Before(r, f) /\ Before(r, u) /\ Before(f, u)
  /\ Upto(d, n) /\ Upto(r, n) /\ Upto(f, n) /\ Upto(u, n)

\* Nobody is lost: of the t that were typed, each is at a station, or lost for a reason.
Somewhere(d, r, f, u, lost, t) ==
  \A n \in 1 .. Len(t) :
    In(n, d) \/ In(n, r) \/ In(n, f) \/ In(n, u) \/ n \in lost \/ t[n] = "ff"

Ordered == InLine(delivered, Contents, InFlight, fifo, Len(typed))

Kept == Somewhere(delivered, Contents, InFlight, fifo, dropped, typed)

ConsoleInv == TypeOK /\ Places /\ Ordered /\ Kept

----------------------------------------------------------------------------
(* Remainders *)

LEMMA ModParts ==
  ASSUME NEW N \in Nat \ {0}, NEW a \in Nat
  PROVE  \E q \in Nat, r \in 0 .. N - 1 : a = N * q + r /\ r = a % N
<1>1. /\ a = N * (a \div N) + (a % N)
      /\ a \div N \in Nat /\ a % N \in 0 .. N - 1
  OBVIOUS
<1> QED
  BY <1>1

\* What is needed of products, so that no other step multiplies.
LEMMA Times ==
  ASSUME NEW N \in Nat \ {0}, NEW p \in Int, NEW q \in Int
  PROVE  /\ N * (q - p) = N * q - N * p /\ N * (q + p) = N * q + N * p
         /\ N * p \in Int /\ N * q \in Int
         /\ q > p => N * q - N * p >= N
         /\ q >= 0 => N * q >= 0
<1>1. ASSUME q > p PROVE N * (q - p) >= N
  BY <1>1
<1> QED
  BY <1>1

LEMMA SameParts ==
  ASSUME NEW N \in Nat \ {0}, NEW p \in Nat, NEW q \in Nat,
         NEW r \in 0 .. N - 1, NEW s \in 0 .. N - 1, N * q + r = N * p + s
  PROVE  r = s
<1>1. CASE q > p
  <2>1. N * q - N * p >= N
    BY <1>1, Times
  <2>2. N * q \in Int /\ N * p \in Int
    OBVIOUS
  <2>3. PICK x \in Int, y \in Int : x = N * q /\ y = N * p
    BY <2>2
  <2>4. x - y >= N /\ x + r = y + s
    BY <2>1, <2>3
  <2> QED
    BY <2>4
<1>2. CASE p > q
  <2>1. N * p - N * q >= N
    BY <1>2, Times
  <2>2. N * q \in Int /\ N * p \in Int
    OBVIOUS
  <2>3. PICK x \in Int, y \in Int : x = N * q /\ y = N * p
    BY <2>2
  <2>4. y - x >= N /\ x + r = y + s
    BY <2>1, <2>3
  <2> QED
    BY <2>4
<1>3. CASE p = q
  <2>1. PICK x \in Int : x = N * q
    OBVIOUS
  <2>2. x + r = x + s
    BY <1>3, <2>1
  <2> QED
    BY <2>2
<1> QED
  BY <1>1, <1>2, <1>3

LEMMA ModUnique ==
  ASSUME NEW N \in Nat \ {0}, NEW q \in Nat, NEW r \in 0 .. N - 1
  PROVE  (N * q + r) % N = r
<1>1. PICK a \in Nat : a = N * q + r
  OBVIOUS
<1>2. PICK p \in Nat, s \in 0 .. N - 1 : a = N * p + s /\ s = a % N
  BY ModParts
<1>3. r = s
  BY <1>1, <1>2, SameParts
<1> QED
  BY <1>1, <1>2, <1>3

LEMMA ModAdd ==
  ASSUME NEW N \in Nat \ {0}, NEW a \in Nat, NEW k \in Nat
  PROVE  ((a % N) + k) % N = (a + k) % N
<1>1. PICK q \in Nat, r \in 0 .. N - 1 : a = N * q + r /\ r = a % N
  BY ModParts
<1>2. PICK b \in Nat : b = r + k
  OBVIOUS
<1>3. PICK p \in Nat, s \in 0 .. N - 1 : b = N * p + s /\ s = b % N
  BY ModParts
<1>4. PICK c \in Nat : c = a + k
  OBVIOUS
<1>5. c = N * (q + p) + s
  <2>1. N * (q + p) = N * q + N * p
    BY Times
  <2>2. PICK x \in Int, y \in Int : x = N * q /\ y = N * p
    OBVIOUS
  <2>3. c = x + r + k /\ r + k = y + s
    BY <1>1, <1>2, <1>3, <1>4, <2>2
  <2>4. c = x + y + s
    BY <2>3
  <2> QED
    BY <2>1, <2>2, <2>4
<1>6. PICK u \in Nat : u = q + p
  OBVIOUS
<1>7. (N * u + s) % N = s
  BY ModUnique
<1>8. c % N = s
  BY <1>5, <1>6, <1>7
<1> QED
  BY <1>1, <1>2, <1>3, <1>4, <1>8

LEMMA ModApart ==
  ASSUME NEW N \in Nat \ {0}, NEW a \in Nat, NEW b \in Nat, a < b, b < a + N
  PROVE  a % N # b % N
<1>1. PICK q \in Nat, r \in 0 .. N - 1 : a = N * q + r /\ r = a % N
  BY ModParts
<1>2. PICK p \in Nat, s \in 0 .. N - 1 : b = N * p + s /\ s = b % N
  BY ModParts
<1>3. PICK x \in Int, y \in Int : x = N * q /\ y = N * p
  OBVIOUS
<1>4. p > q => y - x >= N
  BY <1>3, Times
<1>5. q >= p => x - y >= 0
  <2>1. CASE q = p
    BY <2>1, <1>3
  <2>2. CASE q > p
    BY <2>2, <1>3, Times
  <2> QED
    BY <2>1, <2>2
<1> QED
  BY <1>1, <1>2, <1>3, <1>4, <1>5

----------------------------------------------------------------------------
(* The ring *)

LEMMA RingPlace ==
  ASSUME SbiConsoleConstants, TypeOK, NEW k \in Nat
  PROVE  (start + k) % BuffSize \in 0 .. BuffSize - 1
BY DEF SbiConsoleConstants, TypeOK

LEMMA ContentsAre ==
  ASSUME SbiConsoleConstants, TypeOK, Places
  PROVE  /\ Filled \in 0 .. BuffSize
         /\ Contents = [k \in 1 .. Filled |-> buf[(start + k - 1) % BuffSize]]
         /\ Contents \in Seq(Ids \cup {NoChar}) /\ Len(Contents) = Filled
         /\ \A k \in 1 .. Filled : Contents[k] = buf[(start + k - 1) % BuffSize]
<1>1. Filled \in 0 .. BuffSize
  BY DEF SbiConsoleConstants, TypeOK, Places, Filled
<1>2. Contents = [k \in 1 .. Filled |-> buf[(start + k - 1) % BuffSize]]
  BY DEF Contents, Filled, Taking
<1>3. \A k \in 1 .. Filled : buf[(start + k - 1) % BuffSize] \in Ids \cup {NoChar}
  <2>1. ASSUME NEW k \in 1 .. Filled
        PROVE  buf[(start + k - 1) % BuffSize] \in Ids \cup {NoChar}
    <3>1. k - 1 \in Nat /\ start + k - 1 = start + (k - 1)
      BY <1>1 DEF TypeOK, SbiConsoleConstants
    <3>2. (start + k - 1) % BuffSize \in 0 .. BuffSize - 1
      BY <3>1, RingPlace
    <3> QED
      BY <3>2 DEF TypeOK
  <2> QED
    BY <2>1
<1> QED
  BY <1>1, <1>2, <1>3

----------------------------------------------------------------------------
(* Sequences of numbers *)

\* The sequence without its first element, and with one more.
LEMMA TailOf ==
  ASSUME NEW s \in Seq(Nat), s # <<>>
  PROVE  /\ Head(s) = s[1] /\ Len(s) \in Nat \ {0} /\ Len(Tail(s)) = Len(s) - 1
         /\ \A i \in 1 .. Len(s) - 1 : Tail(s)[i] = s[i + 1]
         /\ Ascending(s) => Ascending(Tail(s)) /\ Before(<<Head(s)>>, Tail(s))
         /\ \A n : In(n, s) <=> n = Head(s) \/ In(n, Tail(s))
<1>1. /\ Head(s) = s[1] /\ Len(s) \in Nat \ {0} /\ Len(Tail(s)) = Len(s) - 1
      /\ \A i \in 1 .. Len(s) - 1 : Tail(s)[i] = s[i + 1]
  OBVIOUS
<1>2. Ascending(s) => Ascending(Tail(s)) /\ Before(<<Head(s)>>, Tail(s))
  BY <1>1 DEF Ascending, Before
<1>3. ASSUME NEW n
      PROVE  In(n, s) <=> n = Head(s) \/ In(n, Tail(s))
  <2>1. ASSUME In(n, s), n # s[1]
        PROVE  In(n, Tail(s))
    <3>1. PICK i \in 1 .. Len(s) : s[i] = n
      BY <2>1 DEF In
    <3>2. i - 1 \in 1 .. Len(s) - 1 /\ Tail(s)[i - 1] = n
      BY <1>1, <2>1, <3>1
    <3> QED
      BY <1>1, <3>2 DEF In
  <2>2. ASSUME In(n, Tail(s))
        PROVE  In(n, s)
    <3>1. PICK i \in 1 .. Len(s) - 1 : Tail(s)[i] = n
      BY <1>1, <2>2 DEF In
    <3>2. i + 1 \in 1 .. Len(s) /\ s[i + 1] = n
      BY <1>1, <3>1
    <3> QED
      BY <3>2 DEF In
  <2>3. In(s[1], s)
    BY <1>1 DEF In
  <2> QED
    BY <1>1, <2>1, <2>2, <2>3
<1> QED
  BY <1>1, <1>2, <1>3

LEMMA AppendTo ==
  ASSUME NEW s \in Seq(Nat), NEW x \in Nat
  PROVE  /\ Append(s, x) \in Seq(Nat) /\ Len(Append(s, x)) = Len(s) + 1
         /\ \A i \in 1 .. Len(s) : Append(s, x)[i] = s[i]
         /\ Append(s, x)[Len(s) + 1] = x
         /\ Ascending(s) /\ Before(s, <<x>>) => Ascending(Append(s, x))
         /\ \A n : In(n, Append(s, x)) <=> n = x \/ In(n, s)
<1>1. /\ Append(s, x) \in Seq(Nat) /\ Len(Append(s, x)) = Len(s) + 1
      /\ \A i \in 1 .. Len(s) : Append(s, x)[i] = s[i]
      /\ Append(s, x)[Len(s) + 1] = x /\ Len(s) \in Nat
  OBVIOUS
<1>2. Ascending(s) /\ Before(s, <<x>>) => Ascending(Append(s, x))
  BY <1>1 DEF Ascending, Before
<1>3. ASSUME NEW n
      PROVE  In(n, Append(s, x)) <=> n = x \/ In(n, s)
  <2>1. ASSUME In(n, s)
        PROVE  In(n, Append(s, x))
    BY <1>1, <2>1 DEF In
  <2>2. In(x, Append(s, x))
    BY <1>1 DEF In
  <2>3. ASSUME In(n, Append(s, x)), n # x
        PROVE  In(n, s)
    BY <1>1, <2>3 DEF In
  <2> QED
    BY <2>1, <2>2, <2>3
<1> QED
  BY <1>1, <1>2, <1>3

LEMMA BeforeOne ==
  ASSUME NEW s \in Seq(Nat), NEW x \in Nat
  PROVE  /\ Before(s, <<x>>) <=> \A i \in 1 .. Len(s) : s[i] < x
         /\ Before(<<x>>, s) <=> \A i \in 1 .. Len(s) : x < s[i]
<1>1. Len(<<x>>) = 1 /\ <<x>>[1] = x
  OBVIOUS
<1> QED
  BY <1>1 DEF Before

\* What is before a sequence is before its parts, and the other way round.
LEMMA BeforeParts ==
  ASSUME NEW s \in Seq(Nat), NEW t \in Seq(Nat), NEW x \in Nat
  PROVE  /\ t # <<>> /\ Before(s, t) => Before(s, Tail(t)) /\ Before(s, <<Head(t)>>)
         /\ s # <<>> /\ Before(s, t) => Before(Tail(s), t) /\ Before(<<Head(s)>>, t)
         /\ Before(s, t) /\ Before(s, <<x>>) => Before(s, Append(t, x))
         /\ Before(s, t) /\ Before(<<x>>, t) => Before(Append(s, x), t)
         /\ Before(<<>>, t) /\ Before(s, <<>>)
<1>1. ASSUME t # <<>>, Before(s, t)
      PROVE  Before(s, Tail(t)) /\ Before(s, <<Head(t)>>)
  <2>1. /\ Head(t) = t[1] /\ Len(t) \in Nat \ {0} /\ Len(Tail(t)) = Len(t) - 1
        /\ \A j \in 1 .. Len(t) - 1 : Tail(t)[j] = t[j + 1]
    BY <1>1, TailOf
  <2>2. ASSUME NEW i \in 1 .. Len(s), NEW j \in 1 .. Len(Tail(t))
        PROVE  s[i] < Tail(t)[j]
    <3>1. j \in 1 .. Len(t) - 1 /\ j + 1 \in 1 .. Len(t)
      BY <2>1, <2>2
    <3>2. Tail(t)[j] = t[j + 1]
      BY <2>1, <3>1
    <3> QED
      BY <1>1, <3>1, <3>2 DEF Before
  <2>3. \A i \in 1 .. Len(s) : s[i] < t[1]
    BY <1>1, <2>1 DEF Before
  <2>4. Before(s, Tail(t))
    BY <2>2 DEF Before
  <2> QED
    BY <2>1, <2>3, <2>4, BeforeOne
<1>2. ASSUME s # <<>>, Before(s, t)
      PROVE  Before(Tail(s), t) /\ Before(<<Head(s)>>, t)
  <2>1. /\ Head(s) = s[1] /\ Len(s) \in Nat \ {0} /\ Len(Tail(s)) = Len(s) - 1
        /\ \A j \in 1 .. Len(s) - 1 : Tail(s)[j] = s[j + 1]
    BY <1>2, TailOf
  <2>2. ASSUME NEW i \in 1 .. Len(Tail(s)), NEW j \in 1 .. Len(t)
        PROVE  Tail(s)[i] < t[j]
    <3>1. i \in 1 .. Len(s) - 1 /\ i + 1 \in 1 .. Len(s)
      BY <2>1, <2>2
    <3>2. Tail(s)[i] = s[i + 1]
      BY <2>1, <3>1
    <3> QED
      BY <1>2, <3>1, <3>2 DEF Before
  <2>3. \A j \in 1 .. Len(t) : s[1] < t[j]
    BY <1>2, <2>1 DEF Before
  <2>4. Before(Tail(s), t)
    BY <2>2 DEF Before
  <2>5. s[1] \in Nat
    BY <2>1
  <2>6. Before(<<s[1]>>, t)
    BY <2>3, <2>5, BeforeOne
  <2> QED
    BY <2>1, <2>4, <2>6
<1>3. ASSUME Before(s, t), Before(s, <<x>>)
      PROVE  Before(s, Append(t, x))
  <2>1. /\ Len(Append(t, x)) = Len(t) + 1 /\ Len(t) \in Nat
        /\ \A j \in 1 .. Len(t) : Append(t, x)[j] = t[j]
        /\ Append(t, x)[Len(t) + 1] = x
    BY AppendTo
  <2>2. \A i \in 1 .. Len(s) : s[i] < x
    BY <1>3, BeforeOne
  <2>3. \A j \in 1 .. Len(t) + 1 : j \in 1 .. Len(t) \/ j = Len(t) + 1
    BY <2>1
  <2> QED
    BY <1>3, <2>1, <2>2, <2>3 DEF Before
<1>4. ASSUME Before(s, t), Before(<<x>>, t)
      PROVE  Before(Append(s, x), t)
  <2>1. /\ Len(Append(s, x)) = Len(s) + 1 /\ Len(s) \in Nat
        /\ \A j \in 1 .. Len(s) : Append(s, x)[j] = s[j]
        /\ Append(s, x)[Len(s) + 1] = x
    BY AppendTo
  <2>2. \A j \in 1 .. Len(t) : x < t[j]
    BY <1>4, BeforeOne
  <2>3. \A j \in 1 .. Len(s) + 1 : j \in 1 .. Len(s) \/ j = Len(s) + 1
    BY <2>1
  <2> QED
    BY <1>4, <2>1, <2>2, <2>3 DEF Before
<1>5. Before(<<>>, t) /\ Before(s, <<>>)
  BY DEF Before
<1> QED
  BY <1>1, <1>2, <1>3, <1>4, <1>5

----------------------------------------------------------------------------
(* The seven ways a character moves, for any sequences at the stations.    *)

LEMMA IdsAreNumbers ==
  ASSUME SbiConsoleConstants, NEW s \in Seq(Ids)
  PROVE  s \in Seq(Nat) /\ \A i \in 1 .. Len(s) : s[i] \in Nat
<1>1. \A i \in 1 .. Len(s) : s[i] \in Ids
  OBVIOUS
<1>2. Ids \subseteq Nat
  BY DEF Ids, SbiConsoleConstants
<1>3. \A i \in 1 .. Len(s) : s[i] \in Nat
  BY <1>1, <1>2
<1>4. Len(s) \in Nat /\ s = [i \in 1 .. Len(s) |-> s[i]]
  OBVIOUS
<1>5. s \in Seq(Nat)
  BY <1>3, <1>4
<1> QED
  BY <1>3, <1>5

LEMMA UptoParts ==
  ASSUME SbiConsoleConstants, NEW n \in Nat, NEW s, Upto(s, n)
  PROVE  /\ s \in Seq(Nat)
         /\ s # <<>> => Upto(Tail(s), n) /\ Head(s) \in Ids /\ Head(s) <= n /\ In(Head(s), s)
         /\ \A x \in Ids : x <= n => Upto(Append(s, x), n) /\ Upto(<<x>>, n)
         /\ Upto(<<>>, n)
         /\ Upto(s, n + 1) /\ Before(s, <<n + 1>>)
<1>1. s \in Seq(Ids) /\ Len(s) \in Nat /\ \A i \in 1 .. Len(s) : s[i] \in Ids /\ s[i] <= n
  BY DEF Upto
<1>2. s \in Seq(Nat) /\ \A i \in 1 .. Len(s) : s[i] \in Nat
  BY <1>1, IdsAreNumbers
<1>3. ASSUME s # <<>>
      PROVE  Upto(Tail(s), n) /\ Head(s) \in Ids /\ Head(s) <= n /\ In(Head(s), s)
  <2>1. /\ Head(s) = s[1] /\ Len(s) \in Nat \ {0} /\ Len(Tail(s)) = Len(s) - 1
        /\ \A i \in 1 .. Len(s) - 1 : Tail(s)[i] = s[i + 1]
        /\ \A m : In(m, s) <=> m = Head(s) \/ In(m, Tail(s))
    BY <1>2, <1>3, TailOf
  <2>2. Tail(s) \in Seq(Ids)
    BY <1>1, <1>3
  <2>3. ASSUME NEW i \in 1 .. Len(Tail(s))
        PROVE  Tail(s)[i] <= n
    <3>1. i \in 1 .. Len(s) - 1 /\ i + 1 \in 1 .. Len(s)
      BY <2>1, <2>3
    <3> QED
      BY <1>1, <2>1, <3>1
  <2>4. 1 \in 1 .. Len(s)
    BY <2>1
  <2> QED
    BY <1>1, <2>1, <2>2, <2>3, <2>4 DEF Upto
<1>4. ASSUME NEW x \in Ids, x <= n
      PROVE  Upto(Append(s, x), n) /\ Upto(<<x>>, n)
  <2>1. x \in Nat
    BY DEF Ids, SbiConsoleConstants
  <2>2. /\ Len(Append(s, x)) = Len(s) + 1 /\ Append(s, x)[Len(s) + 1] = x
        /\ \A i \in 1 .. Len(s) : Append(s, x)[i] = s[i]
    BY <1>2, <2>1, AppendTo
  <2>3. \A i \in 1 .. Len(s) + 1 : i \in 1 .. Len(s) \/ i = Len(s) + 1
    BY <1>1
  <2>4. Append(s, x) \in Seq(Ids) /\ <<x>> \in Seq(Ids) /\ Len(<<x>>) = 1 /\ <<x>>[1] = x
    BY <1>1
  <2>5. Upto(<<x>>, n)
    BY <1>4, <2>4 DEF Upto
  <2> QED
    BY <1>1, <1>4, <2>2, <2>3, <2>4, <2>5 DEF Upto
<1>5. Upto(<<>>, n)
  BY DEF Upto
<1>6. Upto(s, n + 1)
  BY <1>1, <1>2 DEF Upto
<1>7. Before(s, <<n + 1>>)
  <2>1. \A i \in 1 .. Len(s) : s[i] < n + 1
    BY <1>1, <1>2
  <2> QED
    BY <1>2, <2>1, BeforeOne
<1> QED
  BY <1>2, <1>3, <1>4, <1>5, <1>6, <1>7

\* A character arrives at the UART.
LEMMA LineTyped ==
  ASSUME SbiConsoleConstants, NEW n \in Nat, n + 1 \in Ids, NEW d, NEW r, NEW f, NEW u,
         InLine(d, r, f, u, n)
  PROVE  InLine(d, r, f, Append(u, n + 1), n + 1)
<1>1. Upto(d, n) /\ Upto(r, n) /\ Upto(f, n) /\ Upto(u, n)
  BY DEF InLine
<1>2. n + 1 \in Nat /\ n + 1 <= n + 1
  OBVIOUS
<1>3. /\ Upto(d, n + 1) /\ Upto(r, n + 1) /\ Upto(f, n + 1) /\ Upto(u, n + 1)
      /\ Before(d, <<n + 1>>) /\ Before(r, <<n + 1>>) /\ Before(f, <<n + 1>>)
      /\ Before(u, <<n + 1>>)
      /\ d \in Seq(Nat) /\ r \in Seq(Nat) /\ f \in Seq(Nat) /\ u \in Seq(Nat)
  BY <1>1, UptoParts
<1>4. Upto(Append(u, n + 1), n + 1)
  BY <1>2, <1>3, UptoParts
<1>5. Ascending(Append(u, n + 1))
  BY <1>2, <1>3, AppendTo DEF InLine
<1>6. Before(d, Append(u, n + 1)) /\ Before(r, Append(u, n + 1)) /\ Before(f, Append(u, n + 1))
  BY <1>2, <1>3, BeforeParts DEF InLine
<1> QED
  BY <1>3, <1>4, <1>5, <1>6 DEF InLine

\* The handler takes one from the UART; if it is 0xff, it does not go on with it.
LEMMA LineTaken ==
  ASSUME SbiConsoleConstants, NEW n \in Nat, NEW d, NEW r, NEW u, u # <<>>,
         InLine(d, r, <<>>, u, n)
  PROVE  InLine(d, r, <<Head(u)>>, Tail(u), n) /\ InLine(d, r, <<>>, Tail(u), n)
<1>1. Upto(d, n) /\ Upto(r, n) /\ Upto(u, n)
  BY DEF InLine
<1>2. /\ d \in Seq(Nat) /\ r \in Seq(Nat) /\ u \in Seq(Nat)
      /\ Upto(Tail(u), n) /\ Upto(<<Head(u)>>, n)
  BY <1>1, UptoParts
<1>3. /\ Before(d, Tail(u)) /\ Before(d, <<Head(u)>>)
      /\ Before(r, Tail(u)) /\ Before(r, <<Head(u)>>)
  BY <1>2, BeforeParts DEF InLine
<1>4. Ascending(Tail(u)) /\ Before(<<Head(u)>>, Tail(u))
  BY <1>2, TailOf DEF InLine
<1>5. Before(<<>>, Tail(u)) /\ Before(d, <<>>) /\ Before(r, <<>>)
  BY DEF Before
<1>6. Upto(<<>>, n)
  BY DEF Upto
<1> QED
  BY <1>1, <1>2, <1>3, <1>4, <1>5, <1>6 DEF InLine

\* The handler puts its character into the ring, or drops it.
LEMMA LinePut ==
  ASSUME SbiConsoleConstants, NEW n \in Nat, NEW d, NEW r, NEW x \in Ids, NEW u,
         InLine(d, r, <<x>>, u, n)
  PROVE  InLine(d, Append(r, x), <<>>, u, n) /\ InLine(d, r, <<>>, u, n)
<1>1. Upto(d, n) /\ Upto(r, n) /\ Upto(<<x>>, n) /\ Upto(u, n)
  BY DEF InLine
<1>2. x \in Nat /\ Len(<<x>>) = 1 /\ <<x>>[1] = x
  BY DEF Ids, SbiConsoleConstants
<1>3. x <= n
  BY <1>1, <1>2 DEF Upto
<1>4. /\ d \in Seq(Nat) /\ r \in Seq(Nat) /\ u \in Seq(Nat) /\ Upto(Append(r, x), n)
  BY <1>1, <1>3, UptoParts
<1>5. Ascending(Append(r, x))
  BY <1>2, <1>4, AppendTo DEF InLine
<1>6. Before(d, Append(r, x))
  BY <1>2, <1>4, BeforeParts DEF InLine
<1>7. Before(Append(r, x), u)
  BY <1>2, <1>4, BeforeParts DEF InLine
<1>8. Before(<<>>, u) /\ Before(d, <<>>) /\ Before(r, <<>>) /\ Before(Append(r, x), <<>>)
  BY DEF Before
<1>9. Upto(<<>>, n)
  BY DEF Upto
<1> QED
  BY <1>1, <1>4, <1>5, <1>6, <1>7, <1>8, <1>9 DEF InLine

\* A hart gets the first character of the ring.
LEMMA LineGot ==
  ASSUME SbiConsoleConstants, NEW n \in Nat, NEW d, NEW r, NEW f, NEW u, r # <<>>,
         InLine(d, r, f, u, n)
  PROVE  InLine(Append(d, Head(r)), Tail(r), f, u, n)
<1>1. Upto(d, n) /\ Upto(r, n) /\ Upto(f, n) /\ Upto(u, n)
  BY DEF InLine
<1>2. /\ d \in Seq(Nat) /\ r \in Seq(Nat) /\ u \in Seq(Nat) /\ f \in Seq(Nat)
      /\ Upto(Tail(r), n) /\ Head(r) \in Ids /\ Head(r) <= n
  BY <1>1, UptoParts
<1>3. Upto(Append(d, Head(r)), n)
  BY <1>1, <1>2, UptoParts
<1>4. PICK x \in Nat : x = Head(r)
  BY <1>2 DEF Ids, SbiConsoleConstants
<1>5. Ascending(Tail(r)) /\ Before(<<x>>, Tail(r)) /\ Tail(r) \in Seq(Nat)
  BY <1>2, <1>4, TailOf DEF InLine
<1>6. /\ Before(d, Tail(r)) /\ Before(d, <<x>>)
      /\ Before(Tail(r), f) /\ Before(<<x>>, f) /\ Before(Tail(r), u) /\ Before(<<x>>, u)
  BY <1>2, <1>4, BeforeParts DEF InLine
<1>7. Ascending(Append(d, x))
  BY <1>2, <1>6, AppendTo DEF InLine
<1>8. Before(Append(d, x), Tail(r)) /\ Before(Append(d, x), f) /\ Before(Append(d, x), u)
  BY <1>2, <1>5, <1>6, BeforeParts DEF InLine
<1> QED
  BY <1>1, <1>2, <1>3, <1>4, <1>5, <1>6, <1>7, <1>8 DEF InLine

LEMMA InOne ==
  ASSUME NEW n, NEW x
  PROVE  (In(n, <<x>>) <=> n = x) /\ ~In(n, <<>>)
<1>1. Len(<<x>>) = 1 /\ <<x>>[1] = x /\ Len(<<>>) = 0
  OBVIOUS
<1>2. \A i : i \in 1 .. 1 <=> i = 1
  OBVIOUS
<1>3. In(n, <<x>>) <=> n = x
  BY <1>1, <1>2 DEF In
<1>4. ~In(n, <<>>)
  BY <1>1 DEF In
<1> QED
  BY <1>3, <1>4

\* Nobody gets lost when a character arrives, ...
LEMMA KeptTyped ==
  ASSUME NEW d, NEW r, NEW f, NEW u \in Seq(Nat), NEW lost, NEW t \in Seq(Chars),
         NEW c \in Chars, Somewhere(d, r, f, u, lost, t)
  PROVE  Somewhere(d, r, f, Append(u, Len(t) + 1), lost, Append(t, c))
<1>1. /\ Len(t) \in Nat /\ Len(Append(t, c)) = Len(t) + 1
      /\ \A n \in 1 .. Len(t) : Append(t, c)[n] = t[n]
  OBVIOUS
<1>2. \A n : In(n, Append(u, Len(t) + 1)) <=> n = Len(t) + 1 \/ In(n, u)
  <2>1. Len(t) + 1 \in Nat
    BY <1>1
  <2> QED
    BY <2>1, AppendTo
<1>3. \A n \in 1 .. Len(t) + 1 : n \in 1 .. Len(t) \/ n = Len(t) + 1
  BY <1>1
<1> QED
  BY <1>1, <1>2, <1>3 DEF Somewhere

\* ... when the handler takes it, ...
LEMMA KeptTaken ==
  ASSUME NEW d, NEW r, NEW u \in Seq(Nat), u # <<>>, NEW lost, NEW t,
         Somewhere(d, r, <<>>, u, lost, t)
  PROVE  /\ Somewhere(d, r, <<Head(u)>>, Tail(u), lost, t)
         /\ t[Head(u)] = "ff" => Somewhere(d, r, <<>>, Tail(u), lost, t)
<1>1. \A n : In(n, u) <=> n = Head(u) \/ In(n, Tail(u))
  BY TailOf
<1>2. \A n : (In(n, <<Head(u)>>) <=> n = Head(u)) /\ ~In(n, <<>>)
  BY InOne
<1> QED
  BY <1>1, <1>2 DEF Somewhere

\* ... when it goes into the ring, or does not, ...
LEMMA KeptPut ==
  ASSUME NEW d, NEW r \in Seq(Nat), NEW x \in Nat, NEW u, NEW lost, NEW t,
         Somewhere(d, r, <<x>>, u, lost, t)
  PROVE  /\ Somewhere(d, Append(r, x), <<>>, u, lost, t)
         /\ Somewhere(d, r, <<>>, u, lost \cup {x}, t)
<1>1. \A n : In(n, Append(r, x)) <=> n = x \/ In(n, r)
  BY AppendTo
<1>2. \A n : (In(n, <<x>>) <=> n = x) /\ ~In(n, <<>>)
  BY InOne
<1> QED
  BY <1>1, <1>2 DEF Somewhere

\* ... and when it is handed out.
LEMMA KeptGot ==
  ASSUME NEW d \in Seq(Nat), NEW r \in Seq(Nat), r # <<>>, NEW f, NEW u, NEW lost, NEW t,
         Somewhere(d, r, f, u, lost, t)
  PROVE  Somewhere(Append(d, Head(r)), Tail(r), f, u, lost, t)
<1>1. \A n : In(n, r) <=> n = Head(r) \/ In(n, Tail(r))
  BY TailOf
<1>2. Head(r) \in Nat
  BY TailOf
<1>3. \A n : In(n, Append(d, Head(r))) <=> n = Head(r) \/ In(n, d)
  BY <1>2, AppendTo
<1> QED
  BY <1>1, <1>3 DEF Somewhere

----------------------------------------------------------------------------
(* The steps *)

LEMMA InitConsole ==
  ASSUME SbiConsoleConstants, Init
  PROVE  ConsoleInv
<1>1. TypeOK
  BY DEF SbiConsoleConstants, Init, TypeOK, InOS, Ids, NoChar, Readers
<1>2. Places
  <2>1. \A h \in Readers : pc[h] = "call" /\ char[h] = NoChar
    BY DEF Init
  <2>2. Console \in Readers /\ Others \subseteq Readers
    BY DEF Readers
  <2>3. ~Taking
    BY <2>1 DEF Taking
  <2>4. pc \in [Readers -> {"call", "get_read", "get_count", "got", "wfi", "asleep",
                           "irq", "put_lock", "put_store", "put_count"}]
    BY DEF Init
  <2>5. irqChar = NoChar
    BY DEF Init
  <2> QED
    BY <2>1, <2>2, <2>3, <2>4, <2>5 DEF Places
<1>3. delivered = <<>> /\ InFlight = <<>> /\ fifo = <<>> /\ typed = <<>>
  BY DEF Init, InFlight
<1>4. Contents = <<>>
  <2>1. Filled = 0
    BY DEF Init, Filled, Taking
  <2>2. Len(Contents) = 0 /\ Contents \in Seq(Ids \cup {NoChar})
    BY <1>1, <1>2, <2>1, ContentsAre
  <2> QED
    BY <2>2
<1>5. Ordered
  BY <1>3, <1>4 DEF Ordered, InLine, Ascending, Before, Upto
<1>6. Kept
  BY <1>3 DEF Kept, Somewhere
<1> QED
  BY <1>1, <1>2, <1>5, <1>6 DEF ConsoleInv

\* What a step does to the sequence in the ring that touches neither its place nor
\* its count.
LEMMA SameRing ==
  ASSUME buf' = buf, start' = start, Filled' = Filled
  PROVE  Contents' = Contents
BY DEF Contents, Filled, Taking

\* Nobody is taking a character while somebody else has the lock.
LEMMA OnlyHolderTakes ==
  ASSUME SbiConsoleConstants, ConsoleInv, NEW h \in Readers, mutex = h, pc[h] # "get_count"
  PROVE  ~Taking /\ Filled = end
BY DEF ConsoleInv, Places, Taking, Filled

\* The first character of the ring, when there is one and nobody is taking it.
LEMMA FirstOfRing ==
  ASSUME SbiConsoleConstants, ConsoleInv, ~Taking, end > 0
  PROVE  /\ Contents # <<>> /\ Head(Contents) = buf[start] /\ buf[start] \in Ids
         /\ Contents \in Seq(Nat)
<1>1. Filled = end /\ end \in 1 .. BuffSize
  BY DEF ConsoleInv, TypeOK, Filled, SbiConsoleConstants
<1>2. /\ Len(Contents) = end /\ Contents \in Seq(Ids)
      /\ Contents[1] = buf[(start + 1 - 1) % BuffSize]
  <2>1. TypeOK /\ Places /\ Upto(Contents, Len(typed))
    BY DEF ConsoleInv, Ordered, InLine
  <2> QED
    BY <1>1, <2>1, ContentsAre DEF Upto
<1>3. (start + 1 - 1) % BuffSize = start
  <2>1. start \in 0 .. BuffSize - 1 /\ BuffSize \in Nat \ {0}
    BY DEF ConsoleInv, TypeOK, SbiConsoleConstants
  <2> QED
    BY <2>1
<1>4. Contents \in Seq(Nat)
  BY <1>2, IdsAreNumbers
<1> QED
  BY <1>1, <1>2, <1>3, <1>4

LEMMA TypePreserved ==
  ASSUME SbiConsoleConstants, ConsoleInv, Next
  PROVE  TypeOK'
<1> USE DEF TypeOK, InOS, Goto, Lock, Unlock, ring, history
<1>1. TypeOK /\ Places
  BY DEF ConsoleInv
<1>2. /\ Console \in Readers /\ NoChar \in Ids \cup {NoChar}
      /\ BuffSize \in Nat \ {0} /\ LineSize \in Nat /\ MaxTyped \in Nat
  BY DEF Readers, SbiConsoleConstants
<1>3. ASSUME NEW c \in Chars, Type(c)
      PROVE  TypeOK'
  <2>1. Len(typed) + 1 \in Ids
    BY <1>1, <1>2, <1>3 DEF Type, Ids
  <2> QED
    BY <1>1, <1>3, <2>1 DEF Type
<1>4. CASE TakeIrq
  BY <1>1, <1>4 DEF TakeIrq
<1>5. CASE IrqByte
  BY <1>1, <1>5 DEF IrqByte
<1>6. CASE IrqReturn
  <2>1. fifo' \in Seq(Ids)
    <3>1. fifo' = fifo \/ (fifo # <<>> /\ fifo' = Tail(fifo))
      BY <1>6 DEF IrqReturn
    <3>2. \A s \in Seq(Ids) : s # <<>> => Tail(s) \in Seq(Ids)
      OBVIOUS
    <3> QED
      BY <1>1, <3>1, <3>2
  <2> QED
    BY <1>1, <1>6, <2>1 DEF IrqReturn
<1>7. CASE PutLock
  BY <1>1, <1>2, <1>7 DEF PutLock
<1>8. CASE PutStore
  <2>1. buf' \in [0 .. BuffSize - 1 -> Ids \cup {NoChar}]
    BY <1>1, <1>8 DEF PutStore
  <2> QED
    BY <1>1, <1>8, <2>1 DEF PutStore
<1>9. CASE PutCount
  <2>1. irqChar \in Ids
    BY <1>1, <1>9 DEF PutCount, Places
  <2>2. end' \in 0 .. BuffSize /\ dropped' \subseteq Ids
    BY <1>1, <1>2, <1>9, <2>1 DEF PutCount, Room
  <2> QED
    BY <1>1, <1>2, <1>9, <2>2 DEF PutCount
<1>10. ASSUME NEW h \in Readers, GetLock(h)
       PROVE  TypeOK'
  BY <1>1, <1>10 DEF GetLock
<1>11. ASSUME NEW h \in Readers, GetRead(h)
       PROVE  TypeOK'
  <2>1. mutex = h /\ ~Taking
    BY <1>1, <1>11, OnlyHolderTakes DEF GetRead, Places
  <2>2. CASE end > 0
    <3>1. buf[start] \in Ids
      BY <2>1, <2>2, FirstOfRing
    <3>2. NextStart \in 0 .. BuffSize - 1
      BY <1>1, <1>2 DEF NextStart
    <3>3. start' \in 0 .. BuffSize - 1 /\ delivered' \in Seq(Ids)
      <4>1. start' = NextStart /\ delivered' = Append(delivered, buf[start])
        BY <1>1, <1>11, <2>2 DEF GetRead
      <4>2. \A s \in Seq(Ids), x \in Ids : Append(s, x) \in Seq(Ids)
        OBVIOUS
      <4> QED
        BY <1>1, <3>1, <3>2, <4>1, <4>2
    <3>4. char' \in [Readers -> Ids \cup {NoChar}]
      BY <1>1, <1>11, <2>2, <3>1 DEF GetRead
    <3> QED
      BY <1>1, <1>11, <3>3, <3>4 DEF GetRead
  <2>3. CASE end = 0
    BY <1>1, <1>11, <2>3 DEF GetRead
  <2> QED
    BY <1>1, <1>2, <2>2, <2>3
<1>12. ASSUME NEW h \in Readers, GetCount(h)
       PROVE  TypeOK'
  <2>1. end' \in 0 .. BuffSize
    <3>1. char[h] # NoChar => end > 0
      BY <1>1, <1>12 DEF GetCount, Places, Taking
    <3> QED
      BY <1>1, <1>2, <1>12, <3>1 DEF GetCount
  <2> QED
    BY <1>1, <1>12, <2>1 DEF GetCount
<1>13. ASSUME NEW h \in Readers, Poll(h)
       PROVE  TypeOK'
  BY <1>1, <1>13 DEF Poll
<1>14. CASE Nothing
  BY <1>1, <1>14 DEF Nothing
<1>15. CASE Wfi
  BY <1>1, <1>15 DEF Wfi
<1>16. CASE Consume
  <2>1. at' \in 0 .. LineSize
    BY <1>1, <1>2, <1>16 DEF Consume, Edit
  <2>2. char' \in [Readers -> Ids \cup {NoChar}]
    BY <1>1, <1>16 DEF Consume
  <2> QED
    BY <1>1, <1>16, <2>1, <2>2 DEF Consume
<1> QED
  BY <1>3, <1>4, <1>5, <1>6, <1>7, <1>8, <1>9, <1>10, <1>11, <1>12, <1>13, <1>14, <1>15,
     <1>16 DEF Next, Irq, Loop, GetChar

----------------------------------------------------------------------------
(* What the sequence in the ring becomes *)

\* Neither the first store of ring_put nor the second of ring_get changes it, ...
LEMMA RingKeeps ==
  ASSUME SbiConsoleConstants, ConsoleInv,
         PutStore \/ (\E h \in Readers : GetCount(h))
  PROVE  Contents' = Contents
<1> USE DEF Goto, Unlock
<1>1. TypeOK /\ Places
  BY DEF ConsoleInv
<1>2. CASE PutStore
  <2>1. ~Taking /\ Filled = end
    BY <1>1, <1>2, OnlyHolderTakes DEF PutStore, Places, Readers
  <2>2. ~Taking' /\ Filled' = end /\ start' = start
    <3>1. \A h \in Readers : pc'[h] = "get_count" => pc[h] = "get_count"
      BY <1>1, <1>2 DEF PutStore, Places
    <3> QED
      BY <1>2, <2>1, <3>1 DEF PutStore, Taking, Filled
  <2>3. CASE ~Room
    BY <1>2, <2>1, <2>2, <2>3, SameRing DEF PutStore
  <2>4. CASE Room
    <3>1. buf' = [buf EXCEPT ![(start + end) % BuffSize] = irqChar]
      BY <1>2, <2>4 DEF PutStore
    <3>2. ASSUME NEW k \in 1 .. end
          PROVE  buf'[(start + k - 1) % BuffSize] = buf[(start + k - 1) % BuffSize]
      <4>1. /\ BuffSize \in Nat \ {0} /\ start \in Nat /\ end \in Nat /\ end < BuffSize
            /\ start + k - 1 \in Nat /\ start + end \in Nat
            /\ start + k - 1 < start + end /\ start + end < start + k - 1 + BuffSize
        BY <1>1, <2>4 DEF SbiConsoleConstants, TypeOK, Room
      <4>2. (start + k - 1) % BuffSize # (start + end) % BuffSize
        BY <4>1, ModApart
      <4>3. (start + k - 1) % BuffSize \in 0 .. BuffSize - 1
        BY <4>1
      <4> QED
        BY <1>1, <3>1, <4>2, <4>3 DEF TypeOK
    <3>3. Contents = [k \in 1 .. end |-> buf[(start + k - 1) % BuffSize]]
      BY <2>1 DEF Contents, Filled, Taking
    <3>4. Contents' = [k \in 1 .. end |-> buf'[(start + k - 1) % BuffSize]]
      BY <2>2 DEF Contents, Filled, Taking
    <3> QED
      BY <3>2, <3>3, <3>4
  <2> QED
    BY <2>3, <2>4
<1>3. ASSUME NEW h \in Readers, GetCount(h)
      PROVE  Contents' = Contents
  <2>1. mutex = h /\ pc[h] = "get_count" /\ pc' = [pc EXCEPT ![h] = "got"]
    BY <1>1, <1>3 DEF GetCount, Places
  <2>2. \A g \in Readers \ {h} : pc[g] # "get_count" /\ pc'[g] # "get_count"
    BY <1>1, <2>1 DEF Places
  <2>3. ~Taking' /\ (Taking <=> char[h] # NoChar)
    BY <1>1, <2>1, <2>2 DEF Places, Taking
  <2>4. Filled' = Filled
    BY <1>3, <2>3 DEF GetCount, Filled
  <2> QED
    BY <1>3, <2>4, SameRing DEF GetCount
<1> QED
  BY <1>2, <1>3

\* ... the second store of ring_put, when there was room, appends the handler's character, ...
LEMMA RingGrows ==
  ASSUME SbiConsoleConstants, ConsoleInv, PutCount
  PROVE  IF Room THEN Contents' = Append(Contents, irqChar) /\ Len(Contents) < BuffSize
                 ELSE Contents' = Contents
<1> USE DEF Goto, Unlock
<1>1. TypeOK /\ Places
  BY DEF ConsoleInv
<1>2. ~Taking /\ Filled = end
  BY <1>1, OnlyHolderTakes DEF PutCount, Places, Readers
<1>3. ~Taking' /\ Filled' = end' /\ start' = start /\ buf' = buf
  <2>1. \A h \in Readers : pc'[h] = "get_count" => pc[h] = "get_count"
    BY <1>1 DEF PutCount, Places
  <2> QED
    BY <1>2, <2>1 DEF PutCount, Taking, Filled
<1>4. CASE ~Room
  BY <1>2, <1>3, <1>4, SameRing DEF PutCount
<1>5. CASE Room
  <2>1. /\ end \in Nat /\ end < BuffSize /\ end' = end + 1
        /\ buf[(start + end) % BuffSize] = irqChar
    BY <1>1, <1>5 DEF PutCount, Places, TypeOK, Room, SbiConsoleConstants
  <2>2. Contents = [k \in 1 .. end |-> buf[(start + k - 1) % BuffSize]]
    BY <1>2 DEF Contents, Filled, Taking
  <2>3. Contents' = [k \in 1 .. end + 1 |-> buf[(start + k - 1) % BuffSize]]
    BY <1>3, <2>1 DEF Contents, Filled, Taking
  <2>4. /\ Contents \in Seq(Ids \cup {NoChar}) /\ Len(Contents) = end
        /\ irqChar \in Ids \cup {NoChar}
    BY <1>1, <1>2, ContentsAre DEF TypeOK
  <2>5. /\ Contents' \in Seq(Ids \cup {NoChar}) /\ Len(Contents') = end + 1
        /\ \A k \in 1 .. end : Contents'[k] = Contents[k]
        /\ Contents'[end + 1] = irqChar
    <3>1. ASSUME NEW k \in 1 .. end + 1
          PROVE  buf[(start + k - 1) % BuffSize] \in Ids \cup {NoChar}
      <4>1. start \in Nat /\ k - 1 \in Nat /\ start + k - 1 = start + (k - 1)
        BY <1>1, <2>1 DEF TypeOK, SbiConsoleConstants
      <4>2. (start + k - 1) % BuffSize \in 0 .. BuffSize - 1
        BY <1>1, <4>1, RingPlace
      <4> QED
        BY <1>1, <4>2 DEF TypeOK
    <3>2. end + 1 \in 1 .. end + 1 /\ start + (end + 1) - 1 = start + end
      BY <1>1, <2>1 DEF TypeOK, SbiConsoleConstants
    <3>3. \A k \in 1 .. end : k \in 1 .. end + 1
      BY <2>1
    <3> QED
      BY <2>1, <2>2, <2>3, <3>1, <3>2, <3>3
  <2>6. Contents' = Append(Contents, irqChar)
    <3>1. /\ Append(Contents, irqChar) \in Seq(Ids \cup {NoChar})
          /\ Len(Append(Contents, irqChar)) = end + 1
          /\ \A k \in 1 .. end : Append(Contents, irqChar)[k] = Contents[k]
          /\ Append(Contents, irqChar)[end + 1] = irqChar
      BY <2>4
    <3>2. \A k \in 1 .. end + 1 : k \in 1 .. end \/ k = end + 1
      BY <2>1
    <3>3. \A k \in 1 .. end + 1 : Contents'[k] = Append(Contents, irqChar)[k]
      BY <2>5, <3>1, <3>2
    <3> HIDE DEF Contents
    <3> QED
      BY <2>5, <3>1, <3>3
  <2> QED
    BY <1>5, <2>1, <2>4, <2>6
<1> QED
  BY <1>4, <1>5

\* ... and the first store of ring_get takes the first one.
LEMMA RingShrinks ==
  ASSUME SbiConsoleConstants, ConsoleInv, NEW h \in Readers, GetRead(h)
  PROVE  IF end > 0
         THEN /\ Contents # <<>> /\ Contents' = Tail(Contents)
              /\ delivered' = Append(delivered, Head(Contents))
              /\ Taking'
         ELSE Contents' = Contents /\ delivered' = delivered /\ ~Taking'
<1> USE DEF Goto
<1>1. TypeOK /\ Places
  BY DEF ConsoleInv
<1>2. mutex = h /\ ~Taking /\ Filled = end /\ buf' = buf /\ end' = end
  BY <1>1, OnlyHolderTakes DEF GetRead, Places
<1>3. /\ pc' = [pc EXCEPT ![h] = "get_count"] /\ pc'[h] = "get_count"
      /\ \A g \in Readers \ {h} : pc'[g] = pc[g] /\ pc[g] # "get_count"
  BY <1>1, <1>2 DEF GetRead, Places
<1>4. CASE end > 0
  <2>1. Contents # <<>> /\ Head(Contents) = buf[start] /\ buf[start] \in Ids
    BY <1>2, <1>4, FirstOfRing
  <2>2. /\ char' = [char EXCEPT ![h] = buf[start]] /\ start' = NextStart
        /\ delivered' = Append(delivered, buf[start])
    BY <1>1, <1>4 DEF GetRead, TypeOK, SbiConsoleConstants
  <2>3. Taking' /\ Filled' = end - 1
    <3>1. char'[h] # NoChar
      BY <1>1, <2>1, <2>2 DEF TypeOK, Ids, NoChar, SbiConsoleConstants
    <3> QED
      BY <1>2, <1>3, <3>1 DEF Taking, Filled
  <2>4. /\ BuffSize \in Nat \ {0} /\ start \in Nat /\ end \in Nat \ {0}
    BY <1>1, <1>4 DEF TypeOK, SbiConsoleConstants
  <2>5. Contents' = [k \in 1 .. end - 1 |-> buf[(NextStart + k - 1) % BuffSize]]
    BY <1>2, <2>2, <2>3 DEF Contents, Filled, Taking
  <2>6. ASSUME NEW k \in 1 .. end - 1
        PROVE  buf[(NextStart + k - 1) % BuffSize] = Contents[k + 1]
    <3>1. PICK m \in Nat : m = k - 1
      BY <2>4
    <3>2. PICK s \in Nat : s = start + 1
      BY <2>4
    <3>3. ((s % BuffSize) + m) % BuffSize = (s + m) % BuffSize
      BY <2>4, ModAdd
    <3>4. PICK n \in Nat : n = NextStart
      BY <2>4 DEF NextStart
    <3>5. n + k - 1 = n + m /\ s + m = start + (k + 1) - 1
      BY <2>4, <3>1, <3>2
    <3>6. (NextStart + k - 1) % BuffSize = (start + (k + 1) - 1) % BuffSize
      BY <3>2, <3>3, <3>4, <3>5 DEF NextStart
    <3>7. k + 1 \in 1 .. Filled
      BY <1>2, <2>4
    <3> QED
      BY <1>1, <3>6, <3>7, ContentsAre
  <2>7. Contents \in Seq(Ids \cup {NoChar}) /\ Len(Contents) = end
    BY <1>1, <1>2, ContentsAre
  <2>8. Contents' = Tail(Contents)
    <3>1. Contents' = [k \in 1 .. end - 1 |-> Contents[k + 1]]
      BY <2>5, <2>6
    <3>2. /\ Tail(Contents) \in Seq(Ids \cup {NoChar}) /\ Len(Tail(Contents)) = end - 1
          /\ \A k \in 1 .. end - 1 : Tail(Contents)[k] = Contents[k + 1]
      BY <2>1, <2>7
    <3>3. PICK t \in Seq(Ids \cup {NoChar}) : t = Tail(Contents)
      BY <3>2
    <3>4. Len(t) = end - 1 /\ \A k \in 1 .. end - 1 : t[k] = Contents[k + 1]
      BY <3>2, <3>3
    <3>5. t = [k \in 1 .. Len(t) |-> t[k]]
      OBVIOUS
    <3>6. t = [k \in 1 .. end - 1 |-> Contents[k + 1]]
      BY <3>4, <3>5
    <3> QED
      BY <3>1, <3>3, <3>6
  <2> QED
    BY <1>4, <2>1, <2>2, <2>3, <2>8
<1>5. CASE ~(end > 0)
  <2>1. end = 0 /\ char'[h] = NoChar /\ start' = start /\ delivered' = delivered
    BY <1>1, <1>5 DEF GetRead, TypeOK, SbiConsoleConstants
  <2>2. ~Taking' /\ Filled' = Filled
    BY <1>2, <1>3, <2>1 DEF Taking, Filled
  <2> QED
    BY <1>2, <1>5, <2>1, <2>2, SameRing
<1> QED
  BY <1>4, <1>5

LEMMA FirstInUart ==
  ASSUME SbiConsoleConstants, TypeOK, fifo # <<>>
  PROVE  Head(fifo) \in Ids /\ Head(fifo) # NoChar
<1>1. Head(fifo) \in Ids
  BY DEF TypeOK
<1> QED
  BY <1>1 DEF Ids, NoChar, SbiConsoleConstants

----------------------------------------------------------------------------
(* Every step keeps everybody in his place ... *)

LEMMA PlacesPreserved ==
  ASSUME SbiConsoleConstants, ConsoleInv, Next
  PROVE  Places'
<1> USE DEF Goto, Lock, Unlock, ring, history, Room
<1>1. TypeOK /\ Places
  BY DEF ConsoleInv
<1>2. /\ Console \in Readers /\ Console \notin Others /\ Others \subseteq Readers
      /\ Nobody \notin Readers /\ \A h \in Readers : h = Console \/ h \in Others
  BY DEF Readers, SbiConsoleConstants
<1>3. ASSUME NEW c \in Chars, Type(c)
      PROVE  Places'
  BY <1>1, <1>3 DEF Type, Places, Taking
<1>4. CASE TakeIrq
  BY <1>1, <1>2, <1>4 DEF TakeIrq, Places, Taking, InOS
<1>5. CASE IrqByte
  <2>1. irqChar' \in Ids /\ irqChar' # NoChar
    BY <1>1, <1>5, FirstInUart DEF IrqByte
  <2> QED
    BY <1>1, <1>2, <1>5, <2>1 DEF IrqByte, Places, Taking
<1>6. CASE IrqReturn
  <2>1. ret \in {"call", "got", "wfi"}
    BY <1>1 DEF TypeOK, InOS
  <2> QED
    BY <1>1, <1>2, <1>6, <2>1 DEF IrqReturn, Places, Taking
<1>7. CASE PutLock
  BY <1>1, <1>2, <1>7 DEF PutLock, Places, Taking
<1>8. CASE PutStore
  <2>1. end' = end /\ start' = start /\ irqChar' = irqChar /\ char' = char /\ mutex' = mutex
    BY <1>8 DEF PutStore
  <2>2. Room => buf'[(start + end) % BuffSize] = irqChar
    <3>1. (start + end) % BuffSize \in 0 .. BuffSize - 1
      BY <1>1, RingPlace DEF TypeOK, SbiConsoleConstants
    <3> QED
      BY <1>1, <1>8, <3>1 DEF PutStore, TypeOK
  <2>3. pc[Console] = "put_store" /\ pc' = [pc EXCEPT ![Console] = "put_count"]
    BY <1>8 DEF PutStore
  <2> QED
    BY <1>1, <1>2, <2>1, <2>2, <2>3 DEF Places, Taking
<1>9. CASE PutCount
  <2>1. pc[Console] = "put_count" /\ pc' = [pc EXCEPT ![Console] = "irq"] /\ irqChar' = NoChar
    BY <1>9 DEF PutCount
  <2>2. mutex = Console
    BY <1>1, <2>1 DEF Places
  <2>3. ~Taking'
    BY <1>1, <1>2, <2>1, <2>2 DEF Places, Taking
  <2>4. \A h \in Readers : pc'[h] \notin {"get_read", "get_count"}
    BY <1>1, <1>2, <2>1, <2>2 DEF Places
  <2> QED
    BY <1>1, <1>2, <2>1, <2>2, <2>3, <2>4 DEF Places
<1>10. ASSUME NEW h \in Readers, GetLock(h)
       PROVE  Places'
  BY <1>1, <1>2, <1>10 DEF GetLock, Places, Taking
<1>11. ASSUME NEW h \in Readers, GetRead(h)
       PROVE  Places'
  <2>1. mutex = h /\ mutex' = mutex /\ end' = end /\ irqChar' = irqChar
    BY <1>1, <1>11 DEF GetRead, Places
  <2>2. pc[h] = "get_read" /\ pc' = [pc EXCEPT ![h] = "get_count"]
    BY <1>11 DEF GetRead
  <2>3. Taking' => end > 0
    BY <1>11, RingShrinks
  <2>4. pc'[Console] # "put_count"
    BY <1>1, <1>2, <2>1, <2>2 DEF Places
  <2> QED
    BY <1>1, <1>2, <2>1, <2>2, <2>3, <2>4 DEF Places
<1>12. ASSUME NEW h \in Readers, GetCount(h)
       PROVE  Places'
  <2>1. mutex = h /\ mutex' = Nobody /\ irqChar' = irqChar
    BY <1>1, <1>12 DEF GetCount, Places
  <2>2. pc[h] = "get_count" /\ pc' = [pc EXCEPT ![h] = "got"]
    BY <1>12 DEF GetCount
  <2>3. \A g \in Readers : pc'[g] \notin {"get_read", "get_count"}
    BY <1>1, <1>2, <2>1, <2>2 DEF Places
  <2>4. pc'[Console] \notin {"put_store", "put_count"}
    BY <1>1, <1>2, <2>1, <2>2 DEF Places
  <2>5. ~Taking'
    BY <2>3 DEF Taking
  <2> QED
    BY <1>1, <1>2, <2>1, <2>2, <2>3, <2>4, <2>5 DEF Places
<1>13. ASSUME NEW h \in Readers, Poll(h)
       PROVE  Places'
  <2>1. Taking' => Taking
    BY <1>1, <1>13 DEF Poll, Taking, Places, TypeOK
  <2> QED
    BY <1>1, <1>2, <1>13, <2>1 DEF Poll, Places
<1>14. CASE Nothing
  BY <1>1, <1>2, <1>14 DEF Nothing, Places, Taking
<1>15. CASE Wfi
  BY <1>1, <1>2, <1>15 DEF Wfi, Places, Taking
<1>16. CASE Consume
  <2>1. Taking' => Taking
    BY <1>1, <1>16 DEF Consume, Taking, Places, TypeOK
  <2> QED
    BY <1>1, <1>2, <1>16, <2>1 DEF Consume, Places
<1> QED
  BY <1>3, <1>4, <1>5, <1>6, <1>7, <1>8, <1>9, <1>10, <1>11, <1>12, <1>13, <1>14, <1>15,
     <1>16 DEF Next, Irq, Loop, GetChar

----------------------------------------------------------------------------
(* ... and moves at most one character, by one station. *)

Rests == UNCHANGED <<delivered, Contents, InFlight, fifo, typed, dropped>>

LEMMA StepsOfRing ==
  ASSUME SbiConsoleConstants, ConsoleInv, Next
  PROVE  \/ Rests
         \/ \E c \in Chars : Type(c) /\ Contents' = Contents /\ InFlight' = InFlight
         \/ IrqByte /\ Contents' = Contents /\ InFlight = <<>> /\ InFlight' = <<Head(fifo)>>
         \/ /\ fifo # <<>> /\ typed[Head(fifo)] = "ff" /\ fifo' = Tail(fifo)
            /\ InFlight = <<>> /\ InFlight' = <<>>
            /\ UNCHANGED <<delivered, Contents, typed, dropped>>
         \/ /\ PutCount /\ irqChar \in Ids /\ InFlight = <<irqChar>> /\ InFlight' = <<>>
            /\ UNCHANGED <<delivered, fifo, typed>>
         \/ \E h \in Readers : GetRead(h) /\ end > 0 /\ InFlight' = InFlight
<1> USE DEF Goto, Lock, Unlock, ring, history
<1>1. TypeOK /\ Places
  BY DEF ConsoleInv
<1>2. /\ Console \in Readers /\ Console \notin Others /\ Others \subseteq Readers
  BY DEF Readers, SbiConsoleConstants
<1>3. ASSUME NEW c \in Chars, Type(c)
      PROVE  Contents' = Contents /\ InFlight' = InFlight
  BY <1>3, SameRing DEF Type, Filled, Taking, InFlight
<1>4. CASE TakeIrq
  <2>1. Taking' <=> Taking
    BY <1>1, <1>4 DEF TakeIrq, Taking, InOS, Places
  <2> QED
    BY <1>4, <2>1, SameRing DEF TakeIrq, Rests, Filled, InFlight
<1>5. CASE IrqByte
  <2>1. Taking' <=> Taking
    BY <1>1, <1>5 DEF IrqByte, Taking, Places
  <2>2. irqChar = NoChar /\ irqChar' = Head(fifo) /\ irqChar' # NoChar
    BY <1>1, <1>5, FirstInUart DEF IrqByte, Places
  <2> QED
    BY <1>5, <2>1, <2>2, SameRing DEF IrqByte, Filled, InFlight
<1>6. CASE IrqReturn
  <2>1. Taking' <=> Taking
    BY <1>1, <1>6 DEF IrqReturn, Taking, Places, TypeOK, InOS
  <2>2. irqChar = NoChar /\ irqChar' = NoChar
    BY <1>1, <1>6 DEF IrqReturn, Places
  <2> QED
    BY <1>6, <2>1, <2>2, SameRing DEF IrqReturn, Rests, Filled, InFlight
<1>7. CASE PutLock
  <2>1. Taking' <=> Taking
    BY <1>1, <1>7 DEF PutLock, Taking, Places
  <2> QED
    BY <1>7, <2>1, SameRing DEF PutLock, Rests, Filled, InFlight
<1>8. CASE PutStore
  BY <1>8, RingKeeps DEF PutStore, Rests, InFlight
<1>9. CASE PutCount
  BY <1>1, <1>9 DEF PutCount, Places, InFlight, TypeOK
<1>10. ASSUME NEW h \in Readers, GetLock(h)
       PROVE  Rests
  <2>1. Taking' <=> Taking
    BY <1>1, <1>10 DEF GetLock, Taking, Places
  <2> QED
    BY <1>10, <2>1, SameRing DEF GetLock, Rests, Filled, InFlight
<1>11. ASSUME NEW h \in Readers, GetRead(h)
       PROVE  Rests \/ (end > 0 /\ InFlight' = InFlight)
  BY <1>11, RingShrinks DEF GetRead, Rests, InFlight
<1>12. ASSUME NEW h \in Readers, GetCount(h)
       PROVE  Rests
  BY <1>12, RingKeeps DEF GetCount, Rests, InFlight
<1>13. ASSUME NEW h \in Readers, Poll(h)
       PROVE  Rests
  <2>1. Taking' <=> Taking
    BY <1>1, <1>13 DEF Poll, Taking, Places, TypeOK
  <2> QED
    BY <1>13, <2>1, SameRing DEF Poll, Rests, Filled, InFlight
<1>14. CASE Nothing
  <2>1. Taking' <=> Taking
    BY <1>1, <1>14 DEF Nothing, Taking, Places
  <2> QED
    BY <1>14, <2>1, SameRing DEF Nothing, Rests, Filled, InFlight
<1>15. CASE Wfi
  <2>1. Taking' <=> Taking
    BY <1>1, <1>15 DEF Wfi, Taking, Places
  <2> QED
    BY <1>15, <2>1, SameRing DEF Wfi, Rests, Filled, InFlight
<1>16. CASE Consume
  <2>1. Taking' <=> Taking
    BY <1>1, <1>16 DEF Consume, Taking, Places, TypeOK
  <2> QED
    BY <1>16, <2>1, SameRing DEF Consume, Rests, Filled, InFlight
<1> QED
  BY <1>3, <1>4, <1>5, <1>6, <1>7, <1>8, <1>9, <1>10, <1>11, <1>12, <1>13, <1>14, <1>15,
     <1>16 DEF Next, Irq, Loop, GetChar

LEMMA FlowPreserved ==
  ASSUME SbiConsoleConstants, ConsoleInv, Next
  PROVE  Ordered' /\ Kept'
<1>1. TypeOK /\ TypeOK' /\ Ordered /\ Kept
  BY TypePreserved DEF ConsoleInv
<1>2. Len(typed) \in Nat /\ typed \in Seq(Chars)
  BY <1>1 DEF TypeOK
<1>3. /\ delivered \in Seq(Nat) /\ Contents \in Seq(Nat) /\ InFlight \in Seq(Nat)
      /\ fifo \in Seq(Nat)
  BY <1>1, IdsAreNumbers DEF Ordered, InLine, Upto
<1>4. CASE Rests
  BY <1>1, <1>4 DEF Rests, Ordered, Kept
<1>5. ASSUME NEW c \in Chars, Type(c), Contents' = Contents, InFlight' = InFlight
      PROVE  Ordered' /\ Kept'
  <2>1. /\ typed' = Append(typed, c) /\ fifo' = Append(fifo, Len(typed) + 1)
        /\ delivered' = delivered /\ dropped' = dropped
        /\ Len(typed') = Len(typed) + 1 /\ Len(typed) + 1 \in Ids
    BY <1>2, <1>5 DEF Type, history, Ids, SbiConsoleConstants
  <2>2. Ordered'
    BY <1>1, <1>2, <1>5, <2>1, LineTyped DEF Ordered
  <2>3. Kept'
    BY <1>1, <1>2, <1>3, <1>5, <2>1, KeptTyped DEF Kept
  <2> QED
    BY <2>2, <2>3
<1>6. CASE IrqByte /\ Contents' = Contents /\ InFlight = <<>> /\ InFlight' = <<Head(fifo)>>
  <2>1. /\ fifo # <<>> /\ fifo' = Tail(fifo)
        /\ UNCHANGED <<delivered, typed, dropped>>
    BY <1>6 DEF IrqByte, history
  <2>2. Ordered'
    BY <1>1, <1>2, <1>6, <2>1, LineTaken DEF Ordered
  <2>3. Kept'
    BY <1>1, <1>3, <1>6, <2>1, KeptTaken DEF Kept
  <2> QED
    BY <2>2, <2>3
<1>7. CASE /\ fifo # <<>> /\ typed[Head(fifo)] = "ff" /\ fifo' = Tail(fifo)
           /\ InFlight = <<>> /\ InFlight' = <<>>
           /\ UNCHANGED <<delivered, Contents, typed, dropped>>
  <2>1. Ordered'
    BY <1>1, <1>2, <1>7, LineTaken DEF Ordered
  <2>2. Kept'
    BY <1>1, <1>3, <1>7, KeptTaken DEF Kept
  <2> QED
    BY <2>1, <2>2
<1>8. CASE /\ PutCount /\ irqChar \in Ids /\ InFlight = <<irqChar>> /\ InFlight' = <<>>
           /\ UNCHANGED <<delivered, fifo, typed>>
  <2>1. irqChar \in Nat
    BY <1>8 DEF Ids, SbiConsoleConstants
  <2>2. \/ Contents' = Append(Contents, irqChar) /\ dropped' = dropped
        \/ Contents' = Contents /\ dropped' = dropped \cup {irqChar}
    <3>1. CASE Room
      <4>1. Contents' = Append(Contents, irqChar)
        BY <1>8, <3>1, RingGrows
      <4> QED
        BY <1>8, <3>1, <4>1 DEF PutCount
    <3>2. CASE ~Room
      <4>1. Contents' = Contents
        BY <1>8, <3>2, RingGrows
      <4> QED
        BY <1>8, <3>2, <4>1 DEF PutCount
    <3> QED
      BY <3>1, <3>2
  <2>3. Ordered'
    BY <1>1, <1>2, <1>8, <2>2, LinePut DEF Ordered
  <2>4. Kept'
    <3>1. Somewhere(delivered, Contents, <<irqChar>>, fifo, dropped, typed)
      BY <1>1, <1>8 DEF Kept
    <3>2. /\ Somewhere(delivered, Append(Contents, irqChar), <<>>, fifo, dropped, typed)
          /\ Somewhere(delivered, Contents, <<>>, fifo, dropped \cup {irqChar}, typed)
      BY <1>3, <2>1, <3>1, KeptPut
    <3> QED
      BY <1>8, <2>2, <3>2 DEF Kept
  <2> QED
    BY <2>3, <2>4
<1>9. ASSUME NEW h \in Readers, GetRead(h), end > 0, InFlight' = InFlight
      PROVE  Ordered' /\ Kept'
  <2>1. /\ Contents # <<>> /\ Contents' = Tail(Contents)
        /\ delivered' = Append(delivered, Head(Contents))
    BY <1>9, RingShrinks
  <2>2. fifo' = fifo /\ typed' = typed /\ dropped' = dropped
    BY <1>9 DEF GetRead
  <2>3. Ordered'
    BY <1>1, <1>2, <1>9, <2>1, <2>2, LineGot DEF Ordered
  <2>4. Kept'
    BY <1>1, <1>3, <1>9, <2>1, <2>2, KeptGot DEF Kept
  <2> QED
    BY <2>3, <2>4
<1> QED
  BY <1>4, <1>5, <1>6, <1>7, <1>8, <1>9, StepsOfRing

LEMMA ConsoleStutters ==
  ASSUME ConsoleInv, UNCHANGED vars
  PROVE  ConsoleInv' /\ Contents' = Contents
<1>1. /\ typed' = typed /\ fifo' = fifo /\ buf' = buf /\ start' = start /\ end' = end
      /\ mutex' = mutex /\ pc' = pc /\ ret' = ret /\ irqChar' = irqChar /\ char' = char
      /\ at' = at /\ delivered' = delivered /\ dropped' = dropped
  BY DEF vars
<1>2. Taking' = Taking /\ Filled' = Filled /\ Contents' = Contents /\ InFlight' = InFlight
  BY <1>1 DEF Taking, Filled, Contents, InFlight
<1>3. TypeOK'
  BY <1>1 DEF ConsoleInv, TypeOK
<1>4. Places'
  BY <1>1, <1>2 DEF ConsoleInv, Places, Room
<1>5. Ordered' /\ Kept'
  BY <1>1, <1>2 DEF ConsoleInv, Ordered, Kept
<1> QED
  BY <1>2, <1>3, <1>4, <1>5 DEF ConsoleInv

\* The inductive invariant of the way from the UART to the readers.
THEOREM ConsoleInvariant ==
  ASSUME SbiConsoleConstants
  PROVE  Spec => []ConsoleInv
<1>1. Init => ConsoleInv
  BY InitConsole
<1>2. ConsoleInv /\ [Next]_vars => ConsoleInv'
  <2>1. ASSUME ConsoleInv, Next
        PROVE  ConsoleInv'
    BY <2>1, TypePreserved, PlacesPreserved, FlowPreserved DEF ConsoleInv
  <2> QED
    BY <2>1, ConsoleStutters
<1> QED
  BY <1>1, <1>2, PTL DEF Spec

----------------------------------------------------------------------------
(* What the readers and the user rely on *)

\* What is before something is before what it is put in front of.
LEMMA AscendingJoin ==
  ASSUME NEW s \in Seq(Nat), NEW t \in Seq(Nat)
  PROVE  /\ s \o t \in Seq(Nat)
         /\ Ascending(s) /\ Ascending(t) /\ Before(s, t) => Ascending(s \o t)
         /\ \A n : In(n, s \o t) <=> In(n, s) \/ In(n, t)
         /\ \A u \in Seq(Nat) : Before(s \o t, u) <=> Before(s, u) /\ Before(t, u)
<1>1. /\ Len(s) \in Nat /\ Len(t) \in Nat /\ s \o t \in Seq(Nat)
      /\ Len(s \o t) = Len(s) + Len(t)
      /\ \A i \in 1 .. Len(s) : (s \o t)[i] = s[i]
      /\ \A i \in 1 .. Len(t) : (s \o t)[Len(s) + i] = t[i]
      /\ \A i \in 1 .. Len(s) : s[i] \in Nat
      /\ \A i \in 1 .. Len(t) : t[i] \in Nat
  OBVIOUS
<1>2. \A i \in 1 .. Len(s) + Len(t) :
        \/ i \in 1 .. Len(s) /\ (s \o t)[i] = s[i]
        \/ i - Len(s) \in 1 .. Len(t) /\ (s \o t)[i] = t[i - Len(s)]
  <2>1. ASSUME NEW i \in 1 .. Len(s) + Len(t), i \notin 1 .. Len(s)
        PROVE  i - Len(s) \in 1 .. Len(t) /\ (s \o t)[i] = t[i - Len(s)]
    <3>1. PICK j \in 1 .. Len(t) : i = Len(s) + j
      <4>1. i - Len(s) \in 1 .. Len(t) /\ i = Len(s) + (i - Len(s))
        BY <1>1, <2>1
      <4> QED
        BY <4>1
    <3>2. i - Len(s) = j
      BY <1>1, <3>1
    <3> QED
      BY <1>1, <3>1, <3>2
  <2> QED
    BY <1>1, <2>1
<1>3. ASSUME Ascending(s), Ascending(t), Before(s, t)
      PROVE  Ascending(s \o t)
  <2>1. ASSUME NEW i \in 1 .. Len(s) + Len(t), NEW j \in 1 .. Len(s) + Len(t), i < j
        PROVE  (s \o t)[i] < (s \o t)[j]
    <3>1. CASE j \in 1 .. Len(s) /\ (s \o t)[j] = s[j]
      <4>1. i \in 1 .. Len(s)
        BY <1>1, <2>1, <3>1
      <4> QED
        BY <1>1, <1>3, <2>1, <3>1, <4>1 DEF Ascending
    <3>2. CASE j - Len(s) \in 1 .. Len(t) /\ (s \o t)[j] = t[j - Len(s)]
      <4>1. CASE i \in 1 .. Len(s) /\ (s \o t)[i] = s[i]
        BY <1>3, <3>2, <4>1 DEF Before
      <4>2. CASE i - Len(s) \in 1 .. Len(t) /\ (s \o t)[i] = t[i - Len(s)]
        <5>1. i - Len(s) < j - Len(s)
          BY <1>1, <2>1
        <5> QED
          BY <1>3, <3>2, <4>2, <5>1 DEF Ascending
      <4> QED
        BY <1>2, <4>1, <4>2
    <3> QED
      BY <1>2, <3>1, <3>2
  <2> QED
    BY <1>1, <2>1 DEF Ascending
<1>4. ASSUME NEW n
      PROVE  In(n, s \o t) <=> In(n, s) \/ In(n, t)
  <2>1. ASSUME In(n, s)
        PROVE  In(n, s \o t)
    <3>1. PICK i \in 1 .. Len(s) : s[i] = n
      BY <2>1 DEF In
    <3>2. i \in 1 .. Len(s) + Len(t)
      BY <1>1
    <3> QED
      BY <1>1, <3>1, <3>2 DEF In
  <2>2. ASSUME In(n, t)
        PROVE  In(n, s \o t)
    <3>1. PICK i \in 1 .. Len(t) : t[i] = n
      BY <2>2 DEF In
    <3>2. Len(s) + i \in 1 .. Len(s) + Len(t)
      BY <1>1
    <3> QED
      BY <1>1, <3>1, <3>2 DEF In
  <2>3. ASSUME In(n, s \o t)
        PROVE  In(n, s) \/ In(n, t)
    <3>1. PICK i \in 1 .. Len(s) + Len(t) : (s \o t)[i] = n
      BY <1>1, <2>3 DEF In
    <3> QED
      BY <1>2, <3>1 DEF In
  <2> QED
    BY <2>1, <2>2, <2>3
<1>5. ASSUME NEW u \in Seq(Nat)
      PROVE  Before(s \o t, u) <=> Before(s, u) /\ Before(t, u)
  <2>1. ASSUME Before(s, u), Before(t, u)
        PROVE  Before(s \o t, u)
    BY <1>1, <1>2, <2>1 DEF Before
  <2>2. ASSUME Before(s \o t, u)
        PROVE  Before(s, u) /\ Before(t, u)
    <3>1. \A i \in 1 .. Len(s) : i \in 1 .. Len(s \o t)
      BY <1>1
    <3>2. \A i \in 1 .. Len(t) : Len(s) + i \in 1 .. Len(s \o t)
      BY <1>1
    <3> QED
      BY <1>1, <2>2, <3>1, <3>2 DEF Before
  <2> QED
    BY <2>1, <2>2
<1> QED
  BY <1>1, <1>3, <1>4, <1>5

LEMMA ConsoleGood ==
  ASSUME SbiConsoleConstants, ConsoleInv
  PROVE  InOrder /\ NothingVanishes
<1>1. Ordered /\ Kept /\ TypeOK
  BY DEF ConsoleInv
<1>2. PICK d \in Seq(Nat), r \in Seq(Nat), f \in Seq(Nat), u \in Seq(Nat) :
        d = delivered /\ r = Contents /\ f = InFlight /\ u = fifo
  BY <1>1, IdsAreNumbers DEF Ordered, InLine, Upto
<1>3. InLine(d, r, f, u, Len(typed)) /\ Somewhere(d, r, f, u, dropped, typed)
  BY <1>1, <1>2 DEF Ordered, Kept
<1>4. Ascending(f)
  <2>1. f = <<>> \/ f = <<irqChar>>
    BY <1>2 DEF InFlight
  <2> QED
    BY <2>1 DEF Ascending
<1>5. /\ d \o r \in Seq(Nat) /\ Ascending(d \o r)
      /\ Before(d \o r, f) /\ Before(d \o r, u)
      /\ \A n : In(n, d \o r) <=> In(n, d) \/ In(n, r)
  BY <1>3, AscendingJoin DEF InLine
<1>6. /\ d \o r \o f \in Seq(Nat) /\ Ascending(d \o r \o f) /\ Before(d \o r \o f, u)
      /\ \A n : In(n, d \o r \o f) <=> In(n, d \o r) \/ In(n, f)
  BY <1>3, <1>4, <1>5, AscendingJoin DEF InLine
<1>7. /\ d \o r \o f \o u \in Seq(Nat) /\ Ascending(d \o r \o f \o u)
      /\ \A n : In(n, d \o r \o f \o u) <=> In(n, d \o r \o f) \/ In(n, u)
  BY <1>3, <1>6, AscendingJoin DEF InLine
<1>8. InOrder
  BY <1>2, <1>7 DEF InOrder, Ascending
<1>9. ASSUME NEW n \in 1 .. Len(typed)
      PROVE  \/ n \in ToSet(delivered \o Contents \o InFlight \o fifo)
             \/ n \in dropped \/ typed[n] = "ff"
  <2>1. ASSUME In(n, d \o r \o f \o u)
        PROVE  n \in ToSet(delivered \o Contents \o InFlight \o fifo)
    <3>1. PICK s \in Seq(Nat) : s = d \o r \o f \o u
      BY <1>7
    <3>2. DOMAIN s = 1 .. Len(s) /\ In(n, s)
      BY <2>1, <3>1
    <3>3. n \in ToSet(s)
      BY <3>2 DEF In, ToSet
    <3> QED
      BY <1>2, <3>1, <3>3
  <2> QED
    BY <1>3, <1>5, <1>6, <1>7, <2>1 DEF Somewhere
<1> QED
  BY <1>8, <1>9 DEF NothingVanishes

\* Whatever the interrupt and the readers interleave, characters stay in order and
\* nobody loses one that there was room for (ring_buff.c, uart.c).
THEOREM CharactersAlwaysKept ==
  ASSUME SbiConsoleConstants
  PROVE  Spec => [](TypeOK /\ InOrder /\ NothingVanishes)
<1>1. ConsoleInv => TypeOK /\ InOrder /\ NothingVanishes
  BY ConsoleGood DEF ConsoleInv
<1> QED
  BY <1>1, ConsoleInvariant, PTL

\* Under the lock the two stores of ring_put, and those of ring_get, look like one step
\* of a bounded queue (ring_buff.c:11-34).
THEOREM RingAlwaysFifo ==
  ASSUME SbiConsoleConstants
  PROVE  Spec => RingIsFifo
<1>1. Init => Fifo!Init
  <2>1. ASSUME Init
        PROVE  Contents = <<>>
    BY <2>1 DEF Init, Contents
  <2> QED
    BY <2>1 DEF Fifo!Init
<1>2. ConsoleInv /\ [Next]_vars => [Fifo!Next]_Contents
  <2>1. ASSUME ConsoleInv, Next
        PROVE  [Fifo!Next]_Contents
    <3>1. ASSUME PutCount, irqChar \in Ids
          PROVE  [Fifo!Next]_Contents
      <4>1. CASE Room
        BY <2>1, <3>1, <4>1, RingGrows DEF Fifo!Next, Fifo!Put
      <4>2. CASE ~Room
        BY <2>1, <3>1, <4>2, RingGrows
      <4> QED
        BY <4>1, <4>2
    <3>2. ASSUME NEW h \in Readers, GetRead(h), end > 0
          PROVE  [Fifo!Next]_Contents
      BY <2>1, <3>2, RingShrinks DEF Fifo!Next, Fifo!Get
    <3> QED
      BY <2>1, <3>1, <3>2, StepsOfRing DEF Rests
  <2> QED
    BY <2>1, ConsoleStutters
<1>3. RingIsFifo <=> Fifo!Init /\ [][Fifo!Next]_Contents
  BY DEF RingIsFifo, Fifo!Spec
<1> QED
  BY <1>1, <1>2, <1>3, ConsoleInvariant, PTL DEF Spec
=============================================================================
