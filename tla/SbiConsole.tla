----------------------------- MODULE SbiConsole -----------------------------
(***************************************************************************)
(* Characters on their way from the UART to the console of the OS:         *)
(*   src/sbi/src/uart.c, ring_buff.c, plic.c, ctrap.c   (firmware, hart 0) *)
(*   src/src/sbi.c sbi_getchar, src/src/main.c 174-200  (console loop)     *)
(*                                                                         *)
(* Hart 0 takes the machine external interrupt whenever it runs the OS and *)
(* never inside the firmware, whose trap handlers run with interrupts off. *)
(* Other harts may call getchar too, so the ring has a lock.  A character  *)
(* is the number of its arrival, typed[n] says which one it was; the byte  *)
(* 0xff is "ff", which uart_get and ring_get also use for "nothing".       *)
(***************************************************************************)
EXTENDS Naturals, Sequences, SequencesExt, FiniteSetsExt

CONSTANTS Console,    \* hart 0, which runs the console loop
          Others,     \* other harts that call sbi_getchar
          Chars,      \* the bytes typed: "a", "enter", "backspace", "ff"
          BuffSize,   \* BUFF_SIZE, not 0
          LineSize,   \* longest command line, 255
          MaxTyped,   \* bound on the characters that arrive
          Nobody      \* the lock is free

VARIABLES typed,      \* history: the characters that arrived
          fifo,       \* the UART's receive FIFO
          buf, start, end,   \* ring_buff.c; end counts the elements
          mutex,      \* buf_mutex: its holder or Nobody
          pc,         \* where each hart is
          ret,        \* where hart 0 goes on after the interrupt
          irqChar,    \* c in uart_handle_irq
          char,       \* ret_c in ring_get, then c of the caller
          at,         \* length of the command line
          delivered,  \* history: the characters ring_get returned, in order
          dropped     \* history: the characters ring_put found no room for

vars == <<typed, fifo, buf, start, end, mutex, pc, ret, irqChar, char, at,
          delivered, dropped>>

Readers == Others \cup {Console}
Ids == 1 .. MaxTyped
NoChar == 0           \* 0xff as the answer "nothing there"
ring == <<buf, start, end>>
history == <<delivered, dropped>>

Goto(h, from, to) == pc[h] = from /\ pc' = [pc EXCEPT ![h] = to]

Init ==
  /\ typed = <<>> /\ fifo = <<>>
  /\ buf = [i \in 0 .. BuffSize - 1 |-> NoChar] /\ start = 0 /\ end = 0
  /\ mutex = Nobody
  /\ pc = [h \in Readers |-> "call"] /\ ret = "call"
  /\ irqChar = NoChar /\ char = [h \in Readers |-> NoChar]
  /\ at = 0
  /\ delivered = <<>> /\ dropped = {}

(* The user presses a key: the UART raises its interrupt while its FIFO is *)
(* not empty.                                                              *)
Type(c) ==
  /\ Len(typed) < MaxTyped
  /\ typed' = Append(typed, c)
  /\ fifo' = Append(fifo, Len(typed) + 1)
  /\ UNCHANGED <<ring, mutex, pc, ret, irqChar, char, at, history>>

----------------------------------------------------------------------------
(* The interrupt: c_trap_handler, plic_handle_irq, uart_handle_irq. *)
InOS == {"call", "got", "wfi", "asleep"}

\* a hart that waits in WFI goes on behind it
TakeIrq ==
  /\ pc[Console] \in InOS
  /\ fifo # <<>>
  /\ pc' = [pc EXCEPT ![Console] = "irq"]
  /\ ret' = IF pc[Console] = "asleep" THEN "call" ELSE pc[Console]
  /\ UNCHANGED <<typed, fifo, ring, mutex, irqChar, char, at, history>>

\* uart_get takes a byte and the loop goes on with it ...
IrqByte ==
  /\ Goto(Console, "irq", "put_lock")
  /\ fifo # <<>> /\ typed[Head(fifo)] # "ff"
  /\ irqChar' = Head(fifo)
  /\ fifo' = Tail(fifo)
  /\ UNCHANGED <<typed, ring, mutex, ret, char, at, history>>

\* ... or ends it: nothing is left, or the byte taken was 0xff
IrqReturn ==
  /\ Goto(Console, "irq", ret)
  /\ \/ fifo = <<>> /\ UNCHANGED fifo
     \/ fifo # <<>> /\ typed[Head(fifo)] = "ff" /\ fifo' = Tail(fifo)
  /\ UNCHANGED <<typed, ring, mutex, ret, irqChar, char, at, history>>

----------------------------------------------------------------------------
(* ring_put and ring_get, under buf_mutex. *)
LockIgnored(h, from, to) ==    \* mutant: does not wait for the holder
  /\ Goto(h, from, to)
  /\ mutex' = h

Lock(h, from, to) ==
  /\ Goto(h, from, to)
  /\ mutex = Nobody
  /\ mutex' = h

Unlock(h, from, to) ==
  /\ Goto(h, from, to)
  /\ mutex' = Nobody

PutLock ==
  /\ Lock(Console, "put_lock", "put_store")
  /\ UNCHANGED <<typed, fifo, ring, ret, irqChar, char, at, history>>

Room == end < BuffSize

PutStoreOverwrites ==    \* mutant: no test for a full ring
  /\ Goto(Console, "put_store", "put_count")
  /\ buf' = [buf EXCEPT ![(start + end) % BuffSize] = irqChar]
  /\ UNCHANGED <<typed, fifo, start, end, mutex, ret, irqChar, char, at, history>>

PutStore ==
  /\ Goto(Console, "put_store", "put_count")
  /\ \/ Room /\ buf' = [buf EXCEPT ![(start + end) % BuffSize] = irqChar]
     \/ ~Room /\ UNCHANGED buf
  /\ UNCHANGED <<typed, fifo, start, end, mutex, ret, irqChar, char, at, history>>

\* end += 1, and mutex_unlock
PutCountForgets ==       \* mutant: the lock is kept
  /\ Goto(Console, "put_count", "irq")
  /\ \/ Room /\ end' = end + 1 /\ UNCHANGED dropped
     \/ ~Room /\ dropped' = dropped \cup {irqChar} /\ UNCHANGED end
  /\ irqChar' = NoChar
  /\ UNCHANGED <<typed, fifo, buf, start, mutex, ret, char, at, delivered>>

PutCount ==
  /\ Unlock(Console, "put_count", "irq")
  /\ \/ Room /\ end' = end + 1 /\ UNCHANGED dropped
     \/ ~Room /\ dropped' = dropped \cup {irqChar} /\ UNCHANGED end
  /\ irqChar' = NoChar
  /\ UNCHANGED <<typed, fifo, buf, start, ret, char, at, delivered>>

GetLock(h) ==
  /\ Lock(h, "call", "get_read")
  /\ UNCHANGED <<typed, fifo, ring, ret, irqChar, char, at, history>>

NextStart == (start + 1) % BuffSize

\* ret_c and start
GetRead(h) ==
  /\ Goto(h, "get_read", "get_count")
  /\ \/ /\ end > 0
        /\ char' = [char EXCEPT ![h] = buf[start]]
        /\ start' = NextStart
        /\ delivered' = Append(delivered, buf[start])
     \/ /\ end = 0
        /\ char' = [char EXCEPT ![h] = NoChar]
        /\ UNCHANGED <<start, delivered>>
  /\ UNCHANGED <<typed, fifo, buf, end, mutex, ret, irqChar, at, dropped>>

\* end -= 1, and mutex_unlock
GetCount(h) ==
  /\ Unlock(h, "get_count", "got")
  /\ end' = IF char[h] = NoChar THEN end ELSE end - 1
  /\ UNCHANGED <<typed, fifo, buf, start, ret, irqChar, char, at, history>>

----------------------------------------------------------------------------
(* The callers.  Other harts poll; the console sleeps when it got nothing. *)
Poll(h) ==
  /\ h # Console
  /\ Goto(h, "got", "call")
  /\ char' = [char EXCEPT ![h] = NoChar]
  /\ UNCHANGED <<typed, fifo, ring, mutex, ret, irqChar, at, history>>

Nothing ==
  /\ Goto(Console, "got", "wfi")
  /\ char[Console] = NoChar
  /\ UNCHANGED <<typed, fifo, ring, mutex, ret, irqChar, char, at, history>>

\* WFI: falls through when an interrupt is pending
Wfi ==
  /\ Goto(Console, "wfi", IF fifo = <<>> THEN "asleep" ELSE "call")
  /\ UNCHANGED <<typed, fifo, ring, mutex, ret, irqChar, char, at, history>>

EditNoBound(c) == CASE c = "enter"     -> 0          \* mutant
                    [] c = "backspace" -> IF at > 0 THEN at - 1 ELSE at
                    [] OTHER           -> at + 1

\* the line editor: enter runs the command, backspace deletes one character
Edit(c) == CASE c = "enter"     -> 0
             [] c = "backspace" -> IF at > 0 THEN at - 1 ELSE at
             [] OTHER           -> IF at < LineSize THEN at + 1 ELSE at

Consume ==
  /\ Goto(Console, "got", "call")
  /\ char[Console] # NoChar
  /\ at' = Edit(typed[char[Console]])
  /\ char' = [char EXCEPT ![Console] = NoChar]
  /\ UNCHANGED <<typed, fifo, ring, mutex, ret, irqChar, history>>

----------------------------------------------------------------------------
Irq == TakeIrq \/ IrqByte \/ IrqReturn \/ PutLock \/ PutStore \/ PutCount

Loop == Nothing \/ Wfi \/ Consume

GetChar(h) == GetLock(h) \/ GetRead(h) \/ GetCount(h) \/ Poll(h)

Next == Irq \/ Loop \/ (\E h \in Readers : GetChar(h)) \/ \E c \in Chars : Type(c)

Spec == Init /\ [][Next]_vars

\* Each hart executes its code.  Hart 0 takes a pending interrupt when interrupts
\* are enabled again and again, as they are on each return from the firmware.  A
\* hart that spins on the lock gets it if it is free again and again.
FairSpec ==
  /\ Spec
  /\ WF_vars(Irq) /\ SF_vars(TakeIrq) /\ SF_vars(PutLock) /\ WF_vars(Loop)
  /\ \A h \in Readers : WF_vars(GetChar(h)) /\ SF_vars(GetLock(h))

----------------------------------------------------------------------------
\* What is in the ring.  Between the two stores of ring_get its first element
\* is gone already.
Contents ==
  LET taking == \E h \in Readers : pc[h] = "get_count" /\ char[h] # NoChar
      count  == IF taking THEN end - 1 ELSE end
  IN  [k \in 1 .. count |-> buf[(start + k - 1) % BuffSize]]

InFlight == IF irqChar = NoChar THEN <<>> ELSE <<irqChar>>

\* Types of the ring, the FIFO and the registers; the command line never gets
\* longer than its buffer (main.c:193).
TypeOK ==
  /\ typed \in Seq(Chars) /\ fifo \in Seq(Ids)
  /\ buf \in [0 .. BuffSize - 1 -> Ids \cup {NoChar}]
  /\ start \in 0 .. BuffSize - 1 /\ end \in 0 .. BuffSize
  /\ mutex \in Readers \cup {Nobody}
  /\ ret \in InOS \ {"asleep"}
  /\ irqChar \in Ids \cup {NoChar}
  /\ char \in [Readers -> Ids \cup {NoChar}]
  /\ at \in 0 .. LineSize
  /\ delivered \in Seq(Ids) /\ dropped \subseteq Ids

\* Characters are handed out in the order they were typed, none twice: what was
\* delivered, what is in the ring, in the handler's hand and in the UART follow
\* each other in order (ring_buff.c:11-12, 22-23).
InOrder ==
  LET all == delivered \o Contents \o InFlight \o fifo
  IN  \A i, j \in 1 .. Len(all) : i < j => all[i] < all[j]

\* No character vanishes on the way: each one is somewhere on its way, or was
\* 0xff, or came when the ring was full.
NothingVanishes ==
  \A n \in 1 .. Len(typed) :
    \/ n \in ToSet(delivered \o Contents \o InFlight \o fifo)
    \/ n \in dropped
    \/ typed[n] = "ff"

\* The ring is a bounded FIFO, whatever the interleaving of the interrupt and of
\* the harts that read (ring_buff.c).
Fifo == INSTANCE BoundedFifo WITH
          Elements <- Ids, Capacity <- BuffSize, queue <- Contents
RingIsFifo == Fifo!Spec

\* The interrupt handler always empties the UART, also against readers that
\* spin on the ring's lock.
UartDrained == fifo # <<>> ~> fifo = <<>>

\* A command that the user ends with enter is run (main.c:224-225), unless the
\* ring had no room for the enter.
EnterIsSeen ==
  \A n \in Ids :
    (n \in DOMAIN typed /\ typed[n] = "enter")
      ~> n \in ToSet(delivered) \cup dropped
============================================================================
