------------------------------- MODULE Shells -------------------------------
(***************************************************************************)
(* The three command lines, and the commands:                              *)
(*   "kernel"  src/src/main.c 174-200 and run_command                      *)
(*   "user"    src/user/console.c, characters from the getchar call        *)
(*   "events"  src/user/consolev.c, keys from the events of the keyboard   *)
(*                                                                         *)
(* Bytes are their codes.  The screen is the line behind the prompt; a     *)
(* control character that is echoed, or the answer to an arrow key, moves  *)
(* the cursor elsewhere: then the line is no longer "plain".               *)
(*                                                                         *)
(* The kernel has no call 5, get_events, at this commit: the events are    *)
(* what consolev.c means it to return, an array that fits into its own.    *)
(* The array of command is scaled, the code has 256, 256 and 25.           *)
(***************************************************************************)
EXTENDS Strings, FiniteSets, TLC

CONSTANTS Editors,       \* which of the three
          Size,          \* of the array command
          Lines,         \* what has been typed before
          Keys,          \* the bytes that getchar may return, 255 for nothing
          EventKinds,    \* the events, [type, code, value]
          MaxKeys,       \* bound on the bytes or events
          NumHarts       \* 8, the harts that the commands know

VARIABLES editor,
          command, at,   \* the array and the index into it
          screen, plain, \* what the user sees of it
          pc, esc,       \* where the loop is, and esc1
          keysLeft,      \* bytes or events that may still come
          line,          \* the argument of run_command
          hart,          \* its local variable, or i
          said,          \* what it did last
          seen,          \* what was on the screen when it was called, or NotPlain
          status,        \* of the harts, in the firmware
          events, atev,  \* what get_events returned, sizeev is its length
          shift,
          given, typed   \* history: all events, and the characters they gave

vars == <<editor, command, at, screen, plain, pc, esc, keysLeft, line, hart, said,
          seen, status, events, atev, shift, given, typed>>

edited  == <<command, at, screen, plain>>
running == <<line, hart, said, seen, status>>
keyed   == <<events, atev, shift, given, typed>>

Help  == <<104, 101, 108, 112>>
Stat  == <<115, 116, 97, 116>>
Start == <<115, 116, 97, 114, 116>>
Gev   == <<103, 101, 118>>
Space == 32
Escape == 27
Bracket == 91
Nothing == 255
NotPlain == <<-1>>
NoShell == [what |-> "nothing", hart |-> 0]

\* l has been typed, and the harts other than 0 are in state s
InitWith(e, l, s) ==
  /\ editor = e
  /\ command = [k \in 0 .. Size - 1 |-> IF k < Len(l) THEN l[k + 1] ELSE NUL]
  /\ at = Len(l) /\ screen = l
  /\ plain = TRUE /\ pc = "get" /\ esc = NUL /\ keysLeft = MaxKeys
  /\ line = <<>> /\ hart = 0 /\ said = NoShell /\ seen = <<>>
  /\ status = [h \in 0 .. NumHarts - 1 |-> IF h = 0 THEN 3 ELSE s]
  /\ events = <<>> /\ atev = 0 /\ shift = FALSE /\ given = <<>> /\ typed = <<>>

Init == \E e \in Editors, l \in Lines, s \in {0, 1, 3} : InitWith(e, l, s)

----------------------------------------------------------------------------
(* The line editor, for a byte c that is there. *)
Enters == {10, 13}
Erases == IF editor = "events" THEN {8} ELSE {8, 127}

Printable(c) == c \in 32 .. 126

\* the string in the array
Text(cmd) == LET end == CHOOSE k \in DOMAIN cmd : cmd[k] = NUL /\ \A j \in 0 .. k - 1 : cmd[j] # NUL
             IN  [k \in 1 .. end |-> cmd[k - 1]]

Enter(c) ==
  /\ c \in Enters
  /\ command' = [command EXCEPT ![at] = NUL]
  /\ line' = Text(command')
  /\ seen' = IF plain THEN screen ELSE NotPlain
  /\ at' = 0 /\ screen' = <<>> /\ plain' = TRUE
  /\ pc' = "run"
  /\ UNCHANGED esc

EraseUnseen(c) ==                \* mutant: the screen keeps the character
  /\ c \in Erases
  /\ at' = IF at > 0 THEN at - 1 ELSE at
  /\ pc' = "get"
  /\ UNCHANGED <<command, screen, plain, line, seen, esc>>

Erase(c) ==
  /\ c \in Erases
  /\ IF at > 0 THEN at' = at - 1 /\ screen' = SubSeq(screen, 1, Len(screen) - 1)
     ELSE UNCHANGED <<at, screen>>
  /\ pc' = "get"
  /\ UNCHANGED <<command, plain, line, seen, esc>>

StartEscape(c) ==
  /\ editor = "user" /\ c = Escape
  /\ pc' = "esc1"
  /\ UNCHANGED <<edited, line, seen, esc>>

RoomAlways == at < Size           \* mutant: no room is left for the terminator

Room == at < Size - 1

Store(c) ==
  /\ c \notin Enters \cup Erases /\ ~(editor = "user" /\ c = Escape)
  /\ IF Room
     THEN /\ command' = [command EXCEPT ![at] = c] /\ at' = at + 1
          /\ screen' = Append(screen, c) /\ plain' = (plain /\ Printable(c))
     ELSE UNCHANGED edited
  /\ pc' = "get"
  /\ UNCHANGED <<line, seen, esc>>

Edit(c) == Enter(c) \/ Erase(c) \/ StartEscape(c) \/ Store(c)

----------------------------------------------------------------------------
(* Where the bytes come from: sbi_getchar or getchar, which do not wait. *)
GetChar ==
  /\ editor # "events" /\ pc = "get" /\ keysLeft > 0
  /\ \E c \in Keys \ {Nothing} : Edit(c)
  /\ keysLeft' = keysLeft - 1
  /\ UNCHANGED <<editor, hart, said, status, keyed>>

\* the two bytes behind an escape are taken whether they are there or not
EscapeFirst ==
  /\ pc = "esc1" /\ pc' = "esc2"
  /\ \E c \in Keys : esc' = c /\ keysLeft' = IF c = Nothing THEN keysLeft ELSE keysLeft - 1
  /\ keysLeft' >= 0
  /\ UNCHANGED <<editor, edited, running, keyed>>

EscapeSecond ==
  /\ pc = "esc2" /\ pc' = "get"
  /\ \E c \in Keys :
       /\ plain' = (plain /\ ~(esc = Bracket /\ c \in 65 .. 68))
       /\ keysLeft' = IF c = Nothing THEN keysLeft ELSE keysLeft - 1
  /\ keysLeft' >= 0
  /\ esc' = NUL
  /\ UNCHANGED <<editor, command, at, screen, running, keyed>>

\* get_events, when the last events are used up
GetEvents ==
  /\ editor = "events" /\ pc = "get" /\ atev >= Len(events)
  /\ \E n \in 1 .. keysLeft : \E batch \in [1 .. n -> EventKinds] :
       events' = batch /\ given' = given \o batch /\ keysLeft' = keysLeft - n
  /\ atev' = 0
  /\ UNCHANGED <<editor, edited, pc, esc, running, shift, typed>>

\* the table keys, with gaps, and what the shift key makes of it
keys == [A |-> 97, Z |-> 122, ENTER |-> 10, BACKSPACE |-> 8, SPACE |-> 32, GAP |-> NUL]
        @@ [k \in {"0", "1", "9"} |-> CASE k = "0" -> 48 [] k = "1" -> 49 [] k = "9" -> 57]

num_shift_keys == <<41, 33, 64, 35, 36, 37, 94, 38, 42, 40>>

conv_key(code, shifted) ==
  LET ret == IF code \in DOMAIN keys THEN keys[code] ELSE NUL
  IN  CASE shifted /\ ret \in 97 .. 122 -> ret - 32
        [] shifted /\ ret \in Digits -> num_shift_keys[ret - 48 + 1]
        [] OTHER -> ret

Shifts == {"LEFTSHIFT", "RIGHTSHIFT"}

\* the index of the first press from i on, or the number of events
NextPress(i) ==
  LET pressed == {k \in i .. Len(events) - 1 :
                    LET ev == events[k + 1]
                    IN  ev.type = "KEY" /\ ev.code \notin Shifts /\ ev.value = 1}
  IN  IF pressed = {} THEN Len(events) ELSE CHOOSE k \in pressed : \A j \in pressed : k <= j

\* the shift key after the events from i to j - 1
ShiftAfter(i, j) ==
  LET changes == {k \in i .. j - 1 : events[k + 1].type = "KEY" /\ events[k + 1].code \in Shifts}
  IN  IF changes = {} THEN shift
      ELSE events[(CHOOSE k \in changes : \A m \in changes : m <= k) + 1].value # 0

AtevSame(i) == i                  \* mutant: the event is looked at again

AtevBehind(i) == i + 1

\* get_next_key, and the editor with what it returned
GetNextKey ==
  /\ editor = "events" /\ pc = "get" /\ atev < Len(events)
  /\ LET i == NextPress(atev)
         c == IF i = Len(events) THEN Nothing
              ELSE conv_key(events[i + 1].code, ShiftAfter(atev, i))
     IN  /\ atev' = AtevBehind(i)
         /\ shift' = ShiftAfter(atev, i)
         /\ typed' = IF i = Len(events) THEN typed ELSE Append(typed, c)
         /\ IF c \in {NUL, Nothing} THEN pc' = "get" /\ UNCHANGED <<edited, line, seen, esc>>
            ELSE Edit(c)
  /\ UNCHANGED <<editor, keysLeft, hart, said, status, events, given>>

----------------------------------------------------------------------------
(* run_command *)
Says(what, h) == said' = [what |-> what, hart |-> h]

Goto(to) == pc' = to /\ UNCHANGED <<editor, edited, esc, keysLeft, line, seen, keyed>>

Unknown == Says(IF line = <<>> THEN "nothing" ELSE "unknown", 0)

Argument == atoi(Behind(line, strfindchr(line, Space) + 1))

RunKernel ==
  /\ editor = "kernel" /\ pc = "run"
  /\ CASE strcmp(line, Help) = 0 -> Goto("get") /\ Says("help", 0) /\ UNCHANGED hart
       [] strcmp(line, Stat) = 0 -> Goto("stat") /\ Says("stat", 0) /\ hart' = 0
       [] strcmp(line, Help) # 0 /\ strcmp(line, Stat) # 0 /\ strncmp(line, Start, 5) = 0 ->
            CASE strfindchr(line, Space) = None -> Goto("get") /\ Says("usage", 0) /\ UNCHANGED hart
              [] strfindchr(line, Space) # None /\ Argument \notin 0 .. NumHarts - 1 ->
                   Goto("get") /\ Says("invalid", Argument) /\ UNCHANGED hart
              [] OTHER -> Goto("check") /\ hart' = Argument /\ UNCHANGED said
       [] OTHER -> Goto("get") /\ Unknown /\ UNCHANGED hart
  /\ UNCHANGED status

\* sbi_hart_get_status(i) for one hart after the other
StatLoop ==
  /\ pc = "stat"
  /\ IF hart < NumHarts - 1 THEN Goto("stat") /\ hart' = hart + 1 ELSE Goto("get") /\ hart' = 0
  /\ UNCHANGED <<said, status>>

CheckStopped ==
  /\ pc = "check"
  /\ IF status[hart] # 1 THEN Goto("get") /\ Says("busy", hart) ELSE Goto("start") /\ UNCHANGED said
  /\ UNCHANGED <<hart, status>>

\* the firmware starts a hart that is stopped
StartHart ==
  /\ pc = "start"
  /\ Goto("get") /\ Says("started", hart)
  /\ status' = [status EXCEPT ![hart] = IF @ = 1 THEN 2 ELSE @]
  /\ UNCHANGED hart

RunUser ==
  /\ editor # "kernel" /\ pc = "run"
  /\ Goto("get")
  /\ IF user_strcmp(line, Help) = 0 THEN Says("help", 0)
     ELSE IF editor = "user" /\ user_strcmp(line, Gev) = 0 THEN Says("gev", 0)
     ELSE Unknown
  /\ UNCHANGED <<hart, status>>

\* what the firmware and the other harts do meanwhile
HartChanges ==
  /\ pc \in {"check", "start"}
  /\ \E h \in 1 .. NumHarts - 1 :
       status[h] \in 1 .. 4 /\ status' = [status EXCEPT ![h] = (@ % 4) + 1]
  /\ UNCHANGED <<editor, edited, pc, esc, keysLeft, line, hart, said, seen, keyed>>

Next == \/ GetChar \/ EscapeFirst \/ EscapeSecond \/ GetEvents \/ GetNextKey
        \/ RunKernel \/ StatLoop \/ CheckStopped \/ StartHart \/ RunUser \/ HartChanges

Spec == Init /\ [][Next]_vars

----------------------------------------------------------------------------
\* The array always has room for the terminator, and the line on the screen is the
\* one in the array, whatever was typed, erased, or refused when it was full
\* (main.c:184-198, console.c:15-57, consolev.c:37-62).
LineShown ==
  /\ at \in 0 .. Size - 1
  /\ plain => screen = [k \in 1 .. at |-> command[k - 1]]

\* What the user reads a line as; a hart is meant by the number behind the first space.
Means(l) ==
  LET words == {k \in DOMAIN l : l[k] = Space}
      n == Number(SubSeq(l, (CHOOSE k \in words : \A j \in words : k <= j) + 1, Len(l)))
      start == editor = "kernel" /\ IsPrefix(Start, l) /\ words # {}
  IN  IF start /\ ~Fits(n) THEN [what : {"busy", "started", "invalid"}, hart : Int]
      ELSE IF start /\ n \in 0 .. NumHarts - 1 THEN [what : {"busy", "started"}, hart : {n}]
      ELSE IF start THEN [what : {"invalid"}, hart : {n}]
      ELSE [hart : {0}, what :
             CASE l = Help -> {"help"}
               [] l = Stat /\ editor = "kernel" -> {"stat"}
               [] l = Gev /\ editor = "user" -> {"gev"}
               [] l = <<>> -> {"nothing"}
               [] editor = "kernel" /\ IsPrefix(Start, l) -> {"usage"}
               [] OTHER -> {"unknown"}]

\* The command that runs is the one on the screen: the answer to enter is that to the
\* line that was shown, and a hart is started only when its number was
\* (main.c:227-279, console.c:64-79, consolev.c:67-77).
ShownIsRun == pc \in {"get", "stat"} /\ seen # NotPlain => said \in Means(seen)

\* Every press of a key gives its character once and in order, with the shift key as
\* it was at that time, however the events were divided among the calls
\* (consolev.c:136-180).
KeysOnce ==
  LET handled == Len(given) - (IF atev < Len(events) THEN Len(events) - atev ELSE 0)
      isShift(k) == given[k].type = "KEY" /\ given[k].code \in Shifts
      isPress(k) == given[k].type = "KEY" /\ ~isShift(k) /\ given[k].value = 1
      held(k) == \E j \in 1 .. k - 1 : /\ isShift(j) /\ given[j].value # 0
                                       /\ \A m \in j + 1 .. k - 1 : ~isShift(m)
      presses == {k \in 1 .. handled : isPress(k)}
      rank(k) == Cardinality({j \in presses : j <= k})
  IN  /\ Len(typed) = Cardinality(presses)
      /\ \A k \in presses : typed[rank(k)] = conv_key(given[k].code, held(k))
=============================================================================
