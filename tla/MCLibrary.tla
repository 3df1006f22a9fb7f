----------------------------- MODULE MCLibrary -----------------------------
(***************************************************************************)
(* What the rest is built with: the red-black tree, the association list,  *)
(* the semaphore, the barrier, the linked page list, the helpers for       *)
(* strings and memory, printf, and the command lines that use those.  They *)
(* share no state, so they are not interleaved: the first state says which *)
(* one is at work.                                                         *)
(***************************************************************************)
EXTENDS Library, TLC

CONSTANTS Which,                                       \* who may be at work
          NULL                                         \* RBTree

VARIABLES which, tree,
          job, format, args, reached, va, idx, console, buffer, finished   \* Printf

semaphoreVars == <<units, spc>>
barrierVars   == <<nodes, count, state, reg, bpc, walk, round>>
ncpageVars    == vars
stringVars    == <<call, result>>
shellVars     == <<editor, command, at, screen, plain, where, esc, keysLeft, line, hart,
                   said, seen, status, events, atev, shift, given, typed>>
printVars     == <<job, format, args, reached, va, idx, console, buffer, finished>>
textVars      == <<stringVars, shellVars, printVars>>
libraryVars   == <<which, tree, list, semaphoreVars, barrierVars, ncpageVars, textVars>>

Tree == INSTANCE RBTree

\* short paths, numbers from small to those that no int holds, and strings that are
\* equal for up to six bytes
SomeTexts ==
  UNION {[1 .. n -> {47, 97}] : n \in 0 .. 3} \cup UNION {[1 .. n -> {45, 49, 57}] : n \in 1 .. 3}
  \cup {<<97, 97, 97, 97, x, 97, y>> : x \in {97, 98}, y \in {97, 98}}

SomeCounts == {0, 3, 5, 9}

StartWord == <<115, 116, 97, 114, 116>>

\* nothing, words that are commands and words that nearly are, and starts: without a
\* number, of a hart, of none, of one that an int takes for a hart's, and nearly so
SomeLines ==
  {<<>>, <<104, 101, 108, 112>>, <<104, 101, 108>>, <<115, 116, 97, 116>>, <<103, 101, 118>>,
   StartWord, StartWord \o <<32>>, StartWord \o <<32, 49>>, StartWord \o <<32, 45, 49>>,
   StartWord \o <<32, 53, 49, 51>>, StartWord \o <<97, 32, 49>>,
   StartWord \o <<32, 49, 97, 49, 97, 97>>}

Event(type, code, value) == [type |-> type, code |-> code, value |-> value]

SomeEvents ==
  {Event("KEY", "A", 1), Event("KEY", "A", 0), Event("KEY", "1", 1), Event("KEY", "GAP", 1),
   Event("KEY", "LEFTSHIFT", 1), Event("KEY", "RIGHTSHIFT", 0), Event("KEY", "BACKSPACE", 1),
   Event("KEY", "ENTER", 1), Event("ABS", "A", 1)}

SomeBytes == {112, 49, 32, 13, 8, 27, 91, 65, 255}

Conversion(f, w, p, l, c, n, t) ==
  [flags |-> f, width |-> w, precision |-> p, length |-> l, conversion |-> c, number |-> n,
   text |-> t,
   stars |-> (IF w = <<"*">> THEN <<-4>> ELSE <<>>) \o IF p = <<".", "*">> THEN <<3>> ELSE <<>>]

FlagTexts == {<<>>, <<"0">>, <<"-">>, <<"+">>, <<" ">>, <<"#">>, <<"0", "#">>, <<"-", "0">>,
              <<"0", "+">>}
Widths == {<<>>, <<"3">>, <<"4">>, <<"1", "0">>, <<"1", "1">>, <<"*">>}
Precisions == {<<>>, <<".">>, <<".", "2">>, <<".", "*">>}

\* numbers in every form, with every length; strings shorter and longer than width and
\* precision, into buffers from empty to long enough, between other characters
SomeNumbers ==
  {Conversion(f, w, p, <<>>, c, n, <<>>) :
     f \in FlagTexts, w \in Widths, p \in Precisions, c \in {"d", "u", "x", "o", "b"},
     n \in {0, 5, -3, 90}}
  \cup {Conversion(f, <<"4">>, <<>>, l, c, n, <<>>) :
          f \in {<<>>, <<"0">>}, l \in {<<"h">>, <<"h", "h">>, <<"l">>, <<"l", "l">>, <<"z">>},
          c \in {"d", "X"}, n \in {0, 5, -3, 90}}

SomeStrings ==
  {Conversion(f, w, p, <<>>, "s", 0, t) :
     f \in {<<>>, <<"-">>}, w \in Widths, p \in Precisions,
     t \in {<<>>, <<"a">>, <<"a", "b", "c", "d">>}}
  \cup {Conversion(f, w, <<>>, <<>>, "c", 0, t) :
          f \in {<<>>, <<"-">>}, w \in Widths, t \in {<<"a">>, <<"NUL">>}}
  \cup {Conversion(<<>>, <<>>, <<>>, <<>>, c, 29, <<>>) : c \in {"p", "%", "k"}}

Call(dest, maxlen, pieces) == [dest |-> dest, maxlen |-> maxlen, pieces |-> pieces]

Unlimited == 1000000

SomeCalls ==
  {Call("console", Unlimited, <<p>>) : p \in SomeNumbers \cup SomeStrings}
  \cup {Call("buffer", n, <<[char |-> "~"], p, Conversion(<<>>, <<>>, <<>>, <<>>, "d", 7, <<>>)>>) :
          n \in 0 .. 5, p \in SomeStrings}

Prints == INSTANCE Printf WITH
  Calls <- SomeCalls, CharBits <- 3, ShortBits <- 5, IntBits <- 8, LongBits <- 12,
  PtrBytes <- 2, NtoaSize <- 10, BufferSize <- 13, at <- reached

\* the states of the harts only matter to the kernel's commands; the third command
\* line is tried with an empty array and with a full one
MCInit ==
  /\ which \in Which
  /\ Tree!Init /\ Maps!Init /\ Semaphores!Init /\ Barriers!Init /\ Init
  /\ IF which = "strings" THEN Strs!Init ELSE Strs!InitWith(<<>>)
  /\ IF which = "printf" THEN Prints!Init
     ELSE Prints!InitWith(Call("console", Unlimited, <<>>))
  /\ IF which = "shells"
     THEN \E e \in Editors, l \in SomeLines, s \in {0, 1, 3} :
            /\ e = "kernel" \/ s = 1
            /\ e = "events" => Len(l) \in {0, 11}
            /\ Shell!InitWith(e, l, s)
     ELSE Shell!InitWith("kernel", <<>>, 1)

TreeRuns == /\ which = "tree" /\ Tree!Next
            /\ UNCHANGED <<which, list, semaphoreVars, barrierVars, ncpageVars, textVars>>

MapRuns == /\ which = "map" /\ Maps!Next
           /\ UNCHANGED <<which, tree, semaphoreVars, barrierVars, ncpageVars, textVars>>

SemaphoreRuns == /\ which = "semaphore" /\ Semaphores!Next
                 /\ UNCHANGED <<which, tree, list, barrierVars, ncpageVars, textVars>>

BarrierRuns == /\ which = "barrier" /\ Barriers!Next
               /\ UNCHANGED <<which, tree, list, semaphoreVars, ncpageVars, textVars>>

NcPageRuns == /\ which = "ncpage" /\ Next
              /\ UNCHANGED <<which, tree, list, semaphoreVars, barrierVars, textVars>>

StringsRun == /\ which = "strings" /\ Strs!Next
              /\ UNCHANGED <<which, tree, list, semaphoreVars, barrierVars, ncpageVars,
                                shellVars, printVars>>

ShellsRun == /\ which = "shells" /\ Shell!Next
             /\ UNCHANGED <<which, tree, list, semaphoreVars, barrierVars, ncpageVars,
                                stringVars, printVars>>

PrintfRuns == /\ which = "printf" /\ Prints!Next
              /\ UNCHANGED <<which, tree, list, semaphoreVars, barrierVars, ncpageVars,
                             stringVars, shellVars>>

MCNext == \/ TreeRuns \/ MapRuns \/ SemaphoreRuns \/ BarrierRuns \/ NcPageRuns
          \/ StringsRun \/ ShellsRun \/ PrintfRuns

\* the fairness of Barrier!FairSpec, when the barrier is at work
MCSpec ==
  /\ MCInit /\ [][MCNext]_libraryVars
  /\ WF_libraryVars(BarrierRuns /\ Barriers!Register(Registrar))
  /\ \A p \in Members : WF_libraryVars(BarrierRuns /\ Barriers!Meet(p))

\* the tree as the scheduler uses it
SchedulerRuns == /\ which = "tree" /\ Tree!Schedule
                 /\ UNCHANGED <<which, list, semaphoreVars, barrierVars, ncpageVars, textVars>>

MCSchedule == MCInit /\ [][SchedulerRuns]_libraryVars

\* Both containers implement a dictionary, and the tree stays a search tree
\* (rbtree.c:185-296, map.c:23-85).
Dictionaries ==
  [](Tree!TypeOK /\ Tree!SearchTree) /\ Tree!TreeIsDictionary /\ MapIsDictionary

\* Everybody who comes to the wall passes it (lock.c:67-70).
EverybodyPasses == which = "barrier" => Barriers!EverybodyPasses

\* printf and snprintf give what C says, within the size (printf.c:639-1021).
FormattedRight == which = "printf" => Prints!FormattedRight

\* The tree is a red-black tree (rbtree.c:5), and no rotation follows NULL.
IsRedBlackTree == Tree!IsRedBlackTree
=============================================================================
