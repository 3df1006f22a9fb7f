------------------------------ MODULE Library ------------------------------
(***************************************************************************)
(* What the kernel shares between harts: the linked list of pages          *)
(* (NcPage), the semaphore and the barrier of lock.c; its association list *)
(* (MapList); and what reads text: the helpers for strings and memory      *)
(* (StringCalls) and the command lines that use them (Shells).  This       *)
(* module states what they keep.                                           *)
(***************************************************************************)
EXTENDS NcPage, Integers, Sequences

CONSTANTS Procs, Initial,                              \* Semaphore
          Members, Registrar, MaxRounds,               \* Barrier
          Keys, Values,                                \* MapList
          Half, Word,                                  \* Strings
          Texts, Counts, MemSize,                      \* StringCalls
          Editors, LineSize, Lines, KeyBytes, EventKinds, MaxKeys, NumHarts   \* Shells

VARIABLES units, spc,                                  \* Semaphore
          nodes, count, state, reg, bpc, walk, round,  \* Barrier
          list,                                        \* MapList
          call, result,                                \* StringCalls
          editor, command, at, screen, plain, where, esc, keysLeft, line, hart, said,
          seen, status, events, atev, shift, given, typed   \* Shells

\* A string has no NUL inside, and memory is counted in bytes.
StringConstants ==
  /\ Half \in Nat \ {0} /\ Word \in Nat \ {0} /\ MemSize \in Nat
  /\ Texts \subseteq Seq(1 .. 255) /\ Counts \subseteq Nat

\* What has been typed before is to be seen and leaves room for the terminator.
ShellConstants ==
  /\ LineSize \in Nat \ {0} /\ NumHarts \in Nat \ {0}
  /\ \A l \in Lines : l \in Seq(32 .. 126) /\ Len(l) < LineSize

ASSUME LibraryAssumption ==
  /\ StringConstants /\ ShellConstants
  /\ NumPages \in Nat \ {0} /\ Null \notin Pages /\ Nobody \notin Harts
  /\ IsFiniteSet(Procs) /\ Initial \in Nat
  /\ IsFiniteSet(Members) /\ MaxRounds \in Nat \ {0}

\* one hart adds all processes to the barrier
ByOne == [p \in Members |-> Registrar]

Semaphores == INSTANCE Semaphore WITH value <- units, pc <- spc

Barriers == INSTANCE Barrier WITH
  Procs <- Members, Registrars <- {Registrar}, AddedBy <- ByOne,
  head <- nodes, value <- count, pc <- bpc

Maps == INSTANCE MapList

Strs == INSTANCE StringCalls

Shell == INSTANCE Shells WITH
  Size <- LineSize, Keys <- KeyBytes, pc <- where

\* Types; the association list never has two elements with one key, of which map_find
\* could only see the first (map.c:23-37).
TypesOK == Maps!TypeOK /\ Semaphores!TypeOK /\ Barriers!TypeOK /\ TypeOK

\* The association list implements a dictionary, operation by operation:
\* map_add puts, map_remove drops the key asked for and no other, and
\* map_remove_by_value drops one key with the value (map.c:23-85).
MapIsDictionary ==
  /\ Maps!D!Spec
  /\ [][\A k \in Keys, v \in Values :
          /\ Maps!Add(k, v) => Maps!D!Put(k, v)
          /\ Maps!Remove(k) => Maps!D!Drop(k)]_list
  /\ [][\A v \in Values : Maps!RemoveByValue(v) =>
          \E k \in DOMAIN Maps!Found : Maps!Found[k] = v /\ Maps!D!Drop(k)]_list

\* Units of the semaphore are neither made nor lost (lock.c:29-47), and the barrier
\* keeps everybody until all are there (lock.c:67-70).
SynchronisationKept == Semaphores!UnitsConserved /\ Barriers!BarrierMeets

\* The helpers for strings and memory do what their names say, those of the kernel and
\* the user library alike (strhelp.c, memhelp.c, string.c, vfs.c:35-70).
HelpersRight == Strs!HelpersRight

\* The line on the screen is the one in the array, with room for its terminator, and
\* the command that runs is the one that was shown (main.c:174-279, console.c:15-79,
\* consolev.c:37-77).
ShownIsRun == Shell!LineShown /\ Shell!ShownIsRun

\* Every press of a key gives its character once, under the shift key as it was then
\* (consolev.c:136-180).
KeysOnce == Shell!KeysOnce
=============================================================================
