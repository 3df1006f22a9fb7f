------------------------------ MODULE MmuProofs ------------------------------
(***************************************************************************)
(* Proofs about Mmu for every number of harts, spaces, pages, indices and  *)
(* addresses.                                                              *)
(***************************************************************************)
EXTENDS Mmu, TLAPS

\* The tables of the three levels: a root is of level 2, each other table hangs in
\* one entry of a table of the level above, and only tables of level 0 hold leaves.
Layered(lev) ==
  /\ \A s \in Spaces : root[s] # None => root[s] \in Used /\ lev[root[s]] = 2
  /\ \A s, r \in Spaces : root[s] # None /\ root[s] = root[r] => s = r
  /\ \A t \in Used : lev[t] = 2 => \E s \in Spaces : root[s] = t
  /\ \A t \in Used : lev[t] # 2 => \E u \in Used, i \in Index : entry[u][i] = t
  /\ \A t \in Used, i \in Index :
       /\ lev[t] = 0 => entry[t][i] \in Leaves \cup {None}
       /\ lev[t] # 0 => entry[t][i] \in Frames \cup {Null, None}
       /\ entry[t][i] \in Frames => entry[t][i] \in Used /\ lev[t] = lev[entry[t][i]] + 1
  /\ \A t, u \in Used, i, j \in Index :
       entry[t][i] \in Frames /\ entry[t][i] = entry[u][j] => t = u /\ i = j

ThreeLevels == \E lev \in [Frames -> 0 .. 2] : Layered(lev)

\* The table on each path, as one function.
Path == [s \in Spaces |-> [v \in VPages |-> [l \in 0 .. 2 |-> TableAt(s, v, l)]]]

\* Who has which arguments, and the lock.
CallInOrder(h) ==
  /\ at[h] = "idle" => job[h] = Idle
  /\ at[h] # "idle" => /\ job[h].space \in Spaces /\ job[h].v \in VPages
                       /\ root[job[h].space] # None
                       /\ job[h].table \in Frames \cup {Null}
  /\ at[h] \in {"look", "make", "leaf"} => lock = h /\ job[h].leaf \in Leaves
  /\ at[h] \in {"look", "make"} => job[h].level \in {1, 2}
  /\ at[h] = "leaf" => job[h].level = 0
  /\ at[h] = "make" => job[h].table # Null /\ Entry(h) = None

CallsInOrder == \A h \in Harts : CallInOrder(h)

OnPath ==
  \A h \in Harts :
    at[h] # "idle" => job[h].table = Path[job[h].space][job[h].v][job[h].level]

MmuInv == TypeOK /\ ThreeLevels /\ CallsInOrder /\ OnPath

----------------------------------------------------------------------------
(* Paths *)

LEMMA PathSteps ==
  \A s \in Spaces, v \in VPages :
    /\ Path[s][v][2] = root[s]
    /\ Path[s][v][1] = IF root[s] \in Frames /\ IsBranch(entry[root[s]][v[2]])
                       THEN entry[root[s]][v[2]] ELSE None
    /\ Path[s][v][0] = IF Path[s][v][1] \in Frames /\ IsBranch(entry[Path[s][v][1]][v[1]])
                       THEN entry[Path[s][v][1]][v[1]] ELSE None
BY DEF Path, TableAt

LEMMA PathBelow ==
  ASSUME NEW s \in Spaces, NEW v \in VPages, NEW l \in {1, 2},
         Path[s][v][l] \in Frames, IsBranch(entry[Path[s][v][l]][v[l]])
  PROVE  Path[s][v][l - 1] = entry[Path[s][v][l]][v[l]]
<1>1. CASE l = 2
  BY <1>1, PathSteps
<1>2. CASE l = 1
  BY <1>2, PathSteps
<1> QED
  BY <1>1, <1>2

\* A path leads through tables in use, each of its level.
LEMMA PathLevels ==
  ASSUME MmuConstants, TypeOK, NEW lev \in [Frames -> 0 .. 2], Layered(lev),
         NEW s \in Spaces, NEW v \in VPages, NEW l \in 0 .. 2
  PROVE  /\ Path[s][v][l] \in Frames \cup {Null, None}
         /\ Path[s][v][l] \in Frames => Path[s][v][l] \in Used /\ lev[Path[s][v][l]] = l
<1>1. v \in [0 .. 2 -> Index]
  BY DEF MmuConstants
<1>2. /\ Path[s][v][2] \in Frames \cup {Null, None}
      /\ Path[s][v][2] \in Frames => Path[s][v][2] \in Used /\ lev[Path[s][v][2]] = 2
  BY PathSteps DEF MmuConstants, TypeOK, Layered
<1>3. /\ Path[s][v][1] \in Frames \cup {Null, None}
      /\ Path[s][v][1] \in Frames => Path[s][v][1] \in Used /\ lev[Path[s][v][1]] = 1
  <2>1. CASE root[s] \in Frames /\ IsBranch(entry[root[s]][v[2]])
    <3>1. root[s] \in Used /\ lev[root[s]] = 2 /\ v[2] \in Index
      BY <1>1, <2>1 DEF Layered, MmuConstants
    <3>2. Path[s][v][1] = entry[root[s]][v[2]]
      BY <2>1, PathSteps
    <3> QED
      BY <2>1, <3>1, <3>2 DEF Layered, IsBranch, Used
  <2>2. CASE ~(root[s] \in Frames /\ IsBranch(entry[root[s]][v[2]]))
    BY <2>2, PathSteps DEF MmuConstants
  <2> QED
    BY <2>1, <2>2
<1>4. /\ Path[s][v][0] \in Frames \cup {Null, None}
      /\ Path[s][v][0] \in Frames => Path[s][v][0] \in Used /\ lev[Path[s][v][0]] = 0
  <2>1. CASE Path[s][v][1] \in Frames /\ IsBranch(entry[Path[s][v][1]][v[1]])
    <3>1. v[1] \in Index /\ Path[s][v][0] = entry[Path[s][v][1]][v[1]]
      BY <1>1, <2>1, PathSteps
    <3> QED
      BY <1>3, <2>1, <3>1 DEF Layered, IsBranch, Used
  <2>2. CASE ~(Path[s][v][1] \in Frames /\ IsBranch(entry[Path[s][v][1]][v[1]]))
    BY <2>2, PathSteps DEF MmuConstants
  <2> QED
    BY <2>1, <2>2
<1> QED
  BY <1>2, <1>3, <1>4

\* No two addresses have a path to the same table, unless they share the way.
LEMMA PathsApart ==
  ASSUME MmuConstants, TypeOK, NEW lev \in [Frames -> 0 .. 2], Layered(lev),
         NEW s \in Spaces, NEW v \in VPages, NEW r \in Spaces, NEW w \in VPages,
         Path[s][v][0] \in Frames, Path[s][v][0] = Path[r][w][0]
  PROVE  s = r /\ v[1] = w[1] /\ v[2] = w[2]
<1>1. v \in [0 .. 2 -> Index] /\ w \in [0 .. 2 -> Index]
  BY DEF MmuConstants
<1>2. /\ Path[s][v][1] \in Frames /\ Path[r][w][1] \in Frames
      /\ entry[Path[s][v][1]][v[1]] = entry[Path[r][w][1]][w[1]]
      /\ entry[Path[s][v][1]][v[1]] \in Frames
  BY PathSteps DEF MmuConstants
<1>3. Path[s][v][1] = Path[r][w][1] /\ v[1] = w[1]
  <2>1. Path[s][v][1] \in Used /\ Path[r][w][1] \in Used
    BY <1>2, PathLevels
  <2> QED
    BY <1>1, <1>2, <2>1 DEF Layered
<1>4. /\ root[s] \in Frames /\ root[r] \in Frames
      /\ entry[root[s]][v[2]] = entry[root[r]][w[2]]
      /\ entry[root[s]][v[2]] \in Frames
  BY <1>2, <1>3, PathSteps DEF MmuConstants
<1>5. root[s] = root[r] /\ v[2] = w[2]
  BY <1>1, <1>4 DEF Layered, MmuConstants
<1> QED
  BY <1>3, <1>4, <1>5 DEF Layered, MmuConstants

----------------------------------------------------------------------------
(* Calls *)

\* The table that a call is at, and its entry, are what the level says.
LEMMA Standing ==
  ASSUME MmuConstants, MmuInv, NEW h \in Harts, at[h] # "idle",
         job[h].table # Null
  PROVE  /\ job[h].space \in Spaces /\ job[h].v \in VPages /\ job[h].level \in 0 .. 2
         /\ job[h].table \in Used /\ Slot(h) \in Index
         /\ job[h].level = 0 => Entry(h) \in Leaves \cup {None}
         /\ job[h].level # 0 => Entry(h) \in Frames \cup {Null, None}
         /\ \A lev \in [Frames -> 0 .. 2] : Layered(lev) => lev[job[h].table] = job[h].level
<1>1. job[h].space \in Spaces /\ job[h].v \in VPages /\ job[h].level \in 0 .. 2
      /\ job[h].table \in Frames
  BY DEF MmuInv, TypeOK, CallsInOrder, CallInOrder
<1>2. Slot(h) \in Index
  BY <1>1 DEF Slot, MmuConstants
<1>3. job[h].table = Path[job[h].space][job[h].v][job[h].level]
  BY DEF MmuInv, OnPath
<1>4. ASSUME NEW lev \in [Frames -> 0 .. 2], Layered(lev)
      PROVE  job[h].table \in Used /\ lev[job[h].table] = job[h].level
  BY <1>1, <1>3, <1>4, PathLevels DEF MmuInv
<1>5. PICK lev \in [Frames -> 0 .. 2] : Layered(lev)
  BY DEF MmuInv, ThreeLevels
<1>6. job[h].table \in Used /\ lev[job[h].table] = job[h].level
  BY <1>4, <1>5
<1>7. /\ job[h].level = 0 => Entry(h) \in Leaves \cup {None}
      /\ job[h].level # 0 => Entry(h) \in Frames \cup {Null, None}
  BY <1>2, <1>5, <1>6 DEF Layered, Entry
<1> QED
  BY <1>1, <1>2, <1>4, <1>6, <1>7

\* A branch is not of the last level, and leads to the next table of the path.
LEMMA Below ==
  ASSUME MmuConstants, MmuInv, NEW h \in Harts, at[h] # "idle",
         job[h].table # Null, IsBranch(Entry(h))
  PROVE  /\ job[h].level \in {1, 2}
         /\ Path[job[h].space][job[h].v][job[h].level - 1] = Entry(h)
<1>1. /\ job[h].space \in Spaces /\ job[h].v \in VPages /\ job[h].level \in 0 .. 2
      /\ job[h].table \in Frames
      /\ job[h].level = 0 => Entry(h) \in Leaves \cup {None}
  BY Standing DEF Used
<1>2. job[h].level \in {1, 2}
  BY <1>1 DEF IsBranch, MmuConstants
<1>3. job[h].table = Path[job[h].space][job[h].v][job[h].level]
  BY DEF MmuInv, OnPath
<1>4. PICK s \in Spaces, v \in VPages, l \in {1, 2} :
        s = job[h].space /\ v = job[h].v /\ l = job[h].level
  BY <1>1, <1>2
<1>5. Path[s][v][l] \in Frames /\ Entry(h) = entry[Path[s][v][l]][v[l]]
  BY <1>1, <1>3, <1>4 DEF Entry, Slot
<1>6. Path[s][v][l - 1] = Entry(h)
  BY <1>5, PathBelow
<1> QED
  BY <1>2, <1>4, <1>6

----------------------------------------------------------------------------
(* Paths from a state to the next *)

\* The same as PathSteps, of the next state.
LEMMA PathStepsNext ==
  \A s \in Spaces, v \in VPages :
    /\ Path'[s][v][2] = root'[s]
    /\ Path'[s][v][1] = IF root'[s] \in Frames /\ IsBranch(entry'[root'[s]][v[2]])
                        THEN entry'[root'[s]][v[2]] ELSE None
    /\ Path'[s][v][0] = IF Path'[s][v][1] \in Frames /\ IsBranch(entry'[Path'[s][v][1]][v[1]])
                        THEN entry'[Path'[s][v][1]][v[1]] ELSE None
BY DEF Path, TableAt, IsBranch

\* No branch on the path from s to v is changed.
Kept(s, v) ==
  /\ root'[s] = root[s]
  /\ \A l \in {1, 2} : LET t == Path[s][v][l]
                     IN  t \in Frames /\ IsBranch(entry[t][v[l]])
                           => entry'[t][v[l]] = entry[t][v[l]]

\* Then the path may grow, but not change.
LEMMA PathGrows ==
  ASSUME MmuConstants, NEW s \in Spaces, NEW v \in VPages, NEW l \in 0 .. 2,
         Kept(s, v), Path[s][v][l] # None
  PROVE  Path'[s][v][l] = Path[s][v][l]
<1>1. Path'[s][v][2] = Path[s][v][2]
  BY PathSteps, PathStepsNext DEF Kept
<1>2. Path[s][v][1] # None => Path'[s][v][1] = Path[s][v][1]
  BY <1>1, PathSteps, PathStepsNext DEF Kept
<1>3. Path[s][v][0] # None => Path'[s][v][0] = Path[s][v][0]
  BY <1>2, PathSteps, PathStepsNext DEF Kept, MmuConstants
<1> QED
  BY <1>1, <1>2, <1>3

\* What keeps every branch of the tables in use keeps the paths.
LEMMA BranchesKept ==
  ASSUME MmuConstants, MmuInv,
         \A t \in Used, i \in Index : IsBranch(entry[t][i]) => entry'[t][i] = entry[t][i],
         NEW s \in Spaces, NEW v \in VPages, root'[s] = root[s]
  PROVE  Kept(s, v)
<1>1. PICK lev \in [Frames -> 0 .. 2] : Layered(lev)
  BY DEF MmuInv, ThreeLevels
<1>2. \A l \in 0 .. 2 : Path[s][v][l] \in Frames => Path[s][v][l] \in Used
  BY <1>1, PathLevels DEF MmuInv
<1> QED
  BY <1>2 DEF Kept, MmuConstants

\* A call stays on its path when the path is kept.
LEMMA CallOnPath ==
  ASSUME MmuConstants, MmuInv, NEW h \in Harts, at[h] # "idle",
         Kept(job[h].space, job[h].v)
  PROVE  job[h].table = Path'[job[h].space][job[h].v][job[h].level]
<1>1. /\ job[h].space \in Spaces /\ job[h].v \in VPages /\ job[h].level \in 0 .. 2
      /\ job[h].table \in Frames \cup {Null}
  BY DEF MmuInv, TypeOK, CallsInOrder, CallInOrder
<1>2. job[h].table = Path[job[h].space][job[h].v][job[h].level]
  BY DEF MmuInv, OnPath
<1> QED
  BY <1>1, <1>2, PathGrows DEF MmuConstants

----------------------------------------------------------------------------
(* The steps *)

\* A step that leaves the tables alone leaves their levels and the paths alone.
LEMMA TablesAlone ==
  ASSUME MmuInv, UNCHANGED <<entry, free, root>>
  PROVE  ThreeLevels' /\ Path' = Path
BY DEF MmuInv, ThreeLevels, Layered, Used, Path, TableAt, IsBranch

\* A call that the step does not touch stays in order.
LEMMA OtherCall ==
  ASSUME MmuInv, NEW g \in Harts, at'[g] = at[g], job'[g] = job[g],
         at[g] \in {"look", "make", "leaf"} => lock' = lock,
         at[g] # "idle" => root'[job[g].space] = root[job[g].space],
         at[g] = "make" => entry'[job[g].table][Slot(g)] = entry[job[g].table][Slot(g)]
  PROVE  CallInOrder(g)'
BY DEF MmuInv, CallsInOrder, CallInOrder, Entry, Slot

LEMMA MapStartKeeps ==
  ASSUME MmuConstants, MmuInv, NEW h \in Harts, NEW s \in Spaces, NEW v \in VPages,
         NEW l \in Leaves, MapStart(h, s, v, l)
  PROVE  MmuInv'
<1> USE DEF MapStart, Goto, TakeLock
<1>1. /\ ThreeLevels' /\ Path' = Path
      /\ job' = [job EXCEPT ![h] =
           [space |-> s, v |-> v, leaf |-> l, table |-> root[s], level |-> 2]]
      /\ at' = [at EXCEPT ![h] = "look"] /\ at[h] = "idle"
      /\ root[s] \in Frames
  <2>1. ThreeLevels' /\ Path' = Path
    BY TablesAlone
  <2> QED
    BY <2>1 DEF MmuInv, TypeOK
<1>2. TypeOK'
  BY <1>1 DEF MmuInv, TypeOK
<1>3. CallsInOrder'
  <2>1. CallInOrder(h)'
    BY <1>1, <1>2 DEF MmuInv, TypeOK, CallsInOrder, CallInOrder, Entry, Slot, MmuConstants
  <2>2. ASSUME NEW g \in Harts, g # h
        PROVE  CallInOrder(g)'
    <3>1. at'[g] = at[g] /\ job'[g] = job[g]
      BY <1>1, <1>2, <2>2 DEF MmuInv, TypeOK
    <3>2. at[g] \in {"look", "make", "leaf"} => lock' = lock
      BY <1>1, <1>2, <2>2 DEF MmuInv, CallsInOrder, CallInOrder, MmuConstants
    <3> QED
      BY <3>1, <3>2, OtherCall
  <2> QED
    BY <2>1, <2>2 DEF CallsInOrder
<1>4. OnPath'
  BY <1>1, PathSteps DEF MmuInv, TypeOK, OnPath
<1> QED
  BY <1>1, <1>2, <1>3, <1>4 DEF MmuInv

LEMMA MapDescendKeeps ==
  ASSUME MmuConstants, MmuInv, NEW h \in Harts, MapDescend(h)
  PROVE  MmuInv'
<1> USE DEF MapDescend, Goto
<1>1. /\ ThreeLevels' /\ Path' = Path
      /\ at[h] = "look" /\ at' = [at EXCEPT ![h] = After(job[h].level)]
      /\ job' = [job EXCEPT ![h].table = Entry(h), ![h].level = @ - 1]
  BY TablesAlone DEF Descend
<1>2. /\ job[h].level \in {1, 2} /\ lock = h /\ Entry(h) \in Frames \cup {Null}
      /\ IsBranch(Entry(h))
  BY <1>1, Standing DEF MmuInv, CallsInOrder, CallInOrder, Missing, IsBranch
<1>3. TypeOK'
  BY <1>1, <1>2 DEF MmuInv, TypeOK, After
<1>4. CallsInOrder'
  <2>1. CallInOrder(h)'
    <3>1. /\ job'[h].space = job[h].space /\ job'[h].v = job[h].v /\ job'[h].leaf = job[h].leaf
          /\ job'[h].table = Entry(h) /\ job'[h].level = job[h].level - 1
      BY <1>1 DEF MmuInv, TypeOK
    <3> QED
      BY <1>1, <1>2, <3>1 DEF MmuInv, TypeOK, CallsInOrder, CallInOrder, After
  <2>2. ASSUME NEW g \in Harts, g # h
        PROVE  CallInOrder(g)'
    <3>1. at'[g] = at[g] /\ job'[g] = job[g]
      BY <1>1, <1>2, <1>3, <2>2 DEF MmuInv, TypeOK
    <3>2. at[g] \in {"look", "make", "leaf"} => lock' = lock
      BY <1>1, <1>2, <1>3, <2>2 DEF MmuInv, CallsInOrder, CallInOrder, MmuConstants
    <3> QED
      BY <3>1, <3>2, OtherCall
  <2> QED
    BY <2>1, <2>2 DEF CallsInOrder
<1>5. OnPath'
  <2>1. Path[job[h].space][job[h].v][job[h].level - 1] = Entry(h)
    BY <1>1, <1>2, Below
  <2> QED
    BY <1>1, <2>1 DEF MmuInv, TypeOK, OnPath
<1> QED
  BY <1>1, <1>3, <1>4, <1>5 DEF MmuInv

LEMMA MapMissingKeeps ==
  ASSUME MmuConstants, MmuInv, NEW h \in Harts, MapMissing(h)
  PROVE  MmuInv'
<1> USE DEF MapMissing, Goto
<1>1. ThreeLevels' /\ Path' = Path
  BY TablesAlone
<1>2. TypeOK'
  BY DEF MmuInv, TypeOK
<1>3. CallsInOrder'
  <2>1. CallInOrder(h)'
    BY <1>2 DEF MmuInv, TypeOK, CallsInOrder, CallInOrder, Entry, Slot, Missing
  <2>2. ASSUME NEW g \in Harts, g # h
        PROVE  CallInOrder(g)'
    <3>1. at'[g] = at[g] /\ job'[g] = job[g]
      BY <1>2, <2>2 DEF MmuInv, TypeOK
    <3>2. at[g] \in {"look", "make", "leaf"} => lock' = lock
      BY <1>2, <2>2 DEF MmuInv, CallsInOrder, CallInOrder, MmuConstants
    <3> QED
      BY <3>1, <3>2, OtherCall
  <2> QED
    BY <2>1, <2>2 DEF CallsInOrder
<1>4. OnPath'
  BY <1>1 DEF MmuInv, TypeOK, OnPath
<1> QED
  BY <1>1, <1>2, <1>3, <1>4 DEF MmuInv

LEMMA ReadStartKeeps ==
  ASSUME MmuConstants, MmuInv, NEW h \in Harts, NEW s \in Spaces, NEW v \in VPages,
         ReadStart(h, s, v)
  PROVE  MmuInv'
<1> USE DEF ReadStart, Goto
<1>1. /\ ThreeLevels' /\ Path' = Path
      /\ at' = [at EXCEPT ![h] = "read"] /\ at[h] = "idle" /\ root[s] \in Frames
  <2>1. ThreeLevels' /\ Path' = Path
    BY TablesAlone
  <2> QED
    BY <2>1 DEF MmuInv, TypeOK
<1>2. /\ TypeOK'
      /\ job'[h].space = s /\ job'[h].v = v /\ job'[h].table = root[s] /\ job'[h].level = 2
      /\ \A g \in Harts \ {h} : job'[g] = job[g]
  <2> DEFINE Call == [space : Spaces \cup {None}, v : VPages \cup {None},
                      leaf : Leaves \cup {None},
                      table : Frames \cup {Null, None}, level : 0 .. 2]
             call == [Idle EXCEPT !.space = s, !.v = v, !.table = root[s]]
  <2>1. Idle \in Call /\ Idle.level = 2
    BY DEF Idle
  <2> HIDE DEF Call
  <2>2. call.space = s /\ call.v = v /\ call.table = root[s] /\ call.level = 2
    BY <2>1 DEF Call
  <2>3. call \in Call
    BY <1>1, <2>1 DEF Call
  <2>4. job' = [job EXCEPT ![h] = call]
    OBVIOUS
  <2> HIDE DEF call
  <2>5. job \in [Harts -> Call]
    BY DEF MmuInv, TypeOK, Call
  <2>6. job' \in [Harts -> Call]
    BY <2>3, <2>4, <2>5
  <2>7. TypeOK'
    BY <1>1, <2>6 DEF MmuInv, TypeOK, Call
  <2>8. job'[h] = call /\ \A g \in Harts \ {h} : job'[g] = job[g]
    BY <2>4, <2>5
  <2> QED
    BY <2>2, <2>7, <2>8
<1>3. CallsInOrder'
  <2>1. CallInOrder(h)'
    BY <1>1, <1>2 DEF MmuInv, TypeOK, CallsInOrder, CallInOrder, Entry, Slot, MmuConstants
  <2>2. ASSUME NEW g \in Harts, g # h
        PROVE  CallInOrder(g)'
    <3>1. at'[g] = at[g] /\ job'[g] = job[g]
      BY <1>1, <1>2, <2>2 DEF MmuInv, TypeOK
    <3>2. at[g] \in {"look", "make", "leaf"} => lock' = lock
      BY <1>1, <1>2, <2>2 DEF MmuInv, CallsInOrder, CallInOrder, MmuConstants
    <3> QED
      BY <3>1, <3>2, OtherCall
  <2> QED
    BY <2>1, <2>2 DEF CallsInOrder
<1>4. OnPath'
  BY <1>1, <1>2, PathSteps DEF MmuInv, TypeOK, OnPath
<1> QED
  BY <1>1, <1>2, <1>3, <1>4 DEF MmuInv

LEMMA ReadDescendKeeps ==
  ASSUME MmuConstants, MmuInv, NEW h \in Harts, ReadDescend(h)
  PROVE  MmuInv'
<1> USE DEF ReadDescend
<1>1. /\ ThreeLevels' /\ Path' = Path
      /\ at[h] = "read" /\ at' = at
      /\ job' = [job EXCEPT ![h].table = Entry(h), ![h].level = @ - 1]
  BY TablesAlone DEF Descend
<1>2. /\ job[h].level \in {1, 2} /\ Entry(h) \in Frames \cup {Null}
      /\ Path[job[h].space][job[h].v][job[h].level - 1] = Entry(h)
  BY <1>1, Below DEF IsBranch
<1>3. TypeOK'
  BY <1>1, <1>2 DEF MmuInv, TypeOK
<1>4. CallsInOrder'
  <2>1. CallInOrder(h)'
    <3>1. /\ job'[h].space = job[h].space /\ job'[h].v = job[h].v /\ job'[h].leaf = job[h].leaf
          /\ job'[h].table = Entry(h) /\ job'[h].level = job[h].level - 1
      BY <1>1 DEF MmuInv, TypeOK
    <3> QED
      BY <1>1, <1>2, <3>1 DEF MmuInv, TypeOK, CallsInOrder, CallInOrder
  <2>2. ASSUME NEW g \in Harts, g # h
        PROVE  CallInOrder(g)'
    <3>1. at'[g] = at[g] /\ job'[g] = job[g]
      BY <1>1, <1>2, <1>3, <2>2 DEF MmuInv, TypeOK
    <3>2. at[g] \in {"look", "make", "leaf"} => lock' = lock
      BY <1>1, <1>2, <1>3, <2>2 DEF MmuInv, CallsInOrder, CallInOrder, MmuConstants
    <3> QED
      BY <3>1, <3>2, OtherCall
  <2> QED
    BY <2>1, <2>2 DEF CallsInOrder
<1>5. OnPath'
  BY <1>1, <1>2 DEF MmuInv, TypeOK, OnPath
<1> QED
  BY <1>1, <1>3, <1>4, <1>5 DEF MmuInv

LEMMA ReadEndKeeps ==
  ASSUME MmuConstants, MmuInv, NEW h \in Harts, ReadEnd(h)
  PROVE  MmuInv'
<1> USE DEF ReadEnd, Goto
<1>1. ThreeLevels' /\ Path' = Path
  BY TablesAlone
<1>2. TypeOK'
  BY DEF MmuInv, TypeOK, Idle
<1>3. CallsInOrder'
  <2>1. CallInOrder(h)'
    BY <1>2 DEF MmuInv, TypeOK, CallsInOrder, CallInOrder, Entry, Slot
  <2>2. ASSUME NEW g \in Harts, g # h
        PROVE  CallInOrder(g)'
    <3>1. at'[g] = at[g] /\ job'[g] = job[g]
      BY <1>2, <2>2 DEF MmuInv, TypeOK
    <3>2. at[g] \in {"look", "make", "leaf"} => lock' = lock
      BY <1>2, <2>2 DEF MmuInv, CallsInOrder, CallInOrder, MmuConstants
    <3> QED
      BY <3>1, <3>2, OtherCall
  <2> QED
    BY <2>1, <2>2 DEF CallsInOrder
<1>4. OnPath'
  BY <1>1 DEF MmuInv, TypeOK, OnPath
<1> QED
  BY <1>1, <1>2, <1>3, <1>4 DEF MmuInv

LEMMA NullFaultKeeps ==
  ASSUME MmuConstants, MmuInv, NEW h \in Harts, NullFault(h)
  PROVE  MmuInv'
<1> USE DEF NullFault
<1>1. ThreeLevels' /\ Path' = Path
  BY TablesAlone
<1>2. TypeOK'
  BY DEF MmuInv, TypeOK
<1>3. CallsInOrder'
  <2>1. CallInOrder(h)'
    BY <1>2 DEF MmuInv, TypeOK, CallsInOrder, CallInOrder, Entry, Slot
  <2>2. ASSUME NEW g \in Harts, g # h
        PROVE  CallInOrder(g)'
    <3>1. at'[g] = at[g] /\ job'[g] = job[g]
      BY <1>2, <2>2 DEF MmuInv, TypeOK
    <3>2. at[g] \in {"look", "make", "leaf"} => lock' = lock
      BY <1>2, <2>2 DEF MmuInv, CallsInOrder, CallInOrder, MmuConstants
    <3> QED
      BY <3>1, <3>2, OtherCall
  <2> QED
    BY <2>1, <2>2 DEF CallsInOrder
<1>4. OnPath'
  BY <1>1 DEF MmuInv, TypeOK, OnPath
<1> QED
  BY <1>1, <1>2, <1>3, <1>4 DEF MmuInv

LEMMA NewSpaceKeeps ==
  ASSUME MmuConstants, MmuInv, NEW s \in Spaces, NewSpace(s)
  PROVE  MmuInv'
<1>1. PICK p \in free : /\ root' = [root EXCEPT ![s] = p]
                        /\ free' = free \ {p}
                        /\ entry' = [entry EXCEPT ![p] = ZeroPage]
  BY DEF NewSpace
<1>2. root[s] = None /\ lock' = lock /\ at' = at /\ job' = job
  BY DEF NewSpace
<1>3. p \in Frames /\ p \notin Used /\ Used' = Used \cup {p}
  BY <1>1 DEF MmuInv, TypeOK, Used
<1>4. /\ root'[s] = p /\ \A r \in Spaces \ {s} : root'[r] = root[r]
      /\ \A i \in Index : entry'[p][i] = None
      /\ \A t \in Used : entry'[t] = entry[t]
  BY <1>1, <1>3 DEF MmuInv, TypeOK, Used, ZeroPage
<1>5. TypeOK'
  BY <1>1, <1>2, <1>3 DEF MmuInv, TypeOK, ZeroPage
<1>6. ThreeLevels'
  <2>1. PICK lev \in [Frames -> 0 .. 2] : Layered(lev)
    BY DEF MmuInv, ThreeLevels
  <2> DEFINE new == [lev EXCEPT ![p] = 2]
  <2>2. new \in [Frames -> 0 .. 2] /\ new[p] = 2 /\ \A t \in Used : new[t] = lev[t]
    BY <1>3 DEF Used
  <2> HIDE DEF new
  <2>3. \A r \in Spaces : root'[r] # None => root'[r] \in Used' /\ new[root'[r]] = 2
    BY <1>3, <1>4, <2>1, <2>2 DEF Layered
  <2>4. \A r, q \in Spaces : root'[r] # None /\ root'[r] = root'[q] => r = q
    BY <1>2, <1>3, <1>4, <2>1 DEF Layered
  <2>5. \A t \in Used' : new[t] = 2 => \E r \in Spaces : root'[r] = t
    BY <1>2, <1>3, <1>4, <2>1, <2>2 DEF Layered, Used, MmuConstants
  <2>6. \A t \in Used' : new[t] # 2 => \E u \in Used', i \in Index : entry'[u][i] = t
    BY <1>3, <1>4, <2>1, <2>2 DEF Layered
  <2>7. \A t \in Used', i \in Index :
          /\ new[t] = 0 => entry'[t][i] \in Leaves \cup {None}
          /\ new[t] # 0 => entry'[t][i] \in Frames \cup {Null, None}
          /\ entry'[t][i] \in Frames => entry'[t][i] \in Used' /\ new[t] = new[entry'[t][i]] + 1
    BY <1>3, <1>4, <2>1, <2>2 DEF Layered, MmuConstants
  <2>8. \A t, u \in Used', i, j \in Index :
          entry'[t][i] \in Frames /\ entry'[t][i] = entry'[u][j] => t = u /\ i = j
    BY <1>3, <1>4, <2>1 DEF Layered, MmuConstants
  <2>9. Layered(new)'
    BY <2>3, <2>4, <2>5, <2>6, <2>7, <2>8 DEF Layered
  <2> QED
    BY <2>2, <2>9 DEF ThreeLevels
<1>7. CallsInOrder'
  <2>1. ASSUME NEW g \in Harts
        PROVE  CallInOrder(g)'
    <3>1. at[g] # "idle" => root'[job[g].space] = root[job[g].space]
      BY <1>2, <1>4 DEF MmuInv, CallsInOrder, CallInOrder
    <3>2. ASSUME at[g] = "make"
          PROVE  entry'[job[g].table][Slot(g)] = entry[job[g].table][Slot(g)]
      <4>1. job[g].table \in Used
        BY <3>2, Standing DEF MmuInv, CallsInOrder, CallInOrder
      <4> QED
        BY <1>4, <4>1
    <3> QED
      BY <1>2, <3>1, <3>2, OtherCall
  <2> QED
    BY <2>1 DEF CallsInOrder
<1>8. OnPath'
  <2>1. ASSUME NEW g \in Harts, at[g] # "idle"
        PROVE  job[g].table = Path'[job[g].space][job[g].v][job[g].level]
    <3>1. /\ root'[job[g].space] = root[job[g].space]
          /\ job[g].space \in Spaces /\ job[g].v \in VPages
      BY <1>2, <1>4, <2>1 DEF MmuInv, CallsInOrder, CallInOrder
    <3>2. Kept(job[g].space, job[g].v)
      BY <1>4, <3>1, BranchesKept
    <3> QED
      BY <2>1, <3>2, CallOnPath
  <2> QED
    BY <1>2, <2>1 DEF OnPath
<1> QED
  BY <1>5, <1>6, <1>7, <1>8 DEF MmuInv

\* The new entry of a table: a table that was free and is zeroed, or NULL.
LEMMA MapMakeTables ==
  ASSUME MmuConstants, MmuInv, NEW h \in Harts, MapMake(h)
  PROVE  \E t \in Used, k \in Index, n \in free \cup {Null} :
           /\ t = job[h].table /\ k = Slot(h) /\ entry[t][k] = None
           /\ n = Null => free = {}
           /\ free' = free \ {n} /\ Used' = Used \cup ({n} \cap Frames)
           /\ entry'[t][k] = n
           /\ \A u \in Used, i \in Index : <<u, i>> # <<t, k>> => entry'[u][i] = entry[u][i]
           /\ \A i \in Index : n # Null => entry'[n][i] = None
           /\ entry' \in [Frames -> [Index -> Frames \cup Leaves \cup {Null, None}]]
           /\ Descend(h, n)
<1>1. at[h] = "make" /\ job[h].table # Null /\ Entry(h) = None
  BY DEF MapMake, Goto, MmuInv, CallsInOrder, CallInOrder
<1>2. job[h].table \in Used /\ Slot(h) \in Index
  BY <1>1, Standing
<1>3. PICK t \in Used, k \in Index : t = job[h].table /\ k = Slot(h)
  BY <1>2
<1>4. entry[t][k] = None
  BY <1>1, <1>3 DEF Entry
<1>5. CASE \E p \in free :
             /\ free' = free \ {p}
             /\ entry' = [entry EXCEPT ![p] = ZeroPage, ![job[h].table][Slot(h)] = p]
             /\ Descend(h, p)
  <2>1. PICK p \in free :
             /\ free' = free \ {p}
             /\ entry' = [entry EXCEPT ![p] = ZeroPage, ![t][k] = p]
             /\ Descend(h, p)
    BY <1>3, <1>5
  <2>2. p \in Frames /\ p # t /\ p # Null /\ Used' = Used \cup {p}
    BY <2>1 DEF MmuInv, TypeOK, Used, MmuConstants
  <2>3. /\ entry'[t][k] = p
        /\ \A u \in Used, i \in Index : <<u, i>> # <<t, k>> => entry'[u][i] = entry[u][i]
        /\ \A i \in Index : entry'[p][i] = None
    BY <2>1, <2>2 DEF MmuInv, TypeOK, Used, ZeroPage
  <2>4. entry' \in [Frames -> [Index -> Frames \cup Leaves \cup {Null, None}]]
    BY <2>1, <2>2 DEF MmuInv, TypeOK, ZeroPage
  <2>5. /\ p \in free \cup {Null} /\ (p = Null => free = {}) /\ free' = free \ {p}
        /\ Used' = Used \cup ({p} \cap Frames) /\ Descend(h, p)
    BY <2>1, <2>2
  <2> QED
    BY <1>3, <1>4, <2>3, <2>4, <2>5
<1>6. CASE /\ free = {}
           /\ entry' = [entry EXCEPT ![job[h].table][Slot(h)] = Null]
           /\ Descend(h, Null)
           /\ UNCHANGED free
  <2>1. /\ free = {} /\ free' = free /\ Descend(h, Null) /\ Null \notin Frames
        /\ entry' = [entry EXCEPT ![t][k] = Null]
    BY <1>3, <1>6 DEF MmuConstants
  <2>2. Used' = Used \cup ({Null} \cap Frames) /\ free' = free \ {Null}
    BY <2>1 DEF Used
  <2>3. /\ entry'[t][k] = Null
        /\ \A u \in Used, i \in Index : <<u, i>> # <<t, k>> => entry'[u][i] = entry[u][i]
    BY <2>1 DEF MmuInv, TypeOK, Used
  <2>4. entry' \in [Frames -> [Index -> Frames \cup Leaves \cup {Null, None}]]
    BY <2>1 DEF MmuInv, TypeOK
  <2> QED
    BY <1>3, <1>4, <2>1, <2>2, <2>3, <2>4
<1> QED
  BY <1>5, <1>6 DEF MapMake

LEMMA MapMakeKeeps ==
  ASSUME MmuConstants, MmuInv, NEW h \in Harts, MapMake(h)
  PROVE  MmuInv'
<1>1. PICK t \in Used, k \in Index, n \in free \cup {Null} :
        /\ t = job[h].table /\ k = Slot(h) /\ entry[t][k] = None
        /\ free' = free \ {n} /\ Used' = Used \cup ({n} \cap Frames)
        /\ entry'[t][k] = n
        /\ \A u \in Used, i \in Index : <<u, i>> # <<t, k>> => entry'[u][i] = entry[u][i]
        /\ \A i \in Index : n # Null => entry'[n][i] = None
        /\ entry' \in [Frames -> [Index -> Frames \cup Leaves \cup {Null, None}]]
        /\ Descend(h, n)
  BY MapMakeTables
<1>2. /\ at[h] = "make" /\ at' = [at EXCEPT ![h] = After(job[h].level)]
      /\ root' = root /\ lock' = lock /\ lock = h
      /\ job[h].level \in {1, 2} /\ job[h].leaf \in Leaves
  BY DEF MapMake, Goto, MmuInv, CallsInOrder, CallInOrder
<1>3. /\ n \in Frames \cup {Null} /\ n \notin Used
      /\ job' = [job EXCEPT ![h].table = n, ![h].level = @ - 1]
      /\ job'[h].space = job[h].space /\ job'[h].v = job[h].v /\ job'[h].leaf = job[h].leaf
      /\ job'[h].table = n /\ job'[h].level = job[h].level - 1
  BY <1>1 DEF MmuInv, TypeOK, Used, MmuConstants, Descend
<1>4. TypeOK'
  <2>1. job' \in [Harts -> [space : Spaces \cup {None}, v : VPages \cup {None},
                        leaf : Leaves \cup {None},
                        table : Frames \cup {Null, None}, level : 0 .. 2]]
    BY <1>2, <1>3 DEF MmuInv, TypeOK
  <2> QED
    BY <1>1, <1>2, <2>1 DEF MmuInv, TypeOK, After
<1>5. ThreeLevels'
  <2>1. PICK lev \in [Frames -> 0 .. 2] : Layered(lev)
    BY DEF MmuInv, ThreeLevels
  <2>2. lev[t] = job[h].level
    BY <1>1, <1>2, <2>1, Standing DEF MmuInv, CallsInOrder, CallInOrder
  <2> DEFINE new == [u \in Frames |-> IF u = n THEN lev[t] - 1 ELSE lev[u]]
  <2>3. /\ new \in [Frames -> 0 .. 2] /\ \A u \in Used : new[u] = lev[u]
        /\ n \in Frames => new[n] = lev[t] - 1
        /\ lev[t] \in {1, 2}
    BY <1>2, <1>3, <2>2 DEF Used
  <2> HIDE DEF new
  <2>4. \A r \in Spaces : root'[r] # None => root'[r] \in Used' /\ new[root'[r]] = 2
    BY <1>1, <1>2, <2>1, <2>3 DEF Layered
  <2>5. \A r, q \in Spaces : root'[r] # None /\ root'[r] = root'[q] => r = q
    BY <1>2, <2>1 DEF Layered
  <2>6. \A u \in Used' : new[u] = 2 => \E r \in Spaces : root'[r] = u
    BY <1>1, <1>2, <2>1, <2>3 DEF Layered
  <2>7. \A u \in Used' : new[u] # 2 => \E w \in Used', i \in Index : entry'[w][i] = u
    <3>1. ASSUME NEW u \in Used, new[u] # 2
          PROVE  \E w \in Used', i \in Index : entry'[w][i] = u
      <4>1. PICK w \in Used, i \in Index : entry[w][i] = u
        BY <2>1, <2>3, <3>1 DEF Layered
      <4>2. <<w, i>> # <<t, k>>
        BY <1>1, <4>1 DEF Used, MmuConstants
      <4> QED
        BY <1>1, <4>1, <4>2
    <3> QED
      BY <1>1, <3>1
  <2>8. ASSUME NEW u \in Used', NEW i \in Index
        PROVE  /\ new[u] = 0 => entry'[u][i] \in Leaves \cup {None}
               /\ new[u] # 0 => entry'[u][i] \in Frames \cup {Null, None}
               /\ entry'[u][i] \in Frames =>
                    entry'[u][i] \in Used' /\ new[u] = new[entry'[u][i]] + 1
    <3>1. CASE u = t /\ i = k
      BY <1>1, <1>3, <2>3, <3>1
    <3>2. CASE u \in Used /\ <<u, i>> # <<t, k>>
      BY <1>1, <2>1, <2>3, <3>2 DEF Layered
    <3>3. CASE u \notin Used
      BY <1>1, <1>3, <3>3, <2>8 DEF MmuConstants
    <3> QED
      BY <3>1, <3>2, <3>3
  <2>9. ASSUME NEW u \in Used', NEW w \in Used', NEW i \in Index, NEW j \in Index,
               entry'[u][i] \in Frames, entry'[u][i] = entry'[w][j]
        PROVE  u = w /\ i = j
    <3>1. u \in Used /\ w \in Used
      BY <1>1, <1>3, <2>9 DEF MmuConstants
    <3>2. \A x \in Used, m \in Index :
            <<x, m>> # <<t, k>> /\ n \in Frames => entry'[x][m] # n
      BY <1>1, <1>3, <2>1, <2>9 DEF Layered, MmuConstants
    <3>3. CASE <<u, i>> = <<t, k>> \/ <<w, j>> = <<t, k>>
      BY <1>1, <2>9, <3>1, <3>2, <3>3
    <3>4. CASE <<u, i>> # <<t, k>> /\ <<w, j>> # <<t, k>>
      BY <1>1, <2>1, <2>9, <3>1, <3>4 DEF Layered
    <3> QED
      BY <3>3, <3>4
  <2>10. Layered(new)'
    BY <2>4, <2>5, <2>6, <2>7, <2>8, <2>9 DEF Layered
  <2> QED
    BY <2>3, <2>10 DEF ThreeLevels
<1>6. CallsInOrder'
  <2>1. CallInOrder(h)'
    BY <1>2, <1>3 DEF MmuInv, TypeOK, CallsInOrder, CallInOrder, After
  <2>2. ASSUME NEW g \in Harts, g # h
        PROVE  CallInOrder(g)'
    <3>1. at'[g] = at[g] /\ job'[g] = job[g]
      BY <1>2, <1>3, <2>2 DEF MmuInv, TypeOK
    <3>2. at[g] # "make"
      BY <1>2, <2>2 DEF MmuInv, CallsInOrder, CallInOrder
    <3> QED
      BY <1>2, <3>1, <3>2, OtherCall
  <2> QED
    BY <2>1, <2>2 DEF CallsInOrder
<1>7. OnPath'
  <2>1. \A u \in Used, i \in Index : IsBranch(entry[u][i]) => entry'[u][i] = entry[u][i]
    BY <1>1 DEF IsBranch, MmuConstants
  <2>2. \A s \in Spaces, v \in VPages : Kept(s, v)
    BY <1>2, <2>1, BranchesKept
  <2>3. ASSUME NEW g \in Harts, at[g] # "idle"
        PROVE  job[g].table = Path'[job[g].space][job[g].v][job[g].level]
    BY <2>2, <2>3, CallOnPath DEF MmuInv, CallsInOrder, CallInOrder
  <2>4. n = Path'[job[h].space][job[h].v][job[h].level - 1]
    <3>1. PICK s \in Spaces, v \in VPages, l \in {1, 2} :
            s = job[h].space /\ v = job[h].v /\ l = job[h].level
      BY <1>2 DEF MmuInv, CallsInOrder, CallInOrder
    <3>2. t = Path'[s][v][l] /\ v[l] = k /\ t \in Frames
      BY <1>1, <1>2, <2>3, <3>1 DEF Slot, Used
    <3>3. entry'[t][v[l]] = n /\ n \in Frames \cup {Null}
      BY <1>1, <1>3, <3>2
    <3>4. Path'[s][v][l - 1] = n
      <4>1. CASE l = 2
        BY <3>2, <3>3, <4>1, PathStepsNext DEF IsBranch
      <4>2. CASE l = 1
        BY <3>2, <3>3, <4>2, PathStepsNext DEF IsBranch
      <4> QED
        BY <4>1, <4>2
    <3> QED
      BY <3>1, <3>4
  <2>5. ASSUME NEW g \in Harts, g # h
        PROVE  at'[g] = at[g] /\ job'[g] = job[g]
    BY <1>2, <1>3, <2>5 DEF MmuInv, TypeOK
  <2> QED
    BY <1>3, <2>3, <2>4, <2>5 DEF OnPath
<1> QED
  BY <1>4, <1>5, <1>6, <1>7 DEF MmuInv

LEMMA MapLeafTables ==
  ASSUME MmuConstants, MmuInv, NEW h \in Harts, MapLeaf(h)
  PROVE  \E t \in Used, k \in Index, l \in Leaves :
           /\ t = job[h].table /\ k = Slot(h) /\ l = job[h].leaf
           /\ job[h].level = 0
           /\ \A lev \in [Frames -> 0 .. 2] : Layered(lev) => lev[t] = 0
           /\ entry'[t][k] = l
           /\ \A u \in Used, i \in Index : <<u, i>> # <<t, k>> => entry'[u][i] = entry[u][i]
           /\ entry' \in [Frames -> [Index -> Frames \cup Leaves \cup {Null, None}]]
<1>1. /\ at[h] = "leaf" /\ job[h].table # Null /\ job[h].level = 0 /\ job[h].leaf \in Leaves
      /\ entry' = [entry EXCEPT ![job[h].table][Slot(h)] = job[h].leaf]
  BY DEF MapLeaf, Goto, MmuInv, CallsInOrder, CallInOrder
<1>2. /\ job[h].table \in Used /\ Slot(h) \in Index
      /\ \A lev \in [Frames -> 0 .. 2] : Layered(lev) => lev[job[h].table] = 0
  BY <1>1, Standing
<1>3. PICK t \in Used, k \in Index, l \in Leaves :
        t = job[h].table /\ k = Slot(h) /\ l = job[h].leaf
  BY <1>1, <1>2
<1>4. entry' = [entry EXCEPT ![t][k] = l]
  BY <1>1, <1>3
<1>5. /\ entry'[t][k] = l
      /\ \A u \in Used, i \in Index : <<u, i>> # <<t, k>> => entry'[u][i] = entry[u][i]
      /\ entry' \in [Frames -> [Index -> Frames \cup Leaves \cup {Null, None}]]
  BY <1>3, <1>4 DEF MmuInv, TypeOK, Used
<1> QED
  BY <1>1, <1>2, <1>3, <1>5

LEMMA MapLeafKeeps ==
  ASSUME MmuConstants, MmuInv, NEW h \in Harts, MapLeaf(h)
  PROVE  MmuInv'
<1>1. PICK t \in Used, k \in Index, l \in Leaves :
        /\ \A lev \in [Frames -> 0 .. 2] : Layered(lev) => lev[t] = 0
        /\ entry'[t][k] = l
        /\ \A u \in Used, i \in Index : <<u, i>> # <<t, k>> => entry'[u][i] = entry[u][i]
        /\ entry' \in [Frames -> [Index -> Frames \cup Leaves \cup {Null, None}]]
  BY MapLeafTables
<1>2. /\ at[h] = "leaf" /\ at' = [at EXCEPT ![h] = "idle"]
      /\ job' = [job EXCEPT ![h] = Idle]
      /\ root' = root /\ free' = free /\ Used' = Used /\ lock' = None /\ lock = h
  BY DEF MapLeaf, Goto, MmuInv, CallsInOrder, CallInOrder, Used
<1>3. TypeOK'
  BY <1>1, <1>2 DEF MmuInv, TypeOK, Idle
<1>4. PICK lev \in [Frames -> 0 .. 2] : Layered(lev)
  BY DEF MmuInv, ThreeLevels
<1>5. entry[t][k] \notin Frames /\ ~IsBranch(entry[t][k])
  BY <1>1, <1>4 DEF Layered, IsBranch, MmuConstants
<1>6. ThreeLevels'
  <2>1. \A u \in Used : lev[u] # 2 => \E w \in Used, i \in Index : entry'[w][i] = u
    <3>1. ASSUME NEW u \in Used, lev[u] # 2
          PROVE  \E w \in Used, i \in Index : entry'[w][i] = u
      <4>1. PICK w \in Used, i \in Index : entry[w][i] = u
        BY <1>4, <3>1 DEF Layered
      <4>2. <<w, i>> # <<t, k>>
        BY <1>5, <4>1 DEF Used
      <4> QED
        BY <1>1, <4>1, <4>2
    <3> QED
      BY <3>1
  <2>2. \A u \in Used, i \in Index :
          /\ lev[u] = 0 => entry'[u][i] \in Leaves \cup {None}
          /\ lev[u] # 0 => entry'[u][i] \in Frames \cup {Null, None}
          /\ entry'[u][i] \in Frames => entry'[u][i] \in Used /\ lev[u] = lev[entry'[u][i]] + 1
    <3>1. lev[t] = 0 /\ l \notin Frames
      BY <1>1, <1>4 DEF MmuConstants
    <3>2. ASSUME NEW u \in Used, NEW i \in Index, <<u, i>> # <<t, k>>
          PROVE  entry'[u][i] = entry[u][i]
      BY <1>1, <3>2
    <3> QED
      BY <1>1, <1>4, <3>1, <3>2 DEF Layered
  <2>3. \A u, w \in Used, i, j \in Index :
          entry'[u][i] \in Frames /\ entry'[u][i] = entry'[w][j] => u = w /\ i = j
    <3>1. \A u \in Used, i \in Index :
            entry'[u][i] \in Frames => entry'[u][i] = entry[u][i]
      BY <1>1 DEF MmuConstants
    <3> QED
      BY <1>4, <3>1 DEF Layered
  <2>4. Layered(lev)'
    BY <1>2, <1>4, <2>1, <2>2, <2>3 DEF Layered
  <2> QED
    BY <2>4 DEF ThreeLevels
<1>7. CallsInOrder'
  <2>1. CallInOrder(h)'
    BY <1>2 DEF MmuInv, TypeOK, CallInOrder
  <2>2. ASSUME NEW g \in Harts, g # h
        PROVE  CallInOrder(g)'
    <3>1. at'[g] = at[g] /\ job'[g] = job[g]
      BY <1>2, <2>2 DEF MmuInv, TypeOK
    <3>2. at[g] \notin {"look", "make", "leaf"}
      BY <1>2, <2>2 DEF MmuInv, CallsInOrder, CallInOrder
    <3> QED
      BY <1>2, <3>1, <3>2, OtherCall
  <2> QED
    BY <2>1, <2>2 DEF CallsInOrder
<1>8. OnPath'
  <2>1. \A u \in Used, i \in Index : IsBranch(entry[u][i]) => entry'[u][i] = entry[u][i]
    BY <1>1, <1>5
  <2>2. \A s \in Spaces, v \in VPages : Kept(s, v)
    BY <1>2, <2>1, BranchesKept
  <2>3. ASSUME NEW g \in Harts, at[g] # "idle"
        PROVE  job[g].table = Path'[job[g].space][job[g].v][job[g].level]
    BY <2>2, <2>3, CallOnPath DEF MmuInv, CallsInOrder, CallInOrder
  <2> QED
    BY <1>2, <2>3 DEF OnPath, MmuInv, TypeOK
<1> QED
  BY <1>3, <1>6, <1>7, <1>8 DEF MmuInv

\* What mmu_free frees is the tree below the root, and nothing hangs outside it.
LEMMA FreedTree ==
  ASSUME MmuConstants, TypeOK, NEW lev \in [Frames -> 0 .. 2], Layered(lev),
         NEW s \in Spaces, root[s] # None
  PROVE  /\ Freed(s) \subseteq Used /\ root[s] \in Freed(s)
         /\ \A t \in Freed(s) : lev[t] = 2 => t = root[s]
         /\ \A t \in Freed(s), i \in Index : entry[t][i] \in Frames => entry[t][i] \in Freed(s)
         /\ \A t \in Used \ Freed(s), i \in Index : entry[t][i] \notin Freed(s)
         /\ \A r \in Spaces : r # s => root[r] \notin Freed(s)
<1> DEFINE One == Children({root[s]})
           Two == Children(One)
<1>1. root[s] \in Used /\ lev[root[s]] = 2 /\ Used \subseteq Frames
  BY DEF Layered, Used
<1>2. \A t \in One : t \in Used /\ lev[t] = 1 /\ \E i \in Index : entry[root[s]][i] = t
  BY <1>1 DEF Layered, Children
<1>3. \A i \in Index : entry[root[s]][i] \in Frames => entry[root[s]][i] \in One
  BY DEF Children
<1>4. \A t \in Two : t \in Used /\ lev[t] = 0 /\ \E u \in One, i \in Index : entry[u][i] = t
  BY <1>2 DEF Layered, Children
<1>5. \A t \in One, i \in Index : entry[t][i] \in Frames => entry[t][i] \in Two
  BY DEF Children
<1>6. \A t \in Two, i \in Index : entry[t][i] \notin Frames
  BY <1>4 DEF Layered, MmuConstants
<1>7. Freed(s) = {root[s]} \cup One \cup Two
  BY DEF Freed
<1> HIDE DEF One, Two
<1>8. \A t \in Used \ Freed(s), i \in Index : entry[t][i] \notin Freed(s)
  <2>1. ASSUME NEW t \in Used \ Freed(s), NEW i \in Index
        PROVE  entry[t][i] \notin Freed(s)
    <3>1. entry[t][i] # root[s]
      BY <1>1 DEF Layered
    <3>2. entry[t][i] \notin One
      BY <1>1, <1>2, <1>7 DEF Layered
    <3>3. entry[t][i] \notin Two
      BY <1>1, <1>2, <1>4, <1>7 DEF Layered
    <3> QED
      BY <1>7, <3>1, <3>2, <3>3
  <2> QED
    BY <2>1
<1>9. \A r \in Spaces : r # s => root[r] \notin Freed(s)
  BY <1>1, <1>2, <1>4, <1>7 DEF Layered, TypeOK, MmuConstants
<1> QED
  BY <1>1, <1>2, <1>3, <1>4, <1>5, <1>6, <1>7, <1>8, <1>9

\* The path of an address of another space does not meet it.
LEMMA FreedOffPath ==
  ASSUME MmuConstants, TypeOK, NEW lev \in [Frames -> 0 .. 2], Layered(lev),
         NEW s \in Spaces, root[s] # None,
         NEW r \in Spaces, r # s, NEW v \in VPages, NEW l \in 0 .. 2
  PROVE  Path[r][v][l] \in Frames => Path[r][v][l] \in Used \ Freed(s)
<1>1. v \in [0 .. 2 -> Index]
  BY DEF MmuConstants
<1>2. \A m \in 0 .. 2 : Path[r][v][m] \in Frames => Path[r][v][m] \in Used
  BY PathLevels
<1>3. Path[r][v][2] \in Frames => Path[r][v][2] \notin Freed(s)
  BY PathSteps, FreedTree
<1>4. Path[r][v][1] \in Frames => Path[r][v][1] \notin Freed(s)
  <2>1. ASSUME Path[r][v][1] \in Frames
        PROVE  Path[r][v][1] \notin Freed(s)
    <3>1. Path[r][v][2] \in Frames /\ Path[r][v][1] = entry[Path[r][v][2]][v[2]]
      BY <2>1, PathSteps DEF MmuConstants
    <3> QED
      BY <1>1, <1>2, <1>3, <3>1, FreedTree
  <2> QED
    BY <2>1
<1>5. Path[r][v][0] \in Frames => Path[r][v][0] \notin Freed(s)
  <2>1. ASSUME Path[r][v][0] \in Frames
        PROVE  Path[r][v][0] \notin Freed(s)
    <3>1. Path[r][v][1] \in Frames /\ Path[r][v][0] = entry[Path[r][v][1]][v[1]]
      BY <2>1, PathSteps DEF MmuConstants
    <3> QED
      BY <1>1, <1>2, <1>4, <3>1, FreedTree
  <2> QED
    BY <2>1
<1> QED
  BY <1>2, <1>3, <1>4, <1>5

LEMMA DiscardTables ==
  ASSUME MmuConstants, MmuInv, NEW s \in Spaces, Discard(s)
  PROVE  /\ root'[s] = None /\ \A r \in Spaces \ {s} : root'[r] = root[r]
         /\ Used' = Used \ Freed(s)
         /\ \A t \in Used \ Freed(s) : entry'[t] = entry[t]
         /\ TypeOK'
<1>1. root[s] \in Frames /\ root' = [root EXCEPT ![s] = None] /\ free' = free \cup Freed(s)
  BY DEF Discard, MmuInv, TypeOK
<1>2. Freed(s) \subseteq Frames
  BY <1>1 DEF Freed, Children
<1>3. Used' = Used \ Freed(s) /\ \A t \in Used \ Freed(s) : entry'[t] = entry[t]
  BY <1>1 DEF Discard, Used
<1>4. entry' \in [Frames -> [Index -> Frames \cup Leaves \cup {Null, None}]]
  BY DEF Discard, MmuInv, TypeOK
<1>5. TypeOK'
  BY <1>1, <1>2, <1>4 DEF Discard, MmuInv, TypeOK
<1> QED
  BY <1>1, <1>3, <1>5 DEF MmuInv, TypeOK

\* No branch of another space is changed.
LEMMA DiscardKept ==
  ASSUME MmuConstants, MmuInv, NEW s \in Spaces, Discard(s),
         NEW r \in Spaces, r # s, NEW v \in VPages
  PROVE  Kept(r, v)
<1>1. PICK lev \in [Frames -> 0 .. 2] : Layered(lev)
  BY DEF MmuInv, ThreeLevels
<1>2. \A l \in 0 .. 2 : Path[r][v][l] \in Frames => Path[r][v][l] \in Used \ Freed(s)
  BY <1>1, FreedOffPath DEF MmuInv, Discard
<1> QED
  BY <1>2, DiscardTables DEF Kept

LEMMA DiscardKeeps ==
  ASSUME MmuConstants, MmuInv, NEW s \in Spaces, Discard(s)
  PROVE  MmuInv'
<1>1. root[s] # None /\ lock' = lock /\ at' = at /\ job' = job
  BY DEF Discard
<1>2. \A h \in Harts : job[h].space # s
  BY DEF Discard
<1>3. /\ root'[s] = None /\ \A r \in Spaces \ {s} : root'[r] = root[r]
      /\ Used' = Used \ Freed(s)
      /\ \A t \in Used \ Freed(s) : entry'[t] = entry[t]
      /\ TypeOK'
  BY DiscardTables
<1>4. ThreeLevels'
  <2>1. PICK lev \in [Frames -> 0 .. 2] : Layered(lev)
    BY DEF MmuInv, ThreeLevels
  <2>2. /\ root[s] \in Freed(s)
        /\ \A t \in Used \ Freed(s), i \in Index : entry[t][i] \notin Freed(s)
        /\ \A t \in Freed(s), i \in Index : entry[t][i] \in Frames => entry[t][i] \in Freed(s)
        /\ \A r \in Spaces : r # s => root[r] \notin Freed(s)
    BY <1>1, <2>1, FreedTree DEF MmuInv
  <2>3. \A t \in Used' : t \in Used \ Freed(s) /\ entry'[t] = entry[t]
    BY <1>3
  <2>4. \A r \in Spaces : root'[r] # None => root'[r] \in Used' /\ lev[root'[r]] = 2
    BY <1>3, <2>1, <2>2 DEF Layered
  <2>5. \A r, q \in Spaces : root'[r] # None /\ root'[r] = root'[q] => r = q
    BY <1>3, <2>1 DEF Layered
  <2>6. \A t \in Used' : lev[t] = 2 => \E r \in Spaces : root'[r] = t
    BY <1>3, <2>1, <2>2, <2>3 DEF Layered
  <2>7. \A t \in Used' : lev[t] # 2 => \E u \in Used', i \in Index : entry'[u][i] = t
    <3>1. ASSUME NEW t \in Used', lev[t] # 2
          PROVE  \E u \in Used', i \in Index : entry'[u][i] = t
      <4>1. PICK u \in Used, i \in Index : entry[u][i] = t
        BY <2>1, <2>3, <3>1 DEF Layered
      <4>2. u \notin Freed(s)
        BY <2>2, <2>3, <3>1, <4>1 DEF Used
      <4> QED
        BY <1>3, <4>1, <4>2
    <3> QED
      BY <3>1
  <2>8. \A t \in Used', i \in Index :
          /\ lev[t] = 0 => entry'[t][i] \in Leaves \cup {None}
          /\ lev[t] # 0 => entry'[t][i] \in Frames \cup {Null, None}
          /\ entry'[t][i] \in Frames => entry'[t][i] \in Used' /\ lev[t] = lev[entry'[t][i]] + 1
    BY <1>3, <2>1, <2>2, <2>3 DEF Layered
  <2>9. \A t, u \in Used', i, j \in Index :
          entry'[t][i] \in Frames /\ entry'[t][i] = entry'[u][j] => t = u /\ i = j
    BY <2>1, <2>3 DEF Layered
  <2>10. Layered(lev)'
    BY <2>4, <2>5, <2>6, <2>7, <2>8, <2>9 DEF Layered
  <2> QED
    BY <2>10 DEF ThreeLevels
<1>5. ASSUME NEW g \in Harts, at[g] # "idle"
      PROVE  /\ Kept(job[g].space, job[g].v)
             /\ root'[job[g].space] = root[job[g].space]
             /\ job[g].table = Path'[job[g].space][job[g].v][job[g].level]
             /\ job[g].space \in Spaces \ {s}
  <2>1. job[g].space \in Spaces \ {s} /\ job[g].v \in VPages
    BY <1>2, <1>5 DEF MmuInv, CallsInOrder, CallInOrder
  <2>2. Kept(job[g].space, job[g].v)
    BY <2>1, DiscardKept
  <2>3. job[g].table = Path'[job[g].space][job[g].v][job[g].level]
    BY <1>5, <2>2, CallOnPath
  <2> QED
    BY <2>1, <2>2, <2>3 DEF Kept
<1>6. CallsInOrder'
  <2>1. ASSUME NEW g \in Harts
        PROVE  CallInOrder(g)'
    <3>1. ASSUME at[g] = "make"
          PROVE  entry'[job[g].table][Slot(g)] = entry[job[g].table][Slot(g)]
      <4>1. PICK lev \in [Frames -> 0 .. 2] : Layered(lev)
        BY DEF MmuInv, ThreeLevels
      <4>2. job[g].table \in Used /\ at[g] # "idle" /\ job[g].v \in VPages
            /\ job[g].level \in 0 .. 2
        BY <3>1, Standing DEF MmuInv, CallsInOrder, CallInOrder
      <4>3. job[g].table = Path[job[g].space][job[g].v][job[g].level]
        BY <4>2 DEF MmuInv, OnPath
      <4>4. job[g].table \notin Freed(s)
        BY <1>1, <1>5, <4>1, <4>2, <4>3, FreedOffPath DEF MmuInv, Used
      <4> QED
        BY <1>3, <4>2, <4>4
    <3> QED
      BY <1>1, <1>5, <3>1, OtherCall
  <2> QED
    BY <2>1 DEF CallsInOrder
<1>7. OnPath'
  BY <1>1, <1>5 DEF OnPath
<1> QED
  BY <1>3, <1>4, <1>6, <1>7 DEF MmuInv

----------------------------------------------------------------------------
(* The invariant *)

LEMMA MmuInvInit == ASSUME MmuConstants, Init PROVE MmuInv
<1>1. TypeOK
  BY DEF Init, TypeOK, ZeroPage, Idle
<1>2. ThreeLevels
  <2>1. Used = {} /\ \A s \in Spaces : root[s] = None
    BY DEF Init, Used
  <2>2. Layered([f \in Frames |-> 0])
    BY <2>1 DEF Layered
  <2>3. [f \in Frames |-> 0] \in [Frames -> 0 .. 2]
    OBVIOUS
  <2> QED
    BY <2>2, <2>3 DEF ThreeLevels
<1>3. CallsInOrder /\ OnPath
  BY DEF Init, CallsInOrder, CallInOrder, OnPath
<1> QED
  BY <1>1, <1>2, <1>3 DEF MmuInv

LEMMA MmuInvStep == ASSUME MmuConstants, MmuInv, [Next]_vars PROVE MmuInv'
<1>1. ASSUME NEW h \in Harts, Map(h)
      PROVE  MmuInv'
  BY <1>1, MapStartKeeps, MapDescendKeeps, MapMissingKeeps, MapMakeKeeps, MapLeafKeeps DEF Map
<1>2. ASSUME NEW h \in Harts, Read(h)
      PROVE  MmuInv'
  BY <1>2, ReadStartKeeps, ReadDescendKeeps, ReadEndKeeps DEF Read
<1>3. ASSUME NEW h \in Harts, NullFault(h)
      PROVE  MmuInv'
  BY <1>3, NullFaultKeeps
<1>4. ASSUME NEW s \in Spaces, NewSpace(s) \/ Discard(s)
      PROVE  MmuInv'
  BY <1>4, NewSpaceKeeps, DiscardKeeps
<1>5. CASE UNCHANGED vars
  <2>1. ThreeLevels' /\ Path' = Path
    BY <1>5, TablesAlone DEF vars
  <2>2. TypeOK' /\ CallsInOrder'
    BY <1>5 DEF vars, MmuInv, TypeOK, CallsInOrder, CallInOrder, Entry, Slot
  <2>3. OnPath'
    BY <1>5, <2>1 DEF vars, MmuInv, OnPath
  <2> QED
    BY <2>1, <2>2, <2>3 DEF MmuInv
<1> QED
  BY <1>1, <1>2, <1>3, <1>4, <1>5 DEF Next

\* In every state each page that is taken is a root or hangs in one entry of a table one
\* level above it, and the table a hart looks at is the one on the path to its address
\* (mmu.c:25-131); the theorems below are read off it.
THEOREM MmuInvariant == ASSUME MmuConstants PROVE Spec => []MmuInv
<1>1. Init => MmuInv
  BY MmuInvInit
<1>2. MmuInv /\ [Next]_vars => MmuInv'
  BY MmuInvStep
<1> QED
  BY <1>1, <1>2, PTL DEF Spec

LEMMA TablesOnce == ASSUME MmuConstants, MmuInv PROVE EveryTableOnce
<1>1. PICK lev \in [Frames -> 0 .. 2] : Layered(lev)
  BY DEF MmuInv, ThreeLevels
<1> DEFINE linked == {entry[l[1]][l[2]] : l \in Links}
<1>2. \A s, r \in Spaces : s # r /\ root[s] # None => root[s] # root[r]
  BY <1>1 DEF Layered
<1>3. \A l \in Links : /\ l = <<l[1], l[2]>> /\ l[1] \in Used /\ l[2] \in Index
                       /\ entry[l[1]][l[2]] \in Frames
  BY DEF Links
<1>4. \A l, m \in Links : l # m => entry[l[1]][l[2]] # entry[m[1]][m[2]]
  BY <1>1, <1>3 DEF Layered
<1>5. linked \cap Roots = {}
  <2>1. ASSUME NEW l \in Links
        PROVE  lev[entry[l[1]][l[2]]] # 2
    <3>1. /\ lev[l[1]] = lev[entry[l[1]][l[2]]] + 1
          /\ lev[l[1]] \in 0 .. 2
      BY <1>1, <1>3 DEF Layered, Used
    <3> QED
      BY <3>1
  <2>2. \A t \in Roots : lev[t] = 2
    BY <1>1 DEF Layered, Roots
  <2> QED
    BY <2>1, <2>2
<1>6. linked \cup Roots \subseteq Used
  BY <1>1, <1>3 DEF Layered, Roots
<1>7. ASSUME NEW t \in Used
      PROVE  t \in linked \cup Roots
  <2>1. CASE lev[t] = 2
    BY <1>1, <2>1 DEF Layered, Roots, Used, MmuConstants
  <2>2. CASE lev[t] # 2
    <3>1. PICK u \in Used, i \in Index : entry[u][i] = t
      BY <1>1, <2>2 DEF Layered
    <3>2. <<u, i>> \in Links
      BY <3>1 DEF Links, Used
    <3> QED
      BY <3>1, <3>2
  <2> QED
    BY <2>1, <2>2
<1> QED
  BY <1>2, <1>4, <1>5, <1>6, <1>7 DEF EveryTableOnce

LEMMA CallsOnPath == ASSUME MmuInv PROVE WalksOnPath
<1>1. ASSUME NEW h \in Harts, at[h] # "idle"
      PROVE  /\ job[h].space \in Spaces /\ job[h].v \in VPages /\ job[h].level \in 0 .. 2
             /\ job[h].table = Path[job[h].space][job[h].v][job[h].level]
  BY <1>1 DEF MmuInv, TypeOK, CallsInOrder, CallInOrder, OnPath
<1>2. \A s \in Spaces, v \in VPages, l \in 0 .. 2 : Path[s][v][l] = TableAt(s, v, l)
  BY DEF Path
<1> QED
  BY <1>1, <1>2 DEF WalksOnPath

\* In every reachable state every table is in one place of one tree (mmu.c:36-44,
\* 61-86) and every walk, locked or not, is on the path to its address
\* (mmu.c:89-131).
THEOREM TablesAlwaysSound ==
  ASSUME MmuConstants PROVE Spec => [](TypeOK /\ EveryTableOnce /\ WalksOnPath)
<1>1. MmuInv => TypeOK /\ EveryTableOnce /\ WalksOnPath
  BY TablesOnce, CallsOnPath DEF MmuInv
<1> QED
  BY <1>1, MmuInvariant, PTL

----------------------------------------------------------------------------
(* The tables implement a map *)

Mapping == [s \in Spaces |-> IF root[s] = None THEN None
                             ELSE [v \in VPages |-> Translation(s, v)]]

LEMMA TranslationOf ==
  \A s \in Spaces, v \in VPages :
    LET t == Path[s][v][0]
    IN  Translation(s, v) = IF t \in Frames /\ entry[t][v[0]] \in Leaves
                            THEN entry[t][v[0]] ELSE None
BY DEF Path, Translation

LEMMA TranslationOfNext ==
  \A s \in Spaces, v \in VPages :
    LET t == Path'[s][v][0]
    IN  Translation(s, v)' = IF t \in Frames /\ entry'[t][v[0]] \in Leaves
                             THEN entry'[t][v[0]] ELSE None
<1> TAKE s \in Spaces, v \in VPages
<1>1. Path'[s][v][0] = TableAt(s, v, 0)'
  BY DEF Path
<1> QED
  BY <1>1 DEF Translation

\* An address is translated as before when the tables on its path are as before.
LEMMA SameRows ==
  ASSUME MmuConstants, NEW s \in Spaces, NEW v \in VPages, root'[s] = root[s],
         \A l \in 0 .. 2 : Path[s][v][l] \in Frames =>
                             entry'[Path[s][v][l]] = entry[Path[s][v][l]]
  PROVE  Translation(s, v)' = Translation(s, v)
<1>1. Path'[s][v][2] = Path[s][v][2]
  BY PathSteps, PathStepsNext
<1>2. Path'[s][v][1] = Path[s][v][1]
  BY <1>1, PathSteps, PathStepsNext
<1>3. Path'[s][v][0] = Path[s][v][0]
  BY <1>2, PathSteps, PathStepsNext
<1> QED
  BY <1>3, TranslationOf, TranslationOfNext

LEMMA SameMapping ==
  ASSUME \A s \in Spaces : (root'[s] = None) = (root[s] = None),
         \A s \in Spaces, v \in VPages :
           root[s] # None => Translation(s, v)' = Translation(s, v)
  PROVE  Mapping' = Mapping
BY DEF Mapping

\* When the spaces but one are translated as before, only that one is remapped.
LEMMA OneRemapped ==
  ASSUME NEW s \in Spaces, NEW m, Mapping'[s] = m,
         \A r \in Spaces \ {s} : Mapping'[r] = Mapping[r]
  PROVE  Mapping' = [Mapping EXCEPT ![s] = m]
<1>1. /\ Mapping = [r \in Spaces |-> Mapping[r]]
      /\ Mapping' = [r \in Spaces |-> Mapping'[r]]
  BY DEF Mapping
<1> HIDE DEF Mapping
<1> QED
  BY <1>1

LEMMA OthersMapped ==
  ASSUME NEW s \in Spaces,
         \A r \in Spaces \ {s} : root'[r] = root[r],
         \A r \in Spaces \ {s}, v \in VPages : Translation(r, v)' = Translation(r, v)
  PROVE  \A r \in Spaces \ {s} : Mapping'[r] = Mapping[r]
BY DEF Mapping

LEMMA NewSpaceMaps ==
  ASSUME MmuConstants, MmuInv, NEW s \in Spaces, NewSpace(s)
  PROVE  AddressMap!Create(s)
<1>1. PICK p \in free : /\ root' = [root EXCEPT ![s] = p]
                        /\ entry' = [entry EXCEPT ![p] = ZeroPage]
  BY DEF NewSpace
<1>2. /\ p \in Frames /\ p \notin Used /\ p # None /\ root[s] = None
      /\ root'[s] = p /\ \A r \in Spaces \ {s} : root'[r] = root[r]
      /\ \A i \in Index : entry'[p][i] = None
      /\ \A t \in Used : entry'[t] = entry[t]
  BY <1>1 DEF MmuInv, TypeOK, Used, ZeroPage, NewSpace, MmuConstants
<1>3. PICK lev \in [Frames -> 0 .. 2] : Layered(lev)
  BY DEF MmuInv, ThreeLevels
<1>4. ASSUME NEW r \in Spaces \ {s}, NEW v \in VPages
      PROVE  Translation(r, v)' = Translation(r, v)
  <2>1. \A l \in 0 .. 2 : Path[r][v][l] \in Frames => Path[r][v][l] \in Used
    BY <1>3, PathLevels DEF MmuInv
  <2> QED
    BY <1>2, <2>1, SameRows
<1>5. ASSUME NEW v \in VPages
      PROVE  Translation(s, v)' = None
  <2>1. v[2] \in Index
    BY DEF MmuConstants
  <2>2. Path'[s][v][1] = None
    BY <1>2, <2>1, PathStepsNext DEF IsBranch, MmuConstants
  <2>3. Path'[s][v][0] = None
    BY <2>2, PathStepsNext DEF MmuConstants
  <2> QED
    BY <2>3, TranslationOfNext DEF MmuConstants
<1>6. Mapping[s] = None /\ Mapping'[s] = [v \in VPages |-> None]
  BY <1>2, <1>5 DEF Mapping
<1>7. Mapping' = [Mapping EXCEPT ![s] = [v \in VPages |-> None]]
  BY <1>2, <1>4, <1>6, OthersMapped, OneRemapped
<1> QED
  BY <1>6, <1>7 DEF Mapping, AddressMap!Create, AddressMap!Nothing

LEMMA DiscardMaps ==
  ASSUME MmuConstants, MmuInv, NEW s \in Spaces, Discard(s)
  PROVE  AddressMap!Discard(s)
<1>1. /\ root'[s] = None /\ \A r \in Spaces \ {s} : root'[r] = root[r]
      /\ \A t \in Used \ Freed(s) : entry'[t] = entry[t]
  BY DiscardTables
<1>2. PICK lev \in [Frames -> 0 .. 2] : Layered(lev)
  BY DEF MmuInv, ThreeLevels
<1>3. ASSUME NEW r \in Spaces \ {s}, NEW v \in VPages
      PROVE  Translation(r, v)' = Translation(r, v)
  <2>1. \A l \in 0 .. 2 : Path[r][v][l] \in Frames => Path[r][v][l] \in Used \ Freed(s)
    BY <1>2, FreedOffPath DEF MmuInv, Discard
  <2> QED
    BY <1>1, <2>1, SameRows
<1>4. Mapping'[s] = None
  BY <1>1 DEF Mapping
<1>5. Mapping' = [Mapping EXCEPT ![s] = None]
  BY <1>1, <1>3, <1>4, OthersMapped, OneRemapped
<1> QED
  BY <1>5 DEF Mapping, AddressMap!Discard

\* A new table has no leaves, so no translation comes with it.
LEMMA MapMakeMaps ==
  ASSUME MmuConstants, MmuInv, NEW h \in Harts, MapMake(h)
  PROVE  Mapping' = Mapping
<1>1. PICK t \in Used, k \in Index, n \in free \cup {Null} :
        /\ t = job[h].table /\ entry[t][k] = None
        /\ entry'[t][k] = n
        /\ \A u \in Used, i \in Index : <<u, i>> # <<t, k>> => entry'[u][i] = entry[u][i]
        /\ \A i \in Index : n # Null => entry'[n][i] = None
  BY MapMakeTables
<1>2. at[h] = "make" /\ root' = root /\ job[h].level \in {1, 2}
  BY DEF MapMake, Goto, MmuInv, CallsInOrder, CallInOrder
<1>3. n \in Frames \cup {Null} /\ n # None
  BY <1>1 DEF MmuInv, TypeOK, MmuConstants
<1>4. PICK lev \in [Frames -> 0 .. 2] : Layered(lev)
  BY DEF MmuInv, ThreeLevels
<1>5. lev[t] # 0
  BY <1>1, <1>2, <1>4, Standing DEF MmuInv, CallsInOrder, CallInOrder
<1>6. ASSUME NEW s \in Spaces, NEW v \in VPages
      PROVE  Translation(s, v)' = Translation(s, v)
  <2>1. v \in [0 .. 2 -> Index]
    BY DEF MmuConstants
  <2>2. \A l \in 0 .. 2 : Path[s][v][l] \in Frames =>
                            Path[s][v][l] \in Used /\ lev[Path[s][v][l]] = l
    BY <1>4, PathLevels DEF MmuInv
  <2>3. \A u \in Used, i \in Index : IsBranch(entry[u][i]) => entry'[u][i] = entry[u][i]
    BY <1>1 DEF IsBranch, MmuConstants
  <2>4. \A l \in 0 .. 2 : Path[s][v][l] # None => Path'[s][v][l] = Path[s][v][l]
    BY <1>2, <2>3, BranchesKept, PathGrows
  <2>5. CASE Path[s][v][0] \in Frames
    <3>1. Path'[s][v][0] = Path[s][v][0] /\ Path[s][v][0] \in Used /\ Path[s][v][0] # t
      BY <1>5, <2>2, <2>4, <2>5 DEF MmuConstants
    <3>2. entry'[Path[s][v][0]][v[0]] = entry[Path[s][v][0]][v[0]]
      BY <1>1, <2>1, <3>1
    <3> QED
      BY <3>1, <3>2, TranslationOf, TranslationOfNext
  <2>6. CASE Path[s][v][0] \notin Frames
    <3>1. Translation(s, v) = None
      BY <2>6, TranslationOf
    <3>2. ASSUME Path'[s][v][0] \in Frames
          PROVE  n \in Frames /\ Path'[s][v][0] = n
      <4>1. /\ Path'[s][v][1] \in Frames /\ Path'[s][v][2] = root[s]
            /\ Path'[s][v][0] = entry'[Path'[s][v][1]][v[1]]
        BY <1>2, <3>2, PathStepsNext DEF MmuConstants
      <4>2. CASE Path[s][v][1] \in Frames
        <5>1. Path'[s][v][1] = Path[s][v][1] /\ Path[s][v][1] \in Used
          BY <2>2, <2>4, <4>2 DEF MmuConstants
        <5>2. CASE <<Path[s][v][1], v[1]>> = <<t, k>>
          BY <1>1, <3>2, <4>1, <5>1, <5>2
        <5>3. CASE <<Path[s][v][1], v[1]>> # <<t, k>>
          <6>1. entry[Path[s][v][1]][v[1]] = Path'[s][v][0]
            BY <1>1, <2>1, <4>1, <5>1, <5>3
          <6> QED
            BY <2>6, <3>2, <4>2, <6>1, PathSteps DEF IsBranch
        <5> QED
          BY <5>2, <5>3
      <4>3. CASE Path[s][v][1] \notin Frames
        <5>1. root[s] \in Frames /\ Path'[s][v][1] = entry'[root[s]][v[2]]
          BY <1>2, <4>1, PathStepsNext DEF MmuConstants
        <5>2. root[s] \in Used
          BY <2>2, <5>1, PathSteps
        <5>3. <<root[s], v[2]>> = <<t, k>>
          <6>1. ASSUME <<root[s], v[2]>> # <<t, k>>
                PROVE  FALSE
            <7>1. entry[root[s]][v[2]] \in Frames
              BY <1>1, <2>1, <4>1, <5>1, <5>2, <6>1
            <7> QED
              BY <4>3, <5>1, <7>1, PathSteps DEF IsBranch
          <6> QED
            BY <6>1
        <5>4. Path'[s][v][1] = n /\ n # Null
          BY <1>1, <4>1, <5>1, <5>3 DEF MmuConstants
        <5>5. entry'[n][v[1]] = None
          BY <1>1, <2>1, <5>4
        <5> QED
          BY <3>2, <4>1, <5>4, <5>5 DEF MmuConstants
      <4> QED
        BY <4>2, <4>3
    <3>3. Translation(s, v)' = None
      <4>1. CASE Path'[s][v][0] \in Frames
        <5>1. n # Null /\ v[0] \in Index /\ Path'[s][v][0] = n
          BY <2>1, <3>2, <4>1 DEF MmuConstants
        <5>2. entry'[n][v[0]] = None
          BY <1>1, <5>1
        <5> QED
          BY <5>1, <5>2, TranslationOfNext DEF MmuConstants
      <4>2. CASE Path'[s][v][0] \notin Frames
        BY <4>2, TranslationOfNext
      <4> QED
        BY <4>1, <4>2
    <3> QED
      BY <3>1, <3>3
  <2> QED
    BY <2>5, <2>6
<1> QED
  BY <1>2, <1>6, SameMapping

\* mmu_map sets the translation of its page, and of no other.
LEMMA MapLeafMaps ==
  ASSUME MmuConstants, MmuInv, NEW h \in Harts, MapLeaf(h)
  PROVE  \E s \in Spaces, v \in VPages, l \in Leaves : AddressMap!Map(s, v, l)
<1>1. PICK t \in Used, k \in Index, l \in Leaves :
        /\ t = job[h].table /\ k = Slot(h) /\ job[h].level = 0
        /\ entry'[t][k] = l
        /\ \A u \in Used, i \in Index : <<u, i>> # <<t, k>> => entry'[u][i] = entry[u][i]
        /\ \A lev \in [Frames -> 0 .. 2] : Layered(lev) => lev[t] = 0
  BY MapLeafTables
<1>2. PICK s \in Spaces, v \in VPages : s = job[h].space /\ v = job[h].v
  BY DEF MapLeaf, Goto, MmuInv, CallsInOrder, CallInOrder
<1>3. /\ root' = root /\ root[s] # None /\ k = v[0] /\ t \in Frames
      /\ Path[s][v][0] = t
  BY <1>1, <1>2 DEF MapLeaf, Goto, MmuInv, CallsInOrder, CallInOrder, OnPath, Slot, Used
<1>4. PICK lev \in [Frames -> 0 .. 2] : Layered(lev)
  BY DEF MmuInv, ThreeLevels
<1>5. ~IsBranch(entry[t][k]) /\ ~IsBranch(entry'[t][k])
  BY <1>1, <1>4 DEF Layered, IsBranch, MmuConstants
<1>6. ASSUME NEW r \in Spaces, NEW w \in VPages
      PROVE  /\ \A m \in 0 .. 2 : Path'[r][w][m] = Path[r][w][m]
             /\ Path[r][w][0] \in Frames => Path[r][w][0] \in Used
             /\ w \in [0 .. 2 -> Index]
  <2>1. w \in [0 .. 2 -> Index]
    BY DEF MmuConstants
  <2>2. \A m \in 0 .. 2 : Path[r][w][m] \in Frames => Path[r][w][m] \in Used
    BY <1>4, PathLevels DEF MmuInv
  <2>3. \A u \in Used, i \in Index :
          IsBranch(entry[u][i]) \/ IsBranch(entry'[u][i]) => entry'[u][i] = entry[u][i]
    BY <1>1, <1>5
  <2>4. Path'[r][w][2] = Path[r][w][2]
    BY <1>3, PathSteps, PathStepsNext
  <2>5. Path'[r][w][1] = Path[r][w][1]
    BY <2>1, <2>2, <2>3, <2>4, PathSteps, PathStepsNext
  <2>6. Path'[r][w][0] = Path[r][w][0]
    BY <2>1, <2>2, <2>3, <2>5, PathSteps, PathStepsNext
  <2> QED
    BY <2>1, <2>2, <2>4, <2>5, <2>6
<1>7. Translation(s, v)' = l
  BY <1>1, <1>3, <1>6, TranslationOfNext
<1>8. ASSUME NEW r \in Spaces, NEW w \in VPages, r # s \/ w # v
      PROVE  Translation(r, w)' = Translation(r, w)
  <2>1. CASE Path[r][w][0] \notin Frames
    BY <1>6, <2>1, TranslationOf, TranslationOfNext
  <2>2. CASE Path[r][w][0] \in Frames
    <3>1. <<Path[r][w][0], w[0]>> # <<t, k>>
      <4>1. ASSUME Path[r][w][0] = t, w[0] = k
            PROVE  FALSE
        <5>1. r = s /\ w[1] = v[1] /\ w[2] = v[2] /\ w[0] = v[0]
          BY <1>3, <1>4, <4>1, PathsApart DEF MmuInv
        <5>2. w = v
          BY <1>6, <5>1
        <5> QED
          BY <1>8, <5>1, <5>2
      <4> QED
        BY <4>1
    <3>2. entry'[Path[r][w][0]][w[0]] = entry[Path[r][w][0]][w[0]]
      BY <1>1, <1>6, <2>2, <3>1
    <3> QED
      BY <1>6, <3>2, TranslationOf, TranslationOfNext
  <2> QED
    BY <2>1, <2>2
<1>9. Mapping[s] = [w \in VPages |-> Translation(s, w)]
  BY <1>3 DEF Mapping
<1>10. Mapping[s] # None
  <2>1. \A w \in VPages : Translation(s, w) \in Leaves \cup {None}
    BY TranslationOf
  <2> QED
    BY <1>9, <2>1 DEF MmuConstants
<1>11. Mapping' = [Mapping EXCEPT ![s][v] = l]
  <2>1. Mapping'[s] = [Mapping[s] EXCEPT ![v] = l]
    BY <1>3, <1>7, <1>8, <1>9 DEF Mapping
  <2>2. \A r \in Spaces \ {s} : Mapping'[r] = Mapping[r]
    BY <1>3, <1>8 DEF Mapping
  <2> QED
    BY <2>1, <2>2 DEF Mapping
<1>12. AddressMap!Map(s, v, l)
  BY <1>10, <1>11 DEF Mapping, AddressMap!Map
<1> QED
  BY <1>12

\* mmu_map sets the translation of its own page only and in one step, and nothing
\* else but a new or a discarded table tree changes any (mmu.c:13-131).
THEOREM TablesAreMap == ASSUME MmuConstants PROVE Spec => MmuIsMap
<1>1. Init => AddressMap!Init
  BY DEF Init, AddressMap!Init
<1>2. MmuInv /\ [Next]_vars => AddressMap!Next \/ Mapping' = Mapping
  <2> SUFFICES ASSUME MmuInv, [Next]_vars
               PROVE  AddressMap!Next \/ Mapping' = Mapping
    OBVIOUS
  <2>1. ASSUME UNCHANGED <<entry, free, root>>
        PROVE  Mapping' = Mapping
    BY <2>1 DEF Mapping, Translation, TableAt, IsBranch
  <2>2. ASSUME NEW h \in Harts, Map(h)
        PROVE  AddressMap!Next \/ Mapping' = Mapping
    <3>1. CASE MapLeaf(h)
      BY <3>1, MapLeafMaps DEF AddressMap!Next
    <3>2. CASE MapMake(h)
      BY <3>2, MapMakeMaps
    <3>3. CASE MapDescend(h) \/ MapMissing(h)
               \/ \E s \in Spaces, v \in VPages, l \in Leaves : MapStart(h, s, v, l)
      BY <2>1, <3>3 DEF MapDescend, MapMissing, MapStart
    <3> QED
      BY <2>2, <3>1, <3>2, <3>3 DEF Map
  <2>3. ASSUME NEW h \in Harts, Read(h) \/ NullFault(h)
        PROVE  Mapping' = Mapping
    BY <2>1, <2>3 DEF Read, ReadStart, ReadDescend, ReadEnd, NullFault
  <2>4. ASSUME NEW s \in Spaces, NewSpace(s) \/ Discard(s)
        PROVE  AddressMap!Next
    BY <2>4, NewSpaceMaps, DiscardMaps DEF AddressMap!Next
  <2> QED
    BY <2>1, <2>2, <2>3, <2>4 DEF Next, vars
<1>3. MmuInv /\ [Next]_vars => [AddressMap!Next]_([s \in Spaces |->
        IF root[s] = None THEN None ELSE [v \in VPages |-> Translation(s, v)]])
  BY <1>2 DEF Mapping
<1> QED
  BY <1>1, <1>3, MmuInvariant, PTL DEF Spec, MmuIsMap, AddressMap!Spec
=============================================================================
