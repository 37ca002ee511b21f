--------------------------- MODULE FileBlocksSteps ---------------------------
(***************************************************************************)
(* What each step of FileBlocks does to the files and to the blocks they   *)
(* hold, for any number of threads, files and blocks: the induction step   *)
(* of FileBlocksProofs.                                                    *)
(***************************************************************************)
EXTENDS FileBlocks, BlockBitmapProofs

USE GeometryAssumption, AlignAssumption, FileAssumption
-----------------------------------------------------------------------------
(***************************************************************************)
(* The inductive invariant.  Its parts are about one operation "o", the    *)
(* pointers "d", size "s" and preallocation "p" of its file, and the call  *)
(* "c", "x", "r" (pc, req and ret) of its thread.                          *)
(***************************************************************************)
Asides  == {"lbuf", "tupd", "tcopy", "trest"}
Resting == {"out", "sdisc", "supd", "scopy"}
Filling == {"wdisc", "wcall", "wnew", "ldisc", "lcall"}

Job == [at : Places, f : Files \cup {NoFile}, lbn : Sizes, osize : Sizes, end : Sizes,
        old : Pointers, grow : BOOLEAN]
Reserve == [blk : Nat, cnt : Nat]

Nz(d)       == {d[l] : l \in Lbns} \ {0}
AsideOf(o)  == IF o.at \in Asides THEN Nz(o.old) ELSE {}
Run(p)      == p.blk .. p.blk + p.cnt - 1
Sound(d, s) == \A l \in Lbns : d[l] # 0 => l < s
Distinct(d) == \A l, m \in Lbns : l # m /\ d[l] # 0 => d[l] # d[m]
Holds(f)    == Own(f) \cup Preallocated(f)

\* What an operation on a file relies on while it has the inode unlocked.
JobOK(o, d, s, p) ==
  LET grownTo(n) == s <= o.osize \/ s <= n
  IN  /\ o.at # "out" => o.f \in Files
      /\ o.at # "panic"
      /\ o.at \in Filling \cup {"wnext", "wdata", "lbuf"} => Sound(d, s) /\ o.lbn \in Lbns
      /\ o.at \in Filling => d[o.lbn] = 0 /\ p.cnt = 0
      /\ o.at \in {"ldisc", "lcall", "lbuf"} => o.grow
      /\ o.at \in Filling \cup {"lbuf"} /\ o.grow => s <= o.lbn
      /\ o.at \in Filling /\ ~o.grow => o.lbn < o.end /\ grownTo(o.lbn)
      /\ o.at = "wnext" => ~o.grow /\ o.lbn + 1 < o.end /\ grownTo(o.lbn + 1)
      /\ o.at = "wdata" => ~o.grow /\ o.end \in {o.lbn, o.lbn + 1} /\ grownTo(o.lbn + 1)
      /\ o.at = "tenter" => Sound(d, s) \/ o.lbn < s
      /\ o.at = "lbuf" => /\ \A l \in Lbns : l # o.lbn => o.old[l] = 0
                          /\ o.old[o.lbn] # 0 => \A m \in Lbns : d[m] # o.old[o.lbn]
      /\ o.at \in {"tupd", "tcopy", "trest"} => d = Kept(o.old, o.lbn) /\ Distinct(o.old)

\* How far the call of the allocator is that an operation waits for.
CallOK(o, c, x, r) ==
  LET freeing == c \in {"freeread", "free", "write", "done"} /\ r.blk = 0
  IN  /\ o.at \in {"wdisc", "ldisc", "tdisc", "sdisc"} => freeing
      /\ o.at = "tblk" => c = "idle" \/ freeing
      /\ o.at = "wnew" =>
           /\ c \in {"goalread", "goal", "scanread", "scan", "write", "done"}
           /\ c \in {"goalread", "goal", "scanread", "scan"} => (x.pre <=> o.f \in Regular)
           /\ c \in {"write", "done"} /\ r.blk = 0 => ~r.pset
           /\ c \in {"write", "done"} /\ r.blk # 0 =>
                /\ \E g \in Groups : RetBlocks(r) \subseteq GroupBlocks(g)
                /\ o.f \in Regular => r.pset /\ r.pblk = r.blk + 1
                /\ o.f \notin Regular => r.pcnt = 0
      /\ o.at \notin {"wdisc", "ldisc", "tdisc", "sdisc", "tblk", "wnew"} => c = "idle"

FileTypes ==
  /\ i_db \in [Files -> Pointers] /\ dinode \in [Files -> Pointers]
  /\ i_size \in [Files -> Sizes]
  /\ prealloc \in [Files -> Reserve]
  /\ i_flag \in [Files -> BOOLEAN]
  /\ op \in [Threads -> Job]

OneChanger == \A f \in Files : \A t, u \in Changing(f) : t = u

PreallocInGroup ==
  \A f \in Files : prealloc[f].cnt > 0 => \E g \in Groups : Preallocated(f) \subseteq GroupBlocks(g)

Jobs  == \A t \in Threads : JobOK(op[t], i_db[op[t].f], i_size[op[t].f], prealloc[op[t].f])
Calls == \A t \in Threads : CallOK(op[t], pc[t], req[t], ret[t])

FilePart == FileTypes /\ NoSharing /\ OneChanger /\ PreallocInGroup /\ NothingPastEnd /\ Jobs /\ Calls

\* What a file needs to know of the allocator: a block is held by a file, or is
\* on its way in one call, and metadata is neither.
AllocPart ==
  /\ TypeOK
  /\ FileOwned \subseteq Blocks \ {0} /\ Meta \subseteq inuse
  /\ \A t \in Threads : Held(t) \cap FileOwned = {} /\ 0 \notin Held(t)

FInv == FilePart /\ AllocPart

\* The allocator does not panic; the induction of BlockAllocProofs shows it.
AllocPanicFree == \A t \in Threads : pc[t] # "panic"

\* What is known of the blocks the files hold.
LEMMA AllocFacts ==
  FInv => /\ TypeOK
          /\ FileOwned \subseteq Blocks \ {0} /\ Meta \subseteq inuse
          /\ \A t \in Threads : Held(t) \cap FileOwned = {} /\ 0 \notin Held(t)
BY Zenon DEF FInv, AllocPart
-----------------------------------------------------------------------------
(***************************************************************************)
(* What the files may do to the allocator: BlockAlloc!Next of what they    *)
(* hold.                                                                   *)
(***************************************************************************)
Asks(t) ==
  /\ \E goal \in Prefs, pre \in BOOLEAN : NewBlock(t, goal, pre)
  /\ UNCHANGED FileOwned

GivesBack(t) ==
  \E g \in Groups : \E b, e \in FileOwned \cap GroupBlocks(g) :
    /\ b <= e /\ b .. e \subseteq FileOwned
    /\ FileOwned' = FileOwned \ (b .. e)
    /\ FreeBlocks(t, b, e - b + 1)

Receives(t) == CallReturns(t) /\ FileOwned' = FileOwned \cup RetBlocks(ret[t])

Contract ==
  \/ \E t \in Threads : Asks(t) \/ GivesBack(t) \/ Receives(t) \/ (AllocStep(t) /\ UNCHANGED FileOwned)
  \/ UNCHANGED <<allocVars, FileOwned>>

-----------------------------------------------------------------------------
(***************************************************************************)
(* Steps of one thread on one file.                                        *)
(***************************************************************************)
OwnIn(db, ops, f) ==
  Nz(db[f]) \cup UNION {AsideOf(ops[u]) : u \in {v \in Threads : ops[v].f = f}}

\* Own(f), as a union over the operations on f.
LEMMA OwnIs ==
  ASSUME NEW f
  PROVE  Own(f) = OwnIn(i_db, op, f) /\ Own(f)' = OwnIn(i_db', op', f)
BY DEF Own, OwnIn, Nz, AsideOf, Asides

\* Thread t is, or is about to become, the only one that changes f.
Changer(t, f) ==
  \/ op[t].at \notin Resting /\ op[t].f = f
  \/ op[t].at = "out" /\ Changing(f) = {}

\* Nobody else's call of the allocator takes a step.
Others(t) == \A u \in Threads \ {t} : pc'[u] = pc[u] /\ req'[u] = req[u] /\ ret'[u] = ret[u]

\* Thread t goes on to operation "q"; file f gets pointers "d", size "s" and
\* preallocation "p".
StepOn(t, f, q, d, s, p) ==
  /\ op' = [op EXCEPT ![t] = q]
  /\ i_db' = [i_db EXCEPT ![f] = d]
  /\ i_size' = [i_size EXCEPT ![f] = s]
  /\ prealloc' = [prealloc EXCEPT ![f] = p]
  /\ dinode' \in [Files -> Pointers]
  /\ i_flag' \in [Files -> BOOLEAN]
  /\ Others(t)
  /\ q.at # "out" => q.f = f
  /\ JobOK(q, d, s, p)
  /\ CallOK(q, pc'[t], req'[t], ret'[t])

\* The blocks file f has after such a step.
Has(q, d, p) == Nz(d) \cup AsideOf(q) \cup Run(p)

\* What the invariant says of the file, to the only thread that changes it.
LEMMA ChangerKnows ==
  ASSUME FInv, NEW t \in Threads, NEW f \in Files, Changer(t, f)
  PROVE  /\ op[t] \in Job /\ i_db[f] \in Pointers /\ i_size[f] \in Sizes /\ prealloc[f] \in Reserve
         /\ op[t].at # "out" => op[t].f = f /\ JobOK(op[t], i_db[f], i_size[f], prealloc[f])
         /\ op[t].at = "out" => Sound(i_db[f], i_size[f])
         /\ CallOK(op[t], pc[t], req[t], ret[t])
         /\ Holds(f) = Has(op[t], i_db[f], prealloc[f])
         /\ Distinct(i_db[f])
         /\ (Nz(i_db[f]) \cup AsideOf(op[t])) \cap Run(prealloc[f]) = {}
         /\ prealloc[f].cnt > 0 => \E g \in Groups : Run(prealloc[f]) \subseteq GroupBlocks(g)
         /\ Holds(f) \subseteq FileOwned /\ 0 \notin Holds(f) /\ Holds(f) \cap Held(t) = {}
<1>1. FileTypes /\ NoSharing /\ OneChanger /\ PreallocInGroup /\ NothingPastEnd /\ Jobs /\ Calls
  BY Zenon DEF FInv, FilePart
<1>2. Holds(f) \subseteq FileOwned /\ 0 \notin Holds(f) /\ Holds(f) \cap Held(t) = {}
  BY AllocFacts DEF FileOwned, Holds
<1>3. \A u \in Threads \ {t} : op[u].f = f => op[u].at \notin Asides
  BY <1>1 DEF OneChanger, Changer, Changing, Resting, Asides
<1>4. op[t].f # f => op[t].at \notin Asides
  BY Zenon DEF Changer, Asides
<1>5. Own(f) = Nz(i_db[f]) \cup AsideOf(op[t])
  BY <1>3, <1>4, OwnIs DEF OwnIn, AsideOf
<1>6. Preallocated(f) = Run(prealloc[f])
  BY Zenon DEF Preallocated, Run
<1>7. op[t].at = "out" => Sound(i_db[f], i_size[f])
  BY <1>1, Zenon DEF Changer, NothingPastEnd, Sound, Resting
<1>8. op[t].at # "out" => op[t].f = f /\ JobOK(op[t], i_db[f], i_size[f], prealloc[f])
  BY <1>1, Zenon DEF Changer, Jobs
<1>9. op[t] \in Job /\ i_db[f] \in Pointers /\ i_size[f] \in Sizes /\ prealloc[f] \in Reserve
  BY <1>1, Zenon DEF FileTypes
<1>10. QED
  BY <1>1, <1>2, <1>5, <1>6, <1>7, <1>8, <1>9 DEF NoSharing, PreallocInGroup, Calls, Distinct, Has, Holds

\* A step of the only thread that changes f.  What f has afterwards it had
\* before or is what the allocator hands over.
LEMMA ChangerStep ==
  ASSUME FInv, NEW t \in Threads, NEW f \in Files, NEW q \in Job, NEW d \in Pointers, NEW s \in Sizes,
         NEW p \in Reserve, StepOn(t, f, q, d, s, p),
         Changer(t, f),
         q.at \in Resting => Sound(d, s),
         Distinct(d), (Nz(d) \cup AsideOf(q)) \cap Run(p) = {},
         Has(q, d, p) \subseteq Holds(f) \cup Held(t),
         p.cnt > 0 => \E g \in Groups : Run(p) \subseteq GroupBlocks(g)
  PROVE  /\ FilePart'
         /\ FileOwned' = (FileOwned \ Holds(f)) \cup Has(q, d, p)
<1>1. /\ FileTypes /\ NoSharing /\ OneChanger /\ PreallocInGroup /\ NothingPastEnd /\ Jobs /\ Calls
      /\ \A g \in Files : Holds(g) \cap Held(t) = {}
  BY AllocFacts DEF FInv, FilePart, FileOwned, Holds
<1>2. /\ op'[t] = q /\ \A u \in Threads \ {t} : op'[u] = op[u]
      /\ i_db'[f] = d /\ i_size'[f] = s /\ prealloc'[f] = p
      /\ \A g \in Files \ {f} : i_db'[g] = i_db[g] /\ i_size'[g] = i_size[g] /\ prealloc'[g] = prealloc[g]
  BY <1>1, Zenon DEF StepOn, FileTypes
<1>3. FileTypes'
  BY <1>1, Zenon DEF FileTypes, StepOn
<1>4. \A u \in Threads \ {t} : op[u].f = f => op[u].at \in Resting
  BY <1>1, Zenon DEF OneChanger, Changer, Changing, Resting
<1>5. Own(f)' = Nz(d) \cup AsideOf(q)
  <2>1. q.f # f => q.at \notin Asides
    BY Zenon DEF StepOn, Asides
  <2>2. \A u \in Threads \ {t} : op'[u].f = f => op'[u].at \notin Asides
    BY <1>2, <1>4, Zenon DEF Resting, Asides
  <2>3. OwnIn(i_db', op', f) = Nz(i_db'[f]) \cup AsideOf(op'[t])
    BY <1>2, <2>1, <2>2 DEF OwnIn, AsideOf
  <2>4. QED BY <1>2, <2>3, OwnIs, Zenon
<1>6. ASSUME NEW g \in Files \ {f} PROVE Own(g)' = Own(g)
  <2>1. q.f = g => AsideOf(q) = {}
    BY Zenon DEF StepOn, AsideOf, Asides
  <2>2. op[t].f = g => AsideOf(op[t]) = {}
    BY Zenon DEF AsideOf, Asides, Changer, Resting
  <2>3. UNION {AsideOf(op'[u]) : u \in {v \in Threads : op'[v].f = g}}
          = UNION {AsideOf(op[u]) : u \in {v \in Threads : op[v].f = g}}
    BY <1>2, <2>1, <2>2
  <2>4. QED BY <1>2, <2>3, OwnIs, Zenon DEF OwnIn
<1>7. /\ Preallocated(f)' = Run(p)
      /\ \A g \in Files \ {f} : Preallocated(g)' = Preallocated(g)
  BY <1>2, Zenon DEF Preallocated, Run
<1>8. /\ Holds(f)' = Has(q, d, p)
      /\ \A g \in Files \ {f} : Holds(g)' = Holds(g)
  BY <1>5, <1>6, <1>7, Zenon DEF Holds, Has
<1>9. NoSharing'
  <2>1. \A g \in Files : \A l, m \in Lbns : l # m /\ i_db'[g][l] # 0 => i_db'[g][l] # i_db'[g][m]
    BY <1>1, <1>2 DEF NoSharing, Distinct
  <2>2. \A g \in Files : Own(g)' \cap Preallocated(g)' = {}
    BY <1>1, <1>5, <1>6, <1>7, Zenon DEF NoSharing
  <2>3. \A g, h \in Files : g # h => Holds(g)' \cap Holds(h)' = {}
    BY <1>1, <1>8 DEF NoSharing, Holds
  <2>4. QED BY <2>1, <2>2, <2>3, Zenon DEF NoSharing, Holds
<1>10. OneChanger'
  BY <1>1, <1>2, <1>4 DEF OneChanger, Changing, Resting, StepOn
<1>11. PreallocInGroup'
  BY <1>1, <1>2, <1>7, Zenon DEF PreallocInGroup
<1>12. NothingPastEnd'
  <2>1. ASSUME NEW g \in Files, Changing(g)' = {} PROVE Sound(i_db'[g], i_size'[g])
    <3>1. CASE g = f
      <4>1. q.at \in Resting
        BY <1>2, <2>1, <3>1, Zenon DEF Changing, Resting, StepOn
      <4>2. QED BY <1>2, <3>1, <4>1, Zenon
    <3>2. CASE g # f
      <4>1. Changing(g) = {}
        BY <1>2, <2>1, <3>2 DEF Changer, Changing, Resting
      <4>2. QED BY <1>1, <1>2, <3>2, <4>1, Zenon DEF NothingPastEnd, Sound
    <3>3. QED BY <3>1, <3>2, Zenon
  <2>2. QED BY <2>1, Zenon DEF NothingPastEnd, Sound
<1>13. Jobs'
  <2>1. ASSUME NEW u \in Threads \ {t}
        PROVE  JobOK(op'[u], i_db'[op'[u].f], i_size'[op'[u].f], prealloc'[op'[u].f])
    <3>1. CASE op[u].at \in Resting
      BY <1>1, <1>2, <3>1, Zenon DEF Jobs, JobOK, Resting, Filling
    <3>2. CASE op[u].at \notin Resting
      <4>1. op[u].f \in Files \ {f}
        BY <1>1, <1>4, <3>2, Zenon DEF Jobs, JobOK, Resting
      <4>2. QED BY <1>1, <1>2, <4>1, Zenon DEF Jobs
    <3>3. QED BY <3>1, <3>2, Zenon
  <2>2. JobOK(op'[t], i_db'[op'[t].f], i_size'[op'[t].f], prealloc'[op'[t].f])
    <3>1. CASE q.at = "out"
      BY <1>2, <3>1, Zenon DEF JobOK, Filling
    <3>2. CASE q.at # "out"
      BY <1>2, <3>2 DEF StepOn
    <3>3. QED BY <3>1, <3>2, Zenon
  <2>3. QED BY <2>1, <2>2, Zenon DEF Jobs
<1>14. Calls'
  BY <1>1, <1>2 DEF Calls, StepOn, Others
<1>15. FileOwned' = (FileOwned \ Holds(f)) \cup Has(q, d, p)
  <2>1. FileOwned' = UNION {Holds(g)' : g \in Files}
    BY Zenon DEF FileOwned, Holds
  <2>2. FileOwned = UNION {Holds(g) : g \in Files}
    BY Zenon DEF FileOwned, Holds
  <2>3. \A g \in Files \ {f} : Holds(g) \cap Holds(f) = {}
    BY <1>1, Zenon DEF NoSharing, Holds
  <2>4. QED BY <1>8, <2>1, <2>2, <2>3
<1>16. QED BY <1>3, <1>9, <1>10, <1>11, <1>12, <1>13, <1>14, <1>15, Zenon DEF FilePart

\* A step that leaves pointers and sizes alone, of a thread that does not change
\* a file or keeps its place; it may discard a preallocation.
LEMMA BystanderStep ==
  ASSUME FInv, NEW t \in Threads, NEW f \in Files, NEW q \in Job, NEW p \in Reserve,
         UNCHANGED <<i_db, i_size>>, prealloc' = [prealloc EXCEPT ![f] = p],
         op' = [op EXCEPT ![t] = q],
         dinode' \in [Files -> Pointers], i_flag' \in [Files -> BOOLEAN],
         Others(t),
         \/ op[t].at \in Resting /\ q.at \in Resting /\ (q.at # "out" => q.f \in Files)
         \/ q = op[t],
         p = prealloc[f] \/ p.cnt = 0,
         CallOK(q, pc'[t], req'[t], ret'[t])
  PROVE  /\ FilePart'
         /\ FileOwned' = FileOwned \ (Preallocated(f) \ Run(p))
<1>1. /\ FileTypes /\ NoSharing /\ OneChanger /\ PreallocInGroup /\ NothingPastEnd /\ Jobs /\ Calls
  BY Zenon DEF FInv, FilePart
<1>2. /\ op'[t] = q /\ \A u \in Threads \ {t} : op'[u] = op[u]
      /\ prealloc'[f] = p
      /\ \A g \in Files \ {f} : prealloc'[g] = prealloc[g]
  BY <1>1, Zenon DEF FileTypes
<1>3. FileTypes'
  BY <1>1, Zenon DEF FileTypes
<1>4. ASSUME NEW g \in Files PROVE Own(g)' = Own(g) /\ Changing(g)' = Changing(g)
  <2>1. CASE q = op[t]
    <3>1. op' = op
      BY <1>1, <2>1, Zenon DEF FileTypes
    <3>2. QED BY <3>1 DEF Own, Changing
  <2>2. CASE op[t].at \in Resting /\ q.at \in Resting
    <3>1. AsideOf(op[t]) = {} /\ AsideOf(q) = {}
      BY <2>2, Zenon DEF AsideOf, Asides, Resting
    <3>2. UNION {AsideOf(op'[u]) : u \in {v \in Threads : op'[v].f = g}}
            = UNION {AsideOf(op[u]) : u \in {v \in Threads : op[v].f = g}}
      BY <1>2, <3>1
    <3>3. Own(g)' = Own(g)
      <4>1. i_db' = i_db
        BY Zenon
      <4>2. OwnIn(i_db', op', g) = OwnIn(i_db, op, g)
        BY <3>2, <4>1, Zenon DEF OwnIn
      <4>3. QED BY <4>2, OwnIs, Zenon
    <3>4. Changing(g)' = Changing(g)
      BY <1>2, <2>2, Zenon DEF Changing, Resting
    <3>5. QED BY <3>3, <3>4, Zenon
  <2>3. QED BY <2>1, <2>2, Zenon
<1>5. \/ Run(p) = Preallocated(f)
      \/ Run(p) = {}
  BY <1>1 DEF Run, Preallocated, Reserve
<1>6. /\ Preallocated(f)' = Run(p) /\ Run(p) \subseteq Preallocated(f)
      /\ \A g \in Files \ {f} : Preallocated(g)' = Preallocated(g)
  BY <1>2, <1>5, Zenon DEF Preallocated, Run
<1>7. NoSharing'
  <2>1. \A g \in Files : Own(g)' = Own(g) /\ Preallocated(g)' \subseteq Preallocated(g)
    BY <1>4, <1>6, Zenon
  <2>2. QED BY <1>1, <2>1 DEF NoSharing
<1>8. OneChanger' /\ NothingPastEnd'
  BY <1>1, <1>4 DEF OneChanger, NothingPastEnd
<1>9. PreallocInGroup'
  BY <1>1, <1>2, <1>6 DEF PreallocInGroup, Reserve
<1>10. Jobs'
  <2>1. ASSUME NEW u \in Threads PROVE JobOK(op[u], i_db[op[u].f], i_size[op[u].f], prealloc'[op[u].f])
    <3>1. CASE op[u].f \in Files
      <4>1. prealloc'[op[u].f] = prealloc[op[u].f] \/ prealloc'[op[u].f].cnt = 0
        BY <1>2, <3>1, Zenon
      <4>2. QED BY <1>1, <4>1, Zenon DEF Jobs, JobOK
    <3>2. CASE op[u].f \notin Files
      BY <1>1, <3>2, Zenon DEF Jobs, JobOK, Filling
    <3>3. QED BY <3>1, <3>2, Zenon
  <2>2. q.at \in Resting /\ (q.at # "out" => q.f \in Files)
          => JobOK(q, i_db[q.f], i_size[q.f], prealloc'[q.f])
    BY Zenon DEF JobOK, Resting, Filling
  <2>3. QED BY <1>2, <2>1, <2>2, Zenon DEF Jobs
<1>11. Calls'
  BY <1>1, <1>2 DEF Calls, Others
<1>12. FileOwned' = FileOwned \ (Preallocated(f) \ Run(p))
  <2>1. FileOwned' = UNION {Own(g) \cup Preallocated(g)' : g \in Files}
    BY <1>4, Zenon DEF FileOwned
  <2>2. \A g \in Files : Own(g) \cap Preallocated(f) = {}
    BY <1>1, Zenon DEF NoSharing
  <2>3. \A g \in Files \ {f} : Preallocated(g) \cap Preallocated(f) = {}
    BY <1>1, Zenon DEF NoSharing
  <2>4. QED BY <1>6, <2>1, <2>2, <2>3 DEF FileOwned
<1>13. QED BY <1>3, <1>7, <1>8, <1>9, <1>10, <1>11, <1>12, Zenon DEF FilePart
-----------------------------------------------------------------------------
(***************************************************************************)
(* The calls of the allocator.                                             *)
(***************************************************************************)
\* A call of ext2_new_block: it goes for a bitmap, or fails at once.
LEMMA NewBlockEffect ==
  ASSUME TypeOK, NEW t \in Threads, NEW goal, NEW pre \in BOOLEAN, NewBlock(t, goal, pre)
  PROVE  /\ Others(t)
         /\ \/ pc'[t] \in {"goalread", "scanread"} /\ (req'[t].pre <=> pre)
            \/ pc'[t] = "done" /\ ret'[t] = NoRet
<1> USE DEF TypeOK, Goto, Others
<1>1. PICK i \in Groups :
        \/ /\ req' = [req EXCEPT ![t] = [grp |-> i, bit |-> req'[t].bit, cnt |-> 0, pre |-> pre]]
           /\ Goto(t, "goalread")
           /\ UNCHANGED ret
        \/ ScanFrom(t, i, pre)
  BY DEF NewBlock
<1>2. ASSUME ScanFrom(t, i, pre)
      PROVE  \/ /\ \E k : req' = [req EXCEPT ![t] = [grp |-> k, bit |-> 0, cnt |-> 0, pre |-> pre]]
                /\ Goto(t, "scanread")
                /\ UNCHANGED ret
             \/ /\ ret' = [ret EXCEPT ![t] = NoRet]
                /\ Goto(t, "done")
                /\ UNCHANGED req
  BY <1>2, Zenon DEF ScanFrom
<1>3. QED BY <1>1, <1>2

\* A call of ext2_free_blocks for a run inside a group: it goes for the bitmap.
LEMMA FreeBlocksEffect ==
  ASSUME TypeOK, NEW t \in Threads, NEW b \in Nat, NEW n \in Nat \ {0}, NEW g \in Groups,
         b .. b + n - 1 \subseteq GroupBlocks(g), FreeBlocks(t, b, n)
  PROVE  Others(t) /\ pc'[t] = "freeread" /\ ret'[t].blk = 0
<1>1. b \in GroupBlocks(g) /\ b + n - 1 \in GroupBlocks(g)
  OBVIOUS
<1>2. b \in Blocks /\ ~(b + n > BlocksCount) /\ ~(b + n > Blk(g, BlocksPerGroup))
  BY <1>1 DEF GroupBlocks, Blocks, Blk, Groups
<1>3. PICK h \in Groups :
        /\ b \in GroupBlocks(h)
        /\ req' = [req EXCEPT ![t] = [grp |-> h, bit |-> b - Blk(h, 0), cnt |-> n, pre |-> FALSE]]
        /\ Goto(t, IF b + n > Blk(h, BlocksPerGroup) THEN "panic" ELSE "freeread")
  BY <1>2, Zenon DEF FreeBlocks
<1>4. h = g
  <2>1. g # h => GroupBlocks(g) \cap GroupBlocks(h) = {}
    BY GroupsDisjoint, Zenon
  <2>2. QED BY <1>1, <1>3, <2>1, Zenon
<1>5. pc' = [pc EXCEPT ![t] = "freeread"] /\ ret' = [ret EXCEPT ![t] = NoRet]
  BY <1>2, <1>3, <1>4, Zenon DEF FreeBlocks, Goto
<1>6. QED BY <1>3, <1>5, Zenon DEF TypeOK, Others, NoRet

\* A call that returns leaves the thread outside the allocator.
LEMMA CallReturnsEffect ==
  ASSUME TypeOK, NEW t \in Threads, CallReturns(t)
  PROVE  Others(t) /\ pc'[t] = "idle" /\ (ret[t].blk = 0 => RetBlocks(ret[t]) = {}) /\ Held(t) = RetBlocks(ret[t])
BY Zenon DEF TypeOK, CallReturns, Goto, Others, RetBlocks, Held

\* ext2_discard_prealloc gives back what it finds preallocated.
LEMMA DiscardEffect ==
  ASSUME FInv, NEW t \in Threads, NEW f \in Files, Discard(t, f)
  PROVE  /\ Others(t) /\ pc'[t] = "freeread" /\ ret'[t].blk = 0
         /\ prealloc' = [prealloc EXCEPT ![f] = [prealloc[f] EXCEPT !.cnt = 0]]
         /\ [prealloc[f] EXCEPT !.cnt = 0] \in Reserve
         /\ Run([prealloc[f] EXCEPT !.cnt = 0]) = {}
         /\ FileOwned' = FileOwned \ Preallocated(f) => GivesBack(t)
<1> DEFINE p == prealloc[f]
           b == p.blk
           e == p.blk + p.cnt - 1
<1>1. TypeOK /\ p \in Reserve /\ b \in Nat /\ p.cnt \in Nat \ {0} /\ FreeBlocks(t, b, p.cnt)
  BY AllocFacts DEF FInv, FilePart, FileTypes, Reserve, Discard
<1>2. PICK g \in Groups : Preallocated(f) \subseteq GroupBlocks(g)
  BY <1>1 DEF FInv, FilePart, PreallocInGroup
<1>3. Preallocated(f) = b .. e /\ b <= e /\ b \in b .. e /\ e \in b .. e /\ e - b + 1 = p.cnt
  BY <1>1 DEF Preallocated
<1>4. Others(t) /\ pc'[t] = "freeread" /\ ret'[t].blk = 0
  BY <1>1, <1>2, <1>3, FreeBlocksEffect, Zenon
<1>5. prealloc' = [prealloc EXCEPT ![f] = [prealloc[f] EXCEPT !.cnt = 0]]
  BY Zenon DEF Discard
<1>6. [p EXCEPT !.cnt = 0] \in Reserve /\ Run([p EXCEPT !.cnt = 0]) = {}
  BY <1>1 DEF Reserve, Run
<1>7. Preallocated(f) \subseteq FileOwned
  BY DEF FileOwned
<1>8. ASSUME FileOwned' = FileOwned \ Preallocated(f) PROVE GivesBack(t)
  <2>1. /\ b \in FileOwned \cap GroupBlocks(g) /\ e \in FileOwned \cap GroupBlocks(g)
        /\ b <= e /\ b .. e \subseteq FileOwned
        /\ FileOwned' = FileOwned \ (b .. e)
        /\ FreeBlocks(t, b, e - b + 1)
    BY <1>1, <1>2, <1>3, <1>7, <1>8, Zenon
  <2> HIDE DEF b, e
  <2>2. QED BY <2>1, Zenon DEF GivesBack
<1>9. QED BY <1>4, <1>5, <1>6, <1>8, Zenon

\* A block found clear, with the clear ones after it, lies in the group.
LEMMA CommitEffect ==
  ASSUME FInv, NEW t \in Threads, NEW g \in Groups, NEW j \in Zero(g), Commit(t, g, j), pc'[t] # "panic"
  PROVE  /\ Others(t) /\ pc'[t] = "write"
         /\ RetBlocks(ret'[t]) \subseteq GroupBlocks(g)
         /\ ret'[t].blk # 0
         /\ req[t].pre => ret'[t].pset /\ ret'[t].pblk = ret'[t].blk + 1
         /\ ~req[t].pre => ret'[t].pcnt = 0
<1>1. TypeOK /\ Meta \subseteq inuse
  BY AllocFacts, Zenon
<1>2. PICK n \in 0 .. PreallocGoal - 1 :
        /\ IF req[t].pre THEN IsPrealloc(g, j, n) ELSE n = 0
        /\ ret' = [ret EXCEPT ![t] =
                     [blk  |-> Blk(g, j), pset |-> req[t].pre,
                      pblk |-> IF req[t].pre THEN Blk(g, j) + 1 ELSE 0, pcnt |-> n]]
        /\ Goto(t, IF Blk(g, j) \in Meta THEN "panic" ELSE "write")
        /\ UNCHANGED req
  BY Zenon DEF Commit
<1>3. n \in Nat /\ (j + 1) .. (j + n) \subseteq Zero(g)
  BY <1>2 DEF IsPrealloc, Zero, Bits
<1>4. (Blk(g, j) .. Blk(g, j) + n) \subseteq GroupBlocks(g)
  BY <1>3, RunIsFree, Zenon
<1>5. Blk(g, j) # 0
  BY <1>1, Zenon DEF Zero
<1>6. /\ ret'[t].blk = Blk(g, j) /\ ret'[t].pcnt = n /\ ret'[t].pset = req[t].pre
      /\ req[t].pre => ret'[t].pblk = Blk(g, j) + 1
  BY <1>1, <1>2, Zenon DEF TypeOK
<1>7. Others(t) /\ pc'[t] = "write"
  BY <1>1, <1>2, Zenon DEF TypeOK, Others, Goto
<1>8. QED BY <1>2, <1>4, <1>5, <1>6, <1>7, Zenon DEF RetBlocks

\* The steps inside a call of the allocator.
LEMMA BitmapStepInv ==
  ASSUME FInv, NEW t \in Threads, BitmapStep(t)
  PROVE  Contract /\ (AllocPanicFree' => FilePart')
<1> DEFINE o == op[t]
<1>1. /\ TypeOK /\ FileTypes /\ CallOK(o, pc[t], req[t], ret[t])
      /\ AllocStep(t) /\ UNCHANGED <<i_db, i_size, prealloc, i_flag, dinode, op>>
  BY AllocFacts, Zenon DEF FInv, FilePart, Calls, BitmapStep, fileVars
<1>2. FileOwned' = FileOwned
  BY <1>1 DEF FileOwned, Own, Preallocated
<1>3. Contract
  BY <1>1, <1>2, Zenon DEF Contract
<1> SUFFICES ASSUME AllocPanicFree' PROVE FilePart'
  BY <1>3, Zenon
<1>4. pc'[t] # "panic"
  BY Zenon DEF AllocPanicFree
<1>5. pc[t] # "idle"
  BY <1>1, Zenon DEF AllocStep, ReadBitmap, GoalSearch, ScanSearch, FreeBits, ReleaseBitmap, Waiting
<1>6. o.f \in Files
  BY <1>1, <1>5, Zenon DEF CallOK, FInv, FilePart, Jobs, JobOK
<1>7. Others(t) /\ CallOK(o, pc'[t], req'[t], ret'[t])
  <2> USE DEF TypeOK, Others, Goto
  <2>1. CASE ReadBitmap(t)
    <3>1. /\ req'[t] = req[t] /\ ret'[t] = ret[t] /\ Others(t)
          /\ \/ pc[t] = "goalread" /\ pc'[t] = "goal"
             \/ pc[t] = "scanread" /\ pc'[t] = "scan"
             \/ pc[t] = "freeread" /\ pc'[t] = "free"
      BY <1>1, <2>1, Zenon DEF ReadBitmap, Waiting
    <3>2. QED BY <1>1, <3>1, Zenon DEF CallOK
  <2>2. CASE ReleaseBitmap(t)
    <3>1. req'[t] = req[t] /\ ret'[t] = ret[t] /\ Others(t) /\ pc[t] = "write" /\ pc'[t] = "done"
      BY <1>1, <2>2, Zenon DEF ReleaseBitmap
    <3>2. QED BY <1>1, <3>1, Zenon DEF CallOK
  <2>3. CASE FreeBits(t)
    <3>1. req'[t] = req[t] /\ ret'[t] = ret[t] /\ Others(t) /\ pc[t] = "free" /\ pc'[t] = "write"
      BY <1>1, <1>4, <2>3, Zenon DEF FreeBits
    <3>2. QED BY <1>1, <3>1, Zenon DEF CallOK
  <2>4. ASSUME NEW g \in Groups, NEW j \in Zero(g), pc[t] \in {"goal", "scan"}, Commit(t, g, j)
        PROVE  Others(t) /\ CallOK(o, pc'[t], req'[t], ret'[t])
    BY <1>1, <1>4, <2>4, CommitEffect, Zenon DEF CallOK
  <2>5. req[t].grp \in Groups /\ req[t].bit \in Bits /\ req[t].pre \in BOOLEAN
    BY <1>1, Zenon DEF Req
  <2>6. CASE ScanSearch(t)
    <3>1. SearchGroup(req[t].grp, 0) \subseteq Zero(req[t].grp)
      BY <2>5, SearchGroupFindsZero, Zenon
    <3>2. ASSUME pc[t] = "scan", pc'[t] = "write", ret'[t] = NoRet
          PROVE  CallOK(o, pc'[t], req'[t], ret'[t])
      BY <1>1, <3>2 DEF CallOK, NoRet
    <3>3. QED BY <1>1, <2>4, <2>5, <2>6, <3>1, <3>2, Zenon DEF ScanSearch
  <2>7. CASE GoalSearch(t)
    <3>1. SearchGoal(req[t].grp, req[t].bit) \subseteq Zero(req[t].grp)
      BY <2>5, SearchGoalFindsZero, Zenon
    <3>2. ASSUME ScanFrom(t, req[t].grp, req[t].pre), pc[t] = "goal"
          PROVE  Others(t) /\ CallOK(o, pc'[t], req'[t], ret'[t])
      <4>1. \/ /\ \E k : req' = [req EXCEPT ![t] = [grp |-> k, bit |-> 0, cnt |-> 0, pre |-> req[t].pre]]
               /\ pc' = [pc EXCEPT ![t] = "scanread"]
               /\ UNCHANGED ret
            \/ /\ ret' = [ret EXCEPT ![t] = NoRet]
               /\ pc' = [pc EXCEPT ![t] = "done"]
               /\ UNCHANGED req
        BY <3>2, Zenon DEF ScanFrom
      <4>2. /\ Others(t)
            /\ \/ pc'[t] = "scanread" /\ req'[t].pre = req[t].pre
               \/ pc'[t] = "done" /\ ret'[t] = NoRet
        BY <1>1, <4>1
      <4>3. QED BY <1>1, <3>2, <4>2 DEF CallOK, NoRet
    <3>3. QED BY <2>4, <2>5, <2>7, <3>1, <3>2, Zenon DEF GoalSearch
  <2>8. QED BY <1>1, <2>1, <2>2, <2>3, <2>6, <2>7, Zenon DEF AllocStep
<1>8. /\ prealloc[o.f] \in Reserve /\ o \in Job
      /\ prealloc' = [prealloc EXCEPT ![o.f] = prealloc[o.f]]
      /\ op' = [op EXCEPT ![t] = o]
      /\ dinode' \in [Files -> Pointers] /\ i_flag' \in [Files -> BOOLEAN]
  BY <1>1, <1>6, Zenon DEF FileTypes
<1>9. QED BY <1>1, <1>6, <1>7, <1>8, BystanderStep, Zenon
-----------------------------------------------------------------------------
(***************************************************************************)
(* ext2_balloc2.                                                           *)
(***************************************************************************)
\* Filling a hole in an array of pointers.
LEMMA FillHole ==
  ASSUME NEW d \in Pointers, NEW e \in Pointers, NEW l \in Lbns, NEW b \in Blocks \ {0},
         d[l] = 0, e[l] = b, \A m \in Lbns \ {l} : e[m] = d[m]
  PROVE  /\ Nz(e) = Nz(d) \cup {b}
         /\ Distinct(d) /\ b \notin Nz(d) => Distinct(e)
<1>1. Nz(e) = Nz(d) \cup {b}
  BY Zenon DEF Nz
<1>2. Distinct(d) /\ b \notin Nz(d) => Distinct(e)
  BY Zenon DEF Nz, Distinct
<1>3. QED BY <1>1, <1>2, Zenon

\* No pointers.
LEMMA EmptyPointers == Empty \in Pointers /\ Nz(Empty) = {} /\ \A l \in Lbns : Empty[l] = 0
BY Zenon DEF Empty, Pointers, Nz

\* An operation changes its place only.
LEMMA SetAt ==
  ASSUME NEW o \in Job, NEW a \in Places, NEW q, q = [o EXCEPT !.at = a]
  PROVE  /\ q \in Job /\ q.at = a /\ q.f = o.f /\ q.lbn = o.lbn /\ q.osize = o.osize /\ q.end = o.end
         /\ q.old = o.old /\ (q.grow <=> o.grow)
BY Zenon DEF Job

\* Thread t may ask for block o.lbn of its file: the file is sound, and what the
\* operation knows of its size still holds.
Ready(t, o) ==
  /\ o \in Job /\ o.f \in Files /\ Changer(t, o.f) /\ op[t].at \notin Asides
  /\ o.lbn \in Lbns /\ Sound(i_db[o.f], i_size[o.f])
  /\ o.grow => i_size[o.f] <= o.lbn
  /\ ~o.grow => o.lbn < o.end /\ (i_size[o.f] <= o.osize \/ i_size[o.f] <= o.lbn)

\* A block that is the file's preallocated one or comes from the allocator
\* becomes the file's.
LEMMA StoreInv ==
  ASSUME FInv, NEW t \in Threads, NEW o, Ready(t, o), i_db[o.f][o.lbn] = 0,
         NEW b \in Blocks \ {0}, NEW p \in Reserve, Store(t, o, b),
         prealloc' = [prealloc EXCEPT ![o.f] = p], UNCHANGED dinode, Others(t), pc'[t] = "idle",
         b \notin Nz(i_db[o.f]), b \notin Run(p), Nz(i_db[o.f]) \cap Run(p) = {},
         {b} \cup Run(p) \subseteq Run(prealloc[o.f]) \cup Held(t),
         p.cnt > 0 => \E g \in Groups : Run(p) \subseteq GroupBlocks(g)
  PROVE  FilePart' /\ FileOwned' = (FileOwned \ Holds(o.f)) \cup Nz(i_db[o.f]) \cup {b} \cup Run(p)
<1> DEFINE f == o.f
           d == i_db[f]
           s == i_size[f]
<1>1. /\ o \in Job /\ f \in Files /\ Changer(t, f) /\ o.lbn \in Lbns /\ Sound(d, s)
      /\ AsideOf(op[t]) = {}
  BY Zenon DEF Ready, AsideOf
<1>2. /\ d \in Pointers /\ s \in Sizes /\ Distinct(d)
      /\ Holds(f) = Nz(d) \cup Run(prealloc[f])
  BY <1>1, ChangerKnows DEF Has
<1>3. FileTypes
  BY Zenon DEF FInv, FilePart
<1>4. i_flag' \in [Files -> BOOLEAN] /\ dinode' \in [Files -> Pointers]
  BY <1>3, Zenon DEF FileTypes, Store
<1>5. CASE o.grow
  <2>1. PICK old : old = [Empty EXCEPT ![o.lbn] = b]
    BY Zenon
  <2>2. /\ old \in Pointers /\ Nz(old) = {b} /\ old[o.lbn] = b /\ \A l \in Lbns \ {o.lbn} : old[l] = 0
    <3>1. old \in Pointers /\ old[o.lbn] = b /\ \A l \in Lbns \ {o.lbn} : old[l] = 0
      BY <1>1, <2>1, EmptyPointers, Zenon DEF Pointers
    <3>2. Nz(old) = {b}
      BY <1>1, <3>1, EmptyPointers, FillHole
    <3>3. QED BY <3>1, <3>2, Zenon
  <2>3. PICK o1 : o1 = [o EXCEPT !.old = old]
    BY Zenon
  <2>4. o1 \in Job /\ o1.f = f /\ o1.lbn = o.lbn /\ o1.old = old /\ o1.grow
    BY <1>1, <1>5, <2>2, <2>3, Zenon DEF Job
  <2>5. PICK q : q = [o1 EXCEPT !.at = "lbuf"]
    BY Zenon
  <2>6. q \in Job /\ q.at = "lbuf" /\ q.f = f /\ q.lbn = o.lbn /\ q.old = old /\ q.grow
    BY <2>4, <2>5, SetAt DEF Places
  <2>7. op' = [op EXCEPT ![t] = q] /\ UNCHANGED <<i_db, i_size>>
    BY <1>5, <2>1, <2>3, <2>4, <2>5, Zenon DEF Store, Allotted
  <2>8. i_db' = [i_db EXCEPT ![f] = d] /\ i_size' = [i_size EXCEPT ![f] = s]
    BY <1>3, <2>7, Zenon DEF FileTypes
  <2>9. JobOK(q, d, s, p)
    <3>1. \A m \in Lbns : d[m] # b
      BY Zenon DEF Nz
    <3>2. s <= o.lbn
      BY <1>5, Zenon DEF Ready
    <3>3. QED BY <1>1, <2>2, <2>6, <3>1, <3>2, Zenon DEF JobOK, Filling
  <2>10. StepOn(t, f, q, d, s, p)
    BY <1>4, <2>6, <2>7, <2>8, <2>9, Zenon DEF StepOn, CallOK
  <2>11. AsideOf(q) = {b}
    BY <2>2, <2>6, Zenon DEF AsideOf, Asides
  <2>12. Has(q, d, p) = Nz(d) \cup {b} \cup Run(p) /\ Has(q, d, p) \subseteq Holds(f) \cup Held(t)
    BY <1>2, <2>11, Zenon DEF Has
  <2>13. q.at \notin Resting /\ (Nz(d) \cup AsideOf(q)) \cap Run(p) = {}
    BY <2>6, <2>11, Zenon DEF Resting
  <2>14. FilePart' /\ FileOwned' = (FileOwned \ Holds(f)) \cup Has(q, d, p)
    BY <1>1, <1>2, <2>6, <2>10, <2>12, <2>13, ChangerStep
  <2>15. QED BY <2>12, <2>14, Zenon
<1>6. CASE ~o.grow
  <2>1. PICK e : e = [d EXCEPT ![o.lbn] = b]
    BY Zenon
  <2>2. /\ e \in Pointers /\ Nz(e) = Nz(d) \cup {b} /\ Distinct(e) /\ e[o.lbn] = b
        /\ \A m \in Lbns \ {o.lbn} : e[m] = d[m]
    <3>1. e \in Pointers /\ e[o.lbn] = b /\ \A m \in Lbns \ {o.lbn} : e[m] = d[m]
      BY <1>1, <1>2, <2>1, Zenon DEF Pointers
    <3>2. Nz(e) = Nz(d) \cup {b} /\ Distinct(e)
      BY <1>1, <1>2, <3>1, FillHole
    <3>3. QED BY <3>1, <3>2, Zenon
  <2>3. PICK z : z = IF o.lbn >= s THEN o.lbn + 1 ELSE s
    BY Zenon
  <2>4. z \in Sizes /\ o.lbn < z /\ s <= z /\ (z = s \/ z = o.lbn + 1)
    BY <1>1, <1>2, <2>3 DEF Sizes, Lbns
  <2>5. PICK q : q = [o EXCEPT !.at = IF o.lbn + 1 < o.end THEN "wnext" ELSE "wdata"]
    BY Zenon
  <2>6. /\ q \in Job /\ q.at = (IF o.lbn + 1 < o.end THEN "wnext" ELSE "wdata")
        /\ q.f = f /\ q.lbn = o.lbn /\ q.osize = o.osize /\ q.end = o.end /\ ~q.grow
    BY <1>1, <1>6, <2>5, SetAt DEF Places
  <2>7. op' = [op EXCEPT ![t] = q] /\ i_db' = [i_db EXCEPT ![f] = e] /\ i_size' = [i_size EXCEPT ![f] = z]
    BY <1>6, <2>1, <2>3, <2>5, Zenon DEF Store, Allotted
  <2>8. JobOK(q, e, z, p)
    <3>1. Sound(e, z)
      BY <1>1, <1>2, <2>2, <2>4 DEF Sound, Sizes, Lbns
    <3>2. o.lbn < o.end /\ (s <= o.osize \/ s <= o.lbn)
      BY <1>6, Zenon DEF Ready
    <3>3. o.lbn \in Int /\ o.end \in Int /\ s \in Int /\ o.osize \in Int /\ z \in Int
      BY <1>1, <1>2, <2>4 DEF Sizes, Lbns, Job
    <3>4. z <= o.osize \/ z <= o.lbn + 1
      BY <2>4, <3>2, <3>3
    <3>5. CASE o.lbn + 1 < o.end
      BY <1>1, <2>6, <3>1, <3>4, <3>5, Zenon DEF JobOK, Filling
    <3>6. CASE ~(o.lbn + 1 < o.end)
      <4>1. o.end = o.lbn + 1
        BY <3>2, <3>3, <3>6
      <4>2. QED BY <1>1, <2>6, <3>1, <3>4, <3>6, <4>1, Zenon DEF JobOK, Filling
    <3>7. QED BY <3>5, <3>6, Zenon
  <2>9. q.at \in {"wnext", "wdata"} /\ q.at \notin Resting /\ AsideOf(q) = {}
    BY <2>6, Zenon DEF Resting, AsideOf, Asides
  <2>10. StepOn(t, f, q, e, z, p)
    BY <1>4, <2>6, <2>7, <2>8, <2>9, Zenon DEF StepOn, CallOK
  <2>11. Has(q, e, p) = Nz(d) \cup {b} \cup Run(p) /\ Has(q, e, p) \subseteq Holds(f) \cup Held(t)
    BY <1>2, <2>2, <2>9, Zenon DEF Has
  <2>12. (Nz(e) \cup AsideOf(q)) \cap Run(p) = {}
    BY <2>2, <2>9, Zenon
  <2>13. FilePart' /\ FileOwned' = (FileOwned \ Holds(f)) \cup Has(q, e, p)
    BY <1>1, <2>2, <2>4, <2>6, <2>9, <2>10, <2>11, <2>12, ChangerStep
  <2>14. QED BY <2>11, <2>13, Zenon
<1>7. QED BY <1>5, <1>6, Zenon

\* A step that leaves the blocks of the file where they are.
LEMMA SameBlocksStep ==
  ASSUME FInv, NEW t \in Threads, NEW f \in Files, NEW q \in Job, NEW s \in Sizes, NEW p \in Reserve,
         Changer(t, f), Others(t),
         op' = [op EXCEPT ![t] = q], UNCHANGED i_db, i_size' = [i_size EXCEPT ![f] = s],
         prealloc' = [prealloc EXCEPT ![f] = p],
         dinode' \in [Files -> Pointers], i_flag' \in [Files -> BOOLEAN],
         p = prealloc[f] \/ (p.cnt = 0 /\ prealloc[f].cnt = 0),
         q.at # "out" => q.f = f, AsideOf(q) = AsideOf(op[t]),
         q.at \in Resting => Sound(i_db[f], s),
         JobOK(q, i_db[f], s, p), CallOK(q, pc'[t], req'[t], ret'[t])
  PROVE  FilePart' /\ FileOwned' = FileOwned
<1> DEFINE d == i_db[f]
<1>1. /\ d \in Pointers /\ prealloc[f] \in Reserve /\ Distinct(d)
      /\ Holds(f) = Has(op[t], d, prealloc[f]) /\ Holds(f) \subseteq FileOwned
      /\ (Nz(d) \cup AsideOf(op[t])) \cap Run(prealloc[f]) = {}
      /\ prealloc[f].cnt > 0 => \E g \in Groups : Run(prealloc[f]) \subseteq GroupBlocks(g)
  BY ChangerKnows, Zenon
<1>2. Run(p) = Run(prealloc[f]) /\ (p.cnt > 0 => prealloc[f].cnt > 0)
  BY <1>1 DEF Run, Reserve
<1>3. i_db' = [i_db EXCEPT ![f] = d]
  BY Zenon DEF FInv, FilePart, FileTypes
<1>4. StepOn(t, f, q, d, s, p)
  BY <1>3, Zenon DEF StepOn
<1>5. Has(q, d, p) = Holds(f)
  BY <1>1, <1>2, Zenon DEF Has
<1>6. (Nz(d) \cup AsideOf(q)) \cap Run(p) = {} /\ (p.cnt > 0 => \E g \in Groups : Run(p) \subseteq GroupBlocks(g))
  BY <1>1, <1>2, Zenon
<1>7. d \in Pointers /\ Distinct(d) /\ Has(q, d, p) \subseteq Holds(f) \cup Held(t)
  BY <1>1, <1>5, Zenon
<1>8. FilePart' /\ FileOwned' = (FileOwned \ Holds(f)) \cup Has(q, d, p)
  BY <1>4, <1>6, <1>7, ChangerStep, Zenon
<1>9. QED BY <1>1, <1>5, <1>8, Zenon

\* A step that starts to discard the preallocation.
LEMMA DiscardStep ==
  ASSUME FInv, NEW t \in Threads, NEW f \in Files, NEW q \in Job, Changer(t, f), Discard(t, f),
         op' = [op EXCEPT ![t] = q], UNCHANGED <<i_db, i_size, i_flag, dinode>>,
         q.f = f, q.at \in {"wdisc", "ldisc", "tdisc"}, op[t].at \notin Asides,
         \A p \in Reserve : p.cnt = 0 => JobOK(q, i_db[f], i_size[f], p)
  PROVE  FilePart' /\ Contract
<1> DEFINE d == i_db[f]
           s == i_size[f]
<1>1. PICK p : p = [prealloc[f] EXCEPT !.cnt = 0]
  BY Zenon
<1>2. /\ Others(t) /\ pc'[t] = "freeread" /\ ret'[t].blk = 0
      /\ prealloc' = [prealloc EXCEPT ![f] = p] /\ p \in Reserve /\ Run(p) = {}
      /\ FileOwned' = FileOwned \ Preallocated(f) => GivesBack(t)
  BY <1>1, DiscardEffect, Zenon
<1>3. p.cnt = 0
  BY <1>1, ChangerKnows, Zenon DEF Reserve
<1>4. /\ d \in Pointers /\ s \in Sizes /\ prealloc[f] \in Reserve /\ Distinct(d)
      /\ Holds(f) = Has(op[t], d, prealloc[f]) /\ Holds(f) \subseteq FileOwned
      /\ (Nz(d) \cup AsideOf(op[t])) \cap Run(prealloc[f]) = {}
  BY ChangerKnows, Zenon
<1>5. AsideOf(q) = {} /\ AsideOf(op[t]) = {} /\ q.at \notin Resting
  BY Zenon DEF AsideOf, Asides, Resting
<1>6. /\ i_db' = [i_db EXCEPT ![f] = d] /\ i_size' = [i_size EXCEPT ![f] = s]
      /\ dinode' \in [Files -> Pointers] /\ i_flag' \in [Files -> BOOLEAN]
  BY Zenon DEF FInv, FilePart, FileTypes
<1>7. CallOK(q, pc'[t], req'[t], ret'[t])
  BY <1>2, Zenon DEF CallOK
<1>8. JobOK(q, d, s, p)
  BY <1>2, <1>3, Zenon
<1>9. StepOn(t, f, q, d, s, p)
  BY <1>2, <1>6, <1>7, <1>8, Zenon DEF StepOn
<1>10. Has(q, d, p) = Nz(d) /\ Holds(f) = Nz(d) \cup Run(prealloc[f]) /\ (Nz(d) \cup AsideOf(q)) \cap Run(p) = {}
  BY <1>2, <1>4, <1>5, Zenon DEF Has
<1>11. FilePart' /\ FileOwned' = (FileOwned \ Holds(f)) \cup Has(q, d, p)
  BY <1>2, <1>3, <1>4, <1>5, <1>9, <1>10, ChangerStep
<1>12. FileOwned' = FileOwned \ Preallocated(f)
  BY <1>4, <1>5, <1>10, <1>11, Zenon DEF Preallocated, Run
<1>13. QED BY <1>2, <1>11, <1>12, Zenon DEF Contract

\* ext2_balloc2 gives up for lack of space.
LEMMA FailInv ==
  ASSUME FInv, NEW t \in Threads, NEW o, Ready(t, o), Fail(t, o), NEW p \in Reserve,
         prealloc' = [prealloc EXCEPT ![o.f] = p], p = prealloc[o.f] \/ (p.cnt = 0 /\ prealloc[o.f].cnt = 0),
         UNCHANGED dinode, Others(t), pc'[t] = "idle"
  PROVE  FilePart' /\ FileOwned' = FileOwned
<1> DEFINE f == o.f
           s == i_size[f]
<1>1. /\ o \in Job /\ f \in Files /\ Changer(t, f) /\ o.lbn \in Lbns /\ Sound(i_db[f], s)
      /\ AsideOf(op[t]) = {} /\ s \in Sizes
  BY ChangerKnows, Zenon DEF Ready, AsideOf
<1>2. PICK q : q = IF o.grow THEN Idle ELSE [o EXCEPT !.at = "wdata", !.end = o.lbn]
  BY Zenon
<1>3. o.grow => q \in Job /\ q.at = "out"
  BY <1>2, EmptyPointers DEF Idle, Job, Places, Sizes
<1>4. ~o.grow => /\ q \in Job /\ q.at = "wdata" /\ q.end = o.lbn /\ q.f = f /\ q.lbn = o.lbn
                 /\ q.osize = o.osize /\ ~q.grow
  BY <1>1, <1>2, Zenon DEF Job, Places, Sizes, Lbns
<1>5. JobOK(q, i_db[f], s, p)
  <2>1. CASE o.grow
    BY <1>3, <2>1, Zenon DEF JobOK, Filling
  <2>2. CASE ~o.grow
    <3>1. s <= o.osize \/ s <= o.lbn + 1
      BY <1>1, <2>2 DEF Ready, Job, Sizes, Lbns
    <3>2. QED BY <1>1, <1>4, <2>2, <3>1, Zenon DEF JobOK, Filling
  <2>3. QED BY <2>1, <2>2, Zenon
<1>6. /\ q \in Job /\ q.at \in {"out", "wdata"} /\ (q.at # "out" => q.f = f) /\ AsideOf(q) = {}
  BY <1>3, <1>4, Zenon DEF AsideOf, Asides
<1>7. CallOK(q, pc'[t], req'[t], ret'[t])
  BY <1>6, Zenon DEF CallOK
<1>8. op' = [op EXCEPT ![t] = q] /\ UNCHANGED <<i_db, i_size, i_flag>>
  BY <1>2, Zenon DEF Fail
<1>9. /\ i_size' = [i_size EXCEPT ![f] = s]
      /\ dinode' \in [Files -> Pointers] /\ i_flag' \in [Files -> BOOLEAN]
  BY <1>8, Zenon DEF FInv, FilePart, FileTypes
<1>10. QED BY <1>1, <1>5, <1>6, <1>7, <1>8, <1>9, SameBlocksStep, Zenon

\* What is known when a block of a file is to be filled.
LEMMA ReadyFills ==
  ASSUME FInv, NEW t \in Threads, NEW o, Ready(t, o), i_db[o.f][o.lbn] = 0,
         NEW a \in {"wdisc", "wnew"}, NEW q, q = [o EXCEPT !.at = a]
  PROVE  /\ q \in Job /\ q.at = a /\ q.f = o.f
         /\ \A p \in Reserve : p.cnt = 0 => JobOK(q, i_db[o.f], i_size[o.f], p)
<1>1. /\ q \in Job /\ q.at = a /\ q.f = o.f /\ q.lbn = o.lbn /\ q.osize = o.osize /\ q.end = o.end
      /\ q.grow <=> o.grow
  BY SetAt DEF Ready, Places
<1>2. QED BY <1>1, Zenon DEF Ready, JobOK, Filling

\* ext2_alloc asks the allocator for a block.
LEMMA NewBlockForInv ==
  ASSUME FInv, NEW t \in Threads, NEW o, Ready(t, o), i_db[o.f][o.lbn] = 0, prealloc[o.f].cnt = 0,
         NewBlockFor(t, o)
  PROVE  FilePart' /\ Contract
<1> DEFINE f == o.f
           s == i_size[f]
           p == prealloc[f]
<1>1. /\ f \in Files /\ Changer(t, f) /\ AsideOf(op[t]) = {} /\ s \in Sizes /\ p \in Reserve
      /\ TypeOK
  BY ChangerKnows, AllocFacts, Zenon DEF Ready, AsideOf
<1>2. PICK q : q = [o EXCEPT !.at = "wnew"]
  BY Zenon
<1>3. q \in Job /\ q.at = "wnew" /\ q.f = f /\ JobOK(q, i_db[f], s, p)
  BY <1>1, <1>2, ReadyFills, Zenon
<1>4. op' = [op EXCEPT ![t] = q] /\ UNCHANGED <<i_db, i_size, prealloc, i_flag, dinode>>
  BY <1>2, Zenon DEF NewBlockFor, fileVars
<1>5. PICK bpref \in Prefs, pre \in BOOLEAN : NewBlock(t, bpref, pre) /\ (pre <=> f \in Regular)
  <2>1. PICK bpref \in Prefs : NewBlock(t, bpref, f \in Regular)
    BY Zenon DEF NewBlockFor
  <2>2. (f \in Regular) \in BOOLEAN
    OBVIOUS
  <2>3. QED BY <2>1, <2>2, Zenon
<1>6. /\ Others(t)
      /\ \/ pc'[t] \in {"goalread", "scanread"} /\ (req'[t].pre <=> f \in Regular)
         \/ pc'[t] = "done" /\ ret'[t] = NoRet
  BY <1>1, <1>5, NewBlockEffect, Zenon
<1>7. CallOK(q, pc'[t], req'[t], ret'[t])
  BY <1>3, <1>6 DEF CallOK, NoRet
<1>8. AsideOf(q) = {} /\ q.at \notin Resting
  BY <1>3, Zenon DEF AsideOf, Asides, Resting
<1>9. /\ i_size' = [i_size EXCEPT ![f] = s] /\ prealloc' = [prealloc EXCEPT ![f] = p]
      /\ dinode' \in [Files -> Pointers] /\ i_flag' \in [Files -> BOOLEAN]
  BY <1>4, Zenon DEF FInv, FilePart, FileTypes
<1>10. FilePart' /\ FileOwned' = FileOwned
  BY <1>1, <1>3, <1>4, <1>6, <1>7, <1>8, <1>9, SameBlocksStep, Zenon
<1>11. QED BY <1>5, <1>10, Zenon DEF Contract, Asks

\* ext2_balloc2 up to where the inode is unlocked.  That it never panics is
\* because the file is sound.
LEMMA BallocInv ==
  ASSUME FInv, NEW t \in Threads, NEW o, Ready(t, o), pc[t] = "idle", Balloc(t, o)
  PROVE  FilePart' /\ Contract
<1> DEFINE f == o.f
           d == i_db[f]
           s == i_size[f]
           p == prealloc[f]
<1>1. /\ o \in Job /\ f \in Files /\ Changer(t, f) /\ AsideOf(op[t]) = {} /\ op[t].at \notin Asides
      /\ o.lbn \in Lbns /\ Sound(d, s)
  BY Zenon DEF Ready, AsideOf
<1>2. /\ d \in Pointers /\ s \in Sizes /\ p \in Reserve /\ Distinct(d)
      /\ Holds(f) = Nz(d) \cup Run(p) /\ Holds(f) \subseteq FileOwned
      /\ Nz(d) \cap Run(p) = {} /\ FileTypes /\ TypeOK
      /\ FileOwned \subseteq Blocks \ {0}
      /\ p.cnt > 0 => \E g \in Groups : Run(p) \subseteq GroupBlocks(g)
  BY <1>1, ChangerKnows, AllocFacts DEF Has, FInv, FilePart
<1>3. CASE d[o.lbn] # 0
  <2>1. o.lbn < s /\ ~o.grow
    BY <1>1, <1>2, <1>3 DEF Sound, Ready, Sizes, Lbns
  <2>2. PICK q : q = [o EXCEPT !.at = IF o.lbn + 1 < o.end THEN "wnext" ELSE "wdata"]
    BY Zenon
  <2>3. /\ q \in Job /\ q.at = (IF o.lbn + 1 < o.end THEN "wnext" ELSE "wdata")
        /\ q.f = f /\ q.lbn = o.lbn /\ q.osize = o.osize /\ q.end = o.end /\ ~q.grow
    BY <1>1, <2>1, <2>2, SetAt DEF Places
  <2>4. Allotted(t, o) /\ UNCHANGED <<allocVars, fileVars>>
    BY <1>3, <2>1, Zenon DEF Balloc
  <2>5. op' = [op EXCEPT ![t] = q]
    BY <2>1, <2>2, <2>4, Zenon DEF Allotted
  <2>6. JobOK(q, d, s, p)
    <3>1. o.lbn < o.end /\ (s <= o.osize \/ s <= o.lbn)
      BY <2>1, Zenon DEF Ready
    <3>2. o.lbn \in Int /\ o.end \in Int /\ s \in Int /\ o.osize \in Int
      BY <1>1, <1>2 DEF Sizes, Lbns, Job
    <3>3. (s <= o.osize \/ s <= o.lbn + 1) /\ (~(o.lbn + 1 < o.end) => o.end = o.lbn + 1)
      BY <3>1, <3>2
    <3>4. CASE o.lbn + 1 < o.end
      BY <1>1, <2>3, <3>3, <3>4, Zenon DEF JobOK, Filling
    <3>5. CASE ~(o.lbn + 1 < o.end)
      BY <1>1, <2>3, <3>3, <3>5, Zenon DEF JobOK, Filling
    <3>6. QED BY <3>4, <3>5, Zenon
  <2>7. q.at \in {"wnext", "wdata"} /\ q.at \notin Resting /\ AsideOf(q) = {}
    BY <2>3, Zenon DEF Resting, AsideOf, Asides
  <2>8. Others(t) /\ pc'[t] = "idle"
    BY <2>4, Zenon DEF Others, allocVars
  <2>9. CallOK(q, pc'[t], req'[t], ret'[t])
    BY <2>7, <2>8, Zenon DEF CallOK
  <2>10. /\ i_size' = [i_size EXCEPT ![f] = s] /\ prealloc' = [prealloc EXCEPT ![f] = p] /\ UNCHANGED i_db
         /\ dinode' \in [Files -> Pointers] /\ i_flag' \in [Files -> BOOLEAN]
    BY <1>2, <2>4, Zenon DEF FileTypes, fileVars
  <2>11. /\ f \in Files /\ Changer(t, f) /\ s \in Sizes /\ p \in Reserve /\ q \in Job /\ q.f = f
         /\ AsideOf(q) = AsideOf(op[t])
    BY <1>1, <1>2, <2>3, <2>7, Zenon
  <2>12. FilePart' /\ FileOwned' = FileOwned
    BY <2>5, <2>6, <2>7, <2>8, <2>9, <2>10, <2>11, SameBlocksStep, Zenon
  <2>13. QED BY <2>4, <2>12, Zenon DEF Contract
<1>4. CASE d[o.lbn] = 0 /\ Fail(t, o) /\ UNCHANGED <<allocVars, prealloc, dinode>>
  <2>1. Others(t) /\ pc'[t] = "idle" /\ UNCHANGED <<allocVars, dinode>>
    BY <1>4, Zenon DEF Others, allocVars
  <2>2. prealloc' = [prealloc EXCEPT ![f] = p]
    BY <1>2, <1>4, Zenon DEF FileTypes
  <2>3. p \in Reserve /\ Fail(t, o) /\ UNCHANGED dinode
    BY <1>2, <1>4, Zenon
  <2>4. FilePart' /\ FileOwned' = FileOwned
    BY <2>1, <2>2, <2>3, FailInv, Zenon
  <2>5. QED BY <2>1, <2>4, Zenon DEF Contract
<1>5. CASE /\ d[o.lbn] = 0 /\ p.cnt > 0
           /\ prealloc' = [prealloc EXCEPT ![f] = [blk |-> p.blk + 1, cnt |-> p.cnt - 1]]
           /\ Store(t, o, p.blk)
           /\ UNCHANGED <<allocVars, dinode>>
  <2>1. Others(t) /\ pc'[t] = "idle" /\ UNCHANGED <<allocVars, dinode>>
    BY <1>5, Zenon DEF Others, allocVars
  <2>2. PICK r : r = [blk |-> p.blk + 1, cnt |-> p.cnt - 1]
    BY Zenon
  <2>3. r \in Reserve /\ r.blk = p.blk + 1 /\ r.cnt = p.cnt - 1 /\ p.blk \in Nat /\ p.cnt \in Nat
    BY <1>2, <1>5, <2>2 DEF Reserve
  <2>4. Run(p) = {p.blk} \cup Run(r) /\ p.blk \notin Run(r)
    BY <1>5, <2>3 DEF Run
  <2>5. p.blk \in Blocks \ {0} /\ p.blk \notin Nz(d) /\ Nz(d) \cap Run(r) = {}
    BY <1>2, <2>4, Zenon
  <2>6. r.cnt > 0 => \E g \in Groups : Run(r) \subseteq GroupBlocks(g)
    BY <1>2, <1>5, <2>4, Zenon
  <2>7. {p.blk} \cup Run(r) \subseteq Run(p) \cup Held(t)
    BY <2>4, Zenon
  <2>8. /\ d[o.lbn] = 0 /\ Store(t, o, p.blk) /\ prealloc' = [prealloc EXCEPT ![f] = r]
    BY <1>5, <2>2, Zenon
  <2>9. FilePart' /\ FileOwned' = (FileOwned \ Holds(f)) \cup Nz(d) \cup {p.blk} \cup Run(r)
    BY <2>1, <2>3, <2>4, <2>5, <2>6, <2>7, <2>8, StoreInv, Zenon
  <2>10. FileOwned' = FileOwned
    BY <1>2, <2>4, <2>9, Zenon
  <2>11. QED BY <2>1, <2>9, <2>10, Zenon DEF Contract
<1>6. CASE /\ d[o.lbn] = 0 /\ Discard(t, f)
           /\ op' = [op EXCEPT ![t] = [o EXCEPT !.at = "wdisc"]]
           /\ UNCHANGED <<i_db, i_size, i_flag, dinode>>
  <2>1. PICK q : q = [o EXCEPT !.at = "wdisc"]
    BY Zenon
  <2>2. q \in Job /\ q.at = "wdisc" /\ q.f = f /\ \A r \in Reserve : r.cnt = 0 => JobOK(q, d, s, r)
    BY <1>6, <2>1, ReadyFills, Zenon
  <2>3. op' = [op EXCEPT ![t] = q]
    BY <1>6, <2>1, Zenon
  <2>4. QED BY <1>1, <1>6, <2>2, <2>3, DiscardStep, Zenon
<1>7. CASE d[o.lbn] = 0 /\ p.cnt = 0 /\ NewBlockFor(t, o)
  BY <1>7, NewBlockForInv, Zenon
<1>8. QED
  <2>1. \/ d[o.lbn] # 0
        \/ d[o.lbn] = 0 /\ Fail(t, o) /\ UNCHANGED <<allocVars, prealloc, dinode>>
        \/ /\ d[o.lbn] = 0 /\ p.cnt > 0
           /\ prealloc' = [prealloc EXCEPT ![f] = [blk |-> p.blk + 1, cnt |-> p.cnt - 1]]
           /\ Store(t, o, p.blk)
           /\ UNCHANGED <<allocVars, dinode>>
        \/ /\ d[o.lbn] = 0 /\ Discard(t, f)
           /\ op' = [op EXCEPT ![t] = [o EXCEPT !.at = "wdisc"]]
           /\ UNCHANGED <<i_db, i_size, i_flag, dinode>>
        \/ d[o.lbn] = 0 /\ p.cnt = 0 /\ NewBlockFor(t, o)
    BY Zenon DEF Balloc
  <2>2. QED BY <1>3, <1>4, <1>5, <1>6, <1>7, <2>1, Zenon
=============================================================================
