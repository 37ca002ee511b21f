-------------------------- MODULE FileBlocksProofs --------------------------
(***************************************************************************)
(* The files and the allocator together.  Every action of FileBlocks keeps *)
(* what the files rely on and is a step of BlockAlloc, seen from the       *)
(* allocator; so the invariant BlockAllocProofs proves of the allocator    *)
(* holds of the blocks the files have, and the files keep theirs.          *)
(***************************************************************************)
EXTENDS FileBlocksSteps

USE GeometryAssumption, AlignAssumption, FileAssumption
-----------------------------------------------------------------------------
(***************************************************************************)
(* The actions.                                                            *)
(***************************************************************************)
\* The places an operation goes to from another one, with its file unchanged.
Moves == {<<"wdisc", "wcall">>, <<"ldisc", "lcall">>, <<"tdisc", "tcut">>, <<"tfree", "tblk">>,
          <<"tupd", "tcopy">>, <<"tupd", "trest">>, <<"tcopy", "trest">>}

\* A step that only moves an operation to its next place.
LEMMA MoveInv ==
  ASSUME FInv, NEW t \in Threads, NEW a, <<op[t].at, a>> \in Moves, Move(t, a),
         UNCHANGED <<i_db, i_size, prealloc>>,
         dinode' \in [Files -> Pointers], i_flag' \in [Files -> BOOLEAN], Others(t), pc'[t] = "idle"
  PROVE  FilePart' /\ FileOwned' = FileOwned
<1> DEFINE o == op[t]
           f == o.f
           s == i_size[f]
           p == prealloc[f]
<1>1. /\ o.at \notin Resting /\ o.at # "out" /\ a \in Places /\ a \notin Resting
      /\ a \in {"wcall", "lcall", "tcut", "tblk", "tcopy", "trest"}
      /\ a \in Asides <=> o.at \in Asides
  BY Zenon DEF Moves, Resting, Places, Asides
<1>2. f \in Files /\ Changer(t, f)
  BY <1>1, Zenon DEF FInv, FilePart, Jobs, JobOK, Changer
<1>3. o \in Job /\ s \in Sizes /\ p \in Reserve /\ JobOK(o, i_db[f], s, p)
  BY <1>1, <1>2, ChangerKnows, Zenon
<1>4. PICK q : q = [o EXCEPT !.at = a]
  BY Zenon
<1>5. /\ q \in Job /\ q.at = a /\ q.f = o.f /\ q.lbn = o.lbn /\ q.osize = o.osize /\ q.end = o.end
      /\ q.old = o.old /\ (q.grow <=> o.grow)
  BY <1>1, <1>3, <1>4, SetAt
<1>6. op' = [op EXCEPT ![t] = q]
  BY <1>4, Zenon DEF Move
<1>7. JobOK(q, i_db[f], s, p)
  BY <1>3, <1>5, Zenon DEF JobOK, Filling, Moves
<1>8. CallOK(q, pc'[t], req'[t], ret'[t])
  BY <1>1, <1>5, Zenon DEF CallOK
<1>9. AsideOf(q) = AsideOf(o)
  BY <1>1, <1>5, Zenon DEF AsideOf
<1>10. i_size' = [i_size EXCEPT ![f] = s] /\ prealloc' = [prealloc EXCEPT ![f] = p]
  BY Zenon DEF FInv, FilePart, FileTypes
<1>11. QED BY <1>1, <1>2, <1>3, <1>5, <1>6, <1>7, <1>8, <1>9, <1>10, SameBlocksStep, Zenon

\* A discarding call has returned.
LEMMA DiscardedInv ==
  ASSUME FInv, NEW t \in Threads, MissDiscarded(t) \/ GrowDiscarded(t) \/ ShrinkDiscarded(t)
  PROVE  FilePart' /\ Contract
<1>1. PICK a : <<op[t].at, a>> \in Moves /\ op[t].at \in {"wdisc", "ldisc", "tdisc"} /\ Move(t, a) /\ CallReturns(t)
               /\ UNCHANGED fileVars
  BY Zenon DEF MissDiscarded, GrowDiscarded, ShrinkDiscarded, Moves
<1>2. ret[t].blk = 0 /\ TypeOK /\ FileTypes
  BY <1>1, AllocFacts, Zenon DEF FInv, FilePart, Calls, CallOK
<1>3. Others(t) /\ pc'[t] = "idle" /\ RetBlocks(ret[t]) = {}
  BY <1>1, <1>2, CallReturnsEffect, Zenon
<1>4. UNCHANGED <<i_db, i_size, prealloc>> /\ dinode' \in [Files -> Pointers] /\ i_flag' \in [Files -> BOOLEAN]
  BY <1>1, <1>2, Zenon DEF fileVars, FileTypes
<1>5. FilePart' /\ FileOwned' = FileOwned
  BY <1>1, <1>3, <1>4, MoveInv, Zenon
<1>6. QED BY <1>1, <1>3, <1>5, Zenon DEF Contract, Receives

\* ext2_truncate comes to its loop.
LEMMA FreeLoopInv ==
  ASSUME FInv, NEW t \in Threads, FreeLoop(t)
  PROVE  FilePart' /\ Contract
<1>1. <<op[t].at, "tblk">> \in Moves /\ Move(t, "tblk") /\ UNCHANGED allocVars /\ UNCHANGED fileVars
  BY Zenon DEF FreeLoop, Moves
<1>2. FileTypes /\ pc[t] = "idle"
  BY Zenon DEF FInv, FilePart, Calls, CallOK, FreeLoop
<1>3. Others(t) /\ pc'[t] = "idle"
  BY <1>1, <1>2, Zenon DEF Others, allocVars
<1>4. UNCHANGED <<i_db, i_size, prealloc>> /\ dinode' \in [Files -> Pointers] /\ i_flag' \in [Files -> BOOLEAN]
  BY <1>1, <1>2, Zenon DEF fileVars, FileTypes
<1>5. FilePart' /\ FileOwned' = FileOwned
  BY <1>1, <1>3, <1>4, MoveInv, Zenon
<1>6. QED BY <1>1, <1>5, Zenon DEF Contract

\* A step of ext2_update for a thread that is not in ext2_truncate.
LEMMA SyncStep ==
  ASSUME FInv, NEW t \in Threads, NEW f \in Files, op[t].at \in Resting, NEW q \in Job,
         q.at \in {"supd", "scopy", "out"}, q.at # "out" => q.f = f,
         op' = [op EXCEPT ![t] = q], UNCHANGED <<i_db, i_size, prealloc>>,
         dinode' \in [Files -> Pointers], i_flag' \in [Files -> BOOLEAN], Others(t), pc'[t] = "idle"
  PROVE  FilePart' /\ FileOwned' = FileOwned
<1>1. prealloc[f] \in Reserve /\ prealloc' = [prealloc EXCEPT ![f] = prealloc[f]]
  BY Zenon DEF FInv, FilePart, FileTypes
<1>2. /\ q.at \in Resting /\ (q.at # "out" => q.f \in Files) /\ CallOK(q, pc'[t], req'[t], ret'[t])
      /\ UNCHANGED <<i_db, i_size>>
  BY Zenon DEF Resting, CallOK
<1>3. FilePart' /\ FileOwned' = FileOwned \ (Preallocated(f) \ Run(prealloc[f]))
  BY <1>1, <1>2, BystanderStep, Zenon
<1>4. QED BY <1>3, Zenon DEF Preallocated, Run

\* Idle is an operation.
LEMMA IdleJob == Idle \in Job /\ Idle.at = "out" /\ AsideOf(Idle) = {}
BY EmptyPointers DEF Idle, Job, Places, Sizes, AsideOf, Asides

\* ext2_update, of either caller.
LEMMA UpdateInv ==
  ASSUME FInv, NEW t \in Threads, UpdateCheck(t) \/ UpdateCopy(t)
  PROVE  FilePart' /\ Contract
<1> DEFINE o == op[t]
           f == o.f
<1>1. /\ o.at \in {"supd", "tupd", "scopy", "tcopy"} /\ UNCHANGED <<i_db, i_size, prealloc>>
      /\ UNCHANGED allocVars
  BY Zenon DEF UpdateCheck, UpdateCopy, fileVars
<1>2. FileTypes /\ pc[t] = "idle" /\ f \in Files /\ o \in Job
  BY <1>1, Zenon DEF FInv, FilePart, Calls, CallOK, Jobs, JobOK, FileTypes
<1>3. dinode' \in [Files -> Pointers] /\ i_flag' \in [Files -> BOOLEAN]
  BY <1>2, Zenon DEF FileTypes, UpdateCheck, UpdateCopy, fileVars
<1>4. Others(t) /\ pc'[t] = "idle"
  BY <1>1, <1>2, Zenon DEF Others, allocVars
<1>5. CASE o.at \in {"tupd", "tcopy"}
  <2>1. PICK a \in {"tcopy", "trest"} : <<o.at, a>> \in Moves /\ Move(t, a)
    BY <1>5, Zenon DEF UpdateCheck, UpdateCopy, UpdateReturns, Moves
  <2>2. FilePart' /\ FileOwned' = FileOwned
    BY <1>1, <1>3, <1>4, <2>1, MoveInv, Zenon
  <2>3. QED BY <1>1, <2>2, Zenon DEF Contract
<1>6. CASE o.at \in {"supd", "scopy"}
  <2>1. Move(t, "scopy") \/ Leave(t)
    BY <1>6, Zenon DEF UpdateCheck, UpdateCopy, UpdateReturns
  <2>2. PICK q : q = [o EXCEPT !.at = "scopy"]
    BY Zenon
  <2>3. q \in Job /\ q.at = "scopy" /\ q.f = f
    BY <1>2, <2>2, SetAt DEF Places
  <2>4. Move(t, "scopy") => op' = [op EXCEPT ![t] = q]
    BY <2>2, Zenon DEF Move
  <2>5. Leave(t) => op' = [op EXCEPT ![t] = Idle]
    BY Zenon DEF Leave
  <2>6. o.at \in Resting
    BY <1>6, Zenon DEF Resting
  <2>7. FilePart' /\ FileOwned' = FileOwned
    <3>1. CASE Move(t, "scopy")
      BY <1>1, <1>2, <1>3, <1>4, <2>3, <2>4, <2>6, <3>1, SyncStep, Zenon
    <3>2. CASE Leave(t)
      BY <1>1, <1>2, <1>3, <1>4, <2>5, <2>6, <3>2, IdleJob, SyncStep, Zenon
    <3>3. QED BY <2>1, <3>1, <3>2, Zenon
  <2>8. QED BY <1>1, <2>7, Zenon DEF Contract
<1>7. QED BY <1>1, <1>5, <1>6, Zenon

\* ext2_fsync and ext2_read, and the return of the first one's discard.
LEMMA SyncInv ==
  ASSUME FInv, NEW t \in Threads,
         \/ FsyncDiscarded(t)
         \/ \E f \in Files : Fsync(t, f) \/ Read(t, f)
  PROVE  FilePart' /\ Contract
<1>1. FileTypes /\ TypeOK /\ CallOK(op[t], pc[t], req[t], ret[t])
  BY AllocFacts, Zenon DEF FInv, FilePart, Calls
<1>2. ASSUME NEW f \in Files, Read(t, f) PROVE FilePart' /\ Contract
  <2>1. /\ op[t].at = "out" /\ UNCHANGED <<i_db, i_size, prealloc, dinode, op>> /\ UNCHANGED allocVars
        /\ i_flag' \in [Files -> BOOLEAN]
    BY <1>1, <1>2, Zenon DEF Read, FileTypes
  <2>2. op[t] \in Job /\ op' = [op EXCEPT ![t] = op[t]] /\ dinode' \in [Files -> Pointers] /\ op[t].at \in Resting
    BY <1>1, <2>1, Zenon DEF FileTypes, Resting
  <2>3. Others(t) /\ pc'[t] = "idle" /\ UNCHANGED <<i_db, i_size, prealloc>>
    BY <1>1, <2>1, Zenon DEF Others, allocVars, CallOK
  <2>4. FilePart' /\ FileOwned' = FileOwned
    BY <2>1, <2>2, <2>3, SyncStep, Zenon
  <2>5. QED BY <2>1, <2>4, Zenon DEF Contract
<1>3. ASSUME NEW f \in Files, Fsync(t, f), prealloc[f].cnt = 0 PROVE FilePart' /\ Contract
  <2>1. PICK q : q = [Idle EXCEPT !.at = "supd", !.f = f]
    BY Zenon
  <2>2. q \in Job /\ q.at = "supd" /\ q.f = f
    BY <2>1, IdleJob, Zenon DEF Job, Places
  <2>3. ~Discard(t, f)
    BY <1>3 DEF Discard
  <2>4. /\ op[t].at = "out" /\ op' = [op EXCEPT ![t] = q] /\ UNCHANGED <<i_db, i_size, prealloc, i_flag, dinode>>
        /\ UNCHANGED allocVars
    BY <1>3, <2>1, <2>3, Zenon DEF Fsync
  <2>5. /\ Others(t) /\ pc'[t] = "idle" /\ UNCHANGED <<i_db, i_size, prealloc>> /\ op[t].at \in Resting
        /\ dinode' \in [Files -> Pointers] /\ i_flag' \in [Files -> BOOLEAN]
    BY <1>1, <2>4, Zenon DEF Others, allocVars, CallOK, FileTypes, Resting
  <2>6. FilePart' /\ FileOwned' = FileOwned
    BY <2>2, <2>4, <2>5, SyncStep, Zenon
  <2>7. QED BY <2>4, <2>6, Zenon DEF Contract
<1>4. ASSUME NEW f \in Files, Fsync(t, f), prealloc[f].cnt # 0 PROVE FilePart' /\ Contract
  <2>1. PICK q : q = [Idle EXCEPT !.at = "sdisc", !.f = f]
    BY Zenon
  <2>2. q \in Job /\ q.at = "sdisc" /\ q.f = f
    BY <2>1, IdleJob, Zenon DEF Job, Places
  <2>3. /\ op[t].at = "out" /\ op' = [op EXCEPT ![t] = q] /\ UNCHANGED <<i_db, i_size, i_flag, dinode>>
        /\ Discard(t, f)
    BY <1>4, <2>1, Zenon DEF Fsync
  <2>4. PICK p : p = [prealloc[f] EXCEPT !.cnt = 0]
    BY Zenon
  <2>5. /\ Others(t) /\ pc'[t] = "freeread" /\ ret'[t].blk = 0
        /\ prealloc' = [prealloc EXCEPT ![f] = p] /\ p \in Reserve /\ Run(p) = {}
        /\ FileOwned' = FileOwned \ Preallocated(f) => GivesBack(t)
    BY <2>3, <2>4, DiscardEffect, Zenon
  <2>6. p.cnt = 0
    BY <1>1, <2>4 DEF FileTypes, Reserve
  <2>7. /\ op[t].at \in Resting /\ q.at \in Resting /\ (q.at # "out" => q.f \in Files)
        /\ dinode' \in [Files -> Pointers] /\ i_flag' \in [Files -> BOOLEAN] /\ UNCHANGED <<i_db, i_size>>
    BY <1>1, <2>2, <2>3, Zenon DEF Resting, FileTypes
  <2>8. CallOK(q, pc'[t], req'[t], ret'[t])
    BY <2>2, <2>5, Zenon DEF CallOK
  <2>9. FilePart' /\ FileOwned' = FileOwned \ (Preallocated(f) \ Run(p))
    BY <2>2, <2>3, <2>5, <2>6, <2>7, <2>8, BystanderStep, Zenon
  <2>10. QED BY <2>5, <2>9, Zenon DEF Contract
<1>5. CASE FsyncDiscarded(t)
  <2> DEFINE o == op[t]
  <2>1. o.at = "sdisc" /\ CallReturns(t) /\ Move(t, "supd") /\ UNCHANGED <<i_db, i_size, prealloc, i_flag, dinode>>
    BY <1>5, Zenon DEF FsyncDiscarded, fileVars
  <2>2. ret[t].blk = 0 /\ o.f \in Files /\ o \in Job
    BY <1>1, <2>1, Zenon DEF CallOK, FInv, FilePart, Jobs, JobOK, FileTypes
  <2>3. Others(t) /\ pc'[t] = "idle" /\ RetBlocks(ret[t]) = {}
    BY <1>1, <2>1, <2>2, CallReturnsEffect, Zenon
  <2>4. PICK q : q = [o EXCEPT !.at = "supd"]
    BY Zenon
  <2>5. q \in Job /\ q.at = "supd" /\ q.f = o.f
    BY <2>2, <2>4, SetAt DEF Places
  <2>6. op' = [op EXCEPT ![t] = q]
    BY <2>1, <2>4, Zenon DEF Move
  <2>7. /\ o.at \in Resting /\ UNCHANGED <<i_db, i_size, prealloc>>
        /\ dinode' \in [Files -> Pointers] /\ i_flag' \in [Files -> BOOLEAN]
    BY <1>1, <2>1, Zenon DEF FileTypes, Resting
  <2>8. FilePart' /\ FileOwned' = FileOwned
    BY <2>2, <2>3, <2>5, <2>6, <2>7, SyncStep, Zenon
  <2>9. QED BY <2>1, <2>3, <2>8, Zenon DEF Contract, Receives
<1>6. QED BY <1>2, <1>3, <1>4, <1>5, Zenon

\* A call of ext2_free_blocks from the loop of ext2_truncate returns.
LEMMA FreeReturnsInv ==
  ASSUME FInv, NEW t \in Threads, FreeReturns(t)
  PROVE  FilePart' /\ Contract
<1> DEFINE o == op[t]
           p == prealloc[o.f]
<1>1. /\ FileTypes /\ TypeOK /\ CallOK(o, pc[t], req[t], ret[t])
      /\ o.at = "tblk" /\ CallReturns(t) /\ UNCHANGED <<i_db, i_size, prealloc, i_flag, dinode, op>>
  BY AllocFacts, Zenon DEF FInv, FilePart, Calls, FreeReturns, fileVars
<1>2. ret[t].blk = 0 /\ o.f \in Files /\ o \in Job /\ p \in Reserve
  BY <1>1, Zenon DEF CallOK, FInv, FilePart, Jobs, JobOK, FileTypes, CallReturns
<1>3. Others(t) /\ pc'[t] = "idle" /\ RetBlocks(ret[t]) = {}
  BY <1>1, <1>2, CallReturnsEffect, Zenon
<1>4. CallOK(o, pc'[t], req'[t], ret'[t])
  BY <1>1, <1>3, Zenon DEF CallOK
<1>5. /\ prealloc' = [prealloc EXCEPT ![o.f] = p] /\ op' = [op EXCEPT ![t] = o]
      /\ dinode' \in [Files -> Pointers] /\ i_flag' \in [Files -> BOOLEAN] /\ UNCHANGED <<i_db, i_size>>
  BY <1>1, Zenon DEF FileTypes
<1>6. FilePart' /\ FileOwned' = FileOwned \ (Preallocated(o.f) \ Run(p))
  BY <1>2, <1>3, <1>4, <1>5, BystanderStep, Zenon
<1>7. FileOwned' = FileOwned
  BY <1>6, Zenon DEF Preallocated, Run
<1>8. QED BY <1>1, <1>3, <1>6, <1>7, Zenon DEF Contract, Receives

\* An operation that is about to fill its block knows what ext2_balloc2 needs.
LEMMA FillingReady ==
  ASSUME FInv, NEW t \in Threads, op[t].at \in Filling
  PROVE  /\ Ready(t, op[t]) /\ i_db[op[t].f][op[t].lbn] = 0 /\ prealloc[op[t].f].cnt = 0
         /\ CallOK(op[t], pc[t], req[t], ret[t])
<1>1. op[t].at \notin Resting /\ op[t].at \notin Asides /\ op[t].at # "out"
  BY Zenon DEF Filling, Resting, Asides
<1>2. op[t].f \in Files /\ Changer(t, op[t].f)
  BY <1>1, Zenon DEF FInv, FilePart, Jobs, JobOK, Changer
<1>3. /\ op[t] \in Job /\ JobOK(op[t], i_db[op[t].f], i_size[op[t].f], prealloc[op[t].f])
      /\ CallOK(op[t], pc[t], req[t], ret[t])
  BY <1>1, <1>2, ChangerKnows, Zenon
<1>4. QED BY <1>1, <1>2, <1>3, Zenon DEF Ready, JobOK

\* Miss and Grow.
LEMMA FillInv ==
  ASSUME FInv, NEW t \in Threads, Miss(t) \/ Grow(t)
  PROVE  FilePart' /\ Contract
<1>1. op[t].at \in Filling
  BY Zenon DEF Miss, Grow, Filling
<1>2. CASE Miss(t)
  BY <1>1, <1>2, FillingReady, NewBlockForInv, Zenon DEF Miss
<1>3. CASE Grow(t)
  <2>1. Balloc(t, op[t]) /\ pc[t] = "idle"
    BY <1>1, <1>3, FillingReady, Zenon DEF Grow, CallOK
  <2>2. QED BY <1>1, <2>1, FillingReady, BallocInv, Zenon
<1>4. QED BY <1>2, <1>3, Zenon

\* When a failed ext2_new_block returns for a regular file, the uninitialised
\* variables of ext2_alloc hold no count.
NoGarbage ==
  \A t \in Threads :
    op[t].at = "wnew" /\ pc[t] = "done" /\ op[t].f \in Regular /\ ~ret[t].pset => \A g \in Garbage : g.cnt = 0

\* ext2_alloc has its answer from ext2_new_block.
LEMMA MissDoneInv ==
  ASSUME FInv, NoGarbage, NEW t \in Threads, MissDone(t)
  PROVE  FilePart' /\ Contract
<1> DEFINE o == op[t]
           f == o.f
           r == ret[t]
           d == i_db[f]
<1>1. o.at = "wnew" /\ o.at \in Filling /\ CallReturns(t) /\ UNCHANGED dinode /\ pc[t] = "done"
  BY Zenon DEF MissDone, Filling, CallReturns
<1>2. Ready(t, o) /\ d[o.lbn] = 0 /\ prealloc[f].cnt = 0 /\ CallOK(o, pc[t], req[t], r)
  BY <1>1, FillingReady, Zenon
<1>3. f \in Files /\ Changer(t, f) /\ AsideOf(o) = {}
  BY <1>1, <1>2, Zenon DEF Ready, AsideOf
<1>4. /\ prealloc[f] \in Reserve /\ Holds(f) = Nz(d) \cup Run(prealloc[f])
      /\ Holds(f) \subseteq FileOwned /\ Holds(f) \cap Held(t) = {}
      /\ TypeOK /\ FileTypes
  BY <1>3, ChangerKnows, AllocFacts DEF Has, FInv, FilePart
<1>5. Run(prealloc[f]) = {}
  BY <1>2, <1>4 DEF Run, Reserve
<1>6. Others(t) /\ pc'[t] = "idle" /\ Held(t) = RetBlocks(r) /\ (r.blk = 0 => RetBlocks(r) = {})
  BY <1>1, <1>4, CallReturnsEffect, Zenon
<1>7. r \in Ret
  BY <1>4, Zenon DEF TypeOK
<1>8. CASE r.blk # 0
  <2>1. PICK p \in Reserve :
          /\ prealloc' = [prealloc EXCEPT ![f] = p]
          /\ \/ f \in Regular /\ p = [blk |-> r.pblk, cnt |-> r.pcnt] /\ r.pblk = r.blk + 1
             \/ f \notin Regular /\ p.cnt = 0 /\ r.pcnt = 0
    <3>1. CASE f \in Regular
      <4>1. r.pset /\ r.pblk = r.blk + 1
        BY <1>1, <1>2, <1>8, <3>1, Zenon DEF CallOK
      <4>2. prealloc' = [prealloc EXCEPT ![f] = [blk |-> r.pblk, cnt |-> r.pcnt]]
        BY <3>1, <4>1, Zenon DEF MissDone
      <4>3. [blk |-> r.pblk, cnt |-> r.pcnt] \in Reserve
        BY <1>7, Zenon DEF Ret, Reserve
      <4>4. QED BY <3>1, <4>1, <4>2, <4>3, Zenon
    <3>2. CASE f \notin Regular
      <4>1. r.pcnt = 0
        BY <1>1, <1>2, <1>8, <3>2, Zenon DEF CallOK
      <4>2. UNCHANGED prealloc
        BY <3>2, Zenon DEF MissDone
      <4>3. prealloc' = [prealloc EXCEPT ![f] = prealloc[f]]
        BY <1>4, <4>2, Zenon DEF FileTypes
      <4>4. QED BY <1>2, <1>4, <3>2, <4>1, <4>3, Zenon
    <3>3. QED BY <3>1, <3>2, Zenon
  <2>2. r.blk \in Blocks \ {0} /\ r.blk \in Nat /\ r.pcnt \in Nat /\ p.blk \in Nat /\ p.cnt \in Nat
    BY <1>7, <1>8, <2>1 DEF Ret, Blocks, Reserve
  <2>3. RetBlocks(r) = {r.blk} \cup Run(p) /\ r.blk \notin Run(p)
    <3>1. CASE f \in Regular
      <4>1. p.blk = r.blk + 1 /\ p.cnt = r.pcnt
        BY <2>1, <3>1
      <4>2. QED BY <1>8, <2>2, <4>1 DEF RetBlocks, Run
    <3>2. CASE f \notin Regular
      BY <1>8, <2>1, <2>2, <3>2 DEF RetBlocks, Run
    <3>3. QED BY <3>1, <3>2, Zenon
  <2>4. /\ r.blk \notin Nz(d) /\ Nz(d) \cap Run(p) = {}
        /\ {r.blk} \cup Run(p) \subseteq Run(prealloc[f]) \cup Held(t)
    BY <1>4, <1>6, <2>3
  <2>5. p.cnt > 0 => \E g \in Groups : Run(p) \subseteq GroupBlocks(g)
    BY <1>1, <1>2, <1>8, <2>3, Zenon DEF CallOK
  <2>6. Store(t, o, r.blk)
    BY <1>8, Zenon DEF MissDone
  <2>7. FilePart' /\ FileOwned' = (FileOwned \ Holds(f)) \cup Nz(d) \cup {r.blk} \cup Run(p)
    BY <1>1, <1>2, <1>6, <2>1, <2>2, <2>3, <2>4, <2>5, <2>6, StoreInv, Zenon
  <2>8. FileOwned' = FileOwned \cup RetBlocks(r)
    BY <1>4, <1>5, <2>3, <2>7, Zenon
  <2>9. QED BY <1>1, <2>7, <2>8, Zenon DEF Contract, Receives
<1>9. CASE r.blk = 0
  <2>1. PICK p \in Reserve : prealloc' = [prealloc EXCEPT ![f] = p] /\ p.cnt = 0
    <3>1. CASE f \in Regular
      <4>1. ~r.pset
        BY <1>1, <1>2, <1>9, Zenon DEF CallOK
      <4>2. PICK g \in Garbage : prealloc' = [prealloc EXCEPT ![f] = g]
        BY <3>1, <4>1, Zenon DEF MissDone
      <4>3. g \in Reserve /\ g.cnt = 0
        BY <1>1, <3>1, <4>1, <4>2, Zenon DEF NoGarbage, Reserve
      <4>4. QED BY <4>2, <4>3, Zenon
    <3>2. CASE f \notin Regular
      <4>1. UNCHANGED prealloc
        BY <3>2, Zenon DEF MissDone
      <4>2. prealloc' = [prealloc EXCEPT ![f] = prealloc[f]]
        BY <1>4, <4>1, Zenon DEF FileTypes
      <4>3. QED BY <1>2, <1>4, <4>2, Zenon
    <3>3. QED BY <3>1, <3>2, Zenon
  <2>2. Fail(t, o)
    BY <1>9, Zenon DEF MissDone
  <2>3. FilePart' /\ FileOwned' = FileOwned
    BY <1>1, <1>2, <1>6, <2>1, <2>2, FailInv, Zenon
  <2>4. QED BY <1>1, <1>6, <1>9, <2>3, Zenon DEF Contract, Receives
<1>10. QED BY <1>8, <1>9, Zenon

\* A write comes to its next block.
LEMMA WriteNextInv ==
  ASSUME FInv, NEW t \in Threads, WriteNext(t)
  PROVE  FilePart' /\ Contract
<1> DEFINE o == op[t]
           f == o.f
           s == i_size[f]
<1>1. o.at = "wnext" /\ o.at \notin Resting /\ o.at \notin Asides
  BY Zenon DEF WriteNext, Resting, Asides
<1>2. f \in Files /\ Changer(t, f)
  BY <1>1, Zenon DEF FInv, FilePart, Jobs, JobOK, Changer
<1>3. o \in Job /\ s \in Sizes /\ JobOK(o, i_db[f], s, prealloc[f]) /\ pc[t] = "idle"
  BY <1>1, <1>2, ChangerKnows, Zenon DEF CallOK
<1>4. /\ Sound(i_db[f], s) /\ ~o.grow /\ o.lbn + 1 < o.end /\ (s <= o.osize \/ s <= o.lbn + 1)
      /\ o.lbn + 1 \in Lbns /\ o.lbn + 1 \in Sizes
  BY <1>1, <1>3 DEF JobOK, Job, Lbns, Sizes
<1>5. PICK q : q = [o EXCEPT !.lbn = o.lbn + 1]
  BY Zenon
<1>6. q \in Job /\ q.f = f /\ q.lbn = o.lbn + 1 /\ q.end = o.end /\ q.osize = o.osize /\ ~q.grow
  BY <1>3, <1>4, <1>5, Zenon DEF Job
<1>7. Balloc(t, q)
  BY <1>5, Zenon DEF WriteNext
<1>8. Ready(t, q)
  BY <1>1, <1>2, <1>4, <1>6, Zenon DEF Ready
<1>9. QED BY <1>3, <1>7, <1>8, BallocInv, Zenon

\* A thread that enters finds a sound file.
LEMMA EnterKnows ==
  ASSUME FInv, Exclusive, NEW t \in Threads, NEW f \in Files, Enter(t, f)
  PROVE  /\ Changer(t, f) /\ Sound(i_db[f], i_size[f]) /\ op[t].at = "out" /\ op[t].at \notin Asides
         /\ pc[t] = "idle" /\ i_size[f] \in Sizes
<1>1. op[t].at = "out" /\ Changer(t, f)
  BY Zenon DEF Enter, Changer
<1>2. QED BY <1>1, ChangerKnows, Zenon DEF CallOK, Asides

\* ext2_write_internal begins.
LEMMA WriteInv ==
  ASSUME FInv, Exclusive, NEW t \in Threads, NEW f \in Files, NEW l \in 0 .. MaxSize[f], NEW e \in 0 .. MaxSize[f],
         l < e, Write(t, f, l, e)
  PROVE  FilePart' /\ Contract
<1>1. /\ Changer(t, f) /\ Sound(i_db[f], i_size[f]) /\ op[t].at \notin Asides
      /\ pc[t] = "idle" /\ i_size[f] \in Sizes
  BY EnterKnows, Zenon DEF Write
<1>2. MaxSize[f] \in Sizes /\ l \in Lbns /\ l \in Sizes /\ e \in Sizes
  BY DEF Sizes, Lbns
<1>3. PICK q : q = [Idle EXCEPT !.f = f, !.lbn = l, !.osize = i_size[f], !.end = e]
  BY Zenon
<1>4. q \in Job
  BY <1>1, <1>2, <1>3, IdleJob, Zenon DEF Job
<1>5. q.f = f /\ q.lbn = l /\ q.osize = i_size[f] /\ q.end = e /\ ~q.grow
  BY <1>3, Zenon DEF Idle
<1>6. i_size[f] <= i_size[f]
  BY <1>1 DEF Sizes
<1>7. Ready(t, q)
  BY <1>1, <1>2, <1>4, <1>5, <1>6, Zenon DEF Ready
<1>8. Balloc(t, q)
  BY <1>3, Zenon DEF Write
<1>9. QED BY <1>1, <1>7, <1>8, BallocInv, Zenon

\* ext2_truncate of a file that is sound or is to be cut back.
LEMMA TruncateToInv ==
  ASSUME FInv, NEW t \in Threads, NEW o \in Job, o.f \in Files, Changer(t, o.f), op[t].at \notin Asides,
         Sound(i_db[o.f], i_size[o.f]) \/ o.lbn < i_size[o.f], pc[t] = "idle", TruncateTo(t, o)
  PROVE  FilePart' /\ Contract
<1> DEFINE f == o.f
           d == i_db[f]
           s == i_size[f]
           p == prealloc[f]
<1>1. d \in Pointers /\ s \in Sizes /\ p \in Reserve /\ AsideOf(op[t]) = {} /\ FileTypes
  BY ChangerKnows, Zenon DEF AsideOf, FInv, FilePart
<1>2. o.lbn \in Sizes /\ o.lbn \in Int /\ s \in Int /\ NDADDR \in Int
  BY <1>1 DEF Job, Sizes
<1>3. ASSUME UNCHANGED allocVars, NEW q \in Job, q.f = f, q.at \in {"supd", "tcut"},
             op' = [op EXCEPT ![t] = q], UNCHANGED <<i_db, i_size, prealloc, dinode>>,
             i_flag' \in [Files -> BOOLEAN], q.at = "supd" => Sound(d, s)
      PROVE  FilePart' /\ Contract
  <2>1. Others(t) /\ pc'[t] = "idle"
    BY <1>3, Zenon DEF Others, allocVars
  <2>2. JobOK(q, d, s, p) /\ CallOK(q, pc'[t], req'[t], ret'[t])
    BY <1>3, <2>1, Zenon DEF JobOK, CallOK, Filling
  <2>3. AsideOf(q) = AsideOf(op[t]) /\ (q.at \in Resting => Sound(d, s))
    BY <1>1, <1>3, Zenon DEF AsideOf, Asides, Resting
  <2>4. /\ i_size' = [i_size EXCEPT ![f] = s] /\ prealloc' = [prealloc EXCEPT ![f] = p] /\ UNCHANGED i_db
        /\ dinode' \in [Files -> Pointers]
    BY <1>1, <1>3, Zenon DEF FileTypes
  <2>5. FilePart' /\ FileOwned' = FileOwned
    BY <1>1, <1>3, <2>1, <2>2, <2>3, <2>4, SameBlocksStep, Zenon
  <2>6. QED BY <1>3, <2>5, Zenon DEF Contract
<1>4. ASSUME o.lbn > s
      PROVE  /\ Sound(d, s) /\ o.lbn - 1 \in Lbns /\ o.lbn - 1 \in Sizes /\ d[o.lbn - 1] = 0 /\ s <= o.lbn - 1
  <2>1. Sound(d, s) /\ o.lbn - 1 \in Lbns /\ o.lbn - 1 \in Sizes /\ s <= o.lbn - 1
    BY <1>1, <1>2, <1>4 DEF Sizes, Lbns
  <2>2. QED BY <1>2, <2>1 DEF Sound
<1>5. CASE /\ o.lbn = s /\ i_flag' = [i_flag EXCEPT ![f] = TRUE]
           /\ op' = [op EXCEPT ![t] = [o EXCEPT !.at = "supd"]]
           /\ UNCHANGED allocVars /\ UNCHANGED <<i_db, i_size, prealloc, dinode>>
  <2>1. PICK q : q = [o EXCEPT !.at = "supd"]
    BY Zenon
  <2>2. q \in Job /\ q.f = f /\ q.at = "supd"
    BY <2>1, SetAt DEF Places
  <2>3. op' = [op EXCEPT ![t] = q] /\ UNCHANGED allocVars /\ UNCHANGED <<i_db, i_size, prealloc, dinode>>
    BY <1>5, <2>1, Zenon
  <2>4. i_flag' \in [Files -> BOOLEAN] /\ Sound(d, s)
    BY <1>1, <1>2, <1>5 DEF FileTypes
  <2>5. QED BY <1>3, <2>2, <2>3, <2>4, Zenon
<1>6. CASE /\ o.lbn < s
           /\ op' = [op EXCEPT ![t] = [o EXCEPT !.at = "tcut", !.osize = s]]
           /\ UNCHANGED allocVars /\ UNCHANGED fileVars
  <2>1. PICK q : q = [o EXCEPT !.at = "tcut", !.osize = s]
    BY Zenon
  <2>2. q \in Job /\ q.f = f /\ q.at = "tcut"
    BY <1>1, <2>1, Zenon DEF Places, Job
  <2>3. op' = [op EXCEPT ![t] = q] /\ UNCHANGED allocVars /\ UNCHANGED fileVars
    BY <1>6, <2>1, Zenon
  <2>4. i_flag' \in [Files -> BOOLEAN] /\ UNCHANGED <<i_db, i_size, prealloc, dinode>>
    BY <1>1, <2>3, Zenon DEF FileTypes, fileVars
  <2>5. QED BY <1>3, <2>2, <2>3, <2>4, Zenon
<1>7. CASE /\ o.lbn < s /\ Discard(t, f)
           /\ op' = [op EXCEPT ![t] = [o EXCEPT !.at = "tdisc", !.osize = s]]
           /\ UNCHANGED <<i_db, i_size, i_flag, dinode>>
  <2>1. PICK q : q = [o EXCEPT !.at = "tdisc", !.osize = s]
    BY Zenon
  <2>2. q \in Job /\ q.f = f /\ q.at = "tdisc"
    BY <1>1, <2>1, Zenon DEF Places, Job
  <2>3. op' = [op EXCEPT ![t] = q]
    BY <1>7, <2>1, Zenon
  <2>4. \A r \in Reserve : r.cnt = 0 => JobOK(q, d, s, r)
    BY <2>2, Zenon DEF JobOK, Filling
  <2>5. QED BY <1>7, <2>2, <2>3, <2>4, DiscardStep, Zenon
<1>8. ASSUME o.lbn > s, NEW up, up = [o EXCEPT !.lbn = o.lbn - 1, !.grow = TRUE]
      PROVE  up \in Job /\ up.f = f /\ up.lbn = o.lbn - 1 /\ up.grow
  BY <1>4, <1>8, Zenon DEF Job
<1>9. CASE /\ o.lbn > s /\ Discard(t, f)
           /\ op' = [op EXCEPT ![t] = [[o EXCEPT !.lbn = o.lbn - 1, !.grow = TRUE] EXCEPT !.at = "ldisc"]]
           /\ UNCHANGED <<i_db, i_size, i_flag, dinode>>
  <2>1. PICK up : up = [o EXCEPT !.lbn = o.lbn - 1, !.grow = TRUE]
    BY Zenon
  <2>2. PICK q : q = [up EXCEPT !.at = "ldisc"]
    BY Zenon
  <2>3. q \in Job /\ q.f = f /\ q.at = "ldisc" /\ q.lbn = o.lbn - 1 /\ q.grow
    <3>1. up \in Job /\ up.f = f /\ up.lbn = o.lbn - 1 /\ up.grow
      BY <1>8, <1>9, <2>1, Zenon
    <3>2. QED BY <2>2, <3>1, SetAt DEF Places
  <2>4. op' = [op EXCEPT ![t] = q]
    BY <1>9, <2>1, <2>2, Zenon
  <2>5. \A r \in Reserve : r.cnt = 0 => JobOK(q, d, s, r)
    BY <1>4, <1>9, <2>3, Zenon DEF JobOK, Filling
  <2>6. QED BY <1>9, <2>3, <2>4, <2>5, DiscardStep, Zenon
<1>10. CASE o.lbn > s /\ Balloc(t, [o EXCEPT !.lbn = o.lbn - 1, !.grow = TRUE])
  <2>1. PICK up : up = [o EXCEPT !.lbn = o.lbn - 1, !.grow = TRUE]
    BY Zenon
  <2>2. up \in Job /\ up.f = f /\ up.lbn = o.lbn - 1 /\ up.grow
    BY <1>8, <1>10, <2>1, Zenon
  <2>3. Ready(t, up)
    BY <1>4, <1>10, <2>2, Zenon DEF Ready
  <2>4. Balloc(t, up)
    BY <1>10, <2>1, Zenon
  <2>5. QED BY <2>3, <2>4, BallocInv, Zenon
<1>11. QED
  BY <1>5, <1>6, <1>7, <1>9, <1>10, Zenon DEF TruncateTo

\* ext2_truncate begins.
LEMMA TruncateInv ==
  ASSUME FInv, Exclusive, NEW t \in Threads, NEW f \in Files, NEW len \in 0 .. MaxSize[f], Truncate(t, f, len)
  PROVE  FilePart' /\ Contract
<1>1. /\ Changer(t, f) /\ Sound(i_db[f], i_size[f]) /\ op[t].at \notin Asides
      /\ pc[t] = "idle" /\ i_size[f] \in Sizes
  BY EnterKnows, Zenon DEF Truncate
<1>2. MaxSize[f] \in Sizes /\ len \in Sizes
  BY DEF Sizes
<1>3. PICK q : q = [Idle EXCEPT !.f = f, !.lbn = len]
  BY Zenon
<1>4. q \in Job
  BY <1>2, <1>3, IdleJob, Zenon DEF Job
<1>5. q.f = f /\ q.lbn = len
  BY <1>3, Zenon DEF Idle
<1>6. TruncateTo(t, q)
  BY <1>3, Zenon DEF Truncate
<1>7. QED BY <1>1, <1>4, <1>5, <1>6, TruncateToInv, Zenon

\* A failed write truncates back.
LEMMA UndoWriteInv ==
  ASSUME FInv, NEW t \in Threads, UndoWrite(t)
  PROVE  FilePart' /\ Contract
<1>1. op[t].at = "tenter" /\ op[t].at \notin Resting /\ op[t].at \notin Asides /\ TruncateTo(t, op[t])
  BY Zenon DEF UndoWrite, Resting, Asides
<1>2. op[t].f \in Files /\ Changer(t, op[t].f)
  BY <1>1, Zenon DEF FInv, FilePart, Jobs, JobOK, Changer
<1>3. /\ op[t] \in Job /\ pc[t] = "idle"
      /\ Sound(i_db[op[t].f], i_size[op[t].f]) \/ op[t].lbn < i_size[op[t].f]
  BY <1>1, <1>2, ChangerKnows DEF CallOK, JobOK
<1>4. QED BY <1>1, <1>2, <1>3, TruncateToInv, Zenon

\* The data is written, or not: the size a write leaves covers its blocks, or
\* the truncation that follows cuts them off.
LEMMA WriteDoneInv ==
  ASSUME FInv, NEW t \in Threads, WriteDone(t)
  PROVE  FilePart' /\ Contract
<1> DEFINE o == op[t]
           f == o.f
           d == i_db[f]
           s == i_size[f]
           p == prealloc[f]
<1>1. o.at = "wdata" /\ o.at \notin Resting /\ AsideOf(o) = {}
  BY Zenon DEF WriteDone, Resting, AsideOf, Asides
<1>2. f \in Files /\ Changer(t, f)
  BY <1>1, Zenon DEF FInv, FilePart, Jobs, JobOK, Changer
<1>3. /\ o \in Job /\ s \in Sizes /\ p \in Reserve /\ JobOK(o, d, s, p) /\ pc[t] = "idle" /\ FileTypes
  BY <1>1, <1>2, ChangerKnows, Zenon DEF CallOK, FInv, FilePart
<1>4. PICK end \in {o.end, o.lbn} :
        /\ i_size' = [i_size EXCEPT ![f] = IF end > o.osize THEN end ELSE @]
        /\ i_flag' = [i_flag EXCEPT ![f] = TRUE]
        /\ IF end = o.lbn THEN op' = [op EXCEPT ![t] = [o EXCEPT !.at = "tenter", !.lbn = o.osize, !.end = 0]]
           ELSE Leave(t) \/ op' = [op EXCEPT ![t] = [Idle EXCEPT !.at = "supd", !.f = o.f]]
        /\ UNCHANGED allocVars /\ UNCHANGED <<i_db, prealloc, dinode>>
  BY Zenon DEF WriteDone
<1>5. PICK z : z = IF end > o.osize THEN end ELSE s
  BY Zenon
<1>6. /\ o.end \in {o.lbn, o.lbn + 1} /\ Sound(d, s) /\ (s <= o.osize \/ s <= o.lbn + 1)
  BY <1>1, <1>3, Zenon DEF JobOK
<1>7. o.lbn \in Sizes /\ o.end \in Sizes /\ o.osize \in Sizes /\ s \in Int /\ o.lbn \in Int /\ o.end \in Int /\ o.osize \in Int
  BY <1>3 DEF Job, Sizes
<1>8. z \in Sizes /\ i_size' = [i_size EXCEPT ![f] = z]
  BY <1>3, <1>4, <1>5, <1>7, Zenon
<1>9. /\ prealloc' = [prealloc EXCEPT ![f] = p] /\ i_flag' \in [Files -> BOOLEAN] /\ dinode' \in [Files -> Pointers]
      /\ UNCHANGED i_db
  BY <1>3, <1>4, Zenon DEF FileTypes
<1>10. Others(t) /\ pc'[t] = "idle" /\ UNCHANGED allocVars
  BY <1>3, <1>4, Zenon DEF Others, allocVars
<1>11. CASE end = o.lbn
  <2>1. PICK q : q = [o EXCEPT !.at = "tenter", !.lbn = o.osize, !.end = 0]
    BY Zenon
  <2>2. q \in Job /\ q.at = "tenter" /\ q.lbn = o.osize /\ q.f = f
    <3>1. 0 \in Sizes /\ "tenter" \in Places
      BY DEF Sizes, Places
    <3>2. QED BY <1>3, <1>7, <2>1, <3>1, Zenon DEF Job
  <2>3. op' = [op EXCEPT ![t] = q]
    <3>1. op' = [op EXCEPT ![t] = [o EXCEPT !.at = "tenter", !.lbn = o.osize, !.end = 0]]
      BY <1>4, <1>11, Zenon
    <3>2. QED BY <2>1, <3>1, Zenon
  <2>4. Sound(d, z) \/ q.lbn < z
    BY <1>5, <1>6, <1>7, <1>11, <2>2, Zenon
  <2>5. JobOK(q, d, z, p) /\ CallOK(q, pc'[t], req'[t], ret'[t])
    BY <1>2, <1>10, <2>2, <2>4, Zenon DEF JobOK, CallOK, Filling
  <2>6. AsideOf(q) = AsideOf(o) /\ q.at \notin Resting
    BY <1>1, <2>2, Zenon DEF AsideOf, Asides, Resting
  <2>7. FilePart' /\ FileOwned' = FileOwned
    BY <1>2, <1>3, <1>8, <1>9, <1>10, <2>2, <2>3, <2>5, <2>6, SameBlocksStep, Zenon
  <2>8. QED BY <1>10, <2>7, Zenon DEF Contract
<1>12. CASE end # o.lbn
  <2>1. PICK q : op' = [op EXCEPT ![t] = q] /\ (q = Idle \/ q = [Idle EXCEPT !.at = "supd", !.f = f])
    BY <1>4, <1>12, Zenon DEF Leave
  <2>2. q \in Job
    <3>1. [Idle EXCEPT !.at = "supd", !.f = f] \in Job
      BY <1>2, IdleJob, Zenon DEF Job, Places
    <3>2. QED BY <2>1, <3>1, IdleJob, Zenon
  <2>3. q.at \in {"out", "supd"} /\ (q.at # "out" => q.f = f)
    <3>1. CASE q = Idle
      BY <3>1, IdleJob, Zenon
    <3>2. CASE q = [Idle EXCEPT !.at = "supd", !.f = f]
      BY <3>2, Zenon DEF Idle
    <3>3. QED BY <2>1, <3>1, <3>2, Zenon
  <2>4. Sound(d, z)
    <3>1. end = o.lbn + 1 /\ (z = s \/ (z = o.lbn + 1 /\ s <= z))
      BY <1>5, <1>6, <1>7, <1>12
    <3>2. QED BY <1>6, <1>7, <3>1 DEF Sound, Lbns
  <2>5. JobOK(q, d, z, p) /\ CallOK(q, pc'[t], req'[t], ret'[t])
    BY <1>2, <1>10, <2>3, Zenon DEF JobOK, CallOK, Filling
  <2>6. AsideOf(q) = AsideOf(o)
    BY <1>1, <2>3, Zenon DEF AsideOf, Asides
  <2>7. FilePart' /\ FileOwned' = FileOwned
    BY <1>2, <1>3, <1>8, <1>9, <1>10, <2>1, <2>2, <2>3, <2>4, <2>5, <2>6, SameBlocksStep, Zenon
  <2>8. QED BY <1>10, <2>7, Zenon DEF Contract
<1>13. QED BY <1>11, <1>12, Zenon

\* A step of a shortening or lengthening ext2_truncate that moves pointers
\* between the inode and its locals.
LEMMA PointersStep ==
  ASSUME FInv, NEW t \in Threads, NEW f \in Files, NEW q \in Job, NEW d \in Pointers, NEW s \in Sizes,
         Changer(t, f), q.f = f, op[t].at # "out", pc[t] = "idle", UNCHANGED <<allocVars, prealloc, dinode>>,
         op' = [op EXCEPT ![t] = q], i_db' = [i_db EXCEPT ![f] = d], i_size' = [i_size EXCEPT ![f] = s],
         i_flag' \in [Files -> BOOLEAN], Distinct(d),
         Nz(d) \cup AsideOf(q) = Nz(i_db[f]) \cup AsideOf(op[t]),
         q.at \in {"supd", "tupd", "tfree"}, q.at = "supd" => Sound(d, s),
         JobOK(q, d, s, prealloc[f])
  PROVE  FilePart' /\ Contract
<1> DEFINE p == prealloc[f]
<1>1. /\ p \in Reserve /\ Holds(f) = Has(op[t], i_db[f], p) /\ Holds(f) \subseteq FileOwned
      /\ (Nz(d) \cup AsideOf(q)) \cap Run(p) = {}
      /\ p.cnt > 0 => \E g \in Groups : Run(p) \subseteq GroupBlocks(g)
  BY ChangerKnows, Zenon
<1>2. prealloc' = [prealloc EXCEPT ![f] = p] /\ dinode' \in [Files -> Pointers]
  BY Zenon DEF FInv, FilePart, FileTypes
<1>3. Others(t) /\ pc'[t] = "idle" /\ UNCHANGED allocVars
  BY Zenon DEF Others, allocVars
<1>4. CallOK(q, pc'[t], req'[t], ret'[t]) /\ (q.at \in Resting => Sound(d, s))
  BY <1>3, Zenon DEF CallOK, Resting
<1>5. StepOn(t, f, q, d, s, p)
  BY <1>2, <1>3, <1>4, Zenon DEF StepOn
<1>6. Has(q, d, p) = Holds(f)
  BY <1>1, Zenon DEF Has
<1>7. Has(q, d, p) \subseteq Holds(f) \cup Held(t)
  BY <1>6, Zenon
<1>8. FilePart' /\ FileOwned' = (FileOwned \ Holds(f)) \cup Has(q, d, p)
  BY <1>1, <1>4, <1>5, <1>7, ChangerStep
<1>9. FileOwned' = FileOwned
  BY <1>1, <1>6, <1>8, Zenon
<1>10. QED BY <1>3, <1>8, <1>9, Zenon DEF Contract

\* What ext2_truncate knows when it has the inode locked again.
LEMMA TruncateKnows ==
  ASSUME FInv, NEW t \in Threads, op[t].at \in {"lbuf", "tcut", "trest", "tblk"}
  PROVE  /\ op[t].f \in Files /\ Changer(t, op[t].f) /\ op[t] \in Job /\ op[t].at # "out"
         /\ JobOK(op[t], i_db[op[t].f], i_size[op[t].f], prealloc[op[t].f])
         /\ i_db[op[t].f] \in Pointers /\ i_size[op[t].f] \in Sizes /\ Distinct(i_db[op[t].f])
         /\ op[t].at # "tblk" => pc[t] = "idle"
         /\ FileTypes
<1>1. op[t].at # "out" /\ op[t].at \notin Resting
  BY Zenon DEF Resting
<1>2. op[t].f \in Files /\ Changer(t, op[t].f)
  BY <1>1, Zenon DEF FInv, FilePart, Jobs, JobOK, Changer
<1>3. QED BY <1>1, <1>2, ChangerKnows, Zenon DEF CallOK, FInv, FilePart

\* The new block of a lengthening ext2_truncate becomes the last of the file.
LEMMA BufferedInv ==
  ASSUME FInv, NEW t \in Threads, Buffered(t)
  PROVE  FilePart' /\ Contract
<1> DEFINE o == op[t]
           f == o.f
           d == i_db[f]
           s == i_size[f]
           b == o.old[o.lbn]
<1>1. o.at = "lbuf"
  BY Zenon DEF Buffered
<1>2. /\ f \in Files /\ Changer(t, f) /\ o \in Job /\ o.at # "out" /\ JobOK(o, d, s, prealloc[f])
      /\ d \in Pointers /\ s \in Sizes /\ Distinct(d) /\ pc[t] = "idle" /\ FileTypes
  BY <1>1, TruncateKnows, Zenon
<1>3. /\ Sound(d, s) /\ o.lbn \in Lbns /\ s <= o.lbn
      /\ \A l \in Lbns : l # o.lbn => o.old[l] = 0
      /\ b # 0 => \A m \in Lbns : d[m] # b
  BY <1>1, <1>2, Zenon DEF JobOK
<1>4. d[o.lbn] = 0 /\ o.lbn + 1 \in Sizes /\ b \in Blocks \cup {0} /\ o.old \in Pointers
  BY <1>2, <1>3, SMTT(30) DEF Sound, Lbns, Sizes, Job, Pointers
<1>5. PICK e : e = [d EXCEPT ![o.lbn] = IF b = 0 THEN d[o.lbn] ELSE b]
  BY Zenon
<1>6. e \in Pointers /\ e[o.lbn] = b /\ \A m \in Lbns \ {o.lbn} : e[m] = d[m]
  BY <1>2, <1>3, <1>4, <1>5, Zenon DEF Pointers
<1>7. Nz(o.old) = {b} \ {0}
  BY <1>3, Zenon DEF Nz
<1>8. Nz(e) = Nz(d) \cup Nz(o.old)
  BY <1>3, <1>4, <1>6, <1>7 DEF Nz
<1>9. Distinct(e)
  BY <1>2, <1>3, <1>4, <1>6 DEF Distinct
<1>10. Sound(e, o.lbn + 1)
  BY <1>2, <1>3, <1>6 DEF Sound, Sizes, Lbns
<1>11. PICK q : q = [o EXCEPT !.at = "supd", !.old = Empty]
  BY Zenon
<1>12. q \in Job /\ q.at = "supd" /\ q.f = f
  BY <1>2, <1>11, EmptyPointers, Zenon DEF Job, Places
<1>13. /\ op' = [op EXCEPT ![t] = q] /\ i_db' = [i_db EXCEPT ![f] = e]
       /\ i_size' = [i_size EXCEPT ![f] = o.lbn + 1] /\ UNCHANGED <<allocVars, prealloc, dinode>>
  BY <1>5, <1>11, Zenon DEF Buffered
<1>14. i_flag' \in [Files -> BOOLEAN]
  BY <1>2, Zenon DEF Buffered, FileTypes
<1>15. Nz(e) \cup AsideOf(q) = Nz(d) \cup AsideOf(o)
  BY <1>1, <1>8, <1>12, Zenon DEF AsideOf, Asides
<1>16. JobOK(q, e, o.lbn + 1, prealloc[f])
  BY <1>2, <1>12, Zenon DEF JobOK, Filling
<1>17. QED BY <1>2, <1>4, <1>6, <1>9, <1>10, <1>12, <1>13, <1>14, <1>15, <1>16, PointersStep, Zenon

\* The pointers past the new end go to the locals of ext2_truncate.
LEMMA CutInv ==
  ASSUME FInv, NEW t \in Threads, Cut(t)
  PROVE  FilePart' /\ Contract
<1> DEFINE o == op[t]
           f == o.f
           d == i_db[f]
<1>1. o.at = "tcut"
  BY Zenon DEF Cut
<1>2. /\ f \in Files /\ Changer(t, f) /\ o \in Job /\ o.at # "out"
      /\ d \in Pointers /\ Distinct(d) /\ pc[t] = "idle" /\ FileTypes
  BY <1>1, TruncateKnows, Zenon
<1>3. PICK e : e = Kept(d, o.lbn)
  BY Zenon
<1>4. e \in Pointers /\ o.lbn \in Sizes /\ \A l \in Lbns : e[l] = d[l] \/ e[l] = 0
  BY <1>2, <1>3, Zenon DEF Kept, Pointers, Job
<1>5. Distinct(e) /\ Nz(e) \subseteq Nz(d)
  BY <1>2, <1>4, Zenon DEF Distinct, Nz
<1>6. PICK q : q = [o EXCEPT !.at = "tupd", !.old = d]
  BY Zenon
<1>7. q \in Job /\ q.at = "tupd" /\ q.f = f /\ q.old = d /\ q.lbn = o.lbn
  BY <1>2, <1>6, Zenon DEF Job, Places
<1>8. op' = [op EXCEPT ![t] = q]
  BY <1>2, <1>6, Zenon DEF Cut, FileTypes
<1>9. /\ i_db' = [i_db EXCEPT ![f] = e] /\ i_size' = [i_size EXCEPT ![f] = o.lbn]
      /\ UNCHANGED <<allocVars, prealloc, dinode>>
  BY <1>3, Zenon DEF Cut
<1>10. i_flag' \in [Files -> BOOLEAN]
  BY <1>2, Zenon DEF Cut, FileTypes
<1>11. Nz(e) \cup AsideOf(q) = Nz(d) \cup AsideOf(o)
  BY <1>1, <1>5, <1>7, Zenon DEF AsideOf, Asides
<1>12. JobOK(q, e, o.lbn, prealloc[f])
  BY <1>2, <1>3, <1>7, Zenon DEF JobOK, Filling
<1>13. QED BY <1>2, <1>4, <1>5, <1>7, <1>8, <1>9, <1>10, <1>11, <1>12, PointersStep, Zenon

\* They come back once the inode is written.
LEMMA RestoreInv ==
  ASSUME FInv, NEW t \in Threads, Restore(t)
  PROVE  FilePart' /\ Contract
<1> DEFINE o == op[t]
           f == o.f
           d == i_db[f]
<1>1. o.at = "trest"
  BY Zenon DEF Restore
<1>2. /\ f \in Files /\ Changer(t, f) /\ o \in Job /\ o.at # "out" /\ JobOK(o, d, i_size[f], prealloc[f])
      /\ d \in Pointers /\ pc[t] = "idle" /\ FileTypes
  BY <1>1, TruncateKnows, Zenon
<1>3. d = Kept(o.old, o.lbn) /\ Distinct(o.old) /\ o.old \in Pointers /\ o.osize \in Sizes
  BY <1>1, <1>2, Zenon DEF JobOK, Job
<1>4. \A l \in Lbns : d[l] = o.old[l] \/ d[l] = 0
  BY <1>3, Zenon DEF Kept
<1>5. Nz(d) \subseteq Nz(o.old)
  BY <1>4, Zenon DEF Nz
<1>6. PICK q : q = [o EXCEPT !.at = "tfree", !.old = Empty]
  BY Zenon
<1>7. q \in Job /\ q.at = "tfree" /\ q.f = f
  BY <1>2, <1>6, EmptyPointers, Zenon DEF Job, Places
<1>8. op' = [op EXCEPT ![t] = q]
  BY <1>2, <1>6, Zenon DEF Restore, FileTypes
<1>9. /\ i_db' = [i_db EXCEPT ![f] = o.old] /\ i_size' = [i_size EXCEPT ![f] = o.osize]
      /\ UNCHANGED <<allocVars, prealloc, i_flag, dinode>>
  BY Zenon DEF Restore
<1>10. i_flag' \in [Files -> BOOLEAN] /\ UNCHANGED <<allocVars, prealloc, dinode>>
  BY <1>2, <1>9, Zenon DEF FileTypes
<1>11. Nz(o.old) \cup AsideOf(q) = Nz(d) \cup AsideOf(o)
  BY <1>1, <1>5, <1>7, Zenon DEF AsideOf, Asides
<1>12. JobOK(q, o.old, o.osize, prealloc[f])
  BY <1>2, <1>7, Zenon DEF JobOK, Filling
<1>13. QED BY <1>2, <1>3, <1>7, <1>8, <1>9, <1>10, <1>11, <1>12, PointersStep, Zenon

\* One round of the loop that frees the blocks, and its end.
LEMMA FreeNextInv ==
  ASSUME FInv, NEW t \in Threads, FreeNext(t)
  PROVE  FilePart' /\ Contract
<1> DEFINE o == op[t]
           f == o.f
           d == i_db[f]
           s == i_size[f]
           p == prealloc[f]
           todo == {l \in Lbns : l >= o.lbn /\ d[l] # 0}
<1>1. o.at = "tblk" /\ pc[t] = "idle" /\ o.at \notin Resting /\ AsideOf(o) = {}
  BY Zenon DEF FreeNext, Resting, AsideOf, Asides
<1>2. /\ f \in Files /\ Changer(t, f) /\ o \in Job /\ o.at # "out" /\ d \in Pointers /\ s \in Sizes
      /\ Distinct(d) /\ FileTypes /\ TypeOK
  BY <1>1, TruncateKnows, AllocFacts, Zenon
<1>3. /\ p \in Reserve /\ Holds(f) = Nz(d) \cup Run(p) /\ Holds(f) \subseteq FileOwned
      /\ Nz(d) \cap Run(p) = {} /\ FileOwned \subseteq Blocks \ {0}
      /\ p.cnt > 0 => \E g \in Groups : Run(p) \subseteq GroupBlocks(g)
  BY <1>1, <1>2, ChangerKnows, AllocFacts DEF Has
<1>4. ASSUME NEW l \in Lbns, d[l] # 0, i_db' = [i_db EXCEPT ![f][l] = 0], FreeBlocks(t, d[l], 1),
             UNCHANGED <<i_size, prealloc, i_flag, dinode, op>>
      PROVE  FilePart' /\ Contract
  <2> DEFINE b == d[l]
  <2>1. PICK e : e = [d EXCEPT ![l] = 0]
    BY Zenon
  <2>2. e \in Pointers /\ e[l] = 0 /\ \A m \in Lbns \ {l} : e[m] = d[m]
    BY <1>2, <2>1, Zenon DEF Pointers
  <2>3. Nz(e) = Nz(d) \ {b} /\ b \in Nz(d) /\ Distinct(e)
    <3>1. b \in Nz(d) /\ \A m \in Lbns \ {l} : d[m] # b
      BY <1>2, <1>4, Zenon DEF Nz, Distinct
    <3>2. Nz(e) = Nz(d) \ {b}
      BY <2>2, <3>1 DEF Nz
    <3>3. Distinct(e)
      BY <1>2, <2>2, Zenon DEF Distinct
    <3>4. QED BY <3>1, <3>2, <3>3, Zenon
  <2>4. b \in FileOwned /\ b \in Blocks /\ b \in Nat
    <3>1. b \in FileOwned /\ b \in Blocks
      BY <1>3, <2>3, Zenon
    <3>2. QED BY <3>1 DEF Blocks
  <2>5. PICK g \in Groups : b \in GroupBlocks(g)
    BY <2>4, BlockHasGroup, Zenon
  <2>6. Others(t) /\ pc'[t] = "freeread" /\ ret'[t].blk = 0
    <3>1. b .. b + 1 - 1 \subseteq GroupBlocks(g)
      BY <2>4, <2>5
    <3>2. QED BY <1>2, <1>4, <2>4, <3>1, FreeBlocksEffect
  <2>7. JobOK(o, e, s, p) /\ CallOK(o, pc'[t], req'[t], ret'[t])
    BY <1>1, <1>2, <2>6, Zenon DEF JobOK, CallOK, Filling
  <2>8. /\ op' = [op EXCEPT ![t] = o] /\ i_size' = [i_size EXCEPT ![f] = s] /\ prealloc' = [prealloc EXCEPT ![f] = p]
        /\ dinode' \in [Files -> Pointers] /\ i_flag' \in [Files -> BOOLEAN]
    BY <1>2, <1>4, Zenon DEF FileTypes
  <2>9. i_db' = [i_db EXCEPT ![f] = e]
    BY <1>4, <2>1, Zenon
  <2>10. StepOn(t, f, o, e, s, p)
    BY <2>6, <2>7, <2>8, <2>9, Zenon DEF StepOn
  <2>11. /\ Has(o, e, p) = Holds(f) \ {b} /\ (Nz(e) \cup AsideOf(o)) \cap Run(p) = {}
         /\ Has(o, e, p) \subseteq Holds(f) \cup Held(t)
    BY <1>1, <1>3, <2>3, SMTT(30) DEF Has
  <2>12. FilePart' /\ FileOwned' = (FileOwned \ Holds(f)) \cup Has(o, e, p)
    BY <1>1, <1>2, <1>3, <2>2, <2>3, <2>10, <2>11, ChangerStep, SMTT(30)
  <2>13. FileOwned' = FileOwned \ {b}
    BY <1>3, <2>3, <2>11, <2>12, Zenon
  <2>14. /\ b \in FileOwned \cap GroupBlocks(g) /\ b <= b /\ b .. b \subseteq FileOwned
         /\ FileOwned' = FileOwned \ (b .. b) /\ FreeBlocks(t, b, b - b + 1)
    BY <1>4, <2>4, <2>5, <2>13
  <2>15. GivesBack(t)
    BY <2>5, <2>14, Zenon DEF GivesBack
  <2>16. QED BY <2>12, <2>15, Zenon DEF Contract
<1>5. ASSUME todo = {}, i_size' = [i_size EXCEPT ![f] = o.lbn], i_flag' = [i_flag EXCEPT ![f] = TRUE], Leave(t),
             UNCHANGED <<allocVars, i_db, prealloc, dinode>>
      PROVE  FilePart' /\ Contract
  <2>1. Sound(d, o.lbn) /\ o.lbn \in Sizes
    BY <1>2, <1>5 DEF Sound, Job, Sizes, Lbns
  <2>2. /\ op' = [op EXCEPT ![t] = Idle] /\ prealloc' = [prealloc EXCEPT ![f] = p] /\ UNCHANGED i_db
        /\ dinode' \in [Files -> Pointers] /\ i_flag' \in [Files -> BOOLEAN]
    BY <1>2, <1>5, Zenon DEF Leave, FileTypes
  <2>3. Others(t) /\ pc'[t] = "idle" /\ UNCHANGED allocVars
    BY <1>1, <1>5, Zenon DEF Others, allocVars
  <2>4. JobOK(Idle, d, o.lbn, p) /\ CallOK(Idle, pc'[t], req'[t], ret'[t])
    BY <2>3, IdleJob, SMTT(30) DEF JobOK, CallOK, Filling
  <2>5. FilePart' /\ FileOwned' = FileOwned
    BY <1>1, <1>2, <1>3, <1>5, <2>1, <2>2, <2>3, <2>4, IdleJob, SameBlocksStep, Zenon
  <2>6. QED BY <2>3, <2>5, Zenon DEF Contract
<1>6. QED BY <1>4, <1>5, Zenon DEF FreeNext
-----------------------------------------------------------------------------
(***************************************************************************)
(* All steps, as long as no garbage is taken for a preallocation and no    *)
(* two threads change one file at a time.                                  *)
(***************************************************************************)
\* A freshly mounted volume with empty files.
LEMMA FileInit == Init => FilePart /\ FileOwned = {}
<1> SUFFICES ASSUME Init PROVE FilePart /\ FileOwned = {}
  BY Zenon
<1> USE DEF Init
<1>1. FileTypes
  BY EmptyPointers, IdleJob DEF FileTypes, Sizes, Reserve
<1>2. \A f \in Files : Own(f) = {} /\ Preallocated(f) = {}
  <2>1. ASSUME NEW f \in Files PROVE Own(f) = {}
    BY EmptyPointers, IdleJob, OwnIs DEF OwnIn
  <2>2. ASSUME NEW f \in Files PROVE Preallocated(f) = {}
    BY DEF Preallocated
  <2>3. QED BY <2>1, <2>2, Zenon
<1>3. NoSharing
  BY <1>2, EmptyPointers, Zenon DEF NoSharing
<1>4. OneChanger /\ PreallocInGroup /\ NothingPastEnd
  BY IdleJob, EmptyPointers DEF OneChanger, Changing, PreallocInGroup, NothingPastEnd
<1>5. Jobs
  BY IdleJob, Zenon DEF Jobs, JobOK, Filling
<1>6. Calls
  BY IdleJob, Zenon DEF Calls, CallOK, AllocInit
<1>7. FileOwned = {}
  BY <1>2, Zenon DEF FileOwned
<1>8. QED BY <1>1, <1>3, <1>4, <1>5, <1>6, <1>7, Zenon DEF FilePart

\* Every step keeps the contract of the allocator and what the files rely on.
LEMMA FileNext ==
  ASSUME Exclusive
  PROVE  FInv /\ NoGarbage /\ [Next]_vars => Contract /\ (AllocPanicFree' => FilePart')
<1> SUFFICES ASSUME FInv, NoGarbage, [Next]_vars PROVE Contract /\ (AllocPanicFree' => FilePart')
  BY Zenon
<1>1. ASSUME NEW t \in Threads, Call(t) PROVE FilePart' /\ Contract
  BY <1>1, WriteInv, TruncateInv, SyncInv, Zenon DEF Call
<1>2. ASSUME NEW t \in Threads, FileStep(t) PROVE FilePart' /\ Contract
  BY <1>2, DiscardedInv, FillInv, MissDoneInv, WriteNextInv, WriteDoneInv, UndoWriteInv, BufferedInv, CutInv,
     RestoreInv, FreeLoopInv, FreeNextInv, FreeReturnsInv, SyncInv, UpdateInv, Zenon DEF FileStep
<1>3. ASSUME NEW t \in Threads, BitmapStep(t) PROVE Contract /\ (AllocPanicFree' => FilePart')
  BY <1>3, BitmapStepInv, Zenon
<1>4. CASE UNCHANGED vars
  <2>1. FilePart'
    <3>1. FileTypes /\ NoSharing /\ OneChanger /\ PreallocInGroup /\ NothingPastEnd /\ Jobs /\ Calls
      BY Zenon DEF FInv, FilePart
    <3>2. /\ i_db' = i_db /\ i_size' = i_size /\ prealloc' = prealloc /\ i_flag' = i_flag /\ dinode' = dinode
          /\ op' = op /\ pc' = pc /\ req' = req /\ ret' = ret
      BY <1>4, Zenon DEF vars
    <3>3. \A f : Own(f)' = Own(f) /\ Preallocated(f)' = Preallocated(f) /\ Changing(f)' = Changing(f)
      BY <3>2 DEF Own, Preallocated, Changing
    <3>4. FileTypes' /\ NoSharing'
      BY <3>1, <3>2, <3>3, Zenon DEF FileTypes, NoSharing
    <3>5. OneChanger' /\ PreallocInGroup' /\ NothingPastEnd'
      BY <3>1, <3>2, <3>3, Zenon DEF OneChanger, PreallocInGroup, NothingPastEnd
    <3>6. Jobs' /\ Calls'
      BY <3>1, <3>2, Zenon DEF Jobs, Calls
    <3>7. QED BY <3>4, <3>5, <3>6, Zenon DEF FilePart
  <2>2. UNCHANGED <<allocVars, FileOwned>>
    BY <1>4 DEF vars, allocVars, FileOwned, Own, Preallocated
  <2>3. QED BY <2>1, <2>2, Zenon DEF Contract
<1>5. QED BY <1>1, <1>2, <1>3, <1>4, Zenon DEF Next
-----------------------------------------------------------------------------
(***************************************************************************)
(* The allocator, with the files as its callers.                           *)
(***************************************************************************)
AP == INSTANCE BlockAllocProofs WITH own <- FileOwned, Goals <- Prefs

\* The inductive invariant.
IInv == FilePart /\ AP!IInv
-----------------------------------------------------------------------------
(***************************************************************************)
(* What an instance of BlockAlloc says of the bitmaps is what BlockBitmap  *)
(* says.  First for AP, from which the invariant of the allocator comes.   *)
(***************************************************************************)
\* The geometry.
LEMMA SameGeometry ==
  /\ AP!Blocks = Blocks /\ AP!Groups = Groups /\ AP!Bits = Bits /\ AP!NoRet = NoRet
  /\ \A g, j : AP!Blk(g, j) = Blk(g, j)
  /\ \A g : AP!GroupBlocks(g) = GroupBlocks(g)
  /\ \A g : AP!Zero(g) = Zero(g)
  /\ \A t : AP!FreeRun(t) = FreeRun(t)
  /\ \A S : AP!Cardinality(S) = Cardinality(S)
<1>1. \A S : AP!Cardinality(S) = Cardinality(S)
  BY DEF AP!Cardinality, Cardinality
<1>2. QED
  BY <1>1 DEF AP!Blocks, Blocks, AP!Groups, Groups, AP!Bits, Bits, AP!NoRet, NoRet, AP!Blk, Blk,
              AP!GroupBlocks, GroupBlocks, AP!Zero, Zero, AP!FreeRun, FreeRun

\* The initial state.
LEMMA SameInit ==
  AllocInit(Meta) => AP!AllocInit(Meta)
BY SameGeometry DEF AllocInit, AP!AllocInit

\* The searches.
LEMMA SameSearch ==
  ASSUME NEW g, NEW j
  PROVE  AP!SearchGroup(g, j) = SearchGroup(g, j) /\ AP!SearchGoal(g, j) = SearchGoal(g, j)
<1>1. ASSUME NEW k PROVE AP!SearchGroup(g, k) = SearchGroup(g, k)
  BY Zenon DEF SearchGroup, AP!SearchGroup, FreeBytes, AP!FreeBytes, SearchBack, AP!SearchBack, Least, AP!Least,
               AP!Zero, Zero, AP!Bits, Bits, AP!Blk, Blk, AP!Blocks, Blocks
<1>2. AP!WindowEnd(j) = WindowEnd(j)
  BY Zenon DEF AP!WindowEnd, WindowEnd
<1>3. \A S : AP!Least(S) = Least(S)
  BY Zenon DEF AP!Least, Least
<1>4. AP!SearchGoal(g, j) = SearchGoal(g, j)
  BY <1>1, <1>2, <1>3, SameGeometry, Zenon DEF AP!SearchGoal, SearchGoal
<1>5. QED BY <1>1, <1>4

\* The scan for a group.
LEMMA SameScan ==
  ASSUME NEW t, NEW i, NEW pre
  PROVE  ScanFrom(t, i, pre) => AP!ScanFrom(t, i, pre)
BY Zenon DEF ScanFrom, AP!ScanFrom, Least, AP!Least, Goto, AP!Goto, NoRet, AP!NoRet

\* The steps of a call.
LEMMA SameAllocStep ==
  ASSUME NEW t, AllocStep(t)
  PROVE  AP!AllocStep(t)
<1> USE SameGeometry DEF AP!Goto, Goto, bitmapVars, AP!bitmapVars
<1>1. ReadBitmap(t) => AP!ReadBitmap(t)
  BY DEF ReadBitmap, AP!ReadBitmap, AP!Waiting, Waiting
<1>2. ReleaseBitmap(t) => AP!ReleaseBitmap(t)
  BY DEF ReleaseBitmap, AP!ReleaseBitmap
<1>3. FreeBits(t) => AP!FreeBits(t)
  BY DEF FreeBits, AP!FreeBits
<1>4. ASSUME NEW g, NEW j, NEW n
      PROVE  IsPrealloc(g, j, n) <=> AP!IsPrealloc(g, j, n)
  BY DEF IsPrealloc, AP!IsPrealloc
<1>5. ASSUME NEW g, NEW j, Commit(t, g, j)
      PROVE  AP!Commit(t, g, j)
  BY <1>4, <1>5 DEF Commit, AP!Commit
<1>6. ScanSearch(t) => AP!ScanSearch(t)
  BY SameSearch, <1>5 DEF ScanSearch, AP!ScanSearch
<1>7. GoalSearch(t) => AP!GoalSearch(t)
  BY SameSearch, SameScan, <1>5 DEF GoalSearch, AP!GoalSearch
<1>8. QED BY <1>1, <1>2, <1>3, <1>6, <1>7 DEF AllocStep, AP!AllocStep

\* So the theorems of BlockAllocProofs are about the files' allocator.
LEMMA ContractAP == Contract => [AP!Next]_(AP!vars)
<1> SUFFICES ASSUME Contract PROVE [AP!Next]_(AP!vars)
  OBVIOUS
<1> USE SameGeometry DEF AP!Goto, Goto, bitmapVars, AP!bitmapVars
<1>1. ASSUME NEW t \in Threads, Asks(t) PROVE AP!CallNewBlock(t)
  <2>1. ASSUME NEW goal \in Prefs, NEW pre \in BOOLEAN, NewBlock(t, goal, pre)
        PROVE  AP!NewBlock(t, goal, pre)
    BY <2>1, SameScan DEF NewBlock, AP!NewBlock
  <2>2. QED BY <1>1, <2>1 DEF Asks, AP!CallNewBlock
<1>2. ASSUME NEW t \in Threads, GivesBack(t) PROVE AP!CallFreeBlocks(t)
  <2>1. ASSUME NEW b, NEW n, FreeBlocks(t, b, n) PROVE AP!FreeBlocks(t, b, n)
    BY <2>1 DEF FreeBlocks, AP!FreeBlocks
  <2>2. QED BY <1>2, <2>1 DEF GivesBack, AP!CallFreeBlocks
<1>3. ASSUME NEW t \in Threads, Receives(t) PROVE AP!Return(t)
  BY <1>3 DEF Receives, CallReturns, AP!Return, AP!RetBlocks, RetBlocks
<1>4. ASSUME NEW t \in Threads, AllocStep(t), UNCHANGED FileOwned PROVE AP!Step(t)
  BY <1>4, SameAllocStep DEF AP!Step
<1>5. QED BY <1>1, <1>2, <1>3, <1>4 DEF Contract, AP!Next, AP!vars, allocVars

\* What the invariant of the allocator says of the blocks the files hold.
LEMMA AllocKnows == IInv => FInv
<1> SUFFICES ASSUME IInv PROVE AllocPart
  BY DEF IInv, FInv
<1>1. AP!TypeOK /\ AP!Partition
  BY DEF IInv, AP!IInv
<1>2. TypeOK
  BY <1>1, SameGeometry DEF TypeOK, AP!TypeOK, AP!Waiting, AP!Working, Waiting, Working, AP!Req, Req, AP!Ret, Ret
<1>3. \A t \in Threads : AP!Held(t) = Held(t)
  BY SameGeometry DEF AP!Held, Held, AP!RetBlocks, RetBlocks
<1>4. QED BY <1>1, <1>2, <1>3 DEF AP!Partition, TypeOK, AllocPart
-----------------------------------------------------------------------------
(***************************************************************************)
(* The invariant is inductive, as long as no garbage is taken for a        *)
(* preallocation and no two threads change one file at a time.             *)
(***************************************************************************)
\* A freshly mounted volume with empty files.
LEMMA InitInv == Init => IInv
<1>1. Init => AP!Init
  BY FileInit, SameInit DEF Init, AP!Init
<1>2. AP!Init => AP!IInv
  BY AP!InitInv, SameGeometry
<1>3. QED BY <1>1, <1>2, FileInit DEF IInv

\* The files keep the contract, so the allocator keeps its invariant and does not
\* panic, so the files keep theirs.
LEMMA NextInv ==
  ASSUME Exclusive
  PROVE  IInv /\ NoGarbage /\ [Next]_vars => IInv' /\ [AP!Next]_(AP!vars)
<1> SUFFICES ASSUME IInv, NoGarbage, [Next]_vars PROVE IInv' /\ [AP!Next]_(AP!vars)
  OBVIOUS
<1>1. Contract /\ (AllocPanicFree' => FilePart')
  BY AllocKnows, FileNext
<1>2. [AP!Next]_(AP!vars)
  BY <1>1, ContractAP
<1>3. AP!IInv'
  BY <1>2, AP!NextInv, SameGeometry DEF IInv
<1>4. AllocPanicFree'
  BY <1>3 DEF AP!IInv, AP!NoPanic, AllocPanicFree
<1>5. QED BY <1>1, <1>2, <1>3, <1>4 DEF IInv
-----------------------------------------------------------------------------
(***************************************************************************)
(* The theorems.  Exclusive says that no two threads write or truncate one *)
(* file at a time, NoGarbage that a failed ext2_new_block leaves no count  *)
(* in the uninitialised variables of ext2_alloc.  The code does not see to *)
(* either: see MCFileBlocksTwoWriters.cfg and MCFileBlocksFull.cfg.        *)
(***************************************************************************)
\* The invariant holds in every behaviour that meets no garbage.
THEOREM FileInvariance ==
  ASSUME Exclusive
  PROVE  Spec /\ []NoGarbage => []IInv
<1>1. IInv /\ NoGarbage /\ [Next]_vars => IInv'
  BY NextInv
<1>2. QED BY <1>1, InitInv, PTL DEF Spec

\* The writes, truncations and syncs of any number of threads keep every block
\* pointer, in the inode or in a local variable of ext2_truncate, 0 or a block of
\* the volume, and every size within the direct blocks.
THEOREM FilesTyped ==
  ASSUME Exclusive
  PROVE  Spec /\ []NoGarbage => []FileTypeOK
<1>1. IInv => FileTypeOK
  BY AllocKnows, AllocFacts DEF IInv, FilePart, FileTypes, FileTypeOK, Job, Reserve
<1>2. QED BY <1>1, FileInvariance, PTL

\* No block is ever in two files, in two places of one, or in a file and a
\* preallocation, whatever happens while ext2_alloc, ext2_discard_prealloc and
\* ext2_truncate have the inode unlocked.
THEOREM FilesShareNothing ==
  ASSUME Exclusive
  PROVE  Spec /\ []NoGarbage => []NoSharing
<1>1. IInv => NoSharing
  BY DEF IInv, FilePart
<1>2. QED BY <1>1, FileInvariance, PTL

\* A file nobody changes ends after its last block, also when writes and
\* truncations have failed half way.
THEOREM FilesEndSound ==
  ASSUME Exclusive
  PROVE  Spec /\ []NoGarbage => []NothingPastEnd
<1>1. IInv => NothingPastEnd
  BY DEF IInv, FilePart
<1>2. QED BY <1>1, FileInvariance, PTL

\* ext2_balloc2 does not reach its panic "Something is terribly wrong".
THEOREM BallocPanicFree ==
  ASSUME Exclusive
  PROVE  Spec /\ []NoGarbage => []NothingTerriblyWrong
<1>1. IInv => NothingTerriblyWrong
  BY DEF IInv, FilePart, Jobs, JobOK, NothingTerriblyWrong
<1>2. QED BY <1>1, FileInvariance, PTL

\* What the instance AP of the abstract allocator does, the instance Allocator of
\* FileBlocks does.
LEMMA SameInstance ==
  /\ AP!Init => Allocator!Init
  /\ [AP!Next]_(AP!vars) => [Allocator!Next]_(Allocator!vars)
<1> USE DEF AP!Blocks, Allocator!Blocks, AP!Groups, Allocator!Groups, AP!Bits, Allocator!Bits, AP!Blk, Allocator!Blk,
            AP!GroupBlocks, Allocator!GroupBlocks, AP!NoRet, Allocator!NoRet, AP!Cardinality, Allocator!Cardinality
<1>1. AP!Init => Allocator!Init
  BY Zenon DEF AP!Init, Allocator!Init, AP!AllocInit, Allocator!AllocInit
<1>2. AP!Next => Allocator!Next
  BY Zenon
     DEF AP!Next, Allocator!Next, AP!CallNewBlock, Allocator!CallNewBlock,
         AP!CallFreeBlocks, Allocator!CallFreeBlocks, AP!Return, Allocator!Return, AP!Step, Allocator!Step,
         AP!NewBlock, Allocator!NewBlock, AP!FreeBlocks, Allocator!FreeBlocks,
         AP!AllocStep, Allocator!AllocStep, AP!ReadBitmap, Allocator!ReadBitmap,
         AP!GoalSearch, Allocator!GoalSearch, AP!ScanSearch, Allocator!ScanSearch, AP!FreeBits, Allocator!FreeBits,
         AP!ReleaseBitmap, Allocator!ReleaseBitmap, AP!Commit, Allocator!Commit,
         AP!IsPrealloc, Allocator!IsPrealloc, AP!ScanFrom, Allocator!ScanFrom,
         AP!SearchGoal, Allocator!SearchGoal, AP!SearchGroup, Allocator!SearchGroup,
         AP!SearchBack, Allocator!SearchBack, AP!FreeBytes, Allocator!FreeBytes, AP!Least, Allocator!Least,
         AP!WindowEnd, Allocator!WindowEnd, AP!Zero, Allocator!Zero, AP!FreeRun, Allocator!FreeRun,
         AP!RetBlocks, Allocator!RetBlocks, AP!Goto, Allocator!Goto, AP!bitmapVars, Allocator!bitmapVars,
         AP!Waiting, Allocator!Waiting
<1>3. QED BY <1>1, <1>2, Zenon DEF AP!vars, Allocator!vars

\* The files are a well-behaved caller of the allocator: every step of theirs is
\* a call, a return or a step of a call that BlockAlloc allows, or changes
\* nothing it can see.  So what BlockAllocProofs proves holds of the blocks the
\* files hold: none is lost, and none is freed but by its owner.
THEOREM FilesKeepContract ==
  ASSUME Exclusive
  PROVE  Spec /\ []NoGarbage => KeepsAllocatorContract
<1>1. Init => Allocator!Init
  BY FileInit, SameInit, SameInstance DEF Init, AP!Init
<1>2. IInv /\ NoGarbage /\ [Next]_vars => [Allocator!Next]_(Allocator!vars)
  BY NextInv, SameInstance
<1>3. QED BY <1>1, <1>2, FileInvariance, PTL DEF Spec, KeepsAllocatorContract, Allocator!Spec
=============================================================================
