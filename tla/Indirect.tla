------------------------------ MODULE Indirect ------------------------------
(***************************************************************************)
(* The indirect blocks of a file: ext2_getlbns and ext2_bmaparray          *)
(* (ext2_bmap.c), which translate a logical block number, and              *)
(* ext2_balloc2 (ext2_balloc.c), which extends the tree, with the buffers  *)
(* of the indirect blocks, their delayed writes and what is on disk at     *)
(* each moment.  The inode may be written at any time, and its pointers    *)
(* only grow, so the pointers in core are the most that it has on disk.    *)
(* One thread extends the file (FileBlocks has several, and truncations of *)
(* direct blocks); allocation takes the lowest free block, since no step   *)
(* depends on which one it is.                                             *)
(***************************************************************************)
EXTENDS Integers, Sequences, FiniteSets, Functions

CONSTANTS NDADDR, NIADDR,   \* direct and indirect pointers of an inode
          NINDIR,           \* pointers in a block
          NBlocks,          \* blocks of the volume
          Targets           \* the logical blocks that are written

(* With two pointers to a block the numbers of two indirect blocks would   *)
(* coincide.                                                               *)
ASSUME IndirectConstants ==
    /\ NDADDR \in Nat \ {0} /\ NIADDR \in 1 .. 3 /\ NINDIR \in Nat \ (0 .. 2)
    /\ NBlocks \in Nat /\ Targets \subseteq Nat

VARIABLES i_db, i_ib,  \* the pointers in core
          inuse,       \* allocated blocks
          cache,       \* cache[m]: the buffer of the indirect block numbered m
          disk,        \* disk[b]: the pointers in block b on disk
          written,     \* blocks that have been written as indirect blocks
          op,          \* the call of ext2_balloc2 and where it is
          lost         \* a write failed whose error is ignored

fileVars == <<i_db, i_ib>>
vars == <<i_db, i_ib, inuse, cache, disk, written, op, lost>>

Blocks == 1 .. NBlocks
Offsets == 0 .. NINDIR - 1
Zero == [o \in Offsets |-> 0]
NoBuf == [valid |-> FALSE, dirty |-> FALSE, blk |-> 0, data |-> Zero]
Idle == [pc |-> "idle", lbn |-> 0, indirs |-> <<>>, i |-> 0, b |-> 0, sync |-> FALSE]

-----------------------------------------------------------------------------
(***************************************************************************)
(* ext2_getlbns.  Start(k) is the first block that needs k levels: what    *)
(* the first loop has subtracted when it stops at that level.              *)
(***************************************************************************)
Start(k) == LET s[j \in 1 .. NIADDR + 1] == IF j = 1 THEN NDADDR ELSE s[j - 1] + NINDIR ^ (j - 1)
            IN s[k]
Lbns == 0 .. Start(NIADDR + 1) - 1
Magnitude(bn) == IF bn < 0 THEN -bn ELSE bn
Levels(bn) == CHOOSE k \in 1 .. NIADDR : Magnitude(bn) \in Start(k) .. Start(k + 1) - 1

(* The path of a block k levels down, "rest" blocks into its level. *)
LevelPath(bn, k, rest) ==
    LET off(j) == (rest \div NINDIR ^ (k - j)) % NINDIR
        metalbn[j \in 1 .. k + 1] ==
            IF j = 1 THEN -(Magnitude(bn) - rest + k - 1)
                     ELSE metalbn[j - 1] + 1 - off(j - 1) * NINDIR ^ (k - j + 1)
        depth == CHOOSE d \in 0 .. k : /\ metalbn[d + 1] = bn \/ d = k
                                       /\ \A j \in 1 .. d : metalbn[j] # bn
    IN [j \in 1 .. depth + 1 |-> IF j = 1 THEN [in_lbn |-> metalbn[1], in_off |-> k - 1]
                                          ELSE [in_lbn |-> metalbn[j - 1], in_off |-> off(j - 1)]]

GetLbns(bn) == IF Magnitude(bn) < NDADDR THEN <<>>
               ELSE LevelPath(bn, Levels(bn), Magnitude(bn) - Start(Levels(bn)))

Metas == UNION {{p.in_lbn : p \in Range(GetLbns(l))} : l \in Lbns}
Path == [bn \in Lbns \cup Metas |-> GetLbns(bn)]

(* Mutant: a block that has an address is read from the disk. *)
FollowUncached(bn, path) ==
    LET daddr[j \in 1 .. Len(path)] ==
            LET m == cache[path[j].in_lbn]
            IN CASE j = 1 -> i_ib[path[1].in_off]
                 [] j > 1 /\ daddr[j - 1] = 0 /\ m.valid -> m.data[path[j].in_off]
                 [] j > 1 /\ daddr[j - 1] > 0 -> disk[daddr[j - 1]][path[j].in_off]
                 [] OTHER -> -1
    IN IF path = <<>> THEN i_db[bn] ELSE daddr[Len(path)]

(* The loop of ext2_bmaparray down the path of bn.  A buffer that is in    *)
(* the cache is used even when no pointer leads to it.                     *)
Follow(bn, path) ==
    LET daddr[j \in 1 .. Len(path)] ==
            LET m == cache[path[j].in_lbn]
            IN CASE j = 1 -> i_ib[path[1].in_off]
                 [] j > 1 /\ daddr[j - 1] # -1 /\ m.valid -> m.data[path[j].in_off]
                 [] j > 1 /\ daddr[j - 1] > 0 /\ ~m.valid -> disk[daddr[j - 1]][path[j].in_off]
                 [] OTHER -> -1
    IN IF path = <<>> THEN i_db[bn] ELSE daddr[Len(path)]

(* ext2_bmaparray: the block that bn is in, -1 when there is none. *)
BmapArray(bn) == LET found == Follow(bn, Path[bn]) IN IF found = 0 THEN -1 ELSE found
-----------------------------------------------------------------------------
(* Type invariant; a call never leaves the path of the block it is for.    *)
TypeOK ==
    /\ i_db \in [0 .. NDADDR - 1 -> 0 .. NBlocks] /\ i_ib \in [0 .. NIADDR - 1 -> 0 .. NBlocks]
    /\ inuse \subseteq Blocks /\ written \subseteq Blocks
    /\ cache \in [Metas -> [valid : BOOLEAN, dirty : BOOLEAN, blk : 0 .. NBlocks,
                            data : [Offsets -> 0 .. NBlocks]]]
    /\ disk \in [Blocks -> [Offsets -> 0 .. NBlocks]]
    /\ op \in [pc : {"idle", "first", "read", "next"}, lbn : Lbns,
               indirs : {<<>>} \cup Range(Path), i : 0 .. NIADDR, b : 0 .. NBlocks, sync : BOOLEAN]
    /\ op.pc # "idle" => op.indirs = Path[op.lbn] /\ op.i \in 1 .. Len(op.indirs) - 1
    /\ lost \in BOOLEAN

Init ==
    /\ i_db = [l \in 0 .. NDADDR - 1 |-> 0] /\ i_ib = [k \in 0 .. NIADDR - 1 |-> 0]
    /\ inuse = {} /\ written = {}
    /\ cache = [m \in Metas |-> NoBuf]
    /\ disk = [b \in Blocks |-> Zero]
    /\ op = Idle /\ lost = FALSE

NewBlock == CHOOSE b \in Blocks \ inuse : \A c \in Blocks \ inuse : b <= c
Full == inuse = Blocks

-----------------------------------------------------------------------------
(***************************************************************************)
(* ext2_balloc2.  A step goes from one wait for the disk to the next; the  *)
(* buffer of the parent is held while a new indirect block is written.     *)
(* indirs[i] of the code is Indirs(i), what ext2_getlbns gave the call.    *)
(***************************************************************************)
Indirs(i) == op.indirs[i + 1]
Num == Len(op.indirs) - 1

Clean(b, data) == [valid |-> TRUE, dirty |-> FALSE, blk |-> b, data |-> data]
Fetched(b) == Clean(b, disk[b])
Buffer(m) == IF cache[m].valid THEN cache[m] ELSE Fetched(BmapArray(m))

(* A direct block, or the first indirect block if there is none. *)
Balloc(l, sync) ==
    LET first == Path[l][1].in_off
    IN /\ op.pc = "idle" /\ ~lost
       /\ \/ /\ l < NDADDR /\ i_db[l] = 0 /\ ~Full
             /\ i_db' = [i_db EXCEPT ![l] = NewBlock]
             /\ inuse' = inuse \cup {NewBlock}
             /\ UNCHANGED op
          \/ /\ l >= NDADDR /\ i_ib[first] # 0
             /\ op' = [pc |-> "read", lbn |-> l, indirs |-> Path[l], i |-> 1, b |-> 0, sync |-> sync]
             /\ UNCHANGED <<i_db, inuse>>
          \/ /\ l >= NDADDR /\ i_ib[first] = 0 /\ ~Full
             /\ op' = [pc |-> "first", lbn |-> l, indirs |-> Path[l], i |-> 1, b |-> NewBlock, sync |-> sync]
             /\ inuse' = inuse \cup {NewBlock}
             /\ UNCHANGED i_db
       /\ UNCHANGED <<i_ib, cache, disk, written, lost>>

(* The first indirect block is written, cleared, before the inode points   *)
(* to it; it is given back when the write fails.                           *)
FirstIndirect ==
    /\ op.pc = "first"
    /\ disk' = [disk EXCEPT ![op.b] = Zero]
    /\ written' = written \cup {op.b}
    /\ cache' = [cache EXCEPT ![Indirs(1).in_lbn] = Clean(op.b, Zero)]
    /\ i_ib' = [i_ib EXCEPT ![Indirs(0).in_off] = op.b]
    /\ op' = [op EXCEPT !.pc = "read", !.b = 0]
    /\ UNCHANGED <<i_db, inuse, lost>>

(* Mutant: the block is not given back. *)
WriteFailsKept(m) ==
    /\ cache' = [cache EXCEPT ![m] = NoBuf]
    /\ op' = Idle
    /\ UNCHANGED <<fileVars, inuse, disk, written, lost>>

WriteFails(m) ==
    /\ inuse' = inuse \ {op.b}
    /\ cache' = [cache EXCEPT ![m] = NoBuf]
    /\ op' = Idle
    /\ UNCHANGED <<fileVars, disk, written, lost>>

FirstIndirectFails == op.pc = "first" /\ WriteFails(Indirs(1).in_lbn)

(* buf_bdwrite, or with B_SYNC buf_bwrite, whose error is not looked at:   *)
(* the kernel drops a buffer that it could not write.                      *)
PutBack(m, buf, buffers, blocks) ==
    \/ /\ ~op.sync
       /\ cache' = [buffers EXCEPT ![m] = [buf EXCEPT !.dirty = TRUE]]
       /\ disk' = blocks /\ UNCHANGED lost
    \/ /\ op.sync
       /\ cache' = [buffers EXCEPT ![m] = [buf EXCEPT !.dirty = FALSE]]
       /\ disk' = [blocks EXCEPT ![buf.blk] = buf.data] /\ UNCHANGED lost
    \/ /\ op.sync
       /\ cache' = [buffers EXCEPT ![m] = NoBuf]
       /\ disk' = blocks /\ lost' = TRUE

(* Mutant: a data block that is there does not end the loop. *)
ReadIndirectPast ==
    LET m == Indirs(op.i).in_lbn
        off == Indirs(op.i).in_off
    IN /\ op.pc = "read"
       /\ \E bp \in {Buffer(m)} :
            /\ IF bp.data[off] = 0 /\ ~Full /\ op.i = Num
               THEN PutBack(m, [bp EXCEPT !.data[off] = NewBlock], cache, disk)
               ELSE cache' = [cache EXCEPT ![m] = bp] /\ UNCHANGED <<disk, lost>>
            /\ inuse' = IF bp.data[off] = 0 /\ ~Full THEN inuse \cup {NewBlock} ELSE inuse
            /\ op' = IF bp.data[off] = 0 /\ (op.i = Num \/ Full) THEN Idle
                     ELSE IF bp.data[off] = 0
                     THEN [op EXCEPT !.pc = "next", !.i = op.i + 1, !.b = NewBlock]
                     ELSE [op EXCEPT !.i = op.i + 1]
       /\ UNCHANGED <<fileVars, written>>

(* The loop reads the buffer of one level: there is a block at the next    *)
(* level or one is allocated, an indirect block or at the end the data.    *)
ReadIndirect ==
    LET m == Indirs(op.i).in_lbn
        off == Indirs(op.i).in_off
    IN /\ op.pc = "read"
       /\ \E bp \in {Buffer(m)} :
            /\ IF bp.data[off] = 0 /\ ~Full /\ op.i = Num
               THEN PutBack(m, [bp EXCEPT !.data[off] = NewBlock], cache, disk)
               ELSE cache' = [cache EXCEPT ![m] = bp] /\ UNCHANGED <<disk, lost>>
            /\ inuse' = IF bp.data[off] = 0 /\ ~Full THEN inuse \cup {NewBlock} ELSE inuse
            /\ op' = IF op.i = Num \/ (bp.data[off] = 0 /\ Full) THEN Idle
                     ELSE IF bp.data[off] = 0
                     THEN [op EXCEPT !.pc = "next", !.i = op.i + 1, !.b = NewBlock]
                     ELSE [op EXCEPT !.i = op.i + 1]
       /\ UNCHANGED <<fileVars, written>>

ReadFails == op.pc = "read" /\ op' = Idle /\ UNCHANGED <<fileVars, inuse, cache, disk, written, lost>>

(* Mutant: the new indirect block is a delayed write, too. *)
NextIndirectDelayed ==
    LET m == Indirs(op.i - 1).in_lbn
        bp == [cache[m] EXCEPT !.data[Indirs(op.i - 1).in_off] = op.b]
        nbp == [Clean(op.b, Zero) EXCEPT !.dirty = TRUE]
    IN /\ op.pc = "next"
       /\ PutBack(m, bp, [cache EXCEPT ![Indirs(op.i).in_lbn] = nbp], disk)
       /\ op' = [op EXCEPT !.pc = "read", !.b = 0]
       /\ UNCHANGED <<fileVars, inuse, written>>

(* A new indirect block is written, cleared, and put in its parent. *)
NextIndirect ==
    LET m == Indirs(op.i - 1).in_lbn
        bp == [cache[m] EXCEPT !.data[Indirs(op.i - 1).in_off] = op.b]
        nbp == Clean(op.b, Zero)
    IN /\ op.pc = "next"
       /\ written' = written \cup {op.b}
       /\ PutBack(m, bp, [cache EXCEPT ![Indirs(op.i).in_lbn] = nbp], [disk EXCEPT ![op.b] = Zero])
       /\ op' = [op EXCEPT !.pc = "read", !.b = 0]
       /\ UNCHANGED <<fileVars, inuse>>

NextIndirectFails == op.pc = "next" /\ WriteFails(Indirs(op.i).in_lbn)

-----------------------------------------------------------------------------
(***************************************************************************)
(* The rest of the kernel: a read of the file brings buffers in, a delayed *)
(* write goes out, a clean buffer is reused.                               *)
(* Bound: after a write whose error is ignored the run ends.               *)
(***************************************************************************)
Busy == IF op.pc = "next" THEN {Indirs(op.i - 1).in_lbn} ELSE {}

ReadFile(m) == /\ ~lost /\ ~cache[m].valid /\ BmapArray(m) # -1
               /\ cache' = [cache EXCEPT ![m] = Buffer(m)]
               /\ UNCHANGED <<fileVars, inuse, disk, written, op, lost>>

Flush(m) == /\ cache[m].dirty /\ m \notin Busy
            /\ disk' = [disk EXCEPT ![cache[m].blk] = cache[m].data]
            /\ written' = written \cup {cache[m].blk}
            /\ cache' = [cache EXCEPT ![m].dirty = FALSE]
            /\ UNCHANGED <<fileVars, inuse, op, lost>>

Evict(m) == /\ ~lost /\ cache[m].valid /\ ~cache[m].dirty /\ m \notin Busy
            /\ cache' = [cache EXCEPT ![m] = NoBuf]
            /\ UNCHANGED <<fileVars, inuse, disk, written, op, lost>>

(* Nothing is left to write, or may be after a lost write. *)
Ended == op.pc = "idle" /\ (lost \/ Full) /\ UNCHANGED vars

Next == \/ \E l \in Targets, sync \in BOOLEAN : Balloc(l, sync)
        \/ FirstIndirect \/ FirstIndirectFails
        \/ ReadIndirect \/ ReadFails
        \/ NextIndirect \/ NextIndirectFails
        \/ \E m \in Metas : ReadFile(m) \/ Flush(m) \/ Evict(m)
        \/ Ended

Spec == Init /\ [][Next]_vars

-----------------------------------------------------------------------------
(***************************************************************************)
(* The tree that the pointers make, as pairs of a logical number and a     *)
(* block: an indirect block of level k has "the negative address of the    *)
(* first data block to which" it points, a higher one "one less than the   *)
(* address of the first indirect block" (ext2_bmap.c:60).  "ptr" is what   *)
(* the blocks hold.                                                        *)
(***************************************************************************)
Tree(db, ib, ptr) ==
    LET node[k \in 0 .. NIADDR, b \in 0 .. NBlocks, f \in Lbns] ==
            {<<IF k = 0 THEN f ELSE -(f + k - 1), b>>} \cup
            (IF k = 0 THEN {}
             ELSE UNION {node[k - 1, IF b = 0 THEN 0 ELSE ptr[b][o], f + o * NINDIR ^ (k - 1)]
                         : o \in Offsets})
    IN {<<l, db[l]>> : l \in 0 .. NDADDR - 1} \cup
       UNION {node[k, ib[k - 1], Start(k)] : k \in 1 .. NIADDR}

InCore == [b \in Blocks |-> LET bufs == {m \in Metas : cache[m].valid /\ cache[m].blk = b}
                            IN IF bufs = {} THEN disk[b] ELSE cache[CHOOSE m \in bufs : TRUE].data]

(***************************************************************************)
(* Through every failure that the code handles (no space at any level, a   *)
(* read or write error at any level), each allocated block has exactly one *)
(* pointer, or is in the hands of the call: none is leaked, none is used   *)
(* twice.                                                                  *)
(***************************************************************************)
OwnedOnce ==
    LET used == {e \in Tree(i_db, i_ib, InCore) : e[2] # 0}
        hand == {op.b} \ {0}
    IN ~lost => /\ inuse = {e[2] : e \in used} \cup hand
                /\ Cardinality(inuse) = Cardinality(used) + Cardinality(hand)

(***************************************************************************)
(* ext2_bmaparray agrees with the tree for every logical number of a data  *)
(* or indirect block, also at the boundaries between the levels, whatever  *)
(* buffers are in the cache.                                               *)
(***************************************************************************)
BmapAgrees ==
    ~lost => \A e \in Tree(i_db, i_ib, InCore) :
                 /\ e[1] \in DOMAIN Path
                 /\ BmapArray(e[1]) = IF e[2] = 0 THEN -1 ELSE e[2]

(***************************************************************************)
(* "Write synchronously so that indirect blocks never point at garbage"    *)
(* (ext2_balloc.c:224): whatever has reached the disk, and in whatever     *)
(* order, an indirect block that the tree on disk points to has been       *)
(* written as one.                                                         *)
(***************************************************************************)
NeverGarbage ==
    \A e \in Tree(i_db, i_ib, disk) : e[1] < 0 => e[2] \in written \cup {0}
=============================================================================
