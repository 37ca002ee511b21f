----------------------------- MODULE IndirTrunc -----------------------------
(***************************************************************************)
(* ext2_truncate and ext2_indirtrunc (ext2_inode.c) on the tree of         *)
(* Indirect, for a length that is a multiple of the block size, with no    *)
(* failing write.  The parameters of ext2_indirtrunc are in the order of   *)
(* its definition, the arguments in the order of its calls: the two        *)
(* disagree on which is the last block to keep and which the address.      *)
(***************************************************************************)
EXTENDS Indirect

fsbtodb(b) == b * 2   \* blocks of 1 KB, sectors of 512 bytes

(***************************************************************************)
(* "s" has the buffers, the disk, the allocated blocks, and whether the    *)
(* code has gone astray: written outside a buffer, or taken a sector that  *)
(* is not the block's for it.  A buffer that is not in the cache is read   *)
(* from the sector dbn; for -1, which is none, the call returns the error. *)
(***************************************************************************)
RECURSIVE IndirTrunc(_, _, _, _, _), FreeFrom(_, _, _, _, _, _)

(* The loop over the pointers from i down to the last to keep. *)
FreeFrom(s, data, lbn, i, last, level) ==
    IF i <= last THEN s
    ELSE LET nb == data[i]
             below == IF nb # 0 /\ level > 0
                      THEN IndirTrunc(s, lbn + 1 - i * NINDIR ^ level, fsbtodb(nb), -1, level - 1)
                      ELSE s
         IN FreeFrom([below EXCEPT !.inuse = @ \ {nb}], data, lbn, i - 1, last, level)

IndirTrunc(s, lbn, lastbn, dbn, level) ==
    LET factor == NINDIR ^ level
        last == IF lastbn > 0 THEN lastbn \div factor ELSE lastbn
        bp == s.cache[lbn]
        kept == [o \in Offsets |-> IF o > last THEN 0 ELSE bp.data[o]]
        cleared == [s EXCEPT !.disk[bp.blk] = kept,
                             !.cache[lbn] = IF last = -1 THEN NoBuf ELSE Clean(bp.blk, kept)]
        freed == FreeFrom(cleared, bp.data, lbn, NINDIR - 1, last, level)
    IN CASE ~bp.valid /\ dbn < 0 -> s
         [] (~bp.valid /\ dbn >= 0) \/ (bp.valid /\ last + 1 > NINDIR) -> [s EXCEPT !.wild = TRUE]
         [] OTHER -> IF level > 0 /\ lastbn >= 0 /\ last < NINDIR /\ bp.data[last] # 0
                     THEN IndirTrunc(freed, lbn + 1 - last * factor, fsbtodb(bp.data[last]),
                                     lastbn % factor, level - 1)
                     ELSE freed

(* ext2_truncate to n blocks; what follows once the code is astray is not  *)
(* defined and not looked at.                                              *)
Truncate(n) ==
    LET lastiblock(k) == IF n - 1 < Start(k + 1) THEN -1 ELSE n - 1 - Start(k + 1)
        done[k \in 0 .. NIADDR] ==    \* from the highest level down to k
            IF k = NIADDR
            THEN [cache |-> cache, disk |-> disk, inuse |-> inuse, wild |-> FALSE]
            ELSE LET s == done[k + 1]
                     bn == i_ib[k]
                     t == IndirTrunc(s, -(Start(k + 1) + k), fsbtodb(bn), lastiblock(k), k)
                 IN IF bn = 0 \/ (k + 1 < NIADDR /\ lastiblock(k + 1) >= 0) THEN s
                    ELSE IF lastiblock(k) < 0 THEN [t EXCEPT !.inuse = @ \ {bn}] ELSE t
        gone == {l \in 0 .. NDADDR - 1 : l >= n}
    IN /\ op.pc = "idle" /\ ~lost /\ ~done[0].wild
       /\ cache' = done[0].cache /\ disk' = done[0].disk
       /\ inuse' = done[0].inuse \ {i_db[l] : l \in gone}
       /\ i_ib' = [k \in 0 .. NIADDR - 1 |-> IF lastiblock(k) < 0 THEN 0 ELSE i_ib[k]]
       /\ i_db' = [l \in 0 .. NDADDR - 1 |-> IF l \in gone THEN 0 ELSE i_db[l]]
       /\ UNCHANGED <<written, op, lost>>

TruncNext == Next \/ \E n \in Lbns : Truncate(n)
TruncSpec == Init /\ [][TruncNext]_vars

(***************************************************************************)
(* "Release blocks associated with the inode ip and stored in the indirect *)
(* block bn.  Blocks are free'd in LIFO order up to (but not including)    *)
(* lastbn" (ext2_inode.c:393): a truncation releases every data block      *)
(* beyond the new end of the file.                                         *)
(***************************************************************************)
PastEndReleased ==
    [][\A n \in Lbns : Truncate(n) =>
           \A e \in Tree(i_db, i_ib, InCore) : e[1] >= n /\ e[2] # 0 => e[2] \notin inuse']_vars
=============================================================================
