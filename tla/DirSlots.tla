------------------------------ MODULE DirSlots ------------------------------
(***************************************************************************)
(* The linear directories of ext2_lookup.c: a directory is a run of blocks,*)
(* each one tiled by variable length records.  ext2_lookup finds a record, *)
(* or the slot a new one can go in, and leaves what it found in the        *)
(* directory's inode (i_offset, i_count, i_endoff, i_reclen) and, for a    *)
(* DELETE or a RENAME, in a per-name cache; ext2_direnter, ext2_dirremove  *)
(* and ext2_dirrewrite use it later, in a call of their own.               *)
(*                                                                         *)
(* Offsets and lengths are in units of 4 bytes, the alignment of a record. *)
(* IN_LOOK makes each look-up and each operation exclusive on a directory, *)
(* so each is one step; what one leaves for the next is not protected.     *)
(* Indexed (htree) directories are left out: is_dx is false.               *)
(***************************************************************************)
EXTENDS Integers, FiniteSetsExt, SequencesExt

CONSTANTS Names,      \* names of entries
          Need,       \* Need[n] = EXT2_DIR_REC_LEN of the name
          Inodes,     \* inode numbers, none of them 0
          Threads,
          BlockSize,  \* DIRBLKSIZ
          MaxBlocks,  \* bound: the blocks the volume has for the directory
          Exclusive,  \* one operation at a time changes the entries
          NewNames,   \* renames inside the directory may enter new names
          None

DotNeed == 3          \* EXT2_DIR_REC_LEN of "." and of ".."

ASSUME DirGeometry ==
    /\ BlockSize \in Nat /\ MaxBlocks \in Nat \ {0}
    /\ \A n \in Names : Need[n] \in DotNeed .. BlockSize
    /\ 2 * DotNeed <= BlockSize
    /\ 0 \notin Inodes /\ Exclusive \in BOOLEAN /\ NewNames \in BOOLEAN

VARIABLES mem,     \* mem[o]: the header of the record at offset o, None where none begins
          dp,      \* the fields of the directory's inode
          dcache,  \* dcache[n]: the parameters a DELETE or RENAME look-up kept for n
          thr,     \* the operation each thread is in
          res,     \* what its last look-up returned
          panic    \* the kernel has panicked

vars == <<mem, dp, dcache, thr, res, panic>>

Offsets == 0 .. BlockSize * MaxBlocks
Ops == {"LOOKUP", "CREATE", "DELETE", "RENAME"}
DotNames == {".", ".."}
NeedOf(n) == IF n \in DotNames THEN DotNeed ELSE Need[n]

Idle == [pc |-> "idle", op |-> "LOOKUP", name |-> None, from |-> None, length |-> 0]

(* Mutant of RoundUp. *)
RoundUpNever(x) == x

RoundUp(x) == ((x + BlockSize - 1) \div BlockSize) * BlockSize

(* Type invariant: sizes and truncation points are whole blocks, and every *)
(* header and every parameter stays inside the directory.                  *)
TypeOK ==
    /\ mem \in [0 .. BlockSize * MaxBlocks - 1 ->
                  {None} \cup [ino : {0} \cup Inodes, name : Names \cup DotNames,
                               rec_len : 1 .. BlockSize]]
    /\ dp \in [size : {BlockSize * b : b \in 1 .. MaxBlocks}, offset : Offsets,
               count : Offsets, reclen : Offsets,
               endoff : {BlockSize * b : b \in 0 .. MaxBlocks},
               lastnamei : Ops, diroff : {BlockSize * b : b \in 0 .. MaxBlocks}]
    /\ dcache \in [Names -> {None} \cup [offset : Offsets, count : Offsets, reclen : Offsets]]
    /\ thr \in [Threads -> [pc : {"idle", "target", "enter", "truncate", "rewrite", "remove"},
                            op : Ops, name : Names \cup {None}, from : Names \cup {None},
                            length : Offsets]]
    /\ res \in [Threads -> Inodes \cup {None}]
    /\ panic \in BOOLEAN

(* A directory as ext2_mkdir writes it: "." and "..", which has the rest. *)
Init ==
    \E self \in Inodes :
        /\ mem = [o \in 0 .. BlockSize * MaxBlocks - 1 |->
                    CASE o = 0 -> [ino |-> self, name |-> ".", rec_len |-> DotNeed]
                      [] o = DotNeed -> [ino |-> self, name |-> "..",
                                         rec_len |-> BlockSize - DotNeed]
                      [] OTHER -> None]
        /\ dp = [size |-> BlockSize, offset |-> 0, count |-> 0, reclen |-> 0, endoff |-> 0,
                 lastnamei |-> "LOOKUP", diroff |-> 0]
        /\ dcache = [n \in Names |-> None]
        /\ thr = [t \in Threads |-> Idle]
        /\ res = [t \in Threads |-> None]
        /\ panic = FALSE

-----------------------------------------------------------------------------
(***************************************************************************)
(* The records of a directory.                                             *)
(***************************************************************************)

(* Where the record after the one at o begins. *)
After(m, o) == o + m[o].rec_len

(* Only the headers a walk over a block meets are kept: what is left of    *)
(* a record that another one has swallowed is not read again.              *)
Live(m) ==
    LET blocks == {BlockSize * b : b \in 0 .. MaxBlocks - 1}
        reach[k \in 0 .. BlockSize \div DotNeed] ==
            IF k = 0 THEN {o \in blocks : m[o] # None}
            ELSE LET r == reach[k - 1]
                 IN r \cup {o \in DOMAIN m : m[o] # None /\ \E p \in r : After(m, p) = o}
        live == reach[BlockSize \div DotNeed]
    IN [o \in DOMAIN m |-> IF o \in live THEN m[o] ELSE None]

Records == {o \in DOMAIN mem : mem[o] # None}
InBlock(b) == {o \in Records : o \div BlockSize = b}
Used(o) == mem[o].ino # 0

(* The room a record has for another one. *)
Free(o) == mem[o].rec_len - (IF Used(o) THEN NeedOf(mem[o].name) ELSE 0)

Holding(n) == {o \in Records : Used(o) /\ mem[o].name = n}

-----------------------------------------------------------------------------
(***************************************************************************)
(* ext2_lookupi.                                                           *)
(***************************************************************************)

(* A search for a free slot of `needed' units, to the end of the directory:*)
(* the first record with that much room, or else the first block whose     *)
(* records have it together, from its first record with room to the one    *)
(* that completes it.  A slot of size 0 stands for none.                   *)
FreeUpTo(o) == MapThenSumSet(Free, {p \in InBlock(o \div BlockSize) : p <= o})

Slot(needed) ==
    LET found == {o \in Records : Free(o) >= needed}
        compact == {o \in Records : FreeUpTo(o) >= needed}
        last == Min(compact)
        first == Min({o \in InBlock(last \div BlockSize) : Free(o) > 0})
    IN CASE found # {} -> [offset |-> Min(found), size |-> mem[Min(found)].rec_len]
         [] found = {} /\ compact # {} ->
                [offset |-> first, size |-> After(mem, last) - first]
         [] OTHER -> [offset |-> dp.size, size |-> 0]

(* The end of the last record in use before a search that meets no match. *)
EndUseful == Max({0} \cup {After(mem, o) : o \in {r \in Records : Used(r)}})

(* Where a search for n stops.  A LOOKUP starts in the block where the last*)
(* one succeeded and comes back to the beginning for a second pass.        *)
Match(nameiop, n) ==
    LET first == {o \in Holding(n) : nameiop # "LOOKUP" \/ o >= dp.diroff}
    IN IF first # {} THEN Min(first) ELSE Min(Holding(n))

(* The fields of the directory's inode after a search for n that found it. *)
FoundFields(nameiop, n) ==
    LET o == Match(nameiop, n)
    IN [dp EXCEPT
          !.lastnamei = nameiop, !.offset = o, !.reclen = mem[o].rec_len,
          !.diroff = IF nameiop = "LOOKUP" THEN o - (o % BlockSize) ELSE @,
          !.count = CASE nameiop = "DELETE" /\ o % BlockSize = 0 -> 0
                      [] nameiop = "DELETE" /\ o % BlockSize # 0 ->
                            o - Max({p \in Records : p < o})
                      [] OTHER -> @]

(* Where a search that meets no match ends: a second pass stops where the  *)
(* first one began.                                                        *)
SearchEnd(nameiop) ==
    IF nameiop = "LOOKUP" /\ dp.diroff \in 1 .. dp.size THEN dp.diroff ELSE dp.size

(* Mutant of MissedFields: the slot found does not count as useful. *)
MissedFieldsUsed(nameiop, n) ==
    LET slot == Slot(NeedOf(n))
        useful == IF slot.size = 0 THEN dp.size ELSE EndUseful
    IN IF nameiop \in {"CREATE", "RENAME"}
       THEN [dp EXCEPT !.lastnamei = nameiop, !.offset = slot.offset, !.count = slot.size,
                       !.endoff = RoundUp(useful)]
       ELSE [dp EXCEPT !.lastnamei = nameiop, !.offset = SearchEnd(nameiop)]

(* ... and after one that did not. *)
MissedFields(nameiop, n) ==
    LET slot == Slot(NeedOf(n))
        useful == IF slot.size = 0 THEN dp.size ELSE Max({EndUseful, slot.offset + slot.size})
    IN IF nameiop \in {"CREATE", "RENAME"}
       THEN [dp EXCEPT !.lastnamei = nameiop, !.offset = slot.offset, !.count = slot.size,
                       !.endoff = RoundUp(useful)]
       ELSE [dp EXCEPT !.lastnamei = nameiop, !.offset = SearchEnd(nameiop)]

Lookupi(nameiop, n) ==
    IF Holding(n) # {} THEN FoundFields(nameiop, n) ELSE MissedFields(nameiop, n)

(***************************************************************************)
(* ext2_lookup: the search, and for DELETE and RENAME the copy of its      *)
(* result in the cache of the name (a name not found is an error for       *)
(* DELETE).  The kernel's name cache answers LOOKUPs only.                 *)
(***************************************************************************)
Kept(d) == [offset |-> d.offset, count |-> d.count, reclen |-> d.reclen]

Lookup(t, nameiop, n) ==
    LET d == Lookupi(nameiop, n)
    IN /\ dp' = d
       /\ res' = [res EXCEPT ![t] = IF Holding(n) = {} THEN None ELSE mem[d.offset].ino]
       /\ dcache' = IF nameiop = "RENAME" \/ (nameiop = "DELETE" /\ Holding(n) # {})
                    THEN [dcache EXCEPT ![n] = Kept(d)] ELSE dcache
       /\ UNCHANGED <<mem, panic>>

(* The call of a thread that is in no operation. *)
LookUp(t, n) ==
    /\ thr[t].pc = "idle"
    /\ Lookup(t, "LOOKUP", n)
    /\ UNCHANGED thr

(* Who may begin: with Exclusive one operation on the directory's entries  *)
(* at a time, otherwise any thread in none.                                *)
Quiet(t) == \A u \in Threads : u = t \/ Exclusive => thr[u].pc = "idle"
Enters(t, pc, op, n, from) ==
    thr' = [thr EXCEPT ![t] = [Idle EXCEPT !.pc = pc, !.op = op, !.name = n, !.from = from]]

(* open(O_CREAT), mkdir, link, symlink: the name must be free. *)
CreateLookup(t, n) ==
    /\ Quiet(t)
    /\ Lookup(t, "CREATE", n)
    /\ IF Holding(n) = {} THEN Enters(t, "enter", "CREATE", n, None) ELSE UNCHANGED thr

(* unlink, rmdir, and the source of a rename into another directory. *)
DeleteLookup(t, n) ==
    /\ Quiet(t)
    /\ Lookup(t, "DELETE", n)
    /\ IF Holding(n) # {} THEN Enters(t, "remove", "DELETE", n, None) ELSE UNCHANGED thr

(* The target of a rename from another directory. *)
RenameLookup(t, n) ==
    /\ Quiet(t)
    /\ Lookup(t, "RENAME", n)
    /\ Enters(t, IF Holding(n) = {} THEN "enter" ELSE "rewrite", "RENAME", n, None)

(* The two look-ups of a rename inside the directory: the target's leaves  *)
(* its own result in the directory's inode, over the source's.             *)
SourceLookup(t, n) ==
    /\ Quiet(t)
    /\ Lookup(t, "DELETE", n)
    /\ IF Holding(n) # {} THEN Enters(t, "target", "DELETE", n, None) ELSE UNCHANGED thr

TargetLookup(t, n) ==
    /\ thr[t].pc = "target" /\ n # thr[t].name
    /\ Holding(n) # {} \/ NewNames
    /\ Lookup(t, "RENAME", n)
    /\ Enters(t, IF Holding(n) = {} THEN "enter" ELSE "rewrite", "RENAME", n, thr[t].name)

(* The caller gives up: EPERM, EBUSY, ENOSPC for the inode, ENOTEMPTY. *)
Abandon(t) ==
    /\ thr[t].pc \in {"target", "enter", "rewrite"} \/ (thr[t].pc = "remove" /\ thr[t].from = None)
    /\ thr' = [thr EXCEPT ![t] = Idle]
    /\ UNCHANGED <<mem, dp, dcache, res, panic>>

-----------------------------------------------------------------------------
(***************************************************************************)
(* ext2_direnter.                                                          *)
(***************************************************************************)

(* A record written at o destroys the headers it covers. *)
Put(m, o, rec) ==
    [p \in DOMAIN m |-> CASE p = o -> rec
                          [] p \in o + 1 .. o + NeedOf(rec.name) - 1 -> None
                          [] OTHER -> m[p]]

(* Mutant of Squeeze: the room of an unused record is not gained. *)
SqueezeHeader(st, nep) ==
    LET last == st.mem[st.ep]
        dsize == NeedOf(last.name)
        rec == st.mem[nep]
        ep == IF last.ino # 0 THEN st.ep + dsize ELSE st.ep
        trimmed == IF last.ino # 0 THEN [st.mem EXCEPT ![st.ep].rec_len = dsize] ELSE st.mem
    IN [mem |-> Put(trimmed, ep, rec), ep |-> ep,
        spacefree |-> st.spacefree + rec.rec_len - NeedOf(rec.name)]

(* One step of the loop that moves the records of a slot together: `st' has*)
(* the block so far, the last record moved and the room gained.            *)
Squeeze(st, nep) ==
    LET last == st.mem[st.ep]
        dsize == NeedOf(last.name)
        rec == st.mem[nep]
        ep == IF last.ino # 0 THEN st.ep + dsize ELSE st.ep
        trimmed == IF last.ino # 0 THEN [st.mem EXCEPT ![st.ep].rec_len = dsize] ELSE st.mem
    IN [mem |-> Put(trimmed, ep, rec), ep |-> ep,
        spacefree |-> st.spacefree + (IF last.ino # 0 THEN 0 ELSE dsize)
                        + rec.rec_len - NeedOf(rec.name)]

Squeezed(d) ==
    LET slot == {o \in Records : o >= d.offset /\ o < d.offset + d.count}
        start == [mem |-> mem, ep |-> d.offset,
                  spacefree |-> mem[d.offset].rec_len - NeedOf(mem[d.offset].name)]
    IN MapThenFoldSet(LAMBDA nep, st : Squeeze(st, nep), start, LAMBDA o : o,
                      LAMBDA S : Max(S), slot \ {d.offset})

(* The room for the new record behind, or in place of, the last one moved. *)
Room(st) == st.spacefree + (IF st.mem[st.ep].ino = 0 THEN NeedOf(st.mem[st.ep].name) ELSE 0)

(* The record n of inode i put in the slot that d describes. *)
Inserted(d, n, i) ==
    LET st == Squeezed(d)
        last == st.mem[st.ep]
        rec == [ino |-> i, name |-> n, rec_len |-> Room(st)]
        dsize == NeedOf(last.name)
    IN IF last.ino = 0 THEN Put(st.mem, st.ep, rec)
       ELSE Put([st.mem EXCEPT ![st.ep].rec_len = dsize], st.ep + dsize, rec)

(* The parameters ext2_direnter works with: those of the last look-up if it*)
(* was a CREATE and found enough room, those of a new one otherwise.       *)
EnterFields(t) ==
    IF dp.lastnamei = "CREATE" /\ NeedOf(thr[t].name) <= dp.count
    THEN dp ELSE Lookupi(thr[t].op, thr[t].name)

(* After its own part, a rename goes on to remove the old name. *)
Finish(t) ==
    thr' = [thr EXCEPT ![t] =
              IF @.from = None THEN Idle
              ELSE [@ EXCEPT !.pc = "remove", !.op = "DELETE", !.name = thr[t].from]]

(* No room: the record gets a new block (and all of it). *)
EnterNewBlock(t, i) ==
    LET d == EnterFields(t)
        n == thr[t].name
    IN /\ thr[t].pc = "enter" /\ d.count = 0
       /\ IF d.offset % BlockSize # 0
          THEN panic' = TRUE /\ dp' = d /\ UNCHANGED <<mem, thr>>
          ELSE /\ d.offset < BlockSize * MaxBlocks
               /\ mem' = Put(mem, d.offset, [ino |-> i, name |-> n, rec_len |-> BlockSize])
               /\ dp' = [d EXCEPT !.size = Max({d.size, RoundUp(d.offset + NeedOf(n))})]
               /\ Finish(t)
               /\ UNCHANGED panic
       /\ UNCHANGED <<dcache, res>>

(* The record goes in a slot; the directory is then cut at i_endoff, as it *)
(* was when the block was changed.                                         *)
EnterSlot(t, i) ==
    LET d == EnterFields(t)
        n == thr[t].name
        size == Max({d.size, d.offset + d.count})
    IN /\ thr[t].pc = "enter" /\ d.count # 0
       /\ dp' = [d EXCEPT !.size = size]
       /\ IF mem[d.offset] = None \/ Room(Squeezed(d)) < NeedOf(n)
          THEN panic' = TRUE /\ UNCHANGED <<mem, thr>>
          ELSE /\ mem' = Inserted(d, n, i)
               /\ IF d.endoff # 0 /\ d.endoff < size
                  THEN thr' = [thr EXCEPT ![t].pc = "truncate", ![t].length = d.endoff]
                  ELSE Finish(t)
               /\ UNCHANGED panic
       /\ UNCHANGED <<dcache, res>>

(* A block that cannot be read, written or allocated: nothing is entered. *)
EnterFails(t) ==
    /\ thr[t].pc = "enter"
    /\ dp' = EnterFields(t)
    /\ thr' = [thr EXCEPT ![t] = Idle]
    /\ UNCHANGED <<mem, dcache, res, panic>>

(* The blocks past the length are gone. *)
Truncate(t) ==
    /\ thr[t].pc = "truncate"
    /\ dp' = [dp EXCEPT !.size = thr[t].length]
    /\ mem' = [o \in DOMAIN mem |-> IF o < thr[t].length THEN mem[o] ELSE None]
    /\ Finish(t)
    /\ UNCHANGED <<dcache, res, panic>>

-----------------------------------------------------------------------------
(***************************************************************************)
(* ext2_dirremove and ext2_dirrewrite: what the cache has for the name is  *)
(* used, and used up; a new search is made only when it has nothing.       *)
(***************************************************************************)
(* Mutant of CachedFields: there is no cache but the directory's inode. *)
CachedFieldsOfInode(t) == dp

CachedFields(t) ==
    LET n == thr[t].name
    IN IF dcache[n] # None
       THEN [dp EXCEPT !.offset = dcache[n].offset, !.count = dcache[n].count,
                       !.reclen = dcache[n].reclen]
       ELSE Lookupi(thr[t].op, n)

UsesCached(t) ==
    /\ dp' = CachedFields(t)
    /\ dcache' = [dcache EXCEPT ![thr[t].name] = None]
    /\ thr[t].name \in Names
    /\ UNCHANGED <<res, panic>>

(* The first record of a block loses its inode number; another one is      *)
(* swallowed by the record before it.                                      *)
Removed(d) ==
    IF d.count = 0
    THEN [mem EXCEPT ![d.offset] = IF @ = None THEN None ELSE [@ EXCEPT !.ino = 0]]
    ELSE Live([mem EXCEPT ![d.offset - d.count] =
                   IF @ = None THEN None ELSE [@ EXCEPT !.rec_len = @ + d.reclen]])

DirRemove(t) ==
    /\ thr[t].pc = "remove"
    /\ UsesCached(t)
    /\ mem' = IF dcache[thr[t].name] = None /\ Holding(thr[t].name) = {} THEN mem
              ELSE Removed(CachedFields(t))
    /\ thr' = [thr EXCEPT ![t] = Idle]

DirRewrite(t, i) ==
    LET o == CachedFields(t).offset
    IN /\ thr[t].pc = "rewrite"
       /\ UsesCached(t)
       /\ mem' = [mem EXCEPT ![o] = IF @ = None THEN None ELSE [@ EXCEPT !.ino = i]]
       /\ Finish(t)

(* The block cannot be read. *)
ChangeFails(t) ==
    /\ thr[t].pc \in {"remove", "rewrite"}
    /\ UsesCached(t)
    /\ thr' = [thr EXCEPT ![t] = Idle]
    /\ UNCHANGED mem

-----------------------------------------------------------------------------
Step(t) ==
    \/ \E n \in Names : \/ LookUp(t, n) \/ CreateLookup(t, n)
                        \/ DeleteLookup(t, n) \/ RenameLookup(t, n)
                        \/ SourceLookup(t, n) \/ TargetLookup(t, n)
    \/ \E i \in Inodes : EnterNewBlock(t, i) \/ EnterSlot(t, i) \/ DirRewrite(t, i)
    \/ EnterFails(t) \/ Truncate(t) \/ DirRemove(t) \/ ChangeFails(t) \/ Abandon(t)

Next == ~panic /\ \E t \in Threads : Step(t)

Spec == Init /\ [][Next]_vars

-----------------------------------------------------------------------------
(* The records of each block follow one another from its beginning to its  *)
(* end, each one holds its name, no name has two records, and no search or *)
(* insertion has found it otherwise and panicked (ext2_dirbad "mangled     *)
(* entry", ext2_direnter "newblk", "compact1", "compact2").                *)
WellFormed ==
    /\ ~panic
    /\ \A b \in 0 .. dp.size \div BlockSize - 1 :
          {b * BlockSize} \cup {After(mem, o) : o \in InBlock(b)}
              = InBlock(b) \cup {(b + 1) * BlockSize}
    /\ \A o \in Records : o < dp.size /\ mem[o].rec_len >= NeedOf(mem[o].name)
    /\ \A n \in Names : Cardinality(Holding(n)) <= 1

(* What ext2_dirremove and ext2_dirrewrite are about to use is what the    *)
(* comment of ext2_dirremove says: the offset of the entry and, for a      *)
(* removal, the distance from the record before it in its block, 0 for the *)
(* first one; its length, which is added to that record's, is current too. *)
(* The per-name cache makes it so although every look-up by any thread, the*)
(* rename's own of its target included, writes over the parameters in the  *)
(* directory's inode, and the target is rewritten before the source goes.  *)
(* A rename that enters a new name breaks it (NewNames): the new record may*)
(* take room from the source's record, or move it, after it was cached.    *)
ParametersCurrent ==
    \A t \in Threads :
        LET d == CachedFields(t)
        IN thr[t].pc \in {"remove", "rewrite"} =>
              /\ d.offset \in Holding(thr[t].name)
              /\ thr[t].pc = "remove" =>
                    IF d.offset % BlockSize = 0 THEN d.count = 0
                    ELSE /\ d.offset - d.count \in Records
                         /\ After(mem, d.offset - d.count) = d.offset
                         /\ d.reclen = mem[d.offset].rec_len

(* Insertion with or without compaction, removal, rewriting and truncation *)
(* of trailing blocks change the one name they were called for and lose no *)
(* other, and a look-up finds a name exactly when it is there.             *)
Listing == [n \in Names |-> IF Holding(n) = {} THEN None ELSE mem[Min(Holding(n))].ino]
Asked == [t \in Threads |-> IF thr[t].pc \in {"enter", "rewrite", "remove"}
                            THEN [op |-> thr[t].pc, name |-> thr[t].name,
                                  then |-> IF thr[t].pc = "remove" THEN None ELSE thr[t].from]
                            ELSE None]
Abstract == INSTANCE Directory WITH entries <- Listing, ask <- Asked
Implements == Abstract!Spec
=============================================================================
