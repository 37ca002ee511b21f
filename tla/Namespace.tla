------------------------------ MODULE Namespace ------------------------------
(***************************************************************************)
(* The operations of ext2_vnops.c on names: create, mkdir, link, remove,   *)
(* rmdir and rename.  Each is a sequence of steps, on the link counts in   *)
(* the in-core inodes, on the inodes in their blocks and on directory      *)
(* entries, any of which may fail, with the code's own undoing.  A         *)
(* directory is a map from names (Directory; DirSlots has its blocks) and  *)
(* its entries are written synchronously.                                  *)
(*                                                                         *)
(* A link count is in up to three places: in core (nlink), in the inode's  *)
(* block, where ext2_update copies it when the inode is marked modified    *)
(* (dinode), and on disk, which has the block's once it is written: at     *)
(* once when ext2_update waits, later when it does not (delayed).  An inode*)
(* that is marked for another change than of its count is copied, or fails *)
(* to be, with the count it had.                                           *)
(***************************************************************************)
EXTENDS Integers, FiniteSets

CONSTANTS Inodes, Root, Names, Threads,
          LINK_MAX,
          Async,     \* the volume is mounted with MNT_ASYNC
          Separate,  \* operations in flight do not meet (see Apart)
          None

ASSUME NamespaceConstants ==
    /\ Root \in Inodes /\ None \notin Inodes \cup Names
    /\ IsFiniteSet(Inodes) /\ IsFiniteSet(Names) /\ IsFiniteSet(Threads)
    /\ LINK_MAX \in Nat \ (0 .. 2) /\ Separate \in BOOLEAN /\ Async \in BOOLEAN

VARIABLES kind,      \* "free", "file", "dev" (VBLK, VCHR) or "dir"
          nlink,     \* i_nlink
          modified,  \* inodes with a new count and IN_CHANGE, IN_MODIFIED or IN_LAZYMOD
          dinode,    \* the count in the inode's block, in the buffer cache
          delayed,   \* inodes whose block waits in a delayed write
          unsaved,   \* a write of an inode's block has failed
          ent,       \* ent[d][n]: the inode that n names in directory d
          dotdot,    \* dotdot[d]: what ".." of d names, None when d has no block
          renaming,  \* directories with IN_RENAME
          look,      \* directories whose IN_LOOK a rmdir holds
          leaked,    \* inodes with a vnode reference that nobody will drop
          th,        \* the operation of each thread and where it is
          damaged,   \* a step has failed that the code does not undo
          panic

dirVars == <<ent, dotdot>>
countVars == <<nlink, modified>>
saveVars == <<dinode, delayed, unsaved>>
vars == <<kind, countVars, saveVars, dirVars, renaming, look, leaked, th, damaged, panic>>

Idle == [pc |-> "idle", op |-> "none", d |-> None, n |-> None, i |-> None,
         td |-> None, tn |-> None, x |-> None]
Ops == {"none", "create", "mkdir", "link", "remove", "rmdir", "rename"}
Places == {"idle", "update", "parent", "parentupdate", "template", "enter", "flags", "checkpath",
           "target", "rewrite", "sameparent", "droptarget", "oldparent", "dotdot",
           "unlink", "links", "squash", "truncate"}
Some(S) == S \cup {None}

(* Type invariant: no link count, in core or in its block, goes below zero,*)
(* or above the limit by more than the links threads count in advance.     *)
TypeOK ==
    /\ kind \in [Inodes -> {"free", "file", "dev", "dir"}]
    /\ nlink \in [Inodes -> 0 .. LINK_MAX + Cardinality(Threads)]
    /\ dinode \in [Inodes -> 0 .. LINK_MAX + Cardinality(Threads)]
    /\ modified \subseteq Inodes /\ delayed \subseteq Inodes /\ unsaved \in BOOLEAN
    /\ ent \in [Inodes -> [Names -> Some(Inodes)]]
    /\ dotdot \in [Inodes -> Some(Inodes)]
    /\ renaming \subseteq Inodes /\ look \subseteq Inodes /\ leaked \subseteq Inodes
    /\ th \in [Threads -> [pc : Places, op : Ops, d : Some(Inodes), n : Some(Names),
                           i : Some(Inodes), td : Some(Inodes), tn : Some(Names),
                           x : Some(Inodes)]]
    /\ damaged \in BOOLEAN /\ panic \in BOOLEAN

(* A new volume: the root directory, whose ".." is itself. *)
Init ==
    /\ kind = [i \in Inodes |-> IF i = Root THEN "dir" ELSE "free"]
    /\ nlink = [i \in Inodes |-> IF i = Root THEN 2 ELSE 0]
    /\ dinode = nlink
    /\ modified = {} /\ delayed = {} /\ unsaved = FALSE
    /\ ent = [i \in Inodes |-> [n \in Names |-> None]]
    /\ dotdot = [i \in Inodes |-> IF i = Root THEN Root ELSE None]
    /\ renaming = {} /\ look = {} /\ leaked = {}
    /\ th = [t \in Threads |-> Idle]
    /\ damaged = FALSE /\ panic = FALSE

IsDir(i) == i # None /\ kind[i] = "dir"

(* ext2_dirempty: nothing but "." and the ".." that names p. *)
Bare(d, p) == (\A n \in Names : ent[d][n] = None) /\ dotdot[d] \in {p, None}

Goto(t, pc) == th' = [th EXCEPT ![t].pc = pc]
Done(t) == th' = [th EXCEPT ![t] = Idle]

(* Every change of a count marks the inode, that of a directory removed or *)
(* written over in ext2_truncate only, the next step.                      *)
Set(links) == /\ nlink' = links
              /\ modified' = modified \cup {i \in Inodes : links[i] # nlink[i]}
Add(i, k) == Set([nlink EXCEPT ![i] = @ + k])

(* ext2_update: an inode that is not marked, because another call has just *)
(* copied it, is left alone, as a device always is (IN_LAZYMOD); otherwise *)
(* it is copied to its block, and the block written now or later.          *)
Ext2Update(i, waitfor) ==
    /\ IF i \in modified /\ kind[i] # "dev"
       THEN /\ dinode' = [dinode EXCEPT ![i] = nlink[i]]
            /\ modified' = modified \ {i}
            /\ delayed' = IF waitfor /\ ~Async THEN delayed \ {i} ELSE delayed \cup {i}
       ELSE UNCHANGED <<dinode, modified, delayed>>
    /\ UNCHANGED <<nlink, unsaved>>

-----------------------------------------------------------------------------
(***************************************************************************)
(* The beginning of an operation, after the look-ups of its names.  A name *)
(* is created only in a directory that still has links (ext2_lookupi).     *)
(* Bound: after a failure that the code does not undo, nothing new begins. *)
(***************************************************************************)
Names2(o) == {<<o.d, o.n>>, <<o.td, o.tn>>} \ {<<None, None>>}
Subjects(o) == {i \in {o.i, o.x} : IsDir(i)}
Moving(o) == o.op = "rename" /\ IsDir(o.i) /\ o.d # o.td
Apart(o, u) == /\ ~(Moving(o) /\ Moving(u))   \* the kernel's rename lock
               /\ Names2(o) \cap Names2(u) = {}
               /\ Subjects(o) \cap ({u.i, u.x, u.d, u.td} \ {None}) = {}
               /\ Subjects(u) \cap ({o.i, o.x, o.d, o.td} \ {None}) = {}

Begin(t, o) ==
    /\ th[t].pc = "idle" /\ ~damaged /\ ~unsaved
    /\ Separate => \A u \in Threads \ {t} : th[u].pc # "idle" => Apart(o, th[u])
    /\ {o.d, o.td} \cap look = {}
    /\ th' = [th EXCEPT ![t] = o]

Usable(d) == IsDir(d) /\ nlink[d] # 0

(* ext2_makeinode (create, mknod, symlink) and the first part of ext2_mkdir:*)
(* an inode from ext2_valloc, with its first links.                        *)
MakeInode(t, d, n, i) ==
    \E new \in {"file", "dev", "dir"} :
        LET op == IF new = "dir" THEN "mkdir" ELSE "create"
        IN /\ Usable(d) /\ ent[d][n] = None /\ kind[i] = "free"
           /\ op = "mkdir" => nlink[d] < LINK_MAX
           /\ Begin(t, [Idle EXCEPT !.pc = "update", !.op = op, !.d = d, !.n = n, !.i = i])
           /\ kind' = [kind EXCEPT ![i] = new]
           /\ Add(i, IF op = "mkdir" THEN 2 ELSE 1)
           /\ UNCHANGED <<saveVars, dirVars, renaming, look, leaked, damaged, panic>>

(* ext2_link: the count first.  Devices have vnode operations without it. *)
Link(t, i, d, n) ==
    /\ Usable(d) /\ ent[d][n] = None
    /\ kind[i] = "file" /\ \E e \in Inodes, m \in Names : ent[e][m] = i
    /\ nlink[i] < LINK_MAX
    /\ Begin(t, [Idle EXCEPT !.pc = "update", !.op = "link", !.d = d, !.n = n, !.i = i])
    /\ Add(i, 1)
    /\ UNCHANGED <<kind, saveVars, dirVars, renaming, look, leaked, damaged, panic>>

(* ext2_remove. *)
Remove(t, d, n) ==
    /\ IsDir(d) /\ ent[d][n] # None /\ ~IsDir(ent[d][n])
    /\ Begin(t, [Idle EXCEPT !.pc = "unlink", !.op = "remove", !.d = d, !.n = n,
                             !.i = ent[d][n]])
    /\ UNCHANGED <<kind, countVars, saveVars, dirVars, renaming, look, leaked, damaged, panic>>

(* ext2_rmdir: IN_LOOK, then the test that nothing but "." and ".." is left.*)
Rmdir(t, d, n) ==
    LET i == ent[d][n]
    IN /\ IsDir(d) /\ i # None /\ IsDir(i) /\ i # d /\ i \notin look
       /\ nlink[i] = 2 /\ Bare(i, d)
       /\ Begin(t, [Idle EXCEPT !.pc = "unlink", !.op = "rmdir", !.d = d, !.n = n, !.i = i])
       /\ look' = look \cup {i}
       /\ UNCHANGED <<kind, countVars, saveVars, dirVars, renaming, leaked, damaged, panic>>

(* ext2_rename, up to the first lock: the target may exist, as another file.*)
Rename(t, d, n, td, tn) ==
    LET i == ent[d][n]
    IN /\ IsDir(d) /\ i # None
       /\ IF ent[td][tn] = None THEN Usable(td) ELSE IsDir(td)
       /\ ent[td][tn] # i
       /\ nlink[i] < LINK_MAX
       /\ Begin(t, [pc |-> "flags", op |-> "rename", d |-> d, n |-> n, i |-> i,
                    td |-> td, tn |-> tn, x |-> ent[td][tn]])
       /\ UNCHANGED <<kind, countVars, saveVars, dirVars, renaming, look, leaked, damaged, panic>>

-----------------------------------------------------------------------------
(***************************************************************************)
(* The steps of the operations.  A step that can fail has a second action. *)
(***************************************************************************)
At(t, pc) == th[t].pc = pc
Moves(t) == Moving(th[t])   \* doingdirectory && newparent
Where(t) == IF th[t].op = "rename" THEN <<th[t].td, th[t].tn>> ELSE <<th[t].d, th[t].n>>

(* Mutant: a new directory, too, loses one link only. *)
BadOneLink(t, undo) ==
    LET i == th[t].i
        fresh == th[t].op \in {"create", "mkdir"}
    IN /\ Set([j \in Inodes |-> CASE j = i -> nlink[i] - 1
                                   [] j # i /\ undo /\ j = Where(t)[1] -> nlink[j] - 1
                                   [] OTHER -> nlink[j]])
       /\ leaked' = IF fresh THEN leaked \cup {i} ELSE leaked
       /\ renaming' = IF th[t].op = "rename" THEN renaming \ {i} ELSE renaming
       /\ Done(t)

(* The error exits: a new inode loses all its links, another one the link  *)
(* that was counted in advance, and a parent (when `undo') the one that    *)
(* the new directory's ".." was to be.  (A rename also writes the parent,  *)
(* and ignores the result: Sync.)  The vnode of the new inode keeps the    *)
(* reference that ext2_valloc got: there is no vput.                       *)
Bad(t, undo) ==
    LET i == th[t].i
        fresh == th[t].op \in {"create", "mkdir"}
    IN /\ Set([j \in Inodes |-> CASE j = i -> IF fresh THEN 0 ELSE nlink[i] - 1
                                   [] j # i /\ undo /\ j = Where(t)[1] -> nlink[j] - 1
                                   [] OTHER -> nlink[j]])
       /\ leaked' = IF fresh THEN leaked \cup {i} ELSE leaked
       /\ renaming' = IF th[t].op = "rename" THEN renaming \ {i} ELSE renaming
       /\ Done(t)

(* ext2_rename: under both locks, the flag of a directory on the move and  *)
(* the link counted in advance (1: "Bump link count while we're moving     *)
(* stuff around").                                                         *)
RenameFlags(t) ==
    LET i == th[t].i
    IN /\ At(t, "flags")
       /\ IF i \in renaming THEN Done(t) /\ UNCHANGED <<countVars, renaming>>
          ELSE /\ renaming' = IF IsDir(i) THEN renaming \cup {i} ELSE renaming
               /\ Add(i, 1)
               /\ Goto(t, "update")
       /\ UNCHANGED <<kind, saveVars, dirVars, look, leaked, damaged, panic>>

(* Mutant: the inode is not written before its name. *)
UpdateForgotten(t) ==
    /\ At(t, "update")
    /\ Goto(t, CASE th[t].op = "mkdir" -> "parent"
                 [] th[t].op = "rename" -> "checkpath"
                 [] OTHER -> "enter")
    /\ UNCHANGED <<kind, countVars, saveVars, dirVars, renaming, look, leaked, damaged, panic>>

(* ext2_update of the inode, waited for. *)
Update(t) ==
    /\ At(t, "update")
    /\ Ext2Update(th[t].i, TRUE)
    /\ Goto(t, CASE th[t].op = "mkdir" -> "parent"
                 [] th[t].op = "rename" -> "checkpath"
                 [] OTHER -> "enter")
    /\ UNCHANGED <<kind, dirVars, renaming, look, leaked, damaged, panic>>

(* The block cannot be read, or the write fails (unsaved).                 *)
UpdateFails(t) ==
    /\ At(t, "update") /\ kind[th[t].i] # "dev"
    /\ Bad(t, FALSE)
    /\ unsaved' \in {unsaved, TRUE}
    /\ UNCHANGED <<kind, dinode, delayed, dirVars, look, damaged, panic>>

(* ext2_checkpath: the directories met from the new parent up to the root. *)
Above(d) ==
    LET up[k \in 0 .. Cardinality(Inodes)] ==
            IF k = 0 THEN {d}
            ELSE up[k - 1] \cup {dotdot[e] : e \in up[k - 1] \ {Root, None}}
    IN up[Cardinality(Inodes)]

(* Mutant: only the new parent is looked at. *)
CheckPathOnce(t) ==
    /\ At(t, "checkpath")
    /\ IF Moves(t) /\ th[t].i = th[t].td
       THEN Bad(t, FALSE)
       ELSE /\ Goto(t, CASE th[t].x # None -> "target"
                         [] th[t].x = None /\ Moves(t) -> "parent"
                         [] OTHER -> "enter")
            /\ UNCHANGED <<countVars, leaked, renaming>>
    /\ UNCHANGED <<kind, saveVars, dirVars, look, damaged, panic>>

CheckPath(t) ==
    /\ At(t, "checkpath")
    /\ IF Moves(t) /\ th[t].i \in Above(th[t].td)
       THEN Bad(t, FALSE)
       ELSE /\ Goto(t, CASE th[t].x # None -> "target"
                         [] th[t].x = None /\ Moves(t) -> "parent"
                         [] OTHER -> "enter")
            /\ UNCHANGED <<countVars, leaked, renaming>>
    /\ UNCHANGED <<kind, saveVars, dirVars, look, damaged, panic>>

CheckPathFails(t) ==
    /\ At(t, "checkpath") /\ Moves(t) /\ th[t].td # Root
    /\ Bad(t, FALSE)
    /\ UNCHANGED <<kind, saveVars, dirVars, look, damaged, panic>>

(* The link of the new directory's ".." in its parent, before it exists.   *)
(* Only a rename tests the limit again here.                               *)
Parent(t) ==
    LET p == Where(t)[1]
    IN /\ At(t, "parent")
       /\ IF th[t].op = "rename" /\ nlink[p] >= LINK_MAX
          THEN Bad(t, FALSE)
          ELSE Add(p, 1) /\ Goto(t, "parentupdate") /\ UNCHANGED <<leaked, renaming>>
       /\ UNCHANGED <<kind, saveVars, dirVars, look, damaged, panic>>

ParentUpdate(t) ==
    /\ At(t, "parentupdate")
    /\ Ext2Update(Where(t)[1], TRUE)
    /\ Goto(t, IF th[t].op = "mkdir" THEN "template" ELSE "enter")
    /\ UNCHANGED <<kind, dirVars, renaming, look, leaked, damaged, panic>>

(* The error exit leaves the parent's count as it is.  (A failed write also*)
(* clears the parent's mark, which nothing depends on from there on.)      *)
ParentUpdateFails(t) ==
    /\ At(t, "parentupdate")
    /\ Bad(t, FALSE)
    /\ unsaved' \in {unsaved, TRUE}
    /\ damaged' = TRUE
    /\ UNCHANGED <<kind, dinode, delayed, dirVars, look, panic>>

(* ext2_mkdir writes "." and "..". *)
Template(t) ==
    /\ At(t, "template")
    /\ dotdot' = [dotdot EXCEPT ![th[t].i] = th[t].d]
    /\ Goto(t, "enter")
    /\ UNCHANGED <<kind, countVars, saveVars, ent, renaming, look, leaked, damaged, panic>>

TemplateFails(t) ==
    /\ At(t, "template")
    /\ Bad(t, TRUE)
    /\ UNCHANGED <<kind, saveVars, dirVars, look, damaged, panic>>

(* ext2_direnter.  That the directory still has links is not looked at     *)
(* again while the look-up's parameters are cached.                        *)
Enter(t) ==
    LET d == Where(t)[1]
    IN /\ At(t, "enter") /\ d \notin look
       /\ ent' = [ent EXCEPT ![d][Where(t)[2]] = th[t].i]
       /\ IF th[t].op = "rename" THEN Goto(t, "oldparent") ELSE Done(t)
       /\ UNCHANGED <<kind, countVars, saveVars, dotdot, renaming, look, leaked, damaged, panic>>

EnterFails(t) ==
    /\ At(t, "enter") /\ Where(t)[1] \notin look
    /\ Bad(t, th[t].op = "mkdir" \/ Moves(t))
    /\ UNCHANGED <<kind, saveVars, dirVars, look, damaged, panic>>

(* ext2_rename onto an existing target: it must be of the source's kind,   *)
(* and an empty directory.                                                 *)
Target(t) ==
    LET x == th[t].x
    IN /\ At(t, "target")
       /\ \/ Bad(t, FALSE) /\ IsDir(x)   \* a read of ext2_dirempty fails
          \/ IF IsDir(x) # IsDir(th[t].i) \/ (IsDir(x) /\ ~(Bare(x, th[t].td) /\ nlink[x] <= 2))
             THEN Bad(t, FALSE)
             ELSE Goto(t, "rewrite") /\ UNCHANGED <<countVars, leaked, renaming>>
       /\ UNCHANGED <<kind, saveVars, dirVars, look, damaged, panic>>

(* ext2_dirrewrite. *)
Rewrite(t) ==
    /\ At(t, "rewrite") /\ th[t].td \notin look
    /\ ent' = [ent EXCEPT ![th[t].td][th[t].tn] = th[t].i]
    /\ Goto(t, IF IsDir(th[t].i) /\ ~Moves(t) THEN "sameparent" ELSE "droptarget")
    /\ UNCHANGED <<kind, countVars, saveVars, dotdot, renaming, look, leaked, damaged, panic>>

RewriteFails(t) ==
    /\ At(t, "rewrite") /\ th[t].td \notin look
    /\ Bad(t, FALSE)
    /\ UNCHANGED <<kind, saveVars, dirVars, look, damaged, panic>>

(* The ".." of the directory written over goes; that of the one moved in   *)
(* comes in its place, unless it was there already.                        *)
SameParent(t) ==
    /\ At(t, "sameparent")
    /\ Add(th[t].td, -1)
    /\ Goto(t, "droptarget")
    /\ UNCHANGED <<kind, saveVars, dirVars, renaming, look, leaked, damaged, panic>>

DropTarget(t) ==
    LET x == th[t].x
        links == IF IsDir(th[t].i) THEN 2 ELSE 1
    IN /\ At(t, "droptarget")
       /\ Add(x, -links)
       /\ panic' = (IsDir(th[t].i) /\ nlink[x] # links)
       /\ Goto(t, IF IsDir(th[t].i) THEN "truncate" ELSE "oldparent")
       /\ UNCHANGED <<kind, saveVars, dirVars, renaming, look, leaked, damaged>>

(* ext2_truncate of a directory removed or written over.  It writes the    *)
(* inode, frees the blocks even when that fails (the error is overwritten) *)
(* and marks the inode again.  A rmdir then gives IN_LOOK up.              *)
Truncate(t) ==
    LET gone == IF th[t].op = "rename" THEN th[t].x ELSE th[t].i
    IN /\ At(t, "truncate")
       /\ dotdot' = [dotdot EXCEPT ![gone] = None]
       /\ \/ /\ dinode' = [dinode EXCEPT ![gone] = nlink[gone]]
             /\ delayed' = IF Async THEN delayed \cup {gone} ELSE delayed \ {gone}
             /\ UNCHANGED unsaved
          \/ UNCHANGED <<dinode, delayed>> /\ unsaved' \in {unsaved, TRUE}
       /\ modified' = modified \cup {gone}
       /\ look' = IF th[t].op = "rmdir" THEN look \ {gone} ELSE look
       /\ IF th[t].op = "rename" THEN Goto(t, "oldparent") ELSE Done(t)
       /\ UNCHANGED <<kind, nlink, ent, renaming, leaked, damaged, panic>>

(* Mutant: the old parent keeps the link of the ".." that has moved. *)
OldParentKept(t) ==
    /\ At(t, "oldparent")
    /\ Goto(t, IF Moves(t) THEN "dotdot" ELSE "unlink")
    /\ UNCHANGED <<kind, countVars, saveVars, dirVars, renaming, look, leaked, damaged, panic>>

(* A directory that moved: the old parent loses a link, then ".." changes. *)
OldParent(t) ==
    /\ At(t, "oldparent")
    /\ IF Moves(t) THEN Add(th[t].d, -1) /\ Goto(t, "dotdot")
                   ELSE Goto(t, "unlink") /\ UNCHANGED <<countVars>>
    /\ UNCHANGED <<kind, saveVars, dirVars, renaming, look, leaked, damaged, panic>>

DotDot(t) ==
    /\ At(t, "dotdot")
    /\ \/ dotdot' = [dotdot EXCEPT ![th[t].i] = th[t].td] /\ UNCHANGED damaged
       \/ damaged' = TRUE /\ UNCHANGED dotdot
    /\ Goto(t, "unlink")
    /\ UNCHANGED <<kind, countVars, saveVars, ent, renaming, look, leaked, panic>>

(* ext2_dirremove of the name, whatever it names by now. *)
Unlink(t) ==
    /\ At(t, "unlink") /\ th[t].d \notin look
    /\ ent[th[t].d][th[t].n] # None
    /\ ent' = [ent EXCEPT ![th[t].d][th[t].n] = None]
    /\ Goto(t, "links")
    /\ UNCHANGED <<kind, countVars, saveVars, dotdot, renaming, look, leaked, damaged, panic>>

UnlinkFails(t) ==
    /\ At(t, "unlink") /\ th[t].d \notin look
    /\ damaged' = (damaged \/ (th[t].op = "rename" /\ IsDir(th[t].i)))
    /\ renaming' = IF th[t].op = "rename" THEN renaming \ {th[t].i} ELSE renaming
    /\ look' = IF th[t].op = "rmdir" THEN look \ {th[t].i} ELSE look
    /\ Done(t)
    /\ UNCHANGED <<kind, countVars, saveVars, dirVars, leaked, panic>>

(* The links that the name was: of the inode, or first of the parent. *)
Links(t) ==
    /\ At(t, "links")
    /\ Add(IF th[t].op = "rmdir" THEN th[t].d ELSE th[t].i, -1)
    /\ renaming' = IF th[t].op = "rename" THEN renaming \ {th[t].i} ELSE renaming
    /\ IF th[t].op = "rmdir" THEN Goto(t, "squash") ELSE Done(t)
    /\ UNCHANGED <<kind, saveVars, dirVars, look, leaked, damaged, panic>>

(* Mutant: the link of ".." is taken from the directory itself as well. *)
SquashThree(t) ==
    /\ At(t, "squash")
    /\ Add(th[t].i, -3)
    /\ Goto(t, "truncate")
    /\ UNCHANGED <<kind, saveVars, dirVars, renaming, look, leaked, damaged, panic>>

(* ext2_rmdir: the name's link and that of ".". *)
Squash(t) ==
    /\ At(t, "squash")
    /\ Add(th[t].i, -2)
    /\ Goto(t, "truncate")
    /\ UNCHANGED <<kind, saveVars, dirVars, renaming, look, leaked, damaged, panic>>

-----------------------------------------------------------------------------
(* ext2_inactive: the last reference to the vnode goes and it has no links.*)
(* The error of its last ext2_update, which does not wait, is ignored.     *)
Held == UNION {{th[t].d, th[t].i, th[t].td, th[t].x} : t \in Threads}
Inactive(i) ==
    /\ kind[i] # "free" /\ nlink[i] <= 0 /\ i \notin Held \cup leaked
    /\ kind' = [kind EXCEPT ![i] = "free"]
    /\ nlink' = [nlink EXCEPT ![i] = 0]
    /\ \/ dinode' = [dinode EXCEPT ![i] = 0] /\ delayed' = delayed \cup {i}
       \/ UNCHANGED <<dinode, delayed>>
    /\ modified' = modified \ {i}
    /\ ent' = [ent EXCEPT ![i] = [n \in Names |-> None]]
    /\ dotdot' = [dotdot EXCEPT ![i] = None]
    /\ UNCHANGED <<unsaved, renaming, look, leaked, th, damaged, panic>>

(* ext2_reclaim of a vnode nobody uses: what is left of a device's changes *)
(* is copied.                                                              *)
Reclaim(i) ==
    /\ kind[i] = "dev" /\ i \in modified /\ nlink[i] > 0 /\ i \notin Held \cup leaked
    /\ dinode' = [dinode EXCEPT ![i] = nlink[i]]
    /\ modified' = modified \ {i} /\ delayed' = delayed \cup {i}
    /\ UNCHANGED <<kind, nlink, unsaved, dirVars, renaming, look, leaked, th, damaged, panic>>

(* ext2_sync_callback, ext2_fsync: an ext2_update that waits if asked to.  *)
(* Bound: only the writes of the operations above fail.                    *)
Sync(i) ==
    /\ i \in modified /\ kind[i] # "dev"
    /\ \E waitfor \in BOOLEAN : Ext2Update(i, waitfor)
    /\ UNCHANGED <<kind, dirVars, renaming, look, leaked, th, damaged, panic>>

(* The buffer cache carries a delayed write out. *)
Flush(i) ==
    /\ i \in delayed
    /\ delayed' = delayed \ {i}
    /\ UNCHANGED <<kind, countVars, dinode, unsaved, dirVars, renaming, look, leaked, th,
                   damaged, panic>>

-----------------------------------------------------------------------------
Step(t) ==
    \/ RenameFlags(t)
    \/ Update(t) \/ UpdateFails(t)
    \/ CheckPath(t) \/ CheckPathFails(t)
    \/ Parent(t) \/ ParentUpdate(t) \/ ParentUpdateFails(t)
    \/ Template(t) \/ TemplateFails(t)
    \/ Enter(t) \/ EnterFails(t)
    \/ Target(t) \/ Rewrite(t) \/ RewriteFails(t)
    \/ SameParent(t) \/ DropTarget(t) \/ Truncate(t)
    \/ OldParent(t) \/ DotDot(t)
    \/ Unlink(t) \/ UnlinkFails(t) \/ Links(t) \/ Squash(t)

Start(t) ==
    \E d \in Inodes, n \in Names :
        \/ \E i \in Inodes : MakeInode(t, d, n, i) \/ Link(t, i, d, n)
        \/ Remove(t, d, n)
        \/ Rmdir(t, d, n)
        \/ \E td \in Inodes, tn \in Names : Rename(t, d, n, td, tn)

(* Nothing need begin, and nothing can once every inode has leaked: only   *)
(* an operation that cannot go on is a deadlock.                           *)
Quiet == \A t \in Threads : th[t].pc = "idle"
Ended == Quiet /\ UNCHANGED vars

Next == /\ ~panic
        /\ \/ \E t \in Threads : Start(t) \/ Step(t)
           \/ \E i \in Inodes : Inactive(i) \/ Reclaim(i) \/ Sync(i) \/ Flush(i)
           \/ Ended

Spec == Init /\ [][Next]_vars

-----------------------------------------------------------------------------
Entries == {e \in Inodes \X Names : ent[e[1]][e[2]] # None}
Named(i) == Cardinality({e \in Entries : ent[e[1]][e[2]] = i})
Children(d) == {ent[d][n] : n \in Names} \ {None}

(***************************************************************************)
(* No link count is ever below what refers to the inode, its names and "." *)
(* of a directory that has a name: not in core, so no named inode is freed *)
(* by removing some of its names, whatever fails; and not in the inode's   *)
(* block either, so once the delayed writes are done a crash leaves counts *)
(* that are too high at worst ("the link count may be wrong, but           *)
(* correctable", ext2_rename), although a sync may have copied the inode   *)
(* at any moment and ext2_update then does nothing.  Excepted are devices, *)
(* whose inodes ext2_update leaves alone, and failed writes.               *)
(***************************************************************************)
NeverUndercounted ==
    \A i \in Inodes \ {Root} :
        LET refs == Named(i) + IF IsDir(i) /\ Named(i) > 0 THEN 1 ELSE 0
        IN /\ nlink[i] >= refs
           /\ kind[i] # "dev" /\ ~unsaved => dinode[i] >= refs

(* "Make sure inode goes to disk before directory entry" (ext2_makeinode): *)
(* the entry of a new file is written when its inode is on disk as it is.  *)
(* A sync that comes before the ext2_update leaves a delayed write, and    *)
(* nothing is written for a device.                                        *)
InodeFirst ==
    \A t \in Threads :
        At(t, "enter") /\ th[t].op = "create" => th[t].i \notin modified \cup delayed

(***************************************************************************)
(* Between operations every count is exact, whatever sequence of them ran  *)
(* and whatever failed and was undone, except for the failures that the    *)
(* code does not undo: a file has its names, a directory also its "." and  *)
(* the ".." of its subdirectories, and ".." names the parent.              *)
(***************************************************************************)
LinksExact ==
    Quiet /\ ~damaged =>
        \A i \in Inodes :
            LET subdirs == {c \in Children(i) : IsDir(c)}
            IN /\ kind[i] \in {"file", "dev"} => nlink[i] = Named(i)
               /\ IsDir(i) /\ (i = Root \/ Named(i) > 0) =>
                     /\ nlink[i] = (IF i = Root THEN 2 ELSE 1 + Named(i)) + Cardinality(subdirs)
                     /\ \A c \in subdirs : dotdot[c] = i

(***************************************************************************)
(* Everything that has a name is reached from the root by names: a rename  *)
(* never makes a directory its own ancestor ("this would orphan everything *)
(* below the source directory"), in any state of any operation.            *)
(***************************************************************************)
TreeRooted ==
    LET reach[k \in 0 .. Cardinality(Inodes)] ==
            IF k = 0 THEN {Root} ELSE reach[k - 1] \cup UNION {Children(d) : d \in reach[k - 1]}
    IN ~damaged => \A e \in Entries : ent[e[1]][e[2]] \in reach[Cardinality(Inodes)]

(***************************************************************************)
(* An inode that has lost its last name, or never got one because its      *)
(* creation failed, has no links left once no operation uses it: neither an*)
(* error exit nor two operations on different names of one file leave a    *)
(* count that would keep ext2_inactive from releasing it when its vnode is *)
(* dropped.  (After a failed creation it is never dropped: NothingLeaks.)  *)
(***************************************************************************)
UnnamedUnlinked ==
    \A i \in Inodes \ ({Root} \cup Held) : kind[i] # "free" /\ Named(i) = 0 => nlink[i] = 0

(* "vrele will do this for us because we set the link count to 0"          *)
(* (ext2_mkdir): the inode of a creation that failed is released.  Nothing *)
(* drops its vnode, so it is not.                                          *)
NothingLeaks == \A i \in Inodes \ Held : kind[i] # "free" /\ Named(i) = 0 => i \notin leaked

(* "If this is a directory it is empty and there are no links to it, so we *)
(* can squash the inode": ext2_rename never meets a target directory that  *)
(* has got a subdirectory ("ext2_rename: linked directory").               *)
TargetUnlinked == ~panic
=============================================================================
