----------------------------- MODULE InodeCache -----------------------------
(***************************************************************************)
(* The cache of in-core inodes, for one inode number: ext2_hash_get,       *)
(* ext2_hash_insert and ext2_hash_remove (src/src/gnu/ext2fs/ext2_ihash.c),*)
(* ext2_vget_internal and ext2_vget_irelse (ext2_vfsops.c), the part of    *)
(* ext2_vinit that matters here (ext2_vnops.c) and ext2_reclaim            *)
(* (ext2_inode.c).                                                         *)
(*                                                                         *)
(* A step is what a thread does between two points at which another thread *)
(* may see or change what it works on: the hash mutex (never held across   *)
(* steps), an inode's lock, a sleep, and each access to the plain variable *)
(* ext2fs_inode_hash_lock.  That variable is read and compared-and-swapped *)
(* without a lock: for each operand the compiler may load it again or use  *)
(* the value it has, so the operand is either (Loads).                     *)
(*                                                                         *)
(* A structure that has been freed is taken by a later MALLOC only when no *)
(* thread has a pointer to it any more; a thread that locks a freed one is *)
(* stuck ("ub").                                                           *)
(***************************************************************************)
EXTENDS Integers, FiniteSets, SequencesExt

CONSTANTS
  Threads,   \* kernel threads that look the inode up or reclaim it
  Objs,      \* memory for struct inode
  None       \* no thread, no inode

VARIABLES
  obj,       \* the in-core inodes
  chain,     \* those on the hash chain, first one first
  hash_lock, \* ext2fs_inode_hash_lock: 0, 1 or -1
  pc, ip,    \* where each thread is, and the inode it works on
  old        \* a value of ext2fs_inode_hash_lock the thread has loaded

vars == <<obj, chain, hash_lock, pc, ip, old>>

ASSUME CacheAssumption ==
  /\ None \notin Threads \cup Objs
  /\ IsFiniteSet(Threads) /\ IsFiniteSet(Objs)

\* IN_INIT, IN_INITWAIT, IN_HASHED, i_lock, i_refct and the vnode: not yet
\* there, in use, or being reclaimed by the VFS.
Inode == [live : BOOLEAN, init : BOOLEAN, initwait : BOOLEAN, hashed : BOOLEAN,
          lock : Threads \cup {None}, refct : 0 .. Cardinality(Threads),
          vnode : {"none", "active", "dying"}]

Unused == [live |-> FALSE, init |-> FALSE, initwait |-> FALSE, hashed |-> FALSE,
           lock |-> None, refct |-> 0, vnode |-> "none"]

Places == {"out", "get", "ixlock", "asleep", "woken", "getvid", "chk", "cas", "neg", "presleep",
           "lsleep", "lwoken", "alloc", "rel", "relcas", "read", "vcreate", "irelse", "have",
           "reclaim", "ub"}

\* Type invariant: in particular i_refct stays between 0 and the number of threads,
\* and the chain is never longer than the inodes that can be on it.
TypeOK ==
  /\ obj \in [Objs -> Inode]
  /\ chain \in UNION {[1 .. n -> Objs] : n \in 0 .. Cardinality(Objs)}
  /\ hash_lock \in {-1, 0, 1}
  /\ pc \in [Threads -> Places]
  /\ ip \in [Threads -> Objs \cup {None}]
  /\ old \in [Threads -> {-1, 0, 1}]

Init ==
  /\ obj = [o \in Objs |-> Unused]
  /\ chain = <<>>
  /\ hash_lock = 0
  /\ pc = [t \in Threads |-> "out"]
  /\ ip = [t \in Threads |-> None]
  /\ old = [t \in Threads |-> 0]
-----------------------------------------------------------------------------
Goto(t, l) == pc' = [pc EXCEPT ![t] = l]

Return(t) ==
  /\ Goto(t, "out")
  /\ ip' = [ip EXCEPT ![t] = None]
  /\ old' = [old EXCEPT ![t] = 0]

CanLock(t, o) == obj[o].lock \in {None, t}

\* The address ext2_hash_get sleeps on: ISLEEP(ip, flags, NULL) is &ip->i_flags.
\* Wakeups are for &ip->i_flag.
HashGetChannel == "i_flags"

\* wakeup(channel) makes runnable the threads that sleep on that address; t goes to l.
WakeAndGoto(t, o, channel, l) ==
  pc' = [u \in Threads |->
           IF u = t THEN l
           ELSE IF pc[u] = "asleep" /\ ip[u] = o /\ channel = HashGetChannel THEN "woken" ELSE pc[u]]

\* ext2_hash_remove: LIST_REMOVE when the inode has IN_HASHED.
Without(o) ==
  IF obj[o].hashed THEN RemoveAt(chain, CHOOSE n \in DOMAIN chain : chain[n] = o) ELSE chain

Vget(t) ==
  /\ pc[t] = "out"
  /\ Goto(t, "get")
  /\ UNCHANGED <<obj, chain, hash_lock, ip, old>>

\* ext2_hash_get: the search of the chain, under the hash mutex.
Lookup(t) ==
  /\ pc[t] = "get"
  /\ IF chain # <<>> THEN Goto(t, "ixlock") /\ ip' = [ip EXCEPT ![t] = Head(chain)]
     ELSE Goto(t, "chk") /\ ip' = [ip EXCEPT ![t] = None]
  /\ UNCHANGED <<obj, chain, hash_lock, old>>

\* Mutant of AwaitInit: IRELSE is done also by a thread that has not slept.
AwaitInitUnpaired(t) ==
  LET o == ip[t]
  IN  /\ pc[t] \in {"ixlock", "woken"} /\ CanLock(t, o)
      /\ IF ~obj[o].live THEN Goto(t, "ub") /\ UNCHANGED <<obj, ip, old>>
         ELSE IF obj[o].init
         THEN /\ obj' = [obj EXCEPT ![o].initwait = TRUE, ![o].refct = @ + 1]
              /\ Goto(t, "asleep") /\ UNCHANGED <<ip, old>>
         ELSE /\ obj' = [obj EXCEPT ![o].refct = @ - 1]
              /\ IF obj[o].hashed THEN Goto(t, "getvid") /\ UNCHANGED <<ip, old>> ELSE Return(t)
      /\ UNCHANGED <<chain, hash_lock>>

\* ext2_hash_get with the inode locked, on the way in or back from msleep: sleep
\* while it is being initialised, fail if it has left the chain, else take the
\* vnode's identity and unlock.
AwaitInit(t) ==
  LET o == ip[t]
      n == IF pc[t] = "woken" THEN obj[o].refct - 1 ELSE obj[o].refct
  IN  /\ pc[t] \in {"ixlock", "woken"} /\ CanLock(t, o)
      /\ IF ~obj[o].live THEN Goto(t, "ub") /\ UNCHANGED <<obj, ip, old>>
         ELSE IF obj[o].init
         THEN /\ obj' = [obj EXCEPT ![o] = [@ EXCEPT !.initwait = TRUE, !.refct = n + 1]]
              /\ Goto(t, "asleep") /\ UNCHANGED <<ip, old>>
         ELSE /\ obj' = [obj EXCEPT ![o].refct = n]
              /\ IF obj[o].hashed THEN Goto(t, "getvid") /\ UNCHANGED <<ip, old>> ELSE Return(t)
      /\ UNCHANGED <<chain, hash_lock>>

\* Mutant of GetVnode: the error is not looked at.
GetVnodeUnchecked(t) ==
  /\ pc[t] = "getvid"
  /\ Goto(t, "have")
  /\ UNCHANGED <<obj, chain, hash_lock, ip, old>>

\* vnode_getwithvid: a vnode that is being, or has been, reclaimed is ENOENT.
GetVnode(t) ==
  /\ pc[t] = "getvid"
  /\ Goto(t, IF obj[ip[t]].vnode = "active" THEN "have" ELSE "get")
  /\ UNCHANGED <<obj, chain, hash_lock, ip, old>>

\* vnode_put by the caller of ext2_vget.
Put(t) ==
  /\ pc[t] = "have"
  /\ Return(t)
  /\ UNCHANGED <<obj, chain, hash_lock>>
-----------------------------------------------------------------------------
Loads(t) == {old[t], hash_lock}

\* The tests of ext2fs_inode_hash_lock, of the "if" and, at "lwoken", of the "while".
TestHashLock(t) ==
  /\ \/ pc[t] = "chk"    /\ Goto(t, IF hash_lock # 0 THEN "lwoken" ELSE "cas")
     \/ pc[t] = "lwoken" /\ Goto(t, IF hash_lock # 0 THEN "neg" ELSE "get")
  /\ old' = [old EXCEPT ![t] = hash_lock]
  /\ UNCHANGED <<obj, chain, hash_lock, ip>>

MarkWaiting(t) ==
  /\ pc[t] = "neg"
  /\ \E v \in Loads(t) : hash_lock' = IF v = hash_lock THEN -1 ELSE hash_lock
  /\ Goto(t, "presleep")
  /\ UNCHANGED <<obj, chain, ip, old>>

SleepHashLock(t) ==
  /\ pc[t] = "presleep"
  /\ Goto(t, "lsleep")
  /\ UNCHANGED <<obj, chain, hash_lock, ip, old>>

TakeHashLock(t) ==
  /\ pc[t] = "cas"
  /\ \E v \in Loads(t) :
       IF v = hash_lock THEN hash_lock' = 1 /\ Goto(t, "alloc") ELSE UNCHANGED hash_lock /\ Goto(t, "get")
  /\ UNCHANGED <<obj, chain, ip, old>>

\* MALLOC, then the new inode is locked, marked IN_INIT and put on the chain.
Insert(t) ==
  \E o \in Objs :
    /\ pc[t] = "alloc"
    /\ ~obj[o].live /\ \A u \in Threads : ip[u] # o
    /\ obj' = [obj EXCEPT ![o] = [Unused EXCEPT !.live = TRUE, !.init = TRUE, !.hashed = TRUE, !.lock = t]]
    /\ chain' = <<o>> \o chain
    /\ ip' = [ip EXCEPT ![t] = o]
    /\ Goto(t, "rel")
    /\ UNCHANGED <<hash_lock, old>>

\* wakeup(&ext2fs_inode_hash_lock) when someone has announced that it sleeps ...
WakeHashLock(t) ==
  /\ pc[t] = "rel"
  /\ pc' = [u \in Threads |-> IF u = t THEN "relcas"
                              ELSE IF pc[u] = "lsleep" /\ hash_lock < 0 THEN "lwoken" ELSE pc[u]]
  /\ old' = [old EXCEPT ![t] = hash_lock]
  /\ UNCHANGED <<obj, chain, hash_lock, ip>>

\* ... and the release; after wakeup the operand is loaded again.
DropHashLock(t) ==
  /\ pc[t] = "relcas"
  /\ \E v \in IF old[t] < 0 THEN {hash_lock} ELSE Loads(t) : hash_lock' = IF v = hash_lock THEN 0 ELSE hash_lock
  /\ Goto(t, "read")
  /\ UNCHANGED <<obj, chain, ip, old>>
-----------------------------------------------------------------------------
\* The inode is read, which may fail, as does an inode of no type; otherwise
\* ext2_vinit unlocks it for vnode_create.
ReadInode(t) ==
  /\ pc[t] = "read"
  /\ \/ Goto(t, "irelse") /\ UNCHANGED obj
     \/ Goto(t, "vcreate") /\ obj' = [obj EXCEPT ![ip[t]].lock = None]
  /\ UNCHANGED <<chain, hash_lock, ip, old>>

\* The end of ext2_vget_internal: the vnode is set, IN_INIT cleared.
Initialised(i) == [i EXCEPT !.init = FALSE, !.initwait = FALSE, !.vnode = "active"]

\* vnode_create has returned and the inode is locked again: initialisation is
\* over, or has failed and the lock stays.
VnodeCreated(t) ==
  LET o == ip[t]
  IN  /\ pc[t] = "vcreate" /\ CanLock(t, o)
      /\ \/ /\ obj' = [obj EXCEPT ![o] = Initialised(@)]
            /\ IF obj[o].initwait THEN WakeAndGoto(t, o, "i_flag", "have") ELSE Goto(t, "have")
         \/ /\ obj' = [obj EXCEPT ![o].lock = t]
            /\ Goto(t, "irelse")
      /\ UNCHANGED <<chain, hash_lock, ip, old>>

\* Mutant of Irelse: nobody waits for i_refct.
IrelseAtOnce(t) ==
  /\ pc[t] = "irelse" /\ CanLock(t, ip[t])
  /\ chain' = Without(ip[t])
  /\ obj' = [obj EXCEPT ![ip[t]] = Unused]
  /\ Return(t)
  /\ UNCHANGED hash_lock

\* ext2_vget_irelse: off the chain (the first round does it); waiters are woken
\* and waited for, with the lock dropped; then the inode is freed.
Irelse(t) ==
  LET o == ip[t]
      removed == [obj[o] EXCEPT !.hashed = FALSE, !.lock = None]
  IN  /\ pc[t] = "irelse" /\ CanLock(t, o)
      /\ chain' = Without(o)
      /\ IF obj[o].initwait
         THEN /\ obj' = [obj EXCEPT ![o] = [removed EXCEPT !.initwait = FALSE]]
              /\ WakeAndGoto(t, o, "i_flag", "irelse")
              /\ UNCHANGED <<ip, old>>
         ELSE IF obj[o].refct > 0 THEN obj' = [obj EXCEPT ![o] = removed] /\ UNCHANGED <<pc, ip, old>>
         ELSE obj' = [obj EXCEPT ![o] = Unused] /\ Return(t)
      /\ UNCHANGED hash_lock

\* The VFS picks a vnode nobody holds and calls ext2_reclaim.
StartReclaim(t) ==
  \E o \in Objs :
    /\ pc[t] = "out" /\ obj[o].vnode = "active"
    /\ \A u \in Threads : ~(pc[u] = "have" /\ ip[u] = o)
    /\ obj' = [obj EXCEPT ![o].vnode = "dying"]
    /\ ip' = [ip EXCEPT ![t] = o]
    /\ Goto(t, "reclaim")
    /\ UNCHANGED <<chain, hash_lock, old>>

\* Mutant of Reclaim: the inode stays on the chain.
ReclaimHashed(t) ==
  LET o == ip[t]
  IN  /\ pc[t] = "reclaim" /\ CanLock(t, o)
      /\ obj[o].refct = 0
      /\ obj' = [obj EXCEPT ![o] = Unused]
      /\ Return(t)
      /\ UNCHANGED <<chain, hash_lock>>

\* Off the chain, then the loop that waits for i_refct, then free.
Reclaim(t) ==
  LET o == ip[t]
  IN  /\ pc[t] = "reclaim" /\ CanLock(t, o)
      /\ chain' = Without(o)
      /\ IF obj[o].refct > 0
         THEN obj' = [obj EXCEPT ![o].hashed = FALSE] /\ UNCHANGED <<pc, ip, old>>
         ELSE obj' = [obj EXCEPT ![o] = Unused] /\ Return(t)
      /\ UNCHANGED hash_lock
-----------------------------------------------------------------------------
\* What a thread does next once it is in ext2_vget or ext2_reclaim.
Step(t) ==
  \/ Lookup(t) \/ AwaitInit(t) \/ GetVnode(t)
  \/ TestHashLock(t) \/ MarkWaiting(t) \/ SleepHashLock(t) \/ TakeHashLock(t)
  \/ Insert(t) \/ WakeHashLock(t) \/ DropHashLock(t)
  \/ ReadInode(t) \/ VnodeCreated(t) \/ Irelse(t) \/ Reclaim(t)

Next == \E t \in Threads : Vget(t) \/ Put(t) \/ StartReclaim(t) \/ Step(t)

Spec == Init /\ [][Next]_vars

\* Threads run, and a thread that keeps asking for an inode's lock gets it.
FairSpec == Spec /\ \A t \in Threads : SF_vars(Step(t))
-----------------------------------------------------------------------------
\* A vnode that ext2_vget has returned and that is still held has an inode that
\* is fully initialised, allocated and not being reclaimed.
ReturnedIsReady ==
  \A t \in Threads : pc[t] = "have" =>
    LET i == obj[ip[t]] IN i.live /\ ~i.init /\ i.vnode = "active"

\* The loops over i_refct in ext2_vget_irelse and ext2_reclaim keep an inode from
\* being freed under a thread that sleeps on it or has been woken and not yet run,
\* and whose msleep would take a lock in freed memory.
SleeperKeepsInode ==
  \A t \in Threads : pc[t] \in {"asleep", "woken"} => obj[ip[t]].live

\* The chain holds exactly the inodes marked IN_HASHED, each once, and none of
\* them has been freed.
ChainIsLive ==
  /\ \A o \in Objs : obj[o].hashed <=> \E n \in DOMAIN chain : chain[n] = o
  /\ \A n \in DOMAIN chain : obj[chain[n]].live
  /\ \A n, m \in DOMAIN chain : n # m => chain[n] # chain[m]

\* "If it is in core, but locked, wait for it" (ext2_ihash.c:109): a thread that
\* waits in ext2_hash_get for an inode to be initialised gets out of the wait.
WaitEnds ==
  \A t \in Threads : pc[t] \in {"asleep", "woken"} ~> pc[t] \notin {"asleep", "woken"}

\* "Lock out the creation of new entries in the hash table ... otherwise a
\* duplicate may occur!" (ext2_vfsops.c:1386): an inode is in core at most once.
NoDuplicate == Len(chain) <= 1
=============================================================================
