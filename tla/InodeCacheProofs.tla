-------------------------- MODULE InodeCacheProofs --------------------------
(***************************************************************************)
(* Proofs about InodeCache for any number of threads and of inodes.        *)
(***************************************************************************)
EXTENDS InodeCache, FiniteSetTheorems, SequenceTheorems, TLAPS

USE CacheAssumption
-----------------------------------------------------------------------------
(***************************************************************************)
(* The inductive invariant.                                                *)
(***************************************************************************)

\* Places in ext2_vget_internal and ext2_vget_irelse after the new inode is on
\* the chain, until its vnode is there or it has been freed.
Creating == {"rel", "relcas", "read", "vcreate", "irelse"}

\* Places at which the thread works on an inode of its own or of the chain.
OnInode == Creating \cup {"ixlock", "asleep", "woken", "getvid", "have", "reclaim"}

Asleep == {"asleep", "woken"}

\* The threads that i_refct counts.
Sleepers(o) == {t \in Threads : pc[t] \in Asleep /\ ip[t] = o}

\* The types, but for the bounds on i_refct and on the chain.
InCore == [live : BOOLEAN, init : BOOLEAN, initwait : BOOLEAN, hashed : BOOLEAN,
           lock : Threads \cup {None}, refct : Int, vnode : {"none", "active", "dying"}]

Types ==
  /\ obj \in [Objs -> InCore]
  /\ chain \in Seq(Objs)
  /\ hash_lock \in {-1, 0, 1}
  /\ pc \in [Threads -> Places]
  /\ ip \in [Threads -> Objs \cup {None}]
  /\ old \in [Threads -> {-1, 0, 1}]

\* A freed inode is blank, a vnode is attached only to an initialised inode, and
\* i_refct is the number of sleepers.
InodeOK(o) ==
  /\ ~obj[o].live => obj[o] = Unused
  /\ obj[o].vnode # "none" => ~obj[o].init
  /\ obj[o].refct = Cardinality(Sleepers(o))

\* What a thread relies on in the inode it works on.
ThreadOK(t) ==
  /\ pc[t] \in OnInode => ip[t] \in Objs
  /\ pc[t] \in Creating => obj[ip[t]].live /\ obj[ip[t]].init /\ obj[ip[t]].vnode = "none"
  /\ pc[t] = "reclaim" => obj[ip[t]].vnode = "dying"
  /\ pc[t] = "have" => obj[ip[t]].vnode = "active"
  /\ pc[t] \in Asleep => obj[ip[t]].live

\* Only one thread at a time creates or reclaims an inode.
Changing == Creating \cup {"reclaim"}
OneChanger ==
  \A t, u \in Threads : t # u /\ pc[t] \in Changing /\ pc[u] \in Changing => ip[t] # ip[u]

IInv ==
  /\ Types /\ ChainIsLive /\ OneChanger
  /\ \A o \in Objs : InodeOK(o)
  /\ \A t \in Threads : ThreadOK(t)

\* The strengthening gives the type invariant: i_refct counts threads, and a chain
\* without repetitions is no longer than the inodes.
LEMMA TypesBounded == IInv => TypeOK
<1> SUFFICES ASSUME IInv PROVE TypeOK
  OBVIOUS
<1>1. \A o \in Objs : obj[o].refct \in 0 .. Cardinality(Threads)
  <2> TAKE o \in Objs
  <2>1. Sleepers(o) \subseteq Threads
    BY DEF Sleepers
  <2>2. /\ Cardinality(Sleepers(o)) \in Nat /\ Cardinality(Threads) \in Nat
        /\ Cardinality(Sleepers(o)) <= Cardinality(Threads)
    BY <2>1, FS_Subset, FS_CardinalityType
  <2>3. obj[o].refct = Cardinality(Sleepers(o))
    BY DEF IInv, InodeOK
  <2>4. QED BY <2>2, <2>3
<1>2. obj \in [Objs -> Inode]
  BY <1>1 DEF IInv, Types, InCore, Inode
<1>3. Len(chain) \in 0 .. Cardinality(Objs)
  <2>1. chain \in Injection(1 .. Len(chain), Objs)
    BY LenProperties DEF IInv, Types, ChainIsLive, Injection, IsInjective
  <2>2. Len(chain) \in Nat
    BY LenProperties DEF IInv, Types
  <2>3. IsFiniteSet(1 .. Len(chain)) /\ Cardinality(1 .. Len(chain)) = Len(chain)
    BY <2>2, FS_Interval, SMTT(30)
  <2>4. QED BY <2>1, <2>2, <2>3, FS_Injection, FS_CardinalityType
<1>4. chain \in [1 .. Len(chain) -> Objs]
  BY LenProperties DEF IInv, Types
<1>5. QED BY <1>2, <1>3, <1>4, Zenon DEF IInv, Types, TypeOK

\* The first state.
LEMMA InitInv == Init => IInv
<1> SUFFICES ASSUME Init PROVE IInv
  OBVIOUS
<1> USE DEF Init
<1>1. Types
  BY DEF Types, InCore, Unused, Places
<1>2. ChainIsLive /\ OneChanger
  BY DEF ChainIsLive, OneChanger, Unused, Changing, Creating
<1>3. ASSUME NEW o \in Objs PROVE InodeOK(o)
  <2>1. Sleepers(o) = {}
    BY DEF Sleepers, Asleep
  <2>2. QED BY <2>1, FS_EmptySet DEF InodeOK, Unused
<1>4. \A t \in Threads : ThreadOK(t)
  BY DEF ThreadOK, OnInode, Creating, Asleep
<1>5. QED BY <1>1, <1>2, <1>3, <1>4 DEF IInv
-----------------------------------------------------------------------------
(***************************************************************************)
(* A step of one thread.                                                   *)
(***************************************************************************)

\* Another thread is at most woken up.
Others(t) ==
  \A u \in Threads \ {t} :
    /\ ip'[u] = ip[u]
    /\ \/ pc'[u] = pc[u]
       \/ pc[u] = "asleep" /\ pc'[u] = "woken"
       \/ pc[u] = "lsleep" /\ pc'[u] = "lwoken"

\* The other threads stay among the sleepers of an inode, or outside them.
LEMMA SleepersStep ==
  ASSUME NEW t \in Threads, Others(t), NEW o \in Objs
  PROVE  /\ (t \in Sleepers(o)' <=> t \in Sleepers(o)) => Sleepers(o)' = Sleepers(o)
         /\ t \in Sleepers(o)' /\ t \notin Sleepers(o) =>
              Cardinality(Sleepers(o)') = Cardinality(Sleepers(o)) + 1
         /\ t \notin Sleepers(o)' /\ t \in Sleepers(o) =>
              Cardinality(Sleepers(o)') = Cardinality(Sleepers(o)) - 1
<1>1. Sleepers(o)' \ {t} = Sleepers(o) \ {t}
  BY DEF Others, Sleepers, Asleep
<1>2. IsFiniteSet(Sleepers(o)) /\ IsFiniteSet(Sleepers(o)')
  BY FS_Subset DEF Sleepers
<1> DEFINE A == Sleepers(o)
           B == Sleepers(o)'
<1> HIDE DEF A, B
<1>3. (t \in B <=> t \in A) => B = A
  BY <1>1 DEF A, B
<1>4. t \in B /\ t \notin A => B = A \cup {t}
  BY <1>1 DEF A, B
<1>5. t \notin B /\ t \in A => B = A \ {t}
  BY <1>1 DEF A, B
<1>6. IsFiniteSet(A)
  BY <1>2 DEF A
<1>7. t \in B /\ t \notin A => Cardinality(B) = Cardinality(A) + 1
  BY <1>4, <1>6, FS_AddElement
<1>8. t \notin B /\ t \in A => Cardinality(B) = Cardinality(A) - 1
  BY <1>5, <1>6, FS_RemoveElement
<1>9. QED BY <1>3, <1>7, <1>8 DEF A, B

\* A thread that others only wake keeps what it relies on while its inode does
\* not change.
LEMMA OtherThreadOK ==
  ASSUME NEW t \in Threads, Others(t), NEW u \in Threads \ {t}, ThreadOK(u),
         pc[u] \in OnInode => obj'[ip[u]] = obj[ip[u]]
  PROVE  ThreadOK(u)'
BY DEF Others, ThreadOK, OnInode, Creating, Asleep

\* No other thread begins to create or to reclaim an inode.
LEMMA OneChangerStep ==
  ASSUME OneChanger, NEW t \in Threads, Others(t),
         pc'[t] \in Changing =>
           \A u \in Threads \ {t} : pc[u] \in Changing => ip[u] # ip'[t]
  PROVE  OneChanger'
BY DEF OneChanger, Others, Changing, Creating

\* A step that changes no inode and not the chain.
LEMMA QuietStep ==
  ASSUME IInv, NEW t \in Threads, Others(t), obj' = obj, chain' = chain,
         Types', ThreadOK(t)',
         pc[t] \notin Asleep, pc'[t] \notin Asleep,
         pc'[t] \in Changing => pc[t] \in Changing /\ ip'[t] = ip[t]
  PROVE  IInv'
<1>1. ChainIsLive'
  BY DEF IInv, ChainIsLive
<1>2. OneChanger'
  BY OneChangerStep DEF IInv, OneChanger
<1>3. ASSUME NEW o \in Objs PROVE InodeOK(o)'
  <2>1. Sleepers(o)' = Sleepers(o)
    BY SleepersStep, Zenon DEF Sleepers
  <2>2. QED BY <2>1 DEF IInv, InodeOK
<1>4. ASSUME NEW u \in Threads PROVE ThreadOK(u)'
  BY OtherThreadOK DEF IInv
<1>5. QED BY <1>1, <1>2, <1>3, <1>4 DEF IInv

\* The search of the chain, the call and its return, vnode_getwithvid, and
\* everything about ext2fs_inode_hash_lock.
LEMMA QuietInv ==
  ASSUME IInv, NEW t \in Threads,
         \/ Vget(t) \/ Lookup(t) \/ GetVnode(t) \/ Put(t)
         \/ TestHashLock(t) \/ MarkWaiting(t) \/ SleepHashLock(t) \/ TakeHashLock(t)
         \/ WakeHashLock(t) \/ DropHashLock(t)
  PROVE  IInv'
<1> USE DEF Goto, Return
<1> Types /\ ThreadOK(t)
  BY DEF IInv
<1>1. CASE Vget(t)
  <2>1. Types' /\ Others(t) BY <1>1 DEF Vget, Types, Places, Others
  <2>2. ThreadOK(t)' BY <1>1 DEF Vget, Types, ThreadOK, OnInode, Creating, Asleep
  <2>3. QED BY <1>1, <2>1, <2>2, QuietStep DEF Vget, Types, Asleep, Changing, Creating
<1>2. CASE Lookup(t)
  <2>0. chain # <<>> => Head(chain) \in Objs
    BY HeadTailProperties DEF Types
  <2>1. Types' /\ Others(t) BY <1>2, <2>0 DEF Lookup, Types, Places, Others
  <2>2. ThreadOK(t)' BY <1>2, <2>0 DEF Lookup, Types, ThreadOK, OnInode, Creating, Asleep
  <2>3. QED BY <1>2, <2>1, <2>2, QuietStep DEF Lookup, Types, Asleep, Changing, Creating
<1>3. CASE GetVnode(t)
  <2>1. Types' /\ Others(t) BY <1>3 DEF GetVnode, Types, Places, Others
  <2>2. ThreadOK(t)' BY <1>3 DEF GetVnode, Types, ThreadOK, OnInode, Creating, Asleep
  <2>3. QED BY <1>3, <2>1, <2>2, QuietStep DEF GetVnode, Types, Asleep, Changing, Creating
<1>4. CASE Put(t)
  <2>1. Types' /\ Others(t) BY <1>4 DEF Put, Types, Places, Others
  <2>2. ThreadOK(t)' BY <1>4 DEF Put, Types, ThreadOK, OnInode, Creating, Asleep
  <2>3. QED BY <1>4, <2>1, <2>2, QuietStep DEF Put, Types, Asleep, Changing, Creating
<1>5. CASE TestHashLock(t)
  <2>1. Types' /\ Others(t) BY <1>5 DEF TestHashLock, Types, Places, Others
  <2>2. ThreadOK(t)' BY <1>5 DEF TestHashLock, Types, ThreadOK, OnInode, Creating, Asleep
  <2>3. QED BY <1>5, <2>1, <2>2, QuietStep DEF TestHashLock, Types, Asleep, Changing, Creating
<1>6. CASE MarkWaiting(t)
  <2>1. Types' /\ Others(t) BY <1>6 DEF MarkWaiting, Types, Places, Others
  <2>2. ThreadOK(t)' BY <1>6 DEF MarkWaiting, Types, ThreadOK, OnInode, Creating, Asleep
  <2>3. QED BY <1>6, <2>1, <2>2, QuietStep DEF MarkWaiting, Types, Asleep, Changing, Creating
<1>7. CASE SleepHashLock(t)
  <2>1. Types' /\ Others(t) BY <1>7 DEF SleepHashLock, Types, Places, Others
  <2>2. ThreadOK(t)' BY <1>7 DEF SleepHashLock, Types, ThreadOK, OnInode, Creating, Asleep
  <2>3. QED BY <1>7, <2>1, <2>2, QuietStep DEF SleepHashLock, Types, Asleep, Changing, Creating
<1>8. CASE TakeHashLock(t)
  <2>1. Types' /\ Others(t) BY <1>8 DEF TakeHashLock, Types, Places, Others
  <2>2. ThreadOK(t)' BY <1>8 DEF TakeHashLock, Types, ThreadOK, OnInode, Creating, Asleep
  <2>3. QED BY <1>8, <2>1, <2>2, QuietStep DEF TakeHashLock, Types, Asleep, Changing, Creating
<1>9. CASE WakeHashLock(t)
  <2>1. Types' /\ Others(t) BY <1>9 DEF WakeHashLock, Types, Places, Others
  <2>2. ThreadOK(t)' BY <1>9 DEF WakeHashLock, Types, ThreadOK, OnInode, Creating, Asleep
  <2>3. QED BY <1>9, <2>1, <2>2, QuietStep DEF WakeHashLock, Types, Asleep, Changing, Creating
<1>10. CASE DropHashLock(t)
  <2>1. Types' /\ Others(t) BY <1>10 DEF DropHashLock, Loads, Types, Places, Others
  <2>2. ThreadOK(t)' BY <1>10 DEF DropHashLock, Types, ThreadOK, OnInode, Creating, Asleep
  <2>3. QED BY <1>10, <2>1, <2>2, QuietStep DEF DropHashLock, Types, Asleep, Changing, Creating
<1>11. QED BY <1>1, <1>2, <1>3, <1>4, <1>5, <1>6, <1>7, <1>8, <1>9, <1>10
-----------------------------------------------------------------------------
(***************************************************************************)
(* The chain.                                                              *)
(***************************************************************************)

\* Taking the element at position k out of a sequence.
LEMMA RemoveAtProperties ==
  ASSUME NEW S, NEW s \in Seq(S), NEW k \in 1 .. Len(s)
  PROVE  /\ RemoveAt(s, k) \in Seq(S)
         /\ Len(RemoveAt(s, k)) = Len(s) - 1
         /\ \A i \in 1 .. Len(s) - 1 : RemoveAt(s, k)[i] = IF i < k THEN s[i] ELSE s[i + 1]
<1>0. Len(s) \in Nat /\ \A i \in 1 .. Len(s) : s[i] \in S
  BY LenProperties, ElementOfSeq
<1> DEFINE a == SubSeq(s, 1, k - 1)
           b == SubSeq(s, k + 1, Len(s))
<1>1. a \in Seq(S) /\ Len(a) = k - 1 /\ \A i \in 1 .. k - 1 : a[i] = s[i]
  <2>1. 1 \in Int /\ k - 1 \in Int /\ \A i \in 1 .. k - 1 : s[i] \in S
    BY <1>0
  <2>2. /\ a \in Seq(S) /\ Len(a) = IF 1 <= k - 1 THEN k - 1 - 1 + 1 ELSE 0
        /\ \A i \in 1 .. k - 1 - 1 + 1 : a[i] = s[1 + i - 1]
    BY <2>1, SubSeqProperties
  <2> HIDE DEF a
  <2>3. QED BY <1>0, <2>2
<1>2. b \in Seq(S) /\ Len(b) = Len(s) - k /\ \A i \in 1 .. Len(s) - k : b[i] = s[k + i]
  <2>1. k + 1 \in Int /\ Len(s) \in Int /\ \A i \in k + 1 .. Len(s) : s[i] \in S
    BY <1>0
  <2>2. /\ b \in Seq(S) /\ Len(b) = IF k + 1 <= Len(s) THEN Len(s) - (k + 1) + 1 ELSE 0
        /\ \A i \in 1 .. Len(s) - (k + 1) + 1 : b[i] = s[k + 1 + i - 1]
    BY <2>1, SubSeqProperties
  <2> HIDE DEF b
  <2>3. QED BY <1>0, <2>2
<1>3. RemoveAt(s, k) = a \o b
  BY DEF RemoveAt
<1> HIDE DEF a, b
<1>4. /\ a \o b \in Seq(S) /\ Len(a \o b) = Len(a) + Len(b)
      /\ \A i \in 1 .. Len(a) + Len(b) : (a \o b)[i] = IF i <= Len(a) THEN a[i] ELSE b[i - Len(a)]
  BY <1>1, <1>2, ConcatProperties, Zenon
<1>5. PICK c : c = a \o b
  BY Zenon
<1>6. c \in Seq(S) /\ Len(c) = Len(s) - 1
  BY <1>0, <1>1, <1>2, <1>4, <1>5
<1>7. ASSUME NEW i \in 1 .. Len(s) - 1 PROVE c[i] = IF i < k THEN s[i] ELSE s[i + 1]
  <2>1. c[i] = IF i <= k - 1 THEN a[i] ELSE b[i - (k - 1)]
    BY <1>0, <1>1, <1>2, <1>4, <1>5
  <2>2. CASE i < k
    BY <1>0, <1>1, <2>1, <2>2
  <2>3. CASE i >= k
    <3>1. i - (k - 1) \in 1 .. Len(s) - k /\ k + (i - (k - 1)) = i + 1
      BY <1>0, <2>3
    <3>2. b[i - (k - 1)] = s[k + (i - (k - 1))]
      BY <1>2, <3>1
    <3>3. QED BY <1>0, <2>1, <2>3, <3>1, <3>2
  <2>4. QED BY <1>0, <2>2, <2>3
<1>8. QED BY <1>3, <1>5, <1>6, <1>7, Zenon

\* ext2_hash_remove takes the inode off the chain and leaves the others there.
LEMMA WithoutChain ==
  ASSUME Types, ChainIsLive, NEW o \in Objs
  PROVE  /\ Without(o) \in Seq(Objs)
         /\ \A p \in Objs : (\E n \in DOMAIN Without(o) : Without(o)[n] = p)
                              <=> p # o /\ \E n \in DOMAIN chain : chain[n] = p
         /\ \A n, m \in DOMAIN Without(o) : n # m => Without(o)[n] # Without(o)[m]
<1>0. chain \in Seq(Objs) /\ Len(chain) \in Nat /\ DOMAIN chain = 1 .. Len(chain)
  BY LenProperties DEF Types
<1>1. CASE ~obj[o].hashed
  BY <1>0, <1>1, ElementOfSeq DEF Without, ChainIsLive
<1>2. CASE obj[o].hashed
  <2> DEFINE k == CHOOSE n \in DOMAIN chain : chain[n] = o
             s == RemoveAt(chain, k)
  <2>1. k \in 1 .. Len(chain) /\ chain[k] = o
    BY <1>0, <1>2 DEF ChainIsLive
  <2> HIDE DEF k
  <2>3. /\ s \in Seq(Objs) /\ DOMAIN s = 1 .. Len(chain) - 1
        /\ \A i \in 1 .. Len(chain) - 1 : s[i] = IF i < k THEN chain[i] ELSE chain[i + 1]
    <3>1. /\ s \in Seq(Objs) /\ Len(s) = Len(chain) - 1
          /\ \A i \in 1 .. Len(chain) - 1 : s[i] = IF i < k THEN chain[i] ELSE chain[i + 1]
      BY <1>0, <2>1, RemoveAtProperties, Zenon
    <3>2. QED BY <3>1, LenProperties, SMTT(30)
  <2> HIDE DEF s
  <2>4. \A n, m \in DOMAIN chain : n # m => chain[n] # chain[m]
    BY DEF ChainIsLive
  <2>5. ASSUME NEW n \in DOMAIN s, NEW m \in DOMAIN s, n # m PROVE s[n] # s[m]
    <3>1. PICK i \in DOMAIN chain : s[n] = chain[i] /\ i = IF n < k THEN n ELSE n + 1
      BY <1>0, <2>1, <2>3
    <3>2. PICK j \in DOMAIN chain : s[m] = chain[j] /\ j = IF m < k THEN m ELSE m + 1
      BY <1>0, <2>1, <2>3
    <3>3. i # j
      BY <1>0, <2>1, <2>3, <2>5, <3>1, <3>2
    <3>4. QED BY <2>4, <3>1, <3>2, <3>3
  <2>6. ASSUME NEW p \in Objs PROVE (\E n \in DOMAIN s : s[n] = p) <=> p # o /\ \E n \in DOMAIN chain : chain[n] = p
    <3>1. ASSUME NEW n \in DOMAIN s PROVE s[n] # o /\ \E m \in DOMAIN chain : chain[m] = s[n]
      <4>1. CASE n < k
        BY <1>0, <2>1, <2>3, <2>4, <3>1, <4>1
      <4>2. CASE n >= k
        <5>1. n + 1 \in DOMAIN chain /\ n + 1 # k
          BY <1>0, <2>1, <2>3, <3>1, <4>2
        <5>2. s[n] = chain[n + 1]
          BY <1>0, <2>1, <2>3, <3>1, <4>2
        <5>3. QED BY <1>0, <2>1, <2>4, <5>1, <5>2
      <4>3. QED BY <1>0, <2>1, <2>3, <3>1, <4>1, <4>2
    <3>2. ASSUME NEW m \in DOMAIN chain, chain[m] # o PROVE \E n \in DOMAIN s : s[n] = chain[m]
      <4>1. CASE m < k
        <5>1. m \in DOMAIN s /\ s[m] = chain[m]
          BY <1>0, <2>1, <2>3, <3>2, <4>1
        <5>2. QED BY <5>1
      <4>2. CASE m > k
        <5>1. m - 1 \in DOMAIN s /\ s[m - 1] = chain[m]
          BY <1>0, <2>1, <2>3, <3>2, <4>2
        <5>2. QED BY <5>1
      <4>3. QED BY <1>0, <2>1, <3>2, <4>1, <4>2
    <3>3. QED BY <3>1, <3>2
  <2>7. Without(o) = s
    BY <1>2 DEF Without, s, k
  <2>8. QED BY <2>3, <2>5, <2>6, <2>7
<1>3. QED BY <1>1, <1>2 DEF Types

\* Taking an inode off the chain keeps the chain exact when IN_HASHED is cleared,
\* or the inode freed, in the same step.
LEMMA RemovedChain ==
  ASSUME IInv, NEW o \in Objs, chain' = Without(o), ~obj'[o].hashed,
         \A p \in Objs \ {o} : obj'[p] = obj[p]
  PROVE  chain' \in Seq(Objs) /\ ChainIsLive'
<1> DEFINE w == Without(o)
<1>1. /\ w \in Seq(Objs)
      /\ \A p \in Objs : (\E n \in DOMAIN w : w[n] = p) <=> p # o /\ \E n \in DOMAIN chain : chain[n] = p
      /\ \A n, m \in DOMAIN w : n # m => w[n] # w[m]
  BY WithoutChain DEF IInv
<1>2. chain' = w
  OBVIOUS
<1> HIDE DEF w
<1>3. \A n \in DOMAIN w : w[n] \in Objs
  BY <1>1, LenProperties, ElementOfSeq
<1>4. \A p \in Objs : obj'[p].hashed <=> \E n \in DOMAIN w : w[n] = p
  BY <1>1 DEF IInv, ChainIsLive
<1>5. \A n \in DOMAIN w : obj'[w[n]].live
  BY <1>1, <1>3 DEF IInv, ChainIsLive
<1>6. QED BY <1>1, <1>2, <1>4, <1>5 DEF ChainIsLive

\* A step that leaves the chain alone keeps it exact when it changes neither
\* IN_HASHED nor whether an inode is allocated.
LEMMA SameChain ==
  ASSUME IInv, chain' = chain,
         \A p \in Objs : (obj'[p].hashed <=> obj[p].hashed) /\ (obj'[p].live <=> obj[p].live)
  PROVE  ChainIsLive'
<1>1. \A n \in DOMAIN chain : chain[n] \in Objs
  BY LenProperties, ElementOfSeq DEF IInv, Types
<1>2. QED BY <1>1 DEF IInv, ChainIsLive
-----------------------------------------------------------------------------
(***************************************************************************)
(* The steps that change an inode.                                         *)
(***************************************************************************)

\* What has to be shown of a step of t that changes inode o only.
LEMMA InodeStep ==
  ASSUME IInv, NEW t \in Threads, NEW o \in Objs, Others(t), Types', ChainIsLive',
         \A p \in Objs \ {o} : obj'[p] = obj[p] /\ (t \in Sleepers(p)' <=> t \in Sleepers(p)),
         InodeOK(o)', ThreadOK(t)',
         \A u \in Threads \ {t} : pc[u] \in OnInode /\ ip[u] = o => ThreadOK(u)',
         pc'[t] \in Changing =>
           \A u \in Threads \ {t} : pc[u] \in Changing => ip[u] # ip'[t]
  PROVE  IInv'
<1>1. OneChanger'
  BY OneChangerStep DEF IInv
<1>2. ASSUME NEW p \in Objs PROVE InodeOK(p)'
  <2>1. CASE p = o
    BY <2>1
  <2>2. CASE p # o
    <3>1. Sleepers(p)' = Sleepers(p) /\ obj'[p] = obj[p]
      BY <2>2, SleepersStep
    <3>2. QED BY <3>1 DEF IInv, InodeOK
  <2>3. QED BY <2>1, <2>2
<1>3. ASSUME NEW u \in Threads PROVE ThreadOK(u)'
  <2>1. CASE u = t
    BY <2>1
  <2>2. CASE u # t /\ pc[u] \in OnInode /\ ip[u] = o
    BY <2>2
  <2>3. CASE u # t /\ ~(pc[u] \in OnInode /\ ip[u] = o)
    <3>1. ThreadOK(u)
      BY DEF IInv
    <3>2. pc[u] \in OnInode => obj'[ip[u]] = obj[ip[u]]
      BY <2>3, <3>1 DEF ThreadOK
    <3>3. QED BY <2>3, <3>1, <3>2, OtherThreadOK
  <2>4. QED BY <2>1, <2>2, <2>3
<1>4. QED BY <1>1, <1>2, <1>3 DEF IInv

\* An in-core inode given by its fields.
Fields(l, i, w, h, k, n, v) ==
  [live |-> l, init |-> i, initwait |-> w, hashed |-> h, lock |-> k, refct |-> n, vnode |-> v]

\* Assignments to one field.
LEMMA FieldSet ==
  ASSUME NEW r \in InCore
  PROVE  /\ \A w : [r EXCEPT !.init = w] = Fields(r.live, w, r.initwait, r.hashed, r.lock, r.refct, r.vnode)
         /\ \A w : [r EXCEPT !.initwait = w] = Fields(r.live, r.init, w, r.hashed, r.lock, r.refct, r.vnode)
         /\ \A w : [r EXCEPT !.hashed = w] = Fields(r.live, r.init, r.initwait, w, r.lock, r.refct, r.vnode)
         /\ \A w : [r EXCEPT !.lock = w] = Fields(r.live, r.init, r.initwait, r.hashed, w, r.refct, r.vnode)
         /\ \A w : [r EXCEPT !.refct = w] = Fields(r.live, r.init, r.initwait, r.hashed, r.lock, w, r.vnode)
         /\ \A w : [r EXCEPT !.vnode = w] = Fields(r.live, r.init, r.initwait, r.hashed, r.lock, r.refct, w)
         /\ \A w : [r EXCEPT !.live = w] = Fields(w, r.init, r.initwait, r.hashed, r.lock, r.refct, r.vnode)
<1>1. \A w : [r EXCEPT !.init = w] = Fields(r.live, w, r.initwait, r.hashed, r.lock, r.refct, r.vnode)
  BY SMT DEF InCore, Fields
<1>2. \A w : [r EXCEPT !.initwait = w] = Fields(r.live, r.init, w, r.hashed, r.lock, r.refct, r.vnode)
  BY SMT DEF InCore, Fields
<1>3. \A w : [r EXCEPT !.hashed = w] = Fields(r.live, r.init, r.initwait, w, r.lock, r.refct, r.vnode)
  BY SMT DEF InCore, Fields
<1>4. \A w : [r EXCEPT !.lock = w] = Fields(r.live, r.init, r.initwait, r.hashed, w, r.refct, r.vnode)
  BY SMT DEF InCore, Fields
<1>5. \A w : [r EXCEPT !.refct = w] = Fields(r.live, r.init, r.initwait, r.hashed, r.lock, w, r.vnode)
  BY SMT DEF InCore, Fields
<1>6. \A w : [r EXCEPT !.vnode = w] = Fields(r.live, r.init, r.initwait, r.hashed, r.lock, r.refct, w)
  BY SMT DEF InCore, Fields
<1>7. \A w : [r EXCEPT !.live = w] = Fields(w, r.init, r.initwait, r.hashed, r.lock, r.refct, r.vnode)
  BY SMT DEF InCore, Fields
<1>8. QED BY <1>1, <1>2, <1>3, <1>4, <1>5, <1>6, <1>7

\* Assignments to two or three, one after the other.
LEMMA FieldsSet ==
  ASSUME NEW r \in InCore, NEW n \in Int
  PROVE  /\ [r EXCEPT !.initwait = TRUE, !.refct = n]
              = Fields(r.live, r.init, TRUE, r.hashed, r.lock, n, r.vnode)
         /\ [r EXCEPT !.hashed = FALSE, !.lock = None]
              = Fields(r.live, r.init, r.initwait, FALSE, None, r.refct, r.vnode)
         /\ [[r EXCEPT !.hashed = FALSE, !.lock = None] EXCEPT !.initwait = FALSE]
              = Fields(r.live, r.init, FALSE, FALSE, None, r.refct, r.vnode)
         /\ Initialised(r) = Fields(r.live, FALSE, FALSE, r.hashed, r.lock, r.refct, "active")
<1>1. [r EXCEPT !.initwait = TRUE, !.refct = n]
        = Fields(r.live, r.init, TRUE, r.hashed, r.lock, n, r.vnode)
  <2>1. PICK a : a = [r EXCEPT !.initwait = TRUE] BY Zenon
  <2>2. a = Fields(r.live, r.init, TRUE, r.hashed, r.lock, r.refct, r.vnode) BY <2>1, FieldSet, Zenon
  <2>3. a \in InCore BY <2>2 DEF InCore, Fields
  <2>4. [a EXCEPT !.refct = n] = Fields(a.live, a.init, a.initwait, a.hashed, a.lock, n, a.vnode)
    BY <2>3, FieldSet
  <2>5. [a EXCEPT !.refct = n] = Fields(r.live, r.init, TRUE, r.hashed, r.lock, n, r.vnode)
    BY <2>2, <2>4 DEF Fields
  <2>6. QED BY <2>1, <2>5, Zenon
<1>2. PICK b : b = [r EXCEPT !.hashed = FALSE, !.lock = None] OBVIOUS
<1>3. b = Fields(r.live, r.init, r.initwait, FALSE, None, r.refct, r.vnode)
  <2>1. PICK a : a = [r EXCEPT !.hashed = FALSE] BY Zenon
  <2>2. a = Fields(r.live, r.init, r.initwait, FALSE, r.lock, r.refct, r.vnode) BY <2>1, FieldSet, Zenon
  <2>3. a \in InCore BY <2>2 DEF InCore, Fields
  <2>4. [a EXCEPT !.lock = None] = Fields(a.live, a.init, a.initwait, a.hashed, None, a.refct, a.vnode)
    BY <2>3, FieldSet
  <2>5. [a EXCEPT !.lock = None] = Fields(r.live, r.init, r.initwait, FALSE, None, r.refct, r.vnode)
    BY <2>2, <2>4 DEF Fields
  <2>6. QED BY <1>2, <2>1, <2>5, Zenon
<1>4. [b EXCEPT !.initwait = FALSE] = Fields(r.live, r.init, FALSE, FALSE, None, r.refct, r.vnode)
  <2>1. b \in InCore BY <1>3 DEF InCore, Fields
  <2>2. [b EXCEPT !.initwait = FALSE] = Fields(b.live, b.init, FALSE, b.hashed, b.lock, b.refct, b.vnode)
    BY <2>1, FieldSet, Zenon
  <2>3. QED BY <1>3, <2>2 DEF Fields
<1>5. Initialised(r) = Fields(r.live, FALSE, FALSE, r.hashed, r.lock, r.refct, "active")
  <2>1. PICK a : a = [r EXCEPT !.init = FALSE] BY Zenon
  <2>2. a = Fields(r.live, FALSE, r.initwait, r.hashed, r.lock, r.refct, r.vnode) BY <2>1, FieldSet, Zenon
  <2>3. a \in InCore BY <2>2 DEF InCore, Fields
  <2>4. PICK c : c = [a EXCEPT !.initwait = FALSE] BY Zenon
  <2>5. c = Fields(a.live, a.init, FALSE, a.hashed, a.lock, a.refct, a.vnode) BY <2>3, <2>4, FieldSet, Zenon
  <2>6. c = Fields(r.live, FALSE, FALSE, r.hashed, r.lock, r.refct, r.vnode) BY <2>2, <2>5 DEF Fields
  <2>7. c \in InCore BY <2>6 DEF InCore, Fields
  <2>8. [c EXCEPT !.vnode = "active"] = Fields(c.live, c.init, c.initwait, c.hashed, c.lock, c.refct, "active")
    BY <2>7, FieldSet
  <2>9. [c EXCEPT !.vnode = "active"] = Fields(r.live, FALSE, FALSE, r.hashed, r.lock, r.refct, "active")
    BY <2>6, <2>8 DEF Fields
  <2>10. QED BY <2>1, <2>4, <2>9, Zenon DEF Initialised
<1>6. QED BY <1>1, <1>2, <1>3, <1>4, <1>5, Zenon

\* ext2_hash_get with the inode locked.
LEMMA AwaitInitInv ==
  ASSUME IInv, NEW t \in Threads, AwaitInit(t)
  PROVE  IInv'
<1> USE DEF Goto, Return
<1> PICK o : o = ip[t]
  OBVIOUS
<1> DEFINE r == obj[o]
           n == IF pc[t] = "woken" THEN r.refct - 1 ELSE r.refct
<1>0. /\ Types /\ ThreadOK(t) /\ o \in Objs /\ pc[t] \in {"ixlock", "woken"}
      /\ InodeOK(o) /\ r \in InCore /\ chain' = chain /\ hash_lock' = hash_lock
  BY DEF IInv, AwaitInit, ThreadOK, OnInode, Types
<1>1. Others(t)
  BY <1>0 DEF AwaitInit, Others, Types
<1>2. CASE ~r.live
  <2>1. pc[t] = "ixlock" /\ obj' = obj /\ pc' = [pc EXCEPT ![t] = "ub"] /\ ip' = ip /\ old' = old
    BY <1>0, <1>2 DEF AwaitInit, ThreadOK, Asleep
  <2>2. Types'
    BY <1>0, <2>1 DEF Types, Places
  <2>3. ThreadOK(t)'
    BY <1>0, <2>1 DEF Types, ThreadOK, OnInode, Creating, Asleep
  <2>4. QED BY <1>0, <1>1, <2>1, <2>2, <2>3, QuietStep DEF Types, Asleep, Changing, Creating
<1>3. CASE r.live
  <2>0. n \in Int /\ n + 1 \in Int
    BY <1>0 DEF InCore
  <2>1. PICK m \in Int, w \in BOOLEAN :
          /\ obj' = [obj EXCEPT ![o] = Fields(r.live, r.init, w, r.hashed, r.lock, m, r.vnode)]
          /\ \/ pc' = [pc EXCEPT ![t] = "asleep"] /\ ip' = ip /\ old' = old /\ m = n + 1
             \/ pc' = [pc EXCEPT ![t] = "getvid"] /\ ip' = ip /\ old' = old /\ m = n
             \/ /\ pc' = [pc EXCEPT ![t] = "out"] /\ ip' = [ip EXCEPT ![t] = None]
                /\ old' = [old EXCEPT ![t] = 0] /\ m = n
    <3>1. CASE r.init
      <4>1. PICK new : new = [r EXCEPT !.initwait = TRUE, !.refct = n + 1]
        OBVIOUS
      <4>2. new = Fields(r.live, r.init, TRUE, r.hashed, r.lock, n + 1, r.vnode)
        BY <1>0, <2>0, <4>1, FieldsSet, Zenon
      <4>3. /\ obj' = [obj EXCEPT ![o] = new]
            /\ pc' = [pc EXCEPT ![t] = "asleep"] /\ ip' = ip /\ old' = old
        BY <1>0, <1>3, <3>1, <4>1, Zenon DEF AwaitInit
      <4>4. QED BY <2>0, <4>2, <4>3, Zenon
    <3>2. CASE ~r.init
      <4>1. PICK new : new = [r EXCEPT !.refct = n]
        BY Zenon
      <4>2. new = Fields(r.live, r.init, r.initwait, r.hashed, r.lock, n, r.vnode)
        <5>1. \A w : [r EXCEPT !.refct = w] = Fields(r.live, r.init, r.initwait, r.hashed, r.lock, w, r.vnode)
          BY <1>0, FieldSet
        <5>2. QED BY <4>1, <5>1, Zenon
      <4>3. /\ obj' = [obj EXCEPT ![o] = new]
            /\ \/ pc' = [pc EXCEPT ![t] = "getvid"] /\ ip' = ip /\ old' = old
               \/ /\ pc' = [pc EXCEPT ![t] = "out"] /\ ip' = [ip EXCEPT ![t] = None]
                  /\ old' = [old EXCEPT ![t] = 0]
        <5>1. obj' = [obj EXCEPT ![o] = [r EXCEPT !.refct = n]]
          BY <1>0, <1>3, <3>2, Zenon DEF AwaitInit
        <5>2. IF r.hashed THEN pc' = [pc EXCEPT ![t] = "getvid"] /\ ip' = ip /\ old' = old
              ELSE /\ pc' = [pc EXCEPT ![t] = "out"] /\ ip' = [ip EXCEPT ![t] = None]
                   /\ old' = [old EXCEPT ![t] = 0]
          BY <1>0, <1>3, <3>2, Zenon DEF AwaitInit
        <5>3. QED BY <4>1, <5>1, <5>2, Zenon
      <4>4. r.initwait \in BOOLEAN
        BY <1>0 DEF InCore
      <4>5. QED BY <2>0, <4>2, <4>3, <4>4, Zenon
    <3>3. QED BY <3>1, <3>2
  <2>2. Types'
    BY <1>0, <2>1, Zenon DEF Types, InCore, Fields, Places
  <2>3. ChainIsLive'
    BY <1>0, <2>1, SameChain DEF Types, Fields
  <2>4. ThreadOK(t)'
    BY <1>0, <1>3, <2>1 DEF Types, ThreadOK, Fields, OnInode, Creating, Asleep
  <2>5. InodeOK(o)'
    <3>1. /\ t \in Sleepers(o) <=> pc[t] = "woken"
          /\ t \in Sleepers(o)' <=> m = n + 1
      BY <1>0, <2>0, <2>1 DEF Types, Sleepers, Asleep
    <3>2. r.refct = Cardinality(Sleepers(o)) /\ r.refct \in Int
      BY <1>0 DEF InodeOK, InCore
    <3>3. m = Cardinality(Sleepers(o)')
      BY <1>0, <1>1, <2>0, <2>1, <3>1, <3>2, SleepersStep, SMTT(30)
    <3>4. QED BY <1>0, <1>3, <2>1, <3>3 DEF Types, InodeOK, Fields
  <2>6. \A u \in Threads \ {t} : pc[u] \in OnInode /\ ip[u] = o => ThreadOK(u)'
    BY <1>0, <1>1, <2>1 DEF IInv, Types, ThreadOK, Fields, Others, OnInode, Creating, Asleep
  <2>7. \A p \in Objs \ {o} : obj'[p] = obj[p] /\ (t \in Sleepers(p)' <=> t \in Sleepers(p))
    BY <1>0, <2>1 DEF Types, Sleepers, Asleep
  <2>8. pc'[t] \notin Changing
    BY <1>0, <2>1 DEF Types, Changing, Creating
  <2>9. QED BY <1>0, <1>1, <2>2, <2>3, <2>4, <2>5, <2>6, <2>7, <2>8, InodeStep
<1>4. QED BY <1>2, <1>3

\* A blank inode gets its first fields, is locked and goes on the chain.
LEMMA InsertInv ==
  ASSUME IInv, NEW t \in Threads, Insert(t)
  PROVE  IInv'
<1> USE DEF Goto
<1> DEFINE new == Fields(TRUE, TRUE, FALSE, TRUE, t, 0, "none")
<1>1. PICK o \in Objs :
        /\ pc[t] = "alloc"
        /\ ~obj[o].live /\ \A u \in Threads : ip[u] # o
        /\ obj' = [obj EXCEPT ![o] = new]
        /\ chain' = <<o>> \o chain
        /\ ip' = [ip EXCEPT ![t] = o]
        /\ pc' = [pc EXCEPT ![t] = "rel"]
        /\ UNCHANGED <<hash_lock, old>>
  <2>1. new = [Unused EXCEPT !.live = TRUE, !.init = TRUE, !.hashed = TRUE, !.lock = t]
    <3>0. Unused \in InCore BY DEF Unused, InCore
    <3>1. PICK a : a = [Unused EXCEPT !.live = TRUE] BY Zenon
    <3>2. a = Fields(TRUE, FALSE, FALSE, FALSE, None, 0, "none")
      <4>1. \A w : [Unused EXCEPT !.live = w] = Fields(w, FALSE, FALSE, FALSE, None, 0, "none")
        BY <3>0, FieldSet, Zenon DEF Unused
      <4>2. QED BY <3>1, <4>1, Zenon
    <3>3. PICK b : b = [a EXCEPT !.init = TRUE] BY Zenon
    <3>4. b = Fields(TRUE, TRUE, FALSE, FALSE, None, 0, "none")
      <4>1. a \in InCore BY <3>2 DEF InCore, Fields
      <4>2. b = Fields(a.live, TRUE, a.initwait, a.hashed, a.lock, a.refct, a.vnode)
        BY <3>3, <4>1, FieldSet, Zenon
      <4>3. QED BY <3>2, <4>2 DEF Fields
    <3>5. PICK c : c = [b EXCEPT !.hashed = TRUE] BY Zenon
    <3>6. c = Fields(TRUE, TRUE, FALSE, TRUE, None, 0, "none")
      <4>1. b \in InCore BY <3>4 DEF InCore, Fields
      <4>2. c = Fields(b.live, b.init, b.initwait, TRUE, b.lock, b.refct, b.vnode)
        BY <3>5, <4>1, FieldSet, Zenon
      <4>3. QED BY <3>4, <4>2 DEF Fields
    <3>7. [c EXCEPT !.lock = t] = new
      <4>1. c \in InCore BY <3>6 DEF InCore, Fields
      <4>2. [c EXCEPT !.lock = t] = Fields(c.live, c.init, c.initwait, c.hashed, t, c.refct, c.vnode)
        BY <4>1, FieldSet
      <4>3. QED BY <3>6, <4>2 DEF Fields
    <3>8. QED BY <3>1, <3>3, <3>5, <3>7, Zenon
  <2>2. QED BY <2>1, Zenon DEF Insert
<1>0. Types /\ InodeOK(o) /\ ThreadOK(t)
  BY DEF IInv
<1>2. Others(t)
  BY <1>0, <1>1 DEF Others, Types
<1>3. Types'
  <2>1. <<o>> \o chain \in Seq(Objs)
    BY <1>0 DEF Types
  <2>2. QED BY <1>0, <1>1, <2>1 DEF Types, InCore, Fields, Places
<1>4. ChainIsLive'
  <2>1. /\ Len(chain) \in Nat /\ DOMAIN chain = 1 .. Len(chain)
        /\ \A n \in 1 .. Len(chain) : chain[n] \in Objs
    BY <1>0, LenProperties, ElementOfSeq DEF Types
  <2>2. /\ DOMAIN chain' = 1 .. Len(chain) + 1
        /\ chain'[1] = o /\ \A n \in 1 .. Len(chain) : chain'[n + 1] = chain[n]
    BY <1>0, <1>1, <2>1 DEF Types
  <2>3. ~obj[o].hashed /\ \A n \in 1 .. Len(chain) : chain[n] # o
    <3>1. ~obj[o].hashed
      BY <1>0, <1>1 DEF InodeOK, Unused
    <3>2. QED BY <2>1, <3>1 DEF IInv, ChainIsLive
  <2>4. \A n \in DOMAIN chain' : n = 1 \/ (n - 1 \in 1 .. Len(chain) /\ chain'[n] = chain[n - 1])
    BY <2>1, <2>2
  <2>5. \A n, m \in DOMAIN chain' : n # m => chain'[n] # chain'[m]
    <3> SUFFICES ASSUME NEW n \in DOMAIN chain', NEW m \in DOMAIN chain', n # m, chain'[n] = chain'[m]
                 PROVE  FALSE
      OBVIOUS
    <3>1. CASE n = 1
      BY <2>1, <2>2, <2>3, <2>4, <3>1
    <3>2. CASE m = 1
      BY <2>1, <2>2, <2>3, <2>4, <3>2
    <3>3. CASE n # 1 /\ m # 1
      BY <2>1, <2>2, <2>4, <3>3 DEF IInv, ChainIsLive
    <3>4. QED BY <3>1, <3>2, <3>3
  <2>6. \A n \in DOMAIN chain' : obj'[chain'[n]].live
    BY <1>0, <1>1, <2>1, <2>2, <2>3, <2>4 DEF Types, Fields, IInv, ChainIsLive
  <2>7. ASSUME NEW p \in Objs PROVE obj'[p].hashed <=> \E n \in DOMAIN chain' : chain'[n] = p
    <3>1. CASE p = o
      BY <1>0, <1>1, <2>1, <2>2, <3>1 DEF Types, Fields
    <3>2. CASE p # o
      <4>1. obj'[p].hashed <=> \E n \in 1 .. Len(chain) : chain[n] = p
        BY <1>0, <1>1, <2>1, <3>2 DEF Types, IInv, ChainIsLive
      <4>2. (\E n \in 1 .. Len(chain) : chain[n] = p) <=> \E n \in DOMAIN chain' : chain'[n] = p
        <5>1. ASSUME NEW n \in 1 .. Len(chain) PROVE n + 1 \in DOMAIN chain' /\ chain'[n + 1] = chain[n]
          BY <2>1, <2>2
        <5>2. ASSUME NEW n \in DOMAIN chain', chain'[n] = p PROVE \E m \in 1 .. Len(chain) : chain[m] = p
          BY <2>2, <2>4, <3>2, <5>2
        <5>3. ASSUME NEW m \in 1 .. Len(chain), chain[m] = p PROVE \E n \in DOMAIN chain' : chain'[n] = p
          BY <5>1, <5>3
        <5>4. QED BY <5>2, <5>3
      <4>3. QED BY <4>1, <4>2
    <3>3. QED BY <3>1, <3>2
  <2>8. QED BY <2>5, <2>6, <2>7 DEF ChainIsLive
<1>5. ThreadOK(t)'
  BY <1>0, <1>1 DEF Types, ThreadOK, Fields, OnInode, Creating, Asleep
<1>6. InodeOK(o)'
  <2>1. Sleepers(o) = {} /\ t \notin Sleepers(o)'
    BY <1>0, <1>1 DEF Types, Sleepers, Asleep
  <2>2. Sleepers(o)' = {}
    BY <1>2, <2>1, SleepersStep
  <2>3. QED BY <1>0, <1>1, <2>2, FS_EmptySet DEF Types, InodeOK, Fields
<1>7. \A p \in Objs \ {o} : obj'[p] = obj[p] /\ (t \in Sleepers(p)' <=> t \in Sleepers(p))
  BY <1>0, <1>1 DEF Types, Sleepers, Asleep
<1>8. \A u \in Threads \ {t} : ip[u] # o /\ ip'[t] = o
  BY <1>0, <1>1 DEF Types
<1>9. QED BY <1>2, <1>3, <1>4, <1>5, <1>6, <1>7, <1>8, InodeStep

\* A step of t that changes inode o, without freeing it, taking it off the chain
\* or touching what i_refct counts, and moves t from one place of the creation to
\* another or out of it.
LEMMA CreatorStep ==
  ASSUME IInv, NEW t \in Threads, NEW o \in Objs, ip[t] = o, pc[t] \in Creating, Others(t),
         Types',
         \/ chain' = chain /\ (obj'[o].hashed <=> obj[o].hashed)
         \/ chain' = Without(o) /\ ~obj'[o].hashed,
         \A p \in Objs \ {o} : obj'[p] = obj[p],
         obj'[o].live, obj'[o].refct = obj[o].refct, ip'[t] = o,
         \/ pc'[t] \in Creating /\ obj'[o].init /\ obj'[o].vnode = "none"
         \/ pc'[t] = "have" /\ ~obj'[o].init /\ obj'[o].vnode = "active"
  PROVE  IInv'
<1>0. /\ Types /\ ThreadOK(t) /\ InodeOK(o)
      /\ obj[o].live /\ obj[o].init /\ obj[o].vnode = "none"
  BY DEF IInv, ThreadOK
<1>1. ChainIsLive'
  <2>1. CASE chain' = chain /\ (obj'[o].hashed <=> obj[o].hashed)
    BY <1>0, <2>1, SameChain
  <2>2. CASE chain' = Without(o) /\ ~obj'[o].hashed
    BY <2>2, RemovedChain
  <2>3. QED BY <2>1, <2>2
<1>2. \A p \in Objs : t \notin Sleepers(p) /\ t \notin Sleepers(p)'
  BY DEF Sleepers, Asleep, Creating
<1>3. InodeOK(o)'
  <2>1. Sleepers(o)' = Sleepers(o)
    BY <1>2, SleepersStep
  <2>2. QED BY <1>0, <2>1 DEF InodeOK
<1>4. ThreadOK(t)'
  BY DEF ThreadOK, OnInode, Creating, Asleep
<1>5. ASSUME NEW u \in Threads \ {t}, pc[u] \in OnInode, ip[u] = o PROVE ThreadOK(u)'
  <2>1. ThreadOK(u) /\ pc[u] \notin Changing
    BY <1>5 DEF IInv, OneChanger, Changing
  <2>2. QED BY <1>0, <1>5, <2>1, SMTT(30) DEF ThreadOK, Others, OnInode, Creating, Changing, Asleep
<1>6. \A u \in Threads \ {t} : pc[u] \in Changing => ip[u] # ip'[t]
  BY DEF IInv, OneChanger, Changing
<1>7. QED BY <1>1, <1>2, <1>3, <1>4, <1>5, <1>6, InodeStep, SMTT(30)

\* The thread that creates or reclaims an inode frees it once i_refct is 0.
LEMMA FreeStep ==
  ASSUME IInv, NEW t \in Threads, NEW o \in Objs, ip[t] = o, pc[t] \in Changing,
         ~(obj[o].refct > 0), chain' = Without(o), obj' = [obj EXCEPT ![o] = Unused],
         Return(t), UNCHANGED hash_lock
  PROVE  IInv'
<1>0. /\ Types /\ ThreadOK(t) /\ InodeOK(o) /\ obj[o].vnode # "active" /\ obj[o].refct \in Int
  BY DEF IInv, Types, InCore, ThreadOK, Changing
<1>1. Others(t)
  BY <1>0 DEF Types, Others, Return, Goto
<1>2. obj'[o] = Unused /\ ~obj'[o].hashed /\ \A p \in Objs \ {o} : obj'[p] = obj[p]
  BY <1>0 DEF Types, Unused
<1>3. chain' \in Seq(Objs) /\ ChainIsLive'
  BY <1>2, RemovedChain
<1>4. Types'
  BY <1>0, <1>3 DEF Types, InCore, Unused, Return, Goto, Places
<1>5. pc'[t] = "out" /\ ThreadOK(t)'
  BY <1>0 DEF Types, Return, Goto, ThreadOK, OnInode, Creating, Asleep
<1>6. \A p \in Objs : t \notin Sleepers(p) /\ t \notin Sleepers(p)'
  BY <1>5 DEF Sleepers, Asleep, Changing, Creating
<1>7. Sleepers(o) = {}
  <2>1. IsFiniteSet(Sleepers(o))
    BY FS_Subset DEF Sleepers
  <2>2. Cardinality(Sleepers(o)) = 0
    BY <1>0, <2>1, FS_CardinalityType DEF InodeOK
  <2>3. QED BY <2>1, <2>2, FS_EmptySet
<1>8. InodeOK(o)'
  <2>1. Sleepers(o)' = {}
    BY <1>1, <1>6, <1>7, SleepersStep
  <2>2. QED BY <1>2, <2>1, FS_EmptySet DEF InodeOK, Unused
<1>9. ASSUME NEW u \in Threads \ {t}, pc[u] \in OnInode, ip[u] = o PROVE ThreadOK(u)'
  <2>1. ThreadOK(u) /\ pc[u] \notin Changing
    BY <1>9 DEF IInv, OneChanger
  <2>2. pc[u] \notin Asleep
    BY <1>7, <1>9 DEF Sleepers
  <2>3. pc[u] # "have"
    BY <1>0, <1>9, <2>1 DEF ThreadOK
  <2>4. QED BY <1>1, <1>9, <2>1, <2>2, <2>3 DEF ThreadOK, Others, OnInode, Creating, Changing, Asleep
<1>10. pc'[t] \notin Changing
  BY <1>5 DEF Changing, Creating
<1>11. QED BY <1>1, <1>2, <1>3, <1>4, <1>5, <1>6, <1>8, <1>9, <1>10, InodeStep

\* Reading the inode; ext2_vinit unlocks it.
LEMMA ReadInodeInv ==
  ASSUME IInv, NEW t \in Threads, ReadInode(t)
  PROVE  IInv'
<1> USE DEF Goto
<1> PICK o : o = ip[t]
  OBVIOUS
<1> DEFINE r == obj[o]
<1>0. /\ Types /\ ThreadOK(t) /\ o \in Objs /\ pc[t] = "read" /\ r \in InCore
      /\ UNCHANGED <<chain, hash_lock, ip, old>>
      /\ r.live /\ r.init /\ r.vnode = "none"
  BY DEF IInv, ReadInode, ThreadOK, OnInode, Creating, Types
<1>1. PICK k \in Threads \cup {None} :
        /\ obj' = [obj EXCEPT ![o] = Fields(r.live, r.init, r.initwait, r.hashed, k, r.refct, r.vnode)]
        /\ \/ pc' = [pc EXCEPT ![t] = "irelse"]
           \/ pc' = [pc EXCEPT ![t] = "vcreate"]
  <2>1. CASE pc' = [pc EXCEPT ![t] = "irelse"] /\ obj' = obj
    <3>1. r = Fields(r.live, r.init, r.initwait, r.hashed, r.lock, r.refct, r.vnode)
      BY <1>0, Zenon DEF InCore, Fields
    <3>2. obj' = [obj EXCEPT ![o] = r] /\ r.lock \in Threads \cup {None}
      BY <1>0, <2>1 DEF Types, InCore
    <3>3. QED BY <2>1, <3>1, <3>2, Zenon
  <2>2. CASE pc' = [pc EXCEPT ![t] = "vcreate"] /\ obj' = [obj EXCEPT ![o].lock = None]
    <3>1. \A w : [r EXCEPT !.lock = w] = Fields(r.live, r.init, r.initwait, r.hashed, w, r.refct, r.vnode)
      BY <1>0, FieldSet, Zenon
    <3>2. obj' = [obj EXCEPT ![o] = [r EXCEPT !.lock = None]]
      BY <2>2, Zenon
    <3>3. QED BY <2>2, <3>1, <3>2, Zenon
  <2>3. QED BY <2>1, <2>2 DEF ReadInode
<1>2. Types' /\ Others(t)
  BY <1>0, <1>1, Zenon DEF Types, InCore, Fields, Places, Others
<1>3. /\ obj'[o].live /\ obj'[o].init /\ obj'[o].vnode = "none" /\ obj'[o].refct = obj[o].refct
      /\ (obj'[o].hashed <=> obj[o].hashed) /\ \A p \in Objs \ {o} : obj'[p] = obj[p]
  BY <1>0, <1>1 DEF Types, Fields
<1>4. pc'[t] \in Creating /\ pc[t] \in Creating /\ ip'[t] = o /\ chain' = chain
  BY <1>0, <1>1 DEF Types, Creating
<1>5. QED BY <1>0, <1>2, <1>3, <1>4, CreatorStep

\* vnode_create has returned: the vnode is set and IN_INIT cleared, or
\* ext2_vget_irelse follows.
LEMMA VnodeCreatedInv ==
  ASSUME IInv, NEW t \in Threads, VnodeCreated(t)
  PROVE  IInv'
<1> USE DEF Goto, WakeAndGoto
<1> PICK o : o = ip[t]
  OBVIOUS
<1> DEFINE r == obj[o]
<1>0. /\ Types /\ ThreadOK(t) /\ o \in Objs /\ pc[t] = "vcreate" /\ r \in InCore
      /\ UNCHANGED <<chain, hash_lock, ip, old>>
      /\ r.live /\ r.init /\ r.vnode = "none" /\ r.refct \in Int
  BY DEF IInv, VnodeCreated, ThreadOK, OnInode, Creating, Types, InCore
<1>1. CASE /\ obj' = [obj EXCEPT ![o] = Initialised(r)]
           /\ \/ WakeAndGoto(t, o, "i_flag", "have")
              \/ Goto(t, "have")
  <2>1. obj' = [obj EXCEPT ![o] = Fields(r.live, FALSE, FALSE, r.hashed, r.lock, r.refct, "active")]
    BY <1>0, <1>1, FieldsSet, Zenon
  <2>2. Types' /\ Others(t)
    <3>1. Others(t) /\ pc' \in [Threads -> Places]
      BY <1>0, <1>1 DEF Types, Places, Others
    <3>2. QED BY <1>0, <2>1, <3>1 DEF Types, InCore, Fields
  <2>3. /\ obj'[o].live /\ ~obj'[o].init /\ obj'[o].vnode = "active" /\ obj'[o].refct = obj[o].refct
        /\ (obj'[o].hashed <=> obj[o].hashed) /\ \A p \in Objs \ {o} : obj'[p] = obj[p]
    BY <1>0, <2>1 DEF Types, Fields
  <2>4. pc'[t] = "have" /\ pc[t] \in Creating /\ ip'[t] = o /\ chain' = chain
    BY <1>0, <1>1 DEF Types, Creating
  <2>5. QED BY <1>0, <2>2, <2>3, <2>4, CreatorStep
<1>2. CASE obj' = [obj EXCEPT ![o].lock = t] /\ Goto(t, "irelse")
  <2>1. obj' = [obj EXCEPT ![o] = Fields(r.live, r.init, r.initwait, r.hashed, t, r.refct, r.vnode)]
    <3>1. \A w : [r EXCEPT !.lock = w] = Fields(r.live, r.init, r.initwait, r.hashed, w, r.refct, r.vnode)
      BY <1>0, FieldSet, Zenon
    <3>2. obj' = [obj EXCEPT ![o] = [r EXCEPT !.lock = t]]
      BY <1>2, Zenon
    <3>3. QED BY <3>1, <3>2, Zenon
  <2>2. Types' /\ Others(t)
    BY <1>0, <1>2, <2>1 DEF Types, InCore, Fields, Places, Others
  <2>3. /\ obj'[o].live /\ obj'[o].init /\ obj'[o].vnode = "none" /\ obj'[o].refct = obj[o].refct
        /\ (obj'[o].hashed <=> obj[o].hashed) /\ \A p \in Objs \ {o} : obj'[p] = obj[p]
    BY <1>0, <2>1 DEF Types, Fields
  <2>4. pc'[t] \in Creating /\ pc[t] \in Creating /\ ip'[t] = o /\ chain' = chain
    BY <1>0, <1>2 DEF Types, Creating
  <2>5. QED BY <1>0, <2>2, <2>3, <2>4, CreatorStep
<1>3. QED BY <1>1, <1>2, Zenon DEF VnodeCreated

\* ext2_vget_irelse: off the chain, then a round of the wait or the end of it.
LEMMA IrelseInv ==
  ASSUME IInv, NEW t \in Threads, Irelse(t)
  PROVE  IInv'
<1> USE DEF Goto, WakeAndGoto
<1> PICK o : o = ip[t]
  OBVIOUS
<1> DEFINE r == obj[o]
           removed == [r EXCEPT !.hashed = FALSE, !.lock = None]
<1>0. /\ Types /\ ThreadOK(t) /\ o \in Objs /\ pc[t] = "irelse" /\ r \in InCore
      /\ chain' = Without(o) /\ hash_lock' = hash_lock
      /\ r.live /\ r.init /\ r.vnode = "none" /\ r.refct \in Int
  BY DEF IInv, Irelse, ThreadOK, OnInode, Creating, Types, InCore
<1>1. CASE /\ \/ obj' = [obj EXCEPT ![o] = [removed EXCEPT !.initwait = FALSE]] /\ WakeAndGoto(t, o, "i_flag", "irelse")
              \/ obj' = [obj EXCEPT ![o] = removed] /\ UNCHANGED pc
           /\ UNCHANGED <<ip, old>>
  <2>1. PICK w \in BOOLEAN : obj' = [obj EXCEPT ![o] = Fields(r.live, r.init, w, FALSE, None, r.refct, r.vnode)]
    <3>1. r.initwait \in BOOLEAN
      BY <1>0 DEF InCore
    <3>2. /\ removed = Fields(r.live, r.init, r.initwait, FALSE, None, r.refct, r.vnode)
          /\ [removed EXCEPT !.initwait = FALSE] = Fields(r.live, r.init, FALSE, FALSE, None, r.refct, r.vnode)
      BY <1>0, FieldsSet, Zenon
    <3>3. QED BY <1>1, <3>1, <3>2, Zenon
  <2>2. /\ obj'[o].live /\ obj'[o].init /\ obj'[o].vnode = "none" /\ obj'[o].refct = obj[o].refct
        /\ ~obj'[o].hashed /\ \A p \in Objs \ {o} : obj'[p] = obj[p]
    BY <1>0, <2>1 DEF Types, Fields
  <2>3. chain' \in Seq(Objs)
    BY <1>0, <2>2, RemovedChain
  <2>4. Others(t) /\ pc' \in [Threads -> Places] /\ pc'[t] = "irelse" /\ ip' = ip /\ old' = old
    BY <1>0, <1>1 DEF Types, Places, Others
  <2>5. Types'
    BY <1>0, <2>1, <2>3, <2>4 DEF Types, InCore, Fields
  <2>6. pc'[t] \in Creating /\ pc[t] \in Creating /\ ip'[t] = o
    BY <1>0, <2>4 DEF Creating
  <2>7. QED BY <1>0, <2>2, <2>4, <2>5, <2>6, CreatorStep
<1>2. CASE ~(r.refct > 0) /\ obj' = [obj EXCEPT ![o] = Unused] /\ Return(t)
  BY <1>0, <1>2, FreeStep, Zenon DEF Changing, Creating
<1>3. QED BY <1>1, <1>2, Zenon DEF Irelse

\* The VFS reclaims a vnode.
LEMMA StartReclaimInv ==
  ASSUME IInv, NEW t \in Threads, StartReclaim(t)
  PROVE  IInv'
<1> USE DEF Goto
<1>1. PICK o \in Objs :
        /\ pc[t] = "out" /\ obj[o].vnode = "active"
        /\ \A u \in Threads : ~(pc[u] = "have" /\ ip[u] = o)
        /\ obj' = [obj EXCEPT ![o].vnode = "dying"]
        /\ ip' = [ip EXCEPT ![t] = o]
        /\ pc' = [pc EXCEPT ![t] = "reclaim"]
        /\ UNCHANGED <<chain, hash_lock, old>>
  BY Zenon DEF StartReclaim
<1> DEFINE r == obj[o]
<1>0. Types /\ InodeOK(o) /\ r \in InCore /\ ~r.init
  BY <1>1 DEF IInv, Types, InodeOK
<1>2. obj' = [obj EXCEPT ![o] = Fields(r.live, r.init, r.initwait, r.hashed, r.lock, r.refct, "dying")]
  <2>1. \A w : [r EXCEPT !.vnode = w] = Fields(r.live, r.init, r.initwait, r.hashed, r.lock, r.refct, w)
    BY <1>0, FieldSet
  <2>2. obj' = [obj EXCEPT ![o] = [r EXCEPT !.vnode = "dying"]]
    BY <1>1, Zenon
  <2>3. QED BY <2>1, <2>2, Zenon
<1>3. Types' /\ Others(t)
  <2>1. Others(t) /\ pc' \in [Threads -> Places] /\ ip' \in [Threads -> Objs \cup {None}]
    BY <1>0, <1>1 DEF Types, Places, Others
  <2>2. obj' \in [Objs -> InCore]
    BY <1>0, <1>2 DEF Types, InCore, Fields
  <2>3. QED BY <1>0, <1>1, <2>1, <2>2 DEF Types
<1>4. /\ (obj'[o].live <=> r.live) /\ (obj'[o].init <=> r.init) /\ (obj'[o].hashed <=> r.hashed)
      /\ obj'[o].refct = r.refct /\ obj'[o].vnode = "dying" /\ \A p \in Objs \ {o} : obj'[p] = obj[p]
  BY <1>0, <1>2 DEF Types, Fields
<1>5. ChainIsLive'
  BY <1>1, <1>4, SameChain
<1>6. \A p \in Objs : t \notin Sleepers(p) /\ t \notin Sleepers(p)'
  BY <1>0, <1>1 DEF Types, Sleepers, Asleep
<1>7. r.live
  BY <1>0, <1>1 DEF InodeOK, Unused
<1>8. InodeOK(o)'
  <2>1. Sleepers(o)' = Sleepers(o)
    BY <1>3, <1>6, SleepersStep
  <2>2. QED BY <1>0, <1>4, <1>7, <2>1 DEF InodeOK
<1>9. ThreadOK(t)'
  BY <1>0, <1>1, <1>4 DEF Types, ThreadOK, OnInode, Creating, Asleep
<1>10. ASSUME NEW u \in Threads \ {t}, pc[u] \in OnInode, ip[u] = o
       PROVE  ThreadOK(u)' /\ pc[u] \notin Changing
  <2>1. ThreadOK(u) /\ pc[u] # "have"
    BY <1>1, <1>10 DEF IInv
  <2>2. pc[u] \notin Changing
    BY <1>1, <1>10, <2>1 DEF ThreadOK, Changing
  <2>3. QED BY <1>3, <1>4, <1>7, <1>10, <2>1, <2>2 DEF ThreadOK, Others, OnInode, Creating, Changing, Asleep
<1>11. \A u \in Threads \ {t} : pc[u] \in Changing => ip[u] # ip'[t]
  BY <1>0, <1>1, <1>10 DEF Types, Changing, OnInode
<1>12. QED BY <1>3, <1>4, <1>5, <1>6, <1>8, <1>9, <1>10, <1>11, InodeStep

\* ext2_reclaim: off the chain, then the wait for i_refct, then the inode is freed.
LEMMA ReclaimInv ==
  ASSUME IInv, NEW t \in Threads, Reclaim(t)
  PROVE  IInv'
<1> PICK o : o = ip[t]
  OBVIOUS
<1> DEFINE r == obj[o]
<1>0. /\ Types /\ ThreadOK(t) /\ o \in Objs /\ pc[t] = "reclaim" /\ r \in InCore /\ InodeOK(o)
      /\ chain' = Without(o) /\ hash_lock' = hash_lock
  BY DEF IInv, Reclaim, ThreadOK, OnInode, Types
<1>1. CASE r.refct > 0 /\ obj' = [obj EXCEPT ![o].hashed = FALSE] /\ UNCHANGED <<pc, ip, old>>
  <2>1. obj' = [obj EXCEPT ![o] = Fields(r.live, r.init, r.initwait, FALSE, r.lock, r.refct, r.vnode)]
    <3>1. \A w : [r EXCEPT !.hashed = w] = Fields(r.live, r.init, r.initwait, w, r.lock, r.refct, r.vnode)
      BY <1>0, FieldSet
    <3>2. obj' = [obj EXCEPT ![o] = [r EXCEPT !.hashed = FALSE]]
      BY <1>1, Zenon
    <3>3. QED BY <3>1, <3>2, Zenon
  <2>2. /\ (obj'[o].live <=> r.live) /\ (obj'[o].init <=> r.init) /\ ~obj'[o].hashed
        /\ obj'[o].refct = r.refct /\ obj'[o].vnode = r.vnode /\ \A p \in Objs \ {o} : obj'[p] = obj[p]
    BY <1>0, <2>1, SMTT(30) DEF Types, Fields
  <2>3. chain' \in Seq(Objs) /\ ChainIsLive'
    BY <1>0, <2>2, RemovedChain
  <2>4. Types' /\ Others(t)
    <3>1. obj' \in [Objs -> InCore]
      BY <1>0, <2>1 DEF Types, InCore, Fields
    <3>2. QED BY <1>0, <1>1, <2>3, <3>1 DEF Types, Others
  <2>5. \A p \in Objs : Sleepers(p)' = Sleepers(p)
    BY <1>1 DEF Sleepers
  <2>6. r.live
    BY <1>0 DEF ThreadOK, InodeOK, Unused
  <2>7. InodeOK(o)'
    BY <1>0, <2>2, <2>5, <2>6 DEF InodeOK
  <2>8. ASSUME NEW u \in Threads, pc[u] \in OnInode, ip[u] = o PROVE ThreadOK(u)'
    <3>1. ThreadOK(u)
      BY DEF IInv
    <3>2. QED BY <1>1, <2>2, <2>6, <2>8, <3>1 DEF ThreadOK
  <2>9. ThreadOK(t)'
    BY <1>0, <2>8 DEF OnInode
  <2>10. \A u \in Threads \ {t} : pc[u] \in Changing => ip[u] # ip'[t]
    BY <1>0, <1>1 DEF IInv, OneChanger, Changing
  <2>11. QED BY <1>0, <2>2, <2>3, <2>4, <2>5, <2>7, <2>8, <2>9, <2>10, InodeStep
<1>2. CASE ~(r.refct > 0) /\ obj' = [obj EXCEPT ![o] = Unused] /\ Return(t)
  BY <1>0, <1>2, FreeStep, Zenon DEF Changing
<1>3. QED BY <1>1, <1>2, Zenon DEF Reclaim

\* A step of any thread.
LEMMA NextInv == IInv /\ [Next]_vars => IInv'
<1> SUFFICES ASSUME IInv, [Next]_vars PROVE IInv'
  OBVIOUS
<1>1. CASE UNCHANGED vars
  BY <1>1 DEF vars, IInv, Types, ChainIsLive, OneChanger, InodeOK, ThreadOK, Sleepers
<1>2. ASSUME NEW t \in Threads, Vget(t) \/ Put(t) \/ StartReclaim(t) \/ Step(t) PROVE IInv'
  BY <1>2, QuietInv, AwaitInitInv, InsertInv, ReadInodeInv, VnodeCreatedInv, IrelseInv, StartReclaimInv,
     ReclaimInv DEF Step
<1>3. QED BY <1>1, <1>2 DEF Next
-----------------------------------------------------------------------------
(***************************************************************************)
(* The theorems.                                                           *)
(***************************************************************************)

\* The strengthened invariant holds in every reachable state.
THEOREM Invariance == Spec => []IInv
<1>1. Init => IInv
  BY InitInv
<1>2. IInv /\ [Next]_vars => IInv'
  BY NextInv
<1>3. QED BY <1>1, <1>2, PTL DEF Spec

\* For any number of threads i_refct stays between 0 and their number, although
\* ext2_hash_get, ext2_vget_irelse and ext2_reclaim change it with the lock dropped
\* in between, and the chain never outgrows the inodes.
THEOREM TypeCorrect == Spec => []TypeOK
<1>1. IInv => TypeOK
  BY TypesBounded
<1>2. QED BY <1>1, Invariance, PTL

\* What ext2_vget hands to its caller has been initialised by whoever created it,
\* is allocated, and is not being reclaimed as long as it is held.
THEOREM VgetReturnsReady == Spec => []ReturnedIsReady
<1>1. IInv => ReturnedIsReady
  <2> SUFFICES ASSUME IInv, NEW t \in Threads, pc[t] = "have"
               PROVE  obj[ip[t]].live /\ ~obj[ip[t]].init /\ obj[ip[t]].vnode = "active"
    BY DEF ReturnedIsReady
  <2>1. ip[t] \in Objs /\ obj[ip[t]].vnode = "active"
    BY DEF IInv, ThreadOK, OnInode
  <2>2. InodeOK(ip[t])
    BY <2>1 DEF IInv
  <2>3. QED BY <2>1, <2>2 DEF InodeOK, Unused
<1>2. QED BY <1>1, Invariance, PTL

\* The waits for i_refct in ext2_vget_irelse and ext2_reclaim keep an inode
\* allocated under every thread that sleeps in ext2_hash_get.
THEOREM SleepersSafe == Spec => []SleeperKeepsInode
<1>1. IInv => SleeperKeepsInode
  BY DEF IInv, ThreadOK, Asleep, SleeperKeepsInode
<1>2. QED BY <1>1, Invariance, PTL

\* ext2_hash_insert and ext2_hash_remove keep the chain exact: the inodes with
\* IN_HASHED, once each, and none that has been freed.
THEOREM ChainExact == Spec => []ChainIsLive
<1>1. IInv => ChainIsLive
  BY DEF IInv
<1>2. QED BY <1>1, Invariance, PTL
=============================================================================
