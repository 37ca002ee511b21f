---------------------------- MODULE MCNamespace ----------------------------
EXTENDS Namespace, TLC

CONSTANTS r, i1, i2, i3, a, b, t1, t2

MCInodes == {r, i1, i2, i3}
MCPair == {r, i1, i2}
MCNames == {a, b}
MCThreads == {t1, t2}

(* What no property can tell apart: which blocks are written, the mark of  *)
(* an inode that has the count it was copied with, and the copy of an inode*)
(* that has no name and gets none before it is copied again (free, leaked),*)
(* or of the root.                                                         *)
Seen == {i \in Inodes \ ({Root} \cup leaked) : kind[i] # "free"}
Unwritten == <<kind, nlink, {i \in Seen \cap modified : dinode[i] # nlink[i]},
               [i \in Seen |-> dinode[i]],
               unsaved, dirVars, renaming, look, leaked, th, damaged, panic>>

(* Bounds: one inode at most is a device or has leaked, and when an        *)
(* operation begins the inodes that none uses have been copied.            *)
OneApart == Cardinality(leaked \cup {i \in Inodes : kind[i] = "dev"}) <= 1
Copied ==
    (\E t \in Threads : th[t].pc = "idle" /\ th'[t].pc # "idle")
    => \A i \in Seen \ Held : dinode[i] = nlink[i]

MCSymmetry == Permutations({i1, i2, i3}) \cup Permutations({a, b})
              \cup Permutations({t1, t2})
=============================================================================
