------------------------------ MODULE Directory ------------------------------
(***************************************************************************)
(* What a directory promises its callers: a partial map from names to      *)
(* inode numbers.  A caller looks a name up and may then ask for it to be  *)
(* entered, rewritten or removed; that name changes once, or not at all,   *)
(* and no other name does.  A rename asks for two changes, one after the   *)
(* other: the new name, and then the removal of the old one.               *)
(***************************************************************************)
CONSTANTS Names,    \* names an entry may have (other than "." and "..")
          Inodes,   \* inode numbers an entry may hold
          Threads,  \* callers of the directory's operations
          None

VARIABLES entries,  \* entries[n]: the inode n names, None when n is free
          ask,      \* ask[t]: the change t is about to make, None when there is none
          res       \* res[t]: what t's last look-up returned

Init == /\ entries = [n \in Names |-> None]
        /\ ask = [t \in Threads |-> None]
        /\ res = [t \in Threads |-> None]

(* A look-up answers with what the name holds at that moment; a change can *)
(* be asked for that suits the answer.                                     *)
Look(t, n) ==
    /\ ask[t] = None
    /\ res' = [res EXCEPT ![t] = entries[n]]
    /\ \/ UNCHANGED ask
       \/ \E op \in IF entries[n] = None THEN {"enter"} ELSE {"rewrite", "remove"},
             then \in (Names \ {n}) \cup {None} :
             /\ op = "remove" => then = None
             /\ ask' = [ask EXCEPT ![t] = [op |-> op, name |-> n, then |-> then]]
    /\ UNCHANGED entries

(* The change asked for: only a free name is entered, only a name in use   *)
(* rewritten or removed.                                                   *)
Change(t, new) ==
    /\ ask[t] # None
    /\ (entries[ask[t].name] = None) <=> (ask[t].op = "enter")
    /\ (new = None) <=> (ask[t].op = "remove")
    /\ entries' = [entries EXCEPT ![ask[t].name] = new]
    /\ ask' = [ask EXCEPT ![t] =
                 IF @.then = None THEN None
                 ELSE [op |-> "remove", name |-> @.then, then |-> None]]
    /\ UNCHANGED res

(* It fails, or the caller gives up. *)
Fail(t) ==
    /\ ask[t] # None
    /\ ask' = [ask EXCEPT ![t] = None]
    /\ UNCHANGED <<entries, res>>

Next == \E t \in Threads : \/ \E n \in Names : Look(t, n)
                           \/ \E new \in Inodes \cup {None} : Change(t, new)
                           \/ Fail(t)

Spec == Init /\ [][Next]_<<entries, ask, res>>
=============================================================================
