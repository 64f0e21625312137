----------------------------- MODULE FileStore ------------------------------
(***************************************************************************)
(* What the filesystem service promises the clients of one server: the     *)
(* files they see change in whole steps.  An upload appears all at once or *)
(* not at all, an append extends what the file holds at that moment, and a *)
(* rename replaces nothing.  It promises this of the names that are not    *)
(* temporary files', as long as no directory is renamed, and no client     *)
(* renames or appends to a temporary file.                                 *)
(***************************************************************************)
EXTENDS Sequences

CONSTANTS Paths,            \* the paths of files
          Uploads,          \* what one upload adds to a file
          None

VARIABLES tree,             \* the uploads that make up each file, None if absent
          disturbed         \* one of these has happened

vars == <<tree, disturbed>>

Init ==
    /\ tree \in [Paths -> {None} \cup {<<u>> : u \in Uploads}]
    /\ disturbed = FALSE

Store(x, u) == tree' = [tree EXCEPT ![x] = <<u>>]

Extend(x, u) ==
    /\ tree[x] # None
    /\ tree' = [tree EXCEPT ![x] = Append(@, u)]

Delete(x) == tree' = [tree EXCEPT ![x] = None]

Rename(x, y) ==
    /\ tree[x] # None /\ tree[y] = None
    /\ tree' = [tree EXCEPT ![x] = None, ![y] = tree[x]]

Change ==
    /\ tree' # tree
    /\ \/ \E x \in Paths, u \in Uploads : Store(x, u) \/ Extend(x, u)
       \/ \E x \in Paths : Delete(x)
       \/ \E x, y \in Paths : Rename(x, y)

Next == disturbed' \/ (Change /\ UNCHANGED disturbed)

Spec == Init /\ [][Next]_vars
=============================================================================
