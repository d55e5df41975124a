----------------------------- MODULE MCFileTree -----------------------------
(***************************************************************************)
(* Filesystem implements FileTree.  The entry of a node is found by        *)
(* following the parent indices to the root, which the first assignment of *)
(* a move changes for a whole subtree at once; the cached paths catch up   *)
(* later.  A file that its command has created and not yet written is not  *)
(* there yet.                                                              *)
(***************************************************************************)
EXTENDS Filesystem

MCNames   == {"a", "b"}
MCBytes   == {"x"}
MCTexts   == {<<"x">>, <<"x", "x">>}
MCLines   == {<<"x">>}
MCWelcome == <<"x">>

\* For each slot the names on the way to it from the root, or from the slot k
\* steps above it.
TruePath[k \in Nat] ==
    [i \in Slots |->
        IF k = 0 \/ i = Root THEN << >>
        ELSE Append(TruePath[k - 1][nodes[i].parent], nodes[i].name)]

PathOf == TruePath[NumSlots]

EntryOf == [i \in Slots |-> [type |-> nodes[i].type, data |-> nodes[i].data]]

Unwritten(i) == pending # NoWrite /\ FileAt(i, pending[1])

Shown == {i \in Slots : InUse(i) /\ Rooted(i) /\ ~Unwritten(i)}

\* The map from the paths of the slots of S to their entries.
MapOf(S, path, entry) ==
    [p \in {path[i] : i \in S} |-> entry[CHOOSE i \in S : path[i] = p]]

TreeOf == MapOf(Shown, PathOf, EntryOf)

\* The rebuild under way is one that cannot end well.
Doomed ==
    /\ frames # << >>
    /\ \E i \in Slots : InUse(i) /\ (~Rooted(i) \/ Len(PathOf[i]) > MaxPath)

Promise == INSTANCE FileTree WITH
               tree <- TreeOf, cwd <- current_dir, lost <- overrun \/ Doomed

\* Every command of the code acts on the tree of files as FileTree promises,
\* in one step and all or nothing, whatever the table looks like inside.
ImplementsFileTree == Promise!Spec
=============================================================================
