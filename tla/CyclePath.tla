----------------------------- MODULE CyclePath -----------------------------
(* The normal form of a path (race/path.py): a walk is folded, item by      *)
(* item, into a list of nodes, which are points or cycles of nodes, and a   *)
(* cycle is walked once.  What is read off a node, its walk and the nodes   *)
(* it begins with, is a field of it, since a node never changes.            *)
EXTENDS Naturals, SequencesExt

\* A walk goes on from where it is: an item is not walked twice in a row.
Join(s, t) ==
    IF s # <<>> /\ t # <<>> /\ Last(s) = Head(t) THEN s \o Tail(t) ELSE s \o t

Walk(nodes) ==
    LET walk[n \in 0 .. Len(nodes)] ==
            IF n = 0 THEN <<>> ELSE Join(walk[n - 1], nodes[n].norm)
    IN walk[Len(nodes)]

Point(v) == [value |-> v, norm |-> <<v>>]
IsPoint(node) == "value" \in DOMAIN node

Heads(node) == IF IsPoint(node) THEN {node} ELSE node.heads

\* A cycle is walked from its head back to its head.
Cycle(nodes) ==
    [between |-> nodes,
     norm |-> Join(Walk(nodes), nodes[1].norm),
     heads |-> {nodes[1]} \cup Heads(nodes[1])]

Last0(S) == Max({0} \cup S)

\* A cycle matches by what it begins with, not by itself.
LastMatchingIndex(items, node) ==
    Last0({i \in DOMAIN items : node \in Heads(items[i])})

LastEqualIndex(items, node) == Last0({i \in DOMAIN items : items[i] = node})

\* A bug one could write: the cycle takes the place of the one it follows.
PutOver(items, node) ==
    LET match == LastMatchingIndex(items, node)
    IN IF match = 0 THEN Append(items, node) ELSE SubSeq(items, 1, match)

\* The root while put is under way: its items, and the node still to be put.
Settled(items) == [items |-> items, node |-> <<>>]
Pending(items, node) == [items |-> items, node |-> <<node>>]

(***************************************************************************)
(* One turn of put.  A node that is new is appended.  One that an item      *)
(* begins with closes a cycle over the items since; if that cycle is the    *)
(* one just walked it is dropped, otherwise it is itself a node to be put.  *)
(***************************************************************************)
Turn(items, node) ==
    LET match == LastMatchingIndex(items, node)
        before == SubSeq(items, 1, IF IsPoint(items[match]) THEN match - 1 ELSE match)
        cycle == Cycle(<<node>> \o SubSeq(items, match + 1, Len(items)))
        same == LastEqualIndex(before, cycle)
    IN CASE match = 0 -> Settled(Append(items, node))
         [] match = Len(items) /\ match # 0 -> Settled(items)
         [] match \notin {0, Len(items)} ->
                IF same = 0 THEN Pending(before, cycle)
                ELSE IF same = Len(before) THEN Settled(before)
                ELSE Pending(SubSeq(before, 1, same - 1),
                             Cycle(SubSeq(before, same, Len(before))))

\* Every turn that leaves a node to be put leaves fewer items.
Put(items, node) ==
    LET Go(root) == IF root.node = <<>> THEN root ELSE Turn(root.items, root.node[1])
        root[n \in 0 .. Len(items) + 1] ==
            IF n = 0 THEN Pending(items, node) ELSE Go(root[n - 1])
    IN root[Len(items) + 1].items

FromPath(path) ==
    LET items[n \in 0 .. Len(path)] ==
            IF n = 0 THEN <<>> ELSE Put(items[n - 1], Point(path[n]))
    IN items[Len(path)]

Norm(path) == Walk(FromPath(path))
=============================================================================
