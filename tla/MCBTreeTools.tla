---------------------------- MODULE MCBTreeTools ----------------------------
(* Two trees, of two and of three levels, on a disk of eight blocks.      *)
EXTENDS BTreeTools

CONSTANTS u, v

Super == EmptyNode("SUPERBLOCK")
Other == EmptyNode("UNALLOCATED")
Inner(type, keys, ptrs) ==
    [nodetype |-> type, rootnode |-> 1, key |-> keys, ptr |-> ptrs, val |-> <<>>]
Leaf(keys, vals) ==
    [nodetype |-> "LEAF", rootnode |-> 1, key |-> keys, ptr |-> <<0>>, val |-> vals]

Disk(nodes) == [b \in Device |-> IF b = 0 THEN Super
                                 ELSE IF b \in DOMAIN nodes THEN nodes[b] ELSE Other]
Labels(keys) == [b \in Device |-> IF b \in DOMAIN keys THEN keys[b] ELSE {}]

\* Keys 1 and 2 begin alike, and so do 3 and 4.
Flat == [
    node |-> Disk(<<Inner("ROOT", <<2>>, <<2, 3>>),
                    Leaf(<<1, 2>>, <<u, v>>), Leaf(<<4>>, <<u>>)>>),
    below |-> Labels(<<{1, 2, 4}, {1, 2}, {4}>>)]

Deep == [
    node |-> Disk(<<Inner("ROOT", <<2>>, <<2, 3>>),
                    Inner("INTERIOR", <<1>>, <<4, 5>>),
                    Inner("INTERIOR", <<3>>, <<6, 7>>),
                    Leaf(<<1>>, <<u>>), Leaf(<<2>>, <<v>>),
                    Leaf(<<3>>, <<u>>), Leaf(<<4>>, <<v>>)>>),
    below |-> Labels(<<{1, 2, 3, 4}, {1, 2}, {3, 4}, {1}, {2}, {3}, {4}>>)]

MCTrees == {Flat, Deep}

Whole(k) == [lo |-> k, hi |-> k, exact |-> TRUE]
MCArgs == {Whole(k) : k \in 0 .. 5} \cup
          {[lo |-> 1, hi |-> 2, exact |-> FALSE], [lo |-> 3, hi |-> 3, exact |-> FALSE]}
=============================================================================
