---------------------------- MODULE MCNodeLayout ----------------------------
(* Headers and pointers of one byte, in words of five values.              *)
EXTENDS NodeLayout

Of(k, v, b) == [keysize |-> k, valuesize |-> v, blocksize |-> b]

\* A slot of each kind; two keys in a leaf; two values in a leaf, and three
\* pointers; no keys and no values; no room for the pointer; none for the
\* header; and entries whose length wraps, in a leaf to one byte.
MCSizes == {Of(1, 1, 4), Of(1, 0, 4), Of(0, 1, 4), Of(0, 0, 2), Of(1, 1, 1),
            Of(1, 1, 0), Of(2, 4, 3)}
=============================================================================
