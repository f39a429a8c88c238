---------------------------- MODULE MCDiskSystem ----------------------------
(* Small disks whose addresses wrap at three: see MCDiskSystem.cfg.       *)
EXTENDS DiskSystem

Disk(blocks, size, heads, sectors, tracks, latency, stem) ==
    [numblocks |-> blocks, blocksize |-> size, numheads |-> heads,
     blockspertrack |-> sectors, numtracks |-> tracks,
     latency |-> latency, stem |-> stem]

\* Blocks that overlap in part where an address wraps, and wait for each other;
\* blocks that never do, on two tracks; no block; a latency, with a product
\* that wraps around, and stems that do not survive.
MCConfigs == {
    Disk(2, 2, 1, 2, 1, "normal", "fits"),
    Disk(2, 1, 1, 1, 2, "normal", "fits"),
    Disk(0, 1, 0, 0, 0, "normal", "fits"),
    Disk(2, 1, 2, 2, 2, "tiny", "fits"),
    Disk(2, 1, 1, 1, 2, "normal", "overlong"),
    Disk(2, 0, 2, 1, 1, "normal", "overlong")}
=============================================================================
