--------------------------- MODULE MCBufferCache ---------------------------
(* The buffer cache on a small device: see MCBufferCache.cfg.              *)
EXTENDS BufferCache

CONSTANTS v1, v2

MCValues == {v1, v2}
MCBlocks == 0 .. NumBlocks     \* the last one is past the end of the device
MCCacheSizes == {0, 1, 2}
=============================================================================
