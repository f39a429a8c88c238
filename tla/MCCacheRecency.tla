--------------------------- MODULE MCCacheRecency ---------------------------
(* The replacement policy on a small device: see the MCCacheRecency*.cfg.   *)
EXTENDS CacheRecency

CONSTANTS v1

MCValues == {v1}
OnDeviceBlocks == 0 .. NumBlocks - 1
OneStrayBlock == 0 .. NumBlocks
MCCacheSizes == {0, 1, 2, 3}
=============================================================================
