---------------------------- MODULE MCLocalReads ----------------------------
(* The instances of MCCacheSync, for the commands that read the cache.      *)
EXTENDS MCCacheSync, LocalReads
=============================================================================
