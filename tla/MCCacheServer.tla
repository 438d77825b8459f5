---------------------------- MODULE MCCacheServer ----------------------------
(* Values for CacheServer's constants that a cfg cannot write. *)
EXTENDS CacheServer

AllOps == {"get", "put", "delete", "increment", "seqdelete", "stats"}
=============================================================================
