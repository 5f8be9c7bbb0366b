---------------------------- MODULE MCRedisClone ----------------------------
(***************************************************************************)
(* RedisClone for TLC: the pods of a cluster agree, or they differ.        *)
(***************************************************************************)
EXTENDS RedisClone

AgreeOrDiffer == {{r} : r \in Report} \cup {Report \cup {NoReport}}
=============================================================================
