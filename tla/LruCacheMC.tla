----------------------------- MODULE LruCacheMC -----------------------------
(* Instances of LruCache with the tables make_cache generates. *)
EXTENDS LruCache, MakeCache

Fsm2 == CacheFsm(2)
Fsm4 == CacheFsm(4)
=============================================================================
