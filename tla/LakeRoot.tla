------------------------------ MODULE LakeRoot ------------------------------
(***************************************************************************)
(* The pool lifecycle of a lake Root (lake/root.go): CreatePool,           *)
(* RemovePool, RenamePool and OpenPool, run by concurrent callers that     *)
(* share three things:                                                     *)
(*   - the pools config store, a journal-backed key/value store keyed by   *)
(*     the pool name (pools.Config.Key returns Name); each of its          *)
(*     operations appends one journal entry and is atomic;                 *)
(*   - the pool byte trees in the object store (lake.CreatePool writes     *)
(*     one, lake.RemovePool deletes one);                                  *)
(*   - the process-local pool cache (poolCache, an ARC cache of *Pool).    *)
(* Every call a handler makes to one of these is one step, so other        *)
(* callers interleave between the calls exactly as goroutines do.          *)
(***************************************************************************)
EXTENDS Naturals, FiniteSets

CONSTANTS
    Callers,    \* goroutines calling Root methods concurrently
    Names,      \* pool names a caller may pass
    HEAD,       \* the reserved name "HEAD", a member of Names
    RenameNames, \* the new names RenamePool callers pass
    MaxIds,     \* bound on the pool ids ksuid.New may hand out
    None        \* "no value": an empty cache slot, a caller holding no config

(* Pool ids: ksuid.New never returns the same id twice. *)
Ids == 1..MaxIds

(* A pools.Config, abstracted to the two fields the lifecycle reads. *)
Config == [id : Ids, name : Names]

ASSUME RootAssumption ==
    /\ HEAD \in Names
    /\ RenameNames \subseteq Names
    /\ MaxIds \in Nat
    /\ None \notin Config

VARIABLES
    pools,      \* the live entries of the pools config store
    storage,    \* ids of the pools whose byte tree exists in the object store
    poolCache,  \* poolCache: id -> config of the cached *Pool, or None
    nextId,     \* the next id ksuid.New returns
    pc,         \* where each caller is in its current Root method
    cfg         \* the pools.Config each caller holds

vars == <<pools, storage, poolCache, nextId, pc, cfg>>

PC == {"idle",
       "cp_create", "cp_open", "cp_add", "cp_cleanup",   \* CreatePool
       "rp_remove", "rp_uncache", "rp_delete",           \* RemovePool
       "op_get", "op_open", "op_add"}                    \* OpenPool

TypeOK ==
    /\ pools \in SUBSET Config
    /\ storage \in SUBSET Ids
    /\ poolCache \in [Ids -> Config \cup {None}]
    /\ nextId \in 1..(MaxIds + 1)
    /\ pc \in [Callers -> PC]
    /\ cfg \in [Callers -> Config \cup {None}]

(* pools.Store.LookupByName / LookupByID: the live entry, if any. *)
NameTaken(n) == \E p \in pools : p.name = n
IdLive(i) == \E p \in pools : p.id = i

Init ==
    /\ pools = {}
    /\ storage = {}
    /\ poolCache = [i \in Ids |-> None]
    /\ nextId = 1
    /\ pc = [c \in Callers |-> "idle"]
    /\ cfg = [c \in Callers |-> None]

Goto(c, s) == pc' = [pc EXCEPT ![c] = s]

Finish(c) == /\ Goto(c, "idle")
             /\ cfg' = [cfg EXCEPT ![c] = None]

-----------------------------------------------------------------------------
(* CreatePool: the name checks, then pools.NewConfig, which draws a fresh  *)
(* ksuid.  The HEAD check and an existing name are early returns with no   *)
(* effect, so they are guards.                                             *)
CreatePoolLookup(c, n) ==
    /\ pc[c] = "idle"
    /\ n # HEAD
    /\ ~NameTaken(n)
    /\ nextId <= MaxIds
    /\ cfg' = [cfg EXCEPT ![c] = [id |-> nextId, name |-> n]]
    /\ nextId' = nextId + 1
    /\ Goto(c, "cp_create")
    /\ UNCHANGED <<pools, storage, poolCache>>

(* lake.CreatePool writes the pool's byte tree, or fails and returns.      *)
CreatePoolStorage(c) ==
    /\ pc[c] = "cp_create"
    /\ \/ /\ storage' = storage \cup {cfg[c].id}
          /\ Goto(c, "cp_open")
          /\ UNCHANGED cfg
       \/ /\ Finish(c)
          /\ UNCHANGED storage
    /\ UNCHANGED <<pools, poolCache, nextId>>

(* openPool on the new config: a cache hit returns a copy; a miss opens    *)
(* the pool from storage and adds it to the cache.  An open that fails     *)
(* goes on to RemovePool(engine).                                          *)
CreatePoolOpen(c) ==
    /\ pc[c] = "cp_open"
    /\ \/ /\ poolCache[cfg[c].id] # None
          /\ Goto(c, "cp_add")
          /\ UNCHANGED poolCache
       \/ /\ poolCache[cfg[c].id] = None
          /\ cfg[c].id \in storage
          /\ poolCache' = [poolCache EXCEPT ![cfg[c].id] = cfg[c]]
          /\ Goto(c, "cp_add")
       \/ /\ Goto(c, "cp_cleanup")
          /\ UNCHANGED poolCache
    /\ UNCHANGED <<pools, storage, nextId, cfg>>

(* r.pools.Add: fails with ErrExists when the name was taken since the    *)
(* lookup, and then the byte tree is removed.                              *)
CreatePoolAdd(c) ==
    /\ pc[c] = "cp_add"
    /\ \/ /\ ~NameTaken(cfg[c].name)
          /\ pools' = pools \cup {cfg[c]}
          /\ Finish(c)
       \/ /\ NameTaken(cfg[c].name)
          /\ Goto(c, "cp_cleanup")
          /\ UNCHANGED <<pools, cfg>>
    /\ UNCHANGED <<storage, poolCache, nextId>>

(* Mutant: the failure path's RemovePool without the return after it:   *)
CreatePoolCleanupNoReturn(c) ==
    /\ pc[c] = "cp_cleanup"
    /\ storage' = storage \ {cfg[c].id}
    /\ Goto(c, "cp_add")
    /\ UNCHANGED <<pools, poolCache, nextId, cfg>>

(* The failure path's RemovePool(ctx, r.engine, r.path, config).          *)
CreatePoolCleanup(c) ==
    /\ pc[c] = "cp_cleanup"
    /\ storage' = storage \ {cfg[c].id}
    /\ Finish(c)
    /\ UNCHANGED <<pools, poolCache, nextId>>

-----------------------------------------------------------------------------
(* RemovePool: LookupByID, then pools.Remove of the config read, then the  *)
(* cache entry, then the byte tree.                                        *)
(* Mutant: RemovePool deleting the byte tree before the config entry.     *)
RemovePoolLookupDataFirst(c, i) ==
    /\ pc[c] = "idle"
    /\ \E p \in pools :
          /\ p.id = i
          /\ cfg' = [cfg EXCEPT ![c] = p]
    /\ storage' = storage \ {i}
    /\ Goto(c, "rp_remove")
    /\ UNCHANGED <<pools, poolCache, nextId>>

RemovePoolLookup(c, i) ==
    /\ pc[c] = "idle"
    /\ \E p \in pools :
          /\ p.id = i
          /\ cfg' = [cfg EXCEPT ![c] = p]
    /\ Goto(c, "rp_remove")
    /\ UNCHANGED <<pools, storage, poolCache, nextId>>

(* pools.Store.Remove deletes the entry under the config's key, its name;  *)
(* with no entry under that key it fails with ErrNotFound.                 *)
RemovePoolRemove(c) ==
    /\ pc[c] = "rp_remove"
    /\ \/ \E p \in pools :
             /\ p.name = cfg[c].name
             /\ pools' = pools \ {p}
             /\ Goto(c, "rp_uncache")
             /\ UNCHANGED cfg
       \/ /\ ~NameTaken(cfg[c].name)
          /\ Finish(c)
          /\ UNCHANGED pools
    /\ UNCHANGED <<storage, poolCache, nextId>>

RemovePoolUncache(c) ==
    /\ pc[c] = "rp_uncache"
    /\ poolCache' = [poolCache EXCEPT ![cfg[c].id] = None]
    /\ Goto(c, "rp_delete")
    /\ UNCHANGED <<pools, storage, nextId, cfg>>

RemovePoolDelete(c) ==
    /\ pc[c] = "rp_delete"
    /\ storage' = storage \ {cfg[c].id}
    /\ Finish(c)
    /\ UNCHANGED <<pools, poolCache, nextId>>

-----------------------------------------------------------------------------
(* RenamePool is one pools.Store.Rename: the pool must exist and the new   *)
(* name must be free.  Root does not check the new name against HEAD.      *)
RenamePool(c, i, n) ==
    /\ pc[c] = "idle"
    /\ ~NameTaken(n)
    /\ \E p \in pools :
          /\ p.id = i
          /\ pools' = (pools \ {p}) \cup {[id |-> p.id, name |-> n]}
    /\ UNCHANGED <<storage, poolCache, nextId, pc, cfg>>

-----------------------------------------------------------------------------
(* OpenPool: LookupByID, then openPool: poolCache.Get, and on a miss       *)
(* lake.OpenPool from storage followed by poolCache.Add.                   *)
OpenPoolLookup(c, i) ==
    /\ pc[c] = "idle"
    /\ \E p \in pools :
          /\ p.id = i
          /\ cfg' = [cfg EXCEPT ![c] = p]
    /\ Goto(c, "op_get")
    /\ UNCHANGED <<pools, storage, poolCache, nextId>>

OpenPoolGet(c) ==
    /\ pc[c] = "op_get"
    /\ \/ /\ poolCache[cfg[c].id] # None
          /\ Finish(c)
       \/ /\ poolCache[cfg[c].id] = None
          /\ Goto(c, "op_open")
          /\ UNCHANGED cfg
    /\ UNCHANGED <<pools, storage, poolCache, nextId>>

OpenPoolOpen(c) ==
    /\ pc[c] = "op_open"
    /\ \/ /\ cfg[c].id \in storage
          /\ Goto(c, "op_add")
          /\ UNCHANGED cfg
       \/ /\ cfg[c].id \notin storage
          /\ Finish(c)
    /\ UNCHANGED <<pools, storage, poolCache, nextId>>

OpenPoolAdd(c) ==
    /\ pc[c] = "op_add"
    /\ poolCache' = [poolCache EXCEPT ![cfg[c].id] = cfg[c]]
    /\ Finish(c)
    /\ UNCHANGED <<pools, storage, nextId>>

-----------------------------------------------------------------------------
(* The model's end: every id is spent and every caller is back at idle.   *)
(* The code never stops here; only the bound MaxIds does.                  *)
IdsExhausted ==
    /\ nextId > MaxIds
    /\ \A c \in Callers : pc[c] = "idle"
    /\ UNCHANGED vars

Next ==
    \E c \in Callers :
       \/ \E n \in Names : CreatePoolLookup(c, n)
       \/ CreatePoolStorage(c)
       \/ CreatePoolOpen(c)
       \/ CreatePoolAdd(c)
       \/ CreatePoolCleanup(c)
       \/ \E i \in Ids : RemovePoolLookup(c, i)
       \/ RemovePoolRemove(c)
       \/ RemovePoolUncache(c)
       \/ RemovePoolDelete(c)
       \/ \E i \in Ids, n \in RenameNames : RenamePool(c, i, n)
       \/ \E i \in Ids : OpenPoolLookup(c, i)
       \/ OpenPoolGet(c)
       \/ OpenPoolOpen(c)
       \/ OpenPoolAdd(c)
    \/ IdsExhausted

Spec == Init /\ [][Next]_vars

-----------------------------------------------------------------------------
(* Every pool in the pools store has its byte tree: CreatePool writes the *)
(* tree before adding the config and RemovePool deletes the config before *)
(* the tree, so no caller can open a listed pool whose data is gone.       *)
ConfigHasStorage ==
    \A p \in pools : p.id \in storage

(* RemovePool(id) removes the config of pool id and of no other pool: the *)
(* step of pools.Remove deletes exactly the config the caller looked up.   *)
RemoveDeletesOnlyRequested ==
    [][\A c \in Callers :
         (pc[c] = "rp_remove" /\ pc'[c] = "rp_uncache")
            => pools \ pools' = {cfg[c]}]_vars

(* CreatePool lists a pool only while its byte tree exists: pools.Add is *)
(* reached only after lake.CreatePool succeeded, and each failure of      *)
(* openPool or pools.Add removes the tree and returns.  This holds with   *)
(* renames and concurrent RemovePool calls too: no remover can reach an   *)
(* id that is not yet listed.                                              *)
AddOnlyWithStorage ==
    [][\A c \in Callers :
         (pc[c] = "cp_add" /\ cfg[c] \notin pools /\ cfg[c] \in pools')
            => cfg[c].id \in storage']_vars
=============================================================================
