--------------------------- MODULE LakeRootProofs ---------------------------
(***************************************************************************)
(* Proofs about LakeRoot for every value of the constants.                 *)
(***************************************************************************)
EXTENDS LakeRoot, TLAPS

(* A caller in the middle of a Root method holds a config: every step     *)
(* after the first reads cfg[c].id or cfg[c].name.                         *)
HoldsConfig ==
    \A c \in Callers : pc[c] # "idle" => cfg[c] \in Config

(* No two live pools share an id. *)
UniqueIds ==
    \A p, q \in pools : p.id = q.id => p = q

(* No two live pools share a name: the pools store is keyed by name, and *)
(* its Add and Rename refuse a name in use.                                *)
UniqueNames ==
    \A p, q \in pools : p.name = q.name => p = q

(* The inductive invariant behind TypeOK. *)
IInv == TypeOK /\ HoldsConfig /\ UniqueNames

LEMMA InitIInv == Init => IInv
BY RootAssumption DEF Init, IInv, TypeOK, HoldsConfig, UniqueNames, Ids, PC

LEMMA NextIInv == IInv /\ [Next]_vars => IInv'
<1> SUFFICES ASSUME IInv, [Next]_vars PROVE IInv'
    OBVIOUS
<1> USE RootAssumption DEF IInv, TypeOK, HoldsConfig, UniqueNames, Config, Ids, PC
<1>1. CASE UNCHANGED vars
    BY <1>1 DEF vars
<1>2. CASE IdsExhausted
    BY <1>2 DEF IdsExhausted, vars
<1>3. ASSUME NEW c \in Callers, NEW n \in Names, CreatePoolLookup(c, n) PROVE IInv'
    BY <1>3 DEF CreatePoolLookup, Goto
<1>4. ASSUME NEW c \in Callers, CreatePoolStorage(c) PROVE IInv'
    BY <1>4 DEF CreatePoolStorage, Goto, Finish
<1>5. ASSUME NEW c \in Callers, CreatePoolOpen(c) PROVE IInv'
    BY <1>5 DEF CreatePoolOpen, Goto
<1>6. ASSUME NEW c \in Callers, CreatePoolAdd(c) PROVE IInv'
    BY <1>6 DEF CreatePoolAdd, Goto, Finish, NameTaken
<1>7. ASSUME NEW c \in Callers, CreatePoolCleanup(c) PROVE IInv'
    BY <1>7 DEF CreatePoolCleanup, Finish, Goto
<1>8. ASSUME NEW c \in Callers, NEW i \in Ids, RemovePoolLookup(c, i) PROVE IInv'
    BY <1>8 DEF RemovePoolLookup, Goto
<1>9. ASSUME NEW c \in Callers, RemovePoolRemove(c) PROVE IInv'
    BY <1>9 DEF RemovePoolRemove, Goto, Finish, NameTaken
<1>10. ASSUME NEW c \in Callers, RemovePoolUncache(c) PROVE IInv'
    BY <1>10 DEF RemovePoolUncache, Goto
<1>11. ASSUME NEW c \in Callers, RemovePoolDelete(c) PROVE IInv'
    BY <1>11 DEF RemovePoolDelete, Goto, Finish
<1>12. ASSUME NEW c \in Callers, NEW i \in Ids, NEW n \in RenameNames,
              RenamePool(c, i, n)
       PROVE IInv'
    BY <1>12 DEF RenamePool, NameTaken
<1>13. ASSUME NEW c \in Callers, NEW i \in Ids, OpenPoolLookup(c, i) PROVE IInv'
    BY <1>13 DEF OpenPoolLookup, Goto
<1>14. ASSUME NEW c \in Callers, OpenPoolGet(c) PROVE IInv'
    BY <1>14 DEF OpenPoolGet, Goto, Finish
<1>15. ASSUME NEW c \in Callers, OpenPoolOpen(c) PROVE IInv'
    BY <1>15 DEF OpenPoolOpen, Goto, Finish
<1>16. ASSUME NEW c \in Callers, OpenPoolAdd(c) PROVE IInv'
    BY <1>16 DEF OpenPoolAdd, Goto, Finish
<1>17. QED
    BY <1>1, <1>2, <1>3, <1>4, <1>5, <1>6, <1>7, <1>8, <1>9, <1>10,
       <1>11, <1>12, <1>13, <1>14, <1>15, <1>16 DEF Next

(* Every reachable state is well typed: the pools store holds configs,    *)
(* the cache maps every id to a config or None, and ksuid allocation      *)
(* stays within its bound (CreatePool's config draw).                      *)
THEOREM TypeCorrect == Spec => []TypeOK
<1>1. Spec => []IInv
    BY InitIInv, NextIInv, PTL DEF Spec
<1>2. QED
    BY <1>1, PTL DEF IInv

-----------------------------------------------------------------------------
(* The steps of CreatePool after the id is drawn. *)
Creating == {"cp_create", "cp_open", "cp_add", "cp_cleanup"}

(* The strengthening behind AddOnlyWithStorage, with renames: ids are      *)
(* drawn above every id in use, so a creator's id is live nowhere and held *)
(* by no other busy caller until its own pools.Add; then only the creator  *)
(* itself can remove its byte tree, and no step but its Add lists its id.  *)
CreateInv ==
    /\ \A p \in pools : p.id < nextId
    /\ \A c \in Callers : pc[c] # "idle" => cfg[c].id < nextId
    /\ \A c \in Callers : pc[c] \in {"cp_open", "cp_add"} => cfg[c].id \in storage
    /\ \A c \in Callers : pc[c] \in Creating => ~IdLive(cfg[c].id)
    /\ \A c, d \in Callers :
          (c # d /\ pc[c] \in Creating /\ pc[d] # "idle") => cfg[d].id # cfg[c].id

CInv == IInv /\ CreateInv
LEMMA InitCInv == Init => CInv
BY InitIInv DEF Init, CInv, CreateInv, IdLive, Creating

LEMMA NextCInv == CInv /\ [Next]_vars => CInv'
<1> SUFFICES ASSUME CInv, [Next]_vars PROVE CInv'
    OBVIOUS
<1>0. IInv'
    BY NextIInv DEF CInv
<1> USE RootAssumption DEF CInv, IInv, TypeOK, HoldsConfig, UniqueNames, Config, Ids, PC,
        CreateInv, IdLive, Creating
<1>1. CASE UNCHANGED vars
    BY <1>1 DEF vars
<1>2. CASE IdsExhausted
    BY <1>2 DEF IdsExhausted, vars
<1>3. ASSUME NEW c \in Callers, NEW n \in Names, CreatePoolLookup(c, n) PROVE CInv'
    BY <1>0, <1>3 DEF CreatePoolLookup, Goto
<1>4. ASSUME NEW c \in Callers, CreatePoolStorage(c) PROVE CInv'
    BY <1>0, <1>4 DEF CreatePoolStorage, Goto, Finish
<1>5. ASSUME NEW c \in Callers, CreatePoolOpen(c) PROVE CInv'
    BY <1>0, <1>5 DEF CreatePoolOpen, Goto
<1>6. ASSUME NEW c \in Callers, CreatePoolAdd(c) PROVE CInv'
    <2>1. CASE /\ ~NameTaken(cfg[c].name)
               /\ pools' = pools \cup {cfg[c]}
               /\ Finish(c)
        BY <1>0, <1>6, <2>1 DEF CreatePoolAdd, Finish, Goto
    <2>2. CASE /\ NameTaken(cfg[c].name)
               /\ Goto(c, "cp_cleanup")
               /\ UNCHANGED <<pools, cfg>>
        BY <1>0, <1>6, <2>2 DEF CreatePoolAdd, Goto
    <2>3. QED
        BY <1>6, <2>1, <2>2 DEF CreatePoolAdd
<1>7. ASSUME NEW c \in Callers, CreatePoolCleanup(c) PROVE CInv'
    BY <1>0, <1>7 DEF CreatePoolCleanup, Finish, Goto
<1>8. ASSUME NEW c \in Callers, NEW i \in Ids, RemovePoolLookup(c, i) PROVE CInv'
    BY <1>0, <1>8 DEF RemovePoolLookup, Goto
<1>9. ASSUME NEW c \in Callers, RemovePoolRemove(c) PROVE CInv'
    <2>1. CASE \E p \in pools :
                  /\ p.name = cfg[c].name
                  /\ pools' = pools \ {p}
                  /\ Goto(c, "rp_uncache")
                  /\ UNCHANGED cfg
        BY <1>0, <1>9, <2>1 DEF RemovePoolRemove, Goto
    <2>2. CASE /\ ~NameTaken(cfg[c].name)
               /\ Finish(c)
               /\ UNCHANGED pools
        BY <1>0, <1>9, <2>2 DEF RemovePoolRemove, Finish, Goto
    <2>3. QED
        BY <1>9, <2>1, <2>2 DEF RemovePoolRemove
<1>10. ASSUME NEW c \in Callers, RemovePoolUncache(c) PROVE CInv'
    BY <1>0, <1>10 DEF RemovePoolUncache, Goto
<1>11. ASSUME NEW c \in Callers, RemovePoolDelete(c) PROVE CInv'
    BY <1>0, <1>11 DEF RemovePoolDelete, Goto, Finish
<1>12. ASSUME NEW c \in Callers, NEW i \in Ids, NEW n \in RenameNames,
              RenamePool(c, i, n)
       PROVE CInv'
    BY <1>0, <1>12 DEF RenamePool
<1>13. ASSUME NEW c \in Callers, NEW i \in Ids, OpenPoolLookup(c, i) PROVE CInv'
    BY <1>0, <1>13 DEF OpenPoolLookup, Goto
<1>14. ASSUME NEW c \in Callers, OpenPoolGet(c) PROVE CInv'
    <2>1. CASE /\ poolCache[cfg[c].id] # None
               /\ Finish(c)
        BY <1>0, <1>14, <2>1 DEF OpenPoolGet, Goto, Finish
    <2>2. CASE /\ poolCache[cfg[c].id] = None
               /\ Goto(c, "op_open")
               /\ UNCHANGED cfg
        BY <1>0, <1>14, <2>2 DEF OpenPoolGet, Goto
    <2>3. QED
        BY <1>14, <2>1, <2>2 DEF OpenPoolGet
<1>15. ASSUME NEW c \in Callers, OpenPoolOpen(c) PROVE CInv'
    <2>1. CASE /\ Goto(c, "op_add")
               /\ UNCHANGED cfg
        BY <1>0, <1>15, <2>1 DEF OpenPoolOpen, Goto
    <2>2. CASE Finish(c)
        BY <1>0, <1>15, <2>2 DEF OpenPoolOpen, Goto, Finish
    <2>3. QED
        BY <1>15, <2>1, <2>2 DEF OpenPoolOpen
<1>16. ASSUME NEW c \in Callers, OpenPoolAdd(c) PROVE CInv'
    BY <1>0, <1>16 DEF OpenPoolAdd, Goto, Finish
<1>17. QED
    BY <1>1, <1>2, <1>3, <1>4, <1>5, <1>6, <1>7, <1>8, <1>9, <1>10,
       <1>11, <1>12, <1>13, <1>14, <1>15, <1>16 DEF Next


(* Under CInv every step that lists a creator's config keeps its tree.    *)
LEMMA AddStep ==
    CInv /\ [Next]_vars =>
        [\A c \in Callers :
            (pc[c] = "cp_add" /\ cfg[c] \notin pools /\ cfg[c] \in pools')
               => cfg[c].id \in storage']_vars
<1> SUFFICES ASSUME CInv, [Next]_vars, NEW c \in Callers,
                    pc[c] = "cp_add", cfg[c] \notin pools, cfg[c] \in pools'
             PROVE  cfg[c].id \in storage'
    OBVIOUS
<1> USE RootAssumption DEF CInv, IInv, TypeOK, HoldsConfig, Config, Ids, PC,
        CreateInv, IdLive, Creating
<1>1. CASE UNCHANGED vars
    BY <1>1 DEF vars
<1>2. CASE IdsExhausted
    BY <1>2 DEF IdsExhausted
<1>3. ASSUME NEW d \in Callers, CreatePoolAdd(d) PROVE FALSE \/ cfg[c].id \in storage'
    <2>1. CASE d = c
        BY <1>3, <2>1 DEF CreatePoolAdd
    <2>2. CASE d # c
        BY <1>3, <2>2 DEF CreatePoolAdd, Finish, Goto
    <2>3. QED
        BY <2>1, <2>2
<1>4. ASSUME NEW d \in Callers, NEW i \in Ids, NEW n \in RenameNames,
             RenamePool(d, i, n)
      PROVE FALSE
    BY <1>4 DEF RenamePool
<1>5. ASSUME NEW d \in Callers, RemovePoolRemove(d) PROVE FALSE
    BY <1>5 DEF RemovePoolRemove, Goto, Finish
<1>6. QED
    BY <1>1, <1>2, <1>3, <1>4, <1>5
       DEF Next, CreatePoolLookup, CreatePoolStorage, CreatePoolOpen,
           CreatePoolCleanup, RemovePoolLookup, RemovePoolUncache, RemovePoolDelete,
           OpenPoolLookup, OpenPoolGet, OpenPoolOpen, OpenPoolAdd

(* For every number of callers, names and ids, and with RenamePool calls  *)
(* racing CreatePool and RemovePool calls, CreatePool's pools.Add lists a *)
(* config only while lake.CreatePool's byte tree for its id exists: no    *)
(* other caller can reach a pool id that is not yet listed.               *)
THEOREM AddKeepsStorage == Spec => AddOnlyWithStorage
<1>1. Spec => []CInv
    BY InitCInv, NextCInv, PTL DEF Spec
<1>2. QED
    BY <1>1, AddStep, PTL DEF Spec, AddOnlyWithStorage

(* The strengthening of ConfigHasStorage.  Ids are drawn below nextId and  *)
(* a creator's id is held by nobody else and is not live until its Add;   *)
(* a creator holds its byte tree from lake.CreatePool until Add; a remover *)
(* about to call pools.Remove holds either the live config of its id or an *)
(* id no longer live, and after pools.Remove its id is never live again,  *)
(* so deleting that byte tree leaves every listed pool with its data.      *)
StorageInv ==
    /\ UniqueIds
    /\ \A p \in pools : p.id \in storage /\ p.id < nextId
    /\ \A c \in Callers : pc[c] # "idle" => cfg[c].id < nextId
    /\ \A c \in Callers : pc[c] \in {"cp_open", "cp_add"} => cfg[c].id \in storage
    /\ \A c \in Callers : pc[c] \in Creating => ~IdLive(cfg[c].id)
    /\ \A c, d \in Callers :
          (c # d /\ pc[c] \in Creating /\ pc[d] # "idle") => cfg[d].id # cfg[c].id
    /\ \A c \in Callers :
          pc[c] = "rp_remove" => cfg[c] \in pools \/ ~IdLive(cfg[c].id)
    /\ \A c \in Callers :
          pc[c] \in {"rp_uncache", "rp_delete"} => ~IdLive(cfg[c].id)

SInv == IInv /\ StorageInv
LEMMA InitSInv == Init => SInv
BY InitIInv, RootAssumption DEF Init, SInv, StorageInv, UniqueIds, IdLive, Creating

LEMMA NextSInv ==
    ASSUME RenameNames = {}
    PROVE  SInv /\ [Next]_vars => SInv'
<1> SUFFICES ASSUME SInv, [Next]_vars PROVE SInv'
    OBVIOUS
<1>0. IInv'
    BY NextIInv DEF SInv
<1> USE RootAssumption DEF SInv, IInv, TypeOK, HoldsConfig, UniqueNames, Config, Ids, PC,
        StorageInv, UniqueIds, IdLive, Creating
<1>1. CASE UNCHANGED vars
    BY <1>1 DEF vars
<1>2. CASE IdsExhausted
    BY <1>2 DEF IdsExhausted, vars
<1>3. ASSUME NEW c \in Callers, NEW n \in Names, CreatePoolLookup(c, n) PROVE SInv'
    BY <1>0, <1>3 DEF CreatePoolLookup, Goto
<1>4. ASSUME NEW c \in Callers, CreatePoolStorage(c) PROVE SInv'
    <2>1. CASE /\ storage' = storage \cup {cfg[c].id}
               /\ Goto(c, "cp_open")
               /\ UNCHANGED cfg
        BY <1>0, <1>4, <2>1 DEF CreatePoolStorage, Goto
    <2>2. CASE /\ Finish(c)
               /\ UNCHANGED storage
        BY <1>0, <1>4, <2>2 DEF CreatePoolStorage, Finish, Goto
    <2>3. QED
        BY <1>4, <2>1, <2>2 DEF CreatePoolStorage
<1>5. ASSUME NEW c \in Callers, CreatePoolOpen(c) PROVE SInv'
    BY <1>0, <1>5 DEF CreatePoolOpen, Goto
<1>6. ASSUME NEW c \in Callers, CreatePoolAdd(c) PROVE SInv'
    <2>1. CASE /\ ~NameTaken(cfg[c].name)
               /\ pools' = pools \cup {cfg[c]}
               /\ Finish(c)
        BY <1>0, <1>6, <2>1 DEF CreatePoolAdd, Finish, Goto, NameTaken
    <2>2. CASE /\ NameTaken(cfg[c].name)
               /\ Goto(c, "cp_cleanup")
               /\ UNCHANGED <<pools, cfg>>
        BY <1>0, <1>6, <2>2 DEF CreatePoolAdd, Goto
    <2>3. QED
        BY <1>6, <2>1, <2>2 DEF CreatePoolAdd
<1>7. ASSUME NEW c \in Callers, CreatePoolCleanup(c) PROVE SInv'
    BY <1>0, <1>7 DEF CreatePoolCleanup, Finish, Goto
<1>8. ASSUME NEW c \in Callers, NEW i \in Ids, RemovePoolLookup(c, i) PROVE SInv'
    BY <1>0, <1>8 DEF RemovePoolLookup, Goto
<1>9. ASSUME NEW c \in Callers, RemovePoolRemove(c) PROVE SInv'
    <2>1. CASE \E p \in pools :
                  /\ p.name = cfg[c].name
                  /\ pools' = pools \ {p}
                  /\ Goto(c, "rp_uncache")
                  /\ UNCHANGED cfg
        BY <1>0, <1>9, <2>1 DEF RemovePoolRemove, Goto
    <2>2. CASE /\ ~NameTaken(cfg[c].name)
               /\ Finish(c)
               /\ UNCHANGED pools
        BY <1>0, <1>9, <2>2 DEF RemovePoolRemove, Finish, Goto, NameTaken
    <2>3. QED
        BY <1>9, <2>1, <2>2 DEF RemovePoolRemove
<1>10. ASSUME NEW c \in Callers, RemovePoolUncache(c) PROVE SInv'
    BY <1>0, <1>10 DEF RemovePoolUncache, Goto
<1>11. ASSUME NEW c \in Callers, RemovePoolDelete(c) PROVE SInv'
    BY <1>0, <1>11 DEF RemovePoolDelete, Goto, Finish
<1>12. ASSUME NEW c \in Callers, NEW i \in Ids, NEW n \in RenameNames,
              RenamePool(c, i, n)
       PROVE SInv'
    OBVIOUS
<1>13. ASSUME NEW c \in Callers, NEW i \in Ids, OpenPoolLookup(c, i) PROVE SInv'
    BY <1>0, <1>13 DEF OpenPoolLookup, Goto
<1>14. ASSUME NEW c \in Callers, OpenPoolGet(c) PROVE SInv'
    <2>1. CASE /\ poolCache[cfg[c].id] # None
               /\ Finish(c)
        BY <1>0, <1>14, <2>1 DEF OpenPoolGet, Goto, Finish
    <2>2. CASE /\ poolCache[cfg[c].id] = None
               /\ Goto(c, "op_open")
               /\ UNCHANGED cfg
        BY <1>0, <1>14, <2>2 DEF OpenPoolGet, Goto
    <2>3. QED
        BY <1>14, <2>1, <2>2 DEF OpenPoolGet
<1>15. ASSUME NEW c \in Callers, OpenPoolOpen(c) PROVE SInv'
    BY <1>0, <1>15 DEF OpenPoolOpen, Goto, Finish
<1>16. ASSUME NEW c \in Callers, OpenPoolAdd(c) PROVE SInv'
    BY <1>0, <1>16 DEF OpenPoolAdd, Goto, Finish
<1>17. QED
    BY <1>1, <1>2, <1>3, <1>4, <1>5, <1>6, <1>7, <1>8, <1>9, <1>10,
       <1>11, <1>12, <1>13, <1>14, <1>15, <1>16 DEF Next

(* When no caller renames a pool, every pool listed in the pools store    *)
(* has its byte tree, for any number of concurrent CreatePool, RemovePool *)
(* and OpenPool callers: CreatePool writes the tree before pools.Add, and *)
(* RemovePool calls pools.Remove before it deletes the tree.               *)
THEOREM StorageOfListedPools ==
    ASSUME RenameNames = {}
    PROVE  Spec => []ConfigHasStorage
<1>1. Spec => []SInv
    BY InitSInv, NextSInv, PTL DEF Spec
<1>2. SInv => ConfigHasStorage
    BY DEF SInv, StorageInv, ConfigHasStorage
<1>3. QED
    BY <1>1, <1>2, PTL
=============================================================================
