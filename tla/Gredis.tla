------------------------------- MODULE Gredis -------------------------------
(***************************************************************************)
(* The process-wide registry of gredis (database/gredis/gredis.go): the    *)
(* map pools from a formatted config to a connection pool, the map        *)
(* instances from a config group to its cached *Redis, and the Redis      *)
(* objects that New and Instance hand out, used by goroutines Threads.    *)
(*                                                                         *)
(* Both maps are gmap.StrAnyMap: every call on one is atomic under the    *)
(* map's own lock, and GetOrSetFuncLock runs its function under that lock, *)
(* storing nothing when the function returns nil.  Instance therefore     *)
(* runs New while holding the instances lock, and is one step.  Close is  *)
(* three calls that take no common lock (instances.Remove, pools.Remove,  *)
(* pool.Close), so it is three steps that other goroutines interleave.    *)
(*                                                                         *)
(* A pool is a redigo *Pool reduced to whether it is open: Close on a     *)
(* closed pool does nothing, and Get on a closed pool returns a           *)
(* connection whose every command fails with ErrPoolClosed.  The pool     *)
(* fields the Set* methods write (MaxIdle, MaxActive, ...) are read by    *)
(* nothing in gredis and are left out.                                     *)
(***************************************************************************)
EXTENDS Naturals, FiniteSets, FiniteSetsExt

CONSTANTS
  Threads,      \* goroutines calling gredis
  Hosts,        \* server addresses configs name
  Groups,       \* configuration group names
  GroupConfig,  \* GetConfig: the config of each group, or NoConfig
  NoConfig,
  NewConfigs,   \* configs goroutines pass to New directly
  MaxRedis,     \* bound on the Redis objects created
  MaxPools      \* bound on the pools created

\* The fields of Config that New reads; a timeout of 0 means "unset".
Configs == [host : Hosts, idle : {0, 60}, life : {0, 60}]

ASSUME /\ GroupConfig \in [Groups -> Configs \cup {NoConfig}]
       /\ NewConfigs \subseteq Configs

RedisIds == 1..MaxRedis
PoolIds  == 1..MaxPools
NoPool   == 0
Nil      == 0
NoGroup  == "none"   \* r.group = "" for objects made by New

VARIABLES
  pools,      \* pools map: config key -> pool, or NoPool
  instances,  \* instances map: group -> Redis object, or Nil
  poolState,  \* each pool id: "none" (never made), "open" or "closed"
  objs,       \* each Redis object: its pool, group and config
  pc,         \* each goroutine: "idle", or the next step of its Close
  cur,        \* the object a goroutine is closing
  ret         \* what the last Do of each goroutine got from its pool

vars == <<pools, instances, poolState, objs, pc, cur, ret>>

\* New's defaults: IdleTimeout and MaxConnLifetime of 0 become 60 seconds.
\* The pools key, fmt.Sprintf("%v", config), is taken of this normalised
\* config; formatting is abstracted to the config itself.
Normalise(c) ==
  [c EXCEPT !.idle = IF @ = 0 THEN 60 ELSE @, !.life = IF @ = 0 THEN 60 ELSE @]

Keys == {Normalise(c) : c \in Configs}

NoObj == [pool |-> NoPool, group |-> NoGroup, config |-> Normalise(CHOOSE c \in Configs : TRUE)]

Made == {r \in RedisIds : objs[r].pool # NoPool}
FreeObjs  == RedisIds \ Made
FreePools == {p \in PoolIds : poolState[p] = "none"}

\* New can run within the bounds: an object id, and a pool id if the
\* config has no pool yet.
CanNew(c) ==
  /\ FreeObjs # {}
  /\ pools[Normalise(c)] # NoPool \/ FreePools # {}

\* Mutant: the key is bound to a fresh pool id that is never made into
\* a pool (the creating function is skipped).
NewRedisNotOpened(c, g) ==
  LET k     == Normalise(c)
      fresh == pools[k] = NoPool
      p     == IF fresh THEN Min(FreePools) ELSE pools[k]
      r     == Min(FreeObjs)
  IN [r         |-> r,
      pools     |-> [pools EXCEPT ![k] = p],
      poolState |-> poolState,
      objs      |-> [objs EXCEPT ![r] = [pool |-> p, group |-> g, config |-> k]]]

\* New(config) with r.group = g: the pool is pools.GetOrSetFuncLock(key,
\* a new open pool).
NewRedis(c, g) ==
  LET k     == Normalise(c)
      fresh == pools[k] = NoPool
      p     == IF fresh THEN Min(FreePools) ELSE pools[k]
      r     == Min(FreeObjs)
  IN [r         |-> r,
      pools     |-> [pools EXCEPT ![k] = p],
      poolState |-> IF fresh THEN [poolState EXCEPT ![p] = "open"] ELSE poolState,
      objs      |-> [objs EXCEPT ![r] = [pool |-> p, group |-> g, config |-> k]]]

Init ==
  /\ pools = [k \in Keys |-> NoPool]
  /\ instances = [g \in Groups |-> Nil]
  /\ poolState = [p \in PoolIds |-> "none"]
  /\ objs = [r \in RedisIds |-> NoObj]
  /\ pc = [t \in Threads |-> "idle"]
  /\ cur = [t \in Threads |-> Nil]
  /\ ret = [t \in Threads |-> "none"]

New(t, c) ==
  /\ pc[t] = "idle"
  /\ CanNew(c)
  /\ LET n == NewRedis(c, NoGroup)
     IN /\ pools' = n.pools
        /\ poolState' = n.poolState
        /\ objs' = n.objs
  /\ UNCHANGED <<instances, pc, cur, ret>>

\* Instance(g) when g has no cached object and GetConfig finds a config;
\* a cached object is returned, and a missing config returns nil, without
\* changing any state.
Instance(t, g) ==
  /\ pc[t] = "idle"
  /\ instances[g] = Nil
  /\ GroupConfig[g] # NoConfig
  /\ CanNew(GroupConfig[g])
  /\ LET n == NewRedis(GroupConfig[g], g)
     IN /\ pools' = n.pools
        /\ poolState' = n.poolState
        /\ objs' = n.objs
        /\ instances' = [instances EXCEPT ![g] = n.r]
  /\ UNCHANGED <<pc, cur, ret>>

\* Close, first call: an instance object removes its group's entry,
\* whichever object that entry holds now.
CloseBegin(t, r) ==
  /\ pc[t] = "idle"
  /\ r \in Made
  /\ instances' = IF objs[r].group = NoGroup THEN instances
                  ELSE [instances EXCEPT ![objs[r].group] = Nil]
  /\ pc' = [pc EXCEPT ![t] = "removePool"]
  /\ cur' = [cur EXCEPT ![t] = r]
  /\ UNCHANGED <<pools, poolState, objs, ret>>

\* Mutant: Close closes the pool where it should remove the key, so the
\* closed pool stays in the pools map.
CloseRemovePoolClosesFirst(t) ==
  /\ pc[t] = "removePool"
  /\ poolState' = [poolState EXCEPT ![objs[cur[t]].pool] = "closed"]
  /\ pc' = [pc EXCEPT ![t] = "closePool"]
  /\ UNCHANGED <<instances, pools, objs, cur, ret>>

\* Close, second call: pools.Remove of the object's config key, whichever
\* pool that key maps to now.
CloseRemovePool(t) ==
  /\ pc[t] = "removePool"
  /\ pools' = [pools EXCEPT ![objs[cur[t]].config] = NoPool]
  /\ pc' = [pc EXCEPT ![t] = "closePool"]
  /\ UNCHANGED <<instances, poolState, objs, cur, ret>>

\* Close, third call: r.pool.Close().
CloseFinish(t) ==
  /\ pc[t] = "closePool"
  /\ poolState' = [poolState EXCEPT ![objs[cur[t]].pool] = "closed"]
  /\ pc' = [pc EXCEPT ![t] = "idle"]
  /\ cur' = [cur EXCEPT ![t] = Nil]
  /\ UNCHANGED <<pools, instances, objs, ret>>

\* Do (and DoVar, Send): a connection from r.pool.Get(), which on a closed
\* pool fails every command with ErrPoolClosed.
Do(t, r) ==
  /\ pc[t] = "idle"
  /\ r \in Made
  /\ ret' = [ret EXCEPT ![t] = IF poolState[objs[r].pool] = "open"
                               THEN "ok" ELSE "ErrPoolClosed"]
  /\ UNCHANGED <<pools, instances, poolState, objs, pc, cur>>

Next ==
  \E t \in Threads :
    \/ \E c \in NewConfigs : New(t, c)
    \/ \E g \in Groups : Instance(t, g)
    \/ \E r \in RedisIds : CloseBegin(t, r) \/ Do(t, r)
    \/ CloseRemovePool(t)
    \/ CloseFinish(t)

Spec == Init /\ [][Next]_vars

-----------------------------------------------------------------------------

TypeOK ==
  /\ pools \in [Keys -> PoolIds \cup {NoPool}]
  /\ instances \in [Groups -> Made \cup {Nil}]
  /\ poolState \in [PoolIds -> {"none", "open", "closed"}]
  /\ \A r \in Made : /\ objs[r].pool \in PoolIds
                     /\ poolState[objs[r].pool] # "none"
                     /\ objs[r].config \in Keys
  /\ pc \in [Threads -> {"idle", "removePool", "closePool"}]
  /\ \A t \in Threads : pc[t] # "idle" => cur[t] \in Made
  /\ ret \in [Threads -> {"none", "ok", "ErrPoolClosed"}]

\* New never hands out a closed pool: every pool the pools map holds is
\* open.  Close removes the key (gredis.go:139) before it closes the pool
\* (line 140), and a closed pool is never put back; a New that runs
\* between the two calls gets the pool that is about to close, but the
\* map no longer holds it.
PoolsOpen ==
  \A k \in Keys : pools[k] # NoPool => poolState[pools[k]] = "open"

\* The object Instance(g) returns is usable: every cached instance has an
\* open pool, so that Do through it does not fail with ErrPoolClosed.
InstanceUsable ==
  \A g \in Groups : instances[g] # Nil => poolState[objs[instances[g]].pool] = "open"
=============================================================================
