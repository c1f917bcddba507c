------------------------------ MODULE ArsSignalR ------------------------------
(***************************************************************************)
(* SignalR presence as the application configures it: AddArsSignalR takes  *)
(* MemoryHubCacheManager or RedisHubCacheManager by its CacheType, the hub *)
(* calls are the same.  One process; its restart is not modelled.          *)
(***************************************************************************)
EXTENDS BaseHub

CONSTANTS
  CacheTypes,   \* 0 keeps the clients in memory, 1 in Redis
  Serial        \* does the host start the first clients of a terminal one at a time

ASSUME CacheTypesAssumption == CacheTypes \subseteq {0, 1}
ASSUME SerialAssumption == Serial \in BOOLEAN

VARIABLES
  cacheType,
  dict,                                      \* see MemoryHubCache
  up, writing, keys, looped, left, fields    \* see RedisHubCache

Memory == INSTANCE MemoryHubCache
Redis == INSTANCE RedisHubCache

redisVars == <<up, writing, keys, looped, left, fields>>
vars == <<cacheType, dict, redisVars, conn, beat, entry, age, notices,
          listening, timer, stage, since, picked>>

Init == cacheType \in CacheTypes /\ Memory!Init /\ Redis!Init

InMemory(step) == cacheType = 0 /\ step /\ UNCHANGED <<cacheType, redisVars>>
InRedis(step) == cacheType = 1 /\ step /\ UNCHANGED <<cacheType, dict>>

Next == InMemory(Memory!Next) \/ InRedis(Redis!Next)

Spec == Init /\ [][Next]_vars

TypeOK ==
  /\ cacheType \in CacheTypes
  /\ IF cacheType = 0 THEN Memory!TypeOK /\ up ELSE Redis!TypeOK /\ dict = {}

-----------------------------------------------------------------------------
(* What both caches promise (BaseHub), as far as the code keeps it.         *)

\* A connected client of a running process is online: sweeps, other clients that
\* come and go, and late heartbeats do not delist it.
ConnectedAreOnline == up => OnlineWhileConnected

\* A client that went away leaves the cache: the sweeps of a running process drop every
\* entry without heartbeats in bounded time, and in memory a client whose
\* OnDisconnectedAsync has returned is not listed again by its last heartbeat.
\* RedisHubCacheManager does list it again, until a sweep finds it.
GoneAreForgotten ==
  /\ up => EntriesExpire
  /\ cacheType = 0 => ClosedIsOffline

\* While the process runs, the application is told of every client that went away,
\* also when OnConnectedAsync threw after listing it, and of no client that is
\* connected: who is gone is told, or still listed and so told when it expires
\* (GoneAreForgotten).
GoneAreNoticed ==
  /\ NoNoticeWhileConnected
  /\ up => \A c \in Clients :
       conn[c] \in {"closed", "vanished"} =>
         notices[c] > 0 \/ c \in entry

=============================================================================
