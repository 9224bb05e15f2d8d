---------------------------- MODULE BytecodeCache ----------------------------
(***************************************************************************)
(* The bytecode cache of the concurrent VM pool and its hot reload         *)
(* (experimental/vm_pools/concurrent_vm_pool.c): a hash table of chains    *)
(* under one read-write lock, worker threads that fill and read it, one    *)
(* host thread that turns hot reload on and off and destroys the pool, and *)
(* the monitor thread that invalidates what inotify reports.               *)
(*                                                                         *)
(* Every cache function is one critical section of cache_rwlock, and is    *)
(* one action here. A script path is a number; hash_string is any          *)
(* function to the buckets. inotify reports bare file names, so it reaches *)
(* an entry only when the script was cached under its bare name.           *)
(***************************************************************************)
EXTENDS Naturals, Sequences, SequencesExt, FiniteSets

CONSTANTS
    Scripts,        \* the paths under which scripts are cached
    Names,          \* the file names in the watched directory
    OtherNames,     \* those of them without ".ember" in them
    Buckets,        \* CACHE_TABLE_SIZE
    MaxCached,      \* max_script_cache_size
    MaxChanges      \* bound: changes of files

ASSUME CacheAssumption ==
    Buckets \in Nat \ {0} /\ MaxCached \in Nat /\ Scripts \subseteq Nat /\ Names \subseteq Nat

VARIABLES
    chains,         \* bytecode_cache: the chain of every bucket, head first
    cached_scripts,
    hot,            \* hot_reload_enabled
    watch,          \* the inotify descriptor: "open" or "closed"
    pending,        \* file names inotify has queued
    monitor,        \* "none", "test", "read", "work", "gone"
    batch,          \* the names of the events the monitor has read
    host,           \* the host thread: "idle", "join", "last join", "clear", "freed"
    shutting,       \* is_shutting_down
    changes

cacheVars == <<chains, cached_scripts>>
reloadVars == <<hot, watch, pending, monitor, batch, host, shutting, changes>>
bytecodeVars == <<cacheVars, reloadVars>>

cache_hash_function(p) == (p % Buckets) + 1

\* The search of a chain, under the read lock. The pointer lookup_bytecode
\* returns outlives the lock and is only as good as the entry then is.
lookup_bytecode(p) ==
    \E i \in DOMAIN chains[cache_hash_function(p)] : chains[cache_hash_function(p)][i].path = p

BytecodeInit ==
    /\ chains = [b \in 1..Buckets |-> <<>>]
    /\ cached_scripts = 0 /\ changes = 0
    /\ hot = FALSE /\ watch = "closed" /\ pending = {}
    /\ monitor = "none" /\ batch = {} /\ host = "idle" /\ shutting = FALSE

\* ------------------------------------------------------------------ cache
\* An entry carries whether its script was changed after its bytecode was
\* stored, during the present watch ("old"): the code does not record it.
\* New bytecode is compiled from the current file. The update of an entry
\* keeps it where it is; when its buffer cannot be allocated the old bytecode
\* stays and the call still reports success: a step that changes nothing, as
\* are the calls with caching disabled and those that cannot allocate an entry.
Updated(p) ==
    [chains EXCEPT ![cache_hash_function(p)] =
        [i \in DOMAIN @ |-> IF @[i].path = p THEN [@[i] EXCEPT !.old = FALSE] ELSE @[i]]]

WithEntry(p) ==
    [chains EXCEPT ![cache_hash_function(p)] = <<[path |-> p, old |-> FALSE]>> \o @]

\* The capacity is tested before the path is looked for, so a full cache
\* refuses updates too.
CacheBytecode(p) ==
    /\ host # "freed" /\ cached_scripts < MaxCached
    /\ IF lookup_bytecode(p)
       THEN chains' = Updated(p) /\ UNCHANGED cached_scripts
       ELSE chains' = WithEntry(p) /\ cached_scripts' = cached_scripts + 1
    /\ UNCHANGED reloadVars

\* Variant: only the head of the chain is compared.
UnlinkedHead(chain, p) ==
    IF chain # <<>> /\ chain[1].path = p THEN Tail(chain) ELSE chain

\* The first entry of the chain with this path is unlinked and freed.
Unlinked(chain, p) ==
    IF \E i \in DOMAIN chain : chain[i].path = p
    THEN RemoveAt(chain, SelectInSeq(chain, LAMBDA e : e.path = p))
    ELSE chain

invalidate_cache(p) ==
    /\ chains' = [chains EXCEPT ![cache_hash_function(p)] = Unlinked(@, p)]
    /\ cached_scripts' = IF lookup_bytecode(p) THEN cached_scripts - 1 ELSE cached_scripts

InvalidateCache(p) == host # "freed" /\ invalidate_cache(p) /\ UNCHANGED reloadVars

clear_cache ==
    /\ chains' = [b \in 1..Buckets |-> <<>>]
    /\ cached_scripts' = 0

ClearCache == host = "idle" /\ clear_cache /\ UNCHANGED reloadVars

\* ------------------------------------------------------------- hot reload
\* A file of the watched directory changes: inotify queues its name.
FileChanges(n) ==
    /\ watch = "open" /\ changes < MaxChanges
    /\ changes' = changes + 1
    /\ chains' = [b \in 1..Buckets |-> [i \in DOMAIN chains[b] |->
                    IF chains[b][i].path = n THEN [chains[b][i] EXCEPT !.old = TRUE] ELSE chains[b][i]]]
    /\ pending' = pending \cup {n}
    /\ UNCHANGED <<cached_scripts, hot, watch, monitor, batch, host, shutting>>

\* Refused while enabled. inotify_init1, inotify_add_watch and pthread_create
\* may each fail, which closes the descriptor again and changes nothing else.
EnableHotReload ==
    /\ host = "idle" /\ ~hot
    /\ hot' = TRUE /\ watch' = "open" /\ pending' = {} /\ batch' = {} /\ monitor' = "test"
    /\ chains' = [b \in 1..Buckets |-> [i \in DOMAIN chains[b] |-> [chains[b][i] EXCEPT !.old = FALSE]]]
    /\ UNCHANGED <<cached_scripts, host, shutting, changes>>

\* disable_hot_reload up to the join: the watch is removed and the descriptor
\* closed.
Disabled == hot' = FALSE /\ watch' = "closed" /\ pending' = {}

DisableHotReload ==
    /\ host = "idle" /\ hot
    /\ Disabled /\ host' = "join"
    /\ UNCHANGED <<cacheVars, monitor, batch, shutting, changes>>

\* pthread_join; destroy goes on to free the VMs and the cache.
Join ==
    /\ host \in {"join", "last join"} /\ monitor = "gone"
    /\ monitor' = "none" /\ host' = IF host = "last join" THEN "clear" ELSE "idle"
    /\ UNCHANGED <<cacheVars, hot, watch, pending, batch, shutting, changes>>

\* concurrent_vm_pool_shutdown, as far as the monitor notices it.
Shutdown ==
    /\ host = "idle" /\ ~shutting
    /\ shutting' = TRUE
    /\ UNCHANGED <<cacheVars, hot, watch, pending, monitor, batch, host, changes>>

\* destroy: shut down, disable hot reload (a call that returns at once when it is off).
Destroy ==
    /\ host = "idle"
    /\ shutting' = TRUE
    /\ IF hot THEN Disabled /\ host' = "last join" ELSE UNCHANGED <<hot, watch, pending>> /\ host' = "clear"
    /\ UNCHANGED <<cacheVars, monitor, batch, changes>>

FreeCache ==
    /\ host = "clear" /\ clear_cache /\ host' = "freed"
    /\ UNCHANGED <<hot, watch, pending, monitor, batch, shutting, changes>>

\* ---------------------------------------------------------------- monitor
MonitorVars(step) == monitor' = step /\ UNCHANGED <<hot, watch, host, shutting, changes>>

MonitorTest ==
    /\ monitor = "test"
    /\ MonitorVars(IF shutting THEN "gone" ELSE "read")
    /\ UNCHANGED <<cacheVars, pending, batch>>

\* Variant: the monitor tries again whatever the error.
ReadFailedAgain == monitor' = "test"

\* read fails with EAGAIN when nothing is queued (the descriptor does not
\* block) and with EBADF once it is closed: both end the thread.
ReadFailed == monitor' = "gone"

MonitorRead ==
    /\ monitor = "read"
    /\ \/ /\ pending = {}
          /\ ReadFailed /\ UNCHANGED <<pending, batch>>
       \/ /\ pending # {}
          /\ batch' = pending /\ pending' = {} /\ monitor' = "work"
    /\ UNCHANGED <<cacheVars, hot, watch, host, shutting, changes>>

\* EINTR: the loop condition is tested again.
MonitorInterrupted ==
    monitor = "read" /\ MonitorVars("test") /\ UNCHANGED <<cacheVars, pending, batch>>

\* One event: a name without ".ember" is skipped, any other is invalidated.
MonitorEvent ==
    /\ monitor = "work" /\ batch # {}
    /\ \E n \in batch :
         /\ batch' = batch \ {n}
         /\ IF n \in OtherNames THEN UNCHANGED cacheVars ELSE invalidate_cache(n)
    /\ MonitorVars("work") /\ UNCHANGED pending

MonitorNext ==
    /\ monitor = "work" /\ batch = {}
    /\ MonitorVars("test") /\ UNCHANGED <<cacheVars, pending, batch>>

Monitor == MonitorTest \/ MonitorRead \/ MonitorEvent \/ MonitorNext

BytecodeNext ==
    \/ \E p \in Scripts : CacheBytecode(p) \/ InvalidateCache(p)
    \/ ClearCache \/ \E n \in Names : FileChanges(n)
    \/ EnableHotReload \/ DisableHotReload \/ Join \/ Shutdown \/ Destroy \/ FreeCache
    \/ Monitor \/ MonitorInterrupted

BytecodeSpec == BytecodeInit /\ [][BytecodeNext]_bytecodeVars

\* The scheduler runs the monitor thread; a signal need not interrupt every read.
BytecodeFairness == WF_bytecodeVars(Monitor) /\ SF_bytecodeVars(MonitorRead) /\ WF_bytecodeVars(Join)

\* -------------------------------------------------------------- properties
\* The places of the entries.
Cached == UNION {{b} \X DOMAIN chains[b] : b \in 1..Buckets}

\* The count agrees with the chains and stays within max_script_cache_size, no
\* script is cached twice, every entry is in its bucket; the monitor has ended
\* before the cache it writes is freed; and while the monitor works, bytecode
\* older than a watched script is still cached only if its event is still to
\* be handled: no invalidation is lost between lookups, updates and chains.
CacheSound ==
    /\ cached_scripts = Cardinality(Cached) /\ cached_scripts <= MaxCached
    /\ \A b \in 1..Buckets : \A i, j \in DOMAIN chains[b] :
         /\ cache_hash_function(chains[b][i].path) = b
         /\ chains[b][i].path = chains[b][j].path => i = j
    /\ host = "freed" => monitor = "none" /\ cached_scripts = 0
    /\ monitor \notin {"none", "gone"} /\ watch = "open" =>
         \A b \in 1..Buckets : \A i \in DOMAIN chains[b] :
             chains[b][i].old /\ chains[b][i].path \in Names \ OtherNames =>
                 chains[b][i].path \in pending \cup batch

\* disable_hot_reload, and with it destroy, returns: the monitor it joins ends,
\* because a closed descriptor or an empty queue fails its next read.
DisableReturns == (host \in {"join", "last join"}) ~> (monitor = "none")
==============================================================================
