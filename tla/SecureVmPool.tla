---------------------------- MODULE SecureVmPool ----------------------------
(***************************************************************************)
(* The VM pool of the embedding API (src/api.c): a fixed array of slots    *)
(* for returned VMs, a rate limit per time window, and secure_pool_size,   *)
(* the unsigned counter that is compared with max_vms_per_thread.          *)
(*                                                                         *)
(* Callers release each VM once and are one thread: the code has no lock.  *)
(* Of the configuration only the three fields the code uses after its      *)
(* validation are kept.                                                    *)
(***************************************************************************)
EXTENDS Naturals, Sequences, FiniteSets

CONSTANTS
    Vms,          \* bound: the VMs that can exist at once
    Configs,      \* the configurations callers pass, each <<slots, VMs, rate>>
    Defaults,     \* DEFAULT_SECURE_CONFIG
    MaxConfig,    \* the upper limit of every field
    Window,       \* rate_limit_window_ms, in ticks
    SizeLimit     \* SIZE_MAX + 1

VARIABLES
    initialized,  \* secure_pool_initialized
    config,       \* secure_pool_config
    slots,        \* secure_vm_pool; 0 is NULL
    pool_size,    \* secure_pool_size
    allocation_count,
    elapsed,      \* ticks since last_rate_limit_reset
    out,          \* the VMs in the hands of callers
    soiled,       \* VMs with a stack or an exception of their last use
    granted,      \* VMs handed out since the last reset
    live          \* VMs created and not freed

secureVars == <<initialized, config, slots, pool_size, allocation_count, elapsed, out, soiled, granted, live>>

NULL == 0
Pooled == {slots[i] : i \in DOMAIN slots} \ {NULL}
FirstWith(P(_)) == {i \in DOMAIN slots : P(slots[i]) /\ \A j \in 1..(i - 1) : ~P(slots[j])}
IsNull(vm) == vm = NULL
IsVm(vm) == vm # NULL

ASSUME SecureConfigs ==
    NULL \notin Vms /\ MaxConfig \in Nat /\ Defaults \in [1..3 -> 1..MaxConfig]

SecureInit ==
    /\ initialized = FALSE /\ config = Defaults /\ slots = <<>> /\ pool_size = 0
    /\ allocation_count = 0 /\ elapsed = 0 /\ out = {} /\ soiled = {} /\ granted = 0 /\ live = {}

apply_secure_defaults(c) == [f \in 1..3 |-> IF c[f] = 0 THEN Defaults[f] ELSE c[f]]
validate_pool_config(c) == \A f \in 1..3 : c[f] \in 1..MaxConfig

\* Everything in the slots is freed; VMs in the hands of callers are not.
Emptied(size) ==
    /\ slots' = [i \in 1..size |-> NULL]
    /\ pool_size' = 0 /\ allocation_count' = 0 /\ elapsed' = 0 /\ granted' = 0
    /\ soiled' = soiled \cap out /\ live' = live \ Pooled

\* An invalid configuration is refused before anything changes; an existing
\* pool is cleaned up before the array of the new one is allocated.
PoolInit(c) ==
    LET effective == apply_secure_defaults(c) IN
    /\ validate_pool_config(effective)
    /\ \/ initialized' = TRUE /\ config' = effective /\ Emptied(effective[1])
       \/ initialized' = FALSE /\ UNCHANGED config /\
          IF initialized THEN Emptied(0)
          ELSE UNCHANGED <<slots, pool_size, allocation_count, elapsed, granted, soiled, live>>
    /\ UNCHANGED out

PoolCleanup ==
    /\ initialized
    /\ initialized' = FALSE /\ Emptied(0)
    /\ UNCHANGED <<config, out>>

\* check_rate_limit: the window is reset when it has passed, then the call
\* counts. A refused call changes nothing: the limit is at least one.
Expired == elapsed >= Window
RateLimited == (IF Expired THEN 0 ELSE allocation_count) >= config[3]
CountCall ==
    /\ allocation_count' = (IF Expired THEN 0 ELSE allocation_count) + 1
    /\ elapsed' = IF Expired THEN 0 ELSE elapsed
Grant(n) == granted' = (IF Expired THEN 0 ELSE granted) + n

\* The VM of the first occupied slot, reset; the slot is emptied. The counter
\* falls here and does not rise again when the VM comes back: it wraps below 0.
GetPooled ==
    /\ initialized /\ ~RateLimited /\ CountCall /\ Grant(1)
    /\ \E i \in FirstWith(IsVm) :
         /\ slots' = [slots EXCEPT ![i] = NULL]
         /\ out' = out \cup {slots[i]} /\ soiled' = soiled \ {slots[i]}
    /\ pool_size' = (pool_size + SizeLimit - 1) % SizeLimit
    /\ UNCHANGED <<initialized, config, live>>

\* A new VM when the slots are empty and the counter is below the limit.
GetNew ==
    /\ initialized /\ ~RateLimited /\ CountCall /\ Grant(1)
    /\ Pooled = {} /\ pool_size < config[2]
    /\ \E vm \in Vms \ live : out' = out \cup {vm} /\ live' = live \cup {vm}
    /\ pool_size' = (pool_size + 1) % SizeLimit
    /\ UNCHANGED <<initialized, config, slots, soiled>>

\* No VM: the counter is at the limit, or ember_new_vm failed. The call counted.
GetNothing ==
    /\ initialized /\ ~RateLimited /\ CountCall /\ Grant(0)
    /\ Pooled = {}
    /\ UNCHANGED <<initialized, config, slots, pool_size, out, soiled, live>>

\* The caller runs a script in its VM.
Use(vm) ==
    /\ soiled' = soiled \cup {vm}
    /\ UNCHANGED <<initialized, config, slots, pool_size, allocation_count, elapsed, out, granted, live>>

\* Variant: the last slot, whatever it holds.
LastSlot == {Len(slots)}

\* The slot a returned VM goes to: the first empty one.
ReturnSlot == FirstWith(IsNull)

\* A VM goes to the first empty slot; with none, or no pool, it is freed. The
\* counter falls only in the second case and is left alone by the first.
PoolRelease(vm) ==
    /\ out' = out \ {vm} /\ soiled' = soiled \ {vm}
    /\ \/ /\ initialized
          /\ \E i \in ReturnSlot : slots' = [slots EXCEPT ![i] = vm]
          /\ UNCHANGED <<pool_size, live>>
       \/ /\ initialized /\ ReturnSlot = {}
          /\ pool_size' = IF pool_size > 0 THEN pool_size - 1 ELSE 0
          /\ live' = live \ {vm} /\ UNCHANGED slots
       \/ ~initialized /\ live' = live \ {vm} /\ UNCHANGED <<slots, pool_size>>
    /\ UNCHANGED <<initialized, config, allocation_count, elapsed, granted>>

Tick ==
    /\ initialized /\ elapsed < Window
    /\ elapsed' = elapsed + 1
    /\ UNCHANGED <<initialized, config, slots, pool_size, allocation_count, out, soiled, granted, live>>

SecureNext ==
    \/ \E c \in Configs : PoolInit(c)
    \/ PoolCleanup \/ GetPooled \/ GetNew \/ GetNothing \/ Tick
    \/ \E vm \in out : Use(vm) \/ PoolRelease(vm)

SecureSpec == SecureInit /\ [][SecureNext]_secureVars

\* No VM is lost or freed while it is in use: each one that exists is in exactly
\* one slot or in a caller's hands, the pooled ones are clean of their last use,
\* and in one window no more VMs are handed out than the rate limit: through
\* re-initialisation, full slots, releases without a pool and a failed init.
PoolOwned ==
    /\ \A i, j \in DOMAIN slots : slots[i] = slots[j] /\ slots[i] # NULL => i = j
    /\ live = Pooled \cup out
    /\ Pooled \cap (out \cup soiled) = {}
    /\ initialized => granted <= allocation_count /\ allocation_count <= config[3]
    /\ Len(slots) = IF initialized THEN config[1] ELSE 0
=============================================================================
