-------------------------------- MODULE Vfs --------------------------------
(***************************************************************************)
(* The virtual file system of a VM (src/runtime/vfs/vfs.c): an array of    *)
(* mounts, the translation of virtual to host paths and the access check.  *)
(*                                                                         *)
(* An absolute path is its components and whether a slash ends it: "/" is  *)
(* [parts |-> <<>>, slash |-> TRUE]. Host paths are opaque; whether        *)
(* realpath of a host file leaves the mount is a property of the component *)
(* (a link out of the mount).                                              *)
(***************************************************************************)
EXTENDS Naturals, Sequences, SequencesExt, FiniteSets, FiniteSetsExt

CONSTANTS
    VirtualPaths,   \* the paths mounts are asked for
    Hosts,          \* host directories that exist
    Queries,        \* the paths scripts open
    Unsafe,         \* components "." and ".." and those with control characters
    LinksOut,       \* components that are links out of every host directory
    FirstCapacity,  \* 8 in the code
    MaxMounts       \* EMBER_MAX_MOUNTS

ASSUME VfsAssumption ==
    /\ VirtualPaths \cup Queries \subseteq [parts : Seq(STRING), slash : BOOLEAN]
    /\ FirstCapacity \in Nat \ {0} /\ MaxMounts \in Nat

VARIABLES
    mounts,         \* vm->mounts[0..mount_count-1]
    mount_capacity,
    mounted         \* what is mounted where: the last successful mount of each path

vfsVars == <<mounts, mount_capacity, mounted>>

VfsInit == mounts = <<>> /\ mount_capacity = 0 /\ mounted = {}

\* ----------------------------------------------------------------- mounting
\* The array grows, if it must, before the path is looked for in it: a full
\* array of the largest size refuses a replacement too.
Grown ==
    IF Len(mounts) < mount_capacity THEN mount_capacity
    ELSE IF mount_capacity = 0 THEN FirstCapacity ELSE 2 * mount_capacity

At(v) == SelectInSeq(mounts, LAMBDA mount : mount.at = v)

Placed(new) ==
    IF At(new.at) = 0 THEN Append(mounts, new) ELSE ReplaceAt(mounts, At(new.at), new)

\* ember_vfs_init mounts /app, /tmp and what EMBER_MOUNTS lists through this function.
Mount(new) ==
    /\ Grown <= MaxMounts
    /\ mounts' = Placed(new) /\ mount_capacity' = Grown
    /\ mounted' = {m \in mounted : m.at # new.at} \cup {new}

\* The copies of the paths cannot be allocated: the larger array stays.
MountFails ==
    /\ Grown <= MaxMounts
    /\ mount_capacity' = Grown
    /\ UNCHANGED <<mounts, mounted>>

\* Variant: the last mount is dropped, the hole is not filled with it.
LastDropped(i) == Front(mounts)

\* The last mount moves into the hole.
Removed(i) == Front(IF i < Len(mounts) THEN ReplaceAt(mounts, i, Last(mounts)) ELSE mounts)

Unmount(v) ==
    /\ At(v) # 0
    /\ mounts' = Removed(At(v))
    /\ mounted' = {m \in mounted : m.at # v}
    /\ UNCHANGED mount_capacity

VfsCleanup ==
    mounts' = <<>> /\ mount_capacity' = 0 /\ mounted' = {}

VfsNext ==
    \/ \E v \in VirtualPaths, h \in Hosts, ro \in BOOLEAN : Mount([at |-> v, host |-> h, ro |-> ro])
    \/ \E v \in VirtualPaths : Unmount(v)
    \/ MountFails \/ VfsCleanup

VfsSpec == VfsInit /\ [][VfsNext]_vfsVars

\* ---------------------------------------------------------------- resolving
\* The mount's string is a prefix of the path's that ends at a component.
Covers(v, q) ==
    /\ IsPrefix(v.parts, q.parts)
    /\ v.slash => Len(q.parts) > Len(v.parts) \/ q.slash

\* strlen of a virtual path, for components of one character.
Length(v) == 2 * Len(v.parts) + IF v.slash THEN 1 ELSE 0

is_safe(q) == \A i \in DOMAIN q.parts : q.parts[i] \notin Unsafe

\* The index of the first of the longest matches, or 0: a later mount replaces
\* only a shorter one.
BestMount(q) ==
    LET best[i \in 0..Len(mounts)] ==
            IF i = 0 THEN 0
            ELSE IF /\ Covers(mounts[i].at, q)
                    /\ best[i - 1] # 0 => Length(mounts[i].at) > Length(mounts[best[i - 1]].at)
                 THEN i ELSE best[i - 1]
    IN  best[Len(mounts)]

Below(m, q) == SubSeq(q.parts, Len(m.at.parts) + 1, Len(q.parts))

\* <<>> is NULL: the path is not safe, no mount covers it, or the host file is
\* elsewhere than in the mount.
ember_vfs_resolve(q) ==
    LET best == BestMount(q) IN
    IF ~is_safe(q) \/ best = 0 THEN <<>>
    ELSE LET below == Below(mounts[best], q) IN
         IF \E i \in DOMAIN below : below[i] \in LinksOut THEN <<>> ELSE <<mounts[best].host, below>>

\* Unlike the resolution, the check takes the first mount that covers the path.
ember_vfs_check_access(q, write) ==
    LET first == SelectInSeq(mounts, LAMBDA m : Covers(m.at, q))
    IN first # 0 /\ ~(write /\ mounts[first].ro)

\* ---------------------------------------------------------------- properties
\* However mounts were added, replaced, removed and moved within the array, a
\* safe path resolves to the host directory last mounted at the deepest mount
\* point above it, and to nothing when there is none; and when one mount covers
\* a path the access check goes by that mount's flag.
MountsResolve ==
    /\ Len(mounts) <= mount_capacity /\ mount_capacity <= MaxMounts
    /\ ToSet(mounts) = mounted /\ Len(mounts) = Cardinality(mounted)
    /\ \A q \in Queries :
         LET above == {m \in mounted : Covers(m.at, q)} IN
         /\ ember_vfs_resolve(q) # <<>> =>
              /\ is_safe(q)
              /\ \E m \in above :
                   /\ \A n \in above : Length(n.at) <= Length(m.at)
                   /\ ember_vfs_resolve(q) = <<m.host, Below(m, q)>>
         /\ above # {} /\ is_safe(q) /\ ~(\E i \in DOMAIN q.parts : q.parts[i] \in LinksOut) =>
              ember_vfs_resolve(q) # <<>>
         /\ \A m \in above : above = {m} => ember_vfs_check_access(q, TRUE) = ~m.ro
         /\ above = {} => ~ember_vfs_check_access(q, FALSE)
=============================================================================
