---------------------------- MODULE PackageSystem ----------------------------
(***************************************************************************)
(* Packages and projects of src/runtime/package/package.c, with the import *)
(* statement of the compiler and ember_install_library, which drive them.  *)
(*                                                                         *)
(* A package structure is copied by value: the project keeps one, the      *)
(* registry another, and both hold the handle of the one VM the package    *)
(* was loaded into.  The state of ~/.ember/packages is what the functions  *)
(* find out about it: is there a directory, a package.ember in it, and     *)
(* does that file pass validation and evaluation.                          *)
(***************************************************************************)
EXTENDS Integers, Sequences

CONSTANTS
    Bases,       \* package names that pass ember_package_validate_name
    MaxPad,      \* bound: trailing blanks a name may collect
    Versions,    \* the versions a dependency may ask for
    MaxVms,      \* bound: package VMs ever created
    MaxGlobals   \* EMBER_MAX_GLOBALS, of the VM packages are imported into

ASSUME PackageBounds ==
    MaxPad \in Nat /\ MaxVms \in Nat \ {0} /\ MaxGlobals \in Nat \ {0}

\* Clients give names without blanks; ember_project_load_from_file adds them.
Names == Bases \X (0..MaxPad)
NoVm == 0

VARIABLES
    disk,     \* the directory of each package
    remote,   \* what the repository has, external
    on,       \* g_package_registry is there: "yes" or "no"
    reg,      \* registry->packages
    project,  \* the name of the project structure: "none", "given" or "untitled"
    deps,     \* project->dependencies
    file,     \* ember.toml: <<>> or <<name, <<dependency lines>>>>
    vms,      \* history: the state of every package VM created
    globals,  \* the functions registered in the importing VM
    at,       \* the dependency being installed or line being read; 0: none
    result    \* of the last operation, where a property looks at it

store == <<disk, remote>>
packageVars == <<disk, remote, on, reg, project, deps, file, vms, globals, at, result>>

PackageInit ==
    /\ disk = [n \in Names |-> "absent"] /\ remote = {}
    /\ on = "no" /\ reg = <<>>
    /\ project = "none" /\ deps = <<>> /\ file = <<>>
    /\ vms = <<>> /\ globals = <<>>
    /\ at = 0 /\ result = "none"

-----------------------------------------------------------------------------
(* The operations on one package.                                          *)

\* ember_package_validate_structure
Valid(content) == content \in {"user", "stub"}

\* ember_package_discover
Discover(n, v) ==
    [name |-> n, version |-> v, path |-> IF disk[n] = "absent" THEN "unset" ELSE "set",
     loaded |-> "no", handle |-> NoVm]

\* What ember_package_download can come to.  A directory that cannot be created
\* makes it return -1, which is true; so does a package.ember that cannot be written.
Downloads(n) ==
    {"written", "unwritten", "nopackages"} \cup IF disk[n] = "absent" THEN {"nodir"} ELSE {}

Downloaded(d, p, o) ==
    [disk |-> CASE o = "written" -> [d EXCEPT ![p.name] = "stub"]
                [] o = "unwritten" /\ d[p.name] = "absent" -> [d EXCEPT ![p.name] = "empty"]
                [] OTHER -> d,
     pkg |-> IF o = "nopackages" THEN p ELSE [p EXCEPT !.path = "set"]]

\* ember_package_load up to the evaluation: the package is downloaded unless its
\* directory is found under the path it was discovered with.
Located(p, o) ==
    IF p.path = "unset" \/ disk[p.name] = "absent"
    THEN Downloaded(disk, p, o) ELSE [disk |-> disk, pkg |-> p]

Opens(l) == l.pkg.path = "set" /\ l.disk[l.pkg.name] \in {"user", "stub", "bad"}

\* Variant: a package that is loaded already is unloaded first.
FreedBeforeLoad(p) ==
    IF p.loaded = "yes"
    THEN [vms EXCEPT ![p.handle] = IF @ = "live" THEN "freed" ELSE "twice"] ELSE vms

\* ember_package_load looks neither at loaded nor at handle.
BeforeLoad(p) == vms

\* The rest of it.  A VM is created for a package.ember that opens; it is kept if
\* the evaluation succeeds (e) and freed otherwise.
Evaluated(l, e) ==
    LET good == Opens(l) /\ l.disk[l.pkg.name] # "bad" /\ e
    IN [disk |-> l.disk, ok |-> good,
        vms |-> IF ~Opens(l) THEN BeforeLoad(l.pkg)
                ELSE Append(BeforeLoad(l.pkg), IF good THEN "live" ELSE "freed"),
        pkg |-> IF good THEN [l.pkg EXCEPT !.loaded = "yes", !.handle = Len(vms) + 1]
                ELSE l.pkg]

\* What ember_package_load(p) can come to.
Loads(p) ==
    {Evaluated(Located(p, o), e) : o \in Downloads(p.name), e \in BOOLEAN}

\* ember_free_vm of a handle.
Freed(s, h) == [s EXCEPT ![h] = IF @ = "live" THEN "freed" ELSE "twice"]

\* ember_package_unload
HasVm(p) == p.loaded = "yes" /\ p.handle # NoVm
Unloaded(p) == [p EXCEPT !.loaded = "no", !.handle = IF HasVm(p) THEN NoVm ELSE @]

\* ember_package_registry_add
RegistryAdd(r, p) ==
    IF \E i \in 1..Len(r) : r[i].name = p.name
    THEN [i \in 1..Len(r) |-> IF r[i].name = p.name THEN p ELSE r[i]]
    ELSE Append(r, p)

-----------------------------------------------------------------------------
(* The package system and the registry.                                    *)
Idle == at = 0
Room == Len(vms) < MaxVms

\* ember_package_system_init
SystemInit ==
    /\ Idle /\ on = "no"
    /\ on' = "yes" /\ reg' = <<>> /\ result' = "none"
    /\ UNCHANGED <<store, project, deps, file, vms, globals, at>>

\* ember_package_system_cleanup unloads what is in the registry.
SystemCleanup ==
    /\ Idle /\ on = "yes"
    /\ vms' = [h \in 1..Len(vms) |->
                  LET owners == {i \in 1..Len(reg) : HasVm(reg[i]) /\ reg[i].handle = h}
                  IN IF owners = {} THEN vms[h]
                     ELSE IF vms[h] = "live" /\ \A i, j \in owners : i = j
                     THEN "freed" ELSE "twice"]
    /\ on' = "no" /\ reg' = <<>> /\ result' = "none"
    /\ UNCHANGED <<store, project, deps, file, globals, at>>

\* ember_package_unload of a package found in the registry.
Unload(i) ==
    /\ Idle /\ on = "yes" /\ i \in 1..Len(reg)
    /\ vms' = IF HasVm(reg[i]) THEN Freed(vms, reg[i].handle) ELSE vms
    /\ reg' = [reg EXCEPT ![i] = Unloaded(@)] /\ result' = "none"
    /\ UNCHANGED <<store, on, project, deps, file, globals, at>>

\* ember_package_register_functions with a package whose VM defines one function:
\* under the name of the package, and under its own unless that is taken.
Registered(g, p) ==
    LET g2 == Append(g, [key |-> p.name, vm |-> p.handle])
        taken == \E j \in 1..(Len(g2) - 1) : g2[j].key = "f"
    IN IF Len(g) >= MaxGlobals THEN g
       ELSE IF Len(g2) < MaxGlobals /\ ~taken
       THEN Append(g2, [key |-> "f", vm |-> p.handle]) ELSE g2

\* ember_package_import_into_vm of a package found in the registry.
ImportIntoVm(i) ==
    /\ Idle /\ on = "yes" /\ i \in 1..Len(reg) /\ Room
    /\ \E r \in IF reg[i].loaded = "yes"
                THEN {[disk |-> disk, vms |-> vms, ok |-> TRUE, pkg |-> reg[i]]}
                ELSE Loads(reg[i]) :
          /\ disk' = r.disk /\ vms' = r.vms
          /\ reg' = [reg EXCEPT ![i] = r.pkg]
          /\ globals' = IF r.ok THEN Registered(globals, r.pkg) ELSE globals
    /\ result' = "none"
    /\ UNCHANGED <<remote, on, project, deps, file, at>>

\* import_statement: the package structure is a local variable, so the copy in the
\* registry is the only one left of it.
ImportStatement(n, v) ==
    /\ Idle /\ Room
    /\ \E r \in Loads(Discover(n, v)) :
          /\ disk' = r.disk /\ vms' = r.vms
          /\ reg' = IF r.ok /\ on = "yes" THEN RegistryAdd(reg, r.pkg) ELSE reg
    /\ result' = "none"
    /\ UNCHANGED <<remote, on, project, deps, file, globals, at>>

\* ember_install_library: what is copied becomes package.ember or not, and passes
\* validation or not; the package is then registered, not loaded.  A source that
\* cannot be read ends it after the package system was initialised.
InstallLibraryFails(n) ==
    /\ Idle /\ on = "no" /\ on' = "yes" /\ result' = "none"
    /\ UNCHANGED <<store, reg, project, deps, file, vms, globals, at>>

InstallLibrary(n) ==
    /\ Idle
    /\ on' = "yes"
    /\ \E c \in {"user", "bad", "other"} :
          LET content == IF c # "other" THEN c
                         ELSE IF disk[n] = "absent" THEN "empty" ELSE disk[n]
              p == [name |-> n, version |-> "installed", path |-> "set",
                    loaded |-> "no", handle |-> NoVm]
          IN /\ disk' = [disk EXCEPT ![n] = content]
             /\ reg' = IF Valid(content) THEN RegistryAdd(reg, p) ELSE reg
    /\ result' = "none"
    /\ UNCHANGED <<remote, project, deps, file, vms, globals, at>>

-----------------------------------------------------------------------------
(* The repository.                                                         *)

\* ember_package_fetch_from_repository: nothing arrives; the archive does not
\* unpack into the new directory; it does, and its content is valid or not.
Fetch(n) ==
    /\ Idle /\ n \in remote
    /\ \E c \in {disk[n], "user", "bad"} \cup IF disk[n] = "absent" THEN {"empty"} ELSE {} :
          disk' = [disk EXCEPT ![n] = c]
    /\ result' = "none"
    /\ UNCHANGED <<remote, on, reg, project, deps, file, vms, globals, at>>

\* ember_package_publish_to_repository: validated first, then uploaded or not.
Publish(i) ==
    /\ Idle /\ i \in 1..Len(reg)
    /\ reg[i].path = "set" /\ Valid(disk[reg[i].name])
    /\ remote' = remote \cup {reg[i].name}
    /\ result' = "none"
    /\ UNCHANGED <<disk, on, reg, project, deps, file, vms, globals, at>>

-----------------------------------------------------------------------------
(* The project.                                                            *)

\* ember_project_init
NewProject ==
    /\ Idle
    /\ project' = "given" /\ deps' = <<>> /\ result' = "none"
    /\ UNCHANGED <<store, on, reg, file, vms, globals, at>>

\* ember_project_add_dependency
WithDependency(ds, n, v) ==
    IF \E i \in 1..Len(ds) : ds[i].name = n
    THEN [i \in 1..Len(ds) |-> IF ds[i].name = n THEN [ds[i] EXCEPT !.version = v] ELSE ds[i]]
    ELSE Append(ds, Discover(n, v))

\* Called by a client or by ember_project_scan_imports for an import it finds.
AddDependency(n, v) ==
    /\ Idle /\ project # "none"
    /\ deps' = WithDependency(deps, n, v) /\ result' = "none"
    /\ UNCHANGED <<store, on, reg, project, file, vms, globals, at>>

\* A line is written as `key = "value"`.  The loader cuts it at the '=' and takes
\* the blanks before the key away, not the one behind it.
KeyRead(n) == <<n[1], n[2] + 1>>
MetaKnown(pad) == pad = 0

\* ember_project_save_to_file, as ember_project_generate_default calls it too.
\* MaxPad bounds how often the same names are saved and loaded.
SaveProject ==
    /\ Idle /\ project # "none"
    /\ \A i \in 1..Len(deps) : KeyRead(deps[i].name) \in Names
    /\ file' = <<project, [i \in 1..Len(deps) |-> <<deps[i].name, deps[i].version>>]>>
    /\ result' = "none"
    /\ UNCHANGED <<store, on, reg, project, deps, vms, globals, at>>

\* ember_project_load_from_file of what ember_project_save_to_file wrote: the key
\* of the project's name is read like any other. Then come the dependencies.
LoadProject ==
    /\ Idle /\ file # <<>>
    /\ project' = IF MetaKnown(KeyRead(<<"name", 0>>)[2]) THEN file[1] ELSE "untitled"
    /\ deps' = <<>>
    /\ at' = (IF Len(file[2]) = 0 THEN 0 ELSE 1)
    /\ result' = (IF Len(file[2]) = 0 THEN "loaded" ELSE "loading")
    /\ UNCHANGED <<store, on, reg, file, vms, globals>>

LoadLine ==
    /\ result = "loading" /\ at \in 1..Len(file[2])
    /\ deps' = WithDependency(deps, KeyRead(file[2][at][1]), file[2][at][2])
    /\ at' = (IF at = Len(file[2]) THEN 0 ELSE at + 1)
    /\ result' = (IF at = Len(file[2]) THEN "loaded" ELSE "loading")
    /\ UNCHANGED <<store, on, reg, project, file, vms, globals>>

\* ember_project_install_dependencies: the loop over the dependencies.
InstallStart ==
    /\ Idle /\ deps # <<>> /\ Len(vms) + Len(deps) <= MaxVms
    /\ on' = "yes" /\ at' = 1 /\ result' = "ok"
    /\ UNCHANGED <<store, reg, project, deps, file, vms, globals>>

\* Variant: a package that does not load does not count as a failure.
InstallResultAnyway(r) == result
InstallResult(r) == IF r.ok THEN result ELSE "failed"

InstallNext ==
    /\ result # "loading" /\ at \in 1..Len(deps)
    /\ \E r \in Loads(deps[at]) :
          /\ disk' = r.disk /\ vms' = r.vms
          /\ deps' = [deps EXCEPT ![at] = r.pkg]
          /\ reg' = IF r.ok THEN RegistryAdd(reg, r.pkg) ELSE reg
          /\ result' = InstallResult(r)
    /\ at' = IF at = Len(deps) THEN 0 ELSE at + 1
    /\ UNCHANGED <<remote, on, project, file, globals>>

PackageNext ==
    \/ SystemInit \/ SystemCleanup \/ NewProject \/ SaveProject
    \/ LoadProject \/ LoadLine \/ InstallStart \/ InstallNext
    \/ \E i \in 1..Len(reg) : Unload(i) \/ ImportIntoVm(i) \/ Publish(i)
    \/ \E n \in Bases \X {0} :
          \/ InstallLibrary(n) \/ InstallLibraryFails(n) \/ Fetch(n)
          \/ \E v \in Versions : ImportStatement(n, v) \/ AddDependency(n, v)

PackageSpec == PackageInit /\ [][PackageNext]_packageVars

-----------------------------------------------------------------------------
(* Properties.                                                             *)

\* Whatever is installed, imported, reloaded, unloaded and cleaned up, in any
\* order, ember_free_vm is called at most once for a package VM, and an entry of
\* the registry that says it is loaded has a VM: the copies that the project and
\* the registry hold of one handle are never both freed.
VmsFreedOnce ==
    /\ \A h \in 1..Len(vms) : vms[h] # "twice"
    /\ \A i \in 1..Len(reg) : HasVm(reg[i]) => vms[reg[i].handle] = "live"

\* When ember_project_install_dependencies returns true, every dependency is
\* loaded into a VM of its own that is alive, and the registry has it.
InstallTruthful ==
    Idle /\ result = "ok" =>
        \A i \in 1..Len(deps) :
            /\ HasVm(deps[i]) /\ vms[deps[i].handle] = "live"
            /\ \E j \in 1..Len(reg) : reg[j] = deps[i]
            /\ \A j \in 1..Len(deps) : deps[i].handle = deps[j].handle => i = j

\* A project that is saved and loaded again has its name and its dependencies.
ReloadedAsSaved ==
    result = "loaded" =>
        /\ project = file[1]
        /\ \A i \in 1..Len(deps) : deps[i].name = file[2][i][1]
=============================================================================
