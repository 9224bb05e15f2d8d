---------------------------- MODULE ModuleSystem ----------------------------
(***************************************************************************)
(* Module resolution, loading and caching of src/runtime/module_system.c.  *)
(*                                                                         *)
(* The registry of loaded modules and the stack of modules being loaded    *)
(* are two linked lists that share the field `next` of the contexts.  The  *)
(* operators below change a record that holds both heads and the contexts, *)
(* one operator per C function, and a load composes them in the order of   *)
(* the code.  The interpreter is single-threaded and load_file_module does *)
(* not yet run the module it reads, so a load is one step.                 *)
(*                                                                         *)
(* A path is the place a module was found at and its name; the text of     *)
(* paths and their length limit are left out.                              *)
(***************************************************************************)
EXTENDS Integers, Sequences, SequencesExt

CONSTANTS
    CoreModules,    \* the names in core_modules
    ModuleNames,          \* the other names modules are imported by
    Dirs,           \* directories of importing files
    HomeSet,        \* is the environment variable HOME set?
    MaxLoads        \* bound: how many loads there are

ASSUME BoundAssumption == HomeSet \in BOOLEAN /\ MaxLoads \in Nat

NULL == 0
Contexts == 1..MaxLoads

\* Where ember_resolve_module_path looks for a package, in its order.
SearchPath ==
    <<"node_modules", "node_modules_index", "lib">>
      \o (IF HomeSet THEN <<"home">> ELSE <<>>) \o <<"system", "cwd">>
Places == Dirs \cup ToSet(SearchPath) \cup {"/"}
Paths == (Places \X ModuleNames) \cup ({"core"} \X CoreModules)

\* The forms of a module name: a core module, "./m", "../m", "/m" and a package.
Imports == ({"core"} \X CoreModules) \cup ({"./", "../", "/", "package"} \X ModuleNames)

VARIABLES
    files,      \* the files that exist
    mem,        \* registry, stack, and the contexts' fields
    first,      \* history: first[p], the exports the first load of p returned
    last,       \* history: the path and result of the last load since a clean-up
    loads       \* how many loads there were

moduleVars == <<files, mem, first, last, loads>>

\* An exports map is identified by the load that made it.
NoExports == 0

-----------------------------------------------------------------------------
(* The contexts and the two lists.                                         *)

\* The contexts of the list that starts at c.
ListFrom(m, c) ==
    LET list[n \in 0..MaxLoads] ==
            IF n = 0 THEN <<>>
            ELSE LET prefix == list[n - 1]
                     following == IF prefix = <<>> THEN c ELSE m.next[Last(prefix)]
                 IN  IF following = NULL THEN prefix ELSE Append(prefix, following)
    IN  list[MaxLoads]

\* The first context of a list with a path, or NULL.
FindIn(m, head, p) ==
    LET list == ListFrom(m, head)
        at == {i \in 1..Len(list) : m.path[list[i]] = p}
    IN  IF at = {} THEN NULL ELSE list[CHOOSE i \in at : \A j \in at : i <= j]

\* ember_get_module_context and ember_detect_circular_dependency
GetContext(m, p) == FindIn(m, m.registry, p)
DetectCircular(m, p) == FindIn(m, m.stack, p) # NULL

\* Variant for sensitivity checks: the context is not entered in the registry.
CreateContextUnlinked(m, c, p) ==
    [m EXCEPT !.path[c] = p, !.state[c] = "created", !.next[c] = m.registry]

\* ember_create_module_context: context c, put in front of the registry.
CreateContext(m, c, p) ==
    [m EXCEPT !.path[c] = p, !.state[c] = "created", !.next[c] = m.registry, !.registry = c]

\* Variant: the context keeps its place on the stack.
PopContextKeeping(m) == [m EXCEPT !.next[m.stack] = NULL]

\* ember_push_module_context and ember_pop_module_context
PushContext(m, c) == [m EXCEPT !.next[c] = m.stack, !.stack = c]
PopContext(m) == [m EXCEPT !.stack = m.next[m.stack], !.next[m.stack] = NULL]

\* ember_mark_module_loading and ember_mark_module_loaded look the path up again;
\* load_file_module has put its context in front of the registry by then.
MarkModule(m, p, s) == [m EXCEPT !.state[GetContext(m, p)] = s]

\* load_file_module
LoadFile(m, c, p) ==
    PopContext(MarkModule(MarkModule(PushContext(CreateContext(m, c, p), c), p, "loading"),
                          p, "loaded"))

-----------------------------------------------------------------------------
\* ember_resolve_module_path, for an import in a file of directory d.  Both "./"
\* and "../" are cut off and the rest is appended to d.
Resolve(imp, d) ==
    IF imp[1] \in {"core", "/"} THEN imp
    ELSE IF imp[1] \in {"./", "../"} THEN <<d, imp[2]>>
    ELSE LET hits == SelectSeq(SearchPath, LAMBDA place : <<place, imp[2]>> \in files)
         IN  IF hits = <<>> THEN <<"cwd", imp[2]>> ELSE <<Head(hits), imp[2]>>

ModuleInit ==
    /\ files \in SUBSET (Places \X ModuleNames)
    /\ mem = [registry |-> NULL, stack |-> NULL,
              next |-> [c \in Contexts |-> NULL],
              path |-> [c \in Contexts |-> <<>>],
              state |-> [c \in Contexts |-> "none"]]
    /\ first = [p \in Paths |-> NoExports]
    /\ last = <<>>
    /\ loads = 0

-----------------------------------------------------------------------------
(* ember_load_module                                                       *)

\* A load of p returns these exports.
Returned(p, exports) ==
    /\ loads < MaxLoads
    /\ first' = IF first[p] = NoExports THEN [first EXCEPT ![p] = exports] ELSE first
    /\ last' = [path |-> p, result |-> exports]
    /\ loads' = loads + 1
    /\ UNCHANGED files

Cached(p) == GetContext(mem, p) # NULL /\ mem.state[GetContext(mem, p)] = "loaded"

\* The module is in the cache, and not being loaded.
LoadCached(imp, d) ==
    LET p == Resolve(imp, d) IN
        /\ ~DetectCircular(mem, p) /\ Cached(p)
        /\ Returned(p, GetContext(mem, p))
        /\ UNCHANGED mem

\* A core module is built anew by its initializer.
LoadCore(imp, d) ==
    LET p == Resolve(imp, d) IN
        /\ ~DetectCircular(mem, p) /\ ~Cached(p) /\ p[1] = "core"
        /\ Returned(p, loads + 1)
        /\ UNCHANGED mem

\* load_file_module reads the file.
LoadFileModule(imp, d) ==
    LET p == Resolve(imp, d) IN
        /\ ~DetectCircular(mem, p) /\ ~Cached(p) /\ p \in files
        /\ Returned(p, loads + 1)
        /\ mem' = LoadFile(mem, loads + 1, p)

\* nil: the module is being loaded, or its file is missing or cannot be read.
LoadNothing(imp, d) ==
    LET p == Resolve(imp, d) IN
        /\ DetectCircular(mem, p) \/ (~Cached(p) /\ p[1] # "core")
        /\ Returned(p, NoExports)
        /\ UNCHANGED mem

\* ember_module_system_cleanup: the contexts on the registry are freed.
Cleanup ==
    /\ mem.registry # NULL
    /\ mem' = [mem EXCEPT !.registry = NULL, !.stack = NULL,
                          !.state = [c \in Contexts |->
                              IF c \in ToSet(ListFrom(mem, mem.registry)) THEN "freed"
                              ELSE mem.state[c]]]
    /\ first' = [p \in Paths |-> NoExports] /\ last' = <<>>
    /\ UNCHANGED <<files, loads>>

\* A file appears or goes away.
FileChange ==
    /\ \E f \in Places \X ModuleNames :
          files' = IF f \in files THEN files \ {f} ELSE files \cup {f}
    /\ UNCHANGED <<mem, first, last, loads>>

Load(imp, d) ==
    LoadCached(imp, d) \/ LoadCore(imp, d) \/ LoadFileModule(imp, d) \/ LoadNothing(imp, d)

ModuleNext == (\E imp \in Imports, d \in Dirs : Load(imp, d)) \/ Cleanup \/ FileChange

ModuleSpec == ModuleInit /\ [][ModuleNext]_moduleVars

-----------------------------------------------------------------------------
(* Properties.                                                             *)

\* Between loads no module is being loaded and the stack is empty, so that a load
\* is never refused as circular; whatever the shared `next` does, the registry is
\* a list of loaded modules, none of them freed, and Cleanup frees none twice.
ListsSound ==
    LET list == ListFrom(mem, mem.registry) IN
        /\ \A c \in Contexts : mem.next[c] \in 0..MaxLoads /\ mem.path[c] \in Paths \cup {<<>>}
        /\ mem.stack = NULL
        /\ \A c \in Contexts : mem.state[c] # "loading"
        /\ \A i \in 1..Len(list) : mem.state[list[i]] = "loaded"
        /\ \A i, j \in 1..Len(list) : list[i] = list[j] => i = j

\* A load that gave a file's exports leaves that module in the cache, although
\* pushing and popping its context rewrites the link the registry uses.
LastLoadCached ==
    (last # <<>> /\ last.path[1] # "core" /\ last.result # NoExports) =>
        GetContext(mem, last.path) = last.result

\* "Modules are cached after first load": every load of a file gives the exports
\* its first load gave, until the module system is cleaned up.
CachedAfterFirstLoad ==
    [][loads' > loads /\ last'.path[1] # "core" /\ last'.result # NoExports
         => last'.result = first'[last'.path]]_moduleVars
=============================================================================
