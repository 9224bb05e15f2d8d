---------------------------- MODULE EmbeddingApi ----------------------------
(***************************************************************************)
(* The embedding interface of one VM (src/api.c): ember_import_module with *)
(* its search for the module's file, ember_add_module_path and ember_call. *)
(* ember_eval and ember_run are outside this repository; here they run a   *)
(* program that imports modules, calls functions and declares locals, and  *)
(* end with success or failure. Imports nest in them, so the C stack of    *)
(* the interface functions is a stack of frames.                           *)
(***************************************************************************)
EXTENDS Naturals, Integers, Sequences, SequencesExt, FiniteSets

CONSTANTS
    ModuleNames,     \* valid module names; invalid ones are refused at once
    CustomPaths,     \* the directories ember_add_module_path is given
    Places,          \* where the files of a module may be, see SearchOrder
    MaxPaths,        \* 8 in the code
    MaxModules,      \* EMBER_MAX_MODULES
    MaxLocals,       \* EMBER_MAX_LOCALS
    MaxArgs,         \* EMBER_MAX_ARGS, the largest argc
    MaxNesting,      \* bound: frames on the C stack
    MaxImports       \* bound: calls of ember_import_module that load

\* What a frame of ember_call has in place of a module's name.
CALL == "call()"

ASSUME ApiAssumption ==
    CALL \notin ModuleNames /\ MaxModules \in Nat /\ MaxLocals \in Nat /\ MaxArgs \in Nat

VARIABLES
    entries,         \* vm->modules: name, path, is_loaded
    paths,           \* vm->module_paths
    disk,            \* the places where each module's file is
    frames,          \* the calls of the interface in progress
    chunk,           \* vm->chunk, by the program it belongs to
    locals,          \* vm->local_count
    base,            \* the locals of the outermost program
    evaluated,       \* how often each module was executed to its end
    imports

apiVars == <<entries, paths, disk, frames, chunk, locals, base, evaluated, imports>>

LOADING == -1
NOT_LOADED == 0
LOADED == 1
Main == "main"

ApiInit ==
    /\ entries = <<>> /\ paths = <<>> /\ frames = <<>>
    /\ disk \in [ModuleNames -> SUBSET Places]
    /\ chunk = Main /\ locals = 0 /\ base = 0
    /\ evaluated = [m \in ModuleNames |-> 0] /\ imports = 0

\* ----------------------------------------------------- where a module is
\* The VM's own paths first, each with its direct file and its package, then
\* the fixed places.
Standard ==
    <<<<".", "m.ember">>, <<".", "m/package.ember">>, <<"user", "m/package.ember">>,
      <<"user", "m.ember">>, <<"system", "m/package.ember">>, <<"system", "m.ember">>,
      <<"stdlib", "m.ember">>, <<"executable", "m.ember">>, <<"executable", "m/package.ember">>>>
Custom(p) == <<<<p, "m.ember">>, <<p, "m/package.ember">>>>
SearchOrder == FlattenSeq([i \in DOMAIN paths |-> Custom(paths[i])]) \o Standard

\* The first readable one; <<>> stands for NULL.
ember_resolve_module_path_vm(m) ==
    LET found == SelectSeq(SearchOrder, LAMBDA place : place \in disk[m])
    IN IF found = <<>> THEN <<>> ELSE found[1]

\* Refused: eight paths already, the path is known, or it is not a readable directory.
AddModulePath(p) ==
    /\ Len(paths) < MaxPaths /\ p \notin {paths[i] : i \in DOMAIN paths}
    /\ paths' = Append(paths, p)
    /\ UNCHANGED <<entries, disk, frames, chunk, locals, base, evaluated, imports>>

\* ------------------------------------------------------------------ imports
Index(m) == SelectInSeq(entries, LAMBDA e : e.name = m)
is_loaded(m) == IF Index(m) = 0 THEN NOT_LOADED ELSE entries[Index(m)].is_loaded

\* A new entry is appended; an existing one takes the path found now.
Marked(m, path, mark) ==
    IF Index(m) = 0
    THEN Append(entries, [name |-> m, path |-> path, is_loaded |-> mark])
    ELSE [entries EXCEPT ![Index(m)] = [@ EXCEPT !.path = path, !.is_loaded = mark]]

\* Calls of the two kinds run a program until it ends.
Enter(frame, program, count) ==
    /\ Len(frames) < MaxNesting
    /\ frames' = Append(frames, frame)
    /\ chunk' = program /\ locals' = count

\* The calls that return at once: the module is loaded, is being loaded (the
\* circular import), is not found, or the table is full (even for a module
\* that has an entry) leave everything as it is. Otherwise the entry is marked,
\* the VM's chunk and local_count are saved and the module's source runs.
MayLoad(m) ==
    /\ is_loaded(m) = NOT_LOADED
    /\ ember_resolve_module_path_vm(m) # <<>> /\ Len(entries) < MaxModules

BeginImport(m) ==
    /\ MayLoad(m) /\ imports < MaxImports
    /\ entries' = Marked(m, ember_resolve_module_path_vm(m), LOADING)
    /\ Enter([import |-> m, chunk |-> chunk, locals |-> locals], m, 0)
    /\ imports' = imports + 1
    /\ UNCHANGED <<paths, disk, base, evaluated>>

\* Variant: the mark stays when the file cannot be used.
StillLoading == LOADING

\* The mark an import leaves behind when it fails.
AfterFailure == NOT_LOADED

\* The file cannot be opened, read or given a chunk after all.
ImportUnreadable(m) ==
    /\ MayLoad(m) /\ imports < MaxImports
    /\ entries' = Marked(m, ember_resolve_module_path_vm(m), AfterFailure)
    /\ imports' = imports + 1
    /\ UNCHANGED <<paths, disk, frames, chunk, locals, base, evaluated>>

Restore ==
    /\ chunk' = Last(frames).chunk /\ locals' = Last(frames).locals
    /\ frames' = Front(frames)

\* ember_eval has returned: the VM's state is restored, then the result decides the mark.
EndImport ==
    /\ frames # <<>> /\ Last(frames).import # CALL
    /\ Restore
    /\ LET m == Last(frames).import IN
       \/ /\ entries' = Marked(m, entries[Index(m)].path, LOADED)
          /\ evaluated' = [evaluated EXCEPT ![m] = @ + 1]
       \/ entries' = Marked(m, entries[Index(m)].path, AfterFailure) /\ UNCHANGED evaluated
    /\ UNCHANGED <<paths, disk, base, imports>>

\* -------------------------------------------------------------------- calls
\* ember_call of a function with bytecode: the arguments become locals as far
\* as there is room, the rest is dropped. A native runs without a frame.
BeginCall ==
    /\ \E argc \in 0..MaxArgs :
         Enter([import |-> CALL, chunk |-> chunk, locals |-> locals], "function",
               IF locals + argc > MaxLocals THEN MaxLocals ELSE locals + argc)
    /\ UNCHANGED <<entries, paths, disk, base, evaluated, imports>>

EndCall ==
    /\ frames # <<>> /\ Last(frames).import = CALL
    /\ Restore
    /\ UNCHANGED <<entries, paths, disk, base, evaluated, imports>>

\* The running program declares a local, in the interpreter.
Declare ==
    /\ locals < MaxLocals
    /\ locals' = locals + 1
    /\ base' = IF frames = <<>> THEN base + 1 ELSE base
    /\ UNCHANGED <<entries, paths, disk, frames, chunk, evaluated, imports>>

FileMoves(m, place) ==
    /\ disk' = [disk EXCEPT ![m] = IF place \in @ THEN @ \ {place} ELSE @ \cup {place}]
    /\ UNCHANGED <<entries, paths, frames, chunk, locals, base, evaluated, imports>>

ApiNext ==
    \/ \E p \in CustomPaths : AddModulePath(p)
    \/ \E m \in ModuleNames : BeginImport(m) \/ ImportUnreadable(m)
    \/ \E m \in ModuleNames, place \in Places : FileMoves(m, place)
    \/ EndImport \/ BeginCall \/ EndCall \/ Declare

ApiSpec == ApiInit /\ [][ApiNext]_apiVars

\* A module is marked as loading exactly while its import is on the stack, and
\* is on it once: a cycle of imports is refused and a failed import can be
\* tried again. No module's code runs to its end twice. Modules have one entry
\* each. When all imports and calls have returned, the outermost program has
\* its chunk and its locals back, however they nested and failed.
ImportsRight ==
    /\ \A m \in ModuleNames :
         /\ Cardinality({i \in DOMAIN frames : frames[i].import = m}) = IF is_loaded(m) = LOADING THEN 1 ELSE 0
         /\ evaluated[m] = IF is_loaded(m) = LOADED THEN 1 ELSE 0
    /\ \A i, j \in DOMAIN entries : entries[i].name = entries[j].name => i = j
    /\ Len(entries) <= MaxModules /\ locals <= MaxLocals
    /\ frames = <<>> => chunk = Main /\ locals = base
=============================================================================
