------------------------------- MODULE MCHost -------------------------------
(***************************************************************************)
(* The parts an embedding program calls besides the pools: the bytecode    *)
(* cache with hot reload, the VM pool of the API, imports and calls, the   *)
(* virtual file system and the testing framework. They share no state: a   *)
(* behaviour is about one of them, the others stand still.                 *)
(***************************************************************************)
EXTENDS BytecodeCache, SecureVmPool, EmbeddingApi, Vfs, TestRunner

VARIABLE about

MCDefaults == <<1, 3, 4>>
MCConfigs == {<<2, 2, 3>>, <<1, 0, 2>>, <<9, 1, 1>>}

MCPlaces == {<<"lib", "m.ember">>, <<"stdlib", "m.ember">>}

Path(parts, slash) == [parts |-> parts, slash |-> slash]
MCVirtualPaths == {Path(<<>>, TRUE), Path(<<"a">>, FALSE), Path(<<"a">>, TRUE), Path(<<"a", "b">>, FALSE)}
MCQueries ==
    {Path(<<>>, TRUE)} \cup
    {Path(parts, slash) : parts \in {<<"a">>, <<"b">>, <<"a", "b">>, <<"a", "c">>, <<"a", "b", "c">>,
                                     <<"a", "..", "b">>, <<"a", "link">>},
                          slash \in BOOLEAN}

MCInit ==
    /\ BytecodeInit /\ SecureInit /\ ApiInit /\ VfsInit /\ TestInit
    /\ about \in {"cache", "pool", "api", "vfs", "tests"}
    /\ about # "api" => disk = [m \in ModuleNames |-> {}]
    /\ about # "tests" => ~stop_on_failure

MCNext ==
    /\ UNCHANGED about
    /\ \/ about = "cache" /\ BytecodeNext /\ UNCHANGED <<secureVars, apiVars, vfsVars, testVars>>
       \/ about = "pool" /\ SecureNext /\ UNCHANGED <<bytecodeVars, apiVars, vfsVars, testVars>>
       \/ about = "api" /\ ApiNext /\ UNCHANGED <<bytecodeVars, secureVars, vfsVars, testVars>>
       \/ about = "vfs" /\ VfsNext /\ UNCHANGED <<bytecodeVars, secureVars, apiVars, testVars>>
       \/ about = "tests" /\ TestNext /\ UNCHANGED <<bytecodeVars, secureVars, apiVars, vfsVars>>
MCSpec ==
    /\ MCInit /\ [][MCNext]_<<about, bytecodeVars, secureVars, apiVars, vfsVars, testVars>>
    /\ BytecodeFairness
=============================================================================
