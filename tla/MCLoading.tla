----------------------------- MODULE MCLoading -----------------------------
(***************************************************************************)
(* How code is found and loaded: the module system, the package system and *)
(* the comparison of versions, on small instances. They share no state: a  *)
(* behaviour is about one of them, the others stand still. Versions are    *)
(* compared three at a time, from a sample with every number of parts, tag *)
(* and build.                                                              *)
(***************************************************************************)
EXTENDS ModuleSystem, PackageSystem, SemVer

VARIABLES
    about,
    sample   \* the versions compared

Numbers == {<<1>>, <<2>>, <<0, 1>>, <<1, 1>>} \cup {<<a, b, c>> : a, b, c \in 0..2}
SampleVersions ==
    [word: {0}, nums: Numbers, pre: {0}, build: {0}]
    \cup [word: {0}, nums: {<<1>>, <<1, 0, 0>>, <<1, 0, 1>>}, pre: 1..2, build: 0..1]
    \cup [word: {LATEST}, nums: {<<>>}, pre: {0}, build: {0}]

MCInit ==
    /\ ModuleInit /\ PackageInit
    /\ \/ about = "modules" /\ sample = <<>>
       \/ about = "packages" /\ files = {} /\ sample = <<>>
       \/ /\ about = "versions" /\ files = {}
          /\ sample \in SampleVersions \X SampleVersions \X SampleVersions
MCNext ==
    /\ UNCHANGED <<about, sample>>
    /\ \/ about = "modules" /\ ModuleNext /\ UNCHANGED packageVars
       \/ about = "packages" /\ PackageNext /\ UNCHANGED moduleVars
MCSpec == MCInit /\ [][MCNext]_<<about, sample, moduleVars, packageVars>>

\* ember_package_version_compare is antisymmetric and transitive on all versions
\* that parse, and puts a pre-release before its release; and among releases ^v
\* and ~v accept exactly the versions from v up to the next major, or minor,
\* version, as the comments in version_satisfies say: a version that sorted
\* differently in two comparisons would make an upgrade a downgrade.
VersionsOrdered ==
    about = "versions" =>
        /\ Orders(sample[1], sample[2], sample[3])
        /\ Pre(sample[1]) = 0 /\ Pre(sample[2]) = 0 => RangeRight(sample[1], sample[2])
=============================================================================
