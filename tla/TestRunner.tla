----------------------------- MODULE TestRunner -----------------------------
(***************************************************************************)
(* The testing framework (src/runtime/testing/testing_framework.c): suites *)
(* in a growing array, tests that run when they are added, assertions that *)
(* mark the running test, and the totals test_runner_run_all adds up.      *)
(* Names, messages and durations are left out, benchmarks too: they run a  *)
(* function between the same set-up and clean-up of the VM.                *)
(***************************************************************************)
EXTENDS Naturals, Sequences, SequencesExt, FiniteSets

CONSTANTS
    FirstSuites,    \* 4 in the code: the first capacity of the array of suites
    MaxSuites,      \* bound: suites
    MaxTests,       \* bound: tests
    MaxRuns         \* bound: calls of test_runner_run_all

VARIABLES
    suites,         \* each: the statuses of its tests and its four counters
    suite_capacity,
    usable,         \* the suites whose pointers the array has not moved away from
    current,        \* 0, or the suite of the running test
    status,         \* of the running test
    vm_error,       \* "yes": the VM has an error
    log,            \* "yes": an assertion of the running test failed
    verdicts,       \* per suite, what happened in its tests
    totals,         \* the counters of the runner
    stop_on_failure,
    runs            \* calls of run_all, and whether the last went through all suites

testVars == <<suites, suite_capacity, usable, current, status, vm_error, log, verdicts, totals, stop_on_failure, runs>>

Statuses == {"pass", "fail", "skip", "error"}
Zero == [s \in Statuses |-> 0]
NewSuite == [tests |-> <<>>, count |-> Zero]

TestInit ==
    /\ suites = <<>> /\ suite_capacity = 0 /\ usable = {} /\ current = 0 /\ status = "pass"
    /\ vm_error = "no" /\ log = "no" /\ verdicts = <<>> /\ totals = Zero
    /\ stop_on_failure \in BOOLEAN /\ runs = [number |-> 0, complete |-> "no"]

\* A full array doubles, which may move every suite: pointers handed out
\* before are then of no use. A failed realloc changes nothing.
AddSuite ==
    /\ current = 0 /\ Len(suites) < MaxSuites
    /\ suites' = Append(suites, NewSuite) /\ verdicts' = Append(verdicts, <<>>)
    /\ IF Len(suites) >= suite_capacity
       THEN /\ suite_capacity' = IF suite_capacity = 0 THEN FirstSuites ELSE 2 * suite_capacity
            /\ usable' = {Len(suites) + 1}
       ELSE usable' = usable \cup {Len(suites) + 1} /\ UNCHANGED suite_capacity
    /\ UNCHANGED <<current, status, vm_error, log, totals, stop_on_failure, runs>>

Tests == FoldLeft(LAMBDA n, s : n + Len(s.tests), 0, suites)

\* test_suite_add_test up to the call of the test: the VM is reset, errors cleared.
BeginTest(s) ==
    /\ current = 0 /\ s \in usable /\ Tests < MaxTests
    /\ current' = s /\ status' = "pass" /\ vm_error' = "no" /\ log' = "no"
    /\ UNCHANGED <<suites, suite_capacity, usable, verdicts, totals, stop_on_failure, runs>>

set_test_failure == status' = "fail" /\ log' = "yes"

\* Any of the test_assert_ functions whose condition does not hold.
AssertFails ==
    /\ current # 0 /\ set_test_failure
    /\ UNCHANGED <<suites, suite_capacity, usable, current, vm_error, verdicts, totals, stop_on_failure, runs>>

\* test_assert_throws clears the error, runs the function, and fails when it
\* raised none; an error that was raised is cleared, with or without the
\* expected text.
AssertThrows ==
    /\ current # 0 /\ vm_error' = "no"
    /\ set_test_failure \/ UNCHANGED <<status, log>>
    /\ UNCHANGED <<suites, suite_capacity, usable, current, verdicts, totals, stop_on_failure, runs>>

TestRaises ==
    /\ current # 0 /\ vm_error' = "yes"
    /\ UNCHANGED <<suites, suite_capacity, usable, current, status, log, verdicts, totals, stop_on_failure, runs>>

\* Variant: a failed assertion hides the error.
FinalKeepingFailure == IF vm_error = "yes" /\ status = "pass" THEN "error" ELSE status

\* An error of the VM at the end of the test overrides a failed assertion.
FinalStatus == IF vm_error = "yes" THEN "error" ELSE status

WithResult(suite, result) ==
    [tests |-> Append(suite.tests, result), count |-> [suite.count EXCEPT ![result] = @ + 1]]

\* The rest of test_suite_add_test: the status is settled and counted, the VM cleaned.
EndTest ==
    /\ current # 0
    /\ suites' = [suites EXCEPT ![current] = WithResult(@, FinalStatus)]
    /\ verdicts' = [verdicts EXCEPT ![current] = Append(@, [failed |-> log, error |-> vm_error])]
    /\ current' = 0 /\ status' = "pass" /\ vm_error' = "no" /\ log' = "no"
    /\ runs' = [runs EXCEPT !.complete = "no"]
    /\ UNCHANGED <<suite_capacity, usable, totals, stop_on_failure>>

\* How many suites run_all adds to the totals: all, or those before the first suite
\* with a failed test (not: an error) when it is to stop there.
Stops(s) == stop_on_failure /\ "fail" \in ToSet(s.tests)
Added ==
    LET stopping == {i \in DOMAIN suites : Stops(suites[i])}
    IN IF stopping = {} THEN Len(suites) ELSE Min(stopping) - 1
Sums ==
    [o \in Statuses |->
        LET sum[n \in 0..Added] == IF n = 0 THEN 0 ELSE sum[n - 1] + suites[n].count[o]
        IN sum[Added]]

\* Another call adds the same results again.
RunAll ==
    /\ current = 0 /\ runs.number < MaxRuns
    /\ totals' = [s \in Statuses |-> totals[s] + Sums[s]]
    /\ runs' = [number |-> runs.number + 1, complete |-> IF Added = Len(suites) THEN "yes" ELSE "no"]
    /\ UNCHANGED <<suites, suite_capacity, usable, current, status, vm_error, log, verdicts, stop_on_failure>>

TestNext ==
    \/ AddSuite \/ \E s \in DOMAIN suites : BeginTest(s)
    \/ AssertFails \/ AssertThrows \/ TestRaises \/ EndTest \/ RunAll

TestSpec == TestInit /\ [][TestNext]_testVars

\* test_runner_print_results: "ALL TESTS PASSED".
AllPassed == totals["fail"] = 0 /\ totals["error"] = 0

\* What happened in a test: an error was left at the end, else an assertion
\* failed, else neither.
Outcome(v) == IF v.error = "yes" THEN "error" ELSE IF v.failed = "yes" THEN "fail" ELSE "pass"
TestsWith(outcome, vs) == {i \in DOMAIN vs : Outcome(vs[i]) = outcome}

\* Each counter of a suite is the number of its tests in which that happened:
\* an error was left at the end, else an assertion failed, else neither. After
\* a run_all that went through all suites and no test since, the report says ALL TESTS PASSED
\* exactly when in no test anything failed.
ResultsCounted ==
    /\ \A s \in DOMAIN suites : \A o \in {"error", "fail", "pass"} :
         suites[s].count[o] = Cardinality(TestsWith(o, verdicts[s]))
    /\ runs.complete = "yes" =>
         (AllPassed <=> \A s \in DOMAIN suites : \A i \in DOMAIN verdicts[s] :
                            verdicts[s][i].failed = "no" /\ verdicts[s][i].error = "no")
=============================================================================
