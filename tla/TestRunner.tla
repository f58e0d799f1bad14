----------------------------- MODULE TestRunner -----------------------------
(* The unit-test runner of test/main.c.  A batch is a sequence of tests, and *)
(* a test the set of the results it may have.                                *)
EXTENDS Integers, Sequences

CONSTANT Batches

TEST_RESULT == {"passed", "warn", "fail_continue", "fail_fatal"}

ASSUME BatchesAssumption == Batches \in Seq(Seq(SUBSET TEST_RESULT))

VARIABLES
    total, skipped, passed, warned, failed, cancel_batch, cancel_now,
    batch,      \* batches begun
    i,          \* tests of the current batch that have run
    running     \* run_test_batch is in its loop

status == <<total, skipped, passed, warned, failed, cancel_batch, cancel_now>>
testVars == <<status, batch, i, running>>

Count == Len(Batches[batch])

(* test_all clears the counters.                                             *)
TestsInit ==
    /\ total = 0 /\ skipped = 0 /\ passed = 0 /\ warned = 0 /\ failed = 0
    /\ cancel_batch = FALSE /\ cancel_now = FALSE
    /\ batch = 0 /\ i = 0 /\ running = FALSE

(* run_test_batch, up to its loop.                                           *)
RunBatch ==
    /\ ~running /\ batch < Len(Batches)
    /\ batch' = batch + 1 /\ i' = 0
    /\ total' = total + Len(Batches[batch + 1])
    /\ running' = (Batches[batch + 1] # <<>>)
    /\ UNCHANGED <<skipped, passed, warned, failed, cancel_batch, cancel_now>>

(* The counters run_test changes; a test with a warning has passed too.      *)
run_test(r) ==
    /\ passed' = IF r \in {"passed", "warn"} THEN passed + 1 ELSE passed
    /\ warned' = IF r = "warn" THEN warned + 1 ELSE warned
    /\ failed' = IF r \in {"fail_continue", "fail_fatal"} THEN failed + 1 ELSE failed
    /\ cancel_batch' = (cancel_batch \/ r \in {"fail_continue", "fail_fatal"})
    /\ cancel_now' = (cancel_now \/ r = "fail_fatal")

(* Mutant: the test that failed is skipped too.                              *)
SkipCount_Off == Count - i
SkipCount == Count - i - 1

(* One turn of the loop: it ends with the batch, or early when cancel_now is *)
(* set, by this test or by one of an earlier batch.                          *)
RunTest ==
    /\ running
    /\ \E r \in Batches[batch][i + 1] : run_test(r)
    /\ i' = i + 1
    /\ skipped' = IF cancel_now' THEN skipped + SkipCount ELSE skipped
    /\ running' = (~cancel_now' /\ i + 1 < Count)
    /\ UNCHANGED <<total, batch>>

TestsNext == RunBatch \/ RunTest
TestsSpec == TestsInit /\ [][TestsNext]_testVars

TestsDone == ~running /\ batch = Len(Batches)

Left == IF running THEN Count - i ELSE 0

(* What kernel_main prints adds up: every test counted in the total passed,  *)
(* failed, was skipped, or is still to run, and those with a warning are     *)
(* among those that passed.  The verdict of test_all is failure exactly when *)
(* a test failed.                                                            *)
TestsAddUp ==
    /\ total = passed + failed + skipped + Left
    /\ warned <= passed
    /\ (cancel_batch \/ cancel_now) <=> failed > 0
=============================================================================
