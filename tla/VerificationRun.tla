--------------------------- MODULE VerificationRun ---------------------------
(***************************************************************************)
(* One verification of a candidate (CommandVerifier of kernel/verifier.rs, *)
(* called by verify_plugin_iteration of host.rs, judged by EvalHarness of  *)
(* kernel/evaluator.rs): three optional stages, static check, tests and    *)
(* safety, each a program run as a child process with piped output and a   *)
(* deadline, or a plugin of the candidate that is invoked.                 *)
(*                                                                         *)
(* The environment is the child: it writes to a pipe of bounded capacity   *)
(* that nobody reads before the child is gone, it may leave descendants    *)
(* behind that keep the pipe open (cargo and the test binary it starts),   *)
(* and it exits by itself or is killed.                                    *)
(***************************************************************************)
EXTENDS Integers, FiniteSets

CONSTANTS
    PipeCap,        \* what a pipe holds
    MinQuality      \* min_quality_score of the harness, 80

ASSUME VerificationAssumption == PipeCap \in Nat /\ MinQuality \in Nat

Stage == 1..3                   \* StaticCheck, Tests, Safety
\* A stage has no command, one that cannot be split into words, one that
\* cannot be started, one that runs, or a plugin: specification.
CommandKind == {"none", "unsplit", "nospawn", "shell", "plugin"}
DefaultQuality == 90

VARIABLES
    plan,       \* VerificationPlan: stage -> CommandKind
    invoker,    \* a candidate_invoker was supplied
    stage,      \* the stage at work, 4 after the last
    at,         \* where the verifier is
    child,      \* "none", "running", "ok", "fail" (it has exited), "killed"
    writes,      \* how much the child writes before it exits
    pipe,       \* how much of it the pipe holds
    kids,       \* a descendant of the child holds the pipe open
    late,       \* the deadline of the child has passed
    outcome,    \* stage -> VerificationStageStatus
    fate,       \* history variable: stage -> how its command really ended
    report      \* the report, once there is one

verifyVars == <<plan, invoker, stage, at, child, writes, pipe, kids, late,
                outcome, fate, report>>

childVars == <<child, writes, pipe, kids, late>>

NoReport == [tests |-> FALSE, safety |-> FALSE, quality |-> 0, hashed |-> FALSE]

------------------------------------------------------------------------------
(* The plan and the verdict *)

\* resolve_plan: the profile of a Rust workspace checks the first manifest
\* there is; a blank command is none.
Plans == {p \in [Stage -> CommandKind] : p[1] \in {"none", "nospawn", "shell"}}

\* verify_plugin_iteration always has a tests command (the agent's, the
\* request's or cargo test) and supplies an invoker; an update from the
\* command line has what its arguments say.
FromIteration(p, inv) == p[2] # "none" /\ inv

\* Mutant: a plan in which every stage was skipped passes.
SkippedCounts(o) == TRUE

\* At least one stage has run: a plan without a command is no approval.
AnyExecuted(o) == \E s \in Stage : o[s] \in {"Passed", "Failed"}

Succeeded(o, s) == o[s] \in {"Passed", "Skipped"}
TestsPassed(o) == AnyExecuted(o) /\ Succeeded(o, 1) /\ Succeeded(o, 2)
SafetyPassed(o) == AnyExecuted(o) /\ Succeeded(o, 3)

\* EvalHarness::evaluate
Accepted(r) == r.tests /\ r.safety /\ r.quality >= MinQuality

------------------------------------------------------------------------------
(* The verifier *)

\* run_optional_stage gives the stage its status.
StageDone(status, how) ==
    /\ outcome' = [outcome EXCEPT ![stage] = status]
    /\ fate' = [fate EXCEPT ![stage] = how]
    /\ stage' = stage + 1
    /\ at' = "next"

\* A stage without a command is skipped; a command that is no list of words
\* fails; one that cannot be started, and a plugin command with no candidate
\* to invoke, end the verification with an error.
StartStage ==
    /\ at = "next" /\ stage \in Stage
    /\ \/ /\ plan[stage] = "none"
          /\ StageDone("Skipped", "none")
          /\ UNCHANGED childVars
       \/ /\ plan[stage] = "unsplit"
          /\ StageDone("Failed", "unsplit")
          /\ UNCHANGED childVars
       \/ /\ plan[stage] = "nospawn" \/ (plan[stage] = "plugin" /\ ~ invoker)
          /\ at' = "error"
          /\ UNCHANGED <<stage, outcome, fate, childVars>>
       \/ /\ plan[stage] = "plugin" /\ invoker
          /\ at' = "invoke"
          /\ UNCHANGED <<stage, outcome, fate, childVars>>
       \/ /\ plan[stage] = "shell"
          /\ at' = "poll"
          /\ child' = "running" /\ pipe' = 0 /\ kids' = FALSE /\ late' = FALSE
          /\ writes' \in 0..(PipeCap + 1)
          /\ UNCHANGED <<stage, outcome, fate>>
    /\ UNCHANGED <<plan, invoker, report>>

\* run_plugin_command: an error of the invocation, or an answer without the
\* expected text, fails the stage.
PluginAnswers ==
    /\ at = "invoke"
    /\ \/ StageDone("Passed", "ok")
       \/ StageDone("Failed", "fail")
    /\ UNCHANGED <<plan, invoker, childVars, report>>

\* Mutant: the deadline is never looked at.
PollWithoutDeadline ==
    /\ at = "poll"
    /\ child \in {"ok", "fail"}
    /\ at' = "drain"
    /\ UNCHANGED <<plan, invoker, stage, childVars, outcome, fate, report>>

\* poll_until_exit: the exit of the child first, then the deadline.
Poll ==
    /\ at = "poll"
    /\ \/ child \in {"ok", "fail"} /\ at' = "drain"
       \/ child = "running" /\ late /\ at' = "kill"
    /\ UNCHANGED <<plan, invoker, stage, childVars, outcome, fate, report>>

\* try_wait itself fails: the error leaves the child to itself.
WaitFails ==
    /\ at = "poll" /\ child = "running"
    /\ at' = "error"
    /\ UNCHANGED <<plan, invoker, stage, childVars, outcome, fate, report>>

\* kill and wait reach the child alone, not what it has started, and the
\* child may have exited since the last look.
Kill ==
    /\ at = "kill"
    /\ child' = IF child = "running" THEN "killed" ELSE child
    /\ at' = "drainLate"
    /\ UNCHANGED <<plan, invoker, stage, writes, pipe, kids, late, outcome, fate, report>>

\* success = !timed_out && status.success()
CommandSuccess == child = "ok" /\ at = "drain"

\* drain_stream reads to the end, which comes when nobody holds the pipe.
Drain ==
    /\ at \in {"drain", "drainLate"}
    /\ ~ kids
    /\ StageDone(IF CommandSuccess THEN "Passed" ELSE "Failed",
                 IF at = "drainLate" THEN "timeout" ELSE child)
    /\ child' = "none" /\ writes' = 0 /\ pipe' = 0 /\ late' = FALSE
    /\ UNCHANGED <<plan, invoker, kids, report>>

\* hash_source_tree reads every file below the source roots, or fails.
HashTaken == BOOLEAN

\* After the commands the source tree is hashed; a failing hash is reported
\* with the verdict, not instead of it.
Report ==
    /\ at = "next" /\ stage = 4
    /\ \E hashed \in HashTaken, override \in {0, 50, 90, 100} :
         report' = [tests |-> TestsPassed(outcome), safety |-> SafetyPassed(outcome),
                    quality |-> IF override # 0 THEN override
                                ELSE IF TestsPassed(outcome) /\ SafetyPassed(outcome)
                                     THEN DefaultQuality ELSE 0,
                    hashed |-> hashed]
    /\ at' = "done"
    /\ UNCHANGED <<plan, invoker, stage, childVars, outcome, fate>>

------------------------------------------------------------------------------
(* The child and its descendants *)

ChildWrites ==
    /\ child = "running" /\ pipe < writes /\ pipe < PipeCap
    /\ pipe' = pipe + 1
    /\ UNCHANGED <<plan, invoker, stage, at, child, writes, kids, late, outcome, fate, report>>

ChildForks ==
    /\ child = "running" /\ ~ kids
    /\ kids' = TRUE
    /\ UNCHANGED <<plan, invoker, stage, at, child, writes, pipe, late, outcome, fate, report>>

\* It exits once it has written what it wants to write.
ChildExits ==
    /\ child = "running" /\ pipe = writes
    /\ child' \in {"ok", "fail"}
    /\ UNCHANGED <<plan, invoker, stage, at, writes, pipe, kids, late, outcome, fate, report>>

DescendantExits ==
    /\ kids
    /\ kids' = FALSE
    /\ UNCHANGED <<plan, invoker, stage, at, child, writes, pipe, late, outcome, fate, report>>

Deadline ==
    /\ at = "poll" /\ ~ late
    /\ late' = TRUE
    /\ UNCHANGED <<plan, invoker, stage, at, child, writes, pipe, kids, outcome, fate, report>>

------------------------------------------------------------------------------
VerifyInit ==
    /\ plan \in Plans /\ invoker \in BOOLEAN
    /\ FromIteration(plan, invoker) \/ ~ invoker
    /\ stage = 1 /\ at = "next"
    /\ child = "none" /\ writes = 0 /\ pipe = 0 /\ kids = FALSE /\ late = FALSE
    /\ outcome = [s \in Stage |-> "Pending"]
    /\ fate = [s \in Stage |-> "none"]
    /\ report = NoReport

Verifier == StartStage \/ PluginAnswers \/ Poll \/ Kill \/ Drain \/ Report

VerifyNext ==
    \/ Verifier \/ WaitFails
    \/ ChildWrites \/ ChildForks \/ ChildExits \/ DescendantExits \/ Deadline

VerifySpec == VerifyInit /\ [][VerifyNext]_verifyVars

\* The thread of the verifier runs and time passes; nothing is promised of
\* the child or of its descendants.
VerifyFairness == WF_verifyVars(Verifier) /\ WF_verifyVars(Deadline)
VerifyFairSpec == VerifySpec /\ VerifyFairness

------------------------------------------------------------------------------
(* Properties *)

VerifyTypeOK ==
    /\ plan \in Plans /\ invoker \in BOOLEAN
    /\ stage \in 1..4
    /\ at \in {"next", "invoke", "poll", "kill", "drain", "drainLate", "done", "error"}
    /\ child \in {"none", "running", "ok", "fail", "killed"}
    /\ writes \in 0..(PipeCap + 1) /\ pipe \in 0..PipeCap
    /\ kids \in BOOLEAN /\ late \in BOOLEAN
    /\ outcome \in [Stage -> {"Pending", "Passed", "Failed", "Skipped"}]

Ended == at \in {"done", "error"}

\* A report that the harness accepts was earned: some command was run, and
\* every command of the plan ended by itself, in time and successfully,
\* whatever it wrote, left behind or raced its deadline with.
VerdictEarned ==
    (at = "done" /\ Accepted(report)) =>
        /\ \E s \in Stage : fate[s] = "ok"
        /\ \A s \in Stage : plan[s] # "none" => fate[s] = "ok"

\* A verification ends once the descendants of its children are gone for
\* good, even when a child blocks for ever on a pipe that nobody reads.
VerificationEnds == (<>[] ~ kids) => <> Ended

\* "On expiry it is killed and reaped so a hung cargo test cannot stall the
\* whole iteration" (kernel/verifier.rs:515).
TimeoutBounds == <> Ended
=============================================================================
