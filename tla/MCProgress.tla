----------------------------- MODULE MCProgress -----------------------------
(***************************************************************************)
(* What must eventually happen in the input broker and in the job service, *)
(* side by side: a behaviour follows one of the two and its fairness, so   *)
(* that their states add up instead of multiplying.                        *)
(***************************************************************************)
EXTENDS InputBroker, FiniteSets

CONSTANTS Components, Jobs, Clients, MaxAttempts, MaxCancels, MaxBeats, MaxAborts

VARIABLES component,
    db, jobPc, draft, tries, seen, proc, ctxDone, overdue, deadline, runErr, cancels, beats, aborts

jobVars == <<db, jobPc, draft, tries, seen, proc, ctxDone, overdue, deadline, runErr, cancels, beats, aborts>>

Job == INSTANCE CodingAgentJob WITH pc <- jobPc, expired <- overdue

OneTerminal == [r \in Requests |-> CHOOSE s \in Sessions : TRUE]

ProgressInit == component \in Components /\ Init /\ Job!Init

ProgressNext ==
    \/ component = "broker" /\ Next /\ UNCHANGED <<component, jobVars>>
    \/ component = "job" /\ Job!Next /\ UNCHANGED <<component, vars>>

ProgressSpec == ProgressInit /\ [][ProgressNext]_<<component, vars, jobVars>>

(* The component that is followed is fair.                                 *)
ProgressFairSpec == /\ ProgressSpec
                    /\ component = "broker" => Fairness
                    /\ component = "job" => Job!Fairness

(* A job whose id was returned reaches a verdict: see CodingAgentJob.      *)
ReturnedJobsSettle == Job!ReturnedJobsSettle
=============================================================================
