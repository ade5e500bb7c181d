---------------------------- MODULE JobLifecycle ----------------------------
(***************************************************************************)
(* What the delegation service promises about one job, with no store, no   *)
(* worker process and no race: a job is submitted, may begin, may be asked *)
(* to stop, and is concluded once.  The statuses are those of              *)
(* pkg/codingagentjob/types.go; `result' says that the answer of the coding *)
(* agent is available.  CodingAgentJob implements this specification.      *)
(***************************************************************************)

CONSTANT Jobs       \* the identifiers of jobs

VARIABLES status,   \* status[j]: "absent" before the job is submitted
          result    \* result[j]: the job's answer can be read

vars == <<status, result>>

Open     == {"queued", "running", "cancellation_requested"}
Verdicts == {"completed", "failed", "cancelled", "timed_out"}

(* The verdicts a job can be given from each open status.  A queued job has *)
(* produced nothing, and a job asked to stop is never reported completed.   *)
VerdictsFrom(s) ==
    CASE s = "queued"                 -> {"failed"}
      [] s = "running"                -> Verdicts
      [] s = "cancellation_requested" -> Verdicts \ {"completed"}
      [] OTHER                        -> {}

Init == /\ status = [j \in Jobs |-> "absent"]
        /\ result = [j \in Jobs |-> FALSE]

Submit(j) == /\ status[j] = "absent"
             /\ status' = [status EXCEPT ![j] = "queued"]
             /\ UNCHANGED result

Begin(j) == /\ status[j] = "queued"
            /\ status' = [status EXCEPT ![j] = "running"]
            /\ UNCHANGED result

RequestCancel(j) == /\ status[j] \in {"queued", "running"}
                    /\ status' = [status EXCEPT ![j] = "cancellation_requested"]
                    /\ UNCHANGED result

Conclude(j, v) == /\ v \in VerdictsFrom(status[j])
                  /\ status' = [status EXCEPT ![j] = v]
                  /\ result' = [result EXCEPT ![j] = (v = "completed")]

Next == \E j \in Jobs : \/ Submit(j)
                        \/ Begin(j)
                        \/ RequestCancel(j)
                        \/ \E v \in Verdicts : Conclude(j, v)

Spec == Init /\ [][Next]_vars
=============================================================================
