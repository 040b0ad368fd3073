---------------------------- MODULE ProcessHost -----------------------------
(***************************************************************************)
(* v2_process_host.py and v2_windows_job.py: the supervised process host.  *)
(* A launch is journalled in the host's own database before a supervisor   *)
(* process is spawned; the supervisor claims the row, starts the command   *)
(* inside a Windows Job it owns (KILL_ON_JOB_CLOSE, no breakaway), watches *)
(* it, and writes down how it ended.  The controller, the supervisor and   *)
(* the command are three processes; each may die between any two steps.    *)
(***************************************************************************)
CONSTANT Keys   \* backend keys, one per dispatch

VARIABLES
  journal,     \* run.state in the host's database, "NONE" before the insert
  cancelFlag,  \* run.cancel_requested
  supervisor,  \* where the supervisor process is, "DEAD" once it is gone
  command      \* the processes of the Job: "NONE", "LIVE" or "ENDED"

hostJournalVars == <<journal, cancelFlag, supervisor, command>>

SupervisorStates == {"NONE", "SPAWNED", "DECLINING", "LAUNCHING", "LAUNCHED",
                     "WATCHING", "CLOSING", "DEAD"}

ProcessTypeOK ==
  /\ journal \in [Keys -> {"NONE", "ADMITTED", "STARTING", "RUNNING", "EXITED", "UNKNOWN"}]
  /\ cancelFlag \in [Keys -> BOOLEAN]
  /\ supervisor \in [Keys -> SupervisorStates]
  /\ command \in [Keys -> {"NONE", "LIVE", "ENDED"}]

ProcessInit ==
  /\ journal = [k \in Keys |-> "NONE"]
  /\ cancelFlag = [k \in Keys |-> FALSE]
  /\ supervisor = [k \in Keys |-> "NONE"]
  /\ command = [k \in Keys |-> "NONE"]

Go(k, s) == supervisor' = [supervisor EXCEPT ![k] = s]
Write(k, s) == journal' = [journal EXCEPT ![k] = s]

\* Leaving the Job, by close or by dying, kills what is still in it.
KillJob(k) == command' = [command EXCEPT ![k] = IF @ = "LIVE" THEN "ENDED" ELSE @]
-----------------------------------------------------------------------------
(* The controller's side. *)

\* SupervisedProcessHost.start, first transaction
Admit(k) ==
  /\ journal[k] = "NONE"
  /\ Write(k, "ADMITTED")
  /\ UNCHANGED <<cancelFlag, supervisor, command>>

\* ... and the Popen that follows it
Spawn(k) ==
  /\ supervisor[k] = "NONE" /\ journal[k] = "ADMITTED"
  /\ Go(k, "SPAWNED")
  /\ UNCHANGED <<journal, cancelFlag, command>>

\* query: only a journalled exit is evidence of quiescence, and a RUNNING row
\* counts only while the supervisor that owns it lives.
QueryAnswerAbsent(k) ==   \* mutant: no row means it never ran
  IF journal[k] \in {"NONE", "EXITED"} THEN "EXITED"
  ELSE IF journal[k] = "RUNNING" /\ supervisor[k] # "DEAD" THEN "RUNNING"
  ELSE "UNKNOWN"
QueryAnswerJournal(k) ==   \* mutant: the row is believed whoever owns it
  IF journal[k] \in {"EXITED", "RUNNING"} THEN journal[k] ELSE "UNKNOWN"
QueryAnswer(k) ==
  IF journal[k] = "EXITED" THEN "EXITED"
  ELSE IF journal[k] = "RUNNING" /\ supervisor[k] # "DEAD" THEN "RUNNING"
  ELSE "UNKNOWN"

\* cancel updates the row if there is one: before Admit the request is lost.
FlagCancel(k) ==
  /\ cancelFlag' = [cancelFlag EXCEPT ![k] = journal[k] # "NONE"]
  /\ UNCHANGED <<journal, supervisor, command>>
-----------------------------------------------------------------------------
(* The supervisor, supervise(root, key). *)

Claim(k) ==
  /\ supervisor[k] = "SPAWNED" /\ journal[k] = "ADMITTED"
  /\ Write(k, "STARTING")
  /\ Go(k, IF cancelFlag[k] THEN "DECLINING" ELSE "LAUNCHING")
  /\ UNCHANGED <<cancelFlag, command>>

\* The row was cancelled before the claim, or a guard (executable hash, file
\* guards, runtime admission) refused before launch_attempted: NOT_STARTED.
NotStarted(k) ==
  /\ supervisor[k] \in {"DECLINING", "LAUNCHING"}
  /\ Write(k, "EXITED") /\ Go(k, "DEAD")
  /\ UNCHANGED <<cancelFlag, command>>

Launch(k) ==
  /\ supervisor[k] = "LAUNCHING"
  /\ command' = [command EXCEPT ![k] = "LIVE"] /\ Go(k, "LAUNCHED")
  /\ UNCHANGED <<journal, cancelFlag>>

\* WindowsJob.launch raised, perhaps after CreateProcess; it closed the Job.
LaunchFails(k) ==
  /\ supervisor[k] = "LAUNCHING"
  /\ \E c \in {"NONE", "ENDED"} : command' = [command EXCEPT ![k] = c]
  /\ Write(k, "UNKNOWN") /\ Go(k, "DEAD")
  /\ UNCHANGED cancelFlag

RecordRunning(k) ==
  /\ supervisor[k] = "LAUNCHED"
  /\ Write(k, "RUNNING") /\ Go(k, "WATCHING")
  /\ UNCHANGED <<cancelFlag, command>>

CommandEnds(k) ==
  /\ command[k] = "LIVE"
  /\ KillJob(k)
  /\ UNCHANGED <<journal, cancelFlag, supervisor>>

\* The watch loop terminates the Job: cancel flag, deadline or I/O limit.
Terminate(k) ==
  /\ supervisor[k] = "WATCHING" /\ command[k] = "LIVE"
  /\ KillJob(k)
  /\ UNCHANGED <<journal, cancelFlag, supervisor>>

\* Active processes are zero: the only way to a quiesced row after a launch.
RecordExitOnCancel(k) ==   \* mutant: a cancel is taken for the end
  /\ supervisor[k] = "WATCHING" /\ (command[k] = "ENDED" \/ cancelFlag[k])
  /\ Write(k, "EXITED") /\ Go(k, "DEAD")
  /\ UNCHANGED <<cancelFlag, command>>
RecordExit(k) ==
  /\ supervisor[k] = "WATCHING" /\ command[k] = "ENDED"
  /\ Write(k, "EXITED") /\ Go(k, "DEAD")
  /\ UNCHANGED <<cancelFlag, command>>

\* Any exception after the launch (a Job call, the pump, no quiescence seen)
\* is journalled as UNKNOWN first; only then does the finally close the Job.
SupervisorFails(k) ==
  /\ supervisor[k] \in {"LAUNCHED", "WATCHING"}
  /\ Write(k, "UNKNOWN") /\ Go(k, "CLOSING")
  /\ UNCHANGED <<cancelFlag, command>>

CloseJob(k) ==
  /\ supervisor[k] = "CLOSING"
  /\ KillJob(k) /\ Go(k, "DEAD")
  /\ UNCHANGED <<journal, cancelFlag>>

SupervisorDies(k) ==
  /\ supervisor[k] \notin {"NONE", "DEAD"}
  /\ KillJob(k) /\ Go(k, "DEAD")
  /\ UNCHANGED <<journal, cancelFlag>>

SupervisorStep(k) ==
  \/ Claim(k) \/ NotStarted(k) \/ Launch(k) \/ RecordRunning(k)
  \/ Terminate(k) \/ RecordExit(k) \/ CloseJob(k)

ProcessNext(k) ==
  \/ SupervisorStep(k) \/ CommandEnds(k)
  \/ LaunchFails(k) \/ SupervisorFails(k) \/ SupervisorDies(k)
\* The host on its own, under a controller that may call it in any order.  The
\* supervisor is a process of the operating system: while it lives it is
\* scheduled, and its watch loop has a deadline, so it does not stop stepping.
\* Nothing obliges the controller to call, the command to end by itself, or
\* anything to fail.
ControllerStep(k) == Admit(k) \/ Spawn(k) \/ FlagCancel(k)

ProcessSpec ==
  /\ ProcessInit
  /\ [][\E k \in Keys : ControllerStep(k) \/ ProcessNext(k)]_hostJournalVars
  /\ \A k \in Keys : WF_hostJournalVars(SupervisorStep(k))
-----------------------------------------------------------------------------
\* The answer EXITED is proof: nothing of the run is alive or can still start,
\* whatever was cancelled, crashed or failed on the way.
ExitIsProof ==
  \A k \in Keys : QueryAnswer(k) = "EXITED" =>
    command[k] # "LIVE" /\ supervisor[k] = "DEAD"

\* The answer about a command settles: no run stays RUNNING for ever, whoever
\* dies and whatever the command does until its deadline.
AnswerSettles == \A k \in Keys : []<>(QueryAnswer(k) # "RUNNING")
=============================================================================
