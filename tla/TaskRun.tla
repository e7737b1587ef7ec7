------------------------------- MODULE TaskRun -------------------------------
(***************************************************************************)
(* One task as a pi process of its own, for a pi without a daemon mode:    *)
(* run_stdio_task and its readers in subagent/pi_daemon.rs, run_task_stdio *)
(* with its classification in subagent/mod.rs, and the fold of pi's JSON   *)
(* lines in subagent/protocol.rs.                                          *)
(*                                                                         *)
(* The run waits for pi under a time limit and then for the readers of its *)
(* pipes; the manager waits for the run and polls for a cancel or a        *)
(* shutdown.  What pi prints reaches the reader in order, so a line is     *)
(* folded as it is printed; the run gets the fold when the reader ends.    *)
(***************************************************************************)
EXTENDS Naturals, Sequences

CONSTANTS
    MaxMessages,  \* bound on the assistant messages of a run
    MaxTurns,     \* budget.max_turns of the task, 0 for none
    MaxTokens     \* budget.max_tokens of the task, 0 for none

ASSUME BudgetAssumption == MaxMessages \in Nat /\ MaxTurns \in Nat /\ MaxTokens \in Nat

VARIABLES
    \* --- the pi process and its descendants -----------------------------------
    pi,         \* "unborn", "running", "exited" or "killed"
    code,       \* how it exited: "ok", or with a code or a signal: "error"
    heirs,      \* a descendant of it still holds its stdout or stderr
    chatty,     \* this pi prints every message, and not only agent_end
    said,       \* the assistant messages so far
    ended,      \* agent_end was printed
    \* --- run_stdio_task -----------------------------------------------------------
    run,        \* "none", "waiting", "reading", "over" or "gone"
    folded,     \* the StdioResult of the stdout reader
    report,     \* the StdioRun that is returned
    \* --- run_task_stdio -----------------------------------------------------------
    cancelled,  \* the flag of the task
    quitting,   \* the shutting_down flag of the manager
    verdict     \* what finalize() is called with

piVars == <<pi, code, heirs, chatty, said, ended>>
runVars == <<piVars, run, folded, report, cancelled, quitting, verdict>>

Codes == {"ok", "error"}
Ends  == {"stop", "error", "limit", "none"}

(* An assistant message: with text or tool calls only, and how it stopped, *)
(* "error" with an errorMessage.  Each used one token.                     *)
Messages == [text : BOOLEAN, stop : Ends \ {"none"}]

(* A StdioResult; the text is that of the n-th message, 0 for none. *)
Nothing == [text |-> 0, stop |-> "none", error |-> FALSE, tokens |-> 0, turns |-> 0]
NoReport == [result |-> Nothing, code |-> "error", timedOut |-> FALSE]
NoVerdict == [status |-> "none", text |-> 0, tokens |-> 0]

RunInit ==
    /\ pi = "unborn"
    /\ code = "ok"
    /\ heirs = FALSE
    /\ chatty \in BOOLEAN
    /\ said = <<>>
    /\ ended = FALSE
    /\ run = "none"
    /\ folded = Nothing
    /\ report = NoReport
    /\ cancelled = FALSE
    /\ quitting = FALSE
    /\ verdict = NoVerdict

-----------------------------------------------------------------------------
(* The fold of pi's lines *)

FoldMessage(result, n, m, counted) ==
    [result EXCEPT !.text = IF m.text THEN n ELSE @,
                   !.stop = m.stop,
                   !.error = @ \/ m.stop = "error",
                   !.tokens = IF counted THEN @ + 1 ELSE @]

(* agent_end repeats every message; it only counts for a pi that printed   *)
(* none of them, or nothing with text.                                     *)
Repeated(result, counted) ==
    LET fold[n \in 0..Len(said)] ==
            IF n = 0 THEN result ELSE FoldMessage(fold[n - 1], n, said[n], counted)
    IN  fold
FoldEndCounts(result) ==                                         \* mutant
    IF result.text # 0 THEN result ELSE Repeated(result, TRUE)[Len(said)]
FoldEnd(result) ==
    IF result.text # 0 THEN result ELSE Repeated(result, result.tokens = 0)[Len(said)]

-----------------------------------------------------------------------------
(* pi: external, as the dialect documented in protocol.rs has it *)

Talking == pi = "running" /\ ~ended

Prints(m) ==
    /\ Talking
    /\ Len(said) < MaxMessages
    /\ said' = Append(said, m)
    /\ folded' = IF chatty THEN FoldMessage(folded, Len(said) + 1, m, TRUE) ELSE folded
    /\ UNCHANGED <<pi, code, heirs, chatty, ended, run, report, cancelled, quitting, verdict>>

TurnEnds ==
    /\ Talking
    /\ folded.turns + 1 = Len(said)
    /\ folded' = [folded EXCEPT !.turns = @ + 1]
    /\ UNCHANGED <<piVars, run, report, cancelled, quitting, verdict>>

(* A line of type "error"; all other lines are skipped. *)
PrintsError ==
    /\ Talking
    /\ folded' = [folded EXCEPT !.error = TRUE]
    /\ UNCHANGED <<piVars, run, report, cancelled, quitting, verdict>>

AgentEnds ==
    /\ Talking
    /\ ended' = TRUE
    /\ folded' = FoldEnd(folded)
    /\ UNCHANGED <<pi, code, heirs, chatty, said, run, report, cancelled, quitting, verdict>>

PiExits(c) ==
    /\ pi = "running"
    /\ pi' = "exited"
    /\ code' = c
    /\ heirs' \in BOOLEAN
    /\ UNCHANGED <<chatty, said, ended, run, folded, report, cancelled, quitting, verdict>>

HeirsExit ==
    /\ heirs
    /\ heirs' = FALSE
    /\ UNCHANGED <<pi, code, chatty, said, ended, run, folded, report, cancelled, quitting, verdict>>

-----------------------------------------------------------------------------
(* run_stdio_task() *)

StartsPi ==
    /\ run = "none"
    /\ verdict = NoVerdict
    /\ \/ pi' = "running" /\ run' = "waiting"
       \/ run' = "gone" /\ UNCHANGED pi       \* no command, no directory, no program
    /\ UNCHANGED <<code, heirs, chatty, said, ended, folded, report, cancelled, quitting, verdict>>

ExitSeen ==
    /\ run = "waiting"
    /\ pi = "exited"
    /\ run' = "reading"
    /\ report' = [report EXCEPT !.code = code]
    /\ UNCHANGED <<piVars, folded, cancelled, quitting, verdict>>

(* The time limit of the task: pi is killed, its descendants are not. *)
TimesOut ==
    /\ run = "waiting"
    /\ pi = "running"
    /\ pi' = "killed"
    /\ heirs' \in BOOLEAN
    /\ run' = "reading"
    /\ report' = [report EXCEPT !.timedOut = TRUE]
    /\ UNCHANGED <<code, chatty, said, ended, folded, cancelled, quitting, verdict>>

(* The readers end with the pipes; STDIO_KILL_GRACE later the run goes on  *)
(* without what they have.                                                 *)
ReadersEnd ==
    /\ run = "reading"
    /\ ~heirs
    /\ run' = "over"
    /\ report' = [report EXCEPT !.result = folded]
    /\ UNCHANGED <<piVars, folded, cancelled, quitting, verdict>>

ReadersWaitedFor == FALSE                                        \* mutant
ReadersGivenUp ==
    /\ run = "reading"
    /\ heirs
    /\ run' = "over"
    /\ UNCHANGED <<piVars, folded, report, cancelled, quitting, verdict>>

-----------------------------------------------------------------------------
(* run_task_stdio() *)

Failed(result) == result.error \/ result.stop = "error"

(* StdioRun::error(): pi's word first, then its exit status; a kill of     *)
(* ours is no error.                                                       *)
RunError(rep) == Failed(rep.result) \/ (rep.code # "ok" /\ ~rep.timedOut)

BudgetExhausted(result) ==
    \/ result.stop = "limit"
    \/ MaxTurns > 0 /\ result.turns >= MaxTurns
    \/ MaxTokens > 0 /\ result.tokens >= MaxTokens

(* stdio_outcome(), classify() *)
Status(rep) ==
    CASE rep.timedOut -> "timeout"
      [] ~rep.timedOut /\ cancelled -> "cancelled"
      [] ~rep.timedOut /\ ~cancelled /\ RunError(rep) -> "failed"
      [] ~rep.timedOut /\ ~cancelled /\ ~RunError(rep) /\ BudgetExhausted(rep.result) -> "budget"
      [] OTHER -> "done"

Joined ==
    /\ run = "over"
    /\ verdict = NoVerdict
    /\ verdict' = [status |-> Status(report), text |-> report.result.text, tokens |-> report.result.tokens]
    /\ UNCHANGED <<piVars, run, folded, report, cancelled, quitting>>

(* The flags, or else the failure itself. *)
Unfinished ==
    verdict' = [NoVerdict EXCEPT !.status =
        IF cancelled THEN "cancelled" ELSE IF quitting THEN "interrupted" ELSE "failed"]

JoinedInError ==
    /\ run = "gone"
    /\ verdict = NoVerdict
    /\ Unfinished
    /\ UNCHANGED <<piVars, run, folded, report, cancelled, quitting>>

(* The poll sees a flag: the run is aborted, which kills a pi it still has. *)
StopSeen ==
    /\ run \notin {"none", "gone"}
    /\ verdict = NoVerdict
    /\ cancelled \/ quitting
    /\ Unfinished
    /\ run' = "gone"
    /\ pi' = IF pi = "running" THEN "killed" ELSE pi
    /\ heirs' \in IF pi = "running" THEN BOOLEAN ELSE {heirs}
    /\ UNCHANGED <<code, chatty, said, ended, folded, report, cancelled, quitting>>

Cancelled ==
    /\ run # "none" /\ verdict = NoVerdict
    /\ ~cancelled
    /\ cancelled' = TRUE
    /\ UNCHANGED <<piVars, run, folded, report, quitting, verdict>>

ShutsDown ==
    /\ run # "none" /\ verdict = NoVerdict
    /\ ~quitting
    /\ quitting' = TRUE
    /\ UNCHANGED <<piVars, run, folded, report, cancelled, verdict>>

-----------------------------------------------------------------------------
RunGoesOn == ExitSeen \/ TimesOut \/ ReadersEnd \/ ReadersGivenUp \/ Joined \/ JoinedInError

PiGoesOn ==
    \/ \E m \in Messages : Prints(m)
    \/ \E c \in Codes : PiExits(c)
    \/ TurnEnds \/ PrintsError \/ AgentEnds \/ HeirsExit

TaskNext == StartsPi \/ PiGoesOn \/ RunGoesOn \/ StopSeen \/ Cancelled \/ ShutsDown

TaskSpec == RunInit /\ [][TaskNext]_runVars

(* The run is polled, and each of its waits has a time limit; nothing is   *)
(* asked of pi and its descendants.                                        *)
RunFairness == WF_runVars(RunGoesOn)

-----------------------------------------------------------------------------
Judged == verdict # NoVerdict

(* What reached Portal: a pi that prints no messages has to end first. *)
Printed == IF chatty \/ ended THEN said ELSE <<>>
LastText(messages) ==
    LET texts == {n \in DOMAIN messages : messages[n].text}
    IN  IF texts = {} THEN 0 ELSE CHOOSE n \in texts : \A k \in texts : k <= n

(* Where the pipes were read to their end, the result is what pi printed:  *)
(* its last text, never lost to a turn of tool calls, and the usage of     *)
(* each message once, though agent_end repeats them all.                   *)
ReadOnce ==
    run = "over" /\ report.result # Nothing =>
        /\ report.result.text = LastText(Printed)
        /\ report.result.tokens = Len(Printed)

(* A task is done only when its pi ended by itself and well, nobody had    *)
(* cancelled it, and neither an error nor a limit is in what was read.     *)
DoneIsEarned ==
    verdict.status = "done" =>
        /\ pi = "exited" /\ code = "ok"
        /\ ~cancelled
        /\ report.result # Nothing =>
              \A n \in DOMAIN Printed : Printed[n].stop # "error"
        /\ MaxTokens > 0 => verdict.tokens < MaxTokens

(* When the session is handed on, no pi of the last task works in it. *)
NoPiLeft == Judged => pi # "running"

(* The verdict on a task that ran over stdio is true to its process. *)
TaskVerdictTrue == ReadOnce /\ DoneIsEarned /\ NoPiLeft

(* Every task gets its verdict: neither a pi that never ends nor a         *)
(* descendant that keeps its pipes open forever holds the session.         *)
TaskRunEnds == run = "waiting" ~> Judged

(* What the code says of a run that was cut short (mod.rs:1494): what it   *)
(* managed to say is handed back.  A descendant that keeps a pipe open     *)
(* past STDIO_KILL_GRACE takes the whole fold with it.                     *)
SaidIsHandedBack ==
    verdict.status \in {"timeout", "done"} => verdict.text = LastText(Printed)
=============================================================================
