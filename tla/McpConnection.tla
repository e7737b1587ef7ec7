----------------------------- MODULE McpConnection -----------------------------
(***************************************************************************)
(* One stdio connection to an MCP server (portal/src/mcp/connection.rs,    *)
(* cancellation.rs, ownership.rs) once it is initialized: the requests     *)
(* that share it, the table of pending responses, the writer, the reader   *)
(* task, the task that sends notifications/cancelled, and the process.     *)
(*                                                                         *)
(* A step ends at an await, or where a lock is given back to a task on     *)
(* another thread.  A request is named by its id, which is never reused.   *)
(* The process group that terminate() kills holds every end of its pipes.  *)
(***************************************************************************)
EXTENDS Naturals, FiniteSets, Sequences

CONSTANTS
    Requests,    \* requests, named by their ids
    Canceller,   \* the task that sends notifications/cancelled
    None,        \* no writer
    MaxPending,  \* PENDING_REQUESTS (mcp/limits.rs)
    CancelQueue  \* capacity of the channel of cancellations

ASSUME NamesAssumption == Canceller \notin Requests /\ None \notin Requests \cup {Canceller}
ASSUME RequestsAssumption == IsFiniteSet(Requests)
ASSUME LimitsAssumption == MaxPending \in Nat \ {0} /\ CancelQueue \in Nat \ {0}

VARIABLES
    req,       \* [Requests -> where the request is]
    pending,   \* ids in `responses`
    reply,     \* [Requests -> state of its oneshot channel]
    alive,     \* the `alive` flag
    reader,    \* where the reader task is
    \* --- the stream to the server ---------------------------------------
    writer,    \* who holds the writer lock
    torn,      \* the stream ends inside a line
    glued,     \* whose line was appended to an unfinished one
    sent,      \* requests the server can read
    \* --- cancellations --------------------------------------------------
    queue,     \* ids in the channel of cancellations
    canceller, \* where its task is
    cancels,   \* the id it is about
    told,      \* ids the server can read the cancellation of
    abandoned, \* history: sent requests given up before their answer
    \* --- the process ----------------------------------------------------
    proc       \* the process group

tableVars  == <<pending, reply>>
streamVars == <<writer, torn, glued, sent>>
cancelVars == <<queue, canceller, cancels, told, abandoned>>
vars == <<req, tableVars, alive, reader, streamVars, cancelVars, proc>>

ReqStates == {"new", "queued", "writing", "breaking", "waiting", "over"}
Writers == Requests \cup {Canceller}

Init ==
    /\ req = [r \in Requests |-> "new"]
    /\ pending = {}
    /\ reply = [r \in Requests |-> "none"]
    /\ alive = TRUE
    /\ reader = "reading"
    /\ writer = None
    /\ torn = FALSE
    /\ glued = {}
    /\ sent = {}
    /\ queue = <<>>
    /\ canceller = "idle"
    /\ cancels = None
    /\ told = {}
    /\ abandoned = {}
    /\ proc = "running"

(* abort(): the flag, then ProcessOwner::terminate. *)
Abort == alive' = FALSE /\ proc' = "dead"

Moves(r, to) == req' = [req EXCEPT ![r] = to]

-----------------------------------------------------------------------------
(* request_with_timeout() *)

(* The flag is read under the lock that drop_pending takes. *)
RegisterUnchecked(r) ==                                          \* mutant
    /\ req[r] = "new"
    /\ Cardinality(pending) < MaxPending
    /\ pending' = pending \cup {r}
    /\ Moves(r, "queued")
    /\ UNCHANGED <<reply, alive, reader, streamVars, cancelVars, proc>>
Register(r) ==
    /\ req[r] = "new"
    /\ alive
    /\ Cardinality(pending) < MaxPending
    /\ pending' = pending \cup {r}
    /\ Moves(r, "queued")
    /\ UNCHANGED <<reply, alive, reader, streamVars, cancelVars, proc>>

(* The server is gone, busy, or the request too long. *)
Reject(r) ==
    /\ req[r] = "new"
    /\ Moves(r, "over")
    /\ UNCHANGED <<tableVars, alive, reader, streamVars, cancelVars, proc>>

(* The writer is taken, and the first bytes are on their way. *)
TakesWriter(w) ==
    /\ writer = None
    /\ writer' = w
    /\ glued' = IF torn THEN glued \cup {w} ELSE glued \ {w}
    /\ UNCHANGED <<torn, sent>>

TakeWriter(r) ==
    /\ req[r] = "queued"
    /\ TakesWriter(r)
    /\ Moves(r, "writing")
    /\ UNCHANGED <<tableVars, alive, reader, cancelVars, proc>>

Readable(w) == w \notin glued /\ proc = "running"

WriteDone(r) ==
    /\ req[r] = "writing"
    /\ writer' = None
    /\ torn' = FALSE
    /\ sent' = IF Readable(r) THEN sent \cup {r} ELSE sent
    /\ Moves(r, "waiting")
    /\ UNCHANGED <<tableVars, alive, reader, glued, cancelVars, proc>>

(* The write fails, five seconds pass, or the caller goes away: what was   *)
(* written stays, and the writer is given back before abort() is reached.  *)
WriteBreaks(r) ==
    /\ req[r] = "writing"
    /\ writer' = None
    /\ torn' \in {torn, TRUE}
    /\ Moves(r, "breaking")
    /\ UNCHANGED <<tableVars, alive, reader, glued, sent, cancelVars, proc>>

(* Five seconds pass before the writer is free. *)
WriterTimeout(r) ==
    /\ req[r] = "queued"
    /\ Moves(r, "breaking")
    /\ UNCHANGED <<tableVars, alive, reader, streamVars, cancelVars, proc>>

(* Mutant: only releases the slot. *)
BreakQuietly(r) ==
    /\ req[r] = "breaking"
    /\ pending' = pending \ {r}
    /\ Moves(r, "over")
    /\ UNCHANGED <<reply, alive, reader, streamVars, cancelVars, proc>>
(* A half-written line cannot be resumed: the connection is given up.      *)
Break(r) ==
    /\ req[r] = "breaking"
    /\ pending' = pending \ {r}
    /\ Abort
    /\ Moves(r, "over")
    /\ UNCHANGED <<reply, reader, streamVars, cancelVars>>

Receive(r) ==
    /\ req[r] = "waiting"
    /\ reply[r] # "none"
    /\ Moves(r, "over")
    /\ UNCHANGED <<tableVars, alive, reader, streamVars, cancelVars, proc>>

(* try_send of the id, which never waits. *)
Cancel(r) ==
    IF canceller # "gone" /\ Len(queue) < CancelQueue
    THEN queue' = Append(queue, r) /\ UNCHANGED <<alive, proc>>
    ELSE Abort /\ UNCHANGED queue

(* The time limit of the call passes or its caller goes away: the guard    *)
(* takes the id out, and cancels the request if it was still there.        *)
GiveUp(r) ==
    /\ req[r] \in {"queued", "waiting"}
    /\ IF r \in pending THEN Cancel(r) ELSE UNCHANGED <<queue, alive, proc>>
    /\ pending' = pending \ {r}
    /\ abandoned' = abandoned \cup ({r} \cap pending \cap sent)
    /\ Moves(r, "over")
    /\ UNCHANGED <<reply, reader, streamVars, canceller, cancels, told>>

-----------------------------------------------------------------------------
(* reader_task() *)

(* An answer, possibly late or repeated. *)
ReadAnswer(r) ==
    /\ reader = "reading"
    /\ r \in sent
    /\ r \in pending
    /\ pending' = pending \ {r}
    /\ reply' = [reply EXCEPT ![r] = "answer"]
    /\ UNCHANGED <<req, alive, reader, streamVars, cancelVars, proc>>

ReaderEnds ==
    /\ reader = "reading"
    /\ reader' = "ended"
    /\ alive' = FALSE
    /\ UNCHANGED <<req, tableVars, streamVars, cancelVars, proc>>
ReaderEof == proc = "dead" /\ ReaderEnds
(* The server closes its output, breaks UTF-8 or exceeds a limit. *)
ReaderFails == proc = "running" /\ ReaderEnds

(* drop_pending(): every sender is dropped. *)
Drain ==
    /\ reader = "ended"
    /\ reader' = "drained"
    /\ pending' = {}
    /\ reply' = [r \in Requests |-> IF r \in pending THEN "closed" ELSE reply[r]]
    /\ UNCHANGED <<req, alive, streamVars, cancelVars, proc>>

ReaderKills ==
    /\ reader = "drained"
    /\ reader' = "done"
    /\ proc' = "dead"
    /\ UNCHANGED <<req, tableVars, alive, streamVars, cancelVars>>

-----------------------------------------------------------------------------
(* cancellation::start() *)

CancelNext ==
    /\ canceller = "idle"
    /\ queue # <<>>
    /\ IF alive
       THEN /\ canceller' = "queued"
            /\ cancels' = Head(queue)
            /\ queue' = Tail(queue)
       ELSE /\ canceller' = "gone"
            /\ queue' = <<>>
            /\ UNCHANGED cancels
    /\ UNCHANGED <<req, tableVars, alive, reader, streamVars, told, abandoned, proc>>

CancelTake ==
    /\ canceller = "queued"
    /\ TakesWriter(Canceller)
    /\ canceller' = "writing"
    /\ UNCHANGED <<req, tableVars, alive, reader, queue, cancels, told, abandoned, proc>>

CancelDone ==
    /\ canceller = "writing"
    /\ writer' = None
    /\ torn' = FALSE
    /\ told' = IF Readable(Canceller) THEN told \cup {cancels} ELSE told
    /\ canceller' = "idle"
    /\ UNCHANGED <<req, tableVars, alive, reader, glued, sent, queue, cancels, abandoned, proc>>

(* The write fails, or five seconds pass with or without the writer. *)
CancelBreaks ==
    /\ canceller \in {"queued", "writing"}
    /\ IF canceller = "writing"
       THEN writer' = None /\ torn' \in {torn, TRUE}
       ELSE UNCHANGED <<writer, torn>>
    /\ canceller' = "breaking"
    /\ UNCHANGED <<req, tableVars, alive, reader, glued, sent, queue, cancels, told,
                   abandoned, proc>>

CancelAborts ==
    /\ canceller = "breaking"
    /\ Abort
    /\ canceller' = "gone"
    /\ queue' = <<>>
    /\ UNCHANGED <<req, tableVars, reader, streamVars, cancels, told, abandoned>>

-----------------------------------------------------------------------------
(* The Kit's call, a reload or shutdown aborts the connection. *)
OwnerAborts ==
    /\ alive
    /\ Abort
    /\ UNCHANGED <<req, tableVars, reader, streamVars, cancelVars>>

ProcessDies ==
    /\ proc = "running"
    /\ proc' = "dead"
    /\ UNCHANGED <<req, tableVars, alive, reader, streamVars, cancelVars>>

Next ==
    \/ \E r \in Requests :
        \/ Register(r) \/ Reject(r) \/ TakeWriter(r) \/ WriteDone(r) \/ WriteBreaks(r)
        \/ WriterTimeout(r) \/ Break(r) \/ Receive(r) \/ GiveUp(r) \/ ReadAnswer(r)
    \/ ReaderEof \/ ReaderFails \/ Drain \/ ReaderKills
    \/ CancelNext \/ CancelTake \/ CancelDone \/ CancelBreaks \/ CancelAborts
    \/ OwnerAborts \/ ProcessDies

(* Ready tasks are polled again, and each write has its five seconds.  No  *)
(* fairness for the ten minutes of a tool call, nor for the server.        *)
Fairness ==
    /\ \A r \in Requests :
        /\ WF_vars(TakeWriter(r) \/ WriterTimeout(r))
        /\ WF_vars(WriteDone(r) \/ WriteBreaks(r))
        /\ WF_vars(Break(r))
        /\ WF_vars(Receive(r))
    /\ WF_vars(ReaderEof \/ Drain \/ ReaderKills)
    /\ WF_vars(CancelNext)
    /\ WF_vars(CancelTake \/ CancelDone \/ CancelBreaks)
    /\ WF_vars(CancelAborts)

Spec == Init /\ [][Next]_vars
FairSpec == Spec /\ Fairness

-----------------------------------------------------------------------------
(* Properties that hold *)

(* The type invariant; the channel of cancellations keeps its capacity. *)
TypeOK ==
    /\ req \in [Requests -> ReqStates]
    /\ pending \cup sent \cup told \cup abandoned \subseteq Requests
    /\ reply \in [Requests -> {"none", "answer", "closed"}]
    /\ alive \in BOOLEAN
    /\ torn \in BOOLEAN
    /\ reader \in {"reading", "ended", "drained", "done"}
    /\ writer \in Writers \cup {None}
    /\ glued \subseteq Writers
    /\ queue \in Seq(Requests)
    /\ Len(queue) <= CancelQueue
    /\ canceller \in {"idle", "queued", "writing", "breaking", "gone"}
    /\ cancels \in Requests \cup {None}
    /\ canceller \in {"queued", "writing"} => cancels \in Requests
    /\ proc \in {"running", "dead"}

(* The response table with its guards implements RequestTable: slots are   *)
(* bounded and released on every way out, and a connection that went down  *)
(* has nobody waiting on it, however registering and draining interleave.  *)
Table == INSTANCE RequestTable WITH
    open <- pending,
    seen <- {r \in Requests : req[r] # "new"},
    over <- {r \in Requests : req[r] = "over"},
    up   <- reader \in {"reading", "ended"}
ImplementsTable == Table!Spec

(* A request that nobody can answer any more, because the connection is    *)
(* dead or its line was glued to a half-written one, ends without waiting  *)
(* for the ten minutes of a tool call.                                     *)
HopelessSettles ==
    \A r \in Requests :
        req[r] = "waiting" /\ (~alive \/ r \in glued) ~> req[r] = "over"

(* A server that got a request whose caller gave up is told, or killed:    *)
(* a full channel of cancellations forgets nobody.                         *)
CancelReaches ==
    \A r \in Requests : r \in abandoned ~> r \in told \/ ~alive

(* No request is left hanging, on either side of the pipe. *)
RequestsSettle == HopelessSettles /\ CancelReaches
=============================================================================
