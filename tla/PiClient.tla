------------------------------- MODULE PiClient -------------------------------
(***************************************************************************)
(* The client of the pi daemon (portal/src/subagent/pi_client.rs and the   *)
(* messages of protocol.rs): the greeting, the requests that share one     *)
(* socket, the table of pending answers, the writer, and the reader task   *)
(* that drains the table and clears `connected` when the stream ends.      *)
(*                                                                         *)
(* A step ends at an await and at every lock or flag another thread may    *)
(* look at.  Ids are never reused (next_id), so a request is its id.       *)
(* Events go to a broadcast channel that never holds the reader up; they   *)
(* change nothing here.                                                    *)
(***************************************************************************)
EXTENDS Naturals, FiniteSets

CONSTANTS
    Requests, \* requests, named by their ids
    None,     \* nobody writes; not a request
    Policy    \* STRICT, PROBE or LENIENT: [hello |-> BOOLEAN, protocol |-> BOOLEAN]

VARIABLES
    link,      \* connect_io: "greeting", "open", or "refused"
    req,       \* [Requests -> where the request is]
    pending,   \* ids in `pending`
    reply,     \* [Requests -> state of its oneshot channel]
    connected, \* the `connected` flag
    reader,    \* where the reader task is
    \* --- the stream to the daemon ------------------------------------------
    writer,    \* who holds the writer lock
    torn,      \* the stream ends inside a line
    glued,     \* whose line was appended to an unfinished one
    received,  \* requests the daemon has read
    \* --- the stream from the daemon ----------------------------------------
    answers,   \* answers on their way
    stream     \* what follows them: "open", "eof", or a line past MAX_LINE_BYTES

tableVars  == <<pending, reply>>
writeVars  == <<writer, torn, glued, received>>
readVars   == <<answers, stream>>
vars == <<link, req, tableVars, connected, reader, writeVars, readVars>>

Init ==
    /\ link = "greeting"
    /\ req = [r \in Requests |-> "new"]
    /\ pending = {}
    /\ reply = [r \in Requests |-> "empty"]
    /\ connected = FALSE
    /\ reader = "none"
    /\ writer = None
    /\ torn = FALSE
    /\ glued = {}
    /\ received = {}
    /\ answers = {}
    /\ stream = "open"

Moves(r, to) == req' = [req EXCEPT ![r] = to]

-----------------------------------------------------------------------------
(* connect_io() *)

(* What arrives first, or does not within HELLO_TIMEOUT.  Other messages   *)
(* before the greeting are skipped.                                        *)
Greetings == {"hello", "other version", "not json", "end", "silence"}

CheckProtocol(g) == g = "hello"

Accepts(g) ==
    IF g \in {"hello", "other version"}
    THEN Policy.protocol => CheckProtocol(g)
    ELSE ~Policy.hello

ConnectIo(g) ==
    /\ link = "greeting"
    /\ link' = IF Accepts(g) THEN "open" ELSE "refused"
    /\ connected' = Accepts(g)
    /\ reader' = IF Accepts(g) THEN "reading" ELSE "none"
    /\ stream' = IF g = "end" THEN "eof" ELSE stream
    /\ UNCHANGED <<req, tableVars, writeVars, answers>>

-----------------------------------------------------------------------------
(* request() *)

(* The flag is read, and the entry made, without a lock over both. *)
Check(r) ==
    /\ link = "open"
    /\ req[r] = "new"
    /\ Moves(r, IF connected THEN "checked" ELSE "over")
    /\ UNCHANGED <<link, tableVars, connected, reader, writeVars, readVars>>

InsertPending(r) ==
    /\ req[r] = "checked"
    /\ pending' = pending \cup {r}
    /\ Moves(r, "queued")
    /\ UNCHANGED <<link, reply, connected, reader, writeVars, readVars>>

(* take_pending() takes the sender: a caller still waiting sees it closed. *)
TakePending(r) == pending' = pending \ {r}

(* write_line() refuses a line past MAX_LINE_BYTES. *)
LineTooLong(r) ==
    /\ req[r] = "queued"
    /\ TakePending(r)
    /\ Moves(r, "over")
    /\ UNCHANGED <<link, reply, connected, reader, writeVars, readVars>>

TakeWriter(r) ==
    /\ req[r] = "queued"
    /\ writer = None
    /\ writer' = r
    /\ glued' = IF torn THEN glued \cup {r} ELSE glued
    /\ Moves(r, "writing")
    /\ UNCHANGED <<link, tableVars, connected, reader, torn, received, readVars>>

WriteLine(r) ==
    /\ req[r] = "writing"
    /\ stream # "eof"
    /\ writer' = None
    /\ torn' = FALSE
    /\ received' = IF r \in glued THEN received ELSE received \cup {r}
    /\ Moves(r, "waiting")
    /\ UNCHANGED <<link, tableVars, connected, reader, glued, readVars>>

WriteFails(r) ==
    /\ req[r] = "writing"
    /\ stream = "eof"
    /\ writer' = None
    /\ torn' \in {TRUE, torn}
    /\ TakePending(r)
    /\ Moves(r, "over")
    /\ UNCHANGED <<link, reply, connected, reader, glued, received, readVars>>

Answered(r) ==
    /\ req[r] = "waiting"
    /\ reply[r] # "empty"
    /\ Moves(r, "over")
    /\ UNCHANGED <<link, tableVars, connected, reader, writeVars, readVars>>

TimesOut(r) ==
    /\ req[r] = "waiting"
    /\ reply[r] = "empty"
    /\ TakePending(r)
    /\ Moves(r, "over")
    /\ UNCHANGED <<link, reply, connected, reader, writeVars, readVars>>

(* The caller's future is dropped: the entry stays, and of a line being    *)
(* written a part may have gone out.                                       *)
Dropped(r) ==
    /\ req[r] \in {"queued", "writing", "waiting"}
    /\ IF req[r] = "writing"
       THEN writer' = None /\ torn' \in {TRUE, torn}
       ELSE UNCHANGED <<writer, torn>>
    /\ Moves(r, "over")
    /\ UNCHANGED <<link, tableVars, connected, reader, glued, received, readVars>>

-----------------------------------------------------------------------------
(* The daemon: external. *)

DaemonAnswers(r) ==
    /\ r \in received
    /\ stream = "open"
    /\ received' = received \ {r}
    /\ answers' = answers \cup {r}
    /\ UNCHANGED <<link, req, tableVars, connected, reader, writer, torn, glued, stream>>

(* It closes the socket, or writes a line no reader accepts and reads on. *)
StreamEnds(how) ==
    /\ link = "open"
    /\ stream = "open"
    /\ stream' = how
    /\ UNCHANGED <<link, req, tableVars, connected, reader, writeVars, answers>>

-----------------------------------------------------------------------------
(* reader_task() *)

ReadAnswer(r) ==
    /\ reader = "reading"
    /\ r \in answers
    /\ answers' = answers \ {r}
    /\ TakePending(r)
    /\ reply' = IF r \in pending THEN [reply EXCEPT ![r] = "answer"] ELSE reply
    /\ UNCHANGED <<link, req, connected, reader, writeVars, stream>>

(* The stream ends: drain_pending() drops every sender ... *)
DrainPending ==
    /\ reader = "reading"
    /\ answers = {}
    /\ stream # "open"
    /\ reply' = [r \in Requests |-> IF r \in pending THEN "closed" ELSE reply[r]]
    /\ pending' = {}
    /\ reader' = "drained"
    /\ UNCHANGED <<link, req, connected, writeVars, readVars>>

(* ... and only then is the flag cleared. *)
ClearConnected ==
    /\ reader = "drained"
    /\ connected' = FALSE
    /\ reader' = "ended"
    /\ UNCHANGED <<link, req, tableVars, writeVars, readVars>>

-----------------------------------------------------------------------------
Next ==
    \/ \E g \in Greetings : ConnectIo(g)
    \/ \E r \in Requests :
          \/ Check(r) \/ InsertPending(r) \/ LineTooLong(r) \/ TakeWriter(r)
          \/ WriteLine(r) \/ WriteFails(r) \/ Answered(r) \/ TimesOut(r) \/ Dropped(r)
          \/ DaemonAnswers(r) \/ ReadAnswer(r)
    \/ \E how \in {"eof", "oversized"} : StreamEnds(how)
    \/ DrainPending
    \/ ClearConnected

Spec == Init /\ [][Next]_vars

-----------------------------------------------------------------------------
(* drain_pending is "called when the reader task ends so callers get an    *)
(* error instead of hanging until their timeout" (pi_client.rs:309): no    *)
(* request times out on a connection known to be dead.                     *)
NoTimeoutOnDeadConnection ==
    [][\A r \in Requests : reader = "ended" => ~TimesOut(r)]_vars
=============================================================================
