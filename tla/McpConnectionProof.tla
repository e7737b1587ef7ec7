-------------------------- MODULE McpConnectionProof --------------------------
(***************************************************************************)
(* Theorems about McpConnection, for any number of requests and any limits. *)
(***************************************************************************)
EXTENDS McpConnection, TLAPS

(* Cancelling takes a place that is free, or aborts. *)
LEMMA Cancelled ==
    ASSUME TypeOK, NEW r \in Requests, Cancel(r)
    PROVE  /\ queue' \in Seq(Requests)
           /\ Len(queue') <= CancelQueue
           /\ alive' \in BOOLEAN /\ (alive' => alive)
           /\ proc' \in {"running", "dead"}
<1>1. CASE canceller # "gone" /\ Len(queue) < CancelQueue
  <2>1. queue' = Append(queue, r) /\ UNCHANGED <<alive, proc>>
    BY <1>1 DEF Cancel
  <2> QED
    BY <2>1, <1>1, LimitsAssumption DEF TypeOK
<1>2. CASE ~(canceller # "gone" /\ Len(queue) < CancelQueue)
  <2>1. alive' = FALSE /\ proc' = "dead" /\ UNCHANGED queue
    BY <1>2 DEF Cancel, Abort
  <2> QED
    BY <2>1 DEF TypeOK
<1> QED
  BY <1>1, <1>2

(* No cancellation waits at first.                                         *)
LEMMA EmptyQueue == <<>> \in Seq(Requests) /\ Len(<<>>) <= CancelQueue
BY LimitsAssumption

(* The types hold before the first request.                                *)
LEMMA TypeInit == Init => TypeOK
BY EmptyQueue DEF Init, TypeOK, ReqStates

(* The state machine of one request. *)
LEMMA TypeRequest ==
    ASSUME TypeOK, NEW r \in Requests,
           \/ Register(r) \/ Reject(r) \/ TakeWriter(r) \/ WriteDone(r) \/ WriteBreaks(r)
           \/ WriterTimeout(r) \/ Break(r) \/ Receive(r) \/ ReadAnswer(r)
    PROVE  TypeOK'
<1> USE DEF TypeOK, ReqStates, Writers, tableVars, streamVars, cancelVars, Moves
<1>1. CASE Register(r)
  BY <1>1 DEF Register
<1>2. CASE Reject(r)
  BY <1>2 DEF Reject
<1>3. CASE TakeWriter(r)
  BY <1>3 DEF TakeWriter, TakesWriter
<1>4. CASE WriteDone(r)
  BY <1>4 DEF WriteDone
<1>5. CASE WriteBreaks(r)
  BY <1>5 DEF WriteBreaks
<1>6. CASE WriterTimeout(r)
  BY <1>6 DEF WriterTimeout
<1>7. CASE Break(r)
  BY <1>7 DEF Break, Abort
<1>8. CASE Receive(r)
  BY <1>8 DEF Receive
<1>9. CASE ReadAnswer(r)
  BY <1>9 DEF ReadAnswer
<1> QED
  BY <1>1, <1>2, <1>3, <1>4, <1>5, <1>6, <1>7, <1>8, <1>9

(* A caller that gives up queues its cancellation only if it fits.         *)
LEMMA TypeGiveUp ==
    ASSUME TypeOK, NEW r \in Requests, GiveUp(r)
    PROVE  TypeOK'
<1>1. /\ queue' \in Seq(Requests)
      /\ Len(queue') <= CancelQueue
      /\ alive' \in BOOLEAN
      /\ proc' \in {"running", "dead"}
  BY Cancelled DEF GiveUp, TypeOK
<1> QED
  BY <1>1 DEF GiveUp, TypeOK, ReqStates, Writers, tableVars, streamVars, Moves

(* The reader, the canceller, the owner and the process. *)
LEMMA TypeTasks ==
    ASSUME TypeOK,
           \/ ReaderEof \/ ReaderFails \/ Drain \/ ReaderKills
           \/ CancelNext \/ CancelTake \/ CancelDone \/ CancelBreaks \/ CancelAborts
           \/ OwnerAborts \/ ProcessDies
    PROVE  TypeOK'
<1> USE DEF TypeOK, Writers, tableVars, streamVars, cancelVars
<1>1. CASE ReaderEof \/ ReaderFails
  BY <1>1 DEF ReaderEof, ReaderFails, ReaderEnds
<1>2. CASE Drain
  BY <1>2 DEF Drain
<1>3. CASE ReaderKills
  BY <1>3 DEF ReaderKills
<1>4. CASE CancelNext
  <2>1. CASE alive
    <3>1. /\ Head(queue) \in Requests
          /\ Tail(queue) \in Seq(Requests)
          /\ Len(Tail(queue)) <= CancelQueue
      BY <1>4, LimitsAssumption DEF CancelNext
    <3> QED
      BY <1>4, <2>1, <3>1 DEF CancelNext
  <2>2. CASE ~alive
    BY <1>4, <2>2, EmptyQueue DEF CancelNext
  <2> QED
    BY <2>1, <2>2
<1>5. CASE CancelTake
  BY <1>5 DEF CancelTake, TakesWriter
<1>6. CASE CancelDone
  <2>1. told' \subseteq Requests
    BY <1>6 DEF CancelDone
  <2> QED
    BY <1>6, <2>1 DEF CancelDone
<1>7. CASE CancelBreaks
  BY <1>7 DEF CancelBreaks
<1>8. CASE CancelAborts
  BY <1>8, EmptyQueue DEF CancelAborts, Abort
<1>9. CASE OwnerAborts \/ ProcessDies
  BY <1>9 DEF OwnerAborts, ProcessDies, Abort
<1> QED
  BY <1>1, <1>2, <1>3, <1>4, <1>5, <1>6, <1>7, <1>8, <1>9

(* Every step keeps the types.                                             *)
LEMMA TypeNext == TypeOK /\ [Next]_vars => TypeOK'
<1> SUFFICES ASSUME TypeOK, [Next]_vars PROVE TypeOK'
  OBVIOUS
<1>1. CASE UNCHANGED vars
  BY <1>1 DEF TypeOK, vars, tableVars, streamVars, cancelVars
<1>2. CASE Next
  BY <1>2, TypeRequest, TypeGiveUp, TypeTasks DEF Next
<1> QED
  BY <1>1, <1>2

(* Every variable keeps its type, and the channel of cancellations its     *)
(* capacity.                                                               *)
THEOREM TypeCorrect == Spec => []TypeOK
BY TypeInit, TypeNext, PTL DEF Spec

-----------------------------------------------------------------------------
(* The table *)

InTable == {"queued", "writing", "breaking", "waiting"}

(* A slot belongs to a request under way that has no reply yet ...          *)
SlotsOwned ==
    /\ \A r \in pending : req[r] \in InTable /\ reply[r] = "none"
    /\ \A r \in Requests : req[r] = "new" => reply[r] = "none"
(* ... a live connection is being read ...                                 *)
LiveIsRead == alive => reader = "reading"
(* ... and nothing enters the table once the reader has drained it.        *)
StaysDrained == reader \in {"drained", "done"} => pending = {}

TableInv == SlotsOwned /\ LiveIsRead /\ StaysDrained

(* The table is empty and the connection is read.                          *)
LEMMA TableInit == Init => TableInv
BY DEF Init, TableInv, SlotsOwned, LiveIsRead, StaysDrained

(* What callers do, and what is done for one, keeps the table.             *)
LEMMA TableRequest ==
    ASSUME TypeOK, TableInv, NEW r \in Requests,
           \/ Register(r) \/ Reject(r) \/ TakeWriter(r) \/ WriteDone(r) \/ WriteBreaks(r)
           \/ WriterTimeout(r) \/ Break(r) \/ Receive(r) \/ ReadAnswer(r) \/ GiveUp(r)
    PROVE  TableInv'
<1> USE DEF TypeOK, TableInv, SlotsOwned, LiveIsRead, StaysDrained, InTable, tableVars, Moves
<1>1. CASE Register(r)
  <2>1. reply[r] = "none"
    BY <1>1 DEF Register
  <2> QED
    BY <1>1, <2>1 DEF Register
<1>2. CASE Reject(r) \/ Receive(r)
  BY <1>2 DEF Reject, Receive
<1>3. CASE TakeWriter(r) \/ WriteDone(r) \/ WriteBreaks(r) \/ WriterTimeout(r)
  <2>1. /\ req[r] \in {"queued", "writing"}
        /\ \E s \in InTable : Moves(r, s)
        /\ UNCHANGED <<pending, reply, alive, reader>>
    BY <1>3 DEF TakeWriter, WriteDone, WriteBreaks, WriterTimeout
  <2> QED
    BY <2>1
<1>4. CASE Break(r)
  BY <1>4 DEF Break, Abort
<1>5. CASE ReadAnswer(r)
  BY <1>5 DEF ReadAnswer
<1>6. CASE GiveUp(r)
  <2>1. alive' => alive
    BY <1>6, Cancelled DEF GiveUp
  <2> QED
    BY <1>6, <2>1 DEF GiveUp
<1> QED
  BY <1>1, <1>2, <1>3, <1>4, <1>5, <1>6
(* What the reader, the canceller and the owner do keeps the table.        *)
LEMMA TableTasks ==
    ASSUME TypeOK, TableInv,
           \/ ReaderEof \/ ReaderFails \/ Drain \/ ReaderKills
           \/ CancelNext \/ CancelTake \/ CancelDone \/ CancelBreaks \/ CancelAborts
           \/ OwnerAborts \/ ProcessDies
    PROVE  TableInv'
<1> USE DEF TypeOK, TableInv, SlotsOwned, LiveIsRead, StaysDrained, InTable, tableVars
<1>1. CASE ReaderEof \/ ReaderFails
  BY <1>1 DEF ReaderEof, ReaderFails, ReaderEnds
<1>2. CASE Drain
  <2>1. \A r \in Requests : req[r] = "new" => r \notin pending
    OBVIOUS
  <2> QED
    BY <1>2, <2>1 DEF Drain
<1>3. CASE ReaderKills
  BY <1>3 DEF ReaderKills
<1>4. CASE CancelNext \/ CancelTake \/ CancelDone \/ CancelBreaks
  <2>1. UNCHANGED <<req, pending, reply, alive, reader>>
    BY <1>4 DEF CancelNext, CancelTake, CancelDone, CancelBreaks
  <2> QED
    BY <2>1
<1>5. CASE CancelAborts \/ OwnerAborts \/ ProcessDies
  BY <1>5 DEF CancelAborts, OwnerAborts, ProcessDies, Abort
<1> QED
  BY <1>1, <1>2, <1>3, <1>4, <1>5

(* Every step keeps the table.                                             *)
LEMMA TableNext == TypeOK /\ TableInv /\ [Next]_vars => TableInv'
<1> SUFFICES ASSUME TypeOK, TableInv, [Next]_vars PROVE TableInv'
  OBVIOUS
<1>1. CASE UNCHANGED vars
  BY <1>1 DEF TableInv, SlotsOwned, LiveIsRead, StaysDrained, InTable, vars, tableVars
<1>2. CASE Next
  BY <1>2, TableRequest, TableTasks DEF Next
<1> QED
  BY <1>1, <1>2

-----------------------------------------------------------------------------
(* Refinement *)

(* The initial states are initial states of the table.                     *)
LEMMA RefinesInit == Init => Table!Init
BY DEF Init, Table!Init

(* A step of a caller is a step of the table, or none.                     *)
LEMMA RefinesRequest ==
    ASSUME TypeOK, TableInv, NEW r \in Requests,
           \/ Register(r) \/ Reject(r) \/ TakeWriter(r) \/ WriteDone(r) \/ WriteBreaks(r)
           \/ WriterTimeout(r) \/ Break(r) \/ Receive(r) \/ ReadAnswer(r) \/ GiveUp(r)
    PROVE  [Table!Next]_Table!vars
<1> DEFINE seen == {q \in Requests : req[q] # "new"}
           over == {q \in Requests : req[q] = "over"}
<1> USE DEF TypeOK, TableInv, SlotsOwned, LiveIsRead, InTable, tableVars, Moves
<1>1. CASE Register(r)
  <2>1. seen' = seen \cup {r} /\ over' = over /\ r \notin seen
    <3>1. req[r] = "new" /\ req' = [req EXCEPT ![r] = "queued"]
      BY <1>1 DEF Register
    <3> QED
      BY <3>1
  <2>2. reader = "reading" /\ reader' = reader
    BY <1>1 DEF Register
  <2>3. Table!Open(r)
    <3>1. Cardinality(pending) < MaxPending /\ pending' = pending \cup {r}
      BY <1>1 DEF Register
    <3>2. Table!Cardinality(pending) = Cardinality(pending)
      BY DEF Table!Cardinality, Cardinality
    <3> QED
      BY <2>1, <2>2, <3>1, <3>2 DEF Table!Open
  <2> QED
    BY <2>3 DEF Table!Next
<1>2. CASE Reject(r) \/ Break(r) \/ Receive(r) \/ GiveUp(r)
  <2>1. /\ req[r] # "over"
        /\ req' = [req EXCEPT ![r] = "over"]
        /\ pending' = pending \ {r}
        /\ UNCHANGED reader
    BY <1>2 DEF Reject, Break, Receive, GiveUp
  <2>2. seen' = seen \cup {r} /\ over' = over \cup {r} /\ r \notin over
    BY <2>1
  <2>3. Table!Return(r)
    BY <2>1, <2>2 DEF Table!Return
  <2> QED
    BY <2>3 DEF Table!Next
<1>3. CASE TakeWriter(r) \/ WriteDone(r) \/ WriteBreaks(r) \/ WriterTimeout(r)
  <2>1. /\ req[r] \in {"queued", "writing"}
        /\ \E s \in InTable : Moves(r, s)
        /\ UNCHANGED <<pending, reader>>
    BY <1>3 DEF TakeWriter, WriteDone, WriteBreaks, WriterTimeout
  <2>2. seen' = seen /\ over' = over
    BY <2>1
  <2> QED
    BY <2>1, <2>2 DEF Table!vars
<1>4. CASE ReadAnswer(r)
  <2>1. Table!Answer(r)
    BY <1>4 DEF ReadAnswer, Table!Answer
  <2> QED
    BY <2>1 DEF Table!Next
<1> QED
  BY <1>1, <1>2, <1>3, <1>4

(* A step of the reader, the canceller or the owner is one, or none.       *)
LEMMA RefinesTasks ==
    ASSUME TableInv,
           \/ ReaderEof \/ ReaderFails \/ Drain \/ ReaderKills
           \/ CancelNext \/ CancelTake \/ CancelDone \/ CancelBreaks \/ CancelAborts
           \/ OwnerAborts \/ ProcessDies
    PROVE  [Table!Next]_Table!vars
<1>1. CASE Drain
  BY <1>1 DEF Drain, Table!Next, Table!Down
<1>2. CASE ReaderEof \/ ReaderFails \/ ReaderKills
  BY <1>2 DEF ReaderEof, ReaderFails, ReaderEnds, ReaderKills, tableVars, Table!vars
<1>3. CASE CancelNext \/ CancelTake \/ CancelDone \/ CancelBreaks \/ CancelAborts
  BY <1>3 DEF CancelNext, CancelTake, CancelDone, CancelBreaks, CancelAborts, tableVars,
     Table!vars
<1>4. CASE OwnerAborts \/ ProcessDies
  BY <1>4 DEF OwnerAborts, ProcessDies, tableVars, Table!vars
<1> QED
  BY <1>1, <1>2, <1>3, <1>4

(* So is every step.                                                       *)
LEMMA RefinesStep == TypeOK /\ TableInv /\ [Next]_vars => [Table!Next]_Table!vars
<1> SUFFICES ASSUME TypeOK, TableInv, [Next]_vars PROVE [Table!Next]_Table!vars
  OBVIOUS
<1>1. CASE UNCHANGED vars
  BY <1>1 DEF vars, tableVars, Table!vars
<1>2. CASE Next
  BY <1>2, RefinesRequest, RefinesTasks DEF Next
<1> QED
  BY <1>1, <1>2

(* The response table implements RequestTable: no slot is leaked, reused   *)
(* or filled on a connection that was drained.                             *)
THEOREM TableRefined == Spec => ImplementsTable
BY TypeInit, TypeNext, TableInit, TableNext, RefinesInit, RefinesStep, PTL
   DEF Spec, ImplementsTable, Table!Spec
=============================================================================
