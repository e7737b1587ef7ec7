------------------------------ MODULE PortalProof ------------------------------
(***************************************************************************)
(* Theorems about a Portal process from its launch to its cleanup: the     *)
(* installation it comes from (Installation), its life around the relay    *)
(* link (PortalLife), and the connections it serves (Connection), for any  *)
(* number of launches, requests and ids and any limits.                    *)
(***************************************************************************)
EXTENDS Connection, PortalLife, Installation, FiniteSetTheorems, TLAPS

(* What has not been read has no answer and no cancellation ...            *)
UnreadIsBlank ==
    \A r \in Requests : call[r] \in {"unsent", "sent"} =>
        /\ reply[r] = "none"
        /\ r \notin aborted
(* ... and the request that owns an id was not told to abort.              *)
OwnersGoOn == \A i \in Ids : active[i] \notin aborted
(* A handler came with an id, and never from an initialize request.        *)
HandlersNamed ==
    \A r \in Requests : call[r] \in Unjoined => id[r] \in Ids /\ kind[r] \in Kinds

Inv == TypeOK /\ UnreadIsBlank /\ OwnersGoOn /\ HandlersNamed

(* A connection just accepted.                                             *)
LEMMA InvInit == Init => Inv
<1> SUFFICES ASSUME Init PROVE Inv
  OBVIOUS
<1>1. TypeOK
  <2>1. {tools, revision, seen, told, toldTools} \subseteq Nat
    BY DEF Init
  <2>2. \A i \in Ids : active[i] = None
    BY DEF Init
  <2>3. call \in [Requests -> CallStates]
    BY DEF Init, CallStates
  <2> QED
    BY <2>1, <2>2, <2>3 DEF Init, TypeOK
<1>2. UnreadIsBlank /\ OwnersGoOn /\ HandlersNamed
  BY DEF Init, UnreadIsBlank, OwnersGoOn, HandlersNamed, Unjoined, Working
<1> QED
  BY <1>1, <1>2 DEF Inv

(* A message is sent.                                                      *)
LEMMA InvSend ==
    ASSUME Inv, NEW r \in Requests, NEW i \in Ids, NEW k \in Kinds \cup {"initialize"},
           Send(r, i, k)
    PROVE  Inv'
BY NoneAssumption, KindsAssumption
   DEF Inv, TypeOK, UnreadIsBlank, OwnersGoOn, HandlersNamed, CallStates, Unjoined, Working,
       Send, loopVars, restartVars, changeVars

(* A request is read: refused, answered on the spot or admitted.           *)
LEMMA InvRead ==
    ASSUME Inv, NEW r \in Requests, Read(r)
    PROVE  Inv'
<1> USE NoneAssumption, KindsAssumption
    DEF Inv, TypeOK, UnreadIsBlank, OwnersGoOn, HandlersNamed, CallStates, Unjoined, Working,
        Receive, Refuse, Selecting, loopVars, restartVars, changeVars
<1>1. CASE ReadInitialize(r)
  BY <1>1 DEF ReadInitialize
<1>2. CASE ReadDuplicate(r)
  BY <1>2 DEF ReadDuplicate
<1>3. CASE ReadBusy(r)
  BY <1>3 DEF ReadBusy
<1>4. CASE ReadAdmit(r)
  BY <1>4 DEF ReadAdmit
<1> QED
  BY <1>1, <1>2, <1>3, <1>4 DEF Read

(* $/cancelRequest frees the id and aborts its handler.                    *)
LEMMA InvCancel ==
    ASSUME Inv, NEW i \in Ids, ReadCancel(i)
    PROVE  Inv'
<1> USE NoneAssumption
    DEF Inv, TypeOK, UnreadIsBlank, OwnersGoOn, HandlersNamed, CallStates, Unjoined, Working,
        Selecting, loopVars, restartVars, changeVars
<1>1. \A j \in Ids : active[j] = active[i] => j = i
  BY DEF ReadCancel
<1> QED
  BY <1>1 DEF ReadCancel

(* A handler works, finishes or unwinds on its own.                        *)
LEMMA InvHandler ==
    ASSUME Inv, NEW r \in Requests, Handler(r) \/ HandlerUnwinds(r)
    PROVE  Inv'
<1> USE DEF Inv, TypeOK, UnreadIsBlank, OwnersGoOn, HandlersNamed, CallStates, Unjoined,
        Working, Settles, loopVars
<1>1. CASE HandlerFinishes(r)
  BY <1>1 DEF HandlerFinishes, AsksRestart
<1>2. CASE ReloadEmpties(r)
  BY <1>2 DEF ReloadEmpties
<1>3. CASE ReloadEnds(r)
  BY <1>3 DEF ReloadEnds
<1>4. CASE HandlerPanics(r)
  BY <1>4 DEF HandlerPanics
<1>5. CASE HandlerUnwinds(r)
  BY <1>5 DEF HandlerUnwinds
<1> QED
  BY <1>1, <1>2, <1>3, <1>4, <1>5 DEF Handler

(* The loop ends and aborts every handler.                                 *)
LEMMA InvLeave ==
    ASSUME Inv, Leave
    PROVE  Inv'
BY NoneAssumption, ZenonT(60)
   DEF Inv, TypeOK, UnreadIsBlank, OwnersGoOn, HandlersNamed, CallStates, Unjoined, Working,
       Leave, restartVars, changeVars

(* The loop joins a handler and sends its answer.                          *)
LEMMA InvJoin ==
    ASSUME Inv, NEW r \in Requests, Join(r)
    PROVE  Inv'
<1> USE NoneAssumption
    DEF Inv, TypeOK, UnreadIsBlank, OwnersGoOn, HandlersNamed, CallStates, Unjoined, Working,
        Selecting, loopVars, restartVars, changeVars
<1>1. CASE JoinFinished(r)
  BY <1>1 DEF JoinFinished, OwnsId, RestartsAfter
<1>2. CASE JoinUnwound(r)
  BY <1>2 DEF JoinUnwound
<1>3. CASE JoinPanicked(r)
  BY <1>3, InvLeave DEF JoinPanicked
<1> QED
  BY <1>1, <1>2, <1>3 DEF Join

(* The list of tools changes and is told.                                  *)
LEMMA InvChanges ==
    ASSUME Inv, ToolsChange \/ NotifyBegins \/ NotifyEnds
    PROVE  Inv'
<1> USE DEF Inv, TypeOK, UnreadIsBlank, OwnersGoOn, HandlersNamed, Unjoined, Working,
            requestVars, restartVars, loopVars, Selecting
<1>1. CASE ToolsChange
  BY <1>1 DEF ToolsChange
<1>2. CASE NotifyBegins
  BY <1>2 DEF NotifyBegins
<1>3. CASE NotifyEnds
  <2>1. {tools, revision, seen, told, toldTools}' \subseteq Nat
    BY <1>3 DEF NotifyEnds
  <2>2. notifying' = FALSE /\ UNCHANGED <<open, initialized, requestVars, restartVars>>
    BY <1>3 DEF NotifyEnds
  <2> QED
    BY <2>1, <2>2
<1> QED
  BY <1>1, <1>2, <1>3

(* Every step of a connection keeps the invariant.                         *)
LEMMA InvNext == Inv /\ [Next]_vars => Inv'
<1> SUFFICES ASSUME Inv, [Next]_vars PROVE Inv'
  OBVIOUS
<1>1. CASE UNCHANGED vars
  BY <1>1 DEF Inv, TypeOK, UnreadIsBlank, OwnersGoOn, HandlersNamed, vars, loopVars, requestVars,
     restartVars, changeVars, Unjoined, Working
<1>2. CASE Next
  BY <1>2, InvSend, InvRead, InvCancel, InvHandler, InvLeave, InvJoin, InvChanges
     DEF Next, ResponseFails, NotificationFails, Disconnect
<1> QED
  BY <1>1, <1>2

(* Every variable keeps its type, and the request that holds an id is one  *)
(* whose handler is still to be joined.                                    *)
THEOREM TypeCorrect == Spec => []TypeOK
<1>1. Inv => TypeOK
  BY DEF Inv
<1> QED
  BY <1>1, InvInit, InvNext, PTL DEF Spec

-----------------------------------------------------------------------------
(* The JoinSets *)

(* The handlers of a pool can be counted.                                  *)
LEMMA PoolsFinite ==
    ASSUME NEW k
    PROVE  IsFiniteSet(Pool(k)) /\ Cardinality(Pool(k)) \in Nat
<1>1. Pool(k) \subseteq Requests
  BY DEF Pool
<1> QED
  BY <1>1, FiniteAssumption, FS_Subset, FS_CardinalityType

(* A pool that gains no handler keeps within its limit. *)
LEMMA PoolKeepsLimit ==
    ASSUME NEW k, NEW n \in Nat, Cardinality(Pool(k)) <= n, Pool(k)' \subseteq Pool(k)
    PROVE  Cardinality(Pool(k)') <= n
<1>1. Cardinality(Pool(k)') <= Cardinality(Pool(k)) /\ IsFiniteSet(Pool(k)')
  BY PoolsFinite, FS_Subset
<1>2. Cardinality(Pool(k)') \in Nat /\ Cardinality(Pool(k)) \in Nat
  BY <1>1, PoolsFinite, FS_CardinalityType
<1> QED
  BY <1>1, <1>2

(* Only admission adds a handler, and only to the pool of its own kind. *)
LEMMA AdmissionGrows ==
    ASSUME Inv, NEW r \in Requests, ReadAdmit(r), NEW p
    PROVE  Pool(p)' \subseteq IF IsManagement(p) = IsManagement(kind[r])
                              THEN Pool(p) \cup {r} ELSE Pool(p)
BY DEF Inv, TypeOK, ReadAdmit, Receive, Pool, IsManagement, Unjoined, Working

(* An admission leaves no pool over its limit.                             *)
LEMMA AdmissionBounded ==
    ASSUME Inv, NEW r \in Requests, ReadAdmit(r),
           NEW p \in {"work", "management"}, Cardinality(Pool(p)) <= Limit(p)
    PROVE  Cardinality(Pool(p)') <= Limit(p)
<1>0. Limit(p) \in Nat
  BY LimitsAssumption DEF Limit
<1>1. CASE IsManagement(p) = IsManagement(kind[r])
  <2>1. Pool(p) = Pool(kind[r]) /\ Limit(p) = Limit(kind[r])
    BY <1>1 DEF Pool, Limit
  <2>2. Cardinality(Pool(p)) < Limit(p)
    BY <2>1 DEF ReadAdmit
  <2>3. Pool(p)' \subseteq Pool(p) \cup {r}
    BY <1>1, AdmissionGrows
  <2>4. /\ IsFiniteSet(Pool(p) \cup {r})
        /\ Cardinality(Pool(p) \cup {r}) <= Cardinality(Pool(p)) + 1
    <3>1. IsFiniteSet(Pool(p)) /\ Cardinality(Pool(p)) \in Nat
      BY PoolsFinite
    <3> QED
      <4>1. /\ IsFiniteSet(Pool(p) \cup {r})
            /\ \/ Cardinality(Pool(p) \cup {r}) = Cardinality(Pool(p))
               \/ Cardinality(Pool(p) \cup {r}) = Cardinality(Pool(p)) + 1
        BY <3>1, FS_AddElement
      <4> QED
        BY <3>1, <4>1
  <2>5. IsFiniteSet(Pool(p)') /\ Cardinality(Pool(p)') <= Cardinality(Pool(p) \cup {r})
    BY <2>3, <2>4, FS_Subset
  <2>6. {Cardinality(Pool(p)), Cardinality(Pool(p)'), Cardinality(Pool(p) \cup {r})} \subseteq Nat
    BY <2>4, <2>5, PoolsFinite, FS_CardinalityType
  <2> QED
    BY <1>0, <2>2, <2>4, <2>5, <2>6
<1>2. CASE IsManagement(p) # IsManagement(kind[r])
  <2>1. Pool(p)' \subseteq Pool(p)
    BY <1>2, AdmissionGrows
  <2> QED
    BY <1>0, <2>1, PoolKeepsLimit
<1> QED
  BY <1>1, <1>2

(* Nothing but an admission adds to a pool.                                *)
LEMMA OthersShrink ==
    ASSUME Inv, Next, NEW p,
           ~ \E r \in Requests : ReadAdmit(r)
    PROVE  Pool(p)' \subseteq Pool(p)
<1> USE DEF Inv, TypeOK, Pool, Unjoined, Working, requestVars
<1>0. ASSUME NEW r \in Requests, NEW i \in Ids, NEW k \in Kinds \cup {"initialize"},
             Send(r, i, k)
      PROVE  Pool(p)' \subseteq Pool(p)
  BY <1>0 DEF Send
<1>1. ASSUME NEW r \in Requests, ReadInitialize(r) \/ ReadDuplicate(r) \/ ReadBusy(r)
      PROVE  Pool(p)' \subseteq Pool(p)
  <2>1. PICK c : Receive(r, c) /\ c \in {"joined", "refused"}
    BY <1>1 DEF ReadInitialize, ReadDuplicate, ReadBusy, Refuse
  <2> QED
    BY <2>1 DEF Receive
<1>2. ASSUME NEW r \in Requests, Handler(r) \/ HandlerUnwinds(r)
      PROVE  Pool(p)' \subseteq Pool(p)
  BY <1>2 DEF Handler, HandlerFinishes, ReloadEmpties, ReloadEnds, HandlerPanics,
     HandlerUnwinds, Settles
<1>3. CASE Leave
  BY <1>3 DEF Leave
<1>4. ASSUME NEW r \in Requests, Join(r)
      PROVE  Pool(p)' \subseteq Pool(p)
  BY <1>4, <1>3 DEF Join, JoinFinished, JoinUnwound, JoinPanicked
<1>5. ASSUME NEW i \in Ids, ReadCancel(i)
      PROVE  Pool(p)' \subseteq Pool(p)
  BY <1>5 DEF ReadCancel
<1>6. CASE ToolsChange \/ NotifyBegins \/ NotifyEnds
  BY <1>6 DEF ToolsChange, NotifyBegins, NotifyEnds
<1> QED
  BY <1>0, <1>1, <1>2, <1>3, <1>4, <1>5, <1>6
     DEF Next, Read, ResponseFails, NotificationFails, Disconnect

(* No handler at first.                                                    *)
LEMMA BoundInit == Init => HandlersBounded
<1> SUFFICES ASSUME Init PROVE HandlersBounded
  OBVIOUS
<1>1. \A p : Pool(p) = {}
  BY DEF Init, Pool, Unjoined, Working
<1> QED
  BY <1>1, FS_EmptySet, LimitsAssumption DEF HandlersBounded

(* Every step keeps the bound.                                             *)
LEMMA BoundNext == Inv /\ HandlersBounded /\ [Next]_vars => HandlersBounded'
<1> SUFFICES ASSUME Inv, HandlersBounded, [Next]_vars,
                    NEW p \in {"work", "management"}
             PROVE  Cardinality(Pool(p)') <= Limit(p)
  BY DEF HandlersBounded, Limit, IsManagement
<1>1. Limit(p) \in Nat /\ Cardinality(Pool(p)) <= Limit(p)
  BY LimitsAssumption DEF HandlersBounded, Limit, IsManagement
<1>2. CASE UNCHANGED vars
  <2>1. Pool(p)' = Pool(p)
    BY <1>2 DEF vars, requestVars, Pool
  <2> QED
    BY <1>1, <2>1
<1>3. ASSUME NEW r \in Requests, ReadAdmit(r)
      PROVE  Cardinality(Pool(p)') <= Limit(p)
  BY <1>1, <1>3, AdmissionBounded
<1>4. CASE Next /\ ~ \E r \in Requests : ReadAdmit(r)
  <2>1. Pool(p)' \subseteq Pool(p)
    BY <1>4, OthersShrink
  <2> QED
    BY <1>1, <2>1, PoolKeepsLimit
<1> QED
  BY <1>2, <1>3, <1>4

(* However a client cancels and sends again, at most WORK_REQUESTS and     *)
(* MANAGEMENT_REQUESTS handlers exist: a cancelled one counts until it is  *)
(* joined (handle_connection).                                             *)
THEOREM HandlersSafe == Spec => []HandlersBounded
BY InvInit, InvNext, BoundInit, BoundNext, PTL DEF Spec

-----------------------------------------------------------------------------
(* The restart *)

(* No restart was asked for.                                               *)
LEMMA RestartInit == Init => RestartAfterAnswer
BY DEF Init, RestartAfterAnswer

(* Only the join that writes an answer lets the process restart.           *)
LEMMA RestartNext == Inv /\ RestartAfterAnswer /\ [Next]_vars => RestartAfterAnswer'
<1> SUFFICES ASSUME Inv, RestartAfterAnswer, [Next]_vars, restarting'
             PROVE  \E r \in Requests : kind'[r] = "restart" /\ reply'[r] = "result"
  BY DEF RestartAfterAnswer
<1> USE DEF Inv, TypeOK
<1>1. ASSUME NEW r \in Requests, kind[r] = "restart", reply[r] = "result"
      PROVE  kind'[r] = "restart" /\ reply'[r] = "result"
  <2>1. call[r] \notin {"unsent", "sent"}
    BY <1>1 DEF UnreadIsBlank
  <2>0. ASSUME NEW q \in Requests, NEW i \in Ids, NEW k \in Kinds \cup {"initialize"},
               Send(q, i, k)
        PROVE  kind'[r] = kind[r] /\ reply'[r] = reply[r]
    BY <2>1, <2>0 DEF Send
  <2>2. ASSUME NEW q \in Requests, Read(q)
        PROVE  kind'[r] = kind[r] /\ reply'[r] = reply[r]
    BY <2>1, <2>2 DEF Read, ReadInitialize, ReadDuplicate, ReadBusy, ReadAdmit, Receive, Refuse
  <2>3. ASSUME NEW q \in Requests, JoinFinished(q)
        PROVE  kind'[r] = kind[r] /\ reply'[r] = "result"
    BY <1>1, <2>3 DEF JoinFinished
  <2>4. CASE Leave
    BY <1>1, <2>4 DEF Leave
  <2>5. ASSUME NEW q \in Requests, Handler(q) \/ HandlerUnwinds(q)
        PROVE  UNCHANGED <<kind, reply>>
    BY <2>5 DEF Handler, HandlerFinishes, ReloadEmpties, ReloadEnds, HandlerPanics,
       HandlerUnwinds, Settles
  <2> QED
    BY <1>1, <2>0, <2>2, <2>3, <2>4, <2>5
       DEF Next, vars, requestVars, Join, JoinUnwound, JoinPanicked, ResponseFails,
           NotificationFails,
           Disconnect, ReadCancel, ToolsChange, NotifyBegins, NotifyEnds
<1>2. CASE restarting
  BY <1>1, <1>2 DEF RestartAfterAnswer
<1>3. CASE ~restarting
  <2>1. PICK r \in Requests : JoinFinished(r)
    BY <1>3, ZenonT(60)
       DEF Next, vars, requestVars, restartVars, changeVars, Send, Receive, Read, ReadInitialize,
           ReadDuplicate, ReadBusy,
           Refuse, ReadAdmit, Handler, HandlerFinishes, ReloadEmpties, ReloadEnds, HandlerPanics,
           HandlerUnwinds, Settles, Join, JoinUnwound, JoinPanicked, ResponseFails,
           NotificationFails,
           Disconnect, Leave, ReadCancel, ToolsChange, NotifyBegins, NotifyEnds
  <2>2. kind'[r] = "restart" /\ reply'[r] = "result"
    BY <1>3, <2>1 DEF JoinFinished, RestartsAfter
  <2> QED
    BY <2>2
<1> QED
  BY <1>2, <1>3

(* Portal restarts only for a call whose answer was written, never for one *)
(* that was cancelled meanwhile (restart_after_response).                  *)
THEOREM RestartSafe == Spec => []RestartAfterAnswer
BY InvInit, InvNext, RestartInit, RestartNext, PTL DEF Spec

-----------------------------------------------------------------------------
(* Refinement *)

Answered == {r \in Requests : reply[r] = "result" /\ kind[r] # "initialize"}

(* The initial states are initial states of the slots.                     *)
LEMMA SlotsInit == Init => Slots!Init
BY DEF Init, Slots!Init

(* Reading a request claims a slot, or none.                               *)
LEMMA SlotsRead ==
    ASSUME Inv, NEW r \in Requests, Read(r)
    PROVE  [Slots!Next]_Slots!vars
<1> USE DEF Inv, TypeOK, UnreadIsBlank, Receive, Refuse, Selecting, loopVars
<1>1. CASE ReadInitialize(r) \/ ReadDuplicate(r) \/ ReadBusy(r)
  <2>1. UNCHANGED <<active, open>> /\ Answered' = Answered
    BY <1>1 DEF ReadInitialize, ReadDuplicate, ReadBusy, Answered
  <2> QED
    BY <2>1 DEF Slots!vars, Answered
<1>2. CASE ReadAdmit(r)
  <2>1. Answered' = Answered /\ r \notin Answered
    BY <1>2 DEF ReadAdmit, Answered
  <2>2. \A j \in Ids : active[j] # r
    BY <1>2, NoneAssumption DEF ReadAdmit, Unjoined, Working
  <2>3. id[r] \in Ids
    BY <1>2 DEF ReadAdmit
  <2>4. ASSUME NEW i \in Ids, i = id[r] PROVE Slots!Admit(r, i)
    BY <1>2, <2>1, <2>2, <2>4 DEF ReadAdmit, Slots!Admit, Answered
  <2> QED
    BY <2>3, <2>4 DEF Slots!Next
<1> QED
  BY <1>1, <1>2 DEF Read

(* The end of the loop frees every slot.                                   *)
LEMMA SlotsLeave ==
    ASSUME open, Leave
    PROVE  [Slots!Next]_Slots!vars
<1>1. Slots!Close
  BY DEF Leave, Slots!Close
<1> QED
  BY <1>1 DEF Slots!Next

(* A join answers for the request that holds the slot, or changes none.    *)
LEMMA SlotsJoin ==
    ASSUME Inv, NEW r \in Requests, JoinFinished(r)
    PROVE  [Slots!Next]_Slots!vars
<1> USE DEF Inv, TypeOK, JoinFinished, Selecting, loopVars
<1>1. CASE OwnsId(r)
  <2>0. id[r] \in Ids
    BY DEF HandlersNamed, Unjoined
  <2>1. active[id[r]] = r /\ active' = [active EXCEPT ![id[r]] = None]
    BY <1>1 DEF OwnsId
  <2>2. Answered' = Answered \cup {r}
    <3>1. kind[r] # "initialize"
      BY KindsAssumption DEF HandlersNamed, Unjoined, Working
    <3> QED
      BY <1>1, <3>1 DEF Answered
  <2>3. ASSUME NEW i \in Ids, i = id[r] PROVE Slots!Answer(i)
    BY <2>3, <1>1, <2>0, <2>1, <2>2, NoneAssumption DEF Slots!Answer, Answered
  <2> QED
    BY <2>0, <2>3 DEF Slots!Next
<1>2. CASE ~OwnsId(r)
  <2>1. UNCHANGED <<active, reply, kind, open>>
    BY <1>2
  <2>2. Answered' = Answered
    BY <2>1 DEF Answered
  <2> QED
    BY <2>1, <2>2 DEF Slots!vars, Answered
<1> QED
  BY <1>1, <1>2

(* A cancel frees the slot, or finds none.                                 *)
LEMMA SlotsCancel ==
    ASSUME Inv, NEW i \in Ids, ReadCancel(i)
    PROVE  [Slots!Next]_Slots!vars
<1>1. Slots!Cancel(i)
  BY DEF ReadCancel, Slots!Cancel, Selecting, loopVars
<1> QED
  BY <1>1 DEF Slots!Next

(* So every step of a connection is a step of the slots, or none.          *)
LEMMA SlotsStep == Inv /\ [Next]_vars => [Slots!Next]_Slots!vars
<1> SUFFICES ASSUME Inv, [Next]_vars PROVE [Slots!Next]_Slots!vars
  OBVIOUS
<1>1. CASE UNCHANGED <<open, active, reply, kind>>
  <2>1. Answered' = Answered
    BY <1>1 DEF Answered
  <2> QED
    BY <1>1, <2>1 DEF Slots!vars, Answered
<1>2. ASSUME NEW r \in Requests, Handler(r) \/ HandlerUnwinds(r) \/ JoinUnwound(r)
      PROVE  UNCHANGED <<open, active, reply, kind>>
  BY <1>2 DEF Handler, HandlerFinishes, ReloadEmpties, ReloadEnds, HandlerPanics,
     HandlerUnwinds, Settles, JoinUnwound, loopVars
<1>3. ASSUME NEW r \in Requests, NEW i \in Ids, NEW k \in Kinds \cup {"initialize"},
             Send(r, i, k)
      PROVE  UNCHANGED <<open, active>> /\ Answered' = Answered
  BY <1>3 DEF Send, loopVars, Inv, TypeOK, UnreadIsBlank, Answered
<1>4. ASSUME UNCHANGED <<open, active>>, Answered' = Answered PROVE [Slots!Next]_Slots!vars
  BY <1>4 DEF Slots!vars, Answered
<1>5. CASE NotificationFails
  <2>1. open
    BY <1>5 DEF NotificationFails, Inv, TypeOK
  <2> QED
    BY <1>5, <2>1, SlotsLeave DEF NotificationFails
<1> QED
  BY <1>1, <1>2, <1>3, <1>4, <1>5, SlotsRead, SlotsLeave, SlotsJoin, SlotsCancel
     DEF Next, vars, loopVars, requestVars, Join, JoinPanicked, ResponseFails, Disconnect,
         Selecting, ToolsChange, NotifyBegins, NotifyEnds

(* The loop implements RequestSlots: the response of a cancelled request   *)
(* is never written, also when its id belongs to another request by then.  *)
THEOREM SlotsRefined == Spec => ImplementsSlots
BY InvInit, InvNext, SlotsInit, SlotsStep, PTL DEF Spec, ImplementsSlots, Slots!Spec

-----------------------------------------------------------------------------
(* The process around the connections: PortalLife, the other half of       *)
(* main.rs, for any number of launches and any limits.                     *)

(* Where the platform has the lock, whoever got past it still holds it ... *)
LockHeld ==
    Guarded => \A p \in Launches :
        phase[p] \in {"start", "serve", "warmup down", "cleanup"} => owner = p
(* ... only a serving process in connect mode has a link ...               *)
LinkServes == \A p \in Launches : link[p] # "off" => Relayed /\ phase[p] = "serve"
(* ... calls are of the present session, and in connect mode need it ...   *)
CallsCurrent ==
    \A p \in Launches : \A s \in calls[p] : s = session[p] /\ (Relayed => link[p] = "up")
(* ... and the warm-up runs between its start and its shutdown.            *)
WarmsInTime == \A p \in Launches : warming[p] => phase[p] \in {"serve", "warmup down"}

LifeInv ==
    LifeTypeOK /\ LockHeld /\ LinkServes /\ CallsCurrent /\ WarmsInTime /\ NoLateAnswer

(* Before any launch.                                                      *)
LEMMA LifeInvInit == LifeInit => LifeInv
<1> SUFFICES ASSUME LifeInit PROVE LifeInv
  OBVIOUS
<1>1. LifeTypeOK
  <2>1. phase \in [Launches -> Phases] /\ link \in [Launches -> Links]
    BY DEF LifeInit, Phases, Links
  <2>2. shown \in [Launches -> States]
    BY DEF LifeInit, States
  <2>3. session \in [Launches -> 0..MaxSession] /\ silent \in [Launches -> 0..SilenceLimit + 1]
    BY SilenceAssumption DEF LifeInit
  <2>4. backoff \in [Launches -> {2, 4, 8, 16, 30}]
    BY DEF LifeInit, BackoffMin
  <2>5. /\ warming \in [Launches -> BOOLEAN] /\ old \in [Launches -> BOOLEAN]
        /\ late \in BOOLEAN
    BY DEF LifeInit
  <2>7. work \in [Launches -> SUBSET Starters] /\ runs \in [Launches -> Runs]
    BY DEF LifeInit, Runs
  <2>6. /\ owner \in Launches \cup {Nobody} /\ ready \in Launches \cup {Nobody}
        /\ relay \in {"up", "silent", "down", "rejects"}
        /\ calls \in [Launches -> SUBSET (0..MaxSession)]
    BY DEF LifeInit
  <2> QED
    BY <2>1, <2>2, <2>3, <2>4, <2>5, <2>6, <2>7 DEF LifeTypeOK
<1>2. LockHeld /\ LinkServes /\ CallsCurrent /\ WarmsInTime /\ NoLateAnswer
  BY DEF LifeInit, LockHeld, LinkServes, CallsCurrent, WarmsInTime, NoLateAnswer
<1> QED
  BY <1>1, <1>2 DEF LifeInv

(* Types of what the shared parts of the actions assign. *)
LEMMA LifeParts ==
    ASSUME LifeTypeOK, NEW p \in Launches
    PROVE  /\ \A to \in Phases : Enters(p, to) => phase' \in [Launches -> Phases]
           /\ Leaves(p) => /\ phase' \in [Launches -> Phases]
                               /\ owner' \in Launches \cup {Nobody}
                               /\ warming' \in [Launches -> BOOLEAN]
                               /\ work' \in [Launches -> SUBSET Starters]
                               /\ runs' \in [Launches -> Runs]
           /\ LoopDropped(p) => /\ link' \in [Launches -> Links]
                                    /\ session' \in [Launches -> 0..MaxSession]
                                    /\ silent' \in [Launches -> 0..SilenceLimit + 1]
                                    /\ old' \in [Launches -> BOOLEAN]
                                    /\ backoff' \in [Launches -> {2, 4, 8, 16, 30}]
                                    /\ calls' \in [Launches -> SUBSET (0..MaxSession)]
           /\ \A clean \in BOOLEAN :
                 SessionEnds(p, clean) =>
                     /\ link' \in [Launches -> Links]
                     /\ calls' \in [Launches -> SUBSET (0..MaxSession)]
                     /\ backoff' \in [Launches -> {2, 4, 8, 16, 30}]
                     /\ old' \in [Launches -> BOOLEAN]
                     /\ silent' \in [Launches -> 0..SilenceLimit + 1]
                     /\ shown' \in [Launches -> States]
<1>1. ASSUME NEW to \in Phases, Enters(p, to)
      PROVE  phase' \in [Launches -> Phases]
  BY <1>1 DEF LifeTypeOK, Enters
<1>2. ASSUME Leaves(p)
      PROVE  /\ phase' \in [Launches -> Phases]
             /\ owner' \in Launches \cup {Nobody}
             /\ warming' \in [Launches -> BOOLEAN]
             /\ work' \in [Launches -> SUBSET Starters]
             /\ runs' \in [Launches -> Runs]
  <2>1. phase' \in [Launches -> Phases]
    BY <1>1, <1>2 DEF Leaves, Phases
  <2>2. owner' \in Launches \cup {Nobody}
    BY <1>2 DEF Leaves, LifeTypeOK
  <2>3. warming' \in [Launches -> BOOLEAN]
    BY <1>2 DEF Leaves, LifeTypeOK
  <2>4. work' \in [Launches -> SUBSET Starters] /\ runs' \in [Launches -> Runs]
    BY <1>2 DEF Leaves, LifeTypeOK, Runs
  <2> QED
    BY <2>1, <2>2, <2>3, <2>4
<1>3. ASSUME LoopDropped(p)
      PROVE  /\ link' \in [Launches -> Links]
             /\ session' \in [Launches -> 0..MaxSession]
             /\ silent' \in [Launches -> 0..SilenceLimit + 1]
             /\ old' \in [Launches -> BOOLEAN]
             /\ backoff' \in [Launches -> {2, 4, 8, 16, 30}]
             /\ calls' \in [Launches -> SUBSET (0..MaxSession)]
  <2>1. old' \in [Launches -> BOOLEAN]
    BY <1>3 DEF LoopDropped, LifeTypeOK
  <2>2. link' \in [Launches -> Links] /\ calls' \in [Launches -> SUBSET (0..MaxSession)]
    BY <1>3 DEF LoopDropped, LifeTypeOK, Links
  <2>3. /\ session' \in [Launches -> 0..MaxSession] /\ silent' \in [Launches -> 0..SilenceLimit + 1]
        /\ backoff' \in [Launches -> {2, 4, 8, 16, 30}]
    BY SilenceAssumption, <1>3 DEF LoopDropped, LifeTypeOK, BackoffMin
  <2> QED
    BY <2>1, <2>2, <2>3
<1>4. ASSUME NEW clean \in BOOLEAN, SessionEnds(p, clean)
      PROVE  /\ link' \in [Launches -> Links]
             /\ calls' \in [Launches -> SUBSET (0..MaxSession)]
             /\ backoff' \in [Launches -> {2, 4, 8, 16, 30}]
             /\ old' \in [Launches -> BOOLEAN]
             /\ silent' \in [Launches -> 0..SilenceLimit + 1]
             /\ shown' \in [Launches -> States]
  <2>1. old' \in [Launches -> BOOLEAN]
    BY <1>4 DEF SessionEnds, LifeTypeOK
  <2>2. link' \in [Launches -> Links] /\ shown' \in [Launches -> States]
    BY <1>4 DEF SessionEnds, LifeTypeOK, Links, States
  <2>3. calls' \in [Launches -> SUBSET (0..MaxSession)]
    BY <1>4 DEF SessionEnds, LifeTypeOK
  <2>4. silent' \in [Launches -> 0..SilenceLimit + 1]
    BY SilenceAssumption, <1>4 DEF SessionEnds, LifeTypeOK
  <2>5. backoff' \in [Launches -> {2, 4, 8, 16, 30}]
    BY <1>4 DEF SessionEnds, LifeTypeOK, BackoffMin
  <2> QED
    BY <2>1, <2>2, <2>3, <2>4, <2>5
<1> QED
  BY <1>1, <1>2, <1>3, <1>4

(* Every step keeps the types.                                             *)
LEMMA LifeTyped ==
    ASSUME LifeTypeOK, [LifeNext]_lifeVars PROVE LifeTypeOK'
<1> USE DEF relayVars
<1>1. ASSUME NEW p \in Launches, LaunchPortal(p) PROVE LifeTypeOK'
  BY <1>1, LifeParts DEF LaunchPortal, LifeTypeOK, Phases
<1>2. ASSUME NEW p \in Launches, AcquireInstance(p) PROVE LifeTypeOK'
  <2>1. CASE Leaves(p)
    BY <1>2, <2>1, LifeParts DEF AcquireInstance, LifeTypeOK
  <2>2. CASE ~Leaves(p)
    <3>1. Enters(p, "start") /\ owner' \in {owner, p}
      BY <1>2, <2>2 DEF AcquireInstance, Acquire
    <3>2. UNCHANGED <<warming, work, runs, ready, relayVars, relay, late>>
      BY <1>2, <2>2 DEF AcquireInstance, Acquire
    <3>3. phase' \in [Launches -> Phases]
      BY <3>1, LifeParts DEF Phases
    <3> QED
      BY <3>1, <3>2, <3>3 DEF LifeTypeOK
  <2> QED
    BY <2>1, <2>2
<1>3. ASSUME NEW p \in Launches, StartFails(p) PROVE LifeTypeOK'
  BY <1>3, LifeParts DEF StartFails, LifeTypeOK
<1>4. ASSUME NEW p \in Launches, StartServing(p) PROVE LifeTypeOK'
  <2>1. phase' \in [Launches -> Phases] /\ ready' \in Launches \cup {Nobody}
    BY <1>4, LifeParts DEF StartServing, Phases
  <2>2. warming' \in [Launches -> BOOLEAN]
    BY <1>4 DEF StartServing, LifeTypeOK
  <2>3. link' \in [Launches -> Links]
    BY <1>4 DEF StartServing, LifeTypeOK, Links
  <2>4. shown' \in [Launches -> States]
    BY <1>4 DEF StartServing, LifeTypeOK, States
  <2> QED
    BY <1>4, <2>1, <2>2, <2>3, <2>4 DEF StartServing, LifeTypeOK
<1>5. ASSUME NEW p \in Launches, Warmup(p) PROVE LifeTypeOK'
  <2>1. warming' \in [Launches -> BOOLEAN]
    BY <1>5 DEF Warmup, LifeTypeOK
  <2>2. work' \in [Launches -> SUBSET Starters]
    BY <1>5 DEF Warmup, LifeTypeOK, Starters
  <2> QED
    BY <1>5, <2>1, <2>2 DEF Warmup, LifeTypeOK
<1>6. ASSUME NEW p \in Launches, SessionUp(p) PROVE LifeTypeOK'
  <2>1. link' \in [Launches -> Links] /\ shown' \in [Launches -> States]
    BY <1>6 DEF SessionUp, LifeTypeOK, Links, States
  <2>2. session' \in [Launches -> 0..MaxSession]
    <3>1. session[p] % MaxSession \in 0..MaxSession - 1
      BY SilenceAssumption DEF LifeTypeOK
    <3>2. (session[p] % MaxSession) + 1 \in 0..MaxSession
      BY SilenceAssumption, <3>1
    <3> QED
      BY <1>6, <3>2 DEF SessionUp, LifeTypeOK
  <2>3. silent' \in [Launches -> 0..SilenceLimit + 1]
    BY SilenceAssumption, <1>6 DEF SessionUp, LifeTypeOK
  <2> QED
    BY <1>6, <2>1, <2>2, <2>3 DEF SessionUp, LifeTypeOK
<1>7. ASSUME NEW p \in Launches, NEW clean \in BOOLEAN, SessionEnds(p, clean),
             UNCHANGED <<phase, owner, ready, warming, work, runs, session, relay, late>>
      PROVE  LifeTypeOK'
  BY <1>7, LifeParts DEF LifeTypeOK
<1>8. ASSUME NEW p \in Launches, HeartbeatWrites(p) PROVE LifeTypeOK'
  <2>1. silent' \in [Launches -> 0..SilenceLimit + 1]
    <3>1. silent[p] \in 0..SilenceLimit /\ 0 \in 0..SilenceLimit + 1
      BY SilenceAssumption, <1>8 DEF HeartbeatWrites, LifeTypeOK
    <3>2. silent[p] + 1 \in 0..SilenceLimit + 1
      BY SilenceAssumption, <3>1
    <3> QED
      BY <1>8, <3>1, <3>2 DEF HeartbeatWrites, LifeTypeOK
  <2> QED
    BY <1>8, <2>1 DEF HeartbeatWrites, LifeTypeOK
<1>9. ASSUME NEW p \in Launches, SessionGrowsOld(p) PROVE LifeTypeOK'
  BY <1>9 DEF SessionGrowsOld, LifeTypeOK
<1>10. ASSUME NEW p \in Launches, Redial(p) PROVE LifeTypeOK'
  <2>1. link' \in [Launches -> Links] /\ shown' \in [Launches -> States]
    BY <1>10 DEF Redial, LifeTypeOK, Links, States
  <2>2. backoff' \in [Launches -> {2, 4, 8, 16, 30}]
    <3>1. backoff[p] \in {2, 4, 8, 16, 30}
      BY DEF LifeTypeOK
    <3>2. NextBackoff(backoff[p]) \in {2, 4, 8, 16, 30}
      BY <3>1 DEF NextBackoff, BackoffMax
    <3> QED
      BY <1>10, <3>2 DEF Redial, LifeTypeOK
  <2> QED
    BY <1>10, <2>1, <2>2 DEF Redial, LifeTypeOK
<1>11. ASSUME NEW p \in Launches, CallStarts(p) PROVE LifeTypeOK'
  <2>1. work' \in [Launches -> SUBSET Starters]
    BY <1>11 DEF CallStarts, LifeTypeOK, Starters
  <2>3. runs' \in [Launches -> Runs]
    BY <1>11 DEF CallStarts, LifeTypeOK, Runs
  <2>2. calls' \in [Launches -> SUBSET (0..MaxSession)]
    BY <1>11 DEF CallStarts, LifeTypeOK
  <2> QED
    BY <1>11, <2>1, <2>2, <2>3 DEF CallStarts, LifeTypeOK
<1>12. ASSUME NEW p \in Launches, NEW s \in 0..MaxSession, CallAnswers(p, s)
       PROVE  LifeTypeOK'
  <2>1. late' \in BOOLEAN
    BY <1>12 DEF CallAnswers
  <2>2. calls' \in [Launches -> SUBSET (0..MaxSession)]
    BY <1>12 DEF CallAnswers, LifeTypeOK
  <2> QED
    BY <1>12, <2>1, <2>2 DEF CallAnswers, LifeTypeOK
<1>13. ASSUME NEW p \in Launches, StopRequested(p) PROVE LifeTypeOK'
  <2>1. phase' \in [Launches -> Phases]
    BY <1>13, LifeParts DEF StopRequested, Phases
  <2>2. CASE LoopDropped(p)
    BY <1>13, <2>1, <2>2, LifeParts DEF StopRequested, LifeTypeOK
  <2>3. CASE UNCHANGED <<link, session, silent, old, backoff, calls>>
    BY <1>13, <2>1, <2>3 DEF StopRequested, LifeTypeOK
  <2> QED
    BY <1>13, <2>2, <2>3 DEF StopRequested
<1>14. ASSUME NEW p \in Launches, WarmupShutdown(p) PROVE LifeTypeOK'
  <2>1. phase' \in [Launches -> Phases]
    BY <1>14, LifeParts DEF WarmupShutdown, Phases
  <2>2. warming' \in [Launches -> BOOLEAN]
    BY <1>14 DEF WarmupShutdown, LifeTypeOK
  <2> QED
    BY <1>14, <2>1, <2>2 DEF WarmupShutdown, LifeTypeOK
<1>15. ASSUME NEW p \in Launches, CleanupDone(p) \/ Crash(p) PROVE LifeTypeOK'
  <2>1. Leaves(p) /\ LoopDropped(p) /\ UNCHANGED <<ready, relay, late>>
    BY <1>15 DEF CleanupDone, Crash
  <2>2. shown' \in [Launches -> States]
    BY <1>15 DEF CleanupDone, Crash, LifeTypeOK, States
  <2> QED
    BY <2>1, <2>2, LifeParts DEF LifeTypeOK
<1>16. ASSUME NEW to \in {"up", "silent", "down", "rejects"}, RelayTurns(to)
       PROVE  LifeTypeOK'
  BY <1>16 DEF RelayTurns, LifeTypeOK
<1>17. CASE UNCHANGED lifeVars
  BY <1>17 DEF lifeVars, LifeTypeOK
<1>18. ASSUME NEW p \in Launches, DialFails(p) \/ HeartbeatGivesUp(p) \/ HeartbeatStuck(p)
       PROVE  LifeTypeOK'
  BY <1>7, <1>18 DEF DialFails, HeartbeatGivesUp, HeartbeatStuck
<1>19. ASSUME NEW p \in Launches, NEW clean \in BOOLEAN, SessionCloses(p, clean)
       PROVE  LifeTypeOK'
  BY <1>7, <1>19 DEF SessionCloses
<1>20. ASSUME NEW p \in Launches, RunAsks(p) \/ RunEnds(p) PROVE LifeTypeOK'
  <2>1. runs' \in [Launches -> Runs]
    BY <1>20 DEF RunAsks, RunEnds, LifeTypeOK, Runs
  <2> QED
    BY <1>20, <2>1 DEF RunAsks, RunEnds, LifeTypeOK
<1>21. ASSUME NEW p \in Launches, RunStarts(p) PROVE LifeTypeOK'
  <2>1. work' \in [Launches -> SUBSET Starters] /\ runs' \in [Launches -> Runs]
    BY <1>21 DEF RunStarts, LifeTypeOK, Starters, Runs
  <2> QED
    BY <1>21, <2>1 DEF RunStarts, LifeTypeOK
<1>22. ASSUME NEW p \in Launches, CleanupKills(p) PROVE LifeTypeOK'
  <2>1. work' \in [Launches -> SUBSET Starters]
    BY <1>22 DEF CleanupKills, LifeTypeOK
  <2> QED
    BY <1>22, <2>1 DEF CleanupKills, LifeTypeOK
<1> QED
  BY <1>1, <1>2, <1>3, <1>4, <1>5, <1>6, <1>8, <1>9, <1>10, <1>11, <1>12, <1>13, <1>14,
     <1>15, <1>16, <1>17, <1>18, <1>19, <1>20, <1>21, <1>22 DEF LifeNext, LifeStep

(* What a process that ends and a session that ends leave behind. *)
LEMMA LifeLeaves ==
    ASSUME LifeInv, NEW p \in Launches, Leaves(p)
    PROVE  /\ LockHeld'
           /\ WarmsInTime'
           /\ \A q \in Launches : q # p => phase'[q] = phase[q]
           /\ phase'[p] = "exited"
<1>1. /\ phase'[p] = "exited" /\ ~warming'[p]
      /\ \A q \in Launches : q # p => phase'[q] = phase[q] /\ warming'[q] = warming[q]
  BY DEF Leaves, Enters, LifeInv, LifeTypeOK
<1>2. LockHeld'
  BY <1>1 DEF Leaves, LockHeld, LifeInv
<1>3. WarmsInTime'
  BY <1>1 DEF WarmsInTime, LifeInv
<1> QED
  BY <1>1, <1>2, <1>3

(* A dropped loop takes its link and its calls with it.                    *)
LEMMA LifeDropped ==
    ASSUME LifeInv, NEW p \in Launches, LoopDropped(p),
           \A q \in Launches : q # p => phase'[q] = phase[q]
    PROVE  LinkServes' /\ CallsCurrent'
<1>1. /\ link'[p] = "off" /\ calls'[p] = {}
      /\ \A q \in Launches : q # p => /\ link'[q] = link[q] /\ calls'[q] = calls[q]
                                     /\ session'[q] = session[q]
  BY DEF LoopDropped, LifeInv, LifeTypeOK
<1>2. LinkServes'
  BY <1>1 DEF LinkServes, LifeInv
<1>3. CallsCurrent'
  BY <1>1 DEF CallsCurrent, LifeInv
<1> QED
  BY <1>2, <1>3

(* Every step of a launch, its link and the relay keeps the invariant.     *)
LEMMA LifeInvNext == ASSUME LifeInv, [LifeNext]_lifeVars PROVE LifeInv'
<1> USE DEF relayVars
<1> DEFINE Safe == LockHeld /\ LinkServes /\ CallsCurrent /\ WarmsInTime /\ NoLateAnswer
<1>0. LifeTypeOK /\ Safe
  BY DEF LifeInv
<1>a. LifeTypeOK'
  BY <1>0, LifeTyped
<1>b. ASSUME NEW p \in Launches, link' = link, calls' = calls, session' = session,
             \A q \in Launches : q # p => phase'[q] = phase[q], phase[p] # "serve"
      PROVE  LinkServes' /\ CallsCurrent'
  <2>1. LinkServes'
    BY <1>0, <1>b DEF LinkServes
  <2>2. CallsCurrent'
    BY <1>0, <1>b DEF CallsCurrent
  <2> QED
    BY <2>1, <2>2
<1>1. ASSUME NEW p \in Launches, LaunchPortal(p) PROVE Safe'
  <2>1. phase'[p] = "guard" /\ \A q \in Launches : q # p => phase'[q] = phase[q]
    BY <1>0, <1>1 DEF LaunchPortal, Enters, LifeTypeOK
  <2>2. phase[p] = "unborn" /\ UNCHANGED <<owner, warming, relayVars, late>>
    BY <1>1 DEF LaunchPortal
  <2>3. LockHeld' /\ WarmsInTime' /\ NoLateAnswer'
    BY <1>0, <2>1, <2>2 DEF LockHeld, WarmsInTime, NoLateAnswer
  <2> QED
    BY <1>b, <2>1, <2>2, <2>3
<1>2. ASSUME NEW p \in Launches, AcquireInstance(p) PROVE Safe'
  <2>1. phase[p] = "guard" /\ UNCHANGED <<relayVars, late>>
    BY <1>2 DEF AcquireInstance, Acquire
  <2>2. CASE Leaves(p)
    BY <1>0, <1>b, <2>1, <2>2, LifeLeaves DEF NoLateAnswer
  <2>3. CASE ~Leaves(p)
    <3>1. /\ Enters(p, "start") /\ warming' = warming
          /\ Guarded => owner = Nobody /\ owner' = p
      BY <1>2, <2>3 DEF AcquireInstance, Acquire
    <3>2. phase'[p] = "start" /\ \A q \in Launches : q # p => phase'[q] = phase[q]
      BY <1>0, <3>1 DEF Enters, LifeTypeOK
    <3>3. LockHeld'
      BY NobodyAssumption, <1>0, <3>1, <3>2 DEF LockHeld
    <3>4. WarmsInTime' /\ NoLateAnswer'
      BY <1>0, <2>1, <3>1, <3>2 DEF WarmsInTime, NoLateAnswer
    <3> QED
      BY <1>b, <2>1, <3>2, <3>3, <3>4
  <2> QED
    BY <2>2, <2>3
<1>3. ASSUME NEW p \in Launches, StartFails(p) PROVE Safe'
  <2>1. phase[p] = "start" /\ Leaves(p) /\ UNCHANGED <<relayVars, late>>
    BY <1>3 DEF StartFails
  <2> QED
    BY <1>0, <1>b, <2>1, LifeLeaves DEF NoLateAnswer
<1>4. ASSUME NEW p \in Launches, StartServing(p) PROVE Safe'
  <2>1. /\ phase[p] = "start" /\ phase'[p] = "serve"
        /\ \A q \in Launches : q # p => /\ phase'[q] = phase[q] /\ warming'[q] = warming[q]
                                       /\ link'[q] = link[q]
        /\ ~Relayed => link' = link
    BY <1>0, <1>4 DEF StartServing, Enters, LifeTypeOK
  <2>2. UNCHANGED <<owner, session, calls, late>>
    BY <1>4 DEF StartServing
  <2>3. link[p] = "off"
    BY <1>0, <2>1 DEF LinkServes
  <2>4. LockHeld' /\ WarmsInTime' /\ NoLateAnswer'
    BY <1>0, <2>1, <2>2 DEF LockHeld, WarmsInTime, NoLateAnswer
  <2>5. LinkServes'
    BY <1>0, <2>1, <2>3 DEF LinkServes
  <2>6. CallsCurrent'
    BY <1>0, <2>1, <2>2, <2>3 DEF CallsCurrent
  <2> QED
    BY <2>4, <2>5, <2>6
<1>5. ASSUME NEW p \in Launches, Warmup(p) PROVE Safe'
  <2>1. /\ warming[p] /\ UNCHANGED <<phase, owner, relayVars, late>>
        /\ \A q \in Launches : q # p => warming'[q] = warming[q]
    BY <1>0, <1>5 DEF Warmup, LifeTypeOK
  <2> QED
    BY <1>0, <2>1 DEF LockHeld, LinkServes, CallsCurrent, WarmsInTime, NoLateAnswer
<1>6. ASSUME NEW p \in Launches, SessionUp(p) PROVE Safe'
  <2>1. /\ link[p] = "dialing" /\ link'[p] = "up"
        /\ UNCHANGED <<phase, owner, warming, calls, late>>
        /\ \A q \in Launches : q # p => link'[q] = link[q] /\ session'[q] = session[q]
    BY <1>0, <1>6 DEF SessionUp, LifeTypeOK
  <2>2. LockHeld' /\ WarmsInTime' /\ NoLateAnswer' /\ LinkServes'
    BY <1>0, <2>1 DEF LockHeld, WarmsInTime, NoLateAnswer, LinkServes
  <2>3. calls[p] = {}
    BY <1>0, <2>1 DEF LinkServes, CallsCurrent
  <2>4. CallsCurrent'
    BY <1>0, <2>1, <2>3 DEF CallsCurrent
  <2> QED
    BY <2>2, <2>4
<1>7. ASSUME NEW p \in Launches, NEW clean \in BOOLEAN, SessionEnds(p, clean),
             link[p] # "off", UNCHANGED <<phase, owner, warming, session, late>>
      PROVE  Safe'
  <2>1. /\ link'[p] = "sleep" /\ calls'[p] = {}
        /\ \A q \in Launches : q # p => link'[q] = link[q] /\ calls'[q] = calls[q]
    BY <1>0, <1>7 DEF SessionEnds, LifeTypeOK
  <2>2. LockHeld' /\ WarmsInTime' /\ NoLateAnswer' /\ LinkServes'
    BY <1>0, <1>7, <2>1 DEF LockHeld, WarmsInTime, NoLateAnswer, LinkServes
  <2>3. CallsCurrent'
    BY <1>0, <1>7, <2>1 DEF CallsCurrent
  <2> QED
    BY <2>2, <2>3
<1>8. ASSUME NEW p \in Launches,
             DialFails(p) \/ HeartbeatGivesUp(p) \/ HeartbeatStuck(p)
      PROVE  Safe'
  <2>1. /\ SessionEnds(p, FALSE) /\ link[p] # "off"
        /\ UNCHANGED <<phase, owner, warming, session, late>>
    BY <1>8 DEF DialFails, HeartbeatGivesUp, HeartbeatStuck
  <2> QED
    BY <1>7, <2>1
<1>9. ASSUME NEW p \in Launches, NEW clean \in BOOLEAN, SessionCloses(p, clean) PROVE Safe'
  BY <1>7, <1>9 DEF SessionCloses
<1>10. ASSUME UNCHANGED <<phase, owner, warming, link, session, calls, late>> PROVE Safe'
  BY <1>0, <1>10 DEF LockHeld, LinkServes, CallsCurrent, WarmsInTime, NoLateAnswer
<1>11. ASSUME NEW p \in Launches, HeartbeatWrites(p) \/ SessionGrowsOld(p) PROVE Safe'
  BY <1>10, <1>11 DEF HeartbeatWrites, SessionGrowsOld
<1>12. ASSUME NEW p \in Launches, Redial(p) PROVE Safe'
  <2>1. /\ link[p] = "sleep" /\ link'[p] = "dialing"
        /\ UNCHANGED <<phase, owner, warming, session, calls, late>>
        /\ \A q \in Launches : q # p => link'[q] = link[q]
    BY <1>0, <1>12 DEF Redial, LifeTypeOK
  <2>2. LockHeld' /\ WarmsInTime' /\ NoLateAnswer' /\ LinkServes'
    BY <1>0, <2>1 DEF LockHeld, WarmsInTime, NoLateAnswer, LinkServes
  <2>3. CallsCurrent'
    BY <1>0, <2>1 DEF CallsCurrent, LinkServes
  <2> QED
    BY <2>2, <2>3
<1>13. ASSUME NEW p \in Launches, CallStarts(p) PROVE Safe'
  <2>1. /\ Serving(p) /\ calls'[p] = calls[p] \cup {session[p]}
        /\ UNCHANGED <<phase, owner, warming, link, session, late>>
        /\ \A q \in Launches : q # p => calls'[q] = calls[q]
    BY <1>0, <1>13 DEF CallStarts, LifeTypeOK
  <2>2. LockHeld' /\ WarmsInTime' /\ NoLateAnswer' /\ LinkServes'
    BY <1>0, <2>1 DEF LockHeld, WarmsInTime, NoLateAnswer, LinkServes
  <2>3. CallsCurrent'
    BY <1>0, <2>1 DEF CallsCurrent, Serving
  <2> QED
    BY <2>2, <2>3
<1>14. ASSUME NEW p \in Launches, NEW s \in 0..MaxSession, CallAnswers(p, s) PROVE Safe'
  <2>1. /\ s \in calls[p] /\ calls'[p] \subseteq calls[p] /\ late' = (late \/ s # session[p])
        /\ UNCHANGED <<phase, owner, warming, link, session>>
        /\ \A q \in Launches : q # p => calls'[q] = calls[q]
    BY <1>0, <1>14 DEF CallAnswers, LifeTypeOK
  <2>2. LockHeld' /\ WarmsInTime' /\ LinkServes'
    BY <1>0, <2>1 DEF LockHeld, WarmsInTime, LinkServes
  <2>3. CallsCurrent'
    BY <1>0, <2>1 DEF CallsCurrent
  <2>4. NoLateAnswer'
    BY <1>0, <2>1 DEF CallsCurrent, NoLateAnswer
  <2> QED
    BY <2>2, <2>3, <2>4
<1>15. ASSUME NEW p \in Launches, StopRequested(p) PROVE Safe'
  <2>1. /\ phase[p] = "serve" /\ phase'[p] = "warmup down"
        /\ \A q \in Launches : q # p => phase'[q] = phase[q]
        /\ UNCHANGED <<owner, warming, late>>
    BY <1>0, <1>15 DEF StopRequested, Enters, LifeTypeOK
  <2>2. LockHeld' /\ WarmsInTime' /\ NoLateAnswer'
    BY <1>0, <2>1 DEF LockHeld, WarmsInTime, NoLateAnswer
  <2>3. CASE Relayed
    BY <1>15, <2>1, <2>2, <2>3, LifeDropped DEF StopRequested
  <2>4. CASE ~Relayed
    <3>1. UNCHANGED <<link, session, calls>>
      BY <1>15, <2>4 DEF StopRequested
    <3>2. LinkServes' /\ CallsCurrent'
      BY <1>0, <2>1, <2>4, <3>1 DEF LinkServes, CallsCurrent
    <3> QED
      BY <2>2, <3>2
  <2> QED
    BY <2>3, <2>4
<1>16. ASSUME NEW p \in Launches, WarmupShutdown(p) PROVE Safe'
  <2>1. /\ phase[p] = "warmup down" /\ phase'[p] = "cleanup" /\ ~warming'[p]
        /\ \A q \in Launches : q # p => phase'[q] = phase[q] /\ warming'[q] = warming[q]
        /\ UNCHANGED <<owner, relayVars, late>>
    BY <1>0, <1>16 DEF WarmupShutdown, Enters, LifeTypeOK
  <2>2. LockHeld' /\ WarmsInTime' /\ NoLateAnswer'
    BY <1>0, <2>1 DEF LockHeld, WarmsInTime, NoLateAnswer
  <2> QED
    BY <1>b, <2>1, <2>2
<1>17. ASSUME NEW p \in Launches, CleanupDone(p) \/ Crash(p) PROVE Safe'
  <2>1. Leaves(p) /\ LoopDropped(p) /\ late' = late
    BY <1>17 DEF CleanupDone, Crash
  <2>2. LockHeld' /\ WarmsInTime' /\ \A q \in Launches : q # p => phase'[q] = phase[q]
    BY <2>1, LifeLeaves
  <2>3. LinkServes' /\ CallsCurrent'
    BY <2>1, <2>2, LifeDropped
  <2> QED
    BY <1>0, <2>1, <2>2, <2>3 DEF NoLateAnswer
<1>18. ASSUME NEW to \in {"up", "silent", "down", "rejects"}, RelayTurns(to) PROVE Safe'
  BY <1>10, <1>18 DEF RelayTurns
<1>19. ASSUME UNCHANGED lifeVars PROVE Safe'
  BY <1>10, <1>19 DEF lifeVars
<1>21. ASSUME NEW p \in Launches, RunAsks(p) \/ RunStarts(p) \/ RunEnds(p) \/ CleanupKills(p)
       PROVE  Safe'
  BY <1>10, <1>21 DEF RunAsks, RunStarts, RunEnds, CleanupKills
<1>20. Safe'
  <2> HIDE DEF Safe
  <2> QED
    BY <1>1, <1>2, <1>3, <1>4, <1>5, <1>6, <1>8, <1>9, <1>11, <1>12, <1>13, <1>14, <1>15,
       <1>16, <1>17, <1>18, <1>19, <1>21 DEF LifeNext, LifeStep
<1> QED
  BY <1>a, <1>20 DEF LifeInv

(* At most one process of a configuration has a link to the relay where    *)
(* the platform has the instance lock, and no answer goes out in another   *)
(* session than its call came in (main, single_instance, relay_client).    *)
THEOREM LifeServesAlone == LifeSpec => []ServesAlone
<1>1. ASSUME LifeInv PROVE OnePortal
  <2> SUFFICES ASSUME Guarded PROVE Cardinality({p \in Launches : link[p] # "off"}) <= 1
    BY DEF OnePortal
  <2>1. {p \in Launches : link[p] # "off"} \subseteq {owner}
    BY <1>1 DEF LifeInv, LinkServes, LockHeld
  <2>2. IsFiniteSet({owner}) /\ Cardinality({owner}) = 1
    BY FS_Singleton
  <2> QED
    BY <2>1, <2>2, FS_Subset, FS_CardinalityType
<1>2. LifeInv => ServesAlone
  BY <1>1 DEF LifeInv, ServesAlone
<1> QED
  BY <1>2, LifeInvInit, LifeInvNext, PTL DEF LifeSpec

(* A process that cleans up starts nothing for its warm-up, which was      *)
(* awaited before, nor in connect mode for a call, whose loop was dropped; *)
(* and a detached run that had not looked at shutting_down by then starts  *)
(* nothing either (main, kill_all_managed_processes, transport).           *)
THEOREM LifeCleaned == LifeSpec => CleanedStaysClean
<1>1. ASSUME LifeInv, [LifeNext]_lifeVars, NEW p \in Launches, phase[p] = "cleanup"
      PROVE  /\ work'[p] \ work[p] \subseteq LateStarters
             /\ runs[p] # "asking" => runs'[p] # "asking" /\ "task" \notin work'[p] \ work[p]
  <2> DEFINE Kept == work'[p] \subseteq work[p] /\ (runs[p] # "asking" => runs'[p] # "asking")
  <2> DEFINE Goal == /\ work'[p] \ work[p] \subseteq LateStarters
                     /\ runs[p] # "asking" => /\ runs'[p] # "asking"
                                              /\ "task" \notin work'[p] \ work[p]
  <2>1. ~warming[p] /\ (Relayed => link[p] = "off")
    BY <1>1 DEF LifeInv, WarmsInTime, LinkServes
  <2>2. work \in [Launches -> SUBSET Starters] /\ runs \in [Launches -> Runs]
    BY <1>1 DEF LifeInv, LifeTypeOK
  <2>3. Kept => Goal
    OBVIOUS
  <2>4. ASSUME work' = work, runs' = runs PROVE Kept
    BY <2>4
  <2>5. ASSUME NEW q \in Launches, Leaves(q) PROVE Kept
    BY <2>2, <2>5 DEF Leaves
  <2>6. ASSUME NEW q \in Launches, AcquireInstance(q) PROVE Kept
    BY <2>4, <2>5, <2>6 DEF AcquireInstance, Acquire
  <2>7. ASSUME NEW q \in Launches, StartFails(q) \/ CleanupDone(q) \/ Crash(q) PROVE Kept
    BY <2>5, <2>7 DEF StartFails, CleanupDone, Crash
  <2>8. ASSUME NEW q \in Launches, Warmup(q) PROVE Kept
    <3>1. q # p /\ work' = [work EXCEPT ![q] = @ \cup {"warmup"}] /\ runs' = runs
      BY <2>1, <2>8 DEF Warmup
    <3> QED
      BY <2>2, <3>1
  <2>9. ASSUME NEW q \in Launches, CallStarts(q) PROVE Goal
    <3>1. CASE q # p
      <4>1. work'[p] = work[p] /\ runs'[p] = runs[p]
        BY <2>2, <2>9, <3>1 DEF CallStarts
      <4> QED
        BY <2>3, <4>1
    <3>2. CASE q = p
      <4>1. ~Relayed /\ runs' = runs
        BY <1>1, <2>1, <2>9, <3>2 DEF CallStarts, Serving, ShuttingDown
      <4>2. work'[p] = work[p] \cup {"call"}
        BY <2>2, <2>9, <3>2 DEF CallStarts
      <4> QED
        BY <4>1, <4>2 DEF LateStarters
    <3> QED
      BY <3>1, <3>2
  <2>10. ASSUME NEW q \in Launches, RunAsks(q) \/ RunEnds(q) PROVE Kept
    <3>1. work' = work
      BY <2>10 DEF RunAsks, RunEnds
    <3>2. runs[p] # "asking" => runs'[p] # "asking"
      BY <1>1, <2>2, <2>10 DEF RunAsks, RunEnds, ShuttingDown
    <3> QED
      BY <3>1, <3>2
  <2>11. ASSUME NEW q \in Launches, RunStarts(q) PROVE Goal
    <3>1. CASE q # p
      <4>1. work'[p] = work[p] /\ runs'[p] = runs[p]
        BY <2>2, <2>11, <3>1 DEF RunStarts
      <4> QED
        BY <2>3, <4>1
    <3>2. CASE q = p
      <4>1. runs[p] = "asking"
        BY <2>11, <3>2 DEF RunStarts
      <4>2. work'[p] \subseteq work[p] \cup {"task"}
        BY <2>2, <2>11, <3>2 DEF RunStarts
      <4> QED
        BY <4>1, <4>2 DEF LateStarters
    <3> QED
      BY <3>1, <3>2
  <2>12. ASSUME NEW q \in Launches, CleanupKills(q) PROVE Kept
    BY <2>2, <2>12 DEF CleanupKills
  <2>13. ASSUME NEW q \in Launches,
                \/ LaunchPortal(q) \/ StartServing(q) \/ LifeStep(q) \/ SessionGrowsOld(q)
                \/ HeartbeatStuck(q) \/ StopRequested(q) \/ WarmupShutdown(q)
         PROVE  Kept
    BY <2>4, <2>13
       DEF LaunchPortal, StartServing, LifeStep, SessionUp, DialFails,
           HeartbeatGivesUp, HeartbeatWrites, Redial, SessionGrowsOld,
           HeartbeatStuck, StopRequested, WarmupShutdown
  <2>14. ASSUME NEW q \in Launches,
                \/ \E clean \in BOOLEAN : SessionCloses(q, clean)
                \/ \E s \in 0..MaxSession : CallAnswers(q, s)
         PROVE  Kept
    BY <2>4, <2>14 DEF SessionCloses, CallAnswers
  <2>15. ASSUME \E to \in {"up", "silent", "down", "rejects"} : RelayTurns(to) PROVE Kept
    BY <2>4, <2>15 DEF RelayTurns
  <2>16. ASSUME UNCHANGED lifeVars PROVE Kept
    BY <2>4, <2>16 DEF lifeVars
  <2> HIDE DEF Kept, Goal
  <2>17. ASSUME NEW q \in Launches,
                \/ LaunchPortal(q) \/ AcquireInstance(q) \/ StartFails(q)
                \/ StartServing(q) \/ Warmup(q)
                \/ LifeStep(q) \/ SessionGrowsOld(q) \/ HeartbeatStuck(q)
                \/ \E clean \in BOOLEAN : SessionCloses(q, clean)
                \/ CallStarts(q) \/ \E s \in 0..MaxSession : CallAnswers(q, s)
                \/ RunAsks(q) \/ RunStarts(q) \/ RunEnds(q)
                \/ StopRequested(q) \/ WarmupShutdown(q) \/ CleanupKills(q)
                \/ CleanupDone(q) \/ Crash(q)
         PROVE  Goal
    <3>1. CASE CallStarts(q) \/ RunStarts(q)
      BY <2>9, <2>11, <3>1
    <3>2. CASE ~(CallStarts(q) \/ RunStarts(q))
      <4>1. Kept
        BY <2>6, <2>7, <2>8, <2>10, <2>12, <2>13, <2>14, <2>17, <3>2
      <4> QED
        BY <2>3, <4>1
    <3> QED
      BY <3>1, <3>2
  <2>18. ASSUME LifeNext PROVE Goal
    BY <2>3, <2>15, <2>17, <2>18 DEF LifeNext
  <2>19. Goal
    BY <1>1, <2>3, <2>16, <2>18
  <2> QED
    BY <2>19 DEF Goal
<1>2. LifeInv /\ [LifeNext]_lifeVars => [\A p \in Launches : CleansUp(p)]_lifeVars
  BY <1>1 DEF CleansUp
<1> QED
  BY <1>2, LifeInvInit, LifeInvNext, PTL DEF LifeSpec, CleanedStaysClean

-----------------------------------------------------------------------------
(* What starts the process: Installation, for any downloads, restarts and  *)
(* migrations and any number of killed processes.                          *)

(* A launch has no settings to copy before it looked ...                   *)
CopiesLate(d) == pc[d] \in {"idle", "wait", "check"} => from[d] = Nothing
(* ... and copies those of its own directory ...                           *)
CopiesItsOwn(d) == pc[d] \in {"plan", "apply"} => from[d] = d
(* ... which are in place once it went on ...                              *)
CopiesFirst(d) ==
    from[d] = d /\ pc[d] \in {"publish", "link", "start", "init", "load", "running"}
        => config \in {d, "edited"}
(* ... and whoever publishes without them has a reason.                    *)
PublishesForCause(d) ==
    pc[d] \in {"publish", "link"} => exe # Nothing \/ explicit[d] \/ ~beside[d] \/ from[d] = d
(* RunsWithItsSettings, of one launch. *)
RunsWell(d) ==
    pc[d] = "running" /\ from[d] = d => settings[d] \in {d, "edited", "explicit"}

LaunchInv(d) ==
    CopiesLate(d) /\ CopiesItsOwn(d) /\ CopiesFirst(d) /\ PublishesForCause(d) /\ RunsWell(d)

InstInv == InstallTypeOK /\ \A d \in Downloads : LaunchInv(d)

(* Before any launch of any download.                                      *)
LEMMA InstInvInit == InstallInit => InstInv
<1> SUFFICES ASSUME InstallInit PROVE InstInv
  OBVIOUS
<1>1. InstallTypeOK
  <2>1. pc \in [Procs -> Points]
    BY DEF InstallInit, Points
  <2>2. /\ from \in [Procs -> Downloads \cup {Nothing}]
        /\ plan \in [Procs -> {"fresh", "applied", Nothing}]
        /\ settings \in [Procs -> Configs \cup {"explicit", Nothing}]
    BY DEF InstallInit
  <2>3. explicit \in [Procs -> BOOLEAN]
    BY DEF InstallInit
  <2>4. crashes \in 0..MaxCrashes
    BY CrashesAssumption DEF InstallInit
  <2> QED
    BY <2>1, <2>2, <2>3, <2>4 DEF InstallInit, InstallTypeOK
<1>2. ASSUME NEW d \in Downloads PROVE pc[d] = "idle" /\ from[d] = Nothing
  BY DEF InstallInit, Procs
<1>3. ASSUME NEW d \in Downloads PROVE LaunchInv(d)
  BY DistinctAssumption, <1>2
     DEF LaunchInv, CopiesLate, CopiesItsOwn, CopiesFirst, PublishesForCause, RunsWell
<1> QED
  BY <1>1, <1>3 DEF InstInv

(* Nobody removes what is installed, or replaces settings by defaults. *)
LEMMA InstKept ==
    ASSUME InstallTypeOK, [InstallNext]_installVars
    PROVE  /\ exe # Nothing /\ exe' # exe => exe' = "upgraded"
           /\ config # Nothing /\ config' # config => config' = "edited"
           /\ beside' = beside
<1> DEFINE Kept == /\ exe # Nothing /\ exe' # exe => exe' = "upgraded"
                   /\ config # Nothing /\ config' # config => config' = "edited"
                   /\ beside' = beside
<1> USE DEF dirVars, besideVars
<1>1. ASSUME UNCHANGED <<exe, config, beside>> PROVE Kept
  BY <1>1
<1>2. ASSUME NEW d \in Downloads,
             \/ Launch(d) \/ Lock(d) \/ LockTimesOut(d) \/ Check(d)
             \/ Publish(d) \/ LegacyStops(d)
      PROVE  Kept
  BY <1>1, <1>2
     DEF Launch, Lock, LockTimesOut, Check, Publish, LegacyStops
<1>3. ASSUME NEW d \in Downloads, Link(d) PROVE Kept
  BY <1>3 DEF Link
<1>4. ASSUME NEW p \in Procs,
             Plan(p) \/ StartPortal(p) \/ LoadConfig(p) \/ Again(p)
      PROVE  Kept
  BY <1>1, <1>4 DEF Plan, StartPortal, LoadConfig, Again
<1>5. ASSUME NEW p \in Procs, Apply(p) PROVE Kept
  BY <1>5 DEF Apply, PublishConfig
<1>6. ASSUME NEW p \in Procs, InitializeConfig(p) PROVE Kept
  BY <1>6 DEF InitializeConfig, PublishConfig
<1>7. ASSUME NEW s \in Restarts, Restarted(s) PROVE Kept
  BY <1>1, <1>7 DEF Restarted
<1>8. ASSUME NEW m \in Migrations, Migrate(m) PROVE Kept
  BY <1>1, <1>8 DEF Migrate
<1>9. ASSUME UserEdits \/ Upgraded PROVE Kept
  BY <1>9 DEF UserEdits, Upgraded
<1>10. ASSUME UNCHANGED installVars PROVE Kept
  BY <1>1, <1>10 DEF installVars
<1> QED
  <2> HIDE DEF Kept
  <2>1. Kept
    BY <1>2, <1>3, <1>4, <1>5, <1>6, <1>7, <1>8, <1>9, <1>10
       DEF InstallNext, Prepare, Step
  <2> QED
    BY <2>1 DEF Kept

(* Types of what a step of a process to another point assigns. *)
LEMMA InstPoints ==
    ASSUME InstallTypeOK, NEW p \in Procs, NEW to \in Points
    PROVE  /\ GoesTo(p, to) => pc' \in [Procs -> Points]
           /\ LeavesPrepare(p, to) => /\ pc' \in [Procs -> Points]
                                          /\ lock' \in Downloads \cup {Nothing}
BY DEF GoesTo, LeavesPrepare, InstallTypeOK

(* Every step keeps the types.                                             *)
LEMMA InstTyped ==
    ASSUME InstallTypeOK, [InstallNext]_installVars PROVE InstallTypeOK'
<1> USE DEF dirVars, besideVars
<1>a. Downloads \subseteq Procs /\ Restarts \subseteq Procs /\ Migrations \subseteq Procs
  BY DEF Procs
<1>b. {"idle", "wait", "check", "plan", "apply", "publish", "link", "start", "init", "load",
       "running", "done", "failed"} \subseteq Points
  BY DEF Points
<1>1. ASSUME NEW d \in Downloads, Launch(d) PROVE InstallTypeOK'
  <2>1. explicit' \in [Procs -> BOOLEAN]
    BY <1>1 DEF Launch, InstallTypeOK
  <2>2. pc' \in [Procs -> Points]
    BY <1>1, <1>a, <1>b, InstPoints DEF Launch
  <2> QED
    BY <1>1, <2>1, <2>2 DEF Launch, InstallTypeOK
<1>2. ASSUME NEW d \in Downloads, Lock(d) PROVE InstallTypeOK'
  <2>1. pc' \in [Procs -> Points]
    BY <1>2, <1>a, <1>b, InstPoints DEF Lock
  <2> QED
    BY <1>2, <2>1 DEF Lock, InstallTypeOK
<1>3. ASSUME NEW d \in Downloads, LockTimesOut(d) PROVE InstallTypeOK'
  <2>1. pc' \in [Procs -> Points]
    BY <1>3, <1>a, <1>b, InstPoints DEF LockTimesOut
  <2> QED
    BY <1>3, <2>1 DEF LockTimesOut, InstallTypeOK
<1>4. ASSUME NEW d \in Downloads, Check(d) PROVE InstallTypeOK'
  <2>1. \E to \in {"failed", "plan", "publish"} :
           (GoesTo(d, to) /\ lock' = lock) \/ LeavesPrepare(d, to)
    BY <1>4 DEF Check
  <2>2. pc' \in [Procs -> Points] /\ lock' \in Downloads \cup {Nothing}
    BY <1>a, <1>b, <2>1, InstPoints DEF InstallTypeOK
  <2>3. from' \in {from, [from EXCEPT ![d] = d]}
    BY <1>4 DEF Check
  <2>4. from' \in [Procs -> Downloads \cup {Nothing}]
    BY <2>3 DEF InstallTypeOK
  <2>5. UNCHANGED <<windows, exe, origin, config, saved, legacy, beside, explicit, plan, settings, crashes>>
    BY <1>4 DEF Check
  <2> QED
    BY <2>2, <2>4, <2>5 DEF InstallTypeOK
<1>5. ASSUME NEW p \in Procs, Plan(p) PROVE InstallTypeOK'
  <2>1. \E to \in {"failed", "apply"} :
           (GoesTo(p, to) /\ lock' = lock) \/ LeavesPrepare(p, to)
    BY <1>5 DEF Plan
  <2>2. pc' \in [Procs -> Points] /\ lock' \in Downloads \cup {Nothing}
    BY <1>b, <2>1, InstPoints DEF InstallTypeOK
  <2>3. plan' \in {plan, [plan EXCEPT ![p] = "fresh"], [plan EXCEPT ![p] = "applied"]}
    BY <1>5 DEF Plan
  <2>4. plan' \in [Procs -> {"fresh", "applied", Nothing}]
    BY <2>3 DEF InstallTypeOK
  <2>5. UNCHANGED <<windows, exe, origin, config, saved, legacy, beside, explicit, from, settings, crashes>>
    BY <1>5 DEF Plan
  <2> QED
    BY <2>2, <2>4, <2>5 DEF InstallTypeOK
<1>6. ASSUME NEW p \in Procs, Apply(p) PROVE InstallTypeOK'
  <2>1. \E to \in {"publish", "done", "failed"} :
           (GoesTo(p, to) /\ lock' = lock) \/ LeavesPrepare(p, to)
    BY <1>6 DEF Apply
  <2>2. pc' \in [Procs -> Points] /\ lock' \in Downloads \cup {Nothing}
    BY <1>b, <2>1, InstPoints DEF InstallTypeOK
  <2>3. config' \in {config, from[p]}
    BY <1>6 DEF Apply, PublishConfig
  <2>4. config' \in Configs \cup {Nothing}
    BY <2>3 DEF InstallTypeOK, Configs
  <2>5. plan' \in [Procs -> {"fresh", "applied", Nothing}]
    BY <1>6 DEF Apply, InstallTypeOK
  <2>6. UNCHANGED <<windows, exe, origin, saved, legacy, beside, explicit, from, settings, crashes>>
    BY <1>6 DEF Apply
  <2> QED
    BY <2>2, <2>4, <2>5, <2>6 DEF InstallTypeOK
<1>7. ASSUME NEW d \in Downloads, Publish(d) PROVE InstallTypeOK'
  <2>1. \E to \in {"start", "link"} :
           (GoesTo(d, to) /\ lock' = lock) \/ LeavesPrepare(d, to)
    BY <1>7 DEF Publish
  <2>2. pc' \in [Procs -> Points] /\ lock' \in Downloads \cup {Nothing}
    BY <1>a, <1>b, <2>1, InstPoints DEF InstallTypeOK
  <2>3. origin' \in Downloads \cup {Nothing}
    BY <1>7 DEF Publish, InstallTypeOK
  <2> QED
    BY <1>7, <2>2, <2>3 DEF Publish, InstallTypeOK
<1>8. ASSUME NEW d \in Downloads, Link(d) PROVE InstallTypeOK'
  <2>1. \E to \in {"start", "failed"} : LeavesPrepare(d, to)
    BY <1>8 DEF Link
  <2>2. pc' \in [Procs -> Points] /\ lock' \in Downloads \cup {Nothing}
    BY <1>a, <1>b, <2>1, InstPoints
  <2>3. exe' \in Downloads \cup {"upgraded", Nothing}
    BY <1>8 DEF Link, InstallTypeOK
  <2> QED
    BY <1>8, <2>2, <2>3 DEF Link, InstallTypeOK
<1>9. ASSUME NEW s \in Restarts, Restarted(s) PROVE InstallTypeOK'
  <2>1. explicit' \in [Procs -> BOOLEAN]
    BY <1>9 DEF Restarted, InstallTypeOK
  <2>2. pc' \in [Procs -> Points]
    BY <1>9, <1>a, <1>b, InstPoints DEF Restarted
  <2> QED
    BY <1>9, <2>1, <2>2 DEF Restarted, InstallTypeOK
<1>10. ASSUME NEW p \in Procs, StartPortal(p) PROVE InstallTypeOK'
  <2>1. saved' \in {"explicit", "user", Nothing}
    BY <1>10 DEF StartPortal, MadeLaunch, Located, InstallTypeOK
  <2>2. pc' \in [Procs -> Points]
    BY <1>10, <1>b, InstPoints DEF StartPortal
  <2> QED
    BY <1>10, <2>1, <2>2 DEF StartPortal, InstallTypeOK
<1>11. ASSUME NEW p \in Procs, InitializeConfig(p) PROVE InstallTypeOK'
  <2>1. config' \in Configs \cup {Nothing}
    BY <1>11 DEF InitializeConfig, PublishConfig, InstallTypeOK, Configs
  <2>2. pc' \in [Procs -> Points]
    BY <1>11, <1>b, InstPoints DEF InitializeConfig
  <2> QED
    BY <1>11, <2>1, <2>2 DEF InitializeConfig, InstallTypeOK
<1>12. ASSUME NEW p \in Procs, LoadConfig(p) PROVE InstallTypeOK'
  <2>1. settings' \in [Procs -> Configs \cup {"explicit", Nothing}]
    BY <1>12 DEF LoadConfig, InstallTypeOK
  <2>2. pc' \in [Procs -> Points]
    BY <1>12, <1>b, InstPoints DEF LoadConfig
  <2> QED
    BY <1>12, <2>1, <2>2 DEF LoadConfig, InstallTypeOK
<1>13. ASSUME NEW m \in Migrations, Migrate(m) PROVE InstallTypeOK'
  <2>1. from' \in [Procs -> Downloads \cup {Nothing}]
    BY <1>13 DEF Migrate, InstallTypeOK
  <2>2. pc' \in [Procs -> Points]
    BY <1>13, <1>a, <1>b, InstPoints DEF Migrate
  <2> QED
    BY <1>13, <2>1, <2>2 DEF Migrate, InstallTypeOK
<1>14. ASSUME UserEdits \/ Upgraded PROVE InstallTypeOK'
  BY <1>14 DEF UserEdits, Upgraded, InstallTypeOK, Configs
<1>15. ASSUME NEW d \in Downloads, LegacyStops(d) PROVE InstallTypeOK'
  <2>1. legacy' \in [Downloads -> {"active", "stopped"}]
    BY <1>15 DEF LegacyStops, InstallTypeOK
  <2> QED
    BY <1>15, <2>1 DEF LegacyStops, InstallTypeOK
<1>16. ASSUME NEW p \in Procs, Again(p) PROVE InstallTypeOK'
  <2>1. pc' \in [Procs -> Points] /\ lock' \in Downloads \cup {Nothing}
    BY <1>16, <1>b, InstPoints DEF Again
  <2>2. /\ from' \in [Procs -> Downloads \cup {Nothing}]
        /\ plan' \in [Procs -> {"fresh", "applied", Nothing}]
        /\ settings' \in [Procs -> Configs \cup {"explicit", Nothing}]
    BY <1>16 DEF Again, InstallTypeOK
  <2>3. explicit' \in [Procs -> BOOLEAN]
    BY <1>16 DEF Again, InstallTypeOK
  <2>4. crashes' \in 0..MaxCrashes
    BY CrashesAssumption, <1>16 DEF Again, InstallTypeOK
  <2> QED
    BY <1>16, <2>1, <2>2, <2>3, <2>4 DEF Again, InstallTypeOK
<1>17. ASSUME UNCHANGED installVars PROVE InstallTypeOK'
  BY <1>17 DEF installVars, InstallTypeOK
<1> QED
  BY <1>1, <1>2, <1>3, <1>4, <1>5, <1>6, <1>7, <1>8, <1>9, <1>10, <1>11, <1>12, <1>13, <1>14,
     <1>15, <1>16, <1>17 DEF InstallNext, Prepare, Step

(* What the others do leaves a launch its invariant. *)
LEMMA InstOthers ==
    ASSUME InstInv, [InstallNext]_installVars, NEW d \in Downloads,
           pc'[d] = pc[d], from'[d] = from[d], explicit'[d] = explicit[d],
           settings'[d] = settings[d]
    PROVE  LaunchInv(d)'
<1>1. LaunchInv(d) /\ InstallTypeOK
  BY DEF InstInv
<1>2. /\ exe # Nothing => exe' # Nothing
      /\ config \in {d, "edited"} => config' \in {d, "edited"}
      /\ beside' = beside
  BY DistinctAssumption, <1>1, InstKept
<1> QED
  BY <1>1, <1>2
     DEF LaunchInv, CopiesLate, CopiesItsOwn, CopiesFirst, PublishesForCause, RunsWell

(* Every step of every launch keeps what is known of each.                 *)
LEMMA InstInvNext == ASSUME InstInv, [InstallNext]_installVars PROVE InstInv'
<1> USE DEF dirVars, besideVars
<1>a. InstallTypeOK /\ \A d \in Downloads : LaunchInv(d)
  BY DEF InstInv
<1>b. InstallTypeOK'
  BY <1>a, InstTyped
<1>c. /\ exe # Nothing => exe' # Nothing
      /\ \A d \in Downloads : config \in {d, "edited"} => config' \in {d, "edited"}
      /\ beside' = beside
  BY DistinctAssumption, <1>a, InstKept
<1>d. Downloads \subseteq Procs /\ Nothing \notin Downloads
  BY DistinctAssumption DEF Procs
<1> SUFFICES ASSUME NEW d \in Downloads PROVE LaunchInv(d)'
  BY <1>b DEF InstInv
<1> DEFINE Same == /\ pc'[d] = pc[d] /\ from'[d] = from[d]
                   /\ explicit'[d] = explicit[d] /\ settings'[d] = settings[d]
<1>e. ASSUME Same PROVE LaunchInv(d)'
  BY <1>e, InstOthers
<1>f. /\ CopiesLate(d) /\ CopiesItsOwn(d) /\ CopiesFirst(d)
      /\ PublishesForCause(d) /\ RunsWell(d)
  BY <1>a DEF LaunchInv
<1>g. ASSUME pc'[d] \in {"wait", "check", "done", "failed"}, from'[d] = from[d],
             pc[d] \in {"idle", "wait"} \/ pc'[d] \in {"done", "failed"}
      PROVE  LaunchInv(d)'
  BY <1>f, <1>g
     DEF LaunchInv, CopiesLate, CopiesItsOwn, CopiesFirst, PublishesForCause, RunsWell
(* A launch that goes on keeps the download it copied from. *)
<1>h. ASSUME pc'[d] \in {"start", "init", "load"}, from'[d] = from[d],
             pc[d] \in {"publish", "link", "start", "init"}
      PROVE  LaunchInv(d)'
  BY <1>c, <1>f, <1>h
     DEF LaunchInv, CopiesLate, CopiesItsOwn, CopiesFirst, PublishesForCause, RunsWell
<1>1. ASSUME NEW e \in Downloads, Launch(e) PROVE LaunchInv(d)'
  <2>1. e # d => Same
    BY <1>1, <1>a, <1>d DEF Launch, GoesTo, InstallTypeOK
  <2>2. e = d => pc'[d] = "wait" /\ pc[d] = "idle" /\ from' = from
    BY <1>1, <1>a, <1>d DEF Launch, GoesTo, At, InstallTypeOK
  <2> QED
    BY <1>e, <1>g, <2>1, <2>2
<1>2. ASSUME NEW e \in Downloads, Lock(e) \/ LockTimesOut(e) PROVE LaunchInv(d)'
  <2>1. e # d => Same
    BY <1>2, <1>a, <1>d DEF Lock, LockTimesOut, GoesTo, InstallTypeOK
  <2>2. e = d => pc'[d] \in {"check", "failed"} /\ pc[d] = "wait" /\ from' = from
    BY <1>2, <1>a, <1>d DEF Lock, LockTimesOut, GoesTo, At, InstallTypeOK
  <2> QED
    BY <1>e, <1>g, <2>1, <2>2
<1>3. ASSUME NEW e \in Downloads, Check(e) PROVE LaunchInv(d)'
  <2>1. e # d => Same
    BY <1>3, <1>a, <1>d DEF Check, GoesTo, LeavesPrepare, InstallTypeOK
  <2>2. CASE e = d
    <3>1. pc[d] = "check" /\ from[d] = Nothing
      BY <1>3, <1>f, <2>2 DEF Check, At, CopiesLate
    <3>2. \/ pc'[d] = "failed" /\ from' = from
          \/ pc'[d] = "plan" /\ from'[d] = d
          \/ /\ pc'[d] = "publish" /\ from' = from
             /\ explicit[d] \/ Migrated(d) \/ ~beside[d]
      BY <1>3, <1>a, <1>d, <2>2
         DEF Check, GoesTo, LeavesPrepare, InstallTypeOK
    <3>3. explicit' = explicit /\ exe' = exe
      BY <1>3 DEF Check
    <3>4. CASE pc'[d] = "plan" /\ from'[d] = d
      BY <3>4
     DEF LaunchInv, CopiesLate, CopiesItsOwn, CopiesFirst, PublishesForCause, RunsWell
    <3>5. CASE /\ pc'[d] = "publish" /\ from' = from
               /\ explicit[d] \/ Migrated(d) \/ ~beside[d]
      BY <1>c, <1>d, <3>1, <3>3, <3>5
         DEF LaunchInv, CopiesLate, CopiesItsOwn, CopiesFirst, PublishesForCause, RunsWell,
             Migrated
    <3> QED
      BY <1>g, <3>2, <3>4, <3>5
  <2> QED
    BY <1>e, <2>1, <2>2
<1>4. ASSUME NEW p \in Procs, Plan(p) PROVE LaunchInv(d)'
  <2>1. p # d => Same
    BY <1>4, <1>a, <1>d DEF Plan, GoesTo, LeavesPrepare, InstallTypeOK
  <2>2. p = d => pc[d] = "plan" /\ pc'[d] \in {"apply", "failed"} /\ from' = from
    BY <1>4, <1>a DEF Plan, At, GoesTo, LeavesPrepare, InstallTypeOK
  <2>3. ASSUME p = d, pc'[d] = "apply" PROVE LaunchInv(d)'
    BY <1>f, <2>2, <2>3
       DEF LaunchInv, CopiesLate, CopiesItsOwn, CopiesFirst, PublishesForCause, RunsWell
  <2> QED
    BY <1>e, <1>g, <2>1, <2>2, <2>3
<1>5. ASSUME NEW p \in Procs, Apply(p) PROVE LaunchInv(d)'
  <2>1. p # d => Same
    BY <1>5, <1>a, <1>d DEF Apply, GoesTo, LeavesPrepare, InstallTypeOK
  <2>2. CASE p = d
    <3>1. pc[d] = "apply" /\ from[d] = d /\ from' = from
      BY <1>5, <1>f, <2>2 DEF Apply, At, CopiesItsOwn
    <3>2. \/ pc'[d] = "failed"
          \/ pc'[d] = "publish" /\ config' = d
      BY <1>5, <1>a, <1>d, <2>2, <3>1
         DEF Apply, PublishConfig, GoesTo, LeavesPrepare, InstallTypeOK
    <3>3. CASE pc'[d] = "publish" /\ config' = d
      BY <3>1, <3>3
         DEF LaunchInv, CopiesLate, CopiesItsOwn, CopiesFirst, PublishesForCause, RunsWell
    <3> QED
      BY <1>g, <3>1, <3>2, <3>3
  <2> QED
    BY <1>e, <2>1, <2>2
<1>6. ASSUME NEW e \in Downloads, Publish(e) PROVE LaunchInv(d)'
  <2>1. e # d => Same
    BY <1>6, <1>a, <1>d DEF Publish, GoesTo, LeavesPrepare, InstallTypeOK
  <2>2. e = d => pc[d] = "publish" /\ pc'[d] \in {"start", "link"}
    BY <1>6, <1>a, <1>d DEF Publish, At, GoesTo, LeavesPrepare, InstallTypeOK
  <2>3. from' = from /\ explicit' = explicit
    BY <1>6 DEF Publish
  <2>4. ASSUME e = d, pc'[d] = "link" PROVE LaunchInv(d)'
    BY <1>c, <1>f, <2>2, <2>3, <2>4
       DEF LaunchInv, CopiesLate, CopiesItsOwn, CopiesFirst, PublishesForCause, RunsWell
  <2> QED
    BY <1>e, <1>h, <2>1, <2>2, <2>3, <2>4
<1>7. ASSUME NEW e \in Downloads, Link(e) PROVE LaunchInv(d)'
  <2>1. e # d => Same
    BY <1>7, <1>a, <1>d DEF Link, LeavesPrepare, GoesTo, InstallTypeOK
  <2>2. e = d => pc[d] = "link" /\ pc'[d] \in {"start", "failed"} /\ from' = from
    BY <1>7, <1>a, <1>d DEF Link, At, GoesTo, LeavesPrepare, InstallTypeOK
  <2> QED
    BY <1>e, <1>g, <1>h, <2>1, <2>2
<1>8. ASSUME NEW p \in Procs, StartPortal(p) \/ InitializeConfig(p)
      PROVE  LaunchInv(d)'
  <2>1. p # d => Same
    BY <1>8, <1>a, <1>d DEF StartPortal, InitializeConfig, GoesTo, InstallTypeOK
  <2>2. p = d => pc[d] \in {"start", "init"} /\ pc'[d] \in {"init", "load"} /\ from' = from
    BY <1>8, <1>a DEF StartPortal, InitializeConfig, At, GoesTo, InstallTypeOK
  <2> QED
    BY <1>e, <1>h, <2>1, <2>2
<1>9. ASSUME NEW p \in Procs, LoadConfig(p) PROVE LaunchInv(d)'
  <2>1. p # d => Same
    BY <1>9, <1>a, <1>d DEF LoadConfig, GoesTo, InstallTypeOK
  <2>2. CASE p = d
    <3>1. pc[d] = "load" /\ pc'[d] = "running" /\ from' = from /\ config' = config
      BY <1>9, <1>a, <2>2 DEF LoadConfig, At, GoesTo, InstallTypeOK
    <3>2. settings'[d] \in {config, "explicit"}
      BY <1>9, <1>a, <2>2 DEF LoadConfig, InstallTypeOK
    <3> QED
      BY <1>f, <3>1, <3>2
         DEF LaunchInv, CopiesLate, CopiesItsOwn, CopiesFirst, PublishesForCause, RunsWell
  <2> QED
    BY <1>e, <2>1, <2>2
<1>10. ASSUME NEW s \in Restarts, Restarted(s) PROVE LaunchInv(d)'
  <2>1. s # d
    BY DistinctAssumption
  <2> QED
    BY <1>10, <1>a, <1>d, <1>e, <2>1 DEF Restarted, GoesTo, InstallTypeOK
<1>11. ASSUME NEW m \in Migrations, Migrate(m) PROVE LaunchInv(d)'
  <2>1. m # d
    BY DistinctAssumption
  <2> QED
    BY <1>11, <1>a, <1>d, <1>e, <2>1 DEF Migrate, GoesTo, InstallTypeOK
<1>12. ASSUME NEW p \in Procs, Again(p) PROVE LaunchInv(d)'
  <2>1. p # d => Same
    BY <1>12, <1>a, <1>d DEF Again, LeavesPrepare, GoesTo, InstallTypeOK
  <2>2. p = d => pc'[d] = "idle" /\ from'[d] = Nothing
    BY <1>12, <1>a DEF Again, LeavesPrepare, GoesTo, InstallTypeOK
  <2>3. ASSUME p = d PROVE LaunchInv(d)'
    BY <1>d, <2>2, <2>3
       DEF LaunchInv, CopiesLate, CopiesItsOwn, CopiesFirst, PublishesForCause, RunsWell
  <2> QED
    BY <1>e, <2>1, <2>3
<1>13. ASSUME \/ UserEdits \/ Upgraded \/ UNCHANGED installVars
              \/ \E e \in Downloads : LegacyStops(e)
       PROVE  LaunchInv(d)'
  BY <1>13, <1>e DEF UserEdits, Upgraded, LegacyStops, installVars
<1> QED
  <2> HIDE DEF Same
  <2> QED
    BY <1>1, <1>2, <1>3, <1>4, <1>5, <1>6, <1>7, <1>8, <1>9, <1>10, <1>11, <1>12, <1>13
       DEF InstallNext, Prepare, Step

(* A launch that copied the settings of its directory runs with them, with *)
(* the user's edits of them or with an explicit --config, whoever else is  *)
(* launched, migrates, edits or is killed meanwhile (prepare, apply,       *)
(* initialize_config).                                                     *)
THEOREM InstRunsWell == InstallSpec => []RunsWithItsSettings
<1>1. InstInv => RunsWithItsSettings
  BY DEF InstInv, LaunchInv, RunsWell, RunsWithItsSettings, At
<1> QED
  BY <1>1, InstInvInit, InstInvNext, PTL DEF InstallSpec

(* No launch replaces an executable or a configuration that is there, and  *)
(* none installs itself before the settings it should copy are in place.   *)
THEOREM InstKeeps == InstallSpec => InstallationKeeps
<1>1. InstInv /\ [InstallNext]_installVars
          => [exe # Nothing /\ exe' # exe => exe' = "upgraded"]_installVars
  BY InstKept DEF InstInv
<1>2. InstInv /\ [InstallNext]_installVars
          => [config # Nothing /\ config' # config => config' = "edited"]_installVars
  BY InstKept DEF InstInv
<1>3. ASSUME InstInv, [InstallNext]_installVars, NEW d \in Downloads, exe = Nothing, exe' = d,
             ~explicit[d], beside[d]
      PROVE  config \in {d, "edited"}
  <2>1. PICK e \in Downloads : Link(e)
    <3>1. exe' # exe
      BY DistinctAssumption, <1>3
    <3> USE DEF dirVars, besideVars
    <3>2. ~UserEdits /\ ~Upgraded /\ ~UNCHANGED installVars
      BY <1>3, <3>1 DEF UserEdits, Upgraded, installVars
    <3>3. ASSUME NEW e \in Downloads
          PROVE  /\ ~Launch(e) /\ ~Lock(e) /\ ~LockTimesOut(e) /\ ~Check(e)
                 /\ ~Publish(e) /\ ~LegacyStops(e)
      BY <3>1 DEF Launch, Lock, LockTimesOut, Check, Publish,
                  LegacyStops
    <3>4. ASSUME NEW p \in Procs PROVE ~Step(p) /\ ~Again(p)
      BY <3>1 DEF Step, Plan, Apply, StartPortal, InitializeConfig,
                  LoadConfig, Again
    <3>5. /\ \A s \in Restarts : ~Restarted(s)
          /\ \A m \in Migrations : ~Migrate(m)
      BY <3>1 DEF Restarted, Migrate
    <3> QED
      BY <1>3, <3>2, <3>3, <3>4, <3>5 DEF InstallNext, Prepare
  <2>2. e = d /\ pc[d] = "link"
    BY DistinctAssumption, <1>3, <2>1 DEF Link, At
  <2> QED
    BY <1>3, <2>2 DEF InstInv, LaunchInv, PublishesForCause, CopiesFirst
<1>4. InstInv /\ [InstallNext]_installVars
          => [\A d \in Downloads :
                 exe = Nothing /\ exe' = d /\ ~explicit[d] /\ beside[d]
                     => config \in {d, "edited"}]_installVars
  BY <1>3
<1>5. InstallSpec => StaleNeverOverwrites
  BY <1>1, InstInvInit, InstInvNext, PTL DEF InstallSpec, StaleNeverOverwrites
<1>6. InstallSpec => ConfigNeverReplaced
  BY <1>2, InstInvInit, InstInvNext, PTL DEF InstallSpec, ConfigNeverReplaced
<1>7. InstallSpec => SettingsMigratedFirst
  BY <1>4, InstInvInit, InstInvNext, PTL DEF InstallSpec, SettingsMigratedFirst
<1> QED
  BY <1>5, <1>6, <1>7 DEF InstallationKeeps
=============================================================================
