---------------------------- MODULE KitManagerProof ----------------------------
(***************************************************************************)
(* Theorems about KitManager, for any number of calls and reloads, any     *)
(* number of process slots and any failure limit.                          *)
(***************************************************************************)
EXTENDS KitManager, FiniteSetTheorems, TLAPS

Early  == {"idle", "resolved", "queued", "gated"}
Served == {"calling", "answered", "failed", "returned"}

(* Who is past the gate holds the start_lock of the generation it asked    *)
(* at, and asked no earlier than it was resolved.                          *)
GateHeld ==
    \A c \in Calls : call[c] \in {"gated"} \cup Starting => gate[door[c]] = c
DoorInTime ==
    \A c \in Calls :
        /\ gen[c] <= generation
        /\ call[c] \in {"queued", "gated"} \cup Starting => gen[c] <= door[c] /\ door[c] <= generation

(* The entry's connection is one of its generation, and there is none      *)
(* while a call of this generation starts one ...                          *)
ConnectionCurrent == connection # None => Current(connection)
StartsAlone == \A c \in Calls : call[c] \in Starting /\ Current(c) => connection = None
(* ... or while the Kit is unhealthy, when nobody starts one either.       *)
HealthKept ==
    /\ ~unhealthy => failures < MaxFailures
    /\ unhealthy => failures = MaxFailures /\ connection = None
                    /\ \A c \in Calls : call[c] \in Starting => ~Current(c)
    /\ ~present => failures = 0 /\ ~unhealthy

(* Whoever has an Arc of a connection has one that was installed.          *)
Referenced(x) ==
    connection = x \/ (\E c \in Calls : using[c] = x) \/ x \in leaving \cup retired \cup closing
RefsServed ==
    \A x \in Calls : Referenced(x) =>
        call[x] \in Served /\ proc[x] \in {"alive", "dead"} /\ x \in listed
ProcStages ==
    \A c \in Calls :
        /\ call[c] \in Early => proc[c] = "none"
        /\ call[c] \in Early \cup {"starting", "spawned", "unstarted"} => using[c] = None
        /\ call[c] = "preparing" =>
              /\ proc[c] = "wanted"
              /\ using[c] # None => proc[using[c]] = "dead"
        /\ call[c] \in {"starting", "spawned"} => proc[c] \in {"alive", "dead"}
        /\ call[c] = "unstarted" => proc[c] = "dead"
        /\ call[c] \in {"calling", "answered", "failed"} => using[c] # None
AliveHeld == \A x \in Calls : proc[x] = "alive" => Held(x)

(* A process has one owner on its way out; one out of its Arc has no user. *)
Owned == leaving \cup retired \cup closing
OneOwner ==
    /\ leaving \cap retired = {}
    /\ closing \cap (leaving \cup retired) = {}
    /\ connection \notin Owned
    /\ \A x \in closing : Alone(x)
    /\ \A c \in Calls : call[c] = "failed" =>
          /\ using[c] \notin Owned /\ using[c] # connection
          /\ \A d \in Calls : call[d] = "failed" /\ using[d] = using[c] => c = d

(* Who failed, and which failures the Kit has counted.                     *)
FaultsKnown ==
    /\ \A x \in faults : call[x] \in Served \cup {"unstarted"}
    /\ \A c \in Calls :
          /\ call[c] = "unstarted" => c \in faults
          /\ call[c] = "answered" /\ result[c] = "broken" => using[c] \in faults
Counted == {x \in faults : gen[x] = generation /\ x # connection /\ call[x] # "unstarted"}
CountsRight ==
    \/ failures' = 0
    \/ failures' = failures /\ Counted \subseteq Counted'
    \/ failures' = failures + 1 /\ Counted \subseteq Counted' /\ \E x \in Counted' : x \notin Counted
FailuresCounted == failures <= Cardinality(Counted)

(* The processes that have a slot of entry i.                              *)
InSlot(i) == {x \in Calls : Held(x) /\ proc[x] # "none" /\ slot[x] = i}
SlotsBounded == \A i \in Generations : Cardinality(InSlot(i)) <= KitGenerations

(* Every generation that is over was cancelled.                            *)
OldCancelled ==
    \A g \in Generations :
        (g < generation \/ (g = generation /\ (~present \/ stop \in {"taken", "aborted", "done"})))
            => g \in cancelled

Core == TypeOK /\ GateHeld /\ DoorInTime /\ ConnectionCurrent /\ StartsAlone /\ HealthKept
Refs == RefsServed /\ ProcStages /\ AliveHeld /\ OneOwner
Inv ==
    /\ Core
    /\ Refs
    /\ CallsMeetTheirKit
    /\ FaultsKnown /\ FailuresCounted
    /\ SlotsBounded
    /\ OldCancelled /\ ShutdownReachesAll

(* Gates, generations and health.                                          *)
LEMMA CoreNext ==
    ASSUME Core, Refs, [Next]_vars
    PROVE  Core'
<1> USE LimitsAssumption, NoneAssumption
    DEF Core, TypeOK, GateHeld, DoorInTime, ConnectionCurrent, StartsAlone, HealthKept,
        Starting, stopping,
        Current, Alive, Moves, Generations, CallStates, Served, entryVars, healthVars, callVars,
        ownVars
<1>1. ASSUME NEW c \in Calls, Resolve(c) PROVE Core'
  BY <1>1 DEF Resolve
<1>2. ASSUME NEW c \in Calls, AskGate(c) PROVE Core'
  BY <1>2 DEF AskGate
<1>3. ASSUME NEW c \in Calls, PassGate(c) PROVE Core'
  BY <1>3 DEF PassGate
<1>4. ASSUME NEW c \in Calls, TurnedAway(c) PROVE Core'
  BY <1>4 DEF TurnedAway, Returns, OpenGate
<1>5. ASSUME NEW c \in Calls, Share(c) PROVE Core'
  BY <1>5 DEF Share, HandOut, OpenGate
<1>6. ASSUME NEW c \in Calls, Refused(c) PROVE Core'
  BY <1>6 DEF Refused, Returns, OpenGate, Drops, Aborts
<1>7. ASSUME NEW c \in Calls, Prepare(c) PROVE Core'
  BY <1>7 DEF Prepare, MayStart
<1>8. ASSUME NEW c \in Calls, StartProcess(c) PROVE Core'
  BY <1>8 DEF StartProcess
<1>9. ASSUME NEW c \in Calls, StartCancelled(c) PROVE Core'
  BY <1>9 DEF StartCancelled, Returns, OpenGate, Drops, Aborts
<1>10. ASSUME NEW c \in Calls, StartSettles(c) PROVE Core'
  <2>1. CASE Moves(c, "spawned") /\ UNCHANGED <<proc, faults>>
    BY <1>10, <2>1 DEF StartSettles
  <2>2. CASE Moves(c, "unstarted") /\ proc' = [proc EXCEPT ![c] = "dead"] /\ faults' = faults \cup {c}
    BY <1>10, <2>2 DEF StartSettles
  <2> QED
    BY <1>10, <2>1, <2>2 DEF StartSettles
<1>11. ASSUME NEW c \in Calls, Disowned(c) PROVE Core'
  BY <1>11 DEF Disowned, Returns, OpenGate, Drops, Aborts
<1>12. ASSUME NEW c \in Calls, StartFailed(c) PROVE Core'
  <2> USE <1>12 DEF StartFailed, Returns, OpenGate, Drops, Aborts, RecordFailure
  <2>1. TypeOK'
    OBVIOUS
  <2>2. GateHeld' /\ DoorInTime'
    OBVIOUS
  <2>3. ConnectionCurrent' /\ StartsAlone'
    OBVIOUS
  <2>a. ~unhealthy /\ failures < MaxFailures /\ failures' = failures + 1 /\ present' /\ connection' = None
    OBVIOUS
  <2>b. unhealthy' <=> failures + 1 >= MaxFailures
    BY <2>a
  <2>c. \A d \in Calls : call'[d] \in Starting => ~Current(d)'
    OBVIOUS
  <2>4. HealthKept'
    BY <2>a, <2>b, <2>c
  <2> QED
    BY <2>1, <2>2, <2>3, <2>4
<1>13. ASSUME NEW c \in Calls, Install(c) PROVE Core'
  BY <1>13 DEF Install, HandOut, OpenGate
<1>14. ASSUME NEW c \in Calls, CallEnds(c) PROVE Core'
  <2>1. PICK r \in {"ok", "other", "broken"} :
             /\ result' = [result EXCEPT ![c] = r]
             /\ faults' = IF r = "broken" THEN faults \cup {using[c]} ELSE faults
    BY <1>14 DEF CallEnds
  <2>2. using[c] \in Calls
    BY <1>14 DEF CallEnds, Refs, ProcStages
  <2> QED
    BY <1>14, <2>1, <2>2 DEF CallEnds
<1>15. ASSUME NEW c \in Calls, Bookkeep(c) PROVE Core'
  <2>1. using[c] \in Calls
    BY <1>15 DEF Bookkeep, Refs, ProcStages
  <2> QED
    BY <1>15, <2>1, SMTT(30) DEF Bookkeep, Returns, OpenGate, Drops, Aborts, OwnsConnection
<1>16. ASSUME NEW c \in Calls, GiveUp(c) PROVE Core'
  <2>1. using[c] \in Calls
    BY <1>16 DEF GiveUp, Refs, ProcStages
  <2> USE <1>16, <2>1 DEF GiveUp, RecordFailure, OwnsConnection
  <2>2. TypeOK'
    BY SMTT(30)
  <2>3. GateHeld' /\ DoorInTime'
    OBVIOUS
  <2>4. ConnectionCurrent' /\ StartsAlone'
    OBVIOUS
  <2>a. ~unhealthy /\ failures < MaxFailures /\ failures' = failures + 1 /\ present' /\ connection' = None
    OBVIOUS
  <2>b. unhealthy' <=> failures + 1 >= MaxFailures
    BY <2>a
  <2>c. \A d \in Calls : call'[d] \in Starting => ~Current(d)'
    OBVIOUS
  <2>5. HealthKept'
    BY <2>a, <2>b, <2>c
  <2> QED
    BY <2>2, <2>3, <2>4, <2>5
<1>17. ASSUME NEW c \in Calls, AbortFailed(c) PROVE Core'
  <2>1. using[c] \in Calls
    BY <1>17 DEF AbortFailed, Refs, ProcStages
  <2> QED
    BY <1>17, <2>1 DEF AbortFailed, Returns, OpenGate, Aborts
<1>18. ASSUME NEW c \in Calls, CallDropped(c) PROVE Core'
  BY <1>18 DEF CallDropped, Returns, OpenGate, Drops, Aborts
<1>19. ASSUME NEW c \in Calls, Retire(c) PROVE Core'
  BY <1>19 DEF Retire
<1>20. ASSUME NEW c \in Calls, RetireDropped(c) PROVE Core'
  BY <1>20 DEF RetireDropped, Drops, Aborts
<1>21. ASSUME NEW c \in Calls, Unwrap(c) PROVE Core'
  BY <1>21 DEF Unwrap
<1>22. ASSUME NEW c \in Calls, Closed(c) PROVE Core'
  BY <1>22 DEF Closed, Drops, Aborts
<1>23. ASSUME NEW c \in Calls, ProcessDies(c) PROVE Core'
  BY <1>23 DEF ProcessDies
<1>24. CASE Reload
  <2> USE <1>24 DEF Reload, Supersede
  <2>a. failures' = 0
    OBVIOUS
  <2>b. failures' \in 0..MaxFailures
    BY <2>a
  <2>c. present' \in BOOLEAN /\ unhealthy' \in BOOLEAN
    OBVIOUS
  <2>1. TypeOK'
    BY <2>b, <2>c
  <2>2. GateHeld' /\ DoorInTime'
    OBVIOUS
  <2>3. ConnectionCurrent' /\ StartsAlone'
    OBVIOUS
  <2>4. HealthKept'
    OBVIOUS
  <2> QED
    BY <2>1, <2>2, <2>3, <2>4
<1>25. CASE Remove
  <2> USE <1>25 DEF Remove, Supersede
  <2>a. failures' = 0
    OBVIOUS
  <2>b. failures' \in 0..MaxFailures
    BY <2>a
  <2>c. present' \in BOOLEAN /\ unhealthy' \in BOOLEAN
    OBVIOUS
  <2>1. TypeOK'
    BY <2>b, <2>c
  <2>2. GateHeld' /\ DoorInTime'
    OBVIOUS
  <2>3. ConnectionCurrent' /\ StartsAlone'
    OBVIOUS
  <2>4. HealthKept'
    OBVIOUS
  <2> QED
    BY <2>1, <2>2, <2>3, <2>4
<1>26. CASE Add
  BY <1>26 DEF Add
<1>27. CASE Recover
  <2> USE <1>27 DEF Recover
  <2>a. failures' = 0
    OBVIOUS
  <2>b. failures' \in 0..MaxFailures
    BY <2>a
  <2>c. unhealthy' \in BOOLEAN
    OBVIOUS
  <2>1. TypeOK'
    BY <2>b, <2>c
  <2>2. GateHeld' /\ DoorInTime'
    OBVIOUS
  <2>3. ConnectionCurrent' /\ StartsAlone'
    OBVIOUS
  <2>4. HealthKept'
    OBVIOUS
  <2> QED
    BY <2>1, <2>2, <2>3, <2>4
<1>28. CASE StopBegin
  BY <1>28 DEF StopBegin
<1>29. CASE StopTake
  BY <1>29 DEF StopTake
<1>30. CASE StopAborts
  BY <1>30 DEF StopAborts, Aborts
<1>31. CASE StopEnds
  BY <1>31 DEF StopEnds, Drops, Aborts
<1>32. CASE UNCHANGED vars
  BY <1>32 DEF vars
<1> QED
  BY <1>1, <1>2, <1>3, <1>4, <1>5, <1>6, <1>7, <1>8, <1>9, <1>10, <1>11, <1>12, <1>13, <1>14,
     <1>15, <1>16, <1>17, <1>18, <1>19, <1>20, <1>21, <1>22, <1>23, <1>24, <1>25, <1>26,
     <1>27, <1>28, <1>29, <1>30, <1>31, <1>32
     DEF Next, CallStep, RetireStep, StopStep

(* What is referred to was installed, and has a process.                   *)
LEMMA RefsServedNext ==
    ASSUME Core, Refs, [Next]_vars
    PROVE  (RefsServed /\ ProcStages)'
<1> USE NoneAssumption
    DEF Core, TypeOK, Refs, RefsServed, ProcStages, Referenced, Starting, Served, Early, Moves,
        CallStates, Alive, entryVars, healthVars, callVars, ownVars
<1>1. ASSUME NEW c \in Calls, Resolve(c) PROVE (RefsServed /\ ProcStages)'
  BY <1>1 DEF Resolve
<1>2. ASSUME NEW c \in Calls, AskGate(c) PROVE (RefsServed /\ ProcStages)'
  BY <1>2 DEF AskGate
<1>3. ASSUME NEW c \in Calls, PassGate(c) PROVE (RefsServed /\ ProcStages)'
  BY <1>3 DEF PassGate
<1>4. ASSUME NEW c \in Calls, TurnedAway(c) PROVE (RefsServed /\ ProcStages)'
  BY <1>4 DEF TurnedAway, Returns, OpenGate
<1>5. ASSUME NEW c \in Calls, Share(c) PROVE (RefsServed /\ ProcStages)'
  BY <1>5 DEF Share, HandOut, OpenGate
<1>6. ASSUME NEW c \in Calls, Refused(c) PROVE (RefsServed /\ ProcStages)'
  BY <1>6 DEF Refused, Returns, OpenGate, Drops, Aborts
<1>7. ASSUME NEW c \in Calls, Prepare(c) PROVE (RefsServed /\ ProcStages)'
  BY <1>7 DEF Prepare, MayStart
<1>8. ASSUME NEW c \in Calls, StartProcess(c) PROVE (RefsServed /\ ProcStages)'
  BY <1>8 DEF StartProcess
<1>9. ASSUME NEW c \in Calls, StartCancelled(c) PROVE (RefsServed /\ ProcStages)'
  BY <1>9 DEF StartCancelled, Returns, OpenGate, Drops, Aborts
<1>10. ASSUME NEW c \in Calls, StartSettles(c) PROVE (RefsServed /\ ProcStages)'
  <2>1. CASE Moves(c, "spawned") /\ UNCHANGED <<proc, faults>>
    BY <1>10, <2>1 DEF StartSettles
  <2>2. CASE Moves(c, "unstarted") /\ proc' = [proc EXCEPT ![c] = "dead"] /\ faults' = faults \cup {c}
    BY <1>10, <2>2 DEF StartSettles
  <2> QED
    BY <1>10, <2>1, <2>2 DEF StartSettles
<1>11. ASSUME NEW c \in Calls, Disowned(c) PROVE (RefsServed /\ ProcStages)'
  BY <1>11 DEF Disowned, Returns, OpenGate, Drops, Aborts
<1>12. ASSUME NEW c \in Calls, StartFailed(c) PROVE (RefsServed /\ ProcStages)'
  BY <1>12 DEF StartFailed, Returns, OpenGate, Drops, Aborts, RecordFailure
<1>13. ASSUME NEW c \in Calls, Install(c) PROVE (RefsServed /\ ProcStages)'
  BY <1>13 DEF Install, HandOut, OpenGate
<1>14. ASSUME NEW c \in Calls, CallEnds(c) PROVE (RefsServed /\ ProcStages)'
  BY <1>14 DEF CallEnds
<1>15. ASSUME NEW c \in Calls, Bookkeep(c) PROVE (RefsServed /\ ProcStages)'
  BY <1>15 DEF Bookkeep, Returns, OpenGate, Drops, Aborts, OwnsConnection
<1>16. ASSUME NEW c \in Calls, GiveUp(c) PROVE (RefsServed /\ ProcStages)'
  BY <1>16 DEF GiveUp, RecordFailure, OwnsConnection
<1>17. ASSUME NEW c \in Calls, AbortFailed(c) PROVE (RefsServed /\ ProcStages)'
  BY <1>17 DEF AbortFailed, Returns, OpenGate, Aborts
<1>18. ASSUME NEW c \in Calls, CallDropped(c) PROVE (RefsServed /\ ProcStages)'
  BY <1>18 DEF CallDropped, Returns, OpenGate, Drops, Aborts
<1>19. ASSUME NEW c \in Calls, Retire(c) PROVE (RefsServed /\ ProcStages)'
  BY <1>19 DEF Retire
<1>20. ASSUME NEW c \in Calls, RetireDropped(c) PROVE (RefsServed /\ ProcStages)'
  BY <1>20 DEF RetireDropped, Drops, Aborts
<1>21. ASSUME NEW c \in Calls, Unwrap(c) PROVE (RefsServed /\ ProcStages)'
  BY <1>21 DEF Unwrap
<1>22. ASSUME NEW c \in Calls, Closed(c) PROVE (RefsServed /\ ProcStages)'
  BY <1>22 DEF Closed, Drops, Aborts
<1>23. ASSUME NEW c \in Calls, ProcessDies(c) PROVE (RefsServed /\ ProcStages)'
  BY <1>23 DEF ProcessDies
<1>24. CASE Reload
  BY <1>24 DEF Reload, Supersede
<1>25. CASE Remove
  BY <1>25 DEF Remove, Supersede
<1>26. CASE Add
  BY <1>26 DEF Add
<1>27. CASE Recover
  BY <1>27 DEF Recover
<1>28. CASE StopBegin
  BY <1>28 DEF StopBegin
<1>29. CASE StopTake
  BY <1>29 DEF StopTake
<1>30. CASE StopAborts
  BY <1>30 DEF StopAborts, Aborts
<1>31. CASE StopEnds
  BY <1>31 DEF StopEnds, Drops, Aborts
<1>32. CASE UNCHANGED vars
  BY <1>32 DEF vars
<1> QED
  BY <1>1, <1>2, <1>3, <1>4, <1>5, <1>6, <1>7, <1>8, <1>9, <1>10, <1>11, <1>12, <1>13, <1>14,
     <1>15, <1>16, <1>17, <1>18, <1>19, <1>20, <1>21, <1>22, <1>23, <1>24, <1>25, <1>26,
     <1>27, <1>28, <1>29, <1>30, <1>31, <1>32
     DEF Next, CallStep, RetireStep, StopStep

(* A process that nobody holds is killed.                                  *)
LEMMA AliveHeldNext ==
    ASSUME Core, Refs, [Next]_vars
    PROVE  AliveHeld'
<1> USE NoneAssumption
    DEF Core, TypeOK, Refs, RefsServed, ProcStages, Referenced, AliveHeld, Held, Starting,
        Served, Early, Moves, CallStates, Alive, entryVars, healthVars, callVars, ownVars
<1>1. ASSUME NEW c \in Calls, Resolve(c) PROVE AliveHeld'
  BY <1>1 DEF Resolve
<1>2. ASSUME NEW c \in Calls, AskGate(c) PROVE AliveHeld'
  BY <1>2 DEF AskGate
<1>3. ASSUME NEW c \in Calls, PassGate(c) PROVE AliveHeld'
  BY <1>3 DEF PassGate
<1>4. ASSUME NEW c \in Calls, TurnedAway(c) PROVE AliveHeld'
  BY <1>4 DEF TurnedAway, Returns, OpenGate
<1>5. ASSUME NEW c \in Calls, Share(c) PROVE AliveHeld'
  BY <1>5 DEF Share, HandOut, OpenGate
<1>6. ASSUME NEW c \in Calls, Refused(c) PROVE AliveHeld'
  BY <1>6 DEF Refused, Returns, OpenGate, Drops, Aborts
<1>7. ASSUME NEW c \in Calls, Prepare(c) PROVE AliveHeld'
  BY <1>7 DEF Prepare, MayStart
<1>8. ASSUME NEW c \in Calls, StartProcess(c) PROVE AliveHeld'
  BY <1>8 DEF StartProcess
<1>9. ASSUME NEW c \in Calls, StartCancelled(c) PROVE AliveHeld'
  BY <1>9 DEF StartCancelled, Returns, OpenGate, Drops, Aborts
<1>10. ASSUME NEW c \in Calls, StartSettles(c) PROVE AliveHeld'
  <2>1. CASE Moves(c, "spawned") /\ UNCHANGED <<proc, faults>>
    BY <1>10, <2>1 DEF StartSettles
  <2>2. CASE Moves(c, "unstarted") /\ proc' = [proc EXCEPT ![c] = "dead"] /\ faults' = faults \cup {c}
    BY <1>10, <2>2 DEF StartSettles
  <2> QED
    BY <1>10, <2>1, <2>2 DEF StartSettles
<1>11. ASSUME NEW c \in Calls, Disowned(c) PROVE AliveHeld'
  BY <1>11 DEF Disowned, Returns, OpenGate, Drops, Aborts
<1>12. ASSUME NEW c \in Calls, StartFailed(c) PROVE AliveHeld'
  BY <1>12 DEF StartFailed, Returns, OpenGate, Drops, Aborts, RecordFailure
<1>13. ASSUME NEW c \in Calls, Install(c) PROVE AliveHeld'
  BY <1>13 DEF Install, HandOut, OpenGate, StartsAlone, Current
<1>14. ASSUME NEW c \in Calls, CallEnds(c) PROVE AliveHeld'
  BY <1>14 DEF CallEnds
<1>15. ASSUME NEW c \in Calls, Bookkeep(c) PROVE AliveHeld'
  BY <1>15 DEF Bookkeep, Returns, OpenGate, Drops, Aborts, OwnsConnection
<1>16. ASSUME NEW c \in Calls, GiveUp(c) PROVE AliveHeld'
  BY <1>16 DEF GiveUp, RecordFailure, OwnsConnection
<1>17. ASSUME NEW c \in Calls, AbortFailed(c) PROVE AliveHeld'
  BY <1>17 DEF AbortFailed, Returns, OpenGate, Aborts
<1>18. ASSUME NEW c \in Calls, CallDropped(c) PROVE AliveHeld'
  BY <1>18 DEF CallDropped, Returns, OpenGate, Drops, Aborts
<1>19. ASSUME NEW c \in Calls, Retire(c) PROVE AliveHeld'
  BY <1>19 DEF Retire
<1>20. ASSUME NEW c \in Calls, RetireDropped(c) PROVE AliveHeld'
  BY <1>20 DEF RetireDropped, Drops, Aborts
<1>21. ASSUME NEW c \in Calls, Unwrap(c) PROVE AliveHeld'
  BY <1>21 DEF Unwrap
<1>22. ASSUME NEW c \in Calls, Closed(c) PROVE AliveHeld'
  BY <1>22 DEF Closed, Drops, Aborts
<1>23. ASSUME NEW c \in Calls, ProcessDies(c) PROVE AliveHeld'
  BY <1>23 DEF ProcessDies
<1>24. CASE Reload
  BY <1>24 DEF Reload, Supersede
<1>25. CASE Remove
  BY <1>25 DEF Remove, Supersede
<1>26. CASE Add
  BY <1>26 DEF Add
<1>27. CASE Recover
  BY <1>27 DEF Recover
<1>28. CASE StopBegin
  BY <1>28 DEF StopBegin
<1>29. CASE StopTake
  BY <1>29 DEF StopTake
<1>30. CASE StopAborts
  BY <1>30 DEF StopAborts, Aborts
<1>31. CASE StopEnds
  BY <1>31 DEF StopEnds, Drops, Aborts
<1>32. CASE UNCHANGED vars
  BY <1>32 DEF vars
<1> QED
  BY <1>1, <1>2, <1>3, <1>4, <1>5, <1>6, <1>7, <1>8, <1>9, <1>10, <1>11, <1>12, <1>13, <1>14,
     <1>15, <1>16, <1>17, <1>18, <1>19, <1>20, <1>21, <1>22, <1>23, <1>24, <1>25, <1>26,
     <1>27, <1>28, <1>29, <1>30, <1>31, <1>32
     DEF Next, CallStep, RetireStep, StopStep

(* Ways out.                                                               *)
LEMMA OneOwnerNext ==
    ASSUME Core, Refs, [Next]_vars
    PROVE  OneOwner'
<1> USE NoneAssumption
    DEF Core, TypeOK, Refs, RefsServed, ProcStages, Referenced, OneOwner, Owned, Alone,
        Starting, Served, Early, Moves, CallStates, Alive, entryVars, healthVars, callVars,
        ownVars
<1>1. ASSUME NEW c \in Calls, Resolve(c) PROVE OneOwner'
  BY <1>1 DEF Resolve
<1>2. ASSUME NEW c \in Calls, AskGate(c) PROVE OneOwner'
  BY <1>2 DEF AskGate
<1>3. ASSUME NEW c \in Calls, PassGate(c) PROVE OneOwner'
  BY <1>3 DEF PassGate
<1>4. ASSUME NEW c \in Calls, TurnedAway(c) PROVE OneOwner'
  BY <1>4 DEF TurnedAway, Returns, OpenGate
<1>5. ASSUME NEW c \in Calls, Share(c) PROVE OneOwner'
  BY <1>5 DEF Share, HandOut, OpenGate
<1>6. ASSUME NEW c \in Calls, Refused(c) PROVE OneOwner'
  BY <1>6 DEF Refused, Returns, OpenGate, Drops, Aborts
<1>7. ASSUME NEW c \in Calls, Prepare(c) PROVE OneOwner'
  BY <1>7 DEF Prepare, MayStart
<1>8. ASSUME NEW c \in Calls, StartProcess(c) PROVE OneOwner'
  BY <1>8 DEF StartProcess
<1>9. ASSUME NEW c \in Calls, StartCancelled(c) PROVE OneOwner'
  BY <1>9 DEF StartCancelled, Returns, OpenGate, Drops, Aborts
<1>10. ASSUME NEW c \in Calls, StartSettles(c) PROVE OneOwner'
  <2>1. CASE Moves(c, "spawned") /\ UNCHANGED <<proc, faults>>
    BY <1>10, <2>1 DEF StartSettles
  <2>2. CASE Moves(c, "unstarted") /\ proc' = [proc EXCEPT ![c] = "dead"] /\ faults' = faults \cup {c}
    BY <1>10, <2>2 DEF StartSettles
  <2> QED
    BY <1>10, <2>1, <2>2 DEF StartSettles
<1>11. ASSUME NEW c \in Calls, Disowned(c) PROVE OneOwner'
  BY <1>11 DEF Disowned, Returns, OpenGate, Drops, Aborts
<1>12. ASSUME NEW c \in Calls, StartFailed(c) PROVE OneOwner'
  BY <1>12 DEF StartFailed, Returns, OpenGate, Drops, Aborts, RecordFailure
<1>13. ASSUME NEW c \in Calls, Install(c) PROVE OneOwner'
  BY <1>13 DEF Install, HandOut, OpenGate
<1>14. ASSUME NEW c \in Calls, CallEnds(c) PROVE OneOwner'
  BY <1>14 DEF CallEnds
<1>15. ASSUME NEW c \in Calls, Bookkeep(c) PROVE OneOwner'
  BY <1>15 DEF Bookkeep, Returns, OpenGate, Drops, Aborts, OwnsConnection
<1>16. ASSUME NEW c \in Calls, GiveUp(c) PROVE OneOwner'
  BY <1>16 DEF GiveUp, RecordFailure, OwnsConnection
<1>17. ASSUME NEW c \in Calls, AbortFailed(c) PROVE OneOwner'
  BY <1>17 DEF AbortFailed, Returns, OpenGate, Aborts
<1>18. ASSUME NEW c \in Calls, CallDropped(c) PROVE OneOwner'
  BY <1>18 DEF CallDropped, Returns, OpenGate, Drops, Aborts
<1>19. ASSUME NEW c \in Calls, Retire(c) PROVE OneOwner'
  BY <1>19 DEF Retire
<1>20. ASSUME NEW c \in Calls, RetireDropped(c) PROVE OneOwner'
  BY <1>20 DEF RetireDropped, Drops, Aborts
<1>21. ASSUME NEW c \in Calls, Unwrap(c) PROVE OneOwner'
  BY <1>21 DEF Unwrap
<1>22. ASSUME NEW c \in Calls, Closed(c) PROVE OneOwner'
  BY <1>22 DEF Closed, Drops, Aborts
<1>23. ASSUME NEW c \in Calls, ProcessDies(c) PROVE OneOwner'
  BY <1>23 DEF ProcessDies
<1>24. CASE Reload
  BY <1>24 DEF Reload, Supersede
<1>25. CASE Remove
  BY <1>25 DEF Remove, Supersede
<1>26. CASE Add
  BY <1>26 DEF Add
<1>27. CASE Recover
  BY <1>27 DEF Recover
<1>28. CASE StopBegin
  BY <1>28 DEF StopBegin
<1>29. CASE StopTake
  BY <1>29 DEF StopTake
<1>30. CASE StopAborts
  BY <1>30 DEF StopAborts, Aborts
<1>31. CASE StopEnds
  BY <1>31 DEF StopEnds, Drops, Aborts
<1>32. CASE UNCHANGED vars
  BY <1>32 DEF vars
<1> QED
  BY <1>1, <1>2, <1>3, <1>4, <1>5, <1>6, <1>7, <1>8, <1>9, <1>10, <1>11, <1>12, <1>13, <1>14,
     <1>15, <1>16, <1>17, <1>18, <1>19, <1>20, <1>21, <1>22, <1>23, <1>24, <1>25, <1>26,
     <1>27, <1>28, <1>29, <1>30, <1>31, <1>32
     DEF Next, CallStep, RetireStep, StopStep

(* Calls and the process they are sent to.                                 *)
LEMMA MeetNext ==
    ASSUME Core, Refs, CallsMeetTheirKit, [Next]_vars
    PROVE  CallsMeetTheirKit'
<1> USE NoneAssumption
    DEF Core, TypeOK, Refs, RefsServed, ProcStages, Referenced, ConnectionCurrent, Current,
        CallsMeetTheirKit, Starting, Served, Early, Moves, CallStates, Alive, entryVars,
        healthVars, callVars, ownVars
<1>1. ASSUME NEW c \in Calls, Resolve(c) PROVE CallsMeetTheirKit'
  BY <1>1 DEF Resolve
<1>2. ASSUME NEW c \in Calls, AskGate(c) PROVE CallsMeetTheirKit'
  BY <1>2 DEF AskGate
<1>3. ASSUME NEW c \in Calls, PassGate(c) PROVE CallsMeetTheirKit'
  BY <1>3 DEF PassGate
<1>4. ASSUME NEW c \in Calls, TurnedAway(c) PROVE CallsMeetTheirKit'
  BY <1>4 DEF TurnedAway, Returns, OpenGate
<1>5. ASSUME NEW c \in Calls, Share(c) PROVE CallsMeetTheirKit'
  BY <1>5 DEF Share, HandOut, OpenGate
<1>6. ASSUME NEW c \in Calls, Refused(c) PROVE CallsMeetTheirKit'
  BY <1>6 DEF Refused, Returns, OpenGate, Drops, Aborts
<1>7. ASSUME NEW c \in Calls, Prepare(c) PROVE CallsMeetTheirKit'
  BY <1>7 DEF Prepare, MayStart
<1>8. ASSUME NEW c \in Calls, StartProcess(c) PROVE CallsMeetTheirKit'
  BY <1>8 DEF StartProcess
<1>9. ASSUME NEW c \in Calls, StartCancelled(c) PROVE CallsMeetTheirKit'
  BY <1>9 DEF StartCancelled, Returns, OpenGate, Drops, Aborts
<1>10. ASSUME NEW c \in Calls, StartSettles(c) PROVE CallsMeetTheirKit'
  BY <1>10 DEF StartSettles
<1>11. ASSUME NEW c \in Calls, Disowned(c) PROVE CallsMeetTheirKit'
  BY <1>11 DEF Disowned, Returns, OpenGate, Drops, Aborts
<1>12. ASSUME NEW c \in Calls, StartFailed(c) PROVE CallsMeetTheirKit'
  BY <1>12 DEF StartFailed, Returns, OpenGate, Drops, Aborts, RecordFailure
<1>13. ASSUME NEW c \in Calls, Install(c) PROVE CallsMeetTheirKit'
  BY <1>13 DEF Install, HandOut, OpenGate
<1>14. ASSUME NEW c \in Calls, CallEnds(c) PROVE CallsMeetTheirKit'
  BY <1>14 DEF CallEnds
<1>15. ASSUME NEW c \in Calls, Bookkeep(c) PROVE CallsMeetTheirKit'
  BY <1>15 DEF Bookkeep, Returns, OpenGate, Drops, Aborts, OwnsConnection
<1>16. ASSUME NEW c \in Calls, GiveUp(c) PROVE CallsMeetTheirKit'
  BY <1>16 DEF GiveUp, RecordFailure, OwnsConnection
<1>17. ASSUME NEW c \in Calls, AbortFailed(c) PROVE CallsMeetTheirKit'
  BY <1>17 DEF AbortFailed, Returns, OpenGate, Aborts
<1>18. ASSUME NEW c \in Calls, CallDropped(c) PROVE CallsMeetTheirKit'
  BY <1>18 DEF CallDropped, Returns, OpenGate, Drops, Aborts
<1>19. ASSUME NEW c \in Calls, Retire(c) PROVE CallsMeetTheirKit'
  BY <1>19 DEF Retire
<1>20. ASSUME NEW c \in Calls, RetireDropped(c) PROVE CallsMeetTheirKit'
  BY <1>20 DEF RetireDropped, Drops, Aborts
<1>21. ASSUME NEW c \in Calls, Unwrap(c) PROVE CallsMeetTheirKit'
  BY <1>21 DEF Unwrap
<1>22. ASSUME NEW c \in Calls, Closed(c) PROVE CallsMeetTheirKit'
  BY <1>22 DEF Closed, Drops, Aborts
<1>23. ASSUME NEW c \in Calls, ProcessDies(c) PROVE CallsMeetTheirKit'
  BY <1>23 DEF ProcessDies
<1>24. CASE Reload
  BY <1>24 DEF Reload, Supersede
<1>25. CASE Remove
  BY <1>25 DEF Remove, Supersede
<1>26. CASE Add
  BY <1>26 DEF Add
<1>27. CASE Recover
  BY <1>27 DEF Recover
<1>28. CASE StopBegin
  BY <1>28 DEF StopBegin
<1>29. CASE StopTake
  BY <1>29 DEF StopTake
<1>30. CASE StopAborts
  BY <1>30 DEF StopAborts, Aborts
<1>31. CASE StopEnds
  BY <1>31 DEF StopEnds, Drops, Aborts
<1>32. CASE UNCHANGED vars
  BY <1>32 DEF vars
<1> QED
  BY <1>1, <1>2, <1>3, <1>4, <1>5, <1>6, <1>7, <1>8, <1>9, <1>10, <1>11, <1>12, <1>13, <1>14,
     <1>15, <1>16, <1>17, <1>18, <1>19, <1>20, <1>21, <1>22, <1>23, <1>24, <1>25, <1>26,
     <1>27, <1>28, <1>29, <1>30, <1>31, <1>32
     DEF Next, CallStep, RetireStep, StopStep

(* Failures.                                                               *)
LEMMA FaultsKnownNext ==
    ASSUME Core, Refs, FaultsKnown, [Next]_vars
    PROVE  FaultsKnown'
<1> USE NoneAssumption
    DEF Core, TypeOK, Refs, RefsServed, ProcStages, Referenced, FaultsKnown, Starting, Served,
        Early, Moves, CallStates, Alive, entryVars, healthVars, callVars, ownVars
<1>1. ASSUME NEW c \in Calls, Resolve(c) PROVE FaultsKnown'
  BY <1>1 DEF Resolve
<1>2. ASSUME NEW c \in Calls, AskGate(c) PROVE FaultsKnown'
  BY <1>2 DEF AskGate
<1>3. ASSUME NEW c \in Calls, PassGate(c) PROVE FaultsKnown'
  BY <1>3 DEF PassGate
<1>4. ASSUME NEW c \in Calls, TurnedAway(c) PROVE FaultsKnown'
  BY <1>4 DEF TurnedAway, Returns, OpenGate
<1>5. ASSUME NEW c \in Calls, Share(c) PROVE FaultsKnown'
  BY <1>5 DEF Share, HandOut, OpenGate
<1>6. ASSUME NEW c \in Calls, Refused(c) PROVE FaultsKnown'
  BY <1>6 DEF Refused, Returns, OpenGate, Drops, Aborts
<1>7. ASSUME NEW c \in Calls, Prepare(c) PROVE FaultsKnown'
  BY <1>7 DEF Prepare, MayStart
<1>8. ASSUME NEW c \in Calls, StartProcess(c) PROVE FaultsKnown'
  BY <1>8 DEF StartProcess
<1>9. ASSUME NEW c \in Calls, StartCancelled(c) PROVE FaultsKnown'
  BY <1>9 DEF StartCancelled, Returns, OpenGate, Drops, Aborts
<1>10. ASSUME NEW c \in Calls, StartSettles(c) PROVE FaultsKnown'
  <2>1. CASE Moves(c, "spawned") /\ UNCHANGED <<proc, faults>>
    BY <1>10, <2>1 DEF StartSettles
  <2>2. CASE Moves(c, "unstarted") /\ proc' = [proc EXCEPT ![c] = "dead"] /\ faults' = faults \cup {c}
    BY <1>10, <2>2 DEF StartSettles
  <2> QED
    BY <1>10, <2>1, <2>2 DEF StartSettles
<1>11. ASSUME NEW c \in Calls, Disowned(c) PROVE FaultsKnown'
  BY <1>11 DEF Disowned, Returns, OpenGate, Drops, Aborts
<1>12. ASSUME NEW c \in Calls, StartFailed(c) PROVE FaultsKnown'
  BY <1>12 DEF StartFailed, Returns, OpenGate, Drops, Aborts, RecordFailure
<1>13. ASSUME NEW c \in Calls, Install(c) PROVE FaultsKnown'
  BY <1>13 DEF Install, HandOut, OpenGate
<1>14. ASSUME NEW c \in Calls, CallEnds(c) PROVE FaultsKnown'
  <2>1. PICK r \in {"ok", "other", "broken"} :
             /\ result' = [result EXCEPT ![c] = r]
             /\ faults' = IF r = "broken" THEN faults \cup {using[c]} ELSE faults
    BY <1>14 DEF CallEnds
  <2> QED
    BY <1>14, <2>1 DEF CallEnds
<1>15. ASSUME NEW c \in Calls, Bookkeep(c) PROVE FaultsKnown'
  BY <1>15 DEF Bookkeep, Returns, OpenGate, Drops, Aborts, OwnsConnection
<1>16. ASSUME NEW c \in Calls, GiveUp(c) PROVE FaultsKnown'
  BY <1>16 DEF GiveUp, RecordFailure, OwnsConnection
<1>17. ASSUME NEW c \in Calls, AbortFailed(c) PROVE FaultsKnown'
  BY <1>17 DEF AbortFailed, Returns, OpenGate, Aborts
<1>18. ASSUME NEW c \in Calls, CallDropped(c) PROVE FaultsKnown'
  BY <1>18 DEF CallDropped, Returns, OpenGate, Drops, Aborts
<1>19. ASSUME NEW c \in Calls, Retire(c) PROVE FaultsKnown'
  BY <1>19 DEF Retire
<1>20. ASSUME NEW c \in Calls, RetireDropped(c) PROVE FaultsKnown'
  BY <1>20 DEF RetireDropped, Drops, Aborts
<1>21. ASSUME NEW c \in Calls, Unwrap(c) PROVE FaultsKnown'
  BY <1>21 DEF Unwrap
<1>22. ASSUME NEW c \in Calls, Closed(c) PROVE FaultsKnown'
  BY <1>22 DEF Closed, Drops, Aborts
<1>23. ASSUME NEW c \in Calls, ProcessDies(c) PROVE FaultsKnown'
  BY <1>23 DEF ProcessDies
<1>24. CASE Reload
  BY <1>24 DEF Reload, Supersede
<1>25. CASE Remove
  BY <1>25 DEF Remove, Supersede
<1>26. CASE Add
  BY <1>26 DEF Add
<1>27. CASE Recover
  BY <1>27 DEF Recover
<1>28. CASE StopBegin
  BY <1>28 DEF StopBegin
<1>29. CASE StopTake
  BY <1>29 DEF StopTake
<1>30. CASE StopAborts
  BY <1>30 DEF StopAborts, Aborts
<1>31. CASE StopEnds
  BY <1>31 DEF StopEnds, Drops, Aborts
<1>32. CASE UNCHANGED vars
  BY <1>32 DEF vars
<1> QED
  BY <1>1, <1>2, <1>3, <1>4, <1>5, <1>6, <1>7, <1>8, <1>9, <1>10, <1>11, <1>12, <1>13, <1>14,
     <1>15, <1>16, <1>17, <1>18, <1>19, <1>20, <1>21, <1>22, <1>23, <1>24, <1>25, <1>26,
     <1>27, <1>28, <1>29, <1>30, <1>31, <1>32
     DEF Next, CallStep, RetireStep, StopStep

(* Generations that are over.                                              *)
LEMMA OldCancelledNext ==
    ASSUME Core, OldCancelled, [Next]_vars
    PROVE  OldCancelled'
<1> USE LimitsAssumption
    DEF Core, TypeOK, OldCancelled, stopping, Generations, entryVars, healthVars, callVars,
        ownVars
<1>1. ASSUME NEW c \in Calls, Resolve(c) PROVE OldCancelled'
  BY <1>1 DEF Resolve
<1>2. ASSUME NEW c \in Calls, AskGate(c) PROVE OldCancelled'
  BY <1>2 DEF AskGate
<1>3. ASSUME NEW c \in Calls, PassGate(c) PROVE OldCancelled'
  BY <1>3 DEF PassGate
<1>4. ASSUME NEW c \in Calls, TurnedAway(c) PROVE OldCancelled'
  BY <1>4 DEF TurnedAway, Returns, OpenGate
<1>5. ASSUME NEW c \in Calls, Share(c) PROVE OldCancelled'
  BY <1>5 DEF Share, HandOut, OpenGate
<1>6. ASSUME NEW c \in Calls, Refused(c) PROVE OldCancelled'
  BY <1>6 DEF Refused, Returns, OpenGate, Drops, Aborts
<1>7. ASSUME NEW c \in Calls, Prepare(c) PROVE OldCancelled'
  BY <1>7 DEF Prepare, MayStart
<1>8. ASSUME NEW c \in Calls, StartProcess(c) PROVE OldCancelled'
  BY <1>8 DEF StartProcess
<1>9. ASSUME NEW c \in Calls, StartCancelled(c) PROVE OldCancelled'
  BY <1>9 DEF StartCancelled, Returns, OpenGate, Drops, Aborts
<1>10. ASSUME NEW c \in Calls, StartSettles(c) PROVE OldCancelled'
  BY <1>10 DEF StartSettles
<1>11. ASSUME NEW c \in Calls, Disowned(c) PROVE OldCancelled'
  BY <1>11 DEF Disowned, Returns, OpenGate, Drops, Aborts
<1>12. ASSUME NEW c \in Calls, StartFailed(c) PROVE OldCancelled'
  BY <1>12 DEF StartFailed, Returns, OpenGate, Drops, Aborts, RecordFailure
<1>13. ASSUME NEW c \in Calls, Install(c) PROVE OldCancelled'
  BY <1>13 DEF Install, HandOut, OpenGate
<1>14. ASSUME NEW c \in Calls, CallEnds(c) PROVE OldCancelled'
  BY <1>14 DEF CallEnds
<1>15. ASSUME NEW c \in Calls, Bookkeep(c) PROVE OldCancelled'
  BY <1>15 DEF Bookkeep, Returns, OpenGate, Drops, Aborts, OwnsConnection
<1>16. ASSUME NEW c \in Calls, GiveUp(c) PROVE OldCancelled'
  BY <1>16 DEF GiveUp, RecordFailure, OwnsConnection
<1>17. ASSUME NEW c \in Calls, AbortFailed(c) PROVE OldCancelled'
  BY <1>17 DEF AbortFailed, Returns, OpenGate, Aborts
<1>18. ASSUME NEW c \in Calls, CallDropped(c) PROVE OldCancelled'
  BY <1>18 DEF CallDropped, Returns, OpenGate, Drops, Aborts
<1>19. ASSUME NEW c \in Calls, Retire(c) PROVE OldCancelled'
  BY <1>19 DEF Retire
<1>20. ASSUME NEW c \in Calls, RetireDropped(c) PROVE OldCancelled'
  BY <1>20 DEF RetireDropped, Drops, Aborts
<1>21. ASSUME NEW c \in Calls, Unwrap(c) PROVE OldCancelled'
  BY <1>21 DEF Unwrap
<1>22. ASSUME NEW c \in Calls, Closed(c) PROVE OldCancelled'
  BY <1>22 DEF Closed, Drops, Aborts
<1>23. ASSUME NEW c \in Calls, ProcessDies(c) PROVE OldCancelled'
  BY <1>23 DEF ProcessDies
<1>24. CASE Reload
  BY <1>24 DEF Reload, Supersede
<1>25. CASE Remove
  BY <1>25 DEF Remove, Supersede
<1>26. CASE Add
  BY <1>26 DEF Add
<1>27. CASE Recover
  BY <1>27 DEF Recover
<1>28. CASE StopBegin
  BY <1>28 DEF StopBegin
<1>29. CASE StopTake
  BY <1>29 DEF StopTake
<1>30. CASE StopAborts
  BY <1>30 DEF StopAborts, Aborts
<1>31. CASE StopEnds
  BY <1>31 DEF StopEnds, Drops, Aborts
<1>32. CASE UNCHANGED vars
  BY <1>32 DEF vars
<1> QED
  BY <1>1, <1>2, <1>3, <1>4, <1>5, <1>6, <1>7, <1>8, <1>9, <1>10, <1>11, <1>12, <1>13, <1>14,
     <1>15, <1>16, <1>17, <1>18, <1>19, <1>20, <1>21, <1>22, <1>23, <1>24, <1>25, <1>26,
     <1>27, <1>28, <1>29, <1>30, <1>31, <1>32
     DEF Next, CallStep, RetireStep, StopStep

(* What is left after the pass of shutdown().                              *)
LEMMA ShutdownNext ==
    ASSUME Core, Refs, OldCancelled, ShutdownReachesAll, Refs', [Next]_vars
    PROVE  ShutdownReachesAll'
<1> USE NoneAssumption
    DEF Core, TypeOK, Refs, RefsServed, ProcStages, Referenced, OneOwner, Owned, Alone,
        OldCancelled, ShutdownReachesAll, AliveHeld, Held, DoorInTime, stopping, Starting,
        Served, Early, Moves, CallStates, Alive, entryVars, healthVars, callVars, ownVars
<1>1. ASSUME NEW c \in Calls, Resolve(c) PROVE ShutdownReachesAll'
  BY <1>1 DEF Resolve
<1>2. ASSUME NEW c \in Calls, AskGate(c) PROVE ShutdownReachesAll'
  BY <1>2 DEF AskGate
<1>3. ASSUME NEW c \in Calls, PassGate(c) PROVE ShutdownReachesAll'
  BY <1>3 DEF PassGate
<1>4. ASSUME NEW c \in Calls, TurnedAway(c) PROVE ShutdownReachesAll'
  BY <1>4 DEF TurnedAway, Returns, OpenGate
<1>5. ASSUME NEW c \in Calls, Share(c) PROVE ShutdownReachesAll'
  BY <1>5 DEF Share, HandOut, OpenGate
<1>6. ASSUME NEW c \in Calls, Refused(c) PROVE ShutdownReachesAll'
  BY <1>6 DEF Refused, Returns, OpenGate, Drops, Aborts
<1>7. ASSUME NEW c \in Calls, Prepare(c) PROVE ShutdownReachesAll'
  BY <1>7 DEF Prepare, MayStart
<1>8. ASSUME NEW c \in Calls, StartProcess(c) PROVE ShutdownReachesAll'
  <2>1. gen[c] \in Generations /\ gen[c] <= generation
    BY <1>8
  <2>2. stop' \notin {"aborted", "done"}
    BY <1>8, <2>1 DEF StartProcess, Generations
  <2> QED
    BY <2>2
<1>9. ASSUME NEW c \in Calls, StartCancelled(c) PROVE ShutdownReachesAll'
  BY <1>9 DEF StartCancelled, Returns, OpenGate, Drops, Aborts
<1>10. ASSUME NEW c \in Calls, StartSettles(c) PROVE ShutdownReachesAll'
  <2>1. CASE Moves(c, "spawned") /\ UNCHANGED <<proc, faults>>
    BY <1>10, <2>1 DEF StartSettles
  <2>2. CASE Moves(c, "unstarted") /\ proc' = [proc EXCEPT ![c] = "dead"] /\ faults' = faults \cup {c}
    BY <1>10, <2>2 DEF StartSettles
  <2> QED
    BY <1>10, <2>1, <2>2 DEF StartSettles
<1>11. ASSUME NEW c \in Calls, Disowned(c) PROVE ShutdownReachesAll'
  BY <1>11 DEF Disowned, Returns, OpenGate, Drops, Aborts
<1>12. ASSUME NEW c \in Calls, StartFailed(c) PROVE ShutdownReachesAll'
  BY <1>12 DEF StartFailed, Returns, OpenGate, Drops, Aborts, RecordFailure
<1>13. ASSUME NEW c \in Calls, Install(c) PROVE ShutdownReachesAll'
  BY <1>13 DEF Install, HandOut, OpenGate
<1>14. ASSUME NEW c \in Calls, CallEnds(c) PROVE ShutdownReachesAll'
  BY <1>14 DEF CallEnds
<1>15. ASSUME NEW c \in Calls, Bookkeep(c) PROVE ShutdownReachesAll'
  BY <1>15 DEF Bookkeep, Returns, OpenGate, Drops, Aborts, OwnsConnection
<1>16. ASSUME NEW c \in Calls, GiveUp(c) PROVE ShutdownReachesAll'
  BY <1>16 DEF GiveUp, RecordFailure, OwnsConnection
<1>17. ASSUME NEW c \in Calls, AbortFailed(c) PROVE ShutdownReachesAll'
  BY <1>17 DEF AbortFailed, Returns, OpenGate, Aborts
<1>18. ASSUME NEW c \in Calls, CallDropped(c) PROVE ShutdownReachesAll'
  BY <1>18 DEF CallDropped, Returns, OpenGate, Drops, Aborts
<1>19. ASSUME NEW c \in Calls, Retire(c) PROVE ShutdownReachesAll'
  BY <1>19 DEF Retire
<1>20. ASSUME NEW c \in Calls, RetireDropped(c) PROVE ShutdownReachesAll'
  BY <1>20 DEF RetireDropped, Drops, Aborts
<1>21. ASSUME NEW c \in Calls, Unwrap(c) PROVE ShutdownReachesAll'
  BY <1>21 DEF Unwrap
<1>22. ASSUME NEW c \in Calls, Closed(c) PROVE ShutdownReachesAll'
  BY <1>22 DEF Closed, Drops, Aborts
<1>23. ASSUME NEW c \in Calls, ProcessDies(c) PROVE ShutdownReachesAll'
  BY <1>23 DEF ProcessDies
<1>24. CASE Reload
  BY <1>24 DEF Reload, Supersede
<1>25. CASE Remove
  BY <1>25 DEF Remove, Supersede
<1>26. CASE Add
  BY <1>26 DEF Add
<1>27. CASE Recover
  BY <1>27 DEF Recover
<1>28. CASE StopBegin
  BY <1>28 DEF StopBegin
<1>29. CASE StopTake
  BY <1>29 DEF StopTake
<1>30. CASE StopAborts
  <2>1. \A x \in Calls : gen[x] \in cancelled
    BY <1>30 DEF StopAborts, Generations
  <2>2. ASSUME NEW x \in Calls, proc'[x] = "alive", x \notin closing
        PROVE  call[x] \in Starting
    <3>1. proc[x] = "alive" /\ x \notin listed
      BY <1>30, <2>2 DEF StopAborts, Aborts
    <3> QED
      BY <3>1, <2>2
  <2> QED
    BY <1>30, <2>1, <2>2 DEF StopAborts
<1>31. CASE StopEnds
  BY <1>31 DEF StopEnds, Drops, Aborts
<1>32. CASE UNCHANGED vars
  BY <1>32 DEF vars
<1> QED
  BY <1>1, <1>2, <1>3, <1>4, <1>5, <1>6, <1>7, <1>8, <1>9, <1>10, <1>11, <1>12, <1>13, <1>14,
     <1>15, <1>16, <1>17, <1>18, <1>19, <1>20, <1>21, <1>22, <1>23, <1>24, <1>25, <1>26,
     <1>27, <1>28, <1>29, <1>30, <1>31, <1>32
     DEF Next, CallStep, RetireStep, StopStep

SlotsOnlyFreed ==
    \/ \A i \in Generations : InSlot(i)' \subseteq InSlot(i)
    \/ \E c \in Calls : Prepare(c)

(* Only Prepare takes a slot; slots come back and nobody else gets one.    *)
LEMMA SlotsFreed ==
    ASSUME Core, Refs, [Next]_vars
    PROVE  SlotsOnlyFreed
<1> USE NoneAssumption
    DEF Core, TypeOK, Refs, RefsServed, ProcStages, Referenced, InSlot, Held, SlotsOnlyFreed,
        Starting, Served, Early, Moves, CallStates, Alive, entryVars, healthVars, callVars,
        ownVars
<1>1. ASSUME NEW c \in Calls, Resolve(c) PROVE SlotsOnlyFreed
  BY <1>1 DEF Resolve
<1>2. ASSUME NEW c \in Calls, AskGate(c) PROVE SlotsOnlyFreed
  BY <1>2 DEF AskGate
<1>3. ASSUME NEW c \in Calls, PassGate(c) PROVE SlotsOnlyFreed
  BY <1>3 DEF PassGate
<1>4. ASSUME NEW c \in Calls, TurnedAway(c) PROVE SlotsOnlyFreed
  BY <1>4 DEF TurnedAway, Returns, OpenGate
<1>5. ASSUME NEW c \in Calls, Share(c) PROVE SlotsOnlyFreed
  BY <1>5 DEF Share, HandOut, OpenGate
<1>6. ASSUME NEW c \in Calls, Refused(c) PROVE SlotsOnlyFreed
  BY <1>6 DEF Refused, Returns, OpenGate, Drops, Aborts
<1>7. ASSUME NEW c \in Calls, Prepare(c) PROVE SlotsOnlyFreed
  BY <1>7
<1>8. ASSUME NEW c \in Calls, StartProcess(c) PROVE SlotsOnlyFreed
  BY <1>8 DEF StartProcess
<1>9. ASSUME NEW c \in Calls, StartCancelled(c) PROVE SlotsOnlyFreed
  BY <1>9 DEF StartCancelled, Returns, OpenGate, Drops, Aborts
<1>10. ASSUME NEW c \in Calls, StartSettles(c) PROVE SlotsOnlyFreed
  <2>1. CASE Moves(c, "spawned") /\ UNCHANGED <<proc, faults>>
    BY <1>10, <2>1 DEF StartSettles
  <2>2. CASE Moves(c, "unstarted") /\ proc' = [proc EXCEPT ![c] = "dead"] /\ faults' = faults \cup {c}
    BY <1>10, <2>2 DEF StartSettles
  <2> QED
    BY <1>10, <2>1, <2>2 DEF StartSettles
<1>11. ASSUME NEW c \in Calls, Disowned(c) PROVE SlotsOnlyFreed
  BY <1>11 DEF Disowned, Returns, OpenGate, Drops, Aborts
<1>12. ASSUME NEW c \in Calls, StartFailed(c) PROVE SlotsOnlyFreed
  BY <1>12 DEF StartFailed, Returns, OpenGate, Drops, Aborts, RecordFailure
<1>13. ASSUME NEW c \in Calls, Install(c) PROVE SlotsOnlyFreed
  BY <1>13 DEF Install, HandOut, OpenGate
<1>14. ASSUME NEW c \in Calls, CallEnds(c) PROVE SlotsOnlyFreed
  BY <1>14 DEF CallEnds
<1>15. ASSUME NEW c \in Calls, Bookkeep(c) PROVE SlotsOnlyFreed
  BY <1>15 DEF Bookkeep, Returns, OpenGate, Drops, Aborts, OwnsConnection
<1>16. ASSUME NEW c \in Calls, GiveUp(c) PROVE SlotsOnlyFreed
  BY <1>16 DEF GiveUp, RecordFailure, OwnsConnection
<1>17. ASSUME NEW c \in Calls, AbortFailed(c) PROVE SlotsOnlyFreed
  BY <1>17 DEF AbortFailed, Returns, OpenGate, Aborts
<1>18. ASSUME NEW c \in Calls, CallDropped(c) PROVE SlotsOnlyFreed
  BY <1>18 DEF CallDropped, Returns, OpenGate, Drops, Aborts
<1>19. ASSUME NEW c \in Calls, Retire(c) PROVE SlotsOnlyFreed
  BY <1>19 DEF Retire
<1>20. ASSUME NEW c \in Calls, RetireDropped(c) PROVE SlotsOnlyFreed
  BY <1>20 DEF RetireDropped, Drops, Aborts
<1>21. ASSUME NEW c \in Calls, Unwrap(c) PROVE SlotsOnlyFreed
  BY <1>21 DEF Unwrap
<1>22. ASSUME NEW c \in Calls, Closed(c) PROVE SlotsOnlyFreed
  BY <1>22 DEF Closed, Drops, Aborts
<1>23. ASSUME NEW c \in Calls, ProcessDies(c) PROVE SlotsOnlyFreed
  BY <1>23 DEF ProcessDies
<1>24. CASE Reload
  BY <1>24 DEF Reload, Supersede
<1>25. CASE Remove
  BY <1>25 DEF Remove, Supersede
<1>26. CASE Add
  BY <1>26 DEF Add
<1>27. CASE Recover
  BY <1>27 DEF Recover
<1>28. CASE StopBegin
  BY <1>28 DEF StopBegin
<1>29. CASE StopTake
  BY <1>29 DEF StopTake
<1>30. CASE StopAborts
  BY <1>30 DEF StopAborts, Aborts
<1>31. CASE StopEnds
  BY <1>31 DEF StopEnds, Drops, Aborts
<1>32. CASE UNCHANGED vars
  BY <1>32 DEF vars
<1> QED
  BY <1>1, <1>2, <1>3, <1>4, <1>5, <1>6, <1>7, <1>8, <1>9, <1>10, <1>11, <1>12, <1>13, <1>14,
     <1>15, <1>16, <1>17, <1>18, <1>19, <1>20, <1>21, <1>22, <1>23, <1>24, <1>25, <1>26,
     <1>27, <1>28, <1>29, <1>30, <1>31, <1>32
     DEF Next, CallStep, RetireStep, StopStep

(* A process takes a slot only when one of its entry is free.              *)
LEMMA SlotsNext == ASSUME Core, Refs, SlotsBounded, [Next]_vars PROVE SlotsBounded'
<1> SUFFICES ASSUME NEW i \in Generations PROVE (Cardinality(InSlot(i)) <= KitGenerations)'
  BY DEF SlotsBounded
<1>1. IsFiniteSet(InSlot(i)) /\ Cardinality(InSlot(i)) \in Nat /\ Cardinality(InSlot(i)) <= KitGenerations
  BY CallsAssumption, FS_Subset, FS_CardinalityType DEF InSlot, SlotsBounded
<1>2. CASE InSlot(i)' \subseteq InSlot(i)
  BY <1>1, <1>2, FS_Subset, FS_CardinalityType, LimitsAssumption
<1>3. ASSUME NEW c \in Calls, Prepare(c) PROVE (Cardinality(InSlot(i)) <= KitGenerations)'
  <2>1. InSlot(i)' \subseteq InSlot(i) \cup {c}
    BY <1>3, NoneAssumption
       DEF Core, TypeOK, Prepare, InSlot, Held, Starting, Moves, Alive, CallStates, ownVars
  <2>2. CASE i = install
    <3>1. InSlot(i) = SlotsInUse
      BY <2>2 DEF InSlot, SlotsInUse
    <3>2. Cardinality(InSlot(i)) < KitGenerations
      BY <1>3, <3>1 DEF Prepare, MayStart
    <3>3. IsFiniteSet(InSlot(i) \cup {c}) /\ Cardinality(InSlot(i) \cup {c}) <= Cardinality(InSlot(i)) + 1
      BY <1>1, FS_AddElement
    <3>4. Cardinality(InSlot(i)') <= Cardinality(InSlot(i) \cup {c}) /\ Cardinality(InSlot(i)') \in Nat
      BY <3>3, <2>1, FS_Subset, FS_CardinalityType
    <3>5. Cardinality(InSlot(i) \cup {c}) \in Nat
      BY <3>3, FS_CardinalityType
    <3> QED
      BY <1>1, <3>2, <3>3, <3>4, <3>5, LimitsAssumption
  <2>3. CASE i # install
    <3>1. c \notin InSlot(i)'
      BY <1>3, <2>3 DEF Core, TypeOK, Prepare, InSlot
    <3> QED
      BY <1>2, <2>1, <3>1
  <2> QED
    BY <2>2, <2>3
<1> QED
  BY <1>2, <1>3, SlotsFreed DEF SlotsOnlyFreed

(* Each failure counted is one more process that failed.                   *)
LEMMA CountedGrows ==
    ASSUME Core, Refs, FaultsKnown, [Next]_vars
    PROVE  CountsRight
<1> USE NoneAssumption
    DEF Core, TypeOK, Refs, RefsServed, ProcStages, Referenced, FaultsKnown, ConnectionCurrent,
        HealthKept, Current, Counted, CountsRight, Starting, Served, Early, Moves, CallStates,
        Alive, entryVars, healthVars, callVars, ownVars
<1>1. ASSUME NEW c \in Calls, Resolve(c) PROVE CountsRight
  BY <1>1 DEF Resolve
<1>2. ASSUME NEW c \in Calls, AskGate(c) PROVE CountsRight
  BY <1>2 DEF AskGate
<1>3. ASSUME NEW c \in Calls, PassGate(c) PROVE CountsRight
  BY <1>3 DEF PassGate
<1>4. ASSUME NEW c \in Calls, TurnedAway(c) PROVE CountsRight
  BY <1>4 DEF TurnedAway, Returns, OpenGate
<1>5. ASSUME NEW c \in Calls, Share(c) PROVE CountsRight
  BY <1>5 DEF Share, HandOut, OpenGate
<1>6. ASSUME NEW c \in Calls, Refused(c) PROVE CountsRight
  BY <1>6 DEF Refused, Returns, OpenGate, Drops, Aborts
<1>7. ASSUME NEW c \in Calls, Prepare(c) PROVE CountsRight
  BY <1>7 DEF Prepare, MayStart
<1>8. ASSUME NEW c \in Calls, StartProcess(c) PROVE CountsRight
  BY <1>8 DEF StartProcess
<1>9. ASSUME NEW c \in Calls, StartCancelled(c) PROVE CountsRight
  BY <1>9 DEF StartCancelled, Returns, OpenGate, Drops, Aborts
<1>10. ASSUME NEW c \in Calls, StartSettles(c) PROVE CountsRight
  <2>1. CASE Moves(c, "spawned") /\ UNCHANGED <<proc, faults>>
    BY <1>10, <2>1 DEF StartSettles
  <2>2. CASE Moves(c, "unstarted") /\ proc' = [proc EXCEPT ![c] = "dead"] /\ faults' = faults \cup {c}
    BY <1>10, <2>2 DEF StartSettles
  <2> QED
    BY <1>10, <2>1, <2>2 DEF StartSettles
<1>11. ASSUME NEW c \in Calls, Disowned(c) PROVE CountsRight
  BY <1>11 DEF Disowned, Returns, OpenGate, Drops, Aborts
<1>12. ASSUME NEW c \in Calls, StartFailed(c) PROVE CountsRight
  BY <1>12 DEF StartFailed, Returns, OpenGate, Drops, Aborts, RecordFailure
<1>13. ASSUME NEW c \in Calls, Install(c) PROVE CountsRight
  BY <1>13 DEF Install, HandOut, OpenGate
<1>14. ASSUME NEW c \in Calls, CallEnds(c) PROVE CountsRight
  <2>1. PICK r \in {"ok", "other", "broken"} :
             /\ result' = [result EXCEPT ![c] = r]
             /\ faults' = IF r = "broken" THEN faults \cup {using[c]} ELSE faults
    BY <1>14 DEF CallEnds
  <2> QED
    BY <1>14, <2>1 DEF CallEnds
<1>15. ASSUME NEW c \in Calls, Bookkeep(c) PROVE CountsRight
  BY <1>15 DEF Bookkeep, Returns, OpenGate, Drops, Aborts, OwnsConnection
<1>16. ASSUME NEW c \in Calls, GiveUp(c) PROVE CountsRight
  BY <1>16 DEF GiveUp, RecordFailure, OwnsConnection
<1>17. ASSUME NEW c \in Calls, AbortFailed(c) PROVE CountsRight
  BY <1>17 DEF AbortFailed, Returns, OpenGate, Aborts
<1>18. ASSUME NEW c \in Calls, CallDropped(c) PROVE CountsRight
  BY <1>18 DEF CallDropped, Returns, OpenGate, Drops, Aborts
<1>19. ASSUME NEW c \in Calls, Retire(c) PROVE CountsRight
  BY <1>19 DEF Retire
<1>20. ASSUME NEW c \in Calls, RetireDropped(c) PROVE CountsRight
  BY <1>20 DEF RetireDropped, Drops, Aborts
<1>21. ASSUME NEW c \in Calls, Unwrap(c) PROVE CountsRight
  BY <1>21 DEF Unwrap
<1>22. ASSUME NEW c \in Calls, Closed(c) PROVE CountsRight
  BY <1>22 DEF Closed, Drops, Aborts
<1>23. ASSUME NEW c \in Calls, ProcessDies(c) PROVE CountsRight
  BY <1>23 DEF ProcessDies
<1>24. CASE Reload
  BY <1>24 DEF Reload, Supersede
<1>25. CASE Remove
  BY <1>25 DEF Remove, Supersede
<1>26. CASE Add
  BY <1>26 DEF Add
<1>27. CASE Recover
  BY <1>27 DEF Recover
<1>28. CASE StopBegin
  BY <1>28 DEF StopBegin
<1>29. CASE StopTake
  BY <1>29 DEF StopTake
<1>30. CASE StopAborts
  BY <1>30 DEF StopAborts, Aborts
<1>31. CASE StopEnds
  BY <1>31 DEF StopEnds, Drops, Aborts
<1>32. CASE UNCHANGED vars
  BY <1>32 DEF vars
<1> QED
  BY <1>1, <1>2, <1>3, <1>4, <1>5, <1>6, <1>7, <1>8, <1>9, <1>10, <1>11, <1>12, <1>13, <1>14,
     <1>15, <1>16, <1>17, <1>18, <1>19, <1>20, <1>21, <1>22, <1>23, <1>24, <1>25, <1>26,
     <1>27, <1>28, <1>29, <1>30, <1>31, <1>32
     DEF Next, CallStep, RetireStep, StopStep

(* A failure is counted with the process that failed, once.                *)
LEMMA FailuresNext == ASSUME Core, Refs, FaultsKnown, FailuresCounted, [Next]_vars PROVE FailuresCounted'
<1>1. IsFiniteSet(Counted) /\ IsFiniteSet(Counted') /\ Cardinality(Counted) \in Nat /\ Cardinality(Counted') \in Nat
  <2>1. IsFiniteSet(faults) /\ IsFiniteSet(faults')
    <3>1. TypeOK'
      BY CoreNext DEF Core
    <3> QED
      BY <3>1, CallsAssumption, FS_Subset DEF Core, TypeOK
  <2> QED
    BY <2>1, FS_Subset, FS_CardinalityType DEF Counted
<1>2. failures \in Nat
  BY LimitsAssumption DEF Core, TypeOK
<1>3. CASE failures' = 0
  BY <1>1, <1>3 DEF FailuresCounted
<1>4. CASE failures' = failures /\ Counted \subseteq Counted'
  BY <1>1, <1>2, <1>4, FS_Subset DEF FailuresCounted
<1>5. ASSUME NEW x \in Counted', x \notin Counted, failures' = failures + 1, Counted \subseteq Counted'
      PROVE  FailuresCounted'
  <2>1. Cardinality(Counted \cup {x}) = Cardinality(Counted) + 1
    BY <1>1, <1>5, FS_AddElement
  <2>2. Counted \cup {x} \subseteq Counted'
    BY <1>5
  <2>3. Cardinality(Counted \cup {x}) <= Cardinality(Counted')
    BY <1>1, <2>2, FS_Subset
  <2> QED
    BY <1>1, <1>2, <1>5, <2>1, <2>3 DEF FailuresCounted
<1> QED
  BY CountedGrows, <1>3, <1>4, <1>5 DEF CountsRight

(* A Kit just registered, with no call and no process.                     *)
LEMMA InvInit == Init => Inv
<1> SUFFICES ASSUME Init PROVE Inv
  OBVIOUS
<1>1. Core
  <2>1. 0 \in Generations /\ failures \in 0..MaxFailures /\ install \in 0..generation
    BY LimitsAssumption DEF Init, Generations
  <2>2. TypeOK
    BY <2>1 DEF Init, TypeOK, CallStates
  <2>3. GateHeld /\ DoorInTime /\ ConnectionCurrent /\ StartsAlone /\ HealthKept
    BY LimitsAssumption
       DEF Init, GateHeld, DoorInTime, ConnectionCurrent, StartsAlone, HealthKept, Starting
  <2> QED
    BY <2>2, <2>3 DEF Core
<1>2. Refs
  BY NoneAssumption
     DEF Init, Refs, RefsServed, Referenced, ProcStages, AliveHeld, OneOwner, Owned, Early
<1>3. CallsMeetTheirKit /\ FaultsKnown /\ OldCancelled /\ ShutdownReachesAll
  BY LimitsAssumption
     DEF Init, CallsMeetTheirKit, FaultsKnown, OldCancelled, ShutdownReachesAll, Generations
<1>4. FailuresCounted
  <2>1. Counted = {}
    BY DEF Init, Counted
  <2> QED
    BY <2>1, FS_EmptySet DEF Init, FailuresCounted
<1>5. SlotsBounded
  <2>1. \A i \in Generations : InSlot(i) = {}
    BY DEF Init, InSlot
  <2> QED
    BY <2>1, FS_EmptySet, LimitsAssumption DEF SlotsBounded
<1> QED
  BY <1>1, <1>2, <1>3, <1>4, <1>5 DEF Inv

(* Every step of calls, processes, reloads and the shutdown.               *)
LEMMA InvNext == Inv /\ [Next]_vars => Inv'
<1> SUFFICES ASSUME Inv, [Next]_vars PROVE Inv'
  OBVIOUS
<1>1. Core' /\ Refs'
  BY CoreNext, RefsServedNext, AliveHeldNext, OneOwnerNext DEF Inv, Refs
<1>2. CallsMeetTheirKit' /\ FaultsKnown' /\ FailuresCounted' /\ SlotsBounded' /\ OldCancelled'
  BY MeetNext, FaultsKnownNext, FailuresNext, SlotsNext, OldCancelledNext DEF Inv
<1>3. ShutdownReachesAll'
  BY <1>1, ShutdownNext DEF Inv
<1> QED
  BY <1>1, <1>2, <1>3 DEF Inv

(* Hence the invariant holds in every behaviour.                           *)
LEMMA Invariance == Spec => []Inv
BY InvInit, InvNext, PTL DEF Spec

(* The type invariant of a Kit's entry, its calls and its processes.       *)
THEOREM TypeCorrect == Spec => []TypeOK
<1>1. Inv => TypeOK
  BY DEF Inv, Core
<1> QED
  BY <1>1, Invariance, PTL

(* However reloads, removals and reinstallations fall between the awaits   *)
(* of a call, it is sent to a process of the manifest it was resolved for. *)
THEOREM CallsMeet == Spec => []CallsMeetTheirKit
<1>1. Inv => CallsMeetTheirKit
  BY DEF Inv
<1> QED
  BY <1>1, Invariance, PTL

(* No entry has more processes alive than it has slots: a process is alive *)
(* only while somebody holds its connection, and whoever does has a slot.  *)
THEOREM SlotsHold == Spec => []ProcessesBounded
<1>1. Inv => ProcessesBounded
  <2> SUFFICES ASSUME Inv, NEW i \in Generations
               PROVE  Cardinality({x \in Calls : proc[x] = "alive" /\ slot[x] = i}) <= KitGenerations
    BY DEF ProcessesBounded
  <2> DEFINE Live == {x \in Calls : proc[x] = "alive" /\ slot[x] = i}
  <2>1. Live \subseteq InSlot(i)
    BY DEF Inv, Refs, AliveHeld, InSlot
  <2>2. IsFiniteSet(InSlot(i)) /\ Cardinality(InSlot(i)) <= KitGenerations
    BY CallsAssumption, FS_Subset DEF InSlot, Inv, SlotsBounded
  <2>3. Cardinality(Live) <= Cardinality(InSlot(i)) /\ Cardinality(Live) \in Nat
    BY <2>1, <2>2, FS_Subset, FS_CardinalityType
  <2>4. Cardinality(InSlot(i)) \in Nat
    BY <2>2, FS_CardinalityType
  <2> QED
    BY <2>2, <2>3, <2>4, LimitsAssumption
<1> QED
  BY <1>1, Invariance, PTL

(* failure_count counts processes of the present generation that failed,   *)
(* each at most once, however many calls failed on it.                     *)
THEOREM FailuresTrue == Spec => []FailuresCountProcesses
<1>1. Inv => FailuresCountProcesses
  <2> SUFFICES ASSUME Inv PROVE FailuresCountProcesses
    OBVIOUS
  <2> DEFINE Broken == {x \in faults : gen[x] = generation}
  <2>1. IsFiniteSet(Broken)
    BY CallsAssumption, FS_Subset DEF Inv, Core, TypeOK
  <2>2. Counted \subseteq Broken
    BY DEF Counted
  <2>3. Cardinality(Counted) <= Cardinality(Broken) /\ Cardinality(Counted) \in Nat /\ Cardinality(Broken) \in Nat
    BY <2>1, <2>2, FS_Subset, FS_CardinalityType
  <2>4. failures \in Nat /\ failures <= Cardinality(Counted)
    BY LimitsAssumption DEF Inv, Core, TypeOK, FailuresCounted
  <2> QED
    BY <2>3, <2>4 DEF FailuresCountProcesses
<1> QED
  BY <1>1, Invariance, PTL

(* After the pass of shutdown() no process serves a call: a process its    *)
(* list did not name is one being started, by a call of a generation that  *)
(* was told to give up.                                                    *)
THEOREM ShutdownComplete == Spec => []ShutdownReachesAll
<1>1. Inv => ShutdownReachesAll
  BY DEF Inv
<1> QED
  BY <1>1, Invariance, PTL

LeftForCause ==
    \/ proc[connection] = "dead"
    \/ connection \in faults
    \/ generation \in cancelled'

(* Who takes the connection from the entry, and why.                       *)
LEMMA ConnectionLeft ==
    ASSUME Inv, connection # None, connection' # connection, [Next]_vars
    PROVE  LeftForCause
<1> USE DEF Inv, Core, TypeOK, ConnectionCurrent, StartsAlone, Current, Refs, RefsServed,
        Referenced,
            FaultsKnown, Alive, Starting, LeftForCause
<1>1. ASSUME NEW c \in Calls, Resolve(c) PROVE LeftForCause
  BY <1>1 DEF Resolve
<1>2. ASSUME NEW c \in Calls, AskGate(c) PROVE LeftForCause
  BY <1>2 DEF AskGate
<1>3. ASSUME NEW c \in Calls, PassGate(c) PROVE LeftForCause
  BY <1>3 DEF PassGate
<1>4. ASSUME NEW c \in Calls, TurnedAway(c) PROVE LeftForCause
  BY <1>4 DEF TurnedAway, Returns, OpenGate
<1>5. ASSUME NEW c \in Calls, Share(c) PROVE LeftForCause
  BY <1>5 DEF Share, HandOut, OpenGate
<1>6. ASSUME NEW c \in Calls, Refused(c) PROVE LeftForCause
  BY <1>6 DEF Refused, Returns, OpenGate, Drops, Aborts
<1>7. ASSUME NEW c \in Calls, Prepare(c) PROVE LeftForCause
  BY <1>7 DEF Prepare, MayStart
<1>8. ASSUME NEW c \in Calls, StartProcess(c) PROVE LeftForCause
  BY <1>8 DEF StartProcess
<1>9. ASSUME NEW c \in Calls, StartCancelled(c) PROVE LeftForCause
  BY <1>9 DEF StartCancelled, Returns, OpenGate, Drops, Aborts
<1>10. ASSUME NEW c \in Calls, StartSettles(c) PROVE LeftForCause
  BY <1>10 DEF StartSettles
<1>11. ASSUME NEW c \in Calls, Disowned(c) PROVE LeftForCause
  BY <1>11 DEF Disowned, Returns, OpenGate, Drops, Aborts
<1>12. ASSUME NEW c \in Calls, StartFailed(c) PROVE LeftForCause
  BY <1>12 DEF StartFailed, Returns, OpenGate, Drops, Aborts, RecordFailure
<1>13. ASSUME NEW c \in Calls, Install(c) PROVE LeftForCause
  BY <1>13 DEF Install, HandOut, OpenGate
<1>14. ASSUME NEW c \in Calls, CallEnds(c) PROVE LeftForCause
  BY <1>14 DEF CallEnds
<1>15. ASSUME NEW c \in Calls, Bookkeep(c) PROVE LeftForCause
  BY <1>15 DEF Bookkeep, Returns, OpenGate, Drops, Aborts, OwnsConnection
<1>16. ASSUME NEW c \in Calls, GiveUp(c) PROVE LeftForCause
  BY <1>16 DEF GiveUp, RecordFailure, OwnsConnection
<1>17. ASSUME NEW c \in Calls, AbortFailed(c) PROVE LeftForCause
  BY <1>17 DEF AbortFailed, Returns, OpenGate, Aborts
<1>18. ASSUME NEW c \in Calls, CallDropped(c) PROVE LeftForCause
  BY <1>18 DEF CallDropped, Returns, OpenGate, Drops, Aborts
<1>19. ASSUME NEW c \in Calls, Retire(c) PROVE LeftForCause
  BY <1>19 DEF Retire
<1>20. ASSUME NEW c \in Calls, RetireDropped(c) PROVE LeftForCause
  BY <1>20 DEF RetireDropped, Drops, Aborts
<1>21. ASSUME NEW c \in Calls, Unwrap(c) PROVE LeftForCause
  BY <1>21 DEF Unwrap
<1>22. ASSUME NEW c \in Calls, Closed(c) PROVE LeftForCause
  BY <1>22 DEF Closed, Drops, Aborts
<1>23. ASSUME NEW c \in Calls, ProcessDies(c) PROVE LeftForCause
  BY <1>23 DEF ProcessDies
<1>24. CASE Reload
  BY <1>24 DEF Reload, Supersede
<1>25. CASE Remove
  BY <1>25 DEF Remove, Supersede
<1>26. CASE Add
  BY <1>26 DEF Add
<1>27. CASE Recover
  BY <1>27 DEF Recover
<1>28. CASE StopBegin
  BY <1>28 DEF StopBegin
<1>29. CASE StopTake
  BY <1>29 DEF StopTake
<1>30. CASE StopAborts
  BY <1>30 DEF StopAborts, Aborts
<1>31. CASE StopEnds
  BY <1>31 DEF StopEnds, Drops, Aborts
<1>32. CASE UNCHANGED vars
  BY <1>32 DEF vars
<1> QED
  BY <1>1, <1>2, <1>3, <1>4, <1>5, <1>6, <1>7, <1>8, <1>9, <1>10, <1>11, <1>12, <1>13, <1>14,
     <1>15, <1>16, <1>17, <1>18, <1>19, <1>20, <1>21, <1>22, <1>23, <1>24, <1>25, <1>26,
     <1>27, <1>28, <1>29, <1>30, <1>31, <1>32
     DEF Next, CallStep, RetireStep, StopStep

(* A live process that failed no call of its own is given up only for a    *)
(* reload, a removal or the shutdown.                                      *)
THEOREM GivenUp == Spec => GivenUpForCause
<1>1. Inv /\ [Next]_vars =>
        [connection # None /\ connection' # connection =>
            \/ proc[connection] = "dead"
            \/ connection \in faults
            \/ generation \in cancelled']_vars
  BY ConnectionLeft DEF LeftForCause
<1> QED
  BY <1>1, Invariance, PTL DEF Spec, GivenUpForCause
================================================================================
