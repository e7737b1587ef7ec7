----------------------------- MODULE PiDaemonProof -----------------------------
(***************************************************************************)
(* Theorems about PiDaemon, for any number of callers, of replacements of  *)
(* the PiDaemon object and of processes it spawns; and about TaskRun, for  *)
(* any number of messages and any budget.                                  *)
(***************************************************************************)
EXTENDS PiDaemon, TaskRun, FiniteSetTheorems, WellFoundedInduction, TLAPS

Starts == {"probe", "replace", "ready"}

(* Whoever is between the awaits of a start or a stop has the object's     *)
(* `state` ...                                                             *)
LockHeld == \A a \in Actors : pc[a] \in Starts \cup {"request", "wait"} => lock[obj[a]] = a
(* ... a start has dropped the dead client of a daemon object ...          *)
StartClean ==
    \A a \in Actors : pc[a] \in Starts => client[obj[a]] = None /\ mode[obj[a]] = "daemon"
(* ... and a stop has taken a child only while it waits for it.            *)
TakenWhileWaiting == \A s \in Stoppers : took[s] # None => pc[s] = "wait"

Inv == PiIsOwned /\ LockHeld /\ StartClean /\ TakenWhileWaiting

(* The manager begins with the first object.                               *)
LEMMA FirstObject == 1 \in Objects
<1>1. Cardinality(Objects) \in Nat
  BY ObjectsAssumption, FS_CardinalityType
<1> QED
  BY <1>1, ObjectsAssumption

(* No process, no client, no call.                                         *)
LEMMA InvInit == Init => Inv
<1> SUFFICES ASSUME Init PROVE Inv
  OBVIOUS
<1>1. TypeOK
  BY FirstObject, NamesAssumption DEF Init, TypeOK, Procs, ProcStates, UserStates, StopStates,
     Reasons
<1>2. ClientSpeaks /\ NoStrayPi /\ StdioIsAlone
  BY NamesAssumption DEF Init, ClientSpeaks, NoStrayPi, StdioIsAlone, Procs
<1>3. LockHeld /\ StartClean /\ TakenWhileWaiting
  BY DEF Init, LockHeld, StartClean, TakenWhileWaiting, Starts
<1> QED
  BY <1>1, <1>2, <1>3 DEF Inv, PiIsOwned

(* What neither a start nor a stop holds.                                  *)
LEMMA InvCalls ==
    ASSUME Inv, NEW u \in Users,
           TransportBegin(u) \/ ReadMode(u) \/ EnsureRunning(u) \/ TransportFailed(u) \/ TransportDropped(u)
    PROVE  Inv'
<1> USE FirstObject, NamesAssumption
    DEF Inv, PiIsOwned, TypeOK, ClientSpeaks, NoStrayPi, StdioIsAlone, LockHeld, StartClean,
        TakenWhileWaiting, Starts, Actors, Procs, UserStates, StopStates, Speaks, Goes, Returns,
        stateVars, managerVars, worldVars
<1>1. CASE TransportBegin(u)
  BY <1>1 DEF TransportBegin
<1>2. CASE ReadMode(u)
  BY <1>2 DEF ReadMode
<1>3. CASE EnsureRunning(u)
  BY <1>3 DEF EnsureRunning, Takes
<1>4. CASE TransportFailed(u)
  BY <1>4 DEF TransportFailed
<1>5. CASE TransportDropped(u)
  BY <1>5 DEF TransportDropped
<1> QED
  BY <1>1, <1>2, <1>3, <1>4, <1>5

(* A start, from what it finds to what it leaves, under the lock.          *)
LEMMA InvStart ==
    ASSUME Inv, NEW u \in Users,
           \/ Adopt(u) \/ ProbeOtherVersion(u) \/ SpawnFails(u) \/ ReadyConnects(u)
           \/ ReadyLatches(u) \/ ReadyTimesOut(u)
           \/ \E p \in Children : ProbeFails(u, p) \/ ReplaceSpawns(u, p)
    PROVE  Inv'
<1> USE FirstObject, NamesAssumption
    DEF Inv, PiIsOwned, TypeOK, ClientSpeaks, NoStrayPi, StdioIsAlone, LockHeld, StartClean,
        TakenWhileWaiting, Starts, Actors, Procs, ProcStates, UserStates, StopStates, Speaks,
        Goes, Returns,
        Frees, stateVars, managerVars, worldVars
<1>1. CASE Adopt(u)
  BY <1>1 DEF Adopt
<1>2. CASE ProbeOtherVersion(u)
  BY <1>2 DEF ProbeOtherVersion
<1>3. CASE SpawnFails(u)
  BY <1>3 DEF SpawnFails
<1>4. CASE ReadyConnects(u)
  BY <1>4 DEF ReadyConnects
<1>5. CASE ReadyLatches(u)
  BY <1>5 DEF ReadyLatches, StartFails, Killed
<1>6. CASE ReadyTimesOut(u)
  BY <1>6 DEF ReadyTimesOut, StartFails, Killed
<1>7. ASSUME NEW p \in Children, pc[u] \in Starts, SpawnsFresh(u, p)
      PROVE  Inv'
  BY <1>7 DEF SpawnsFresh
<1> QED
  BY <1>1, <1>2, <1>3, <1>4, <1>5, <1>6, <1>7 DEF ProbeFails, ReplaceSpawns

(* Whoever stops a daemon first takes the object out of use.               *)
LEMMA InvStopBegin ==
    ASSUME Inv, NEW s \in Stoppers, NEW reason \in Reasons, StopBegin(s, reason)
    PROVE  Inv'
BY NamesAssumption
   DEF StopBegin, Inv, PiIsOwned, TypeOK, ClientSpeaks, NoStrayPi, StdioIsAlone, LockHeld,
       StartClean,
       TakenWhileWaiting, Starts, Actors, Procs, UserStates, StopStates, Speaks, Goes,
       stateVars, managerVars, worldVars

(* A stop takes the child, waits for it and ends, or is dropped.           *)
LEMMA InvStop ==
    ASSUME Inv, NEW s \in Stoppers,
           StopperStep(s) \/ ShutdownDropped(s)
    PROVE  Inv'
<1> USE FirstObject, NamesAssumption DEF Inv, PiIsOwned, stateVars, managerVars, worldVars
<1>1. CASE ShutdownLocks(s)
  BY <1>1 DEF ShutdownLocks, Takes, Connected, TypeOK, ClientSpeaks, NoStrayPi, StdioIsAlone,
     LockHeld,
       StartClean, TakenWhileWaiting, Starts, Actors, Procs, ProcStates, UserStates, StopStates,
       Speaks, Goes
<1>2. CASE ShutdownTakesChild(s)
  <2> USE <1>2 DEF ShutdownTakesChild, Goes, Frees
  <2>1. TypeOK'
    BY DEF TypeOK, Actors, Procs, StopStates
  <2>2. ClientSpeaks'
    BY DEF ClientSpeaks, Speaks
  <2>3. NoStrayPi'
    BY DEF NoStrayPi, TypeOK, TakenWhileWaiting, Actors, Procs
  <2>4. StdioIsAlone'
    BY DEF StdioIsAlone, TypeOK
  <2>5. LockHeld'
    BY DEF LockHeld, Starts, TypeOK, Actors
  <2>6. StartClean'
    BY DEF StartClean, Starts, TypeOK, Actors
  <2>7. TakenWhileWaiting'
    BY DEF TakenWhileWaiting, TypeOK, Actors
  <2> QED
    BY <2>1, <2>2, <2>3, <2>4, <2>5, <2>6, <2>7
<1>3. CASE ShutdownEnds(s)
  <2> USE <1>3 DEF ShutdownEnds, Killed, Goes, Frees
  <2>1. TypeOK'
    BY DEF TypeOK, Actors, Procs, StopStates, ProcStates
  <2>2. ClientSpeaks'
    BY DEF ClientSpeaks, Speaks
  <2>3. NoStrayPi'
    BY DEF NoStrayPi, TypeOK, Actors, Procs
  <2>4. StdioIsAlone'
    BY DEF StdioIsAlone
  <2>5. LockHeld'
    BY DEF LockHeld, Starts, TypeOK, Actors
  <2>6. StartClean'
    BY DEF StartClean, Starts, TypeOK, Actors
  <2>7. TakenWhileWaiting'
    BY DEF TakenWhileWaiting, TypeOK, Actors
  <2> QED
    BY <2>1, <2>2, <2>3, <2>4, <2>5, <2>6, <2>7
<1>4. CASE ShutdownDropped(s)
  <2> USE <1>4 DEF ShutdownDropped, Killed, Goes
  <2>1. TypeOK'
    BY DEF TypeOK, Actors, Procs, StopStates, ProcStates
  <2>2. ClientSpeaks'
    BY DEF ClientSpeaks, Speaks
  <2>3. NoStrayPi'
    BY DEF NoStrayPi, TypeOK, Actors, Procs
  <2>4. StdioIsAlone'
    BY DEF StdioIsAlone
  <2>5. LockHeld'
    BY DEF LockHeld, Starts, TypeOK, Actors
  <2>6. StartClean'
    BY DEF StartClean, Starts, TypeOK, Actors
  <2>7. TakenWhileWaiting'
    BY DEF TakenWhileWaiting, TypeOK, Actors
  <2> QED
    BY <2>1, <2>2, <2>3, <2>4, <2>5, <2>6, <2>7
<1>5. CASE Stopped(s)
  <2> USE <1>5 DEF Stopped, Goes
  <2>1. TypeOK'
    BY DEF TypeOK, Actors, StopStates, Reasons
  <2>2. ClientSpeaks' /\ NoStrayPi' /\ StdioIsAlone'
    BY DEF ClientSpeaks, Speaks, NoStrayPi, StdioIsAlone
  <2>3. LockHeld'
    BY DEF LockHeld, Starts, TypeOK, Actors
  <2>4. StartClean'
    BY DEF StartClean, Starts, TypeOK, Actors
  <2>5. TakenWhileWaiting'
    BY DEF TakenWhileWaiting, TypeOK, Actors
  <2> QED
    BY <2>1, <2>2, <2>3, <2>4, <2>5
<1> QED
  BY <1>1, <1>2, <1>3, <1>4, <1>5 DEF StopperStep

(* An object nobody refers to any more kills its child.                    *)
LEMMA InvDropped ==
    ASSUME Inv, NEW d \in Objects, ObjectDropped(d)
    PROVE  Inv'
BY NamesAssumption
   DEF ObjectDropped, Killed, Inv, PiIsOwned, TypeOK, ClientSpeaks, NoStrayPi, StdioIsAlone,
       LockHeld,
       StartClean, TakenWhileWaiting, Starts, Actors, Procs, ProcStates, UserStates, StopStates,
       Speaks,
       managerVars, callVars

(* A process binds the socket or exits.                                    *)
LEMMA InvProcess ==
    ASSUME Inv, NEW p \in Procs, NEW clean \in BOOLEAN, ProcBinds(p) \/ ProcExits(p, clean)
    PROVE  Inv'
<1> USE NamesAssumption
    DEF Inv, PiIsOwned, TypeOK, ClientSpeaks, NoStrayPi, StdioIsAlone, LockHeld, StartClean,
        TakenWhileWaiting, Starts, Actors, Procs, ProcStates, UserStates, StopStates, Speaks,
        stateVars, managerVars, callVars
<1>1. CASE ProcBinds(p)
  BY <1>1 DEF ProcBinds
<1>2. CASE ProcExits(p, clean)
  BY <1>2, ZenonT(60) DEF ProcExits
<1> QED
  BY <1>1, <1>2

(* Every step keeps the invariant.                                         *)
LEMMA InvNext == Inv /\ [Next]_vars => Inv'
<1> SUFFICES ASSUME Inv, [Next]_vars PROVE Inv'
  OBVIOUS
<1>1. CASE UNCHANGED vars
  BY <1>1
     DEF vars, Inv, PiIsOwned, TypeOK, ClientSpeaks, NoStrayPi, StdioIsAlone, LockHeld,
         StartClean,
         TakenWhileWaiting, Speaks, stateVars, managerVars, callVars, worldVars
<1>2. CASE Next
  BY <1>2, InvCalls, InvStart, InvStopBegin, InvStop, InvDropped, InvProcess DEF Next, UserStep
<1> QED
  BY <1>1, <1>2

(* Each pi process Portal spawned has an owner, no client speaks another   *)
(* protocol version, and the fallback to stdio leaves no daemon behind,    *)
(* however starts, stops, replacements and dropped calls interleave.       *)
THEOREM PiOwned == Spec => []PiIsOwned
<1>1. Inv => PiIsOwned
  BY DEF Inv
<1> QED
  BY <1>1, InvInit, InvNext, PTL DEF Spec

-----------------------------------------------------------------------------
(* The fold of pi's lines: what agent_end repeats is read in order, which  *)
(* takes an induction over the messages.                                   *)

(* A set of numbers has a least one.                                       *)
LEMMA LeastNat ==
    ASSUME NEW S \in SUBSET Nat, S # {}
    PROVE  \E n \in S : \A m \in S : n <= m
<1> DEFINE R == {ss \in Nat \X Nat : ss[1] < ss[2]}
<1>1. IsWellFoundedOn(R, Nat)
  BY NatLessThanWellFounded DEF OpToRel
<1>2. PICK n \in S : \A m \in S : ~ <<m, n>> \in R
  BY <1>1, WFMin, Zenon
<1>3. \A m \in S : ~ (m < n)
  BY <1>2
<1> QED
  BY <1>3

(* Induction up to N, with the set of the numbers that have the property. *)
LEMMA InductionUpTo ==
    ASSUME NEW N \in Nat, NEW S, 0 \in S, \A n \in 1..N : n - 1 \in S => n \in S
    PROVE  0..N \subseteq S
<1> SUFFICES ASSUME (0..N) \ S # {} PROVE FALSE
  OBVIOUS
<1>1. PICK n \in (0..N) \ S : \A m \in (0..N) \ S : n <= m
  <2>1. (0..N) \ S \in SUBSET Nat
    OBVIOUS
  <2> QED
    BY <2>1, LeastNat
<1>2. n \in 1..N /\ n - 1 \in 0..N
  BY <1>1
<1>3. n - 1 \in S
  BY <1>1, <1>2
<1> QED
  BY <1>1, <1>2, <1>3

-----------------------------------------------------------------------------
(* A StdioResult, whatever was folded into it.                             *)
Results == [text : Nat, stop : Ends, error : BOOLEAN, tokens : Nat, turns : Nat]

(* What one message adds to it.                                            *)
LEMMA MessageFolded ==
    ASSUME NEW r \in Results, NEW n \in Nat, NEW m \in Messages, NEW c \in BOOLEAN
    PROVE  /\ FoldMessage(r, n, m, c) \in Results
           /\ FoldMessage(r, n, m, c).text = IF m.text THEN n ELSE r.text
           /\ FoldMessage(r, n, m, c).tokens = IF c THEN r.tokens + 1 ELSE r.tokens
           /\ FoldMessage(r, n, m, c).error <=> r.error \/ m.stop = "error"
<1> DEFINE x == FoldMessage(r, n, m, c)
<1>1. m.stop \in Ends
  BY DEF Messages
<1>2. x.text = (IF m.text THEN n ELSE r.text) /\ x.tokens = (IF c THEN r.tokens + 1 ELSE r.tokens)
  BY DEF FoldMessage, Results
<1>3. x.stop \in Ends /\ x.turns = r.turns
  BY <1>1 DEF FoldMessage, Results
<1>4. x.error = (r.error \/ m.stop = "error")
  BY DEF FoldMessage, Results
<1>5. x.text \in Nat /\ x.stop \in Ends /\ x.error \in BOOLEAN /\ x.tokens \in Nat
  BY <1>2, <1>3, <1>4 DEF Results
<1>6. x = [r EXCEPT !.text = x.text, !.stop = x.stop, !.error = x.error, !.tokens = x.tokens]
  <2>1. x = [r EXCEPT !.text = IF m.text THEN n ELSE r.text, !.stop = m.stop,
                      !.error = r.error \/ m.stop = "error", !.tokens = IF c THEN r.tokens + 1 ELSE r.tokens]
    BY Zenon DEF FoldMessage
  <2>2. x.stop = m.stop
    BY DEF FoldMessage, Results
  <2> QED
    BY <1>2, <1>4, <2>1, <2>2, Zenon
<1> HIDE DEF x
<1>7. \A text \in Nat, stop \in Ends, error \in BOOLEAN, tokens \in Nat :
         [r EXCEPT !.text = text, !.stop = stop, !.error = error, !.tokens = tokens] \in Results
  BY DEF Results
<1>8. x \in Results
  <2> DEFINE y == [r EXCEPT !.text = x.text, !.stop = x.stop, !.error = x.error, !.tokens = x.tokens]
  <2>1. y \in Results
    BY <1>5, <1>7, Zenon
  <2>2. x = y
    BY <1>6, Zenon
  <2> QED
    BY <2>1, <2>2, Zenon
<1> QED
  BY <1>2, <1>4, <1>8 DEF x

(* f is the fold of the first n messages. *)
Solves(f, n, r, c) ==
    /\ f \in [0..n -> Results]
    /\ f[0] = r
    /\ \A i \in 1..n : f[i] = FoldMessage(f[i - 1], i, said[i], c)

(* The recursion of Repeated has a solution on every prefix, so it has the *)
(* values its body says.                                                   *)
LEMMA SolutionGrows ==
    ASSUME said \in Seq(Messages), NEW r \in Results, NEW c \in BOOLEAN,
           NEW n \in 1..Len(said), NEW f, Solves(f, n - 1, r, c)
    PROVE  \E g : Solves(g, n, r, c)
<1> DEFINE g == [i \in 0..n |-> IF i = n THEN FoldMessage(f[n - 1], n, said[n], c) ELSE f[i]]
<1>1. said[n] \in Messages /\ n \in Nat /\ n - 1 \in 0..(n - 1)
  OBVIOUS
<1>2. f \in [0..(n - 1) -> Results]
  BY DEF Solves
<1>3. FoldMessage(f[n - 1], n, said[n], c) \in Results
  BY <1>1, <1>2, MessageFolded
<1>4. g \in [0..n -> Results]
  BY <1>1, <1>2, <1>3
<1>5. g[0] = r
  BY <1>1 DEF Solves
<1>6. ASSUME NEW i \in 1..n PROVE g[i] = FoldMessage(g[i - 1], i, said[i], c)
  BY <1>1 DEF Solves
<1> HIDE DEF g
<1>7. Solves(g, n, r, c)
  BY <1>4, <1>5, <1>6 DEF Solves
<1> QED
  BY <1>7

(* Its values: the start, and one message after the other.                 *)
LEMMA RepeatedUnfolds ==
    ASSUME said \in Seq(Messages), NEW r \in Results, NEW c \in BOOLEAN
    PROVE  Solves(Repeated(r, c), Len(said), r, c)
<1> DEFINE Solved == {n \in 0..Len(said) : \E f : Solves(f, n, r, c)}
<1>0. Len(said) \in Nat
  OBVIOUS
<1>1. 0 \in Solved
  <2>1. Solves([i \in 0..0 |-> r], 0, r, c)
    BY DEF Solves
  <2> QED
    BY <1>0, <2>1
<1>2. ASSUME NEW n \in 1..Len(said), n - 1 \in Solved PROVE n \in Solved
  BY <1>0, <1>2, SolutionGrows
<1> HIDE DEF Solved
<1>3. Len(said) \in Solved
  <2>1. 0..Len(said) \subseteq Solved
    BY <1>0, <1>1, <1>2, InductionUpTo, Zenon
  <2> QED
    BY <1>0, <2>1
<1>4. PICK f : Solves(f, Len(said), r, c)
  BY <1>3 DEF Solved
<1>5. f = [n \in 0..Len(said) |-> IF n = 0 THEN r ELSE FoldMessage(f[n - 1], n, said[n], c)]
  BY <1>0, <1>4 DEF Solves
<1>6. Repeated(r, c) =
        [n \in 0..Len(said) |-> IF n = 0 THEN r ELSE FoldMessage(Repeated(r, c)[n - 1], n, said[n], c)]
  BY <1>5 DEF Repeated
<1> DEFINE h == Repeated(r, c)
<1>7. /\ DOMAIN h = 0..Len(said) /\ h = [n \in 0..Len(said) |-> h[n]]
      /\ h[0] = r
      /\ \A n \in 1..Len(said) : h[n] = FoldMessage(h[n - 1], n, said[n], c)
  <2> HIDE DEF h
  <2> QED
    BY <1>0, <1>6 DEF h
<1>8. h \in [0..Len(said) -> Results]
  <2> HIDE DEF h
  <2> DEFINE Folded == {n \in 0..Len(said) : h[n] \in Results}
  <2>1. 0 \in Folded
    BY <1>0, <1>7
  <2>2. ASSUME NEW n \in 1..Len(said), n - 1 \in Folded PROVE n \in Folded
    <3>1. said[n] \in Messages /\ n \in Nat /\ n \in 0..Len(said)
      BY <1>0
    <3>2. FoldMessage(h[n - 1], n, said[n], c) \in Results
      BY <2>2, <3>1, MessageFolded, Zenon
    <3> QED
      BY <1>7, <3>1, <3>2, Zenon
  <2> HIDE DEF Folded
  <2>3. 0..Len(said) \subseteq Folded
    BY <1>0, <2>1, <2>2, InductionUpTo, Zenon
  <2>4. \A n \in 0..Len(said) : h[n] \in Results
    BY <2>3, Zenon DEF Folded
  <2> QED
    BY <1>7, <2>4, Zenon
<1> QED
  BY <1>7, <1>8, Zenon DEF Solves

(* r has what the messages say: the last text, their usage, any error.     *)
LastIs(t, messages) ==
    /\ t \in 0..Len(messages)
    /\ t # 0 => messages[t].text
    /\ \A k \in (t + 1)..Len(messages) : ~messages[k].text
ReadsAll(r) ==
    /\ LastIs(r.text, said)
    /\ r.tokens = Len(said)
    /\ \A n \in DOMAIN said : said[n].stop = "error" => r.error

(* There is one last text.                                                 *)
LEMMA LastTextIs ==
    ASSUME NEW messages \in Seq(Messages), NEW t, LastIs(t, messages)
    PROVE  LastText(messages) = t
<1> DEFINE texts == {n \in DOMAIN messages : messages[n].text}
<1>0. Len(messages) \in Nat /\ DOMAIN messages = 1..Len(messages)
  OBVIOUS
<1>1. CASE t = 0
  <2>1. texts = {}
    BY <1>0, <1>1 DEF LastIs
  <2> QED
    BY <1>1, <2>1 DEF LastText
<1>2. CASE t # 0
  <2>1. t \in texts /\ \A k \in texts : k <= t
    BY <1>0, <1>2 DEF LastIs
  <2>2. \A n \in texts : (\A k \in texts : k <= n) => n = t
    BY <1>0, <2>1
  <2> HIDE DEF texts
  <2>3. (CHOOSE n \in texts : \A k \in texts : k <= n) = t
    BY <2>1, <2>2
  <2> QED
    BY <2>1, <2>3 DEF LastText, texts
<1> QED
  BY <1>1, <1>2

(* What agent_end adds to a result without text.                           *)
LEMMA RepeatedReads ==
    ASSUME said \in Seq(Messages), NEW r \in Results, r.text = 0, NEW c \in BOOLEAN,
           NEW e, e = Repeated(r, c)[Len(said)]
    PROVE  /\ e \in Results
           /\ LastIs(e.text, said)
           /\ e.tokens = IF c THEN r.tokens + Len(said) ELSE r.tokens
           /\ \A n \in DOMAIN said : said[n].stop = "error" => e.error
<1> DEFINE f == Repeated(r, c)
           Reads(n) == /\ f[n].text \in 0..n
                       /\ f[n].text # 0 => said[f[n].text].text
                       /\ \A k \in (f[n].text + 1)..n : ~said[k].text
                       /\ f[n].tokens = IF c THEN r.tokens + n ELSE r.tokens
                       /\ \A k \in 1..n : said[k].stop = "error" => f[n].error
           Good == {n \in 0..Len(said) : Reads(n)}
<1>0. Len(said) \in Nat /\ DOMAIN said = 1..Len(said)
  OBVIOUS
<1>1. Solves(f, Len(said), r, c)
  BY RepeatedUnfolds
<1> HIDE DEF f
<1>2. 0 \in Good
  BY <1>0, <1>1 DEF Solves, Results
<1>3. ASSUME NEW n \in 1..Len(said), n - 1 \in Good PROVE n \in Good
  <2>1. /\ n - 1 \in 0..Len(said) /\ n \in Nat /\ n \in 0..Len(said)
        /\ f[n - 1] \in Results /\ said[n] \in Messages
    BY <1>0, <1>1 DEF Solves
  <2>2. f[n] = FoldMessage(f[n - 1], n, said[n], c)
    BY <1>1 DEF Solves
  <2>3. /\ f[n].text = IF said[n].text THEN n ELSE f[n - 1].text
        /\ f[n].tokens = IF c THEN f[n - 1].tokens + 1 ELSE f[n - 1].tokens
        /\ f[n].error <=> f[n - 1].error \/ said[n].stop = "error"
    BY <2>1, <2>2, MessageFolded, SMTT(30)
  <2>4. Reads(n - 1)
    BY <1>3
  <2>5. r.tokens \in Nat
    BY DEF Results
  <2>6. Reads(n)
    <3>1. n - 1 \in Nat /\ f[n - 1].text \in 0..(n - 1) /\ f[n].text \in 0..n
      BY <2>1, <2>3, <2>4
    <3>2. f[n].text # 0 => said[f[n].text].text
      BY <2>1, <2>3, <2>4
    <3>3. ASSUME NEW k \in (f[n].text + 1)..n PROVE ~said[k].text
      <4>1. CASE said[n].text
        BY <2>1, <2>3, <4>1
      <4>2. CASE ~said[n].text
        <5>1. k = n \/ k \in (f[n - 1].text + 1)..(n - 1)
          BY <2>1, <2>3, <3>1, <4>2
        <5> QED
          BY <2>4, <4>2, <5>1
      <4> QED
        BY <4>1, <4>2
    <3>4. f[n].tokens = IF c THEN r.tokens + n ELSE r.tokens
      BY <2>1, <2>3, <2>4, <2>5
    <3>5. ASSUME NEW k \in 1..n, said[k].stop = "error" PROVE f[n].error
      <4>1. k = n \/ k \in 1..(n - 1)
        BY <2>1
      <4> QED
        BY <2>3, <2>4, <3>5, <4>1
    <3> QED
      BY <3>1, <3>2, <3>3, <3>4, <3>5
  <2> QED
    BY <2>1, <2>6
<1>4. 0..Len(said) \subseteq Good
  <2> HIDE DEF Good
  <2> QED
    BY <1>0, <1>2, <1>3, InductionUpTo, Zenon
<1>5. Reads(Len(said))
  BY <1>0, <1>4
<1>6. f[Len(said)] \in Results
  BY <1>0, <1>1 DEF Solves
<1> QED
  BY <1>0, <1>5, <1>6 DEF LastIs, f

(* After agent_end the fold has everything, for a pi that printed its      *)
(* messages and for one that did not.                                      *)
LEMMA EndReads ==
    ASSUME said \in Seq(Messages), NEW r \in Results,
           IF chatty THEN ReadsAll(r) ELSE r.text = 0 /\ r.tokens = 0
    PROVE  FoldEnd(r) \in Results /\ ReadsAll(FoldEnd(r))
<1>0. Len(said) \in Nat /\ r.tokens \in Nat
  BY DEF Results
<1>1. CASE r.text # 0
  BY <1>1 DEF FoldEnd
<1>2. CASE r.text = 0
  <2>1. (r.tokens = 0) \in BOOLEAN /\ FoldEnd(r) = Repeated(r, r.tokens = 0)[Len(said)]
    BY <1>2 DEF FoldEnd
  <2>2. /\ FoldEnd(r) \in Results
        /\ LastIs(FoldEnd(r).text, said)
        /\ FoldEnd(r).tokens = IF r.tokens = 0 THEN r.tokens + Len(said) ELSE r.tokens
        /\ \A n \in DOMAIN said : said[n].stop = "error" => FoldEnd(r).error
    BY <1>2, <2>1, RepeatedReads, Zenon
  <2>3. IF chatty THEN r.tokens = Len(said) ELSE r.tokens = 0
    BY DEF ReadsAll
  <2> QED
    BY <1>0, <2>2, <2>3 DEF ReadsAll
<1> QED
  BY <1>1, <1>2

(* The types of the run.                                                   *)
TaskTyped ==
    /\ pi \in {"unborn", "running", "exited", "killed"}
    /\ code \in Codes
    /\ heirs \in BOOLEAN /\ chatty \in BOOLEAN /\ ended \in BOOLEAN
    /\ said \in Seq(Messages)
    /\ run \in {"none", "waiting", "reading", "over", "gone"}
    /\ folded \in Results
    /\ report \in [result : Results, code : Codes, timedOut : BOOLEAN]
    /\ cancelled \in BOOLEAN /\ quitting \in BOOLEAN
    /\ verdict \in [status : {"none", "timeout", "cancelled", "failed", "budget", "done",
                              "interrupted"},
                    text : Nat, tokens : Nat]

(* The reader's fold has all that pi printed.                              *)
FoldKept ==
    IF chatty \/ ended THEN ReadsAll(folded) ELSE folded.text = 0 /\ folded.tokens = 0

(* How far the run is says how far pi, the report and the verdict are.     *)
RunStages ==
    /\ pi = "running" => run = "waiting"
    /\ run = "none" => pi = "unborn"
    /\ run \in {"none", "waiting"} => report = NoReport
    /\ run = "waiting" => pi \in {"running", "exited"}
    /\ run = "reading" => report.result = Nothing
    /\ run \in {"reading", "over"} =>
          IF report.timedOut THEN pi = "killed" ELSE pi = "exited" /\ report.code = code
    /\ report.result # Nothing => report.result = folded /\ pi # "running"
    /\ verdict # NoVerdict => run \in {"over", "gone"}

(* Done was concluded from the report alone.                               *)
DoneByReport ==
    verdict.status = "done" =>
        /\ run = "over"
        /\ ~report.timedOut /\ ~cancelled
        /\ ~RunError(report) /\ ~BudgetExhausted(report.result)
        /\ verdict.tokens = report.result.tokens

TaskInv == TaskTyped /\ FoldKept /\ RunStages /\ DoneByReport

(* A run that has not begun.                                               *)
LEMMA TaskInvInit == RunInit => TaskInv
<1> SUFFICES ASSUME RunInit PROVE TaskInv
  OBVIOUS
<1>1. Nothing \in Results /\ NoReport.result = Nothing
  BY DEF Nothing, NoReport, Results, Ends
<1>2. TaskTyped
  <2>1. said \in Seq(Messages)
    BY DEF RunInit
  <2>2. /\ folded \in Results
        /\ report \in [result : Results, code : Codes, timedOut : BOOLEAN]
    BY <1>1, Zenon DEF RunInit, NoReport, Codes
  <2>3. /\ pi = "unborn" /\ code = "ok" /\ heirs = FALSE /\ chatty \in BOOLEAN /\ ended = FALSE
        /\ run = "none" /\ cancelled = FALSE /\ quitting = FALSE /\ verdict = NoVerdict
    BY Zenon DEF RunInit
  <2> QED
    BY <2>1, <2>2, <2>3 DEF TaskTyped, NoVerdict, Codes
<1>3. FoldKept
  BY DEF RunInit, FoldKept, ReadsAll, LastIs, Nothing
<1>4. RunStages
  BY <1>1 DEF RunInit, RunStages, NoVerdict
<1>5. DoneByReport
  BY DEF RunInit, DoneByReport, NoVerdict
<1> QED
  BY <1>2, <1>3, <1>4, <1>5 DEF TaskInv

(* A message, or its repetition at the end, is read as the fold is.        *)
LEMMA PrintsKeeps ==
    ASSUME TaskInv, NEW m \in Messages, Prints(m)
    PROVE  TaskInv'
<1> DEFINE n == Len(said) + 1
<1>1. /\ said' = Append(said, m) /\ said \in Seq(Messages) /\ folded \in Results /\ n \in Nat
      /\ chatty \in BOOLEAN
  BY DEF TaskInv, TaskTyped, Prints
<1>2. folded' = IF chatty THEN FoldMessage(folded, n, m, TRUE) ELSE folded
  BY DEF Prints, n
<1>a. n = Len(said) + 1
  OBVIOUS
<1> HIDE DEF n
<1>3. /\ FoldMessage(folded, n, m, TRUE) \in Results
      /\ FoldMessage(folded, n, m, TRUE).text = IF m.text THEN n ELSE folded.text
      /\ FoldMessage(folded, n, m, TRUE).tokens = folded.tokens + 1
      /\ FoldMessage(folded, n, m, TRUE).error <=> folded.error \/ m.stop = "error"
  <2>1. ASSUME NEW c \in BOOLEAN
        PROVE  /\ FoldMessage(folded, n, m, c) \in Results
               /\ FoldMessage(folded, n, m, c).text = IF m.text THEN n ELSE folded.text
               /\ FoldMessage(folded, n, m, c).tokens = IF c THEN folded.tokens + 1 ELSE folded.tokens
               /\ FoldMessage(folded, n, m, c).error <=> folded.error \/ m.stop = "error"
    BY <1>1, MessageFolded
  <2> QED
    BY <2>1
<1>b. UNCHANGED <<pi, code, heirs, chatty, ended, run, report, cancelled, quitting, verdict>>
  BY DEF Prints
<1>4. said' \in Seq(Messages) /\ folded' \in Results
  <2>1. said' \in Seq(Messages)
    BY <1>1
  <2>2. folded' \in Results
    BY <1>1, <1>2, <1>3
  <2> QED
    BY <2>1, <2>2
<1>5. TaskTyped'
  BY <1>4, <1>b DEF TaskInv, TaskTyped
<1>6. FoldKept'
  <2>1. CASE chatty
    <3>1. ReadsAll(folded) /\ folded' = FoldMessage(folded, n, m, TRUE) /\ chatty'
      BY <1>2, <2>1 DEF TaskInv, FoldKept, Prints
    <3>2. Len(said) \in Nat /\ Len(said') = n
      BY <1>1, <1>a
    <3>3. \A k \in 1..n : said'[k] = IF k = n THEN m ELSE said[k]
      BY <1>1, <1>a
    <3>4. folded'.text = (IF m.text THEN n ELSE folded.text) /\ folded'.tokens = n
      BY <1>3, <1>a, <3>1, <3>2 DEF ReadsAll
    <3>a. LastIs(folded.text, said) /\ folded.text \in 0..Len(said)
      BY <3>1 DEF ReadsAll, LastIs
    <3>5. LastIs(folded'.text, said')
      <4> DEFINE t == folded'.text
      <4>1. t = IF m.text THEN n ELSE folded.text
        BY <3>4
      <4> HIDE DEF t
      <4>2. t \in 0..Len(said')
        BY <1>a, <3>2, <3>a, <4>1
      <4>3. t # 0 => said'[t].text
        BY <1>a, <3>2, <3>3, <3>a, <4>1 DEF LastIs
      <4>4. ASSUME NEW k \in (t + 1)..Len(said') PROVE ~said'[k].text
        BY <1>a, <3>2, <3>3, <3>a, <4>1 DEF LastIs
      <4>5. LastIs(t, said')
        BY <4>2, <4>3, <4>4 DEF LastIs
      <4> QED
        BY <4>5 DEF t
    <3>6. ASSUME NEW k \in DOMAIN said', said'[k].stop = "error" PROVE folded'.error
      <4>1. k \in 1..n
        BY <1>1, <1>4, <3>2
      <4>2. CASE k = n
        BY <1>3, <3>1, <3>3, <3>6, <4>1, <4>2
      <4>3. CASE k # n
        <5>1. k \in DOMAIN said /\ said[k].stop = "error"
          BY <1>1, <1>a, <3>2, <3>3, <3>6, <4>1, <4>3
        <5> QED
          BY <1>3, <3>1, <5>1 DEF ReadsAll
      <4> QED
        BY <4>2, <4>3
    <3> QED
      BY <3>1, <3>2, <3>4, <3>5, <3>6 DEF FoldKept, ReadsAll
  <2>2. CASE ~chatty
    BY <1>2, <2>2 DEF TaskInv, FoldKept, Prints, Talking
  <2> QED
    BY <1>1, <2>1, <2>2
<1>7. RunStages'
  BY DEF Prints, Talking, TaskInv, RunStages
<1>8. DoneByReport'
  BY DEF Prints, Talking, TaskInv, DoneByReport, RunError, Failed, BudgetExhausted
<1> QED
  BY <1>5, <1>6, <1>7, <1>8 DEF TaskInv

(* The other lines of pi, its end, and its descendants.                    *)
LEMMA PiKeeps ==
    ASSUME TaskInv,
           \/ TurnEnds \/ PrintsError \/ AgentEnds \/ HeirsExit
           \/ \E c \in Codes : PiExits(c)
    PROVE  TaskInv'
<1>0. TaskTyped /\ FoldKept /\ RunStages /\ DoneByReport
  BY DEF TaskInv
<1>1. CASE TurnEnds \/ PrintsError
  <2>1. /\ folded' \in Results
        /\ folded'.text = folded.text /\ folded'.tokens = folded.tokens
        /\ folded.error => folded'.error
    <3>1. folded \in Results
      BY <1>0 DEF TaskTyped
    <3>2. [folded EXCEPT !.turns = folded.turns + 1] \in Results
      BY <3>1 DEF Results
    <3>3. [folded EXCEPT !.error = TRUE] \in Results
      BY <3>1 DEF Results
    <3> QED
      BY <1>1, <3>1, <3>2, <3>3 DEF TurnEnds, PrintsError, Results
  <2>2. pi = "running" /\ UNCHANGED <<piVars, run, report, cancelled, quitting, verdict>>
    BY <1>1 DEF TurnEnds, PrintsError, Talking
  <2>3. TaskTyped'
    BY <1>0, <2>1, <2>2 DEF TaskTyped, piVars
  <2>4. FoldKept'
    BY <1>0, <2>1, <2>2 DEF FoldKept, ReadsAll, piVars
  <2>5. RunStages' /\ DoneByReport'
    BY <1>0, <2>2 DEF RunStages, DoneByReport, RunError, Failed, BudgetExhausted, piVars
  <2> QED
    BY <2>3, <2>4, <2>5 DEF TaskInv
<1>2. CASE AgentEnds
  <2>1. FoldEnd(folded) \in Results /\ ReadsAll(FoldEnd(folded))
    BY <1>0, <1>2, EndReads DEF AgentEnds, Talking, FoldKept, TaskTyped
  <2>2. /\ pi = "running" /\ folded' = FoldEnd(folded) /\ ended' = TRUE
        /\ UNCHANGED <<pi, code, heirs, chatty, said, run, report, cancelled, quitting, verdict>>
    BY <1>2 DEF AgentEnds, Talking
  <2>3. TaskTyped'
    BY <1>0, <2>1, <2>2 DEF TaskTyped
  <2>4. FoldKept'
    BY <2>1, <2>2 DEF FoldKept, ReadsAll
  <2>5. RunStages' /\ DoneByReport'
    BY <1>0, <2>2 DEF RunStages, DoneByReport, RunError, Failed, BudgetExhausted
  <2> QED
    BY <2>3, <2>4, <2>5 DEF TaskInv
<1>3. ASSUME \/ HeirsExit \/ \E c \in Codes : PiExits(c)
      PROVE  TaskInv'
  <2>1. UNCHANGED <<chatty, said, ended, run, folded, report, cancelled, quitting, verdict>>
    BY <1>3 DEF HeirsExit, PiExits
  <2>2. TaskTyped'
    <3>1. pi' \in {"unborn", "running", "exited", "killed"} /\ code' \in Codes /\ heirs' \in BOOLEAN
      <4>1. CASE HeirsExit
        <5>1. heirs' = FALSE /\ UNCHANGED <<pi, code>>
          BY <4>1 DEF HeirsExit
        <5> QED
          BY <1>0, <5>1 DEF TaskTyped
      <4>2. ASSUME NEW c \in Codes, PiExits(c)
            PROVE  pi' \in {"unborn", "running", "exited", "killed"} /\ code' \in Codes /\ heirs' \in BOOLEAN
        BY <4>2 DEF PiExits
      <4> QED
        BY <1>3, <4>1, <4>2
    <3> QED
      BY <1>0, <2>1, <3>1 DEF TaskTyped
  <2>3. FoldKept'
    BY <1>0, <2>1 DEF FoldKept, ReadsAll
  <2>4. RunStages'
    BY <1>0, <1>3, <2>1 DEF RunStages, HeirsExit, PiExits
  <2>5. DoneByReport'
    BY <1>0, <2>1 DEF DoneByReport, RunError, Failed, BudgetExhausted
  <2> QED
    BY <2>2, <2>3, <2>4, <2>5 DEF TaskInv
<1> QED
  BY <1>1, <1>2, <1>3

(* The run, up to what it returns.                                         *)
LEMMA RunKeeps ==
    ASSUME TaskInv, StartsPi \/ ExitSeen \/ TimesOut \/ ReadersEnd \/ ReadersGivenUp
    PROVE  TaskInv'
<1>0. TaskTyped /\ FoldKept /\ RunStages /\ DoneByReport
  BY DEF TaskInv
<1>1. UNCHANGED <<chatty, said, ended, folded, cancelled, quitting, verdict, code>>
  BY DEF StartsPi, ExitSeen, TimesOut, ReadersEnd, ReadersGivenUp, piVars
<1>2. FoldKept'
  BY <1>0, <1>1 DEF FoldKept, ReadsAll
<1>3. verdict = NoVerdict /\ DoneByReport'
  BY <1>0, <1>1
     DEF RunStages, DoneByReport, NoVerdict, StartsPi, ExitSeen, TimesOut, ReadersEnd, ReadersGivenUp
<1>4. TaskTyped'
  <2>1. heirs' \in BOOLEAN
    <3>1. heirs \in BOOLEAN
      BY <1>0 DEF TaskTyped
    <3>2. heirs' = heirs \/ heirs' \in BOOLEAN
      BY DEF StartsPi, ExitSeen, TimesOut, ReadersEnd, ReadersGivenUp, piVars
    <3> QED
      BY <3>1, <3>2
  <2>2. /\ pi' \in {"unborn", "running", "exited", "killed"}
        /\ run' \in {"none", "waiting", "reading", "over", "gone"}
    BY <1>0 DEF TaskTyped, StartsPi, ExitSeen, TimesOut, ReadersEnd, ReadersGivenUp, piVars
  <2>3. report' \in [result : Results, code : Codes, timedOut : BOOLEAN]
    <3>1. report \in [result : Results, code : Codes, timedOut : BOOLEAN] /\ folded \in Results
          /\ code \in Codes
      BY <1>0 DEF TaskTyped
    <3>2. /\ [report EXCEPT !.code = code] \in [result : Results, code : Codes, timedOut : BOOLEAN]
          /\ [report EXCEPT !.timedOut = TRUE] \in [result : Results, code : Codes, timedOut : BOOLEAN]
          /\ [report EXCEPT !.result = folded] \in [result : Results, code : Codes, timedOut : BOOLEAN]
      BY <3>1
    <3>3. \/ report' = report \/ report' = [report EXCEPT !.code = code]
          \/ report' = [report EXCEPT !.timedOut = TRUE]
          \/ report' = [report EXCEPT !.result = folded]
      BY DEF StartsPi, ExitSeen, TimesOut, ReadersEnd, ReadersGivenUp
    <3> QED
      BY <3>1, <3>2, <3>3
  <2> QED
    BY <1>0, <1>1, <2>1, <2>2, <2>3 DEF TaskTyped
<1>5. NoReport.result = Nothing /\ ~NoReport.timedOut
  BY DEF NoReport
<1>6. RunStages'
  BY <1>0, <1>1, <1>3, <1>5
     DEF TaskTyped, RunStages, StartsPi, ExitSeen, TimesOut, ReadersEnd, ReadersGivenUp, piVars
<1> QED
  BY <1>2, <1>3, <1>4, <1>6 DEF TaskInv

(* The manager, from the flags to the verdict.                             *)
LEMMA VerdictKeeps ==
    ASSUME TaskInv, Joined \/ JoinedInError \/ StopSeen \/ Cancelled \/ ShutsDown
    PROVE  TaskInv'
<1>0. TaskTyped /\ FoldKept /\ RunStages /\ DoneByReport
  BY DEF TaskInv
<1>1. UNCHANGED <<chatty, said, ended, folded, report, code>> /\ verdict = NoVerdict
  BY DEF Joined, JoinedInError, StopSeen, Cancelled, ShutsDown, piVars
<1>2. FoldKept'
  BY <1>0, <1>1 DEF FoldKept, ReadsAll
<1>3. RunStages'
  BY <1>0, <1>1
     DEF TaskTyped, RunStages, Joined, JoinedInError, StopSeen, Cancelled, ShutsDown, piVars
<1>4. CASE Joined
  <2>1. /\ verdict' = [status |-> Status(report), text |-> report.result.text,
                       tokens |-> report.result.tokens]
        /\ run = "over" /\ UNCHANGED <<piVars, run, folded, report, cancelled, quitting>>
    BY <1>4 DEF Joined
  <2>2. /\ Status(report) \in {"timeout", "cancelled", "failed", "budget", "done"}
        /\ Status(report) = "done" =>
              /\ ~report.timedOut /\ ~cancelled
              /\ ~RunError(report) /\ ~BudgetExhausted(report.result)
    BY DEF Status
  <2>3. TaskTyped'
    BY <1>0, <2>1, <2>2 DEF TaskTyped, Results, piVars
  <2>4. DoneByReport'
    BY <2>1, <2>2 DEF DoneByReport, RunError, Failed, BudgetExhausted
  <2> QED
    BY <1>2, <1>3, <2>3, <2>4 DEF TaskInv
<1>5. CASE JoinedInError \/ StopSeen
  <2>1. /\ verdict'.status \in {"cancelled", "interrupted", "failed"}
        /\ verdict'.text \in Nat /\ verdict'.tokens \in Nat
        /\ verdict' = [status |-> verdict'.status, text |-> 0, tokens |-> 0]
    BY <1>5 DEF JoinedInError, StopSeen, Unfinished, NoVerdict
  <2>2. TaskTyped'
    BY <1>0, <1>1, <1>5, <2>1 DEF TaskTyped, JoinedInError, StopSeen, piVars
  <2>3. DoneByReport'
    BY <2>1 DEF DoneByReport
  <2> QED
    BY <1>2, <1>3, <2>2, <2>3 DEF TaskInv
<1>6. CASE Cancelled \/ ShutsDown
  <2>1. UNCHANGED <<pi, heirs, run, verdict>>
    BY <1>6 DEF Cancelled, ShutsDown, piVars
  <2>2. TaskTyped'
    <3>1. cancelled \in BOOLEAN /\ quitting \in BOOLEAN
      BY <1>0 DEF TaskTyped
    <3>2. /\ cancelled' = cancelled \/ cancelled' = TRUE
          /\ quitting' = quitting \/ quitting' = TRUE
      BY <1>6 DEF Cancelled, ShutsDown
    <3>3. cancelled' \in BOOLEAN /\ quitting' \in BOOLEAN
      BY <3>1, <3>2
    <3> QED
      BY <1>0, <1>1, <2>1, <3>3 DEF TaskTyped
  <2>3. DoneByReport'
    BY <1>1, <2>1 DEF DoneByReport, NoVerdict
  <2> QED
    BY <1>2, <1>3, <2>2, <2>3 DEF TaskInv
<1> QED
  BY <1>4, <1>5, <1>6

(* Every step of the run, of pi and of the manager.                        *)
LEMMA TaskInvNext == TaskInv /\ [TaskNext]_runVars => TaskInv'
<1> SUFFICES ASSUME TaskInv, [TaskNext]_runVars PROVE TaskInv'
  OBVIOUS
<1>1. CASE PiGoesOn
  BY <1>1, PrintsKeeps, PiKeeps DEF PiGoesOn
<1>2. CASE StartsPi \/ RunGoesOn \/ StopSeen \/ Cancelled \/ ShutsDown
  BY <1>2, RunKeeps, VerdictKeeps DEF RunGoesOn
<1>3. CASE UNCHANGED runVars
  BY <1>3 DEF runVars, piVars, TaskInv, TaskTyped, FoldKept, ReadsAll, RunStages, DoneByReport,
              RunError, Failed, BudgetExhausted
<1> QED
  BY <1>1, <1>2, <1>3 DEF TaskNext

(* The verdict on a task that ran over stdio is true to its process: what  *)
(* was read is what pi printed, each message once, and done was earned.    *)
THEOREM VerdictTrue == TaskSpec => []TaskVerdictTrue
<1>1. ASSUME TaskInv PROVE ReadOnce
  <2> SUFFICES ASSUME run = "over", report.result # Nothing
               PROVE  report.result.text = LastText(Printed) /\ report.result.tokens = Len(Printed)
    BY DEF ReadOnce
  <2>1. report.result = folded
    BY <1>1 DEF TaskInv, RunStages
  <2>2. CASE chatty \/ ended
    <3>1. ReadsAll(folded) /\ Printed = said /\ said \in Seq(Messages)
      BY <1>1, <2>2 DEF TaskInv, FoldKept, Printed, TaskTyped
    <3> QED
      BY <2>1, <3>1, LastTextIs DEF ReadsAll
  <2>3. CASE ~(chatty \/ ended)
    <3>1. folded.text = 0 /\ folded.tokens = 0 /\ Printed = <<>>
      BY <1>1, <2>3 DEF TaskInv, FoldKept, Printed
    <3>2. LastText(<<>>) = 0 /\ Len(<<>>) = 0
      BY DEF LastText
    <3> QED
      BY <2>1, <3>1, <3>2
  <2> QED
    BY <2>2, <2>3
<1>2. ASSUME TaskInv PROVE DoneIsEarned
  <2> SUFFICES ASSUME verdict.status = "done"
               PROVE  /\ pi = "exited" /\ code = "ok"
                      /\ ~cancelled
                      /\ report.result # Nothing =>
                            \A n \in DOMAIN Printed : Printed[n].stop # "error"
                      /\ MaxTokens > 0 => verdict.tokens < MaxTokens
    BY DEF DoneIsEarned
  <2>1. /\ run = "over" /\ ~report.timedOut /\ ~cancelled
        /\ ~RunError(report) /\ ~BudgetExhausted(report.result)
        /\ verdict.tokens = report.result.tokens
    BY <1>2 DEF TaskInv, DoneByReport
  <2>2. pi = "exited" /\ code = "ok"
    BY <1>2, <2>1 DEF TaskInv, RunStages, RunError
  <2>3. MaxTokens > 0 => verdict.tokens < MaxTokens
    <3>1. report.result.tokens \in Nat
      BY <1>2 DEF TaskInv, TaskTyped, Results
    <3> QED
      BY <2>1, <3>1, BudgetAssumption DEF BudgetExhausted
  <2>4. ASSUME report.result # Nothing, NEW n \in DOMAIN Printed PROVE Printed[n].stop # "error"
    <3>1. ~folded.error
      BY <1>2, <2>1, <2>4 DEF TaskInv, RunStages, RunError, Failed
    <3>2. CASE chatty \/ ended
      BY <1>2, <2>4, <3>1, <3>2 DEF TaskInv, FoldKept, ReadsAll, Printed
    <3>3. CASE ~(chatty \/ ended)
      BY <2>4, <3>3 DEF Printed
    <3> QED
      BY <3>2, <3>3
  <2> QED
    BY <2>1, <2>2, <2>3, <2>4
<1>3. TaskInv => NoPiLeft
  BY DEF TaskInv, RunStages, NoPiLeft, Judged
<1>4. TaskInv => TaskVerdictTrue
  BY <1>1, <1>2, <1>3 DEF TaskVerdictTrue
<1> QED
  BY <1>4, TaskInvInit, TaskInvNext, PTL DEF TaskSpec
=============================================================================
