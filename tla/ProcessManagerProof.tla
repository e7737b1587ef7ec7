-------------------------- MODULE ProcessManagerProof --------------------------
(***************************************************************************)
(* Theorems about ProcessManager, for any number of sessions and callers,  *)
(* any limit and every use of the sessions the module knows; and about     *)
(* OutputLog, for any characters and any size of ring, pages and tail.     *)
(***************************************************************************)
EXTENDS ProcessManager, OutputLog, WellFoundedInduction, TLAPS

(* A child is born by its spawn call and reaped before anything says so;   *)
(* a registered session leaves the map only after that.                    *)
LivesOnce ==
    \A s \in Sessions :
        /\ spawn[s] = "idle" => proc[s] = "none"
        /\ s \in entry => spawn[s] = "registered"
        /\ spawn[s] = "registered" /\ s \notin entry => proc[s] = "reaped"
        /\ s \in exitedAt => proc[s] = "reaped"
        /\ watcher[s] \notin {"none", "waiting"} => code[s] # "none"
        /\ watcher[s] \in {"published", "over"} => status[s] = "Exited"

(* A reader that has ended left nothing in its pipe, and nobody is left    *)
(* who could write to it.                                                  *)
EndedIsEmpty ==
    \A s \in Sessions :
        /\ eof[s] \cap unread[s] = {}
        /\ eof[s] # {} => proc[s] \in {"dead", "reaped"} /\ s \notin heirs

(* Only registered sessions are killed. *)
KillsKnown ==
    \A s \in Sessions : kill[s] # "idle" \/ s \in sweepTodo => spawn[s] = "registered"

(* What was ended on purpose carries the flag, and only a published exit   *)
(* was handed to delivery.                                                 *)
DeliberateFlagged == ended \cup swept \subseteq killed
WokenExited == \A s \in wake : status[s] = "Exited"

Inv ==
    /\ TypeOK
    /\ LivesOnce
    /\ EndedIsEmpty
    /\ KillsKnown
    /\ DeliberateFlagged
    /\ WokenExited
    /\ KillMeansDead
    /\ ExitIsLast
    /\ Silences

(* No session, no call.                                                    *)
LEMMA InvInit == Init => Inv
<1> SUFFICES ASSUME Init PROVE Inv
  OBVIOUS
<1>1. TypeOK
  BY DEF Init, TypeOK, KillStates, PollStates
<1>2. LivesOnce /\ EndedIsEmpty /\ KillsKnown /\ DeliberateFlagged /\ WokenExited
  BY DEF Init, LivesOnce, EndedIsEmpty, KillsKnown, DeliberateFlagged, WokenExited
<1>3. KillMeansDead /\ ExitIsLast /\ Silences
  BY DEF Init, KillMeansDead, ExitIsLast, Silences, KillSilences, ShutdownSilences
<1> QED
  BY <1>1, <1>2, <1>3 DEF Inv

(* A spawn call, also one that is dropped before it registers.             *)
LEMMA InvSpawn ==
    ASSUME Inv, NEW s \in Sessions, SpawnStart(s) \/ SpawnRegister(s) \/ SpawnDropped(s)
    PROVE  Inv'
<1> USE DEF Inv, TypeOK, LivesOnce, EndedIsEmpty, KillsKnown, DeliberateFlagged, WokenExited,
            KillMeansDead, ExitIsLast, Silences, KillSilences, ShutdownSilences,
            osVars, sessionVars, outputVars, watchVars, quietVars, sweepVars
<1>1. CASE SpawnStart(s)
  BY <1>1 DEF SpawnStart
<1>2. CASE SpawnRegister(s)
  BY <1>2 DEF SpawnRegister
<1>3. CASE SpawnDropped(s)
  BY <1>3 DEF SpawnDropped
<1> QED
  BY <1>1, <1>2, <1>3

(* The child writes or ends, its descendants end, a reader reads.          *)
LEMMA InvOutput ==
    ASSUME Inv, NEW s \in Sessions,
           ChildExits(s) \/ HeirsExit(s) \/ ReaderStep(s) \/ \E st \in Streams : ChildWrites(s, st)
    PROVE  Inv'
<1> USE DEF Inv, TypeOK, LivesOnce, EndedIsEmpty, KillsKnown, DeliberateFlagged, WokenExited,
            KillMeansDead, ExitIsLast, Silences, KillSilences, ShutdownSilences, Streams,
            PollStates,
            osVars, sessionVars, outputVars, watchVars, quietVars, sweepVars, NotifyWaiters
<1>1. ASSUME NEW st \in Streams, ChildWrites(s, st) PROVE Inv'
  <2>1. eof[s] = {} /\ ~(status[s] = "Exited" /\ s \notin late)
    BY <1>1, SMTT(30) DEF ChildWrites
  <2>2. unread' = [unread EXCEPT ![s] = unread[s] \cup {st}]
    BY <1>1 DEF ChildWrites
  <2>3. /\ \A o \in Sessions : eof[o] \cap unread'[o] = {}
        /\ \A o \in Sessions : o # s => unread'[o] = unread[o]
        /\ unread' \in [Sessions -> SUBSET Streams]
    BY <2>1, <2>2
  <2> QED
    BY <1>1, <2>1, <2>3 DEF ChildWrites
<1>2. CASE ChildExits(s)
  BY <1>2 DEF ChildExits, Ends
<1>3. CASE HeirsExit(s)
  BY <1>3 DEF HeirsExit
<1>4. ASSUME NEW st \in Streams, ReaderReads(s, st) PROVE Inv'
  BY <1>4 DEF ReaderReads
<1>5. ASSUME NEW st \in Streams, ReaderEnds(s, st) PROVE Inv'
  BY <1>5 DEF ReaderEnds
<1> QED
  BY <1>1, <1>2, <1>3, <1>4, <1>5 DEF ReaderStep

(* The exit watcher, from the reaping to the wake.                         *)
LEMMA InvWatch ==
    ASSUME Inv, NEW s \in Sessions, WatchStep(s)
    PROVE  Inv'
<1> USE DEF Inv, TypeOK, LivesOnce, EndedIsEmpty, KillsKnown, DeliberateFlagged, WokenExited,
            KillMeansDead, ExitIsLast, Silences, KillSilences, ShutdownSilences, PollStates,
            osVars, sessionVars, outputVars, watchVars, quietVars, sweepVars, NotifyWaiters
<1>1. CASE WatchReap(s)
  BY <1>1 DEF WatchReap
<1>2. CASE WatchMark(s)
  BY <1>2 DEF WatchMark
<1>3. CASE WatchPublish(s)
  BY <1>3 DEF WatchPublish, Publish
<1>4. CASE WatchWake(s)
  BY <1>4 DEF WatchWake, WatchOver
<1> QED
  BY <1>1, <1>2, <1>3, <1>4 DEF WatchStep

(* A kill call, with the lock given back between its steps.                *)
LEMMA InvKill ==
    ASSUME Inv, NEW s \in Sessions, KillAsk(s) \/ KillDropped(s) \/ KillStep(s)
    PROVE  Inv'
<1> USE DEF Inv, TypeOK, LivesOnce, EndedIsEmpty, KillsKnown, DeliberateFlagged, WokenExited,
            KillMeansDead, ExitIsLast, Silences, KillSilences, ShutdownSilences, KillStates,
            Running,
            osVars, sessionVars, outputVars, watchVars, quietVars, sweepVars
<1>1. CASE KillAsk(s) \/ KillDropped(s)
  BY <1>1 DEF KillAsk, KillDropped
<1>2. CASE KillCheck(s)
  BY <1>2 DEF KillCheck
<1>3. CASE KillTerminate(s)
  BY <1>3 DEF KillTerminate, Signal, Ends
<1>4. CASE KillRecheck(s)
  BY <1>4 DEF KillRecheck
<1>5. CASE KillForce(s)
  BY <1>5 DEF KillForce, Signal, Ends
<1> QED
  BY <1>1, <1>2, <1>3, <1>4, <1>5 DEF KillStep

(* kill_all, one session after the other.                                  *)
LEMMA InvSweep ==
    ASSUME Inv, SweepMark \/ SweepStep
    PROVE  Inv'
<1> USE DEF Inv, TypeOK, LivesOnce, EndedIsEmpty, KillsKnown, DeliberateFlagged, WokenExited,
            KillMeansDead, ExitIsLast, Silences, KillSilences, ShutdownSilences, KillStates,
            Running,
            osVars, sessionVars, outputVars, watchVars, quietVars, sweepVars
<1>1. CASE SweepMark
  BY <1>1, ZenonT(60) DEF SweepMark
<1>2. ASSUME NEW s \in Sessions, SweepKill(s) PROVE Inv'
  BY <1>2 DEF SweepKill
<1>3. ASSUME NEW s \in Sessions, SweepNext(s) PROVE Inv'
  BY <1>3 DEF SweepNext
<1> QED
  BY <1>1, <1>2, <1>3 DEF SweepStep

(* Writing, polling and forgetting. *)
LEMMA InvCallers ==
    ASSUME Inv, NEW s \in Sessions,
           WriteBegin(s) \/ WriteEnds(s) \/ PollBegin(s) \/ PollStep(s) \/ Cleanup(s)
    PROVE  Inv'
<1> USE DEF Inv, TypeOK, LivesOnce, EndedIsEmpty, KillsKnown, DeliberateFlagged, WokenExited,
            KillMeansDead, ExitIsLast, Silences, KillSilences, ShutdownSilences, PollStates,
            Running,
            osVars, sessionVars, outputVars, watchVars, quietVars, sweepVars
<1>1. CASE WriteBegin(s)
  BY <1>1 DEF WriteBegin
<1>2. CASE WriteEnds(s)
  BY <1>2 DEF WriteEnds
<1>3. ASSUME NEW to \in PollStates, PollMoves(s, to) PROVE Inv'
  BY <1>3 DEF PollMoves
<1>4. CASE PollBegin(s) \/ PollStep(s)
  BY <1>3, <1>4 DEF PollBegin, PollStep, PollLook, PollWait, PollDeadline
<1>5. CASE Cleanup(s)
  BY <1>5 DEF Cleanup
<1> QED
  BY <1>1, <1>2, <1>4, <1>5

(* Every step keeps the invariant.                                         *)
LEMMA InvNext == Inv /\ [Next]_vars => Inv'
<1> SUFFICES ASSUME Inv, [Next]_vars PROVE Inv'
  OBVIOUS
<1>1. CASE UNCHANGED vars
  BY <1>1
     DEF vars, Inv, TypeOK, LivesOnce, EndedIsEmpty, KillsKnown, DeliberateFlagged, WokenExited,
         KillMeansDead, ExitIsLast, Silences, KillSilences, ShutdownSilences,
         osVars, sessionVars, outputVars, watchVars, quietVars, sweepVars
<1>2. CASE Next
  BY <1>2, InvSpawn, InvOutput, InvWatch, InvKill, InvSweep, InvCallers DEF Next
<1> QED
  BY <1>1, <1>2

(* Every variable keeps its type; a published exit has a code, and a child *)
(* with a code was reaped.                                                 *)
THEOREM TypeCorrect == Spec => []TypeOK
<1>1. Inv => TypeOK
  BY DEF Inv
<1> QED
  BY <1>1, InvInit, InvNext, PTL DEF Spec

(* kill() returns only when the child is dead, whatever it does with       *)
(* SIGTERM and however the exit watcher and cleanup interleave with it.    *)
THEOREM KillSafe == Spec => []KillMeansDead
<1>1. Inv => KillMeansDead
  BY DEF Inv
<1> QED
  BY <1>1, InvInit, InvNext, PTL DEF Spec

(* An exit is published when the output is complete, or its drain timed    *)
(* out (the exit watcher).                                                 *)
THEOREM ExitSafe == Spec => []ExitIsLast
<1>1. Inv => ExitIsLast
  BY DEF Inv
<1> QED
  BY <1>1, InvInit, InvNext, PTL DEF Spec

(* Nobody is woken for what a kill or the shutdown ended on purpose.       *)
THEOREM SilenceSafe == Spec => []Silences
<1>1. Inv => Silences
  BY DEF Inv
<1> QED
  BY <1>1, InvInit, InvNext, PTL DEF Spec

-----------------------------------------------------------------------------
(* The output: offsets are sums of widths, which takes an induction over   *)
(* the characters.                                                         *)

(* A set of numbers has a least one.                                       *)
LEMMA LeastNat ==
    ASSUME NEW S \in SUBSET Nat, S # {}
    PROVE  \E n \in S : \A m \in S : n <= m
<1> DEFINE R == {ss \in Nat \X Nat : ss[1] < ss[2]}
<1>1. IsWellFoundedOn(R, Nat)
  BY NatLessThanWellFounded DEF OpToRel
<1>2. PICK n \in S : \A m \in S : ~ <<m, n>> \in R
  BY <1>1, WFMin, Zenon
<1>3. \A m \in S : ~ (m < n)
  BY <1>2
<1> QED
  BY <1>3

(* Induction up to N, with the set of the numbers that have the property. *)
LEMMA InductionUpTo ==
    ASSUME NEW N \in Nat, NEW S, 0 \in S, \A n \in 1..N : n - 1 \in S => n \in S
    PROVE  0..N \subseteq S
<1> SUFFICES ASSUME (0..N) \ S # {} PROVE FALSE
  OBVIOUS
<1>1. PICK n \in (0..N) \ S : \A m \in (0..N) \ S : n <= m
  <2>1. (0..N) \ S \in SUBSET Nat
    OBVIOUS
  <2> QED
    BY <2>1, LeastNat
<1>2. n \in 1..N /\ n - 1 \in 0..N
  BY <1>1
<1>3. n - 1 \in S
  BY <1>1, <1>2
<1> QED
  BY <1>1, <1>2, <1>3

(* What Min and Max give where there is a least or a greatest number.      *)
LEMMA LeastIs ==
    ASSUME NEW S \in SUBSET Nat, S # {}
    PROVE  Min(S) \in S /\ \A m \in S : Min(S) <= m
BY LeastNat DEF Min

(* The greatest is the least when counted from above.                      *)
LEMMA GreatestIs ==
    ASSUME NEW N \in Nat, NEW S \in SUBSET (0..N), S # {}
    PROVE  Max(S) \in S /\ \A m \in S : m <= Max(S)
<1> DEFINE T == {t \in 0..N : N - t \in S}
<1>1. PICK t \in T : \A m \in T : t <= m
  <2>1. T \in SUBSET Nat
    OBVIOUS
  <2>2. PICK m \in S : TRUE
    OBVIOUS
  <2>3. N - m \in T
    BY <2>2
  <2> QED
    BY <2>1, <2>3, LeastNat
<1>2. N - t \in S /\ \A m \in S : m <= N - t
  <2>1. ASSUME NEW m \in S PROVE m <= N - t
    <3>1. N - m \in T
      OBVIOUS
    <3> QED
      BY <1>1, <3>1
  <2> QED
    BY <1>1, <2>1
<1> HIDE DEF T
<1>3. \E x \in S : \A y \in S : x >= y
  BY <1>2
<1>4. \A x, y \in S : x >= y <=> y <= x
  OBVIOUS
<1> QED
  BY <1>3, <1>4 DEF Max

(* f has the sums of the first n sizes.                                    *)
Adds(f, n, sizes) ==
    /\ f \in [0..n -> Nat]
    /\ f[0] = 0
    /\ \A k \in 1..n : f[k] = f[k - 1] + sizes[k]

(* The recursion of Sums has a solution on every prefix ...                *)
LEMMA AdditionGrows ==
    ASSUME NEW sizes \in Seq(Nat), NEW n \in 1..Len(sizes), NEW f, Adds(f, n - 1, sizes)
    PROVE  \E g : Adds(g, n, sizes)
<1> DEFINE g == [k \in 0..n |-> IF k = n THEN f[n - 1] + sizes[n] ELSE f[k]]
<1>1. sizes[n] \in Nat /\ n \in Nat /\ n - 1 \in 0..(n - 1)
  OBVIOUS
<1>2. f \in [0..(n - 1) -> Nat] /\ f[n - 1] \in Nat
  BY <1>1 DEF Adds
<1>3. g \in [0..n -> Nat]
  BY <1>1, <1>2, SMTT(30)
<1>4. g[0] = 0
  BY <1>1 DEF Adds
<1>5. ASSUME NEW k \in 1..n PROVE g[k] = g[k - 1] + sizes[k]
  <2>1. k \in 0..n /\ k - 1 \in 0..n /\ k - 1 # n /\ g[k - 1] = f[k - 1]
    BY <1>1
  <2>2. CASE k = n
    BY <2>1, <2>2
  <2>3. CASE k # n
    <3>1. k \in 1..(n - 1)
      BY <1>1, <2>3
    <3>2. f[k] = f[k - 1] + sizes[k]
      BY <3>1, Zenon DEF Adds
    <3> QED
      BY <2>1, <2>3, <3>2
  <2> QED
    BY <2>2, <2>3
<1> HIDE DEF g
<1>6. Adds(g, n, sizes)
  BY <1>3, <1>4, <1>5 DEF Adds
<1> QED
  BY <1>6

(* ... so it has the values its body says.                                 *)
LEMMA SumsAdd ==
    ASSUME NEW sizes \in Seq(Nat)
    PROVE  Adds(Sums(sizes), Len(sizes), sizes)
<1> DEFINE Added == {n \in 0..Len(sizes) : \E f : Adds(f, n, sizes)}
<1>0. Len(sizes) \in Nat
  OBVIOUS
<1>1. 0 \in Added
  <2>1. Adds([k \in 0..0 |-> 0], 0, sizes)
    BY DEF Adds
  <2> QED
    BY <1>0, <2>1
<1>2. ASSUME NEW n \in 1..Len(sizes), n - 1 \in Added PROVE n \in Added
  BY <1>0, <1>2, AdditionGrows
<1> HIDE DEF Added
<1>3. Len(sizes) \in Added
  <2>1. 0..Len(sizes) \subseteq Added
    BY <1>0, <1>1, <1>2, InductionUpTo, Zenon
  <2> QED
    BY <1>0, <2>1
<1>4. PICK f : Adds(f, Len(sizes), sizes)
  BY <1>3 DEF Added
<1>5. f = [k \in 0..Len(sizes) |-> IF k = 0 THEN 0 ELSE f[k - 1] + sizes[k]]
  BY <1>0, <1>4 DEF Adds
<1>6. Sums(sizes) = [k \in 0..Len(sizes) |-> IF k = 0 THEN 0 ELSE Sums(sizes)[k - 1] + sizes[k]]
  BY <1>5 DEF Sums
<1>7. Sums(sizes) \in [0..Len(sizes) -> Nat]
  <2> DEFINE Natural == {k \in 0..Len(sizes) : Sums(sizes)[k] \in Nat}
  <2>1. 0 \in Natural
    BY <1>0, <1>6
  <2>2. ASSUME NEW k \in 1..Len(sizes), k - 1 \in Natural PROVE k \in Natural
    <3>1. sizes[k] \in Nat /\ k # 0 /\ k \in 0..Len(sizes)
      BY <1>0
    <3>2. Sums(sizes)[k] = Sums(sizes)[k - 1] + sizes[k]
      BY <1>6, <3>1
    <3> QED
      BY <2>2, <3>1, <3>2
  <2>3. 0..Len(sizes) \subseteq Natural
    <3> HIDE DEF Natural
    <3> QED
      BY <1>0, <2>1, <2>2, InductionUpTo, Zenon
  <2>4. \A k \in 0..Len(sizes) : Sums(sizes)[k] \in Nat
    BY <2>3
  <2>5. DOMAIN Sums(sizes) = 0..Len(sizes)
    BY <1>6
  <2> QED
    BY <1>6, <2>4, <2>5
<1>8. Sums(sizes)[0] = 0 /\ \A k \in 1..Len(sizes) : Sums(sizes)[k] = Sums(sizes)[k - 1] + sizes[k]
  BY <1>0, <1>6
<1> QED
  BY <1>7, <1>8 DEF Adds

(* Boundaries of characters that have a width all differ.                  *)
LEMMA SumsGrow ==
    ASSUME NEW sizes \in Seq(Nat \ {0}), NEW i \in 0..Len(sizes), NEW j \in 0..Len(sizes), i < j
    PROVE  Sums(sizes)[i] < Sums(sizes)[j]
<1> DEFINE Over == {k \in 0..Len(sizes) : k <= i \/ Sums(sizes)[i] < Sums(sizes)[k]}
<1>0. Len(sizes) \in Nat /\ sizes \in Seq(Nat)
  OBVIOUS
<1>1. Adds(Sums(sizes), Len(sizes), sizes)
  BY <1>0, SumsAdd
<1>2. 0 \in Over
  BY <1>0
<1>3. ASSUME NEW k \in 1..Len(sizes), k - 1 \in Over PROVE k \in Over
  <2>0. sizes[k] \in Nat \ {0} /\ k - 1 \in 0..Len(sizes) /\ k \in 0..Len(sizes)
    BY <1>0
  <2>1. /\ Sums(sizes)[k] = Sums(sizes)[k - 1] + sizes[k]
        /\ Sums(sizes)[k - 1] \in Nat
    BY <1>1, <2>0 DEF Adds
  <2>2. CASE k <= i
    BY <2>0, <2>1, <2>2
  <2>3. CASE k - 1 = i
    BY <2>0, <2>1, <2>3
  <2>4. CASE k > i /\ k - 1 # i
    <3>1. Sums(sizes)[i] < Sums(sizes)[k - 1] /\ Sums(sizes)[i] \in Nat
      BY <1>1, <1>3, <2>0, <2>1, <2>4, SMTT(30) DEF Adds
    <3> QED
      BY <2>0, <2>1, <3>1
  <2> QED
    BY <1>0, <2>0, <2>1, <2>2, <2>3, <2>4
<1>4. 0..Len(sizes) \subseteq Over
  <2> HIDE DEF Over
  <2> QED
    BY <1>0, <1>2, <1>3, InductionUpTo, Zenon
<1> QED
  BY <1>4

(* What is appended moves no boundary.                                     *)
LEMMA SumsStay ==
    ASSUME NEW sizes \in Seq(Nat), NEW longer \in Seq(Nat), Len(sizes) <= Len(longer),
           \A k \in 1..Len(sizes) : longer[k] = sizes[k],
           NEW k \in 0..Len(sizes)
    PROVE  Sums(longer)[k] = Sums(sizes)[k]
<1> DEFINE Same == {n \in 0..Len(sizes) : Sums(longer)[n] = Sums(sizes)[n]}
<1>0. Len(sizes) \in Nat /\ Len(longer) \in Nat
  OBVIOUS
<1>1. Adds(Sums(sizes), Len(sizes), sizes) /\ Adds(Sums(longer), Len(longer), longer)
  BY SumsAdd
<1>2. 0 \in Same
  BY <1>0, <1>1 DEF Adds
<1>3. ASSUME NEW n \in 1..Len(sizes), n - 1 \in Same PROVE n \in Same
  <2>1. n \in 1..Len(longer) /\ n \in 0..Len(sizes)
    BY <1>0
  <2>2. /\ Sums(longer)[n] = Sums(longer)[n - 1] + longer[n]
        /\ Sums(sizes)[n] = Sums(sizes)[n - 1] + sizes[n]
    BY <1>1, <2>1 DEF Adds
  <2> QED
    BY <1>3, <2>1, <2>2
<1>4. 0..Len(sizes) \subseteq Same
  <2> HIDE DEF Same
  <2> QED
    BY <1>0, <1>2, <1>3, InductionUpTo, Zenon
<1> QED
  BY <1>4

(* A character in the ring.                                                *)
Chars == [pipe : Pipes, n : Nat, wide : Nat \ {0}]

(* The boundaries in a text: numbers from 0 on, all different.             *)
LEMMA TextBoundaries ==
    ASSUME NEW t \in Seq(Chars)
    PROVE  /\ \A k \in 0..Len(t) : Wide(t)[k] \in Nat
           /\ Wide(t)[0] = 0
           /\ \A i, j \in 0..Len(t) : i < j => Wide(t)[i] < Wide(t)[j]
<1> DEFINE sizes == [i \in 1..Len(t) |-> t[i].wide]
<1>1. sizes \in Seq(Nat \ {0}) /\ Len(sizes) = Len(t) /\ Len(t) \in Nat
  <2>1. \A i \in 1..Len(t) : t[i].wide \in Nat \ {0}
    <3>1. \A i \in 1..Len(t) : t[i] \in Chars
      OBVIOUS
    <3> QED
      BY <3>1 DEF Chars
  <2> QED
    BY <2>1
<1>2. Wide(t) = Sums(sizes)
  BY DEF Wide
<1> HIDE DEF sizes
<1>3. Adds(Sums(sizes), Len(sizes), sizes)
  <2>1. sizes \in Seq(Nat)
    BY <1>1
  <2> QED
    BY <2>1, SumsAdd
<1>4. \A i, j \in 0..Len(t) : i < j => Wide(t)[i] < Wide(t)[j]
  BY <1>1, <1>2, SumsGrow
<1> QED
  BY <1>1, <1>2, <1>3, <1>4 DEF Adds

(* What is appended to a text moves none of them.                          *)
LEMMA Appended ==
    ASSUME NEW t \in Seq(Chars), NEW u \in Seq(Chars)
    PROVE  /\ t \o u \in Seq(Chars)
           /\ Len(t \o u) = Len(t) + Len(u)
           /\ \A k \in 0..Len(t) : Wide(t \o u)[k] = Wide(t)[k]
<1> DEFINE sizes == [i \in 1..Len(t) |-> t[i].wide]
           longer == [i \in 1..Len(t \o u) |-> (t \o u)[i].wide]
<1>1. /\ t \o u \in Seq(Chars) /\ Len(t \o u) = Len(t) + Len(u)
      /\ Len(t) \in Nat /\ Len(u) \in Nat
      /\ \A i \in 1..Len(t) : (t \o u)[i] = t[i]
  OBVIOUS
<1>2. \A v \in Seq(Chars) : \A i \in 1..Len(v) : v[i].wide \in Nat
  <2>1. \A v \in Seq(Chars) : \A i \in 1..Len(v) : v[i] \in Chars
    OBVIOUS
  <2> QED
    BY <2>1 DEF Chars
<1>3. sizes \in Seq(Nat) /\ longer \in Seq(Nat) /\ Len(sizes) = Len(t) /\ Len(longer) = Len(t \o u)
  BY <1>1, <1>2
<1>4. \A k \in 1..Len(sizes) : longer[k] = sizes[k]
  BY <1>1, <1>3
<1>5. Wide(t) = Sums(sizes) /\ Wide(t \o u) = Sums(longer)
  BY DEF Wide
<1> HIDE DEF sizes, longer
<1>6. ASSUME NEW k \in 0..Len(t) PROVE Sums(longer)[k] = Sums(sizes)[k]
  <2>1. Len(sizes) <= Len(longer) /\ k \in 0..Len(sizes)
    BY <1>1, <1>3
  <2> QED
    BY <1>3, <1>4, <2>1, SumsStay
<1> QED
  BY <1>1, <1>5, <1>6

(* The boundaries in a pipe.                                               *)
LEMMA PipeBoundaries ==
    ASSUME NEW chars \in [1..MaxChars -> Characters]
    PROVE  \A k \in 0..MaxChars : Raw(chars)[k] \in Nat
<1> DEFINE sizes == [i \in 1..Len(chars) |-> chars[i].raw]
<1>1. MaxChars \in Nat
  BY SizeAssumption
<1>2. chars \in Seq(Characters) /\ Len(chars) = MaxChars
  BY <1>1
<1>3. \A i \in 1..MaxChars : chars[i].raw \in Nat
  <2>1. \A i \in 1..MaxChars : chars[i] \in [raw : Nat \ {0}, wide : Nat \ {0}]
    BY CharacterAssumption
  <2> QED
    BY <2>1
<1>4. sizes \in Seq(Nat) /\ Len(sizes) = MaxChars
  BY <1>1, <1>2, <1>3
<1>5. Raw(chars) = Sums(sizes)
  BY DEF Raw
<1> HIDE DEF sizes
<1>6. Adds(Sums(sizes), Len(sizes), sizes)
  BY <1>4, SumsAdd
<1> QED
  BY <1>4, <1>5, <1>6 DEF Adds

-----------------------------------------------------------------------------
(* The types of the readers, the ring and its follower.                    *)
LogTyped ==
    /\ script \in [Pipes -> [1..MaxChars -> Characters]]
    /\ taken \in [Pipes -> 0..MaxChars]
    /\ pending \in [Pipes -> Nat]
    /\ closed \subseteq Pipes
    /\ text \in Seq(Chars)
    /\ dropped \in 0..Len(text)
    /\ page \in [after : Nat, first : Nat, last : 0..Len(text), truncated : BOOLEAN]
    /\ report \in [first : Nat, truncated : BOOLEAN]

(* The client's offset is the boundary after the last page.                *)
Followed == offset = Upto(page.last)

(* A page begins after the last one, or tells that it does not.            *)
PagesMeet ==
    page.last > 0 =>
        IF page.truncated THEN page.first > page.after + 1 ELSE page.first = page.after + 1

LogInv == LogTyped /\ Followed /\ PagesMeet /\ DecodedWhole /\ TailTold

(* Nothing was read or asked yet.                                          *)
LEMMA LogInvInit == LogInit => LogInv
<1> SUFFICES ASSUME LogInit PROVE LogInv
  OBVIOUS
<1>1. MaxChars \in Nat
  BY SizeAssumption
<1>2. LogTyped
  BY <1>1 DEF LogInit, LogTyped, NoPage, NoTail
<1>3. Followed
  <2>1. text \in Seq(Chars) /\ Len(text) \in Nat
    BY <1>2 DEF LogTyped
  <2> QED
    BY <2>1, TextBoundaries DEF LogInit, NoPage, Followed, Upto
<1>4. PagesMeet /\ TailTold
  BY DEF LogInit, NoPage, PagesMeet, TailTold
<1>5. DecodedWhole
  BY <1>1 DEF LogInit, DecodedWhole
<1> QED
  BY <1>2, <1>3, <1>4, <1>5 DEF LogInv

(* What a reader appends to the ring disturbs no follower.                 *)
LEMMA RingKeeps ==
    ASSUME LogInv, NEW u \in Seq(Chars), Appends(u),
           UNCHANGED <<script, offset, page, report>>,
           taken' \in [Pipes -> 0..MaxChars], pending' \in [Pipes -> Nat], closed' \subseteq Pipes
    PROVE  LogTyped' /\ Followed' /\ PagesMeet' /\ TailTold'
<1>1. /\ text' = text \o u /\ text' \in Seq(Chars) /\ Len(text') = Len(text) + Len(u)
      /\ Len(text) \in Nat /\ Len(u) \in Nat
      /\ \A k \in 0..Len(text) : Wide(text')[k] = Wide(text)[k]
  BY Appended DEF LogInv, LogTyped, Appends
<1>2. dropped' \in 0..Len(text')
  <2> DEFINE end == Wide(text')
             S == {k \in dropped..Len(text') : end[Len(text')] - end[k] <= MaxBytes}
  <2>1. dropped' = Min(S)
    BY DEF Appends
  <2>2. dropped \in 0..Len(text')
    BY <1>1 DEF LogInv, LogTyped
  <2>3. Len(text') \in S
    <3>1. MaxBytes \in Nat
      BY SizeAssumption
    <3>2. Len(text') \in 0..Len(text') /\ Len(text') \in dropped..Len(text')
      BY <1>1, <2>2
    <3>3. end[Len(text')] \in Nat
      BY <1>1, <3>2, TextBoundaries
    <3> QED
      BY <3>1, <3>2, <3>3
  <2>4. S \in SUBSET Nat
    BY <1>1, <2>2
  <2>5. Min(S) \in S
    <3> HIDE DEF S
    <3> QED
      BY <2>3, <2>4, LeastIs
  <2> QED
    BY <1>1, <2>1, <2>2, <2>5
<1>3. LogTyped'
  BY <1>1, <1>2 DEF LogInv, LogTyped
<1>4. Followed'
  <2>1. page.last \in 0..Len(text)
    BY DEF LogInv, LogTyped
  <2> QED
    BY <1>1, <2>1 DEF LogInv, Followed, Upto
<1>5. PagesMeet' /\ TailTold'
  BY DEF LogInv, PagesMeet, TailTold
<1> QED
  BY <1>3, <1>4, <1>5

(* What a concatenation consists of.                                       *)
LEMMA Concatenated ==
    ASSUME NEW S, NEW s \in Seq(S), NEW t \in Seq(S)
    PROVE  /\ DOMAIN s = 1..Len(s)
           /\ DOMAIN (s \o t) = 1..(Len(s) + Len(t))
           /\ \A i \in 1..Len(s) : (s \o t)[i] = s[i]
           /\ \A i \in (Len(s) + 1)..(Len(s) + Len(t)) : (s \o t)[i] = t[i - Len(s)]
OBVIOUS

(* A chunk ends anywhere; the characters in it are the next of their pipe. *)
LEMMA ChunkKeeps ==
    ASSUME LogInv, NEW p \in Pipes, NEW n \in Nat, ReadChunk(p, n)
    PROVE  LogInv'
<1> DEFINE k == Complete(p, n)
           u == Decoded(p, k)
           total == Delivered(p, n)
<1>0. /\ LogTyped /\ DecodedWhole /\ MaxChars \in Nat /\ Len(text) \in Nat
      /\ p \notin closed /\ Appends(u)
      /\ taken' = [taken EXCEPT ![p] = k]
      /\ pending' = [pending EXCEPT ![p] = total - Raw(script[p])[k]]
      /\ UNCHANGED <<script, closed, offset, page, report>>
  BY SizeAssumption DEF ReadChunk, LogInv, LogTyped
<1>1. /\ taken[p] \in 0..MaxChars /\ pending[p] \in Nat
      /\ script[p] \in [1..MaxChars -> Characters] /\ text \in Seq(Chars)
  BY <1>0 DEF LogTyped
<1>2. \A i \in 0..MaxChars : Raw(script[p])[i] \in Nat
  BY <1>1, PipeBoundaries
<1>3. total \in Nat /\ Raw(script[p])[taken[p]] <= total
  BY <1>1, <1>2 DEF Delivered
<1>4. k \in taken[p]..MaxChars /\ Raw(script[p])[k] <= total
  <2> DEFINE S == {i \in taken[p]..MaxChars : Raw(script[p])[i] <= total}
  <2>1. S \in SUBSET (0..MaxChars) /\ taken[p] \in S
    BY <1>0, <1>1, <1>3
  <2>2. k = Max(S)
    BY DEF Complete
  <2>3. Max(S) \in S
    <3> HIDE DEF S
    <3> QED
      BY <1>0, <2>1, GreatestIs
  <2> QED
    BY <2>2, <2>3
<1> HIDE DEF k, total
<1>5. total - Raw(script[p])[k] \in Nat
  BY <1>1, <1>2, <1>3, <1>4
<1>6. /\ u \in Seq(Chars) /\ Len(u) = k - taken[p]
      /\ \A i \in 1..Len(u) : u[i] = Marked(p, taken[p] + i, script[p][taken[p] + i])
  <2>1. k - taken[p] \in Nat
    BY <1>1, <1>4
  <2>2. ASSUME NEW i \in 1..(k - taken[p])
        PROVE  Marked(p, taken[p] + i, script[p][taken[p] + i]) \in Chars
    <3>1. taken[p] + i \in 1..MaxChars
      BY <1>0, <1>1, <1>4, <2>2
    <3>2. script[p][taken[p] + i].wide \in Nat \ {0}
      <4>1. script[p][taken[p] + i] \in [raw : Nat \ {0}, wide : Nat \ {0}]
        BY <1>1, <3>1, CharacterAssumption
      <4> QED
        BY <4>1
    <3> QED
      BY <3>1, <3>2 DEF Marked, Chars
  <2> QED
    BY <2>1, <2>2 DEF Decoded
<1> HIDE DEF u
<1>7. taken' \in [Pipes -> 0..MaxChars] /\ pending' \in [Pipes -> Nat] /\ closed' \subseteq Pipes
  BY <1>0, <1>1, <1>4, <1>5 DEF LogTyped
<1>8. LogTyped' /\ Followed' /\ PagesMeet' /\ TailTold'
  BY <1>0, <1>6, <1>7, RingKeeps
<1>9. /\ text' = text \o u /\ DOMAIN text = 1..Len(text) /\ DOMAIN text' = 1..(Len(text) + Len(u))
      /\ \A i \in 1..Len(text) : text'[i] = text[i]
      /\ \A i \in (Len(text) + 1)..(Len(text) + Len(u)) : text'[i] = u[i - Len(text)]
  <2>1. text' = text \o u
    BY <1>0, <1>1, <1>6, Zenon DEF Appends
  <2>2. text \in Seq(Chars)
    BY <1>0, Zenon DEF LogTyped
  <2> QED
    BY <1>6, <2>1, <2>2, Concatenated
<1>10. ASSUME NEW i \in (Len(text) + 1)..(Len(text) + Len(u))
       PROVE  /\ text'[i].pipe = p
              /\ text'[i].n = taken[p] + i - Len(text)
              /\ text'[i].n \in (taken[p] + 1)..k
              /\ text'[i].wide = script[p][text'[i].n].wide
  <2>0. Len(text) \in Nat /\ taken[p] \in Nat /\ k \in Nat /\ Len(u) = k - taken[p]
    BY <1>0, <1>1, <1>4, <1>6
  <2>1. i - Len(text) \in 1..Len(u) /\ taken[p] + (i - Len(text)) \in (taken[p] + 1)..k
    <3>1. \A l, m, t, x \in Nat : m = x - t =>
             \A j \in (l + 1)..(l + m) : j - l \in 1..m /\ t + (j - l) \in (t + 1)..x
      OBVIOUS
    <3>2. Len(u) \in Nat
      BY <1>6
    <3> QED
      BY <2>0, <3>1, <3>2, Zenon
  <2>2. text'[i] = Marked(p, taken[p] + (i - Len(text)), script[p][taken[p] + (i - Len(text))])
    BY <1>6, <1>9, <2>1
  <2>3. taken[p] + (i - Len(text)) = taken[p] + i - Len(text)
    BY <1>0, <1>1
  <2> QED
    BY <2>1, <2>2, <2>3 DEF Marked
<1>11. DecodedWhole'
  <2> SUFFICES ASSUME NEW q \in Pipes
               PROVE  LET of == {i \in DOMAIN text' : text'[i].pipe = q}
                      IN  /\ \A i, j \in of : i < j => text'[i].n < text'[j].n
                          /\ \A m \in 1..taken'[q] : \E i \in of : text'[i].n = m
                          /\ \A i \in of :
                                \/ /\ text'[i].n \in 1..taken'[q]
                                   /\ text'[i].wide = script[q][text'[i].n].wide
                                \/ /\ text'[i].n = taken'[q] + 1 /\ q \in closed
                                   /\ text'[i].wide = Replacement.wide
    BY <1>0 DEF DecodedWhole
  <2> DEFINE was == {i \in DOMAIN text : text[i].pipe = q}
             of == {i \in DOMAIN text' : text'[i].pipe = q}
             new == (Len(text) + 1)..(Len(text) + Len(u))
  <2>1. /\ \A i, j \in was : i < j => text[i].n < text[j].n
        /\ \A m \in 1..taken[q] : \E i \in was : text[i].n = m
        /\ \A i \in was :
              \/ text[i].n \in 1..taken[q] /\ text[i].wide = script[q][text[i].n].wide
              \/ text[i].n = taken[q] + 1 /\ q \in closed /\ text[i].wide = Replacement.wide
    BY <1>0 DEF DecodedWhole
  <2>2. \A i \in was : i \in of /\ text'[i] = text[i] /\ i <= Len(text)
    BY <1>0, <1>6, <1>9
  <2>3. CASE q # p
    <3>1. of = was /\ taken'[q] = taken[q]
      BY <1>0, <1>9, <1>10, <2>2, <2>3
    <3> QED
      BY <2>1, <2>2, <3>1
  <2>4. CASE q = p
    <3>1. of = was \cup new /\ taken'[p] = k
      <4>1. taken'[p] = k
        BY <1>0 DEF LogTyped
      <4>2. of \subseteq was \cup new
        BY <1>0, <1>6, <1>9
      <4>3. new \subseteq of
        BY <1>0, <1>6, <1>9, <1>10, <2>4
      <4> QED
        BY <2>2, <4>1, <4>2, <4>3
    <3>2. \A i \in was : text[i].n \in 1..taken[p] /\ text[i].wide = script[p][text[i].n].wide
      BY <1>0, <2>1, <2>4
    <3>3. \A i, j \in of : i < j => text'[i].n < text'[j].n
      <4>1. \A i \in was, j \in new : text'[i].n < text'[j].n
        <5>1. \A i \in was : text'[i].n \in 1..taken[p]
          BY <2>2, <3>2, Zenon
        <5>2. \A j \in new : text'[j].n \in (taken[p] + 1)..k
          BY <1>10, Zenon
        <5>3. taken[p] \in Nat /\ k \in Nat
          BY <1>1, <1>4
        <5>4. \A a \in 1..taken[p], b \in (taken[p] + 1)..k : a < b
          BY <5>3
        <5> QED
          BY <5>1, <5>2, <5>4, Zenon
      <4>2. \A i, j \in new : i < j => text'[i].n < text'[j].n
        BY <1>0, <1>1, <1>10, SMTT(30)
      <4>3. \A i \in was, j \in new : i < j /\ ~(j < i)
        <5>1. Len(text) \in Nat /\ Len(u) \in Nat /\ was \subseteq 1..Len(text)
          BY <1>0, <1>6, <1>9
        <5> QED
          BY <5>1
      <4>4. \A i, j \in was : i < j => text'[i].n < text'[j].n
        BY <2>1, <2>2, Zenon
      <4> QED
        BY <3>1, <4>1, <4>2, <4>3, <4>4, Zenon
    <3>4. ASSUME NEW m \in 1..taken'[p] PROVE \E i \in of : text'[i].n = m
      <4>1. CASE m <= taken[p]
        BY <1>1, <2>1, <2>2, <2>4, <4>1
      <4>2. CASE m > taken[p]
        <5>1. m - taken[p] + Len(text) \in new
          BY <1>0, <1>1, <1>4, <1>6, <3>1, <4>2
        <5>2. text'[m - taken[p] + Len(text)].n = m
          BY <1>0, <1>1, <1>10, <3>1, <5>1, SMTT(30)
        <5> QED
          BY <3>1, <5>1, <5>2
      <4> QED
        BY <1>1, <1>4, <3>1, <4>1, <4>2
    <3>5. \A i \in of : text'[i].n \in 1..k /\ text'[i].wide = script[p][text'[i].n].wide
      <4>1. 1..taken[p] \subseteq 1..k /\ (taken[p] + 1)..k \subseteq 1..k
        BY <1>1, <1>4
      <4>2. \A i \in was : text'[i].n \in 1..k /\ text'[i].wide = script[p][text'[i].n].wide
        BY <2>2, <3>2, <4>1, Zenon
      <4>3. \A i \in new : text'[i].n \in 1..k /\ text'[i].wide = script[p][text'[i].n].wide
        BY <1>10, <4>1, Zenon
      <4> QED
        BY <3>1, <4>2, <4>3, Zenon
    <3> QED
      BY <2>4, <3>1, <3>3, <3>4, <3>5
  <2> QED
    BY <2>3, <2>4
<1> QED
  BY <1>8, <1>11 DEF LogInv

(* The end of a pipe adds one character at most, for one that was cut off. *)
LEMMA EofKeeps ==
    ASSUME LogInv, NEW p \in Pipes, ReadEof(p)
    PROVE  LogInv'
<1> DEFINE u == IF pending[p] = 0 THEN <<>> ELSE <<Marked(p, taken[p] + 1, Replacement)>>
<1>0. /\ LogTyped /\ DecodedWhole /\ MaxChars \in Nat /\ Len(text) \in Nat /\ text \in Seq(Chars)
      /\ p \notin closed /\ closed' = closed \cup {p} /\ Appends(u)
      /\ pending' = [pending EXCEPT ![p] = 0]
      /\ taken[p] \in Nat
      /\ UNCHANGED <<script, taken, offset, page, report>>
  BY SizeAssumption DEF ReadEof, LogInv, LogTyped
<1>1. /\ u \in Seq(Chars) /\ Len(u) \in {0, 1}
      /\ \A i \in 1..Len(u) : i = 1 /\ u[i] = Marked(p, taken[p] + 1, Replacement)
  <2>1. Marked(p, taken[p] + 1, Replacement) \in Chars
    BY <1>0 DEF Marked, Chars, Replacement
  <2> QED
    BY <2>1
<1> HIDE DEF u
<1>2. taken' \in [Pipes -> 0..MaxChars] /\ pending' \in [Pipes -> Nat] /\ closed' \subseteq Pipes
  BY <1>0 DEF LogTyped
<1>3. LogTyped' /\ Followed' /\ PagesMeet' /\ TailTold'
  BY <1>0, <1>1, <1>2, RingKeeps
<1>4. /\ text' = text \o u /\ DOMAIN text = 1..Len(text) /\ DOMAIN text' = 1..(Len(text) + Len(u))
      /\ \A i \in 1..Len(text) : text'[i] = text[i]
      /\ \A i \in (Len(text) + 1)..(Len(text) + Len(u)) : text'[i] = u[i - Len(text)]
  BY <1>0, <1>1 DEF Appends
<1>5. ASSUME NEW i \in (Len(text) + 1)..(Len(text) + Len(u))
      PROVE  /\ i = Len(text) + 1
             /\ text'[i].pipe = p /\ text'[i].n = taken[p] + 1
             /\ text'[i].wide = Replacement.wide
  <2>1. i - Len(text) \in 1..Len(u) /\ i = Len(text) + 1
    BY <1>0, <1>1
  <2>2. text'[i] = Marked(p, taken[p] + 1, Replacement)
    BY <1>1, <1>4, <2>1
  <2> QED
    BY <2>1, <2>2 DEF Marked
<1>6. DecodedWhole'
  <2> SUFFICES ASSUME NEW q \in Pipes
               PROVE  LET of == {i \in DOMAIN text' : text'[i].pipe = q}
                      IN  /\ \A i, j \in of : i < j => text'[i].n < text'[j].n
                          /\ \A m \in 1..taken[q] : \E i \in of : text'[i].n = m
                          /\ \A i \in of :
                                \/ /\ text'[i].n \in 1..taken[q]
                                   /\ text'[i].wide = script[q][text'[i].n].wide
                                \/ /\ text'[i].n = taken[q] + 1 /\ q \in closed'
                                   /\ text'[i].wide = Replacement.wide
    BY <1>0 DEF DecodedWhole
  <2> DEFINE was == {i \in DOMAIN text : text[i].pipe = q}
             of == {i \in DOMAIN text' : text'[i].pipe = q}
             new == (Len(text) + 1)..(Len(text) + Len(u))
  <2>1. /\ \A i, j \in was : i < j => text[i].n < text[j].n
        /\ \A m \in 1..taken[q] : \E i \in was : text[i].n = m
        /\ \A i \in was :
              \/ text[i].n \in 1..taken[q] /\ text[i].wide = script[q][text[i].n].wide
              \/ text[i].n = taken[q] + 1 /\ q \in closed /\ text[i].wide = Replacement.wide
    BY <1>0 DEF DecodedWhole
  <2>2. \A i \in was : i \in of /\ text'[i] = text[i] /\ i \in 1..Len(text)
    BY <1>0, <1>1, <1>4
  <2>3. CASE q # p
    <3>1. of = was
      BY <1>0, <1>4, <1>5, <2>2, <2>3
    <3> QED
      BY <1>0, <2>1, <2>2, <3>1
  <2>4. CASE q = p
    <3>1. of \subseteq was \cup new
      BY <1>0, <1>1, <1>4
    <3>2. \A i \in was : text[i].n \in 1..taken[p] /\ text[i].wide = script[p][text[i].n].wide
      BY <1>0, <2>1, <2>4
    <3>3. \A i, j \in of : i < j => text'[i].n < text'[j].n
      <4>1. \A i \in was, j \in new : text'[i].n < text'[j].n
        BY <1>0, <1>5, <2>2, <3>2
      <4>2. \A i \in new, j \in was : ~(i < j)
        BY <1>0, <2>2
      <4>3. \A i, j \in new : ~(i < j)
        BY <1>0, <1>5
      <4> QED
        BY <2>1, <2>2, <3>1, <4>1, <4>2, <4>3
    <3>4. \A m \in 1..taken[q] : \E i \in of : text'[i].n = m
      BY <2>1, <2>2
    <3>5. \A i \in of :
             \/ text'[i].n \in 1..taken[q] /\ text'[i].wide = script[q][text'[i].n].wide
             \/ text'[i].n = taken[q] + 1 /\ q \in closed' /\ text'[i].wide = Replacement.wide
      BY <1>0, <1>5, <2>2, <2>4, <3>1, <3>2
    <3> QED
      BY <3>3, <3>4, <3>5
  <2> QED
    BY <2>3, <2>4
<1> QED
  BY <1>3, <1>6 DEF LogInv

(* The boundaries around the ring, for whoever reads it.                   *)
LEMMA RingIs ==
    ASSUME LogInv
    PROVE  /\ Len(text) \in Nat /\ dropped \in 0..Len(text) /\ page.last \in 0..Len(text)
           /\ \A k \in 0..Len(text) : Upto(k) \in Nat
           /\ \A i, j \in 0..Len(text) : i < j => Upto(i) < Upto(j)
           /\ Upto(0) = 0 /\ offset = Upto(page.last)
           /\ offset < Start <=> page.last < dropped
<1>1. text \in Seq(Chars) /\ Len(text) \in Nat /\ dropped \in 0..Len(text) /\ page.last \in 0..Len(text)
  BY DEF LogInv, LogTyped
<1>2. /\ \A k \in 0..Len(text) : Upto(k) \in Nat
      /\ \A i, j \in 0..Len(text) : i < j => Upto(i) < Upto(j)
      /\ Upto(0) = 0
  BY <1>1, TextBoundaries DEF Upto
<1>3. offset = Upto(page.last)
  BY DEF LogInv, Followed
<1>4. offset < Start <=> page.last < dropped
  <2>1. page.last < dropped => Upto(page.last) < Upto(dropped)
    BY <1>1, <1>2
  <2>2. dropped < page.last => Upto(dropped) < Upto(page.last)
    BY <1>1, <1>2
  <2>3. page.last = dropped \/ page.last < dropped \/ dropped < page.last
    BY <1>1
  <2>4. Upto(page.last) \in Nat /\ Upto(dropped) \in Nat
    BY <1>1, <1>2
  <2> QED
    BY <1>1, <1>3, <2>1, <2>2, <2>3, <2>4 DEF Start
<1> QED
  BY <1>1, <1>2, <1>3, <1>4

(* An answer begins where the last one ended, or at the ring's start.      *)
LEMMA AnswerKeeps ==
    ASSUME LogInv, NEW k \in dropped..Len(text), NEW last \in k..Len(text), Answers(k + 1, last),
           k = IF page.last < dropped THEN dropped ELSE page.last
    PROVE  LogInv'
<1>1. /\ page' = [after |-> page.last, first |-> k + 1, last |-> last, truncated |-> offset < Start]
      /\ offset' = Upto(last)
      /\ UNCHANGED <<script, taken, pending, closed, text, dropped, report>>
  BY DEF Answers, NextOffset
<1>2. /\ Len(text) \in Nat /\ dropped \in 0..Len(text) /\ page.last \in 0..Len(text)
      /\ offset < Start <=> page.last < dropped
  BY RingIs
<1>3. last \in 0..Len(text) /\ k \in Nat
  BY <1>2
<1>4. LogTyped'
  BY <1>1, <1>2, <1>3 DEF LogInv, LogTyped
<1>5. Followed'
  BY <1>1 DEF Followed, Upto
<1>6. PagesMeet'
  <2>1. page'.after = page.last /\ page'.first = k + 1 /\ (page'.truncated <=> page.last < dropped)
    BY <1>1, <1>2
  <2> QED
    BY <1>2, <1>3, <2>1 DEF PagesMeet
<1>7. DecodedWhole' /\ TailTold'
  BY <1>1 DEF LogInv, DecodedWhole, TailTold
<1> QED
  BY <1>4, <1>5, <1>6, <1>7 DEF LogInv

(* Every answer to the client, with something new or without.              *)
LEMMA ReadsKeep ==
    ASSUME LogInv, NothingNew \/ \E limit \in Limits \cup {Unlimited} : TakePage(limit)
    PROVE  LogInv'
<1> DEFINE from == IF page.last < dropped THEN dropped ELSE page.last
<1>1. /\ Len(text) \in Nat /\ dropped \in 0..Len(text) /\ page.last \in 0..Len(text)
      /\ \A k \in 0..Len(text) : Upto(k) \in Nat
      /\ \A i, j \in 0..Len(text) : i < j => Upto(i) < Upto(j)
      /\ offset = Upto(page.last)
      /\ offset < Start <=> page.last < dropped
  BY RingIs
<1>2. from \in dropped..Len(text) /\ Asked = Upto(from)
  BY <1>1 DEF Asked, Start
<1> HIDE DEF from
<1>3. CASE NothingNew
  <2>1. from = Len(text)
    <3>1. from < Len(text) => Upto(from) < Upto(Len(text))
      BY <1>1, <1>2
    <3>2. Upto(from) >= Upto(Len(text)) /\ Upto(from) \in Nat /\ Upto(Len(text)) \in Nat
      BY <1>1, <1>2, <1>3 DEF NothingNew, Total
    <3>3. /\ Len(text) \in Nat /\ from \in Nat /\ from <= Len(text)
      BY <1>1, <1>2
    <3>4. ~(from < Len(text))
      BY <3>1, <3>2
    <3>5. \A a, b \in Nat : a <= b /\ ~(a < b) => a = b
      OBVIOUS
    <3> QED
      BY <3>3, <3>4, <3>5, Zenon
  <2>2. Answers(from + 1, Len(text)) /\ Len(text) \in from..Len(text)
    BY <1>1, <1>3, <2>1 DEF NothingNew
  <2> QED
    BY <1>2, <2>2, AnswerKeeps DEF from
<1>4. ASSUME NEW limit \in Limits \cup {Unlimited}, TakePage(limit) PROVE LogInv'
  <2>1. PICK k \in At(Asked) :
          LET end == Max({j \in k..Len(text) : Upto(j) - Upto(k) <= limit})
          IN  end > k /\ Answers(k + 1, end)
    BY <1>4 DEF TakePage
  <2> DEFINE S == {j \in k..Len(text) : Upto(j) - Upto(k) <= limit}
  <2>2. k = from
    <3>1. k \in dropped..Len(text) /\ Upto(k) = Upto(from)
      BY <1>2, <2>1 DEF At
    <3>2. /\ k < from => Upto(k) < Upto(from)
          /\ from < k => Upto(from) < Upto(k)
          /\ Upto(k) \in Nat
      BY <1>1, <1>2, <3>1
    <3> QED
      BY <1>1, <1>2, <3>1, <3>2
  <2>3. Max(S) > k /\ Answers(k + 1, Max(S))
    BY <2>1
  <2>4. Max(S) \in k..Len(text)
    <3>1. S \in SUBSET (0..Len(text))
      BY <1>1, <1>2, <2>2
    <3>2. k \in S
      <4>1. limit \in Nat
        BY SizeAssumption DEF Unlimited
      <4>2. k \in k..Len(text) /\ Upto(k) \in Nat
        BY <1>1, <1>2, <2>2
      <4> QED
        BY <4>1, <4>2
    <3>3. Max(S) \in S
      <4> HIDE DEF S
      <4> QED
        BY <1>1, <3>1, <3>2, GreatestIs
    <3> QED
      BY <3>3
  <2> HIDE DEF S
  <2> QED
    BY <1>2, <2>2, <2>3, <2>4, AnswerKeeps DEF from
<1> QED
  BY <1>3, <1>4

(* The callback says what it leaves out.                                   *)
LEMMA TailKeeps ==
    ASSUME LogInv, NEW max \in Nat, SendTail(max)
    PROVE  LogInv'
<1> DEFINE S == {i \in dropped..Len(text) : Total - Upto(i) <= max}
<1>1. /\ Len(text) \in Nat /\ dropped \in 0..Len(text)
      /\ \A k \in 0..Len(text) : Upto(k) \in Nat
      /\ \A i, j \in 0..Len(text) : i < j => Upto(i) < Upto(j)
      /\ Upto(0) = 0
  BY RingIs
<1>2. Min(S) \in S
  <2>1. S \in SUBSET Nat
    BY <1>1
  <2>2. Len(text) \in S
    BY <1>1 DEF Total
  <2> HIDE DEF S
  <2> QED
    BY <2>1, <2>2, LeastIs
<1>3. PICK k \in 0..Len(text) : report' = [first |-> k + 1, truncated |-> Total - Upto(k) < Total]
  <2>1. Min(S) \in 0..Len(text)
    BY <1>1, <1>2
  <2>2. report' = [first |-> Min(S) + 1, truncated |-> Total - Upto(Min(S)) < Total]
    BY DEF SendTail, TailAfter
  <2> HIDE DEF S
  <2> QED
    BY <2>1, <2>2
<1>4. UNCHANGED <<script, taken, pending, closed, text, dropped, offset, page>>
  BY DEF SendTail
<1>5. LogTyped' /\ Followed' /\ PagesMeet' /\ DecodedWhole'
  BY <1>1, <1>3, <1>4 DEF LogInv, LogTyped, Followed, Upto, PagesMeet, DecodedWhole
<1>6. TailTold'
  <2>1. Total \in Nat /\ Upto(k) \in Nat /\ (k > 0 <=> Upto(k) > 0)
    <3>1. Total \in Nat /\ Upto(k) \in Nat /\ 0 \in 0..Len(text)
      BY <1>1 DEF Total
    <3>2. k > 0 => Upto(k) > 0
      BY <1>1, <3>1
    <3> QED
      BY <1>1, <3>1, <3>2
  <2>2. Total - Upto(k) < Total <=> k + 1 > 1
    BY <2>1
  <2> QED
    BY <1>3, <2>2 DEF TailTold
<1> QED
  BY <1>5, <1>6 DEF LogInv

(* Every step of the readers, of the client and of the callback.           *)
LEMMA LogInvNext == LogInv /\ [LogNext]_logVars => LogInv'
<1> SUFFICES ASSUME LogInv, [LogNext]_logVars PROVE LogInv'
  OBVIOUS
<1>1. ASSUME NEW p \in Pipes, NEW n \in 1..Raw(script[p])[MaxChars], ReadChunk(p, n) PROVE LogInv'
  <2>1. script[p] \in [1..MaxChars -> Characters]
    BY DEF LogInv, LogTyped
  <2>2. Raw(script[p])[MaxChars] \in Nat
    <3>1. MaxChars \in 0..MaxChars
      BY SizeAssumption
    <3> QED
      BY <2>1, <3>1, PipeBoundaries
  <2>3. n \in Nat
    BY <2>2
  <2> QED
    BY <1>1, <2>3, ChunkKeeps
<1>2. ASSUME NEW p \in Pipes, ReadEof(p) PROVE LogInv'
  BY <1>2, EofKeeps
<1>3. CASE NothingNew \/ \E limit \in Limits \cup {Unlimited} : TakePage(limit)
  BY <1>3, ReadsKeep
<1>4. ASSUME NEW max \in {TailBytes, FallbackBytes}, SendTail(max) PROVE LogInv'
  <2>1. max \in Nat
    BY SizeAssumption
  <2> QED
    BY <1>4, <2>1, TailKeeps
<1>5. CASE UNCHANGED logVars
  BY <1>5 DEF logVars, LogInv, LogTyped, Followed, Upto, PagesMeet, DecodedWhole, TailTold
<1> QED
  BY <1>1, <1>2, <1>3, <1>4, <1>5 DEF LogNext

(* Whatever a session prints and however its ring, its chunks and its      *)
(* client's pages cut it: nothing is decoded twice, torn or out of order,  *)
(* the offset a client was given is answered, and what the ring or the     *)
(* callback left out is said to be left out.                               *)
THEOREM OutputKept == LogSpec => []OutputFaithful
<1>1. LogInv => OutputFaithful
  <2> SUFFICES ASSUME LogInv PROVE OutputFaithful
    OBVIOUS
  <2>1. /\ Len(text) \in Nat /\ dropped \in 0..Len(text) /\ page.last \in 0..Len(text)
        /\ offset = Upto(page.last) /\ (offset < Start <=> page.last < dropped)
    BY RingIs
  <2>2. At(Asked) # {}
    <3>1. CASE page.last < dropped
      <4>1. dropped \in At(Asked)
        BY <2>1, <3>1 DEF At, Asked, Start
      <4> QED
        BY <4>1
    <3>2. CASE ~(page.last < dropped)
      <4>1. page.last \in At(Asked)
        BY <2>1, <3>2 DEF At, Asked, Start
      <4> QED
        BY <4>1
    <3> QED
      BY <3>1, <3>2
  <2>3. PagesMeet /\ DecodedWhole /\ TailTold
    BY DEF LogInv
  <2> QED
    BY <2>2, <2>3 DEF OutputFaithful, FollowedWhole, PagesMeet
<1> QED
  BY <1>1, LogInvInit, LogInvNext, PTL DEF LogSpec
=============================================================================
