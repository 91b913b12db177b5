----------------------------- MODULE MainProofs -----------------------------
(***************************************************************************)
(* Theorems about Main and Timing, for a ring of any length, frames of any *)
(* duration, ticks that take any time and sleeps that end at any time.     *)
(***************************************************************************)
EXTENDS Main, GeoProofs, FiniteSetTheorems

-----------------------------------------------------------------------------
(* The lifecycle.  The tty is the shell's until the constructor takes its  *)
(* two steps, and again after the destructor's; the modes are never any    *)
(* but the two that the program changes.                                   *)
TtyInv ==
  /\ lflag \subseteq Modes
  /\ pc \in {"begin", "world", "enter", "killed", "cooked", "exited"} => view = Shell
  /\ pc \in {"begin", "world", "enter", "killed", "raw", "exited"} => lflag = Modes

(* Whenever main returns, or is killed before it began, the tty is as the  *)
(* shell had it: wherever interrupts come.                                 *)
THEOREM TtyIsGivenBack == Spec => []GivesTheTtyBack
<1>1. Init => TtyInv
  BY DEF Init, TtyInv
<1>2. TtyInv /\ [Next]_mainVars => TtyInv'
  <2> SUFFICES ASSUME TtyInv, [Next]_mainVars PROVE TtyInv'
    OBVIOUS
  <2> USE DEF TtyInv
  <2>1. CASE InstallHandlers
    BY <2>1 DEF InstallHandlers, ttyVars
  <2>2. CASE MakeWorld
    BY <2>2 DEF MakeWorld, ttyVars
  <2>3. CASE EnterScreen
    BY <2>3 DEF EnterScreen
  <2>4. CASE EnterRaw
    BY <2>4 DEF EnterRaw
  <2>5. CASE \E late \in Late : Iterate(late)
    BY <2>5 DEF Iterate, ttyVars
  <2>6. CASE StartFrame
    BY <2>6 DEF StartFrame, ttyVars
  <2>7. CASE \E work \in Work : EndFrame(work)
    BY <2>7 DEF EndFrame, ttyVars
  <2>8. CASE LeaveScreen
    BY <2>8 DEF LeaveScreen
  <2>9. CASE LeaveRaw
    BY <2>9 DEF LeaveRaw, RestoredModes
  <2>10. CASE SigintDefault
    BY <2>10 DEF SigintDefault, ttyVars
  <2>11. CASE sigintHandler
    BY <2>11 DEF sigintHandler, ttyVars
  <2>12. CASE segfaultHandler
    BY <2>12 DEF segfaultHandler, ttyVars
  <2>13. CASE UNCHANGED mainVars
    BY <2>13 DEF mainVars, ttyVars
  <2> QED BY <2>1, <2>2, <2>3, <2>4, <2>5, <2>6, <2>7, <2>8, <2>9, <2>10, <2>11, <2>12, <2>13
          DEF Next, Run, Rest
<1>3. TtyInv => GivesTheTtyBack
  BY DEF TtyInv, GivesTheTtyBack
<1> QED BY <1>1, <1>2, <1>3, PTL DEF Spec

(* The interrupts.  A tick is begun after one only if it came between the  *)
(* loop's test and start, so then main is past start for the last time.    *)
StopInv ==
  /\ overrun \in {0, 1}
  /\ g_done \in BOOLEAN
  /\ overrun = 1 => /\ g_done = TRUE
                    /\ pc \in {"tick", "loop", "cooked"} \cup Ended

(* After an interrupt at most one more tick begins.                        *)
THEOREM StopIsPrompt == Spec => []StopsPromptly
<1>1. ASSUME Init PROVE StopInv
  <2>1. overrun = 0 /\ g_done = FALSE
    BY <1>1 DEF Init
  <2>2. g_done \in BOOLEAN
    BY <2>1
  <2>3. overrun \in {0, 1} /\ overrun # 1
    BY <2>1
  <2> QED BY <2>2, <2>3 DEF StopInv
<1>2. StopInv /\ [Next]_mainVars => StopInv'
  <2> SUFFICES ASSUME StopInv, [Next]_mainVars PROVE StopInv'
    OBVIOUS
  <2> USE DEF StopInv, Ended
  <2>1. CASE InstallHandlers
    BY <2>1 DEF InstallHandlers
  <2>2. CASE MakeWorld
    BY <2>2 DEF MakeWorld
  <2>3. CASE EnterScreen
    BY <2>3 DEF EnterScreen
  <2>4. CASE EnterRaw
    BY <2>4 DEF EnterRaw
  <2>5. CASE \E late \in Late : Iterate(late)
    <3>1. pc = "loop" /\ pc' = "start" /\ g_done = FALSE /\ overrun' = overrun /\ g_done' = g_done
      BY <2>5 DEF Iterate, GoesOn
    <3> QED BY <3>1
  <2>6. CASE StartFrame
    BY <2>6 DEF StartFrame
  <2>7. CASE \E work \in Work : EndFrame(work)
    BY <2>7 DEF EndFrame
  <2>8. CASE LeaveScreen
    BY <2>8 DEF LeaveScreen
  <2>9. CASE LeaveRaw
    BY <2>9 DEF LeaveRaw
  <2>10. CASE SigintDefault
    BY <2>10 DEF SigintDefault
  <2>11. CASE sigintHandler
    BY <2>11 DEF sigintHandler
  <2>12. CASE segfaultHandler
    BY <2>12 DEF segfaultHandler
  <2>13. CASE UNCHANGED mainVars
    BY <2>13 DEF mainVars
  <2> QED BY <2>1, <2>2, <2>3, <2>4, <2>5, <2>6, <2>7, <2>8, <2>9, <2>10, <2>11, <2>12, <2>13
          DEF Next, Run, Rest
<1>3. StopInv => StopsPromptly
  BY DEF StopInv, StopsPromptly
<1> QED BY <1>1, <1>2, <1>3, PTL DEF Spec

-----------------------------------------------------------------------------
(* The clock.  Its values are 64 bits of nanoseconds since the machine was *)
(* started: they do not overflow for centuries, and the theorems about     *)
(* times are about behaviours in which they do not.                        *)
ClockFits == now + kNanosPerSecond < Word

(* The delays, of which block takes the least.                             *)
LEMMA Delays ==
  /\ kNanosPerFrame \in Nat /\ kNanosMinDelay \in Nat
  /\ kNanosMinDelay <= kNanosPerFrame
  /\ kNanosPerFrame <= kNanosPerSecond
<1>1. /\ kFPS \in Nat \ {0} /\ kNanosPerSecond \in Nat
      /\ kNanosPerFrame = kNanosPerSecond \div kFPS /\ kNanosPerFrame > 0
  BY TimingAssumption DEF kNanosPerFrame
<1>2. kNanosPerFrame \in Int /\ kFPS * kNanosPerFrame <= kNanosPerSecond
  BY <1>1, DivBounds
<1>3. 1 * kNanosPerFrame <= kFPS * kNanosPerFrame
  BY <1>1, <1>2
<1>4. kNanosMinDelay = (9 * kNanosPerFrame) \div 10
  BY DEF kNanosMinDelay
<1>5. /\ kNanosMinDelay \in Int
      /\ 10 * kNanosMinDelay <= 9 * kNanosPerFrame
      /\ 9 * kNanosPerFrame < 10 * kNanosMinDelay + 10
  BY <1>2, <1>4, DivBounds
<1> QED BY <1>1, <1>2, <1>3, <1>5

(* The slots, and how the current one and the newest move.                 *)
LEMMA SlotFacts ==
  ASSUME NEW n \in Nat
  PROVE  /\ kFPS \in Nat \ {0}
         /\ n % kFPS \in Slots
         /\ (n + 1) % kFPS = IF n % kFPS = kFPS - 1 THEN 0 ELSE (n % kFPS) + 1
         /\ (n + kFPS - 1) % kFPS = IF n % kFPS = 0 THEN kFPS - 1 ELSE (n % kFPS) - 1
<1> DEFINE d == kFPS
           q == n \div d
           r == n % d
<1>1. d \in Nat \ {0}
  BY TimingAssumption
<1> HIDE DEF d
<1>2. q \in Int /\ r \in 0 .. d - 1 /\ n = d * q + r /\ d * q \in Int
  BY <1>1, ModRange, DivBounds
<1> HIDE DEF q, r
<1>3. d * (q + 1) = d * q + d
  BY <1>1, <1>2
<1>4. (n + 1) % d = IF r = d - 1 THEN 0 ELSE r + 1
  <2>1. CASE r = d - 1
    <3>1. (n + 1) % d = (n + 1) - d * (q + 1)
      BY <1>1, <1>2, <1>3, <2>1, ModUnique
    <3> QED BY <1>1, <1>2, <1>3, <2>1, <3>1
  <2>2. CASE r # d - 1
    <3>1. (n + 1) % d = (n + 1) - d * q
      BY <1>1, <1>2, <2>2, ModUnique
    <3> QED BY <1>1, <1>2, <2>2, <3>1
  <2> QED BY <2>1, <2>2
<1>5. (n + d - 1) % d = IF r = 0 THEN d - 1 ELSE r - 1
  <2>1. CASE r = 0
    <3>1. (n + d - 1) % d = (n + d - 1) - d * q
      BY <1>1, <1>2, <2>1, ModUnique
    <3> QED BY <1>1, <1>2, <2>1, <3>1
  <2>2. CASE r # 0
    <3>1. (n + d - 1) % d = (n + d - 1) - d * (q + 1)
      BY <1>1, <1>2, <1>3, <2>2, ModUnique
    <3> QED BY <1>1, <1>2, <1>3, <2>2, <3>1
  <2> QED BY <2>1, <2>2
<1> QED BY <1>1, <1>2, <1>4, <1>5 DEF d, r, Slots

-----------------------------------------------------------------------------
(* What is in the ring is of the past, and when the loop goes on to start  *)
(* it has slept long enough.                                               *)
Times == [first : Nat, second : Nat]

PastInv ==
  /\ now \in Nat
  /\ index \in Nat
  /\ used \in 0 .. Word - 1
  /\ frames \in [Slots -> Times]
  /\ \A i \in Slots : frames[i].first <= now /\ frames[i].second <= now
  /\ pc = "start" => now >= frames[Newest].first + kNanosMinDelay

(* The delay of block, whatever the two frames it looks at.                *)
LEMMA BlockSleeps ==
  ASSUME PastInv, ClockFits
  PROVE  Delay \in Nat /\ now + Delay >= frames[Newest].first + kNanosMinDelay
<1> DEFINE u == frames[Slot].first + kNanosPerSecond
           v == frames[Newest].first + kNanosMinDelay
           w == Later(u, v)
<1>1. /\ now \in Nat /\ Slot \in Slots /\ Newest \in Slots
      /\ kNanosPerSecond \in Nat /\ Word \in Nat \ {0}
      /\ now + kNanosPerSecond < Word
  <2>1. index \in Nat /\ index + kFPS - 1 \in Nat /\ now \in Nat
    BY TimingAssumption DEF PastInv
  <2>2. Slot \in Slots /\ Newest \in Slots
    BY <2>1, SlotFacts DEF Slot, Newest
  <2> QED BY <2>1, <2>2, TimingAssumption DEF ClockFits
<1>2. /\ frames[Slot].first \in Nat /\ frames[Slot].first <= now
      /\ frames[Newest].first \in Nat /\ frames[Newest].first <= now
  BY <1>1 DEF PastInv, Times
<1>3. u \in Nat /\ v \in Nat /\ u < Word /\ v < Word /\ v <= now + kNanosPerFrame
  BY <1>1, <1>2, Delays
<1> HIDE DEF u, v
<1>4. w \in 0 .. Word - 1 /\ w >= v
  BY <1>1, <1>3 DEF Later
<1>5. NextFrame = w
  <2>1. w % Word = w
    BY <1>1, <1>4, ModSmall
  <2> QED BY <2>1 DEF NextFrame, u, v
<1> HIDE DEF w
<1>6. Delay = IF w <= now THEN 0 ELSE Sooner(w - now, kNanosPerFrame)
  BY <1>5 DEF Delay
<1> QED BY <1>1, <1>3, <1>4, <1>6, Delays DEF Sooner, v

LEMMA PastHolds == Spec /\ []ClockFits => []PastInv
<1>1. ASSUME Init PROVE PastInv
  <2>1. /\ now = Born /\ index = 0 /\ used = 0 /\ pc = "begin"
        /\ frames = [slot \in Slots |-> [first |-> Born, second |-> Born]]
    BY <1>1 DEF Init, TimingInit
  <2> QED BY <2>1, TimingAssumption DEF PastInv, Times
<1>2. ASSUME PastInv, ClockFits, [Next]_mainVars PROVE PastInv'
  <2>1. /\ Slot \in Slots /\ Newest \in Slots /\ now \in Nat /\ index \in Nat
        /\ Word \in Nat \ {0}
    <3>1. index \in Nat /\ index + kFPS - 1 \in Nat /\ now \in Nat
      BY <1>2, TimingAssumption DEF PastInv
    <3> QED BY <3>1, SlotFacts, TimingAssumption DEF Slot, Newest
  <2>2. CASE UNCHANGED timingVars /\ (pc' = pc \/ pc' # "start")
    BY <1>2, <2>2 DEF timingVars, PastInv, Newest
  <2>3. ASSUME NEW late \in Late, Iterate(late) PROVE PastInv'
    <3>1. /\ now' = now + Delay + late /\ frames' = frames /\ used' = used /\ index' = index
          /\ late \in Nat
      BY <2>3, MainAssumption DEF Iterate, block
    <3>2. Delay \in Nat /\ now + Delay >= frames[Newest].first + kNanosMinDelay
      BY <1>2, BlockSleeps
    <3>3. frames[Newest].first + kNanosMinDelay \in Nat
      BY <1>2, <2>1, Delays DEF PastInv, Times
    <3>4. now' \in Nat /\ now' >= now /\ now' >= frames[Newest].first + kNanosMinDelay
      BY <2>1, <3>1, <3>2, <3>3
    <3>5. \A i \in Slots : frames[i].first \in Nat /\ frames[i].second \in Nat
      BY <1>2 DEF PastInv, Times
    <3>6. \A i \in Slots : frames'[i].first <= now' /\ frames'[i].second <= now'
      BY <1>2, <2>1, <3>1, <3>4, <3>5 DEF PastInv
    <3>7. Newest' = Newest
      BY <3>1 DEF Newest
    <3> QED BY <1>2, <3>1, <3>4, <3>6, <3>7 DEF PastInv
  <2>4. CASE StartFrame
    <3>1. /\ now' = now /\ index' = index /\ pc' = "tick"
          /\ frames' = [frames EXCEPT ![Slot].first = now]
          /\ used' = (used - Busy(frames[Slot])) % Word
      BY <2>4 DEF StartFrame, start
    <3>2. frames[Slot] \in Times /\ used \in Int
      BY <1>2, <2>1 DEF PastInv
    <3>3. used - Busy(frames[Slot]) \in Int
      BY <3>2 DEF Busy, Times
    <3>4. used' \in 0 .. Word - 1
      BY <2>1, <3>1, <3>3, ModRange
    <3>5. frames' \in [Slots -> Times]
      BY <1>2, <2>1, <3>1 DEF PastInv, Times
    <3>6. \A i \in Slots : frames'[i].first <= now' /\ frames'[i].second <= now'
      BY <1>2, <2>1, <3>1 DEF PastInv, Times
    <3> QED BY <2>1, <3>1, <3>4, <3>5, <3>6 DEF PastInv
  <2>5. ASSUME NEW work \in Work, EndFrame(work) PROVE PastInv'
    <3>1. /\ now' = now + work /\ index' = index + 1 /\ pc' = "loop"
          /\ frames' = [frames EXCEPT ![Slot].second = now']
          /\ used' = (used + Busy(frames'[Slot])) % Word
          /\ work \in Nat
      BY <2>5, MainAssumption DEF EndFrame, end
    <3>2. now' \in Nat /\ now' >= now /\ index' \in Nat
      BY <2>1, <3>1
    <3>3. frames' \in [Slots -> Times]
      BY <1>2, <2>1, <3>1, <3>2 DEF PastInv, Times
    <3>4. used + Busy(frames'[Slot]) \in Int
      BY <1>2, <2>1, <3>3 DEF PastInv, Times, Busy
    <3>5. used' \in 0 .. Word - 1
      BY <2>1, <3>1, <3>4, ModRange
    <3>6. \A i \in Slots : frames'[i].first <= now' /\ frames'[i].second <= now'
      <4> SUFFICES ASSUME NEW i \in Slots
                   PROVE  frames'[i].first <= now' /\ frames'[i].second <= now'
        OBVIOUS
      <4>1. /\ frames[i].first <= now /\ frames[i].second <= now
            /\ frames[i].first \in Nat /\ frames[i].second \in Nat
        BY <1>2 DEF PastInv, Times
      <4>2. /\ frames'[i].first = frames[i].first
            /\ frames'[i].second = IF i = Slot THEN now' ELSE frames[i].second
        BY <1>2, <2>1, <3>1 DEF PastInv, Times
      <4> QED BY <2>1, <3>2, <4>1, <4>2
    <3> QED BY <3>1, <3>2, <3>3, <3>5, <3>6 DEF PastInv
  <2> QED BY <1>2, <2>2, <2>3, <2>4, <2>5
          DEF Next, Run, Rest, mainVars, InstallHandlers, MakeWorld, EnterScreen, EnterRaw,
              LeaveScreen, LeaveRaw, SigintDefault, sigintHandler, segfaultHandler
<1> QED BY <1>1, <1>2, PTL DEF Spec

(* Two frames never start closer than kNanosMinDelay, whatever the ticks   *)
(* and the sleeps took: block either sleeps until then, or for the time of *)
(* a whole frame, which is longer.                                         *)
THEOREM FramesAreSpaced == Spec /\ []ClockFits => FramesSpaced
<1>1. ASSUME PastInv, [Next]_mainVars, pc = "start", pc' = "tick"
      PROVE  frames'[Slot].first >= frames[Newest].first + kNanosMinDelay
  <2>1. StartFrame
    BY <1>1 DEF Next, Run, Rest, mainVars, InstallHandlers, MakeWorld, EnterScreen, EnterRaw,
                Iterate, EndFrame, LeaveScreen, LeaveRaw, SigintDefault, sigintHandler,
                segfaultHandler, Ended
  <2>2. Slot \in Slots
    BY <1>1, SlotFacts DEF PastInv, Slot
  <2>3. frames'[Slot].first = now
    BY <1>1, <2>1, <2>2 DEF StartFrame, start, PastInv, Times
  <2> QED BY <1>1, <2>3 DEF PastInv
<1>2. PastInv /\ [Next]_mainVars
        => [pc = "start" /\ pc' = "tick" =>
              frames'[Slot].first >= frames[Newest].first + kNanosMinDelay]_mainVars
  BY <1>1
<1> QED BY <1>2, PastHolds, PTL DEF Spec, FramesSpaced

-----------------------------------------------------------------------------
(* Sums over sets of slots.  Sums(w, g) says that g gives the sum of w     *)
(* over each set of slots, whichever slot is taken out of it first; Fold   *)
(* is the equation by which MapThenSumSet is defined, for the time spent   *)
(* in the frames of the ring fr.                                           *)
Sums(w, g) ==
  /\ g \in [SUBSET Slots -> Nat]
  /\ g[{}] = 0
  /\ \A s \in SUBSET Slots : \A x \in s : g[s] = w[x] + g[s \ {x}]

Pick(s) == CHOOSE x \in s : TRUE

Fold(fr, T, g) ==
  g = [s \in SUBSET T |-> IF s = {} THEN 0 ELSE Busy(fr[Pick(s)]) + g[s \ {Pick(s)}]]

LEMMA UsedIsFold ==
  ASSUME NEW slots
  PROVE  UsedBut(slots) <=> used = (CHOOSE g : Fold(frames, Slots \ slots, g))[Slots \ slots]
  BY Zenon DEF UsedBut, MapThenSumSet, MapThenFoldSet, Fold, Pick

(* On a finite set the equation has one solution: consider the smallest    *)
(* set on which two of them differ.                                        *)
LEMMA FoldIsUnique ==
  ASSUME NEW fr, NEW T, IsFiniteSet(T), NEW g, NEW h, Fold(fr, T, g), Fold(fr, T, h)
  PROVE  g = h
<1> DEFINE Differ == {s \in SUBSET T : g[s] # h[s]}
           Sizes == {Cardinality(s) : s \in Differ}
<1>1. \A s \in SUBSET T : IsFiniteSet(s) /\ Cardinality(s) \in Nat
  BY FS_Subset, FS_CardinalityType
<1>2. ASSUME Differ # {} PROVE FALSE
  <2>1. Sizes \subseteq Nat /\ Sizes # {}
    BY <1>1, <1>2
  <2>2. PICK n \in Sizes : \A k \in Sizes : n <= k
    BY <2>1, LeastNatural
  <2>3. PICK s \in Differ : Cardinality(s) = n
    OBVIOUS
  <2>4. s \in SUBSET T /\ g[s] # h[s]
    OBVIOUS
  <2>5. CASE s = {}
    BY <2>4, <2>5 DEF Fold
  <2>6. CASE s # {}
    <3>1. Pick(s) \in s
      BY <2>6 DEF Pick
    <3> DEFINE t == s \ {Pick(s)}
    <3>2. t \in SUBSET T /\ Cardinality(t) = Cardinality(s) - 1
      BY <1>1, <2>4, <3>1, FS_RemoveElement
    <3>3. ASSUME t \in Differ PROVE FALSE
      <4>1. Cardinality(t) \in Sizes
        BY <3>3
      <4>2. n <= Cardinality(t)
        BY <2>2, <4>1
      <4>3. n = Cardinality(s) /\ Cardinality(s) \in Nat
        BY <1>1, <2>3, <2>4
      <4> QED BY <3>2, <4>2, <4>3
    <3>4. g[t] = h[t]
      BY <3>2, <3>3
    <3>5. /\ g[s] = Busy(fr[Pick(s)]) + g[t]
          /\ h[s] = Busy(fr[Pick(s)]) + h[t]
      BY <2>4, <2>6 DEF Fold
    <3> QED BY <2>4, <3>4, <3>5
  <2> QED BY <2>5, <2>6
<1>3. \A s \in SUBSET T : g[s] = h[s]
  BY <1>2
<1>4. /\ g = [s \in SUBSET T |-> g[s]]
      /\ h = [s \in SUBSET T |-> h[s]]
  BY DEF Fold
<1> QED BY <1>3, <1>4

(* So a sum in any order is the sum that UsedBut takes.                    *)
LEMMA UsedIsSum ==
  ASSUME NEW slots, NEW w, NEW g, Sums(w, g),
         \A x \in Slots \ slots : w[x] = Busy(frames[x])
  PROVE  UsedBut(slots) <=> used = g[Slots \ slots]
<1> DEFINE T == Slots \ slots
           h == [s \in SUBSET T |-> g[s]]
<1>1. T \subseteq Slots /\ IsFiniteSet(T)
  <2>1. IsFiniteSet(Slots)
    BY TimingAssumption, FS_Interval DEF Slots
  <2> QED BY <2>1, FS_Subset
<1>2. Fold(frames, T, h)
  <2>1. ASSUME NEW s \in SUBSET T, s # {}
        PROVE  h[s] = Busy(frames[Pick(s)]) + h[s \ {Pick(s)}]
    <3>1. Pick(s) \in s
      BY <2>1 DEF Pick
    <3>2. g[s] = w[Pick(s)] + g[s \ {Pick(s)}]
      BY <1>1, <3>1 DEF Sums
    <3>3. w[Pick(s)] = Busy(frames[Pick(s)])
      BY <3>1
    <3>4. s \ {Pick(s)} \in SUBSET T
      OBVIOUS
    <3> QED BY <3>2, <3>3, <3>4
  <2>2. h[{}] = 0
    BY DEF Sums
  <2>3. h = [s \in SUBSET T |-> IF s = {} THEN 0
                                ELSE Busy(frames[Pick(s)]) + h[s \ {Pick(s)}]]
    BY <2>1, <2>2
  <2> QED BY <2>3 DEF Fold
<1> HIDE DEF h
<1>3. Fold(frames, T, CHOOSE f : Fold(frames, T, f))
  BY <1>2
<1>4. (CHOOSE f : Fold(frames, T, f)) = h
  BY <1>1, <1>2, <1>3, FoldIsUnique
<1>5. h[T] = g[T]
  BY DEF h
<1> QED BY <1>4, <1>5, UsedIsFold

(* One weight changes: the sums with it change by as much.                 *)
LEMMA SumsUpdate ==
  ASSUME NEW w \in [Slots -> Nat], NEW g, Sums(w, g), NEW k \in Slots, NEW v \in Nat,
         NEW y \in [Slots -> Nat], y[k] = v, \A x \in Slots \ {k} : y[x] = w[x]
  PROVE  \E h : /\ Sums(y, h)
                /\ \A s \in SUBSET Slots :
                     h[s] = IF k \in s THEN g[s] - w[k] + v ELSE g[s]
<1> DEFINE h == [s \in SUBSET Slots |-> IF k \in s THEN g[s \ {k}] + v ELSE g[s]]
<1>1. /\ g \in [SUBSET Slots -> Nat]
      /\ g[{}] = 0
      /\ \A s \in SUBSET Slots : \A x \in s : g[s] = w[x] + g[s \ {x}]
  BY DEF Sums
<1>2. h \in [SUBSET Slots -> Nat]
  <2>1. ASSUME NEW s \in SUBSET Slots
        PROVE  (IF k \in s THEN g[s \ {k}] + v ELSE g[s]) \in Nat
    <3>1. g[s] \in Nat /\ g[s \ {k}] \in Nat
      BY <1>1
    <3> QED BY <3>1
  <2> QED BY <2>1
<1>3. h[{}] = 0
  BY <1>1
<1>4. ASSUME NEW s \in SUBSET Slots, NEW x \in s
      PROVE  h[s] = y[x] + h[s \ {x}]
  <2>1. CASE x = k
    <3>1. h[s] = g[s \ {k}] + v /\ h[s \ {k}] = g[s \ {k}] /\ g[s \ {k}] \in Nat
      BY <1>1, <2>1
    <3> QED BY <2>1, <3>1
  <2>2. CASE x # k /\ k \in s
    <3> DEFINE t == s \ {k}
    <3>1. g[t] = w[x] + g[t \ {x}] /\ g[t \ {x}] \in Nat /\ w[x] \in Nat /\ y[x] = w[x]
      BY <1>1, <2>2
    <3>2. t \ {x} = (s \ {x}) \ {k}
      OBVIOUS
    <3>3. h[s] = g[t] + v /\ h[s \ {x}] = g[t \ {x}] + v
      BY <2>2, <3>2
    <3> HIDE DEF t, h
    <3> QED BY <3>1, <3>3
  <2>3. CASE k \notin s
    <3>1. h[s] = g[s] /\ h[s \ {x}] = g[s \ {x}] /\ y[x] = w[x]
      BY <2>3
    <3>2. g[s] = w[x] + g[s \ {x}]
      BY <1>1
    <3> QED BY <3>1, <3>2
  <2> QED BY <2>1, <2>2, <2>3
<1>5. Sums(y, h)
  BY <1>2, <1>3, <1>4 DEF Sums
<1>6. ASSUME NEW s \in SUBSET Slots
      PROVE  h[s] = IF k \in s THEN g[s] - w[k] + v ELSE g[s]
  <2>1. CASE k \in s
    <3>1. g[s] = w[k] + g[s \ {k}] /\ g[s \ {k}] \in Nat /\ g[s] \in Nat /\ w[k] \in Nat
      BY <1>1, <2>1
    <3> QED BY <2>1, <3>1
  <2>2. CASE k \notin s
    BY <2>2
  <2> QED BY <2>1, <2>2
<1> QED BY <1>5, <1>6

(* The sums over the first n slots.                                        *)
Upto(n) == 0 .. n - 1

LEMMA Prefixes ==
  ASSUME NEW w, NEW g, Sums(w, g)
  PROVE  /\ g[Upto(0)] = 0
         /\ g[Upto(kFPS)] = g[Slots]
         /\ \A n \in 0 .. kFPS : Upto(n) \in SUBSET Slots /\ g[Upto(n)] \in Nat
         /\ \A n \in Slots : g[Upto(n + 1)] = w[n] + g[Upto(n)]
<1>1. kFPS \in Nat \ {0}
  BY TimingAssumption
<1>2. Upto(0) = {} /\ Upto(kFPS) = Slots
  BY <1>1 DEF Upto, Slots
<1>3. \A n \in 0 .. kFPS : Upto(n) \in SUBSET Slots
  BY <1>1 DEF Upto, Slots
<1>4. ASSUME NEW n \in Slots PROVE g[Upto(n + 1)] = w[n] + g[Upto(n)]
  <2>1. n + 1 \in 0 .. kFPS /\ n \in Upto(n + 1) /\ Upto(n + 1) \ {n} = Upto(n)
    BY <1>1 DEF Slots, Upto
  <2> QED BY <1>3, <2>1 DEF Sums
<1> QED BY <1>2, <1>3, <1>4 DEF Sums

-----------------------------------------------------------------------------
(* The ring is in the order of time, but for the step from the newest      *)
(* frame to the oldest.  So on each side of the current slot the time      *)
(* spent in any run of frames fits between the start of the first and the  *)
(* end of the last.  During a tick its frame is in neither side, and       *)
(* begins after all the others.                                            *)
InTick == pc \in {"tick", "crashed"}

Weights == [i \in Slots |-> IF InTick /\ i = Slot THEN 0 ELSE Busy(frames[i])]

RunsFit(g) ==
  \A a, b \in 0 .. kFPS :
    a < b /\ (b <= Slot \/ a >= Slot) /\ ~(InTick /\ a = Slot)
      => g[Upto(b)] - g[Upto(a)] <= frames[b - 1].second - frames[a].first

RingInv ==
  /\ pc \in {"begin", "world"} => \A i, j \in Slots : frames[i].first = frames[j].second
  /\ \A i \in Slots : (InTick /\ i = Slot) \/ frames[i].first <= frames[i].second
  /\ InTick => \A i \in Slots \ {Slot} : frames[i].second <= frames[Slot].first
  /\ Slot # 0 => frames[kFPS - 1].second <= frames[0].first
  /\ \E g : Sums(Weights, g) /\ used = g[Slots] /\ RunsFit(g)

(* Types, in the form the steps below use them.                            *)
LEMMA RingFacts ==
  ASSUME PastInv, RingInv
  PROVE  /\ kFPS \in Nat \ {0} /\ Slot \in Slots /\ Newest \in Slots
         /\ Newest = IF Slot = 0 THEN kFPS - 1 ELSE Slot - 1
         /\ \A i \in Slots : frames[i].first \in Nat /\ frames[i].second \in Nat
         /\ Weights \in [Slots -> Nat]
<1>1. kFPS \in Nat \ {0} /\ Slot \in Slots /\ Newest = IF Slot = 0 THEN kFPS - 1 ELSE Slot - 1
  BY SlotFacts DEF PastInv, Slot, Newest
<1>2. Newest \in Slots
  BY <1>1 DEF Slots
<1>3. \A i \in Slots : frames[i].first \in Nat /\ frames[i].second \in Nat
  BY DEF PastInv, Times
<1>4. ASSUME NEW i \in Slots PROVE Weights[i] \in Nat
  BY <1>3 DEF RingInv, Weights, Busy
<1> QED BY <1>1, <1>2, <1>3, <1>4 DEF Weights

(* Between ticks, what the frames of the ring used fits in what they span. *)
LEMMA UsedFits ==
  ASSUME PastInv, RingInv, ~InTick
  PROVE  used <= frames[Newest].second - frames[Slot].first
<1>1. PICK g : Sums(Weights, g) /\ used = g[Slots] /\ RunsFit(g)
  BY DEF RingInv
<1>2. /\ g[Upto(0)] = 0 /\ g[Upto(kFPS)] = used
      /\ \A n \in 0 .. kFPS : g[Upto(n)] \in Nat
  BY <1>1, Prefixes
<1>3. CASE Slot = 0
  <2>1. g[Upto(kFPS)] - g[Upto(0)] <= frames[kFPS - 1].second - frames[0].first
    BY <1>1, <1>3, RingFacts DEF RunsFit
  <2> QED BY <1>2, <1>3, <2>1, RingFacts
<1>4. CASE Slot # 0
  <2>1. Slot \in 1 .. kFPS - 1 /\ kFPS \in Nat
    BY <1>4, RingFacts DEF Slots
  <2>2. /\ g[Upto(Slot)] - g[Upto(0)] <= frames[Slot - 1].second - frames[0].first
        /\ g[Upto(kFPS)] - g[Upto(Slot)] <= frames[kFPS - 1].second - frames[Slot].first
    BY <1>1, <2>1 DEF RunsFit
  <2>3. frames[kFPS - 1].second <= frames[0].first
    BY <1>4 DEF RingInv
  <2>4. /\ frames[Slot - 1].second \in Nat /\ frames[0].first \in Nat
        /\ frames[kFPS - 1].second \in Nat /\ frames[Slot].first \in Nat
        /\ g[Upto(Slot)] \in Nat /\ used \in Nat
        /\ Newest = Slot - 1
    BY <1>2, <1>4, <2>1, RingFacts DEF Slots
  <2> QED BY <1>2, <2>2, <2>3, <2>4
<1> QED BY <1>3, <1>4

(* During a tick the other frames have used less than what was on the      *)
(* clock when it began.                                                    *)
LEMMA UsedBefore ==
  ASSUME PastInv, RingInv, InTick
  PROVE  used <= frames[Slot].first
<1>1. PICK g : Sums(Weights, g) /\ used = g[Slots] /\ RunsFit(g)
  BY DEF RingInv
<1>2. /\ g[Upto(0)] = 0 /\ g[Upto(kFPS)] = used
      /\ \A n \in 0 .. kFPS : g[Upto(n)] \in Nat
      /\ \A n \in Slots : g[Upto(n + 1)] = Weights[n] + g[Upto(n)]
  BY <1>1, Prefixes
<1>3. Slot \in 0 .. kFPS - 1 /\ kFPS \in Nat \ {0}
  BY RingFacts DEF Slots
<1>4. g[Upto(Slot + 1)] = g[Upto(Slot)]
  BY <1>2, <1>3, RingFacts DEF Weights
<1> DEFINE A == g[Upto(Slot)]
           B == g[Upto(kFPS)] - g[Upto(Slot + 1)]
<1>5. A \in Nat /\ B \in Int /\ used = A + B
  BY <1>2, <1>3, <1>4
<1>6. frames[Slot].first \in Nat
  BY RingFacts
<1>7. ASSUME Slot # 0
      PROVE  /\ A <= frames[Slot - 1].second - frames[0].first
             /\ frames[Slot - 1].second <= frames[Slot].first
             /\ frames[Slot - 1].second \in Nat /\ frames[0].first \in Nat
             /\ frames[kFPS - 1].second <= frames[0].first
  <2>1. g[Upto(Slot)] - g[Upto(0)] <= frames[Slot - 1].second - frames[0].first
    BY <1>1, <1>3, <1>7 DEF RunsFit
  <2>2. Slot - 1 \in Slots \ {Slot} /\ 0 \in Slots
    BY <1>3, <1>7 DEF Slots
  <2>3. A <= frames[Slot - 1].second - frames[0].first
    BY <1>2, <1>5, <2>1
  <2> HIDE DEF A, B
  <2> QED BY <1>7, <2>2, <2>3, RingFacts DEF RingInv
<1>8. ASSUME Slot # kFPS - 1
      PROVE  /\ B <= frames[kFPS - 1].second - frames[Slot + 1].first
             /\ frames[kFPS - 1].second <= frames[Slot].first
             /\ frames[kFPS - 1].second \in Nat /\ frames[Slot + 1].first \in Nat
  <2>1. B <= frames[kFPS - 1].second - frames[Slot + 1].first
    BY <1>1, <1>3, <1>8 DEF RunsFit
  <2>2. kFPS - 1 \in Slots \ {Slot} /\ Slot + 1 \in Slots
    BY <1>3, <1>8 DEF Slots
  <2> QED BY <2>1, <2>2, RingFacts DEF RingInv
<1>9. Slot = 0 => A = 0
  BY <1>2
<1>10. Slot = kFPS - 1 => B = 0
  BY <1>2, <1>3
<1> HIDE DEF A, B
<1> QED BY <1>3, <1>5, <1>6, <1>7, <1>8, <1>9, <1>10

-----------------------------------------------------------------------------
LEMMA RingInit ==
  ASSUME Init
  PROVE  RingInv
<1>1. /\ index = 0 /\ used = 0 /\ pc = "begin" /\ ~InTick
      /\ frames = [slot \in Slots |-> [first |-> Born, second |-> Born]]
  BY DEF Init, TimingInit, InTick
<1>2. Slot = 0 /\ kFPS \in Nat \ {0} /\ Born \in Nat
  BY <1>1, TimingAssumption, ModSmall DEF Slot
<1> DEFINE g == [s \in SUBSET Slots |-> 0]
<1>3. \A i \in Slots : frames[i].first = Born /\ frames[i].second = Born /\ Weights[i] = 0
  BY <1>1, <1>2 DEF Weights, Busy
<1>4. Sums(Weights, g)
  <2>1. g \in [SUBSET Slots -> Nat] /\ g[{}] = 0
    OBVIOUS
  <2>2. ASSUME NEW s \in SUBSET Slots, NEW x \in s PROVE g[s] = Weights[x] + g[s \ {x}]
    <3>1. g[s] = 0 /\ g[s \ {x}] = 0 /\ Weights[x] = 0
      BY <1>3
    <3> QED BY <3>1
  <2> QED BY <2>1, <2>2 DEF Sums
<1>5. RunsFit(g)
  <2> SUFFICES ASSUME NEW a \in 0 .. kFPS, NEW b \in 0 .. kFPS, a < b
               PROVE  g[Upto(b)] - g[Upto(a)] <= frames[b - 1].second - frames[a].first
    BY DEF RunsFit
  <2>1. a \in Slots /\ b - 1 \in Slots
    BY <1>2 DEF Slots
  <2>2. g[Upto(a)] = 0 /\ g[Upto(b)] = 0
    BY <1>2 DEF Upto, Slots
  <2> HIDE DEF g
  <2> QED BY <1>2, <1>3, <2>1, <2>2
<1>6. used = g[Slots]
  BY <1>1
<1> HIDE DEF g
<1>7. \E f : Sums(Weights, f) /\ used = f[Slots] /\ RunsFit(f)
  BY <1>4, <1>5, <1>6
<1> QED BY <1>1, <1>2, <1>3, <1>7 DEF RingInv

(* The steps of main that leave the ring alone.                            *)
LEMMA RingKept ==
  ASSUME RingInv, UNCHANGED <<frames, used, index>>, InTick' = InTick,
         pc' \in {"begin", "world"} => pc \in {"begin", "world"}
  PROVE  RingInv'
<1>1. Slot' = Slot /\ Weights' = Weights
  BY DEF Slot, Weights
<1>2. ASSUME NEW g, RunsFit(g) PROVE RunsFit(g)'
  BY <1>1, <1>2 DEF RunsFit
<1> QED BY <1>1, <1>2 DEF RingInv

(* A crash while the world is made: the ring is as it was constructed.     *)
LEMMA RingCrash ==
  ASSUME PastInv, RingInv, UNCHANGED <<frames, used, index>>, pc = "world", pc' = "crashed"
  PROVE  RingInv'
<1>1. ~InTick /\ InTick' /\ Slot' = Slot
  BY DEF InTick, Slot
<1>2. \A i, j \in Slots : frames[i].first = frames[j].second
  BY DEF RingInv
<1>3. \A i \in Slots : frames[i].first \in Nat /\ frames[i].second \in Nat
  BY RingFacts
<1>4. Weights' = Weights
  <2>1. ASSUME NEW i \in Slots PROVE Weights'[i] = Weights[i]
    <3>1. Busy(frames[i]) = 0 /\ frames' = frames
      BY <1>2, <1>3 DEF Busy
    <3> QED BY <1>1, <3>1 DEF Weights
  <2> QED BY <2>1 DEF Weights
<1>5. ASSUME NEW g, RunsFit(g) PROVE RunsFit(g)'
  BY <1>1, <1>5 DEF RunsFit
<1>6. \E g : Sums(Weights', g) /\ used' = g[Slots] /\ RunsFit(g)'
  BY <1>4, <1>5 DEF RingInv
<1>7. InTick' => \A i \in Slots \ {Slot'} : frames'[i].second <= frames'[Slot'].first
  BY <1>1, <1>2, <1>3, RingFacts
<1> QED BY <1>1, <1>6, <1>7 DEF RingInv

(* start takes the frame that leaves the ring out of used.                 *)
LEMMA RingStart ==
  ASSUME PastInv, RingInv, StartFrame
  PROVE  RingInv'
<1>1. /\ now' = now /\ index' = index /\ pc = "start" /\ pc' = "tick"
      /\ frames' = [frames EXCEPT ![Slot].first = now]
      /\ used' = (used - Busy(frames[Slot])) % Word
  BY DEF StartFrame, start
<1>2. ~InTick /\ InTick' /\ Slot' = Slot
  BY <1>1 DEF InTick, Slot
<1>3. kFPS \in Nat \ {0} /\ Slot \in Slots /\ Weights \in [Slots -> Nat]
  BY RingFacts
<1>4. PICK g : Sums(Weights, g) /\ used = g[Slots] /\ RunsFit(g)
  BY DEF RingInv
<1>5. \A i \in Slots : /\ frames'[i].second = frames[i].second
                       /\ i # Slot => frames'[i] = frames[i]
                       /\ frames[i].first \in Nat /\ frames[i].second \in Nat
                       /\ frames[i].second <= now
  BY <1>1, <1>3 DEF PastInv, Times
<1>6. frames'[Slot].first = now /\ now \in Nat
  BY <1>1, <1>3 DEF PastInv, Times
<1>7. /\ Weights' \in [Slots -> Nat] /\ Weights'[Slot] = 0
      /\ \A i \in Slots \ {Slot} : Weights'[i] = Weights[i]
  <2>1. /\ Weights'[Slot] = 0
        /\ \A i \in Slots \ {Slot} : Weights'[i] = Weights[i]
    BY <1>2, <1>3, <1>5 DEF Weights
  <2>2. \A i \in Slots : Weights'[i] \in Nat
    BY <1>3, <2>1
  <2> QED BY <2>1, <2>2 DEF Weights
<1>8. PICK h : /\ Sums(Weights', h)
               /\ \A s \in SUBSET Slots :
                    h[s] = IF Slot \in s THEN g[s] - Weights[Slot] + 0 ELSE g[s]
  <2> HIDE DEF RingInv
  <2> QED BY <1>3, <1>4, <1>7, SumsUpdate
<1>9. used' = h[Slots]
  <2>1. Weights[Slot] = Busy(frames[Slot]) /\ Weights[Slot] \in Nat
    BY <1>2, <1>3 DEF Weights
  <2>2. h[Slots] = used - Busy(frames[Slot]) /\ h[Slots] \in Nat
    <3>1. h[Slots] = g[Slots] - Weights[Slot] + 0 /\ h[Slots] \in Nat /\ g[Slots] \in Nat
      BY <1>3, <1>4, <1>8 DEF Sums
    <3> QED BY <1>4, <2>1, <3>1
  <2>3. used \in 0 .. Word - 1 /\ Word \in Nat \ {0}
    BY TimingAssumption DEF PastInv
  <2>4. h[Slots] \in 0 .. Word - 1
    BY <2>1, <2>2, <2>3
  <2> QED BY <1>1, <2>2, <2>3, <2>4, ModSmall
<1>10. RunsFit(h)'
  <2> SUFFICES ASSUME NEW a \in 0 .. kFPS, NEW b \in 0 .. kFPS, a < b,
                      b <= Slot \/ a > Slot
               PROVE  h[Upto(b)] - h[Upto(a)] <= frames'[b - 1].second - frames'[a].first
    BY <1>2, <1>3 DEF RunsFit, Slots
  <2>1. /\ a \in Slots /\ b - 1 \in Slots /\ a # Slot /\ b - 1 # Slot
        /\ Slot \in Upto(a) <=> Slot < a
        /\ Slot \in Upto(b) <=> Slot < b
    BY <1>3 DEF Slots, Upto
  <2>2. g[Upto(b)] - g[Upto(a)] <= frames[b - 1].second - frames[a].first
    BY <1>2, <1>3, <1>4 DEF RunsFit, Slots
  <2>3. /\ Upto(a) \in SUBSET Slots /\ Upto(b) \in SUBSET Slots
        /\ g[Upto(a)] \in Nat /\ g[Upto(b)] \in Nat
    BY <1>4, Prefixes
  <2>4. h[Upto(b)] - h[Upto(a)] = g[Upto(b)] - g[Upto(a)]
    <3>1. Weights[Slot] \in Nat /\ Slot \in Nat
      BY <1>3 DEF Slots
    <3>2. CASE b <= Slot
      BY <1>8, <2>1, <2>3, <3>1, <3>2
    <3>3. CASE a > Slot
      BY <1>8, <2>1, <2>3, <3>1, <3>3
    <3> QED BY <3>2, <3>3
  <2> QED BY <1>5, <2>1, <2>2, <2>4
<1>11. \A i \in Slots \ {Slot} : frames'[i].second <= frames'[Slot].first
  BY <1>5, <1>6
<1>12. Slot # 0 => frames'[kFPS - 1].second <= frames'[0].first
  <2>1. kFPS - 1 \in Slots /\ 0 \in Slots
    BY <1>3 DEF Slots
  <2> QED BY <1>5, <2>1 DEF RingInv
<1>13. \A i \in Slots : i = Slot \/ frames'[i].first <= frames'[i].second
  BY <1>2, <1>5 DEF RingInv
<1>14. \E f : Sums(Weights', f) /\ used' = f[Slots] /\ RunsFit(f)'
  BY <1>8, <1>9, <1>10
<1> QED BY <1>1, <1>2, <1>11, <1>12, <1>13, <1>14 DEF RingInv

(* end puts the frame that comes into used; with it, used still fits.      *)
LEMMA RingEnd ==
  ASSUME PastInv, RingInv, NEW work \in Work, EndFrame(work), now' < Word
  PROVE  RingInv'
<1> DEFINE v == now' - frames[Slot].first
<1>1. /\ now' = now + work /\ index' = index + 1 /\ pc = "tick" /\ pc' = "loop"
      /\ frames' = [frames EXCEPT ![Slot].second = now']
      /\ used' = (used + Busy(frames'[Slot])) % Word
      /\ work \in Nat
  BY MainAssumption DEF EndFrame, end
<1>2. InTick /\ ~InTick'
  BY <1>1 DEF InTick
<1>3. kFPS \in Nat \ {0} /\ Slot \in Slots /\ Weights \in [Slots -> Nat]
  BY RingFacts
<1>4. PICK g : Sums(Weights, g) /\ used = g[Slots] /\ RunsFit(g)
  BY DEF RingInv
<1>5. \A i \in Slots : /\ frames'[i].first = frames[i].first
                       /\ i # Slot => frames'[i] = frames[i]
                       /\ frames[i].first \in Nat /\ frames[i].second \in Nat
                       /\ frames[i].first <= now
  BY <1>1, <1>3 DEF PastInv, Times
<1>6. frames'[Slot].second = now' /\ now' \in Nat /\ now \in Nat /\ now' >= now
  BY <1>1, <1>3 DEF PastInv, Times
<1>7. v \in Nat /\ Busy(frames'[Slot]) = v
  BY <1>3, <1>5, <1>6 DEF Busy
<1>8. Slot' = IF Slot = kFPS - 1 THEN 0 ELSE Slot + 1
  BY <1>1, SlotFacts DEF Slot, PastInv
<1>9. /\ Weights' \in [Slots -> Nat] /\ Weights'[Slot] = v /\ Weights[Slot] = 0
      /\ \A i \in Slots \ {Slot} : Weights'[i] = Weights[i]
  <2>1. /\ Weights'[Slot] = v /\ Weights[Slot] = 0
        /\ \A i \in Slots \ {Slot} : Weights'[i] = Weights[i]
    BY <1>2, <1>3, <1>5, <1>7 DEF Weights
  <2>2. \A i \in Slots : Weights'[i] \in Nat
    BY <1>3, <1>7, <2>1
  <2> QED BY <2>1, <2>2 DEF Weights
<1> HIDE DEF v
<1>10. PICK h : /\ Sums(Weights', h)
                /\ \A s \in SUBSET Slots :
                     h[s] = IF Slot \in s THEN g[s] - Weights[Slot] + v ELSE g[s]
  <2> HIDE DEF RingInv
  <2> QED BY <1>3, <1>4, <1>7, <1>9, SumsUpdate
<1>11. \A s \in SUBSET Slots : g[s] \in Nat /\ h[s] = IF Slot \in s THEN g[s] + v ELSE g[s]
  BY <1>4, <1>7, <1>9, <1>10 DEF Sums
<1>12. used' = h[Slots]
  <2>1. h[Slots] = used + v /\ used \in Nat
    BY <1>3, <1>4, <1>11
  <2>2. used <= frames[Slot].first
    BY <1>2, UsedBefore
  <2>3. Word \in Nat \ {0} /\ frames[Slot].first \in Nat
    BY <1>3, <1>5, TimingAssumption
  <2>4. used + v \in 0 .. Word - 1
    BY <1>6, <1>7, <2>1, <2>2, <2>3 DEF v
  <2> QED BY <1>1, <1>7, <2>1, <2>3, <2>4, ModSmall
<1>13. ASSUME Slot # 0
       PROVE  /\ Slot - 1 \in Slots \ {Slot}
              /\ frames[Slot - 1].second <= frames[Slot].first
  <2>1. Slot - 1 \in Slots \ {Slot}
    BY <1>3, <1>13 DEF Slots
  <2> QED BY <1>2, <2>1 DEF RingInv
<1>14. RunsFit(h)'
  <2> SUFFICES ASSUME NEW a \in 0 .. kFPS, NEW b \in 0 .. kFPS, a < b,
                      b <= Slot' \/ a >= Slot'
               PROVE  h[Upto(b)] - h[Upto(a)] <= frames'[b - 1].second - frames'[a].first
    BY DEF RunsFit
  <2>1. /\ a \in Slots /\ b - 1 \in Slots
        /\ Slot \in Nat
        /\ Slot \in Upto(a) <=> Slot < a
        /\ Slot \in Upto(b) <=> Slot < b
    BY <1>3 DEF Slots, Upto
  <2>2. /\ Upto(a) \in SUBSET Slots /\ Upto(b) \in SUBSET Slots
        /\ g[Upto(a)] \in Nat /\ g[Upto(b)] \in Nat
    BY <1>4, Prefixes
  <2>3. CASE b <= Slot \/ a > Slot
    <3>1. g[Upto(b)] - g[Upto(a)] <= frames[b - 1].second - frames[a].first
      BY <1>3, <1>4, <2>1, <2>3 DEF RunsFit
    <3>2. h[Upto(b)] - h[Upto(a)] = g[Upto(b)] - g[Upto(a)]
      BY <1>7, <1>11, <2>1, <2>2, <2>3
    <3>3. frames'[b - 1] = frames[b - 1] /\ frames'[a] = frames[a]
      BY <1>5, <2>1, <2>3
    <3> QED BY <3>1, <3>2, <3>3
  <2>4. CASE b = Slot + 1 /\ a = Slot
    <3>1. h[Upto(b)] - h[Upto(a)] = v
      <4>1. g[Upto(Slot + 1)] = 0 + g[Upto(Slot)]
        BY <1>3, <1>4, <1>9, Prefixes
      <4> QED BY <1>7, <1>11, <2>1, <2>2, <2>4, <4>1
    <3>2. frames'[b - 1].second - frames'[a].first = v
      BY <1>3, <1>5, <1>6, <2>1, <2>4 DEF v
    <3> QED BY <1>7, <3>1, <3>2
  <2>5. CASE b = Slot + 1 /\ a < Slot
    <3>1. g[Upto(Slot)] - g[Upto(a)] <= frames[Slot - 1].second - frames[a].first
      <4>1. Slot \in 0 .. kFPS /\ Slot <= Slot /\ a # Slot
        BY <1>3, <2>1, <2>5 DEF Slots
      <4> QED BY <1>4, <2>5, <4>1 DEF RunsFit
    <3>2. g[Upto(Slot + 1)] = 0 + g[Upto(Slot)]
      BY <1>3, <1>4, <1>9, Prefixes
    <3>3. h[Upto(b)] - h[Upto(a)] = g[Upto(Slot)] - g[Upto(a)] + v /\ g[Upto(Slot)] \in Nat
      <4>1. Slot \in 0 .. kFPS
        BY <1>3 DEF Slots
      <4>2. g[Upto(Slot)] \in Nat
        BY <1>4, <4>1, Prefixes
      <4> QED BY <1>7, <1>11, <2>1, <2>2, <2>5, <3>2, <4>2
    <3>4. frames[Slot - 1].second <= frames[Slot].first /\ Slot - 1 \in Slots
      BY <1>13, <2>1, <2>5
    <3>5. frames'[b - 1].second = now' /\ frames'[a].first = frames[a].first
      BY <1>3, <1>5, <1>6, <2>1, <2>5
    <3>6. /\ frames[Slot - 1].second \in Nat /\ frames[Slot].first \in Nat
          /\ frames[a].first \in Nat
      BY <1>3, <1>5, <2>1, <3>4
    <3> QED BY <1>6, <2>2, <3>1, <3>3, <3>4, <3>5, <3>6 DEF v
  <2> QED BY <1>3, <1>8, <2>1, <2>3, <2>4, <2>5 DEF Slots
<1>15. \A i \in Slots : frames'[i].first <= frames'[i].second
  BY <1>2, <1>5, <1>6 DEF RingInv
<1>16. Slot' # 0 => frames'[kFPS - 1].second <= frames'[0].first
  <2> SUFFICES ASSUME Slot' # 0 PROVE frames'[kFPS - 1].second <= frames'[0].first
    OBVIOUS
  <2>1. Slot # kFPS - 1 /\ kFPS - 1 \in Slots \ {Slot} /\ 0 \in Slots
    BY <1>3, <1>8 DEF Slots
  <2>2. frames[kFPS - 1].second <= frames[0].first
    BY <1>2, <2>1 DEF RingInv
  <2> QED BY <1>5, <2>1, <2>2
<1>17. \E f : Sums(Weights', f) /\ used' = f[Slots] /\ RunsFit(f)'
  BY <1>10, <1>12, <1>14
<1> QED BY <1>1, <1>2, <1>15, <1>16, <1>17 DEF RingInv

LEMMA RingHolds == Spec /\ []ClockFits => [](PastInv /\ RingInv)
<1>1. Init => RingInv
  BY RingInit
<1>2. ASSUME PastInv, RingInv, now' < Word, [Next]_mainVars PROVE RingInv'
  <2>1. CASE UNCHANGED <<frames, used, index>> /\ InTick' = InTick
             /\ (pc' \in {"begin", "world"} => pc \in {"begin", "world"})
    BY <1>2, <2>1, RingKept
  <2>2. CASE segfaultHandler
    <3>1. CASE pc = "world"
      BY <1>2, <2>2, <3>1, RingCrash DEF segfaultHandler, timingVars
    <3>2. CASE pc = "tick"
      BY <1>2, <2>1, <2>2, <3>2 DEF segfaultHandler, timingVars, InTick
    <3> QED BY <2>2, <3>1, <3>2 DEF segfaultHandler
  <2>3. CASE StartFrame
    BY <1>2, <2>3, RingStart
  <2>4. CASE \E work \in Work : EndFrame(work)
    BY <1>2, <2>4, RingEnd
  <2>5. CASE \E late \in Late : Iterate(late)
    BY <2>1, <2>5 DEF Iterate, block, InTick
  <2>6. CASE UNCHANGED mainVars
    BY <2>1, <2>6 DEF mainVars, timingVars, InTick
  <2>7. CASE InstallHandlers \/ MakeWorld
    BY <2>1, <2>7 DEF InstallHandlers, MakeWorld, timingVars, InTick
  <2>8. CASE EnterScreen \/ EnterRaw
    BY <2>1, <2>8 DEF EnterScreen, EnterRaw, timingVars, InTick
  <2>9. CASE LeaveScreen \/ LeaveRaw
    BY <2>1, <2>9 DEF LeaveScreen, LeaveRaw, timingVars, InTick
  <2>10. CASE SigintDefault \/ sigintHandler
    BY <2>1, <2>10 DEF SigintDefault, sigintHandler, timingVars, InTick
  <2> QED BY <1>2, <2>2, <2>3, <2>4, <2>5, <2>6, <2>7, <2>8, <2>9, <2>10 DEF Next, Run, Rest
<1>3. ASSUME PastInv, ClockFits PROVE now < Word
  BY <1>3, TimingAssumption DEF PastInv, ClockFits
<1>4. PastInv /\ RingInv /\ (now < Word)' /\ [Next]_mainVars => RingInv'
  BY <1>2
<1> QED BY <1>1, <1>3, <1>4, PastHolds, PTL DEF Spec

(* used is the time spent in the frames of the ring, or in the others      *)
(* during a tick: the subtraction in start never wraps and the addition in *)
(* end never overflows.                                                    *)
THEOREM UsedIsTheRings == Spec /\ []ClockFits => []UsedMatchesRing
<1>1. ASSUME PastInv, RingInv PROVE UsedMatchesRing
  <2>1. PICK g : Sums(Weights, g) /\ used = g[Slots]
    BY <1>1 DEF RingInv
  <2>2. Slot \in Slots
    BY <1>1, RingFacts
  <2>3. CASE InTick
    <3>1. \A x \in Slots \ {Slot} : Weights[x] = Busy(frames[x])
      BY DEF Weights
    <3>2. g[Slots] = 0 + g[Slots \ {Slot}] /\ g[Slots \ {Slot}] \in Nat
      BY <2>1, <2>2, <2>3 DEF Sums, Weights
    <3>3. UsedBut({Slot}) <=> used = g[Slots \ {Slot}]
      BY <2>1, <3>1, UsedIsSum
    <3>4. UsedBut({Slot})
      BY <2>1, <3>2, <3>3
    <3> QED BY <2>3, <3>4 DEF UsedMatchesRing, InTick
  <2>4. CASE ~InTick
    <3>1. \A x \in Slots \ {} : Weights[x] = Busy(frames[x])
      BY <2>4 DEF Weights
    <3>2. Slots \ {} = Slots
      OBVIOUS
    <3>3. UsedBut({})
      BY <2>1, <3>1, <3>2, UsedIsSum
    <3> QED BY <2>4, <3>3 DEF UsedMatchesRing, InTick
  <2> QED BY <2>3, <2>4
<1> QED BY <1>1, RingHolds, PTL

(* The CPU percentage that stats gives is never above 100.                 *)
THEOREM LoadIsBounded == Spec /\ []ClockFits => []LoadIsAtMostFull
<1>1. ASSUME PastInv, RingInv, ClockFits PROVE LoadIsAtMostFull
  <2> SUFFICES ASSUME pc = "loop" PROVE used <= Total
    BY DEF LoadIsAtMostFull
  <2> DEFINE n == frames[Newest].second - frames[Slot].first
  <2>1. used <= n
    BY <1>1, UsedFits DEF InTick
  <2>2. used \in Nat /\ Word \in Nat \ {0}
    BY <1>1, TimingAssumption DEF PastInv
  <2>3. n \in 0 .. Word - 1
    <3>1. Newest \in Slots /\ Slot \in Slots
      BY <1>1, RingFacts
    <3>2. /\ frames[Newest].second \in Nat /\ frames[Slot].first \in Nat
          /\ frames[Newest].second <= now /\ now \in Nat
      BY <1>1, <3>1 DEF PastInv, Times
    <3>3. frames[Newest].second < Word
      BY <1>1, <3>2, TimingAssumption DEF ClockFits
    <3> QED BY <2>1, <2>2, <3>2, <3>3
  <2>4. Span = n
    BY <2>2, <2>3, ModSmall DEF Span
  <2> QED BY <2>1, <2>2, <2>3, <2>4 DEF Total
<1> QED BY <1>1, RingHolds, PTL

-----------------------------------------------------------------------------
(* After an interrupt.  How many steps main still has to take at most.     *)
StepsLeft(place) ==
  CASE place = "world"             -> 6
    [] place = "enter"             -> 5
    [] place \in {"raw", "start"}  -> 4
    [] place = "tick"              -> 3
    [] place = "loop"              -> 2
    [] place = "cooked"            -> 1
    [] OTHER                       -> 0

(* Once g_done is set it stays set, no frame is begun that block has not   *)
(* let through already, and every step of the program brings it nearer to  *)
(* its end, of which it is never more than six steps away.                 *)
StopRunsDown ==
  [][g_done = TRUE =>
       /\ g_done' = TRUE
       /\ StepsLeft(pc) \in 1 .. 6
       /\ StepsLeft(pc') \in 0 .. StepsLeft(pc) - 1]_mainVars

DoneInv ==
  /\ pc \in {"begin", "world", "enter", "raw", "loop", "start", "tick", "cooked"} \cup Ended
  /\ g_done \in BOOLEAN
  /\ g_done = TRUE => pc \notin {"begin", "killed"}

LEMMA DoneHolds == Spec => []DoneInv
<1>1. Init => DoneInv
  <2> SUFFICES ASSUME Init PROVE DoneInv
    OBVIOUS
  <2>1. pc = "begin" /\ g_done = FALSE
    BY DEF Init
  <2>2. g_done \in BOOLEAN /\ g_done # TRUE
    BY <2>1
  <2> QED BY <2>1, <2>2 DEF DoneInv
<1>2. DoneInv /\ [Next]_mainVars => DoneInv'
  <2> SUFFICES ASSUME DoneInv, [Next]_mainVars PROVE DoneInv'
    OBVIOUS
  <2> USE DEF DoneInv, Ended
  <2>1. CASE InstallHandlers
    BY <2>1 DEF InstallHandlers
  <2>2. CASE MakeWorld
    BY <2>2 DEF MakeWorld
  <2>3. CASE EnterScreen
    BY <2>3 DEF EnterScreen
  <2>4. CASE EnterRaw
    BY <2>4 DEF EnterRaw
  <2>5. CASE \E late \in Late : Iterate(late)
    BY <2>5 DEF Iterate
  <2>6. CASE StartFrame
    BY <2>6 DEF StartFrame
  <2>7. CASE \E work \in Work : EndFrame(work)
    BY <2>7 DEF EndFrame
  <2>8. CASE LeaveScreen
    BY <2>8 DEF LeaveScreen
  <2>9. CASE LeaveRaw
    BY <2>9 DEF LeaveRaw
  <2>10. CASE SigintDefault
    BY <2>10 DEF SigintDefault
  <2>11. CASE sigintHandler
    BY <2>11 DEF sigintHandler
  <2>12. CASE segfaultHandler
    BY <2>12 DEF segfaultHandler
  <2>13. CASE UNCHANGED mainVars
    BY <2>13 DEF mainVars
  <2> QED BY <2>1, <2>2, <2>3, <2>4, <2>5, <2>6, <2>7, <2>8, <2>9, <2>10, <2>11, <2>12, <2>13
          DEF Next, Run, Rest
<1> QED BY <1>1, <1>2, PTL DEF Spec

(* The safety half of InterruptEnds: wherever main is when the handler     *)
(* sets g_done, at most six of its steps later the program has ended.      *)
THEOREM InterruptIsPrompt == Spec => StopRunsDown
<1>1. ASSUME DoneInv, [Next]_mainVars, ~UNCHANGED mainVars, g_done = TRUE
      PROVE  /\ g_done' = TRUE
             /\ StepsLeft(pc) \in 1 .. 6
             /\ StepsLeft(pc') \in 0 .. StepsLeft(pc) - 1
  <2>1. /\ StepsLeft("world") = 6 /\ StepsLeft("enter") = 5
        /\ StepsLeft("raw") = 4 /\ StepsLeft("start") = 4 /\ StepsLeft("tick") = 3
        /\ StepsLeft("loop") = 2 /\ StepsLeft("cooked") = 1
        /\ StepsLeft("exited") = 0 /\ StepsLeft("crashed") = 0
    BY DEF StepsLeft
  <2>2. pc # "begin" /\ Next
    BY <1>1 DEF DoneInv
  <2>3. CASE MakeWorld
    BY <1>1, <2>1, <2>3 DEF MakeWorld
  <2>4. CASE EnterScreen
    BY <1>1, <2>1, <2>4 DEF EnterScreen
  <2>5. CASE EnterRaw
    BY <1>1, <2>1, <2>5 DEF EnterRaw
  <2>6. CASE \E late \in Late : Iterate(late)
    BY <1>1, <2>6 DEF Iterate, GoesOn
  <2>7. CASE StartFrame
    BY <1>1, <2>1, <2>7 DEF StartFrame
  <2>8. CASE \E work \in Work : EndFrame(work)
    BY <1>1, <2>1, <2>8 DEF EndFrame
  <2>9. CASE LeaveScreen
    BY <1>1, <2>1, <2>9 DEF LeaveScreen
  <2>10. CASE LeaveRaw
    BY <1>1, <2>1, <2>10 DEF LeaveRaw
  <2>11. CASE sigintHandler
    BY <1>1, <2>11 DEF sigintHandler, mainVars
  <2>12. CASE segfaultHandler
    BY <1>1, <2>1, <2>12 DEF segfaultHandler
  <2> QED
    BY <1>1, <2>2, <2>3, <2>4, <2>5, <2>6, <2>7, <2>8, <2>9, <2>10, <2>11, <2>12
    DEF Next, Run, Rest, InstallHandlers, SigintDefault
<1>2. DoneInv /\ [Next]_mainVars =>
        [g_done = TRUE => /\ g_done' = TRUE
                          /\ StepsLeft(pc) \in 1 .. 6
                          /\ StepsLeft(pc') \in 0 .. StepsLeft(pc) - 1]_mainVars
  BY <1>1
<1> QED BY <1>2, DoneHolds, PTL DEF Spec, StopRunsDown
=============================================================================
