------------------------------- MODULE Timing -------------------------------
(***************************************************************************)
(* The struct Timing of main.cpp: a ring of the last kFPS frames, the time *)
(* spent in them, and the delay before the next.  epochTimeNanos reads a   *)
(* steady clock, which is the variable now; its values are unsigned, so    *)
(* sums and differences are taken modulo Word.                             *)
(***************************************************************************)
EXTENDS Integers, FiniteSetsExt

CONSTANTS
  kFPS,                \* 60 in main.cpp
  kNanosPerSecond,     \* 10^9 in main.cpp
  Word,                \* 2^64
  Born                 \* what the clock shows when the program starts

kNanosPerFrame == kNanosPerSecond \div kFPS

(* int(0.9 * kNanosPerFrame)                                               *)
kNanosMinDelay == (9 * kNanosPerFrame) \div 10

ASSUME TimingAssumption ==
  /\ kFPS \in Nat \ {0}
  /\ kNanosPerSecond \in Nat
  /\ kNanosPerFrame > 0
  /\ Word \in Nat \ {0}
  /\ Born \in Nat

VARIABLES
  now,                 \* the clock
  frames,              \* when each frame of the ring began and ended
  used,                \* the time spent in them
  index                \* how many frames there were

timingVars == <<now, frames, used, index>>

Slots == 0 .. kFPS - 1

Slot == index % kFPS

NewestOffByOne == (index + kFPS) % kFPS

Newest == (index + kFPS - 1) % kFPS

TimingInit ==
  /\ now = Born
  /\ frames = [slot \in Slots |-> [first |-> Born, second |-> Born]]
  /\ used = 0
  /\ index = 0

(* stats: the time the ring spans, of which used is the busy part.         *)
Span == (frames[Newest].second - frames[Slot].first) % Word

Total == IF Span > 1 THEN Span ELSE 1

(* block: how long it sleeps, and the sleep, which may last longer.        *)
Later(s, t) == IF s >= t THEN s ELSE t

Sooner(s, t) == IF s <= t THEN s ELSE t

NextFrame ==
  Later(frames[Slot].first + kNanosPerSecond, frames[Newest].first + kNanosMinDelay) % Word

DelayOfSecond ==
  IF frames[Slot].first + kNanosPerSecond <= now
  THEN 0
  ELSE Sooner(frames[Slot].first + kNanosPerSecond - now, kNanosPerFrame)

Delay ==
  IF NextFrame <= now
  THEN 0
  ELSE Sooner(NextFrame - now, kNanosPerFrame)

block(late) ==
  /\ now' = now + Delay + late
  /\ UNCHANGED <<frames, used, index>>

Busy(frame) == frame.second - frame.first

startKeepingUsed ==
  /\ frames' = [frames EXCEPT ![Slot].first = now]
  /\ UNCHANGED <<now, used, index>>

start ==
  /\ used' = (used - Busy(frames[Slot])) % Word
  /\ frames' = [frames EXCEPT ![Slot].first = now]
  /\ UNCHANGED <<now, index>>

(* end, when the tick took some time.                                      *)
end(work) ==
  /\ now' = now + work
  /\ frames' = [frames EXCEPT ![Slot].second = now']
  /\ used' = (used + Busy(frames'[Slot])) % Word
  /\ index' = index + 1

-----------------------------------------------------------------------------
(* The time used is that of the frames in the ring but those in slots.     *)
UsedBut(slots) ==
  used = MapThenSumSet(LAMBDA slot : Busy(frames[slot]), Slots \ slots)
=============================================================================
