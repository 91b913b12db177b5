------------------------------ MODULE KeyInput ------------------------------
(***************************************************************************)
(* Terminal::getKeyInputs of main.cpp: once per frame it asks the kernel   *)
(* how many bytes wait on the tty and then reads that many with getchar,   *)
(* which reads through stdio's buffer, decoding them into Inputs.  Keys    *)
(* may be pressed at any moment, also between the two.                     *)
(***************************************************************************)
EXTENDS Integers, Sequences

CONSTANTS
  Key,                 \* the keys that can be pressed
  Bytes,               \* the bytes the tty queues for each key
  MaxBytes             \* bound on the bytes waiting to be read

(* The bytes the parser tells apart; h stands for the printable others,    *)
(* DEL for the control characters, 3 for the parameters of a sequence.     *)
Printable == {"h", "[", "A", "Z", ";", "2", "3"}

Byte == Printable \cup {"ESC", "TAB", "LF", "DEL"}

ASSUME KeyAssumption ==
  /\ Bytes \in [Key -> Seq(Byte) \ {<<>>}]
  /\ MaxBytes \in Nat

VARIABLES
  kernel,              \* the bytes in the tty's queue
  stdio,               \* the bytes in stdin's buffer
  polling,             \* a call of getKeyInputs is in progress
  count, i,            \* what FIONREAD answered and how many were read
  at,                  \* the place of the next getch in the parser
  inputs,              \* the Inputs this call has pushed; then IO::tick has them
  queued,              \* history: the keys whose bytes are in kernel
  fresh,               \* history: stdin's buffer was empty when FIONREAD answered
  due,                 \* history: if so, the keys that were queued
  clean                \* history: nothing came late and nothing was left so far

vars == <<kernel, stdio, polling, count, i, at, inputs, queued, fresh, due, clean>>

Init ==
  /\ kernel = <<>> /\ stdio = <<>>
  /\ polling = FALSE /\ count = 0 /\ i = 0
  /\ at = "key" /\ inputs = <<>>
  /\ queued = <<>> /\ fresh = FALSE /\ due = <<>> /\ clean = TRUE

-----------------------------------------------------------------------------
(* A key is pressed: the tty queues its bytes at once.                     *)
Press(key) ==
  /\ Len(kernel) + Len(stdio) + Len(Bytes[key]) <= MaxBytes
  /\ kernel' = kernel \o Bytes[key]
  /\ queued' = Append(queued, key)
  /\ clean' = (clean /\ ~polling)
  /\ UNCHANGED <<stdio, polling, count, i, at, inputs, fresh, due>>

(* FIONREAD counts the tty's queue only.                                   *)
Fionread == Len(kernel)

Poll ==
  /\ ~polling
  /\ polling' = TRUE
  /\ count' = Fionread
  /\ fresh' = (stdio = <<>>)
  /\ due' = IF fresh' THEN queued ELSE <<>>
  /\ UNCHANGED <<kernel, stdio, i, at, inputs, queued, clean>>

(* getchar: an empty buffer is first filled with all the tty has; with     *)
(* nothing there either the call would block.                              *)
Available == IF stdio = <<>> THEN kernel ELSE stdio

Getchar ==
  /\ Available # <<>>
  /\ stdio' = Tail(Available)
  /\ IF stdio = <<>>
     THEN kernel' = <<>> /\ queued' = <<>>
     ELSE UNCHANGED <<kernel, queued>>

DoneAfterOne == i >= count \/ i >= 1

Done == i >= count

More == i + 1 < count

(* The Input of a byte outside of a sequence, if it has one.               *)
PlainInputOnly(ch) ==
  CASE ch \in Printable -> <<ch>>
    [] ch = "TAB"       -> <<"Tab">>
    [] ch = "LF"        -> <<"Enter">>
    [] OTHER            -> <<>>

PlainInput(ch) ==
  CASE ch \in Printable -> <<ch>>
    [] ch = "TAB"       -> <<"Tab">>
    [] ch = "LF"        -> <<"Enter">>
    [] OTHER            -> IF More THEN <<>> ELSE <<"Esc">>

(* What comes after a byte of the parameters of a sequence.                *)
AfterParameterUnchecked(ch) == IF ch = ";" THEN "modifier" ELSE "semi"

AfterParameter(ch) ==
  IF ~More THEN "key" ELSE IF ch = ";" THEN "modifier" ELSE "semi"

(* Whether the byte after an escape opens a sequence that can be read on.  *)
OpensUnchecked(ch) == ch = "["

Opens(ch) == ch = "[" /\ More

-----------------------------------------------------------------------------
(* One getch and what the parser does with the byte: where it goes on and  *)
(* what it pushes.  Two escapes push Input(27), which is not Input::Esc.   *)
Goes(place, pushed) == at' = place /\ inputs' = inputs \o pushed

Finished == polling /\ at = "key" /\ Done

ReadKey(ch) ==
  /\ at = "key"
  /\ \/ ch = "ESC" /\ More /\ Goes("escape", <<>>)
     \/ ~(ch = "ESC" /\ More) /\ Goes("key", PlainInput(ch))

ReadEscape(ch) ==
  /\ at = "escape"
  /\ \/ ch = "ESC" /\ Goes("key", <<"27">>)
     \/ Opens(ch) /\ Goes("code", <<>>)

ReadCode(ch) ==
  /\ at = "code"
  /\ \/ ch = "A" /\ Goes("key", <<"Up">>)
     \/ ch = "Z" /\ Goes("key", <<"ShiftTab">>)
     \/ ch \notin {"A", "Z"} /\ Goes(AfterParameter(ch), <<>>)

ReadSemi(ch) == at = "semi" /\ Goes(AfterParameter(ch), <<>>)

(* The last byte is read on after any modifier, but matters after a 2.     *)
ReadModifier(ch) ==
  /\ at = "modifier"
  /\ Goes(IF ~More THEN "key" ELSE IF ch = "2" THEN "shifted" ELSE "last", <<>>)

ReadLast(ch) ==
  \/ at = "shifted" /\ Goes("key", IF ch = "A" THEN <<"ShiftUp">> ELSE <<>>)
  \/ at = "last" /\ Goes("key", <<>>)

Read ==
  /\ polling /\ ~Finished
  /\ Getchar
  /\ LET ch == Head(Available)
     IN  ReadKey(ch) \/ ReadEscape(ch) \/ ReadCode(ch) \/ ReadSemi(ch) \/ ReadModifier(ch) \/ ReadLast(ch)
  /\ i' = i + 1
  /\ UNCHANGED <<polling, count, fresh, due, clean>>

(* An escape that opens no sequence ends the call: i = count leaves the    *)
(* rest of the bytes where they are.                                       *)
Abandon ==
  /\ at = "escape"
  /\ Getchar
  /\ Head(Available) # "ESC" /\ ~Opens(Head(Available))
  /\ Goes("key", <<>>)
  /\ i' = count
  /\ clean' = (clean /\ ~More)
  /\ UNCHANGED <<polling, count, fresh, due>>

Return ==
  /\ Finished
  /\ polling' = FALSE /\ count' = 0 /\ i' = 0 /\ inputs' = <<>>
  /\ fresh' = FALSE /\ due' = <<>>
  /\ UNCHANGED <<kernel, stdio, at, queued, clean>>

Parse == Read \/ Abandon \/ Return

Next == (\E key \in Key : Press(key)) \/ Poll \/ Parse

Spec == Init /\ [][Next]_vars

(* The call runs on: nothing but an empty tty stops it.                    *)
FairSpec == Spec /\ WF_vars(Parse)

-----------------------------------------------------------------------------
TypeOK ==
  /\ kernel \in Seq(Byte)
  /\ stdio \in Seq(Byte)
  /\ polling \in BOOLEAN
  /\ count \in Nat
  /\ i \in 0 .. count
  /\ at \in {"key", "escape", "code", "semi", "modifier", "shifted", "last"}
  /\ inputs \in Seq(Printable \cup {"Esc", "Tab", "Enter", "Up", "ShiftTab", "ShiftUp", "27"})

(* No getchar blocks the game: whenever the parser is about to call it, at *)
(* any of its places, a byte is there (main.cpp:133), although the count   *)
(* is old and part of the bytes are in the other buffer.                   *)
NeverBlocks == polling /\ ~Finished => stdio # <<>> \/ kernel # <<>>

(* The keys the parser knows, and what they mean to it.                    *)
Meaning == [key \in Key |->
  CASE Bytes[key] = <<"ESC">>                             -> "Esc"
    [] Bytes[key] = <<"TAB">>                             -> "Tab"
    [] Bytes[key] = <<"LF">>                              -> "Enter"
    [] Bytes[key] = <<"ESC", "[", "A">>                   -> "Up"
    [] Bytes[key] = <<"ESC", "[", "Z">>                   -> "ShiftTab"
    [] Bytes[key] = <<"ESC", "[", "3", ";", "2", "A">>    -> "ShiftUp"
    [] Len(Bytes[key]) = 1 /\ Bytes[key][1] \in Printable -> Bytes[key][1]
    [] OTHER                                              -> "unknown"]

Legible(keys) ==
  \A k \in 1 .. Len(keys) :
    Meaning[keys[k]] # "unknown" /\ (Meaning[keys[k]] = "Esc" => k = Len(keys))

(* A call that finds stdin's buffer empty pushes exactly the keys that     *)
(* were waiting, one Input each and in order, if it knows them and an      *)
(* escape is the last: wherever the keys that come meanwhile fall, it does *)
(* not cut a sequence.                                                     *)
PollDecodesKeys ==
  Finished /\ fresh /\ Legible(due) => inputs = [k \in 1 .. Len(due) |-> Meaning[due[k]]]

(* Bytes are left behind in stdin's buffer, where FIONREAD does not see    *)
(* them, only after a key was pressed during a call or a sequence was      *)
(* abandoned.                                                              *)
PollsDrain == ~polling /\ clean => stdio = <<>>

(* Every call returns, without any further key being pressed.              *)
PollReturns == polling ~> ~polling
=============================================================================
