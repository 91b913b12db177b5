--------------------------- MODULE KeyInputProofs ---------------------------
(***************************************************************************)
(* For all keys and byte sequences: getKeyInputs keeps its types, never    *)
(* calls getchar without a byte to read, leaves nothing behind unless      *)
(* something came late, and decodes the keys that waited.  The first       *)
(* invariant is that the two buffers together hold what is left of the     *)
(* count, and that the parser is inside of a sequence only while some of   *)
(* the count is left.                                                      *)
(***************************************************************************)
EXTENDS KeyInput, TLAPS

Places == {"key", "escape", "code", "semi", "modifier", "shifted", "last"}

PushedInput == Printable \cup {"Esc", "Tab", "Enter", "Up", "ShiftTab", "ShiftUp", "27"}

Covered == polling = TRUE => Len(kernel) + Len(stdio) >= count - i

InSequence == at # "key" => polling = TRUE /\ i < count

AtRest == polling = FALSE => i = 0

Inv == TypeOK /\ Covered /\ InSequence /\ AtRest

-----------------------------------------------------------------------------
(* getchar takes one byte out of the two buffers.                          *)
LEMMA GetcharTakesOne ==
  ASSUME TypeOK, Getchar
  PROVE  /\ kernel' \in Seq(Byte)
         /\ stdio' \in Seq(Byte)
         /\ Len(kernel') + Len(stdio') = Len(kernel) + Len(stdio) - 1
         /\ Head(Available) \in Byte
<1>1. Available \in Seq(Byte) /\ Available # <<>>
  BY DEF TypeOK, Getchar, Available
<1>2. /\ Tail(Available) \in Seq(Byte)
      /\ Len(Tail(Available)) = Len(Available) - 1
      /\ Head(Available) \in Byte
  BY <1>1
<1>3. CASE stdio = <<>>
  BY <1>1, <1>2, <1>3 DEF TypeOK, Getchar, Available
<1>4. CASE stdio # <<>>
  BY <1>1, <1>2, <1>4 DEF TypeOK, Getchar, Available
<1> QED
  BY <1>3, <1>4

(* What is pushed for a byte outside of a sequence.                        *)
LEMMA PlainInputType ==
  ASSUME NEW ch \in Byte
  PROVE  PlainInput(ch) \in Seq(PushedInput)
<1>1. \A x \in PushedInput : <<x>> \in Seq(PushedInput)
  OBVIOUS
<1>2. CASE ch \in Printable
  <2>1. PlainInput(ch) = <<ch>>
    BY <1>2 DEF PlainInput, Printable
  <2> QED
    BY <1>1, <1>2, <2>1 DEF PushedInput
<1>3. CASE ch = "TAB"
  BY <1>1, <1>3 DEF PlainInput, Printable, PushedInput
<1>4. CASE ch = "LF"
  BY <1>1, <1>4 DEF PlainInput, Printable, PushedInput
<1>5. CASE ch \in {"ESC", "DEL"}
  <2>1. PlainInput(ch) = IF More THEN <<>> ELSE <<"Esc">>
    BY <1>5 DEF PlainInput, Printable
  <2>2. "Esc" \in PushedInput
    BY DEF PushedInput
  <2> QED
    BY <1>1, <2>1, <2>2
<1> QED
  BY <1>2, <1>3, <1>4, <1>5 DEF Byte

(* Where the parameters of a sequence lead.                                *)
LEMMA AfterParameterPlace ==
  ASSUME NEW ch
  PROVE  AfterParameter(ch) \in Places /\ (AfterParameter(ch) = "key" \/ More)
<1>1. CASE More
  BY <1>1 DEF AfterParameter, Places
<1>2. CASE ~More
  BY <1>2 DEF AfterParameter, Places
<1> QED
  BY <1>1, <1>2

(* A byte that is read takes the parser to one of its places, inside of a  *)
(* sequence only if there is more to read.                                 *)
LEMMA ReadGoesOn ==
  ASSUME TypeOK, NEW ch \in Byte,
         ReadKey(ch) \/ ReadEscape(ch) \/ ReadCode(ch) \/ ReadSemi(ch) \/ ReadModifier(ch) \/ ReadLast(ch)
  PROVE  /\ at' \in Places
         /\ at' = "key" \/ More
         /\ inputs' \in Seq(PushedInput)
<1>1. \A pushed \in Seq(PushedInput) : inputs \o pushed \in Seq(PushedInput)
  BY DEF TypeOK, PushedInput
<1>2. /\ <<>> \in Seq(PushedInput)
      /\ \A x \in PushedInput : <<x>> \in Seq(PushedInput)
  OBVIOUS
<1>3. CASE ReadKey(ch)
  BY <1>1, <1>2, <1>3, PlainInputType DEF ReadKey, Goes, Places
<1>4. CASE ReadEscape(ch)
  BY <1>1, <1>2, <1>4 DEF ReadEscape, Opens, Goes, Places, PushedInput
<1>5. CASE ReadCode(ch)
  <2>1. CASE ch \in {"A", "Z"}
    BY <1>1, <1>2, <1>5, <2>1 DEF ReadCode, Goes, Places, PushedInput
  <2>2. CASE ch \notin {"A", "Z"}
    BY <1>1, <1>2, <1>5, <2>2, AfterParameterPlace DEF ReadCode, Goes
  <2> QED
    BY <2>1, <2>2
<1>6. CASE ReadSemi(ch)
  BY <1>1, <1>2, <1>6, AfterParameterPlace DEF ReadSemi, Goes
<1>7. CASE ReadModifier(ch)
  BY <1>1, <1>2, <1>7 DEF ReadModifier, Goes, Places
<1>8. CASE ReadLast(ch)
  BY <1>1, <1>2, <1>8 DEF ReadLast, Goes, Places, PushedInput
<1> QED
  BY <1>3, <1>4, <1>5, <1>6, <1>7, <1>8

-----------------------------------------------------------------------------
LEMMA EmptySequence ==
  ASSUME NEW S
  PROVE  <<>> \in Seq(S)
OBVIOUS

LEMMA InvInit == Init => Inv
<1> SUFFICES ASSUME Init
             PROVE  Inv
  OBVIOUS
<1>1. <<>> \in Seq(Byte) /\ <<>> \in Seq(PushedInput)
  BY EmptySequence
<1>2. TypeOK
  <2>1. polling \in BOOLEAN
    BY DEF Init
  <2>2. count \in Nat /\ i \in 0 .. count
    BY DEF Init
  <2>3. kernel \in Seq(Byte) /\ stdio \in Seq(Byte) /\ inputs \in Seq(PushedInput)
    BY <1>1 DEF Init
  <2>4. at = "key"
    BY DEF Init
  <2> QED
    BY <2>1, <2>2, <2>3, <2>4 DEF TypeOK, PushedInput
<1> QED
  BY <1>2 DEF Init, Inv, Covered, InSequence, AtRest

LEMMA InvPress ==
  ASSUME Inv, NEW key \in Key, Press(key)
  PROVE  Inv'
<1>1. /\ Bytes[key] \in Seq(Byte)
      /\ kernel \in Seq(Byte)
  BY KeyAssumption DEF Inv, TypeOK
<1>2. kernel' \in Seq(Byte) /\ Len(kernel') >= Len(kernel)
  BY <1>1 DEF Press
<1>3. UNCHANGED <<stdio, polling, count, i, at, inputs>>
  BY DEF Press
<1>4. TypeOK'
  BY <1>2, <1>3 DEF Inv, TypeOK
<1>5. Covered'
  BY <1>1, <1>2, <1>3 DEF Inv, TypeOK, Covered
<1> QED
  BY <1>3, <1>4, <1>5 DEF Inv, InSequence, AtRest

LEMMA InvPoll ==
  ASSUME Inv, Poll
  PROVE  Inv'
<1>1. /\ UNCHANGED <<kernel, stdio, i, at, inputs>>
      /\ polling = FALSE /\ polling' = TRUE
      /\ count' = Len(kernel)
  BY DEF Poll, Fionread, Inv, TypeOK
<1>2. i = 0 /\ at = "key"
  BY <1>1 DEF Inv, AtRest, InSequence
<1>3. Len(kernel) \in Nat /\ Len(stdio) \in Nat
  BY DEF Inv, TypeOK
<1>4. TypeOK'
  BY <1>1, <1>2, <1>3 DEF Inv, TypeOK
<1> QED
  BY <1>1, <1>2, <1>3, <1>4 DEF Inv, Covered, InSequence, AtRest

LEMMA InvRead ==
  ASSUME Inv, Read
  PROVE  Inv'
<1>1. /\ kernel' \in Seq(Byte)
      /\ stdio' \in Seq(Byte)
      /\ Len(kernel') + Len(stdio') = Len(kernel) + Len(stdio) - 1
      /\ Head(Available) \in Byte
  BY GetcharTakesOne DEF Inv, Read
<1>2. /\ at' \in Places
      /\ at' = "key" \/ More
      /\ inputs' \in Seq(PushedInput)
  BY <1>1, ReadGoesOn DEF Inv, Read
<1>3. /\ polling = TRUE /\ polling' = TRUE
      /\ count' = count
      /\ i' = i + 1
  BY DEF Inv, TypeOK, Read
<1>4. count \in Nat /\ i \in Nat /\ i < count
  BY <1>3 DEF Inv, TypeOK, InSequence, Read, Finished, Done
<1>5. TypeOK'
  BY <1>1, <1>2, <1>3, <1>4 DEF TypeOK, Places, PushedInput
<1>6. Covered'
  BY <1>1, <1>3, <1>4 DEF Inv, TypeOK, Covered
<1>7. InSequence'
  BY <1>2, <1>3, <1>4 DEF InSequence, More
<1> QED
  BY <1>3, <1>5, <1>6, <1>7 DEF Inv, AtRest

LEMMA InvAbandon ==
  ASSUME Inv, Abandon
  PROVE  Inv'
<1>1. /\ kernel' \in Seq(Byte)
      /\ stdio' \in Seq(Byte)
  BY GetcharTakesOne DEF Inv, Abandon
<1>2. /\ at' = "key"
      /\ inputs' = inputs \o <<>>
      /\ i' = count
      /\ UNCHANGED <<polling, count>>
  BY DEF Abandon, Goes
<1>3. polling = TRUE
  BY DEF Inv, InSequence, Abandon
<1>4. TypeOK'
  BY <1>1, <1>2 DEF Inv, TypeOK
<1> QED
  BY <1>1, <1>2, <1>3, <1>4 DEF Inv, TypeOK, Covered, InSequence, AtRest

LEMMA InvReturn ==
  ASSUME Inv, Return
  PROVE  Inv'
<1>1. /\ UNCHANGED <<kernel, stdio, at>>
      /\ polling' = FALSE
      /\ count' = 0 /\ i' = 0 /\ inputs' = <<>>
      /\ at = "key"
  BY DEF Return, Finished
<1>2. inputs' \in Seq(PushedInput)
  BY <1>1, EmptySequence
<1>3. TypeOK'
  <2>1. polling' \in BOOLEAN
    BY <1>1
  <2>2. count' \in Nat /\ i' \in 0 .. count'
    BY <1>1
  <2> QED
    BY <1>1, <1>2, <2>1, <2>2 DEF Inv, TypeOK, PushedInput
<1> QED
  BY <1>1, <1>3 DEF Inv, Covered, InSequence, AtRest

LEMMA InvStep == Inv /\ [Next]_vars => Inv'
<1>1. ASSUME Inv, UNCHANGED vars
      PROVE  Inv'
  BY <1>1 DEF Inv, TypeOK, Covered, InSequence, AtRest, vars
<1> QED
  BY <1>1, InvPress, InvPoll, InvRead, InvAbandon, InvReturn DEF Next, Parse

LEMMA InvAlways == Spec => []Inv
BY InvInit, InvStep, PTL DEF Spec

(* getKeyInputs keeps its types, whatever the keys send: in particular i   *)
(* never passes the count, in the middle of a sequence either.             *)
THEOREM KeyInputTypeCorrect == Spec => []TypeOK
<1>1. Inv => TypeOK
  BY DEF Inv
<1> QED
  BY <1>1, InvAlways, PTL

(* No getchar ever blocks, for all keys and however they come.             *)
THEOREM PollsNeverBlock == Spec => []NeverBlocks
<1>1. ASSUME Inv
      PROVE  NeverBlocks
  <2>1. SUFFICES ASSUME polling = TRUE, ~Finished, stdio = <<>>, kernel = <<>>
                 PROVE  FALSE
    BY DEF NeverBlocks, Inv, TypeOK
  <2>2. i < count
    BY <1>1, <2>1 DEF Inv, TypeOK, InSequence, Finished, Done
  <2>3. Len(kernel) = 0 /\ Len(stdio) = 0
    BY <2>1
  <2> QED
    BY <1>1, <2>1, <2>2, <2>3 DEF Inv, TypeOK, Covered
<1> QED
  BY <1>1, InvAlways, PTL

-----------------------------------------------------------------------------
(* Nothing is left behind: as long as nothing came late, the two buffers   *)
(* hold exactly what is left of the count, and stdin's buffer is empty     *)
(* between two calls.                                                      *)
Drains ==
  /\ clean \in BOOLEAN
  /\ clean = TRUE /\ polling = TRUE => Len(kernel) + Len(stdio) = count - i
  /\ clean = TRUE /\ polling = FALSE => stdio = <<>>

LEMMA DrainsInit == Init => Drains
<1> SUFFICES ASSUME Init
             PROVE  Drains
  OBVIOUS
<1>1. clean \in BOOLEAN
  BY DEF Init
<1>2. stdio = <<>> /\ polling = FALSE
  BY DEF Init
<1> QED
  BY <1>1, <1>2 DEF Drains

LEMMA DrainsPress ==
  ASSUME Inv, Drains, NEW key \in Key, Press(key)
  PROVE  Drains'
<1>1. clean' \in BOOLEAN /\ (clean' = TRUE => clean = TRUE /\ polling = FALSE)
  BY Zenon DEF Press, Drains, Inv, TypeOK
<1>2. polling' = polling /\ stdio' = stdio
  BY DEF Press
<1> QED
  BY <1>1, <1>2 DEF Drains

LEMMA DrainsPoll ==
  ASSUME Inv, Drains, Poll
  PROVE  Drains'
<1>1. /\ UNCHANGED <<kernel, stdio, i, clean>>
      /\ polling = FALSE /\ polling' = TRUE
      /\ count' = Len(kernel)
  BY DEF Poll, Fionread, Inv, TypeOK
<1>2. i = 0 /\ Len(kernel) \in Nat
  BY <1>1 DEF Inv, AtRest, TypeOK
<1>3. clean \in BOOLEAN
  BY DEF Drains
<1>4. clean = TRUE => Len(stdio) = 0
  BY <1>1 DEF Drains
<1> QED
  BY <1>1, <1>2, <1>3, <1>4 DEF Drains

LEMMA DrainsRead ==
  ASSUME Inv, Drains, Read
  PROVE  Drains'
<1>1. Len(kernel') + Len(stdio') = Len(kernel) + Len(stdio) - 1
  BY GetcharTakesOne DEF Inv, Read
<1>2. /\ polling = TRUE /\ polling' = TRUE
      /\ count' = count /\ i' = i + 1 /\ clean' = clean
  BY DEF Inv, TypeOK, Read
<1>3. /\ count \in Nat /\ i \in Nat
      /\ Len(kernel) \in Nat /\ Len(stdio) \in Nat
  BY DEF Inv, TypeOK
<1>4. clean \in BOOLEAN
  BY DEF Drains
<1>5. clean = TRUE => Len(kernel) + Len(stdio) = count - i
  BY <1>2 DEF Drains
<1> QED
  BY <1>1, <1>2, <1>3, <1>4, <1>5 DEF Drains

(* A sequence that is abandoned on its last byte leaves nothing.           *)
LEMMA DrainsAbandon ==
  ASSUME Inv, Drains, Abandon
  PROVE  Drains'
<1>1. Len(kernel') + Len(stdio') = Len(kernel) + Len(stdio) - 1
  BY GetcharTakesOne DEF Inv, Abandon
<1>2. /\ polling = TRUE /\ polling' = TRUE /\ i < count
      /\ count' = count /\ i' = count
  BY DEF Inv, InSequence, Abandon
<1>3. /\ count \in Nat /\ i \in Nat
      /\ Len(kernel) \in Nat /\ Len(stdio) \in Nat
  BY DEF Inv, TypeOK
<1>4. clean' \in BOOLEAN /\ (clean' = TRUE => clean = TRUE /\ ~More)
  BY Zenon DEF Abandon, Drains
<1>5. clean = TRUE => Len(kernel) + Len(stdio) = count - i
  BY <1>2 DEF Drains
<1>6. ~More => count = i + 1
  BY <1>2, <1>3 DEF More
<1>7. clean' = TRUE => Len(kernel') + Len(stdio') = count' - i'
  BY <1>1, <1>2, <1>3, <1>4, <1>5, <1>6
<1> QED
  BY <1>2, <1>4, <1>7 DEF Drains

LEMMA DrainsReturn ==
  ASSUME Inv, Drains, Return
  PROVE  Drains'
<1>1. /\ UNCHANGED <<kernel, stdio, clean>>
      /\ polling' = FALSE /\ polling = TRUE /\ i >= count
  BY DEF Return, Finished, Done, Inv, TypeOK
<1>2. /\ count \in Nat /\ i \in 0 .. count
      /\ Len(kernel) \in Nat /\ Len(stdio) \in Nat /\ stdio \in Seq(Byte)
  BY DEF Inv, TypeOK
<1>3. clean \in BOOLEAN
  BY DEF Drains
<1>4. clean = TRUE => Len(stdio) = 0
  BY <1>1, <1>2 DEF Drains
<1>5. clean = TRUE => stdio = <<>>
  BY <1>2, <1>4
<1> QED
  BY <1>1, <1>3, <1>5 DEF Drains

LEMMA DrainsStep == Inv /\ Drains /\ [Next]_vars => Drains'
<1>1. ASSUME Drains, UNCHANGED vars
      PROVE  Drains'
  <2>1. clean' = clean /\ polling' = polling /\ kernel' = kernel /\ stdio' = stdio
        /\ count' = count /\ i' = i
    BY <1>1 DEF vars
  <2> QED
    BY <1>1, <2>1 DEF Drains
<1> QED
  BY <1>1, DrainsPress, DrainsPoll, DrainsRead, DrainsAbandon, DrainsReturn DEF Next, Parse

(* Without a key pressed during a call and without an abandoned sequence   *)
(* no call leaves a byte in stdin's buffer, where FIONREAD would miss it.  *)
THEOREM PollsAlwaysDrain == Spec => []PollsDrain
<1>1. Spec => []Drains
  BY DrainsInit, DrainsStep, InvAlways, PTL DEF Spec
<1>2. ASSUME Inv, Drains
      PROVE  PollsDrain
  <2>1. polling \in BOOLEAN /\ clean \in BOOLEAN
    BY <1>2 DEF Inv, TypeOK, Drains
  <2> QED
    BY <1>2, <2>1 DEF Drains, PollsDrain
<1> QED
  BY <1>1, <1>2, InvAlways, PTL

-----------------------------------------------------------------------------
(* The keys that the parser knows.                                         *)
EscBytes == <<"ESC">>
TabBytes == <<"TAB">>
EnterBytes == <<"LF">>
UpBytes == <<"ESC", "[", "A">>
ShiftTabBytes == <<"ESC", "[", "Z">>
ShiftUpBytes == <<"ESC", "[", "3", ";", "2", "A">>

(* The byte by a name: as a literal it ends a line of the SMT solver's     *)
(* input.                                                                  *)
Semicolon == ";"

IsPlain(bytes) == Len(bytes) = 1 /\ bytes[1] \in Printable

LEMMA OneByte ==
  /\ Len(EscBytes) = 1 /\ EscBytes[1] = "ESC"
  /\ Len(TabBytes) = 1 /\ TabBytes[1] = "TAB"
  /\ Len(EnterBytes) = 1 /\ EnterBytes[1] = "LF"
  BY DEF EscBytes, TabBytes, EnterBytes

LEMMA UpIs ==
  Len(UpBytes) = 3 /\ UpBytes[1] = "ESC" /\ UpBytes[2] = "[" /\ UpBytes[3] = "A"
  BY DEF UpBytes

LEMMA ShiftTabIs ==
  /\ Len(ShiftTabBytes) = 3
  /\ ShiftTabBytes[1] = "ESC" /\ ShiftTabBytes[2] = "[" /\ ShiftTabBytes[3] = "Z"
  BY DEF ShiftTabBytes

LEMMA ShiftUpIs ==
  /\ Len(ShiftUpBytes) = 6
  /\ ShiftUpBytes[1] = "ESC" /\ ShiftUpBytes[2] = "[" /\ ShiftUpBytes[3] = "3"
  /\ ShiftUpBytes[4] = Semicolon /\ ShiftUpBytes[5] = "2" /\ ShiftUpBytes[6] = "A"
  BY DEF ShiftUpBytes, Semicolon

(* The parameters 3 and semicolon, when there is more to read.             *)
LEMMA Parameters ==
  ASSUME More
  PROVE  AfterParameter("3") = "semi" /\ AfterParameter(Semicolon) = "modifier"
  BY Zenon DEF AfterParameter, Semicolon

(* No two of them are the same.                                            *)
LEMMA KnownBytesDiffer ==
  /\ EscBytes \notin {TabBytes, EnterBytes, UpBytes, ShiftTabBytes, ShiftUpBytes}
  /\ TabBytes \notin {EnterBytes, UpBytes, ShiftTabBytes, ShiftUpBytes}
  /\ EnterBytes \notin {UpBytes, ShiftTabBytes, ShiftUpBytes}
  /\ UpBytes \notin {ShiftTabBytes, ShiftUpBytes}
  /\ ShiftTabBytes # ShiftUpBytes
  /\ \A b \in {EscBytes, TabBytes, EnterBytes, UpBytes, ShiftTabBytes, ShiftUpBytes} : ~IsPlain(b)
<1>1. "ESC" \notin Printable /\ "TAB" \notin Printable /\ "LF" \notin Printable
  BY DEF Printable
<1> QED
  BY <1>1, OneByte, UpIs, ShiftTabIs, ShiftUpIs DEF IsPlain

LEMMA MeaningOf ==
  ASSUME NEW key \in Key
  PROVE  /\ Bytes[key] = EscBytes => Meaning[key] = "Esc"
         /\ Bytes[key] = TabBytes => Meaning[key] = "Tab"
         /\ Bytes[key] = EnterBytes => Meaning[key] = "Enter"
         /\ Bytes[key] = UpBytes => Meaning[key] = "Up"
         /\ Bytes[key] = ShiftTabBytes => Meaning[key] = "ShiftTab"
         /\ Bytes[key] = ShiftUpBytes => Meaning[key] = "ShiftUp"
         /\ IsPlain(Bytes[key]) => Meaning[key] = Bytes[key][1]
         /\ Meaning[key] # "unknown" =>
              \/ Bytes[key] \in {EscBytes, TabBytes, EnterBytes, UpBytes, ShiftTabBytes, ShiftUpBytes}
              \/ IsPlain(Bytes[key])
<1> DEFINE b == Bytes[key]
<1>1. Meaning[key] =
        CASE b = EscBytes      -> "Esc"
          [] b = TabBytes      -> "Tab"
          [] b = EnterBytes    -> "Enter"
          [] b = UpBytes       -> "Up"
          [] b = ShiftTabBytes -> "ShiftTab"
          [] b = ShiftUpBytes  -> "ShiftUp"
          [] IsPlain(b)        -> b[1]
          [] OTHER             -> "unknown"
  BY DEF Meaning, EscBytes, TabBytes, EnterBytes, UpBytes, ShiftTabBytes, ShiftUpBytes, IsPlain
<1> HIDE DEF b
<1>2. CASE b = EscBytes
  BY <1>1, <1>2, KnownBytesDiffer DEF b
<1>3. CASE b = TabBytes
  BY <1>1, <1>3, KnownBytesDiffer DEF b
<1>4. CASE b = EnterBytes
  BY <1>1, <1>4, KnownBytesDiffer DEF b
<1>5. CASE b = UpBytes
  BY <1>1, <1>5, KnownBytesDiffer DEF b
<1>6. CASE b = ShiftTabBytes
  BY <1>1, <1>6, KnownBytesDiffer DEF b
<1>7. CASE b = ShiftUpBytes
  BY <1>1, <1>7, KnownBytesDiffer DEF b
<1>8. CASE IsPlain(b)
  BY <1>1, <1>8, KnownBytesDiffer DEF b
<1>9. CASE /\ b \notin {EscBytes, TabBytes, EnterBytes, UpBytes, ShiftTabBytes, ShiftUpBytes}
           /\ ~IsPlain(b)
  BY <1>1, <1>9 DEF b
<1> QED
  BY <1>2, <1>3, <1>4, <1>5, <1>6, <1>7, <1>8, <1>9 DEF b

-----------------------------------------------------------------------------
(* Where the bytes of each of some keys begin, when they are queued one    *)
(* after the other.                                                        *)
Offsets(keys, off) ==
  /\ off \in [0 .. Len(keys) -> Nat]
  /\ off[0] = 0
  /\ \A n \in 1 .. Len(keys) :
       off[n] = off[n - 1] + Len(Bytes[keys[n]]) /\ off[n] <= off[Len(keys)]

(* The bytes spell the keys from place d of the keys' bytes on.            *)
Spells(bytes, keys, off, d) ==
  \A n \in 1 .. Len(keys) : \A j \in 1 .. Len(Bytes[keys[n]]) :
    off[n - 1] + j > d => bytes[off[n - 1] + j - d] = Bytes[keys[n]][j]

(* The tty's queue holds the bytes of queued.                              *)
QueueSpelled ==
  \E off : /\ Offsets(queued, off)
           /\ off[Len(queued)] = Len(kernel)
           /\ Spells(kernel, queued, off, 0)

(* What the rest of the count is read from: during a call that began with  *)
(* an empty buffer the buffer is filled once, by the first getchar.        *)
Stream == IF i = 0 THEN kernel ELSE stdio

Ahead(off) ==
  /\ i = 0 => stdio = <<>>
  /\ Len(Stream) >= count - i
  /\ Spells(Stream, due, off, i)

(* The parser has read n keys and is in the next one.                      *)
Depth == CASE at = "key" -> 0 [] at = "escape" -> 1 [] at = "code" -> 2 [] at = "semi" -> 3
           [] at = "modifier" -> 4 [] at = "shifted" -> 5 [] at = "last" -> 6

Parsed(off, n) ==
  /\ inputs = [k \in 1 .. n |-> Meaning[due[k]]]
  /\ i = off[n] + Depth
  /\ at # "last"
  /\ at # "key" =>
       /\ n < Len(due)
       /\ Bytes[due[n + 1]] \in {UpBytes, ShiftTabBytes, ShiftUpBytes}
       /\ at \notin {"escape", "code"} => Bytes[due[n + 1]] = ShiftUpBytes

Decoding(off) ==
  /\ Offsets(due, off)
  /\ off[Len(due)] = count
  /\ Ahead(off)
  /\ Legible(due) => \E n \in 0 .. Len(due) : Parsed(off, n)

DecodeInv ==
  /\ queued \in Seq(Key) /\ due \in Seq(Key)
  /\ fresh \in BOOLEAN
  /\ QueueSpelled
  /\ polling = FALSE => inputs = <<>>
  /\ polling = TRUE /\ fresh = TRUE => \E off : Decoding(off)

-----------------------------------------------------------------------------
LEMMA KeyBytes ==
  ASSUME NEW key \in Key
  PROVE  Bytes[key] \in Seq(Byte) /\ Len(Bytes[key]) \in Nat /\ Len(Bytes[key]) >= 1
  BY KeyAssumption

LEMMA OffsetFacts ==
  ASSUME NEW keys \in Seq(Key), NEW off, Offsets(keys, off)
  PROVE  /\ Len(keys) \in Nat
         /\ \A n \in 0 .. Len(keys) : off[n] \in Nat /\ off[n] <= off[Len(keys)]
         /\ \A n \in 1 .. Len(keys) :
              /\ keys[n] \in Key /\ off[n - 1] \in Nat
              /\ off[n] = off[n - 1] + Len(Bytes[keys[n]])
<1>1. Len(keys) \in Nat /\ \A n \in 0 .. Len(keys) : off[n] \in Nat
  <2>1. Len(keys) \in Nat
    OBVIOUS
  <2>2. off \in [0 .. Len(keys) -> Nat]
    BY DEF Offsets
  <2> QED
    BY <2>1, <2>2
<1>2. \A n \in 1 .. Len(keys) : keys[n] \in Key /\ n - 1 \in 0 .. Len(keys)
  OBVIOUS
<1>3. \A n \in 0 .. Len(keys) : off[n] <= off[Len(keys)]
  <2> SUFFICES ASSUME NEW n \in 0 .. Len(keys)
               PROVE  off[n] <= off[Len(keys)]
    OBVIOUS
  <2>1. CASE n = 0
    <3>1. off[Len(keys)] \in Nat
      BY <1>1
    <3> QED
      BY <2>1, <3>1 DEF Offsets
  <2>2. CASE n \in 1 .. Len(keys)
    BY <2>2 DEF Offsets
  <2> QED
    BY <2>1, <2>2
<1> QED
  BY <1>1, <1>2, <1>3 DEF Offsets

(* Nothing is queued: there is nothing to spell.                           *)
LEMMA NothingSpelled ==
  ASSUME NEW bytes, NEW keys, bytes = <<>>, keys = <<>>
  PROVE  \E off : Offsets(keys, off) /\ off[Len(keys)] = Len(bytes) /\ Spells(bytes, keys, off, 0)
<1> DEFINE off == [n \in 0 .. 0 |-> 0]
<1>1. Len(keys) = 0 /\ Len(bytes) = 0
  OBVIOUS
<1>2. off[0] = 0 /\ off \in [0 .. 0 -> Nat]
  OBVIOUS
<1> HIDE DEF off
<1>3. Offsets(keys, off) /\ Spells(bytes, keys, off, 0) /\ off[Len(keys)] = Len(bytes)
  BY <1>1, <1>2 DEF Offsets, Spells
<1> QED
  BY <1>3

(* Where a byte of a key lies in a sequence that holds the key's bytes.    *)
LEMMA PlaceInRange ==
  ASSUME NEW u \in Nat, NEW v \in Nat, NEW b \in Nat, NEW l \in Nat, NEW d \in Nat,
         NEW j \in 1 .. b, u + b <= v, v - d <= l, u + j > d
  PROVE  u + j - d \in 1 .. l
  OBVIOUS

(* A byte sequence that spells the keys still does when more is appended.  *)
LEMMA SpellsOn ==
  ASSUME NEW bytes \in Seq(Byte), NEW more \in Seq(Byte), NEW keys \in Seq(Key), NEW off,
         NEW d \in Nat,
         Offsets(keys, off), off[Len(keys)] - d <= Len(bytes), Spells(bytes, keys, off, d)
  PROVE  Spells(bytes \o more, keys, off, d)
<1> SUFFICES ASSUME NEW n \in 1 .. Len(keys), NEW j \in 1 .. Len(Bytes[keys[n]]),
                    off[n - 1] + j > d
             PROVE  (bytes \o more)[off[n - 1] + j - d] = Bytes[keys[n]][j]
  BY DEF Spells
<1>1. /\ off[n - 1] \in Nat /\ off[n] \in Nat /\ off[Len(keys)] \in Nat
      /\ off[n] = off[n - 1] + Len(Bytes[keys[n]])
      /\ off[n] <= off[Len(keys)]
      /\ keys[n] \in Key
  BY OffsetFacts
<1>2. Len(Bytes[keys[n]]) \in Nat /\ Len(bytes) \in Nat
  BY <1>1, KeyBytes
<1>3. off[n - 1] + j - d \in 1 .. Len(bytes)
  <2>1. /\ off[n - 1] + Len(Bytes[keys[n]]) <= off[Len(keys)]
        /\ off[Len(keys)] - d <= Len(bytes) /\ off[n - 1] + j > d
    BY <1>1
  <2> QED
    BY <1>1, <1>2, <2>1, PlaceInRange
<1>4. bytes[off[n - 1] + j - d] = Bytes[keys[n]][j]
  BY DEF Spells
<1>5. \A k \in 1 .. Len(bytes) : (bytes \o more)[k] = bytes[k]
  OBVIOUS
<1> QED
  BY <1>3, <1>4, <1>5

(* A key that is pressed extends the spelling of the queue.                *)
LEMMA PressSpells ==
  ASSUME Inv, DecodeInv, NEW key \in Key, Press(key)
  PROVE  QueueSpelled'
<1> DEFINE b == Bytes[key]
           L == Len(queued)
<1>1. kernel' = kernel \o b /\ queued' = Append(queued, key)
  BY DEF Press
<1>2. kernel \in Seq(Byte) /\ queued \in Seq(Key)
  BY DEF Inv, TypeOK, DecodeInv
<1>3. b \in Seq(Byte) /\ Len(b) \in Nat
  BY KeyBytes
<1>4. PICK off : Offsets(queued, off) /\ off[L] = Len(kernel) /\ Spells(kernel, queued, off, 0)
  BY DEF DecodeInv, QueueSpelled
<1> DEFINE new == [n \in 0 .. L + 1 |-> IF n = L + 1 THEN Len(kernel) + Len(b) ELSE off[n]]
<1>5. /\ L \in Nat /\ Len(kernel) \in Nat
      /\ Len(queued') = L + 1 /\ queued'[L + 1] = key
      /\ \A n \in 1 .. L : queued'[n] = queued[n]
  BY <1>1, <1>2
<1>6. Len(kernel') = Len(kernel) + Len(b)
  BY <1>1, <1>2, <1>3
<1>7. \A n \in 0 .. L : new[n] = off[n] /\ off[n] \in Nat /\ off[n] <= Len(kernel)
  BY <1>2, <1>4, <1>5, OffsetFacts
<1>8. new[L + 1] = Len(kernel) + Len(b) /\ DOMAIN new = 0 .. L + 1
  BY <1>5
<1>9. new \in [0 .. L + 1 -> Nat]
  <2>1. ASSUME NEW n \in 0 .. L + 1
        PROVE  (IF n = L + 1 THEN Len(kernel) + Len(b) ELSE off[n]) \in Nat
    <3>1. n = L + 1 \/ n \in 0 .. L
      BY <1>5
    <3>2. ASSUME n \in 0 .. L PROVE n # L + 1 /\ off[n] \in Nat
      <4>1. n # L + 1
        BY <1>5, <3>2
      <4>2. off[n] \in Nat
        BY <1>2, <1>4, <3>2, OffsetFacts
      <4> QED
        BY <4>1, <4>2
    <3>3. Len(kernel) + Len(b) \in Nat
      BY <1>3, <1>5
    <3> QED
      BY <3>1, <3>2, <3>3
  <2> QED
    BY <2>1
<1> HIDE DEF new, b, L
<1>10. Offsets(queued', new)
  <2>1. new[0] = 0
    BY <1>4, <1>5, <1>7 DEF Offsets
  <2>2. ASSUME NEW n \in 1 .. L + 1
        PROVE  new[n] = new[n - 1] + Len(Bytes[queued'[n]]) /\ new[n] <= new[L + 1]
    <3>1. CASE n = L + 1
      <4>1. new[n - 1] = Len(kernel)
        BY <1>4, <1>5, <1>7, <3>1
      <4>2. Len(Bytes[queued'[n]]) = Len(b)
        BY <1>5, <3>1 DEF b
      <4> QED
        BY <1>3, <1>5, <1>8, <3>1, <4>1, <4>2
    <3>2. CASE n \in 1 .. L
      <4>1. n \in 0 .. L /\ n - 1 \in 0 .. L
        BY <1>5, <3>2
      <4>2. new[n] = off[n] /\ new[n - 1] = off[n - 1] /\ off[n] \in Nat /\ off[n] <= Len(kernel)
        BY <1>7, <4>1
      <4>3. off[n] = off[n - 1] + Len(Bytes[queued[n]])
        BY <1>2, <1>4, <3>2, OffsetFacts DEF L
      <4>4. off[n] <= new[L + 1]
        BY <1>3, <1>5, <1>8, <4>2
      <4> QED
        BY <1>5, <3>2, <4>2, <4>3, <4>4
    <3> QED
      BY <1>5, <3>1, <3>2
  <2> QED
    BY <1>5, <1>9, <2>1, <2>2 DEF Offsets
<1>11. Spells(kernel', queued', new, 0)
  <2>1. Spells(kernel', queued, off, 0)
    <3>1. off[Len(queued)] - 0 <= Len(kernel)
      BY <1>4, <1>5 DEF L
    <3> QED
      BY <1>1, <1>2, <1>3, <1>4, <3>1, SpellsOn
  <2> SUFFICES ASSUME NEW n \in 1 .. L + 1, NEW j \in 1 .. Len(Bytes[queued'[n]]),
                      new[n - 1] + j > 0
               PROVE  kernel'[new[n - 1] + j - 0] = Bytes[queued'[n]][j]
    BY <1>5 DEF Spells
  <2>2. CASE n = L + 1
    <3>1. new[n - 1] = Len(kernel) /\ queued'[n] = key /\ j \in 1 .. Len(b)
      BY <1>4, <1>5, <1>7, <2>2 DEF b
    <3>2. \A k \in 1 .. Len(b) : (kernel \o b)[Len(kernel) + k] = b[k]
      BY <1>2, <1>3
    <3>3. Len(kernel) + j - 0 = Len(kernel) + j
      BY <1>5, <3>1, <1>3
    <3> QED
      BY <1>1, <3>1, <3>2, <3>3 DEF b
  <2>3. CASE n \in 1 .. L
    <3>1. n - 1 \in 0 .. L
      BY <1>5, <2>3
    <3>2. new[n - 1] = off[n - 1] /\ queued'[n] = queued[n]
      BY <1>5, <1>7, <2>3, <3>1
    <3> QED
      BY <2>1, <2>3, <3>2 DEF Spells, L
  <2> QED
    BY <1>5, <2>2, <2>3
<1>12. new[Len(queued')] = Len(kernel')
  BY <1>5, <1>6, <1>8
<1> QED
  BY <1>10, <1>11, <1>12 DEF QueueSpelled

LEMMA DecodeInit == Init => DecodeInv
<1> SUFFICES ASSUME Init
             PROVE  DecodeInv
  OBVIOUS
<1>1. queued \in Seq(Key) /\ due \in Seq(Key)
  BY EmptySequence DEF Init
<1>2. fresh \in BOOLEAN
  BY DEF Init
<1>3. QueueSpelled
  BY NothingSpelled DEF Init, QueueSpelled
<1>4. polling = FALSE /\ inputs = <<>>
  BY DEF Init
<1> QED
  BY <1>1, <1>2, <1>3, <1>4 DEF DecodeInv

(* The types that the lemmas below need, without the raw Booleans.         *)
LEMMA DecodeTypes ==
  ASSUME Inv, DecodeInv
  PROVE  /\ kernel \in Seq(Byte) /\ stdio \in Seq(Byte)
         /\ count \in Nat /\ i \in Nat /\ i <= count
         /\ queued \in Seq(Key) /\ due \in Seq(Key)
         /\ Stream \in Seq(Byte) /\ Len(Stream) \in Nat
<1>1. /\ kernel \in Seq(Byte) /\ stdio \in Seq(Byte)
      /\ count \in Nat /\ i \in 0 .. count
      /\ queued \in Seq(Key) /\ due \in Seq(Key)
  BY DEF Inv, TypeOK, DecodeInv
<1>2. Stream \in Seq(Byte)
  BY <1>1 DEF Stream
<1> QED
  BY <1>1, <1>2

(* Keys that come during a call are behind what it reads.                  *)
LEMMA DecodePress ==
  ASSUME Inv, DecodeInv, NEW key \in Key, Press(key)
  PROVE  DecodeInv'
<1>1. /\ kernel' = kernel \o Bytes[key] /\ queued' = Append(queued, key)
      /\ UNCHANGED <<stdio, polling, count, i, at, inputs, fresh, due>>
  BY DEF Press
<1>2. queued' \in Seq(Key) /\ due' \in Seq(Key)
  BY <1>1, DecodeTypes
<1>3. fresh' \in BOOLEAN
  BY <1>1 DEF DecodeInv
<1>4. QueueSpelled'
  BY PressSpells
<1>5. polling' = FALSE => inputs' = <<>>
  BY <1>1 DEF DecodeInv
<1>6. ASSUME polling = TRUE, fresh = TRUE
      PROVE  (\E off : Decoding(off))'
  <2>1. PICK off : Decoding(off)
    BY <1>6 DEF DecodeInv
  <2>2. /\ Offsets(due, off) /\ off[Len(due)] = count
        /\ i = 0 => stdio = <<>>
        /\ Len(Stream) >= count - i
        /\ Spells(Stream, due, off, i)
    BY <2>1 DEF Decoding, Ahead
  <2>3. Bytes[key] \in Seq(Byte)
    BY KeyBytes
  <2>4. Len(Stream') >= count - i /\ Spells(Stream', due, off, i)
    <3>1. CASE i = 0
      <4>1. Stream' = Stream \o Bytes[key]
        BY <1>1, <3>1 DEF Stream
      <4>2. Len(Stream') >= Len(Stream)
        BY <2>3, <4>1, DecodeTypes
      <4>3. off[Len(due)] - i <= Len(Stream)
        BY <2>2, DecodeTypes
      <4>4. Spells(Stream \o Bytes[key], due, off, i)
        BY <2>2, <2>3, <4>3, DecodeTypes, SpellsOn
      <4>5. Stream' \in Seq(Byte)
        BY <2>3, <4>1, DecodeTypes
      <4> QED
        BY <2>2, <4>1, <4>2, <4>4, <4>5, DecodeTypes
    <3>2. CASE i # 0
      <4>1. Stream' = Stream
        BY <1>1, <3>2 DEF Stream
      <4> QED
        BY <2>2, <4>1
    <3> QED
      BY <3>1, <3>2
  <2>5. Ahead(off)'
    BY <1>1, <2>2, <2>4 DEF Ahead
  <2>6. Legible(due)' => \E n \in 0 .. Len(due) : Parsed(off, n)'
    BY <1>1, <2>1 DEF Decoding, Parsed, Depth, Legible
  <2>7. Decoding(off)'
    BY <1>1, <2>2, <2>5, <2>6 DEF Decoding
  <2> QED
    BY <2>7
<1> QED
  BY <1>1, <1>2, <1>3, <1>4, <1>5, <1>6 DEF DecodeInv

(* A call begins with the bytes of the queued keys ahead of it.            *)
LEMMA DecodePoll ==
  ASSUME Inv, DecodeInv, Poll
  PROVE  DecodeInv'
<1>1. /\ UNCHANGED <<kernel, stdio, i, at, inputs, queued>>
      /\ polling = FALSE /\ polling' = TRUE
      /\ count' = Len(kernel)
  BY DEF Poll, Fionread, Inv, TypeOK
<1>2. i = 0 /\ at = "key" /\ inputs = <<>>
  BY <1>1 DEF Inv, AtRest, InSequence, DecodeInv
<1>3. fresh' \in BOOLEAN /\ (fresh' = TRUE => stdio = <<>> /\ due' = queued)
  BY Zenon DEF Poll
<1>4. due' \in Seq(Key)
  <2>1. due' \in {queued, <<>>}
    BY Zenon DEF Poll
  <2> QED
    BY <2>1, DecodeTypes, EmptySequence
<1>5. QueueSpelled'
  BY <1>1 DEF DecodeInv, QueueSpelled
<1>6. ASSUME fresh' = TRUE
      PROVE  (\E off : Decoding(off))'
  <2>1. PICK off : /\ Offsets(queued, off) /\ off[Len(queued)] = Len(kernel)
                   /\ Spells(kernel, queued, off, 0)
    BY DEF DecodeInv, QueueSpelled
  <2>2. due' = queued /\ stdio' = <<>> /\ Stream' = kernel /\ i' = 0
    BY <1>1, <1>2, <1>3, <1>6 DEF Stream
  <2>3. Len(kernel) \in Nat /\ Len(queued) \in Nat
    BY DecodeTypes
  <2>4. Ahead(off)'
    BY <1>1, <2>1, <2>2, <2>3 DEF Ahead
  <2>5. Parsed(off, 0)'
    <3>1. inputs' = [k \in 1 .. 0 |-> Meaning[due'[k]]]
      BY <1>1, <1>2
    <3>2. i' = off[0] + 0
      BY <2>1, <2>2 DEF Offsets
    <3>3. at' = "key"
      BY <1>1, <1>2
    <3>4. Depth' = 0
      BY <3>3 DEF Depth
    <3> QED
      BY <3>1, <3>2, <3>3, <3>4 DEF Parsed
  <2>6. 0 \in 0 .. Len(due')
    BY <2>2, <2>3
  <2>7. Decoding(off)'
    BY <1>1, <2>1, <2>2, <2>4, <2>5, <2>6 DEF Decoding
  <2> QED
    BY <2>7
<1> QED
  BY <1>1, <1>3, <1>4, <1>5, <1>6, DecodeTypes DEF DecodeInv

LEMMA DecodeReturn ==
  ASSUME Inv, DecodeInv, Return
  PROVE  DecodeInv'
<1>1. /\ UNCHANGED <<kernel, queued>>
      /\ polling' = FALSE /\ inputs' = <<>> /\ due' = <<>>
  BY DEF Return
<1>2. fresh' \in BOOLEAN
  BY DEF Return
<1>3. queued' \in Seq(Key) /\ due' \in Seq(Key)
  BY <1>1, DecodeTypes, EmptySequence
<1>4. QueueSpelled'
  BY <1>1 DEF DecodeInv, QueueSpelled
<1> QED
  BY <1>1, <1>2, <1>3, <1>4 DEF DecodeInv

-----------------------------------------------------------------------------
(* getchar empties the tty's queue or leaves it alone.                     *)
LEMMA GetcharSpells ==
  ASSUME Inv, DecodeInv, Getchar
  PROVE  QueueSpelled' /\ queued' \in Seq(Key)
<1>1. CASE stdio = <<>>
  <2>1. kernel' = <<>> /\ queued' = <<>>
    BY <1>1 DEF Getchar
  <2>2. QueueSpelled'
    BY <2>1, NothingSpelled DEF QueueSpelled
  <2> QED
    BY <2>1, <2>2, EmptySequence
<1>2. CASE stdio # <<>>
  <2>1. kernel' = kernel /\ queued' = queued
    BY <1>2 DEF Getchar
  <2> QED
    BY <2>1, DecodeTypes DEF DecodeInv, QueueSpelled
<1> QED
  BY <1>1, <1>2

(* While some of the count is left, getchar reads the stream.              *)
LEMMA ReadsTheStream ==
  ASSUME Inv, DecodeInv, NEW off, Decoding(off), i < count, Getchar
  PROVE  /\ Available = Stream /\ Stream # <<>>
         /\ Head(Available) = Stream[1]
         /\ stdio' = Tail(Stream)
<1>1. Len(Stream) >= count - i /\ (i = 0 => stdio = <<>>)
  BY DEF Decoding, Ahead
<1>2. Len(Stream) >= 1 /\ Stream # <<>>
  <2>1. Len(Stream) >= 1
    BY <1>1, DecodeTypes
  <2> QED
    BY <2>1, DecodeTypes
<1>3. Available = Stream
  BY <1>1, <1>2, DecodeTypes DEF Available, Stream
<1>4. Head(Available) = Stream[1]
  BY <1>2, <1>3, DecodeTypes
<1>5. stdio' = Tail(Stream)
  BY <1>3 DEF Getchar
<1> QED
  BY <1>2, <1>3, <1>4, <1>5

(* The stream goes on to spell the keys when its first byte is read.       *)
LEMMA AheadRead ==
  ASSUME Inv, DecodeInv, NEW off, Decoding(off), i < count,
         stdio' = Tail(Stream), Stream # <<>>, i' = i + 1, count' = count, due' = due
  PROVE  Ahead(off)'
<1>1. Stream' = Tail(Stream) /\ i' # 0
  BY DecodeTypes DEF Stream
<1>2. /\ Len(Stream') = Len(Stream) - 1
      /\ \A k \in 1 .. Len(Stream) - 1 : Stream'[k] = Stream[k + 1]
  BY <1>1, DecodeTypes
<1>3. Len(Stream) >= count - i /\ Spells(Stream, due, off, i)
  BY DEF Decoding, Ahead
<1>4. Len(Stream') >= count - (i + 1)
  BY <1>2, <1>3, DecodeTypes
<1>5. Spells(Stream', due, off, i + 1)
  <2> SUFFICES ASSUME NEW n \in 1 .. Len(due), NEW j \in 1 .. Len(Bytes[due[n]]),
                      off[n - 1] + j > i + 1
               PROVE  Stream'[off[n - 1] + j - (i + 1)] = Bytes[due[n]][j]
    BY DEF Spells
  <2>1. /\ off[n - 1] \in Nat /\ off[n] = off[n - 1] + Len(Bytes[due[n]])
        /\ off[n] <= count /\ due[n] \in Key
    <3>1. due \in Seq(Key) /\ Offsets(due, off) /\ off[Len(due)] = count
      BY DecodeTypes DEF Decoding
    <3>2. \A k \in 0 .. Len(due) : off[k] <= off[Len(due)]
      BY <3>1, OffsetFacts
    <3>3. off[n - 1] \in Nat /\ off[n] = off[n - 1] + Len(Bytes[due[n]]) /\ due[n] \in Key
      BY <3>1, OffsetFacts
    <3>4. n \in 0 .. Len(due)
      BY <3>1
    <3> QED
      BY <3>1, <3>2, <3>3, <3>4
  <2>2. Len(Bytes[due[n]]) \in Nat /\ i \in Nat /\ count \in Nat /\ Len(Stream) \in Nat
    BY <2>1, KeyBytes, DecodeTypes
  <2> DEFINE u == off[n - 1]
             b == Len(Bytes[due[n]])
             x == u + j - (i + 1)
  <2>3. u \in Nat /\ b \in Nat /\ j \in 1 .. b /\ u + b <= count /\ u + j > i + 1
    BY <2>1, <2>2
  <2> HIDE DEF u, b
  <2>4. x \in 1 .. Len(Stream) - 1 /\ x + 1 = u + j - i /\ u + j > i
    BY <1>3, <2>2, <2>3
  <2>5. Stream[u + j - i] = Bytes[due[n]][j]
    BY <1>3, <2>4 DEF Spells, u
  <2>6. Stream'[x] = Stream[x + 1]
    BY <1>2, <2>4
  <2> HIDE DEF x
  <2>7. Stream'[x] = Bytes[due[n]][j]
    BY <2>4, <2>5, <2>6
  <2> QED
    BY <2>7 DEF x, u
<1> QED
  BY <1>1, <1>4, <1>5 DEF Ahead

(* The next byte is one of the key that the parser is in, and there is     *)
(* more to read unless it is the last of all.                              *)
LEMMA NextByte ==
  ASSUME Inv, DecodeInv, NEW off, Decoding(off), NEW n \in 0 .. Len(due), n < Len(due),
         NEW d \in Nat, i = off[n] + d, d < Len(Bytes[due[n + 1]])
  PROVE  /\ i < count
         /\ n + 1 \in 1 .. Len(due) /\ n + 1 \in 0 .. Len(due) /\ due[n + 1] \in Key
         /\ off[n] \in Nat
         /\ off[n + 1] = off[n] + Len(Bytes[due[n + 1]])
         /\ off[n + 1] <= count
         /\ Stream[1] = Bytes[due[n + 1]][d + 1]
         /\ d + 1 < Len(Bytes[due[n + 1]]) => More
         /\ n + 1 = Len(due) /\ d + 1 = Len(Bytes[due[n + 1]]) => ~More
<1> DEFINE b == Len(Bytes[due[n + 1]])
<1>1. Len(due) \in Nat /\ n + 1 \in 1 .. Len(due) /\ n + 1 \in 0 .. Len(due) /\ (n + 1) - 1 = n
  BY DecodeTypes
<1>2. /\ due[n + 1] \in Key /\ off[n] \in Nat /\ off[n + 1] = off[n] + b
      /\ off[n + 1] <= count
      /\ n + 1 = Len(due) => off[n + 1] = count
  <2>1. Offsets(due, off) /\ off[Len(due)] = count
    BY DEF Decoding
  <2> QED
    BY <1>1, <2>1, DecodeTypes, OffsetFacts
<1>3. b \in Nat /\ i \in Nat /\ count \in Nat
  BY <1>2, KeyBytes, DecodeTypes
<1>4. Stream[off[n] + (d + 1) - i] = Bytes[due[n + 1]][d + 1]
  <2>1. d + 1 \in 1 .. b /\ off[n] + (d + 1) > i
    BY <1>2, <1>3
  <2>2. Spells(Stream, due, off, i)
    BY DEF Decoding, Ahead
  <2>3. off[(n + 1) - 1] + (d + 1) > i => Stream[off[(n + 1) - 1] + (d + 1) - i] = Bytes[due[n + 1]][d + 1]
    BY <1>1, <2>1, <2>2 DEF Spells
  <2> QED
    BY <1>1, <2>1, <2>3
<1>5. off[n] + (d + 1) - i = 1
  BY <1>2, <1>3
<1> HIDE DEF b
<1>6. d < b
  BY DEF b
<1>7. i < count /\ (d + 1 < b => i + 1 < count)
  BY <1>2, <1>3, <1>6
<1>8. n + 1 = Len(due) /\ d + 1 = b => ~(i + 1 < count)
  BY <1>2, <1>3
<1> QED
  BY <1>1, <1>2, <1>4, <1>5, <1>7, <1>8 DEF More, b

(* The same with the place of the byte in its key.                         *)
LEMMA NextByteAt ==
  ASSUME Inv, DecodeInv, NEW off, Decoding(off), NEW n \in 0 .. Len(due), n < Len(due),
         NEW d \in Nat, NEW e \in Nat, e = d + 1, i = off[n] + d, e <= Len(Bytes[due[n + 1]]),
         Len(Bytes[due[n + 1]]) \in Nat
  PROVE  /\ due[n + 1] \in Key
         /\ Stream[1] = Bytes[due[n + 1]][e]
         /\ e < Len(Bytes[due[n + 1]]) => More
         /\ n + 1 = Len(due) /\ e = Len(Bytes[due[n + 1]]) => ~More
<1>1. d < Len(Bytes[due[n + 1]])
  OBVIOUS
<1> QED
  BY <1>1, NextByte

(* The sequences that the parser knows begin alike.                        *)
LEMMA SequencesBegin ==
  ASSUME NEW b \in {UpBytes, ShiftTabBytes, ShiftUpBytes}
  PROVE  Len(b) \in Nat /\ 3 <= Len(b) /\ b[1] = "ESC" /\ b[2] = "["
<1>1. CASE b = UpBytes
  BY <1>1, UpIs
<1>2. CASE b = ShiftTabBytes
  BY <1>2, ShiftTabIs
<1>3. CASE b = ShiftUpBytes
  BY <1>3, ShiftUpIs
<1> QED
  BY <1>1, <1>2, <1>3

(* One more key has been pushed.                                           *)
LEMMA OneMoreInput ==
  ASSUME NEW keys \in Seq(Key), NEW n \in 0 .. Len(keys), n < Len(keys)
  PROVE  /\ [k \in 1 .. n |-> Meaning[keys[k]]] \o <<Meaning[keys[n + 1]]>>
              = [k \in 1 .. n + 1 |-> Meaning[keys[k]]]
         /\ [k \in 1 .. n |-> Meaning[keys[k]]] \o <<>> = [k \in 1 .. n |-> Meaning[keys[k]]]
<1> DEFINE f == [k \in 1 .. n |-> Meaning[keys[k]]]
           S == {Meaning[keys[k]] : k \in 1 .. Len(keys)}
           x == Meaning[keys[n + 1]]
<1>1. n \in Nat /\ n + 1 \in 1 .. Len(keys)
  OBVIOUS
<1>2. f \in Seq(S) /\ Len(f) = n
  BY <1>1
<1>3. x \in S
  BY <1>1
<1>4. \A k \in 1 .. n : f[k] = Meaning[keys[k]]
  BY <1>1
<1> HIDE DEF f, S, x
<1>5. <<x>> \in Seq(S) /\ Len(<<x>>) = 1 /\ <<x>>[1] = x
  BY <1>3
<1>6. f \o <<x>> \in Seq(S) /\ Len(f \o <<x>>) = n + 1 /\ (f \o <<x>>)[n + 1] = x
      /\ \A k \in 1 .. n : (f \o <<x>>)[k] = f[k]
  BY <1>1, <1>2, <1>5
<1>7. f \o <<x>> = [k \in 1 .. n + 1 |-> Meaning[keys[k]]]
  <2>1. f \o <<x>> = [k \in 1 .. n + 1 |-> (f \o <<x>>)[k]]
    BY <1>6
  <2>2. \A k \in 1 .. n + 1 : (f \o <<x>>)[k] = Meaning[keys[k]]
    <3> SUFFICES ASSUME NEW k \in 1 .. n + 1
                 PROVE  (f \o <<x>>)[k] = Meaning[keys[k]]
      OBVIOUS
    <3>1. CASE k = n + 1
      BY <1>6, <3>1 DEF x
    <3>2. CASE k \in 1 .. n
      BY <1>4, <1>6, <3>2
    <3>3. k = n + 1 \/ k \in 1 .. n
      BY <1>1
    <3> QED
      BY <3>1, <3>2, <3>3
  <2> QED
    BY <2>1, <2>2
<1>8. f \o <<>> = f
  BY <1>2
<1> QED
  BY <1>7, <1>8 DEF f, x

(* The parser stays in the key it is in, one byte further.                 *)
LEMMA StaysInKey ==
  ASSUME Inv, DecodeInv, NEW off, Decoding(off), NEW n \in 0 .. Len(due), n < Len(due),
         inputs = [k \in 1 .. n |-> Meaning[due[k]]], i = off[n] + Depth,
         NEW place \in {"escape", "code", "semi", "modifier", "shifted"}, Goes(place, <<>>),
         NEW d \in Nat, Depth = d,
         place = "escape" => d = 0, place = "code" => d = 1, place = "semi" => d = 2,
         place = "modifier" => d = 3, place = "shifted" => d = 4,
         Bytes[due[n + 1]] \in {UpBytes, ShiftTabBytes, ShiftUpBytes},
         place \notin {"escape", "code"} => Bytes[due[n + 1]] = ShiftUpBytes,
         i' = i + 1, due' = due
  PROVE  Parsed(off, n)'
<1>1. at' = place /\ inputs' = inputs \o <<>>
  BY DEF Goes
<1>2. inputs' = [k \in 1 .. n |-> Meaning[due[k]]]
  BY <1>1, OneMoreInput, DecodeTypes
<1>3. Depth' = d + 1
  BY <1>1 DEF Depth
<1>4. off[n] \in Nat
  BY OffsetFacts, DecodeTypes DEF Decoding
<1>5. i' = off[n] + Depth'
  BY <1>3, <1>4
<1> QED
  BY <1>1, <1>2, <1>5 DEF Parsed

(* The last byte of a key is read, and its meaning is pushed.              *)
LEMMA EndsKey ==
  ASSUME Inv, DecodeInv, NEW off, Decoding(off), NEW n \in 0 .. Len(due), n < Len(due),
         inputs = [k \in 1 .. n |-> Meaning[due[k]]],
         NEW d \in Nat, i = off[n] + d, d + 1 = Len(Bytes[due[n + 1]]),
         Goes("key", <<Meaning[due[n + 1]]>>),
         i' = i + 1, due' = due
  PROVE  n + 1 \in 0 .. Len(due) /\ Parsed(off, n + 1)'
<1>1. at' = "key" /\ inputs' = inputs \o <<Meaning[due[n + 1]]>>
  BY DEF Goes
<1>2. inputs' = [k \in 1 .. n + 1 |-> Meaning[due[k]]]
  BY <1>1, OneMoreInput, DecodeTypes
<1>3. Depth' = 0
  BY <1>1 DEF Depth
<1>4. /\ off[n] \in Nat /\ off[n + 1] = off[n] + Len(Bytes[due[n + 1]])
      /\ n + 1 \in 0 .. Len(due)
  <2>1. d < Len(Bytes[due[n + 1]])
    OBVIOUS
  <2> QED
    BY <2>1, NextByte
<1>5. i' = off[n + 1] + Depth'
  BY <1>3, <1>4
<1> QED
  BY <1>1, <1>2, <1>4, <1>5 DEF Parsed

(* A byte of a legible stream takes the parser one byte further.           *)
LEMMA ParsedRead ==
  ASSUME Inv, DecodeInv, NEW off, Decoding(off), Legible(due),
         NEW n \in 0 .. Len(due), Parsed(off, n), i < count,
         NEW ch, ch = Stream[1],
         ReadKey(ch) \/ ReadEscape(ch) \/ ReadCode(ch) \/ ReadSemi(ch) \/ ReadModifier(ch) \/ ReadLast(ch),
         i' = i + 1, due' = due
  PROVE  \E k \in 0 .. Len(due) : Parsed(off, k)'
<1> DEFINE b == Bytes[due[n + 1]]
<1>1. /\ inputs = [k \in 1 .. n |-> Meaning[due[k]]] /\ i = off[n] + Depth
      /\ at # "last"
      /\ at # "key" => /\ n < Len(due)
                       /\ b \in {UpBytes, ShiftTabBytes, ShiftUpBytes}
                       /\ at \notin {"escape", "code"} => b = ShiftUpBytes
  BY DEF Parsed
<1>2. CASE at = "key"
  <2>1. Depth = 0
    BY <1>2 DEF Depth
  <2>2. n < Len(due) /\ n + 1 \in 1 .. Len(due) /\ due[n + 1] \in Key
    <3>1. off[n] \in Nat /\ off[Len(due)] = count
      BY OffsetFacts, DecodeTypes DEF Decoding
    <3>2. i = off[n]
      BY <1>1, <2>1, <3>1
    <3>3. n # Len(due)
      BY <3>1, <3>2, DecodeTypes
    <3>4. n < Len(due) /\ n + 1 \in 1 .. Len(due)
      BY <3>3, DecodeTypes
    <3> QED
      BY <3>4, DecodeTypes
  <2>3. Len(b) \in Nat /\ 0 < Len(b)
    BY <2>2, KeyBytes
  <2>4. /\ ch = b[1]
        /\ 1 < Len(b) => More
        /\ n + 1 = Len(due) /\ 1 = Len(b) => ~More
    <3>1. i = off[n] + 0
      BY <1>1, <2>1
    <3>2. 0 \in Nat /\ 1 \in Nat /\ 1 = 0 + 1 /\ 1 <= Len(Bytes[due[n + 1]]) /\ Len(Bytes[due[n + 1]]) \in Nat
      BY <2>3
    <3>3. /\ Stream[1] = Bytes[due[n + 1]][1]
          /\ 1 < Len(Bytes[due[n + 1]]) => More
          /\ n + 1 = Len(due) /\ 1 = Len(Bytes[due[n + 1]]) => ~More
      BY <2>2, <3>1, <3>2, NextByteAt
    <3> QED
      BY <3>3
  <2>5. Meaning[due[n + 1]] # "unknown" /\ (Meaning[due[n + 1]] = "Esc" => n + 1 = Len(due))
    BY <2>2 DEF Legible
  <2>6. ReadKey(ch)
    BY <1>2 DEF ReadEscape, ReadCode, ReadSemi, ReadModifier, ReadLast
  <2>7. ASSUME 0 + 1 = Len(b), Goes("key", <<Meaning[due[n + 1]]>>)
        PROVE  \E k \in 0 .. Len(due) : Parsed(off, k)'
    <3>1. n + 1 \in 0 .. Len(due) /\ Parsed(off, n + 1)'
      BY <1>1, <2>1, <2>2, <2>7, EndsKey
    <3> QED
      BY <3>1
  <2> HIDE DEF b
  <2>8. CASE b = EscBytes
    <3>1. Meaning[due[n + 1]] = "Esc" /\ Len(b) = 1 /\ ch = "ESC"
      BY <2>2, <2>4, <2>8, MeaningOf, OneByte DEF b
    <3>2. ~More
      BY <2>4, <2>5, <3>1
    <3>3. PlainInput(ch) = <<"Esc">>
      BY <3>1, <3>2 DEF PlainInput, Printable
    <3> QED
      BY <2>6, <2>7, <3>1, <3>2, <3>3 DEF ReadKey
  <2>9. CASE b = TabBytes
    <3>1. Meaning[due[n + 1]] = "Tab" /\ Len(b) = 1 /\ ch = "TAB"
      BY <2>2, <2>4, <2>9, MeaningOf, OneByte DEF b
    <3>2. PlainInput(ch) = <<"Tab">>
      BY <3>1 DEF PlainInput, Printable
    <3> QED
      BY <2>6, <2>7, <3>1, <3>2 DEF ReadKey
  <2>10. CASE b = EnterBytes
    <3>1. Meaning[due[n + 1]] = "Enter" /\ Len(b) = 1 /\ ch = "LF"
      BY <2>2, <2>4, <2>10, MeaningOf, OneByte DEF b
    <3>2. PlainInput(ch) = <<"Enter">>
      BY <3>1 DEF PlainInput, Printable
    <3> QED
      BY <2>6, <2>7, <3>1, <3>2 DEF ReadKey
  <2>11. CASE IsPlain(b)
    <3>1. Meaning[due[n + 1]] = ch /\ Len(b) = 1 /\ ch \in Printable
      BY <2>2, <2>4, <2>11, MeaningOf DEF b, IsPlain
    <3>2. PlainInput(ch) = <<ch>> /\ ch # "ESC"
      BY <3>1 DEF PlainInput, Printable
    <3> QED
      BY <2>6, <2>7, <3>1, <3>2 DEF ReadKey
  <2>12. CASE b \in {UpBytes, ShiftTabBytes, ShiftUpBytes}
    <3>1. ch = "ESC" /\ More
      <4>1. b[1] = "ESC" /\ 3 <= Len(b)
        BY <2>12, SequencesBegin
      <4> QED
        BY <2>3, <2>4, <4>1
    <3>2. Goes("escape", <<>>)
      BY <2>6, <3>1 DEF ReadKey
    <3>3. Parsed(off, n)'
      BY <1>1, <2>1, <2>2, <2>12, <3>2, StaysInKey DEF b
    <3> QED
      BY <3>3
  <2> QED
    BY <2>2, <2>5, <2>8, <2>9, <2>10, <2>11, <2>12, MeaningOf DEF b
<1>3. CASE at = "escape"
  <2>1. Depth = 1
    BY <1>3 DEF Depth
  <2>2. n < Len(due) /\ b \in {UpBytes, ShiftTabBytes, ShiftUpBytes}
    BY <1>1, <1>3
  <2>3. Len(b) \in Nat /\ 3 <= Len(b) /\ b[2] = "["
    BY <2>2, SequencesBegin
  <2>4. ch = "[" /\ More
    <3>1. i = off[n] + 1 /\ 2 = 1 + 1 /\ 2 < Len(b) /\ 2 <= Len(b)
      BY <1>1, <2>1, <2>3
    <3>2. Stream[1] = b[2] /\ (2 < Len(b) => More)
      BY <2>2, <2>3, <3>1, NextByteAt
    <3> QED
      BY <2>3, <3>1, <3>2
  <2>5. Goes("code", <<>>)
    BY <1>3, <2>4 DEF ReadKey, ReadEscape, ReadCode, ReadSemi, ReadModifier, ReadLast, Opens
  <2>6. Parsed(off, n)'
    BY <1>1, <2>1, <2>2, <2>5, StaysInKey
  <2> QED
    BY <2>6
<1>4. CASE at = "code"
  <2>1. Depth = 2
    BY <1>4 DEF Depth
  <2>2. n < Len(due) /\ b \in {UpBytes, ShiftTabBytes, ShiftUpBytes}
    BY <1>1, <1>4
  <2>3. Len(b) \in Nat /\ 3 <= Len(b)
    BY <2>2, SequencesBegin
  <2>4. /\ ch = b[3] /\ due[n + 1] \in Key
        /\ 3 < Len(b) => More
    <3>1. i = off[n] + 2 /\ 3 = 2 + 1
      BY <1>1, <2>1
    <3>2. Stream[1] = b[3] /\ (3 < Len(b) => More) /\ due[n + 1] \in Key
      BY <2>2, <2>3, <3>1, NextByteAt
    <3> QED
      BY <3>2
  <2>5. ReadCode(ch)
    BY <1>4 DEF ReadKey, ReadEscape, ReadSemi, ReadModifier, ReadLast
  <2>6. ASSUME Len(b) = 3, Goes("key", <<Meaning[due[n + 1]]>>)
        PROVE  \E k \in 0 .. Len(due) : Parsed(off, k)'
    <3>0. 2 + 1 = Len(b)
      BY <2>6
    <3>1. n + 1 \in 0 .. Len(due) /\ Parsed(off, n + 1)'
      BY <1>1, <2>1, <2>2, <2>6, <3>0, EndsKey
    <3> QED
      BY <3>1
  <2> HIDE DEF b
  <2>7. CASE b = UpBytes
    <3>1. ch = "A" /\ Len(b) = 3 /\ Meaning[due[n + 1]] = "Up"
      BY <2>4, <2>7, UpIs, MeaningOf DEF b
    <3> QED
      BY <2>5, <2>6, <3>1 DEF ReadCode
  <2>8. CASE b = ShiftTabBytes
    <3>1. ch = "Z" /\ Len(b) = 3 /\ Meaning[due[n + 1]] = "ShiftTab"
      BY <2>4, <2>8, ShiftTabIs, MeaningOf DEF b
    <3> QED
      BY <2>5, <2>6, <3>1 DEF ReadCode
  <2>9. CASE b = ShiftUpBytes
    <3>1. ch = "3" /\ More
      BY <2>4, <2>9, ShiftUpIs
    <3>2. Goes("semi", <<>>)
      BY <2>5, <3>1, Parameters DEF ReadCode
    <3>3. Parsed(off, n)'
      BY <1>1, <2>1, <2>2, <2>9, <3>2, StaysInKey DEF b
    <3> QED
      BY <3>3
  <2> QED
    BY <2>2, <2>7, <2>8, <2>9
<1>5. CASE at \in {"semi", "modifier", "shifted"}
  <2>1. n < Len(due) /\ b = ShiftUpBytes
    BY <1>1, <1>5
  <2>2. Len(b) = 6 /\ b[4] = Semicolon /\ b[5] = "2" /\ b[6] = "A"
    BY <2>1, ShiftUpIs
  <2>3. CASE at = "semi"
    <3>1. Depth = 3
      BY <2>3 DEF Depth
    <3>2. ch = Semicolon /\ More
      <4>1. i = off[n] + 3 /\ 4 = 3 + 1 /\ 4 <= Len(b) /\ Len(b) \in Nat
        BY <1>1, <2>2, <3>1
      <4>2. Stream[1] = b[4] /\ (4 < Len(b) => More)
        BY <2>1, <4>1, NextByteAt
      <4> QED
        BY <2>2, <4>2
    <3>3. Goes("modifier", <<>>)
      BY <2>3, <3>2, Parameters DEF ReadKey, ReadEscape, ReadCode, ReadSemi, ReadModifier, ReadLast
    <3>4. Parsed(off, n)'
      BY <1>1, <2>1, <3>1, <3>3, StaysInKey
    <3> QED
      BY <3>4
  <2>4. CASE at = "modifier"
    <3>1. Depth = 4
      BY <2>4 DEF Depth
    <3>2. ch = "2" /\ More
      <4>1. i = off[n] + 4 /\ 5 = 4 + 1 /\ 5 <= Len(b) /\ Len(b) \in Nat
        BY <1>1, <2>2, <3>1
      <4>2. Stream[1] = b[5] /\ (5 < Len(b) => More)
        BY <2>1, <4>1, NextByteAt
      <4> QED
        BY <2>2, <4>2
    <3>3. Goes("shifted", <<>>)
      BY <2>4, <3>2 DEF ReadKey, ReadEscape, ReadCode, ReadSemi, ReadModifier, ReadLast
    <3>4. Parsed(off, n)'
      BY <1>1, <2>1, <3>1, <3>3, StaysInKey
    <3> QED
      BY <3>4
  <2>5. CASE at = "shifted"
    <3>1. Depth = 5 /\ 5 + 1 = Len(b)
      BY <2>5, <2>2 DEF Depth
    <3>2. ch = "A" /\ due[n + 1] \in Key
      <4>1. i = off[n] + 5 /\ 6 = 5 + 1 /\ 6 <= Len(b) /\ Len(b) \in Nat
        BY <1>1, <2>2, <3>1
      <4>2. Stream[1] = b[6] /\ due[n + 1] \in Key
        BY <2>1, <4>1, NextByteAt
      <4> QED
        BY <2>2, <4>2
    <3>3. Meaning[due[n + 1]] = "ShiftUp"
      BY <2>1, <3>2, MeaningOf
    <3>4. Goes("key", <<"ShiftUp">>)
      BY <2>5, <3>2 DEF ReadKey, ReadEscape, ReadCode, ReadSemi, ReadModifier, ReadLast
    <3>5. n + 1 \in 0 .. Len(due) /\ Parsed(off, n + 1)'
      BY <1>1, <2>1, <3>1, <3>3, <3>4, EndsKey
    <3> QED
      BY <3>5
  <2> QED
    BY <1>5, <2>3, <2>4, <2>5
<1> QED
  BY <1>1, <1>2, <1>3, <1>4, <1>5 DEF Inv, TypeOK

LEMMA DecodeRead ==
  ASSUME Inv, DecodeInv, Read
  PROVE  DecodeInv'
<1>1. /\ polling = TRUE /\ polling' = TRUE
      /\ Getchar /\ i' = i + 1
      /\ UNCHANGED <<count, fresh, due>>
  BY DEF Inv, TypeOK, Read
<1>2. i < count
  BY <1>1 DEF Inv, TypeOK, InSequence, Read, Finished, Done
<1>3. fresh' \in BOOLEAN /\ due' \in Seq(Key)
  BY <1>1 DEF DecodeInv
<1>4. QueueSpelled' /\ queued' \in Seq(Key)
  BY <1>1, GetcharSpells
<1>5. ASSUME fresh = TRUE
      PROVE  (\E off : Decoding(off))'
  <2>1. PICK off : Decoding(off)
    BY <1>1, <1>5 DEF DecodeInv
  <2>2. /\ Stream # <<>> /\ Head(Available) = Stream[1]
        /\ stdio' = Tail(Stream)
    BY <1>1, <1>2, <2>1, ReadsTheStream
  <2>3. Ahead(off)'
    BY <1>1, <1>2, <2>1, <2>2, AheadRead
  <2>4. ASSUME Legible(due)
        PROVE  \E n \in 0 .. Len(due) : Parsed(off, n)'
    <3>1. PICK n \in 0 .. Len(due) : Parsed(off, n)
      BY <2>1, <2>4 DEF Decoding
    <3> DEFINE ch == Head(Available)
    <3>2. ReadKey(ch) \/ ReadEscape(ch) \/ ReadCode(ch) \/ ReadSemi(ch) \/ ReadModifier(ch) \/ ReadLast(ch)
      BY DEF Read
    <3> HIDE DEF ch
    <3> QED
      BY <1>1, <1>2, <2>1, <2>2, <2>4, <3>1, <3>2, ParsedRead DEF ch
  <2>5. Decoding(off)'
    BY <1>1, <2>1, <2>3, <2>4 DEF Decoding
  <2> QED
    BY <2>5
<1> QED
  BY <1>1, <1>3, <1>4, <1>5 DEF DecodeInv

(* A call that abandons a sequence has read something illegible.           *)
LEMMA DecodeAbandon ==
  ASSUME Inv, DecodeInv, Abandon
  PROVE  DecodeInv'
<1>1. /\ at = "escape" /\ Getchar /\ ~Opens(Head(Available))
      /\ i' = count
      /\ UNCHANGED <<polling, count, fresh, due>>
  BY DEF Abandon
<1>2. polling = TRUE /\ i < count
  BY <1>1 DEF Inv, InSequence
<1>3. fresh' \in BOOLEAN /\ due' \in Seq(Key)
  BY <1>1 DEF DecodeInv
<1>4. QueueSpelled' /\ queued' \in Seq(Key)
  BY <1>1, GetcharSpells
<1>5. ASSUME fresh = TRUE
      PROVE  (\E off : Decoding(off))'
  <2>1. PICK off : Decoding(off)
    BY <1>2, <1>5 DEF DecodeInv
  <2>2. /\ Stream # <<>> /\ Head(Available) = Stream[1]
        /\ stdio' = Tail(Stream)
    BY <1>1, <1>2, <2>1, ReadsTheStream
  <2>3. Offsets(due, off) /\ off[Len(due)] = count
    BY <2>1 DEF Decoding
  <2>4. Ahead(off)'
    <3>1. i' # 0 /\ Stream' = Tail(Stream)
      BY <1>1, <1>2, <2>2, DecodeTypes DEF Stream
    <3>2. Len(Stream') \in Nat
      BY <2>2, <3>1, DecodeTypes
    <3>3. Len(Stream') >= count - count
      BY <3>2, DecodeTypes
    <3>4. Spells(Stream', due, off, count)
      <4> SUFFICES ASSUME NEW n \in 1 .. Len(due), NEW j \in 1 .. Len(Bytes[due[n]]),
                          off[n - 1] + j > count
                   PROVE  FALSE
        BY DEF Spells
      <4>1. /\ off[n - 1] \in Nat /\ off[n] = off[n - 1] + Len(Bytes[due[n]])
            /\ off[n] <= count /\ due[n] \in Key
        BY <2>3, DecodeTypes, OffsetFacts
      <4>2. Len(Bytes[due[n]]) \in Nat /\ count \in Nat
        BY <4>1, KeyBytes, DecodeTypes
      <4> QED
        BY <4>1, <4>2
    <3> QED
      BY <1>1, <3>1, <3>3, <3>4 DEF Ahead
  <2>5. ~Legible(due)
    <3> SUFFICES ASSUME Legible(due)
                 PROVE  FALSE
      OBVIOUS
    <3>1. PICK n \in 0 .. Len(due) : Parsed(off, n)
      BY <2>1 DEF Decoding
    <3> DEFINE b == Bytes[due[n + 1]]
    <3>2. Depth = 1
      BY <1>1 DEF Depth
    <3>3. /\ n < Len(due) /\ i = off[n] + 1
          /\ b \in {UpBytes, ShiftTabBytes, ShiftUpBytes}
      BY <1>1, <3>1, <3>2 DEF Parsed
    <3>4. Len(b) \in Nat /\ 3 <= Len(b) /\ b[2] = "["
      BY <3>3, SequencesBegin
    <3>5. 2 = 1 + 1 /\ 2 < Len(b) /\ 2 <= Len(b)
      BY <3>4
    <3>6. Stream[1] = b[2] /\ (2 < Len(b) => More)
      BY <2>1, <3>3, <3>4, <3>5, NextByteAt
    <3> QED
      BY <1>1, <2>2, <3>4, <3>5, <3>6 DEF Opens
  <2>6. Decoding(off)'
    BY <1>1, <2>3, <2>4, <2>5 DEF Decoding
  <2> QED
    BY <2>6
<1> QED
  BY <1>1, <1>2, <1>3, <1>4, <1>5 DEF DecodeInv

LEMMA DecodeStep == Inv /\ DecodeInv /\ [Next]_vars => DecodeInv'
<1>1. ASSUME DecodeInv, UNCHANGED vars
      PROVE  DecodeInv'
  <2>1. UNCHANGED <<kernel, stdio, polling, count, i, at, inputs, queued, fresh, due>>
    BY <1>1 DEF vars
  <2>2. fresh' \in BOOLEAN
    BY <1>1, <2>1 DEF DecodeInv
  <2>3. QueueSpelled'
    BY <1>1, <2>1 DEF DecodeInv, QueueSpelled
  <2>4. \A off : Decoding(off) => Decoding(off)'
    BY <2>1 DEF Decoding, Ahead, Stream, Parsed, Depth, Legible
  <2> QED
    BY <1>1, <2>1, <2>2, <2>3, <2>4 DEF DecodeInv
<1> QED
  BY <1>1, DecodePress, DecodePoll, DecodeRead, DecodeAbandon, DecodeReturn DEF Next, Parse

(* A call that finds stdin's buffer empty pushes exactly the keys that     *)
(* were waiting, one Input each and in order: for all keys, however many,  *)
(* and wherever the keys that are pressed meanwhile fall.                  *)
THEOREM PollsDecodeKeys == Spec => []PollDecodesKeys
<1>1. Spec => []DecodeInv
  BY DecodeInit, DecodeStep, InvAlways, PTL DEF Spec
<1>2. ASSUME Inv, DecodeInv
      PROVE  PollDecodesKeys
  <2> SUFFICES ASSUME Finished, fresh = TRUE, Legible(due)
               PROVE  inputs = [k \in 1 .. Len(due) |-> Meaning[due[k]]]
    BY <1>2 DEF PollDecodesKeys, DecodeInv
  <2>1. polling = TRUE /\ at = "key" /\ i >= count
    BY <1>2 DEF Finished, Done, Inv, TypeOK
  <2>2. PICK off : Decoding(off)
    BY <1>2, <2>1 DEF DecodeInv
  <2>3. PICK n \in 0 .. Len(due) : Parsed(off, n)
    BY <2>2 DEF Decoding
  <2>4. Depth = 0
    BY <2>1 DEF Depth
  <2>5. Offsets(due, off) /\ off[Len(due)] = count
    BY <2>2 DEF Decoding
  <2>6. off[n] \in Nat /\ i = off[n] /\ i = count
    <3>1. off[n] \in Nat
      BY <1>2, <2>5, DecodeTypes, OffsetFacts
    <3> QED
      BY <1>2, <2>1, <2>3, <2>4, <3>1, DecodeTypes DEF Parsed
  <2>7. n = Len(due)
    <3> SUFFICES ASSUME n # Len(due)
                 PROVE  FALSE
      OBVIOUS
    <3>1. n < Len(due) /\ n + 1 \in 1 .. Len(due) /\ (n + 1) - 1 = n
      BY <1>2, DecodeTypes
    <3>2. /\ due[n + 1] \in Key
          /\ off[n + 1] = off[n] + Len(Bytes[due[n + 1]])
          /\ off[n + 1] <= count
      BY <1>2, <2>5, <3>1, DecodeTypes, OffsetFacts
    <3>3. Len(Bytes[due[n + 1]]) \in Nat /\ Len(Bytes[due[n + 1]]) >= 1
      BY <3>2, KeyBytes
    <3>4. off[n] = count /\ count \in Nat
      BY <2>6
    <3>5. \A c, b \in Nat : c + b <= c => ~(b >= 1)
      OBVIOUS
    <3> QED
      BY <3>2, <3>3, <3>4, <3>5
  <2> QED
    BY <2>3, <2>7 DEF Parsed
<1> QED
  BY <1>1, <1>2, InvAlways, PTL

-----------------------------------------------------------------------------
(* A call ends.  What is left of it: the bytes of the count, and the       *)
(* return.                                                                 *)
BytesLeft == IF polling = TRUE THEN count - i + 1 ELSE 0

(* Every step of a call reads a byte of the count, gives the rest of it    *)
(* up, or returns; only a key that is pressed meanwhile leaves what is     *)
(* left as it was, and none adds to it.                                    *)
PollRunsDown ==
  [][polling = TRUE =>
       \/ BytesLeft' \in 0 .. BytesLeft - 1
       \/ BytesLeft' = BytesLeft /\ \E key \in Key : Press(key)]_vars

(* The safety half of PollReturns: a call of getKeyInputs takes no more    *)
(* steps than FIONREAD counted bytes, and one to return, although keys go  *)
(* on coming.                                                              *)
THEOREM PollIsBounded == Spec => PollRunsDown
<1> DEFINE RunsDown == polling = TRUE =>
             \/ BytesLeft' \in 0 .. BytesLeft - 1
             \/ BytesLeft' = BytesLeft /\ \E key \in Key : Press(key)
<1>1. ASSUME Inv, Next, polling = TRUE
      PROVE  \/ BytesLeft' \in 0 .. BytesLeft - 1
             \/ BytesLeft' = BytesLeft /\ \E key \in Key : Press(key)
  <2>1. count \in Nat /\ i \in Nat /\ i <= count
    BY <1>1 DEF Inv, TypeOK
  <2>2. BytesLeft = count - i + 1
    BY <1>1 DEF BytesLeft
  <2>3. ASSUME NEW key \in Key, Press(key) PROVE BytesLeft' = BytesLeft
    BY <2>3 DEF Press, BytesLeft
  <2>4. CASE Poll
    BY <1>1, <2>4 DEF Poll
  <2>5. CASE Read
    <3>1. polling' = polling /\ count' = count /\ i' = i + 1
      BY <2>5 DEF Read
    <3>2. BytesLeft' = count - (i + 1) + 1
      BY <1>1, <3>1 DEF BytesLeft
    <3>3. i < count
      <4>1. at = "key" => ~Done
        BY <1>1, <2>5 DEF Read, Finished
      <4>2. at # "key" => i < count
        BY <1>1 DEF Inv, InSequence
      <4> QED BY <2>1, <4>1, <4>2 DEF Done
    <3> QED BY <2>1, <2>2, <3>2, <3>3
  <2>6. CASE Abandon
    <3>1. polling' = polling /\ count' = count /\ i' = count /\ at = "escape"
      BY <2>6 DEF Abandon
    <3>2. i < count
      BY <1>1, <3>1 DEF Inv, InSequence
    <3>3. BytesLeft' = count - count + 1
      BY <1>1, <3>1 DEF BytesLeft
    <3> QED BY <2>1, <2>2, <3>2, <3>3
  <2>7. CASE Return
    <3>1. BytesLeft' = 0
      BY <2>7 DEF Return, BytesLeft
    <3> QED BY <2>1, <2>2, <3>1
  <2> QED BY <1>1, <2>3, <2>4, <2>5, <2>6, <2>7 DEF Next, Parse
<1>2. Inv /\ [Next]_vars => [RunsDown]_vars
  BY <1>1
<1> QED BY <1>2, InvAlways, PTL DEF Spec, PollRunsDown
=============================================================================
