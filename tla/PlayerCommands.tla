--------------------------- MODULE PlayerCommands ---------------------------
(***************************************************************************)
(* What the game promises the player: the commands typed are executed one  *)
(* at a time, in the order they were typed, each exactly once; executing   *)
(* one moves the player by its step unless the cell there is not open, and *)
(* nothing else moves the player.  Which cells are open changes freely.    *)
(***************************************************************************)
EXTENDS Integers, Sequences

CONSTANT Command       \* the steps that can be commanded

VARIABLES
  pending,             \* the commands typed and not executed yet
  where,               \* the player's position
  open                 \* the cells the player could step to

commandVars == <<pending, where, open>>

CommandInit == pending = <<>> /\ where \in [x : Nat, y : Nat]

Type(c) == pending' = Append(pending, c) /\ UNCHANGED <<where, open>>

WorldChanges == UNCHANGED <<pending, where>>

Moved(p, c) == [x |-> p.x + c.x, y |-> p.y + c.y]

Execute ==
  /\ pending # <<>>
  /\ pending' = Tail(pending)
  /\ where' = IF Moved(where, Head(pending)) \in open
              THEN Moved(where, Head(pending))
              ELSE where

CommandNext == (\E c \in Command : Type(c)) \/ Execute \/ WorldChanges

(* Weak fairness of Execute, which is enabled when a command is pending.   *)
KeepsExecuting == []<>(pending = <<>>) \/ []<><<Execute>>_commandVars

CommandSafety == CommandInit /\ [][CommandNext]_commandVars

CommandSpec == CommandSafety /\ KeepsExecuting
=============================================================================
