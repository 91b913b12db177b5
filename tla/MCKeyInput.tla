----------------------------- MODULE MCKeyInput -----------------------------
(***************************************************************************)
(* KeyInput with a letter, the keys that send sequences the parser knows   *)
(* and two it does not know.  Alt with a key sends what Escape and the key *)
(* send.                                                                   *)
(***************************************************************************)
EXTENDS KeyInput

KeyBytes ==
  [key \in {"h", "Escape", "Up", "BackTab", "ShiftUp", "CtrlUp", "F3"} |->
     CASE key = "h"         -> <<"h">>
       [] key = "Escape"    -> <<"ESC">>
       [] key = "Up"        -> <<"ESC", "[", "A">>
       [] key = "BackTab"   -> <<"ESC", "[", "Z">>
       [] key = "ShiftUp"   -> <<"ESC", "[", "3", ";", "2", "A">>
       [] key = "CtrlUp"    -> <<"ESC", "[", "3", ";", "3", "A">>
       [] key = "F3"        -> <<"ESC", "[", "3", "h">>]

Keys == DOMAIN KeyBytes
=============================================================================
