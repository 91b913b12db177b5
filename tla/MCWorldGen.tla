----------------------------- MODULE MCWorldGen -----------------------------
(***************************************************************************)
(* WorldGen on the smallest board that has a cell two away from no border, *)
(* so that both halves of the rule matter: nothing drawn, or the block     *)
(* around the start with some cells left out.  Of these fills a few block  *)
(* the start and are tried again; the empty one leaves it free.            *)
(***************************************************************************)
EXTENDS WorldGen

Side == Pt(7, 7)

Block == {Pt(x, y) : x \in 2 .. 4, y \in 2 .. 4}

LeftOut == {Pt(2, 2), Pt(3, 2), Pt(3, 4), Pt(4, 4)}

AllFills == {{}} \cup {Block \ cells : cells \in SUBSET LeftOut}

Nothing == {{}}
=============================================================================
