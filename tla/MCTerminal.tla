----------------------------- MODULE MCTerminal -----------------------------
(***************************************************************************)
(* Terminal on a board of three columns and two rows: any picture of three *)
(* glyphs in the first row, among them the wide space and two glyphs that  *)
(* differ in character and colour, and two pictures of the second row.     *)
(* The terminal fits exactly, has a line and a column more, or more still. *)
(***************************************************************************)
EXTENDS Terminal

Small == Pt(3, 2)

Empty == Wide(32, kNone)

Trainer == Wide(64, kNone)

Tree == Wide(35, 22)

TwoRows ==
  {picture \in [CellsOf(Small) -> {Empty, Trainer, Tree}] :
     /\ picture[Pt(0, 1)] \in {Trainer, Tree}
     /\ picture[Pt(1, 1)] = Trainer
     /\ picture[Pt(2, 1)] = Tree}

Windows == {Pt(6, 2), Pt(7, 3), Pt(9, 5)}
=============================================================================
