-------------------------------- MODULE Menu --------------------------------
(***************************************************************************)
(* c/ncurses/4_27/main.c: a menu that scrolls over its items.              *)
(*                                                                         *)
(* The items are numbered from 0; a screen is what make_screen() has drawn *)
(* since erase(): which item stands on which row.  Which one is shown in   *)
(* the selected colours follows from s_idx.                                *)
(***************************************************************************)
EXTENDS Integers

CONSTANTS
  ItemCounts,   (* what argc - 1 may be                                     *)
  Rows          (* the heights the terminal may have                        *)

ASSUME ItemsAssumption == ItemCounts \subseteq 2 .. 100
ASSUME RowsAssumption == Rows \subseteq Nat \ {0}

VARIABLES
  items_counter, scr_capacity, f_idx, s_idx,   (* struct menu              *)
  screen,       (* the set of pairs <<row, item>> on the screen            *)
  result,       (* -1 while the menu runs, then main's return value        *)
  moved,        (* history: has an arrow key been the last to change it    *)
  grown         (* history: has the terminal ever grown                    *)

menu == <<items_counter, scr_capacity, f_idx, s_idx>>
menuVars == <<menu, screen, result, moved, grown>>

(* The first row of the output: centred when all the items fit.             *)
center_screen(n, cap) == cap \div 2 - n \div 2
FirstRow(n, cap) == IF n > cap THEN 0 ELSE center_screen(n, cap)

(* make_screen.                                                             *)
Lines(n, cap, f) == {i \in f .. cap + f - 1 : i < n}
make_screen(n, cap, f) == {<<FirstRow(n, cap) + (i - f), i>> : i \in Lines(n, cap, f)}

MenuTypeOK ==
  /\ items_counter \in ItemCounts
  /\ scr_capacity \in Rows
  /\ f_idx \in 0 .. items_counter - 1
  /\ s_idx \in 0 .. items_counter - 1
  /\ screen \in SUBSET (Int \X Int)
  /\ result \in {-1} \union 0 .. 100
  /\ moved \in BOOLEAN
  /\ grown \in BOOLEAN

MenuInit ==
  /\ items_counter \in ItemCounts
  /\ scr_capacity \in Rows
  /\ f_idx = 0
  /\ s_idx = 0
  /\ screen = make_screen(items_counter, scr_capacity, 0)
  /\ result = -1
  /\ moved = TRUE
  /\ grown = FALSE

-----------------------------------------------------------------------------
(* switch_selected_line: the selection wraps round,                         *)
Wrapped(s) ==
  IF s < 0 THEN items_counter - 1 ELSE IF s >= items_counter THEN 0 ELSE s

(* and the window follows it.  The variants are off by one at its last row, *)
(* and put the selection first.                                             *)
MutScrolled(s) ==
  IF s < f_idx THEN s
  ELSE IF s > f_idx + scr_capacity THEN s - scr_capacity + 1 ELSE f_idx
MutFirstScrolled(s) ==
  IF s < f_idx THEN s
  ELSE IF s >= f_idx + scr_capacity THEN s ELSE f_idx
Scrolled(s) ==
  IF s < f_idx THEN s
  ELSE IF s >= f_idx + scr_capacity THEN s - scr_capacity + 1 ELSE f_idx

Arrow(d) ==
  /\ result = -1
  /\ s_idx' = Wrapped(s_idx + d)
  /\ f_idx' = Scrolled(s_idx')
  /\ screen' = make_screen(items_counter, scr_capacity, f_idx')
  /\ moved' = TRUE
  /\ UNCHANGED <<items_counter, scr_capacity, result, grown>>

(* handle_resize changes the capacity alone.                                *)
MenuResize ==
  /\ result = -1
  /\ scr_capacity' \in Rows
  /\ screen' = make_screen(items_counter, scr_capacity', f_idx)
  /\ moved' = FALSE
  /\ grown' = (grown \/ scr_capacity' > scr_capacity)
  /\ UNCHANGED <<items_counter, f_idx, s_idx, result>>

Enter == result = -1 /\ result' = s_idx + 1 /\ UNCHANGED <<menu, screen, moved, grown>>
MenuEscape == result = -1 /\ result' = 0 /\ UNCHANGED <<menu, screen, moved, grown>>

MenuNext == Arrow(-1) \/ Arrow(1) \/ MenuResize \/ Enter \/ MenuEscape

MenuSpec == MenuInit /\ [][MenuNext]_menuVars

-----------------------------------------------------------------------------
(* Properties *)

(* What is drawn stays on the screen, one item to a row, the items that     *)
(* follow one another on rows that do: addstr() never writes where a failed *)
(* move() has left the cursor.                                              *)
DrawnInside ==
  /\ \A l \in screen : l[1] \in 0 .. scr_capacity - 1 /\ l[2] \in 0 .. items_counter - 1
  /\ \A l, m \in screen : l[1] - m[1] = l[2] - m[2]

(* Once an arrow key has been pressed after a resize, the selected item is  *)
(* on the screen, so that Enter never returns an item the user cannot see.  *)
SelectedIsShown == moved => \E l \in screen : l[2] = s_idx

(* A terminal that has never grown leaves no row of the window empty while  *)
(* an item is scrolled off its top.                                         *)
WindowIsFull == ~grown => f_idx = 0 \/ f_idx + scr_capacity <= items_counter

(* An arrow scrolls no further than it must: the items that were shown and  *)
(* could stay shown with the new selection do.                              *)
ScrollsLittle ==
  [][f_idx' # f_idx =>
       /\ s_idx' \notin {l[2] : l \in screen}
       /\ s_idx' \in {f_idx', f_idx' + scr_capacity - 1}]_menuVars
=============================================================================
