------------------------- MODULE SmallProgramProofs -------------------------
(***************************************************************************)
(* Proofs about programs of one short loop each. Menu (4.27): for every    *)
(* set of item counts and terminal heights. Perimeter (4.25): for every    *)
(* size of the square and of the terminal. Signals (5_20 to 5_23, 5_37,    *)
(* 6_10), the last part: for any number of signals, reads and timeouts, at *)
(* whatever steps the signals strike.                                      *)
(***************************************************************************)
EXTENDS Menu, Perimeter, Signals, SumTheorems, SequenceTheorems

-----------------------------------------------------------------------------
(***************************************************************************)
(* Menu                                                                    *)
(***************************************************************************)
(* The invariant: what is on the screen is what make_screen() draws from    *)
(* the menu's present state, and after an arrow key the selection is in the *)
(* window.                                                                  *)
InWindow == f_idx <= s_idx /\ s_idx < f_idx + scr_capacity

MInv ==
  /\ MenuTypeOK
  /\ screen = make_screen(items_counter, scr_capacity, f_idx)
  /\ moved => InWindow
  /\ WindowIsFull

(* The first row and the last one of a drawing are rows of the screen.      *)
LEMMA RowsFit ==
  ASSUME NEW n \in Nat, NEW cap \in Nat \ {0}, NEW f \in Nat, n >= 1,
         NEW i \in Lines(n, cap, f)
  PROVE  FirstRow(n, cap) + (i - f) \in 0 .. cap - 1 /\ i \in 0 .. n - 1
<1>1. i \in f .. cap + f - 1 /\ i < n /\ i \in Int
  BY DEF Lines
<1>2. CASE n > cap
  BY <1>1, <1>2 DEF FirstRow
<1>3. CASE ~ (n > cap)
  BY <1>1, <1>3 DEF FirstRow, center_screen
<1> QED BY <1>2, <1>3

(* A drawing is a set of pairs of integers. *)
LEMMA ScreenType ==
  ASSUME NEW n \in Nat, NEW cap \in Nat \ {0}, NEW f \in Nat, n >= 1
  PROVE  make_screen(n, cap, f) \in SUBSET (Int \X Int)
BY RowsFit DEF make_screen

LEMMA MInitInv == MenuInit => MInv
<1> SUFFICES ASSUME MenuInit PROVE MInv
  OBVIOUS
<1>1. items_counter \in 2 .. 100 /\ scr_capacity \in Nat \ {0}
  BY ItemsAssumption, RowsAssumption DEF MenuInit
<1>2. screen \in SUBSET (Int \X Int)
  BY <1>1, ScreenType DEF MenuInit
<1>3. moved \in BOOLEAN /\ grown \in BOOLEAN
  BY DEF MenuInit
<1>4. MenuTypeOK
  BY <1>1, <1>2, <1>3 DEF MenuInit, MenuTypeOK
<1>5. InWindow /\ WindowIsFull
  BY <1>1 DEF MenuInit, InWindow, WindowIsFull
<1> QED BY <1>4, <1>5 DEF MInv, MenuInit

(* An arrow key moves the selection within the items and the window to it.  *)
LEMMA ArrowInv ==
  ASSUME MInv, NEW d \in {-1, 1}, Arrow(d)
  PROVE  MInv'
<1>1. items_counter \in 2 .. 100 /\ scr_capacity \in Nat \ {0}
  BY ItemsAssumption, RowsAssumption DEF MInv, MenuTypeOK
<1>2. f_idx \in 0 .. items_counter - 1 /\ s_idx \in 0 .. items_counter - 1
  BY DEF MInv, MenuTypeOK
<1>3. s_idx' \in 0 .. items_counter - 1
  BY <1>1, <1>2 DEF Arrow, Wrapped
<1>4. f_idx' \in 0 .. items_counter - 1
  BY <1>1, <1>2, <1>3 DEF Arrow, Scrolled
<1>5. f_idx' <= s_idx' /\ s_idx' < f_idx' + scr_capacity
  BY <1>1, <1>2, <1>3 DEF Arrow, Scrolled
<1>6. (f_idx = 0 \/ f_idx + scr_capacity <= items_counter)
        => (f_idx' = 0 \/ f_idx' + scr_capacity <= items_counter)
  BY <1>1, <1>2, <1>3 DEF Arrow, Scrolled
<1>7. UNCHANGED <<items_counter, scr_capacity, result, grown>> /\ moved' = TRUE
      /\ screen' = make_screen(items_counter, scr_capacity, f_idx')
  BY DEF Arrow
<1>8. screen' \in SUBSET (Int \X Int)
  BY <1>1, <1>4, <1>7, ScreenType
<1> QED BY <1>3, <1>4, <1>5, <1>6, <1>7, <1>8 DEF MInv, MenuTypeOK, InWindow, WindowIsFull

(* A resize leaves the window where it is. *)
LEMMA MenuResizeInv ==
  ASSUME MInv, MenuResize
  PROVE  MInv'
<1>1. items_counter \in 2 .. 100 /\ scr_capacity \in Nat \ {0} /\ scr_capacity' \in Nat \ {0}
  BY ItemsAssumption, RowsAssumption DEF MInv, MenuTypeOK, MenuResize
<1>2. f_idx \in 0 .. items_counter - 1
  BY DEF MInv, MenuTypeOK
<1>3. screen' \in SUBSET (Int \X Int)
  BY <1>1, <1>2, ScreenType DEF MenuResize
<1>4. \/ scr_capacity' > scr_capacity
      \/ /\ f_idx = 0 => f_idx' = 0
         /\ f_idx + scr_capacity <= items_counter => f_idx' + scr_capacity' <= items_counter'
  <2>1. PICK cap \in Nat : cap = scr_capacity'
    BY <1>1
  <2>2. f_idx' = f_idx /\ items_counter' = items_counter
    BY DEF MenuResize
  <2>3. CASE cap > scr_capacity
    <3>1. scr_capacity' > scr_capacity
      BY <1>1, <2>1, <2>3
    <3> QED BY <3>1, Zenon
  <2>4. CASE ~ (cap > scr_capacity)
    <3>1. f_idx + scr_capacity <= items_counter => f_idx + cap <= items_counter
      BY <1>1, <1>2, <2>4
    <3>2. f_idx + scr_capacity <= items_counter => f_idx' + scr_capacity' <= items_counter'
      BY <2>1, <2>2, <3>1
    <3>3. f_idx = 0 => f_idx' = 0
      BY <2>2
    <3> QED BY <3>2, <3>3
  <2> QED BY <2>3, <2>4
<1>5. grown' = (grown \/ scr_capacity' > scr_capacity) /\ grown \in BOOLEAN
  BY DEF MenuResize, MInv, MenuTypeOK
<1>6. WindowIsFull'
  <2>1. WindowIsFull
    BY DEF MInv
  <2> QED BY <1>4, <1>5, <2>1, Zenon DEF WindowIsFull
<1>7. grown' \in BOOLEAN
  BY <1>5, Zenon
<1> QED BY <1>3, <1>6, <1>7 DEF MInv, MenuTypeOK, MenuResize, InWindow

LEMMA MStepInv == MInv /\ [MenuNext]_menuVars => MInv'
<1> SUFFICES ASSUME MInv, [MenuNext]_menuVars PROVE MInv'
  OBVIOUS
<1>1. CASE Arrow(-1) \/ Arrow(1)
  BY <1>1, ArrowInv
<1>2. CASE MenuResize
  BY <1>2, MenuResizeInv
<1>3. CASE Enter \/ MenuEscape
  <2>1. result' \in {-1} \union 0 .. 100
    BY <1>3, ItemsAssumption DEF Enter, MenuEscape, MInv, MenuTypeOK
  <2> QED BY <1>3, <2>1 DEF Enter, MenuEscape, menu, MInv, MenuTypeOK, InWindow, WindowIsFull
<1>4. CASE UNCHANGED menuVars
  BY <1>4 DEF menuVars, menu, MInv, MenuTypeOK, InWindow, WindowIsFull
<1> QED BY <1>1, <1>2, <1>3, <1>4 DEF MenuNext

LEMMA MInvariant == MenuSpec => []MInv
BY MInitInv, MStepInv, PTL DEF MenuSpec

(* The menu's indices are always those of items. *)
THEOREM MenuTypeCorrect == MenuSpec => []MenuTypeOK
<1>1. MInv => MenuTypeOK
  BY DEF MInv
<1> QED BY <1>1, MInvariant, PTL

(* Nothing is drawn outside the screen and no row twice. *)
THEOREM DrawnInsideCorrect == MenuSpec => []DrawnInside
<1>1. MInv => DrawnInside
  <2> SUFFICES ASSUME MInv PROVE DrawnInside
    OBVIOUS
  <2>1. /\ items_counter \in Nat /\ items_counter >= 1 /\ scr_capacity \in Nat \ {0}
        /\ f_idx \in Nat
    BY ItemsAssumption, RowsAssumption DEF MInv, MenuTypeOK
  <2>2. \A i \in Lines(items_counter, scr_capacity, f_idx) :
          /\ FirstRow(items_counter, scr_capacity) + (i - f_idx) \in 0 .. scr_capacity - 1
          /\ i \in 0 .. items_counter - 1
    BY <2>1, RowsFit
  <2>3. FirstRow(items_counter, scr_capacity) \in Int
    BY <2>1 DEF FirstRow, center_screen
  <2>4. \A l \in screen : \E i \in Lines(items_counter, scr_capacity, f_idx) :
          l = <<FirstRow(items_counter, scr_capacity) + (i - f_idx), i>>
    BY DEF MInv, make_screen
  <2>5. \A l \in screen : l[1] \in 0 .. scr_capacity - 1 /\ l[2] \in 0 .. items_counter - 1
    BY <2>2, <2>4
  <2>6. \A l, m \in screen : l[1] - m[1] = l[2] - m[2]
    BY <2>1, <2>2, <2>3, <2>4
  <2> QED BY <2>5, <2>6 DEF DrawnInside
<1> QED BY <1>1, MInvariant, PTL

(* After an arrow key the selection can be seen. *)
THEOREM SelectedIsShownCorrect == MenuSpec => []SelectedIsShown
<1>1. MInv => SelectedIsShown
  <2> SUFFICES ASSUME MInv, moved PROVE \E l \in screen : l[2] = s_idx
    BY DEF SelectedIsShown
  <2>1. s_idx \in Lines(items_counter, scr_capacity, f_idx)
    BY ItemsAssumption, RowsAssumption DEF MInv, MenuTypeOK, InWindow, Lines
  <2>2. <<FirstRow(items_counter, scr_capacity) + (s_idx - f_idx), s_idx>> \in screen
    BY <2>1 DEF MInv, make_screen
  <2> QED BY <2>2
<1> QED BY <1>1, MInvariant, PTL

(* No empty rows while items are scrolled off, unless the terminal grew. *)
THEOREM WindowIsFullCorrect == MenuSpec => []WindowIsFull
<1>1. MInv => WindowIsFull
  BY DEF MInv
<1> QED BY <1>1, MInvariant, PTL

(* The window moves only for a selection outside it, and no further. *)
THEOREM ScrollsLittleCorrect == MenuSpec => ScrollsLittle
<1>1. MInv /\ [MenuNext]_menuVars => [f_idx' # f_idx =>
        /\ s_idx' \notin {l[2] : l \in screen}
        /\ s_idx' \in {f_idx', f_idx' + scr_capacity - 1}]_menuVars
  <2> SUFFICES ASSUME MInv, [MenuNext]_menuVars, f_idx' # f_idx
               PROVE  /\ s_idx' \notin {l[2] : l \in screen}
                      /\ s_idx' \in {f_idx', f_idx' + scr_capacity - 1}
    OBVIOUS
  <2>1. /\ items_counter \in Nat /\ scr_capacity \in Nat \ {0}
        /\ f_idx \in Int /\ s_idx \in 0 .. items_counter - 1
    BY ItemsAssumption, RowsAssumption DEF MInv, MenuTypeOK
  <2>2. PICK d \in {-1, 1} : Arrow(d)
    BY DEF MenuNext, MenuResize, Enter, MenuEscape, menuVars, menu
  <2>3. s_idx' \in Int
    BY <2>1, <2>2 DEF Arrow, Wrapped
  <2>4. ~ (f_idx <= s_idx' /\ s_idx' < f_idx + scr_capacity)
    BY <2>1, <2>2, <2>3 DEF Arrow, Scrolled
  <2>5. \A l \in screen : l[2] \in f_idx .. scr_capacity + f_idx - 1
    BY DEF MInv, make_screen, Lines
  <2>6. s_idx' \notin {l[2] : l \in screen}
    BY <2>1, <2>3, <2>4, <2>5
  <2>7. s_idx' \in {f_idx', f_idx' + scr_capacity - 1}
    BY <2>1, <2>2, <2>3, <2>4 DEF Arrow, Scrolled
  <2> QED BY <2>6, <2>7
<1> QED BY <1>1, MInvariant, PTL DEF MenuSpec, ScrollsLittle
-----------------------------------------------------------------------------
(***************************************************************************)
(* Perimeter                                                               *)
(*                                                                         *)
(* The argument is about one position of the # in a square, given by the   *)
(* edges x0, x1, y0, y1: operators of constants, so that a step is a lemma *)
(* about integers and says nothing of variables.                           *)
(***************************************************************************)

Border(x0, x1, y0, y1, x, y) ==
  /\ x0 <= x /\ x <= x1 /\ y0 <= y /\ y <= y1
  /\ x = x0 \/ x = x1 \/ y = y0 \/ y = y1

(* On a side, between two corners, the heading is the side's, one way for   *)
(* direction 1 and the other way for -1.                                    *)
Along(x0, x1, y0, y1, x, y, hx, hy, d) ==
  /\ y = y0 /\ x # x0 /\ x # x1 => hx = d /\ hy = 0
  /\ y = y1 /\ x # x0 /\ x # x1 => hx = d * (-1) /\ hy = 0
  /\ x = x1 /\ y # y0 /\ y # y1 => hx = 0 /\ hy = d
  /\ x = x0 /\ y # y0 /\ y # y1 => hx = 0 /\ hy = d * (-1)

(* The heading out of each corner, as move_char sets it, and into it.       *)
Out(x0, x1, y0, y1, x, y, hx, hy, d) ==
  /\ x = x1 /\ y = y0 => (d = 1 => hx = 0 /\ hy = 1) /\ (d = -1 => hx = -1 /\ hy = 0)
  /\ x = x1 /\ y = y1 => (d = 1 => hx = -1 /\ hy = 0) /\ (d = -1 => hx = 0 /\ hy = -1)
  /\ x = x0 /\ y = y1 => (d = 1 => hx = 0 /\ hy = -1) /\ (d = -1 => hx = 1 /\ hy = 0)
  /\ x = x0 /\ y = y0 => (d = 1 => hx = 1 /\ hy = 0) /\ (d = -1 => hx = 0 /\ hy = 1)

In(x0, x1, y0, y1, x, y, hx, hy, d) == Out(x0, x1, y0, y1, x, y, hx * (-1), hy * (-1), d * (-1))

Unit(hx, hy) ==
  \/ hx = 0 /\ hy = 1
  \/ hx = 0 /\ hy = -1
  \/ hx = 1 /\ hy = 0
  \/ hx = -1 /\ hy = 0

(* A square, a place, a heading and a direction. *)
Situation(x0, x1, y0, y1, x, y, hx, hy, d) ==
  /\ x0 \in Int /\ x1 \in Int /\ y0 \in Int /\ y1 \in Int /\ x0 < x1 /\ y0 < y1
  /\ x \in Int /\ y \in Int /\ hx \in Int /\ hy \in Int /\ d \in {1, -1}

(* A step along the border ends on the border, heading along the side or    *)
(* into the corner it has reached.                                          *)
LEMMA BorderStep ==
  ASSUME NEW x0, NEW x1, NEW y0, NEW y1, NEW x, NEW y, NEW hx, NEW hy, NEW d,
         Situation(x0, x1, y0, y1, x, y, hx, hy, d),
         Border(x0, x1, y0, y1, x, y),
         Along(x0, x1, y0, y1, x, y, hx, hy, d), Out(x0, x1, y0, y1, x, y, hx, hy, d)
  PROVE  /\ Border(x0, x1, y0, y1, x + hx, y + hy)
         /\ Along(x0, x1, y0, y1, x + hx, y + hy, hx, hy, d)
         /\ In(x0, x1, y0, y1, x + hx, y + hy, hx, hy, d)
         /\ Unit(hx, hy)
<1> USE DEF Situation
<1>1. Unit(hx, hy)
  BY DEF Border, Along, Out, Unit
<1>2. Border(x0, x1, y0, y1, x + hx, y + hy)
  BY DEF Border, Along, Out
<1>3. Along(x0, x1, y0, y1, x + hx, y + hy, hx, hy, d)
  BY DEF Border, Along, Out
<1>4. In(x0, x1, y0, y1, x + hx, y + hy, hx, hy, d)
  BY DEF Border, Along, Out, In
<1> QED BY <1>1, <1>2, <1>3, <1>4

(* Turning round keeps to the side, and swaps in and out of a corner.       *)
LEMMA BorderTurn ==
  ASSUME NEW x0, NEW x1, NEW y0, NEW y1, NEW x, NEW y, NEW hx, NEW hy, NEW d,
         Situation(x0, x1, y0, y1, x, y, hx, hy, d)
  PROVE  /\ Along(x0, x1, y0, y1, x, y, hx, hy, d) => Along(x0, x1, y0, y1, x, y, hx * (-1), hy * (-1), d * (-1))
         /\ In(x0, x1, y0, y1, x, y, hx, hy, d) => Out(x0, x1, y0, y1, x, y, hx * (-1), hy * (-1), d * (-1))
         /\ Out(x0, x1, y0, y1, x, y, hx, hy, d) => In(x0, x1, y0, y1, x, y, hx * (-1), hy * (-1), d * (-1))
         /\ Unit(hx, hy) => Unit(hx * (-1), hy * (-1))
<1> USE DEF Situation
<1>1. Along(x0, x1, y0, y1, x, y, hx, hy, d)
        => Along(x0, x1, y0, y1, x, y, hx * (-1), hy * (-1), d * (-1))
  BY DEF Along
<1>2. /\ In(x0, x1, y0, y1, x, y, hx, hy, d)
           => Out(x0, x1, y0, y1, x, y, hx * (-1), hy * (-1), d * (-1))
      /\ Out(x0, x1, y0, y1, x, y, hx, hy, d)
           => In(x0, x1, y0, y1, x, y, hx * (-1), hy * (-1), d * (-1))
  BY DEF Out, In
<1>3. Unit(hx, hy) => Unit(hx * (-1), hy * (-1))
  BY DEF Unit
<1> QED BY <1>1, <1>2, <1>3

(* The square of a terminal that is big enough lies inside it.              *)
LEMMA AreaFits ==
  ASSUME NEW h \in Nat, NEW w \in Nat, BigEnough(h, w)
  PROVE  /\ AreaOf(h, w) \in [min_x : Int, min_y : Int, max_x : Int, max_y : Int]
         /\ 0 <= AreaOf(h, w).min_x /\ AreaOf(h, w).max_x < w
         /\ 0 <= AreaOf(h, w).min_y /\ AreaOf(h, w).max_y < h
         /\ AreaOf(h, w).min_x < AreaOf(h, w).max_x /\ AreaOf(h, w).min_y < AreaOf(h, w).max_y
<1>1. (w - AreaSize) \div 2 >= 1 /\ (h - AreaSize) \div 2 >= 1
      /\ 2 * ((w - AreaSize) \div 2) <= w - AreaSize /\ 2 * ((h - AreaSize) \div 2) <= h - AreaSize
      /\ (w - AreaSize) \div 2 \in Int /\ (h - AreaSize) \div 2 \in Int
  BY AreaAssumption DEF BigEnough, MinTerminal
<1> DEFINE x == (w - AreaSize) \div 2
           y == (h - AreaSize) \div 2
<1>2. AreaOf(h, w) = [min_x |-> x - 1, min_y |-> y - 1,
                      max_x |-> x - 1 + AreaSize - 1, max_y |-> y - 1 + AreaSize - 1]
  BY DEF AreaOf
<1> HIDE DEF x, y
<1>3. x >= 1 /\ y >= 1 /\ 2 * x <= w - AreaSize /\ 2 * y <= h - AreaSize /\ x \in Int /\ y \in Int
  BY <1>1 DEF x, y
<1> QED BY <1>2, <1>3, AreaAssumption

-----------------------------------------------------------------------------
(* The inductive invariant *)

(* While the program runs, the square is the terminal's, the # is on its    *)
(* border and heads along it; its last known place is one step behind it,   *)
(* or, once it has been turned, one step ahead.                             *)
OnBorder ==
  /\ BigEnough(row, col)
  /\ area = AreaOf(row, col)
  /\ Border(area.min_x, area.max_x, area.min_y, area.max_y, cur_x, cur_y)
  /\ Along(area.min_x, area.max_x, area.min_y, area.max_y, cur_x, cur_y, dx, dy, direction)

Behind ==
  /\ ~back.turned
  /\ back.x = cur_x - dx /\ back.y = cur_y - dy
  /\ In(area.min_x, area.max_x, area.min_y, area.max_y, cur_x, cur_y, dx, dy, direction)

Ahead ==
  /\ back.turned
  /\ back.x = cur_x + dx /\ back.y = cur_y + dy
  /\ Out(area.min_x, area.max_x, area.min_y, area.max_y, cur_x, cur_y, dx, dy, direction)

PInv ==
  /\ PerimeterTypeOK
  /\ running => OnBorder
  /\ running /\ back.known => Behind \/ Ahead

(* The square of the invariant has two different edges each way.            *)
LEMMA SquareType ==
  ASSUME PerimeterTypeOK, OnBorder
  PROVE  /\ area.min_x \in Int /\ area.max_x \in Int /\ area.min_y \in Int /\ area.max_y \in Int
         /\ area.min_x < area.max_x /\ area.min_y < area.max_y
         /\ dx \in Int /\ dy \in Int /\ Unit(dx, dy)
<1>1. row \in Nat /\ col \in Nat
  BY SizesAssumption DEF PerimeterTypeOK
<1>2. /\ area.min_x \in Int /\ area.max_x \in Int /\ area.min_y \in Int /\ area.max_y \in Int
      /\ area.min_x < area.max_x /\ area.min_y < area.max_y
  BY <1>1, AreaFits DEF OnBorder
<1>3. dx \in Int /\ dy \in Int /\ Unit(dx, dy)
  BY DEF PerimeterTypeOK, Unit
<1> QED BY <1>2, <1>3

(* move_char's heading leaves a corner by the right side.                   *)
LEMMA HeadingOut ==
  ASSUME PerimeterTypeOK, OnBorder
  PROVE  /\ Heading[1] \in Int /\ Heading[2] \in Int
         /\ Along(area.min_x, area.max_x, area.min_y, area.max_y, cur_x, cur_y,
                  Heading[1], Heading[2], direction)
         /\ Out(area.min_x, area.max_x, area.min_y, area.max_y, cur_x, cur_y,
                Heading[1], Heading[2], direction)
<1>1. /\ area.min_x \in Int /\ area.max_x \in Int /\ area.min_y \in Int /\ area.max_y \in Int
      /\ area.min_x < area.max_x /\ area.min_y < area.max_y
      /\ dx \in Int /\ dy \in Int
      /\ cur_x \in Int /\ cur_y \in Int /\ direction \in {1, -1}
  BY SquareType DEF PerimeterTypeOK
<1>2. Along(area.min_x, area.max_x, area.min_y, area.max_y, cur_x, cur_y, dx, dy, direction)
  BY DEF OnBorder
<1>3. PICK hx \in Int, hy \in Int :
        /\ Heading = <<hx, hy>>
        /\ cur_x \notin {area.min_x, area.max_x} \/ cur_y \notin {area.min_y, area.max_y}
             => hx = dx /\ hy = dy
        /\ Out(area.min_x, area.max_x, area.min_y, area.max_y, cur_x, cur_y, hx, hy, direction)
  <2>1. CASE cur_x = area.max_x /\ cur_y = area.min_y
    BY <1>1, <2>1 DEF Heading, Out
  <2>2. CASE cur_x = area.max_x /\ cur_y = area.max_y
    BY <1>1, <2>2 DEF Heading, Out
  <2>3. CASE cur_x = area.min_x /\ cur_y = area.max_y
    BY <1>1, <2>3 DEF Heading, Out
  <2>4. CASE cur_x = area.min_x /\ cur_y = area.min_y
    BY <1>1, <2>4 DEF Heading, Out
  <2>5. CASE cur_x \notin {area.min_x, area.max_x} \/ cur_y \notin {area.min_y, area.max_y}
    BY <1>1, <2>5 DEF Heading, Out
  <2> QED BY <2>1, <2>2, <2>3, <2>4, <2>5
<1>4. Along(area.min_x, area.max_x, area.min_y, area.max_y, cur_x, cur_y, hx, hy, direction)
  BY <1>1, <1>2, <1>3 DEF Along
<1>5. Heading[1] = hx /\ Heading[2] = hy
  BY <1>3
<1> QED BY <1>3, <1>4, <1>5

LEMMA PInitInv == PerimeterInit => PInv
<1> SUFFICES ASSUME PerimeterInit PROVE PInv
  OBVIOUS
<1>1. row \in Nat /\ col \in Nat
  BY SizesAssumption DEF PerimeterInit
<1>2. /\ AreaOf(row, col) \in [min_x : Int, min_y : Int, max_x : Int, max_y : Int]
      /\ area.min_x < area.max_x /\ area.min_y < area.max_y
  BY <1>1, AreaFits DEF PerimeterInit
<1>3. area \in [min_x : Int, min_y : Int, max_x : Int, max_y : Int]
  BY <1>2 DEF PerimeterInit
<1>4. delay \in Delay.min .. Delay.max
  BY DelayAssumption DEF PerimeterInit
<1>5. back \in [x : Int, y : Int, turned : BOOLEAN, known : BOOLEAN] /\ ~back.known
  BY DEF PerimeterInit, Unknown
<1>6. PerimeterTypeOK
  <2>1. cur_x \in Int /\ cur_y \in Int
    BY <1>3 DEF PerimeterInit
  <2>2. <<dx, dy>> \in {<<0, 1>>, <<0, -1>>, <<1, 0>>, <<-1, 0>>} /\ direction \in {1, -1}
    BY DEF PerimeterInit
  <2>3. row \in Sizes /\ col \in Sizes /\ running \in BOOLEAN
    BY DEF PerimeterInit
  <2> QED BY <1>3, <1>4, <1>5, <2>1, <2>2, <2>3 DEF PerimeterTypeOK
<1>7. OnBorder
  <2>1. Border(area.min_x, area.max_x, area.min_y, area.max_y, cur_x, cur_y)
    BY <1>2, <1>3 DEF PerimeterInit, Border
  <2>2. Along(area.min_x, area.max_x, area.min_y, area.max_y, cur_x, cur_y, dx, dy, direction)
    BY <1>2, <1>3 DEF PerimeterInit, Along
  <2> QED BY <2>1, <2>2 DEF PerimeterInit, OnBorder
<1> QED BY <1>5, <1>6, <1>7 DEF PInv

(* A timeout moves the # one step along the border. *)
LEMMA TimeoutInv ==
  ASSUME PInv, Timeout
  PROVE  PInv'
<1>1. PerimeterTypeOK /\ OnBorder
  BY DEF PInv, Timeout
<1>2. PICK hx \in Int, hy \in Int : hx = Heading[1] /\ hy = Heading[2]
  BY <1>1, HeadingOut
<1>3. PICK x \in Int, y \in Int, d \in {1, -1} : x = cur_x /\ y = cur_y /\ d = direction
  BY <1>1 DEF PerimeterTypeOK
<1>4. PICK x0 \in Int, x1 \in Int, y0 \in Int, y1 \in Int :
        /\ x0 = area.min_x /\ x1 = area.max_x /\ y0 = area.min_y /\ y1 = area.max_y
        /\ x0 < x1 /\ y0 < y1
  BY <1>1, SquareType
<1>5. /\ Border(x0, x1, y0, y1, x, y)
      /\ Along(x0, x1, y0, y1, x, y, hx, hy, d)
      /\ Out(x0, x1, y0, y1, x, y, hx, hy, d)
  BY <1>1, <1>2, <1>3, <1>4, HeadingOut DEF OnBorder
<1>6. /\ Border(x0, x1, y0, y1, x + hx, y + hy)
      /\ Along(x0, x1, y0, y1, x + hx, y + hy, hx, hy, d)
      /\ In(x0, x1, y0, y1, x + hx, y + hy, hx, hy, d)
      /\ Unit(hx, hy)
  <2>1. Situation(x0, x1, y0, y1, x, y, hx, hy, d)
    BY <1>4 DEF Situation
  <2> QED BY <1>5, <2>1, BorderStep
<1>7. /\ dx' = hx /\ dy' = hy /\ cur_x' = x + hx /\ cur_y' = y + hy
      /\ back' = [x |-> x, y |-> y, turned |-> FALSE, known |-> TRUE]
      /\ area' = area /\ direction' = d /\ row' = row /\ col' = col
      /\ delay' = delay /\ running' = running
  BY <1>2, <1>3 DEF Timeout
<1>8. PerimeterTypeOK'
  <2>1. cur_x' \in Int /\ cur_y' \in Int
    BY <1>7
  <2>2. <<dx', dy'>> \in {<<0, 1>>, <<0, -1>>, <<1, 0>>, <<-1, 0>>} /\ direction' \in {1, -1}
    BY <1>6, <1>7 DEF Unit
  <2>3. back' \in [x : Int, y : Int, turned : BOOLEAN, known : BOOLEAN]
    BY <1>7
  <2> QED BY <1>1, <1>7, <2>1, <2>2, <2>3 DEF PerimeterTypeOK
<1>9. OnBorder'
  BY <1>1, <1>4, <1>6, <1>7 DEF OnBorder
<1>10. Behind'
  <2>1. ~back'.turned /\ back'.x = x /\ back'.y = y
    BY <1>7
  <2>2. x = (x + hx) - hx /\ y = (y + hy) - hy
    OBVIOUS
  <2>3. back'.x = cur_x' - dx' /\ back'.y = cur_y' - dy'
    BY <1>7, <2>1, <2>2
  <2> QED BY <1>4, <1>6, <1>7, <2>1, <2>3 DEF Behind
<1> QED BY <1>8, <1>9, <1>10 DEF PInv

(* A space turns the # round where it stands. *)
LEMMA SpaceInv ==
  ASSUME PInv, Space
  PROVE  PInv'
<1>1. PerimeterTypeOK /\ OnBorder
  BY DEF PInv, Space
<1>2. PICK hx \in Int, hy \in Int : hx = dx /\ hy = dy /\ Unit(hx, hy)
  BY <1>1, SquareType
<1>3. PICK x \in Int, y \in Int, d \in {1, -1} : x = cur_x /\ y = cur_y /\ d = direction
  BY <1>1 DEF PerimeterTypeOK
<1>4. PICK x0 \in Int, x1 \in Int, y0 \in Int, y1 \in Int :
        /\ x0 = area.min_x /\ x1 = area.max_x /\ y0 = area.min_y /\ y1 = area.max_y
        /\ x0 < x1 /\ y0 < y1
  BY <1>1, SquareType
<1>5. /\ dx' = hx * (-1) /\ dy' = hy * (-1) /\ direction' = d * (-1)
      /\ cur_x' = x /\ cur_y' = y /\ back' = [back EXCEPT !.turned = ~@]
      /\ area' = area /\ row' = row /\ col' = col /\ delay' = delay /\ running' = running
  BY <1>2, <1>3 DEF Space
<1>6. /\ Along(x0, x1, y0, y1, x, y, hx, hy, d)
           => Along(x0, x1, y0, y1, x, y, hx * (-1), hy * (-1), d * (-1))
      /\ In(x0, x1, y0, y1, x, y, hx, hy, d)
           => Out(x0, x1, y0, y1, x, y, hx * (-1), hy * (-1), d * (-1))
      /\ Out(x0, x1, y0, y1, x, y, hx, hy, d)
           => In(x0, x1, y0, y1, x, y, hx * (-1), hy * (-1), d * (-1))
      /\ Unit(hx * (-1), hy * (-1))
  <2>1. Situation(x0, x1, y0, y1, x, y, hx, hy, d)
    BY <1>4 DEF Situation
  <2> QED BY <1>2, <2>1, BorderTurn
<1>7. back \in [x : Int, y : Int, turned : BOOLEAN, known : BOOLEAN]
  BY <1>1 DEF PerimeterTypeOK
<1>8. /\ back' \in [x : Int, y : Int, turned : BOOLEAN, known : BOOLEAN]
      /\ back'.x = back.x /\ back'.y = back.y
      /\ back'.known = back.known /\ back'.turned = ~back.turned
  BY <1>5, <1>7
<1>9. PerimeterTypeOK'
  <2>1. <<dx', dy'>> \in {<<0, 1>>, <<0, -1>>, <<1, 0>>, <<-1, 0>>}
    BY <1>5, <1>6 DEF Unit
  <2>2. d * (-1) \in {1, -1}
    OBVIOUS
  <2>3. cur_x' \in Int /\ cur_y' \in Int /\ direction' \in {1, -1}
    BY <1>5, <2>2
  <2> QED BY <1>1, <1>5, <1>8, <2>1, <2>3 DEF PerimeterTypeOK
<1>10. OnBorder'
  <2>1. Border(x0, x1, y0, y1, x, y) /\ Along(x0, x1, y0, y1, x, y, hx, hy, d)
    BY <1>1, <1>2, <1>3, <1>4 DEF OnBorder
  <2> QED BY <1>1, <1>4, <1>5, <1>6, <2>1 DEF OnBorder
<1>11. ASSUME back.known PROVE Behind' \/ Ahead'
  <2>1. CASE Behind
    <3>1. back.x = x - hx /\ back.y = y - hy /\ In(x0, x1, y0, y1, x, y, hx, hy, d) /\ ~back.turned
      BY <1>2, <1>3, <1>4, <2>1 DEF Behind
    <3>2. x - hx = x + hx * (-1) /\ y - hy = y + hy * (-1)
      OBVIOUS
    <3>3. back'.x = cur_x' + dx' /\ back'.y = cur_y' + dy'
      BY <1>5, <1>8, <3>1, <3>2
    <3>4. back'.turned
      BY <1>8, <3>1
    <3> QED BY <1>4, <1>5, <1>6, <3>1, <3>3, <3>4 DEF Ahead
  <2>2. CASE Ahead
    <3>1. back.x = x + hx /\ back.y = y + hy /\ Out(x0, x1, y0, y1, x, y, hx, hy, d) /\ back.turned
      BY <1>2, <1>3, <1>4, <2>2 DEF Ahead
    <3>2. x + hx = x - hx * (-1) /\ y + hy = y - hy * (-1)
      OBVIOUS
    <3>3. back'.x = cur_x' - dx' /\ back'.y = cur_y' - dy'
      BY <1>5, <1>8, <3>1, <3>2
    <3>4. ~back'.turned
      BY <1>8, <3>1
    <3> QED BY <1>4, <1>5, <1>6, <3>1, <3>3, <3>4 DEF Behind
  <2> QED BY <1>11, <2>1, <2>2 DEF PInv, Space
<1> QED BY <1>8, <1>9, <1>10, <1>11 DEF PInv

(* A resize puts the # on the first corner, where every heading will do.    *)
LEMMA ResizeInv ==
  ASSUME PInv, Resize
  PROVE  PInv'
<1>1. PerimeterTypeOK
  BY DEF PInv
<1>2. row' \in Nat /\ col' \in Nat /\ row' \in Sizes /\ col' \in Sizes
  BY SizesAssumption DEF Resize
<1>3. CASE running' = FALSE /\ UNCHANGED <<area, cur_x, cur_y, back>>
  BY <1>1, <1>2, <1>3 DEF PInv, PerimeterTypeOK, Resize
<1>4. CASE /\ BigEnough(row', col')
           /\ area' = AreaOf(row', col') /\ Place(area')
           /\ back' = Unknown /\ UNCHANGED running
  <2>1. PICK a \in [min_x : Int, min_y : Int, max_x : Int, max_y : Int] :
          area' = a /\ a.min_x < a.max_x /\ a.min_y < a.max_y
    BY <1>2, <1>4, AreaFits
  <2>2. cur_x' = a.min_x /\ cur_y' = a.min_y
    BY <1>4, <2>1 DEF Place
  <2>3. /\ back' \in [x : Int, y : Int, turned : BOOLEAN, known : BOOLEAN]
        /\ back'.known = FALSE
    BY <1>4 DEF Unknown
  <2>4. PerimeterTypeOK'
    BY <1>1, <1>2, <1>4, <2>1, <2>2, <2>3 DEF PerimeterTypeOK, Resize
  <2>5. Border(a.min_x, a.max_x, a.min_y, a.max_y, a.min_x, a.min_y)
    BY <2>1 DEF Border
  <2>6. Along(a.min_x, a.max_x, a.min_y, a.max_y, a.min_x, a.min_y, dx', dy', direction')
    BY <2>1 DEF Along
  <2>7. OnBorder'
    BY <1>4, <2>1, <2>2, <2>5, <2>6 DEF OnBorder
  <2> QED BY <2>3, <2>4, <2>7 DEF PInv
<1> QED BY <1>3, <1>4 DEF Resize

(* A change of pace is within its bounds. *)
LEMMA ChangeDelayInv ==
  ASSUME PInv, NEW d \in {-1, 1}, ChangeDelay(d)
  PROVE  PInv'
<1>1. delay' \in Delay.min .. Delay.max
  <2>1. delay \in Int /\ Delay.min \in Int /\ Delay.max \in Int /\ Delay.step \in Int
        /\ Delay.min <= Delay.max
    BY DelayAssumption DEF PInv, PerimeterTypeOK
  <2>2. PICK n \in Int : n = delay + d * Delay.step
    <3>1. d * Delay.step \in Int
      BY <2>1
    <3> QED BY <2>1, <3>1
  <2>3. Clamp(n) \in Delay.min .. Delay.max
    BY <2>1 DEF Clamp
  <2> QED BY <2>2, <2>3 DEF ChangeDelay
<1>2. UNCHANGED <<row, col, area, cur_x, cur_y, dx, dy, direction, running, back>>
  BY DEF ChangeDelay, hc
<1> QED BY <1>1, <1>2 DEF PInv, PerimeterTypeOK, OnBorder, Behind, Ahead

LEMMA PStepInv == PInv /\ [PerimeterNext]_perimeterVars => PInv'
<1> SUFFICES ASSUME PInv, [PerimeterNext]_perimeterVars PROVE PInv'
  OBVIOUS
<1>1. CASE Timeout \/ Space \/ Resize \/ ChangeDelay(-1) \/ ChangeDelay(1)
  BY <1>1, TimeoutInv, SpaceInv, ResizeInv, ChangeDelayInv
<1>2. CASE Escape
  <2>1. running' = FALSE /\ UNCHANGED <<row, col, area, cur_x, cur_y, dx, dy, direction, delay, back>>
    BY <1>2 DEF Escape, hc
  <2> QED BY <2>1 DEF PInv, PerimeterTypeOK
<1>3. CASE UNCHANGED perimeterVars
  <2>1. UNCHANGED <<row, col, area, cur_x, cur_y, dx, dy, direction, delay, running, back>>
    BY <1>3 DEF perimeterVars, hc
  <2> QED BY <2>1 DEF PInv, PerimeterTypeOK, OnBorder, Behind, Ahead
<1> QED BY <1>1, <1>2, <1>3 DEF PerimeterNext

LEMMA PInvariant == PerimeterSpec => []PInv
BY PInitInv, PStepInv, PTL DEF PerimeterSpec

(* The heading is a unit step and the pace keeps to its bounds. *)
THEOREM PerimeterTypeCorrect == PerimeterSpec => []PerimeterTypeOK
<1>1. PInv => PerimeterTypeOK
  BY DEF PInv
<1> QED BY <1>1, PInvariant, PTL

(* The # stays on the border of its square and the square in the terminal. *)
THEOREM StaysOnPerimeterCorrect == PerimeterSpec => []StaysOnPerimeter
<1>1. PInv => StaysOnPerimeter
  <2> SUFFICES ASSUME PInv, running PROVE
        /\ OnPerimeter(cur_x, cur_y)
        /\ 0 <= area.min_x /\ area.max_x < col
        /\ 0 <= area.min_y /\ area.max_y < row
    BY DEF StaysOnPerimeter
  <2>1. PerimeterTypeOK /\ OnBorder
    BY DEF PInv
  <2>2. OnPerimeter(cur_x, cur_y)
    BY <2>1, SquareType DEF OnBorder, Border, OnPerimeter, PerimeterTypeOK
  <2>3. row \in Nat /\ col \in Nat
    BY <2>1, SizesAssumption DEF PerimeterTypeOK
  <2>4. /\ 0 <= area.min_x /\ area.max_x < col
        /\ 0 <= area.min_y /\ area.max_y < row
    BY <2>1, <2>3, AreaFits DEF OnBorder
  <2> QED BY <2>2, <2>4
<1> QED BY <1>1, PInvariant, PTL

-----------------------------------------------------------------------------
(* Space turns the # back *)

(* Two headings that leave the same place in the same direction are equal,  *)
(* and one that leaves it never undoes the one that has led there.          *)
LEMMA Headings ==
  ASSUME NEW x0, NEW x1, NEW y0, NEW y1, NEW x, NEW y, NEW hx, NEW hy, NEW d,
         Situation(x0, x1, y0, y1, x, y, hx, hy, d), Border(x0, x1, y0, y1, x, y),
         Along(x0, x1, y0, y1, x, y, hx, hy, d), Out(x0, x1, y0, y1, x, y, hx, hy, d),
         NEW gx \in Int, NEW gy \in Int, Along(x0, x1, y0, y1, x, y, gx, gy, d)
  PROVE  /\ Out(x0, x1, y0, y1, x, y, gx, gy, d) => x + hx = x + gx /\ y + hy = y + gy
         /\ In(x0, x1, y0, y1, x, y, gx, gy, d) => ~ (x + hx = x - gx /\ y + hy = y - gy)
<1> USE DEF Situation, Border, Along
<1>1. Out(x0, x1, y0, y1, x, y, gx, gy, d) => hx = gx /\ hy = gy
  BY DEF Out
<1>2. In(x0, x1, y0, y1, x, y, gx, gy, d) => ~ (hx = gx * (-1) /\ hy = gy * (-1))
  BY DEF In, Out
<1>3. x + hx = x - gx /\ y + hy = y - gy => hx = gx * (-1) /\ hy = gy * (-1)
  OBVIOUS
<1> QED BY <1>1, <1>2, <1>3

(* The next step goes back exactly after an odd number of spaces. *)
THEOREM SpaceTurnsBackCorrect == PerimeterSpec => SpaceTurnsBack
<1>1. PInv /\ Timeout /\ back.known => (back.turned <=> cur_x' = back.x /\ cur_y' = back.y)
  <2> SUFFICES ASSUME PInv, Timeout, back.known
               PROVE  back.turned <=> cur_x' = back.x /\ cur_y' = back.y
    OBVIOUS
  <2>1. PerimeterTypeOK /\ OnBorder /\ (Behind \/ Ahead)
    BY DEF PInv, Timeout
  <2>2. PICK hx \in Int, hy \in Int : hx = Heading[1] /\ hy = Heading[2]
    BY <2>1, HeadingOut
  <2>3. PICK gx \in Int, gy \in Int : gx = dx /\ gy = dy
    BY <2>1, SquareType
  <2>4. PICK x \in Int, y \in Int, d \in {1, -1} : x = cur_x /\ y = cur_y /\ d = direction
    BY <2>1 DEF PerimeterTypeOK
  <2>5. PICK x0 \in Int, x1 \in Int, y0 \in Int, y1 \in Int :
          /\ x0 = area.min_x /\ x1 = area.max_x /\ y0 = area.min_y /\ y1 = area.max_y
          /\ x0 < x1 /\ y0 < y1
    BY <2>1, SquareType
  <2>6. /\ Situation(x0, x1, y0, y1, x, y, hx, hy, d) /\ Border(x0, x1, y0, y1, x, y)
        /\ Along(x0, x1, y0, y1, x, y, hx, hy, d) /\ Out(x0, x1, y0, y1, x, y, hx, hy, d)
        /\ Along(x0, x1, y0, y1, x, y, gx, gy, d)
    BY <2>1, <2>2, <2>3, <2>4, <2>5, HeadingOut DEF OnBorder, Situation
  <2>7. /\ Out(x0, x1, y0, y1, x, y, gx, gy, d) => x + hx = x + gx /\ y + hy = y + gy
        /\ In(x0, x1, y0, y1, x, y, gx, gy, d) => ~ (x + hx = x - gx /\ y + hy = y - gy)
    BY <2>6, Headings
  <2>8. cur_x' = x + hx /\ cur_y' = y + hy
    BY <2>2, <2>4 DEF Timeout
  <2>9. CASE Behind
    <3>1. back.x = x - gx /\ back.y = y - gy /\ In(x0, x1, y0, y1, x, y, gx, gy, d) /\ ~back.turned
      BY <2>3, <2>4, <2>5, <2>9 DEF Behind
    <3> QED BY <2>7, <2>8, <3>1
  <2>10. CASE Ahead
    <3>1. back.x = x + gx /\ back.y = y + gy /\ Out(x0, x1, y0, y1, x, y, gx, gy, d) /\ back.turned
      BY <2>3, <2>4, <2>5, <2>10 DEF Ahead
    <3> QED BY <2>7, <2>8, <3>1
  <2> QED BY <2>1, <2>9, <2>10
<1>2. PInv /\ [PerimeterNext]_perimeterVars =>
        [Timeout /\ back.known => (back.turned <=> cur_x' = back.x /\ cur_y' = back.y)]_perimeterVars
  BY <1>1
<1> QED BY <1>2, PInvariant, PTL DEF PerimeterSpec, SpaceTurnsBack

-----------------------------------------------------------------------------
(***************************************************************************)
(* Signals                                                                 *)
(***************************************************************************)

(* Scripts *)

LEMMA Tuples ==
  \A a, b, c, d :
    /\ Head(<<a>>) = a /\ Tail(<<a>>) = << >>
    /\ Head(<<a, b>>) = a /\ Tail(<<a, b>>) = <<b>>
    /\ Head(<<a, b, c>>) = a /\ Tail(<<a, b, c>>) = <<b, c>>
    /\ Head(<<a, b, c, d>>) = a /\ Tail(<<a, b, c, d>>) = <<b, c, d>>
OBVIOUS

LEMMA TupleRanges ==
  \A a, b, c, d :
    /\ Range(<< >>) = {} /\ Range(<<a>>) = {a}
    /\ Range(<<a, b>>) = {a, b} /\ Range(<<a, b, c>>) = {a, b, c}
    /\ Range(<<a, b, c, d>>) = {a, b, c, d}
BY DEF Range

LEMMA PairConcat ==
  ASSUME NEW a, NEW b
  PROVE  <<a>> \o <<b>> = <<a, b>>
<1> DEFINE S == {a, b}
<1>1. <<a>> \in Seq(S) /\ <<b>> \in Seq(S) /\ <<a, b>> \in Seq(S)
  OBVIOUS
<1>2. Len(<<a>>) = 1 /\ Len(<<b>>) = 1 /\ Len(<<a, b>>) = 2
  OBVIOUS
<1>3. /\ <<a>> \o <<b>> \in Seq(S) /\ Len(<<a>> \o <<b>>) = 2
      /\ \A i \in 1 .. 2 : (<<a>> \o <<b>>)[i] = IF i <= 1 THEN <<a>>[i] ELSE <<b>>[i - 1]
  BY <1>1, <1>2, ConcatProperties
<1>4. \A i \in 1 .. 2 : (<<a>> \o <<b>>)[i] = <<a, b>>[i]
  BY <1>3
<1> QED BY <1>1, <1>2, <1>3, <1>4, SeqEqual

LEMMA AppendConcat ==
  ASSUME NEW a, NEW b, NEW c, NEW d
  PROVE  <<a, b>> \o <<c>> = <<a, b, c>> /\ <<a, b, c>> \o <<d>> = <<a, b, c, d>>
<1> DEFINE S == {a, b, c, d}
<1>1. <<a, b>> \in Seq(S) /\ <<a, b, c>> \in Seq(S) /\ c \in S /\ d \in S
  OBVIOUS
<1>2. Append(<<a, b>>, c) = <<a, b>> \o <<c>> /\ Append(<<a, b, c>>, d) = <<a, b, c>> \o <<d>>
  BY <1>1, AppendIsConcat
<1>3. Append(<<a, b>>, c) = <<a, b, c>>
  <2> DEFINE q == Append(<<a, b>>, c)
  <2>1. q \in Seq(S) /\ Len(q) = 3 /\ q[1] = a /\ q[2] = b /\ q[3] = c
    BY <1>1, AppendProperties
  <2>2. <<a, b, c>> \in Seq(S) /\ Len(<<a, b, c>>) = 3
    OBVIOUS
  <2>3. \A i \in 1 .. 3 : q[i] = <<a, b, c>>[i]
    BY <2>1
  <2> HIDE DEF q
  <2> QED BY <2>1, <2>2, <2>3, SeqEqual DEF q
<1>4. Append(<<a, b, c>>, d) = <<a, b, c, d>>
  <2> DEFINE q == Append(<<a, b, c>>, d)
  <2>1. q \in Seq(S) /\ Len(q) = 4 /\ q[1] = a /\ q[2] = b /\ q[3] = c /\ q[4] = d
    BY <1>1, AppendProperties
  <2>2. <<a, b, c, d>> \in Seq(S) /\ Len(<<a, b, c, d>>) = 4
    OBVIOUS
  <2>3. \A i \in 1 .. 4 : q[i] = <<a, b, c, d>>[i]
    BY <2>1
  <2> HIDE DEF q
  <2> QED BY <2>1, <2>2, <2>3, SeqEqual DEF q
<1> QED BY <1>2, <1>3, <1>4

(* A script without its first step has no new steps and loses at most that. *)
LEMMA TailRange ==
  ASSUME NEW S, NEW t \in Seq(S), t # << >>
  PROVE  /\ Tail(t) \in Seq(S) /\ Range(Tail(t)) \subseteq Range(t)
         /\ Head(t) \in Range(t) /\ Head(t) \in S
         /\ \A x \in Range(t) : x # Head(t) => x \in Range(Tail(t))
<1>1. Len(t) \in Nat /\ Len(t) # 0 /\ DOMAIN t = 1 .. Len(t)
  BY LenProperties, EmptySeq
<1>2. /\ Tail(t) \in Seq(S) /\ Len(Tail(t)) = Len(t) - 1 /\ Head(t) = t[1]
      /\ \A i \in 1 .. Len(Tail(t)) : Tail(t)[i] = t[i + 1]
  BY HeadTailProperties
<1>3. DOMAIN Tail(t) = 1 .. Len(t) - 1
  BY <1>1, <1>2, LenProperties
<1>4. Range(Tail(t)) \subseteq Range(t)
  BY <1>1, <1>2, <1>3 DEF Range
<1>5. Head(t) \in Range(t) /\ Head(t) \in S
  BY <1>1, <1>2, ElementOfSeq DEF Range
<1>6. ASSUME NEW x \in Range(t), x # Head(t) PROVE x \in Range(Tail(t))
  <2>1. PICK i \in DOMAIN t : t[i] = x
    BY DEF Range
  <2>2. i - 1 \in DOMAIN Tail(t) /\ Tail(t)[i - 1] = x
    BY <1>1, <1>2, <1>3, <1>6, <2>1
  <2> QED BY <2>2 DEF Range
<1> QED BY <1>2, <1>4, <1>5, <1>6

-----------------------------------------------------------------------------
(* The inductive invariant *)

AllPrograms == {"5_20", "5_21", "5_22", "5_23", "5_37", "6_10"}
Alarming == prog \in {"5_22", "5_23", "5_37"}
Exiting == prog \in {"5_22", "5_23", "6_10"}

Steps == Signs \union
  {"set", "count", "test", "minus", "plus", "alarm", "write", "show", "clear", "while",
   "pause", "asleep", "if", "read", "select", "selecting", "strs", "chrs"}
Frame == [of : Signs \union {"main"}, todo : Seq(Steps), clean : BOOLEAN]

LEMMA ScriptTypes ==
  \A a, b, c, d \in Steps :
    /\ << >> \in Seq(Steps) /\ <<a>> \in Seq(Steps) /\ <<a, b>> \in Seq(Steps)
    /\ <<a, b, c>> \in Seq(Steps) /\ <<a, b, c, d>> \in Seq(Steps)
OBVIOUS

LEMMA InSteps ==
  /\ "INT" \in Steps /\ "QUIT" \in Steps /\ "ALRM" \in Steps /\ "USR1" \in Steps
  /\ "set" \in Steps /\ "count" \in Steps /\ "test" \in Steps /\ "minus" \in Steps
  /\ "plus" \in Steps /\ "alarm" \in Steps /\ "write" \in Steps /\ "show" \in Steps
  /\ "clear" \in Steps /\ "while" \in Steps /\ "pause" \in Steps
  /\ "asleep" \in Steps /\ "if" \in Steps /\ "read" \in Steps /\ "select" \in Steps
  /\ "selecting" \in Steps /\ "strs" \in Steps /\ "chrs" \in Steps
BY DEF Steps, Signs

(* What main() may have left to do. *)
MainTodo(t) ==
  \/ prog = "5_20" /\ t \in {<<"INT">>, << >>, <<"pause", "while">>, <<"asleep", "while">>,
                             <<"while">>}
  \/ prog = "5_21" /\ t \in {<<"INT", "USR1">>, <<"USR1">>, << >>, <<"asleep", "if">>,
                             <<"if">>, <<"show", "clear">>, <<"clear">>}
  \/ prog = "5_22" /\ t \in {<<"INT", "QUIT", "ALRM", "alarm">>, <<"QUIT", "ALRM", "alarm">>,
                             <<"ALRM", "alarm">>, <<"alarm">>, << >>, <<"asleep">>}
  \/ prog = "5_23" /\ t \in {<<"ALRM", "INT">>, <<"INT">>, << >>, <<"read">>,
                             <<"clear", "strs">>, <<"clear", "chrs">>, <<"strs">>, <<"chrs">>}
  \/ prog = "5_37" /\ t \in {<<"USR1", "ALRM", "alarm">>, <<"ALRM", "alarm">>, <<"alarm">>,
                             << >>, <<"asleep">>}
  \/ prog = "6_10" /\ t \in {<<"INT">>, << >>, <<"selecting">>, <<"clear", "strs", "chrs">>,
                             <<"strs", "chrs">>, <<"chrs">>, <<"clear", "write">>, <<"write">>}

(* The steps a handler of signal s is made of. *)
Quiet == {"minus", "alarm", "write", "show"}
StepsOf(s) ==
  {x \in Steps :
     \/ s = "INT" /\ Exiting /\ x \in Quiet \union {"test"}
     \/ s = "INT" /\ ~Exiting /\ x \in {"set", "count"}
     \/ s = "QUIT" /\ x \in {"plus", "alarm", "clear", "write"}
     \/ s = "ALRM" /\ x \in {"clear", "write", "alarm", "show"}
     \/ s = "USR1" /\ x \in {"set", "count", "show", "alarm"}}

TypeInv ==
  /\ prog \in AllPrograms
  /\ stack \in Seq(Frame)
  /\ handled \subseteq Range(Caught) /\ pending \subseteq Signs
  /\ flag \in {0, 1} /\ alarmed \in BOOLEAN
  /\ calm \in BOOLEAN /\ entry \in BOOLEAN

(* main() lies at the bottom, every handler at most once above it.          *)
FramesInv ==
  /\ Len(stack) > 0 /\ stack[1].of = "main" /\ MainTodo(stack[1].todo)
  /\ \A i \in 2 .. Len(stack) :
       stack[i].of \in Range(Caught) /\ Range(stack[i].todo) \subseteq StepsOf(stack[i].of)
  /\ \A i, j \in 1 .. Len(stack) : stack[i].of = stack[j].of => i = j

(* While a handler of SIGINT has not tested the flag, the flag is set only  *)
(* if it was left set when it was delivered; the handlers that clear it     *)
(* leave it clear until the next SIGINT; and no frame below one of SIGINT   *)
(* counts as clean.                                                         *)
FlagInv ==
  Exiting /\ ended = "no" =>
    /\ (\A i \in 1 .. Len(stack) : stack[i].of # "INT") /\ calm => flag = 0
    /\ \A i \in 2 .. Len(stack) : stack[i].of = "INT" =>
         /\ \/ stack[i].todo = Handler("INT") /\ (entry => flag = 0)
            \/ Range(stack[i].todo) \subseteq Quiet
         /\ \A j \in 1 .. i - 1 : ~stack[j].clean
    /\ \A i \in 2 .. Len(stack) :
         stack[i].of # "INT" /\ stack[i].clean /\ "clear" \notin Range(stack[i].todo)
           => flag = 0

-----------------------------------------------------------------------------
(* What the scripts of each program are. *)

LEMMA CaughtIs ==
  ASSUME prog \in AllPrograms
  PROVE  /\ Range(Caught) \subseteq Signs
         /\ Exiting => "USR1" \notin Range(Caught)
         /\ prog \in {"5_20", "6_10"} => Range(Caught) = {"INT"}
         /\ prog = "5_37" => Range(Caught) = {"USR1", "ALRM"}
         /\ prog \in {"5_22", "5_23"} => "USR1" \notin Range(Caught)
         /\ prog \in {"5_20", "5_21"} => "ALRM" \notin Range(Caught) /\ "QUIT" \notin Range(Caught)
<1>1. /\ prog \in {"5_20", "6_10"} => Caught = <<"INT">>
      /\ prog = "5_21" => Caught = <<"INT", "USR1">>
      /\ prog = "5_22" => Caught = <<"INT", "QUIT", "ALRM">>
      /\ prog = "5_23" => Caught = <<"ALRM", "INT">>
      /\ prog = "5_37" => Caught = <<"USR1", "ALRM">>
  BY DEF Caught
<1>2. /\ prog \in {"5_20", "6_10"} => Range(Caught) = {"INT"}
      /\ prog = "5_21" => Range(Caught) = {"INT", "USR1"}
      /\ prog = "5_22" => Range(Caught) = {"INT", "QUIT", "ALRM"}
      /\ prog = "5_23" => Range(Caught) = {"ALRM", "INT"}
      /\ prog = "5_37" => Range(Caught) = {"USR1", "ALRM"}
  BY <1>1, TupleRanges
<1> QED BY <1>2 DEF AllPrograms, Exiting, Signs

LEMMA HandlerIs ==
  ASSUME prog \in AllPrograms, NEW s \in Range(Caught)
  PROVE  /\ Handler(s) \in Seq(Steps) /\ Range(Handler(s)) \subseteq StepsOf(s)
         /\ Alarming /\ s = "ALRM" => "alarm" \in Range(Handler(s))
         /\ Exiting /\ s # "INT" => "clear" \in Range(Handler(s))
         /\ Exiting /\ s = "INT" => /\ Handler(s) # << >> /\ Head(Handler(s)) = "test"
                                    /\ Range(Tail(Handler(s))) \subseteq Quiet
<1>1. CASE s = "INT"
  <2>1. prog # "5_37"
    BY <1>1, CaughtIs
  <2>2. Handler(s) = IntSteps[prog]
    BY <1>1 DEF Handler
  <2>3. CASE prog = "5_20"
    <3>1. Handler(s) = <<"set">>
      BY <2>2, <2>3 DEF IntSteps
    <3>2. <<"set">> \in Seq(Steps) /\ Range(<<"set">>) = {"set"}
      BY InSteps, ScriptTypes, TupleRanges
    <3>3. Range(Handler(s)) \subseteq StepsOf(s)
      BY <1>1, <3>1, <3>2, <2>3, InSteps DEF StepsOf, Exiting, Quiet
    <3>4. Handler(s) \in Seq(Steps)
      BY <3>1, <3>2
    <3>5. Alarming /\ s = "ALRM" => "alarm" \in Range(Handler(s))
      BY <1>1, <3>1, <3>2
    <3>6. Exiting => s # "INT" /\ "clear" \in Range(Handler(s))
      BY <1>1, <3>1, <3>2, <2>3 DEF Exiting
    <3> QED BY <3>3, <3>4, <3>5, <3>6
  <2>4. CASE prog = "5_21"
    <3>1. Handler(s) = <<"count">>
      BY <2>2, <2>4 DEF IntSteps
    <3>2. <<"count">> \in Seq(Steps) /\ Range(<<"count">>) = {"count"}
      BY InSteps, ScriptTypes, TupleRanges
    <3>3. Range(Handler(s)) \subseteq StepsOf(s)
      BY <1>1, <3>1, <3>2, <2>4, InSteps DEF StepsOf, Exiting, Quiet
    <3>4. Handler(s) \in Seq(Steps)
      BY <3>1, <3>2
    <3>5. Alarming /\ s = "ALRM" => "alarm" \in Range(Handler(s))
      BY <1>1, <3>1, <3>2
    <3>6. Exiting => s # "INT" /\ "clear" \in Range(Handler(s))
      BY <1>1, <3>1, <3>2, <2>4 DEF Exiting
    <3> QED BY <3>3, <3>4, <3>5, <3>6
  <2>5. CASE prog = "5_22"
    <3>1. Handler(s) = <<"test", "minus", "alarm", "write">>
      BY <2>2, <2>5 DEF IntSteps
    <3>2. <<"test", "minus", "alarm", "write">> \in Seq(Steps) /\ Range(<<"test", "minus", "alarm", "write">>) = {"test", "minus", "alarm", "write"}
      BY InSteps, ScriptTypes, TupleRanges
    <3>3. /\ Head(<<"test", "minus", "alarm", "write">>) = "test" /\ Tail(<<"test", "minus", "alarm", "write">>) = <<"minus", "alarm", "write">>
          /\ Range(<<"minus", "alarm", "write">>) = {"minus", "alarm", "write"} /\ <<"test", "minus", "alarm", "write">> # << >>
      BY Tuples, TupleRanges
    <3>4. Range(Tail(Handler(s))) \subseteq Quiet
      BY <3>1, <3>3 DEF Quiet
    <3>5. Range(Handler(s)) \subseteq StepsOf(s)
      BY <1>1, <3>1, <3>2, <2>5, InSteps DEF StepsOf, Exiting, Quiet
    <3> QED BY <1>1, <3>1, <3>2, <3>3, <3>4, <3>5
  <2>6. CASE prog = "5_23"
    <3>1. Handler(s) = <<"test", "show", "alarm">>
      BY <2>2, <2>6 DEF IntSteps
    <3>2. <<"test", "show", "alarm">> \in Seq(Steps) /\ Range(<<"test", "show", "alarm">>) = {"test", "show", "alarm"}
      BY InSteps, ScriptTypes, TupleRanges
    <3>3. /\ Head(<<"test", "show", "alarm">>) = "test" /\ Tail(<<"test", "show", "alarm">>) = <<"show", "alarm">>
          /\ Range(<<"show", "alarm">>) = {"show", "alarm"} /\ <<"test", "show", "alarm">> # << >>
      BY Tuples, TupleRanges
    <3>4. Range(Tail(Handler(s))) \subseteq Quiet
      BY <3>1, <3>3 DEF Quiet
    <3>5. Range(Handler(s)) \subseteq StepsOf(s)
      BY <1>1, <3>1, <3>2, <2>6, InSteps DEF StepsOf, Exiting, Quiet
    <3> QED BY <1>1, <3>1, <3>2, <3>3, <3>4, <3>5
  <2>7. CASE prog = "6_10"
    <3>1. Handler(s) = <<"test", "show">>
      BY <2>2, <2>7 DEF IntSteps
    <3>2. <<"test", "show">> \in Seq(Steps) /\ Range(<<"test", "show">>) = {"test", "show"}
      BY InSteps, ScriptTypes, TupleRanges
    <3>3. /\ Head(<<"test", "show">>) = "test" /\ Tail(<<"test", "show">>) = <<"show">>
          /\ Range(<<"show">>) = {"show"} /\ <<"test", "show">> # << >>
      BY Tuples, TupleRanges
    <3>4. Range(Tail(Handler(s))) \subseteq Quiet
      BY <3>1, <3>3 DEF Quiet
    <3>5. Range(Handler(s)) \subseteq StepsOf(s)
      BY <1>1, <3>1, <3>2, <2>7, InSteps DEF StepsOf, Exiting, Quiet
    <3> QED BY <1>1, <3>1, <3>2, <3>3, <3>4, <3>5
  <2> QED BY <2>1, <2>3, <2>4, <2>5, <2>6, <2>7 DEF AllPrograms
<1>2. CASE s = "QUIT"
  <2>1. Handler(s) = <<"plus", "alarm", "clear", "write">>
    BY <1>2 DEF Handler, QuitSteps
  <2>2. <<"plus", "alarm", "clear", "write">> \in Seq(Steps) /\ Range(<<"plus", "alarm", "clear", "write">>) = {"plus", "alarm", "clear", "write"}
    BY InSteps, ScriptTypes, TupleRanges
  <2>3. Range(Handler(s)) \subseteq StepsOf(s)
    BY <1>2, <2>1, <2>2, InSteps DEF StepsOf, Exiting, Quiet
  <2>4. Handler(s) \in Seq(Steps)
    BY <2>1, <2>2
  <2>5. Alarming /\ s = "ALRM" => "alarm" \in Range(Handler(s))
    BY <1>2, <2>1, <2>2
  <2>6. Exiting => s # "INT" /\ "clear" \in Range(Handler(s))
    BY <1>2, <2>1, <2>2 DEF Exiting
  <2> QED BY <2>3, <2>4, <2>5, <2>6
<1>3. CASE s = "ALRM"
  <2>1. prog \in {"5_22", "5_23", "5_37"}
    BY <1>3, CaughtIs DEF AllPrograms
  <2>2. Handler(s) = AlrmSteps[prog]
    BY <1>3 DEF Handler
  <2>3. CASE prog = "5_22"
    <3>1. Handler(s) = <<"clear", "alarm", "write">>
      BY <2>2, <2>3 DEF AlrmSteps
    <3>2. <<"clear", "alarm", "write">> \in Seq(Steps) /\ Range(<<"clear", "alarm", "write">>) = {"clear", "alarm", "write"}
      BY InSteps, ScriptTypes, TupleRanges
    <3>3. Range(Handler(s)) \subseteq StepsOf(s)
      BY <1>3, <3>1, <3>2, <2>3, InSteps DEF StepsOf, Exiting, Quiet
    <3>4. Handler(s) \in Seq(Steps)
      BY <3>1, <3>2
    <3>5. Alarming /\ s = "ALRM" => "alarm" \in Range(Handler(s))
      BY <1>3, <3>1, <3>2
    <3>6. Exiting => s # "INT" /\ "clear" \in Range(Handler(s))
      BY <1>3, <3>1, <3>2, <2>3 DEF Exiting
    <3> QED BY <3>3, <3>4, <3>5, <3>6
  <2>4. CASE prog = "5_23"
    <3>1. Handler(s) = <<"clear", "write", "alarm">>
      BY <2>2, <2>4 DEF AlrmSteps
    <3>2. <<"clear", "write", "alarm">> \in Seq(Steps) /\ Range(<<"clear", "write", "alarm">>) = {"clear", "write", "alarm"}
      BY InSteps, ScriptTypes, TupleRanges
    <3>3. Range(Handler(s)) \subseteq StepsOf(s)
      BY <1>3, <3>1, <3>2, <2>4, InSteps DEF StepsOf, Exiting, Quiet
    <3>4. Handler(s) \in Seq(Steps)
      BY <3>1, <3>2
    <3>5. Alarming /\ s = "ALRM" => "alarm" \in Range(Handler(s))
      BY <1>3, <3>1, <3>2
    <3>6. Exiting => s # "INT" /\ "clear" \in Range(Handler(s))
      BY <1>3, <3>1, <3>2, <2>4 DEF Exiting
    <3> QED BY <3>3, <3>4, <3>5, <3>6
  <2>5. CASE prog = "5_37"
    <3>1. Handler(s) = <<"show", "alarm">>
      BY <2>2, <2>5 DEF AlrmSteps
    <3>2. <<"show", "alarm">> \in Seq(Steps) /\ Range(<<"show", "alarm">>) = {"show", "alarm"}
      BY InSteps, ScriptTypes, TupleRanges
    <3>3. Range(Handler(s)) \subseteq StepsOf(s)
      BY <1>3, <3>1, <3>2, <2>5, InSteps DEF StepsOf, Exiting, Quiet
    <3>4. Handler(s) \in Seq(Steps)
      BY <3>1, <3>2
    <3>5. Alarming /\ s = "ALRM" => "alarm" \in Range(Handler(s))
      BY <1>3, <3>1, <3>2
    <3>6. Exiting => s # "INT" /\ "clear" \in Range(Handler(s))
      BY <1>3, <3>1, <3>2, <2>5 DEF Exiting
    <3> QED BY <3>3, <3>4, <3>5, <3>6
  <2> QED BY <2>1, <2>3, <2>4, <2>5
<1>4. CASE s = "USR1"
  <2>1. prog \in {"5_21", "5_37"}
    BY <1>4, CaughtIs DEF AllPrograms, Exiting
  <2>2. Handler(s) = Usr1Steps[prog]
    BY <1>4 DEF Handler
  <2>3. CASE prog = "5_21"
    <3>1. Handler(s) = <<"set">>
      BY <2>2, <2>3 DEF Usr1Steps
    <3>2. <<"set">> \in Seq(Steps) /\ Range(<<"set">>) = {"set"}
      BY InSteps, ScriptTypes, TupleRanges
    <3>3. Range(Handler(s)) \subseteq StepsOf(s)
      BY <1>4, <3>1, <3>2, <2>3, InSteps DEF StepsOf, Exiting, Quiet
    <3>4. Handler(s) \in Seq(Steps)
      BY <3>1, <3>2
    <3>5. Alarming /\ s = "ALRM" => "alarm" \in Range(Handler(s))
      BY <1>4, <3>1, <3>2
    <3>6. Exiting => s # "INT" /\ "clear" \in Range(Handler(s))
      BY <1>4, <3>1, <3>2, <2>3 DEF Exiting
    <3> QED BY <3>3, <3>4, <3>5, <3>6
  <2>4. CASE prog = "5_37"
    <3>1. Handler(s) = <<"count", "show", "alarm">>
      BY <2>2, <2>4 DEF Usr1Steps
    <3>2. <<"count", "show", "alarm">> \in Seq(Steps) /\ Range(<<"count", "show", "alarm">>) = {"count", "show", "alarm"}
      BY InSteps, ScriptTypes, TupleRanges
    <3>3. Range(Handler(s)) \subseteq StepsOf(s)
      BY <1>4, <3>1, <3>2, <2>4, InSteps DEF StepsOf, Exiting, Quiet
    <3>4. Handler(s) \in Seq(Steps)
      BY <3>1, <3>2
    <3>5. Alarming /\ s = "ALRM" => "alarm" \in Range(Handler(s))
      BY <1>4, <3>1, <3>2
    <3>6. Exiting => s # "INT" /\ "clear" \in Range(Handler(s))
      BY <1>4, <3>1, <3>2, <2>4 DEF Exiting
    <3> QED BY <3>3, <3>4, <3>5, <3>6
  <2> QED BY <2>1, <2>3, <2>4
<1> QED BY <1>1, <1>2, <1>3, <1>4, CaughtIs DEF Signs

(* main() neither tests nor sets the flag, and each of its steps leaves it  *)
(* in one of the places MainTodo lists.                                     *)
MainSteps(t) ==
  /\ t \in Seq(Steps) /\ MainTodo(Tail(t))
  /\ Head(t) \notin {"set", "count", "test", "minus", "plus"}
  /\ Head(t) \in Signs => Head(t) \in Range(Caught)
  /\ Head(t) = "while" => MainTodo(<<"pause", "while">>)
  /\ Head(t) = "pause" => MainTodo(<<"asleep">> \o Tail(t))
  /\ Head(t) = "if" => MainTodo(<<"show", "clear">>) /\ MainTodo(<< >>)
  /\ Head(t) = "read" => MainTodo(<<"clear", "strs">>) /\ MainTodo(<<"clear", "chrs">>)
  /\ Head(t) = "select" => MainTodo(<<"selecting">>)
  /\ Head(t) = "selecting" => /\ MainTodo(<<"clear", "strs", "chrs">>)
                              /\ MainTodo(<<"clear", "write">>)

LEMMA MainIs ==
  ASSUME prog \in AllPrograms, NEW t, MainTodo(t) \/ t = Turn, t # << >>
  PROVE  MainSteps(t)
<1>1. CASE prog = "5_20"
  <2>1. t \in {<<"INT">>, <<"pause", "while">>, <<"asleep", "while">>, <<"while">>}
    BY <1>1 DEF MainTodo, Turn
  <2>2. /\ Head(<<"INT">>) = "INT" /\ Head(<<"pause", "while">>) = "pause"
        /\ Head(<<"asleep", "while">>) = "asleep" /\ Head(<<"while">>) = "while"
    BY Tuples
  <2>3. /\ Tail(<<"INT">>) = << >> /\ Tail(<<"pause", "while">>) = <<"while">>
        /\ Tail(<<"asleep", "while">>) = <<"while">> /\ Tail(<<"while">>) = << >>
    BY Tuples
  <2>4. t \in Seq(Steps)
    <3>1. /\ <<"INT">> \in Seq(Steps) /\ <<"pause", "while">> \in Seq(Steps)
          /\ <<"asleep", "while">> \in Seq(Steps) /\ <<"while">> \in Seq(Steps)
      BY InSteps, ScriptTypes
    <3> QED BY <2>1, <3>1
  <2>5. MainTodo(Tail(t))
    BY <1>1, <2>1, <2>3 DEF MainTodo
  <2>6. Head(t) \in {"INT", "asleep", "pause", "while"}
    BY <2>1, <2>2
  <2>7. Range(Caught) = {"INT"}
    BY <1>1, TupleRanges DEF Caught
  <2>8. Head(t) = "pause" => <<"asleep">> \o Tail(t) = <<"asleep", "while">>
    <3>1. <<"asleep">> \o <<"while">> = <<"asleep", "while">>
      BY PairConcat
    <3> QED BY <2>1, <2>2, <2>3, <3>1
  <2> QED BY <1>1, <2>4, <2>5, <2>6, <2>7, <2>8 DEF MainSteps, MainTodo, Signs
<1>2. CASE prog = "5_21"
  <2>1. t \in {<<"INT", "USR1">>, <<"USR1">>, <<"asleep", "if">>, <<"if">>,
               <<"show", "clear">>, <<"clear">>, <<"pause", "if">>}
    BY <1>2 DEF MainTodo, Turn
  <2>2. /\ Head(<<"INT", "USR1">>) = "INT" /\ Head(<<"USR1">>) = "USR1"
        /\ Head(<<"asleep", "if">>) = "asleep" /\ Head(<<"if">>) = "if"
        /\ Head(<<"show", "clear">>) = "show" /\ Head(<<"clear">>) = "clear"
        /\ Head(<<"pause", "if">>) = "pause"
    BY Tuples
  <2>3. /\ Tail(<<"INT", "USR1">>) = <<"USR1">> /\ Tail(<<"USR1">>) = << >>
        /\ Tail(<<"asleep", "if">>) = <<"if">> /\ Tail(<<"if">>) = << >>
        /\ Tail(<<"show", "clear">>) = <<"clear">> /\ Tail(<<"clear">>) = << >>
        /\ Tail(<<"pause", "if">>) = <<"if">>
    BY Tuples
  <2>4. t \in Seq(Steps)
    <3>1. /\ <<"INT", "USR1">> \in Seq(Steps) /\ <<"USR1">> \in Seq(Steps)
          /\ <<"asleep", "if">> \in Seq(Steps) /\ <<"if">> \in Seq(Steps)
          /\ <<"show", "clear">> \in Seq(Steps) /\ <<"clear">> \in Seq(Steps)
          /\ <<"pause", "if">> \in Seq(Steps)
      BY InSteps, ScriptTypes
    <3> QED BY <2>1, <3>1
  <2>5. MainTodo(Tail(t))
    BY <1>2, <2>1, <2>3 DEF MainTodo
  <2>6. Head(t) \in {"INT", "USR1", "asleep", "clear", "if", "pause", "show"}
    BY <2>1, <2>2
  <2>7. Range(Caught) = {"INT", "USR1"}
    BY <1>2, TupleRanges DEF Caught
  <2>8. Head(t) = "pause" => <<"asleep">> \o Tail(t) = <<"asleep", "if">>
    <3>1. <<"asleep">> \o <<"if">> = <<"asleep", "if">>
      BY PairConcat
    <3> QED BY <2>1, <2>2, <2>3, <3>1
  <2> QED BY <1>2, <2>4, <2>5, <2>6, <2>7, <2>8 DEF MainSteps, MainTodo, Signs
<1>3. CASE prog = "5_22"
  <2>1. t \in {<<"INT", "QUIT", "ALRM", "alarm">>, <<"QUIT", "ALRM", "alarm">>,
               <<"ALRM", "alarm">>, <<"alarm">>, <<"asleep">>, <<"pause">>}
    BY <1>3 DEF MainTodo, Turn
  <2>2. /\ Head(<<"INT", "QUIT", "ALRM", "alarm">>) = "INT"
        /\ Head(<<"QUIT", "ALRM", "alarm">>) = "QUIT"
        /\ Head(<<"ALRM", "alarm">>) = "ALRM" /\ Head(<<"alarm">>) = "alarm"
        /\ Head(<<"asleep">>) = "asleep" /\ Head(<<"pause">>) = "pause"
    BY Tuples
  <2>3. /\ Tail(<<"INT", "QUIT", "ALRM", "alarm">>) = <<"QUIT", "ALRM", "alarm">>
        /\ Tail(<<"QUIT", "ALRM", "alarm">>) = <<"ALRM", "alarm">>
        /\ Tail(<<"ALRM", "alarm">>) = <<"alarm">> /\ Tail(<<"alarm">>) = << >>
        /\ Tail(<<"asleep">>) = << >> /\ Tail(<<"pause">>) = << >>
    BY Tuples
  <2>4. t \in Seq(Steps)
    <3>1. /\ <<"INT", "QUIT", "ALRM", "alarm">> \in Seq(Steps)
          /\ <<"QUIT", "ALRM", "alarm">> \in Seq(Steps)
          /\ <<"ALRM", "alarm">> \in Seq(Steps) /\ <<"alarm">> \in Seq(Steps)
          /\ <<"asleep">> \in Seq(Steps) /\ <<"pause">> \in Seq(Steps)
      BY InSteps, ScriptTypes
    <3> QED BY <2>1, <3>1
  <2>5. MainTodo(Tail(t))
    BY <1>3, <2>1, <2>3 DEF MainTodo
  <2>6. Head(t) \in {"ALRM", "INT", "QUIT", "alarm", "asleep", "pause"}
    BY <2>1, <2>2
  <2>7. Range(Caught) = {"INT", "QUIT", "ALRM"}
    BY <1>3, TupleRanges DEF Caught
  <2>8. Head(t) = "pause" => <<"asleep">> \o Tail(t) = <<"asleep">>
    <3>1. <<"asleep">> \o << >> = <<"asleep">>
      OBVIOUS
    <3> QED BY <2>1, <2>2, <2>3, <3>1
  <2> QED BY <1>3, <2>4, <2>5, <2>6, <2>7, <2>8 DEF MainSteps, MainTodo, Signs
<1>4. CASE prog = "5_23"
  <2>1. t \in {<<"ALRM", "INT">>, <<"INT">>, <<"read">>, <<"clear", "strs">>,
               <<"clear", "chrs">>, <<"strs">>, <<"chrs">>, <<"alarm", "read">>}
    BY <1>4 DEF MainTodo, Turn
  <2>2. /\ Head(<<"ALRM", "INT">>) = "ALRM" /\ Head(<<"INT">>) = "INT"
        /\ Head(<<"read">>) = "read" /\ Head(<<"clear", "strs">>) = "clear"
        /\ Head(<<"clear", "chrs">>) = "clear" /\ Head(<<"strs">>) = "strs"
        /\ Head(<<"chrs">>) = "chrs" /\ Head(<<"alarm", "read">>) = "alarm"
    BY Tuples
  <2>3. /\ Tail(<<"ALRM", "INT">>) = <<"INT">> /\ Tail(<<"INT">>) = << >>
        /\ Tail(<<"read">>) = << >> /\ Tail(<<"clear", "strs">>) = <<"strs">>
        /\ Tail(<<"clear", "chrs">>) = <<"chrs">> /\ Tail(<<"strs">>) = << >>
        /\ Tail(<<"chrs">>) = << >> /\ Tail(<<"alarm", "read">>) = <<"read">>
    BY Tuples
  <2>4. t \in Seq(Steps)
    <3>1. /\ <<"ALRM", "INT">> \in Seq(Steps) /\ <<"INT">> \in Seq(Steps)
          /\ <<"read">> \in Seq(Steps) /\ <<"clear", "strs">> \in Seq(Steps)
          /\ <<"clear", "chrs">> \in Seq(Steps) /\ <<"strs">> \in Seq(Steps)
          /\ <<"chrs">> \in Seq(Steps) /\ <<"alarm", "read">> \in Seq(Steps)
      BY InSteps, ScriptTypes
    <3> QED BY <2>1, <3>1
  <2>5. MainTodo(Tail(t))
    BY <1>4, <2>1, <2>3 DEF MainTodo
  <2>6. Head(t) \in {"ALRM", "INT", "alarm", "chrs", "clear", "read", "strs"}
    BY <2>1, <2>2
  <2>7. Range(Caught) = {"ALRM", "INT"}
    BY <1>4, TupleRanges DEF Caught
  <2> QED BY <1>4, <2>4, <2>5, <2>6, <2>7 DEF MainSteps, MainTodo, Signs
<1>5. CASE prog = "5_37"
  <2>1. t \in {<<"USR1", "ALRM", "alarm">>, <<"ALRM", "alarm">>, <<"alarm">>,
               <<"asleep">>, <<"pause">>}
    BY <1>5 DEF MainTodo, Turn
  <2>2. /\ Head(<<"USR1", "ALRM", "alarm">>) = "USR1"
        /\ Head(<<"ALRM", "alarm">>) = "ALRM" /\ Head(<<"alarm">>) = "alarm"
        /\ Head(<<"asleep">>) = "asleep" /\ Head(<<"pause">>) = "pause"
    BY Tuples
  <2>3. /\ Tail(<<"USR1", "ALRM", "alarm">>) = <<"ALRM", "alarm">>
        /\ Tail(<<"ALRM", "alarm">>) = <<"alarm">> /\ Tail(<<"alarm">>) = << >>
        /\ Tail(<<"asleep">>) = << >> /\ Tail(<<"pause">>) = << >>
    BY Tuples
  <2>4. t \in Seq(Steps)
    <3>1. /\ <<"USR1", "ALRM", "alarm">> \in Seq(Steps) /\ <<"ALRM", "alarm">> \in Seq(Steps)
          /\ <<"alarm">> \in Seq(Steps) /\ <<"asleep">> \in Seq(Steps)
          /\ <<"pause">> \in Seq(Steps)
      BY InSteps, ScriptTypes
    <3> QED BY <2>1, <3>1
  <2>5. MainTodo(Tail(t))
    BY <1>5, <2>1, <2>3 DEF MainTodo
  <2>6. Head(t) \in {"ALRM", "USR1", "alarm", "asleep", "pause"}
    BY <2>1, <2>2
  <2>7. Range(Caught) = {"USR1", "ALRM"}
    BY <1>5, TupleRanges DEF Caught
  <2>8. Head(t) = "pause" => <<"asleep">> \o Tail(t) = <<"asleep">>
    <3>1. <<"asleep">> \o << >> = <<"asleep">>
      OBVIOUS
    <3> QED BY <2>1, <2>2, <2>3, <3>1
  <2> QED BY <1>5, <2>4, <2>5, <2>6, <2>7, <2>8 DEF MainSteps, MainTodo, Signs
<1>6. CASE prog = "6_10"
  <2>1. t \in {<<"INT">>, <<"selecting">>, <<"clear", "strs", "chrs">>,
               <<"strs", "chrs">>, <<"chrs">>, <<"clear", "write">>, <<"write">>,
               <<"select">>}
    BY <1>6 DEF MainTodo, Turn
  <2>2. /\ Head(<<"INT">>) = "INT" /\ Head(<<"selecting">>) = "selecting"
        /\ Head(<<"clear", "strs", "chrs">>) = "clear"
        /\ Head(<<"strs", "chrs">>) = "strs" /\ Head(<<"chrs">>) = "chrs"
        /\ Head(<<"clear", "write">>) = "clear" /\ Head(<<"write">>) = "write"
        /\ Head(<<"select">>) = "select"
    BY Tuples
  <2>3. /\ Tail(<<"INT">>) = << >> /\ Tail(<<"selecting">>) = << >>
        /\ Tail(<<"clear", "strs", "chrs">>) = <<"strs", "chrs">>
        /\ Tail(<<"strs", "chrs">>) = <<"chrs">> /\ Tail(<<"chrs">>) = << >>
        /\ Tail(<<"clear", "write">>) = <<"write">> /\ Tail(<<"write">>) = << >>
        /\ Tail(<<"select">>) = << >>
    BY Tuples
  <2>4. t \in Seq(Steps)
    <3>1. /\ <<"INT">> \in Seq(Steps) /\ <<"selecting">> \in Seq(Steps)
          /\ <<"clear", "strs", "chrs">> \in Seq(Steps)
          /\ <<"strs", "chrs">> \in Seq(Steps) /\ <<"chrs">> \in Seq(Steps)
          /\ <<"clear", "write">> \in Seq(Steps) /\ <<"write">> \in Seq(Steps)
          /\ <<"select">> \in Seq(Steps)
      BY InSteps, ScriptTypes
    <3> QED BY <2>1, <3>1
  <2>5. MainTodo(Tail(t))
    BY <1>6, <2>1, <2>3 DEF MainTodo
  <2>6. Head(t) \in {"INT", "chrs", "clear", "select", "selecting", "strs", "write"}
    BY <2>1, <2>2
  <2>7. Range(Caught) = {"INT"}
    BY <1>6, TupleRanges DEF Caught
  <2> QED BY <1>6, <2>4, <2>5, <2>6, <2>7 DEF MainSteps, MainTodo, Signs
<1> QED BY <1>1, <1>2, <1>3, <1>4, <1>5, <1>6 DEF AllPrograms
-----------------------------------------------------------------------------
(* Silence, in terms of the scripts: main() will still set an alarm, or a   *)
(* handler that was interrupted will.                                       *)
Secure(t) ==
  \/ \E x \in Signs \union {"alarm"} : x \in Range(t)
  \/ prog = "5_23" /\ t # <<"read">>
SilentInv ==
  Alarming /\ ended = "no" =>
    \/ alarmed \/ "ALRM" \in pending
    \/ Secure(stack[1].todo)
    \/ \E i \in 2 .. Len(stack) : "alarm" \in Range(stack[i].todo)

Inv == TypeInv /\ FramesInv /\ FlagInv /\ SilentInv /\ ExitNeedsTwo

LEMMA SilentIs ==
  ASSUME TypeInv, FramesInv, SilentInv
  PROVE  NeverSilent
<1> SUFFICES ASSUME Alarming, ended = "no", ~Starting, ~alarmed, "ALRM" \notin pending
             PROVE  \E i \in DOMAIN stack : WillSetAlarm(stack[i])
  BY DEF NeverSilent, Alarming
<1>1. DOMAIN stack = 1 .. Len(stack) /\ Len(stack) \in Nat /\ 1 \in DOMAIN stack
  <2>1. stack \in Seq(Frame) /\ Len(stack) > 0
    BY DEF TypeInv, FramesInv
  <2> QED BY <2>1, LenProperties
<1>2. CASE Secure(stack[1].todo)
  <2>1. \A x \in Signs : x \notin Range(stack[1].todo)
    BY DEF Starting, Range
  <2>2. WillSetAlarm(stack[1])
    BY <1>2, <2>1 DEF Secure, WillSetAlarm, FramesInv, Range
  <2> QED BY <1>1, <2>2
<1>3. ASSUME NEW i \in 2 .. Len(stack), "alarm" \in Range(stack[i].todo)
      PROVE  \E j \in DOMAIN stack : WillSetAlarm(stack[j])
  <2>1. i \in DOMAIN stack
    BY <1>1
  <2>2. WillSetAlarm(stack[i])
    BY <1>3 DEF WillSetAlarm, Range
  <2> QED BY <2>1, <2>2
<1> QED BY <1>2, <1>3 DEF SilentInv

(* While main() is secure it does nothing but count down to its alarm.      *)
LEMMA MainSecure ==
  ASSUME prog \in AllPrograms, Alarming, NEW t, MainTodo(t), Secure(t)
  PROVE  /\ t = << >> => Head(Turn) = "alarm"
         /\ t # << >> /\ Head(t) # "alarm" =>
              /\ Secure(Tail(t))
              /\ Head(t) \notin {"pause", "asleep", "selecting", "while", "if", "read", "select"}
<1>1. \A x : x \notin Range(<< >>)
  BY TupleRanges
<1>2. CASE prog = "5_22"
  <2>1. t \in {<<"INT", "QUIT", "ALRM", "alarm">>, <<"QUIT", "ALRM", "alarm">>,
               <<"ALRM", "alarm">>, <<"alarm">>, << >>, <<"asleep">>}
    BY <1>2 DEF MainTodo
  <2>2. Range(<<"asleep">>) = {"asleep"} /\ "asleep" \notin Signs \union {"alarm"}
    BY TupleRanges DEF Signs
  <2>3. ~Secure(<<"asleep">>) /\ ~Secure(<< >>)
    BY <1>1, <1>2, <2>2 DEF Secure
  <2>4. t \in {<<"INT", "QUIT", "ALRM", "alarm">>, <<"QUIT", "ALRM", "alarm">>,
               <<"ALRM", "alarm">>, <<"alarm">>}
    BY <2>1, <2>3
  <2>5. /\ Head(<<"INT", "QUIT", "ALRM", "alarm">>) = "INT"
        /\ Head(<<"QUIT", "ALRM", "alarm">>) = "QUIT"
        /\ Head(<<"ALRM", "alarm">>) = "ALRM" /\ Head(<<"alarm">>) = "alarm"
    BY Tuples
  <2>6. /\ Tail(<<"INT", "QUIT", "ALRM", "alarm">>) = <<"QUIT", "ALRM", "alarm">>
        /\ Tail(<<"QUIT", "ALRM", "alarm">>) = <<"ALRM", "alarm">>
        /\ Tail(<<"ALRM", "alarm">>) = <<"alarm">>
    BY Tuples
  <2>7. /\ "alarm" \in Range(<<"QUIT", "ALRM", "alarm">>)
        /\ "alarm" \in Range(<<"ALRM", "alarm">>) /\ "alarm" \in Range(<<"alarm">>)
    BY TupleRanges
  <2>8. Head(t) # "alarm" => "alarm" \in Range(Tail(t))
    BY <2>4, <2>5, <2>6, <2>7
  <2>9. Head(t) \in {"INT", "QUIT", "ALRM", "alarm"}
    BY <2>4, <2>5
  <2>10. t # << >>
    BY <2>3
  <2> QED BY <2>8, <2>9, <2>10 DEF Secure
<1>3. CASE prog = "5_37"
  <2>1. t \in {<<"USR1", "ALRM", "alarm">>, <<"ALRM", "alarm">>, <<"alarm">>, << >>, <<"asleep">>}
    BY <1>3 DEF MainTodo
  <2>2. Range(<<"asleep">>) = {"asleep"} /\ "asleep" \notin Signs \union {"alarm"}
    BY TupleRanges DEF Signs
  <2>3. ~Secure(<<"asleep">>) /\ ~Secure(<< >>)
    BY <1>1, <1>3, <2>2 DEF Secure
  <2>4. t \in {<<"USR1", "ALRM", "alarm">>, <<"ALRM", "alarm">>, <<"alarm">>}
    BY <2>1, <2>3
  <2>5. /\ Head(<<"USR1", "ALRM", "alarm">>) = "USR1"
        /\ Head(<<"ALRM", "alarm">>) = "ALRM" /\ Head(<<"alarm">>) = "alarm"
    BY Tuples
  <2>6. /\ Tail(<<"USR1", "ALRM", "alarm">>) = <<"ALRM", "alarm">>
        /\ Tail(<<"ALRM", "alarm">>) = <<"alarm">>
    BY Tuples
  <2>7. "alarm" \in Range(<<"ALRM", "alarm">>) /\ "alarm" \in Range(<<"alarm">>)
    BY TupleRanges
  <2>8. Head(t) # "alarm" => "alarm" \in Range(Tail(t))
    BY <2>4, <2>5, <2>6, <2>7
  <2>9. Head(t) \in {"USR1", "ALRM", "alarm"}
    BY <2>4, <2>5
  <2>10. t # << >>
    BY <2>3
  <2> QED BY <2>8, <2>9, <2>10 DEF Secure
<1>4. CASE prog = "5_23"
  <2>1. t \in {<<"ALRM", "INT">>, <<"INT">>, << >>, <<"read">>,
               <<"clear", "strs">>, <<"clear", "chrs">>, <<"strs">>, <<"chrs">>}
    BY <1>4 DEF MainTodo
  <2>2. Head(Turn) = "alarm"
    <3>1. Turn = <<"alarm", "read">>
      BY <1>4 DEF Turn
    <3> QED BY <3>1, Tuples
  <2>3. /\ Head(<<"ALRM", "INT">>) = "ALRM" /\ Head(<<"INT">>) = "INT"
        /\ Head(<<"clear", "strs">>) = "clear" /\ Head(<<"clear", "chrs">>) = "clear"
        /\ Head(<<"strs">>) = "strs" /\ Head(<<"chrs">>) = "chrs"
    BY Tuples
  <2>4. /\ Tail(<<"ALRM", "INT">>) = <<"INT">> /\ Tail(<<"INT">>) = << >>
        /\ Tail(<<"clear", "strs">>) = <<"strs">> /\ Tail(<<"clear", "chrs">>) = <<"chrs">>
        /\ Tail(<<"strs">>) = << >> /\ Tail(<<"chrs">>) = << >>
    BY Tuples
  <2>5. /\ Range(<<"read">>) = {"read"} /\ "read" \notin Signs \union {"alarm"}
    BY TupleRanges DEF Signs
  <2>6. t # <<"read">>
    BY <1>4, <2>5 DEF Secure
  <2>7. t # << >> => Head(t) \in {"ALRM", "INT", "clear", "strs", "chrs"}
    BY <2>1, <2>3, <2>6
  <2>8. t # << >> => Tail(t) \in {<<"INT">>, << >>, <<"strs">>, <<"chrs">>}
    BY <2>1, <2>4, <2>6
  <2>9. <<"read">> \notin {<<"INT">>, << >>, <<"strs">>, <<"chrs">>}
    <3>1. Head(<<"read">>) = "read" /\ Head(<<"INT">>) = "INT" /\ Head(<<"strs">>) = "strs"
          /\ Head(<<"chrs">>) = "chrs"
      BY Tuples
    <3>2. << >> # <<"read">>
      OBVIOUS
    <3> QED BY <3>1, <3>2
  <2> QED BY <1>4, <2>2, <2>7, <2>8, <2>9 DEF Secure
<1> QED BY <1>2, <1>3, <1>4 DEF Alarming

-----------------------------------------------------------------------------
(* The stack *)

(* The frame that runs, and what it may do next. *)
LEMMA TopIs ==
  ASSUME TypeInv, FramesInv, Todo # << >>
  PROVE  /\ Todo \in Seq(Steps) /\ Len(stack) \in Nat /\ Len(stack) >= 1
         /\ Len(stack) = 1 \/ Len(stack) > 1
         /\ Len(stack) = 1 =>
              /\ Top.of = "main" /\ MainSteps(Todo)
              /\ Todo = Top.todo \/ (Top.todo = << >> /\ Todo = Turn)
         /\ Len(stack) > 1 =>
              /\ Todo = Top.todo /\ Top.of \in Range(Caught) /\ Top.of # "main"
              /\ Head(Todo) \in StepsOf(Top.of) /\ Range(Tail(Todo)) \subseteq StepsOf(Top.of)
<1> DEFINE n == Len(stack)
<1>1. n \in Nat /\ n >= 1 /\ DOMAIN stack = 1 .. n
  BY LenProperties DEF TypeInv, FramesInv
<1>2. Top = stack[n] /\ stack[n] \in Frame
  BY <1>1, ElementOfSeq DEF Top, TypeInv
<1>3. CASE n = 1
  <2>1. Top.of = "main" /\ MainTodo(Top.todo)
    BY <1>2, <1>3 DEF FramesInv
  <2>2. Todo = Top.todo \/ (Top.todo = << >> /\ Todo = Turn)
    BY <2>1 DEF Todo
  <2>3. MainSteps(Todo)
    BY <2>1, <2>2, MainIs DEF TypeInv
  <2> QED BY <1>1, <1>3, <2>1, <2>2, <2>3 DEF MainSteps
<1>4. CASE n > 1
  <2>1. Top.of \in Range(Caught) /\ Range(Top.todo) \subseteq StepsOf(Top.of)
    BY <1>1, <1>2, <1>4 DEF FramesInv
  <2>2. Top.of \in Signs /\ Top.of # "main"
    BY <2>1, CaughtIs DEF TypeInv, Signs
  <2>3. Todo = Top.todo /\ Todo \in Seq(Steps)
    BY <1>2, <2>2 DEF Todo, Frame
  <2>4. Head(Todo) \in StepsOf(Top.of) /\ Range(Tail(Todo)) \subseteq StepsOf(Top.of)
    BY <2>1, <2>3, TailRange
  <2> QED BY <1>1, <1>4, <2>1, <2>2, <2>3, <2>4
<1> QED BY <1>1, <1>3, <1>4

(* A step of the running frame changes nothing but what it has left to do.  *)
LEMMA ContinueFrames ==
  ASSUME TypeInv, FramesInv, NEW t \in Seq(Steps), Continue(t), prog' = prog,
         Len(stack) = 1 => MainTodo(t),
         Len(stack) > 1 => Range(t) \subseteq StepsOf(Top.of)
  PROVE  /\ FramesInv' /\ stack' \in Seq(Frame) /\ Len(stack') = Len(stack)
         /\ \A i \in 1 .. Len(stack) :
              stack'[i].of = stack[i].of /\ stack'[i].clean = stack[i].clean
         /\ \A i \in 1 .. Len(stack) - 1 : stack'[i] = stack[i]
         /\ stack'[Len(stack)].todo = t
<1> DEFINE n == Len(stack)
           g == [stack[n] EXCEPT !.todo = t]
<1>1. n \in Nat /\ n >= 1 /\ DOMAIN stack = 1 .. n /\ n \in 1 .. n
  BY LenProperties DEF TypeInv, FramesInv
<1>2. stack[n] \in Frame /\ Top = stack[n]
  BY <1>1, ElementOfSeq DEF TypeInv, Top
<1>3. g \in Frame /\ g.of = stack[n].of /\ g.clean = stack[n].clean /\ g.todo = t
  BY <1>2 DEF Frame
<1>4. stack' = [stack EXCEPT ![n] = g]
  BY DEF Continue
<1> HIDE DEF g
<1>5. stack' \in Seq(Frame) /\ Len(stack') = n /\ \A i \in 1 .. n : stack'[i] = IF i = n THEN g ELSE stack[i]
  BY <1>1, <1>3, <1>4, ExceptSeq DEF TypeInv
<1>8. Len(stack') = n /\ stack' \in Seq(Frame)
  BY <1>5
<1>9. stack'[n] = g /\ \A i \in 1 .. n - 1 : stack'[i] = stack[i]
  <2>1. stack'[n] = g
    BY <1>1, <1>5
  <2>2. ASSUME NEW i \in 1 .. n - 1 PROVE stack'[i] = stack[i]
    <3>1. n \in Nat
      BY <1>1
    <3> HIDE DEF n
    <3>2. i \in 1 .. n /\ i # n
      BY ONLY <3>1, i \in 1 .. n - 1
    <3> QED BY <1>5, <3>2
  <2> QED BY <2>1, <2>2
<1>10. n > 0 /\ n >= 1
  BY <1>1
<1>6. \A i \in 1 .. n : stack'[i].of = stack[i].of /\ stack'[i].clean = stack[i].clean
  BY <1>3, <1>5
<1>7. FramesInv'
  <2>1. Caught' = Caught /\ \A s : StepsOf(s)' = StepsOf(s)
    BY DEF Caught, StepsOf, Exiting
  <2>2. /\ stack[1].of = "main" /\ MainTodo(stack[1].todo) /\ 1 \in 1 .. n
        /\ \A i \in 2 .. n : /\ stack[i].of \in Range(Caught)
                             /\ Range(stack[i].todo) \subseteq StepsOf(stack[i].of)
        /\ \A i, j \in 1 .. n : stack[i].of = stack[j].of => i = j
    BY <1>1 DEF FramesInv
  <2>3. stack'[1].of = "main"
    BY <1>6, <2>2
  <2>4. MainTodo(stack'[1].todo)
    <3>1. CASE n = 1
      <4>1. stack'[1].todo = t
        BY <1>3, <1>5, <2>2, <3>1
      <4> QED BY <3>1, <4>1
    <3>2. CASE n # 1
      <4>1. stack'[1] = stack[1]
        BY <1>5, <2>2, <3>2
      <4> QED BY <2>2, <4>1
    <3> QED BY <3>1, <3>2
  <2>5. MainTodo(stack[1].todo)'
    BY <2>4 DEF MainTodo
  <2>6. ASSUME NEW i \in 2 .. n
        PROVE  stack'[i].of \in Range(Caught) /\ Range(stack'[i].todo) \subseteq StepsOf(stack'[i].of)
    <3>0. i \in 1 .. n
      BY <1>1
    <3>1. CASE i = n
      <4>1. stack'[i] = g
        BY <1>9, <3>1
      <4>3. n > 1
        BY <1>1, <3>1
      <4>2. Range(t) \subseteq StepsOf(stack[n].of) /\ stack[n].of \in Range(Caught)
        BY <1>2, <2>2, <3>1, <4>3
      <4> QED BY <1>3, <4>1, <4>2
    <3>2. CASE i # n
      <4>1. stack'[i] = stack[i]
        BY <1>5, <3>0, <3>2
      <4> QED BY <2>2, <4>1
    <3> QED BY <3>1, <3>2
  <2>7. \A i \in 2 .. n : (stack[i].of \in Range(Caught) /\ Range(stack[i].todo) \subseteq StepsOf(stack[i].of))'
    BY <2>1, <2>6
  <2>8. \A i, j \in 1 .. n : stack'[i].of = stack'[j].of => i = j
    BY <1>6, <2>2
  <2>9. Len(stack)' = n /\ n > 0
    BY <1>8, <1>10
  <2> HIDE DEF n
  <2> QED BY <2>3, <2>5, <2>7, <2>8, <2>9 DEF FramesInv
<1> QED BY <1>3, <1>6, <1>7, <1>8, <1>9

(* What a step of the running frame is: it does x, and leaves its script    *)
(* without x, or, in main(), with another script that main() may have.      *)
Step(x, t) ==
  /\ At(x) /\ Continue(t) /\ prog' = prog
  /\ t = Tail(Todo) \/ (Len(stack) = 1 /\ MainTodo(t))

LEMMA StepFrames ==
  ASSUME TypeInv, FramesInv, NEW x, NEW t, Step(x, t)
  PROVE  /\ FramesInv' /\ stack' \in Seq(Frame) /\ Len(stack') = Len(stack)
         /\ \A i \in 1 .. Len(stack) :
              stack'[i].of = stack[i].of /\ stack'[i].clean = stack[i].clean
         /\ \A i \in 1 .. Len(stack) - 1 : stack'[i] = stack[i]
         /\ stack'[Len(stack)].todo = t
<1>1. Todo # << >> /\ Continue(t) /\ prog' = prog
  BY DEF Step, At
<1>2. CASE t = Tail(Todo)
  <2>1. Tail(Todo) \in Seq(Steps)
    BY <1>1, TopIs, TailRange
  <2>2. Len(stack) = 1 => MainTodo(t)
    BY <1>1, <1>2, TopIs DEF MainSteps
  <2>3. Len(stack) > 1 => Range(t) \subseteq StepsOf(Top.of)
    BY <1>1, <1>2, TopIs
  <2> QED BY <1>1, <1>2, <2>1, <2>2, <2>3, ContinueFrames
<1>3. CASE Len(stack) = 1 /\ MainTodo(t)
  <2>1. t \in Seq(Steps)
    <3>1. CASE t = << >>
      BY <3>1, ScriptTypes, InSteps
    <3>2. CASE t # << >>
      BY <1>3, <3>2, MainIs DEF TypeInv, MainSteps
    <3> QED BY <3>1, <3>2
  <2> QED BY <1>1, <1>3, <2>1, ContinueFrames
<1> QED BY <1>2, <1>3 DEF Step

(* The flag, in a step other than the test. *)
LEMMA StepFlag ==
  ASSUME TypeInv, FramesInv, FlagInv, NEW x, NEW t, Step(x, t), x # "test",
         entry' = entry, Exiting => flag' \in {flag, 0},
         calm' => calm \/ flag' = 0, x = "clear" => flag' = 0
  PROVE  FlagInv'
<1> DEFINE n == Len(stack)
<1>1. prog' = prog /\ ended = "no" /\ Todo # << >> /\ Head(Todo) = x
  BY DEF Step, At
<1>2. n \in Nat /\ n >= 1
  BY <1>1, TopIs
<1>3. /\ Len(stack') = n
      /\ \A i \in 1 .. n : stack'[i].of = stack[i].of /\ stack'[i].clean = stack[i].clean
      /\ \A i \in 1 .. n - 1 : stack'[i] = stack[i]
      /\ stack'[n].todo = t
  BY StepFrames
<1>4. n > 1 => /\ t = Tail(Todo) /\ Todo = stack[n].todo /\ Todo \in Seq(Steps)
               /\ stack[n].of \in Range(Caught)
  BY <1>1, TopIs DEF Step, Top
<1>5. Handler("INT")' = Handler("INT") /\ Exiting' = Exiting
  BY <1>1 DEF Handler, Exiting
<1>6. SUFFICES ASSUME Exiting, ended' = "no"
               PROVE  /\ (\A i \in 1 .. n : stack'[i].of # "INT") /\ calm' => flag' = 0
                      /\ \A i \in 2 .. n : stack'[i].of = "INT" =>
                           /\ \/ stack'[i].todo = Handler("INT") /\ (entry' => flag' = 0)
                              \/ Range(stack'[i].todo) \subseteq Quiet
                           /\ \A j \in 1 .. i - 1 : ~stack'[j].clean
                      /\ \A i \in 2 .. n : stack'[i].of # "INT" /\ stack'[i].clean
                             /\ "clear" \notin Range(stack'[i].todo) => flag' = 0
  BY <1>3, <1>5 DEF FlagInv
<1>7. flag = 0 => flag' = 0
  BY <1>6
<1>8. /\ (\A i \in 1 .. n : stack[i].of # "INT") /\ calm => flag = 0
      /\ \A i \in 2 .. n : stack[i].of = "INT" =>
           /\ \/ stack[i].todo = Handler("INT") /\ (entry => flag = 0)
              \/ Range(stack[i].todo) \subseteq Quiet
           /\ \A j \in 1 .. i - 1 : ~stack[j].clean
      /\ \A i \in 2 .. n : stack[i].of # "INT" /\ stack[i].clean
             /\ "clear" \notin Range(stack[i].todo) => flag = 0
  BY <1>1, <1>6 DEF FlagInv
<1> HIDE DEF n
<1>9. (\A i \in 1 .. n : stack'[i].of # "INT") /\ calm' => flag' = 0
  BY <1>3, <1>7, <1>8
<1>10. ASSUME NEW i \in 2 .. n, stack'[i].of = "INT"
       PROVE  /\ \/ stack'[i].todo = Handler("INT") /\ (entry' => flag' = 0)
                 \/ Range(stack'[i].todo) \subseteq Quiet
              /\ \A j \in 1 .. i - 1 : ~stack'[j].clean
  <2>0. n > 1 /\ i \in 1 .. n /\ \A j \in 1 .. i - 1 : j \in 1 .. n
    BY <1>2
  <2>1. stack[i].of = "INT"
    BY <1>3, <1>10, <2>0
  <2>2. \A j \in 1 .. i - 1 : ~stack'[j].clean
    BY <1>3, <1>8, <2>0, <2>1
  <2>3. CASE i # n
    <3>1. i \in 1 .. n - 1
      BY <1>2, <2>3
    <3> QED BY <1>3, <1>7, <1>8, <2>1, <2>2, <3>1
  <2>4. CASE i = n
    <3>1. stack[n].todo # Handler("INT")
      BY <1>1, <1>4, <1>6, <2>0, <2>1, <2>4, HandlerIs DEF TypeInv
    <3>2. Range(Todo) \subseteq Quiet
      BY <1>4, <1>8, <2>0, <2>1, <2>4, <3>1
    <3>3. Range(t) \subseteq Quiet
      BY <1>1, <1>4, <2>0, <3>2, TailRange
    <3> QED BY <1>3, <2>2, <2>4, <3>3
  <2> QED BY <2>3, <2>4
<1>11. ASSUME NEW i \in 2 .. n, stack'[i].of # "INT", stack'[i].clean,
              "clear" \notin Range(stack'[i].todo)
       PROVE  flag' = 0
  <2>0. n > 1 /\ i \in 1 .. n
    BY <1>2
  <2>1. stack[i].of # "INT" /\ stack[i].clean
    BY <1>3, <1>11, <2>0
  <2>2. CASE i # n
    <3>1. i \in 1 .. n - 1
      BY <1>2, <2>2
    <3> QED BY <1>3, <1>7, <1>8, <1>11, <2>1, <3>1
  <2>3. CASE i = n
    <3>1. "clear" \notin Range(Tail(Todo))
      BY <1>3, <1>4, <1>11, <2>0, <2>3
    <3>2. CASE x = "clear"
      BY <3>2
    <3>3. CASE x # "clear"
      <4>1. "clear" \notin Range(Todo)
        BY <1>1, <1>4, <2>0, <3>1, <3>3, TailRange
      <4> QED BY <1>4, <1>7, <1>8, <2>0, <2>1, <2>3, <4>1
    <3> QED BY <3>2, <3>3
  <2> QED BY <2>2, <2>3
<1> QED BY <1>9, <1>10, <1>11

(* Silence: whoever is secure stays so until the alarm is set. *)
LEMMA StepSilent ==
  ASSUME TypeInv, FramesInv, SilentInv, NEW x, NEW t, Step(x, t), pending' = pending,
         alarmed' = TRUE \/ (alarmed' = alarmed /\ x # "alarm"),
         \/ t = Tail(Todo)
         \/ x \in {"pause", "while", "if", "read", "select", "selecting"}
  PROVE  SilentInv'
<1> DEFINE n == Len(stack)
<1>1. prog' = prog /\ ended = "no" /\ Todo # << >> /\ Head(Todo) = x
  BY DEF Step, At
<1>2. n \in Nat /\ n >= 1
  BY <1>1, TopIs
<1>3. /\ Len(stack') = n
      /\ \A i \in 1 .. n - 1 : stack'[i] = stack[i]
      /\ stack'[n].todo = t
  BY StepFrames
<1>4. n > 1 => t = Tail(Todo) /\ Todo = stack[n].todo /\ Todo \in Seq(Steps)
  BY <1>1, TopIs DEF Step, Top
<1>6. SUFFICES ASSUME Alarming, alarmed' # TRUE, "ALRM" \notin pending
               PROVE  \/ Secure(stack'[1].todo)
                      \/ \E i \in 2 .. n : "alarm" \in Range(stack'[i].todo)
  <2>1. Secure(stack[1].todo)' <=> Secure(stack'[1].todo)
    BY <1>1 DEF Secure
  <2>2. Alarming' = Alarming
    BY <1>1 DEF Alarming
  <2> QED BY <1>3, <2>1, <2>2 DEF SilentInv
<1>7. ~alarmed /\ x # "alarm"
  BY <1>6 DEF TypeInv
<1>8. \/ Secure(stack[1].todo)
      \/ \E i \in 2 .. n : "alarm" \in Range(stack[i].todo)
  BY <1>1, <1>6, <1>7 DEF SilentInv
<1>12. n = 1 => \/ Todo = stack[1].todo
                \/ stack[1].todo = << >> /\ Todo = Turn
  <2>1. n = 1 => Todo = Top.todo \/ (Top.todo = << >> /\ Todo = Turn)
    BY <1>1, TopIs
  <2>2. Top = stack[n]
    BY DEF Top
  <2> HIDE DEF n
  <2> QED BY <2>1, <2>2
<1> HIDE DEF n
<1>9. CASE Secure(stack[1].todo) /\ n = 1
  <2>1. MainTodo(stack[1].todo)
    BY DEF FramesInv
  <2>2. \/ Todo = stack[1].todo
        \/ stack[1].todo = << >> /\ Todo = Turn
    BY <1>9, <1>12
  <2>3. stack[1].todo # << >>
    BY <1>1, <1>6, <1>7, <1>9, <2>1, <2>2, MainSecure DEF TypeInv
  <2>4. Todo = stack[1].todo
    BY <2>2, <2>3
  <2>5. /\ Secure(Tail(Todo))
        /\ x \notin {"pause", "asleep", "selecting", "while", "if", "read", "select"}
    BY <1>1, <1>6, <1>7, <1>9, <2>1, <2>3, <2>4, MainSecure DEF TypeInv
  <2>6. t = Tail(Todo)
    BY <2>5
  <2> QED BY <1>3, <1>9, <2>5, <2>6
<1>10. CASE Secure(stack[1].todo) /\ n # 1
  <2>1. stack'[1] = stack[1]
    <3>1. 1 \in 1 .. n - 1
      BY ONLY <1>2, <1>10
    <3> QED BY <1>3, <3>1
  <2> QED BY <1>10, <2>1
<1>11. ASSUME NEW i \in 2 .. n, "alarm" \in Range(stack[i].todo)
       PROVE  "alarm" \in Range(stack'[i].todo)
  <2>0. n > 1
    BY <1>2
  <2>1. CASE i # n
    <3>1. i \in 1 .. n - 1
      BY <1>2, <2>1
    <3> QED BY <1>3, <1>11, <3>1
  <2>2. CASE i = n
    <3>1. "alarm" \in Range(Tail(Todo))
      BY <1>1, <1>4, <1>7, <1>11, <2>0, <2>2, TailRange
    <3> QED BY <1>3, <1>4, <2>0, <2>2, <3>1
  <2> QED BY <2>1, <2>2
<1> QED BY <1>8, <1>9, <1>10, <1>11

-----------------------------------------------------------------------------
(* The steps of main() and the handlers *)

LEMMA OrdinaryStep ==
  ASSUME Inv, NEW x, NEW t, Step(x, t), x # "test",
         handled' \subseteq Range(Caught), pending' = pending, ended' # "exit",
         flag' \in {0, 1}, Exiting => flag' \in {flag, 0}, x = "clear" => flag' = 0,
         calm' \in BOOLEAN, calm' => calm \/ flag' = 0, entry' = entry,
         alarmed' = TRUE \/ (alarmed' = alarmed /\ x # "alarm"),
         \/ t = Tail(Todo)
         \/ x \in {"pause", "while", "if", "read", "select", "selecting"}
  PROVE  Inv'
<1>1. TypeInv /\ FramesInv /\ FlagInv /\ SilentInv
  BY DEF Inv
<1>2. FramesInv' /\ stack' \in Seq(Frame)
  BY <1>1, StepFrames
<1>3. FlagInv'
  BY <1>1, StepFlag
<1>4. SilentInv'
  BY <1>1, StepSilent
<1>5. TypeInv'
  <2>1. prog' = prog /\ Caught' = Caught /\ alarmed' \in BOOLEAN
    BY <1>1 DEF Step, Caught, TypeInv
  <2> QED BY <1>1, <1>2, <2>1 DEF TypeInv
<1>6. ExitNeedsTwo'
  BY DEF ExitNeedsTwo
<1> QED BY <1>2, <1>3, <1>4, <1>5, <1>6 DEF Inv

(* Only main() calls signal(), pause(), read() and select(), and counts. *)
LEMMA OnlyMain ==
  ASSUME TypeInv, FramesInv, Todo # << >>,
         Head(Todo) \in Signs \union {"pause", "while", "if", "read", "select", "selecting"}
  PROVE  Len(stack) = 1 /\ MainSteps(Todo)
<1>1. CASE Len(stack) > 1
  BY <1>1, TopIs DEF StepsOf, Quiet, Signs
<1>2. CASE Len(stack) = 1
  BY <1>2, TopIs
<1> QED BY <1>1, <1>2, TopIs

LEMMA NeverSets ==
  ASSUME TypeInv, FramesInv, Todo # << >>, Head(Todo) = "set"
  PROVE  ~Exiting
<1>1. CASE Len(stack) > 1
  <2>1. "set" \in StepsOf(Top.of) /\ Top.of \in Range(Caught)
    BY <1>1, TopIs
  <2> QED BY <2>1, CaughtIs DEF StepsOf, Quiet, TypeInv
<1>2. CASE Len(stack) = 1
  BY <1>2, TopIs DEF MainSteps
<1> QED BY <1>1, <1>2, TopIs

LEMMA AdvanceStep ==
  ASSUME NEW x, At(x), Advance, prog' = prog
  PROVE  Step(x, Tail(Todo))
BY DEF Advance, Step

LEMMA CatchInv == Inv /\ Catch => Inv'
<1> SUFFICES ASSUME Inv, Catch PROVE Inv'
  OBVIOUS
<1>1. PICK s \in Signs : At(s) /\ handled' = handled \union {s}
  BY DEF Catch, Signs
<1>2. Step(s, Tail(Todo)) /\ pending' = pending /\ ended' = ended /\ flag' = flag
      /\ calm' = calm /\ entry' = entry /\ alarmed' = alarmed
  BY <1>1, AdvanceStep DEF Catch, memory, history
<1>3. s \in Range(Caught)
  BY <1>1, OnlyMain DEF At, Inv, MainSteps
<1>4. s # "test" /\ s # "clear" /\ s # "alarm" /\ ended = "no"
  BY <1>1 DEF Signs, At
<1>5. /\ handled \subseteq Range(Caught) /\ flag \in {0, 1} /\ calm \in BOOLEAN
  BY DEF Inv, TypeInv
<1> QED BY <1>1, <1>2, <1>3, <1>4, <1>5, OrdinaryStep

(* The steps that leave the flag and the alarm alone. *)
LEMMA PlainInv ==
  ASSUME Inv, NEW x, NEW t, Step(x, t), x \notin {"test", "clear", "alarm"},
         handled' = handled, pending' = pending, alarmed' = alarmed, flag' = flag,
         calm' = calm, entry' = entry, ended' # "exit",
         \/ t = Tail(Todo)
         \/ x \in {"pause", "while", "if", "read", "select", "selecting"}
  PROVE  Inv'
<1>1. handled \subseteq Range(Caught) /\ flag \in {0, 1} /\ calm \in BOOLEAN
  BY DEF Inv, TypeInv
<1> QED BY <1>1, OrdinaryStep

LEMMA AlarmInv == Inv /\ Alarm => Inv'
<1> SUFFICES ASSUME Inv, Alarm PROVE Inv'
  OBVIOUS
<1>1. Step("alarm", Tail(Todo)) /\ handled' = handled /\ pending' = pending /\ ended' = ended
      /\ flag' = flag /\ calm' = calm /\ entry' = entry /\ alarmed' = TRUE /\ ended = "no"
  BY AdvanceStep DEF Alarm, memory, history, At
<1>2. handled \subseteq Range(Caught) /\ flag \in {0, 1} /\ calm \in BOOLEAN
  BY DEF Inv, TypeInv
<1> QED BY <1>1, <1>2, OrdinaryStep

LEMMA SetInv == Inv /\ Set => Inv'
<1> SUFFICES ASSUME Inv, Set PROVE Inv'
  OBVIOUS
<1>1. Step("set", Tail(Todo)) /\ handled' = handled /\ pending' = pending /\ ended' = ended
      /\ flag' = 1 /\ calm' = calm /\ entry' = entry /\ alarmed' = alarmed /\ ended = "no"
  BY AdvanceStep DEF Set, history, At
<1>2. ~Exiting
  BY NeverSets DEF Set, At, Inv
<1>3. handled \subseteq Range(Caught) /\ calm \in BOOLEAN
  BY DEF Inv, TypeInv
<1> QED BY <1>1, <1>2, <1>3, OrdinaryStep

LEMMA ClearInv == Inv /\ Clear => Inv'
<1> SUFFICES ASSUME Inv, Clear PROVE Inv'
  OBVIOUS
<1>1. Step("clear", Tail(Todo)) /\ handled' = handled /\ pending' = pending /\ ended' = ended
      /\ flag' = 0 /\ calm' \in {TRUE, calm} /\ entry' = entry /\ alarmed' = alarmed
      /\ ended = "no"
  BY AdvanceStep DEF Clear, At
<1>2. handled \subseteq Range(Caught) /\ calm \in BOOLEAN
  BY DEF Inv, TypeInv
<1>3. calm' \in BOOLEAN
  BY <1>1, <1>2
<1> QED BY <1>1, <1>2, <1>3, OrdinaryStep

LEMMA CountersInv == Inv /\ (Count \/ Sign \/ Write \/ Show \/ CountLine \/ CountChars) => Inv'
<1> SUFFICES ASSUME Inv, Count \/ Sign \/ Write \/ Show \/ CountLine \/ CountChars PROVE Inv'
  OBVIOUS
<1>1. /\ Advance /\ prog' = prog
      /\ handled' = handled /\ pending' = pending /\ alarmed' = alarmed
      /\ flag' = flag /\ calm' = calm /\ entry' = entry /\ ended' = ended
  BY DEF Count, Sign, Write, Show, CountLine, CountChars, memory, history
<1>2. PICK x \in {"count", "minus", "plus", "write", "show", "strs", "chrs"} : At(x)
  BY DEF Count, Sign, Write, Show, CountLine, CountChars
<1>3. Step(x, Tail(Todo)) /\ ended = "no" /\ x \notin {"test", "clear", "alarm"}
  BY <1>1, <1>2, AdvanceStep DEF At
<1> QED BY <1>1, <1>3, PlainInv

LEMMA TurnsInv ==
  Inv /\ (While \/ Pause \/ If \/ Read \/ ReadEnd \/ Select \/ SelectInput \/ SelectTimeout)
    => Inv'
<1> SUFFICES ASSUME Inv, While \/ Pause \/ If \/ Read \/ ReadEnd \/ Select \/ SelectInput
                           \/ SelectTimeout
             PROVE  Inv'
  OBVIOUS
<1>1. /\ prog' = prog /\ handled' = handled /\ pending' = pending /\ alarmed' = alarmed
      /\ flag' = flag /\ calm' = calm /\ entry' = entry /\ ended = "no" /\ Todo # << >>
  BY DEF While, Pause, If, Read, ReadEnd, Select, SelectInput, SelectTimeout, memory, history, At
<1>2. ended' \in {"no", "bye", "eof"}
  BY <1>1 DEF While, Pause, If, Read, ReadEnd, Select, SelectInput, SelectTimeout
<1>3. ASSUME NEW x \in {"pause", "while", "if", "read", "select", "selecting"}, NEW t,
             At(x), Continue(t), t = Tail(Todo) \/ MainTodo(t)
      PROVE  Inv'
  <2>1. Len(stack) = 1
    BY <1>3, OnlyMain DEF Inv, At
  <2>2. Step(x, t)
    BY <1>1, <1>3, <2>1 DEF Step
  <2> QED BY <1>1, <1>2, <1>3, <2>2, PlainInv
<1>4. ASSUME At("pause") \/ At("while") \/ At("if") \/ At("read") \/ At("select")
             \/ At("selecting")
      PROVE  MainSteps(Todo)
  BY <1>4, OnlyMain DEF Inv, At
<1>5. CASE While
  <2>1. MainTodo(<<"pause", "while">>)
    BY <1>4, <1>5 DEF While, At, MainSteps
  <2>2. CASE flag = 1
    BY <1>3, <1>5, <2>2 DEF While, Advance
  <2>3. CASE flag # 1
    BY <1>3, <1>5, <2>1, <2>3 DEF While
  <2> QED BY <2>2, <2>3
<1>6. CASE Pause
  <2>1. MainTodo(<<"asleep">> \o Tail(Todo))
    BY <1>4, <1>6 DEF Pause, At, MainSteps
  <2> QED BY <1>3, <1>6, <2>1 DEF Pause
<1>7. CASE If
  <2>1. MainTodo(<<"show", "clear">>) /\ MainTodo(<< >>)
    BY <1>4, <1>7 DEF If, At, MainSteps
  <2>2. At("if") /\ (Continue(<<"show", "clear">>) \/ Continue(<< >>))
    BY <1>7 DEF If
  <2> QED BY <1>3, <2>1, <2>2
<1>8. CASE Read
  <2>1. MainTodo(<<"clear", "strs">>) /\ MainTodo(<<"clear", "chrs">>)
    BY <1>4, <1>8 DEF Read, At, MainSteps
  <2>2. At("read") /\ (Continue(<<"clear", "strs">>) \/ Continue(<<"clear", "chrs">>))
    BY <1>8 DEF Read
  <2> QED BY <1>3, <2>1, <2>2
<1>9. CASE ReadEnd
  BY <1>3, <1>9 DEF ReadEnd, Advance
<1>10. CASE Select
  <2>1. MainTodo(<<"selecting">>)
    BY <1>4, <1>10 DEF Select, At, MainSteps
  <2> QED BY <1>3, <1>10, <2>1 DEF Select
<1>11. CASE SelectInput
  <2>1. MainTodo(<<"clear", "strs", "chrs">>)
    BY <1>4, <1>11 DEF SelectInput, At, MainSteps
  <2> QED BY <1>3, <1>11, <2>1 DEF SelectInput
<1>12. CASE SelectTimeout
  <2>1. MainTodo(<<"clear", "write">>)
    BY <1>4, <1>12 DEF SelectTimeout, At, MainSteps
  <2> QED BY <1>3, <1>12, <2>1 DEF SelectTimeout
<1> QED BY <1>5, <1>6, <1>7, <1>8, <1>9, <1>10, <1>11, <1>12

(* The first SIGINT sets the flag; one that finds it set was delivered while *)
(* the flag was set, so it is the second.                                   *)
LEMMA TestInv == Inv /\ Test => Inv'
<1> SUFFICES ASSUME Inv, Test PROVE Inv'
  OBVIOUS
<1> DEFINE n == Len(stack)
<1>1. TypeInv /\ FramesInv /\ FlagInv /\ SilentInv
  BY DEF Inv
<1>2. /\ Step("test", Tail(Todo)) /\ handled' = handled /\ pending' = pending /\ prog' = prog
      /\ ended' = (IF flag = 1 THEN "exit" ELSE "no") /\ flag' = 1
      /\ calm' = calm /\ entry' = entry /\ alarmed' = alarmed
  BY AdvanceStep DEF Test, history
<1>3. ended = "no" /\ Todo # << >> /\ Head(Todo) = "test"
  BY DEF Test, At
<1>4. n # 1
  BY <1>1, <1>3, TopIs DEF MainSteps
<1>5. n > 1 /\ n \in Nat
  BY <1>1, <1>3, <1>4, TopIs
<1>6. /\ Todo = stack[n].todo /\ Todo \in Seq(Steps)
      /\ stack[n].of = "INT" /\ Exiting /\ "INT" \in Range(Caught)
  <2>1. /\ Todo = Top.todo /\ Todo \in Seq(Steps)
        /\ Top.of \in Range(Caught) /\ "test" \in StepsOf(Top.of)
    BY <1>1, <1>3, <1>5, TopIs
  <2>2. Top.of = "INT" /\ Exiting
    BY <2>1 DEF StepsOf, Quiet
  <2> QED BY <2>1, <2>2 DEF Top
<1>7. /\ FramesInv' /\ stack' \in Seq(Frame) /\ Len(stack') = n
      /\ \A i \in 1 .. n : stack'[i].of = stack[i].of /\ stack'[i].clean = stack[i].clean
      /\ stack'[n].todo = Tail(Todo)
  BY <1>1, <1>2, StepFrames
<1>8. TypeInv'
  <2>1. Caught' = Caught
    BY <1>2 DEF Caught
  <2> QED BY <1>1, <1>2, <1>7, <2>1 DEF TypeInv
<1>9. SilentInv'
  BY <1>1, <1>2, StepSilent
<1>10. \A i, j \in 1 .. n : stack[i].of = stack[j].of => i = j
  BY <1>1 DEF FramesInv
<1>11. \A i \in 2 .. n : stack[i].of = "INT" =>
         /\ \/ stack[i].todo = Handler("INT") /\ (entry => flag = 0)
            \/ Range(stack[i].todo) \subseteq Quiet
         /\ \A j \in 1 .. i - 1 : ~stack[j].clean
  BY <1>1, <1>3, <1>6 DEF FlagInv
<1> HIDE DEF n
<1>12. n \in 2 .. n /\ n \in 1 .. n /\ \A i \in 1 .. n : i = n \/ i \in 1 .. n - 1
  BY <1>5
<1>13. \A i \in 2 .. n : i \in 1 .. n
  BY <1>5
<1>14. Todo = Handler("INT") /\ (entry => flag = 0) /\ \A j \in 1 .. n - 1 : ~stack[j].clean
  <2>1. "test" \in Range(Todo) /\ "test" \notin Quiet
    BY <1>3, <1>6, TailRange DEF Quiet
  <2> QED BY <1>6, <1>11, <1>12, <2>1
<1>15. Range(Tail(Todo)) \subseteq Quiet
  BY <1>1, <1>6, <1>14, HandlerIs DEF TypeInv
<1>16. ExitNeedsTwo'
  BY <1>2, <1>14 DEF ExitNeedsTwo
<1>17. FlagInv'
  <2>1. stack'[n].of = "INT"
    BY <1>6, <1>7, <1>12
  <2>2. ASSUME NEW i \in 2 .. n, stack'[i].of = "INT"
        PROVE  Range(stack'[i].todo) \subseteq Quiet /\ \A j \in 1 .. i - 1 : ~stack'[j].clean
    <3>1. stack[i].of = "INT" /\ i = n
      BY <1>6, <1>7, <1>10, <1>12, <1>13, <2>2
    <3>2. \A j \in 1 .. n - 1 : j \in 1 .. n
      BY <1>5
    <3> QED BY <1>7, <1>14, <1>15, <3>1, <3>2
  <2>3. ASSUME NEW i \in 2 .. n, stack'[i].of # "INT" PROVE ~stack'[i].clean
    <3>1. i \in 1 .. n - 1
      BY <1>12, <1>13, <2>1, <2>3
    <3> QED BY <1>7, <1>13, <1>14, <3>1
  <2>4. (\A i \in 1 .. n : stack'[i].of # "INT") => FALSE
    BY <1>12, <2>1
  <2> QED BY <1>7, <2>2, <2>3, <2>4 DEF FlagInv
<1> QED BY <1>7, <1>8, <1>9, <1>16, <1>17 DEF Inv

-----------------------------------------------------------------------------
(* Delivery and return *)

LEMMA BelowIs ==
  ASSUME TypeInv, NEW s
  PROVE  /\ Below(s) \in Seq(Frame) /\ Len(Below(s)) = Len(stack)
         /\ \A i \in 1 .. Len(stack) :
              /\ Below(s)[i].of = stack[i].of /\ Below(s)[i].todo = stack[i].todo
              /\ s = "INT" => ~Below(s)[i].clean
              /\ s # "INT" => Below(s)[i] = stack[i]
<1> DEFINE n == Len(stack)
           b == Below(s)
<1>1. n \in Nat /\ DOMAIN stack = 1 .. n /\ \A i \in 1 .. n : stack[i] \in Frame
  BY LenProperties, ElementOfSeq DEF TypeInv
<1>2. /\ DOMAIN b = 1 .. n /\ b = [i \in 1 .. n |-> b[i]]
      /\ \A i \in 1 .. n :
           b[i] = IF s = "INT" THEN [stack[i] EXCEPT !.clean = FALSE] ELSE stack[i]
  BY <1>1 DEF Below
<1>3. \A i \in 1 .. n :
        /\ b[i] \in Frame /\ b[i].of = stack[i].of /\ b[i].todo = stack[i].todo
        /\ s = "INT" => ~b[i].clean
        /\ s # "INT" => b[i] = stack[i]
  <2> SUFFICES ASSUME NEW i \in 1 .. n
               PROVE  /\ b[i] \in Frame /\ b[i].of = stack[i].of /\ b[i].todo = stack[i].todo
                      /\ s = "INT" => ~b[i].clean
                      /\ s # "INT" => b[i] = stack[i]
    OBVIOUS
  <2>1. stack[i] \in Frame
    BY <1>1
  <2>2. b[i] = IF s = "INT" THEN [stack[i] EXCEPT !.clean = FALSE] ELSE stack[i]
    BY <1>2, Zenon
  <2> HIDE DEF b, n
  <2> QED BY ONLY <2>1, <2>2 DEF Frame
<1> HIDE DEF b, n
<1>4. b \in [1 .. n -> Frame]
  BY <1>2, <1>3
<1>5. b \in Seq(Frame) /\ Len(b) = n
  BY <1>1, <1>4
<1> QED BY <1>3, <1>5 DEF b, n

LEMMA DeliverInv ==
  ASSUME Inv, NEW s \in Signs, Deliver(s)
  PROVE  Inv'
<1> DEFINE n == Len(stack)
           f == [of |-> s, todo |-> Handler(s), clean |-> TRUE]
<1>1. TypeInv /\ FramesInv /\ FlagInv /\ SilentInv /\ prog \in AllPrograms
  BY DEF Inv, TypeInv
<1>2. /\ prog' = prog /\ handled' = handled /\ alarmed' = alarmed /\ flag' = flag
      /\ ended = "no" /\ pending' = pending \ {s}
  BY DEF Deliver, memory
<1>3. Caught' = Caught /\ \A q : StepsOf(q)' = StepsOf(q)
  BY <1>2 DEF Caught, StepsOf, Exiting
<1>4. CASE s \notin handled
  <2>1. stack' = stack /\ calm' = calm /\ entry' = entry /\ ended' = "killed"
    BY <1>4 DEF Deliver, history
  <2>2. TypeInv'
    BY <1>1, <1>2, <1>3, <2>1 DEF TypeInv
  <2>3. MainTodo(stack[1].todo)' <=> MainTodo(stack[1].todo)
    BY <1>2, <2>1 DEF MainTodo
  <2>4. FramesInv'
    BY <1>1, <1>3, <2>1, <2>3 DEF FramesInv
  <2> QED BY <2>1, <2>2, <2>4 DEF Inv, FlagInv, SilentInv, ExitNeedsTwo
<1>5. CASE s \in handled
  <2>1. /\ stack' = Append(Below(s), f) /\ ended' = "no"
        /\ entry' = (IF s = "INT" THEN calm ELSE entry)
        /\ calm' = (IF s = "INT" THEN FALSE ELSE calm)
    BY <1>2, <1>5 DEF Deliver
  <2>2. s \in Range(Caught)
    BY <1>1, <1>5 DEF TypeInv
  <2>3. /\ Handler(s) \in Seq(Steps) /\ Range(Handler(s)) \subseteq StepsOf(s)
        /\ Alarming /\ s = "ALRM" => "alarm" \in Range(Handler(s))
        /\ Exiting /\ s # "INT" => "clear" \in Range(Handler(s))
    BY <1>1, <2>2, HandlerIs
  <2>4. f \in Frame /\ f.of = s /\ f.todo = Handler(s) /\ f.clean
    BY <2>3 DEF Frame
  <2> HIDE DEF f
  <2>5. /\ Below(s) \in Seq(Frame) /\ Len(Below(s)) = n
        /\ \A i \in 1 .. n :
             /\ Below(s)[i].of = stack[i].of /\ Below(s)[i].todo = stack[i].todo
             /\ s = "INT" => ~Below(s)[i].clean
             /\ s # "INT" => Below(s)[i] = stack[i]
    BY <1>1, BelowIs
  <2>6. /\ stack' \in Seq(Frame) /\ Len(stack') = n + 1 /\ stack'[n + 1] = f
        /\ \A i \in 1 .. n : stack'[i] = Below(s)[i]
    BY <2>1, <2>4, <2>5, AppendProperties
  <2>7. \A i \in 1 .. n :
          /\ stack'[i].of = stack[i].of /\ stack'[i].todo = stack[i].todo
          /\ s = "INT" => ~stack'[i].clean
          /\ s # "INT" => stack'[i] = stack[i]
    BY <2>5, <2>6
  <2>8. n \in Nat /\ DOMAIN stack = 1 .. n
    BY <1>1, LenProperties DEF TypeInv
  <2>9. /\ n > 0 /\ stack[1].of = "main" /\ MainTodo(stack[1].todo)
        /\ \A i \in 2 .. n : /\ stack[i].of \in Range(Caught)
                             /\ Range(stack[i].todo) \subseteq StepsOf(stack[i].of)
        /\ \A i, j \in 1 .. n : stack[i].of = stack[j].of => i = j
    BY <1>1 DEF FramesInv
  <2>10. \A i \in 1 .. n : stack[i].of # s
    BY <2>8 DEF Deliver, Active
  <2>11. /\ Exiting => ((\A i \in 1 .. n : stack[i].of # "INT") /\ calm => flag = 0)
         /\ Exiting => \A i \in 2 .. n : stack[i].of = "INT" =>
              /\ \/ stack[i].todo = Handler("INT") /\ (entry => flag = 0)
                 \/ Range(stack[i].todo) \subseteq Quiet
              /\ \A j \in 1 .. i - 1 : ~stack[j].clean
         /\ Exiting => \A i \in 2 .. n : stack[i].of # "INT" /\ stack[i].clean
                /\ "clear" \notin Range(stack[i].todo) => flag = 0
    BY <1>1, <1>2 DEF FlagInv
  <2> HIDE DEF n
  <2>12. /\ 1 \in 1 .. n /\ \A i \in 2 .. n + 1 : i \in 2 .. n \/ i = n + 1
         /\ \A i \in 1 .. n + 1 : i \in 1 .. n \/ i = n + 1
         /\ \A i \in 2 .. n : i \in 1 .. n /\ i \in 2 .. n + 1 /\ \A j \in 1 .. i - 1 : j \in 1 .. n
         /\ n + 1 \in 2 .. n + 1 /\ n + 1 \in 1 .. n + 1 /\ \A j \in 1 .. (n + 1) - 1 : j \in 1 .. n
         /\ \A i \in 1 .. n : i \in 1 .. n + 1
    BY <2>8, <2>9
  <2>13. TypeInv'
    <3>1. calm' \in BOOLEAN /\ entry' \in BOOLEAN
      BY <1>1, <2>1 DEF TypeInv
    <3> QED BY <1>1, <1>2, <1>3, <2>6, <3>1 DEF TypeInv
  <2>14. FramesInv'
    <3>1. stack'[1].of = "main" /\ stack'[1].todo = stack[1].todo
      BY <2>7, <2>9, <2>12
    <3>2. MainTodo(stack[1].todo)'
      BY <1>2, <2>9, <3>1 DEF MainTodo
    <3>3. \A i \in 2 .. n + 1 : /\ stack'[i].of \in Range(Caught)
                                /\ Range(stack'[i].todo) \subseteq StepsOf(stack'[i].of)
      BY <2>2, <2>3, <2>4, <2>6, <2>7, <2>9, <2>12
    <3>4. \A i, j \in 1 .. n + 1 : stack'[i].of = stack'[j].of => i = j
      BY <2>4, <2>6, <2>7, <2>9, <2>10, <2>12
    <3>5. n + 1 > 0
      BY <2>8
    <3>6. \A i \in 2 .. n + 1 : (stack[i].of \in Range(Caught)
                                 /\ Range(stack[i].todo) \subseteq StepsOf(stack[i].of))'
      BY <1>3, <3>3
    <3> QED BY <2>6, <3>1, <3>2, <3>4, <3>5, <3>6 DEF FramesInv
  <2>15. FlagInv'
    <3>1. Handler("INT")' = Handler("INT") /\ Exiting' = Exiting
      BY <1>2 DEF Handler, Exiting
    <3>2. SUFFICES ASSUME Exiting
                   PROVE  /\ (\A i \in 1 .. n + 1 : stack'[i].of # "INT") /\ calm' => flag = 0
                          /\ \A i \in 2 .. n + 1 : stack'[i].of = "INT" =>
                               /\ \/ stack'[i].todo = Handler("INT") /\ (entry' => flag = 0)
                                  \/ Range(stack'[i].todo) \subseteq Quiet
                               /\ \A j \in 1 .. i - 1 : ~stack'[j].clean
                          /\ \A i \in 2 .. n + 1 : stack'[i].of # "INT" /\ stack'[i].clean
                                 /\ "clear" \notin Range(stack'[i].todo) => flag = 0
      BY <1>2, <2>6, <3>1 DEF FlagInv
    <3>3. CASE s = "INT"
      <4>1. stack'[n + 1].of = "INT" /\ stack'[n + 1].todo = Handler("INT")
        BY <2>4, <2>6, <3>3
      <4>2. entry' => flag = 0
        BY <2>1, <2>10, <2>11, <3>2, <3>3
      <4>3. \A i \in 1 .. n : stack'[i].of # "INT" /\ ~stack'[i].clean
        BY <2>7, <2>10, <3>3
      <4> QED BY <2>12, <4>1, <4>2, <4>3
    <3>4. CASE s # "INT"
      <4>1. stack'[n + 1].of # "INT" /\ "clear" \in Range(stack'[n + 1].todo)
        BY <2>3, <2>4, <2>6, <3>2, <3>4
      <4>2. calm' = calm /\ entry' = entry /\ \A i \in 1 .. n : stack'[i] = stack[i]
        BY <2>1, <2>7, <3>4
      <4>3. (\A i \in 1 .. n + 1 : stack'[i].of # "INT") /\ calm' => flag = 0
        BY <2>11, <2>12, <3>2, <4>2
      <4>4. ASSUME NEW i \in 2 .. n + 1, stack'[i].of = "INT"
            PROVE  /\ \/ stack'[i].todo = Handler("INT") /\ (entry' => flag = 0)
                      \/ Range(stack'[i].todo) \subseteq Quiet
                   /\ \A j \in 1 .. i - 1 : ~stack'[j].clean
        <5>1. i \in 2 .. n
          BY <2>12, <4>1, <4>4
        <5> QED BY <2>11, <2>12, <3>2, <4>2, <4>4, <5>1
      <4>5. ASSUME NEW i \in 2 .. n + 1, stack'[i].of # "INT", stack'[i].clean,
                   "clear" \notin Range(stack'[i].todo)
            PROVE  flag = 0
        <5>1. i \in 2 .. n
          BY <2>12, <4>1, <4>5
        <5> QED BY <2>11, <2>12, <3>2, <4>2, <4>5, <5>1
      <4> QED BY <4>3, <4>4, <4>5
    <3> QED BY <3>3, <3>4
  <2>16. SilentInv'
    <3>1. Alarming' = Alarming /\ (Secure(stack[1].todo)' <=> Secure(stack'[1].todo))
      BY <1>2 DEF Alarming, Secure
    <3>2. SUFFICES ASSUME Alarming
                   PROVE  \/ alarmed \/ "ALRM" \in pending \ {s} \/ Secure(stack'[1].todo)
                          \/ \E i \in 2 .. n + 1 : "alarm" \in Range(stack'[i].todo)
      BY <1>2, <2>6, <3>1 DEF SilentInv
    <3>3. \/ alarmed \/ "ALRM" \in pending \/ Secure(stack[1].todo)
          \/ \E i \in 2 .. n : "alarm" \in Range(stack[i].todo)
      BY <1>1, <1>2, <3>2 DEF SilentInv, n
    <3>4. s = "ALRM" => "alarm" \in Range(stack'[n + 1].todo)
      BY <2>3, <2>4, <2>6, <3>2
    <3>5. stack'[1].todo = stack[1].todo /\ \A i \in 2 .. n : stack'[i].todo = stack[i].todo
      BY <2>7, <2>12
    <3> QED BY <2>12, <3>3, <3>4, <3>5
  <2> QED BY <2>1, <2>13, <2>14, <2>15, <2>16 DEF Inv, ExitNeedsTwo
<1> QED BY <1>4, <1>5

(* A handler that returns wakes the frame below if that slept: main() only. *)
LEMMA ReturnFrames ==
  ASSUME TypeInv, FramesInv, Return
  PROVE  /\ Len(stack) > 1 /\ stack' \in Seq(Frame) /\ Len(stack') = Len(stack) - 1
         /\ \A i \in 2 .. Len(stack) - 1 : stack'[i] = stack[i]
         /\ stack'[1].of = "main" /\ stack'[1].clean = stack[1].clean
         /\ \/ stack'[1].todo = stack[1].todo
            \/ /\ stack[1].todo # << >> /\ stack'[1].todo = Tail(stack[1].todo)
               /\ Head(stack[1].todo) \in {"asleep", "selecting"}
         /\ MainTodo(stack'[1].todo)
<1> DEFINE n == Len(stack)
           w == Waken(stack[n - 1])
<1>1. n \in Nat /\ n >= 1 /\ DOMAIN stack = 1 .. n /\ \A i \in 1 .. n : stack[i] \in Frame
  BY LenProperties, ElementOfSeq DEF TypeInv, FramesInv
<1>2. /\ stack[1].of = "main" /\ MainTodo(stack[1].todo)
      /\ \A i \in 2 .. n : Range(stack[i].todo) \subseteq StepsOf(stack[i].of)
  BY DEF FramesInv
<1>3. n > 1
  <2>1. stack[n].of # "main"
    BY DEF Return, Top
  <2> HIDE DEF n
  <2> QED BY <1>1, <1>2, <2>1
<1>4. /\ Front(stack) \in Seq(Frame) /\ Len(Front(stack)) = n - 1
      /\ \A i \in 1 .. n - 1 : Front(stack)[i] = stack[i]
  <2>1. 1 \in Int /\ n - 1 \in Int /\ (\A i \in 1 .. n - 1 : stack[i] \in Frame)
        /\ (1 <= n - 1) /\ (n - 1) - 1 + 1 = n - 1
    <3> HIDE DEF n
    <3> QED BY <1>1, <1>3
  <2>2. Front(stack) = SubSeq(stack, 1, n - 1)
    BY DEF Front
  <2> HIDE DEF n
  <2>3. /\ SubSeq(stack, 1, n - 1) \in Seq(Frame)
        /\ Len(SubSeq(stack, 1, n - 1)) = n - 1
        /\ \A i \in 1 .. n - 1 : SubSeq(stack, 1, n - 1)[i] = stack[1 + i - 1]
    BY <2>1, SubSeqProperties
  <2>4. \A i \in 1 .. n - 1 : 1 + i - 1 = i
    OBVIOUS
  <2> QED BY <2>2, <2>3, <2>4
<1>5. stack' = [Front(stack) EXCEPT ![n - 1] = Waken(Front(stack)[n - 1])]
  BY DEF Return
<1>6. /\ n - 1 \in 1 .. n - 1 /\ n - 1 \in 1 .. n /\ 1 \in 1 .. n - 1 /\ 1 \in 1 .. n
      /\ \A i \in 2 .. n - 1 : i \in 1 .. n - 1 /\ i \in 2 .. n
  <2> HIDE DEF n
  <2> QED BY <1>1, <1>3
<1>7. ASSUME NEW q \in Frame
      PROVE  /\ Waken(q) \in Frame /\ Waken(q).of = q.of /\ Waken(q).clean = q.clean
             /\ \/ Waken(q) = q
                \/ /\ q.todo # << >> /\ Head(q.todo) \in {"asleep", "selecting"}
                   /\ Waken(q).todo = Tail(q.todo)
  <2>1. q.todo \in Seq(Steps)
    BY DEF Frame
  <2>2. CASE Sleeping(q)
    <3>1. Waken(q) = [q EXCEPT !.todo = Tail(q.todo)] /\ q.todo # << >>
          /\ Head(q.todo) \in {"asleep", "selecting"}
      BY <2>2 DEF Waken, Sleeping
    <3>2. Tail(q.todo) \in Seq(Steps)
      BY <2>1, <3>1, TailRange
    <3> QED BY <3>1, <3>2 DEF Frame
  <2>3. CASE ~Sleeping(q)
    BY <2>3 DEF Waken
  <2> QED BY <2>2, <2>3
<1> HIDE DEF n
<1>8. w \in Frame /\ w = Waken(Front(stack)[n - 1])
  BY <1>1, <1>4, <1>6, <1>7
<1> HIDE DEF w
<1>9. /\ stack' \in Seq(Frame) /\ Len(stack') = n - 1
      /\ \A i \in 1 .. n - 1 : stack'[i] = IF i = n - 1 THEN w ELSE stack[i]
  <2>1. stack' = [Front(stack) EXCEPT ![n - 1] = w]
    BY <1>5, <1>8
  <2> QED BY <1>4, <1>6, <1>8, <2>1, ExceptSeq
<1>10. ASSUME NEW i \in 2 .. n - 1 PROVE stack'[i] = stack[i]
  <2>1. CASE i = n - 1
    <3>0. i \in 2 .. n /\ i \in 1 .. n /\ stack[i] \in Frame
      BY <1>1, <1>6
    <3>1. Range(stack[i].todo) \subseteq StepsOf(stack[i].of) /\ stack[i].todo \in Seq(Steps)
      BY <1>2, <3>0 DEF Frame
    <3>2. stack[i].todo # << >> => Head(stack[i].todo) \in StepsOf(stack[i].of)
      BY <3>1, TailRange
    <3>3. stack[i].todo # << >> => Head(stack[i].todo) \notin {"asleep", "selecting"}
      BY <3>2 DEF StepsOf, Quiet
    <3>4. Waken(stack[i]) = stack[i]
      BY <3>3 DEF Waken, Sleeping
    <3>5. w = stack[i]
      BY <2>1, <3>4 DEF w
    <3> QED BY <1>6, <1>9, <2>1, <3>5
  <2>2. CASE i # n - 1
    BY <1>6, <1>9, <2>2
  <2> QED BY <2>1, <2>2
<1>11. stack'[1] = stack[1] \/ stack'[1] = Waken(stack[1])
  <2>1. CASE 1 = n - 1
    <3>1. w = Waken(stack[1])
      BY <2>1 DEF w
    <3> QED BY <1>6, <1>9, <2>1, <3>1
  <2>2. CASE 1 # n - 1
    BY <1>6, <1>9, <2>2
  <2> QED BY <2>1, <2>2
<1>12. /\ stack'[1].of = "main" /\ stack'[1].clean = stack[1].clean
       /\ \/ stack'[1].todo = stack[1].todo
          \/ /\ stack[1].todo # << >> /\ stack'[1].todo = Tail(stack[1].todo)
             /\ Head(stack[1].todo) \in {"asleep", "selecting"}
  BY <1>1, <1>2, <1>6, <1>7, <1>11
<1>13. stack[1].todo # << >> => MainTodo(Tail(stack[1].todo))
  BY <1>2, MainIs DEF MainSteps, TypeInv
<1>14. MainTodo(stack'[1].todo)
  BY <1>2, <1>12, <1>13
<1> QED BY <1>3, <1>9, <1>10, <1>12, <1>14 DEF n

LEMMA ReturnInv == Inv /\ Return => Inv'
<1> SUFFICES ASSUME Inv, Return PROVE Inv'
  OBVIOUS
<1> DEFINE n == Len(stack)
<1>1. TypeInv /\ FramesInv /\ FlagInv /\ SilentInv /\ prog \in AllPrograms /\ n \in Nat
  BY LenProperties DEF Inv, TypeInv
<1>2. /\ prog' = prog /\ handled' = handled /\ alarmed' = alarmed /\ flag' = flag
      /\ ended = "no" /\ ended' = "no" /\ pending' = pending /\ entry' = entry
      /\ calm' = (IF stack[n].of = "INT" THEN FALSE ELSE calm \/ stack[n].clean)
      /\ stack[n].todo = << >>
  BY DEF Return, memory, Top
<1>3. Caught' = Caught /\ \A q : StepsOf(q)' = StepsOf(q)
  BY <1>2 DEF Caught, StepsOf, Exiting
<1>4. /\ n > 1 /\ stack' \in Seq(Frame) /\ Len(stack') = n - 1
      /\ \A i \in 2 .. n - 1 : stack'[i] = stack[i]
      /\ stack'[1].of = "main" /\ stack'[1].clean = stack[1].clean
      /\ \/ stack'[1].todo = stack[1].todo
         \/ /\ stack[1].todo # << >> /\ stack'[1].todo = Tail(stack[1].todo)
            /\ Head(stack[1].todo) \in {"asleep", "selecting"}
      /\ MainTodo(stack'[1].todo)
  BY <1>1, ReturnFrames
<1>5. /\ stack[1].of = "main" /\ MainTodo(stack[1].todo)
      /\ \A i \in 2 .. n : stack[i].of \in Range(Caught)
                           /\ Range(stack[i].todo) \subseteq StepsOf(stack[i].of)
      /\ \A i, j \in 1 .. n : stack[i].of = stack[j].of => i = j
  BY <1>1 DEF FramesInv
<1>6. /\ Exiting => ((\A i \in 1 .. n : stack[i].of # "INT") /\ calm => flag = 0)
      /\ Exiting => \A i \in 2 .. n : stack[i].of = "INT" =>
           /\ \/ stack[i].todo = Handler("INT") /\ (entry => flag = 0)
              \/ Range(stack[i].todo) \subseteq Quiet
           /\ \A j \in 1 .. i - 1 : ~stack[j].clean
      /\ Exiting => \A i \in 2 .. n : stack[i].of # "INT" /\ stack[i].clean
             /\ "clear" \notin Range(stack[i].todo) => flag = 0
  BY <1>1, <1>2 DEF FlagInv
<1>7. Alarming => \/ alarmed \/ "ALRM" \in pending \/ Secure(stack[1].todo)
                  \/ \E i \in 2 .. n : "alarm" \in Range(stack[i].todo)
  BY <1>1, <1>2 DEF SilentInv
<1>8. TypeInv'
  <2>1. stack \in Seq(Frame) /\ calm \in BOOLEAN
    BY <1>1 DEF TypeInv
  <2>2. stack[n] \in Frame
    <3>1. \A i \in 1 .. n : stack[i] \in Frame
      BY <2>1, ElementOfSeq
    <3> HIDE DEF n
    <3> QED BY <1>1, <1>4, <3>1
  <2>3. calm' \in BOOLEAN
    BY <1>2, <2>1, <2>2 DEF Frame
  <2> QED BY <1>1, <1>2, <1>3, <1>4, <2>3 DEF TypeInv
<1> HIDE DEF n
<1>9. /\ n - 1 > 0 /\ n \in 2 .. n /\ \A i \in 1 .. n : i = 1 \/ i = n \/ i \in 2 .. n - 1
      /\ \A i \in 1 .. n - 1 : i = 1 \/ i \in 2 .. n - 1
      /\ \A i \in 2 .. n - 1 : i \in 1 .. n /\ i \in 2 .. n /\ i \in 1 .. n - 1 /\ i # 1
      /\ 1 \in 1 .. n /\ \A i \in 2 .. n - 1 : \A j \in 1 .. i - 1 : j = 1 \/ j \in 2 .. n - 1
      /\ \A i \in 2 .. n : i = n \/ i \in 2 .. n - 1
      /\ \A i \in 1 .. n - 1 : i \in 1 .. n
  BY <1>1, <1>4
<1>10. \A i \in 1 .. n - 1 : stack'[i].of = stack[i].of /\ stack'[i].clean = stack[i].clean
  BY <1>4, <1>5, <1>9
<1>11. FramesInv'
  <2>1. MainTodo(stack[1].todo)'
    BY <1>2, <1>4 DEF MainTodo
  <2>2. \A i \in 2 .. n - 1 : (stack[i].of \in Range(Caught)
                               /\ Range(stack[i].todo) \subseteq StepsOf(stack[i].of))'
    BY <1>3, <1>4, <1>5, <1>9
  <2>3. \A i, j \in 1 .. n - 1 : stack'[i].of = stack'[j].of => i = j
    BY <1>5, <1>9, <1>10
  <2> QED BY <1>4, <1>9, <2>1, <2>2, <2>3 DEF FramesInv
<1>12. FlagInv'
  <2>1. Handler("INT")' = Handler("INT") /\ Exiting' = Exiting
    BY <1>2 DEF Handler, Exiting
  <2>2. SUFFICES ASSUME Exiting
                 PROVE  /\ (\A i \in 1 .. n - 1 : stack'[i].of # "INT") /\ calm' => flag = 0
                        /\ \A i \in 2 .. n - 1 : stack'[i].of = "INT" =>
                             /\ \/ stack'[i].todo = Handler("INT") /\ (entry' => flag = 0)
                                \/ Range(stack'[i].todo) \subseteq Quiet
                             /\ \A j \in 1 .. i - 1 : ~stack'[j].clean
                        /\ \A i \in 2 .. n - 1 : stack'[i].of # "INT" /\ stack'[i].clean
                               /\ "clear" \notin Range(stack'[i].todo) => flag = 0
    BY <1>2, <1>4, <2>1 DEF FlagInv
  <2>3. ASSUME \A i \in 1 .. n - 1 : stack'[i].of # "INT", calm' PROVE flag = 0
    <3>1. stack[n].of # "INT" /\ (calm \/ stack[n].clean)
      BY <1>2, <2>3
    <3>2. \A i \in 1 .. n : stack[i].of # "INT"
      BY <1>5, <1>9, <1>10, <2>3, <3>1
    <3>3. "clear" \notin Range(stack[n].todo)
      <4>1. "clear" \notin Range(<< >>)
        BY TupleRanges
      <4> QED BY <1>2, <4>1
    <3> QED BY <1>6, <1>9, <2>2, <3>1, <3>2, <3>3
  <2>4. ASSUME NEW i \in 2 .. n - 1, stack'[i].of = "INT"
        PROVE  /\ \/ stack'[i].todo = Handler("INT") /\ (entry' => flag = 0)
                  \/ Range(stack'[i].todo) \subseteq Quiet
               /\ \A j \in 1 .. i - 1 : ~stack'[j].clean
    <3>1. stack[i].of = "INT" /\ stack'[i] = stack[i]
      BY <1>4, <2>4
    <3>2. \A j \in 1 .. i - 1 : stack'[j].clean = stack[j].clean
      BY <1>4, <1>9
    <3> QED BY <1>2, <1>6, <1>9, <2>2, <3>1, <3>2
  <2>5. ASSUME NEW i \in 2 .. n - 1, stack'[i].of # "INT", stack'[i].clean,
               "clear" \notin Range(stack'[i].todo)
        PROVE  flag = 0
    BY <1>4, <1>6, <1>9, <2>2, <2>5
  <2> QED BY <2>3, <2>4, <2>5
<1>13. SilentInv'
  <2>1. Alarming' = Alarming /\ (Secure(stack[1].todo)' <=> Secure(stack'[1].todo))
    BY <1>2 DEF Alarming, Secure
  <2>2. SUFFICES ASSUME Alarming
                 PROVE  \/ alarmed \/ "ALRM" \in pending \/ Secure(stack'[1].todo)
                        \/ \E i \in 2 .. n - 1 : "alarm" \in Range(stack'[i].todo)
    BY <1>2, <1>4, <2>1 DEF SilentInv
  <2>3. CASE Secure(stack[1].todo)
    <3>1. stack'[1].todo = stack[1].todo
      BY <1>1, <1>4, <1>5, <2>2, <2>3, MainSecure
    <3> QED BY <2>3, <3>1
  <2>4. ASSUME NEW i \in 2 .. n, "alarm" \in Range(stack[i].todo)
        PROVE  \E j \in 2 .. n - 1 : "alarm" \in Range(stack'[j].todo)
    <3>1. i # n
      <4>1. "alarm" \notin Range(<< >>)
        BY TupleRanges
      <4> QED BY <1>2, <2>4, <4>1
    <3>2. i \in 2 .. n - 1 /\ stack'[i] = stack[i]
      BY <1>4, <1>9, <3>1
    <3> QED BY <2>4, <3>2
  <2> QED BY <1>7, <2>2, <2>3, <2>4
<1> QED BY <1>2, <1>8, <1>11, <1>12, <1>13 DEF Inv, ExitNeedsTwo

-----------------------------------------------------------------------------
(* The invariant *)

LEMMA OutsideInv ==
  ASSUME Inv, Tick \/ (\E s \in Sendable : Send(s)) \/ UNCHANGED vars
  PROVE  Inv'
<1>1. /\ prog' = prog /\ stack' = stack /\ handled' = handled /\ flag' = flag
      /\ ended' = ended /\ calm' = calm /\ entry' = entry
  BY DEF Tick, Send, vars, memory, history
<1>2. /\ pending \subseteq pending' /\ pending' \subseteq Signs /\ alarmed' \in BOOLEAN
      /\ alarmed => alarmed' \/ "ALRM" \in pending'
  <2>1. Sendable \subseteq Signs /\ pending \subseteq Signs /\ alarmed \in BOOLEAN
    BY DEF Sendable, Signs, Inv, TypeInv, AllPrograms
  <2> QED BY <2>1 DEF Tick, Send, vars, Signs
<1>3. Caught' = Caught /\ Handler("INT")' = Handler("INT") /\ \A s : StepsOf(s)' = StepsOf(s)
  BY <1>1 DEF Caught, Handler, StepsOf, Exiting
<1>4. TypeInv'
  BY <1>1, <1>2, <1>3 DEF Inv, TypeInv
<1>5. FramesInv'
  <2>1. MainTodo(stack[1].todo)' <=> MainTodo(stack[1].todo)
    BY <1>1 DEF MainTodo
  <2> QED BY <1>1, <1>3, <2>1 DEF Inv, FramesInv
<1>6. FlagInv'
  BY <1>1, <1>3 DEF Inv, FlagInv, Exiting
<1>7. SilentInv'
  BY <1>1, <1>2 DEF Inv, SilentInv, Secure, Alarming
<1>8. ExitNeedsTwo'
  BY <1>1 DEF Inv, ExitNeedsTwo
<1> QED BY <1>4, <1>5, <1>6, <1>7, <1>8 DEF Inv

LEMMA MainStarts ==
  ASSUME prog \in AllPrograms
  PROVE  Main \in Seq(Steps) /\ MainTodo(Main) /\ (Alarming => Secure(Main))
<1>1. CASE prog \in {"5_20", "5_21", "5_23", "6_10"}
  <2>1. /\ prog \in {"5_20", "6_10"} => Caught = <<"INT">>
        /\ prog = "5_21" => Caught = <<"INT", "USR1">>
        /\ prog = "5_23" => Caught = <<"ALRM", "INT">>
    BY DEF Caught
  <2>2. /\ <<"INT">> \in Seq(Steps) /\ <<"INT", "USR1">> \in Seq(Steps)
        /\ <<"ALRM", "INT">> \in Seq(Steps)
    BY InSteps, ScriptTypes
  <2>3. Caught \in Seq(Steps)
    BY <1>1, <2>1, <2>2
  <2>4. Main = Caught
    <3>1. Main = Caught \o << >>
      BY <1>1 DEF Main
    <3> QED BY <2>3, <3>1, ConcatEmptySeq
  <2>5. MainTodo(Caught)
    BY <1>1, <2>1 DEF MainTodo
  <2>6. Alarming => Secure(Caught)
    <3>1. "ALRM" \in Range(<<"ALRM", "INT">>) /\ "ALRM" \in Signs
      BY TupleRanges DEF Signs
    <3> QED BY <1>1, <2>1, <3>1 DEF Secure, Alarming
  <2> QED BY <2>3, <2>4, <2>5, <2>6
<1>2. CASE prog = "5_22"
  <2>1. Main = <<"INT", "QUIT", "ALRM">> \o <<"alarm">>
    BY <1>2 DEF Main, Caught
  <2>2. Main = <<"INT", "QUIT", "ALRM", "alarm">>
    BY <2>1, AppendConcat
  <2>3. <<"INT", "QUIT", "ALRM", "alarm">> \in Seq(Steps)
        /\ "alarm" \in Range(<<"INT", "QUIT", "ALRM", "alarm">>)
    BY InSteps, ScriptTypes, TupleRanges
  <2> QED BY <1>2, <2>2, <2>3 DEF MainTodo, Secure
<1>3. CASE prog = "5_37"
  <2>1. Main = <<"USR1", "ALRM">> \o <<"alarm">>
    BY <1>3 DEF Main, Caught
  <2>2. Main = <<"USR1", "ALRM", "alarm">>
    BY <2>1, AppendConcat
  <2>3. <<"USR1", "ALRM", "alarm">> \in Seq(Steps)
        /\ "alarm" \in Range(<<"USR1", "ALRM", "alarm">>)
    BY InSteps, ScriptTypes, TupleRanges
  <2> QED BY <1>3, <2>2, <2>3 DEF MainTodo, Secure
<1> QED BY <1>1, <1>2, <1>3 DEF AllPrograms

LEMMA InitInv == Init => Inv
<1> SUFFICES ASSUME Init PROVE Inv
  OBVIOUS
<1> DEFINE q == [of |-> "main", todo |-> Main, clean |-> TRUE]
<1>1. /\ prog \in AllPrograms /\ stack = <<q>> /\ handled = {} /\ pending = {}
      /\ alarmed = FALSE /\ flag = 0 /\ ended = "no" /\ calm = TRUE /\ entry = TRUE
  BY ProgramAssumption DEF Init, AllPrograms
<1>2. Main \in Seq(Steps) /\ MainTodo(Main) /\ (Alarming => Secure(Main))
  BY <1>1, MainStarts
<1>3. q \in Frame /\ q.of = "main" /\ q.todo = Main
  BY <1>2 DEF Frame
<1> HIDE DEF q
<1>4. stack \in Seq(Frame) /\ Len(stack) = 1 /\ stack[1] = q
  BY <1>1, <1>3
<1>5. TypeInv
  BY <1>1, <1>4 DEF TypeInv
<1>6. FramesInv
  BY <1>2, <1>3, <1>4 DEF FramesInv
<1>7. FlagInv
  BY <1>1, <1>4 DEF FlagInv
<1>8. SilentInv
  BY <1>2, <1>3, <1>4 DEF SilentInv
<1>9. ExitNeedsTwo
  BY <1>1 DEF ExitNeedsTwo
<1> QED BY <1>5, <1>6, <1>7, <1>8, <1>9 DEF Inv

LEMMA InvHolds == Spec => []Inv
<1>1. Inv /\ [Next]_vars => Inv'
  <2> SUFFICES ASSUME Inv, [Next]_vars PROVE Inv'
    OBVIOUS
  <2>1. CASE Run
    BY <2>1, CatchInv, AlarmInv, SetInv, TestInv, ClearInv, CountersInv, TurnsInv, ReturnInv,
       DeliverInv DEF Run
  <2>2. CASE Input
    BY <2>2, TurnsInv DEF Input
  <2>3. CASE Tick \/ (\E s \in Sendable : Send(s)) \/ UNCHANGED vars
    BY <2>3, OutsideInv
  <2> QED BY <2>1, <2>2, <2>3 DEF Next
<1> QED BY <1>1, InitInv, PTL DEF Spec

(* However the handlers of 5_22, 5_23 and 5_37 interrupt each other and     *)
(* main(), after the start an alarm is set, has just gone off, or is about  *)
(* to be set by a frame that was interrupted: the programs never fall       *)
(* silent, whatever the number of signals, reads and timeouts.              *)
THEOREM AlarmsGoOn == Spec => []NeverSilent
<1>1. Inv => NeverSilent
  BY SilentIs DEF Inv
<1> QED BY <1>1, InvHolds, PTL

(* Ctrl-C ends 5_22, 5_23 and 6_10 only when it comes twice: never when,    *)
(* since the previous handler of SIGINT ended, the flag was cleared by      *)
(* main() or by another handler that ran from beginning to end.             *)
THEOREM CtrlCTwice == Spec => []ExitNeedsTwo
<1>1. Inv => ExitNeedsTwo
  BY DEF Inv
<1> QED BY <1>1, InvHolds, PTL
-----------------------------------------------------------------------------
(***************************************************************************)
(* The counters of 5_23 and 6_10.  What main() has left to do tells which  *)
(* of them the last read is missing from.                                  *)
(***************************************************************************)

Counting == prog \in {"5_23", "6_10"}
LineLeft == "strs" \in Range(stack[1].todo)
CharsLeft == "chrs" \in Range(stack[1].todo)

Counted ==
  /\ reads \in Seq(Nat)
  /\ LineLeft \/ CharsLeft => Len(reads) > 0
  /\ prog = "5_23" => /\ LineLeft => reads[Len(reads)] = 0
                      /\ CharsLeft => reads[Len(reads)] # 0
  /\ strs = LinesIn(IF LineLeft THEN Len(reads) - 1 ELSE Len(reads))
  /\ chrs = CharsIn(IF CharsLeft THEN Len(reads) - 1 ELSE Len(reads))
  /\ \A c \in shown : c[3] \in 0 .. Len(reads)
CountInv == (Counting => Counted) /\ ShownCountsAreTrue

(* The sums over the first k reads. *)
Zeros(r, k) == Cardinality({i \in 1 .. k : r[i] = 0})
CharsOf(r, k) == SeqTotal(SubSeq(r, 1, k))

LEMMA PartOfReads ==
  ASSUME NEW r \in Seq(Nat), NEW k \in 0 .. Len(r)
  PROVE  /\ SubSeq(r, 1, k) \in [1 .. k -> Int]
         /\ \A i \in 1 .. k : SubSeq(r, 1, k)[i] = r[i]
<1>1. Len(r) \in Nat /\ \A i \in 1 .. Len(r) : r[i] \in Nat
  BY LenProperties, ElementOfSeq
<1>2. 1 \in Int /\ k \in Int /\ \A i \in 1 .. k : r[i] \in Nat
  BY <1>1
<1> DEFINE s == SubSeq(r, 1, k)
<1>3. /\ s \in Seq(Nat) /\ Len(s) = IF 1 <= k THEN k - 1 + 1 ELSE 0
      /\ \A i \in 1 .. k - 1 + 1 : s[i] = r[1 + i - 1]
  BY <1>2, SubSeqProperties
<1> HIDE DEF s
<1>4. Len(s) = k /\ \A i \in 1 .. k : s[i] = r[i]
  BY <1>1, <1>3
<1>5. s \in [1 .. k -> Nat]
  BY <1>3, <1>4, LenProperties
<1> QED BY <1>4, <1>5 DEF s

LEMMA CountNone ==
  ASSUME NEW r \in Seq(Nat)
  PROVE  Zeros(r, 0) = 0 /\ CharsOf(r, 0) = 0
<1>1. Len(r) \in Nat
  BY LenProperties
<1>2. SubSeq(r, 1, 0) \in [1 .. 0 -> Int]
  BY <1>1, PartOfReads
<1>3. CharsOf(r, 0) = 0
  BY <1>2, TotalNone DEF CharsOf
<1>4. {i \in 1 .. 0 : r[i] = 0} = {}
  OBVIOUS
<1> QED BY <1>3, <1>4, FS_EmptySet DEF Zeros

LEMMA CountOne ==
  ASSUME NEW r \in Seq(Nat), NEW k \in Nat, k < Len(r)
  PROVE  /\ Zeros(r, k) \in Nat /\ CharsOf(r, k) \in Int
         /\ Zeros(r, k + 1) = IF r[k + 1] = 0 THEN Zeros(r, k) + 1 ELSE Zeros(r, k)
         /\ CharsOf(r, k + 1) = CharsOf(r, k) + r[k + 1]
<1>1. Len(r) \in Nat
  BY LenProperties
<1> DEFINE s == SubSeq(r, 1, k)
           t == SubSeq(r, 1, k + 1)
<1>2. /\ s \in [1 .. k -> Int] /\ t \in [1 .. k + 1 -> Int]
      /\ \A i \in 1 .. k : s[i] = r[i]
      /\ \A i \in 1 .. k + 1 : t[i] = r[i]
  <2>1. k \in 0 .. Len(r) /\ k + 1 \in 0 .. Len(r)
    BY <1>1
  <2> QED BY <2>1, PartOfReads
<1> HIDE DEF s, t
<1>3. t[k + 1] = r[k + 1] /\ \A i \in 1 .. k : t[i] = s[i]
  BY <1>2, SMTT(30)
<1>4. SeqTotal(s) \in Int /\ SeqTotal(t) = SeqTotal(s) + t[k + 1]
  BY <1>2, <1>3, TotalMore
<1> DEFINE Z(n) == {i \in 1 .. n : r[i] = 0}
<1>5. IsFiniteSet(Z(k)) /\ Cardinality(Z(k)) \in Nat
  <2>1. IsFiniteSet(1 .. k) /\ Z(k) \in SUBSET (1 .. k)
    BY FS_Interval
  <2>2. IsFiniteSet(Z(k))
    BY <2>1, FS_Subset
  <2> QED BY <2>2, FS_CardinalityType
<1>6. k + 1 \notin Z(k) /\ Z(k + 1) = IF r[k + 1] = 0 THEN Z(k) \union {k + 1} ELSE Z(k)
  OBVIOUS
<1> HIDE DEF Z
<1>7. Cardinality(Z(k) \union {k + 1}) = Cardinality(Z(k)) + 1
  BY <1>5, <1>6, FS_AddElement
<1>8. Zeros(r, k) = Cardinality(Z(k)) /\ Zeros(r, k + 1) = Cardinality(Z(k + 1))
  BY DEF Zeros, Z
<1> QED BY <1>3, <1>4, <1>5, <1>6, <1>7, <1>8 DEF CharsOf, s, t

LEMMA CountSame ==
  ASSUME NEW r \in Seq(Nat), NEW q \in Seq(Nat), NEW k \in Nat, k <= Len(r), k <= Len(q),
         \A i \in 1 .. k : q[i] = r[i]
  PROVE  Zeros(q, k) = Zeros(r, k) /\ CharsOf(q, k) = CharsOf(r, k)
<1>1. Len(r) \in Nat /\ Len(q) \in Nat
  BY LenProperties
<1>2. {i \in 1 .. k : q[i] = 0} = {i \in 1 .. k : r[i] = 0}
  OBVIOUS
<1>3. /\ SubSeq(r, 1, k) \in [1 .. k -> Int] /\ SubSeq(q, 1, k) \in [1 .. k -> Int]
      /\ \A i \in 1 .. k : SubSeq(r, 1, k)[i] = SubSeq(q, 1, k)[i]
  BY <1>1, PartOfReads
<1>4. SubSeq(r, 1, k) = SubSeq(q, 1, k)
  BY <1>3
<1> QED BY <1>2, <1>4 DEF Zeros, CharsOf

LEMMA LengthIs ==
  ASSUME NEW s
  PROVE  TotalLength(s) = SeqTotal(s)
BY DEF TotalLength, SeqTotal

LEMMA SumsAre ==
  ASSUME NEW k
  PROVE  /\ LinesIn(k) = IF prog = "6_10" THEN k ELSE Zeros(reads, k)
         /\ CharsIn(k) = CharsOf(reads, k)
<1>1. LinesIn(k) = IF prog = "6_10" THEN k ELSE Zeros(reads, k)
  BY DEF LinesIn, Zeros
<1>2. CharsIn(k) = CharsOf(reads, k)
  BY LengthIs DEF CharsIn, CharsOf
<1> QED BY <1>1, <1>2

LEMMA NextSumsAre ==
  ASSUME NEW k
  PROVE  /\ LinesIn(k)' = IF prog' = "6_10" THEN k ELSE Zeros(reads', k)
         /\ CharsIn(k)' = CharsOf(reads', k)
<1>1. LinesIn(k)' = IF prog' = "6_10" THEN k ELSE Zeros(reads', k)
  BY DEF LinesIn, Zeros
<1>2. CharsIn(k)' = TotalLength(SubSeq(reads', 1, k))
  BY DEF CharsIn
<1>3. CharsIn(k)' = CharsOf(reads', k)
  BY <1>2, LengthIs DEF CharsOf
<1> QED BY <1>1, <1>3

-----------------------------------------------------------------------------
(* What a script of main() tells about the counters. *)
Tells(t) ==
  /\ prog = "6_10" /\ "strs" \in Range(t) => "chrs" \in Range(t)
  /\ t # << >> =>
       /\ Head(t) = "strs" => "strs" \in Range(t) /\ "strs" \notin Range(Tail(t))
                              /\ ("chrs" \in Range(Tail(t)) <=> "chrs" \in Range(t))
       /\ Head(t) = "chrs" => "chrs" \in Range(t) /\ "chrs" \notin Range(Tail(t))
                              /\ "strs" \notin Range(t) /\ "strs" \notin Range(Tail(t))
       /\ Head(t) \in {"read", "select", "selecting"} =>
            "strs" \notin Range(t) /\ "chrs" \notin Range(t)
            /\ "strs" \notin Range(Tail(t)) /\ "chrs" \notin Range(Tail(t))
       /\ Head(t) \notin {"strs", "chrs"} =>
            /\ "strs" \in Range(Tail(t)) <=> "strs" \in Range(t)
            /\ "chrs" \in Range(Tail(t)) <=> "chrs" \in Range(t)
       /\ Head(t) \notin {"pause", "while", "if", "count", "show"}
       /\ Head(t) = "read" => prog = "5_23"
       /\ Head(t) \in {"select", "selecting"} => prog = "6_10"
  /\ t \in {<< >>, Turn} => "strs" \notin Range(t) /\ "chrs" \notin Range(t)

LEMMA TellsAll ==
  ASSUME Counting, NEW t, MainTodo(t) \/ t = Turn
  PROVE  Tells(t)
<1>1. prog = "5_23" => Turn = <<"alarm", "read">>
  BY DEF Turn
<1>2. prog = "6_10" => Turn = <<"select">>
  BY DEF Turn
<1>3. CASE t = << >>
  BY <1>3, TupleRanges DEF Tells
<1>4. ASSUME NEW a \in {"INT", "read", "strs", "chrs", "selecting", "write", "select"}, t = <<a>>
      PROVE  Head(t) = a /\ Tail(t) = << >> /\ Range(t) = {a} /\ Range(Tail(t)) = {}
  BY <1>4, Tuples, TupleRanges
<1>5. ASSUME NEW a \in {"ALRM", "clear", "strs", "alarm"}, NEW b \in {"INT", "strs", "chrs", "write", "read"},
             t = <<a, b>>
      PROVE  Head(t) = a /\ Tail(t) = <<b>> /\ Range(t) = {a, b} /\ Range(Tail(t)) = {b}
  BY <1>5, Tuples, TupleRanges
<1>6. t = <<"clear", "strs", "chrs">> =>
        /\ Head(t) = "clear" /\ Range(t) = {"clear", "strs", "chrs"}
        /\ Range(Tail(t)) = {"strs", "chrs"}
  BY Tuples, TupleRanges
<1>7. CASE prog = "5_23" /\ t # << >>
  <2>1. t \in {<<"ALRM", "INT">>, <<"INT">>, <<"read">>, <<"clear", "strs">>, <<"clear", "chrs">>,
               <<"strs">>, <<"chrs">>, <<"alarm", "read">>}
    BY <1>1, <1>7 DEF MainTodo
  <2>2. CASE t \in {<<"INT">>, <<"read">>, <<"strs">>, <<"chrs">>}
    <3>1. PICK a \in {"INT", "read", "strs", "chrs"} : t = <<a>>
      BY <2>2
    <3>2. Head(t) = a /\ Tail(t) = << >> /\ Range(t) = {a} /\ Range(Tail(t)) = {}
      BY <1>4, <3>1
    <3>3. t # Turn
      BY <1>1, <1>7, <3>1, <3>2, Tuples
    <3> QED BY <1>7, <3>1, <3>2, <3>3 DEF Tells
  <2>3. CASE t \in {<<"ALRM", "INT">>, <<"clear", "strs">>, <<"clear", "chrs">>, <<"alarm", "read">>}
    <3>1. PICK a \in {"ALRM", "clear", "alarm"}, b \in {"INT", "strs", "chrs", "read"} :
            t = <<a, b>> /\ (b = "read" <=> a = "alarm")
      BY <2>3
    <3>2. Head(t) = a /\ Tail(t) = <<b>> /\ Range(t) = {a, b} /\ Range(Tail(t)) = {b}
      BY <1>5, <3>1
    <3>3. t = Turn => b = "read"
      BY <1>1, <1>7, <3>1, <3>2, Tuples
    <3> QED BY <1>7, <3>1, <3>2, <3>3 DEF Tells
  <2> QED BY <2>1, <2>2, <2>3
<1>8. CASE prog = "6_10" /\ t # << >>
  <2>1. t \in {<<"INT">>, <<"selecting">>, <<"clear", "strs", "chrs">>, <<"strs", "chrs">>,
               <<"chrs">>, <<"clear", "write">>, <<"write">>, <<"select">>}
    BY <1>2, <1>8 DEF MainTodo
  <2>2. CASE t \in {<<"INT">>, <<"selecting">>, <<"chrs">>, <<"write">>, <<"select">>}
    <3>1. PICK a \in {"INT", "selecting", "chrs", "write", "select"} : t = <<a>>
      BY <2>2
    <3>2. Head(t) = a /\ Tail(t) = << >> /\ Range(t) = {a} /\ Range(Tail(t)) = {}
      BY <1>4, <3>1
    <3>3. t = Turn => a = "select"
      BY <1>2, <1>8, <3>1, <3>2, Tuples
    <3> QED BY <1>8, <3>1, <3>2, <3>3 DEF Tells
  <2>3. CASE t \in {<<"strs", "chrs">>, <<"clear", "write">>}
    <3>1. PICK a \in {"strs", "clear"}, b \in {"chrs", "write"} :
            t = <<a, b>> /\ (b = "chrs" <=> a = "strs")
      BY <2>3
    <3>2. Head(t) = a /\ Tail(t) = <<b>> /\ Range(t) = {a, b} /\ Range(Tail(t)) = {b}
      BY <1>5, <3>1
    <3>3. t # Turn
      BY <1>2, <1>8, <3>1, <3>2, Tuples
    <3> QED BY <1>8, <3>1, <3>2, <3>3 DEF Tells
  <2>4. CASE t = <<"clear", "strs", "chrs">>
    <3>1. t # Turn
      BY <1>2, <1>6, <1>8, <2>4, Tuples
    <3> QED BY <1>6, <1>8, <2>4, <3>1 DEF Tells
  <2> QED BY <2>1, <2>2, <2>3, <2>4
<1> QED BY <1>3, <1>7, <1>8 DEF Counting

-----------------------------------------------------------------------------
(* What a shown pair may be; and that it would be that if shown now. *)
TrueAt(c) ==
  LET k == c[3]
      before == IF k = 0 THEN 0 ELSE k - 1
  IN  /\ <<c[1], c[2]>> \in {LinesIn(before), LinesIn(k)} \X {CharsIn(before), CharsIn(k)}
      /\ c[1] < LinesIn(k) => c[2] = CharsIn(before)

LEMMA TrueIs == ShownCountsAreTrue <=> (Counting => \A c \in shown : TrueAt(c))
BY DEF ShownCountsAreTrue, Counting, TrueAt

LEMMA MainTells ==
  ASSUME TypeInv, FramesInv, Counting
  PROVE  Tells(stack[1].todo)
BY TellsAll DEF FramesInv

LEMMA NowIsTrue ==
  ASSUME TypeInv, FramesInv, Counting, Counted
  PROVE  TrueAt(<<strs, chrs, Len(reads)>>)
<1> DEFINE k == Len(reads)
           c == <<strs, chrs, k>>
<1>1. reads \in Seq(Nat) /\ k \in Nat
  BY LenProperties DEF Counted
<1>2. c[1] = strs /\ c[2] = chrs /\ c[3] = k
  OBVIOUS
<1>3. prog = "6_10" /\ LineLeft => CharsLeft
  BY MainTells DEF Tells, LineLeft, CharsLeft
<1>4. /\ LineLeft \/ CharsLeft => k > 0
      /\ prog = "5_23" => (LineLeft => reads[k] = 0) /\ (CharsLeft => reads[k] # 0)
      /\ strs = LinesIn(IF LineLeft THEN k - 1 ELSE k)
      /\ chrs = CharsIn(IF CharsLeft THEN k - 1 ELSE k)
  BY DEF Counted
<1> HIDE DEF k
<1>5. CASE k = 0
  <2>1. LinesIn(0) = 0
    BY <1>1, CountNone, SumsAre
  <2>2. strs = LinesIn(0) /\ chrs = CharsIn(0)
    BY <1>4, <1>5
  <2>3. ~(strs < LinesIn(0))
    BY <2>1, <2>2
  <2> QED BY <1>2, <1>5, <2>2, <2>3 DEF TrueAt, k
<1>6. CASE k # 0
  <2> DEFINE b == k - 1
  <2>1. b \in Nat /\ b + 1 = k /\ b < Len(reads)
    BY <1>1, <1>6 DEF k
  <2> HIDE DEF b
  <2>2. /\ Zeros(reads, b) \in Nat
        /\ Zeros(reads, k) = IF reads[k] = 0 THEN Zeros(reads, b) + 1 ELSE Zeros(reads, b)
        /\ CharsOf(reads, b) \in Int
        /\ CharsOf(reads, k) = CharsOf(reads, b) + reads[k]
    BY <1>1, <2>1, CountOne
  <2>3. LinesIn(k) \in Nat /\ CharsIn(k) = CharsIn(b) + reads[k] /\ CharsIn(b) \in Int
    BY <1>1, <2>2, SumsAre
  <2>4. /\ strs = LinesIn(IF LineLeft THEN b ELSE k)
        /\ chrs = CharsIn(IF CharsLeft THEN b ELSE k)
    BY <1>4 DEF b
  <2>5. CASE LineLeft
    <3>1. chrs = CharsIn(b)
      <4>1. CASE prog = "6_10"
        BY <1>3, <2>4, <2>5, <4>1
      <4>2. CASE prog = "5_23"
        <5>1. reads[k] = 0 /\ ~CharsLeft
          BY <1>4, <2>5, <4>2
        <5> QED BY <2>3, <2>4, <5>1
      <4> QED BY <4>1, <4>2 DEF Counting
    <3> QED BY <1>2, <1>6, <2>4, <2>5, <3>1 DEF TrueAt, b, k
  <2>6. CASE ~LineLeft
    <3>1. strs = LinesIn(k) /\ ~(strs < LinesIn(k))
      BY <2>3, <2>4, <2>6
    <3> QED BY <1>2, <1>6, <2>4, <3>1 DEF TrueAt, b, k
  <2> QED BY <2>5, <2>6
<1> QED BY <1>5, <1>6

LEMMA NotCounting ==
  ASSUME ~Counting, prog' = prog
  PROVE  CountInv'
BY DEF CountInv, Counting, ShownCountsAreTrue

(* A step that does not count, read or change what is left to count. *)
LEMMA CountKept ==
  ASSUME TypeInv, FramesInv, CountInv, Counting, UNCHANGED <<prog, strs, chrs, reads>>,
         LineLeft' = LineLeft, CharsLeft' = CharsLeft,
         shown' \in SUBSET (shown \union {<<strs, chrs, Len(reads)>>})
  PROVE  CountInv'
<1>1. Counted /\ \A c \in shown : TrueAt(c)
  BY TrueIs DEF CountInv
<1>2. /\ \A k : LinesIn(k)' = LinesIn(k) /\ CharsIn(k)' = CharsIn(k)
      /\ \A c : TrueAt(c)' <=> TrueAt(c)
  <2>1. \A k : LinesIn(k)' = LinesIn(k) /\ CharsIn(k)' = CharsIn(k)
    BY SumsAre, NextSumsAre
  <2> QED BY <2>1 DEF TrueAt
<1>3. \A c \in shown' : TrueAt(c)'
  BY <1>1, <1>2, NowIsTrue
<1>4. Len(reads) \in Nat /\ <<strs, chrs, Len(reads)>>[3] = Len(reads)
  BY <1>1, LenProperties DEF Counted
<1>5. \A c \in shown' : c[3] \in 0 .. Len(reads)
  BY <1>1, <1>4 DEF Counted
<1>6. Counted'
  BY <1>1, <1>2, <1>5 DEF Counted
<1> QED BY <1>3, <1>6 DEF CountInv, ShownCountsAreTrue, TrueAt

(* A step of main() or a handler that does not count or read. *)
LEMMA LeftKept ==
  ASSUME TypeInv, FramesInv, Counting, NEW x, NEW t, Step(x, t), x \notin {"strs", "chrs"},
         \/ t = Tail(Todo)
         \/ x \in {"select", "selecting"} /\ t \in {<<"selecting">>, <<"clear", "write">>}
         \/ x \in {"pause", "while", "if"}
  PROVE  LineLeft' = LineLeft /\ CharsLeft' = CharsLeft
<1>1. /\ Len(stack) \in Nat /\ Todo # << >> /\ x = Head(Todo)
      /\ Len(stack) = 1 \/ Len(stack) > 1
      /\ Len(stack) = 1 => Todo = stack[1].todo \/ (stack[1].todo = << >> /\ Todo = Turn)
  BY TopIs DEF Step, At, Top
<1>2. /\ \A i \in 1 .. Len(stack) - 1 : stack'[i] = stack[i]
      /\ stack'[Len(stack)].todo = t
  BY StepFrames
<1>3. CASE Len(stack) > 1
  <2>1. 1 \in 1 .. Len(stack) - 1
    BY <1>1, <1>3
  <2> QED BY <1>2, <2>1 DEF LineLeft, CharsLeft
<1>4. CASE Len(stack) = 1
  <2>1. Tells(Todo) /\ Tells(stack[1].todo)
    BY <1>1, <1>4, MainTells, TellsAll DEF FramesInv
  <2>2. /\ "strs" \in Range(Todo) <=> "strs" \in Range(stack[1].todo)
        /\ "chrs" \in Range(Todo) <=> "chrs" \in Range(stack[1].todo)
    BY <1>1, <1>4, <2>1 DEF Tells
  <2>3. /\ "strs" \in Range(t) <=> "strs" \in Range(Todo)
        /\ "chrs" \in Range(t) <=> "chrs" \in Range(Todo)
    <3>1. CASE t = Tail(Todo)
      BY <1>1, <2>1, <3>1 DEF Tells
    <3>2. CASE x \in {"select", "selecting"} /\ t \in {<<"selecting">>, <<"clear", "write">>}
      <4>1. "strs" \notin Range(t) /\ "chrs" \notin Range(t)
        BY <3>2, TupleRanges
      <4> QED BY <1>1, <2>1, <3>2, <4>1 DEF Tells
    <3>3. CASE x \in {"pause", "while", "if"}
      BY <1>1, <2>1, <3>3 DEF Tells
    <3> QED BY <3>1, <3>2, <3>3
  <2>4. stack'[1].todo = t
    BY <1>2, <1>4
  <2>5. LineLeft' <=> LineLeft
    BY <2>2, <2>3, <2>4 DEF LineLeft
  <2>6. CharsLeft' <=> CharsLeft
    BY <2>2, <2>3, <2>4 DEF CharsLeft
  <2>7. LineLeft \in BOOLEAN /\ LineLeft' \in BOOLEAN /\ CharsLeft \in BOOLEAN /\ CharsLeft' \in BOOLEAN
    BY DEF LineLeft, CharsLeft
  <2> QED BY <2>5, <2>6, <2>7
<1> QED BY <1>1, <1>3, <1>4

(* Only main() reads and counts; what it does then is in its script. *)
LEMMA MainCounts ==
  ASSUME TypeInv, FramesInv, Counting, NEW x \in {"strs", "chrs"}, NEW t, Step(x, t)
  PROVE  /\ Len(stack) = 1 /\ Todo = stack[1].todo /\ Todo # << >> /\ Head(Todo) = x
         /\ Tells(Todo) /\ stack'[1].todo = t
<1>1. Todo # << >> /\ x = Head(Todo)
  BY DEF Step, At
<1>2. Len(stack) = 1
  BY <1>1, TopIs DEF StepsOf, Quiet
<1>3. /\ Todo = stack[1].todo \/ (stack[1].todo = << >> /\ Todo = Turn)
      /\ MainTodo(stack[1].todo)
  BY <1>1, <1>2, TopIs DEF Top, FramesInv
<1>4. Tells(Todo)
  BY <1>3, TellsAll
<1>5. Todo # Turn
  BY <1>1, <1>4 DEF Tells
<1>6. stack'[1].todo = t
  BY <1>2, StepFrames
<1> QED BY <1>1, <1>2, <1>3, <1>4, <1>5, <1>6

LEMMA LineCounted ==
  ASSUME TypeInv, FramesInv, CountInv, Counting, CountLine
  PROVE  CountInv'
<1>1. /\ Step("strs", Tail(Todo)) /\ strs' = strs + 1
      /\ prog' = prog /\ chrs' = chrs /\ reads' = reads /\ shown' = shown
  BY AdvanceStep DEF CountLine
<1>2. /\ Todo = stack[1].todo /\ Todo # << >> /\ Head(Todo) = "strs"
      /\ Tells(Todo) /\ stack'[1].todo = Tail(Todo)
  BY <1>1, MainCounts
<1>3. LineLeft /\ ~LineLeft' /\ (CharsLeft' <=> CharsLeft)
  BY <1>2 DEF Tells, LineLeft, CharsLeft
<1>4. Counted /\ \A c \in shown : TrueAt(c)
  BY TrueIs DEF CountInv
<1>5. \A k : LinesIn(k)' = LinesIn(k) /\ CharsIn(k)' = CharsIn(k)
  BY <1>1, SumsAre, NextSumsAre
<1>6. \A c : TrueAt(c)' <=> TrueAt(c)
  BY <1>5 DEF TrueAt
<1> DEFINE k == Len(reads)
           b == k - 1
<1>7. /\ reads \in Seq(Nat) /\ k \in Nat /\ k > 0 /\ strs = LinesIn(b)
      /\ prog = "5_23" => reads[k] = 0
      /\ chrs = CharsIn(IF CharsLeft THEN b ELSE k)
  BY <1>3, <1>4, LenProperties DEF Counted
<1> HIDE DEF k
<1>8. b \in Nat /\ b < k /\ b + 1 = k
  BY <1>7
<1> HIDE DEF b
<1>9. strs' = LinesIn(k)
  <2>1. CASE prog = "6_10"
    <3>1. LinesIn(b) = b /\ LinesIn(k) = k
      BY <2>1, SumsAre
    <3> QED BY <1>1, <1>7, <1>8, <3>1
  <2>2. CASE prog = "5_23"
    <3>1. Zeros(reads, k) = Zeros(reads, b) + 1
      BY <1>7, <1>8, <2>2, CountOne DEF k
    <3>2. LinesIn(b) = Zeros(reads, b) /\ LinesIn(k) = Zeros(reads, k)
      BY <2>2, SumsAre
    <3> QED BY <1>1, <1>7, <3>1, <3>2
  <2> QED BY <2>1, <2>2 DEF Counting
<1>10. Counted'
  BY <1>1, <1>3, <1>4, <1>5, <1>7, <1>9 DEF Counted, k, b
<1> QED BY <1>1, <1>4, <1>6, <1>10 DEF CountInv, ShownCountsAreTrue, TrueAt

LEMMA CharsCounted ==
  ASSUME TypeInv, FramesInv, CountInv, Counting, CountChars
  PROVE  CountInv'
<1>1. /\ Step("chrs", Tail(Todo)) /\ chrs' = chrs + reads[Len(reads)]
      /\ prog' = prog /\ strs' = strs /\ reads' = reads /\ shown' = shown
  BY AdvanceStep DEF CountChars
<1>2. /\ Todo = stack[1].todo /\ Todo # << >> /\ Head(Todo) = "chrs"
      /\ Tells(Todo) /\ stack'[1].todo = Tail(Todo)
  BY <1>1, MainCounts
<1>3. CharsLeft /\ ~CharsLeft' /\ ~LineLeft /\ ~LineLeft'
  BY <1>2 DEF Tells, LineLeft, CharsLeft
<1>4. Counted /\ \A c \in shown : TrueAt(c)
  BY TrueIs DEF CountInv
<1>5. \A k : LinesIn(k)' = LinesIn(k) /\ CharsIn(k)' = CharsIn(k)
  BY <1>1, SumsAre, NextSumsAre
<1>6. \A c : TrueAt(c)' <=> TrueAt(c)
  BY <1>5 DEF TrueAt
<1> DEFINE k == Len(reads)
           b == k - 1
<1>7. /\ reads \in Seq(Nat) /\ k \in Nat /\ k > 0 /\ chrs = CharsIn(b)
      /\ strs = LinesIn(k)
  BY <1>3, <1>4, LenProperties DEF Counted
<1> HIDE DEF k
<1>8. b \in Nat /\ b < k /\ b + 1 = k
  BY <1>7
<1> HIDE DEF b
<1>9. chrs' = CharsIn(k)
  <2>1. CharsOf(reads, k) = CharsOf(reads, b) + reads[k]
    BY <1>7, <1>8, CountOne DEF k
  <2>2. CharsIn(b) = CharsOf(reads, b) /\ CharsIn(k) = CharsOf(reads, k)
    BY SumsAre
  <2> QED BY <1>1, <1>7, <2>1, <2>2 DEF k
<1>10. Counted'
  BY <1>1, <1>3, <1>4, <1>5, <1>7, <1>9 DEF Counted, k, b
<1> QED BY <1>1, <1>4, <1>6, <1>10 DEF CountInv, ShownCountsAreTrue, TrueAt

(* What was read is still to be counted, by a script that says so. *)
LEMMA MoreRead ==
  ASSUME TypeInv, FramesInv, CountInv, Counting, NEW c \in Nat, reads' = Append(reads, c),
         UNCHANGED <<prog, strs, chrs, shown>>, ~LineLeft, ~CharsLeft,
         LineLeft' <=> (prog = "6_10" \/ c = 0), CharsLeft' <=> (prog = "6_10" \/ c # 0)
  PROVE  CountInv'
<1>1. Counted /\ \A a \in shown : TrueAt(a)
  BY TrueIs DEF CountInv
<1>2. Len(reads) \in Nat
  BY <1>1, LenProperties DEF Counted
<1>3. PICK n \in Nat : n = Len(reads)
  BY <1>2
<1>4. PICK m \in Nat : m = n + 1
  OBVIOUS
<1>5. reads \in Seq(Nat) /\ n \in Nat /\ strs = LinesIn(n) /\ chrs = CharsIn(n)
  BY <1>1, <1>3 DEF Counted
<1>6. /\ reads' \in Seq(Nat) /\ Len(reads') = m /\ reads'[m] = c
      /\ \A i \in 1 .. n : reads'[i] = reads[i]
  BY <1>5, <1>3, <1>4, AppendProperties
<1> DEFINE r == reads'
<1>7. m \in Nat /\ m > 0 /\ m - 1 = n /\ n < m /\ \A k \in 0 .. n : k \in 0 .. m
  BY <1>5, <1>4
<1>8. ASSUME NEW k \in 0 .. n
      PROVE  LinesIn(k)' = LinesIn(k) /\ CharsIn(k)' = CharsIn(k)
  <2>1. k \in Nat /\ k <= Len(reads) /\ k <= Len(r) /\ \A i \in 1 .. k : r[i] = reads[i]
    BY <1>5, <1>6, <1>7, <1>3
  <2>2. r \in Seq(Nat)
    BY <1>6
  <2> HIDE DEF r
  <2>3. Zeros(r, k) = Zeros(reads, k) /\ CharsOf(r, k) = CharsOf(reads, k)
    BY <1>5, <2>1, <2>2, CountSame
  <2>4. LinesIn(k)' = (IF prog = "6_10" THEN k ELSE Zeros(r, k)) /\ CharsIn(k)' = CharsOf(r, k)
    BY NextSumsAre DEF r
  <2> QED BY <2>3, <2>4, SumsAre
<1>9. ASSUME NEW a \in shown PROVE TrueAt(a)'
  <2>1. TrueAt(a) /\ a[3] \in 0 .. n
    BY <1>1, <1>3 DEF Counted
  <2>2. (IF a[3] = 0 THEN 0 ELSE a[3] - 1) \in 0 .. n
    BY <1>5, <2>1
  <2> QED BY <1>8, <2>1, <2>2 DEF TrueAt
<1>10. n \in 0 .. n
  BY <1>5
<1>11. /\ Zeros(r, m) = (IF c = 0 THEN Zeros(r, n) + 1 ELSE Zeros(r, n))
      /\ CharsOf(r, m) = CharsOf(r, n) + c /\ CharsOf(r, n) \in Int
  <2>1. n < Len(r) /\ n + 1 = m /\ r \in Seq(Nat) /\ r[m] = c
    BY <1>5, <1>6, <1>7, <1>3, <1>4
  <2> HIDE DEF r
  <2> QED BY <1>5, <2>1, CountOne
<1>12. LinesIn(n)' = strs /\ CharsIn(n)' = chrs
  BY <1>5, <1>8, <1>10
<1>13. ~LineLeft' => LinesIn(m)' = strs
  BY <1>11, <1>12, NextSumsAre DEF Counting
<1>14. ~CharsLeft' => CharsIn(m)' = chrs
  <2>1. ~CharsLeft' => c = 0
    OBVIOUS
  <2>2. CharsIn(m)' = CharsOf(r, m) /\ CharsIn(n)' = CharsOf(r, n)
    BY NextSumsAre
  <2> HIDE DEF r
  <2>3. c = 0 => CharsOf(r, m) = CharsOf(r, n)
    BY <1>11
  <2> QED BY <1>12, <2>1, <2>2, <2>3
<1>15. Counted'
  <2>1. strs' = LinesIn(IF LineLeft THEN Len(reads) - 1 ELSE Len(reads))'
    BY <1>6, <1>7, <1>12, <1>13
  <2>2. chrs' = CharsIn(IF CharsLeft THEN Len(reads) - 1 ELSE Len(reads))'
    BY <1>6, <1>7, <1>12, <1>14
  <2>3. \A a \in shown' : a[3] \in 0 .. Len(reads')
    BY <1>1, <1>6, <1>7, <1>3 DEF Counted
  <2>4. prog' = "5_23" => /\ LineLeft' => reads'[Len(reads')] = 0
                          /\ CharsLeft' => reads'[Len(reads')] # 0
    BY <1>6
  <2> QED BY <1>6, <1>7, <2>1, <2>2, <2>3, <2>4 DEF Counted
<1> QED BY <1>9, <1>15 DEF CountInv, ShownCountsAreTrue, TrueAt

LEMMA ReadCounted ==
  ASSUME TypeInv, FramesInv, CountInv, Counting, Read \/ SelectInput
  PROVE  CountInv'
<1>1. /\ prog' = prog /\ strs' = strs /\ chrs' = chrs /\ shown' = shown
      /\ Todo # << >> /\ Head(Todo) \in {"read", "selecting"}
  BY DEF Read, SelectInput, At
<1>2. Len(stack) = 1
  BY <1>1, OnlyMain
<1>3. /\ Todo = stack[1].todo \/ (stack[1].todo = << >> /\ Todo = Turn)
      /\ MainTodo(stack[1].todo)
  BY <1>1, <1>2, TopIs DEF Top, FramesInv
<1>4. Tells(Todo) /\ Tells(stack[1].todo)
  BY <1>3, TellsAll
<1>5. ~LineLeft /\ ~CharsLeft
  BY <1>1, <1>3, <1>4 DEF Tells, LineLeft, CharsLeft
<1>6. reads \in Seq(Nat)
  BY DEF CountInv, Counted
<1>7. CASE Read
  <2>1. PICK c \in {0, 1} : reads' = Append(reads, c)
    BY <1>7 DEF Read
  <2>2. reads'[Len(reads')] = c
    <3>1. Len(reads) \in Nat /\ Len(Append(reads, c)) = Len(reads) + 1
          /\ Append(reads, c)[Len(reads) + 1] = c
      BY <1>6, LenProperties, AppendProperties
    <3> QED BY <2>1, <3>1
  <2> DEFINE t == <<"clear", IF c = 0 THEN "strs" ELSE "chrs">>
  <2>3. At("read") /\ Continue(t)
    BY <1>7, <2>2 DEF Read
  <2>4. prog = "5_23"
    BY <1>4, <2>3 DEF Tells, At
  <2>5. MainTodo(t)
    BY <2>4 DEF MainTodo
  <2>6. Step("read", t)
    BY <1>1, <1>2, <2>3, <2>5 DEF Step
  <2>7. stack'[1].todo = t
    <3> HIDE DEF t
    <3> QED BY <1>2, <2>6, StepFrames
  <2>8. Range(t) = {"clear", IF c = 0 THEN "strs" ELSE "chrs"}
    BY TupleRanges
  <2>9. (LineLeft' <=> c = 0) /\ (CharsLeft' <=> c # 0)
    BY <2>7, <2>8 DEF LineLeft, CharsLeft
  <2> QED BY <1>1, <1>5, <2>1, <2>4, <2>9, MoreRead
<1>8. CASE SelectInput
  <2>1. PICK c \in Nat : reads' = Append(reads, c)
    BY <1>8, BoundAssumption DEF SelectInput
  <2> DEFINE t == <<"clear", "strs", "chrs">>
  <2>3. At("selecting") /\ Continue(t)
    BY <1>8 DEF SelectInput
  <2>4. prog = "6_10"
    BY <1>4, <2>3 DEF Tells, At
  <2>5. MainTodo(t)
    BY <2>4 DEF MainTodo
  <2>6. Step("selecting", t)
    BY <1>1, <1>2, <2>3, <2>5 DEF Step
  <2>7. stack'[1].todo = t
    <3> HIDE DEF t
    <3> QED BY <1>2, <2>6, StepFrames
  <2>8. Range(t) = {"clear", "strs", "chrs"}
    BY TupleRanges
  <2>9. LineLeft' /\ CharsLeft'
    BY <2>7, <2>8 DEF LineLeft, CharsLeft
  <2> QED BY <1>1, <1>5, <2>1, <2>4, <2>9, MoreRead
<1> QED BY <1>7, <1>8

(* The other steps of main() and of the handlers; no handler of 5_23 and    *)
(* 6_10 counts.                                                             *)
LEMMA HandlersShow ==
  ASSUME TypeInv, FramesInv, Counting, Todo # << >>
  PROVE  Head(Todo) # "count"
<1>1. CASE Len(stack) > 1
  <2>1. Top.of \in Range(Caught) /\ Head(Todo) \in StepsOf(Top.of)
    BY <1>1, TopIs
  <2>2. Exiting /\ Top.of # "USR1"
    BY <2>1, CaughtIs DEF Counting, Exiting, TypeInv
  <2> QED BY <2>1, <2>2 DEF StepsOf, Quiet
<1>2. CASE Len(stack) = 1
  BY <1>2, TopIs DEF MainSteps
<1> QED BY <1>1, <1>2, TopIs

LEMMA OthersCount ==
  ASSUME TypeInv, FramesInv, CountInv, Counting,
         \/ Catch \/ Alarm \/ Set \/ Count \/ Test \/ Clear \/ Sign \/ Write \/ Show
         \/ While \/ Pause \/ If \/ Select \/ ReadEnd \/ SelectTimeout
  PROVE  CountInv'
<1>1. ~Count
  BY HandlersShow DEF Count, At
<1>2. /\ prog' = prog /\ strs' = strs /\ chrs' = chrs /\ reads' = reads
      /\ shown' \in SUBSET (shown \union {<<strs, chrs, Len(reads)>>})
  BY <1>1 DEF Catch, Alarm, Set, Test, Clear, Sign, Write, Show, While, Pause, If, Select,
     ReadEnd, SelectTimeout, memory
<1>3. ASSUME NEW x, NEW t, At(x), Continue(t), x \notin {"strs", "chrs"},
             \/ t = Tail(Todo)
             \/ x \in {"select", "selecting"} /\ t \in {<<"selecting">>, <<"clear", "write">>}
                /\ (Len(stack) = 1 /\ MainTodo(t))
      PROVE  CountInv'
  <2>1. Step(x, t)
    BY <1>2, <1>3 DEF Step
  <2>2. LineLeft' = LineLeft /\ CharsLeft' = CharsLeft
    BY <1>3, <2>1, LeftKept
  <2> QED BY <1>2, <2>2, CountKept
<1>4. CASE Catch \/ Alarm \/ Set \/ Test \/ Clear \/ Sign \/ Write \/ Show \/ ReadEnd
  <2>1. PICK x \in {"INT", "QUIT", "ALRM", "USR1", "alarm", "set", "test", "clear", "minus",
                    "plus", "write", "show", "read", "selecting"} : At(x) /\ Continue(Tail(Todo))
    BY <1>4 DEF Catch, Alarm, Set, Test, Clear, Sign, Write, Show, ReadEnd, Advance
  <2> QED BY <1>3, <2>1
<1>5. CASE While \/ Pause \/ If
  <2>1. Todo # << >> /\ Head(Todo) \in {"while", "pause", "if"}
    BY <1>5 DEF While, Pause, If, At
  <2>2. Len(stack) = 1
    BY <2>1, OnlyMain
  <2>3. /\ Todo = stack[1].todo \/ (stack[1].todo = << >> /\ Todo = Turn)
        /\ MainTodo(stack[1].todo)
    BY <2>1, <2>2, TopIs DEF Top, FramesInv
  <2>4. Tells(Todo)
    BY <2>3, TellsAll
  <2> QED BY <2>1, <2>4 DEF Tells
<1>6. CASE Select
  <2>1. At("select") /\ Continue(<<"selecting">>)
    BY <1>6 DEF Select
  <2>2. Len(stack) = 1 /\ MainTodo(<<"selecting">>)
    BY <2>1, OnlyMain DEF At, MainSteps
  <2> QED BY <1>3, <2>1, <2>2
<1>7. CASE SelectTimeout
  <2>1. At("selecting") /\ Continue(<<"clear", "write">>)
    BY <1>7 DEF SelectTimeout
  <2>2. Len(stack) = 1 /\ MainTodo(<<"clear", "write">>)
    BY <2>1, OnlyMain DEF At, MainSteps
  <2> QED BY <1>3, <2>1, <2>2
<1> QED BY <1>1, <1>4, <1>5, <1>6, <1>7

(* Signals come and handlers return while main() is counting. *)
LEMMA SignalsCount ==
  ASSUME TypeInv, FramesInv, CountInv, Counting,
         \/ Return \/ Tick \/ (\E s \in Signs : Deliver(s)) \/ (\E s \in Sendable : Send(s))
         \/ UNCHANGED vars
  PROVE  CountInv'
<1>1. /\ prog' = prog /\ strs' = strs /\ chrs' = chrs /\ reads' = reads /\ shown' = shown
  BY DEF Return, Tick, Deliver, Send, vars, memory
<1>2. (LineLeft' <=> LineLeft) /\ (CharsLeft' <=> CharsLeft)
  <2>1. ASSUME NEW s \in Signs, Deliver(s) PROVE stack'[1].todo = stack[1].todo
    <3>1. CASE stack' = stack
      BY <3>1
    <3>2. CASE s \in handled
      <4> DEFINE f == [of |-> s, todo |-> Handler(s), clean |-> TRUE]
      <4>1. stack' = Append(Below(s), f)
        BY <2>1, <3>2 DEF Deliver
      <4>2. f \in Frame
        BY <3>2, HandlerIs DEF TypeInv, Frame
      <4> HIDE DEF f
      <4>3. /\ Below(s) \in Seq(Frame) /\ Len(Below(s)) = Len(stack)
            /\ \A i \in 1 .. Len(stack) : Below(s)[i].todo = stack[i].todo
        BY BelowIs
      <4>4. 1 \in 1 .. Len(stack)
        BY LenProperties DEF TypeInv, FramesInv
      <4>5. stack'[1] = Below(s)[1]
        BY <4>1, <4>2, <4>3, <4>4, AppendProperties
      <4> QED BY <4>3, <4>4, <4>5
    <3> QED BY <2>1, <3>1, <3>2 DEF Deliver
  <2>2. CASE stack'[1].todo = stack[1].todo
    BY <2>2 DEF LineLeft, CharsLeft
  <2>3. CASE Return
    <3>1. \/ stack'[1].todo = stack[1].todo
          \/ /\ stack[1].todo # << >> /\ stack'[1].todo = Tail(stack[1].todo)
             /\ Head(stack[1].todo) \in {"asleep", "selecting"}
      BY <2>3, ReturnFrames
    <3> QED BY <3>1, MainTells DEF Tells, LineLeft, CharsLeft
  <2>4. CASE Tick \/ (\E s \in Sendable : Send(s)) \/ UNCHANGED vars
    BY <2>4 DEF Tick, Send, vars, LineLeft, CharsLeft
  <2> QED BY <2>1, <2>2, <2>3, <2>4
<1>3. LineLeft' = LineLeft /\ CharsLeft' = CharsLeft
  <2>1. LineLeft \in BOOLEAN /\ LineLeft' \in BOOLEAN /\ CharsLeft \in BOOLEAN /\ CharsLeft' \in BOOLEAN
    BY DEF LineLeft, CharsLeft
  <2> QED BY <1>2, <2>1
<1> QED BY <1>1, <1>3, CountKept

LEMMA InitCounts ==
  ASSUME Init, Inv
  PROVE  CountInv
<1>1. /\ reads = << >> /\ strs = 0 /\ chrs = 0 /\ shown = {} /\ prog \in AllPrograms
      /\ stack[1].todo = Main
  BY ProgramAssumption DEF Init, AllPrograms
<1>2. SUFFICES ASSUME Counting PROVE Counted
  BY <1>1 DEF CountInv, ShownCountsAreTrue
<1>3. /\ prog = "5_23" => stack[1].todo = <<"ALRM", "INT">>
      /\ prog = "6_10" => stack[1].todo = <<"INT">>
  <2>1. Main = Caught \o << >> /\ (prog = "5_23" => Caught = <<"ALRM", "INT">>)
        /\ (prog = "6_10" => Caught = <<"INT">>)
    BY <1>2 DEF Main, Caught, Counting
  <2>2. <<"ALRM", "INT">> \in Seq(Steps) /\ <<"INT">> \in Seq(Steps)
    BY InSteps, ScriptTypes
  <2> QED BY <1>1, <2>1, <2>2, ConcatEmptySeq
<1>4. ~LineLeft /\ ~CharsLeft
  <2>1. Range(<<"ALRM", "INT">>) = {"ALRM", "INT"} /\ Range(<<"INT">>) = {"INT"}
    BY TupleRanges
  <2>2. Range(stack[1].todo) \subseteq {"ALRM", "INT"}
    BY <1>2, <1>3, <2>1 DEF Counting
  <2> QED BY <2>2 DEF LineLeft, CharsLeft
<1>5. reads \in Seq(Nat) /\ Len(reads) = 0
  BY <1>1
<1>6. LinesIn(0) = 0 /\ CharsIn(0) = 0
  BY <1>5, CountNone, SumsAre
<1> QED BY <1>1, <1>4, <1>5, <1>6 DEF Counted

(* The counters a handler of SIGINT shows in 5_23 and 6_10 are those of     *)
(* everything read so far, or miss of the last read what main() was about   *)
(* to count when it was interrupted, whatever is typed and however often.   *)
THEOREM CountsShown == Spec => []ShownCountsAreTrue
<1>1. Init => Inv /\ CountInv
  BY InitInv, InitCounts
<1>2. Inv /\ CountInv /\ [Next]_vars => CountInv'
  <2> SUFFICES ASSUME Inv, CountInv, [Next]_vars PROVE CountInv'
    OBVIOUS
  <2>1. TypeInv /\ FramesInv
    BY DEF Inv
  <2>2. CASE Counting
    BY <2>1, <2>2, LineCounted, CharsCounted, ReadCounted, OthersCount, SignalsCount
       DEF Next, Run, Input
  <2>3. CASE ~Counting
    <3>1. prog' = prog
      BY DEF Next, Run, Input, Catch, Alarm, Set, Count, Test, Clear, Sign, Write, Show, While,
         Pause, If, Read, ReadEnd, Select, SelectInput, SelectTimeout, CountLine, CountChars,
         Send, Tick, Deliver, Return, vars
    <3> QED BY <2>3, <3>1, NotCounting
  <2> QED BY <2>2, <2>3
<1>3. CountInv => ShownCountsAreTrue
  BY DEF CountInv
<1> QED BY <1>1, <1>2, <1>3, InvHolds, PTL DEF Spec
=============================================================================
