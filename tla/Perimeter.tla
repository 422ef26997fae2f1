------------------------------ MODULE Perimeter ------------------------------
(***************************************************************************)
(* c/ncurses/4_25/2_29.c: a # that walks round a square of asterisks in    *)
(* the middle of the terminal.  Space turns it back, the arrows change its *)
(* pace, a resize moves the square and puts the # on its first corner.     *)
(***************************************************************************)
EXTENDS Integers

CONSTANTS
  AreaSize,       (* area_size: the side of the square                      *)
  Sizes,          (* the heights and widths the terminal may have           *)
  Delay           (* [min, max, step]: min_delay, max_delay, delay_step      *)

MinTerminal == AreaSize + 2    (* min_terminal_size                         *)

ASSUME AreaAssumption == AreaSize \in Nat /\ AreaSize >= 2
ASSUME SizesAssumption == Sizes \subseteq Nat
ASSUME DelayAssumption ==
  /\ Delay \in [min : Nat, max : Nat, step : Nat]
  /\ Delay.min <= Delay.max

VARIABLES
  row, col,         (* the size of the terminal                             *)
  area,             (* struct area                                          *)
  cur_x, cur_y, dx, dy, direction,   (* struct hash_char                    *)
  delay,            (* what getch() waits, then it returns ERR              *)
  running,
  back              (* history: where the # stood before its last step, and *)
                    (* whether it has been turned an odd number of times    *)
                    (* since; known = FALSE when it was put there           *)

hc == <<cur_x, cur_y, dx, dy, direction>>
perimeterVars == <<row, col, area, hc, delay, running, back>>

(* The square for a terminal of h rows and w columns.                       *)
AreaOf(h, w) ==
  LET x == (w - AreaSize) \div 2 - 1
      y == (h - AreaSize) \div 2 - 1
  IN [min_x |-> x, min_y |-> y, max_x |-> x + AreaSize - 1, max_y |-> y + AreaSize - 1]

Unknown == [x |-> 0, y |-> 0, turned |-> FALSE, known |-> FALSE]

PerimeterTypeOK ==
  /\ row \in Sizes /\ col \in Sizes
  /\ area \in [min_x : Int, min_y : Int, max_x : Int, max_y : Int]
  /\ cur_x \in Int /\ cur_y \in Int
  /\ <<dx, dy>> \in {<<0, 1>>, <<0, -1>>, <<1, 0>>, <<-1, 0>>}
  /\ direction \in {1, -1}
  /\ delay \in Delay.min .. Delay.max
  /\ running \in BOOLEAN
  /\ back \in [x : Int, y : Int, turned : BOOLEAN, known : BOOLEAN]

(* check_terminal lets main go on. *)
BigEnough(h, w) == h >= MinTerminal /\ w >= MinTerminal

PerimeterInit ==
  /\ row \in Sizes /\ col \in Sizes
  /\ BigEnough(row, col)
  /\ area = AreaOf(row, col)
  /\ cur_x = area.min_x /\ cur_y = area.min_y
  /\ dx = 0 /\ dy = 1 /\ direction = 1
  /\ delay = Delay.min
  /\ running = TRUE
  /\ back = Unknown

-----------------------------------------------------------------------------
(* move_char: at a corner the heading follows from the direction; elsewhere *)
(* it is kept.  The variant swaps the two headings of one corner.           *)
MutHeading ==
  CASE cur_x = area.max_x /\ cur_y = area.min_y ->
         IF direction = 1 THEN <<0, 1>> ELSE <<-1, 0>>
    [] cur_x = area.max_x /\ cur_y = area.max_y ->
         IF direction = 1 THEN <<0, -1>> ELSE <<-1, 0>>
    [] cur_x = area.min_x /\ cur_y = area.max_y ->
         IF direction = 1 THEN <<0, -1>> ELSE <<1, 0>>
    [] cur_x = area.min_x /\ cur_y = area.min_y ->
         IF direction = 1 THEN <<1, 0>> ELSE <<0, 1>>
    [] OTHER -> <<dx, dy>>
Heading ==
  CASE cur_x = area.max_x /\ cur_y = area.min_y ->
         IF direction = 1 THEN <<0, 1>> ELSE <<-1, 0>>
    [] cur_x = area.max_x /\ cur_y = area.max_y ->
         IF direction = 1 THEN <<-1, 0>> ELSE <<0, -1>>
    [] cur_x = area.min_x /\ cur_y = area.max_y ->
         IF direction = 1 THEN <<0, -1>> ELSE <<1, 0>>
    [] cur_x = area.min_x /\ cur_y = area.min_y ->
         IF direction = 1 THEN <<1, 0>> ELSE <<0, 1>>
    [] OTHER -> <<dx, dy>>

(* getch() returns ERR: no key for `delay` milliseconds.                    *)
Timeout ==
  /\ running
  /\ dx' = Heading[1] /\ dy' = Heading[2]
  /\ cur_x' = cur_x + dx' /\ cur_y' = cur_y + dy'
  /\ back' = [x |-> cur_x, y |-> cur_y, turned |-> FALSE, known |-> TRUE]
  /\ UNCHANGED <<row, col, area, direction, delay, running>>

(* Space; the variant does not turn the heading round.                      *)
MutSpace ==
  /\ running
  /\ direction' = direction * (-1)
  /\ back' = [back EXCEPT !.turned = ~@]
  /\ UNCHANGED <<row, col, area, cur_x, cur_y, dx, dy, delay, running>>
Space ==
  /\ running
  /\ dx' = dx * (-1) /\ dy' = dy * (-1) /\ direction' = direction * (-1)
  /\ back' = [back EXCEPT !.turned = ~@]
  /\ UNCHANGED <<row, col, area, cur_x, cur_y, delay, running>>

(* change_delay, for KEY_LEFT with d = -1 and KEY_RIGHT with d = 1.         *)
Clamp(n) ==
  IF n < Delay.min THEN Delay.min ELSE IF n > Delay.max THEN Delay.max ELSE n

ChangeDelay(d) ==
  /\ running
  /\ delay' = Clamp(delay + d * Delay.step)
  /\ UNCHANGED <<row, col, area, hc, running, back>>

(* handle_resize; a terminal that has become too small ends the program.    *)
(* The variant leaves the # where it was.                                   *)
MutPlace(a) == cur_x' = cur_x /\ cur_y' = cur_y
Place(a) == cur_x' = a.min_x /\ cur_y' = a.min_y

Resize ==
  /\ running
  /\ row' \in Sizes /\ col' \in Sizes
  /\ \/ /\ BigEnough(row', col')
        /\ area' = AreaOf(row', col')
        /\ Place(area')
        /\ back' = Unknown
        /\ UNCHANGED running
     \/ /\ ~BigEnough(row', col')
        /\ running' = FALSE
        /\ UNCHANGED <<area, cur_x, cur_y, back>>
  /\ UNCHANGED <<dx, dy, direction, delay>>

Escape == running /\ running' = FALSE /\ UNCHANGED <<row, col, area, hc, delay, back>>

PerimeterNext == Timeout \/ Space \/ ChangeDelay(-1) \/ ChangeDelay(1) \/ Resize \/ Escape

(* getch() does time out when no key comes. *)
PerimeterSpec == PerimeterInit /\ [][PerimeterNext]_perimeterVars /\ WF_perimeterVars(Timeout)

-----------------------------------------------------------------------------
(* Properties *)

OnPerimeter(x, y) ==
  /\ x \in area.min_x .. area.max_x
  /\ y \in area.min_y .. area.max_y
  /\ x \in {area.min_x, area.max_x} \/ y \in {area.min_y, area.max_y}

(* The # never leaves the border of the square, and the square never leaves *)
(* the terminal, whatever keys and resizes come at whatever point of its    *)
(* way: hide_char() always restores an asterisk of the square.              *)
StaysOnPerimeter ==
  running =>
    /\ OnPerimeter(cur_x, cur_y)
    /\ 0 <= area.min_x /\ area.max_x < col
    /\ 0 <= area.min_y /\ area.max_y < row

(* After an odd number of spaces the next step goes back to where the #     *)
(* came from, also on and next to a corner; after an even number it does not.*)
SpaceTurnsBack ==
  [][Timeout /\ back.known =>
       (back.turned <=> cur_x' = back.x /\ cur_y' = back.y)]_perimeterVars

(* Once the user leaves the keyboard and the window alone, the # visits     *)
(* every cell of the border again and again.                                *)
WalksRound ==
  <>[][Timeout]_perimeterVars =>
    \/ <>~running
    \/ \A x, y \in 0 .. AreaSize - 1 :
         {x, y} \intersect {0, AreaSize - 1} # {} =>
           []<>(cur_x = area.min_x + x /\ cur_y = area.min_y + y)
=============================================================================
