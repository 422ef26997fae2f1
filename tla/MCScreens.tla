----------------------------- MODULE MCScreens -----------------------------
(* Either the menu or the walk round the square; the other one rests.       *)
(* Menus have fewer items than rows, as many, and more.  A square of four   *)
(* by four is in terminals just too small, just big enough, and of odd and  *)
(* of even room.                                                            *)
EXTENDS Menu, Perimeter, TLC

Delays == [min |-> 100, max |-> 300, step |-> 100]

MenuIdle ==
  /\ items_counter = 0 /\ scr_capacity = 0 /\ f_idx = 0 /\ s_idx = 0
  /\ screen = {} /\ result = 0 /\ moved = FALSE /\ grown = FALSE
PerimeterIdle ==
  /\ row = 0 /\ col = 0 /\ area = AreaOf(0, 0)
  /\ cur_x = 0 /\ cur_y = 0 /\ dx = 0 /\ dy = 1 /\ direction = 1
  /\ delay = Delay.min /\ running = FALSE /\ back = Unknown

ScreensInit == (MenuInit /\ PerimeterIdle) \/ (MenuIdle /\ PerimeterInit)
ScreensNext ==
  \/ MenuNext /\ UNCHANGED perimeterVars
  \/ PerimeterNext /\ UNCHANGED menuVars
ScreensSpec ==
  /\ ScreensInit /\ [][ScreensNext]_<<menuVars, perimeterVars>>
  /\ WF_perimeterVars(Timeout)
=============================================================================
