---------------------------- MODULE MCLineEditor ----------------------------
(* One of the two editors per behaviour: 5_35 or, if "short", 5_34.         *)
EXTENDS LineEditor

CONSTANT ShortInputs
VARIABLES typed, stale, waiting, stored, screen, open, calls, dirty, short

S == INSTANCE CompletingEditor WITH Inputs <- ShortInputs

MCWords == <<<<"a", "b">>, <<"b", "b">>>>
LeftArrow == <<"ESC", "[", "D">>
RightArrow == <<"ESC", "[", "C">>
MCInputs ==
  {<<k>> : k \in {"a", "b", Space, "EOT", "TAB", "LF", "DEL", "BS", "^W"}}
  \union {LeftArrow, RightArrow, <<"a", Space, "b">>, LeftArrow \o LeftArrow}
MCShortInputs ==
  {<<k>> : k \in {"a", "b", Space, "EOT", "TAB", "LF", "DEL", "BS"}}
  \union {<<"a", Space, "b">>, <<"a", "TAB">>}

shortEditor == <<typed, stale, waiting, stored, screen, open, calls, dirty>>
MCInit ==
  \/ /\ short = FALSE /\ Init
     /\ typed = <<>> /\ stale = <<>> /\ waiting = <<>> /\ stored = <<>>
     /\ screen = [line |-> <<>>, col |-> 0] /\ open = FALSE /\ calls = 0 /\ dirty = FALSE
  \/ /\ short = TRUE /\ S!Init
     /\ out_buf = [j \in Cells |-> NUL] /\ p_obuf_cur = 0 /\ arrow_pressed = 0
     /\ read_buf = <<>> /\ read_res = 0 /\ p_rbuf = 0 /\ out = <<>>
     /\ terminal = [line |-> <<>>, col |-> 0] /\ running = FALSE /\ reads = 0 /\ rough = FALSE
MCNext ==
  \/ ~short /\ Next /\ UNCHANGED <<shortEditor, short>>
  \/ short /\ S!Next /\ UNCHANGED <<vars, short>>
MCSpec == MCInit /\ [][MCNext]_<<vars, shortEditor, short>>

(* What the terminal shows is what the editor has in its buffer: 5_35 as    *)
(* long as every arrow key came by itself and had somewhere to go, 5_34     *)
(* unless Tab was the first key.                                            *)
TerminalsShowText == TerminalShowsText /\ S!ScreenShowsText

(* Every key does to the line what TextLine says it does, in either editor. *)
KeysAsPromised == EditsAsPromised /\ S!ShortEditsAsPromised
=============================================================================
