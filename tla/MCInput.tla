------------------------------ MODULE MCInput -------------------------------
(* A letter, Enter on both sides of the keyboard, the backspace key and an
   arrow key; a letter, a carriage return and a DEL from the serial port. *)
EXTENDS Input

MCKeys ==
    [code : {"a", "enter", "backspace"}, extended : {FALSE}]
    \cup [code : {"enter", "up"}, extended : {TRUE}]

MCTranslate(code) ==
    CASE code = "a" -> "a"
      [] code = "enter" -> Newline
      [] code = "backspace" -> Backspace
      [] OTHER -> NUL
=============================================================================
