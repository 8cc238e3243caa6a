------------------------------- MODULE Input --------------------------------
(***************************************************************************)
(* Where the characters of a line come from: the loop of                   *)
(* keyboard_read_line (src/kernel/keyboard.c), which polls the serial port *)
(* (serial.c) and then the keyboard, and echoes what it takes on both the  *)
(* screen and the serial port.  A serial port that is not there reads      *)
(* 0xFF, and a transmitter that does not empty would hold up every         *)
(* character of output; either makes the driver give the port up for good. *)
(*                                                                         *)
(* A key sends one code when it goes down and one when it goes up, each    *)
(* with the prefix 0xE0 for the keys that were added later.                *)
(***************************************************************************)
EXTENDS Naturals, Sequences, SequencesExt

CONSTANTS
    Keys,         \* keys: [code, extended]
    Translate(_), \* translate_scancode: a character, or NUL
    Bytes,        \* what may arrive on the serial port
    Capacity,     \* the buffer of keyboard_read_line
    MaxKeyEvents, \* bound on presses and releases
    MaxBytes      \* bound on the bytes that arrive

VARIABLES
    enabled, \* g_serial_enabled
    gone,    \* the port's status reads 0xFF
    stuck,   \* the transmitter does not empty
    rx,      \* bytes that have arrived and were not read
    scan,    \* scancodes that were sent and not read
    pc,      \* idle, serial, read, keys, char
    c,       \* the character being handled
    line,    \* the buffer up to len
    events,  \* how often a key has gone down or up
    arrived, \* how many bytes have arrived
    pressed, \* history: the characters of the keys that went down
    taken    \* history: the characters taken from the keyboard

port == <<enabled, gone, stuck, rx, arrived>>
keyboard == <<scan, events, pressed>>
vars == <<enabled, gone, stuck, rx, scan, pc, c, line, events, arrived,
          pressed, taken>>

NUL == "NUL"
Backspace == "BS"
Newline == "NL"
Junk == "0xFF"
Prefix == [code |-> "E0", up |-> FALSE]

ASSUME InputAssumption ==
    /\ Capacity \in Nat \ {0}
    /\ \A k \in Keys : k.extended \in BOOLEAN
    /\ \A k \in Keys : k.code # Prefix.code \* a key's code has seven bits

\* serial_init
Init ==
    /\ enabled = TRUE
    /\ gone \in BOOLEAN
    /\ stuck = FALSE
    /\ rx = <<>>
    /\ scan = <<>>
    /\ pc = "idle"
    /\ c = NUL
    /\ line = <<>>
    /\ events = 0
    /\ arrived = 0
    /\ pressed = <<>>
    /\ taken = <<>>

-----------------------------------------------------------------------------
\* The devices and the user (external).

\* A key goes down (again, if it is held) or up.
Key ==
    /\ events < MaxKeyEvents
    /\ \E k \in Keys, up \in BOOLEAN :
           /\ scan' = scan \o (IF k.extended THEN <<Prefix>> ELSE <<>>)
                           \o <<[code |-> k.code, up |-> up]>>
           /\ pressed' = IF up \/ Translate(k.code) = NUL THEN pressed
                         ELSE Append(pressed, Translate(k.code))
    /\ events' = events + 1
    /\ UNCHANGED <<port, pc, c, line, taken>>

Arrive ==
    /\ arrived < MaxBytes
    /\ \E b \in Bytes : rx' = Append(rx, b)
    /\ arrived' = arrived + 1
    /\ UNCHANGED <<enabled, gone, stuck, keyboard, pc, c, line, taken>>

\* The port disappears, or its transmitter stops.
PortFails ==
    /\ gone' \in {gone, TRUE}
    /\ stuck' \in {stuck, TRUE}
    /\ UNCHANGED <<enabled, rx, arrived, keyboard, pc, c, line, taken>>

-----------------------------------------------------------------------------
\* serial.c

\* Mutant of Usable: the status is not compared with 0xFF.
Usable_Unchecked == enabled

\* g_serial_enabled after a look at the status.
Usable == enabled /\ ~gone

\* serial_has_byte; a status of 0xFF has every bit set.
serial_has_byte == Usable /\ (gone \/ rx # <<>>)

\* serial_write_byte, called for each byte of the echo: g_serial_enabled
\* afterwards.
EchoLeaves == Usable /\ ~stuck

-----------------------------------------------------------------------------
\* keyboard_read_line

\* The shell, or a program, reads a line.
ReadLine ==
    /\ pc = "idle"
    /\ pc' = "serial"
    /\ line' = <<>>
    /\ UNCHANGED <<port, keyboard, c, taken>>

PollSerial ==
    /\ pc = "serial"
    /\ pc' = IF serial_has_byte THEN "read" ELSE "keys"
    /\ enabled' = Usable
    /\ UNCHANGED <<gone, stuck, rx, arrived, keyboard, c, line, taken>>

\* What a byte from the serial port means.
Decode(b) ==
    CASE b = "CR" -> Newline
      [] b = "DEL" -> Backspace
      [] OTHER -> b

\* serial_read_byte asks again and gives up after a while.
ReadSerial ==
    /\ pc = "read"
    /\ enabled' = Usable
    /\ IF serial_has_byte
       THEN /\ c' = IF gone THEN Junk ELSE Decode(Head(rx))
            /\ rx' = IF gone THEN rx ELSE Tail(rx)
       ELSE /\ c' = NUL
            /\ UNCHANGED rx
    /\ pc' = "char"
    /\ UNCHANGED <<gone, stuck, arrived, keyboard, line, taken>>

NoKey ==
    /\ pc = "keys"
    /\ scan = <<>>
    /\ pc' = "serial"
    /\ UNCHANGED <<port, keyboard, c, line, taken>>

\* Mutant of Ignored: keys that go up count too.
Ignored_NotUp(s) == s = Prefix

\* Prefixes and keys that go up.
Ignored(s) == s = Prefix \/ s.up

PollKeys ==
    /\ pc = "keys"
    /\ scan # <<>>
    /\ scan' = Tail(scan)
    /\ IF Ignored(Head(scan))
       THEN /\ pc' = "serial"
            /\ UNCHANGED <<c, taken>>
       ELSE LET t == Translate(Head(scan).code) IN
            /\ pc' = "char"
            /\ c' = t
            /\ taken' = IF t = NUL THEN taken ELSE Append(taken, t)
    /\ UNCHANGED <<port, events, pressed, line>>

Full == Len(line) + 1 >= Capacity

\* The character is ignored: none, a backspace in an empty line, or no room.
Drop ==
    /\ pc = "char"
    /\ \/ c = NUL
       \/ c = Backspace /\ line = <<>>
       \/ c \notin {NUL, Backspace, Newline} /\ Full
    /\ c' = NUL
    /\ pc' = "serial"
    /\ UNCHANGED <<port, keyboard, line, taken>>

\* The character changes the line and is echoed.
Edit ==
    /\ pc = "char"
    /\ \/ /\ c = Backspace
          /\ line # <<>>
          /\ line' = Front(line)
       \/ /\ c \notin {NUL, Backspace, Newline}
          /\ ~Full
          /\ line' = Append(line, c)
    /\ enabled' = EchoLeaves
    /\ c' = NUL
    /\ pc' = "serial"
    /\ UNCHANGED <<gone, stuck, rx, arrived, keyboard, taken>>

\* The line is complete.
Enter ==
    /\ pc = "char"
    /\ c = Newline
    /\ enabled' = EchoLeaves
    /\ c' = NUL
    /\ pc' = "idle"
    /\ UNCHANGED <<gone, stuck, rx, arrived, keyboard, line, taken>>

Reader ==
    \/ ReadLine \/ PollSerial \/ ReadSerial \/ NoKey \/ PollKeys
    \/ Drop \/ Edit \/ Enter

Next == Key \/ Arrive \/ PortFails \/ Reader

\* The loop waits for nothing: every wait for the serial port is bounded, and
\* the shell asks for the next line.  Nothing is assumed of the devices.
Spec == Init /\ [][Next]_vars /\ WF_vars(Reader)

-----------------------------------------------------------------------------
\* The character of a scancode, as a sequence, and those of scancodes in a row.
Press(s) ==
    IF s = Prefix \/ s.up \/ Translate(s.code) = NUL THEN <<>>
    ELSE <<Translate(s.code)>>
Presses(codes) ==
    LET upTo[i \in 0 .. Len(codes)] ==
            IF i = 0 THEN <<>> ELSE upTo[i - 1] \o Press(codes[i])
    IN  upTo[Len(codes)]

\* Each key press counts once and in order, across lines and whatever the
\* serial port does in between, also between a prefix and its code: what went
\* down is what was taken and what still waits (keyboard.c,
\* keyboard_read_line).
KeysInOrder == pressed = taken \o Presses(scan)

\* The keyboard is heard even if the serial port disappears or its transmitter
\* stops at the worst moment: every key press is taken in the end, once there is
\* a pause in the serial input.
KeysServed ==
    \A n \in 1 .. MaxKeyEvents : Len(pressed) >= n ~> Len(taken) >= n

\* A byte from the serial port is read in the end, unless the port has been
\* given up, which it is only when it has failed.
BytesServed == rx # <<>> ~> rx = <<>> \/ (~enabled /\ (gone \/ stuck))

\* Every byte and every key press is served in the end, and no failure of the
\* serial port holds up the loop of keyboard_read_line (keyboard.c; serial.c,
\* serial_write_byte and serial_read_byte).  That the keyboard is served rests
\* on the serial input ending, as MaxBytes makes it: keyboard_read_line asks the
\* serial port first, and an input that never paused would starve the keyboard.
InputServed == KeysServed /\ BytesServed
=============================================================================
