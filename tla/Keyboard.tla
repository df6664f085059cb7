------------------------------ MODULE Keyboard ------------------------------
(***************************************************************************)
(* The keyboard driver, Keyboard::handle_irq of keyboard.cpp: it is handed *)
(* one byte per interrupt and has to put the multi-byte scan codes of set  *)
(* 2 back together, keep track of the modifier keys and print what was     *)
(* typed.  The environment is a person with a PS/2 keyboard: it sends the  *)
(* make code of a key when it goes down and again while it repeats, the    *)
(* break code when it goes up, and runs ahead of the driver by any number  *)
(* of bytes.  What it types is what its keys are labelled with.            *)
(***************************************************************************)
EXTENDS Naturals, Sequences, KeyMaps

CONSTANTS
  Keys,        \* the keys: records [ext |-> BOOLEAN, code |-> scan code]
  Repeating,   \* those that repeat while they are held
  Labels,      \* Labels[key][level]: what the keyboard says a key types
  MaxQueue     \* bound: bytes the keyboard is ahead of the driver

(* Multi-byte signals *)
SECONDARY_SIGNAL == 224  \* 0xe0
RELEASE_SIGNAL == 240    \* 0xf0

(* Primary modifier keys *)
LALT == 17      \* 0x11
LSHIFT == 18    \* 0x12
LCTRL == 20     \* 0x14
CAPSLOCK == 88  \* 0x58
RSHIFT == 89    \* 0x59

(* Secondary modifier keys *)
RALT == 17   \* 0x11
RCTRL == 20  \* 0x14
LGUI == 31   \* 0x1f
RGUI == 39   \* 0x27

(* What the tables can print. *)
Characters ==
  UNION {{map[code] : code \in DOMAIN map} :
           map \in {SCAN_CODE_PRIMARY_MAP, SHIFTED_SCAN_CODE_PRIMARY_MAP,
                    CAPSLOCK_SCAN_CODE_PRIMARY_MAP, SCAN_CODE_SECONDARY_MAP}}

Levels == {"plain", "shifted", "caps"}

(* The scan codes of a key are single bytes, none of them a signal. *)
ASSUME KeyboardAssumption ==
  /\ Keys \subseteq [ext : BOOLEAN, code : 0..255 \ {SECONDARY_SIGNAL, RELEASE_SIGNAL}]
  /\ Repeating \subseteq Keys
  /\ Labels \in [Keys -> [Levels -> Seq(Characters)]]
  /\ MaxQueue \in Nat

(* The flags of the driver for keys that are up or down, and those a key   *)
(* press turns over.                                                       *)
PrimaryHold == Table({<<LALT, "m_lalt">>, <<LSHIFT, "m_lshift">>, <<LCTRL, "m_lctr">>,
                      <<RSHIFT, "m_rshift">>})
PrimaryToggle == Table({<<CAPSLOCK, "m_capslock">>})
SecondaryHold == Table({<<RALT, "m_ralt">>, <<RCTRL, "m_rctr">>})
SecondaryToggle == Table({<<LGUI, "m_lgui">>, <<RGUI, "m_rgui">>})

Flag == {"m_lalt", "m_lshift", "m_lctr", "m_rshift", "m_capslock", "m_ralt",
         "m_rctr", "m_lgui", "m_rgui"}

VARIABLES
  m,                   \* m[f]: the driver's flag f
  m_secondary_signal,  \* 0xe0 was received
  m_release_signal,    \* 0xf0 was received
  queue,               \* bytes the keyboard has sent that the driver has not read
  held,                \* the keys that are down
  capslock,            \* whether the make code of caps lock was sent an odd
                       \* number of times
  owed,                \* what was typed and is not yet on the screen
  garbled,             \* something else was printed than what was owed
  beyond               \* a table was read behind its end

vars == <<m, m_secondary_signal, m_release_signal, queue, held, capslock,
          owed, garbled, beyond>>

driver == <<m, m_secondary_signal, m_release_signal>>
screen == <<owed, garbled, beyond>>

Init ==
  /\ m = [f \in Flag |-> FALSE]
  /\ m_secondary_signal = FALSE
  /\ m_release_signal = FALSE
  /\ queue = << >>
  /\ held = {}
  /\ capslock = FALSE
  /\ owed = << >>
  /\ garbled = FALSE
  /\ beyond = FALSE

-----------------------------------------------------------------------------
(* The keyboard *)

Prefix(key) == IF key.ext THEN <<SECONDARY_SIGNAL>> ELSE << >>
MakeCode(key) == Prefix(key) \o <<key.code>>
BreakCode(key) == Prefix(key) \o <<RELEASE_SIGNAL, key.code>>

Key(e, c) == [ext |-> e, code |-> c]
ShiftIsHeld == {Key(FALSE, LSHIFT), Key(FALSE, RSHIFT)} \cap held # {}

Modifiers == {Key(FALSE, c) : c \in DOMAIN PrimaryHold \cup DOMAIN PrimaryToggle}
             \cup {Key(TRUE, c) : c \in DOMAIN SecondaryHold \cup DOMAIN SecondaryToggle}

(* What a key types: shift goes before caps lock.                          *)
Level == IF ShiftIsHeld THEN "shifted" ELSE IF capslock THEN "caps" ELSE "plain"

Legend(key) == IF key \in Modifiers THEN << >> ELSE Labels[key][Level]

(* A key goes down, or is down and repeats.  Of a screen that is garbled   *)
(* no account is kept any more.                                            *)
Press(key) ==
  /\ Len(queue) + Len(MakeCode(key)) <= MaxQueue
  /\ key \in held => key \in Repeating
  /\ queue' = queue \o MakeCode(key)
  /\ held' = held \cup {key}
  /\ capslock' = (capslock # (key = Key(FALSE, CAPSLOCK)))
  /\ owed' = IF garbled THEN owed ELSE owed \o Legend(key)
  /\ UNCHANGED <<driver, garbled, beyond>>

(* A key goes up. *)
Release(key) ==
  /\ Len(queue) + Len(BreakCode(key)) <= MaxQueue
  /\ key \in held
  /\ queue' = queue \o BreakCode(key)
  /\ held' = held \ {key}
  /\ UNCHANGED <<driver, capslock, screen>>

-----------------------------------------------------------------------------
(* The driver.  Each action below is one call of handle_irq, for another   *)
(* way through it.                                                         *)

(* The byte in KMIDATA; reading it makes room for the next one.            *)
Receive(input) ==
  /\ input = Head(queue)
  /\ queue' = Tail(queue)
  /\ UNCHANGED <<held, capslock>>

(* kprintf("%c", ascii_out): what is owed is paid, unless it is not that.  *)
PutChar(c) ==
  IF garbled THEN UNCHANGED <<owed, garbled>>
  ELSE IF owed # << >> /\ c = Head(owed)
  THEN owed' = Tail(owed) /\ UNCHANGED garbled
  ELSE garbled' = TRUE /\ owed' = << >>

(* A character is printed unless the table has a zero there.  The index is *)
(* not checked: behind the end of the table lies whatever lies there.      *)
Echo(map, size, input) ==
  \/ input \in DOMAIN map /\ PutChar(map[input]) /\ UNCHANGED beyond
  \/ input < size /\ input \notin DOMAIN map /\ UNCHANGED screen
  \/ /\ input >= size
     /\ beyond' = TRUE
     /\ UNCHANGED <<owed, garbled>> \/ \E c \in Characters : PutChar(c)

(* A signal is remembered until the byte that is not one. *)
Signal(input) ==
  /\ Receive(input)
  /\ \/ input = RELEASE_SIGNAL /\ m_release_signal' = TRUE /\ UNCHANGED m_secondary_signal
     \/ input = SECONDARY_SIGNAL /\ m_secondary_signal' = TRUE /\ UNCHANGED m_release_signal
  /\ UNCHANGED <<m, screen>>

(* Any other byte ends the scan code; sec and rel are the signals before.  *)
Final(input, sec, rel) ==
  /\ Receive(input)
  /\ input \notin {RELEASE_SIGNAL, SECONDARY_SIGNAL}
  /\ m_secondary_signal = sec
  /\ m_release_signal = rel
  /\ m_secondary_signal' = FALSE
  /\ m_release_signal' = FALSE

(* For checking the properties: caps lock goes before shift. *)
PrimaryPress_CapsFirst(input) ==
  /\ Final(input, FALSE, FALSE)
  /\ \/ /\ input \in DOMAIN PrimaryHold
        /\ m' = [m EXCEPT ![PrimaryHold[input]] = TRUE]
        /\ UNCHANGED screen
     \/ /\ input \in DOMAIN PrimaryToggle
        /\ m' = [m EXCEPT ![PrimaryToggle[input]] = ~@]
        /\ UNCHANGED screen
     \/ /\ input \notin DOMAIN PrimaryHold \cup DOMAIN PrimaryToggle
        /\ Echo(IF m["m_capslock"] THEN CAPSLOCK_SCAN_CODE_PRIMARY_MAP
                ELSE IF m["m_lshift"] \/ m["m_rshift"] THEN SHIFTED_SCAN_CODE_PRIMARY_MAP
                ELSE SCAN_CODE_PRIMARY_MAP, PRIMARY_SIZE, input)
        /\ UNCHANGED m

(* Process primary key press *)
PrimaryPress(input) ==
  /\ Final(input, FALSE, FALSE)
  /\ \/ /\ input \in DOMAIN PrimaryHold
        /\ m' = [m EXCEPT ![PrimaryHold[input]] = TRUE]
        /\ UNCHANGED screen
     \/ /\ input \in DOMAIN PrimaryToggle
        /\ m' = [m EXCEPT ![PrimaryToggle[input]] = ~@]
        /\ UNCHANGED screen
     \/ /\ input \notin DOMAIN PrimaryHold \cup DOMAIN PrimaryToggle
        /\ Echo(IF m["m_lshift"] \/ m["m_rshift"] THEN SHIFTED_SCAN_CODE_PRIMARY_MAP
                ELSE IF m["m_capslock"] THEN CAPSLOCK_SCAN_CODE_PRIMARY_MAP
                ELSE SCAN_CODE_PRIMARY_MAP, PRIMARY_SIZE, input)
        /\ UNCHANGED m

(* Process secondary key press *)
SecondaryPress(input) ==
  /\ Final(input, TRUE, FALSE)
  /\ \/ /\ input \in DOMAIN SecondaryHold
        /\ m' = [m EXCEPT ![SecondaryHold[input]] = TRUE]
        /\ UNCHANGED screen
     \/ /\ input \in DOMAIN SecondaryToggle
        /\ m' = [m EXCEPT ![SecondaryToggle[input]] = ~@]
        /\ UNCHANGED screen
     \/ /\ input \notin DOMAIN SecondaryHold \cup DOMAIN SecondaryToggle
        /\ Echo(SCAN_CODE_SECONDARY_MAP, SECONDARY_SIZE, input)
        /\ UNCHANGED m

(* As above: a release leaves its flag undefined. *)
ClearFlag_Undefined(hold, input) ==
  m' = IF input \in DOMAIN hold THEN [f \in Flag \ {hold[input]} |-> m[f]] ELSE m

(* A release clears the flag of the key, if it has one.                    *)
ClearFlag(hold, input) ==
  m' = IF input \in DOMAIN hold THEN [m EXCEPT ![hold[input]] = FALSE] ELSE m

(* Process primary key release *)
PrimaryRelease(input) ==
  /\ Final(input, FALSE, TRUE)
  /\ ClearFlag(PrimaryHold, input)
  /\ UNCHANGED screen

(* As above: the signal of a secondary release stays set. *)
SecondaryRelease_Sticky(input) ==
  /\ Receive(input)
  /\ input \notin {RELEASE_SIGNAL, SECONDARY_SIGNAL}
  /\ m_secondary_signal /\ m_release_signal
  /\ m_release_signal' = FALSE
  /\ ClearFlag(SecondaryHold, input)
  /\ UNCHANGED <<m_secondary_signal, screen>>

(* Process secondary key release *)
SecondaryRelease(input) ==
  /\ Final(input, TRUE, TRUE)
  /\ ClearFlag(SecondaryHold, input)
  /\ UNCHANGED screen

handle_irq ==
  \E input \in IF queue = << >> THEN {} ELSE {Head(queue)} :
    \/ Signal(input)
    \/ PrimaryPress(input)
    \/ SecondaryPress(input)
    \/ PrimaryRelease(input)
    \/ SecondaryRelease(input)

Next ==
  \/ \E key \in Keys : Press(key) \/ Release(key)
  \/ handle_irq

Spec == Init /\ [][Next]_vars

-----------------------------------------------------------------------------
TypeOK ==
  /\ m \in [Flag -> BOOLEAN]
  /\ m_secondary_signal \in BOOLEAN
  /\ m_release_signal \in BOOLEAN
  /\ queue \in Seq(0..255) /\ Len(queue) <= MaxQueue
  /\ held \subseteq Keys
  /\ capslock \in BOOLEAN
  /\ owed \in Seq(Characters)
  /\ garbled \in BOOLEAN
  /\ beyond \in BOOLEAN

(***************************************************************************)
(* Whatever was pressed and released in the meantime, once the driver has  *)
(* caught up each of its flags for a shift, control or alt key says        *)
(* whether that key is down, m_capslock is right, and no half of a scan    *)
(* code is left over to distort the next one.                              *)
(***************************************************************************)
InSync ==
  queue = << >> =>
    /\ ~m_secondary_signal /\ ~m_release_signal
    /\ \A c \in DOMAIN PrimaryHold : m[PrimaryHold[c]] <=> Key(FALSE, c) \in held
    /\ \A c \in DOMAIN SecondaryHold : m[SecondaryHold[c]] <=> Key(TRUE, c) \in held
    /\ m["m_capslock"] <=> capslock

(***************************************************************************)
(* As long as no table was read behind its end (keyboard.cpp:601-609, 632) *)
(* the driver prints what was typed, in that order: every key appears as   *)
(* it is labelled, with the modifiers as they were when it went down,      *)
(* however late the driver gets to it.                                     *)
(***************************************************************************)
EchoesWhatWasTyped ==
  ~beyond =>
    /\ ~garbled
    /\ queue = << >> => owed = << >>

(***************************************************************************)
(* What it takes: the tables have for every key what it is labelled with.  *)
(* On a US keyboard that is so for all keys but the nine and the zero,     *)
(* which the table for caps lock has exchanged.                            *)
(***************************************************************************)
MapAt(key, level) ==
  IF key.ext THEN SCAN_CODE_SECONDARY_MAP
  ELSE CASE level = "shifted" -> SHIFTED_SCAN_CODE_PRIMARY_MAP
         [] level = "caps" -> CAPSLOCK_SCAN_CODE_PRIMARY_MAP
         [] level = "plain" -> SCAN_CODE_PRIMARY_MAP

TablesMatch ==
  \A key \in Keys \ Modifiers, level \in Levels :
    Labels[key][level] =
      IF key.code \in DOMAIN MapAt(key, level) THEN <<MapAt(key, level)[key.code]>> ELSE << >>
=============================================================================
