--------------------------- MODULE KeyboardProofs ---------------------------
(***************************************************************************)
(* The keyboard driver, for any set of keys, any number of them repeating  *)
(* and a keyboard that is any number of bytes ahead: once the driver has   *)
(* caught up it is in sync with the keys, whatever they are, and if its    *)
(* tables match their labels it has printed what was typed, until it reads *)
(* behind the end of a table.                                              *)
(***************************************************************************)
EXTENDS Keyboard, SequenceTheorems, TLAPS

(***************************************************************************)
(* What handle_irq makes of a byte, as a function of the driver's state:   *)
(* the state afterwards, and what is printed.                              *)
(***************************************************************************)
Drivers == [m : [Flag -> BOOLEAN], sec : BOOLEAN, rel : BOOLEAN]
Bytes == 0..255
Texts == Seq(Characters)

SetFlag(d, f, value) == [d.m EXCEPT ![f] = value]

FlagsAfter(d, b) ==
  LET hold == IF d.sec THEN SecondaryHold ELSE PrimaryHold
      toggle == IF d.sec THEN SecondaryToggle ELSE PrimaryToggle
  IN  IF b \in DOMAIN hold THEN SetFlag(d, hold[b], ~d.rel)
      ELSE IF b \in DOMAIN toggle /\ ~d.rel THEN SetFlag(d, toggle[b], ~d.m[toggle[b]])
      ELSE d.m

Decoded(d, b) ==
  IF b = RELEASE_SIGNAL THEN [d EXCEPT !.rel = TRUE]
  ELSE IF b = SECONDARY_SIGNAL THEN [d EXCEPT !.sec = TRUE]
  ELSE [m |-> FlagsAfter(d, b), sec |-> FALSE, rel |-> FALSE]

MapIn(d) ==
  IF d.sec THEN SCAN_CODE_SECONDARY_MAP
  ELSE IF d.m["m_lshift"] \/ d.m["m_rshift"] THEN SHIFTED_SCAN_CODE_PRIMARY_MAP
  ELSE IF d.m["m_capslock"] THEN CAPSLOCK_SCAN_CODE_PRIMARY_MAP
  ELSE SCAN_CODE_PRIMARY_MAP

Silent(d, b) ==
  \/ b \in {RELEASE_SIGNAL, SECONDARY_SIGNAL}
  \/ d.rel
  \/ d.sec /\ b \in DOMAIN SecondaryHold \cup DOMAIN SecondaryToggle
  \/ ~d.sec /\ b \in DOMAIN PrimaryHold \cup DOMAIN PrimaryToggle
  \/ b \notin DOMAIN MapIn(d)

PrintedOn(d, b) == IF Silent(d, b) THEN << >> ELSE <<MapIn(d)[b]>>

(* The driver's flags agree with the keys that are down. *)
Follows(f, hold, e, keys) ==
  \A c \in DOMAIN hold : f[hold[c]] <=> Key(e, c) \in keys

FlagsAgree(f, keys, caps) ==
  /\ Follows(f, PrimaryHold, FALSE, keys)
  /\ Follows(f, SecondaryHold, TRUE, keys)
  /\ f["m_capslock"] <=> caps

(* And it has no half of a scan code. *)
Agrees(d, keys, caps) == ~d.sec /\ ~d.rel /\ FlagsAgree(d.m, keys, caps)

Current == [m |-> m, sec |-> m_secondary_signal, rel |-> m_release_signal]

(***************************************************************************)
(* What is going to happen to the bytes that have been sent: the driver    *)
(* goes from state first to state last, and prints text.  When it has read *)
(* i of them it is in states[i], and left[i] is still to be printed.       *)
(***************************************************************************)
Decoding(states, left, bytes) ==
  /\ states \in [0..Len(bytes) -> Drivers]
  /\ left \in [0..Len(bytes) -> Texts]
  /\ \A i \in 1..Len(bytes) :
       /\ states[i] = Decoded(states[i - 1], bytes[i])
       /\ left[i - 1] = PrintedOn(states[i - 1], bytes[i]) \o left[i]
  /\ left[Len(bytes)] = << >>

Leads(first, text, bytes, last) ==
  \E states, left :
    /\ Decoding(states, left, bytes)
    /\ states[0] = first /\ left[0] = text
    /\ states[Len(bytes)] = last

(* When it has read all of them it agrees with the keys, and has printed   *)
(* what is owed, as far as the tables go.                                  *)
Pays(text) == TablesMatch /\ ~beyond => ~garbled /\ owed = text

CatchesUp ==
  \E last \in Drivers, text \in Texts :
    /\ Leads(Current, text, queue, last)
    /\ Agrees(last, held, capslock)
    /\ Pays(text)

Types ==
  /\ m \in [Flag -> BOOLEAN]
  /\ m_secondary_signal \in BOOLEAN
  /\ m_release_signal \in BOOLEAN
  /\ queue \in Seq(Bytes) /\ Len(queue) <= MaxQueue
  /\ held \subseteq Keys
  /\ capslock \in BOOLEAN
  /\ owed \in Texts
  /\ garbled \in BOOLEAN
  /\ beyond \in BOOLEAN

IInv == Types /\ CatchesUp

-----------------------------------------------------------------------------
(* The flags of the keys. *)
LEMMA Flags ==
  /\ DOMAIN PrimaryHold = {LALT, LSHIFT, LCTRL, RSHIFT}
  /\ PrimaryHold[LALT] = "m_lalt" /\ PrimaryHold[LSHIFT] = "m_lshift"
  /\ PrimaryHold[LCTRL] = "m_lctr" /\ PrimaryHold[RSHIFT] = "m_rshift"
  /\ DOMAIN PrimaryToggle = {CAPSLOCK} /\ PrimaryToggle[CAPSLOCK] = "m_capslock"
  /\ DOMAIN SecondaryHold = {RALT, RCTRL}
  /\ SecondaryHold[RALT] = "m_ralt" /\ SecondaryHold[RCTRL] = "m_rctr"
  /\ DOMAIN SecondaryToggle = {LGUI, RGUI}
  /\ SecondaryToggle[LGUI] = "m_lgui" /\ SecondaryToggle[RGUI] = "m_rgui"
<1>1. /\ DOMAIN PrimaryHold = {LALT, LSHIFT, LCTRL, RSHIFT}
      /\ PrimaryHold[LALT] = "m_lalt" /\ PrimaryHold[LSHIFT] = "m_lshift"
      /\ PrimaryHold[LCTRL] = "m_lctr" /\ PrimaryHold[RSHIFT] = "m_rshift"
  BY DEF PrimaryHold, Table, LALT, LSHIFT, LCTRL, RSHIFT
<1>2. DOMAIN PrimaryToggle = {CAPSLOCK} /\ PrimaryToggle[CAPSLOCK] = "m_capslock"
  BY DEF PrimaryToggle, Table, CAPSLOCK
<1>3. /\ DOMAIN SecondaryHold = {RALT, RCTRL}
      /\ SecondaryHold[RALT] = "m_ralt" /\ SecondaryHold[RCTRL] = "m_rctr"
  BY DEF SecondaryHold, Table, RALT, RCTRL
<1>4. /\ DOMAIN SecondaryToggle = {LGUI, RGUI}
      /\ SecondaryToggle[LGUI] = "m_lgui" /\ SecondaryToggle[RGUI] = "m_rgui"
  BY DEF SecondaryToggle, Table, LGUI, RGUI
<1> QED
  BY <1>1, <1>2, <1>3, <1>4

(* No two keys share a flag, and every flag is one of the driver's.        *)
LEMMA FlagsDiffer ==
  /\ \A c, c2 \in DOMAIN PrimaryHold : PrimaryHold[c] = PrimaryHold[c2] => c = c2
  /\ \A c, c2 \in DOMAIN SecondaryHold : SecondaryHold[c] = SecondaryHold[c2] => c = c2
  /\ \A c \in DOMAIN PrimaryHold, c2 \in DOMAIN SecondaryHold : PrimaryHold[c] # SecondaryHold[c2]
  /\ \A c \in DOMAIN PrimaryHold :
       PrimaryHold[c] \in Flag \ {"m_capslock", "m_lgui", "m_rgui"}
  /\ \A c \in DOMAIN SecondaryHold :
       SecondaryHold[c] \in Flag \ {"m_capslock", "m_lgui", "m_rgui"}
  /\ \A c \in DOMAIN PrimaryToggle : PrimaryToggle[c] = "m_capslock"
  /\ \A c \in DOMAIN SecondaryToggle : SecondaryToggle[c] \in {"m_lgui", "m_rgui"}
  BY Flags DEF Flag

(* The codes are different bytes, none of them a signal. *)
LEMMA Codes ==
  /\ LALT = 17 /\ LSHIFT = 18 /\ LCTRL = 20 /\ CAPSLOCK = 88 /\ RSHIFT = 89
  /\ RALT = 17 /\ RCTRL = 20 /\ LGUI = 31 /\ RGUI = 39
  /\ SECONDARY_SIGNAL = 224 /\ RELEASE_SIGNAL = 240
  BY DEF LALT, LSHIFT, LCTRL, CAPSLOCK, RSHIFT, RALT, RCTRL, LGUI, RGUI,
         SECONDARY_SIGNAL, RELEASE_SIGNAL

(* Whatever the driver receives, its state stays one. *)
LEMMA DecodedIsDriver ==
  ASSUME NEW d \in Drivers, NEW b \in Bytes
  PROVE  Decoded(d, b) \in Drivers
<1>1. d.m \in [Flag -> BOOLEAN] /\ d.sec \in BOOLEAN /\ d.rel \in BOOLEAN
  BY DEF Drivers
<1>2. ASSUME NEW f \in Flag, NEW v \in BOOLEAN
      PROVE  SetFlag(d, f, v) \in [Flag -> BOOLEAN]
  BY <1>1 DEF SetFlag
<1>3. /\ \A c \in DOMAIN PrimaryHold : PrimaryHold[c] \in Flag
      /\ \A c \in DOMAIN SecondaryHold : SecondaryHold[c] \in Flag
      /\ \A c \in DOMAIN PrimaryToggle : PrimaryToggle[c] \in Flag
      /\ \A c \in DOMAIN SecondaryToggle : SecondaryToggle[c] \in Flag
  BY Flags DEF Flag
<1>4. FlagsAfter(d, b) \in [Flag -> BOOLEAN]
  <2>1. (~d.rel) \in BOOLEAN
    BY <1>1
  <2>2. \A f \in Flag : (~d.m[f]) \in BOOLEAN
    BY <1>1
  <2> QED
    BY <1>1, <1>2, <1>3, <2>1, <2>2 DEF FlagsAfter
<1>5. [d EXCEPT !.rel = TRUE] \in Drivers /\ [d EXCEPT !.sec = TRUE] \in Drivers
  BY DEF Drivers
<1>6. [m |-> FlagsAfter(d, b), sec |-> FALSE, rel |-> FALSE] \in Drivers
  BY <1>4 DEF Drivers
<1> QED
  BY <1>5, <1>6 DEF Decoded

(* What it prints is text. *)
LEMMA PrintedIsText ==
  ASSUME NEW d, NEW b
  PROVE  PrintedOn(d, b) \in Texts
<1>1. CASE Silent(d, b)
  BY <1>1 DEF PrintedOn, Texts
<1>2. CASE ~Silent(d, b)
  <2>1. b \in DOMAIN MapIn(d)
    BY <1>2 DEF Silent
  <2>2. MapIn(d) \in {SCAN_CODE_PRIMARY_MAP, SHIFTED_SCAN_CODE_PRIMARY_MAP,
                      CAPSLOCK_SCAN_CODE_PRIMARY_MAP, SCAN_CODE_SECONDARY_MAP}
    BY DEF MapIn
  <2>3. MapIn(d)[b] \in Characters
    BY <2>1, <2>2 DEF Characters
  <2> QED
    BY <1>2, <2>3 DEF PrintedOn, Texts
<1> QED
  BY <1>1, <1>2

-----------------------------------------------------------------------------
(* Nothing is printed before the first byte. *)
LEMMA LeadsNowhere ==
  ASSUME NEW d \in Drivers
  PROVE  Leads(d, << >>, << >>, d)
<1> DEFINE states == [i \in 0..0 |-> d]
           left == [i \in 0..0 |-> << >>]
<1>1. /\ states \in [0..0 -> Drivers] /\ left \in [0..0 -> Texts]
      /\ states[0] = d /\ left[0] = << >>
  BY DEF Texts
<1>2. Len(<< >>) = 0
  OBVIOUS
<1> HIDE DEF states, left
<1>3. Decoding(states, left, << >>)
  BY <1>1, <1>2 DEF Decoding
<1> QED
  BY <1>1, <1>2, <1>3, Zenon DEF Leads

(* Without bytes nothing happens. *)
LEMMA LeadsOnlyToItself ==
  ASSUME NEW first, NEW text, NEW last, Leads(first, text, << >>, last)
  PROVE  first = last /\ text = << >>
<1>1. PICK states, left : /\ Decoding(states, left, << >>)
                          /\ states[0] = first /\ left[0] = text
                          /\ states[Len(<< >>)] = last
  BY Zenon DEF Leads
<1>2. Len(<< >>) = 0
  OBVIOUS
<1> QED
  BY <1>1, <1>2 DEF Decoding

(* A byte more is sent. *)
LEMMA LeadsFurther ==
  ASSUME NEW bytes \in Seq(Bytes), NEW b \in Bytes, NEW first, NEW text, NEW last,
         Leads(first, text, bytes, last)
  PROVE  Leads(first, text \o PrintedOn(last, b), Append(bytes, b), Decoded(last, b))
<1>1. PICK states, left : /\ Decoding(states, left, bytes)
                          /\ states[0] = first /\ left[0] = text
                          /\ states[Len(bytes)] = last
  BY Zenon DEF Leads
<1> DEFINE n == Len(bytes)
           all == Append(bytes, b)
           out == PrintedOn(last, b)
           states2 == [i \in 0..(n + 1) |-> IF i = n + 1 THEN Decoded(last, b) ELSE states[i]]
           left2 == [i \in 0..(n + 1) |-> IF i = n + 1 THEN << >> ELSE left[i] \o out]
<1>2. n \in Nat /\ Len(all) = n + 1 /\ all[n + 1] = b /\ \A i \in 1..n : all[i] = bytes[i]
  OBVIOUS
<1>3. /\ states \in [0..n -> Drivers] /\ left \in [0..n -> Texts]
      /\ \A i \in 1..n : /\ states[i] = Decoded(states[i - 1], bytes[i])
                         /\ left[i - 1] = PrintedOn(states[i - 1], bytes[i]) \o left[i]
      /\ left[n] = << >> /\ states[n] = last
  BY <1>1 DEF Decoding
<1>4. out \in Texts /\ Decoded(last, b) \in Drivers
  BY <1>2, <1>3, PrintedIsText, DecodedIsDriver
<1> HIDE DEF n, all, out
<1>5. \A i \in 0..n : left[i] \o out \in Texts
  BY <1>3, <1>4 DEF Texts
<1>6. states2 \in [0..(n + 1) -> Drivers] /\ left2 \in [0..(n + 1) -> Texts]
  <2>1. << >> \in Texts
    BY DEF Texts
  <2> QED
    BY <1>2, <1>3, <1>4, <1>5, <2>1
<1>7. /\ \A i \in 0..n : states2[i] = states[i] /\ left2[i] = left[i] \o out
      /\ states2[n + 1] = Decoded(last, b) /\ left2[n + 1] = << >>
  BY <1>2
<1> HIDE DEF states2, left2
<1>8. ASSUME NEW i \in 1..(n + 1)
      PROVE  /\ states2[i] = Decoded(states2[i - 1], all[i])
             /\ left2[i - 1] = PrintedOn(states2[i - 1], all[i]) \o left2[i]
  <2>1. CASE i = n + 1
    <3>1. states2[i - 1] = last /\ left2[i - 1] = << >> \o out /\ left2[i] = << >>
      <4>1. i - 1 = n /\ n \in 0..n
        BY <1>2, <2>1
      <4>2. states2[n] = states[n] /\ left2[n] = left[n] \o out
        BY <1>7, <4>1
      <4> QED
        BY <1>3, <1>7, <2>1, <4>1, <4>2
    <3>2. << >> \o out = out \o << >>
      BY <1>4 DEF Texts
    <3> QED
      BY <1>2, <1>7, <2>1, <3>1, <3>2 DEF out
  <2>2. CASE i # n + 1
    <3>1. i \in 1..n /\ i - 1 \in 0..n /\ i \in 0..n
      BY <1>2, <2>2
    <3>2. /\ states2[i] = states[i] /\ states2[i - 1] = states[i - 1] /\ all[i] = bytes[i]
          /\ left2[i] = left[i] \o out /\ left2[i - 1] = left[i - 1] \o out
      BY <1>2, <1>7, <3>1
    <3>3. left[i - 1] = PrintedOn(states[i - 1], bytes[i]) \o left[i]
          /\ states[i] = Decoded(states[i - 1], bytes[i])
      BY <1>3, <3>1
    <3>4. /\ PrintedOn(states[i - 1], bytes[i]) \in Seq(Characters)
          /\ left[i] \in Seq(Characters) /\ out \in Seq(Characters)
      BY <1>3, <1>4, <3>1, PrintedIsText DEF Texts
    <3>5. \A x, y, z \in Seq(Characters) : (x \o y) \o z = x \o (y \o z)
      BY ConcatAssociative, SMTT(30)
    <3>6. (PrintedOn(states[i - 1], bytes[i]) \o left[i]) \o out
            = PrintedOn(states[i - 1], bytes[i]) \o (left[i] \o out)
      BY <3>4, <3>5, Zenon
    <3>7. left2[i - 1] = PrintedOn(states[i - 1], bytes[i]) \o left2[i]
      BY <3>2, <3>3, <3>6, Zenon
    <3> QED
      BY <3>2, <3>3, <3>7, Zenon
  <2> QED
    BY <2>1, <2>2
<1>9. Decoding(states2, left2, all)
  BY <1>2, <1>6, <1>7, <1>8 DEF Decoding
<1>10. states2[0] = first /\ left2[0] = text \o out /\ states2[Len(all)] = Decoded(last, b)
  <2>1. 0 \in 0..n
    BY <1>2
  <2>2. states2[0] = states[0] /\ left2[0] = left[0] \o out
    BY <1>7, <2>1
  <2> QED
    BY <1>1, <1>2, <1>7, <2>2
<1>11. Leads(first, text \o out, all, Decoded(last, b))
  BY <1>9, <1>10, Zenon DEF Leads
<1> QED
  BY <1>11 DEF all, out

(* The driver reads a byte. *)
LEMMA LeadsOn ==
  ASSUME NEW bytes \in Seq(Bytes), bytes # << >>, NEW first, NEW text, NEW last,
         Leads(first, text, bytes, last)
  PROVE  \E rest \in Texts :
           /\ text = PrintedOn(first, Head(bytes)) \o rest
           /\ Leads(Decoded(first, Head(bytes)), rest, Tail(bytes), last)
<1>1. PICK states, left : /\ Decoding(states, left, bytes)
                          /\ states[0] = first /\ left[0] = text
                          /\ states[Len(bytes)] = last
  BY Zenon DEF Leads
<1> DEFINE n == Len(bytes)
           tail == Tail(bytes)
           states2 == [i \in 0..(n - 1) |-> states[i + 1]]
           left2 == [i \in 0..(n - 1) |-> left[i + 1]]
<1>2. /\ n \in Nat /\ n >= 1 /\ Len(tail) = n - 1 /\ Head(bytes) = bytes[1]
      /\ \A i \in 1..(n - 1) : tail[i] = bytes[i + 1]
  OBVIOUS
<1>3. /\ states \in [0..n -> Drivers] /\ left \in [0..n -> Texts]
      /\ \A i \in 1..n : /\ states[i] = Decoded(states[i - 1], bytes[i])
                         /\ left[i - 1] = PrintedOn(states[i - 1], bytes[i]) \o left[i]
      /\ left[n] = << >> /\ states[n] = last
  BY <1>1 DEF Decoding
<1> HIDE DEF n, tail
<1>4. states2 \in [0..(n - 1) -> Drivers] /\ left2 \in [0..(n - 1) -> Texts]
  BY <1>2, <1>3
<1>5. \A i \in 0..(n - 1) : states2[i] = states[i + 1] /\ left2[i] = left[i + 1]
  BY <1>2
<1> HIDE DEF states2, left2
<1>6. ASSUME NEW i \in 1..(n - 1)
      PROVE  /\ states2[i] = Decoded(states2[i - 1], tail[i])
             /\ left2[i - 1] = PrintedOn(states2[i - 1], tail[i]) \o left2[i]
  <2>1. /\ states2[i] = states[i + 1] /\ states2[i - 1] = states[i] /\ tail[i] = bytes[i + 1]
        /\ left2[i] = left[i + 1] /\ left2[i - 1] = left[i]
    <3>1. i \in 0..(n - 1) /\ i - 1 \in 0..(n - 1) /\ (i - 1) + 1 = i
      BY <1>2
    <3> QED
      BY <1>2, <1>5, <3>1
  <2>2. /\ states[i + 1] = Decoded(states[i], bytes[i + 1])
        /\ left[i] = PrintedOn(states[i], bytes[i + 1]) \o left[i + 1]
    <3>1. i + 1 \in 1..n /\ (i + 1) - 1 = i
      BY <1>2
    <3> QED
      BY <1>3, <3>1
  <2> QED
    BY <2>1, <2>2
<1>7. left2[n - 1] = << >> /\ states2[n - 1] = last
  <2>1. n - 1 \in 0..(n - 1) /\ (n - 1) + 1 = n
    BY <1>2
  <2> QED
    BY <1>3, <1>5, <2>1
<1>8. Decoding(states2, left2, tail)
  BY <1>2, <1>4, <1>6, <1>7 DEF Decoding
<1>9. /\ states2[0] = Decoded(first, Head(bytes)) /\ left2[0] \in Texts
      /\ text = PrintedOn(first, Head(bytes)) \o left2[0]
  <2>1. 0 \in 0..(n - 1) /\ 1 \in 1..n /\ 1 - 1 = 0 /\ 0 + 1 = 1
    BY <1>2
  <2> QED
    BY <1>1, <1>2, <1>3, <1>4, <1>5, <2>1, ZenonT(30)
<1>10. Leads(Decoded(first, Head(bytes)), left2[0], tail, last)
  BY <1>2, <1>7, <1>8, <1>9, Zenon DEF Leads
<1> QED
  BY <1>9, <1>10 DEF tail

-----------------------------------------------------------------------------
(* A key is its prefix and its code. *)
LEMMA KeysAreCodes ==
  ASSUME NEW key \in Keys
  PROVE  /\ key.ext \in BOOLEAN /\ key.code \in Bytes
         /\ key.code \notin {SECONDARY_SIGNAL, RELEASE_SIGNAL}
         /\ key = Key(key.ext, key.code)
<1>1. key \in [ext : BOOLEAN, code : 0..255 \ {SECONDARY_SIGNAL, RELEASE_SIGNAL}]
  BY KeyboardAssumption
<1>2. key = Key(key.ext, key.code)
  BY <1>1 DEF Key
<1> QED
  BY <1>1, <1>2 DEF Bytes

(* Keys with different prefixes, or with different codes, are different.   *)
LEMMA KeysDiffer ==
  ASSUME NEW e, NEW c, NEW e2, NEW c2, Key(e, c) = Key(e2, c2)
  PROVE  e = e2 /\ c = c2
<1>1. Key(e, c).ext = e /\ Key(e, c).code = c /\ Key(e2, c2).ext = e2 /\ Key(e2, c2).code = c2
  BY DEF Key
<1> QED
  BY <1>1, Zenon

(* A key with the prefix is not one without. *)
LEMMA PrefixesDiffer ==
  ASSUME NEW c, NEW c2
  PROVE  Key(TRUE, c) # Key(FALSE, c2)
<1>1. Key(TRUE, c).ext = TRUE /\ Key(FALSE, c2).ext = FALSE
  BY DEF Key
<1> QED
  BY <1>1

(* Two sets of keys that differ in one key at most, and flags no two of    *)
(* which are for the same key.                                             *)
Differ(keys, keys2, key) == \A x : x # key => (x \in keys2 <=> x \in keys)
Distinct(hold) ==
  /\ \A c \in DOMAIN hold : hold[c] \in Flag
  /\ \A c, c2 \in DOMAIN hold : hold[c] = hold[c2] => c = c2
Lacks(hold, flag) == \A c \in DOMAIN hold : hold[c] \in Flag /\ hold[c] # flag
IsOf(key, hold, e) == \E c \in DOMAIN hold : key = Key(e, c)

(* Every key that is held has a flag of its own. *)
LEMMA HoldsAreDistinct ==
  /\ Distinct(PrimaryHold) /\ Distinct(SecondaryHold)
  /\ \A c \in DOMAIN PrimaryHold : PrimaryHold[c] \in Flag /\ Lacks(SecondaryHold, PrimaryHold[c])
  /\ \A c \in DOMAIN SecondaryHold : SecondaryHold[c] \in Flag /\ Lacks(PrimaryHold, SecondaryHold[c])
  /\ \A flag \in {"m_capslock", "m_lgui", "m_rgui"} :
       Lacks(PrimaryHold, flag) /\ Lacks(SecondaryHold, flag)
  BY FlagsDiffer DEF Distinct, Lacks

(* A flag that is set as its key is keeps following it.                    *)
LEMMA HoldFollows ==
  ASSUME NEW f \in [Flag -> BOOLEAN], NEW hold, NEW e, NEW c \in DOMAIN hold, NEW keys,
         NEW v \in BOOLEAN, NEW keys2,
         Distinct(hold), Follows(f, hold, e, keys),
         Key(e, c) \in keys2 <=> v, Differ(keys, keys2, Key(e, c))
  PROVE  Follows([f EXCEPT ![hold[c]] = v], hold, e, keys2)
<1> SUFFICES ASSUME NEW k \in DOMAIN hold
             PROVE  [f EXCEPT ![hold[c]] = v][hold[k]] <=> Key(e, k) \in keys2
  BY DEF Follows
<1>1. CASE k = c
  <2>1. [f EXCEPT ![hold[c]] = v][hold[c]] = v
    BY DEF Distinct
  <2> QED
    BY <1>1, <2>1, Zenon
<1>2. CASE k # c
  <2>1. hold[k] # hold[c] /\ hold[k] \in Flag
    BY <1>2 DEF Distinct
  <2>2. [f EXCEPT ![hold[c]] = v][hold[k]] = f[hold[k]]
    BY <2>1
  <2>3. Key(e, k) # Key(e, c)
    BY <1>2, KeysDiffer, Zenon
  <2>4. f[hold[k]] <=> Key(e, k) \in keys
    BY Zenon DEF Follows
  <2> QED
    BY <2>2, <2>3, <2>4, Zenon DEF Differ
<1> QED
  BY <1>1, <1>2

(* A change of a key and of a flag that are not among these disturbs nothing. *)
LEMMA OthersFollow ==
  ASSUME NEW f \in [Flag -> BOOLEAN], NEW hold, NEW e, NEW keys, NEW flag,
         NEW v, NEW keys2, NEW key,
         Lacks(hold, flag), Follows(f, hold, e, keys), ~IsOf(key, hold, e),
         Differ(keys, keys2, key)
  PROVE  Follows([f EXCEPT ![flag] = v], hold, e, keys2)
<1> SUFFICES ASSUME NEW k \in DOMAIN hold
             PROVE  [f EXCEPT ![flag] = v][hold[k]] <=> Key(e, k) \in keys2
  BY DEF Follows
<1>1. hold[k] # flag /\ hold[k] \in Flag
  BY DEF Lacks
<1>2. [f EXCEPT ![flag] = v][hold[k]] = f[hold[k]]
  BY <1>1
<1>3. Key(e, k) # key
  BY Zenon DEF IsOf
<1>4. f[hold[k]] <=> Key(e, k) \in keys
  BY Zenon DEF Follows
<1> QED
  BY <1>2, <1>3, <1>4, Zenon DEF Differ

(* Nor does a change of another key that has no flag.                      *)
LEMMA StillFollows ==
  ASSUME NEW f, NEW hold, NEW e, NEW keys, NEW keys2, NEW key,
         Follows(f, hold, e, keys), ~IsOf(key, hold, e), Differ(keys, keys2, key)
  PROVE  Follows(f, hold, e, keys2)
<1> SUFFICES ASSUME NEW k \in DOMAIN hold
             PROVE  f[hold[k]] <=> Key(e, k) \in keys2
  BY DEF Follows
<1>1. Key(e, k) # key
  BY Zenon DEF IsOf
<1>2. f[hold[k]] <=> Key(e, k) \in keys
  BY Zenon DEF Follows
<1> QED
  BY <1>1, <1>2, Zenon DEF Differ

(* The code of a key that goes down sets its flag, or turns it over. *)
LEMMA FlagsWhenPressed ==
  ASSUME NEW d \in Drivers, NEW key \in Keys, d.sec = key.ext, d.rel = FALSE,
         NEW keys, NEW caps \in BOOLEAN, FlagsAgree(d.m, keys, caps)
  PROVE  FlagsAgree(FlagsAfter(d, key.code), keys \cup {key},
                    caps # (key = Key(FALSE, CAPSLOCK)))
<1> DEFINE f == d.m
           c == key.code
           f2 == FlagsAfter(d, c)
           keys2 == keys \cup {key}
           caps2 == caps # (key = Key(FALSE, CAPSLOCK))
<1>1. f \in [Flag -> BOOLEAN] /\ key.ext \in BOOLEAN /\ key = Key(key.ext, c)
  BY KeysAreCodes DEF Drivers
<1>2. key \in keys2 /\ Differ(keys, keys2, key)
  BY DEF Differ
<1>3. /\ Follows(f, PrimaryHold, FALSE, keys) /\ Follows(f, SecondaryHold, TRUE, keys)
      /\ f["m_capslock"] <=> caps
  BY DEF FlagsAgree
<1>4. CAPSLOCK \notin DOMAIN PrimaryHold
  BY Flags, Codes
<1>5. "m_capslock" \in Flag
  BY DEF Flag
<1> SUFFICES FlagsAgree(f2, keys2, caps2)
  OBVIOUS
<1> HIDE DEF c, keys2, f
<1>6. CASE key.ext = FALSE
  <2>1. key = Key(FALSE, c)
    BY <1>1, <1>6
  <2>2. ~IsOf(key, SecondaryHold, TRUE)
    BY <2>1, PrefixesDiffer, Zenon DEF IsOf
  <2>3. CASE c \in DOMAIN PrimaryHold
    <3>1. f2 = [f EXCEPT ![PrimaryHold[c]] = TRUE]
      BY <1>6, <2>3 DEF FlagsAfter, SetFlag, f
    <3>2. Follows([f EXCEPT ![PrimaryHold[c]] = TRUE], PrimaryHold, FALSE, keys2)
      <4>1. Key(FALSE, c) \in keys2 <=> TRUE
        BY <1>2, <2>1
      <4>2. Differ(keys, keys2, Key(FALSE, c)) /\ Distinct(PrimaryHold) /\ TRUE \in BOOLEAN
        BY <1>2, <2>1, HoldsAreDistinct
      <4> QED
        BY <1>1, <1>3, <2>3, <4>1, <4>2, HoldFollows
    <3>3. Follows([f EXCEPT ![PrimaryHold[c]] = TRUE], SecondaryHold, TRUE, keys2)
      <4>1. Lacks(SecondaryHold, PrimaryHold[c])
        BY <2>3, HoldsAreDistinct
      <4> QED
        BY <1>1, <1>2, <1>3, <2>2, <4>1, OthersFollow
    <3>4. f2["m_capslock"] <=> caps2
      <4>1. PrimaryHold[c] # "m_capslock"
        BY <2>3, FlagsDiffer
      <4>2. f2["m_capslock"] = f["m_capslock"]
        BY <1>1, <1>5, <3>1, <4>1
      <4>3. key # Key(FALSE, CAPSLOCK)
        BY <1>4, <2>1, <2>3, KeysDiffer, Zenon
      <4>4. caps2 = caps
        BY <4>3
      <4> QED
        BY <1>3, <4>2, <4>4, Zenon
    <3> QED
      BY <3>1, <3>2, <3>3, <3>4, Zenon DEF FlagsAgree
  <2>4. CASE c = CAPSLOCK
    <3>1. f2 = [f EXCEPT !["m_capslock"] = ~f["m_capslock"]]
      BY <1>4, <1>6, <2>4, Flags DEF FlagsAfter, SetFlag, f
    <3>2. ~IsOf(key, PrimaryHold, FALSE)
      BY <1>4, <2>1, <2>4, KeysDiffer, Zenon DEF IsOf
    <3>3. Lacks(PrimaryHold, "m_capslock") /\ Lacks(SecondaryHold, "m_capslock")
      BY HoldsAreDistinct
    <3>4. /\ Follows([f EXCEPT !["m_capslock"] = ~f["m_capslock"]], PrimaryHold, FALSE, keys2)
          /\ Follows([f EXCEPT !["m_capslock"] = ~f["m_capslock"]], SecondaryHold, TRUE, keys2)
      BY <1>1, <1>2, <1>3, <2>2, <3>2, <3>3, OthersFollow
    <3>5. f2["m_capslock"] <=> caps2
      <4>1. f2["m_capslock"] = ~f["m_capslock"]
        BY <1>1, <1>5, <3>1
      <4>2. caps2 = ~caps
        BY <2>1, <2>4
      <4> QED
        BY <1>3, <4>1, <4>2, Zenon
    <3> QED
      BY <3>1, <3>4, <3>5, Zenon DEF FlagsAgree
  <2>5. CASE c # CAPSLOCK /\ c \notin DOMAIN PrimaryHold
    <3>1. f2 = f
      BY <1>6, <2>5, Flags DEF FlagsAfter, f
    <3>2. ~IsOf(key, PrimaryHold, FALSE)
      BY <2>1, <2>5, KeysDiffer, Zenon DEF IsOf
    <3>3. key # Key(FALSE, CAPSLOCK)
      BY <2>1, <2>5, KeysDiffer, Zenon
    <3>4. caps2 = caps
      BY <3>3
    <3>5. Follows(f, PrimaryHold, FALSE, keys2) /\ Follows(f, SecondaryHold, TRUE, keys2)
      BY <1>2, <1>3, <2>2, <3>2, StillFollows, Zenon
    <3> QED
      BY <1>3, <3>1, <3>4, <3>5, Zenon DEF FlagsAgree
  <2> QED
    BY <2>3, <2>4, <2>5
<1>7. CASE key.ext = TRUE
  <2>1. key = Key(TRUE, c)
    BY <1>1, <1>7
  <2>2. ~IsOf(key, PrimaryHold, FALSE)
    BY <2>1, PrefixesDiffer, Zenon DEF IsOf
  <2>3. key # Key(FALSE, CAPSLOCK)
    BY <2>1, PrefixesDiffer, Zenon
  <2>4. caps2 = caps
    BY <2>3
  <2>5. CASE c \in DOMAIN SecondaryHold
    <3>1. f2 = [f EXCEPT ![SecondaryHold[c]] = TRUE]
      BY <1>7, <2>5 DEF FlagsAfter, SetFlag, f
    <3>2. Follows([f EXCEPT ![SecondaryHold[c]] = TRUE], SecondaryHold, TRUE, keys2)
      <4>1. Key(TRUE, c) \in keys2 <=> TRUE
        BY <1>2, <2>1
      <4>2. Differ(keys, keys2, Key(TRUE, c)) /\ Distinct(SecondaryHold) /\ TRUE \in BOOLEAN
        BY <1>2, <2>1, HoldsAreDistinct
      <4> QED
        BY <1>1, <1>3, <2>5, <4>1, <4>2, HoldFollows
    <3>3. Follows([f EXCEPT ![SecondaryHold[c]] = TRUE], PrimaryHold, FALSE, keys2)
      <4>1. Lacks(PrimaryHold, SecondaryHold[c])
        BY <2>5, HoldsAreDistinct
      <4> QED
        BY <1>1, <1>2, <1>3, <2>2, <4>1, OthersFollow
    <3>4. f2["m_capslock"] = f["m_capslock"]
      <4>1. SecondaryHold[c] # "m_capslock"
        BY <2>5, FlagsDiffer
      <4> QED
        BY <1>1, <1>5, <3>1, <4>1
    <3> QED
      BY <1>3, <2>4, <3>1, <3>2, <3>3, <3>4, Zenon DEF FlagsAgree
  <2>6. CASE c \in DOMAIN SecondaryToggle
    <3> DEFINE g == SecondaryToggle[c]
    <3>1. c \notin DOMAIN SecondaryHold /\ g \in {"m_lgui", "m_rgui"}
      BY <2>6, Flags, Codes
    <3>2. f2 = [f EXCEPT ![g] = ~f[g]]
      BY <1>7, <2>6, <3>1 DEF FlagsAfter, SetFlag, f
    <3>3. Lacks(PrimaryHold, g) /\ Lacks(SecondaryHold, g) /\ g # "m_capslock"
      BY <3>1, HoldsAreDistinct
    <3> HIDE DEF g
    <3>4. ~IsOf(key, SecondaryHold, TRUE)
      BY <2>1, <3>1, KeysDiffer, Zenon DEF IsOf
    <3>5. /\ Follows([f EXCEPT ![g] = ~f[g]], PrimaryHold, FALSE, keys2)
          /\ Follows([f EXCEPT ![g] = ~f[g]], SecondaryHold, TRUE, keys2)
      BY <1>1, <1>2, <1>3, <2>2, <3>3, <3>4, OthersFollow
    <3>6. f2["m_capslock"] = f["m_capslock"]
      BY <1>1, <1>5, <3>2, <3>3
    <3> QED
      BY <1>3, <2>4, <3>2, <3>5, <3>6, Zenon DEF FlagsAgree
  <2>7. CASE c \notin DOMAIN SecondaryHold /\ c \notin DOMAIN SecondaryToggle
    <3>1. f2 = f
      BY <1>7, <2>7 DEF FlagsAfter, f
    <3>2. ~IsOf(key, SecondaryHold, TRUE)
      BY <2>1, <2>7, KeysDiffer, Zenon DEF IsOf
    <3>3. Follows(f, PrimaryHold, FALSE, keys2) /\ Follows(f, SecondaryHold, TRUE, keys2)
      BY <1>2, <1>3, <2>2, <3>2, StillFollows, Zenon
    <3> QED
      BY <1>3, <2>4, <3>1, <3>3, Zenon DEF FlagsAgree
  <2> QED
    BY <2>5, <2>6, <2>7
<1> QED
  BY <1>1, <1>6, <1>7

(* The code of a key that goes up clears its flag. *)
LEMMA FlagsWhenReleased ==
  ASSUME NEW d \in Drivers, NEW key \in Keys, d.sec = key.ext, d.rel = TRUE,
         NEW keys, NEW caps \in BOOLEAN, FlagsAgree(d.m, keys, caps)
  PROVE  FlagsAgree(FlagsAfter(d, key.code), keys \ {key}, caps)
<1> DEFINE f == d.m
           c == key.code
           f2 == FlagsAfter(d, c)
           keys2 == keys \ {key}
<1>1. f \in [Flag -> BOOLEAN] /\ key.ext \in BOOLEAN /\ key = Key(key.ext, c)
  BY KeysAreCodes DEF Drivers
<1>2. key \notin keys2 /\ Differ(keys, keys2, key)
  BY DEF Differ
<1>3. /\ Follows(f, PrimaryHold, FALSE, keys) /\ Follows(f, SecondaryHold, TRUE, keys)
      /\ f["m_capslock"] <=> caps
  BY DEF FlagsAgree
<1>4. "m_capslock" \in Flag /\ (~d.rel) = FALSE
  BY DEF Flag
<1> SUFFICES FlagsAgree(f2, keys2, caps)
  OBVIOUS
<1> HIDE DEF c, keys2, f
<1>5. CASE key.ext = FALSE
  <2>1. key = Key(FALSE, c)
    BY <1>1, <1>5
  <2>2. ~IsOf(key, SecondaryHold, TRUE)
    BY <2>1, PrefixesDiffer, Zenon DEF IsOf
  <2>3. CASE c \in DOMAIN PrimaryHold
    <3>1. f2 = [f EXCEPT ![PrimaryHold[c]] = FALSE]
      BY <1>4, <1>5, <2>3 DEF FlagsAfter, SetFlag, f
    <3>2. Follows([f EXCEPT ![PrimaryHold[c]] = FALSE], PrimaryHold, FALSE, keys2)
      <4>1. Key(FALSE, c) \in keys2 <=> FALSE
        BY <1>2, <2>1
      <4>2. Differ(keys, keys2, Key(FALSE, c)) /\ Distinct(PrimaryHold) /\ FALSE \in BOOLEAN
        BY <1>2, <2>1, HoldsAreDistinct
      <4> QED
        BY <1>1, <1>3, <2>3, <4>1, <4>2, HoldFollows
    <3>3. Follows([f EXCEPT ![PrimaryHold[c]] = FALSE], SecondaryHold, TRUE, keys2)
      <4>1. Lacks(SecondaryHold, PrimaryHold[c])
        BY <2>3, HoldsAreDistinct
      <4> QED
        BY <1>1, <1>2, <1>3, <2>2, <4>1, OthersFollow
    <3>4. f2["m_capslock"] = f["m_capslock"]
      <4>1. PrimaryHold[c] # "m_capslock"
        BY <2>3, FlagsDiffer
      <4> QED
        BY <1>1, <1>4, <3>1, <4>1
    <3> QED
      BY <1>3, <3>1, <3>2, <3>3, <3>4, Zenon DEF FlagsAgree
  <2>4. CASE c \notin DOMAIN PrimaryHold
    <3>1. f2 = f
      BY <1>5, <2>4 DEF FlagsAfter, f
    <3>2. ~IsOf(key, PrimaryHold, FALSE)
      BY <2>1, <2>4, KeysDiffer, Zenon DEF IsOf
    <3>3. Follows(f, PrimaryHold, FALSE, keys2) /\ Follows(f, SecondaryHold, TRUE, keys2)
      BY <1>2, <1>3, <2>2, <3>2, StillFollows, Zenon
    <3> QED
      BY <1>3, <3>1, <3>3, Zenon DEF FlagsAgree
  <2> QED
    BY <2>3, <2>4
<1>6. CASE key.ext = TRUE
  <2>1. key = Key(TRUE, c)
    BY <1>1, <1>6
  <2>2. ~IsOf(key, PrimaryHold, FALSE)
    BY <2>1, PrefixesDiffer, Zenon DEF IsOf
  <2>3. CASE c \in DOMAIN SecondaryHold
    <3>1. f2 = [f EXCEPT ![SecondaryHold[c]] = FALSE]
      BY <1>4, <1>6, <2>3 DEF FlagsAfter, SetFlag, f
    <3>2. Follows([f EXCEPT ![SecondaryHold[c]] = FALSE], SecondaryHold, TRUE, keys2)
      <4>1. Key(TRUE, c) \in keys2 <=> FALSE
        BY <1>2, <2>1
      <4>2. Differ(keys, keys2, Key(TRUE, c)) /\ Distinct(SecondaryHold) /\ FALSE \in BOOLEAN
        BY <1>2, <2>1, HoldsAreDistinct
      <4> QED
        BY <1>1, <1>3, <2>3, <4>1, <4>2, HoldFollows
    <3>3. Follows([f EXCEPT ![SecondaryHold[c]] = FALSE], PrimaryHold, FALSE, keys2)
      <4>1. Lacks(PrimaryHold, SecondaryHold[c])
        BY <2>3, HoldsAreDistinct
      <4> QED
        BY <1>1, <1>2, <1>3, <2>2, <4>1, OthersFollow
    <3>4. f2["m_capslock"] = f["m_capslock"]
      <4>1. SecondaryHold[c] # "m_capslock"
        BY <2>3, FlagsDiffer
      <4> QED
        BY <1>1, <1>4, <3>1, <4>1
    <3> QED
      BY <1>3, <3>1, <3>2, <3>3, <3>4, Zenon DEF FlagsAgree
  <2>4. CASE c \notin DOMAIN SecondaryHold
    <3>1. f2 = f
      BY <1>6, <2>4 DEF FlagsAfter, f
    <3>2. ~IsOf(key, SecondaryHold, TRUE)
      BY <2>1, <2>4, KeysDiffer, Zenon DEF IsOf
    <3>3. Follows(f, PrimaryHold, FALSE, keys2) /\ Follows(f, SecondaryHold, TRUE, keys2)
      BY <1>2, <1>3, <2>2, <3>2, StillFollows, Zenon
    <3> QED
      BY <1>3, <3>1, <3>3, Zenon DEF FlagsAgree
  <2> QED
    BY <2>3, <2>4
<1> QED
  BY <1>1, <1>5, <1>6

(* What is typed is text. *)
LEMMA LegendIsText ==
  ASSUME NEW key \in Keys
  PROVE  Legend(key) \in Texts
<1>1. Level \in Levels
  BY DEF Level, Levels
<1>2. Labels[key][Level] \in Texts
  BY <1>1, KeyboardAssumption DEF Texts
<1>3. << >> \in Texts
  BY DEF Texts
<1> QED
  BY <1>2, <1>3, Zenon DEF Legend

(* What is printed for a key is what it is labelled with. *)
LEMMA PrintedIsLegend ==
  ASSUME NEW d \in Drivers, NEW key \in Keys, d.sec = key.ext, d.rel = FALSE,
         FlagsAgree(d.m, held, capslock), TablesMatch
  PROVE  PrintedOn(d, key.code) = Legend(key)
<1>1. /\ key.ext \in BOOLEAN /\ key.code \notin {SECONDARY_SIGNAL, RELEASE_SIGNAL}
      /\ key = Key(key.ext, key.code)
  BY KeysAreCodes
<1>2. ShiftIsHeld <=> d.m["m_lshift"] \/ d.m["m_rshift"]
  <2>1. LSHIFT \in DOMAIN PrimaryHold /\ RSHIFT \in DOMAIN PrimaryHold
    BY Flags
  <2>2. /\ d.m[PrimaryHold[LSHIFT]] <=> Key(FALSE, LSHIFT) \in held
        /\ d.m[PrimaryHold[RSHIFT]] <=> Key(FALSE, RSHIFT) \in held
    BY <2>1, Zenon DEF FlagsAgree, Follows
  <2>3. PrimaryHold[LSHIFT] = "m_lshift" /\ PrimaryHold[RSHIFT] = "m_rshift"
    BY Flags
  <2>4. ShiftIsHeld <=> Key(FALSE, LSHIFT) \in held \/ Key(FALSE, RSHIFT) \in held
    BY DEF ShiftIsHeld
  <2> QED
    BY <2>2, <2>3, <2>4, Zenon
<1>3. capslock <=> d.m["m_capslock"]
  BY Zenon DEF FlagsAgree
<1>4. key \in Modifiers <=>
        \/ key.ext /\ key.code \in DOMAIN SecondaryHold \cup DOMAIN SecondaryToggle
        \/ ~key.ext /\ key.code \in DOMAIN PrimaryHold \cup DOMAIN PrimaryToggle
  <2>1. CASE key.ext = TRUE
    <3>1. key = Key(TRUE, key.code)
      BY <1>1, <2>1
    <3>2. \A k : key # Key(FALSE, k)
      BY <3>1, PrefixesDiffer, Zenon
    <3>3. \A k : key = Key(TRUE, k) <=> k = key.code
      BY <3>1, KeysDiffer, Zenon
    <3> QED
      BY <2>1, <3>2, <3>3, Zenon DEF Modifiers
  <2>2. CASE key.ext = FALSE
    <3>1. key = Key(FALSE, key.code)
      BY <1>1, <2>2
    <3>2. \A k : key # Key(TRUE, k)
      BY <3>1, PrefixesDiffer, Zenon
    <3>3. \A k : key = Key(FALSE, k) <=> k = key.code
      BY <3>1, KeysDiffer, Zenon
    <3> QED
      BY <2>2, <3>2, <3>3, Zenon DEF Modifiers
  <2> QED
    BY <1>1, <2>1, <2>2
<1>5. MapIn(d) = MapAt(key, Level)
  <2>1. CASE key.ext
    BY <2>1 DEF MapIn, MapAt
  <2>2. CASE ~key.ext /\ ShiftIsHeld
    <3>1. Level = "shifted"
      BY <2>2 DEF Level
    <3> QED
      BY <1>2, <2>2, <3>1 DEF MapIn, MapAt
  <2>3. CASE ~key.ext /\ ~ShiftIsHeld /\ capslock
    <3>1. Level = "caps"
      BY <2>3 DEF Level
    <3> QED
      BY <1>2, <1>3, <2>3, <3>1 DEF MapIn, MapAt
  <2>4. CASE ~key.ext /\ ~ShiftIsHeld /\ ~capslock
    <3>1. Level = "plain"
      BY <2>4 DEF Level
    <3> QED
      BY <1>2, <1>3, <2>4, <3>1 DEF MapIn, MapAt
  <2> QED
    BY <2>1, <2>2, <2>3, <2>4
<1>6. Silent(d, key.code) <=> key \in Modifiers \/ key.code \notin DOMAIN MapIn(d)
  BY <1>1, <1>4, Zenon DEF Silent
<1>7. CASE key \in Modifiers
  BY <1>6, <1>7 DEF PrintedOn, Legend
<1>8. CASE key \notin Modifiers
  <2>1. Level \in Levels
    BY DEF Level, Levels
  <2>2. Labels[key][Level] =
          IF key.code \in DOMAIN MapAt(key, Level) THEN <<MapAt(key, Level)[key.code]>> ELSE << >>
    BY <1>8, <2>1, Zenon DEF TablesMatch
  <2>3. Legend(key) = Labels[key][Level]
    BY <1>8 DEF Legend
  <2> QED
    BY <1>5, <1>6, <1>8, <2>2, <2>3 DEF PrintedOn
<1> QED
  BY <1>7, <1>8

-----------------------------------------------------------------------------
(* A signal prints nothing, and is remembered. *)
LEMMA SignalLeads ==
  ASSUME NEW bytes \in Seq(Bytes), NEW first, NEW text \in Texts, NEW last \in Drivers,
         Leads(first, text, bytes, last), NEW b \in {SECONDARY_SIGNAL, RELEASE_SIGNAL}
  PROVE  /\ Leads(first, text, Append(bytes, b), Decoded(last, b))
         /\ Append(bytes, b) \in Seq(Bytes) /\ Decoded(last, b) \in Drivers
         /\ b = SECONDARY_SIGNAL => Decoded(last, b) = [last EXCEPT !.sec = TRUE]
         /\ b = RELEASE_SIGNAL => Decoded(last, b) = [last EXCEPT !.rel = TRUE]
<1>1. b \in Bytes
  BY Codes DEF Bytes
<1>2. PrintedOn(last, b) = << >>
  BY DEF PrintedOn, Silent
<1>3. text \o << >> = text
  BY DEF Texts
<1>4. Leads(first, text \o PrintedOn(last, b), Append(bytes, b), Decoded(last, b))
  BY <1>1, LeadsFurther
<1>5. SECONDARY_SIGNAL # RELEASE_SIGNAL
  BY Codes
<1>6. /\ b = SECONDARY_SIGNAL => Decoded(last, b) = [last EXCEPT !.sec = TRUE]
      /\ b = RELEASE_SIGNAL => Decoded(last, b) = [last EXCEPT !.rel = TRUE]
  BY <1>5 DEF Decoded
<1>7. Append(bytes, b) \in Seq(Bytes) /\ Decoded(last, b) \in Drivers
  BY <1>1, DecodedIsDriver
<1> QED
  BY <1>2, <1>3, <1>4, <1>6, <1>7

(* A prefix is a sequence of bytes. *)
LEMMA PrefixIsBytes ==
  ASSUME NEW key
  PROVE  Prefix(key) \in Seq(Bytes)
<1>1. SECONDARY_SIGNAL \in Bytes
  BY Codes DEF Bytes
<1>2. <<SECONDARY_SIGNAL>> \in Seq(Bytes) /\ << >> \in Seq(Bytes)
  BY <1>1
<1> QED
  BY <1>2, Zenon DEF Prefix

(* The prefix of a key's codes tells the driver which tables to use. *)
LEMMA PrefixLeads ==
  ASSUME NEW bytes \in Seq(Bytes), NEW first, NEW text \in Texts, NEW last \in Drivers,
         Leads(first, text, bytes, last), NEW key \in Keys, last.sec = FALSE
  PROVE  \E mid \in Drivers :
           /\ Leads(first, text, bytes \o Prefix(key), mid)
           /\ bytes \o Prefix(key) \in Seq(Bytes)
           /\ mid.m = last.m /\ mid.sec = key.ext /\ mid.rel = last.rel
<1>1. CASE key.ext = TRUE
  <2> DEFINE mid == [last EXCEPT !.sec = TRUE]
  <2>1. bytes \o Prefix(key) = Append(bytes, SECONDARY_SIGNAL)
    BY <1>1 DEF Prefix
  <2>2. /\ Leads(first, text, Append(bytes, SECONDARY_SIGNAL), mid)
        /\ Append(bytes, SECONDARY_SIGNAL) \in Seq(Bytes) /\ mid \in Drivers
    <3>1. SECONDARY_SIGNAL \in {SECONDARY_SIGNAL, RELEASE_SIGNAL}
      OBVIOUS
    <3>2. Decoded(last, SECONDARY_SIGNAL) = mid
      BY <3>1, SignalLeads
    <3> HIDE DEF mid
    <3> QED
      BY <3>1, <3>2, SignalLeads
  <2>3. mid.m = last.m /\ mid.sec = TRUE /\ mid.rel = last.rel
    BY DEF Drivers
  <2> HIDE DEF mid
  <2> QED
    BY <1>1, <2>1, <2>2, <2>3
<1>2. CASE key.ext = FALSE
  <2>1. bytes \o Prefix(key) = bytes
    BY <1>2 DEF Prefix
  <2> QED
    BY <1>2, <2>1
<1> QED
  BY <1>1, <1>2, KeysAreCodes

(* Its code is the end of a scan code. *)
LEMMA CodeLeads ==
  ASSUME NEW bytes \in Seq(Bytes), NEW first, NEW text, NEW mid \in Drivers,
         Leads(first, text, bytes, mid), NEW key \in Keys, NEW keys, NEW caps,
         FlagsAgree(FlagsAfter(mid, key.code), keys, caps)
  PROVE  \E last \in Drivers :
           /\ Leads(first, text \o PrintedOn(mid, key.code), Append(bytes, key.code), last)
           /\ Agrees(last, keys, caps)
<1> DEFINE last == Decoded(mid, key.code)
<1>1. key.code \in Bytes /\ key.code \notin {SECONDARY_SIGNAL, RELEASE_SIGNAL}
  BY KeysAreCodes
<1>2. last \in Drivers
  BY <1>1, DecodedIsDriver
<1>3. Agrees(last, keys, caps)
  <2>1. last = [m |-> FlagsAfter(mid, key.code), sec |-> FALSE, rel |-> FALSE]
    BY <1>1 DEF Decoded
  <2>2. last.m = FlagsAfter(mid, key.code) /\ last.sec = FALSE /\ last.rel = FALSE
    BY <2>1
  <2> QED
    BY <2>2, Zenon DEF Agrees
<1>4. Leads(first, text \o PrintedOn(mid, key.code), Append(bytes, key.code), last)
  BY <1>1, LeadsFurther
<1> QED
  BY <1>2, <1>3, <1>4

(* After the make code of a key the driver takes it to be down, and has    *)
(* printed what it is labelled with.                                       *)
TakenDown(first, text, bytes, key) ==
  \E last \in Drivers, text2 \in Texts :
    /\ Leads(first, text2, bytes \o MakeCode(key), last)
    /\ Agrees(last, held \cup {key}, capslock # (key = Key(FALSE, CAPSLOCK)))
    /\ TablesMatch => text2 = text \o Legend(key)

LEMMA MakeCodeLeads ==
  ASSUME NEW bytes \in Seq(Bytes), NEW first, NEW text \in Texts, NEW last \in Drivers,
         Leads(first, text, bytes, last), NEW key \in Keys,
         Agrees(last, held, capslock), capslock \in BOOLEAN
  PROVE  /\ bytes \o MakeCode(key) \in Seq(Bytes)
         /\ TakenDown(first, text, bytes, key)
<1>1. last.sec = FALSE /\ last.rel = FALSE /\ FlagsAgree(last.m, held, capslock)
  BY DEF Agrees, Drivers
<1> DEFINE start == bytes \o Prefix(key)
<1>2. PICK mid \in Drivers : /\ Leads(first, text, start, mid)
                             /\ start \in Seq(Bytes)
                             /\ mid.m = last.m /\ mid.sec = key.ext /\ mid.rel = last.rel
  BY <1>1, PrefixLeads
<1>3. mid.rel = FALSE /\ FlagsAgree(mid.m, held, capslock)
  BY <1>1, <1>2
<1>4. TablesMatch => PrintedOn(mid, key.code) = Legend(key)
  BY <1>2, <1>3, PrintedIsLegend
<1>5. FlagsAgree(FlagsAfter(mid, key.code), held \cup {key},
                 capslock # (key = Key(FALSE, CAPSLOCK)))
  BY <1>2, <1>3, FlagsWhenPressed
<1>6. key.code \in Bytes
  BY KeysAreCodes
<1>7. bytes \o MakeCode(key) = Append(start, key.code)
  <2>1. Prefix(key) \in Seq(Bytes)
    BY PrefixIsBytes
  <2> QED
    BY <1>6, <2>1 DEF MakeCode
<1>8. text \o PrintedOn(mid, key.code) \in Texts
  <2>1. PrintedOn(mid, key.code) \in Texts
    BY PrintedIsText
  <2> QED
    BY <2>1 DEF Texts
<1> HIDE DEF start
<1>9. \E last2 \in Drivers :
        /\ Leads(first, text \o PrintedOn(mid, key.code),
                 Append(start, key.code), last2)
        /\ Agrees(last2, held \cup {key}, capslock # (key = Key(FALSE, CAPSLOCK)))
  BY <1>2, <1>5, CodeLeads
<1>10. Append(start, key.code) \in Seq(Bytes)
  BY <1>2, <1>6
<1> QED
  BY <1>4, <1>7, <1>8, <1>9, <1>10 DEF TakenDown

(* After its break code the driver takes it to be up, and has printed nothing. *)
LEMMA BreakCodeLeads ==
  ASSUME NEW bytes \in Seq(Bytes), NEW first, NEW text \in Texts, NEW last \in Drivers,
         Leads(first, text, bytes, last), NEW key \in Keys,
         Agrees(last, held, capslock), capslock \in BOOLEAN
  PROVE  /\ bytes \o BreakCode(key) \in Seq(Bytes)
         /\ \E last2 \in Drivers :
              /\ Leads(first, text, bytes \o BreakCode(key), last2)
              /\ Agrees(last2, held \ {key}, capslock)
<1>1. last.sec = FALSE /\ last.rel = FALSE /\ FlagsAgree(last.m, held, capslock)
  BY DEF Agrees, Drivers
<1> DEFINE start == bytes \o Prefix(key)
<1>2. PICK mid \in Drivers : /\ Leads(first, text, start, mid)
                             /\ start \in Seq(Bytes)
                             /\ mid.m = last.m /\ mid.sec = key.ext /\ mid.rel = last.rel
  BY <1>1, PrefixLeads
<1> DEFINE bytes2 == Append(start, RELEASE_SIGNAL)
           mid2 == [mid EXCEPT !.rel = TRUE]
<1>3. Leads(first, text, bytes2, mid2) /\ bytes2 \in Seq(Bytes) /\ mid2 \in Drivers
  <2> HIDE DEF start
  <2>1. RELEASE_SIGNAL \in {SECONDARY_SIGNAL, RELEASE_SIGNAL}
    OBVIOUS
  <2>2. Decoded(mid, RELEASE_SIGNAL) = mid2
    BY <1>2, <2>1, SignalLeads
  <2> HIDE DEF mid2
  <2> QED
    BY <1>2, <2>1, <2>2, SignalLeads
<1>4. mid2.m = last.m /\ mid2.sec = key.ext /\ mid2.rel = TRUE
  BY <1>2 DEF Drivers
<1> HIDE DEF mid2
<1>5. FlagsAgree(FlagsAfter(mid2, key.code), held \ {key}, capslock)
  <2>1. FlagsAgree(mid2.m, held, capslock)
    BY <1>1, <1>4
  <2> QED
    BY <1>3, <1>4, <2>1, FlagsWhenReleased
<1>6. PrintedOn(mid2, key.code) = << >>
  BY <1>4 DEF PrintedOn, Silent
<1>7. text \o << >> = text
  BY DEF Texts
<1>8. key.code \in Bytes /\ RELEASE_SIGNAL \in Bytes
  BY KeysAreCodes, Codes DEF Bytes
<1>9. bytes \o BreakCode(key) = Append(bytes2, key.code)
  <2>1. Prefix(key) \in Seq(Bytes)
    BY PrefixIsBytes
  <2> QED
    BY <1>8, <2>1, SMTT(30) DEF BreakCode
<1> HIDE DEF bytes2
<1>10. \E last2 \in Drivers :
         /\ Leads(first, text \o PrintedOn(mid2, key.code), Append(bytes2, key.code), last2)
         /\ Agrees(last2, held \ {key}, capslock)
  BY <1>3, <1>5, CodeLeads
<1> QED
  BY <1>3, <1>6, <1>7, <1>8, <1>9, <1>10
-----------------------------------------------------------------------------
(* What is printed leaves text to be printed. *)
LEMMA PutCharTypes ==
  ASSUME Types, NEW c, PutChar(c)
  PROVE  owed' \in Texts /\ garbled' \in BOOLEAN
<1>1. owed \in Seq(Characters) /\ garbled \in BOOLEAN
  BY DEF Types, Texts
<1>2. owed # << >> => Tail(owed) \in Seq(Characters)
  BY <1>1
<1>3. << >> \in Seq(Characters)
  OBVIOUS
<1> QED
  BY <1>1, <1>2, <1>3 DEF PutChar, Texts

(* Behind the end of a table anything may be printed, but not before.      *)
LEMMA EchoTypes ==
  ASSUME Types, NEW map, NEW size, NEW b, Echo(map, size, b)
  PROVE  owed' \in Texts /\ garbled' \in BOOLEAN /\ beyond' \in BOOLEAN /\ (beyond => beyond')
<1>1. CASE b \in DOMAIN map /\ PutChar(map[b]) /\ UNCHANGED beyond
  BY <1>1, PutCharTypes DEF Types
<1>2. CASE UNCHANGED screen
  BY <1>2 DEF screen, Types
<1>3. CASE beyond' = TRUE /\ UNCHANGED <<owed, garbled>>
  BY <1>3 DEF Types
<1>4. CASE beyond' = TRUE /\ \E c \in Characters : PutChar(c)
  BY <1>4, PutCharTypes
<1> QED
  BY <1>1, <1>2, <1>3, <1>4 DEF Echo

(* A character that is owed is paid for. *)
LEMMA EchoPays ==
  ASSUME NEW map, NEW size, NEW b, NEW rest, Echo(map, size, b), ~garbled, ~beyond',
         b \in DOMAIN map => owed # << >> /\ Head(owed) = map[b] /\ Tail(owed) = rest,
         b \notin DOMAIN map => owed = rest
  PROVE  owed' = rest /\ ~garbled'
<1>1. CASE b \in DOMAIN map /\ PutChar(map[b])
  BY <1>1 DEF PutChar
<1>2. CASE b \notin DOMAIN map /\ UNCHANGED screen
  BY <1>2 DEF screen
<1> QED
  BY <1>1, <1>2 DEF Echo

(* handle_irq does what Decoded and PrintedOn say. *)
LEMMA IrqDecodes ==
  ASSUME Types, queue # << >>, handle_irq, NEW rest \in Texts
  PROVE  /\ queue' = Tail(queue) /\ held' = held /\ capslock' = capslock
         /\ Current' = Decoded(Current, Head(queue))
         /\ owed' \in Texts /\ garbled' \in BOOLEAN /\ beyond' \in BOOLEAN
         /\ beyond => beyond'
         /\ ~beyond' /\ ~garbled /\ owed = PrintedOn(Current, Head(queue)) \o rest =>
              ~garbled' /\ owed' = rest
<1> DEFINE b == Head(queue)
           d == Current
<1>1. \/ Signal(b) \/ PrimaryPress(b) \/ SecondaryPress(b)
      \/ PrimaryRelease(b) \/ SecondaryRelease(b)
  BY DEF handle_irq
<1>2. d.m = m /\ d.sec = m_secondary_signal /\ d.rel = m_release_signal
  BY DEF Current
<1> DEFINE Owes == ~garbled /\ owed = PrintedOn(d, b) \o rest
           Paid == /\ owed' \in Texts /\ garbled' \in BOOLEAN /\ beyond' \in BOOLEAN
                   /\ beyond => beyond'
                   /\ ~beyond' /\ Owes => ~garbled' /\ owed' = rest
<1>3. Silent(d, b) /\ Owes => owed = rest
  BY DEF PrintedOn, Texts
<1>4. ~Silent(d, b) /\ Owes => owed # << >> /\ Head(owed) = MapIn(d)[b] /\ Tail(owed) = rest
  BY DEF PrintedOn, Texts
<1>5. m_secondary_signal \in BOOLEAN /\ m_release_signal \in BOOLEAN
  BY DEF Types
<1>12. ASSUME Silent(d, b), UNCHANGED screen
       PROVE  Paid
  BY <1>3, <1>12 DEF screen, Types
<1>13. ASSUME NEW size, Echo(MapIn(d), size, b), Silent(d, b) <=> b \notin DOMAIN MapIn(d)
       PROVE  Paid
  <2>1. owed' \in Texts /\ garbled' \in BOOLEAN /\ beyond' \in BOOLEAN /\ (beyond => beyond')
    BY <1>13, EchoTypes
  <2>2. ASSUME ~beyond', Owes
        PROVE  ~garbled' /\ owed' = rest
    <3>1. /\ b \in DOMAIN MapIn(d) => owed # << >> /\ Head(owed) = MapIn(d)[b] /\ Tail(owed) = rest
          /\ b \notin DOMAIN MapIn(d) => owed = rest
      BY <1>3, <1>4, <1>13, <2>2
    <3>2. ~garbled
      BY <2>2
    <3> QED
      BY <1>13, <2>2, <3>1, <3>2, EchoPays
  <2> QED
    BY <2>1, <2>2
<1>14. ASSUME Paid, Current' = Decoded(d, b), queue' = Tail(queue), held' = held,
              capslock' = capslock
       PROVE  /\ queue' = Tail(queue) /\ held' = held /\ capslock' = capslock
              /\ Current' = Decoded(Current, Head(queue))
              /\ owed' \in Texts /\ garbled' \in BOOLEAN /\ beyond' \in BOOLEAN
              /\ beyond => beyond'
              /\ ~beyond' /\ ~garbled /\ owed = PrintedOn(Current, Head(queue)) \o rest =>
                   ~garbled' /\ owed' = rest
  BY <1>14
<1> HIDE DEF Paid
<1> HIDE DEF b, d, Owes
<1>6. ASSUME b \notin {RELEASE_SIGNAL, SECONDARY_SIGNAL}, m' = FlagsAfter(d, b),
             m_secondary_signal' = FALSE, m_release_signal' = FALSE
      PROVE  Current' = Decoded(d, b)
  BY <1>6 DEF Current, Decoded
<1>7. CASE Signal(b)
  <2>1. b \in {RELEASE_SIGNAL, SECONDARY_SIGNAL}
    BY <1>7 DEF Signal
  <2>2. Silent(d, b)
    BY <2>1 DEF Silent
  <2>3. Current' = Decoded(d, b)
    <3>1. CASE b = RELEASE_SIGNAL
      <4>1. m' = m /\ m_secondary_signal' = m_secondary_signal /\ m_release_signal' = TRUE
        BY <1>7, <3>1, Codes DEF Signal
      <4> QED
        BY <3>1, <4>1 DEF Current, Decoded, d
    <3>2. CASE b = SECONDARY_SIGNAL
      <4>1. m' = m /\ m_secondary_signal' = TRUE /\ m_release_signal' = m_release_signal
        BY <1>7, <3>2, Codes DEF Signal
      <4>2. Decoded(d, b) = [d EXCEPT !.sec = TRUE]
        BY <3>2, Codes DEF Decoded
      <4> QED
        BY <4>1, <4>2 DEF Current, d
    <3> QED
      BY <2>1, <3>1, <3>2
  <2>4. UNCHANGED screen /\ queue' = Tail(queue) /\ held' = held /\ capslock' = capslock
    BY <1>7 DEF Signal, Receive
  <2> QED
    BY <1>12, <1>14, <2>2, <2>3, <2>4
<1>8. CASE PrimaryPress(b)
  <2>1. /\ b \notin {RELEASE_SIGNAL, SECONDARY_SIGNAL} /\ d.sec = FALSE /\ d.rel = FALSE
        /\ m_secondary_signal' = FALSE /\ m_release_signal' = FALSE
        /\ queue' = Tail(queue) /\ held' = held /\ capslock' = capslock
    BY <1>2, <1>8 DEF PrimaryPress, Final, Receive
  <2>2. CASE b \in DOMAIN PrimaryHold
    <3>1. Silent(d, b)
      BY <2>1, <2>2 DEF Silent
    <3>2. b \notin DOMAIN PrimaryToggle
      BY <2>2, Flags, Codes
    <3>3. m' = [m EXCEPT ![PrimaryHold[b]] = TRUE] /\ UNCHANGED screen
      BY <1>8, <2>2, <3>2 DEF PrimaryPress
    <3>4. m' = FlagsAfter(d, b)
      BY <1>2, <2>1, <2>2, <3>3 DEF FlagsAfter, SetFlag
    <3> QED
      BY <1>6, <1>12, <1>14, <2>1, <3>1, <3>3, <3>4
  <2>3. CASE b \in DOMAIN PrimaryToggle
    <3>1. Silent(d, b)
      BY <2>1, <2>3 DEF Silent
    <3>2. b \notin DOMAIN PrimaryHold
      BY <2>3, Flags, Codes
    <3>3. /\ m' = [m EXCEPT ![PrimaryToggle[b]] = ~m[PrimaryToggle[b]]]
          /\ UNCHANGED screen
      BY <1>8, <2>3, <3>2 DEF PrimaryPress
    <3>4. m' = FlagsAfter(d, b)
      BY <1>2, <2>1, <2>3, <3>2, <3>3 DEF FlagsAfter, SetFlag
    <3> QED
      BY <1>6, <1>12, <1>14, <2>1, <3>1, <3>3, <3>4
  <2>4. CASE b \notin DOMAIN PrimaryHold \cup DOMAIN PrimaryToggle
    <3>1. Silent(d, b) <=> b \notin DOMAIN MapIn(d)
      BY <2>1, <2>4 DEF Silent
    <3>2. m' = m /\ Echo(MapIn(d), PRIMARY_SIZE, b)
      BY <1>2, <1>8, <2>1, <2>4 DEF PrimaryPress, MapIn
    <3>3. Paid
      BY <1>13, <3>1, <3>2
    <3>4. m' = FlagsAfter(d, b)
      BY <1>2, <2>1, <2>4, <3>2 DEF FlagsAfter
    <3> QED
      BY <1>6, <1>14, <2>1, <3>3, <3>4
  <2> QED
    BY <2>2, <2>3, <2>4
<1>9. CASE SecondaryPress(b)
  <2>1. /\ b \notin {RELEASE_SIGNAL, SECONDARY_SIGNAL} /\ d.sec = TRUE /\ d.rel = FALSE
        /\ m_secondary_signal' = FALSE /\ m_release_signal' = FALSE
        /\ queue' = Tail(queue) /\ held' = held /\ capslock' = capslock
    BY <1>2, <1>9 DEF SecondaryPress, Final, Receive
  <2>2. CASE b \in DOMAIN SecondaryHold
    <3>1. Silent(d, b)
      BY <2>1, <2>2 DEF Silent
    <3>2. b \notin DOMAIN SecondaryToggle
      BY <2>2, Flags, Codes
    <3>3. m' = [m EXCEPT ![SecondaryHold[b]] = TRUE] /\ UNCHANGED screen
      BY <1>9, <2>2, <3>2 DEF SecondaryPress
    <3>4. m' = FlagsAfter(d, b)
      BY <1>2, <2>1, <2>2, <3>3 DEF FlagsAfter, SetFlag
    <3> QED
      BY <1>6, <1>12, <1>14, <2>1, <3>1, <3>3, <3>4
  <2>3. CASE b \in DOMAIN SecondaryToggle
    <3>1. Silent(d, b)
      BY <2>1, <2>3 DEF Silent
    <3>2. b \notin DOMAIN SecondaryHold
      BY <2>3, Flags, Codes
    <3>3. /\ m' = [m EXCEPT ![SecondaryToggle[b]] = ~m[SecondaryToggle[b]]]
          /\ UNCHANGED screen
      BY <1>9, <2>3, <3>2 DEF SecondaryPress
    <3>4. m' = FlagsAfter(d, b)
      BY <1>2, <2>1, <2>3, <3>2, <3>3 DEF FlagsAfter, SetFlag
    <3> QED
      BY <1>6, <1>12, <1>14, <2>1, <3>1, <3>3, <3>4
  <2>4. CASE b \notin DOMAIN SecondaryHold \cup DOMAIN SecondaryToggle
    <3>1. Silent(d, b) <=> b \notin DOMAIN MapIn(d)
      BY <2>1, <2>4 DEF Silent
    <3>2. m' = m /\ Echo(MapIn(d), SECONDARY_SIZE, b)
      BY <1>2, <1>9, <2>1, <2>4 DEF SecondaryPress, MapIn
    <3>3. Paid
      BY <1>13, <3>1, <3>2
    <3>4. m' = FlagsAfter(d, b)
      BY <1>2, <2>1, <2>4, <3>2 DEF FlagsAfter
    <3> QED
      BY <1>6, <1>14, <2>1, <3>3, <3>4
  <2> QED
    BY <2>2, <2>3, <2>4
<1>10. CASE PrimaryRelease(b)
  <2>1. /\ b \notin {RELEASE_SIGNAL, SECONDARY_SIGNAL} /\ d.sec = FALSE /\ d.rel = TRUE
        /\ m_secondary_signal' = FALSE /\ m_release_signal' = FALSE
        /\ queue' = Tail(queue) /\ held' = held /\ capslock' = capslock
    BY <1>2, <1>10 DEF PrimaryRelease, Final, Receive
  <2>2. Silent(d, b)
    BY <2>1 DEF Silent
  <2>3. UNCHANGED screen
    BY <1>10 DEF PrimaryRelease
  <2>4. m' = FlagsAfter(d, b)
    BY <1>2, <1>10, <2>1 DEF PrimaryRelease, ClearFlag, FlagsAfter, SetFlag
  <2> QED
    BY <1>6, <1>12, <1>14, <2>1, <2>2, <2>3, <2>4
<1>11. CASE SecondaryRelease(b)
  <2>1. /\ b \notin {RELEASE_SIGNAL, SECONDARY_SIGNAL} /\ d.sec = TRUE /\ d.rel = TRUE
        /\ m_secondary_signal' = FALSE /\ m_release_signal' = FALSE
        /\ queue' = Tail(queue) /\ held' = held /\ capslock' = capslock
    BY <1>2, <1>11 DEF SecondaryRelease, Final, Receive
  <2>2. Silent(d, b)
    BY <2>1 DEF Silent
  <2>3. UNCHANGED screen
    BY <1>11 DEF SecondaryRelease
  <2>4. m' = FlagsAfter(d, b)
    BY <1>2, <1>11, <2>1 DEF SecondaryRelease, ClearFlag, FlagsAfter, SetFlag
  <2> QED
    BY <1>6, <1>12, <1>14, <2>1, <2>2, <2>3, <2>4
<1> QED
  BY <1>1, <1>7, <1>8, <1>9, <1>10, <1>11

-----------------------------------------------------------------------------
(* The invariant holds at first. *)
LEMMA InitInvariant == Init => IInv
<1> SUFFICES ASSUME Init
             PROVE  IInv
  OBVIOUS
<1>1. Types
  <2>1. m \in [Flag -> BOOLEAN] /\ held \subseteq Keys
    BY DEF Init
  <2>2. << >> \in Seq(Bytes) /\ << >> \in Texts /\ Len(<< >>) = 0
    BY DEF Texts
  <2>3. 0 <= MaxQueue
    BY KeyboardAssumption
  <2> QED
    BY <2>1, <2>2, <2>3 DEF Init, Types
<1>2. Current \in Drivers /\ Agrees(Current, held, capslock)
  <2>1. Current = [m |-> [f \in Flag |-> FALSE], sec |-> FALSE, rel |-> FALSE]
    BY DEF Init, Current
  <2>2. /\ Current.m = [f \in Flag |-> FALSE] /\ Current.sec = FALSE /\ Current.rel = FALSE
        /\ Current \in Drivers
    BY <2>1 DEF Drivers
  <2>3. "m_capslock" \in Flag
    BY DEF Flag
  <2>4. /\ \A c \in DOMAIN PrimaryHold : PrimaryHold[c] \in Flag
        /\ \A c \in DOMAIN SecondaryHold : SecondaryHold[c] \in Flag
    BY FlagsDiffer
  <2>5. held = {} /\ capslock = FALSE
    BY DEF Init
  <2> QED
    BY <2>2, <2>3, <2>4, <2>5 DEF Agrees, FlagsAgree, Follows
<1>3. owed = << >> /\ queue = << >> /\ garbled = FALSE
  BY DEF Init
<1>4. Leads(Current, owed, queue, Current) /\ Pays(owed)
  BY <1>2, <1>3, LeadsNowhere DEF Pays
<1>5. CatchesUp
  BY <1>1, <1>2, <1>4, Zenon DEF CatchesUp, Types
<1> QED
  BY <1>1, <1>5 DEF IInv

(* Every step keeps the invariant. *)
LEMMA NextInvariant == IInv /\ [Next]_vars => IInv'
<1> SUFFICES ASSUME IInv, [Next]_vars
             PROVE  IInv'
  OBVIOUS
<1>1. Types
  BY DEF IInv
<1>2. PICK last \in Drivers, text \in Texts : /\ Leads(Current, text, queue, last)
                                              /\ Agrees(last, held, capslock)
                                              /\ Pays(text)
  BY Zenon DEF IInv, CatchesUp
<1>3. /\ queue \in Seq(Bytes) /\ owed \in Texts /\ capslock \in BOOLEAN /\ held \subseteq Keys
      /\ Len(queue) <= MaxQueue
  BY <1>1 DEF Types
<1>4. ASSUME NEW key \in Keys, Press(key)
      PROVE  IInv'
  <2>7. queue \o MakeCode(key) \in Seq(Bytes) /\ TakenDown(Current, text, queue, key)
    <3>1. /\ Leads(Current, text, queue, last) /\ Agrees(last, held, capslock)
          /\ queue \in Seq(Bytes) /\ capslock \in BOOLEAN
      BY <1>2, <1>3
    <3> QED
      BY <3>1, MakeCodeLeads
  <2>1. PICK last2 \in Drivers, text2 \in Texts :
             /\ Leads(Current, text2, queue \o MakeCode(key), last2)
             /\ Agrees(last2, held \cup {key}, capslock # (key = Key(FALSE, CAPSLOCK)))
             /\ TablesMatch => text2 = text \o Legend(key)
    BY <2>7, Zenon DEF TakenDown
  <2>2. /\ queue' = queue \o MakeCode(key)
        /\ owed' = IF garbled THEN owed ELSE owed \o Legend(key)
        /\ held' = held \cup {key} /\ capslock' = (capslock # (key = Key(FALSE, CAPSLOCK)))
        /\ UNCHANGED <<m, m_secondary_signal, m_release_signal, garbled, beyond>>
    BY <1>4 DEF Press, driver
  <2>3. Current' = Current
    BY <2>2 DEF Current
  <2>8. Pays(text2)'
    BY <1>2, <2>1, <2>2 DEF Pays
  <2>4. CatchesUp'
    BY <2>1, <2>2, <2>3, <2>8, Zenon DEF CatchesUp
  <2>9. owed' \in Texts
    <3>1. owed \in Seq(Characters) /\ Legend(key) \in Seq(Characters)
      BY <1>3, LegendIsText DEF Texts
    <3> QED
      BY <2>2, <3>1 DEF Texts
  <2>5. Len(queue') <= MaxQueue
    <3>1. MakeCode(key) \in Seq(Bytes)
      BY PrefixIsBytes, KeysAreCodes DEF MakeCode
    <3> QED
      BY <1>3, <1>4, <2>2, <3>1 DEF Press
  <2>6. Types'
    BY <1>1, <2>2, <2>5, <2>7, <2>9 DEF Types
  <2> QED
    BY <2>4, <2>6 DEF IInv
<1>5. ASSUME NEW key \in Keys, Release(key)
      PROVE  IInv'
  <2>1. /\ queue \o BreakCode(key) \in Seq(Bytes)
        /\ \E last2 \in Drivers :
             /\ Leads(Current, text, queue \o BreakCode(key), last2)
             /\ Agrees(last2, held \ {key}, capslock)
    BY <1>2, <1>3, BreakCodeLeads
  <2>2. /\ queue' = queue \o BreakCode(key) /\ held' = held \ {key}
        /\ UNCHANGED <<m, m_secondary_signal, m_release_signal, capslock, owed, garbled, beyond>>
    BY <1>5 DEF Release, driver, screen
  <2>3. Current' = Current
    BY <2>2 DEF Current
  <2>7. Pays(text)'
    BY <1>2, <2>2 DEF Pays
  <2>4. CatchesUp'
    BY <2>1, <2>2, <2>3, <2>7, Zenon DEF CatchesUp
  <2>5. Len(queue') <= MaxQueue
    <3>1. BreakCode(key) \in Seq(Bytes)
      <4>1. key.code \in Bytes /\ RELEASE_SIGNAL \in Bytes
        BY KeysAreCodes, Codes DEF Bytes
      <4> QED
        BY <4>1, PrefixIsBytes DEF BreakCode
    <3> QED
      BY <1>3, <1>5, <2>2, <3>1 DEF Release
  <2>6. Types'
    BY <1>1, <2>1, <2>2, <2>5 DEF Types
  <2> QED
    BY <2>4, <2>6 DEF IInv
<1>6. ASSUME handle_irq
      PROVE  IInv'
  <2>1. queue # << >>
    BY <1>6 DEF handle_irq
  <2>2. PICK rest \in Texts :
          /\ text = PrintedOn(Current, Head(queue)) \o rest
          /\ Leads(Decoded(Current, Head(queue)), rest, Tail(queue), last)
    BY <1>2, <1>3, <2>1, LeadsOn
  <2>3. /\ queue' = Tail(queue) /\ held' = held /\ capslock' = capslock
        /\ Current' = Decoded(Current, Head(queue))
        /\ owed' \in Texts /\ garbled' \in BOOLEAN /\ beyond' \in BOOLEAN
        /\ beyond => beyond'
        /\ ~beyond' /\ ~garbled /\ owed = PrintedOn(Current, Head(queue)) \o rest =>
             ~garbled' /\ owed' = rest
    BY <1>1, <1>6, <2>1, IrqDecodes
  <2>8. Pays(rest)'
    BY <1>2, <2>2, <2>3 DEF Pays
  <2>4. CatchesUp'
    BY <1>2, <2>2, <2>3, <2>8, Zenon DEF CatchesUp
  <2>5. m' \in [Flag -> BOOLEAN] /\ m_secondary_signal' \in BOOLEAN /\ m_release_signal' \in BOOLEAN
    <3>1. Head(queue) \in Bytes
      BY <1>3, <2>1
    <3>2. Current \in Drivers
      BY <1>1 DEF Types, Current, Drivers
    <3>3. Current' \in Drivers
      BY <2>3, <3>1, <3>2, DecodedIsDriver
    <3>4. /\ Current'.m = m' /\ Current'.sec = m_secondary_signal'
          /\ Current'.rel = m_release_signal'
      BY DEF Current
    <3> QED
      BY <3>3, <3>4 DEF Drivers
  <2>6. queue' \in Seq(Bytes) /\ Len(queue') <= MaxQueue
    BY <1>3, <2>1, <2>3, KeyboardAssumption
  <2>7. Types'
    BY <1>1, <2>3, <2>5, <2>6 DEF Types
  <2> QED
    BY <2>4, <2>7 DEF IInv
<1>7. CASE UNCHANGED vars
  <2>1. UNCHANGED <<m, m_secondary_signal, m_release_signal, queue, held, capslock,
                    owed, garbled, beyond>>
    BY <1>7 DEF vars
  <2>2. Types'
    BY <1>1, <2>1 DEF Types
  <2>3. Current' = Current
    BY <2>1 DEF Current
  <2>5. Pays(text)'
    BY <1>2, <2>1 DEF Pays
  <2>4. CatchesUp'
    BY <1>2, <2>1, <2>3, <2>5, Zenon DEF CatchesUp
  <2> QED
    BY <2>2, <2>4 DEF IInv
<1> QED
  BY <1>4, <1>5, <1>6, <1>7 DEF Next

(* What is left to be decoded always leads to the keys as they are and to  *)
(* what is owed: handle_irq may be any number of bytes behind.             *)
THEOREM Invariance == Spec => []IInv
<1>1. Init => IInv
  BY InitInvariant
<1>2. IInv /\ [Next]_vars => IInv'
  BY NextInvariant
<1> QED
  BY <1>1, <1>2, PTL DEF Spec

(* The variables of the keyboard driver have their types. *)
THEOREM TypeCorrectness == Spec => []TypeOK
<1>1. IInv => TypeOK
  BY DEF IInv, Types, TypeOK, Bytes, Texts
<1> QED
  BY <1>1, Invariance, PTL

(* Once handle_irq has caught up its flags say which modifier keys are     *)
(* down, and it holds no half of a scan code.                              *)
THEOREM StaysInSync == Spec => []InSync
<1>1. IInv => InSync
  <2> SUFFICES ASSUME IInv, queue = << >>
               PROVE  /\ ~m_secondary_signal /\ ~m_release_signal
                      /\ FlagsAgree(m, held, capslock)
    BY DEF InSync, FlagsAgree, Follows
  <2>1. PICK last \in Drivers, text \in Texts : /\ Leads(Current, text, queue, last)
                                                /\ Agrees(last, held, capslock)
    BY Zenon DEF IInv, CatchesUp
  <2>2. Agrees(Current, held, capslock)
    BY <2>1, LeadsOnlyToItself
  <2>3. Current.m = m /\ Current.sec = m_secondary_signal /\ Current.rel = m_release_signal
    BY DEF Current
  <2> QED
    BY <2>2, <2>3 DEF Agrees
<1> QED
  BY <1>1, Invariance, PTL

(* With tables that match the labels of the keys, and as long as none of   *)
(* them was read behind its end, what handle_irq prints is what was typed, *)
(* in order, as the modifiers were when each key went down; nothing is     *)
(* left out.                                                               *)
THEOREM EchoesTyped == ASSUME TablesMatch PROVE Spec => []EchoesWhatWasTyped
<1>1. IInv => EchoesWhatWasTyped
  <2> SUFFICES ASSUME IInv, ~beyond
               PROVE  ~garbled /\ (queue = << >> => owed = << >>)
    BY DEF EchoesWhatWasTyped
  <2>1. PICK last \in Drivers, text \in Texts : /\ Leads(Current, text, queue, last)
                                                /\ Pays(text)
    BY Zenon DEF IInv, CatchesUp
  <2>2. ~garbled /\ owed = text
    BY <2>1 DEF Pays
  <2>3. queue = << >> => text = << >>
    BY <2>1, LeadsOnlyToItself
  <2> QED
    BY <2>2, <2>3
<1> QED
  BY <1>1, Invariance, PTL
=============================================================================
