----------------------------- MODULE MCKeyboard -----------------------------
(* An instance of Keyboard for TLC: a letter, keys that share the last     *)
(* byte of their scan codes, every kind of modifier key, and a key whose   *)
(* code is behind the end of the table it is looked up in.                 *)
EXTENDS Keyboard

LShift == Key(FALSE, LSHIFT)
CapsLock == Key(FALSE, CAPSLOCK)
LAlt == Key(FALSE, LALT)
RAlt == Key(TRUE, RALT)
LeftGui == Key(TRUE, LGUI)
KeyA == Key(FALSE, 28)
Slash == Key(FALSE, 74)
KeypadSlash == Key(TRUE, 74)
PageUp == Key(TRUE, 125)

Typing == {LShift, CapsLock, LAlt, RAlt, LeftGui, KeyA, Slash, KeypadSlash, PageUp}
TypingRepeats == {KeyA, CapsLock, RAlt}

(* A US keyboard. *)
Label(plain, shifted, caps) == [plain |-> plain, shifted |-> shifted, caps |-> caps]
USLabels ==
  [key \in Typing |->
     CASE key = KeyA -> Label(<<"a">>, <<"A">>, <<"A">>)
       [] key = Slash -> Label(<<"/">>, <<"?">>, <<"/">>)
       [] key = KeypadSlash -> Label(<<"/">>, <<"/">>, <<"/">>)
       [] OTHER -> Label(<< >>, << >>, << >>)]
=============================================================================
