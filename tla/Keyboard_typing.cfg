SPECIFICATION Spec
CONSTANTS
  Keys <- Typing
  Repeating <- TypingRepeats
  Labels <- USLabels
  MaxQueue = 4
INVARIANTS TypeOK InSync EchoesWhatWasTyped
