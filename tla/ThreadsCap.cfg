CONSTANTS
  Texts <- MCTexts
  Hardware <- MCHardware
SPECIFICATION Spec
INVARIANT ThreadsCapped
