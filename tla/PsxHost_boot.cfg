\* A PlayStation pad as input, with the hotkeys to swap modes enabled.
SPECIFICATION Spec
CONSTANT Words = 3
INVARIANT SwapsAreAsked
