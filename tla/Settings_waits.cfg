\* A setting changed with an install that the Wii U Menu's end then interrupts.
CONSTANT Cards <- MCCards
SPECIFICATION Spec
INVARIANT SettingWaits
