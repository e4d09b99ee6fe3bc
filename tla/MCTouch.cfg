SPECIFICATION TouchFairSpec
CONSTANTS
  Spots = {"left", "right"}
  MaxFaults = 1
INVARIANTS NeverDeaf PressIsTouched
PROPERTIES HeldIsOnePress TouchFollowed
