SPECIFICATION Spec
CONSTANTS
  Calls = {c1, c2, c3}
  Threshold = 2
  Cooldown = 2
PROPERTY
  StaysOpenForCooldown
