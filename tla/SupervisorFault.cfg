SPECIFICATION Spec
CONSTANTS
  Neutral = neutral
  Controls = {throttle}
  Reasons = {text, blank}
  Blank = {blank}
INVARIANT FaultTakesEffect
