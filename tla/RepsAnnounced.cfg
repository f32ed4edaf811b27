SPECIFICATION LivenessSpec
CONSTANTS
  r1 = r1
  i1 = i1
  i2 = i2
  b1 = b1
  b2 = b2
  Never = Never
  Reps = {r1}
  Instances = {i1, i2}
  Beats = {b1}
  Threshold = 2
  Cooldown = 1
  MaxFailures = 1
INVARIANT AlertedOnce
