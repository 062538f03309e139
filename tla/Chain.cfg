\* Probe, up to three suspends and resumes, disconnect.
CONSTANT MaxSuspends = 3
SPECIFICATION ChainFairSpec
INVARIANTS StillReading OneToken
PROPERTY ReadGoesOn
CHECK_DEADLOCK FALSE
