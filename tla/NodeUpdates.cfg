\* Two goroutines update one process that may be stopped and started once.
SPECIFICATION Spec
CONSTANTS
  l = l
  b = b
  Local = l
  Remote = {b}
  Told = {b, l}
  Thread = {t1, t2}
  MaxList = 1
  MaxIncarnation = 1
  MaxHalts = 1
CONSTRAINT OneSubject
SYMMETRY Symmetry
INVARIANTS ChecksumCurrent SettledUnlessOverlapped DisabledHasNoTimers StaleTimersHarmless
PROPERTIES JoinClearsOwnChange
