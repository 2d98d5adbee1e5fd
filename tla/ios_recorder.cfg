SPECIFICATION Spec
CONSTANTS
  Volumes = {0, 1, 2}
  null = null
  MaxTime = 2
  MaxChanges = 3
INVARIANTS
  TypeOK
  RecordingHasRecorder
  FileInOrder
  VolumeInStep
  NoPhantomEvents
PROPERTIES
  CaptureIsFinal
\* A crashed app stops, and so do the clock and the user at their bounds.
CHECK_DEADLOCK FALSE
