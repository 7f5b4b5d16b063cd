\* Two faults, a wait of two polls.
CONSTANTS
  WaitPolls = 2
  MaxFaults = 2
SPECIFICATION Spec
INVARIANTS ImuTypeOK RunsConfigured
PROPERTIES LinkLossEndsThread FallbackIsPublished
CHECK_DEADLOCK FALSE
