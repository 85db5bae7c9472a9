SPECIFICATION Spec
CONSTANTS
  Lines <- MCLines
  MaxLines = 5
INVARIANTS
  LinesMeanWhatTheySay
  MalformedBucketFailsFile
