SPECIFICATION Spec
CONSTANTS
  Files = {}
  Folders = {}
  Uploads = {u}
  Windows = {w}
  Workers = {}
  None = None
  MaxTransferJobs = 1
  MaxAttempt = 1
  MaxRestarts = 0
INVARIANT UploadsAreServed
CHECK_DEADLOCK FALSE
