SPECIFICATION Spec
CONSTANTS
  Thread <- MCThread
  Block <- MCBlock
  Peer = {alice}
  Edit = {dig}
  Wanted <- MCWanted
  Nested <- MCNested
  ChunkOf <- MCChunkOf
  Area <- MCArea
  Limited = {}
  Over <- MCOver
  Disks <- MCDisks
  None = None
  Unreadable = Unreadable
  QLimitTotal = 2
  QLimitDiskonly = 2
  QLimitGenerate = 1
  MaxErrors = 1
  MaxTurns = 3
INVARIANTS TypeOK QueueIsShared CallbacksConserved GrabbedWhileMade LatestIsKept NoDeadlock
PROPERTY Answered
CHECK_DEADLOCK FALSE
