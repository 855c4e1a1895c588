\* A default mutex is released by whoever unlocks it.
CONSTANT MaxFrames = 6
SPECIFICATION FairSpec
INVARIANTS TypeOK TornOnlyAfterTheft LocksComeBack
PROPERTIES FramesInOrder LastFrameDelivered
CHECK_DEADLOCK TRUE
