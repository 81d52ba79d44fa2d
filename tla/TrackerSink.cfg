CONSTANT MaxEvents = 6
SPECIFICATION FairSinkSpec
INVARIANTS SinkTypeOK EventsInOrder OnlyLastMisrouted FlushedOnFinish
PROPERTIES NothingAfterFinish ProcessEnds
CHECK_DEADLOCK FALSE
