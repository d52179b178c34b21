SPECIFICATION FairSpec
CONSTANT QueueMax = 12
INVARIANTS TypeOK NeverDeaf NoDoubleCatch
PROPERTIES Drained
