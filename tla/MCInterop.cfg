SPECIFICATION FairSpec
CONSTANT Tests <- AllTests
INVARIANT TypeOK
INVARIANT ExpectationsHold
PROPERTY RpcSpec
PROPERTY TestEnds
CHECK_DEADLOCK FALSE
