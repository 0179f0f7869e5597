CONSTANT Size = 3
SPECIFICATION WalkSpec
INVARIANTS TypeOK EachSleeperOnce
PROPERTY StepsAreFifoSteps
