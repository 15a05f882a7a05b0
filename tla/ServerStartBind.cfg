CONSTANT GRPCOn <- BothConfigs
SPECIFICATION StartSpec
INVARIANT NilMeansBound
CHECK_DEADLOCK FALSE
