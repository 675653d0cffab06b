--------------------------- MODULE MC_CaptureFlag ---------------------------
EXTENDS CaptureFlag

CONSTANTS p1, p2, redFlag, blueFlag

OneFlagEach == [f \in Flags |-> IF f = redFlag THEN Red ELSE Blue]
BothZones == Teams
RedFlagInputs == {"enable", "disable", "drop", "reset", "return time"} \X {redFlag}
=============================================================================
