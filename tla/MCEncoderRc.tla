---------------------------- MODULE MCEncoderRc ----------------------------
EXTENDS EncoderRc

CONSTANTS statusWork, esdIrq
BothModes == {"cmd", "vid"}
AnyDisplay == BOOLEAN
PrimaryOnly == {TRUE}
CmdOnly == {"cmd"}
=============================================================================
