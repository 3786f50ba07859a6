SPECIFICATION FairSpec
CONSTANT Socks = {s1}
CHECK_DEADLOCK FALSE
PROPERTIES RepliesDelivered PacketSent ResetReturns
