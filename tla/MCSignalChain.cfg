SPECIFICATION FairChainSpec
CONSTANTS MaxCollectors = 3 SigactionMayFail = TRUE
 
PROPERTIES DeliveryEnds
