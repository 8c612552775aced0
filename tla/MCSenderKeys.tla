---------------------------- MODULE MCSenderKeys ----------------------------
EXTENDS SenderKeys

CONSTANTS a, b, c, d
ThreeWorkers == <<a, b, c>>
FourWorkers == <<a, b, c, d>>
=============================================================================
