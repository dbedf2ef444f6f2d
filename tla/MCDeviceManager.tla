--------------------------- MODULE MCDeviceManager ---------------------------
EXTENDS DeviceManager, TLC

CONSTANTS d1, d2, p1, p2, p3

\* Devices and pids are interchangeable when all devices are IPTS devices.
Symmetry == Permutations(Devices) \cup Permutations(Pids)
=============================================================================
