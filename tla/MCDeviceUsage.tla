--------------------------- MODULE MCDeviceUsage ---------------------------
\* DeviceUsage with interchangeable devices.
EXTENDS DeviceUsage

Symmetry == Permutations(Devices)
=============================================================================
