------------------------------ MODULE DeviceMC ------------------------------
\* Values for model checking DeviceLoop.
EXTENDS DeviceLoop

ThreeReleases == {<<4, 2, 10>>, <<4, 3, 0>>, <<5, 0, 0>>}
Shipped       == <<4, 2, 10>>
=============================================================================
