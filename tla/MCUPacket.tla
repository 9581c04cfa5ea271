------------------------------ MODULE MCUPacket ------------------------------
EXTENDS UPacket

\* Numbers at the ends of their range and with a byte of zero, data of odd and even
\* length, and damage that flips the type, the version and single flags
MCValues == {0, 256, 65535}
MCContents == {<<>>, <<255>>, <<0, 7>>, <<255, 255, 1>>}
MCNoise == {0, 1, 64, 72, 96, 104, 128, 255}

=============================================================================
