-------------------------- MODULE MCHardwareReaders --------------------------
EXTENDS HardwareReaders
=============================================================================
