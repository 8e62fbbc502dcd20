---------------------------- MODULE MCThermalQmi ----------------------------
EXTENDS ThermalQmiInv

CONSTANT pa
=============================================================================
