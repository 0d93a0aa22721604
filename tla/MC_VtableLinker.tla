--------------------------- MODULE MC_VtableLinker ---------------------------
EXTENDS VtableLinker
MCCls == {"A", "B"}
MCFaultsNone == {NoFault}
MCFaultsAll == Faults
=============================================================================
