--------------------------- MODULE MCCircuitBuilder ---------------------------
EXTENDS DependencyWalk, MCField

MCIds == 1 .. MaxNodes + 1
=============================================================================
