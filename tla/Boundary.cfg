\* A segment_index and a boundary_point_index over one mapping or two.
CONSTANTS
    Kinds = {"term", "sep"}
    Analyses <- MCAnalyses
    Remapped <- MCRemapped
SPECIFICATION Spec
INVARIANTS
    TextIsKept
PROPERTIES
    SegmentsAreWalked
    PointsAreWalked
