SPECIFICATION FairSpec
CONSTANTS
  Length = 2
  Kinds = {"thread","external"}
  Above = {1,6}
  Ops = {"refuse","unwind","anchor","key"}
INVARIANTS VerdictIsEarned
PROPERTIES CutsAreOwed PipelineEnds
