\* Two units, histories of up to six events: long enough to certify a unit
\* and reopen it, or to import it again in the middle of the pipeline.
CONSTANTS
  Keys = {k1, k2}
  MaxHistory = 6
SYMMETRY Symmetry
SPECIFICATION Spec
INVARIANTS
  TypeOK
  HistoryChain
  PipelineEvidence
PROPERTY HistoryAppendOnly
