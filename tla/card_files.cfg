CONSTANTS
  File <- MCFile
  Removal <- MCRemoval
  Purge <- MCPurge
  Decision <- MCDecision
SPECIFICATION Spec
INVARIANT LiveFilesHaveRows
INVARIANT RemovedOnce
PROPERTY PurgeTakesWhatWasThere
