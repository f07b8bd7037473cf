SPECIFICATION Spec
CONSTANTS
  c1 = c1
  o1 = o1
  s1 = s1
  s2 = s2
  Card <- MCCard
  Operation <- MCOperation
  Submission <- MCSubmission
  Sendable <- Edited
  Rules <- InUse
  Answers <- MCAnswers
  Migrated <- MCMigrated
  MaxIdentifiers = 7
  MaxTaxonomies = 3
  MaxPolicies = 2
  MaxDecisions = 1
  MaxReviews = 2
INVARIANT TypeOK
INVARIANT PolicyFitsTaxonomy
INVARIANT LabelsResolve
INVARIANT LabelsReplayReviews
INVARIANT NoCorrectionOverwrittenUnseen
INVARIANT ReviewsKeepTheirRules
INVARIANT AcceptedMeansSeen
