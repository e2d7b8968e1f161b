SPECIFICATION Spec
CONSTANTS
  Texts <- MCTexts
  Answers <- MCAnswers
  UserVocabularies <- MCUserVocabularies
  DomainVocabularies <- MCDomainVocabularies
  Rules <- MCRules
  Word <- MCWord
  Technical <- MCTechnical
  Lower <- MCLower
  Slack = 1
  MaxTerms = 3
  EntryLimit = 4
INVARIANTS CorrectionsApplied
CHECK_DEADLOCK FALSE
