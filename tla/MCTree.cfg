\* Every table of up to three entries of the menu, searched on every line of
\* up to four bytes in every mode.
CONSTANTS
  visible <- ClVisible
  Tables <- MCTables
  Modes <- MCModes
  Lines <- MCLines
SPECIFICATION Spec
INVARIANTS TrieMatchesTable SearchIsLexicographic HelpIsExact FullNameRuns HelpListsWhatRuns
CHECK_DEADLOCK FALSE
