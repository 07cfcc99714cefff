SPECIFICATION ExportSpec
CONSTANTS
  old = old
  new = new
  Programs <- MCPrograms
  Version <- MCVersion
  Rows <- MCRows
  In <- MCIn
  Needs <- MCNeeds
  MaxCommits = 2
INVARIANT NothingIsDropped
