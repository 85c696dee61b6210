\* Names without reserved characters.
CONSTANTS
  NoDatabase = NoDatabase
  Nobody = Nobody
  Unanswered = Unanswered
  NoLimit = NoLimit
  Home = "home"
  NoHost = "nohost"
  DefaultLimit = 2
  MaxLimit = 3
  Reserved = {}
  Filters <- MCFilters
  Strings <- MCStrings
  Asks <- MCAsks
  FirstFiles <- MCFirstFiles
  Changed <- MCChanged
  Groupings <- MCGroupings
  MaxUploads = 3
  MaxFaults = 1
SPECIFICATION Spec
INVARIANTS TypeOK ConfiguredUsersGetIn AnswersAreAllowed FirstComeFirst CredentialsStayHome SavesLand
PROPERTIES KeepsService SilentSaves
