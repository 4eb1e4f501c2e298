CONSTANTS
  r1 = r1
  r2 = r2
  file = file
  folder = folder
  image = image
  Requests = {r1, r2}
  Connections = 2
  Paths = {file, folder}
  Uploads = {file}
  Images = {image}
  Folders <- FolderOf
  NoPath = NoPath
  MaxAttempts = 2
  TrialEndsAt = 1
  Day = 2
  MaxTime = 1
SPECIFICATION FairSpec
INVARIANT TypeOK
INVARIANT VerdictsHold
PROPERTY PaywalledWritesNothing
PROPERTY RequestsEnd
