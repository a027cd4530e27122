CONSTANTS
  Folders <- MCFoldersWithEmpty

SPECIFICATION Spec

CONSTRAINT CallBound

INVARIANT TypeOK
INVARIANT ReplayOrder
