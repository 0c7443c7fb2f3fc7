SPECIFICATION Spec
CONSTANTS
  Folders <- MCFolders
  VfsNames <- MCVfsNames
  Given <- MCGiven
  Cwd <- MCCwd
  DataName <- MCDataName
  IpcName <- MCIpcName
  ToLower <- MCToLower
  NoColon <- MCNoColon
  Drives <- MCDrives
  MaxArgs = 3
INVARIANT BothFlattened
