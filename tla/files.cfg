SPECIFICATION Spec
CONSTANTS
  ALT_MAX_FD = 5
  ALT_STDIN <- MCStdin
  ALT_STDOUT <- MCStdout
  ALT_STDERR <- MCStdin
  Devices <- MCDevices
  FileSystems <- MCFileSystems
  Names <- MCNames
  Modes = {"O_RDONLY", "O_RDWR"}
  NoDev = NoDev
INVARIANTS
  NothingLeaks
  DirectIsPool
PROPERTIES
  LockHolds
