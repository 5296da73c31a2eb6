CONSTANTS
  MAX_FD = 5
  Files = {f1, f2}
  NULL = NULL
  Fnodes <- MCFnodes
  Size <- TarSize
  NoDevice = NoDevice
  NoFile = NoFile
  NoHeader = NoHeader
  BLOCKSIZE = 2
  Addresses <- MCAddresses
  Archive <- MCArchive
  FatRoot <- MCFatRoot
  Names <- MCNames
  Modules <- MCModules
  Drives = {"0", "1"}
  Entry <- MCEntry
  Devices <- MCDevices
  Mountpoints <- MCMountpoints
  Opens <- MCOpens
  Lengths = {2}
  MaxMounts = 2
SPECIFICATION Spec
SYMMETRY FileSymmetry
INVARIANT OwnedIsLive
INVARIANT CountIsHolders
INVARIANT MountFound
INVARIANT TreesIntact
INVARIANT DevicesReachable
PROPERTY Undisturbed
CHECK_DEADLOCK FALSE
