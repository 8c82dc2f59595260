SPECIFICATION FairDiskSpec
CONSTANTS
  Task = {a, b}
  Idle = Idle
  Sleeps = {"Uninterruptible"}
  NoTask = NoTask
  Stale = Stale
  Port = {p}
  NoPort = NoPort
  i = i
  Inode = {i}
  NoInode = NoInode
  Request <- Requests
  Volume <- Volumes
  Junk = Junk
INVARIANTS
  DriveServesHolder
  
PROPERTIES
  ChannelComesFree
