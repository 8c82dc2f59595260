SPECIFICATION FilesSpec
CONSTANTS
  base = base
  root = root
  dev = dev
  devroot = devroot
  tty = tty
  hd = hd
  sh = sh
  bin = bin
  Task = {a, b}
  Kinit = a
  Fd = {0, 1}
  FileId = {f, g}
  NoFile = NoFile
  NoNode = NoNode
  Node <- TreeNode
  Base = base
  Root = root
  DevRoot = devroot
  Device = {tty, hd}
  Up <- TreeUp
  Point <- TreePoint
  Directory = {base, root, dev, devroot, bin}
  Openable = {tty}
  Runnable = {sh}
  IsoOrder <- TreeOrder
  Request <- TreeRequest
  Room = {1}
  WalkLimit = 1
  StrayLimit = 1
INVARIANTS
  CountsExact
  ScansExact
PROPERTIES
  ImplementsDescriptors
SYMMETRY Files2
