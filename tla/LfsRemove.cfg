SPECIFICATION Spec
CONSTANTS
  Top = top
  A = a
  AB = sub
  Ab = near
  Names <- MCNames
  Root = top
  Parent <- MCParent
  Within <- MCWithin
  Misread <- MCMisread
  DirNames = {a}
  FileNames = {a, sub, near}
  Texts = {text}
  Dir = Dir
  NoCp = NoCp
  NoGc = NoGc
  LogSize = 16
  LogStart = 3
  BufferSize = 8
  MAX_IMAP = 4
  MAX_DIR_FILES = 1
  GcLengths = {9}
  MaxInoden = 3
PROPERTY RemoveKeepsOthers
