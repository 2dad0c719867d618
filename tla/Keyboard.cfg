CONSTANTS
  lshift = lshift
  lalt = lalt
  altgr = altgr
  numlock = numlock
  cursor = cursor
  spanish = spanish
  us_std = us_std
  NoKey = NoKey
  Key = {lshift, lalt, altgr, numlock, cursor}
  Extended = {altgr, cursor}
  scan <- MCscan
  role <- MCrole
  Layout = {us_std, spanish}
  keymap <- MCkeymap
  ScanSize = 2
  KeySize = 1
  MaxDown = 2
  MaxLost = 1
SPECIFICATION KeyboardSpec
INVARIANTS ModifiersFollow
PROPERTIES ImplementsTypewriter
