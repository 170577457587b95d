CONSTANTS
  a = a
  d = d
  Keys = {a, d, alt, capsKey, esc, digit, trigger, commit}
  Mods = {alt}
  Alt = alt
  Caps = capsKey
  Esc = esc
  Digit = digit
  Trigger = trigger
  Commit = commit
  LiveMost <- MCLiveMost
  Hosts = {0, 1, 2, 3}
  Most = 2
  Programs <- MCPrograms
SPECIFICATION Spec
INVARIANTS NothingLeftBehind
PROPERTIES NoStaleEdge MacroEnds
