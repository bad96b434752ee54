SPECIFICATION MCSpec
CONSTANTS
  t1 = t1
  t2 = t2
  b1 = b1
  Failed = Failed
  NoArgs = NoArgs
  Threads = {t1, t2}
  Buffers = {b1}
  Sizes = {0, 1, 2, 3}
  MinSize = 2
  MaxSize = 2
  MaxEntries = 1
  Room = 1
  Budget = 1
  Window = 2
  MaxCalls = 3
  MaxDepth = 2
  MaxTime = 3
  p1 = p1
  p2 = p2
  f1 = f1
  m1 = m1
  m2 = m2
  la = la
  lb = lb
  lc = lc
  ld = ld
  Pids = {p1, p2}
  Fns = {f1}
  NullFn = NullFn
  Names = {m1, m2}
  NoName = NoName
  Libs = {la, lb, lc, ld}
  NoLib = NoLib
  NameOf <- MCNameOf
  FileOf <- MCFileOf
  Limit = 1
  Capacity = 1
  MaxTables = 2
  MaxLength = 2
  MaxRemaps = 1
  MaxPage = 4
  Layouts <- MCLayouts
  sa = sa
  sb = sb
  SoPaths = {sa, sb}
  Firmware = {sb}
  Nameless = Nameless
  Named = Named
  Unmapped = Unmapped
  NoFilter = NoFilter
SYMMETRY Symmetric
INVARIANTS ArgsMatchCalls BudgetHeld RawNamesFirst SymbolsExact ModulesExact
PROPERTIES ElfTriedOnce
