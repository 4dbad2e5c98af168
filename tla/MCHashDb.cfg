\* Three stores, so that a lookup passes two older ones; a store is retired once it
\* holds two of the three hashes; six steps retire and discard stores repeatedly.
SPECIFICATION Spec
CONSTANTS
  Threads = {t1, t2}
  Hashes = {h1, h2, h3}
  MaxStoreCount = 3
  MaxStoreEntries = 1
  MaxAge = 6
SYMMETRY Symmetry
INVARIANT TypeOK
PROPERTIES NovelOnce RefinesSeenWindow
