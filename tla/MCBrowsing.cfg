\* Two addresses, three connections waiting for the helper (two calls given up
\* and one awaited), a helper history of two pages and a RAM history of two.
CONSTANTS
  Url = {u1, u2}
  NoUrl = none
  RingSize = 2
  MaxQueue = 3
  MaxDepth = 2
SPECIFICATION Spec
SYMMETRY Addresses
INVARIANTS
  TypeOK
  IdleIsStopped
  PageIsShown
  CursorOnPage
  HistoryEndsHere
