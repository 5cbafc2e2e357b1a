\* One command at a time, two positions; listings are repeated.
SPECIFICATION FairSpec
CONSTANTS
  h1 = h1
  h2 = h2
  h3 = h3
  yes = yes
  no = no
  Procs = {p1}
  Orders = {h1, h3}
  Trades = {yes, no}
  TradeOf <- OneEach
  MaxPosts = 2
  MaxPolls = 2
  MaxRows = 2
  NoOrder = NoOrder
  NoAnswer = NoAnswer
INVARIANTS
  TypeOK
  OneRowPerPosition
  JournalNeverAhead
PROPERTIES
  ListingKeepsOrders
  OrderStatusMovesForward
  OrdersStayInSight
  BuyEnds
  JournalFindsTruth
