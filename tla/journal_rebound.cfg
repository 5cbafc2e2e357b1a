\* A listing and a buy at the same time.
SPECIFICATION Spec
CONSTANTS
  h1 = h1
  h2 = h2
  h3 = h3
  yes = yes
  no = no
  Procs = {p1, p2}
  Orders = {h1, h2}
  Trades = {yes}
  TradeOf <- TwoAlike
  MaxPosts = 2
  MaxPolls = 2
  MaxRows = 2
  NoOrder = NoOrder
  NoAnswer = NoAnswer
PROPERTIES
  ListingKeepsOrders
