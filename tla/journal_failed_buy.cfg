\* A buy whose exchange answers too late.
SPECIFICATION Spec
CONSTANTS
  h1 = h1
  h2 = h2
  h3 = h3
  yes = yes
  no = no
  Procs = {p1}
  Orders = {h1}
  Trades = {yes}
  TradeOf <- OneYes
  MaxPosts = 2
  MaxPolls = 2
  MaxRows = 2
  NoOrder = NoOrder
  NoAnswer = NoAnswer
PROPERTIES
  FailedBuyPlacesNothing
