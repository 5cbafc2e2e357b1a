--------------------------- MODULE MCOrderJournal ---------------------------
(* Small instances of OrderJournal: two orders of one position, and one of *)
(* another.                                                                *)
EXTENDS OrderJournal, TLC

CONSTANTS h1, h2, h3, yes, no

TwoAlike == h1 :> yes @@ h2 :> yes
OneEach == h1 :> yes @@ h3 :> no
OneYes == h1 :> yes
=============================================================================
