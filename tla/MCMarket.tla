------------------------------ MODULE MCMarket ------------------------------
(* Small instances of what surrounds the counter of a shop.  Sales: two      *)
(* receipts, one of them partly on a customer's tab.  PixConnection, the     *)
(* shop's link to the Pix provider; PointsOfSale, its store and tills there; *)
(* Accounts, its owner's plan; RefreshSessions, his browser; Funnels, where  *)
(* he came from.  They share no state: a behaviour is of one of them.        *)
EXTENDS Sales, PixConnection, PointsOfSale, Accounts, RefreshSessions, Funnels, TLC

CONSTANTS p1, p2, b1, b2, k1, s1, s2, basic, pro, trial

\* p2 is on two lines of the first receipt
MCOrder ==
  s1 :> [box |-> b1, customer |-> NoCustomer,
         quantity |-> (p1 :> 2 @@ p2 :> 2), last |-> (p1 :> 2 @@ p2 :> 1),
         cash |-> 4, fiado |-> 0, card |-> 0]
  @@ s2 :> [box |-> b1, customer |-> k1,
         quantity |-> (p1 :> 1 @@ p2 :> 0), last |-> (p1 :> 1 @@ p2 :> 0),
         cash |-> 0, fiado |-> 1, card |-> 0]
MCPrice == p1 :> 1 @@ p2 :> 1
MCMaxMarkets == basic :> 1 @@ pro :> 2 @@ trial :> 1

VARIABLE part \* the component this behaviour is of

Parts == {"sales", "connection", "points", "account", "sessions", "funnel"}
MCInit ==
  /\ Init /\ LinkInit /\ PointsInit /\ AccountsInit /\ SessionsInit /\ FunnelInit
  /\ part \in {"sales"} \cup IF \A k \in Customers : customer[k].limit = 0 THEN Parts ELSE {}
Others(p) ==
  /\ part = p /\ part' = part
  /\ p # "sales" => UNCHANGED vars
  /\ p # "connection" => UNCHANGED linkVars
  /\ p # "points" => UNCHANGED pointsVars
  /\ p # "account" => UNCHANGED accountVars
  /\ p # "sessions" => UNCHANGED sessionVars
  /\ p # "funnel" => UNCHANGED funnelVars
MCNext ==
  \/ Others("sales") /\ Next
  \/ Others("connection") /\ LinkNext
  \/ Others("points") /\ PointsNext
  \/ Others("account") /\ AccountsNext
  \/ Others("sessions") /\ SessionsNext
  \/ Others("funnel") /\ FunnelNext
MCVars == <<vars, linkVars, pointsVars, accountVars, sessionVars, funnelVars, part>>
MCSpec == MCInit /\ [][MCNext]_MCVars

\* both of a pair, exchanged: in each component with a pair of another
Exchanged(S) == CHOOSE f \in Permutations(S) : \A x \in S : f[x] # x
Alike ==
  {Exchanged(Clients) @@ Exchanged(Callers) @@ Exchanged(Desks) @@ Exchanged(Handlers)
     @@ Exchanged(Tabs)}
    \cup {Exchanged(Terminals) @@ Exchanged(Admins) @@ Exchanged(Tills)}
    \cup {Exchanged(Operators) @@ Exchanged(Streets)}
    \cup {Exchanged(Variants)}
=============================================================================
