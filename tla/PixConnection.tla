---------------------------- MODULE PixConnection ----------------------------
(***************************************************************************)
(* The connection of a market to the Pix provider, one row: an OAuth       *)
(* callback connects it, a disconnection clears it, and whoever needs a    *)
(* token near its end renews it.  A request reads a copy of the row, may   *)
(* wait for the provider, and writes the columns in which the object       *)
(* differs from the copy.  The lock of a renewal decides nothing: who does *)
(* not get it goes on, and the second reading returns the copy in hand.    *)
(* Columns nothing tests (scopes, dates, errors, settings of the till) are *)
(* left out.  Definitions named after a slip are broken variants.          *)
(***************************************************************************)
EXTENDS Naturals

CONSTANTS
  Consents,   \* what the owner may grant, each for an account of its own
  Sessions,   \* requests and jobs at a time
  Null,       \* NULL, or no row
  MaxTurns    \* bound: sessions ever opened

LinkRows ==
  [status : {"connected", "not_connected", "reauthorization_required"}, account : Consents,
   token : {Null} \cup (Consents \X Nat)]

ASSUME ConnectionAssumption == MaxTurns \in Nat /\ Null \notin LinkRows

VARIABLES
  link,     \* the row: status, account, and the refresh token as <<consent, turn>>
  state,    \* of each consent, its row of oauth states
  granted,  \* at the provider: the refresh token each consent has now, by its turn
  session,  \* what each session has in hand
  revoked,  \* accounts a disconnection has taken away
  turns

linkVars == <<link, state, granted, session, revoked, turns>>

Shut == [op |-> "shut"]
NoLink == [status |-> "not_connected", account |-> Null, token |-> Null]

LinkInit ==
  /\ link = Null /\ state = [k \in Consents |-> "none"]
  /\ granted = [k \in Consents |-> 0]
  /\ session = [w \in Sessions |-> Shut]
  /\ revoked = {} /\ turns = 0

Open(w, held) ==
  /\ session[w] = Shut /\ turns < MaxTurns
  /\ session' = [session EXCEPT ![w] = held] /\ turns' = turns + 1
Keeps(w, held) == session' = [session EXCEPT ![w] = held] /\ UNCHANGED turns

\* a request that stops: refused by the provider, without an answer, or dead
Shuts(w) ==
  /\ session[w] # Shut /\ Keeps(w, Shut)
  /\ UNCHANGED <<link, state, granted, revoked>>

-----------------------------------------------------------------------------
(* OAuth *)

BuildAuthorization(k) ==
  /\ state[k] = "none" /\ state' = [state EXCEPT ![k] = "open"]
  /\ UNCHANGED <<link, granted, session, revoked, turns>>

StateExpires(k) ==
  /\ state[k] = "open" /\ state' = [state EXCEPT ![k] = "expired"]
  /\ UNCHANGED <<link, granted, session, revoked, turns>>

\* a state is used once, and used before the provider is asked
Callback(w, k) ==
  /\ state[k] = "open" /\ state' = [state EXCEPT ![k] = "used"]
  /\ Open(w, [op |-> "exchange", consent |-> k])
  /\ UNCHANGED <<link, granted, revoked>>

\* the row is read after the exchange; a refresh token may be left out
ExchangeCode(w) ==
  LET k == session[w].consent
  IN  /\ session[w].op = "exchange"
      /\ granted' = [granted EXCEPT ![k] = 1]
      /\ \E token \in {<<k, 1>>, Null} :
           Keeps(w, [op |-> "save", copy |-> link, revokes |-> FALSE,
                     new |-> [status |-> "connected", account |-> k, token |-> token]])
      /\ UNCHANGED <<link, state, revoked>>

Disconnect(w) ==
  /\ link # Null
  /\ Open(w, [op |-> "save", copy |-> link, revokes |-> TRUE,
              new |-> [NoLink EXCEPT !.account = link.account]])
  /\ UNCHANGED <<link, state, granted, revoked>>

-----------------------------------------------------------------------------
(* get_valid_access_token, of a token near its end *)

Renewal(w) ==
  /\ link # Null /\ link.status = "connected"
  /\ Open(w, [op |-> "renew", copy |-> link])
  /\ UNCHANGED <<link, state, granted, revoked>>

Renewed(copy, token) == [copy EXCEPT !.status = "connected", !.token = token]
Refused(copy) == [copy EXCEPT !.status = "reauthorization_required"]

\* the provider takes the last token it gave and gives another, or none and
\* that one stays; it may refuse any; an answer may be lost
RefreshCredentials(w) ==
  LET copy == session[w].copy
      live == copy.token # Null /\ copy.token = <<copy.token[1], granted[copy.token[1]]>>
      k == copy.token[1]
      Answer(new) == Keeps(w, [op |-> "save", copy |-> copy, revokes |-> FALSE, new |-> new])
  IN  /\ session[w].op = "renew"
      /\ \/ live /\ \E rotated \in {0, 1} :
              /\ granted' = [granted EXCEPT ![k] = @ + rotated]
              /\ Answer(Renewed(copy, <<k, granted[k] + rotated>>)) \/ Keeps(w, Shut)
         \/ Answer(Refused(copy)) /\ UNCHANGED granted
      /\ UNCHANGED <<link, state, revoked>>

-----------------------------------------------------------------------------
(* save *)

\* a slip: every column of the object
Stored_All(held) == held.new

\* the columns that differ from the copy; without a row there, all of them
Stored(held) ==
  IF held.copy = Null THEN held.new
  ELSE [c \in DOMAIN link |-> IF held.new[c] = held.copy[c] THEN link[c] ELSE held.new[c]]

\* a market has one row: the second of two insertions fails
SaveLink(w) ==
  LET held == session[w]
  IN  /\ held.op = "save" /\ (held.copy = Null => link = Null)
      /\ link' = Stored(held)
      /\ revoked' = IF held.revokes THEN revoked \cup {held.copy.account} ELSE revoked
      /\ Keeps(w, Shut)
      /\ UNCHANGED <<state, granted>>

LinkNext ==
  \/ \E k \in Consents : BuildAuthorization(k) \/ StateExpires(k)
  \/ \E w \in Sessions :
       \/ \E k \in Consents : Callback(w, k)
       \/ ExchangeCode(w) \/ Disconnect(w) \/ Renewal(w) \/ RefreshCredentials(w)
       \/ SaveLink(w) \/ Shuts(w)

LinkSpec == LinkInit /\ [][LinkNext]_linkVars

-----------------------------------------------------------------------------
(* Properties *)

\* A consent connects its market once: whatever renewals and callbacks were
\* under way when the owner disconnected an account, and write their old
\* copies later, the market is connected again only by another consent.
ConsentOnce == link # Null /\ link.status = "connected" => link.account \notin revoked
=============================================================================
