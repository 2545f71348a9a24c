----------------------------- MODULE Inutilization -----------------------------
(***************************************************************************)
(* Ranges of numbers of a market's series declared void: a row per range,  *)
(* keyed by CNPJ, series and range alone, and the provider, which keeps    *)
(* requests under a key made of the same.  The row is read into an entity  *)
(* before the provider is asked, and saved from it after the answer.  The  *)
(* tests on the form, messages and the audit are left out.  Definitions    *)
(* named after a slip are broken variants.                                 *)
(***************************************************************************)
EXTENDS Naturals

CONSTANTS
  Ranges, Clerks,
  Sefaz,      \* environments of the SEFAZ
  NoRequest,  \* a range nobody has asked for
  MaxAsks,    \* bound: requests of clerks
  MaxMoves    \* bound: changes of the market's environment

\* rows of the market; requests the provider keeps
VoidRows == [status : {"pending", "authorized", "failed"}, site : Sefaz]
FiledRows == [status : {"queued", "authorized", "refused"}, site : Sefaz]

ASSUME InutilizationAssumption ==
  /\ MaxAsks \in Nat /\ MaxMoves \in Nat /\ NoRequest \notin VoidRows \cup FiledRows

VARIABLES
  site,       \* environment of the market's configuration
  voided,     \* of each range, its row
  filed,      \* of each range, the provider's request
  clerk,      \* of each clerk, the request under way
  told,       \* <<range, site>> somebody was told is void
  asks, moves,
  disputed    \* for the properties: ranges two requests for which overlapped, or
              \* whose environment changed since they were asked for, or which
              \* the SEFAZ refused after it had been queued

numberingVars == <<site, voided, filed, clerk, told, asks, moves, disputed>>

AtEase == [pc |-> "ease"]
NumberingInit ==
  /\ site \in Sefaz /\ voided = [k \in Ranges |-> NoRequest]
  /\ filed = [k \in Ranges |-> NoRequest] /\ clerk = [c \in Clerks |-> AtEase]
  /\ told = {} /\ asks = 0 /\ moves = 0 /\ disputed = {}

Proceeds(c, held) == clerk' = [clerk EXCEPT ![c] = held]
InHand(k) == {c \in Clerks : clerk[c].pc # "ease" /\ clerk[c].range = k}

-----------------------------------------------------------------------------
\* a slip: a range that is void is asked for again
Void_Never(k) == FALSE
Void(k) == voided[k] # NoRequest /\ voided[k].status = "authorized"

RequestInutilization(c, k) ==
  /\ clerk[c] = AtEase /\ asks < MaxAsks /\ asks' = asks + 1
  /\ disputed' = IF InHand(k) = {} THEN disputed ELSE disputed \cup {k}
  /\ IF Void(k) THEN told' = told \cup {<<k, site>>} /\ UNCHANGED clerk
     ELSE /\ Proceeds(c, [pc |-> IF voided[k] = NoRequest THEN "create" ELSE "send",
                          range |-> k, site |-> site])
          /\ UNCHANGED told
  /\ UNCHANGED <<site, voided, filed, moves>>

\* the key is unique: the second of two insertions fails
CreateRow(c) ==
  LET r == clerk[c]
  IN  /\ r.pc = "create"
      /\ IF voided[r.range] = NoRequest
         THEN /\ voided' = [voided EXCEPT ![r.range] = [status |-> "pending", site |-> r.site]]
              /\ Proceeds(c, [r EXCEPT !.pc = "send"])
         ELSE Proceeds(c, AtEase) /\ UNCHANGED voided
      /\ UNCHANGED <<site, filed, told, asks, moves, disputed>>

Replied(c, outcome) ==
  Proceeds(c, [pc |-> "save", range |-> clerk[c].range, site |-> clerk[c].site, outcome |-> outcome])

\* one request per key, which a refusal frees; a queued one counts as success
InutilizeNumbering(c) ==
  LET r == clerk[c]
      old == filed[r.range]
      kept == old # NoRequest /\ old.status # "refused"
  IN  /\ r.pc = "send"
      /\ \E status \in {"queued", "authorized", "refused"} :
           /\ kept => status = old.status
           /\ filed' = IF kept THEN filed
                       ELSE [filed EXCEPT ![r.range] = [status |-> status, site |-> r.site]]
           /\ \E heard \in BOOLEAN :
                Replied(c, IF heard /\ status # "refused" THEN "authorized" ELSE "failed")
      /\ UNCHANGED <<site, voided, told, asks, moves, disputed>>

SendFails(c) ==
  /\ clerk[c].pc = "send" /\ Replied(c, "failed")
  /\ UNCHANGED <<site, voided, filed, told, asks, moves, disputed>>

SaveOutcome(c) ==
  LET r == clerk[c]
  IN  /\ r.pc = "save" /\ voided' = [voided EXCEPT ![r.range].status = r.outcome]
      /\ told' = IF r.outcome = "authorized" THEN told \cup {<<r.range, r.site>>} ELSE told
      /\ Proceeds(c, AtEase) /\ UNCHANGED <<site, filed, asks, moves, disputed>>

\* process death, or an error of the database
ClerkStops(c) ==
  /\ clerk[c].pc # "ease" /\ Proceeds(c, AtEase)
  /\ UNCHANGED <<site, voided, filed, told, asks, moves, disputed>>

SefazAnswers(k) ==
  /\ filed[k] # NoRequest /\ filed[k].status = "queued"
  /\ \E status \in {"authorized", "refused"} :
       /\ filed' = [filed EXCEPT ![k].status = status]
       /\ disputed' = IF status = "refused" THEN disputed \cup {k} ELSE disputed
  /\ UNCHANGED <<site, voided, clerk, told, asks, moves>>

MoveSite ==
  /\ moves < MaxMoves /\ moves' = moves + 1 /\ site' \in Sefaz \ {site}
  /\ disputed' = disputed \cup {k \in Ranges : voided[k] # NoRequest \/ InHand(k) # {}}
  /\ UNCHANGED <<voided, filed, clerk, told, asks>>

NumberingNext ==
  \/ MoveSite \/ \E k \in Ranges : SefazAnswers(k)
  \/ \E c \in Clerks :
       \/ CreateRow(c) \/ InutilizeNumbering(c) \/ SendFails(c) \/ SaveOutcome(c) \/ ClerkStops(c)
       \/ \E k \in Ranges : RequestInutilization(c, k)

NumberingSpec == NumberingInit /\ [][NumberingNext]_numberingVars

-----------------------------------------------------------------------------
\* A range somebody was told is void is void for good, in the row and with the
\* SEFAZ he was asking: through lost answers, retries after failures and
\* handlers that die, no later request takes the row back or files it elsewhere.
\* The exception are ranges that two clerks asked for at a time, whose market
\* changed its environment since, or which the SEFAZ queued and then refused.
VoidAsTold ==
  \A k \in Ranges \ disputed, s \in Sefaz : <<k, s>> \in told =>
    /\ voided[k].status = "authorized"
    /\ filed[k].status # "refused" /\ filed[k].site = s
=============================================================================
