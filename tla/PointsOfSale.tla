----------------------------- MODULE PointsOfSale -----------------------------
(***************************************************************************)
(* Where a market is, told twice: its row of market_locations, and the     *)
(* store the Pix provider keeps, which a till's first QR code registers.   *)
(* A QR code reads the location in one query and its version in another,   *)
(* asks the provider, commits the store's registration and then the        *)
(* till's; whatever it has committed stays when it stops.  The lock of a   *)
(* till, which outlives one registration of it, and columns nothing tests  *)
(* are left out.  Definitions named after a slip are broken variants.      *)
(***************************************************************************)
EXTENDS Naturals, Sequences

CONSTANTS
  Tills, Desks, \* registers of the market; requests under way at a time
  Streets,      \* locations that pass MarketLocation.validate
  Unset,        \* no row
  MaxPlaces,    \* bound: locations saved
  MaxStores     \* bound: stores made at the provider

Places == [version : Nat, street : Streets]
Shops == [store : Nat, synced : Nat]

ASSUME PointsAssumption ==
  /\ MaxPlaces \in Nat /\ MaxStores \in Nat /\ Unset \notin Places \cup Shops \cup Nat

VARIABLES
  place,   \* market_locations: version and street
  shop,    \* mercado_pago_store_registrations: store, version synced
  posOf,   \* mercado_pago_pos_registrations: of each till, its store
  stores,  \* at the provider: the street each store shows
  desk,    \* what each request has in hand
  placed,
  newest,  \* the highest version a location was saved with
  unsure   \* versions of the location that were saved twice, or that a QR code
           \* has with another street, or whose street another QR code has
           \* written over at the provider

pointsVars == <<place, shop, posOf, stores, desk, placed, newest, unsure>>

Closed == [pc |-> "closed"]
PointsInit ==
  /\ place = Unset /\ shop = Unset /\ posOf = [t \in Tills |-> Unset]
  /\ stores = <<>> /\ desk = [q \in Desks |-> Closed] /\ placed = 0
  /\ newest = 0 /\ unsure = {}

Holding(q, held) == desk' = [desk EXCEPT ![q] = held]
To(q, pc) == Holding(q, [desk[q] EXCEPT !.pc = pc])
Registering == {"version", "till", "update", "create", "shop", "pos"}

-----------------------------------------------------------------------------
(* The location *)

ReadPlace(q, street) ==
  /\ desk[q] = Closed /\ placed < MaxPlaces /\ placed' = placed + 1
  /\ Holding(q, [pc |-> "place", street |-> street,
                 same |-> place # Unset /\ street = place.street,
                 version |-> IF place = Unset THEN 1 ELSE place.version + 1])
  /\ UNCHANGED <<place, shop, posOf, stores, newest, unsure>>

\* the row is read again and all of it written, a row made meanwhile included;
\* a column that is to be as the request first read it is not written
SavePlace(q) ==
  LET held == desk[q]
  IN  /\ held.pc = "place"
      /\ place' = [version |-> held.version,
                   street |-> IF held.same THEN place.street ELSE held.street]
      /\ newest' = IF held.version > newest THEN held.version ELSE newest
      /\ unsure' = IF held.version > newest THEN unsure ELSE unsure \cup {held.version}
      /\ Holding(q, Closed)
      /\ UNCHANGED <<shop, posOf, stores, placed>>

-----------------------------------------------------------------------------
(* create_qr, up to the sale *)

GetLocation(q, t) ==
  /\ desk[q] = Closed /\ place # Unset /\ posOf[t] = Unset
  /\ Holding(q, [pc |-> "version", till |-> t, street |-> place.street])
  /\ UNCHANGED <<place, shop, posOf, stores, placed, newest, unsure>>

GetLocationVersion(q) ==
  LET held == desk[q]
  IN  /\ held.pc = "version"
      /\ Holding(q, [pc |-> "till", till |-> held.till, street |-> held.street,
                     version |-> place.version])
      /\ unsure' = IF held.street = place.street THEN unsure ELSE unsure \cup {place.version}
      /\ UNCHANGED <<place, shop, posOf, stores, placed, newest>>

\* the lock is the till's; a till that has its POS needs nothing
EnsurePosRegistered(q) ==
  LET held == desk[q]
      Goes(pc, store) ==
        Holding(q, [pc |-> pc, till |-> held.till, street |-> held.street,
                    version |-> held.version, first |-> shop = Unset, store |-> store])
  IN  /\ held.pc = "till"
      /\ IF \/ posOf[held.till] # Unset
            \/ \E o \in Desks \ {q} :
                 desk[o].pc \in Registering \ {"version", "till"} /\ desk[o].till = held.till
         THEN Holding(q, Closed)
         ELSE IF shop # Unset
         THEN Goes(IF shop.synced < held.version THEN "update" ELSE "pos", shop.store)
         ELSE Goes("create", Unset)
      /\ UNCHANGED <<place, shop, posOf, stores, placed, newest, unsure>>

\* the provider's answer may be lost
UpdateStore(q) ==
  /\ desk[q].pc = "update" /\ stores' = [stores EXCEPT ![desk[q].store] = desk[q].street]
  /\ unsure' = unsure \cup {desk[o].version : o \in {d \in Desks \ {q} : desk[d].pc = "shop"}}
                      \cup (IF shop.synced < desk[q].version THEN {} ELSE {shop.synced})
  /\ To(q, "shop") \/ Holding(q, Closed)
  /\ UNCHANGED <<place, shop, posOf, placed, newest>>
CreateStore(q) ==
  /\ desk[q].pc = "create" /\ Len(stores) < MaxStores
  /\ stores' = Append(stores, desk[q].street)
  /\ \/ Holding(q, [desk[q] EXCEPT !.pc = "shop", !.store = Len(stores')])
     \/ Holding(q, Closed)
  /\ UNCHANGED <<place, shop, posOf, placed, newest, unsure>>

\* a slip: the version the location has by now
Synced_Latest(q) == place.version
Synced(q) == desk[q].version

\* a market has one registration: the second of two insertions fails
SaveShop(q) ==
  LET held == desk[q]
  IN  /\ held.pc = "shop" /\ (held.first => shop = Unset)
      /\ shop' = [store |-> held.store, synced |-> Synced(q)]
      /\ To(q, "pos")
      /\ UNCHANGED <<place, posOf, stores, placed, newest, unsure>>

\* create_pos, which the provider keeps under the till's own number
SavePos(q) ==
  LET held == desk[q]
  IN  /\ held.pc = "pos" /\ posOf[held.till] = Unset
      /\ posOf' = [posOf EXCEPT ![held.till] = held.store]
      /\ Holding(q, Closed)
      /\ UNCHANGED <<place, shop, stores, placed, newest, unsure>>

\* refused by the provider or the database, without an answer, or dead
GivesUp(q) ==
  /\ desk[q] # Closed /\ Holding(q, Closed)
  /\ UNCHANGED <<place, shop, posOf, stores, placed, newest, unsure>>

PointsNext ==
  \E q \in Desks :
    \/ \E street \in Streets : ReadPlace(q, street)
    \/ \E t \in Tills : GetLocation(q, t)
    \/ SavePlace(q) \/ GetLocationVersion(q) \/ EnsurePosRegistered(q) \/ UpdateStore(q)
    \/ CreateStore(q) \/ SaveShop(q) \/ SavePos(q) \/ GivesUp(q)

PointsSpec == PointsInit /\ [][PointsNext]_pointsVars

-----------------------------------------------------------------------------
\* When the settings call the location ready the provider shows it, whatever
\* answers were lost and however often the location changed meanwhile: a QR code
\* syncs the version it read, never the one there is by then.  What the version
\* stamp cannot hold are the versions in unsure.  And every till that takes Pix
\* belongs to the store that shows the location, however first QR codes overlap.
StoreIsAsShown ==
  /\ shop # Unset /\ shop.synced = place.version /\ place.version \notin unsure =>
       stores[shop.store] = place.street
  /\ \A t \in Tills : posOf[t] # Unset => shop # Unset /\ posOf[t] = shop.store
=============================================================================
