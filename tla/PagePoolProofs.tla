--------------------------- MODULE PagePoolProofs ---------------------------
(***************************************************************************)
(* No page of the screen driver is lost or leased twice, for any number of *)
(* lanes and pages and however late a page comes back.                     *)
(***************************************************************************)
EXTENDS PagePool, TLAPS

(* The lanes' places and pages, as far as the pages are concerned.         *)
PoolInv == pc \in [Lanes -> Places] /\ held \in [Lanes -> Pages \cup {None}] /\ PagesAreKept

(* A step that neither begins nor ends a lease disturbs no page.           *)
LEMMA OtherStepsKeep ==
  ASSUME PoolInv, NEW l \in Lanes,
         Ask(l) \/ GetPermit(l) \/ FindNone(l) \/ GiveUp(l) \/ DropPermit(l) \/ TryAgain(l)
  PROVE  PoolInv'
  <1>1. UNCHANGED <<pages, returning, held>>
    BY DEF Ask, GetPermit, FindNone, GiveUp, DropPermit, TryAgain
  <1>2. pc' \in [Lanes -> Places] /\ \A m \in Lanes : (pc[m] = "leased") <=> (pc'[m] = "leased")
    BY DEF PoolInv, Places, Move, Ask, GetPermit, FindNone, GiveUp, DropPermit, TryAgain
  <1>3. {m \in Lanes : pc'[m] = "leased"} = {m \in Lanes : pc[m] = "leased"}
    BY <1>2
  <1> QED
    BY <1>1, <1>2, <1>3 DEF PoolInv, PagesAreKept

(* A page that is taken leaves the pool.                                   *)
LEMMA TakingKeeps == ASSUME PoolInv, NEW l \in Lanes, TakePage(l) PROVE PoolInv'
  <1>1. PICK g \in pages : pages' = pages \ {g} /\ held' = [held EXCEPT ![l] = g]
    BY DEF TakePage
  <1>2. /\ returning' = returning /\ pc[l] = "permitted"
        /\ pc' = [pc EXCEPT ![l] = "leased"] /\ pc' \in [Lanes -> Places]
    BY DEF TakePage, Move, PoolInv, Places
  <1>3. g \in Pages /\ held' \in [Lanes -> Pages \cup {None}] /\ held'[l] = g
    BY <1>1 DEF PoolInv, PagesAreKept
  <1>4. \A m \in Lanes \ {l} : pc'[m] = pc[m] /\ held'[m] = held[m]
    BY <1>1, <1>2 DEF PoolInv
  <1>5. pc'[l] = "leased"
    BY <1>2 DEF PoolInv
  <1>6. {held'[m] : m \in {x \in Lanes : pc'[x] = "leased"}}
          = {held[m] : m \in {x \in Lanes : pc[x] = "leased"}} \cup {g}
    BY <1>2, <1>3, <1>4, <1>5
  <1>7. \A m \in Lanes : pc'[m] = "leased" => held'[m] \notin pages' \cup returning'
    BY <1>1, <1>2, <1>3, <1>4 DEF PoolInv, PagesAreKept
  <1>8. \A m, n \in Lanes :
          pc'[m] = "leased" /\ pc'[n] = "leased" /\ held'[m] = held'[n] => m = n
    BY <1>2, <1>3, <1>4 DEF PoolInv, PagesAreKept
  <1> QED
    BY <1>1, <1>2, <1>3, <1>6, <1>7, <1>8 DEF PoolInv, PagesAreKept

(* A lease that is dropped leaves its page to the task, whole.             *)
LEMMA DroppingKeeps == ASSUME PoolInv, NEW l \in Lanes, DropLease(l) PROVE PoolInv'
  <1>1. /\ pages' = pages /\ returning' = returning \cup {held[l]}
        /\ held' = [held EXCEPT ![l] = None] /\ held' \in [Lanes -> Pages \cup {None}]
    BY DEF DropLease, PoolInv
  <1>2. /\ pc[l] = "leased" /\ pc' = [pc EXCEPT ![l] = "dropping"]
        /\ pc' \in [Lanes -> Places] /\ pc'[l] # "leased"
    BY DEF DropLease, Move, PoolInv, Places
  <1>3. \A m \in Lanes \ {l} : pc'[m] = pc[m] /\ held'[m] = held[m]
    BY <1>1, <1>2 DEF PoolInv
  <1>4. {held'[m] : m \in {x \in Lanes : pc'[x] = "leased"}} \cup {held[l]}
          = {held[m] : m \in {x \in Lanes : pc[x] = "leased"}}
    BY <1>2, <1>3
  <1>5. \A m \in Lanes : pc'[m] = "leased" => held'[m] \notin pages' \cup returning'
    BY <1>1, <1>2, <1>3 DEF PoolInv, PagesAreKept
  <1>6. pages' \cap returning' = {}
    BY <1>1, <1>2 DEF PoolInv, PagesAreKept
  <1>7. Pages = pages' \cup returning' \cup
                  {held'[m] : m \in {x \in Lanes : pc'[x] = "leased"}}
    BY <1>1, <1>4 DEF PoolInv, PagesAreKept
  <1>8. \A m, n \in Lanes :
          pc'[m] = "leased" /\ pc'[n] = "leased" /\ held'[m] = held'[n] => m = n
    BY <1>2, <1>3 DEF PoolInv, PagesAreKept
  <1> QED
    BY <1>1, <1>2, <1>5, <1>6, <1>7, <1>8 DEF PoolInv, PagesAreKept

(* A page that comes back was nobody's.                                    *)
LEMMA ReturnKeeps == ASSUME PoolInv, NEW g \in Pages, GiveBack(g) PROVE PoolInv'
  BY DEF PoolInv, PagesAreKept, GiveBack

(* No page is lost or shared, whatever the order of drops, returns and     *)
(* calls that are given up: for any number of lanes and pages.             *)
THEOREM NoPageIsLost == Spec => []PagesAreKept
  <1>1. Init => PoolInv
    <2> SUFFICES ASSUME Init PROVE PoolInv
      OBVIOUS
    <2>1. pc \in [Lanes -> Places] /\ \A l \in Lanes : pc[l] # "leased"
      BY DEF Init, Places
    <2>2. {held[l] : l \in {x \in Lanes : pc[x] = "leased"}} = {}
      BY <2>1
    <2> QED
      BY <2>1, <2>2 DEF Init, PoolInv, PagesAreKept
  <1>2. PoolInv /\ [Next]_pool => PoolInv'
    <2>1. CASE UNCHANGED pool
      BY <2>1 DEF pool, PoolInv, PagesAreKept
    <2>2. CASE Next
      BY <2>2, OtherStepsKeep, TakingKeeps, DroppingKeeps, ReturnKeeps DEF Next
    <2> QED
      BY <2>1, <2>2
  <1>3. PoolInv => PagesAreKept
    BY DEF PoolInv
  <1> QED
    BY <1>1, <1>2, <1>3, PTL DEF Spec
=============================================================================
