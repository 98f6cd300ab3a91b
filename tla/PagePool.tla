------------------------------ MODULE PagePool ------------------------------
(***************************************************************************)
(* The pages of the screen driver (crates/driver/src/lib.rs): a semaphore  *)
(* with a permit for each page, the pages behind a mutex, and lanes that   *)
(* lease one for the time of a call.  A lease that ends first leaves its   *)
(* page to a task of its own, which puts it back when it gets to run, and  *)
(* then lets its permit go.  What is done on a page is left out, and so is *)
(* the closing of the browser.                                             *)
(***************************************************************************)
EXTENDS Naturals, FiniteSets

CONSTANTS
  Lanes, \* the calls that use the screen
  Pages, \* the pages the browser was launched with
  None   \* no page

VARIABLES
  pages,     \* BrowserPool.pages
  permits,   \* BrowserPool.slots: the permits that are free
  returning, \* pages whose task has yet to run
  pc,        \* where each lane is
  held       \* the page of its lease

Places == {"off", "queued", "permitted", "leased", "dropping", "turned_away"}

pool == <<pages, permits, returning, pc, held>>

Init ==
  /\ pages = Pages /\ permits = Cardinality(Pages) /\ returning = {}
  /\ pc = [l \in Lanes |-> "off"] /\ held = [l \in Lanes |-> None]

Move(l, from, to) == pc[l] = from /\ pc' = [pc EXCEPT ![l] = to]

(* lease(): a permit, and then the mutex.                                  *)
Ask(l) == Move(l, "off", "queued") /\ UNCHANGED <<pages, permits, returning, held>>

GetPermit(l) ==
  /\ permits > 0 /\ permits' = permits - 1
  /\ Move(l, "queued", "permitted")
  /\ UNCHANGED <<pages, returning, held>>

TakePage(l) ==
  /\ Move(l, "permitted", "leased")
  /\ \E g \in pages : pages' = pages \ {g} /\ held' = [held EXCEPT ![l] = g]
  /\ UNCHANGED <<permits, returning>>

(* "page pool empty": the call ends in an error, and its permit goes back. *)
FindNone(l) ==
  /\ pages = {}
  /\ Move(l, "permitted", "turned_away") /\ permits' = permits + 1
  /\ UNCHANGED <<pages, returning, held>>

(* The scheduler gives a call up while it waits.                           *)
GiveUp(l) ==
  /\ \/ Move(l, "queued", "off") /\ UNCHANGED permits
     \/ Move(l, "permitted", "off") /\ permits' = permits + 1
  /\ UNCHANGED <<pages, returning, held>>

(* The lease is dropped: the call is over, one way or another.  Its fields *)
(* are dropped after Lease::drop has run, and the permit is one of them.   *)
DropLease(l) ==
  /\ Move(l, "leased", "dropping")
  /\ returning' = returning \cup {held[l]} /\ held' = [held EXCEPT ![l] = None]
  /\ UNCHANGED <<pages, permits>>

DropPermit(l) ==
  /\ Move(l, "dropping", "off") /\ permits' = permits + 1
  /\ UNCHANGED <<pages, returning, held>>

GiveBack(g) ==
  /\ g \in returning
  /\ returning' = returning \ {g} /\ pages' = pages \cup {g}
  /\ UNCHANGED <<permits, pc, held>>

(* A call that was turned away is tried again.                             *)
TryAgain(l) == Move(l, "turned_away", "off") /\ UNCHANGED <<pages, permits, returning, held>>

Next ==
  \/ \E l \in Lanes :
       \/ Ask(l) \/ GetPermit(l) \/ TakePage(l) \/ FindNone(l) \/ GiveUp(l)
       \/ DropLease(l) \/ DropPermit(l) \/ TryAgain(l)
  \/ \E g \in Pages : GiveBack(g)

Spec == Init /\ [][Next]_pool

(* "Returned to the pool on drop", says a lease (lib.rs:28), and the test  *)
(* that the third lease waits until a page is returned: then a lane that   *)
(* is let in finds a page.                                                 *)
PermitFindsPage == \A l \in Lanes : pc[l] # "turned_away"

(* Every page is in the pool, on its way back, or leased to one lane: none *)
(* is lost, and no two lanes ever drive the same one.                      *)
PagesAreKept ==
  /\ Pages = pages \cup returning \cup {held[l] : l \in {x \in Lanes : pc[x] = "leased"}}
  /\ pages \cap returning = {}
  /\ \A l \in Lanes : pc[l] = "leased" => held[l] \notin pages \cup returning
  /\ \A l, m \in Lanes : pc[l] = "leased" /\ pc[m] = "leased" /\ held[l] = held[m] => l = m
=============================================================================
