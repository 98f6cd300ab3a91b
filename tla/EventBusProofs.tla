--------------------------- MODULE EventBusProofs ---------------------------
(***************************************************************************)
(* Why no wait misses an event the bus has seen, for any number of waits   *)
(* and facts: the index never runs ahead of seen by more than the event    *)
(* the reader holds the lock for, and a wait that found nothing marked a   *)
(* version that the reader has yet to leave behind.                        *)
(***************************************************************************)
EXTENDS EventBus, SequenceTheorems, TLAPS

(* Where the index points.                                                 *)
Indexed(f) ==
  \/ index[f] \in 1..Len(seen) /\ seen[index[f]] = f
  \/ reading = "indexed" /\ f = event /\ index[f] = Len(seen) + 1

IndexInv ==
  /\ \A f \in DOMAIN index : Indexed(f)
  /\ \A i \in 1..Len(seen) : seen[i] \in DOMAIN index
  /\ reading = "indexed" => event \in DOMAIN index

(* A wait that fetches got its position from the index, which keeps it.    *)
FetchInv ==
  \A w \in Waits : pc[w] = "fetching" =>
     /\ WaitsFor[w] \in DOMAIN index
     /\ at[w] = index[WaitsFor[w]]

(* A wait that found nothing has nothing to find, unless the version has   *)
(* moved on since or is about to.                                          *)
MissInv ==
  \A w \in Waits :
     /\ mark[w] <= version
     /\ pc[w] \in {"missed", "asleep"} /\ mark[w] = version =>
          \A i \in 1..Len(seen) :
             seen[i] \in Matching(w) => i = Len(seen) /\ reading = "pushed"

(* Whatever is announced holds, and so does whatever is seen.              *)
TruthInv ==
  /\ untold \subseteq holds
  /\ \A i \in 1..Len(channel) : channel[i] \in holds
  /\ reading # "idle" => event \in holds
  /\ \A i \in 1..Len(seen) : seen[i] \in holds

BusInv == TypeOK /\ IndexInv /\ FetchInv /\ MissInv
-----------------------------------------------------------------------------
(* The event bus stays within its types.                                   *)
LEMMA TypeStep == TypeOK /\ [Next]_vars => TypeOK'
<1> SUFFICES ASSUME TypeOK, [Next]_vars PROVE TypeOK'
  OBVIOUS
<1> USE BusAssumption DEF BusAssumption, TypeOK, Places
<1>1. ASSUME NEW f \in Facts, Happen(f) PROVE TypeOK'
  BY <1>1 DEF Happen, linkVars, readerVars, waitVars
<1>2. ASSUME NEW f \in Facts, Publish(f) PROVE TypeOK'
  <2>1. Sent(f) \in Seq(Facts) /\ Len(Sent(f)) <= Buffer
    <3>1. CASE Len(channel) = Buffer
      <4>1. channel # <<>>
        BY <3>1
      <4>2. Tail(channel) \in Seq(Facts) /\ Len(Tail(channel)) = Len(channel) - 1
        BY <4>1
      <4>3. QED
        BY <3>1, <4>2 DEF Sent
    <3>2. CASE Len(channel) # Buffer
      BY <3>2 DEF Sent
    <3>3. QED
      BY <3>1, <3>2
  <2>2. QED
    BY <1>2, <2>1 DEF Publish, readerVars, waitVars
<1>3. CASE Dial \/ Connected \/ TookTooLong
  BY <1>3 DEF Dial, Connected, TookTooLong, worldVars, readerVars, waitVars
<1>4. CASE Lose
  BY <1>4 DEF Lose, worldVars, readerVars, waitVars
<1>5. CASE Read
  <2>1. Head(channel) \in Facts
    BY <1>5 DEF Read
  <2>2. Tail(channel) \in Seq(Facts) /\ Len(Tail(channel)) <= Buffer
    BY <1>5 DEF Read
  <2>3. QED
    BY <1>5, <2>1, <2>2 DEF Read, worldVars, waitVars
<1>6. CASE Enter
  BY <1>6 DEF Enter, worldVars, linkVars, waitVars
<1>7. CASE Push
  BY <1>7 DEF Push, worldVars, linkVars, waitVars
<1>8. CASE Wake
  BY <1>8 DEF Wake, worldVars, linkVars, waitVars
<1>9. ASSUME NEW w \in Waits, Start(w) \/ Awake(w) \/ Glanced(w) \/ Timer(w)
      PROVE  TypeOK'
  <2>1. UNCHANGED <<worldVars, linkVars, readerVars>>
    BY <1>9 DEF Start, Awake, Mark, Look, Scan, Fetch, Sleep, Woken, Glanced, Timer,
                SliceOver, Deadline
  <2>2. pc' \in [Waits -> Places]
    BY <1>9 DEF Start, Awake, Mark, Look, Scan, Fetch, Sleep, Woken, Glanced, Timer,
                SliceOver, Deadline, Move
  <2>3. mark' \in [Waits -> Nat] /\ at' \in [Waits -> Nat]
    BY <1>9 DEF Start, Awake, Mark, Look, Scan, Fetch, Sleep, Woken, Glanced, Timer,
                SliceOver, Deadline, Move
  <2>4. QED
    BY <2>1, <2>2, <2>3 DEF worldVars, linkVars, readerVars
<1>10. CASE UNCHANGED vars
  BY <1>10 DEF vars, worldVars, linkVars, readerVars, waitVars
<1>11. QED
  BY <1>1, <1>2, <1>3, <1>4, <1>5, <1>6, <1>7, <1>8, <1>9, <1>10 DEF Next, Reader

(* Steps of the reader keep what the waits rely on.                        *)
LEMMA ReaderStep == BusInv /\ Reader => IndexInv' /\ FetchInv' /\ MissInv'
<1> SUFFICES ASSUME BusInv, Reader PROVE IndexInv' /\ FetchInv' /\ MissInv'
  OBVIOUS
<1> USE DEF BusInv
<1>0. UNCHANGED waitVars
  BY DEF Reader, Read, Enter, Push, Wake
<1>1. CASE Read
  <2>1. UNCHANGED <<seen, index, version>> /\ reading = "idle" /\ reading' = "locked"
    BY <1>1 DEF Read
  <2>2. QED
    BY <1>0, <2>1 DEF IndexInv, Indexed, FetchInv, MissInv, Matching, waitVars
<1>2. CASE Enter
  <2>0. /\ reading = "locked" /\ reading' = "indexed"
        /\ UNCHANGED <<event, seen, version>>
        /\ event \in Facts
    BY <1>2 DEF Enter, TypeOK
  <2>1. /\ DOMAIN index' = DOMAIN index \cup {event}
        /\ \A f \in DOMAIN index : index'[f] = index[f]
        /\ event \notin DOMAIN index => index'[event] = Len(seen) + 1
    BY <1>2 DEF Enter
  <2>2. IndexInv'
    BY <2>0, <2>1 DEF IndexInv, Indexed
  <2>3. FetchInv'
    BY <1>0, <2>1 DEF FetchInv, waitVars
  <2>4. MissInv'
    BY <1>0, <2>0 DEF MissInv, Matching, waitVars
  <2>5. QED
    BY <2>2, <2>3, <2>4
<1>3. CASE Push
  <2>0. /\ reading = "indexed" /\ reading' = "pushed"
        /\ UNCHANGED <<event, index, version>>
        /\ seen' = Append(seen, event) /\ seen \in Seq(Facts) /\ event \in Facts
    BY <1>3 DEF Push, TypeOK
  <2>1. /\ Len(seen') = Len(seen) + 1 /\ seen'[Len(seen) + 1] = event
        /\ \A i \in 1..Len(seen) : seen'[i] = seen[i]
        /\ Len(seen) \in Nat
    BY <2>0
  <2>2. IndexInv'
    <3>1. ASSUME NEW f \in DOMAIN index PROVE Indexed(f)'
      BY <2>0, <2>1 DEF IndexInv, Indexed
    <3>2. ASSUME NEW i \in 1..Len(seen') PROVE seen'[i] \in DOMAIN index
      BY <2>0, <2>1 DEF IndexInv
    <3>3. QED
      BY <2>0, <3>1, <3>2 DEF IndexInv
  <2>3. FetchInv'
    BY <1>0, <2>0 DEF FetchInv, waitVars
  <2>4. MissInv'
    <3> SUFFICES ASSUME NEW w \in Waits
                 PROVE  /\ mark[w] <= version
                        /\ pc[w] \in {"missed", "asleep"} /\ mark[w] = version =>
                             \A i \in 1..Len(seen') :
                                seen'[i] \in Matching(w) => i = Len(seen')
      BY <1>0, <2>0 DEF MissInv, Matching, waitVars
    <3>1. mark[w] <= version
      BY DEF MissInv
    <3>2. ASSUME pc[w] \in {"missed", "asleep"}, mark[w] = version,
                 NEW i \in 1..Len(seen), seen[i] \in Matching(w)
          PROVE  FALSE
      BY <2>0, <3>2 DEF MissInv
    <3>3. QED
      BY <2>1, <3>1, <3>2
  <2>5. QED
    BY <2>2, <2>3, <2>4
<1>4. CASE Wake
  <2>0. /\ reading = "pushed" /\ reading' = "idle"
        /\ UNCHANGED <<event, index, seen>>
        /\ version' = version + 1 /\ version \in Nat /\ mark \in [Waits -> Nat]
    BY <1>4 DEF Wake, TypeOK
  <2>1. IndexInv' /\ FetchInv'
    BY <1>0, <2>0 DEF IndexInv, Indexed, FetchInv, waitVars
  <2>2. MissInv'
    BY <1>0, <2>0 DEF MissInv, waitVars
  <2>3. QED
    BY <2>1, <2>2
<1>5. QED
  BY <1>1, <1>2, <1>3, <1>4 DEF Reader

(* Steps of a wait keep it, too.                                           *)
LEMMA WaitStep ==
  ASSUME BusInv, NEW w \in Waits, Start(w) \/ Awake(w) \/ Glanced(w) \/ Timer(w)
  PROVE  IndexInv' /\ FetchInv' /\ MissInv'
<1> USE DEF BusInv
<1>0. UNCHANGED <<worldVars, linkVars, readerVars>>
  BY DEF Start, Awake, Mark, Look, Scan, Fetch, Sleep, Woken, Glanced, Timer,
         SliceOver, Deadline
<1>1. IndexInv'
  BY <1>0 DEF IndexInv, Indexed, readerVars
<1>2. FetchInv'
  BY <1>0 DEF FetchInv, TypeOK, readerVars, Start, Awake, Mark, Look, Scan, Fetch, Sleep,
     Woken, Glanced, Timer, SliceOver, Deadline, Move
<1>3. \A v \in Waits : v # w => UNCHANGED <<pc[v], mark[v]>>
  BY DEF TypeOK, Start, Awake, Mark, Look, Scan, Fetch, Sleep, Woken, Glanced, Timer,
         SliceOver, Deadline, Move
<1>4. mark'[w] <= version
  BY DEF TypeOK, MissInv, Start, Awake, Mark, Look, Scan, Fetch, Sleep, Woken, Glanced,
         Timer, SliceOver, Deadline, Move
<1>5. ASSUME pc'[w] \in {"missed", "asleep"}, mark'[w] = version,
             NEW i \in 1..Len(seen), seen[i] \in Matching(w)
      PROVE  i = Len(seen) /\ reading = "pushed"
  <2>1. CASE Look(w) \/ Scan(w)
    <3>1. (w \notin AnyId /\ WaitsFor[w] \notin DOMAIN index) \/ SeenBy(w) = {}
      BY <1>5, <2>1 DEF Look, Scan, Move, TypeOK
    <3>2. QED
      BY <1>5, <3>1 DEF IndexInv, Matching, SeenBy
  <2>2. CASE Sleep(w)
    BY <1>5, <2>2 DEF Sleep, Move, MissInv, TypeOK
  <2>3. CASE Start(w) \/ Mark(w) \/ Fetch(w) \/ Woken(w) \/ Glanced(w) \/ Timer(w)
    BY <1>5, <2>3 DEF Start, Mark, Fetch, Woken, Glanced, Timer, SliceOver, Deadline,
                      Move, TypeOK
  <2>4. QED
    BY <2>1, <2>2, <2>3 DEF Awake
<1>6. MissInv'
  <2> SUFFICES ASSUME NEW v \in Waits
               PROVE  /\ mark'[v] <= version
                      /\ pc'[v] \in {"missed", "asleep"} /\ mark'[v] = version =>
                           \A i \in 1..Len(seen) :
                              seen[i] \in Matching(v) => i = Len(seen) /\ reading = "pushed"
    BY <1>0 DEF MissInv, Matching, readerVars
  <2>1. CASE v = w
    BY <1>4, <1>5, <2>1
  <2>2. CASE v # w
    BY <1>3, <2>2 DEF MissInv
  <2>3. QED
    BY <2>1, <2>2
<1>7. QED
  BY <1>1, <1>2, <1>6

(* The invariant of the bus.                                               *)
THEOREM BusInvariance == Spec => []BusInv
<1>1. Init => BusInv
  <2> SUFFICES ASSUME Init PROVE BusInv
    OBVIOUS
  <2>1. TypeOK
    <3>1. DOMAIN index = {} /\ channel \in Seq(Facts) /\ Len(channel) = 0
      BY DEF Init
    <3>2. /\ pc \in [Waits -> Places]
          /\ mark \in [Waits -> Nat]
          /\ at \in [Waits -> Nat]
      BY DEF Init, Places
    <3>3. Len(channel) <= Buffer /\ announced \in 0..MaxEvents
      BY <3>1, BusAssumption DEF Init, BusAssumption
    <3>4. QED
      BY <3>1, <3>2, <3>3 DEF Init, TypeOK
  <2>2. IndexInv /\ FetchInv /\ MissInv
    BY DEF Init, IndexInv, FetchInv, MissInv
  <2>3. QED
    BY <2>1, <2>2 DEF BusInv
<1>2. BusInv /\ [Next]_vars => BusInv'
  <2> SUFFICES ASSUME BusInv, [Next]_vars PROVE BusInv'
    OBVIOUS
  <2>1. TypeOK'
    BY TypeStep DEF BusInv
  <2>2. CASE Reader
    BY <2>1, <2>2, ReaderStep DEF BusInv
  <2>3. ASSUME NEW w \in Waits, Start(w) \/ Awake(w) \/ Glanced(w) \/ Timer(w)
        PROVE  BusInv'
    BY <2>1, <2>3, WaitStep DEF BusInv
  <2>4. CASE UNCHANGED <<readerVars, waitVars>>
    BY <2>1, <2>4 DEF BusInv, IndexInv, Indexed, FetchInv, MissInv, Matching, readerVars,
                      waitVars
  <2>5. QED
    BY <2>2, <2>3, <2>4 DEF Next, Happen, Publish, Dial, Connected, TookTooLong, Lose, vars
<1>3. QED
  BY <1>1, <1>2, PTL DEF Spec

(* Every variable of the bus and its waits keeps its type.                 *)
THEOREM BusTypes == Spec => []TypeOK
  BY BusInvariance, PTL DEF BusInv

(* Between a lookup in the index and the fetch from seen, the event it     *)
(* points at is there.                                                     *)
THEOREM FetchesFind == Spec => []FetchFinds
<1>1. BusInv => FetchFinds
  BY DEF BusInv, IndexInv, Indexed, FetchInv, FetchFinds, Free
<1>2. QED
  BY <1>1, BusInvariance, PTL

(* No wait sleeps on an event the bus has seen and told of.                *)
THEOREM NoWakeupIsLost == Spec => []NoLostWakeup
<1>1. BusInv => NoLostWakeup
  BY DEF BusInv, MissInv, NoLostWakeup, SeenBy
<1>2. QED
  BY <1>1, BusInvariance, PTL
-----------------------------------------------------------------------------
(* What the reader has in hand is true, because it was true when it was    *)
(* announced and nothing takes it back.                                    *)
LEMMA TruthStep == BusInv /\ TruthInv /\ [Next]_vars => TruthInv'
<1> SUFFICES ASSUME BusInv, TruthInv, [Next]_vars PROVE TruthInv'
  OBVIOUS
<1> USE DEF BusInv, TruthInv, TypeOK
<1>0. holds \subseteq holds'
  BY DEF Next, Happen, Publish, Dial, Connected, TookTooLong, Lose, Reader, Read, Enter,
     Push, Wake, Start, Awake, Mark, Look, Scan, Fetch, Sleep, Woken, Glanced, Timer,
     SliceOver, Deadline, vars, worldVars
<1>1. ASSUME NEW f \in Facts, Happen(f) PROVE TruthInv'
  BY <1>1 DEF Happen, linkVars, readerVars
<1>2. ASSUME NEW f \in Facts, Publish(f) PROVE TruthInv'
  <2>1. \A i \in 1..Len(Sent(f)) : Sent(f)[i] \in holds
    <3>1. CASE Len(channel) = Buffer
      <4>1. /\ Tail(channel) \in Seq(Facts)
            /\ Len(Tail(channel)) = Len(channel) - 1
            /\ \A i \in 1..Len(Tail(channel)) : Tail(channel)[i] = channel[i + 1]
        BY <3>1, BusAssumption DEF BusAssumption
      <4>2. QED
        BY <1>2, <3>1, <4>1 DEF Sent, Publish
    <3>2. CASE Len(channel) # Buffer
      BY <1>2, <3>2 DEF Sent, Publish
    <3>3. QED
      BY <3>1, <3>2
  <2>2. QED
    BY <1>2, <2>1 DEF Publish, readerVars
<1>3. CASE Dial \/ Connected \/ TookTooLong \/ Lose
  BY <1>3 DEF Dial, Connected, TookTooLong, Lose, worldVars, readerVars
<1>4. CASE Read
  <2>1. /\ Head(channel) = channel[1] /\ 1 \in 1..Len(channel)
        /\ \A i \in 1..Len(Tail(channel)) : Tail(channel)[i] = channel[i + 1]
        /\ Len(Tail(channel)) = Len(channel) - 1
    BY <1>4 DEF Read
  <2>2. QED
    BY <1>4, <2>1 DEF Read, worldVars
<1>5. CASE Enter \/ Wake
  BY <1>5 DEF Enter, Wake, worldVars, linkVars
<1>6. CASE Push
  BY <1>6 DEF Push, worldVars, linkVars
<1>7. CASE UNCHANGED <<worldVars, linkVars, readerVars>>
  BY <1>7 DEF worldVars, linkVars, readerVars
<1>8. QED
  BY <1>1, <1>2, <1>3, <1>4, <1>5, <1>6, <1>7 DEF Next, Reader, Start, Awake, Mark, Look,
     Scan, Fetch, Sleep, Woken, Glanced, Timer, SliceOver, Deadline, vars

(* A wait that succeeded did so on a fact that holds.                      *)
THEOREM SuccessIsSo == Spec => []OkIsSo
<1>1. Init => TruthInv /\ OkIsSo
  BY DEF Init, TruthInv, OkIsSo
<1>2. BusInv /\ TruthInv /\ OkIsSo /\ [Next]_vars => OkIsSo'
  <2> SUFFICES ASSUME BusInv, TruthInv, OkIsSo, [Next]_vars, NEW w \in Waits, pc'[w] = "ok"
               PROVE  Matching(w) \cap holds' # {}
    BY DEF OkIsSo, Matching
  <2>0. holds \subseteq holds'
    BY DEF Next, Happen, Publish, Dial, Connected, TookTooLong, Lose, Reader, Read, Enter,
       Push, Wake, Start, Awake, Mark, Look, Scan, Fetch, Sleep, Woken, Glanced, Timer,
       SliceOver, Deadline, vars, worldVars
  <2>1. CASE pc[w] = "ok"
    BY <2>0, <2>1 DEF OkIsSo
  <2>2. CASE pc[w] = "fetching" /\ Fetch(w)
    <3>1. WaitsFor[w] \in holds
      BY <2>2 DEF BusInv, IndexInv, Indexed, FetchInv, Fetch, Free, TruthInv
    <3>2. WaitsFor[w] \in Matching(w)
      BY BusAssumption DEF BusAssumption, Matching
    <3>3. QED
      BY <2>0, <3>1, <3>2
  <2>3. CASE Scan(w) /\ SeenBy(w) # {}
    <3>1. PICK i \in 1..Len(seen) : seen[i] \in Matching(w)
      BY <2>3 DEF SeenBy
    <3>2. QED
      BY <2>0, <3>1 DEF TruthInv
  <2>4. CASE Shows(w)
    <3>1. WaitsFor[w] \in Matching(w)
      BY BusAssumption DEF BusAssumption, Matching
    <3>2. QED
      BY <2>0, <2>4, <3>1 DEF Shows
  <2>5. \/ pc[w] = "ok"
        \/ pc[w] = "fetching" /\ Fetch(w)
        \/ Scan(w) /\ SeenBy(w) # {}
        \/ Shows(w)
    BY DEF BusInv, TypeOK, Next, Happen, Publish, Dial, Connected, TookTooLong, Lose,
       Reader, Read, Enter, Push, Wake, Start, Awake, Mark, Look, Scan, Fetch, Sleep,
       Woken, Glanced, Timer, SliceOver, Deadline, Move, vars, waitVars
  <2>6. QED
    BY <2>1, <2>2, <2>3, <2>4, <2>5
<1>3. QED
  BY <1>1, <1>2, TruthStep, BusInvariance, PTL DEF Spec
=============================================================================
