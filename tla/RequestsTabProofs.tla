------------------------- MODULE RequestsTabProofs -------------------------
(***************************************************************************)
(* Proofs about RequestsTab, for any number of requests and loads.         *)
(*                                                                         *)
(* No load knows of the others, so nothing can be said of a single one:    *)
(* the invariant says of each request, of each ride and of the photos that *)
(* the arrays have what is needed, or that some load is going to add it.   *)
(***************************************************************************)
EXTENDS RequestsTab, FiniteSetTheorems, FunctionTheorems, TLAPS

-----------------------------------------------------------------------------
(* The size of a bag *)

LEMMA PlacesAreFinite ==
  ASSUME NEW bag \in Bag
  PROVE  IsFiniteSet(PlacesOf(bag))
<1> DEFINE columns == {{r} \X (1..bag[r]) : r \in Requests}
           f == [r \in Requests |-> {r} \X (1..bag[r])]
<1>1. f \in Surjection(Requests, columns)
  <2>1. f \in [Requests -> columns]
    OBVIOUS
  <2>2. \A c \in columns : \E r \in Requests : f[r] = c
    OBVIOUS
  <2> QED
    BY <2>1, <2>2 DEF Surjection
<1>2. IsFiniteSet(columns)
  BY <1>1, RequestsTabConstants, FS_Surjection
<1>3. ASSUME NEW c \in columns PROVE IsFiniteSet(c)
  <2>1. PICK r \in Requests : c = {r} \X (1..bag[r])
    OBVIOUS
  <2>2. bag[r] \in Int /\ 1 \in Int
    BY DEF Bag
  <2>3. IsFiniteSet({r})
    BY FS_Singleton
  <2>4. IsFiniteSet(1..bag[r])
    BY <2>2, FS_Interval
  <2> QED
    BY <2>1, <2>3, <2>4, FS_Product
<1> QED
  BY <1>2, <1>3, FS_UNION DEF PlacesOf

LEMMA SizeIsNat == ASSUME NEW bag \in Bag PROVE SizeOf(bag) \in Nat
BY PlacesAreFinite, FS_CardinalityType DEF SizeOf

\* A bag that holds each request at least as often is at least as long.
LEMMA SizeGrows ==
  ASSUME NEW small \in Bag, NEW large \in Bag, \A r \in Requests : small[r] <= large[r]
  PROVE  SizeOf(small) <= SizeOf(large)
<1>1. PlacesOf(small) \subseteq PlacesOf(large)
  <2>1. ASSUME NEW r \in Requests PROVE {r} \X (1..small[r]) \subseteq {r} \X (1..large[r])
    <3>1. small[r] \in Nat /\ large[r] \in Nat /\ small[r] <= large[r]
      BY DEF Bag
    <3>2. 1..small[r] \subseteq 1..large[r]
      BY <3>1
    <3> QED
      BY <3>2
  <2> QED
    BY <2>1 DEF PlacesOf
<1> QED
  BY <1>1, PlacesAreFinite, FS_Subset DEF SizeOf

-----------------------------------------------------------------------------
(* The loads *)

\* Loads that have not asked for the photos; one that waits for a lost read
\* never does.
Early(l) == loads[l].stage \in {"queued", "type", "slots", "rides", "drivers"}

\* A load that will add request r to the drivers, or waits for ever.
Provides(l, r) ==
  \/ loads[l].stage \in {"queued", "type"}
  \/ loads[l].stage = "slots" /\ (r \in loads[l].unread \/ requests[r] > 0)
  \/ loads[l].stage = "rides" /\ loads[l].asked[r] > 0
  \/ loads[l].stage = "drivers" /\ loads[l].todo[r] > 0

\* Once a load has started each request is listed or will be.
Listed ==
  (\E l \in Loads : loads[l].stage # "none") =>
    \A r \in Requests : drivers[r] > 0 \/ \E l \in Loads : Provides(l, r)

\* The rides have their drivers, or the load that has set them fetches those.
RidesFit ==
  \A r \in Requests :
    \/ rides[r] <= drivers[r]
    \/ \E l \in Loads :
         loads[l].stage = "drivers" /\ rides[r] <= drivers[r] + loads[l].todo[r]

\* There are enough photos, or a load fetches them.
PhotosFit ==
  rows /\ ~ emptied =>
    \/ SizeOf(drivers) <= images
    \/ \E l \in Loads :
         \/ Early(l)
         \/ loads[l].stage = "images" /\ SizeOf(drivers) <= images + loads[l].downloads

RowsFit == rows => \E l \in Loads : loads[l].stage # "none"

TabInv == TypeOK /\ RowsFit /\ Listed /\ RidesFit /\ PhotosFit

LEMMA Records ==
  /\ EmptyBag \in Bag /\ NoLoad \in LoadRecords
  /\ NoLoad.stage = "none"
BY DEF EmptyBag, Bag, NoLoad, LoadRecords

LEMMA TabInit == Init => TabInv
<1> SUFFICES ASSUME Init PROVE TabInv
  OBVIOUS
<1>1. TypeOK
  BY Records DEF Init, TypeOK
<1>2. \A r \in Requests : rides[r] <= drivers[r]
  BY DEF Init, EmptyBag
<1>3. \A l \in Loads : loads[l].stage = "none"
  BY Records DEF Init
<1> QED
  BY <1>1, <1>2, <1>3 DEF Init, TabInv, RowsFit, Listed, RidesFit, PhotosFit

-----------------------------------------------------------------------------
(* One load moves on *)

LEMMA Moved ==
  ASSUME TypeOK, NEW l \in Loads, NEW load \in LoadRecords, MoveTo(l, load)
  PROVE  /\ loads' \in [Loads -> LoadRecords]
         /\ loads'[l] = load
         /\ \A k \in Loads \ {l} : loads'[k] = loads[k]
BY DEF TypeOK, MoveTo

\* The requests a load has collected go with it, or they were listed.
LEMMA ListedKept ==
  ASSUME TypeOK, RowsFit, Listed, NEW l \in Loads, NEW load \in LoadRecords, MoveTo(l, load),
         loads[l].stage # "none", load.stage # "none",
         requests' \in Bag, drivers' \in Bag,
         \A r \in Requests :
           /\ drivers[r] <= drivers'[r]
           /\ requests[r] <= requests'[r] \/ Provides(l, r)'
           /\ Provides(l, r) => Provides(l, r)' \/ drivers'[r] > 0
  PROVE  RowsFit' /\ Listed'
<1>1. /\ loads'[l] = load
      /\ \A k \in Loads \ {l} : loads'[k] = loads[k]
  BY Moved
<1>2. RowsFit'
  BY <1>1 DEF RowsFit
<1>3. ASSUME NEW r \in Requests PROVE drivers'[r] > 0 \/ \E k \in Loads : Provides(k, r)'
  <2>1. /\ drivers[r] \in Nat /\ drivers'[r] \in Nat
        /\ requests[r] \in Nat /\ requests'[r] \in Nat
    BY DEF TypeOK, Bag
  <2>2. drivers[r] > 0 \/ \E k \in Loads : Provides(k, r)
    BY DEF Listed
  <2>3. CASE drivers[r] > 0
    BY <2>1, <2>3
  <2>4. ASSUME NEW k \in Loads, Provides(k, r) PROVE drivers'[r] > 0 \/ \E j \in Loads : Provides(j, r)'
    <3>1. CASE k = l
      BY <2>4, <3>1
    <3>2. CASE k # l
      <4>1. loads'[k] = loads[k]
        BY <1>1, <3>2
      <4>2. CASE Provides(l, r)'
        BY <4>2
      <4>3. CASE requests[r] <= requests'[r]
        <5>1. requests[r] > 0 => requests'[r] > 0
          BY <2>1, <4>3
        <5>2. Provides(k, r)'
          BY <2>4, <4>1, <5>1 DEF Provides
        <5> QED
          BY <5>2
      <4> QED
        BY <4>2, <4>3
    <3> QED
      BY <3>1, <3>2
  <2> QED
    BY <2>2, <2>3, <2>4
<1> QED
  BY <1>2, <1>3 DEF Listed

LEMMA RidesKept ==
  ASSUME TypeOK, RidesFit, NEW l \in Loads, NEW load \in LoadRecords, MoveTo(l, load),
         rides' = rides, drivers' \in Bag,
         \A r \in Requests :
           /\ drivers[r] <= drivers'[r]
           /\ loads[l].stage = "drivers" =>
                \/ drivers[r] + loads[l].todo[r] <= drivers'[r]
                \/ load.stage = "drivers" /\ drivers[r] + loads[l].todo[r] <= drivers'[r] + load.todo[r]
  PROVE  RidesFit'
<1>1. /\ loads'[l] = load
      /\ \A k \in Loads \ {l} : loads'[k] = loads[k]
  BY Moved
<1> SUFFICES ASSUME NEW r \in Requests
             PROVE  \/ rides[r] <= drivers'[r]
                    \/ \E k \in Loads :
                         loads'[k].stage = "drivers" /\ rides[r] <= drivers'[r] + loads'[k].todo[r]
  BY DEF RidesFit
<1>2. /\ drivers[r] \in Nat /\ drivers'[r] \in Nat /\ rides[r] \in Nat
      /\ \A k \in Loads : loads[k].todo[r] \in Nat
      /\ load.todo[r] \in Nat /\ drivers[r] <= drivers'[r]
  BY DEF TypeOK, Bag, LoadRecords
<1>3. CASE rides[r] <= drivers[r]
  BY <1>2, <1>3
<1>4. ASSUME NEW k \in Loads, loads[k].stage = "drivers",
             rides[r] <= drivers[r] + loads[k].todo[r]
      PROVE  \/ rides[r] <= drivers'[r]
             \/ \E j \in Loads :
                  loads'[j].stage = "drivers" /\ rides[r] <= drivers'[r] + loads'[j].todo[r]
  <2>1. CASE k = l
    <3>2. CASE drivers[r] + loads[l].todo[r] <= drivers'[r]
      BY <1>2, <1>4, <2>1, <3>2
    <3>3. CASE load.stage = "drivers" /\ drivers[r] + loads[l].todo[r] <= drivers'[r] + load.todo[r]
      <4>1. rides[r] <= drivers'[r] + load.todo[r]
        BY <1>2, <1>4, <2>1, <3>3
      <4> QED
        BY <1>1, <3>3, <4>1
    <3> QED
      BY <1>4, <2>1, <3>2, <3>3
  <2>2. CASE k # l
    <3>1. loads'[k] = loads[k]
      BY <1>1, <2>2
    <3>2. rides[r] <= drivers'[r] + loads[k].todo[r]
      BY <1>2, <1>4
    <3> QED
      BY <1>4, <3>1, <3>2
  <2> QED
    BY <2>1, <2>2
<1> QED
  BY <1>3, <1>4 DEF RidesFit

\* A step to a stage before the photos.
LEMMA EarlyKeeps ==
  ASSUME TypeOK, NEW l \in Loads, NEW load \in LoadRecords, MoveTo(l, load),
         load.stage \in {"queued", "type", "slots", "rides", "drivers"}
  PROVE  PhotosFit'
BY Moved DEF PhotosFit, Early

-----------------------------------------------------------------------------
(* The invariant *)

LEMMA TabNext == TabInv /\ [Next]_vars => TabInv'
<1> SUFFICES ASSUME TabInv, [Next]_vars PROVE TabInv'
  OBVIOUS
<1>a. TypeOK /\ RowsFit /\ Listed /\ RidesFit /\ PhotosFit
  BY DEF TabInv
<1>b. ASSUME UNCHANGED <<loadVars, images, loads, emptied>>,
             at' \in {"away", "appearing", "tab", "detail"}, segment' \in {1, 2},
             shown' \in BOOLEAN, fault' \in BOOLEAN
      PROVE  TabInv'
  <2>1. TypeOK'
    BY <1>a, <1>b DEF TypeOK, loadVars
  <2> QED
    BY <1>a, <1>b, <2>1
       DEF loadVars, TabInv, RowsFit, Listed, RidesFit, PhotosFit, Provides, Early
<1>c. ASSUME Load, at' \in {"away", "appearing", "tab", "detail"} PROVE TabInv'
  <2>1. images' = 0 /\ emptied' = rows /\ UNCHANGED <<segment, loadVars, shown, fault>>
    BY <1>c DEF Load
  <2>2. PhotosFit'
    BY <2>1 DEF PhotosFit, loadVars
  <2>3. CASE rows
    <3>1. loads' = loads
      BY <1>c, <2>3 DEF Load
    <3>2. TypeOK'
      BY <1>a, <1>c, <2>1, <3>1 DEF TypeOK, loadVars
    <3> QED
      BY <1>a, <2>1, <2>2, <3>1, <3>2
         DEF loadVars, TabInv, RowsFit, Listed, RidesFit, Provides
  <2>4. CASE ~ rows
    <3>1. PICK l \in Loads : /\ loads[l].stage = "none"
                             /\ loads' = [loads EXCEPT ![l].stage = "queued"]
      BY <1>c, <2>4 DEF Load
    <3>2. /\ loads' \in [Loads -> LoadRecords] /\ loads'[l].stage = "queued"
          /\ \A k \in Loads \ {l} : loads'[k] = loads[k]
      BY <1>a, <3>1 DEF TypeOK, LoadRecords
    <3>3. TypeOK'
      BY <1>a, <1>c, <2>1, <3>2 DEF TypeOK, loadVars
    <3>4. RowsFit' /\ Listed'
      BY <3>2 DEF RowsFit, Listed, Provides
    <3>5. RidesFit'
      <4>1. ASSUME NEW k \in Loads, loads[k].stage = "drivers"
            PROVE  loads'[k] = loads[k]
        BY <3>1, <3>2, <4>1
      <4> QED
        BY <1>a, <2>1, <4>1 DEF RidesFit, loadVars
    <3> QED
      BY <2>2, <3>3, <3>4, <3>5 DEF TabInv
  <2> QED
    BY <2>3, <2>4
<1>1. CASE ViewWillAppear \/ ViewDidAppear
  BY <1>1, <1>c DEF ViewWillAppear, ViewDidAppear
<1>2. CASE Leave
  BY <1>2, <1>a, <1>b DEF Leave, TypeOK
<1>3. CASE SwitchSegmented
  <2>1. segment' \in {1, 2} /\ UNCHANGED <<at, loadVars, images, loads, emptied>>
    BY <1>3, <1>a DEF SwitchSegmented, TypeOK
  <2>2. shown' \in BOOLEAN /\ fault' \in BOOLEAN
    BY <1>3, <1>a DEF SwitchSegmented, ReloadData, TypeOK
  <2> QED
    BY <1>a, <1>b, <2>1, <2>2 DEF TypeOK
<1>4. CASE DidSelectRow
  BY <1>4, <1>a, <1>b DEF DidSelectRow, TypeOK
<1>5. ASSUME NEW l \in Loads, FailUnwrapping(l) PROVE TabInv'
  BY <1>5, <1>a, <1>b DEF FailUnwrapping, TypeOK
<1>6. CASE UNCHANGED vars
  BY <1>6, <1>a, <1>b DEF vars, loadVars, TypeOK
<1>d. ASSUME NEW l \in Loads, NEW load \in LoadRecords, MoveTo(l, load), OnlyTheLoad,
             requests' \in Bag
      PROVE  TypeOK'
  BY <1>a, <1>d, Moved DEF OnlyTheLoad, TypeOK
<1>e. \A r \in Requests : /\ drivers[r] \in Nat /\ rides[r] \in Nat /\ requests[r] \in Nat
                          /\ \A l \in Loads : /\ loads[l].todo[r] \in Nat /\ loads[l].asked[r] \in Nat
                                             /\ loads[l].lost[r] \in Nat
  BY <1>a DEF TypeOK, Bag, LoadRecords
<1>f. NoLoad = [stage |-> "none", unread |-> {}, asked |-> EmptyBag, todo |-> EmptyBag,
                lost |-> EmptyBag, downloads |-> 0]
  BY DEF NoLoad
<1>7. ASSUME NEW l \in Loads, RunBlock(l) PROVE TabInv'
  <2> DEFINE load == [NoLoad EXCEPT !.stage = "type"]
  <2>1. /\ loads[l].stage = "queued" /\ MoveTo(l, load) /\ OnlyTheLoad /\ requests' = requests
        /\ drivers' = drivers /\ rides' = rides
    BY <1>7 DEF RunBlock, OnlyTheLoad
  <2>2. load \in LoadRecords /\ load.stage = "type"
    BY Records DEF LoadRecords, NoLoad
  <2> HIDE DEF load
  <2>3. TypeOK'
    BY <1>a, <1>d, <2>1, <2>2 DEF TypeOK
  <2>4. \A r \in Requests : Provides(l, r)'
    BY <1>a, <2>1, <2>2, Moved DEF Provides
  <2>5. RowsFit' /\ Listed'
    BY <1>a, <1>e, <2>1, <2>2, <2>4, ListedKept DEF TypeOK
  <2>6. RidesFit'
    BY <1>a, <1>e, <2>1, <2>2, RidesKept DEF TypeOK
  <2> QED
    BY <1>a, <2>1, <2>2, <2>3, <2>5, <2>6, EarlyKeeps DEF TabInv
<1>8. ASSUME NEW l \in Loads, AnswerType(l) PROVE TabInv'
  <2> DEFINE load == [NoLoad EXCEPT !.stage = "slots", !.unread = Requests]
  <2>1. /\ loads[l].stage = "type" /\ MoveTo(l, load) /\ OnlyTheLoad /\ requests' = EmptyBag
        /\ drivers' = drivers /\ rides' = rides
    BY <1>8 DEF AnswerType, OnlyTheLoad
  <2>2. load \in LoadRecords /\ load.stage = "slots" /\ load.unread = Requests
    BY Records DEF LoadRecords, NoLoad
  <2> HIDE DEF load
  <2>3. TypeOK'
    BY <1>a, <1>d, <2>1, <2>2, Records DEF TypeOK
  <2>4. \A r \in Requests : Provides(l, r)'
    BY <1>a, <2>1, <2>2, Moved DEF Provides
  <2>5. RowsFit' /\ Listed'
    BY <1>a, <1>e, <2>1, <2>2, <2>4, Records, ListedKept DEF TypeOK
  <2>6. RidesFit'
    BY <1>a, <1>e, <2>1, <2>2, RidesKept DEF TypeOK
  <2> QED
    BY <1>a, <2>1, <2>2, <2>3, <2>5, <2>6, EarlyKeeps DEF TabInv
<1>9. ASSUME NEW l \in Loads, NEW s \in Requests, AnswerSlot(l, s) PROVE TabInv'
  <2> DEFINE load == [loads[l] EXCEPT !.unread = @ \ {s}]
  <2>1. /\ loads[l].stage = "slots" /\ MoveTo(l, load) /\ OnlyTheLoad
        /\ requests' = [requests EXCEPT ![s] = @ + 1]
        /\ drivers' = drivers /\ rides' = rides
    BY <1>9 DEF AnswerSlot, OnlyTheLoad
  <2>2. load \in LoadRecords /\ load.stage = "slots" /\ load.unread = loads[l].unread \ {s}
    BY <1>a, <2>1 DEF TypeOK, LoadRecords
  <2> HIDE DEF load
  <2>3. /\ requests' \in Bag /\ requests'[s] = requests[s] + 1
        /\ \A r \in Requests \ {s} : requests'[r] = requests[r]
    BY <1>a, <1>e, <2>1 DEF TypeOK, Bag
  <2>4. \A r \in Requests : requests[r] <= requests'[r] /\ requests'[r] \in Nat
    BY <1>e, <2>3
  <2>5. TypeOK'
    BY <1>d, <2>1, <2>2, <2>3
  <2>6. ASSUME NEW r \in Requests, Provides(l, r) PROVE Provides(l, r)'
    <3>1. r \in loads[l].unread \/ requests[r] > 0
      BY <2>1, <2>6 DEF Provides
    <3>2. r \in load.unread \/ requests'[r] > 0
      <4>1. CASE r = s
        BY <1>e, <2>3, <4>1
      <4>2. CASE r # s
        BY <2>2, <2>3, <3>1, <4>2
      <4> QED
        BY <4>1, <4>2
    <3> QED
      BY <1>a, <2>1, <2>2, <3>2, Moved DEF Provides
  <2>7. RowsFit' /\ Listed'
    <3>1. \A r \in Requests :
            /\ drivers[r] <= drivers'[r]
            /\ requests[r] <= requests'[r] \/ Provides(l, r)'
            /\ Provides(l, r) => Provides(l, r)' \/ drivers'[r] > 0
      BY <1>e, <2>1, <2>4, <2>6
    <3>2. drivers' \in Bag /\ loads[l].stage # "none" /\ load.stage # "none"
      BY <1>a, <2>1, <2>2 DEF TypeOK
    <3> QED
      BY <1>a, <2>1, <2>2, <2>3, <3>1, <3>2, ListedKept
  <2>8. RidesFit'
    BY <1>a, <1>e, <2>1, <2>2, RidesKept DEF TypeOK
  <2> QED
    BY <1>a, <2>1, <2>2, <2>5, <2>7, <2>8, EarlyKeeps DEF TabInv
<1>10. ASSUME NEW l \in Loads, NotifySlots(l) PROVE TabInv'
  <2> DEFINE load == [NoLoad EXCEPT !.stage = "rides", !.asked = requests, !.todo = requests]
  <2>1. /\ loads[l].stage = "slots" /\ loads[l].unread = {} /\ MoveTo(l, load) /\ OnlyTheLoad
        /\ requests' = requests /\ drivers' = drivers /\ rides' = rides
    BY <1>10 DEF NotifySlots, OnlyTheLoad
  <2>2. load \in LoadRecords /\ load.stage = "rides" /\ load.asked = requests
    BY <1>a, Records DEF LoadRecords, NoLoad, TypeOK
  <2> HIDE DEF load
  <2>3. TypeOK'
    BY <1>a, <1>d, <2>1, <2>2 DEF TypeOK
  <2>4. ASSUME NEW r \in Requests, Provides(l, r) PROVE Provides(l, r)'
    <3>1. requests[r] > 0
      BY <2>1, <2>4 DEF Provides
    <3> QED
      BY <1>a, <2>1, <2>2, <3>1, Moved DEF Provides
  <2>5. RowsFit' /\ Listed'
    BY <1>a, <1>e, <2>1, <2>2, <2>4, ListedKept DEF TypeOK
  <2>6. RidesFit'
    BY <1>a, <1>e, <2>1, <2>2, RidesKept DEF TypeOK
  <2> QED
    BY <1>a, <2>1, <2>2, <2>3, <2>5, <2>6, EarlyKeeps DEF TabInv
<1>11. ASSUME NEW l \in Loads, NEW s \in Requests, AnswerRide(l, s) PROVE TabInv'
  <2> DEFINE load == [loads[l] EXCEPT !.todo[s] = @ - 1]
  <2>1. /\ loads[l].stage = "rides" /\ loads[l].todo[s] > 0 /\ MoveTo(l, load) /\ OnlyTheLoad
        /\ requests' = requests /\ drivers' = drivers /\ rides' = rides
    BY <1>11, <1>e DEF AnswerRide, Awaited, OnlyTheLoad
  <2>2. load \in LoadRecords /\ load.stage = "rides" /\ load.asked = loads[l].asked
    <3>1. loads[l] \in LoadRecords /\ loads[l].todo[s] - 1 \in Nat
      BY <1>a, <1>e, <2>1 DEF TypeOK
    <3>2. [loads[l].todo EXCEPT ![s] = @ - 1] \in Bag
      BY <3>1 DEF LoadRecords, Bag
    <3> QED
      BY <2>1, <3>1, <3>2 DEF LoadRecords
  <2> HIDE DEF load
  <2>3. TypeOK'
    BY <1>a, <1>d, <2>1, <2>2 DEF TypeOK
  <2>4. ASSUME NEW r \in Requests, Provides(l, r) PROVE Provides(l, r)'
    BY <1>a, <2>1, <2>2, <2>4, Moved DEF Provides
  <2>5. RowsFit' /\ Listed'
    BY <1>a, <1>e, <2>1, <2>2, <2>4, ListedKept DEF TypeOK
  <2>6. RidesFit'
    BY <1>a, <1>e, <2>1, <2>2, RidesKept DEF TypeOK
  <2> QED
    BY <1>a, <2>1, <2>2, <2>3, <2>5, <2>6, EarlyKeeps DEF TabInv
<1>12. ASSUME NEW l \in Loads, NotifyRides(l) PROVE TabInv'
  <2> DEFINE load == [NoLoad EXCEPT !.stage = "drivers", !.asked = loads[l].asked,
                                    !.todo = loads[l].asked]
  <2>1. /\ loads[l].stage = "rides" /\ MoveTo(l, load) /\ rides' = loads[l].asked
        /\ UNCHANGED <<at, segment, drivers, rows, images, requests, shown, emptied, fault>>
    BY <1>12 DEF NotifyRides
  <2>2. load \in LoadRecords /\ load.stage = "drivers" /\ load.todo = loads[l].asked
    BY <1>a, Records DEF LoadRecords, NoLoad, TypeOK
  <2> HIDE DEF load
  <2>3. TypeOK'
    <3>1. rides' \in Bag
      BY <1>a, <2>1 DEF TypeOK, LoadRecords
    <3> QED
      BY <1>a, <2>1, <2>2, <3>1, Moved DEF TypeOK
  <2>4. ASSUME NEW r \in Requests, Provides(l, r) PROVE Provides(l, r)'
    <3>1. loads[l].asked[r] > 0
      BY <2>1, <2>4 DEF Provides
    <3> QED
      BY <1>a, <2>1, <2>2, <3>1, Moved DEF Provides
  <2>5. RowsFit' /\ Listed'
    BY <1>a, <1>e, <2>1, <2>2, <2>4, ListedKept DEF TypeOK
  <2>6. RidesFit'
    <3>1. loads'[l].stage = "drivers" /\ loads'[l].todo = loads[l].asked
      BY <1>a, <2>1, <2>2, Moved
    <3>2. \A r \in Requests : rides'[r] <= drivers'[r] + loads'[l].todo[r]
      BY <1>e, <2>1, <3>1
    <3> QED
      BY <3>1, <3>2 DEF RidesFit
  <2> QED
    BY <1>a, <2>1, <2>2, <2>3, <2>5, <2>6, EarlyKeeps DEF TabInv
<1>13. ASSUME NEW l \in Loads, NEW s \in Requests, AnswerDriver(l, s) PROVE TabInv'
  <2> DEFINE load == [loads[l] EXCEPT !.todo[s] = @ - 1]
  <2>1. /\ loads[l].stage = "drivers" /\ loads[l].todo[s] > 0 /\ MoveTo(l, load)
        /\ drivers' = [drivers EXCEPT ![s] = @ + 1]
        /\ UNCHANGED <<at, segment, rides, rows, images, requests, shown, emptied, fault>>
    BY <1>13, <1>e DEF AnswerDriver, Awaited
  <2>2. /\ load \in LoadRecords /\ load.stage = "drivers"
        /\ load.todo[s] = loads[l].todo[s] - 1
        /\ \A r \in Requests \ {s} : load.todo[r] = loads[l].todo[r]
    <3>1. loads[l] \in LoadRecords /\ loads[l].todo[s] - 1 \in Nat
      BY <1>a, <1>e, <2>1 DEF TypeOK
    <3>2. [loads[l].todo EXCEPT ![s] = @ - 1] \in Bag
      BY <3>1 DEF LoadRecords, Bag
    <3>3. load.todo = [loads[l].todo EXCEPT ![s] = @ - 1] /\ load.stage = "drivers"
      BY <2>1, <3>1 DEF LoadRecords
    <3>4. load \in LoadRecords
      BY <3>1, <3>2 DEF LoadRecords
    <3>5. loads[l].todo \in Bag
      BY <3>1 DEF LoadRecords
    <3> QED
      BY <3>3, <3>4, <3>5 DEF Bag
  <2> HIDE DEF load
  <2>3. /\ drivers' \in Bag /\ drivers'[s] = drivers[s] + 1
        /\ \A r \in Requests \ {s} : drivers'[r] = drivers[r]
    BY <1>a, <1>e, <2>1 DEF TypeOK, Bag
  <2>4. TypeOK'
    BY <1>a, <2>1, <2>2, <2>3, Moved DEF TypeOK
  <2>5. \A r \in Requests : drivers[r] <= drivers'[r]
    BY <1>e, <2>3
  <2>6. ASSUME NEW r \in Requests, Provides(l, r) PROVE Provides(l, r)' \/ drivers'[r] > 0
    <3>1. CASE r = s
      BY <1>e, <2>3, <3>1
    <3>2. CASE r # s
      <4>1. load.todo[r] > 0
        BY <2>1, <2>2, <2>6, <3>2 DEF Provides
      <4> QED
        BY <1>a, <2>1, <2>2, <4>1, Moved DEF Provides
    <3> QED
      BY <3>1, <3>2
  <2>7. RowsFit' /\ Listed'
    <3>1. \A r \in Requests :
            /\ drivers[r] <= drivers'[r]
            /\ requests[r] <= requests'[r] \/ Provides(l, r)'
            /\ Provides(l, r) => Provides(l, r)' \/ drivers'[r] > 0
      BY <1>e, <2>1, <2>5, <2>6
    <3>2. requests' \in Bag /\ loads[l].stage # "none" /\ load.stage # "none"
      BY <1>a, <2>1, <2>2 DEF TypeOK
    <3> QED
      BY <1>a, <2>1, <2>2, <2>3, <3>1, <3>2, ListedKept
  <2>8. \A r \in Requests : drivers[r] + loads[l].todo[r] <= drivers'[r] + load.todo[r]
    BY <1>e, <2>2, <2>3
  <2>9. RidesFit'
    BY <1>a, <2>1, <2>2, <2>3, <2>5, <2>8, RidesKept
  <2> QED
    BY <1>a, <2>1, <2>2, <2>4, <2>7, <2>9, EarlyKeeps DEF TabInv
<1>14. ASSUME NEW l \in Loads, NotifyDrivers(l) PROVE TabInv'
  <2> DEFINE load == [NoLoad EXCEPT !.stage = "images", !.downloads = SizeOf(drivers)]
  <2>1. /\ loads[l].stage = "drivers" /\ loads[l].todo = EmptyBag /\ MoveTo(l, load)
        /\ rows' = TRUE
        /\ UNCHANGED <<at, segment, rides, drivers, images, requests, shown, emptied, fault>>
    BY <1>14 DEF NotifyDrivers
  <2>2. SizeOf(drivers) \in Nat /\ images \in Nat
    BY <1>a, SizeIsNat DEF TypeOK
  <2>3. load \in LoadRecords /\ load.stage = "images" /\ load.downloads = SizeOf(drivers)
    BY <2>2, Records DEF LoadRecords, NoLoad
  <2> HIDE DEF load
  <2>4. TypeOK'
    BY <1>a, <2>1, <2>3, Moved DEF TypeOK
  <2>5. \A r \in Requests : loads[l].todo[r] = 0
    BY <2>1 DEF EmptyBag
  <2>6. \A r \in Requests : ~ Provides(l, r)
    BY <2>1, <2>5 DEF Provides
  <2>7. RowsFit' /\ Listed'
    BY <1>a, <1>e, <2>1, <2>3, <2>6, ListedKept DEF TypeOK
  <2>8. RidesFit'
    <3>1. \A r \in Requests : drivers[r] + loads[l].todo[r] <= drivers'[r]
      BY <1>e, <2>1, <2>5
    <3> QED
      BY <1>a, <1>e, <2>1, <2>3, <3>1, RidesKept DEF TypeOK
  <2>9. PhotosFit'
    <3>1. SizeOf(drivers)' = SizeOf(drivers) /\ images' = images
      BY <2>1
    <3>2. loads'[l] = load
      BY <1>a, <2>1, <2>3, Moved
    <3>3. SizeOf(drivers) <= images + load.downloads
      BY <2>2, <2>3
    <3> QED
      BY <2>3, <3>1, <3>2, <3>3 DEF PhotosFit
  <2> QED
    BY <2>4, <2>7, <2>8, <2>9 DEF TabInv
<1>15. ASSUME NEW l \in Loads, NEW load \in LoadRecords, MoveTo(l, load),
              loads[l].stage = "images", load.stage \in {"images", "done"},
              images' \in Nat, images <= images',
              SizeOf(drivers) <= images + loads[l].downloads
                => \/ SizeOf(drivers) <= images'
                   \/ load.stage = "images" /\ SizeOf(drivers) <= images' + load.downloads,
              shown' \in BOOLEAN, fault' \in BOOLEAN,
              UNCHANGED <<at, segment, loadVars, emptied>>
       PROVE  TabInv'
  <2>1. /\ rides' = rides /\ drivers' = drivers /\ requests' = requests /\ rows' = rows
        /\ loads'[l] = load /\ \A k \in Loads \ {l} : loads'[k] = loads[k]
    BY <1>15, <1>a, Moved DEF loadVars
  <2>2. TypeOK'
    BY <1>15, <1>a, <2>1, Moved DEF TypeOK
  <2>3. \A r \in Requests : ~ Provides(l, r)
    BY <1>15 DEF Provides
  <2>4. RowsFit' /\ Listed'
    BY <1>15, <1>a, <1>e, <2>1, <2>3, ListedKept DEF TypeOK
  <2>5. RidesFit'
    BY <1>15, <1>a, <1>e, <2>1, RidesKept DEF TypeOK
  <2>6. PhotosFit'
    <3>1. SizeOf(drivers)' = SizeOf(drivers) /\ SizeOf(drivers) \in Nat /\ images \in Nat
      BY <1>a, <2>1, SizeIsNat DEF TypeOK
    <3> SUFFICES ASSUME rows, ~ emptied
                 PROVE  \/ SizeOf(drivers) <= images'
                        \/ \E k \in Loads :
                             \/ Early(k)'
                             \/ loads'[k].stage = "images"
                                /\ SizeOf(drivers) <= images' + loads'[k].downloads
      BY <1>15, <2>1, <3>1 DEF PhotosFit
    <3>2. CASE SizeOf(drivers) <= images
      BY <1>15, <3>1, <3>2
    <3>3. ASSUME NEW k \in Loads, Early(k) PROVE Early(k)'
      BY <1>15, <2>1, <3>3 DEF Early
    <3>4. ASSUME NEW k \in Loads, loads[k].stage = "images",
                 SizeOf(drivers) <= images + loads[k].downloads
          PROVE  \/ SizeOf(drivers) <= images'
                 \/ \E j \in Loads : /\ loads'[j].stage = "images"
                                     /\ SizeOf(drivers) <= images' + loads'[j].downloads
      <4>1. CASE k = l
        BY <1>15, <2>1, <3>4, <4>1
      <4>2. CASE k # l
        <5>1. loads'[k] = loads[k] /\ loads[k].downloads \in Nat
          BY <1>a, <2>1, <4>2 DEF TypeOK, LoadRecords
        <5>2. SizeOf(drivers) <= images' + loads[k].downloads
          BY <1>15, <3>1, <3>4, <5>1
        <5> QED
          BY <3>4, <5>1, <5>2
      <4> QED
        BY <4>1, <4>2
    <3> QED
      BY <1>a, <3>2, <3>3, <3>4 DEF PhotosFit
  <2> QED
    BY <2>2, <2>4, <2>5, <2>6 DEF TabInv
<1>16. ASSUME NEW l \in Loads, AnswerImage(l) PROVE TabInv'
  <2> DEFINE load == [loads[l] EXCEPT !.downloads = @ - 1]
  <2>1. /\ loads[l].stage = "images" /\ loads[l].downloads > 0 /\ MoveTo(l, load)
        /\ images' = images + 1 /\ UNCHANGED <<at, segment, loadVars, shown, emptied, fault>>
    BY <1>16 DEF AnswerImage
  <2>2. images \in Nat /\ loads[l].downloads \in Nat /\ loads[l] \in LoadRecords
    BY <1>a DEF TypeOK, LoadRecords
  <2>3. load \in LoadRecords /\ load.stage = "images" /\ load.downloads = loads[l].downloads - 1
    BY <2>1, <2>2 DEF LoadRecords
  <2> HIDE DEF load
  <2>4. images' + load.downloads = images + loads[l].downloads /\ images <= images' /\ images' \in Nat
    BY <2>1, <2>2, <2>3
  <2> QED
    BY <1>15, <1>a, <2>1, <2>3, <2>4 DEF TypeOK
<1>17. ASSUME NEW l \in Loads, NotifyImages(l) PROVE TabInv'
  <2> DEFINE load == [NoLoad EXCEPT !.stage = "done"]
  <2>1. /\ loads[l].stage = "images" /\ loads[l].downloads = 0 /\ MoveTo(l, load)
        /\ ReloadData(segment) /\ UNCHANGED <<at, segment, loadVars, images, emptied>>
    BY <1>17 DEF NotifyImages
  <2>2. load \in LoadRecords /\ load.stage = "done"
    BY Records DEF LoadRecords, NoLoad
  <2> HIDE DEF load
  <2>3. images \in Nat /\ images + loads[l].downloads = images
    BY <1>a, <2>1 DEF TypeOK
  <2>4. shown' \in BOOLEAN /\ fault' \in BOOLEAN
    BY <1>a, <2>1 DEF ReloadData, TypeOK
  <2> QED
    BY <1>15, <2>1, <2>2, <2>3, <2>4
<1>18. ASSUME NEW l \in Loads, NEW s \in Requests, FailSilently(l, s) PROVE TabInv'
  <2> DEFINE load == [loads[l] EXCEPT !.lost[s] = @ + 1]
  <2>1. /\ loads[l].stage \in {"rides", "drivers"} /\ MoveTo(l, load) /\ OnlyTheLoad
        /\ requests' = requests /\ drivers' = drivers /\ rides' = rides
    BY <1>18 DEF FailSilently, OnlyTheLoad
  <2>2. /\ load \in LoadRecords /\ load.stage = loads[l].stage
        /\ load.asked = loads[l].asked /\ load.todo = loads[l].todo
    <3>1. loads[l] \in LoadRecords /\ loads[l].lost[s] + 1 \in Nat
      BY <1>a, <1>e DEF TypeOK
    <3>2. [loads[l].lost EXCEPT ![s] = @ + 1] \in Bag
      BY <3>1 DEF LoadRecords, Bag
    <3> QED
      BY <3>1, <3>2 DEF LoadRecords
  <2> HIDE DEF load
  <2>3. TypeOK'
    BY <1>a, <1>d, <2>1, <2>2 DEF TypeOK
  <2>4. ASSUME NEW r \in Requests, Provides(l, r) PROVE Provides(l, r)'
    BY <1>a, <2>1, <2>2, <2>4, Moved DEF Provides
  <2>5. RowsFit' /\ Listed'
    BY <1>a, <1>e, <2>1, <2>2, <2>4, ListedKept DEF TypeOK
  <2>6. RidesFit'
    <3>1. \A r \in Requests : drivers[r] + loads[l].todo[r] <= drivers'[r] + load.todo[r]
      BY <1>e, <2>1, <2>2
    <3> QED
      BY <1>a, <1>e, <2>1, <2>2, <3>1, RidesKept DEF TypeOK
  <2> QED
    BY <1>a, <2>1, <2>2, <2>3, <2>5, <2>6, EarlyKeeps DEF TabInv
<1> QED
  BY <1>1, <1>2, <1>3, <1>4, <1>5, <1>6, <1>7, <1>8, <1>9, <1>10, <1>11, <1>12, <1>13,
     <1>14, <1>16, <1>17, <1>18 DEF Next, Advance

\* Every variable keeps its type, in particular the counts of what is awaited.
THEOREM TypeCorrect == Spec => []TypeOK
<1>1. TabInv => TypeOK
  BY DEF TabInv
<1> QED
  BY <1>1, TabInit, TabNext, PTL DEF Spec

\* When all loads are done the list is complete, however many there were, and
\* in whatever order they were answered.
THEOREM ListSettles == Spec => []SettledListIsComplete
<1>1. TabInv => SettledListIsComplete
  <2> SUFFICES ASSUME TabInv, rows, ~ Busy
               PROVE  /\ \A r \in Requests : drivers[r] > 0 /\ rides[r] <= drivers[r]
                      /\ SizeOf(rides) <= SizeOf(drivers)
                      /\ ~ emptied => SizeOf(drivers) <= images
    BY DEF SettledListIsComplete
  <2>1. \A l \in Loads : loads[l].stage \in {"none", "done"}
    BY DEF Busy, UnderWay
  <2>2. \A r \in Requests : drivers[r] > 0
    BY <2>1 DEF TabInv, RowsFit, Listed, Provides
  <2>3. \A r \in Requests : rides[r] <= drivers[r]
    BY <2>1 DEF TabInv, RidesFit
  <2>4. SizeOf(rides) <= SizeOf(drivers)
    BY <2>3, SizeGrows DEF TabInv, TypeOK
  <2>5. ~ emptied => SizeOf(drivers) <= images
    BY <2>1 DEF TabInv, PhotosFit, Early
  <2> QED
    BY <2>2, <2>3, <2>4, <2>5
<1> QED
  BY <1>1, TabInit, TabNext, PTL DEF Spec
====
