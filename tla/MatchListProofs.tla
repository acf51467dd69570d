-------------------------- MODULE MatchListProofs --------------------------
(***************************************************************************)
(* Proofs about MatchList, for every set of users.                         *)
(*                                                                         *)
(* The inductive invariant follows the load from group to group.  In each  *)
(* of them nobody is both answered and awaited, so that the sequences have *)
(* each user once (GroupOK); the users fetched and those still awaited are *)
(* together those of the matches (FetchOK); whoever has a ride in the list *)
(* has committed it (RidesAreCommitted), and whoever is asked for one is   *)
(* listed (AwaitedAreListed).                                              *)
(***************************************************************************)
EXTENDS MatchList, FiniteSetTheorems, TLAPS

Distinct(s) == \A i, j \in 1..Len(s) : s[i] = s[j] => i = j
In(v, s) == \E i \in 1..Len(s) : s[i] = v

\* What the sequences hold at each stage of the load.
StageOK ==
  /\ stage \in {"queued", "query", "rides"} => matchRides = <<>>
  /\ stage \in {"queued", "query"} => rides = <<>>
  /\ stage \in {"queued", "query", "rides"} => found = <<>>
  /\ stage \in {"queued", "query", "rides", "drivers"} => drivers = <<>>
  /\ stage \in {"images", "shown"} => drivers = found
  /\ rows => stage = "shown"

\* Within a group nobody is both answered and awaited.
GroupOK ==
  /\ Distinct(rides) /\ Distinct(found)
  /\ stage = "rides" => \A v \in waiting : ~ In(v, rides)
  /\ stage = "drivers" => \A v \in waiting : ~ In(v, found)

\* The users fetched and those still awaited are the users of the matches, if
\* no answer is lost.
FetchOK ==
  /\ stage = "drivers" =>
       \A v \in Others :
         /\ In(v, found) \/ v \in waiting => In(v, matchRides)
         /\ lost = Nil /\ In(v, matchRides) => In(v, found) \/ v \in waiting
  /\ stage \in {"images", "shown"} =>
       \A v \in Others : In(v, found) <=> In(v, matchRides)

\* A ride that was read has been committed.
RidesAreCommitted ==
  \A v \in Others : In(v, rides) \/ In(v, matchRides) => Has(v, "ride")

\* Whoever is asked for a ride is listed.
AwaitedAreListed == stage = "rides" => \A v \in waiting : Has(v, "marker")

Inv == TypeOK /\ StageOK /\ GroupOK /\ FetchOK /\ RidesAreCommitted
         /\ AwaitedAreListed
         /\ EmployeesAreComplete

-----------------------------------------------------------------------------
(* Sequences. *)

\* Appending a user adds it to a sequence, once if it was not there.
LEMMA Appended ==
  ASSUME NEW S, NEW s \in Seq(S), NEW v \in S
  PROVE  /\ Append(s, v) \in Seq(S)
         /\ \A w : In(w, Append(s, v)) <=> In(w, s) \/ w = v
         /\ Distinct(s) /\ ~ In(v, s) => Distinct(Append(s, v))
<1> DEFINE t == Append(s, v)
<1>1. /\ t \in Seq(S) /\ Len(s) \in Nat /\ Len(t) = Len(s) + 1
      /\ t[Len(s) + 1] = v /\ \A i \in 1..Len(s) : t[i] = s[i]
  OBVIOUS
<1>2. \A i : i \in 1..Len(t) <=> i \in 1..Len(s) \/ i = Len(s) + 1
  BY <1>1
<1> HIDE DEF t
<1>3. \A w : In(w, t) <=> In(w, s) \/ w = v
  BY <1>1, <1>2 DEF In
<1>4. ASSUME Distinct(s), ~ In(v, s) PROVE Distinct(t)
  BY <1>1, <1>2, <1>4 DEF Distinct, In
<1>5. QED
  BY <1>1, <1>3, <1>4 DEF t

\* 1..n has n members.
LEMMA SizeOfInterval ==
  ASSUME NEW n \in Nat
  PROVE  IsFiniteSet(1..n) /\ Cardinality(1..n) = n
<1>1. 1 \in Int /\ n \in Int
  OBVIOUS
<1>2. /\ IsFiniteSet(1..n)
      /\ Cardinality(1..n) = IF 1 > n THEN 0 ELSE n - 1 + 1
  BY <1>1, FS_Interval
<1>3. (IF 1 > n THEN 0 ELSE n - 1 + 1) = n
  OBVIOUS
<1>4. QED
  BY <1>2, <1>3

\* Of two sequences the one with each user once is not the longer if all of
\* its users are in the other.
LEMMA NotLonger ==
  ASSUME NEW S, NEW s \in Seq(S), NEW t \in Seq(S), Distinct(s),
         \A v \in S : In(v, s) => In(v, t)
  PROVE  Len(s) <= Len(t)
<1> DEFINE f == [i \in 1..Len(s) |-> CHOOSE j \in 1..Len(t) : t[j] = s[i]]
<1>1. Len(s) \in Nat /\ Len(t) \in Nat
  OBVIOUS
<1>2. ASSUME NEW i \in 1..Len(s)
      PROVE  f[i] \in 1..Len(t) /\ t[f[i]] = s[i]
  <2>1. s[i] \in S /\ In(s[i], s)
    BY DEF In
  <2>2. \E j \in 1..Len(t) : t[j] = s[i]
    BY <2>1 DEF In
  <2>3. QED
    BY <2>2
<1>3. f \in Injection(1..Len(s), 1..Len(t))
  <2>1. f \in [1..Len(s) -> 1..Len(t)]
    BY <1>2
  <2>2. \A i, j \in 1..Len(s) : f[i] = f[j] => i = j
    <3>1. ASSUME NEW i \in 1..Len(s), NEW j \in 1..Len(s), f[i] = f[j]
          PROVE  s[i] = s[j]
      BY <1>2, <3>1
    <3>2. QED
      BY <3>1 DEF Distinct
  <2> HIDE DEF f
  <2>3. QED
    BY <2>1, <2>2 DEF Injection, IsInjective
<1>4. /\ IsFiniteSet(1..Len(s)) /\ Cardinality(1..Len(s)) = Len(s)
      /\ IsFiniteSet(1..Len(t)) /\ Cardinality(1..Len(t)) = Len(t)
  BY <1>1, SizeOfInterval
<1>5. Cardinality(1..Len(s)) <= Cardinality(1..Len(t))
  BY <1>3, <1>4, FS_Injection
<1>6. QED
  BY <1>4, <1>5

\* The users of a sequence, as a set.
LEMMA UsersOf ==
  ASSUME NEW S, NEW s \in Seq(S)
  PROVE  /\ ToSet(s) \subseteq S
         /\ \A v : v \in ToSet(s) <=> In(v, s)
         /\ \A v : In(v, s) => v \in S
BY DEF ToSet, In

\* Nobody is in the empty sequence.
LEMMA NobodyInEmpty ==
  /\ <<>> \in Seq(Others)
  /\ Distinct(<<>>)
  /\ \A v : ~ In(v, <<>>)
BY DEF Distinct, In

-----------------------------------------------------------------------------
(* Registrations. *)

\* A commit takes nothing away.
LEMMA CommitsStay ==
  ASSUME Inv, NEW v \in Others, Register(v), NEW u \in Others, NEW doc, Has(u, doc)
  PROVE  Has(u, doc)'
<1>1. committed[u] \in 0..3 /\ committed'[u] \in {committed[u], committed[u] + 1}
  BY DEF Inv, TypeOK, Register
<1>2. PICK i \in 1..committed[u] : Writes(u)[i] = doc
  BY DEF Has
<1>3. i \in 1..committed'[u]
  BY <1>1
<1>4. QED
  BY <1>2, <1>3 DEF Has

\* An employee with a ride has its document in "users".
LEMMA EmployeesWriteUserFirst ==
  ASSUME NEW v \in Employees, committed[v] \in 0..3, Has(v, "ride")
  PROVE  Has(v, "user")
<1>1. Writes(v) = <<"marker", "user", "ride">>
  BY DEF Writes
<1>2. PICK i \in 1..committed[v] : Writes(v)[i] = "ride"
  BY DEF Has
<1>3. i = 3
  BY <1>1, <1>2
<1>4. 2 \in 1..committed[v] /\ Writes(v)[2] = "user"
  BY <1>1, <1>2, <1>3
<1>5. QED
  BY <1>4 DEF Has

-----------------------------------------------------------------------------
(* The invariant. *)

\* A new controller has not loaded anything.
LEMMA InitInv == Init => Inv
<1>1. SUFFICES ASSUME Init PROVE Inv
  OBVIOUS
<1>2. TypeOK
  <2>1. committed \in [Others -> 0..3]
    BY <1>1 DEF Init
  <2>2. QED
    BY <1>1, <2>1, NobodyInEmpty DEF Init, TypeOK, Stages
<1>3. StageOK /\ FetchOK
  BY <1>1 DEF Init, StageOK, FetchOK
<1>4. GroupOK /\ RidesAreCommitted /\ AwaitedAreListed
  BY <1>1, NobodyInEmpty DEF Init, GroupOK, RidesAreCommitted, AwaitedAreListed
<1>5. EmployeesAreComplete
  BY <1>1, NilIsNothing DEF Init, EmployeesAreComplete
<1>6. QED
  BY <1>2, <1>3, <1>4, <1>5 DEF Inv

\* A step that adds nothing to a sequence, and takes nobody out of a group
\* that can still be left, keeps what concerns the groups.
LEMMA GroupsKept ==
  ASSUME Inv,
         UNCHANGED <<committed, stage, rides, matchRides, found, drivers, rows>>,
         waiting' \subseteq waiting,
         \/ stage # "drivers"
         \/ lost' # Nil
         \/ lost' = lost /\ waiting' = waiting
  PROVE  StageOK' /\ GroupOK' /\ FetchOK' /\ RidesAreCommitted' /\ AwaitedAreListed'
<1>1. StageOK'
  BY DEF Inv, StageOK
<1>2. GroupOK'
  BY DEF Inv, GroupOK
<1>3. FetchOK'
  BY DEF Inv, FetchOK
<1>4. RidesAreCommitted'
  BY DEF Inv, RidesAreCommitted, Has
<1>5. AwaitedAreListed'
  BY DEF Inv, AwaitedAreListed, Has
<1>6. QED
  BY <1>1, <1>2, <1>3, <1>4, <1>5

\* Only a crash on a user or a place, or a new match, concerns what is said of
\* crashes.
LEMMA CrashKept ==
  ASSUME EmployeesAreComplete,
         \/ UNCHANGED <<fault, matchRides>>
         \/ fault' \notin {"user", "place"}
  PROVE  EmployeesAreComplete'
BY DEF EmployeesAreComplete

-----------------------------------------------------------------------------
(* One lemma for each action, or kind of action. *)

\* The commits of other phones.
LEMMA RegisterOK == ASSUME Inv, NEW v \in Others, Register(v) PROVE Inv'
<1>1. committed' \in [Others -> 0..3]
  BY DEF Inv, TypeOK, Register
<1>2. TypeOK'
  BY <1>1 DEF Inv, TypeOK, Register, load
<1>3. StageOK' /\ GroupOK' /\ FetchOK'
  BY DEF Inv, StageOK, GroupOK, FetchOK, Register, load
<1>4. RidesAreCommitted'
  <2>1. ASSUME NEW u \in Others, In(u, rides) \/ In(u, matchRides)
        PROVE  Has(u, "ride")'
    BY <2>1, CommitsStay DEF Inv, RidesAreCommitted
  <2>2. QED
    BY <2>1 DEF RidesAreCommitted, Register, load
<1>5. AwaitedAreListed'
  <2>1. waiting \subseteq Others
    BY DEF Inv, TypeOK
  <2>2. ASSUME NEW u \in waiting, stage = "rides" PROVE Has(u, "marker")'
    BY <2>1, <2>2, CommitsStay DEF Inv, AwaitedAreListed
  <2>3. QED
    BY <2>2 DEF AwaitedAreListed, Register, load
<1>6. EmployeesAreComplete'
  BY CrashKept DEF Inv, Register, load
<1>7. QED
  BY <1>2, <1>3, <1>4, <1>5, <1>6 DEF Inv

\* The list of users is asked for, and comes: nobody is answered yet.
LEMMA QueryOK == ASSUME Inv, RunBlock \/ AnswerQuery PROVE Inv'
<1> USE DEF RunBlock, AnswerQuery, Running
<1>1. TypeOK'
  BY DEF Inv, TypeOK, Stages
<1>2. StageOK' /\ FetchOK'
  BY DEF Inv, StageOK, FetchOK
<1>3. GroupOK'
  BY NobodyInEmpty DEF Inv, StageOK, GroupOK
<1>4. RidesAreCommitted' /\ AwaitedAreListed'
  BY DEF Inv, RidesAreCommitted, AwaitedAreListed, Has
<1>5. EmployeesAreComplete'
  BY CrashKept DEF Inv
<1>6. QED
  BY <1>1, <1>2, <1>3, <1>4, <1>5 DEF Inv

\* A ride that comes may be added: its user was awaited, so not there yet.
LEMMA AnswerRideOK == ASSUME Inv, NEW v \in Others, AnswerRide(v) PROVE Inv'
<1>1. /\ fault = Nil /\ stage = "rides" /\ v \in waiting /\ Has(v, "ride")
      /\ waiting' = waiting \ {v}
      /\ rides' = rides \/ rides' = Append(rides, v)
      /\ UNCHANGED <<committed, at, stage, lost, matchRides, found, drivers,
                     rows, opened, fault>>
  BY DEF AnswerRide, Running
<1>2. rides \in Seq(Others) /\ Distinct(rides) /\ ~ In(v, rides)
  BY <1>1 DEF Inv, TypeOK, GroupOK
<1>3. /\ rides' \in Seq(Others) /\ Distinct(rides')
      /\ \A w : In(w, rides') => In(w, rides) \/ w = v
  <2>1. /\ Append(rides, v) \in Seq(Others) /\ Distinct(Append(rides, v))
        /\ \A w : In(w, Append(rides, v)) <=> In(w, rides) \/ w = v
    BY <1>2, Appended
  <2>2. QED
    BY <1>1, <1>2, <2>1
<1>4. TypeOK'
  BY <1>1, <1>3 DEF Inv, TypeOK
<1>5. StageOK' /\ FetchOK'
  BY <1>1 DEF Inv, StageOK, FetchOK
<1>6. GroupOK'
  BY <1>1, <1>3 DEF Inv, GroupOK
<1>7. RidesAreCommitted' /\ AwaitedAreListed'
  BY <1>1, <1>3 DEF Inv, RidesAreCommitted, AwaitedAreListed, Has
<1>8. EmployeesAreComplete'
  BY <1>1, CrashKept DEF Inv
<1>9. QED
  BY <1>4, <1>5, <1>6, <1>7, <1>8 DEF Inv

\* The matches are the rides that have come, each awaiting its user.
LEMMA MatchOK == ASSUME Inv, Match PROVE Inv'
<1>1. /\ fault = Nil /\ stage = "rides" /\ stage' = "drivers"
      /\ matchRides' = matchRides \o rides /\ waiting' = ToSet(matchRides')
      /\ UNCHANGED <<committed, at, lost, rides, found, drivers, rows, opened, fault>>
  BY DEF Match, Running
<1>2. rides \in Seq(Others) /\ matchRides' = rides
  BY <1>1 DEF Inv, TypeOK, StageOK
<1>3. waiting' \subseteq Others /\ \A v : v \in waiting' <=> In(v, rides)
  BY <1>1, <1>2, UsersOf
<1>4. found = <<>> /\ \A v : ~ In(v, found)
  BY <1>1, NobodyInEmpty DEF Inv, StageOK
<1>5. TypeOK'
  BY <1>1, <1>2, <1>3 DEF Inv, TypeOK, Stages
<1>6. StageOK'
  BY <1>1 DEF Inv, StageOK
<1>7. GroupOK'
  BY <1>1, <1>4 DEF Inv, GroupOK
<1>8. FetchOK'
  BY <1>1, <1>2, <1>3, <1>4 DEF FetchOK
<1>9. RidesAreCommitted' /\ AwaitedAreListed'
  BY <1>1, <1>2 DEF Inv, RidesAreCommitted, AwaitedAreListed, Has
<1>10. EmployeesAreComplete'
  BY <1>1, CrashKept, NilIsNothing DEF Inv
<1>11. QED
  BY <1>5, <1>6, <1>7, <1>8, <1>9, <1>10 DEF Inv

\* A user that comes is added: it was awaited, so not there yet.
LEMMA AnswerDriverOK == ASSUME Inv, NEW v \in Others, AnswerDriver(v) PROVE Inv'
<1>1. /\ fault = Nil /\ stage = "drivers" /\ v \in waiting
      /\ waiting' = waiting \ {v} /\ found' = Append(found, v)
      /\ UNCHANGED <<committed, at, stage, lost, rides, matchRides, drivers,
                     rows, opened, fault>>
  BY DEF AnswerDriver, Running
<1>2. found \in Seq(Others) /\ Distinct(found) /\ ~ In(v, found)
  BY <1>1 DEF Inv, TypeOK, GroupOK
<1>3. /\ found' \in Seq(Others) /\ Distinct(found')
      /\ \A w : In(w, found') <=> In(w, found) \/ w = v
  BY <1>1, <1>2, Appended
<1>4. TypeOK'
  BY <1>1, <1>3 DEF Inv, TypeOK
<1>5. StageOK'
  BY <1>1 DEF Inv, StageOK
<1>6. GroupOK'
  BY <1>1, <1>3 DEF Inv, GroupOK
<1>7. FetchOK'
  BY <1>1, <1>3 DEF Inv, FetchOK
<1>8. RidesAreCommitted' /\ AwaitedAreListed'
  BY <1>1 DEF Inv, RidesAreCommitted, AwaitedAreListed, Has
<1>9. EmployeesAreComplete'
  BY <1>1, CrashKept DEF Inv
<1>10. QED
  BY <1>4, <1>5, <1>6, <1>7, <1>8, <1>9 DEF Inv

\* A crash on a user is one on a responsable: whoever is awaited has a ride.
LEMMA MissDriverOK == ASSUME Inv, NEW v \in Others, MissDriver(v) PROVE Inv'
<1>1. /\ stage = "drivers" /\ v \in waiting /\ ~ Has(v, "user") /\ fault' = "user"
      /\ UNCHANGED <<committed, at, stage, waiting, lost, rides, matchRides,
                     found, drivers, rows, opened>>
  BY DEF MissDriver, Running, load
<1>2. TypeOK'
  BY <1>1 DEF Inv, TypeOK
<1>3. StageOK' /\ GroupOK' /\ FetchOK' /\ RidesAreCommitted' /\ AwaitedAreListed'
  BY <1>1, GroupsKept
<1>4. EmployeesAreComplete'
  <2>1. In(v, matchRides) /\ Has(v, "ride")
    BY <1>1 DEF Inv, FetchOK, RidesAreCommitted
  <2>2. v \in Responsables
    BY <1>1, <2>1, EmployeesWriteUserFirst DEF Inv, TypeOK, Others
  <2>3. v \in ToSet(matchRides)
    BY <2>1, UsersOf DEF Inv, TypeOK
  <2>4. QED
    BY <1>1, <2>2, <2>3 DEF EmployeesAreComplete
<1>5. QED
  BY <1>2, <1>3, <1>4 DEF Inv

\* When every user has come, those shown are those of the matches.
LEMMA ShowDriversOK == ASSUME Inv, ShowDrivers PROVE Inv'
<1>1. /\ stage = "drivers" /\ waiting = {} /\ lost = Nil /\ stage' = "images"
      /\ drivers' = found /\ waiting' = ToSet(found)
      /\ UNCHANGED <<committed, at, lost, rides, matchRides, found, rows, opened, fault>>
  BY DEF ShowDrivers, Running, GroupIsDone
<1>2. waiting' \subseteq Others
  BY <1>1, UsersOf DEF Inv, TypeOK
<1>3. TypeOK'
  BY <1>1, <1>2 DEF Inv, TypeOK, Stages
<1>4. StageOK'
  BY <1>1 DEF Inv, StageOK
<1>5. GroupOK'
  BY <1>1 DEF Inv, GroupOK
<1>6. FetchOK'
  BY <1>1 DEF Inv, FetchOK
<1>7. RidesAreCommitted' /\ AwaitedAreListed'
  BY <1>1 DEF Inv, RidesAreCommitted, AwaitedAreListed, Has
<1>8. EmployeesAreComplete'
  BY <1>1, CrashKept DEF Inv
<1>9. QED
  BY <1>3, <1>4, <1>5, <1>6, <1>7, <1>8 DEF Inv

\* With their users the rows are no more than the matches.
LEMMA ShownAreMatches ==
  ASSUME Inv, stage \in {"images", "shown"}
  PROVE  /\ Distinct(drivers)
         /\ \A v \in Others : In(v, drivers) <=> In(v, matchRides)
         /\ Len(drivers) \in Nat /\ Len(matchRides) \in Nat
         /\ Len(drivers) <= Len(matchRides)
<1>1. drivers \in Seq(Others) /\ matchRides \in Seq(Others)
  BY DEF Inv, TypeOK
<1>2. /\ Distinct(drivers)
      /\ \A v \in Others : In(v, drivers) <=> In(v, matchRides)
  BY DEF Inv, StageOK, GroupOK, FetchOK
<1>3. Len(drivers) <= Len(matchRides)
  BY <1>1, <1>2, NotLonger
<1>4. QED
  BY <1>1, <1>2, <1>3

\* A missing place means more matches than places.
LEMMA MissPlaceOK == ASSUME Inv, NEW v \in Others, MissPlace(v) PROVE Inv'
<1>1. /\ stage = "images" /\ Len(drivers) > MaxImages /\ fault' = "place"
      /\ UNCHANGED <<committed, at, stage, waiting, lost, rides, matchRides,
                     found, drivers, rows, opened>>
  BY DEF MissPlace, Running, load
<1>2. TypeOK'
  BY <1>1 DEF Inv, TypeOK
<1>3. StageOK' /\ GroupOK' /\ FetchOK' /\ RidesAreCommitted' /\ AwaitedAreListed'
  BY <1>1, GroupsKept
<1>4. ~ (Len(matchRides) <= MaxImages)
  BY <1>1, ShownAreMatches, MaxImagesIsNat
<1>5. EmployeesAreComplete'
  BY <1>1, <1>4 DEF EmployeesAreComplete
<1>6. QED
  BY <1>2, <1>3, <1>5 DEF Inv

\* A photo comes or fails.
LEMMA ImageOK ==
  ASSUME Inv, FailImage \/ \E v \in Others : AnswerImage(v) PROVE Inv'
<1>1. /\ stage = "images" /\ waiting' \subseteq waiting
      /\ fault' = fault \/ fault' = "photo"
      /\ UNCHANGED <<committed, at, stage, lost, rides, matchRides, found,
                     drivers, rows, opened>>
  BY DEF FailImage, AnswerImage, Running, load
<1>2. TypeOK'
  BY <1>1 DEF Inv, TypeOK
<1>3. StageOK' /\ GroupOK' /\ FetchOK' /\ RidesAreCommitted' /\ AwaitedAreListed'
  BY <1>1, GroupsKept
<1>4. EmployeesAreComplete'
  BY <1>1, CrashKept DEF Inv
<1>5. QED
  BY <1>2, <1>3, <1>4 DEF Inv

\* A read that fails, or finds no document, loses the group.
LEMMA LostOK ==
  ASSUME Inv,
         FailQuery \/ \E v \in Others : MissRide(v) \/ FailRead(v)
  PROVE  Inv'
<1>1. /\ waiting' \subseteq waiting /\ lost' \in {"document", "error"}
      /\ UNCHANGED <<committed, at, stage, rides, matchRides, found, drivers,
                     rows, opened, fault>>
  BY DEF FailQuery, MissRide, FailRead
<1>2. TypeOK'
  BY <1>1 DEF Inv, TypeOK
<1>3. StageOK' /\ GroupOK' /\ FetchOK' /\ RidesAreCommitted' /\ AwaitedAreListed'
  BY <1>1, GroupsKept, NilIsNothing
<1>4. EmployeesAreComplete'
  BY <1>1, CrashKept DEF Inv
<1>5. QED
  BY <1>2, <1>3, <1>4 DEF Inv

\* The rows appear at the end of the load.
LEMMA NotifyOK == ASSUME Inv, Notify PROVE Inv'
<1>1. /\ stage = "images" /\ stage' = "shown" /\ rows' = TRUE
      /\ UNCHANGED <<committed, at, waiting, lost, rides, matchRides, found,
                     drivers, opened, fault>>
  BY DEF Notify, Running
<1>2. TypeOK'
  BY <1>1 DEF Inv, TypeOK, Stages
<1>3. StageOK' /\ GroupOK' /\ FetchOK'
  BY <1>1 DEF Inv, StageOK, GroupOK, FetchOK
<1>4. RidesAreCommitted' /\ AwaitedAreListed'
  BY <1>1 DEF Inv, RidesAreCommitted, AwaitedAreListed, Has
<1>5. EmployeesAreComplete'
  BY <1>1, CrashKept DEF Inv
<1>6. QED
  BY <1>2, <1>3, <1>4, <1>5 DEF Inv

\* A row has a ride as well as a user, since there are not more users.
LEMMA DidSelectRowOK ==
  ASSUME Inv, NEW i \in DOMAIN drivers, DidSelectRow(i) PROVE Inv'
<1>1. /\ rows /\ at' = "driver"
      /\ opened' = [driver |-> drivers[i], ride |-> matchRides[i]]
      /\ UNCHANGED <<committed, stage, waiting, lost, rides, matchRides, found,
                     drivers, rows, fault>>
  BY DEF DidSelectRow, load
<1>2. TypeOK'
  <2>1. /\ drivers \in Seq(Others) /\ matchRides \in Seq(Others)
        /\ Len(drivers) <= Len(matchRides)
    BY <1>1, ShownAreMatches DEF Inv, TypeOK, StageOK
  <2>2. drivers[i] \in Others /\ matchRides[i] \in Others
    BY <2>1
  <2>3. opened' \in [driver : Others, ride : Others]
    BY <1>1, <2>2
  <2>4. QED
    BY <1>1, <2>3 DEF Inv, TypeOK
<1>3. StageOK' /\ GroupOK' /\ FetchOK' /\ RidesAreCommitted' /\ AwaitedAreListed'
  BY <1>1, GroupsKept
<1>4. EmployeesAreComplete'
  BY <1>1, CrashKept DEF Inv
<1>5. QED
  BY <1>2, <1>3, <1>4 DEF Inv

\* Going back, and a step of nothing.
LEMMA BackOK ==
  ASSUME Inv, BackToMatch \/ BackToHome \/ UNCHANGED vars PROVE Inv'
<1>1. /\ at' \in {"list", "home", at}
      /\ UNCHANGED <<committed, stage, waiting, lost, rides, matchRides, found,
                     drivers, rows, opened, fault>>
  BY DEF BackToMatch, BackToHome, vars, load
<1>2. TypeOK'
  BY <1>1 DEF Inv, TypeOK
<1>3. StageOK' /\ GroupOK' /\ FetchOK' /\ RidesAreCommitted' /\ AwaitedAreListed'
  BY <1>1, GroupsKept
<1>4. EmployeesAreComplete'
  BY <1>1, CrashKept DEF Inv
<1>5. QED
  BY <1>2, <1>3, <1>4 DEF Inv

-----------------------------------------------------------------------------
(* The theorems. *)

\* Every step keeps the invariant.
LEMMA StepInv == Inv /\ [Next]_vars => Inv'
<1>1. SUFFICES ASSUME Inv, [Next]_vars PROVE Inv'
  OBVIOUS
<1>2. CASE Load
  BY <1>1, <1>2, QueryOK, MatchOK, ShowDriversOK, NotifyOK, AnswerRideOK, LostOK,
     AnswerDriverOK, MissDriverOK, ImageOK, MissPlaceOK DEF Load
<1>3. CASE FailQuery \/ FailImage \/ BackToMatch \/ BackToHome \/ UNCHANGED vars
  BY <1>1, <1>3, LostOK, ImageOK, BackOK
<1>4. CASE \E v \in Others : Register(v) \/ FailRead(v)
  BY <1>1, <1>4, RegisterOK, LostOK
<1>5. CASE \E i \in DOMAIN drivers : DidSelectRow(i)
  BY <1>1, <1>5, DidSelectRowOK
<1>6. QED
  BY <1>1, <1>2, <1>3, <1>4, <1>5 DEF Next

\* The invariant holds in every state of every behaviour.
THEOREM SpecInv == Spec => []Inv
<1>1. QED
  BY InitInv, StepInv, PTL DEF Spec

\* Every variable keeps its type: no row lacks a ride, for any number of
\* matches.
THEOREM TypeCorrect == Spec => []TypeOK
<1>1. Inv => TypeOK
  BY DEF Inv
<1>2. QED
  BY <1>1, SpecInv, PTL

\* A row of MatchsTableViewController for each match, and no other.
THEOREM EachMatchHasItsRow == Spec => []RowsAreTheMatches
<1>1. Inv => RowsAreTheMatches
  <2>1. SUFFICES ASSUME Inv, rows PROVE IsInjective(drivers) /\ ToSet(drivers) = ToSet(matchRides)
    BY DEF RowsAreTheMatches
  <2>2. drivers \in Seq(Others) /\ matchRides \in Seq(Others) /\ stage = "shown"
    BY <2>1 DEF Inv, TypeOK, StageOK
  <2>3. /\ Distinct(drivers)
        /\ \A v \in Others : In(v, drivers) <=> In(v, matchRides)
    BY <2>1, <2>2, ShownAreMatches
  <2>4. IsInjective(drivers)
    BY <2>2, <2>3 DEF IsInjective, Distinct
  <2>5. ToSet(drivers) = ToSet(matchRides)
    <3>1. /\ ToSet(drivers) \subseteq Others /\ ToSet(matchRides) \subseteq Others
          /\ \A v : v \in ToSet(drivers) <=> In(v, drivers)
          /\ \A v : v \in ToSet(matchRides) <=> In(v, matchRides)
      BY <2>2, UsersOf
    <3>2. \A v \in Others : v \in ToSet(drivers) <=> v \in ToSet(matchRides)
      BY <2>3, <3>1
    <3>3. QED
      BY <3>1, <3>2
  <2>6. QED
    BY <2>4, <2>5
<1>2. QED
  BY <1>1, SpecInv, PTL

\* With places for all photos, and all of these downloaded, only a responsable
\* can crash the app of somebody who looks at the list.
THEOREM EmployeesNeverCrash == Spec => []EmployeesAreComplete
<1>1. Inv => EmployeesAreComplete
  BY DEF Inv
<1>2. QED
  BY <1>1, SpecInv, PTL

\* Only a registration that is half way can lose the list without an error:
\* fetchRides never leaves its group for a user who is listed without a ride.
THEOREM OnlyRegistrationsLose == Spec => LostToRegistrations
<1>1. Inv /\ [Next]_vars
        => [lost' = "document" /\ lost' # lost => \E v \in Others : Registering(v)]_vars
  <2>1. SUFFICES ASSUME Inv, Next, lost' = "document", lost' # lost
                 PROVE  \E v \in Others : Registering(v)
    OBVIOUS
  <2>2. PICK v \in Others : MissRide(v)
    BY <2>1 DEF Next, Load, RunBlock, AnswerQuery, AnswerRide, Match, AnswerDriver,
                MissDriver, ShowDrivers, AnswerImage, MissPlace, Notify, FailQuery,
                FailRead, FailImage, DidSelectRow, BackToMatch, BackToHome, Register, load
  <2>3. Has(v, "marker") /\ ~ Has(v, "ride")
    BY <2>1, <2>2 DEF MissRide, Running, Inv, AwaitedAreListed
  <2>4. committed[v] \in 0..3
    BY <2>1 DEF Inv, TypeOK
  <2>5. committed[v] # 0
    BY <2>3, <2>4 DEF Has
  <2>6. committed[v] # 3
    <3>1. Writes(v)[2] = "ride" \/ Writes(v)[3] = "ride"
      BY DEF Writes
    <3>2. 2 \in 1..3 /\ 3 \in 1..3
      OBVIOUS
    <3>3. QED
      BY <2>3, <3>1, <3>2 DEF Has
  <2>7. QED
    BY <2>4, <2>5, <2>6 DEF Registering
<1>2. QED
  BY <1>1, SpecInv, PTL DEF Spec, LostToRegistrations
=============================================================================
