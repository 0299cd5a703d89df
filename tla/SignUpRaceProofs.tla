-------------------------- MODULE SignUpRaceProofs --------------------------
(***************************************************************************)
(* What holds of sign-ups that run at the same time, for any requests,     *)
(* users, numbers of seats, limits and pool.  The sale of paid tickets     *)
(* implements Seats; the limit per user holds for paid and free events.    *)
(***************************************************************************)
EXTENDS SignUpRace, FiniteSetTheorems, TLAPS

-----------------------------------------------------------------------------
(* Counting seats *)

\* The seats of any requests can be counted.
LEMMA SeatsFinite ==
    ASSUME NEW B \in SUBSET Requests
    PROVE  IsFiniteSet(SeatsIn(B)) /\ SeatCount(B) \in Nat
<1> DEFINE T == {{b} \X (1..SeatsOf[b]) : b \in B}
           f == [b \in B |-> {b} \X (1..SeatsOf[b])]
<1>1. IsFiniteSet(B)
  BY FS_Subset, RequestsAssumption
<1>2. f \in Surjection(B, T)
  BY DEF Surjection
<1>3. IsFiniteSet(T)
  BY <1>1, <1>2, FS_Surjection
<1>4. ASSUME NEW X \in T PROVE IsFiniteSet(X)
  <2>1. PICK b \in B : X = {b} \X (1..SeatsOf[b])
    OBVIOUS
  <2>2. IsFiniteSet(1..SeatsOf[b])
    <3>1. SeatsOf[b] \in Int
      BY RequestsAssumption
    <3> QED BY <3>1, FS_Interval
  <2>3. IsFiniteSet({b})
    BY FS_Singleton
  <2> QED BY <2>1, <2>2, <2>3, FS_Product
<1>5. IsFiniteSet(UNION T)
  BY <1>3, <1>4, FS_UNION
<1> QED BY <1>5, FS_CardinalityType DEF SeatCount, SeatsIn

\* Fewer requests have fewer seats.
LEMMA SeatsMonotone ==
    ASSUME NEW B \in SUBSET Requests, NEW A \in SUBSET B
    PROVE  SeatCount(A) <= SeatCount(B)
<1>1. SeatsIn(A) \subseteq SeatsIn(B)
  BY DEF SeatsIn
<1> QED BY <1>1, SeatsFinite, FS_Subset DEF SeatCount

\* Together, two sets of requests have no more seats than one by one.
LEMMA SeatsUnion ==
    ASSUME NEW A \in SUBSET Requests, NEW B \in SUBSET Requests
    PROVE  SeatCount(A \cup B) <= SeatCount(A) + SeatCount(B)
<1>1. SeatsIn(A \cup B) = SeatsIn(A) \cup SeatsIn(B)
  BY DEF SeatsIn
<1>2. IsFiniteSet(SeatsIn(A)) /\ IsFiniteSet(SeatsIn(B))
  BY SeatsFinite
<1>3. Cardinality(SeatsIn(A) \cap SeatsIn(B)) \in Nat
  BY <1>2, FS_Intersection, FS_CardinalityType
<1> DEFINE X == SeatsIn(A)
           Y == SeatsIn(B)
<1>4. SeatCount(A) = Cardinality(X) /\ SeatCount(B) = Cardinality(Y)
  BY DEF SeatCount
<1>5. SeatCount(A \cup B) = Cardinality(X \cup Y)
  BY <1>1 DEF SeatCount
<1>6. Cardinality(X) \in Nat /\ Cardinality(Y) \in Nat
  BY <1>2, FS_CardinalityType
<1> HIDE DEF X, Y
<1>7. Cardinality(X \cup Y) = Cardinality(X) + Cardinality(Y) - Cardinality(X \cap Y)
  BY <1>2, FS_Union DEF X, Y
<1>8. Cardinality(X \cap Y) \in Nat
  BY <1>3 DEF X, Y
<1> QED BY <1>4, <1>5, <1>6, <1>7, <1>8

\* The numbers from 1 to n.
LEMMA FirstN ==
    ASSUME NEW n \in Nat
    PROVE  IsFiniteSet(1..n) /\ Cardinality(1..n) = n
<1>1. 1 \in Int /\ n \in Int
  OBVIOUS
<1>2. Cardinality(1..n) = IF 1 > n THEN 0 ELSE n - 1 + 1
  BY <1>1, FS_Interval
<1>3. IsFiniteSet(1..n)
  BY <1>1, FS_Interval
<1> QED BY <1>2, <1>3

\* The seats of one request.
LEMMA SeatsOne ==
    ASSUME NEW r \in Requests
    PROVE  SeatCount({r}) = SeatsOf[r]
<1>1. SeatsOf[r] \in Nat
  BY RequestsAssumption
<1>2. SeatsIn({r}) = {r} \X (1..SeatsOf[r])
  BY DEF SeatsIn
<1>3. IsFiniteSet({r}) /\ Cardinality({r}) = 1
  BY FS_Singleton
<1>4. IsFiniteSet(1..SeatsOf[r]) /\ Cardinality(1..SeatsOf[r]) = SeatsOf[r]
  BY <1>1, FirstN
<1>5. Cardinality({r} \X (1..SeatsOf[r])) = 1 * SeatsOf[r]
  BY <1>3, <1>4, FS_Product
<1>6. 1 * SeatsOf[r] = SeatsOf[r]
  BY <1>1
<1>7. SeatCount({r}) = Cardinality({r} \X (1..SeatsOf[r]))
  BY <1>2 DEF SeatCount
<1> QED BY <1>5, <1>6, <1>7

-----------------------------------------------------------------------------
(* Types *)

\* A row comes from a request that has been through its write.
Written == \A r \in booked \cup waiting : pc[r] \in {"answer", "done"}

\* Every variable keeps its type, and a row is either booked or waiting: no
\* request writes twice.
THEOREM RaceTypeCorrect == Spec => [](TypeOK /\ Written)
<1> DEFINE TInv == TypeOK /\ Written
<1>1. Init => TInv
  BY RequestsAssumption DEF Init, TypeOK, Places, Counters, Written
<1>2. TInv /\ [Next]_vars => TInv'
  <2> SUFFICES ASSUME TInv, [Next]_vars PROVE TInv'
    OBVIOUS
  <2> USE RequestsAssumption DEF TypeOK, Written
  <2>1. ASSUME NEW r \in Requests, Step(r) PROVE TInv'
    <3>1. CASE Connect(r) \/ GiveUp(r) \/ Lock(r) \/ Answer(r) \/ Check(r) \/ Busy(r)
      BY <3>1 DEF Connect, GiveUp, Lock, Answer, OwnerAfter, Check, Busy, Goto, Places
    <3>2. CASE Read(r)
      <4>1. Seen(r) \in Counters
        BY SeatsFinite DEF Seen, Counters, Of
      <4> QED BY <3>2, <4>1 DEF Read, Goto, Places
    <3>3. CASE Write(r)
      BY <3>3 DEF Write, Insert, MoveFromWaitingList, Nothing, Of, Goto, Places
    <3> QED BY <2>1, <3>1, <3>2, <3>3 DEF Step
  <2>2. ASSUME NEW r \in Requests, Drop(r) PROVE TInv'
    BY <2>2 DEF Drop
  <2>3. ASSUME NEW u \in Users, BanInsert(u) PROVE TInv'
    BY <2>3 DEF BanInsert
  <2>4. CASE BanDelete
    BY <2>4 DEF BanDelete, Of
  <2>5. CASE UNCHANGED vars
    BY <2>5 DEF vars
  <2> QED BY <2>1, <2>2, <2>3, <2>4, <2>5 DEF Next
<1> QED BY <1>1, <1>2, PTL DEF Spec

-----------------------------------------------------------------------------
(* Who is in sign_up at a time *)

InSignUp(r) == pc[r] \in {"read", "check", "write"}

\* A pre-checkout in sign_up owns the mutex; a chat has one callback running.
Alone ==
    /\ Paid => \A r \in Requests : InSignUp(r) => mutex = r /\ pc[r] # "check"
    /\ ~Paid => \A q, r \in Requests :
                    Running(q) /\ Running(r) /\ UserOf[q] = UserOf[r] => q = r

\* Requests of one user are never in sign_up at the same time; for a paid
\* event no two requests are.
THEOREM OneAtATime == Spec => []Alone
<1>1. Init => Alone
  BY DEF Init, Alone, InSignUp, Running, Ended
<1>2. TypeOK /\ Alone /\ [Next]_vars => Alone'
  <2> SUFFICES ASSUME TypeOK, Alone, [Next]_vars PROVE Alone'
    OBVIOUS
  <2> USE DEF TypeOK, Alone, InSignUp, Running, Ended, Places
  <2>1. ASSUME NEW r \in Requests, Step(r) PROVE Alone'
    <3>1. CASE Connect(r)
      BY <3>1 DEF Connect, Dispatched, Goto
    <3>2. CASE Answer(r)
      BY <3>2 DEF Answer, OwnerAfter, Goto
    <3>3. CASE GiveUp(r) \/ Lock(r) \/ Read(r) \/ Check(r) \/ Write(r) \/ Busy(r)
      BY <3>3, RequestsAssumption
      DEF GiveUp, Lock, Read, Check, Write, Busy, Goto
    <3> QED BY <2>1, <3>1, <3>2, <3>3 DEF Step
  <2>2. UNCHANGED <<pc, mutex>> => Alone'
    OBVIOUS
  <2>3. ASSUME NEW r \in Requests, Drop(r) PROVE Alone'
    BY <2>2, <2>3 DEF Drop
  <2>4. ASSUME NEW u \in Users, BanInsert(u) PROVE Alone'
    BY <2>2, <2>4 DEF BanInsert
  <2>5. BanDelete \/ UNCHANGED vars => Alone'
    BY <2>2 DEF BanDelete, vars
  <2> QED BY <2>1, <2>3, <2>4, <2>5 DEF Next
<1> QED BY <1>1, <1>2, RaceTypeCorrect, PTL DEF Spec

-----------------------------------------------------------------------------
(* The limit per user *)

HeldBy(u) == Of(booked \cup waiting, u)

\* What a request has read of its user is never less than what there is.
SnapCovers ==
    \A r \in Requests : pc[r] \in {"check", "write"} =>
        SeatCount(HeldBy(UserOf[r])) <= snap[r].mine + snap[r].waits

\* A write adds at most its own request to the holding of its own user.
LEMMA WriteAddsOne ==
    ASSUME TypeOK, NEW q \in Requests, Write(q), NEW u \in Users
    PROVE  /\ HeldBy(u)' \subseteq HeldBy(u) \cup {q}
           /\ u # UserOf[q] => HeldBy(u)' \subseteq HeldBy(u)
           /\ ~Insert(q) => HeldBy(u)' \subseteq HeldBy(u)
BY DEF Write, Insert, MoveFromWaitingList, Nothing, Of, HeldBy, TypeOK

\* Every other step leaves the holdings alone or takes from them.
LEMMA OthersAddNone ==
    ASSUME TypeOK, [Next]_vars, \A q \in Requests : ~Write(q), NEW u \in Users
    PROVE  HeldBy(u)' \subseteq HeldBy(u)
<1> USE DEF HeldBy, Of
<1>1. ASSUME NEW r \in Requests, Step(r) PROVE HeldBy(u)' = HeldBy(u)
  BY <1>1 DEF Step, Connect, GiveUp, Lock, Answer, Read, Check, Busy
<1>2. ASSUME NEW r \in Requests, Drop(r) PROVE HeldBy(u)' \subseteq HeldBy(u)
  BY <1>2 DEF Drop
<1>3. ASSUME NEW v \in Users, BanInsert(v) PROVE HeldBy(u)' = HeldBy(u)
  BY <1>3 DEF BanInsert
<1>4. BanDelete => HeldBy(u)' \subseteq HeldBy(u)
  BY DEF BanDelete
<1>5. UNCHANGED vars => HeldBy(u)' = HeldBy(u)
  BY DEF vars
<1> QED BY <1>1, <1>2, <1>3, <1>4, <1>5 DEF Next

\* With fewer rows there are fewer seats.
LEMMA HeldMonotone ==
    ASSUME TypeOK, TypeOK', NEW u \in Users, HeldBy(u)' \subseteq HeldBy(u)
    PROVE  SeatCount(HeldBy(u)') <= SeatCount(HeldBy(u))
<1>1. HeldBy(u) \in SUBSET Requests
  BY RequestsAssumption DEF TypeOK, HeldBy, Of
<1> QED BY <1>1, SeatsMonotone

\* The counters a request has read stay an upper bound until it writes.
THEOREM SnapshotsCover == Spec => []SnapCovers
<1>1. Init => SnapCovers
  BY DEF Init, SnapCovers
<1>2. TypeOK /\ TypeOK' /\ Alone /\ SnapCovers /\ [Next]_vars => SnapCovers'
  <2> SUFFICES ASSUME TypeOK, TypeOK', Alone, SnapCovers, [Next]_vars,
                      NEW r \in Requests, pc'[r] \in {"check", "write"}
               PROVE  SeatCount(HeldBy(UserOf[r])') <= snap'[r].mine + snap'[r].waits
    BY DEF SnapCovers
  <2> DEFINE u == UserOf[r]
  <2>0. u \in Users
    BY RequestsAssumption
  <2>1. CASE Read(r)
    <3>1. HeldBy(u)' = Of(booked, u) \cup Of(waiting, u)
      BY <2>1 DEF Read, HeldBy, Of
    <3>2. Of(booked, u) \in SUBSET Requests /\ Of(waiting, u) \in SUBSET Requests
      BY RequestsAssumption DEF TypeOK, Of
    <3>3. snap'[r] = Seen(r)
      BY <2>1 DEF Read, TypeOK
    <3> QED BY <3>1, <3>2, <3>3, SeatsUnion DEF Seen
  <2>2. CASE ~Read(r)
    <3>1. pc[r] \in {"check", "write"} /\ snap'[r] = snap[r]
      <4> USE DEF TypeOK, Goto
      <4>1. ASSUME NEW q \in Requests, Step(q)
            PROVE  pc[r] \in {"check", "write"} /\ snap'[r] = snap[r]
        <5>1. CASE Read(q)
          BY <5>1, <2>2 DEF Read
        <5>2. CASE ~Read(q)
          BY <5>2, <4>1 DEF Step, Connect, GiveUp, Lock, Answer, Check, Write, Busy
        <5> QED BY <5>1, <5>2
      <4>2. ASSUME NEW q \in Requests, Drop(q)
            PROVE  pc[r] \in {"check", "write"} /\ snap'[r] = snap[r]
        BY <4>2 DEF Drop
      <4>3. ASSUME NEW v \in Users, BanInsert(v)
            PROVE  pc[r] \in {"check", "write"} /\ snap'[r] = snap[r]
        BY <4>3 DEF BanInsert
      <4>4. BanDelete \/ UNCHANGED vars => pc[r] \in {"check", "write"} /\ snap'[r] = snap[r]
        BY DEF BanDelete, vars
      <4> QED BY <4>1, <4>2, <4>3, <4>4 DEF Next
    <3>2. HeldBy(u)' \subseteq HeldBy(u)
      <4>1. ASSUME NEW q \in Requests, Write(q) PROVE u # UserOf[q]
        <5>1. q # r
          BY <4>1 DEF Write, Goto, TypeOK
        <5>2. Paid => FALSE
          BY <4>1, <5>1, <3>1 DEF Alone, InSignUp, Write
        <5>3. Running(q) /\ Running(r)
          BY <4>1, <3>1 DEF Running, Ended, Write
        <5> QED BY <5>1, <5>2, <5>3 DEF Alone
      <4> QED BY <4>1, <2>0, WriteAddsOne, OthersAddNone
    <3>3. SeatCount(HeldBy(u)') <= SeatCount(HeldBy(u))
      BY <3>2, <2>0, HeldMonotone
    <3>4. SeatCount(HeldBy(u)) \in Nat /\ SeatCount(HeldBy(u)') \in Nat
      BY SeatsFinite, RequestsAssumption DEF TypeOK, HeldBy, Of
    <3>5. snap[r].mine \in Nat /\ snap[r].waits \in Nat
      BY DEF TypeOK, Counters
    <3>6. SeatCount(HeldBy(u)) <= snap[r].mine + snap[r].waits
      BY <3>1 DEF SnapCovers
    <3> QED BY <3>1, <3>3, <3>4, <3>5, <3>6
  <2> QED BY <2>1, <2>2
<1> QED BY <1>1, <1>2, RaceTypeCorrect, OneAtATime, PTL DEF Spec

\* The limit per user holds over booked and waiting seats, for paid and free
\* events, however the requests interleave.
THEOREM LimitPerUser == Spec => []UserLimitHeld
<1>1. Init => UserLimitHeld
  <2> SUFFICES ASSUME Init, NEW u \in Users PROVE SeatCount(HeldBy(u)) <= PerUser
    BY DEF UserLimitHeld, HeldBy
  <2>1. SeatsIn(HeldBy(u)) = {}
    BY DEF Init, HeldBy, Of, SeatsIn
  <2>2. SeatCount(HeldBy(u)) = 0
    BY <2>1, FS_EmptySet DEF SeatCount
  <2> QED BY <2>2, NumbersAssumption
<1>2. TypeOK /\ TypeOK' /\ SnapCovers /\ UserLimitHeld /\ [Next]_vars => UserLimitHeld'
  <2> SUFFICES ASSUME TypeOK, TypeOK', SnapCovers, UserLimitHeld, [Next]_vars,
                      NEW u \in Users
               PROVE  SeatCount(HeldBy(u)') <= PerUser
    BY DEF UserLimitHeld, HeldBy
  <2>1. SeatCount(HeldBy(u)) \in Nat /\ SeatCount(HeldBy(u)') \in Nat
    BY SeatsFinite, RequestsAssumption DEF TypeOK, HeldBy, Of
  <2>2. SeatCount(HeldBy(u)) <= PerUser
    BY DEF UserLimitHeld, HeldBy
  <2>3. CASE HeldBy(u)' \subseteq HeldBy(u)
    BY <2>1, <2>2, <2>3, HeldMonotone, NumbersAssumption
  <2>4. ASSUME NEW q \in Requests, Write(q), Insert(q), u = UserOf[q]
        PROVE  SeatCount(HeldBy(u)') <= PerUser
    <3>1. HeldBy(u)' \in SUBSET (HeldBy(u) \cup {q})
      BY <2>4, WriteAddsOne
    <3>2. HeldBy(u) \in SUBSET Requests /\ {q} \in SUBSET Requests
      BY RequestsAssumption DEF TypeOK, HeldBy, Of
    <3>3. SeatCount(HeldBy(u)') <= SeatCount(HeldBy(u) \cup {q})
      BY <3>1, <3>2, SeatsMonotone
    <3>4. SeatCount(HeldBy(u) \cup {q}) <= SeatCount(HeldBy(u)) + SeatsOf[q]
      BY <3>2, SeatsUnion, SeatsOne
    <3>5. SeatCount(HeldBy(u)) <= snap[q].mine + snap[q].waits
      BY <2>4 DEF SnapCovers, Write
    <3>6. snap[q].mine + snap[q].waits + SeatsOf[q] <= PerUser
      <4>1. snap[q].mine \in Nat /\ snap[q].waits \in Nat /\ SeatsOf[q] \in Nat
        BY RequestsAssumption DEF TypeOK, Counters
      <4> QED BY <4>1, <2>4, NumbersAssumption DEF Insert, OverLimit
    <3>7. SeatCount(HeldBy(u) \cup {q}) \in Nat
      BY <3>2, SeatsFinite
    <3>8. snap[q].mine \in Nat /\ snap[q].waits \in Nat /\ SeatsOf[q] \in Nat
      BY RequestsAssumption DEF TypeOK, Counters
    <3> QED BY <2>1, <3>3, <3>4, <3>5, <3>6, <3>7, <3>8, NumbersAssumption
  <2> QED BY <2>3, <2>4, WriteAddsOne, OthersAddNone
<1> QED BY <1>1, <1>2, RaceTypeCorrect, SnapshotsCover, PTL DEF Spec

-----------------------------------------------------------------------------
(* The sale of paid tickets *)

\* The seats that were there when a pre-checkout read are there when it writes.
SeatsLeft == Paid => \A r \in Requests : pc[r] = "write" => SeatCount(booked \cup {r}) <= Capacity

\* Only a write adds to the booked rows of a paid event.
LEMMA OnlyWritesBook ==
    ASSUME TypeOK, [Next]_vars, \A q \in Requests : ~Write(q)
    PROVE  booked' \subseteq booked
<1>1. ASSUME NEW r \in Requests, Step(r) PROVE booked' = booked
  BY <1>1 DEF Step, Connect, GiveUp, Lock, Answer, Read, Check, Busy
<1>2. ASSUME NEW r \in Requests, Drop(r) PROVE booked' \subseteq booked
  BY <1>2 DEF Drop
<1>3. ASSUME NEW v \in Users, BanInsert(v) PROVE booked' = booked
  BY <1>3 DEF BanInsert
<1>4. BanDelete \/ UNCHANGED vars => booked' \subseteq booked
  BY DEF BanDelete, vars
<1> QED BY <1>1, <1>2, <1>3, <1>4 DEF Next

\* sign_up_mutex keeps what a pre-checkout has seen of the seats true.
THEOREM SeatsStay == Spec => []SeatsLeft
<1>1. Init => SeatsLeft
  BY DEF Init, SeatsLeft
<1>2. TypeOK /\ TypeOK' /\ Alone /\ SeatsLeft /\ [Next]_vars => SeatsLeft'
  <2> SUFFICES ASSUME TypeOK, TypeOK', Alone, SeatsLeft, [Next]_vars, Paid,
                      NEW r \in Requests, pc'[r] = "write"
               PROVE  SeatCount(booked' \cup {r}) <= Capacity
    BY DEF SeatsLeft, SeatCount, SeatsIn
  <2>1. CASE Read(r)
    <3>1. booked \in SUBSET Requests /\ {r} \in SUBSET Requests
      BY DEF TypeOK
    <3>2. SeatsOf[r] <= Capacity - SeatCount(booked)
      BY <2>1, KindsAssumption DEF Read, Room, Goto, TypeOK
    <3>3. SeatCount(booked \cup {r}) <= SeatCount(booked) + SeatsOf[r]
      BY <3>1, SeatsUnion, SeatsOne
    <3>4. SeatCount(booked) \in Nat /\ SeatCount(booked \cup {r}) \in Nat
          /\ SeatsOf[r] \in Nat /\ Capacity \in Nat
      BY <3>1, SeatsFinite, RequestsAssumption, NumbersAssumption
    <3>5. SeatCount(booked \cup {r}) <= Capacity
      BY <3>2, <3>3, <3>4
    <3>6. booked' = booked
      BY <2>1 DEF Read
    <3> QED BY <3>5, <3>6 DEF SeatCount
  <2>2. CASE ~Read(r)
    <3>1. pc[r] = "write"
      <4> USE DEF TypeOK, Goto
      <4>1. ASSUME NEW q \in Requests, Step(q) PROVE pc[r] = "write"
        <5>1. CASE Read(q)
          BY <5>1, <2>2 DEF Read
        <5>2. CASE Check(q)
          BY <5>2 DEF Check, Alone, InSignUp
        <5>3. CASE ~Read(q) /\ ~Check(q)
          BY <5>3, <4>1 DEF Step, Connect, GiveUp, Lock, Answer, Write, Busy
        <5> QED BY <5>1, <5>2, <5>3
      <4>2. ASSUME NEW q \in Requests, Drop(q) PROVE pc[r] = "write"
        BY <4>2 DEF Drop
      <4>3. ASSUME NEW v \in Users, BanInsert(v) PROVE pc[r] = "write"
        BY <4>3 DEF BanInsert
      <4>4. BanDelete \/ UNCHANGED vars => pc[r] = "write"
        BY DEF BanDelete, vars
      <4> QED BY <4>1, <4>2, <4>3, <4>4 DEF Next
    <3>2. ASSUME NEW q \in Requests, Write(q) PROVE FALSE
      BY <3>1, <3>2 DEF Write, Goto, TypeOK, Alone, InSignUp
    <3>3. booked' \subseteq booked
      BY <3>2, OnlyWritesBook
    <3>4. booked \cup {r} \in SUBSET Requests /\ booked' \cup {r} \in SUBSET (booked \cup {r})
      BY <3>3 DEF TypeOK
    <3>5. SeatCount(booked' \cup {r}) <= SeatCount(booked \cup {r})
      BY <3>4, SeatsMonotone
    <3>6. SeatCount(booked \cup {r}) <= Capacity
      BY <3>1 DEF SeatsLeft
    <3>7. SeatCount(booked \cup {r}) \in Nat /\ SeatCount(booked' \cup {r}) \in Nat
      BY <3>4, SeatsFinite
    <3>8. SeatCount(booked' \cup {r}) <= Capacity
      BY <3>5, <3>6, <3>7, NumbersAssumption
    <3> QED BY <3>8 DEF SeatCount
  <2> QED BY <2>1, <2>2
<1> QED BY <1>1, <1>2, RaceTypeCorrect, OneAtATime, PTL DEF Spec

\* A paid event has no waiting list, so its sale only moves by inserts.
LEMMA PaidStep ==
    ASSUME TypeOK, Written, SeatsLeft, [Next]_vars, Paid
    PROVE  S!Next \/ UNCHANGED booked
<1>1. waiting = {} /\ Waits = {}
  BY KindsAssumption DEF TypeOK
<1>2. ASSUME NEW r \in Requests, Write(r) PROVE S!Next \/ UNCHANGED booked
  <2>1. CASE Insert(r)
    <3>1. r \notin booked
      BY <1>2 DEF Write, Written
    <3>2. SeatCount(booked \cup {r}) <= Capacity
      BY <1>2 DEF Write, SeatsLeft
    <3>3. booked' = booked \cup {r}
      BY <1>1, <2>1 DEF Insert
    <3> QED BY <3>1, <3>2, <3>3 DEF S!Next, S!Take
  <2>2. CASE MoveFromWaitingList(r)
    BY <1>1, <2>2 DEF MoveFromWaitingList, Of
  <2>3. CASE Nothing(r)
    BY <2>3 DEF Nothing
  <2> QED BY <1>2, <2>1, <2>2, <2>3 DEF Write
<1>3. ASSUME \A q \in Requests : ~Write(q) PROVE S!Next \/ UNCHANGED booked
  <2>1. booked' \subseteq booked
    BY <1>3, OnlyWritesBook
  <2>2. booked' = booked \ (booked \ booked')
    BY <2>1
  <2>3. S!GiveBack(booked \ booked')
    BY <2>2 DEF S!GiveBack
  <2>4. booked \ booked' \in SUBSET booked
    OBVIOUS
  <2> QED BY <2>3, <2>4 DEF S!Next
<1> QED BY <1>2, <1>3

\* The sale of paid tickets implements Seats, however the pre-checkouts
\* interleave with each other, with bans and with payments that never come.
THEOREM PaidSale == ASSUME Paid PROVE Spec => Sale
<1>1. Init => S!Init
  BY DEF Init, S!Init
<1>2. TypeOK /\ Written /\ SeatsLeft /\ [Next]_vars => [S!Next]_booked
  BY PaidStep
<1>3. Spec => S!Spec
  BY <1>1, <1>2, RaceTypeCorrect, SeatsStay, PTL DEF Spec, S!Spec
<1> QED BY <1>3 DEF Sale

\* So paid tickets are never sold beyond the capacity.
THEOREM PaidNeverOverbooked == ASSUME Paid PROVE Spec => []CapacityHeld
<1>1. Init => CapacityHeld
  <2>1. ASSUME Init PROVE SeatCount(booked) = 0
    BY <2>1, FS_EmptySet DEF Init, SeatCount, SeatsIn
  <2> QED BY <2>1, NumbersAssumption DEF CapacityHeld, S!NeverOverbooked
<1>2. TypeOK /\ TypeOK' /\ CapacityHeld /\ [S!Next]_booked => CapacityHeld'
  <2> SUFFICES ASSUME TypeOK, TypeOK', CapacityHeld, [S!Next]_booked
               PROVE  SeatCount(booked') <= Capacity
    BY DEF CapacityHeld, S!NeverOverbooked, SeatCount, SeatsIn
  <2>1. CASE \E r \in Requests : S!Take(r)
    BY <2>1 DEF S!Take
  <2>2. CASE booked' \subseteq booked
    <3>1. booked \in SUBSET Requests /\ booked' \in SUBSET booked
      BY <2>2 DEF TypeOK
    <3>2. SeatCount(booked') <= SeatCount(booked)
      BY <3>1, SeatsMonotone
    <3>3. SeatCount(booked) \in Nat /\ SeatCount(booked') \in Nat
      BY <3>1, SeatsFinite
    <3>4. SeatCount(booked) <= Capacity
      BY DEF CapacityHeld, S!NeverOverbooked
    <3> QED BY <3>2, <3>3, <3>4, NumbersAssumption
  <2> QED BY <2>1, <2>2 DEF S!Next, S!GiveBack
<1>3. Spec => [][S!Next]_booked
  BY PaidSale, PTL DEF Sale, S!Spec
<1> QED BY <1>1, <1>2, <1>3, RaceTypeCorrect, PTL DEF Spec

-----------------------------------------------------------------------------
(* Bans while sign-ups run *)

\* The requests of u that hold a seat, or will without another look at the
\* black list.
Escaping(u) == HeldBy(u) \cup {r \in Requests : UserOf[r] = u /\ pc[r] = "write"}

\* A banned user whose rows have been deleted has one such request at most.
OneEscapes ==
    ~Paid /\ CancelOnBan =>
        \A u \in blackList : banning # u => \A q, r \in Escaping(u) : q = r

\* Only a look at the black list lets another request of a user escape it.
LEMMA EscapingShrinks ==
    ASSUME TypeOK, ~Paid, [Next]_vars, NEW u \in blackList
    PROVE  Escaping(u)' \subseteq Escaping(u)
<1> USE DEF Escaping, HeldBy, Of, TypeOK
<1>1. ASSUME NEW r \in Requests, Step(r) PROVE Escaping(u)' \subseteq Escaping(u)
  <2>1. CASE Write(r)
    <3>1. HeldBy(u)' \subseteq HeldBy(u) \cup {r} /\ (u # UserOf[r] => HeldBy(u)' \subseteq HeldBy(u))
      BY <2>1, WriteAddsOne
    <3>2. pc[r] = "write" /\ \A q \in Requests : pc'[q] = "write" => pc[q] = "write"
      BY <2>1 DEF Write, Goto
    <3> QED BY <3>1, <3>2
  <2>2. CASE ~Write(r)
    <3>1. UNCHANGED <<booked, waiting>>
      BY <1>1, <2>2 DEF Step, Connect, GiveUp, Lock, Answer, Read, Check, Busy
    <3>2. \A q \in Requests : UserOf[q] = u /\ pc'[q] = "write" => pc[q] = "write"
      BY <1>1, <2>2 DEF Step, Connect, GiveUp, Lock, Answer, Read, Check, Busy, Goto
    <3> QED BY <3>1, <3>2
  <2> QED BY <2>1, <2>2
<1>2. ASSUME NEW r \in Requests, Drop(r) PROVE Escaping(u)' \subseteq Escaping(u)
  BY <1>2 DEF Drop
<1>3. ASSUME NEW v \in Users, BanInsert(v) PROVE Escaping(u)' \subseteq Escaping(u)
  BY <1>3 DEF BanInsert
<1>4. BanDelete => Escaping(u)' \subseteq Escaping(u)
  BY DEF BanDelete
<1>5. UNCHANGED vars => Escaping(u)' \subseteq Escaping(u)
  BY DEF vars
<1> QED BY <1>1, <1>2, <1>3, <1>4, <1>5 DEF Next

\* With cancel_future_reservations_on_ban a banned user keeps one seat at most,
\* that of a sign-up which was past the black list when the ban came.
THEOREM BanKeepsOneSeat == Spec => []OneSeatEscapesBan
<1>1. Init => OneEscapes
  BY DEF Init, OneEscapes
<1>2. TypeOK /\ Alone /\ OneEscapes /\ [Next]_vars => OneEscapes'
  <2> SUFFICES ASSUME TypeOK, Alone, OneEscapes, [Next]_vars, ~Paid, CancelOnBan,
                      NEW u \in blackList', banning' # u,
                      NEW q \in Escaping(u)', NEW r \in Escaping(u)'
               PROVE  q = r
    BY DEF OneEscapes
  <2>1. ASSUME NEW v \in Users, BanInsert(v) PROVE q = r
    <3>1. u \in blackList /\ banning # u
      BY <2>1, RequestsAssumption DEF BanInsert, TypeOK
    <3> QED BY <3>1, EscapingShrinks DEF OneEscapes
  <2>2. CASE BanDelete
    <3>1. u \in blackList
      BY <2>2 DEF BanDelete
    <3>2. CASE banning # u
      BY <3>1, <3>2, EscapingShrinks DEF OneEscapes
    <3>3. CASE banning = u
      <4>1. HeldBy(u)' = {}
        BY <2>2, <3>3 DEF BanDelete, HeldBy, Of
      <4>2. /\ q \in Requests /\ UserOf[q] = u /\ pc[q] = "write"
            /\ r \in Requests /\ UserOf[r] = u /\ pc[r] = "write"
        BY <2>2, <4>1 DEF BanDelete, Escaping
      <4> QED BY <4>2 DEF Alone, Running, Ended
    <3> QED BY <3>2, <3>3
  <2>3. ASSUME UNCHANGED <<blackList, banning>> PROVE q = r
    <3>1. u \in blackList /\ banning # u
      BY <2>3
    <3> QED BY <3>1, EscapingShrinks DEF OneEscapes
  <2>4. ASSUME NEW p \in Requests, Step(p) \/ Drop(p) PROVE UNCHANGED <<blackList, banning>>
    BY <2>4 DEF Step, Connect, GiveUp, Lock, Answer, Read, Check, Write, Busy, Drop
  <2>5. CASE UNCHANGED vars
    BY <2>5, <2>3 DEF vars
  <2> QED BY <2>1, <2>2, <2>3, <2>4, <2>5 DEF Next
<1>3. OneEscapes => OneSeatEscapesBan
  BY DEF OneEscapes, OneSeatEscapesBan, Escaping, HeldBy
<1> QED BY <1>1, <1>2, <1>3, RaceTypeCorrect, OneAtATime, PTL DEF Spec

-----------------------------------------------------------------------------
(* Nobody waits for ever *)

Late == {"read", "check", "write", "answer"}

\* The pool lends what it has; the mutex is in the hands of a request that is
\* past it; a callback never waits for it.
Lent ==
    /\ Cardinality(Connected) <= PoolSize
    /\ mutex # Nobody => pc[mutex] \in Late
    /\ ~Paid => \A r \in Requests : pc[r] # "lock"

\* A connection more is lent only when there is one.
LEMMA PoolStep ==
    ASSUME TypeOK, Cardinality(Connected) <= PoolSize, [Next]_vars
    PROVE  Cardinality(Connected') <= PoolSize
<1> USE DEF TypeOK, Connected, Running, Ended, Goto
<1>1. IsFiniteSet(Connected) /\ Cardinality(Connected) \in Nat /\ PoolSize \in Nat
  <2>1. IsFiniteSet(Connected)
    BY FS_Subset, RequestsAssumption
  <2> QED BY <2>1, FS_CardinalityType, NumbersAssumption
<1>2. ASSUME Connected' \subseteq Connected PROVE Cardinality(Connected') <= PoolSize
  <2>1. Cardinality(Connected') <= Cardinality(Connected) /\ IsFiniteSet(Connected')
    BY <1>1, <1>2, FS_Subset
  <2>2. Cardinality(Connected') \in Nat
    BY <2>1, FS_CardinalityType
  <2> HIDE DEF Connected
  <2> QED BY <1>1, <2>1, <2>2
<1>3. ASSUME NEW r \in Requests, Connect(r) PROVE Cardinality(Connected') <= PoolSize
  <2>1. Connected' \subseteq Connected \cup {r} /\ r \notin Connected
    BY <1>3 DEF Connect
  <2>2. Cardinality(Connected) < PoolSize
    BY <1>3 DEF Connect
  <2> HIDE DEF Connected
  <2>3. IsFiniteSet(Connected \cup {r}) /\ Cardinality(Connected \cup {r}) = Cardinality(Connected) + 1
    BY <1>1, <2>1, FS_AddElement
  <2>4. Cardinality(Connected') <= Cardinality(Connected \cup {r}) /\ IsFiniteSet(Connected')
    BY <2>1, <2>3, FS_Subset
  <2>5. Cardinality(Connected') \in Nat
    BY <2>4, FS_CardinalityType
  <2> QED BY <1>1, <2>2, <2>3, <2>4, <2>5
<1>4. ASSUME NEW r \in Requests, Step(r), ~Connect(r) PROVE Connected' \subseteq Connected
  BY <1>4 DEF Step, GiveUp, Lock, Answer, Read, Check, Write, Busy
<1>5. ASSUME UNCHANGED pc PROVE Connected' \subseteq Connected
  BY <1>5
<1>6. ASSUME NEW r \in Requests, Drop(r) PROVE UNCHANGED pc
  BY <1>6 DEF Drop
<1>7. ASSUME NEW u \in Users, BanInsert(u) PROVE UNCHANGED pc
  BY <1>7 DEF BanInsert
<1>8. BanDelete \/ UNCHANGED vars => UNCHANGED pc
  BY DEF BanDelete, vars
<1> HIDE DEF Connected
<1> QED BY <1>2, <1>3, <1>4, <1>5, <1>6, <1>7, <1>8 DEF Next

\* The pool never lends more connections than it has, and whoever owns
\* sign_up_mutex is past the wait for it: no endpoint waits for the pool with
\* the mutex in its hands.
THEOREM PoolAndMutex == Spec => []Lent
<1>1. Init => Lent
  <2> SUFFICES ASSUME Init PROVE Lent
    OBVIOUS
  <2>1. Connected = {}
    BY DEF Init, Connected, Running, Ended
  <2>2. Cardinality(Connected) = 0
    BY <2>1, FS_EmptySet
  <2>3. Cardinality(Connected) <= PoolSize
    BY <2>2, NumbersAssumption
  <2> QED BY <2>3 DEF Init, Lent
<1>2. TypeOK /\ Alone /\ Lent /\ [Next]_vars => Lent'
  <2> SUFFICES ASSUME TypeOK, Alone, Lent, [Next]_vars PROVE Lent'
    OBVIOUS
  <2>1. Cardinality(Connected') <= PoolSize
    BY PoolStep DEF Lent
  <2> DEFINE Held == /\ mutex # Nobody => pc[mutex] \in Late
                     /\ ~Paid => \A r \in Requests : pc[r] # "lock"
  <2>2. Held /\ (Held' => Lent')
    BY <2>1 DEF Lent
  <2>3. ASSUME NEW r \in Requests, Step(r) PROVE Held'
    <3> USE RequestsAssumption DEF TypeOK, Late, Goto
    <3>1. CASE Connect(r)
      BY <2>2, <3>1 DEF Connect
    <3>2. CASE Answer(r)
      BY <2>2, <3>2 DEF Answer, OwnerAfter
    <3>3. CASE GiveUp(r) \/ Lock(r) \/ Read(r) \/ Check(r) \/ Write(r) \/ Busy(r)
      BY <2>2, <3>3 DEF GiveUp, Lock, Read, Check, Write, Busy
    <3> QED BY <2>3, <3>1, <3>2, <3>3 DEF Step
  <2>4. UNCHANGED <<pc, mutex>> => Held'
    BY <2>2
  <2>5. ASSUME NEW r \in Requests, Drop(r) PROVE Held'
    BY <2>4, <2>5 DEF Drop
  <2>6. ASSUME NEW u \in Users, BanInsert(u) PROVE Held'
    BY <2>4, <2>6 DEF BanInsert
  <2>7. BanDelete \/ UNCHANGED vars => Held'
    BY <2>4 DEF BanDelete, vars
  <2> HIDE DEF Held
  <2> QED BY <2>2, <2>3, <2>5, <2>6, <2>7 DEF Next
<1> QED BY <1>1, <1>2, RaceTypeCorrect, OneAtATime, PTL DEF Spec

\* What lets request r take a step of its own: it is new and its turn has come,
\* or it waits for a mutex that is free, or it is past both.
CanGo(r) ==
    \/ pc[r] = "new" /\ Dispatched(r)
    \/ pc[r] = "lock" /\ mutex = Nobody
    \/ pc[r] \in Late

\* Whoever has not ended and cannot go waits for one who can: the owner of the
\* mutex, or the request of the same chat that is being served.
NobodyStuck ==
    \A r \in Requests :
        \/ pc[r] \in Ended \/ CanGo(r)
        \/ \E q \in Requests : CanGo(q) /\ (q = mutex \/ (Running(q) /\ UserOf[q] = UserOf[r]))

\* pre_checkout_handler takes a connection and then waits for sign_up_mutex, and
\* yet nobody waits in a circle, whatever the size of the pool.
THEOREM NoCircleOfWaits == Spec => []NobodyStuck
<1>1. TypeOK /\ Lent => NobodyStuck
  <2> SUFFICES ASSUME TypeOK, Lent, NEW r \in Requests, pc[r] \notin Ended, ~CanGo(r)
               PROVE  \E q \in Requests :
                        CanGo(q) /\ (q = mutex \/ (Running(q) /\ UserOf[q] = UserOf[r]))
    BY DEF NobodyStuck
  <2>1. (pc[r] = "lock" /\ mutex # Nobody) \/ (pc[r] = "new" /\ ~Dispatched(r))
    <3>1. pc[r] \in Places \ Ended
      BY DEF TypeOK
    <3>2. pc[r] \notin Late /\ ~(pc[r] = "lock" /\ mutex = Nobody)
      BY DEF CanGo
    <3>3. pc[r] = "new" \/ pc[r] = "lock"
      BY <3>1, <3>2 DEF Places, Ended, Late
    <3>4. pc[r] = "new" => ~Dispatched(r)
      BY DEF CanGo
    <3> QED BY <3>2, <3>3, <3>4
  <2>2. CASE pc[r] = "lock" /\ mutex # Nobody
    <3>1. mutex \in Requests /\ pc[mutex] \in Late
      BY <2>2 DEF TypeOK, Lent
    <3> QED BY <3>1 DEF CanGo
  <2>3. CASE pc[r] = "new" /\ ~Dispatched(r)
    <3>1. ~Paid
      BY <2>3 DEF Dispatched
    <3>2. PICK q \in Requests : UserOf[q] = UserOf[r] /\ Running(q)
      BY <2>3 DEF Dispatched
    <3>3. pc[q] # "lock" /\ pc[q] \in Places
      BY <3>1 DEF Lent, TypeOK
    <3>4. pc[q] \in Late
      BY <3>2, <3>3 DEF Running, Ended, Late, Places
    <3> QED BY <3>2, <3>4 DEF CanGo
  <2> QED BY <2>1, <2>2, <2>3
<1> QED BY <1>1, PoolAndMutex, RaceTypeCorrect, PTL

\* How far a request has come.
Rank == [new |-> 0, lock |-> 1, read |-> 2, check |-> 3, write |-> 4,
         answer |-> 5, done |-> 6, dropped |-> 6]

\* Every step that moves a request moves it on.
AlwaysOnward ==
    [][\A r \in Requests : pc'[r] = pc[r] \/ Rank[pc[r]] < Rank[pc'[r]]]_vars

\* No endpoint goes back to a statement it has run, and each takes six steps at
\* most: with NoCircleOfWaits, what is left of EveryRequestEnds is fairness.
THEOREM OnwardOnly == Spec => AlwaysOnward
<1> DEFINE Onward == \A r \in Requests : pc'[r] = pc[r] \/ Rank[pc[r]] < Rank[pc'[r]]
<1>1. ASSUME TypeOK, [Next]_vars PROVE Onward
  <2>1. ASSUME NEW q \in Requests, NEW from \in Places, NEW to \in Places,
               pc[q] = from, Goto(q, to), Rank[from] < Rank[to]
        PROVE  Onward
    BY <2>1 DEF TypeOK, Goto
  <2>2. /\ Rank["new"] = 0 /\ Rank["lock"] = 1 /\ Rank["read"] = 2 /\ Rank["check"] = 3
        /\ Rank["write"] = 4 /\ Rank["answer"] = 5 /\ Rank["done"] = 6
        /\ Rank["dropped"] = 6
    BY DEF Rank
  <2>3. UNCHANGED pc => Onward
    OBVIOUS
  <2> HIDE DEF Onward
  <2>4. ASSUME NEW q \in Requests, Step(q) PROVE Onward
    <3>1. PICK from \in Places, to \in Places :
            pc[q] = from /\ Goto(q, to) /\ Rank[from] < Rank[to]
      <4>1. CASE Connect(q) \/ GiveUp(q) \/ Lock(q) \/ Answer(q)
        BY <2>2, <4>1, Z3 DEF Connect, GiveUp, Lock, Answer, Places
      <4>2. CASE Read(q) \/ Check(q) \/ Write(q) \/ Busy(q)
        BY <2>2, <4>2, Z3 DEF Read, Check, Write, Busy, Places
      <4> QED BY <2>4, <4>1, <4>2 DEF Step
    <3> QED BY <2>1, <3>1
  <2>5. ASSUME NEW q \in Requests, Drop(q) PROVE Onward
    BY <2>3, <2>5 DEF Drop
  <2>6. ASSUME NEW u \in Users, BanInsert(u) PROVE Onward
    BY <2>3, <2>6 DEF BanInsert
  <2>7. BanDelete \/ UNCHANGED vars => Onward
    BY <2>3 DEF BanDelete, vars
  <2> QED BY <1>1, <2>4, <2>5, <2>6, <2>7 DEF Next
<1>2. Spec => [][Onward]_vars
  BY <1>1, RaceTypeCorrect, PTL DEF Spec
<1> QED BY <1>2 DEF AlwaysOnward
=============================================================================
