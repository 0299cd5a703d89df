--------------------------- MODULE MailingProofs ---------------------------
(***************************************************************************)
(* What holds of the mailing for any users, capacity, limit and bounds:    *)
(* how long a batch is, who is told twice, what leaves the outbox, and     *)
(* which message is served first.  Queries and the loop over the outbox    *)
(* are recursive functions; Recursion and Induction are about those.       *)
(***************************************************************************)
EXTENDS Mailing, FiniteSetTheorems, SequenceTheorems, WellFoundedInduction, TLAPS

-----------------------------------------------------------------------------
(* Induction up to n, over the set of the numbers of which a fact holds *)

\* What holds of 0, and of i if of i - 1, holds of all numbers up to n.
LEMMA Induction ==
    ASSUME NEW n \in Nat, NEW P, 0 \in P, \A i \in 1..n : i - 1 \in P => i \in P
    PROVE  \A i \in 0..n : i \in P
<1> DEFINE Bad == {i \in 0..n : i \notin P}
           UpTo == {0..i : i \in Bad}
<1>1. SUFFICES ASSUME UpTo # {} PROVE FALSE
  OBVIOUS
<1>2. UpTo \subseteq SUBSET (0..n)
  <2> SUFFICES ASSUME NEW S \in UpTo PROVE S \in SUBSET (0..n)
    OBVIOUS
  <2>1. PICK i \in 0..n : S = 0..i
    OBVIOUS
  <2>2. 0..i \in SUBSET (0..n)
    OBVIOUS
  <2> QED BY <2>1, <2>2, Zenon
<1>3. IsWellFoundedOn(StrictSubsetOrdering(0..n), SUBSET (0..n))
  <2>1. IsFiniteSet(0..n)
    BY FS_Interval
  <2>2. FiniteSubsetsOf(0..n) = SUBSET (0..n)
    BY <2>1, FS_FiniteSubsetsOfFinite
  <2> QED BY <2>2, FS_StrictSubsetOrderingWellFounded, Zenon
<1>4. PICK S \in UpTo : \A T \in UpTo : ~ (<<T, S>> \in StrictSubsetOrdering(0..n))
  BY <1>1, <1>2, <1>3, WFMin, Zenon
<1>5. PICK i \in Bad : S = 0..i
  BY <1>4
<1>6. i # 0 /\ i \in 1..n
  BY <1>5
<1>7. i - 1 \in Bad
  BY <1>5, <1>6
<1>8. <<0..(i - 1), 0..i>> \in StrictSubsetOrdering(0..n)
  <2>1. 0..(i - 1) \in SUBSET (0..n) /\ 0..i \in SUBSET (0..n)
    BY <1>6
  <2>2. 0..(i - 1) \subseteq 0..i /\ i \in 0..i /\ i \notin 0..(i - 1)
    BY <1>6
  <2> QED BY <2>1, <2>2 DEF StrictSubsetOrdering
<1> QED BY <1>4, <1>5, <1>7, <1>8

\* g has a value for each step, made from the one before.
Run(g, n, a, F) == g[0] = a /\ \A i \in 1..n : g[i] = F[i][g[i - 1]]

\* Steps given by an array of functions can be run one after the other.
LEMMA Recursion ==
    ASSUME NEW n \in Nat, NEW A, NEW a \in A, NEW F \in [1..n -> [A -> A]]
    PROVE  \E g \in [0..n -> A] : Run(g, n, a, F)
<1> DEFINE P == {k \in 0..n : \E g \in [0..k -> A] : Run(g, k, a, F)}
<1>1. 0 \in P
  <2> DEFINE g == [k \in 0..0 |-> a]
  <2>1. g \in [0..0 -> A] /\ g[0] = a /\ 1..0 = {} /\ 0 \in 0..n
    OBVIOUS
  <2> HIDE DEF g
  <2>2. Run(g, 0, a, F)
    BY <2>1, Zenon DEF Run
  <2> QED BY <2>1, <2>2
<1>2. ASSUME NEW k \in 1..n, k - 1 \in P PROVE k \in P
  <2>1. PICK g \in [0..(k - 1) -> A] : Run(g, k - 1, a, F)
    BY <1>2
  <2> DEFINE h == [i \in 0..k |-> IF i = k THEN F[k][g[k - 1]] ELSE g[i]]
  <2>2. g[k - 1] \in A
    BY <2>1
  <2>3. F[k][g[k - 1]] \in A
    BY <2>2
  <2>4. h \in [0..k -> A]
    <3>1. ASSUME NEW i \in 0..k, i # k PROVE i \in 0..(k - 1)
      BY <3>1
    <3> QED BY <2>1, <2>3, <3>1
  <2>5. Run(h, k, a, F)
    <3>1. h[0] = a
      BY <2>1 DEF Run
    <3>2. ASSUME NEW i \in 1..k PROVE h[i] = F[i][h[i - 1]]
      <4>1. h[i - 1] = g[i - 1]
        BY <3>2
      <4>2. CASE i = k
        <5>1. h[k] = F[k][g[k - 1]]
          OBVIOUS
        <5> HIDE DEF h
        <5> QED BY <4>1, <4>2, <5>1
      <4>3. CASE i # k
        <5>1. i \in 1..(k - 1)
          BY <4>3
        <5> QED BY <5>1, <2>1, <4>1 DEF Run
      <4> QED BY <4>2, <4>3
    <3> HIDE DEF h
    <3> QED BY <3>1, <3>2 DEF Run
  <2>6. k \in 0..n
    OBVIOUS
  <2> HIDE DEF h
  <2> QED BY <2>4, <2>5, <2>6
<1>3. \A k \in 0..n : k \in P
  <2> HIDE DEF P
  <2> QED BY <1>1, <1>2, Induction
<1> QED BY <1>3

-----------------------------------------------------------------------------
(* Keep *)

\* What Keep has built after i elements: the elements picked by an increasing
\* sequence of positions that goes through all of K up to i.
Picked(s, K, i, t) ==
    \E pos \in [1..Len(t) -> K \cap 1..i] :
        /\ \A j \in 1..Len(t) : t[j] = s[pos[j]]
        /\ \A j, k \in 1..Len(t) : j < k => pos[j] < pos[k]
        /\ \A k \in K \cap 1..i : \E j \in 1..Len(t) : pos[j] = k

\* Keep goes through the sequence and picks the elements in K one by one.
LEMMA KeepPicks ==
    ASSUME NEW S, NEW s \in Seq(S), NEW K
    PROVE  Keep(s, K) \in Seq(S) /\ Picked(s, K, Len(s), Keep(s, K))
<1> DEFINE n == Len(s)
           Is(f) == f = [i \in 0..n |->
                            IF i = 0 THEN <<>>
                            ELSE IF i \in K THEN Append(f[i - 1], s[i]) ELSE f[i - 1]]
           kept == CHOOSE f : Is(f)
           Next1(i, t) == IF i \in K THEN Append(t, s[i]) ELSE t
           F == [i \in 1..n |-> [t \in Seq(S) |-> Next1(i, t)]]
<1>1. n \in Nat /\ \A i \in 1..n : s[i] \in S
  OBVIOUS
<1>2. \E f : Is(f)
  <2>1. F \in [1..n -> [Seq(S) -> Seq(S)]]
    BY <1>1
  <2>2. <<>> \in Seq(S)
    OBVIOUS
  <2>3. \A i \in 1..n, t \in Seq(S) : F[i][t] = Next1(i, t)
    BY Zenon
  <2> HIDE DEF F, n
  <2>4. PICK g \in [0..n -> Seq(S)] : Run(g, n, <<>>, F)
    <3>1. n \in Nat
      BY <1>1
    <3> QED BY <3>1, <2>1, <2>2, Recursion
  <2>5. ASSUME NEW i \in 1..n PROVE g[i] = Next1(i, g[i - 1])
    <3>1. i - 1 \in 0..n
      BY <1>1
    <3>2. g[i - 1] \in Seq(S)
      BY <3>1
    <3> QED BY <2>3, <2>4, <3>2 DEF Run
  <2>6. ASSUME NEW i \in 0..n
        PROVE  g[i] = IF i = 0 THEN <<>>
                      ELSE IF i \in K THEN Append(g[i - 1], s[i]) ELSE g[i - 1]
    <3>1. CASE i = 0
      BY <3>1, <2>4 DEF Run
    <3>2. CASE i # 0
      <4>1. i \in 1..n
        BY <1>1, <3>2
      <4> QED BY <4>1, <2>5, <3>2
    <3> QED BY <3>1, <3>2
  <2>7. g = [i \in 0..n |-> g[i]]
    OBVIOUS
  <2> QED BY <2>6, <2>7
<1>3. Is(kept)
  BY <1>2, Zenon
<1>4. Keep(s, K) = kept[n]
  BY Zenon DEF Keep
<1> HIDE DEF kept, n
<1>5. kept[0] = <<>> /\ \A i \in 1..n : kept[i] = Next1(i, kept[i - 1])
  <2>1. 0 \in 0..n /\ \A i \in 1..n : i \in 0..n /\ i # 0
    BY <1>1
  <2> QED BY <2>1, <1>3, Zenon
<1> HIDE DEF Is
<1> DEFINE P == {i \in 0..n : kept[i] \in Seq(S) /\ Picked(s, K, i, kept[i])}
<1>6. 0 \in P
  <2>1. kept[0] \in Seq(S) /\ Len(kept[0]) = 0 /\ 0 \in 0..n
    BY <1>1, <1>5
  <2>2. 1..0 = {} /\ K \cap 1..0 = {}
    OBVIOUS
  <2>3. Picked(s, K, 0, kept[0])
    <3> DEFINE none == [j \in {} |-> 0]
    <3>1. none \in [{} -> {}]
      OBVIOUS
    <3> HIDE DEF none
    <3> QED BY <2>1, <2>2, <3>1 DEF Picked
  <2> QED BY <2>1, <2>3
<1>7. ASSUME NEW i \in 1..n, i - 1 \in P PROVE i \in P
  <2> DEFINE t == kept[i - 1]
  <2>1. t \in Seq(S) /\ i \in 0..n /\ s[i] \in S
    BY <1>1, <1>7
  <2>2. PICK pos \in [1..Len(t) -> K \cap 1..(i - 1)] :
            /\ \A j \in 1..Len(t) : t[j] = s[pos[j]]
            /\ \A j, k \in 1..Len(t) : j < k => pos[j] < pos[k]
            /\ \A k \in K \cap 1..(i - 1) : \E j \in 1..Len(t) : pos[j] = k
    BY <1>7 DEF Picked
  <2> HIDE DEF t
  <2>3. CASE i \in K
    <3> DEFINE u == Append(t, s[i])
               more == [j \in 1..Len(u) |-> IF j = Len(t) + 1 THEN i ELSE pos[j]]
    <3>1. u \in Seq(S) /\ Len(t) \in Nat /\ Len(u) = Len(t) + 1
      BY <2>1
    <3>2. \A j \in 1..Len(t) : u[j] = t[j]
      BY <2>1
    <3>3. u[Len(t) + 1] = s[i]
      BY <2>1
    <3> HIDE DEF u
    <3>4. \A j \in 1..Len(t) : more[j] = pos[j] /\ pos[j] \in K \cap 1..(i - 1)
      BY <3>1
    <3>5. more[Len(t) + 1] = i
      BY <3>1
    <3>6. \A j \in 1..Len(u) : j \in 1..Len(t) \/ j = Len(t) + 1
      BY <3>1
    <3>7. more \in [1..Len(u) -> K \cap 1..i]
      BY <1>1, <2>3, <3>1, <3>4, <3>5, <3>6
    <3> HIDE DEF more
    <3>8. \A j \in 1..Len(u) : u[j] = s[more[j]]
      BY <2>2, <3>1, <3>2, <3>3, <3>4, <3>5, <3>6
    <3>9. \A j, k \in 1..Len(u) : j < k => more[j] < more[k]
      BY <1>1, <2>2, <3>1, <3>4, <3>5, <3>6
    <3>10. \A k \in K \cap 1..i : \E j \in 1..Len(u) : more[j] = k
      <4>1. ASSUME NEW k \in K \cap 1..i, k # i PROVE k \in K \cap 1..(i - 1)
        BY <1>1, <4>1
      <4>2. Len(t) + 1 \in 1..Len(u) /\ 1..Len(t) \subseteq 1..Len(u)
        BY <3>1
      <4>3. ASSUME NEW k \in K \cap 1..i PROVE \E j \in 1..Len(u) : more[j] = k
        <5>1. CASE k = i
          BY <3>5, <4>2, <5>1
        <5>2. CASE k # i
          <6>1. PICK j \in 1..Len(t) : pos[j] = k
            BY <2>2, <4>1, <5>2
          <6> QED BY <3>4, <4>2, <6>1
        <5> QED BY <5>1, <5>2
      <4> QED BY <4>3
    <3>11. Picked(s, K, i, u)
      BY <3>7, <3>8, <3>9, <3>10, Zenon DEF Picked
    <3>12. kept[i] = u
      BY <1>5, <2>3 DEF t, u
    <3> QED BY <2>1, <3>1, <3>11, <3>12
  <2>4. CASE i \notin K
    <3>1. kept[i] = t
      BY <1>5, <2>4 DEF t
    <3>2. K \cap 1..i = K \cap 1..(i - 1)
      BY <1>1, <2>4
    <3>3. Picked(s, K, i, t)
      BY <2>2, <3>2 DEF Picked
    <3> QED BY <2>1, <3>1, <3>3
  <2> QED BY <2>3, <2>4
<1>8. \A i \in 0..n : i \in P
  <2> HIDE DEF P
  <2> QED BY <1>1, <1>6, <1>7, Induction
<1>9. n \in 0..n
  BY <1>1
<1> QED BY <1>4, <1>8, <1>9 DEF n

\* Keep returns the elements at K: all of them, each once.
LEMMA KeepRows ==
    ASSUME NEW S, NEW s \in Seq(S), NEW K
    PROVE  /\ Keep(s, K) \in Seq(S)
           /\ \E pos \in [DOMAIN Keep(s, K) -> K \cap DOMAIN s] :
                /\ \A j \in DOMAIN Keep(s, K) : Keep(s, K)[j] = s[pos[j]]
                /\ \A j, k \in DOMAIN Keep(s, K) : pos[j] = pos[k] => j = k
                /\ \A i \in K \cap DOMAIN s : \E j \in DOMAIN Keep(s, K) : pos[j] = i
<1> DEFINE t == Keep(s, K)
<1>1. t \in Seq(S) /\ Picked(s, K, Len(s), t)
  BY KeepPicks
<1> HIDE DEF t
<1>2. PICK pos \in [1..Len(t) -> K \cap 1..Len(s)] :
        /\ \A j \in 1..Len(t) : t[j] = s[pos[j]]
        /\ \A j, k \in 1..Len(t) : j < k => pos[j] < pos[k]
        /\ \A k \in K \cap 1..Len(s) : \E j \in 1..Len(t) : pos[j] = k
  BY <1>1 DEF Picked
<1>3. Len(t) \in Nat /\ DOMAIN t = 1..Len(t) /\ DOMAIN s = 1..Len(s)
  BY <1>1
<1>4. \A j, k \in 1..Len(t) : pos[j] = pos[k] => j = k
  <2> TAKE j, k \in 1..Len(t)
  <2>1. pos[j] \in 1..Len(s) /\ pos[k] \in 1..Len(s) /\ j \in Nat /\ k \in Nat
    BY <1>3
  <2>2. j < k \/ k < j \/ j = k
    BY <2>1
  <2> QED BY <1>2, <2>1, <2>2
<1>5. /\ pos \in [DOMAIN t -> K \cap DOMAIN s]
      /\ \A j \in DOMAIN t : t[j] = s[pos[j]]
      /\ \A j, k \in DOMAIN t : pos[j] = pos[k] => j = k
      /\ \A i \in K \cap DOMAIN s : \E j \in DOMAIN t : pos[j] = i
  BY <1>2, <1>3, <1>4
<1> QED BY <1>1, <1>5, Zenon DEF t

-----------------------------------------------------------------------------
(* The inductive invariant *)

Reservation == [user : Users, waiting : BOOLEAN]
OutRow == [msg : 1..lastId, due : BOOLEAN]

\* The messages that reach a user at most once.
Single == {m \in DOMAIN messages : messages[m].type # "prompt"}

\* Nothing is known of messages that are not queued yet.
Known ==
    /\ sent \subseteq (1..lastId) \X Users
    /\ told \subseteq (1..lastId) \X Users
    /\ \A i \in DOMAIN batch : batch[i][1] \in 1..lastId

\* Only a prompt is in the outbox more than once.
OneRow ==
    \A i, j \in DOMAIN outbox :
        outbox[i].msg = outbox[j].msg /\ outbox[i].msg \in Single => i = j

\* A user holds one reservation.
OneSeat == \A i, j \in DOMAIN rows : rows[i].user = rows[j].user => i = j

\* What was received has its receipt, unless that was lost, is about to be
\* saved, or was removed when the message was done.
Receipts ==
    \A m \in Single, u \in Users :
        <<m, u>> \in told /\ <<m, u>> \notin slipped /\ Queued(m)
        => <<m, u>> \in sent \/ (task = "sent" /\ Head(batch) = <<m, u>>)

\* Nobody is in a batch twice for one message.
DistinctEntries ==
    \A i, j \in DOMAIN batch : batch[i] = batch[j] /\ batch[i][1] \in Single => i = j

\* What is still to be sent was not received before, but for a lost receipt.
Fresh ==
    \A i \in DOMAIN batch :
        (i > 1 \/ task = "sending") /\ batch[i][1] \in Single /\ batch[i] \in told
        => batch[i] \in slipped

\* A receipt is of something received.
HonestReceipts == sent \subseteq told /\ (task = "sent" => Head(batch) \in told)

IInv ==
    /\ TypeOK /\ RateLimited /\ Known /\ OneRow /\ OneSeat
    /\ Receipts /\ DistinctEntries /\ Fresh /\ HonestReceipts

-----------------------------------------------------------------------------
(* What a query for recipients returns *)

\* An element of a sequence is of its type.
LEMMA SeqElement ==
    ASSUME NEW S, NEW s \in Seq(S), NEW i \in DOMAIN s
    PROVE  s[i] \in S
OBVIOUS

\* The candidates are reservations, of different rows, without a receipt.
LEMMA CandidateRows ==
    ASSUME TypeOK, NEW m
    PROVE  /\ Candidates(m) \in Seq(Reservation)
           /\ \E pos \in [DOMAIN Candidates(m) -> DOMAIN rows] :
                /\ \A j \in DOMAIN Candidates(m) :
                    /\ Candidates(m)[j] = rows[pos[j]]
                    /\ <<m, rows[pos[j]].user>> \notin sent
                /\ \A j, k \in DOMAIN Candidates(m) : pos[j] = pos[k] => j = k
<1> DEFINE K == {i \in DOMAIN rows : /\ rows[i].waiting = messages[m].waiting
                                     /\ <<m, rows[i].user>> \notin sent}
           t == Candidates(m)
<1>1. rows \in Seq(Reservation)
  BY DEF TypeOK, Reservation
<1>2. CASE messages[m].type = "prompt" /\ ~HaveVacancies
  <2>1. t = <<>>
    BY <1>2 DEF Candidates
  <2>2. t \in Seq(Reservation) /\ DOMAIN t = {}
    BY <2>1
  <2> HIDE DEF t
  <2> DEFINE none == [j \in {} |-> 1]
  <2>3. none \in [{} -> DOMAIN rows]
    OBVIOUS
  <2> HIDE DEF none
  <2>4. /\ t \in Seq(Reservation)
        /\ \E pos \in [DOMAIN t -> DOMAIN rows] :
             /\ \A j \in DOMAIN t : t[j] = rows[pos[j]] /\ <<m, rows[pos[j]].user>> \notin sent
             /\ \A j, k \in DOMAIN t : pos[j] = pos[k] => j = k
    BY <2>2, <2>3, Zenon
  <2> QED BY <2>4 DEF t
<1>3. CASE ~(messages[m].type = "prompt" /\ ~HaveVacancies)
  <2>1. t = Keep(rows, K)
    BY <1>3 DEF Candidates, Unreceipted
  <2> HIDE DEF t, K
  <2>2. t \in Seq(Reservation)
    BY <1>1, <2>1, KeepRows
  <2>3. PICK pos \in [DOMAIN t -> K \cap DOMAIN rows] :
            /\ \A j \in DOMAIN t : t[j] = rows[pos[j]]
            /\ \A j, k \in DOMAIN t : pos[j] = pos[k] => j = k
    BY <1>1, <2>1, KeepRows
  <2>4. \A j \in DOMAIN t : pos[j] \in K
    BY <2>3
  <2>5. \A j \in DOMAIN t : <<m, rows[pos[j]].user>> \notin sent
    BY <2>4 DEF K
  <2>6. pos \in [DOMAIN t -> DOMAIN rows]
    BY <2>3
  <2> QED BY <2>2, <2>3, <2>5, <2>6, Zenon DEF t
<1> QED BY <1>2, <1>3

\* Where there is nobody to tell, all on the list of the message have it.
LEMMA NoCandidates ==
    ASSUME TypeOK, NEW m, Candidates(m) = <<>>,
           messages[m].type = "prompt" => HaveVacancies,
           NEW i \in DOMAIN rows, rows[i].waiting = messages[m].waiting
    PROVE  <<m, rows[i].user>> \in sent
<1> DEFINE K == {k \in DOMAIN rows : /\ rows[k].waiting = messages[m].waiting
                                     /\ <<m, rows[k].user>> \notin sent}
           t == Keep(rows, K)
<1>1. t = <<>>
  BY DEF Candidates, Unreceipted
<1>2. DOMAIN t = {}
  BY <1>1
<1>3. rows \in Seq(Reservation)
  BY DEF TypeOK, Reservation
<1> HIDE DEF K
<1>4. \A k \in K \cap DOMAIN rows : \E j \in DOMAIN t : TRUE
  BY <1>3, KeepRows
<1>5. i \notin K
  BY <1>2, <1>4
<1> QED BY <1>5 DEF K

\* A share is a start of the candidates, not longer than what is left.
LEMMA ShareRows ==
    ASSUME TypeOK, NEW m, NEW left \in Nat \ {0}
    PROVE  /\ Share(m, left) \in Seq(Reservation)
           /\ Len(Share(m, left)) <= left
           /\ DOMAIN Share(m, left) \subseteq DOMAIN Candidates(m)
           /\ \A j \in DOMAIN Share(m, left) : Share(m, left)[j] = Candidates(m)[j]
           /\ Share(m, left) = <<>> => Candidates(m) = <<>>
<1> DEFINE from == Candidates(m)
           most == IF messages[m].type = "prompt" THEN 1 ELSE left
           n == IF Len(from) < most THEN Len(from) ELSE most
<1>1. from \in Seq(Reservation)
  BY CandidateRows
<1>2. Share(m, left) = SubSeq(from, 1, n)
  BY DEF Share
<1>3. most \in Nat \ {0} /\ most <= left
  OBVIOUS
<1> HIDE DEF from, most
<1>4. n \in 0..Len(from) /\ n <= most /\ Len(from) \in Nat
  BY <1>1, <1>3
<1>5. n = 0 => Len(from) = 0
  BY <1>3, <1>4
<1> HIDE DEF n
<1> DEFINE t == SubSeq(from, 1, n)
<1>6. /\ t \in Seq(Reservation) /\ Len(t) = n /\ DOMAIN t = 1..n
      /\ \A j \in 1..n : t[j] = from[j]
  BY <1>1, <1>4
<1> HIDE DEF t
<1>7. DOMAIN from = 1..Len(from) /\ (Len(from) = 0 => from = <<>>)
  BY <1>1
<1>8. t = <<>> => n = 0
  BY <1>6
<1>9. n <= left /\ 1..n \subseteq 1..Len(from)
  BY <1>3, <1>4
<1> QED BY <1>2, <1>5, <1>6, <1>7, <1>8, <1>9 DEF t, from

-----------------------------------------------------------------------------
(* The scan of the outbox *)

Entry == Ids \X Users
Acc == [left : 0..Limit, batch : Seq(Entry), done : SUBSET Ids]

Entries(m, left) == [i \in DOMAIN Share(m, left) |-> <<m, Share(m, left)[i].user>>]

\* The entries of a message are for the reservations of its share.
LEMMA EntriesType ==
    ASSUME TypeOK, NEW m \in Ids, NEW left \in Nat \ {0}
    PROVE  /\ Entries(m, left) \in Seq(Entry)
           /\ Len(Entries(m, left)) = Len(Share(m, left))
           /\ DOMAIN Entries(m, left) = DOMAIN Share(m, left)
           /\ \A i \in DOMAIN Share(m, left) :
                Entries(m, left)[i] = <<m, Share(m, left)[i].user>>
<1> DEFINE t == Share(m, left)
           e == Entries(m, left)
<1>1. t \in Seq(Reservation)
  BY ShareRows
<1>2. e = [i \in DOMAIN t |-> <<m, t[i].user>>]
  BY DEF Entries
<1> HIDE DEF t, e
<1>3. Len(t) \in Nat /\ DOMAIN t = 1..Len(t)
  BY <1>1
<1>4. ASSUME NEW i \in DOMAIN t PROVE <<m, t[i].user>> \in Entry
  <2>1. t[i] \in Reservation
    BY <1>1, SeqElement
  <2>2. t[i].user \in Users
    BY <2>1 DEF Reservation
  <2> QED BY <2>2 DEF Entry
<1>5. e \in [1..Len(t) -> Entry]
  BY <1>2, <1>3, <1>4
<1>6. e \in Seq(Entry) /\ Len(e) = Len(t)
  BY <1>3, <1>5
<1> QED BY <1>2, <1>3, <1>6 DEF t, e

\* What Take makes of a row that is looked at.
LEMMA Taken ==
    ASSUME TypeOK, NEW acc \in Acc, NEW row \in OutRow
    PROVE  \/ Take(acc, row) = acc
           \/ /\ acc.left # 0 /\ row.msg \in DOMAIN messages /\ row.msg \in Ids
              /\ Take(acc, row) =
                    [left |-> acc.left - Len(Entries(row.msg, acc.left)),
                     batch |-> acc.batch \o Entries(row.msg, acc.left),
                     done |-> IF Share(row.msg, acc.left) = <<>> THEN acc.done \cup {row.msg}
                              ELSE acc.done]
<1>1. CASE acc.left = 0 \/ ~row.due \/ row.msg \notin DOMAIN messages
  BY <1>1 DEF Take
<1>2. CASE ~(acc.left = 0 \/ ~row.due \/ row.msg \notin DOMAIN messages)
  <2>1. acc.left \in Nat \ {0} /\ row.msg \in Ids
    BY <1>2, NumbersAssumption DEF Acc, OutRow, TypeOK, Ids
  <2>2. Len(Entries(row.msg, acc.left)) = Len(Share(row.msg, acc.left))
    BY <2>1, EntriesType
  <2> QED BY <1>2, <2>1, <2>2 DEF Take, Left, Entries
<1> QED BY <1>1, <1>2

\* A turn of the loop leaves well-formed results.
LEMMA TakeType ==
    ASSUME TypeOK, NEW acc \in Acc, NEW row \in OutRow
    PROVE  Take(acc, row) \in Acc
<1>1. CASE Take(acc, row) = acc
  BY <1>1
<1>2. CASE Take(acc, row) # acc
  <2> DEFINE m == row.msg
             e == Entries(m, acc.left)
             d == IF Share(m, acc.left) = <<>> THEN acc.done \cup {m} ELSE acc.done
  <2>1. acc.left \in 0..Limit /\ acc.batch \in Seq(Entry) /\ acc.done \in SUBSET Ids
    BY DEF Acc
  <2>2. /\ acc.left # 0 /\ m \in Ids
        /\ Take(acc, row) = [left |-> acc.left - Len(e), batch |-> acc.batch \o e, done |-> d]
    BY <1>2, Taken
  <2>3. acc.left \in Nat \ {0}
    BY <2>1, <2>2, NumbersAssumption
  <2>4. e \in Seq(Entry) /\ Len(e) <= acc.left
    BY <2>2, <2>3, EntriesType, ShareRows
  <2>5. d \in SUBSET Ids
    BY <2>1, <2>2
  <2> HIDE DEF e, d, m
  <2>6. acc.left - Len(e) \in 0..Limit /\ acc.batch \o e \in Seq(Entry)
    BY <2>1, <2>4, NumbersAssumption
  <2> QED BY <2>2, <2>5, <2>6 DEF Acc
<1> QED BY <1>1, <1>2

\* What is known after i rows.
Scanned(acc, i) ==
    /\ acc \in Acc
    /\ acc.left + Len(acc.batch) = Limit
    /\ \A k \in DOMAIN acc.batch :
        /\ acc.batch[k] \notin sent
        /\ acc.batch[k][1] \in DOMAIN messages
        /\ \E j \in 1..i : outbox[j].msg = acc.batch[k][1]
    /\ \A k, l \in DOMAIN acc.batch :
        acc.batch[k] = acc.batch[l] /\ acc.batch[k][1] \in Single => k = l
    /\ \A d \in acc.done : d \in DOMAIN messages /\ Candidates(d) = <<>>

\* The entries of one message are for different users without a receipt.
LEMMA EntryFacts ==
    ASSUME TypeOK, OneSeat, NEW m \in Ids, NEW left \in Nat \ {0}
    PROVE  /\ \A i \in DOMAIN Entries(m, left) :
                Entries(m, left)[i] \notin sent /\ Entries(m, left)[i][1] = m
           /\ \A i, j \in DOMAIN Entries(m, left) :
                Entries(m, left)[i] = Entries(m, left)[j] => i = j
<1> DEFINE t == Share(m, left)
           e == Entries(m, left)
           c == Candidates(m)
<1>1. DOMAIN e = DOMAIN t /\ \A i \in DOMAIN t : e[i] = <<m, t[i].user>>
  BY EntriesType
<1>2. DOMAIN t \subseteq DOMAIN c /\ \A i \in DOMAIN t : t[i] = c[i]
  BY ShareRows
<1>3. PICK pos \in [DOMAIN c -> DOMAIN rows] :
        /\ \A j \in DOMAIN c : c[j] = rows[pos[j]] /\ <<m, rows[pos[j]].user>> \notin sent
        /\ \A j, k \in DOMAIN c : pos[j] = pos[k] => j = k
  BY CandidateRows, Zenon
<1> HIDE DEF t, e, c
<1>4. ASSUME NEW i \in DOMAIN e
      PROVE  /\ i \in DOMAIN c /\ pos[i] \in DOMAIN rows
             /\ e[i] = <<m, rows[pos[i]].user>> /\ e[i] \notin sent /\ e[i][1] = m
  <2>1. i \in DOMAIN t /\ i \in DOMAIN c /\ t[i] = c[i] /\ e[i] = <<m, t[i].user>>
    BY <1>1, <1>2
  <2>2. c[i] = rows[pos[i]] /\ <<m, rows[pos[i]].user>> \notin sent /\ pos[i] \in DOMAIN rows
    BY <1>3, <2>1
  <2> QED BY <2>1, <2>2
<1>5. ASSUME NEW i \in DOMAIN e, NEW j \in DOMAIN e, e[i] = e[j] PROVE i = j
  <2>1. rows[pos[i]].user = rows[pos[j]].user
    BY <1>4, <1>5
  <2>2. pos[i] = pos[j]
    BY <1>4, <2>1 DEF OneSeat
  <2> QED BY <1>3, <1>4, <2>2
<1> QED BY <1>4, <1>5 DEF e

\* A turn of the loop adds what one row of the outbox is due.
LEMMA ScanStep ==
    ASSUME TypeOK, OneRow, OneSeat, NEW i \in 1..Len(outbox), NEW acc, Scanned(acc, i - 1)
    PROVE  Scanned(Take(acc, outbox[i]), i)
<1> DEFINE row == outbox[i]
           m == row.msg
           e == Entries(m, acc.left)
           d == IF Share(m, acc.left) = <<>> THEN acc.done \cup {m} ELSE acc.done
           b == acc.batch \o e
<1>1. acc \in Acc /\ row \in OutRow /\ i \in DOMAIN outbox /\ 1..Len(outbox) = DOMAIN outbox
  <2>1. outbox \in Seq(OutRow)
    BY DEF TypeOK, OutRow
  <2>2. DOMAIN outbox = 1..Len(outbox)
    BY <2>1
  <2> QED BY <2>1, <2>2, SeqElement DEF Scanned
<1>2. 1..(i - 1) \subseteq 1..i /\ i \in 1..i /\ i \notin 1..(i - 1) /\ 1..(i - 1) \subseteq DOMAIN outbox
  BY <1>1
<1>3. CASE Take(acc, row) = acc
  BY <1>2, <1>3 DEF Scanned
<1>4. CASE Take(acc, row) # acc
  <2>1. acc.left \in 0..Limit /\ acc.batch \in Seq(Entry) /\ acc.done \in SUBSET Ids
    BY <1>1 DEF Acc
  <2>2. /\ acc.left # 0 /\ m \in Ids /\ m \in DOMAIN messages
        /\ Take(acc, row) = [left |-> acc.left - Len(e), batch |-> b, done |-> d]
    BY <1>1, <1>4, Taken
  <2>3. acc.left \in Nat \ {0}
    BY <2>1, <2>2, NumbersAssumption
  <2>4. e \in Seq(Entry)
    BY <2>2, <2>3, EntriesType
  <2>5. \A k \in d : k \in DOMAIN messages /\ Candidates(k) = <<>>
    BY <2>2, <2>3, ShareRows DEF Scanned
  <2>6. /\ \A k \in DOMAIN e : e[k] \notin sent /\ e[k][1] = m
        /\ \A k, l \in DOMAIN e : e[k] = e[l] => k = l
    BY <2>2, <2>3, EntryFacts
  <2>7. Take(acc, row) \in Acc
    BY <1>1, TakeType
  <2> HIDE DEF e, d
  <2>8. /\ Len(b) = Len(acc.batch) + Len(e) /\ Len(acc.batch) \in Nat /\ Len(e) \in Nat
        /\ DOMAIN b = 1..(Len(acc.batch) + Len(e))
        /\ DOMAIN acc.batch = 1..Len(acc.batch) /\ DOMAIN e = 1..Len(e)
        /\ \A k \in 1..(Len(acc.batch) + Len(e)) :
             b[k] = IF k <= Len(acc.batch) THEN acc.batch[k] ELSE e[k - Len(acc.batch)]
    BY <2>1, <2>4
  <2> HIDE DEF b
  <2>9. ASSUME NEW k \in DOMAIN b
        PROVE  \/ k \in DOMAIN acc.batch /\ b[k] = acc.batch[k]
               \/ /\ k - Len(acc.batch) \in DOMAIN e /\ b[k] = e[k - Len(acc.batch)]
                  /\ b[k][1] = m
    <3>1. CASE k <= Len(acc.batch)
      BY <2>8, <3>1
    <3>2. CASE ~(k <= Len(acc.batch))
      <4>1. b[k] = e[k - Len(acc.batch)] /\ k - Len(acc.batch) \in DOMAIN e
        BY <2>8, <3>2
      <4> QED BY <2>6, <4>1
    <3> QED BY <3>1, <3>2
  <2>10. (acc.left - Len(e)) + Len(b) = Limit
    BY <2>1, <2>8, NumbersAssumption DEF Scanned
  <2>11. ASSUME NEW k \in DOMAIN b
         PROVE  /\ b[k] \notin sent /\ b[k][1] \in DOMAIN messages
                /\ \E j \in 1..i : outbox[j].msg = b[k][1]
    <3>1. CASE k \in DOMAIN acc.batch /\ b[k] = acc.batch[k]
      BY <3>1, <1>2 DEF Scanned
    <3>2. CASE k - Len(acc.batch) \in DOMAIN e /\ b[k] = e[k - Len(acc.batch)]
      BY <3>2, <2>2, <2>6, <1>2
    <3> QED BY <3>1, <3>2, <2>9
  <2>12. ASSUME NEW k \in DOMAIN acc.batch, m \in Single PROVE acc.batch[k][1] # m
    <3>1. PICK j \in 1..(i - 1) : outbox[j].msg = acc.batch[k][1]
      BY DEF Scanned
    <3>2. j \in DOMAIN outbox /\ j # i
      BY <1>2
    <3> QED BY <1>1, <2>12, <3>1, <3>2 DEF OneRow
  <2>13. ASSUME NEW k \in DOMAIN b, NEW l \in DOMAIN b, b[k] = b[l], b[k][1] \in Single
         PROVE  k = l
    <3>1. CASE k \in DOMAIN acc.batch /\ b[k] = acc.batch[k]
      <4>1. l \in DOMAIN acc.batch /\ b[l] = acc.batch[l]
        BY <3>1, <2>9, <2>12, <2>13
      <4> QED BY <3>1, <4>1, <2>13 DEF Scanned
    <3>2. CASE k - Len(acc.batch) \in DOMAIN e /\ b[k] = e[k - Len(acc.batch)] /\ b[k][1] = m
      <4>1. l - Len(acc.batch) \in DOMAIN e /\ b[l] = e[l - Len(acc.batch)]
        BY <3>2, <2>9, <2>12, <2>13
      <4>2. k - Len(acc.batch) = l - Len(acc.batch)
        BY <3>2, <4>1, <2>6, <2>13
      <4> QED BY <4>2, <2>8
    <3> QED BY <3>1, <3>2, <2>9
  <2> DEFINE new == Take(acc, row)
  <2>14. new.left = acc.left - Len(e) /\ new.batch = b /\ new.done = d
    BY <2>2
  <2> HIDE DEF new
  <2>15. Scanned(new, i)
    BY <2>5, <2>7, <2>10, <2>11, <2>13, <2>14 DEF Scanned, new
  <2> QED BY <2>15 DEF new
<1> QED BY <1>3, <1>4

Start == [left |-> Limit, batch |-> <<>>, done |-> {}]

\* Pending is the end of a scan that takes row after row.
LEMMA OutboxScan ==
    ASSUME TypeOK
    PROVE  \E scan : /\ scan[0] = Start /\ scan[Len(outbox)] = Pending
                     /\ \A i \in 1..Len(outbox) : scan[i] = Take(scan[i - 1], outbox[i])
<1> DEFINE n == Len(outbox)
           first == Start
           Is(f) == f = [i \in 0..n |-> IF i = 0 THEN first ELSE Take(f[i - 1], outbox[i])]
           scan == CHOOSE f : Is(f)
           F == [i \in 1..n |-> [acc \in Acc |-> Take(acc, outbox[i])]]
<1>1. n \in Nat /\ \A i \in 1..n : outbox[i] \in OutRow
  <2>1. outbox \in Seq(OutRow)
    BY DEF TypeOK, OutRow
  <2> QED BY <2>1
<1>2. /\ first \in Acc
      /\ first.left = Limit /\ first.batch = <<>> /\ first.done = {}
  BY NumbersAssumption DEF Acc, Start
<1> HIDE DEF first
<1>3. \E f : Is(f)
  <2>1. F \in [1..n -> [Acc -> Acc]]
    BY <1>1, TakeType
  <2>2. \A i \in 1..n, acc \in Acc : F[i][acc] = Take(acc, outbox[i])
    BY Zenon
  <2> HIDE DEF F, n
  <2>3. PICK g \in [0..n -> Acc] : Run(g, n, first, F)
    <3>1. n \in Nat
      BY <1>1
    <3> QED BY <3>1, <2>1, <1>2, Recursion
  <2>4. ASSUME NEW i \in 1..n PROVE g[i] = Take(g[i - 1], outbox[i])
    <3>1. i - 1 \in 0..n
      BY <1>1
    <3>2. g[i - 1] \in Acc
      BY <3>1
    <3> QED BY <2>2, <2>3, <3>2 DEF Run
  <2>5. ASSUME NEW i \in 0..n
        PROVE  g[i] = IF i = 0 THEN first ELSE Take(g[i - 1], outbox[i])
    <3>1. CASE i = 0
      BY <3>1, <2>3 DEF Run
    <3>2. CASE i # 0
      <4>1. i \in 1..n
        BY <1>1, <3>2
      <4> QED BY <4>1, <2>4, <3>2
    <3> QED BY <3>1, <3>2
  <2>6. g = [i \in 0..n |-> g[i]]
    OBVIOUS
  <2> QED BY <2>5, <2>6
<1>4. Is(scan)
  BY <1>3, Zenon
<1>5. Pending = scan[n]
  BY Zenon DEF Pending, first, Start
<1> HIDE DEF scan, n
<1>6. scan[0] = first /\ \A i \in 1..n : scan[i] = Take(scan[i - 1], outbox[i])
  <2>1. 0 \in 0..n /\ \A i \in 1..n : i \in 0..n /\ i # 0
    BY <1>1
  <2> QED BY <2>1, <1>4, Zenon
<1> HIDE DEF Is
<1>7. scan[0] = Start /\ scan[Len(outbox)] = Pending
  BY <1>5, <1>6 DEF n, first
<1> QED BY <1>6, <1>7 DEF n

\* What holds at the start, and is kept row by row, holds of Pending: G has the
\* results of which it holds, each with the number of rows taken.
LEMMA ScanInduction ==
    ASSUME TypeOK, NEW G, <<Start, 0>> \in G,
           \A i \in 1..Len(outbox), acc \in Acc :
             <<acc, i - 1>> \in G => <<Take(acc, outbox[i]), i>> \in G
    PROVE  Pending \in Acc /\ <<Pending, Len(outbox)>> \in G
<1> DEFINE n == Len(outbox)
<1>1. n \in Nat /\ \A i \in 1..n : outbox[i] \in OutRow
  <2>1. outbox \in Seq(OutRow)
    BY DEF TypeOK, OutRow
  <2> QED BY <2>1
<1>2. PICK scan : /\ scan[0] = Start /\ scan[n] = Pending
                  /\ \A i \in 1..n : scan[i] = Take(scan[i - 1], outbox[i])
  BY OutboxScan
<1>3. Start \in Acc
  BY NumbersAssumption DEF Start, Acc
<1> DEFINE P == {i \in 0..n : scan[i] \in Acc /\ <<scan[i], i>> \in G}
<1>4. 0 \in P
  BY <1>1, <1>2, <1>3
<1>5. ASSUME NEW i \in 1..n, i - 1 \in P PROVE i \in P
  <2>1. scan[i] = Take(scan[i - 1], outbox[i]) /\ outbox[i] \in OutRow /\ i \in 0..n
    BY <1>1, <1>2
  <2>2. scan[i - 1] \in Acc /\ <<scan[i - 1], i - 1>> \in G
    BY <1>5
  <2>3. scan[i] \in Acc
    BY <2>1, <2>2, TakeType
  <2>4. <<scan[i], i>> \in G
    BY <2>1, <2>2
  <2> QED BY <2>1, <2>3, <2>4
<1>6. \A i \in 0..n : i \in P
  <2>1. n \in Nat
    BY <1>1
  <2> HIDE DEF P
  <2> QED BY <2>1, <1>4, <1>5, Induction
<1>7. n \in 0..n
  BY <1>1
<1> QED BY <1>2, <1>6, <1>7

\* What get_pending_messages returns has been through the whole outbox.
LEMMA PendingScanned ==
    ASSUME TypeOK, OneRow, OneSeat
    PROVE  Scanned(Pending, Len(outbox))
<1> DEFINE G == {p \in Acc \X Nat : Scanned(p[1], p[2])}
<1>1. ASSUME NEW acc \in Acc, NEW i \in Nat PROVE <<acc, i>> \in G <=> Scanned(acc, i)
  OBVIOUS
<1>2. Start \in Acc /\ Start.left = Limit /\ Start.batch = <<>> /\ Start.done = {}
  BY NumbersAssumption DEF Start, Acc
<1>3. Len(Start.batch) = 0 /\ DOMAIN Start.batch = {}
  BY <1>2
<1>4. Scanned(Start, 0)
  BY <1>2, <1>3, NumbersAssumption DEF Scanned
<1>5. Len(outbox) \in Nat
  BY DEF TypeOK
<1>6. ASSUME NEW i \in 1..Len(outbox), NEW acc \in Acc, <<acc, i - 1>> \in G
      PROVE  <<Take(acc, outbox[i]), i>> \in G
  <2>1. i - 1 \in Nat /\ i \in Nat
    BY <1>5
  <2>2. Scanned(Take(acc, outbox[i]), i)
    BY <1>1, <1>6, <2>1, ScanStep
  <2>3. Take(acc, outbox[i]) \in Acc
    BY <2>2 DEF Scanned
  <2> HIDE DEF G
  <2> QED BY <1>1, <2>1, <2>2, <2>3
<1>7. <<Start, 0>> \in G
  BY <1>1, <1>2, <1>4
<1> HIDE DEF G
<1>8. Pending \in Acc /\ <<Pending, Len(outbox)>> \in G
  BY <1>6, <1>7, ScanInduction
<1> QED BY <1>1, <1>5, <1>8

\* What the task collects.
LEMMA Collected ==
    ASSUME TypeOK, OneRow, OneSeat
    PROVE  /\ Pending.batch \in Seq(Ids \X Users) /\ Len(Pending.batch) <= Limit
           /\ \A k \in DOMAIN Pending.batch :
                /\ Pending.batch[k] \notin sent
                /\ Pending.batch[k][1] \in DOMAIN messages
                /\ Queued(Pending.batch[k][1])
           /\ \A k, l \in DOMAIN Pending.batch :
                Pending.batch[k] = Pending.batch[l] /\ Pending.batch[k][1] \in Single => k = l
           /\ \A d \in Done : d \in DOMAIN messages /\ Candidates(d) = <<>>
<1> DEFINE acc == Pending
<1>1. Scanned(acc, Len(outbox))
  BY PendingScanned
<1>2. DOMAIN outbox = 1..Len(outbox)
  BY DEF TypeOK
<1> HIDE DEF acc
<1>3. acc.batch \in Seq(Entry) /\ acc.left \in 0..Limit
  BY <1>1 DEF Scanned, Acc
<1>4. acc.left + Len(acc.batch) = Limit
  BY <1>1 DEF Scanned
<1>5. Len(acc.batch) <= Limit
  BY <1>3, <1>4, NumbersAssumption
<1>6. \A k \in DOMAIN acc.batch : Queued(acc.batch[k][1])
  BY <1>1, <1>2 DEF Scanned, Queued
<1>7. acc.batch \in Seq(Ids \X Users)
  BY <1>3 DEF Entry
<1>8. /\ acc.batch \in Seq(Ids \X Users) /\ Len(acc.batch) <= Limit
      /\ \A k \in DOMAIN acc.batch :
                /\ acc.batch[k] \notin sent
                /\ acc.batch[k][1] \in DOMAIN messages
                /\ Queued(acc.batch[k][1])
      /\ \A k, l \in DOMAIN acc.batch :
           acc.batch[k] = acc.batch[l] /\ acc.batch[k][1] \in Single => k = l
      /\ \A d \in acc.done : d \in DOMAIN messages /\ Candidates(d) = <<>>
  BY <1>1, <1>5, <1>6, <1>7, Zenon DEF Scanned
<1> QED BY <1>8 DEF acc, Done

-----------------------------------------------------------------------------
(* Whom the scan serves first *)

\* Row j of the outbox is due and has somebody to tell.
Servable(j) ==
    /\ outbox[j].due /\ outbox[j].msg \in DOMAIN messages
    /\ Candidates(outbox[j].msg) # <<>>

\* The first row of that kind among the first i is at the head of the batch.
FirstServed(acc, i) ==
    /\ acc.left + Len(acc.batch) = Limit
    /\ acc.batch # <<>> => \E j \in 1..i : Servable(j)
    /\ \A j \in 1..i : Servable(j) => acc.batch # <<>>
    /\ \A j \in 1..i :
        Servable(j) /\ (\A k \in 1..(j - 1) : ~Servable(k))
        => acc.batch # <<>> /\ acc.batch[1][1] = outbox[j].msg
    /\ \A j \in 1..i :
        outbox[j].due /\ outbox[j].msg \in DOMAIN messages /\ ~Servable(j)
        => outbox[j].msg \in acc.done \/ acc.left = 0

\* Two sequences in a row: their length, and which element is first.
LEMMA Joined ==
    ASSUME NEW S, NEW a \in Seq(S), NEW c \in Seq(S)
    PROVE  /\ Len(a \o c) = Len(a) + Len(c)
           /\ a # <<>> => a \o c # <<>> /\ (a \o c)[1] = a[1]
           /\ a = <<>> => a \o c = c
           /\ a \o c # <<>> => a # <<>> \/ c # <<>>
<1>1. Len(a \o c) = Len(a) + Len(c) /\ a \o c \in Seq(S)
  OBVIOUS
<1>2. ASSUME a # <<>> PROVE a \o c # <<>> /\ (a \o c)[1] = a[1]
  <2>1. 1 \in 1..Len(a)
    BY <1>2
  <2> QED BY <1>1, <2>1
<1>3. a = <<>> => a \o c = c
  BY ConcatEmptySeq
<1>4. a \o c # <<>> => a # <<>> \/ c # <<>>
  <2>1. <<>> \o c = c
    BY ConcatEmptySeq
  <2> QED BY <2>1
<1> QED BY <1>1, <1>2, <1>3, <1>4

\* A turn of the loop keeps the head of the batch, or puts the first row that
\* can be served there.
LEMMA FirstServedStep ==
    ASSUME TypeOK, NEW i \in 1..Len(outbox), NEW acc \in Acc, FirstServed(acc, i - 1)
    PROVE  FirstServed(Take(acc, outbox[i]), i)
<1> DEFINE row == outbox[i]
           m == row.msg
           new == Take(acc, row)
           e == Entries(m, acc.left)
           b == acc.batch \o e
           d == IF Share(m, acc.left) = <<>> THEN acc.done \cup {m} ELSE acc.done
<1> SUFFICES FirstServed(new, i)
  OBVIOUS
<1> HIDE DEF new
<1>1. acc.left \in 0..Limit /\ acc.batch \in Seq(Entry) /\ acc.left + Len(acc.batch) = Limit
  BY DEF Acc, FirstServed
<1>2. row \in OutRow
  <2>1. outbox \in Seq(OutRow) /\ i \in DOMAIN outbox
    BY DEF TypeOK, OutRow
  <2> QED BY <2>1, SeqElement
<1>3. /\ i \in Nat /\ i \in 1..i /\ 1..(i - 1) \subseteq 1..i
      /\ \A j \in 1..i : j \in 1..(i - 1) \/ j = i
  BY DEF TypeOK
<1>4. CASE acc.left = 0 \/ ~row.due \/ m \notin DOMAIN messages
  <2>1. new = acc
    BY <1>4 DEF new, Take
  <2>2. CASE acc.left = 0
    <3>1. acc.batch # <<>>
      BY <1>1, <2>2, NumbersAssumption
    <3>2. PICK k \in 1..(i - 1) : Servable(k)
      BY <3>1 DEF FirstServed
    <3>3. ~ \A l \in 1..(i - 1) : ~Servable(l)
      BY <3>2
    <3> QED BY <1>3, <2>1, <2>2, <3>1, <3>3 DEF FirstServed
  <2>3. CASE acc.left # 0
    <3>1. ~Servable(i) /\ ~(outbox[i].due /\ outbox[i].msg \in DOMAIN messages)
      BY <1>4, <2>3 DEF Servable
    <3> QED BY <1>3, <2>1, <3>1 DEF FirstServed
  <2> QED BY <2>2, <2>3
<1>5. CASE ~(acc.left = 0 \/ ~row.due \/ m \notin DOMAIN messages)
  <2>1. acc.left \in Nat \ {0} /\ m \in Ids
    BY <1>1, <1>2, <1>5, NumbersAssumption DEF OutRow, TypeOK, Ids
  <2>2. /\ e \in Seq(Entry) /\ Len(e) = Len(Share(m, acc.left)) /\ Share(m, acc.left) \in Seq(Reservation)
        /\ Len(e) <= acc.left
    BY <2>1, EntriesType, ShareRows
  <2>3. /\ new.left = acc.left - Len(e) /\ new.batch = b /\ new.done = d
    <3>1. new = [left |-> acc.left - Len(e), batch |-> b, done |-> d]
      BY <1>5, <2>2 DEF new, Take, Left, Entries
    <3> HIDE DEF b, d, e
    <3> QED BY <3>1
  <2>4. Servable(i) <=> Candidates(m) # <<>>
    BY <1>5 DEF Servable
  <2>5. /\ Candidates(m) = <<>> <=> Share(m, acc.left) = <<>>
        /\ Share(m, acc.left) = <<>> <=> e = <<>>
    <3> DEFINE c == Candidates(m)
               t == Share(m, acc.left)
    <3>1. /\ DOMAIN t \subseteq DOMAIN c /\ (t = <<>> => c = <<>>)
          /\ t \in Seq(Reservation) /\ e \in Seq(Entry) /\ Len(e) = Len(t)
      BY <2>1, <2>2, ShareRows
    <3> HIDE DEF c, t, e
    <3>2. ASSUME c = <<>> PROVE t = <<>>
      <4>1. DOMAIN c = {}
        BY <3>2
      <4>2. DOMAIN t = {}
        BY <3>1, <4>1
      <4> QED BY <3>1, <4>2
    <3>3. t = <<>> <=> e = <<>>
      BY <3>1
    <3>4. /\ c = <<>> <=> t = <<>>
          /\ t = <<>> <=> e = <<>>
      BY <3>1, <3>2, <3>3
    <3> QED BY <3>4 DEF c, t
  <2>6. acc.done \subseteq d /\ (e = <<>> => m \in d)
    BY <2>5
  <2>7. e # <<>> => e[1][1] = m
    <3>1. ASSUME e # <<>> PROVE 1 \in DOMAIN Share(m, acc.left)
      BY <2>2, <2>5, <3>1
    <3> QED BY <2>1, <3>1, EntriesType
  <2> HIDE DEF e, d
  <2>8. /\ Len(b) = Len(acc.batch) + Len(e)
        /\ acc.batch # <<>> => b # <<>> /\ b[1] = acc.batch[1]
        /\ acc.batch = <<>> => b = e
        /\ b # <<>> => acc.batch # <<>> \/ e # <<>>
    BY <1>1, <2>2, Joined
  <2> HIDE DEF b
  <2>9. new.left + Len(new.batch) = Limit
    <3>1. Len(e) \in Nat /\ Len(acc.batch) \in Nat /\ acc.left \in Nat
      BY <1>1, <2>1, <2>2
    <3>2. new.left = acc.left - Len(e) /\ Len(new.batch) = Len(acc.batch) + Len(e)
      BY <2>3, <2>8
    <3> QED BY <1>1, <3>1, <3>2
  <2>10. new.batch # <<>> => \E j \in 1..i : Servable(j)
    <3>1. CASE acc.batch # <<>>
      BY <3>1, <1>3 DEF FirstServed
    <3>2. CASE e # <<>>
      BY <3>2, <1>3, <2>4, <2>5
    <3> QED BY <3>1, <3>2, <2>3, <2>8
  <2>11. ASSUME NEW j \in 1..i, Servable(j), \A k \in 1..(j - 1) : ~Servable(k)
         PROVE  new.batch # <<>> /\ new.batch[1][1] = outbox[j].msg
    <3>1. CASE j \in 1..(i - 1)
      <4>1. acc.batch # <<>> /\ acc.batch[1][1] = outbox[j].msg
        BY <2>11, <3>1 DEF FirstServed
      <4> QED BY <2>3, <2>8, <4>1
    <3>2. CASE j = i
      <4>1. acc.batch = <<>>
        BY <2>11, <3>2 DEF FirstServed
      <4>2. e # <<>>
        BY <2>4, <2>5, <2>11, <3>2
      <4> QED BY <2>3, <2>7, <2>8, <3>2, <4>1, <4>2
    <3> QED BY <1>3, <3>1, <3>2
  <2>12. ASSUME NEW j \in 1..i, outbox[j].due, outbox[j].msg \in DOMAIN messages, ~Servable(j)
         PROVE  outbox[j].msg \in new.done \/ new.left = 0
    <3>1. CASE j \in 1..(i - 1)
      <4>1. outbox[j].msg \in acc.done
        BY <1>5, <2>12, <3>1 DEF FirstServed
      <4> QED BY <2>3, <2>6, <4>1
    <3>2. CASE j = i
      BY <2>3, <2>4, <2>5, <2>6, <2>12, <3>2
    <3> QED BY <1>3, <3>1, <3>2
  <2>13. ASSUME NEW j \in 1..i, Servable(j) PROVE new.batch # <<>>
    <3>1. CASE j \in 1..(i - 1)
      <4>1. acc.batch # <<>>
        BY <2>13, <3>1 DEF FirstServed
      <4> QED BY <2>3, <2>8, <4>1
    <3>2. CASE j = i
      <4>1. e # <<>>
        BY <2>4, <2>5, <2>13, <3>2
      <4>2. Len(e) \in Nat \ {0} /\ Len(acc.batch) \in Nat
        BY <1>1, <2>2, <4>1
      <4>3. Len(b) # 0
        BY <2>8, <4>2
      <4> QED BY <2>3, <4>3
    <3> QED BY <1>3, <3>1, <3>2
  <2> HIDE DEF row, m
  <2> QED BY <2>9, <2>10, <2>11, <2>12, <2>13, Zenon DEF FirstServed
<1> QED BY <1>4, <1>5

\* What get_pending_messages returns begins with the first row that can be served.
LEMMA PendingServes ==
    ASSUME TypeOK
    PROVE  FirstServed(Pending, Len(outbox))
<1> DEFINE G == {p \in Acc \X Nat : FirstServed(p[1], p[2])}
<1>1. ASSUME NEW acc \in Acc, NEW i \in Nat PROVE <<acc, i>> \in G <=> FirstServed(acc, i)
  OBVIOUS
<1>2. Start \in Acc /\ Start.left = Limit /\ Start.batch = <<>> /\ Start.done = {}
  BY NumbersAssumption DEF Start, Acc
<1>3. Len(Start.batch) = 0
  BY <1>2
<1>4. FirstServed(Start, 0)
  BY <1>2, <1>3, NumbersAssumption DEF FirstServed
<1>5. Len(outbox) \in Nat
  BY DEF TypeOK
<1>6. ASSUME NEW i \in 1..Len(outbox), NEW acc \in Acc, <<acc, i - 1>> \in G
      PROVE  <<Take(acc, outbox[i]), i>> \in G
  <2>1. i - 1 \in Nat /\ i \in Nat
    BY <1>5
  <2>2. FirstServed(Take(acc, outbox[i]), i)
    BY <1>1, <1>6, <2>1, FirstServedStep
  <2>3. Take(acc, outbox[i]) \in Acc
    <3>1. outbox \in Seq(OutRow) /\ i \in DOMAIN outbox
      BY DEF TypeOK, OutRow
    <3> QED BY <3>1, SeqElement, TakeType
  <2> HIDE DEF G
  <2> QED BY <1>1, <2>1, <2>2, <2>3
<1>7. <<Start, 0>> \in G
  BY <1>1, <1>2, <1>4
<1> HIDE DEF G
<1>8. Pending \in Acc /\ <<Pending, Len(outbox)>> \in G
  BY <1>6, <1>7, ScanInduction
<1> QED BY <1>1, <1>5, <1>8

-----------------------------------------------------------------------------
(* The outbox *)

\* What remains are rows of other messages, all of them, each once.
LEMMA OutboxRows ==
    ASSUME TypeOK, NEW gone
    PROVE  /\ OutboxWithout(gone) \in Seq(OutRow)
           /\ \A i \in DOMAIN outbox : outbox[i].msg \notin gone =>
                \E j \in DOMAIN OutboxWithout(gone) : OutboxWithout(gone)[j] = outbox[i]
           /\ \E pos \in [DOMAIN OutboxWithout(gone) -> DOMAIN outbox] :
                /\ \A j \in DOMAIN OutboxWithout(gone) :
                    /\ OutboxWithout(gone)[j] = outbox[pos[j]]
                    /\ outbox[pos[j]].msg \notin gone
                /\ \A j, k \in DOMAIN OutboxWithout(gone) : pos[j] = pos[k] => j = k
<1> DEFINE K == {i \in DOMAIN outbox : outbox[i].msg \notin gone}
           t == OutboxWithout(gone)
<1>1. outbox \in Seq(OutRow)
  BY DEF TypeOK, OutRow
<1>2. t = Keep(outbox, K)
  BY DEF OutboxWithout
<1> HIDE DEF t, K
<1>3. t \in Seq(OutRow)
  BY <1>1, <1>2, KeepRows
<1>4. PICK pos \in [DOMAIN t -> K \cap DOMAIN outbox] :
        /\ \A j \in DOMAIN t : t[j] = outbox[pos[j]]
        /\ \A j, k \in DOMAIN t : pos[j] = pos[k] => j = k
        /\ \A i \in K \cap DOMAIN outbox : \E j \in DOMAIN t : pos[j] = i
  BY <1>1, <1>2, KeepRows
<1>5. \A j \in DOMAIN t : outbox[pos[j]].msg \notin gone
  <2>1. \A j \in DOMAIN t : pos[j] \in K
    BY <1>4
  <2> QED BY <2>1 DEF K
<1>6. ASSUME NEW i \in DOMAIN outbox, outbox[i].msg \notin gone
      PROVE  \E j \in DOMAIN t : t[j] = outbox[i]
  <2>1. i \in K \cap DOMAIN outbox
    BY <1>6 DEF K
  <2> QED BY <1>4, <2>1
<1>7. pos \in [DOMAIN t -> DOMAIN outbox]
  BY <1>4
<1>8. /\ t \in Seq(OutRow)
      /\ \A i \in DOMAIN outbox : outbox[i].msg \notin gone => \E j \in DOMAIN t : t[j] = outbox[i]
      /\ \E g \in [DOMAIN t -> DOMAIN outbox] :
           /\ \A j \in DOMAIN t : t[j] = outbox[g[j]] /\ outbox[g[j]].msg \notin gone
           /\ \A j, k \in DOMAIN t : g[j] = g[k] => j = k
  BY <1>3, <1>4, <1>5, <1>6, <1>7, Zenon
<1> QED BY <1>8 DEF t

\* A prompt has as many rows as it likes, another message keeps to one: what
\* is in t comes from the outbox.
LEMMA FewerRows ==
    ASSUME TypeOK, OneRow, NEW gone, NEW t, t = OutboxWithout(gone)
    PROVE  /\ \A j \in DOMAIN t : t[j].msg \notin gone /\ Queued(t[j].msg)
           /\ \A j, k \in DOMAIN t : t[j].msg = t[k].msg /\ t[j].msg \in Single => j = k
<1>1. PICK pos \in [DOMAIN t -> DOMAIN outbox] :
        /\ \A j \in DOMAIN t : t[j] = outbox[pos[j]] /\ outbox[pos[j]].msg \notin gone
        /\ \A j, k \in DOMAIN t : pos[j] = pos[k] => j = k
  BY OutboxRows
<1>2. \A j \in DOMAIN t : pos[j] \in DOMAIN outbox
  BY <1>1
<1>3. \A j \in DOMAIN t : t[j].msg \notin gone /\ Queued(t[j].msg)
  BY <1>1, <1>2 DEF Queued
<1>4. \A j, k \in DOMAIN t : t[j].msg = t[k].msg /\ t[j].msg \in Single => j = k
  BY <1>1, <1>2 DEF OneRow
<1> QED BY <1>3, <1>4

-----------------------------------------------------------------------------
(* Steps of the handlers *)

delivery == <<sent, batch, task, told, slipped>>

\* A step that queues new messages, or no single one, and lets the task be.
QueueStep ==
    /\ UNCHANGED <<delivery, faults>>
    /\ lastId' \in lastId..MaxMessages
    /\ \A m \in Single' : m \in Single \/ m \in (lastId + 1)..lastId'
    /\ \A m \in Single : Queued(m)' => Queued(m)

\* A step that only adds to the queue, or removes from it, disturbs neither
\* receipts nor the batch under way.
LEMMA QueueKeeps ==
    ASSUME IInv, QueueStep
    PROVE  (RateLimited /\ Known /\ Receipts /\ DistinctEntries /\ Fresh /\ HonestReceipts)'
<1> USE DEF IInv, QueueStep, delivery
<1>1. lastId \in Nat /\ lastId' \in Nat /\ lastId <= lastId' /\ 1..lastId \subseteq 1..lastId'
  BY DEF TypeOK
<1>2. \A m \in Single' : m \in 1..lastId => m \in Single
  BY <1>1
<1>3. RateLimited'
  BY DEF RateLimited
<1>4. Known'
  BY <1>1 DEF Known
<1>5. Receipts'
  <2> SUFFICES ASSUME NEW m \in Single', NEW u \in Users,
                      <<m, u>> \in told, <<m, u>> \notin slipped, Queued(m)'
               PROVE  <<m, u>> \in sent \/ (task = "sent" /\ Head(batch) = <<m, u>>)
    BY DEF Receipts
  <2>1. m \in 1..lastId
    BY DEF Known
  <2>2. m \in Single
    BY <1>2, <2>1
  <2> QED BY <2>2 DEF Receipts
<1>6. DistinctEntries'
  BY <1>2 DEF DistinctEntries, Known
<1>7. Fresh'
  BY <1>2 DEF Fresh, Known
<1>8. HonestReceipts'
  BY DEF HonestReceipts
<1> QED BY <1>3, <1>4, <1>5, <1>6, <1>7, <1>8

\* The typing of what these steps change is enough.
LEMMA QueueTypes ==
    ASSUME TypeOK, UNCHANGED <<delivery, faults>>, live' \in BOOLEAN,
           lastId' \in lastId..MaxMessages, rows' \in Seq(Reservation),
           DOMAIN messages' \subseteq 1..lastId',
           messages' \in [DOMAIN messages' -> Message],
           outbox' \in Seq(OutRow')
    PROVE  TypeOK'
BY NumbersAssumption DEF TypeOK, delivery, Reservation, OutRow

\* More ids are known of.
LEMMA MoreIds ==
    ASSUME TypeOK, lastId' \in lastId..MaxMessages
    PROVE  OutRow \subseteq OutRow' /\ \A s \in Seq(OutRow) : s \in Seq(OutRow')
<1>1. 1..lastId \subseteq 1..lastId'
  BY NumbersAssumption DEF TypeOK
<1>2. OutRow \subseteq OutRow'
  BY <1>1 DEF OutRow
<1> HIDE DEF OutRow
<1> QED BY <1>2

\* enqueue_message adds a row of a message nobody has heard of.
LEMMA EnqueueKeeps ==
    ASSUME IInv, NEW type \in Kinds, NEW waiting \in BOOLEAN, NEW gone,
           Enqueue(type, waiting, gone), UNCHANGED <<delivery, faults>>
    PROVE  /\ QueueStep /\ OneRow'
           /\ DOMAIN messages' \subseteq 1..lastId'
           /\ messages' \in [DOMAIN messages' -> Message]
           /\ outbox' \in Seq(OutRow')
<1> DEFINE n == lastId + 1
           t == OutboxWithout(gone)
           row == OutboxRow(n, type)
<1> USE DEF IInv
<1>1. /\ lastId' = n /\ lastId \in Nat /\ n \in lastId..MaxMessages /\ n \in Nat
      /\ n \notin 1..lastId /\ n \in 1..n /\ 1..lastId \subseteq 1..n /\ (lastId + 1)..lastId' = {n}
  BY NumbersAssumption DEF Enqueue, TypeOK
<1>2. /\ DOMAIN messages' = (DOMAIN messages \ gone) \cup {n}
      /\ messages'[n] = [type |-> type, waiting |-> waiting]
      /\ \A m \in DOMAIN messages \ gone : m # n /\ messages'[m] = messages[m]
  BY <1>1 DEF Enqueue, TypeOK
<1>3. outbox' = Append(t, row)
  BY DEF Enqueue
<1>4. row = [msg |-> n, due |-> type = "direct"]
  BY DEF OutboxRow
<1>5. row \in OutRow' /\ row.msg = n
  <2> DEFINE due == type = "direct"
  <2>1. due \in BOOLEAN /\ n \in 1..lastId' /\ row = [msg |-> n, due |-> due]
    BY <1>1, <1>4
  <2> HIDE DEF due, row, n
  <2> QED BY <2>1 DEF OutRow
<1>6. t \in Seq(OutRow) /\ t \in Seq(OutRow')
  BY <1>1, OutboxRows, MoreIds
<1>7. \A j \in DOMAIN t : t[j] \in OutRow /\ t[j].msg \in 1..lastId
  <2> HIDE DEF t
  <2>1. ASSUME NEW j \in DOMAIN t PROVE t[j] \in OutRow
    BY <1>6, SeqElement
  <2> QED BY <2>1 DEF OutRow
<1>8. /\ \A j \in DOMAIN t : t[j].msg \notin gone /\ Queued(t[j].msg)
      /\ \A j, k \in DOMAIN t : t[j].msg = t[k].msg /\ t[j].msg \in Single => j = k
  BY FewerRows
<1> HIDE DEF t, row, n
<1>9. outbox' \in Seq(OutRow')
  BY <1>3, <1>5, <1>6
<1>10. ASSUME NEW j \in DOMAIN outbox'
       PROVE  (j \in DOMAIN t /\ outbox'[j] = t[j]) \/ (j = Len(t) + 1 /\ outbox'[j] = row)
  BY <1>3, <1>6
<1>11. \A m \in Single' : m \in Single \/ m = n
  BY <1>2 DEF Single
<1>12. \A j, k \in DOMAIN outbox' :
         outbox'[j].msg = outbox'[k].msg /\ outbox'[j].msg \in Single' => j = k
  <2> TAKE j, k \in DOMAIN outbox'
  <2> HAVE outbox'[j].msg = outbox'[k].msg /\ outbox'[j].msg \in Single'
  <2>1. CASE outbox'[j].msg = n
    BY <2>1, <1>1, <1>5, <1>7, <1>10
  <2>2. CASE outbox'[j].msg # n
    <3>1. j \in DOMAIN t /\ outbox'[j] = t[j] /\ k \in DOMAIN t /\ outbox'[k] = t[k]
      BY <2>2, <1>5, <1>10
    <3>2. t[j].msg \in Single
      BY <2>2, <3>1, <1>11
    <3> QED BY <3>1, <3>2, <1>8
  <2> QED BY <2>1, <2>2
<1>13. OneRow'
  BY <1>12 DEF OneRow
<1>14. ASSUME NEW m \in Single, Queued(m)' PROVE Queued(m)
  <2>1. PICK j \in DOMAIN outbox' : outbox'[j].msg = m
    BY <1>14 DEF Queued
  <2>2. m # n
    BY <1>1 DEF Single, TypeOK
  <2>3. j \in DOMAIN t /\ outbox'[j] = t[j]
    BY <2>1, <2>2, <1>5, <1>10
  <2> QED BY <2>1, <2>3, <1>8
<1>15. QueueStep
  BY <1>1, <1>11, <1>14 DEF QueueStep
<1>16. DOMAIN messages' \subseteq 1..lastId'
  BY <1>1, <1>2 DEF TypeOK
<1>17. messages' \in [DOMAIN messages' -> Message]
  <2>1. [type |-> type, waiting |-> waiting] \in Message
    BY DEF Message
  <2>2. \A m \in DOMAIN messages : messages[m] \in Message
    BY DEF TypeOK
  <2>3. \A m \in DOMAIN messages' : messages'[m] \in Message
    BY <1>2, <2>1, <2>2
  <2>4. messages' = [m \in DOMAIN messages' |-> messages'[m]]
    BY DEF Enqueue
  <2> QED BY <2>3, <2>4
<1> QED BY <1>9, <1>13, <1>15, <1>16, <1>17

\* A reservation is made, or given up: the outbox is not touched.
LEMMA QuietQueue ==
    ASSUME IInv, UNCHANGED <<delivery, faults, messages, lastId, outbox>>
    PROVE  QueueStep /\ OneRow' /\ outbox' \in Seq(OutRow')
           /\ DOMAIN messages' \subseteq 1..lastId'
           /\ messages' \in [DOMAIN messages' -> Message]
<1>1. lastId' \in lastId..MaxMessages
  BY NumbersAssumption DEF IInv, TypeOK
<1>2. QueueStep
  BY <1>1 DEF QueueStep, Single, Queued
<1>3. OneRow'
  BY DEF IInv, OneRow, Single
<1>4. outbox' \in Seq(OutRow')
  BY DEF IInv, TypeOK, OutRow
<1> QED BY <1>2, <1>3, <1>4 DEF IInv, TypeOK

\* prompt_waiting_list adds one row, of a new message or of a prompt.
LEMMA PromptKeeps ==
    ASSUME IInv, PromptWaitingList, UNCHANGED <<delivery, faults>>
    PROVE  QueueStep /\ OneRow' /\ outbox' \in Seq(OutRow')
           /\ DOMAIN messages' \subseteq 1..lastId'
           /\ messages' \in [DOMAIN messages' -> Message]
<1>1. CASE Prompts = {} /\ Enqueue("prompt", TRUE, {})
  BY <1>1, EnqueueKeeps DEF Kinds
<1>2. CASE \E m \in Prompts : /\ Len(outbox) < MaxRows
                              /\ outbox' = Append(outbox, OutboxRow(m, "prompt"))
                              /\ UNCHANGED <<messages, lastId>>
  <2>1. PICK m \in Prompts : outbox' = Append(outbox, OutboxRow(m, "prompt"))
    BY <1>2
  <2> DEFINE row == OutboxRow(m, "prompt")
  <2>2. UNCHANGED <<messages, lastId>>
    BY <1>2
  <2>3. m \in 1..lastId /\ m \notin Single
    BY DEF Prompts, Single, IInv, TypeOK
  <2>4. row.msg = m /\ row \in OutRow
    <3>1. row = [msg |-> m, due |-> FALSE]
      BY DEF OutboxRow
    <3> HIDE DEF row
    <3> QED BY <2>3, <3>1 DEF OutRow
  <2>5. outbox \in Seq(OutRow) /\ lastId' \in lastId..MaxMessages
    BY <2>2, NumbersAssumption DEF IInv, TypeOK, OutRow
  <2> HIDE DEF row
  <2>6. outbox' \in Seq(OutRow) /\ OutRow' = OutRow
    BY <2>1, <2>2, <2>4, <2>5 DEF row, OutRow
  <2>7. ASSUME NEW j \in DOMAIN outbox'
        PROVE  (j \in DOMAIN outbox /\ outbox'[j] = outbox[j]) \/ outbox'[j] = row
    BY <2>1, <2>5 DEF row
  <2>8. Single' = Single
    BY <2>2 DEF Single
  <2>9. OneRow'
    <3> SUFFICES ASSUME NEW j \in DOMAIN outbox', NEW k \in DOMAIN outbox',
                        outbox'[j].msg = outbox'[k].msg, outbox'[j].msg \in Single
                 PROVE  j = k
      BY <2>8 DEF OneRow
    <3>1. outbox'[j].msg # m /\ outbox'[k].msg # m
      BY <2>3
    <3> QED BY <3>1, <2>4, <2>7 DEF IInv, OneRow
  <2>10. \A n \in Single : Queued(n)' => Queued(n)
    BY <2>3, <2>4, <2>7 DEF Queued
  <2>11. QueueStep
    BY <2>2, <2>5, <2>8, <2>10 DEF QueueStep
  <2> QED BY <2>2, <2>6, <2>9, <2>11 DEF IInv, TypeOK
<1> QED BY <1>1, <1>2 DEF PromptWaitingList

\* Editing the event keeps the invariant.
LEMMA MutateEventKeeps == IInv /\ MutateEvent => IInv'
<1> SUFFICES ASSUME IInv, MutateEvent PROVE IInv'
  OBVIOUS
<1>1. /\ UNCHANGED <<delivery, faults, live, rows>>
      /\ Enqueue("reminder", FALSE, Reminders)
  BY DEF MutateEvent, delivery
<1>2. /\ QueueStep /\ OneRow' /\ outbox' \in Seq(OutRow')
      /\ DOMAIN messages' \subseteq 1..lastId' /\ messages' \in [DOMAIN messages' -> Message]
  BY <1>1, EnqueueKeeps DEF Kinds
<1>3. TypeOK'
  BY <1>1, <1>2, QueueTypes DEF QueueStep, IInv, TypeOK, Reservation
<1>4. OneSeat'
  BY <1>1 DEF IInv, OneSeat
<1> QED BY <1>2, <1>3, <1>4, QueueKeeps DEF IInv

\* /send keeps the invariant.
LEMMA SendDirectKeeps ==
    ASSUME IInv, NEW waiting \in BOOLEAN, SendDirect(waiting) PROVE IInv'
<1>1. /\ UNCHANGED <<delivery, faults, live, rows>>
      /\ Enqueue("direct", waiting, {})
  BY DEF SendDirect, delivery
<1>2. /\ QueueStep /\ OneRow' /\ outbox' \in Seq(OutRow')
      /\ DOMAIN messages' \subseteq 1..lastId' /\ messages' \in [DOMAIN messages' -> Message]
  BY <1>1, EnqueueKeeps DEF Kinds
<1>3. TypeOK'
  BY <1>1, <1>2, QueueTypes DEF QueueStep, IInv, TypeOK, Reservation
<1>4. OneSeat'
  BY <1>1 DEF IInv, OneSeat
<1> QED BY <1>2, <1>3, <1>4, QueueKeeps DEF IInv

\* A sign-up keeps the invariant.
LEMMA SignUpKeeps ==
    ASSUME IInv, NEW u \in Users, NEW waiting \in BOOLEAN, SignUp(u, waiting) PROVE IInv'
<1>1. UNCHANGED <<delivery, faults, live, messages, lastId, outbox>>
  BY DEF SignUp, delivery
<1>2. /\ QueueStep /\ OneRow' /\ outbox' \in Seq(OutRow')
      /\ DOMAIN messages' \subseteq 1..lastId' /\ messages' \in [DOMAIN messages' -> Message]
  BY <1>1, QuietQueue
<1>3. rows \in Seq(Reservation)
  BY DEF IInv, TypeOK, Reservation
<1>4. rows' \in Seq(Reservation) /\ OneSeat'
  <2>1. CASE ~Holding(u) /\ rows' = Append(rows, [user |-> u, waiting |-> waiting])
    <3> DEFINE row == [user |-> u, waiting |-> waiting]
    <3>1. row \in Reservation /\ row.user = u
      BY DEF Reservation
    <3> HIDE DEF row
    <3>2. rows' \in Seq(Reservation)
      BY <1>3, <2>1, <3>1 DEF row
    <3>3. ASSUME NEW j \in DOMAIN rows'
          PROVE  (j \in DOMAIN rows /\ rows'[j] = rows[j]) \/ (j = Len(rows) + 1 /\ rows'[j] = row)
      BY <1>3, <2>1 DEF row
    <3>4. \A j \in DOMAIN rows : rows[j].user # u
      BY <2>1 DEF Holding
    <3>5. OneSeat'
      BY <3>1, <3>3, <3>4 DEF IInv, OneSeat
    <3> QED BY <3>2, <3>5
  <2>2. CASE \E i \in DOMAIN rows : rows' = [rows EXCEPT ![i].waiting = FALSE]
    <3>1. PICK i \in DOMAIN rows : rows' = [rows EXCEPT ![i].waiting = FALSE]
      BY <2>2
    <3>2. rows[i] \in Reservation
      BY <1>3, SeqElement
    <3> DEFINE row == [rows[i] EXCEPT !.waiting = FALSE]
    <3>3. row \in Reservation /\ row.user = rows[i].user
      BY <3>2 DEF Reservation
    <3>4. rows' = [rows EXCEPT ![i] = row]
      BY <3>1
    <3> HIDE DEF row
    <3>5. rows' \in Seq(Reservation) /\ DOMAIN rows' = DOMAIN rows
      BY <1>3, <3>3, <3>4
    <3>6. \A j \in DOMAIN rows : rows'[j].user = rows[j].user
      BY <1>3, <3>3, <3>4
    <3> QED BY <3>5, <3>6 DEF IInv, OneSeat
  <2> QED BY <2>1, <2>2 DEF SignUp
<1>5. TypeOK'
  BY <1>1, <1>2, <1>4, QueueTypes DEF QueueStep, IInv, TypeOK
<1> QED BY <1>2, <1>4, <1>5, QueueKeeps DEF IInv

\* Giving a seat back, which may prompt the waiting list, keeps the invariant.
LEMMA GiveUpKeeps ==
    ASSUME IInv, NEW u \in Users, GiveUp(u) PROVE IInv'
<1>1. UNCHANGED <<delivery, faults, live>>
  BY DEF GiveUp, delivery
<1>2. rows \in Seq(Reservation)
  BY DEF IInv, TypeOK, Reservation
<1>3. PICK i \in DOMAIN rows :
        /\ rows' = Keep(rows, DOMAIN rows \ {i})
        /\ PromptWaitingList \/ UNCHANGED <<messages, lastId, outbox>>
  BY DEF GiveUp
<1>4. /\ QueueStep /\ OneRow' /\ outbox' \in Seq(OutRow')
      /\ DOMAIN messages' \subseteq 1..lastId' /\ messages' \in [DOMAIN messages' -> Message]
  BY <1>1, <1>3, PromptKeeps, QuietQueue
<1>5. rows' \in Seq(Reservation)
  BY <1>2, <1>3, KeepRows
<1>6. OneSeat'
  <2> DEFINE K == DOMAIN rows \ {i}
             t == Keep(rows, K)
  <2> HIDE DEF K
  <2>1. PICK pos \in [DOMAIN t -> K \cap DOMAIN rows] :
          /\ \A j \in DOMAIN t : t[j] = rows[pos[j]]
          /\ \A j, k \in DOMAIN t : pos[j] = pos[k] => j = k
    BY <1>2, KeepRows
  <2> HIDE DEF t
  <2>2. \A j \in DOMAIN t : pos[j] \in DOMAIN rows
    BY <2>1
  <2>3. \A j, k \in DOMAIN t : t[j].user = t[k].user => j = k
    BY <2>1, <2>2 DEF IInv, OneSeat
  <2>4. rows' = t
    BY <1>3 DEF t, K
  <2> QED BY <2>3, <2>4 DEF OneSeat
<1>7. TypeOK'
  BY <1>1, <1>4, <1>5, QueueTypes DEF QueueStep, IInv, TypeOK
<1> QED BY <1>4, <1>6, <1>7, QueueKeeps DEF IInv

\* Deleting the event, with rows of the outbox left behind, keeps the invariant.
LEMMA DeleteEventKeeps == IInv /\ DeleteEvent => IInv'
<1> SUFFICES ASSUME IInv, DeleteEvent PROVE IInv'
  OBVIOUS
<1>1. /\ UNCHANGED <<delivery, faults, lastId, outbox>>
      /\ live' = FALSE /\ rows' = <<>> /\ messages' = [m \in {} |-> {}]
  BY DEF DeleteEvent, delivery
<1>2. DOMAIN messages' = {} /\ Single' = {} /\ messages' \in [{} -> Message]
  BY <1>1 DEF Single
<1>3. lastId' \in lastId..MaxMessages
  BY <1>1, NumbersAssumption DEF IInv, TypeOK
<1>4. QueueStep
  BY <1>1, <1>2, <1>3 DEF QueueStep, Queued
<1>5. OneRow'
  BY <1>2 DEF OneRow
<1>6. rows' \in Seq(Reservation) /\ OneSeat'
  BY <1>1 DEF OneSeat
<1>7. outbox' \in Seq(OutRow')
  BY <1>1 DEF IInv, TypeOK, OutRow
<1>8. TypeOK'
  BY <1>1, <1>2, <1>3, <1>6, <1>7, QueueTypes DEF IInv
<1> QED BY <1>4, <1>5, <1>6, <1>8, QueueKeeps DEF IInv

\* The passing of time keeps the invariant.
LEMMA DueKeeps ==
    ASSUME IInv, NEW m \in Ids, Due(m) PROVE IInv'
<1>1. UNCHANGED <<delivery, faults, live, rows, messages, lastId>>
  BY DEF Due, delivery, tables
<1>2. PICK i \in DOMAIN outbox : outbox' = [outbox EXCEPT ![i].due = TRUE]
  BY DEF Due
<1>3. outbox \in Seq(OutRow) /\ outbox[i] \in OutRow
  BY SeqElement DEF IInv, TypeOK, OutRow
<1> DEFINE row == [outbox[i] EXCEPT !.due = TRUE]
<1>4. row \in OutRow /\ row.msg = outbox[i].msg /\ outbox' = [outbox EXCEPT ![i] = row]
  BY <1>2, <1>3 DEF OutRow
<1> HIDE DEF row
<1>5. outbox' \in Seq(OutRow) /\ DOMAIN outbox' = DOMAIN outbox
  BY <1>3, <1>4
<1>6. \A j \in DOMAIN outbox : outbox'[j].msg = outbox[j].msg
  BY <1>3, <1>4
<1>7. lastId' \in lastId..MaxMessages /\ OutRow' = OutRow /\ Single' = Single
  BY <1>1, NumbersAssumption DEF IInv, TypeOK, OutRow, Single
<1>8. QueueStep
  BY <1>1, <1>5, <1>6, <1>7 DEF QueueStep, Queued
<1>9. OneRow' /\ OneSeat'
  BY <1>1, <1>5, <1>6, <1>7 DEF IInv, OneRow, OneSeat
<1>10. TypeOK'
  BY <1>1, <1>5, <1>7, QueueTypes DEF IInv, TypeOK, Reservation
<1> QED BY <1>8, <1>9, <1>10, QueueKeeps DEF IInv

-----------------------------------------------------------------------------
(* Steps of the task *)

\* Removing rows of the outbox does nothing to the other invariants.
LEMMA OutboxShrinks ==
    ASSUME TypeOK, OneRow, UNCHANGED <<messages, lastId>>, NEW gone,
           outbox' = OutboxWithout(gone)
    PROVE  /\ OneRow' /\ outbox' \in Seq(OutRow') /\ Single' = Single
           /\ \A m : Queued(m)' => Queued(m) /\ m \notin gone
           /\ \A m : Queued(m) /\ m \notin gone => Queued(m)'
<1> DEFINE t == OutboxWithout(gone)
<1>1. Single' = Single /\ OutRow' = OutRow
  BY DEF Single, OutRow
<1>2. t \in Seq(OutRow)
  BY OutboxRows
<1>3. /\ \A j \in DOMAIN t : t[j].msg \notin gone /\ Queued(t[j].msg)
      /\ \A j, k \in DOMAIN t : t[j].msg = t[k].msg /\ t[j].msg \in Single => j = k
  BY FewerRows
<1>4. \A i \in DOMAIN outbox : outbox[i].msg \notin gone => \E j \in DOMAIN t : t[j] = outbox[i]
  BY OutboxRows
<1>5. outbox' = t
  OBVIOUS
<1> HIDE DEF t
<1>6. OneRow'
  BY <1>1, <1>3, <1>5 DEF OneRow
<1>7. \A m : Queued(m)' => Queued(m) /\ m \notin gone
  BY <1>3, <1>5 DEF Queued
<1>8. \A m : Queued(m) /\ m \notin gone => Queued(m)'
  BY <1>4, <1>5 DEF Queued
<1> QED BY <1>1, <1>2, <1>5, <1>6, <1>7, <1>8

\* The rows of the messages in gone are removed, and with them the receipts
\* of those in clean.
LEMMA CleanKeeps ==
    ASSUME IInv, task = "idle", UNCHANGED <<tables, told, slipped>>,
           NEW gone, NEW clean \in {gone, {}},
           outbox' = OutboxWithout(gone), sent' = {s \in sent : s[1] \notin clean}
    PROVE  /\ Receipts' /\ OneRow' /\ OneSeat' /\ outbox' \in Seq(OutRow')
           /\ sent' \subseteq sent
<1> USE DEF IInv
<1>1. /\ OneRow' /\ outbox' \in Seq(OutRow') /\ Single' = Single
      /\ \A m : Queued(m)' => Queued(m) /\ m \notin gone
  BY OutboxShrinks DEF tables
<1>2. OneSeat'
  BY DEF OneSeat, tables
<1>3. Receipts'
  <2> SUFFICES ASSUME NEW m \in Single, NEW u \in Users,
                      <<m, u>> \in told, <<m, u>> \notin slipped, Queued(m)'
               PROVE  <<m, u>> \in sent'
    BY <1>1 DEF Receipts
  <2>1. <<m, u>> \in sent
    BY <1>1 DEF Receipts
  <2>2. <<m, u>>[1] \notin clean
    BY <1>1
  <2> QED BY <2>1, <2>2
<1> QED BY <1>1, <1>2, <1>3

\* Collecting a batch keeps the invariant.
LEMMA CollectKeeps == IInv /\ Collect => IInv'
<1> SUFFICES ASSUME IInv, Collect PROVE IInv'
  OBVIOUS
<1> DEFINE b == Pending.batch
<1>1. /\ UNCHANGED <<tables, faults, told, slipped>> /\ task = "idle"
      /\ batch' = b /\ task' = IF b = <<>> THEN "idle" ELSE "sending"
      /\ outbox' = OutboxWithout(Done) /\ sent' = {s \in sent : s[1] \notin Done}
  BY DEF Collect
<1>2. /\ b \in Seq(Ids \X Users) /\ Len(b) <= Limit
      /\ \A k \in DOMAIN b : b[k] \notin sent /\ b[k][1] \in DOMAIN messages /\ Queued(b[k][1])
      /\ \A k, l \in DOMAIN b : b[k] = b[l] /\ b[k][1] \in Single => k = l
  BY Collected DEF IInv
<1>3. /\ Receipts' /\ OneRow' /\ OneSeat' /\ outbox' \in Seq(OutRow')
      /\ sent' \subseteq sent
  BY <1>1, CleanKeeps
<1> HIDE DEF b
<1>4. Single' = Single
  BY <1>1 DEF Single, tables
<1>5. TypeOK'
  BY <1>1, <1>2, <1>3 DEF IInv, TypeOK, OutRow, tables
<1>6. RateLimited'
  BY <1>1, <1>2 DEF RateLimited
<1>7. Known'
  BY <1>1, <1>2, <1>3 DEF IInv, Known, TypeOK, tables
<1>8. DistinctEntries'
  BY <1>1, <1>2, <1>4 DEF DistinctEntries
<1>9. Fresh'
  <2> SUFFICES ASSUME NEW k \in DOMAIN b, b[k][1] \in Single, b[k] \in told
               PROVE  b[k] \in slipped
    BY <1>1, <1>4 DEF Fresh
  <2>1. PICK m \in Ids, u \in Users : b[k] = <<m, u>>
    BY <1>2
  <2>2. m \in Single /\ Queued(m) /\ <<m, u>> \notin sent /\ <<m, u>> \in told
    BY <1>2, <2>1
  <2> QED BY <1>1, <2>1, <2>2 DEF IInv, Receipts
<1>10. HonestReceipts'
  BY <1>1, <1>3 DEF IInv, HonestReceipts
<1> QED BY <1>3, <1>5, <1>6, <1>7, <1>8, <1>9, <1>10 DEF IInv

\* A failure while collecting, perhaps after some deletes, keeps the invariant.
LEMMA CollectFailsKeeps == IInv /\ CollectFails => IInv'
<1> SUFFICES ASSUME IInv, CollectFails PROVE IInv'
  OBVIOUS
<1>1. /\ UNCHANGED <<tables, batch, told, slipped>> /\ task = "idle" /\ task' = "ended"
      /\ faults' \in 0..MaxFaults
  BY NumbersAssumption DEF CollectFails, IInv, TypeOK
<1>2. PICK gone \in SUBSET Done : \E clean \in {gone, {}} :
        outbox' = OutboxWithout(gone) /\ sent' = {s \in sent : s[1] \notin clean}
  BY DEF CollectFails
<1>3. /\ Receipts' /\ OneRow' /\ OneSeat' /\ outbox' \in Seq(OutRow')
      /\ sent' \subseteq sent
  BY <1>1, <1>2, CleanKeeps
<1>4. batch = <<>> /\ batch' = <<>> /\ DOMAIN batch' = {}
  BY <1>1 DEF IInv, TypeOK
<1>5. TypeOK'
  BY <1>1, <1>3, <1>4 DEF IInv, TypeOK, OutRow, tables
<1>6. RateLimited' /\ DistinctEntries' /\ Fresh' /\ HonestReceipts'
  BY <1>1, <1>3, <1>4 DEF IInv, RateLimited, DistinctEntries, Fresh, HonestReceipts
<1>7. Known'
  BY <1>1, <1>3, <1>4 DEF IInv, Known, tables
<1> QED BY <1>3, <1>5, <1>6, <1>7 DEF IInv

\* The message at the head of a batch.
LEMMA HeadOfBatch ==
    ASSUME TypeOK, batch # <<>>
    PROVE  /\ 1 \in DOMAIN batch /\ Head(batch) = batch[1] /\ Head(batch) \in Ids \X Users
           /\ Tail(batch) \in Seq(Ids \X Users)
           /\ Len(Tail(batch)) = Len(batch) - 1 /\ Len(batch) \in Nat
           /\ \A i \in DOMAIN Tail(batch) : /\ i + 1 \in DOMAIN batch /\ i \in Nat \ {0}
                                            /\ Tail(batch)[i] = batch[i + 1]
BY DEF TypeOK

\* Sending keeps the invariant.
LEMMA SendKeeps == IInv /\ Send => IInv'
<1> SUFFICES ASSUME IInv, Send PROVE IInv'
  OBVIOUS
<1> USE DEF IInv
<1>1. /\ UNCHANGED <<tables, outbox, sent, batch, faults, slipped>>
      /\ task = "sending" /\ task' = "sent" /\ told' = told \cup {Head(batch)}
  BY DEF Send
<1>2. batch # <<>>
  BY <1>1 DEF TypeOK
<1>3. 1 \in DOMAIN batch /\ Head(batch) = batch[1] /\ Head(batch) \in Ids \X Users
  BY <1>2, HeadOfBatch
<1>4. Single' = Single /\ \A m : Queued(m)' <=> Queued(m)
  BY <1>1 DEF Single, Queued, tables
<1>5. TypeOK'
  BY <1>1, <1>3 DEF TypeOK, tables
<1>6. RateLimited' /\ OneRow' /\ OneSeat' /\ DistinctEntries'
  BY <1>1, <1>4 DEF RateLimited, OneRow, OneSeat, DistinctEntries, tables
<1>7. Known'
  <2>1. Head(batch) \in (1..lastId) \X Users
    BY <1>3 DEF Known
  <2> QED BY <1>1, <2>1 DEF Known, tables
<1>8. Receipts'
  BY <1>1, <1>4 DEF Receipts
<1>9. Fresh'
  <2> SUFFICES ASSUME NEW i \in DOMAIN batch, i > 1, batch[i][1] \in Single,
                      batch[i] \in told \cup {Head(batch)}
               PROVE  batch[i] \in slipped
    BY <1>1, <1>4 DEF Fresh
  <2>1. batch[i] # Head(batch)
    BY <1>3 DEF DistinctEntries
  <2> QED BY <2>1 DEF Fresh
<1>10. HonestReceipts'
  BY <1>1 DEF HonestReceipts
<1> QED BY <1>5, <1>6, <1>7, <1>8, <1>9, <1>10

\* A batch that is dropped leaves nothing to prove of it.
LEMMA NoBatch ==
    ASSUME IInv, UNCHANGED <<tables, outbox, sent, told>>, batch' = <<>>,
           task' \in {"idle", "ended"}, faults' \in 0..MaxFaults,
           slipped \subseteq slipped', slipped' \subseteq told,
           task = "sent" => Head(batch) \in slipped'
    PROVE  IInv'
<1> USE DEF IInv
<1>1. Single' = Single /\ (\A m : Queued(m)' <=> Queued(m)) /\ DOMAIN batch' = {}
  BY DEF Single, Queued, tables
<1>2. TypeOK'
  BY DEF TypeOK, tables
<1>3. OneRow' /\ OneSeat' /\ DistinctEntries' /\ Fresh' /\ Known'
  BY <1>1 DEF OneRow, OneSeat, DistinctEntries, Fresh, Known, tables
<1>4. RateLimited'
  BY NumbersAssumption DEF RateLimited
<1>5. Receipts'
  BY <1>1 DEF Receipts
<1>6. HonestReceipts'
  BY DEF HonestReceipts
<1> QED BY <1>2, <1>3, <1>4, <1>5, <1>6

\* A send that fails keeps the invariant.
LEMMA SendFailsKeeps == IInv /\ SendFails => IInv'
<1> SUFFICES ASSUME IInv, SendFails PROVE IInv'
  OBVIOUS
<1>1. faults' \in 0..MaxFaults /\ slipped' = slipped /\ slipped \subseteq told
  BY NumbersAssumption DEF SendFails, IInv, TypeOK
<1> QED BY <1>1, NoBatch DEF SendFails

\* A restart, perhaps between a send and its receipt, keeps the invariant.
LEMMA RestartKeeps == IInv /\ Restart => IInv'
<1> SUFFICES ASSUME IInv, Restart PROVE IInv'
  OBVIOUS
<1>1. faults' \in 0..MaxFaults /\ slipped \subseteq told
  BY NumbersAssumption DEF Restart, IInv, TypeOK
<1>2. task = "sent" => Head(batch) \in told
  BY DEF IInv, HonestReceipts
<1>3. slipped \subseteq slipped' /\ slipped' \subseteq told /\ (task = "sent" => Head(batch) \in slipped')
  BY <1>1, <1>2 DEF Restart
<1> QED BY <1>1, <1>3, NoBatch DEF Restart

\* The loop goes on, the receipt of the last message saved or lost.
LEMMA AdvanceKeeps ==
    ASSUME IInv, task = "sent", Advance, UNCHANGED <<tables, outbox, told>>,
           faults' \in 0..MaxFaults,
           \/ sent' = sent \cup {Head(batch)} /\ slipped' = slipped
           \/ sent' = sent /\ slipped' = slipped \cup {Head(batch)}
    PROVE  IInv'
<1> USE DEF IInv
<1> DEFINE b == Tail(batch)
<1>1. batch # <<>>
  BY DEF TypeOK
<1>2. /\ 1 \in DOMAIN batch /\ Head(batch) = batch[1] /\ Head(batch) \in Ids \X Users
      /\ b \in Seq(Ids \X Users) /\ Len(b) = Len(batch) - 1 /\ Len(batch) \in Nat
      /\ \A i \in DOMAIN b : i + 1 \in DOMAIN batch /\ i \in Nat \ {0} /\ b[i] = batch[i + 1]
  BY <1>1, HeadOfBatch
<1>3. batch' = b /\ task' = IF b = <<>> THEN "idle" ELSE "sending"
  BY DEF Advance
<1> HIDE DEF b
<1>4. Single' = Single /\ \A m : Queued(m)' <=> Queued(m)
  BY DEF Single, Queued, tables
<1>5. Head(batch) \in told /\ Head(batch) \in (1..lastId) \X Users
  BY DEF HonestReceipts, Known
<1>6. TypeOK'
  <2>1. sent' \subseteq Ids \X Users /\ slipped' \subseteq told
    BY <1>2, <1>5 DEF TypeOK
  <2>2. task' \in {"idle", "sending", "sent", "ended"} /\ (task' \in {"sending", "sent"} <=> batch' # <<>>)
    BY <1>3
  <2> QED BY <1>2, <1>3, <2>1, <2>2 DEF TypeOK, tables
<1>7. RateLimited'
  BY <1>2, <1>3, NumbersAssumption DEF RateLimited
<1>8. Known'
  BY <1>2, <1>3, <1>5 DEF Known, tables
<1>9. OneRow' /\ OneSeat'
  BY <1>4 DEF OneRow, OneSeat, tables
<1>10. Receipts'
  BY <1>4 DEF Receipts
<1>11. DistinctEntries'
  <2> SUFFICES ASSUME NEW i \in DOMAIN b, NEW j \in DOMAIN b, b[i] = b[j], b[i][1] \in Single
               PROVE  i = j
    BY <1>3, <1>4 DEF DistinctEntries
  <2>1. i + 1 = j + 1
    BY <1>2 DEF DistinctEntries
  <2> QED BY <1>2, <2>1
<1>12. Fresh'
  <2> SUFFICES ASSUME NEW i \in DOMAIN b, b[i][1] \in Single, b[i] \in told
               PROVE  b[i] \in slipped
    BY <1>3, <1>4 DEF Fresh
  <2>1. i + 1 \in DOMAIN batch /\ i + 1 > 1 /\ b[i] = batch[i + 1]
    BY <1>2
  <2> QED BY <2>1 DEF Fresh
<1>13. HonestReceipts'
  BY <1>3, <1>5 DEF HonestReceipts
<1> QED BY <1>6, <1>7, <1>8, <1>9, <1>10, <1>11, <1>12, <1>13

\* Saving a receipt keeps the invariant.
LEMMA SaveReceiptKeeps == IInv /\ SaveReceipt => IInv'
<1> SUFFICES ASSUME IInv, SaveReceipt PROVE IInv'
  OBVIOUS
<1>1. faults' \in 0..MaxFaults
  BY DEF SaveReceipt, IInv, TypeOK
<1> QED BY <1>1, AdvanceKeeps DEF SaveReceipt

\* Losing a receipt keeps the invariant.
LEMMA LoseReceiptKeeps == IInv /\ LoseReceipt => IInv'
<1> SUFFICES ASSUME IInv, LoseReceipt PROVE IInv'
  OBVIOUS
<1>1. faults' \in 0..MaxFaults
  BY NumbersAssumption DEF LoseReceipt, IInv, TypeOK
<1> QED BY <1>1, AdvanceKeeps DEF LoseReceipt

\* The invariant is about the variables only.
LEMMA StutterKeeps == IInv /\ UNCHANGED vars => IInv'
<1> SUFFICES ASSUME IInv, UNCHANGED vars PROVE IInv'
  OBVIOUS
<1> USE DEF vars, tables
<1>1. Single' = Single /\ (\A m : Queued(m)' <=> Queued(m))
  BY DEF Single, Queued
<1>2. TypeOK' /\ RateLimited' /\ Known'
  BY DEF IInv, TypeOK, RateLimited, Known
<1>3. OneRow' /\ OneSeat' /\ Receipts'
  BY <1>1 DEF IInv, OneRow, OneSeat, Receipts
<1>4. DistinctEntries' /\ Fresh' /\ HonestReceipts'
  BY <1>1 DEF IInv, DistinctEntries, Fresh, HonestReceipts
<1> QED BY <1>2, <1>3, <1>4 DEF IInv

\* A message is still queued after another was, unless it was deleted.
LEMMA EnqueueLeaves ==
    ASSUME TypeOK, NEW type, NEW waiting, NEW gone, Enqueue(type, waiting, gone),
           NEW m \in DOMAIN messages, m \in DOMAIN messages', Queued(m)
    PROVE  Queued(m)'
<1> DEFINE t == OutboxWithout(gone)
<1>1. m # lastId' /\ DOMAIN messages' = (DOMAIN messages \ gone) \cup {lastId'}
  BY DEF Enqueue, TypeOK
<1>2. PICK i \in DOMAIN outbox : outbox[i].msg = m
  BY DEF Queued
<1>3. PICK j \in DOMAIN t : t[j] = outbox[i]
  BY <1>1, <1>2, OutboxRows
<1>4. t \in Seq(OutRow)
  BY OutboxRows
<1>5. outbox' = Append(t, OutboxRow(lastId', type))
  BY DEF Enqueue
<1> HIDE DEF t
<1>6. j \in DOMAIN outbox' /\ outbox'[j] = t[j]
  BY <1>4, <1>5
<1> QED BY <1>2, <1>3, <1>6 DEF Queued

\* A message that is queued stays so when a row is added.
LEMMA AppendLeaves ==
    ASSUME TypeOK, NEW row, outbox' = Append(outbox, row), NEW m, Queued(m)
    PROVE  Queued(m)'
<1>1. PICK i \in DOMAIN outbox : outbox[i].msg = m
  BY DEF Queued
<1>2. i \in DOMAIN outbox' /\ outbox'[i] = outbox[i]
  BY DEF TypeOK
<1> QED BY <1>1, <1>2 DEF Queued

\* A message that is queued stays so when a row becomes due.
LEMMA DueLeaves ==
    ASSUME TypeOK, NEW n, Due(n), NEW m, Queued(m)
    PROVE  Queued(m)'
<1>1. PICK i \in DOMAIN outbox : outbox[i].msg = m
  BY DEF Queued
<1>2. PICK k \in DOMAIN outbox : outbox' = [outbox EXCEPT ![k].due = TRUE]
  BY DEF Due
<1>3. outbox \in Seq(OutRow)
  BY DEF TypeOK, OutRow
<1>4. outbox[k] \in OutRow
  BY <1>3, SeqElement
<1> DEFINE row == [outbox[k] EXCEPT !.due = TRUE]
<1>5. row.msg = outbox[k].msg /\ outbox' = [outbox EXCEPT ![k] = row]
  BY <1>2, <1>4 DEF OutRow
<1> HIDE DEF row
<1>6. i \in DOMAIN outbox' /\ outbox'[i].msg = m
  BY <1>1, <1>3, <1>5
<1> QED BY <1>6 DEF Queued

-----------------------------------------------------------------------------
(* The theorems *)

\* The invariant holds of the empty database.
LEMMA InitIInv == Init => IInv
<1> SUFFICES ASSUME Init PROVE IInv
  OBVIOUS
<1>1. DOMAIN messages = {} /\ messages \in [{} -> Message] /\ Single = {}
  BY DEF Init, Single
<1>2. TypeOK
  BY <1>1, NumbersAssumption DEF Init, TypeOK
<1>3. RateLimited
  BY NumbersAssumption DEF Init, RateLimited
<1>4. Known /\ OneSeat /\ HonestReceipts
  BY DEF Init, Known, OneSeat, HonestReceipts
<1>5. OneRow /\ Receipts /\ DistinctEntries /\ Fresh
  BY <1>1 DEF OneRow, Receipts, DistinctEntries, Fresh, Init
<1> QED BY <1>2, <1>3, <1>4, <1>5 DEF IInv

\* The invariant is inductive: every handler, every step of the task and every
\* fault keeps it.
THEOREM MailingInvariant == Spec => []IInv
<1>1. IInv /\ [Next]_vars => IInv'
  <2> SUFFICES ASSUME IInv, [Next]_vars PROVE IInv'
    OBVIOUS
  <2>1. CASE MutateEvent
    BY <2>1, MutateEventKeeps
  <2>2. CASE DeleteEvent
    BY <2>2, DeleteEventKeeps
  <2>3. ASSUME NEW waiting \in BOOLEAN, SendDirect(waiting) PROVE IInv'
    BY <2>3, SendDirectKeeps
  <2>4. ASSUME NEW u \in Users, NEW waiting \in BOOLEAN, SignUp(u, waiting) PROVE IInv'
    BY <2>4, SignUpKeeps
  <2>5. ASSUME NEW u \in Users, GiveUp(u) PROVE IInv'
    BY <2>5, GiveUpKeeps
  <2>6. ASSUME NEW m \in Ids, Due(m) PROVE IInv'
    BY <2>6, DueKeeps
  <2>7. CASE TaskStep
    BY <2>7, CollectKeeps, SendKeeps, SendFailsKeeps, SaveReceiptKeeps, LoseReceiptKeeps
       DEF TaskStep
  <2>8. CASE CollectFails
    BY <2>8, CollectFailsKeeps
  <2>9. CASE Restart
    BY <2>9, RestartKeeps
  <2>10. CASE UNCHANGED vars
    BY <2>10, StutterKeeps
  <2> QED BY <2>1, <2>2, <2>3, <2>4, <2>5, <2>6, <2>7, <2>8, <2>9, <2>10 DEF Next
<1> QED BY InitIInv, <1>1, PTL DEF Spec

\* Every queue, batch and receipt is well-formed, and the task holds a batch
\* exactly while it sends.
THEOREM MailingTypeCorrect == Spec => []TypeOK
<1>1. IInv => TypeOK
  BY DEF IInv
<1> QED BY <1>1, MailingInvariant, PTL

\* However many messages are due, a batch keeps to the limit.
THEOREM BatchWithinLimit == Spec => []RateLimited
<1>1. IInv => RateLimited
  BY DEF IInv
<1> QED BY <1>1, MailingInvariant, PTL

\* perform_bulk_tasks sends a reminder or an administrator's message to nobody
\* twice, unless the receipt of the first time was lost.
THEOREM NobodyTwice == Spec => NotTwice
<1> DEFINE Step == \A m \in DOMAIN messages, u \in Users :
                      /\ Send /\ Head(batch) = <<m, u>> /\ messages[m].type # "prompt"
                      /\ <<m, u>> \in told
                      => <<m, u>> \in slipped
<1>1. IInv /\ [Next]_vars => Step
  <2> SUFFICES ASSUME IInv, NEW m \in DOMAIN messages, NEW u \in Users, Send,
                      Head(batch) = <<m, u>>, messages[m].type # "prompt", <<m, u>> \in told
               PROVE  <<m, u>> \in slipped
    OBVIOUS
  <2>1. task = "sending" /\ batch # <<>>
    BY DEF Send, IInv, TypeOK
  <2>2. 1 \in DOMAIN batch /\ batch[1] = <<m, u>>
    BY <2>1, HeadOfBatch DEF IInv
  <2>3. m \in Single
    BY DEF Single
  <2> QED BY <2>1, <2>2, <2>3 DEF IInv, Fresh
<1> HIDE DEF Step
<1>2. Spec => [][Step]_vars
  BY <1>1, MailingInvariant, PTL DEF Spec
<1> QED BY <1>2 DEF NotTwice, Step

\* get_pending_messages drops a message from the outbox only when everybody on
\* its list has received it, or it is a prompt with nothing to offer.
THEOREM DroppedWhenTold == Spec => DoneMeansTold
<1> DEFINE Step == \A m \in DOMAIN messages :
                      /\ Queued(m) /\ ~Queued(m)' /\ m \in DOMAIN messages'
                      /\ messages[m].type = "prompt" => HaveVacancies
                      => \A i \in DOMAIN rows : rows[i].waiting = messages[m].waiting
                                                => <<m, rows[i].user>> \in told
<1>1. IInv /\ [Next]_vars => Step
  <2> SUFFICES ASSUME IInv, [Next]_vars, NEW m \in DOMAIN messages, Queued(m), ~Queued(m)', m \in DOMAIN messages',
                      messages[m].type = "prompt" => HaveVacancies,
                      NEW i \in DOMAIN rows, rows[i].waiting = messages[m].waiting
               PROVE  <<m, rows[i].user>> \in told
    OBVIOUS
  <2>1. TypeOK /\ OneRow /\ OneSeat /\ sent \subseteq told
    BY DEF IInv, HonestReceipts
  <2>2. ASSUME NEW gone \in SUBSET Done, outbox' = OutboxWithout(gone),
               UNCHANGED <<messages, lastId>>
        PROVE  <<m, rows[i].user>> \in told
    <3>1. m \in Done
      BY <2>1, <2>2, OutboxShrinks
    <3>2. Candidates(m) = <<>>
      BY <2>1, <3>1, Collected
    <3> QED BY <2>1, <3>2, NoCandidates
  <2>3. CASE Collect
    BY <2>2, <2>3 DEF Collect, tables
  <2>4. CASE CollectFails
    <3>1. PICK gone \in SUBSET Done : outbox' = OutboxWithout(gone)
      BY <2>4 DEF CollectFails
    <3> QED BY <2>2, <2>4, <3>1 DEF CollectFails, tables
  <2>5. ~UNCHANGED outbox
    BY DEF Queued
  <2>6. ASSUME NEW type, NEW waiting, NEW gone, Enqueue(type, waiting, gone) PROVE FALSE
    BY <2>1, <2>6, EnqueueLeaves
  <2>7. ASSUME NEW row, outbox' = Append(outbox, row) PROVE FALSE
    BY <2>1, <2>7, AppendLeaves
  <2>8. ~MutateEvent /\ \A waiting \in BOOLEAN : ~SendDirect(waiting)
    BY <2>6 DEF MutateEvent, SendDirect
  <2>9. ~PromptWaitingList
    BY <2>6, <2>7 DEF PromptWaitingList
  <2>10. \A u \in Users : ~GiveUp(u)
    BY <2>5, <2>9 DEF GiveUp
  <2>11. \A n \in Ids : ~Due(n)
    BY <2>1, DueLeaves
  <2>12. /\ ~DeleteEvent /\ ~Send /\ ~SendFails /\ ~SaveReceipt /\ ~LoseReceipt /\ ~Restart
         /\ \A u \in Users, waiting \in BOOLEAN : ~SignUp(u, waiting)
    BY <2>5 DEF DeleteEvent, SignUp, Send, SendFails, SaveReceipt, LoseReceipt, Restart
  <2>13. ~UNCHANGED vars
    BY <2>5 DEF vars
  <2>14. Collect \/ CollectFails
    BY <2>8, <2>10, <2>11, <2>12, <2>13, Zenon DEF Next, TaskStep
  <2> QED BY <2>3, <2>4, <2>14
<1> HIDE DEF Step
<1>2. Spec => [][Step]_vars
  BY <1>1, MailingInvariant, PTL DEF Spec
<1> QED BY <1>2 DEF DoneMeansTold, Step

\* Row j is the first that is due and has somebody to tell.
FirstInLine(j) ==
    /\ j \in DOMAIN outbox /\ Servable(j)
    /\ \A k \in 1..(j - 1) : ~Servable(k)

\* The batch begins with the message of the first row in line; and when nobody
\* is to be told, every message that was due leaves the outbox.
ServedInOrder ==
    [][Collect =>
        /\ \A j \in DOMAIN outbox :
             FirstInLine(j) => batch' # <<>> /\ Head(batch')[1] = outbox[j].msg
        /\ batch' = <<>> =>
             \A m \in DOMAIN messages :
                (\E i \in DOMAIN outbox : outbox[i].msg = m /\ outbox[i].due)
                => ~Queued(m)']_vars

\* get_pending_messages makes progress each time it is called with a message
\* due: it serves the oldest row that has recipients left, or it deletes what
\* has none.  This is the step that EveryMessageDone rests on: no prompt and no
\* later message is put before an older one.
THEOREM OldestFirst == Spec => ServedInOrder
<1>1. ASSUME TypeOK, Collect
      PROVE  /\ \A j \in DOMAIN outbox :
                  FirstInLine(j) => batch' # <<>> /\ Head(batch')[1] = outbox[j].msg
             /\ batch' = <<>> =>
                  \A m \in DOMAIN messages :
                    (\E i \in DOMAIN outbox : outbox[i].msg = m /\ outbox[i].due)
                    => ~Queued(m)'
  <2> DEFINE acc == Pending
             n == Len(outbox)
  <2>1. FirstServed(acc, n) /\ DOMAIN outbox = 1..n /\ n \in Nat
    BY <1>1, PendingServes DEF TypeOK
  <2>2. batch' = acc.batch /\ outbox' = OutboxWithout(acc.done)
    BY <1>1 DEF Collect, Done
  <2> HIDE DEF acc, n
  <2>3. ASSUME NEW j \in DOMAIN outbox, FirstInLine(j)
        PROVE  batch' # <<>> /\ Head(batch')[1] = outbox[j].msg
    <3>1. acc.batch # <<>> /\ acc.batch[1][1] = outbox[j].msg
      BY <2>1, <2>3 DEF FirstServed, FirstInLine
    <3>2. Head(acc.batch) = acc.batch[1]
      BY DEF Head
    <3> QED BY <2>2, <3>1, <3>2
  <2>4. ASSUME batch' = <<>>, NEW m \in DOMAIN messages,
               NEW i \in DOMAIN outbox, outbox[i].msg = m, outbox[i].due
        PROVE  ~Queued(m)'
    <3>1. acc.batch = <<>> /\ Len(acc.batch) = 0
      BY <2>2, <2>4
    <3>2. acc.left # 0
      BY <2>1, <3>1, NumbersAssumption DEF FirstServed
    <3>3. ~Servable(i)
      BY <2>1, <3>1 DEF FirstServed
    <3>4. m \in acc.done
      BY <2>1, <2>4, <3>2, <3>3 DEF FirstServed
    <3> DEFINE t == OutboxWithout(acc.done)
    <3>5. \A j \in DOMAIN t : t[j].msg \notin acc.done
      BY <1>1, OutboxRows
    <3> HIDE DEF t
    <3>6. ~ \E j \in DOMAIN t : t[j].msg = m
      BY <3>4, <3>5
    <3> QED BY <2>2, <3>6 DEF Queued, t
  <2> QED BY <2>3, <2>4
<1>2. IInv /\ [Next]_vars => [Collect =>
        /\ \A j \in DOMAIN outbox :
             FirstInLine(j) => batch' # <<>> /\ Head(batch')[1] = outbox[j].msg
        /\ batch' = <<>> =>
             \A m \in DOMAIN messages :
                (\E i \in DOMAIN outbox : outbox[i].msg = m /\ outbox[i].due)
                => ~Queued(m)']_vars
  BY <1>1, Zenon DEF IInv
<1> QED BY <1>2, MailingInvariant, PTL DEF Spec, ServedInOrder
=============================================================================
