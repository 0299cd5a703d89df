--------------------------- MODULE PaymentsProofs ---------------------------
(***************************************************************************)
(* What holds of the sale of paid tickets for any users, invoices, numbers *)
(* of tickets, limits and delays.                                          *)
(***************************************************************************)
EXTENDS Payments, FiniteSetTheorems, WellFoundedInduction, TLAPS

-----------------------------------------------------------------------------
(* Ids of reservations *)

\* A finite set of numbers has a largest.
LEMMA Largest ==
    ASSUME NEW S \in SUBSET Nat, IsFiniteSet(S), S # {}
    PROVE  \E n \in S : \A m \in S : m <= n
<1> DEFINE Bad == {B \in SUBSET S : B # {} /\ ~ \E n \in B : \A m \in B : m <= n}
<1>1. IsWellFoundedOn(StrictSubsetOrdering(S), SUBSET S)
  BY FS_StrictSubsetOrderingWellFounded, FS_FiniteSubsetsOfFinite
<1>2. SUFFICES ASSUME Bad # {} PROVE FALSE
  OBVIOUS
<1>3. PICK B \in Bad : \A C \in Bad : ~ (<<C, B>> \in StrictSubsetOrdering(S))
  BY <1>1, <1>2, WFMin
<1>4. PICK x \in B : TRUE
  OBVIOUS
<1>5. B \ {x} \notin Bad
  BY <1>3, <1>4 DEF StrictSubsetOrdering
<1>6. CASE B = {x}
  <2>1. x \in Nat
    BY <1>4
  <2>2. \A m \in B : m <= x
    BY <1>6, <2>1
  <2> QED BY <1>4, <2>2
<1>7. CASE B # {x}
  <2>1. PICK n \in B \ {x} : \A m \in B \ {x} : m <= n
    BY <1>4, <1>5, <1>7
  <2>2. x \in Nat /\ n \in Nat /\ B \subseteq Nat
    OBVIOUS
  <2>3. \A m \in B : m <= (IF x <= n THEN n ELSE x)
    BY <2>1, <2>2
  <2>4. (IF x <= n THEN n ELSE x) \in B
    BY <1>4
  <2> QED BY <2>3, <2>4
<1> QED BY <1>6, <1>7

\* The ids of the rows.
Ids == {r.id : r \in rows}

\* No row has the id of a new one.
LEMMA NewIdIsNew ==
    ASSUME TypeOK
    PROVE  NewId \in Nat /\ \A r \in rows : r.id # NewId
<1>1. Ids \in SUBSET Nat
  BY DEF TypeOK, Row, Ids
<1>2. IsFiniteSet(Ids)
  <2>1. [r \in rows |-> r.id] \in Surjection(rows, Ids)
    BY DEF Surjection, Ids
  <2> QED BY <2>1, FS_Surjection DEF TypeOK
<1>3. IsFiniteSet({0} \cup Ids)
  BY <1>2, FS_Singleton, FS_Union
<1>4. PICK n \in {0} \cup Ids : \A m \in {0} \cup Ids : m <= n
  <2>1. {0} \cup Ids \in SUBSET Nat
    BY <1>1
  <2> QED BY <2>1, <1>3, Largest
<1>5. \A r \in rows : r.id <= n
  BY <1>4 DEF Ids
<1>6. LastId \in {0} \cup Ids /\ \A r \in rows : r.id <= LastId
  BY <1>4, <1>5 DEF LastId, Ids
<1>7. LastId \in Nat
  BY <1>1, <1>6
<1>8. \A r \in rows : r.id \in Nat
  BY DEF TypeOK, Row
<1> QED BY <1>6, <1>7, <1>8 DEF NewId

-----------------------------------------------------------------------------
(* Types *)

\* Rows are kept by their ids, finitely many.
RowsOK ==
    /\ rows \subseteq Row /\ IsFiniteSet(rows)
    /\ \A r, s \in rows : r.id = s.id => r = s

\* Rows stay well-formed when some are taken away.
LEMMA RowsTaken ==
    ASSUME TypeOK, rows' \subseteq rows
    PROVE  RowsOK'
BY FS_Subset DEF TypeOK, RowsOK

\* A row with a new id keeps ids unique.
LEMMA RowAdded ==
    ASSUME TypeOK, NEW r \in Row, r.id = NewId, rows' = rows \cup {r}
    PROVE  RowsOK'
<1>1. IsFiniteSet(rows')
  BY FS_AddElement DEF TypeOK
<1>2. \A s \in rows : s.id # r.id
  BY NewIdIsNew
<1> QED BY <1>1, <1>2 DEF TypeOK, RowsOK

\* Marking a reservation as paid changes no id.
LEMMA RowsPaid ==
    ASSUME TypeOK, NEW a \in Attempts
    PROVE  /\ RowsAfterPayment(a) \subseteq Row /\ IsFiniteSet(RowsAfterPayment(a))
           /\ \A r, s \in RowsAfterPayment(a) : r.id = s.id => r = s
<1> DEFINE f == [r \in rows |-> IF r.id = attempts[a].row THEN [r EXCEPT !.payment = a] ELSE r]
           T == RowsAfterPayment(a)
<1>1. f \in Surjection(rows, T)
  BY DEF Surjection, RowsAfterPayment
<1>2. IsFiniteSet(T)
  BY <1>1, FS_Surjection DEF TypeOK
<1>3. \A r \in rows : f[r] \in Row /\ f[r].id = r.id
  BY DEF TypeOK, Row
<1>4. T = {f[r] : r \in rows}
  BY DEF RowsAfterPayment
<1> HIDE DEF f, T
<1>5. T \subseteq Row
  BY <1>3, <1>4
<1>6. ASSUME NEW x \in T, NEW y \in T, x.id = y.id PROVE x = y
  <2>1. PICK r \in rows : x = f[r]
    BY <1>4
  <2>2. PICK s \in rows : y = f[s]
    BY <1>4
  <2>3. r.id = s.id
    BY <2>1, <2>2, <1>3, <1>6
  <2> QED BY <2>1, <2>2, <2>3 DEF TypeOK
<1> QED BY <1>2, <1>5, <1>6 DEF T

\* A try that only reaches another stage keeps its type.
LEMMA StageOK ==
    ASSUME TypeOK, NEW a \in Attempts, NEW stage \in Stages \ {"idle"},
           attempts[a].stage # "idle", Stage(a, stage)
    PROVE  /\ attempts' \in [Attempts -> Attempt]
           /\ \A b \in Attempts : attempts'[b].invoice = attempts[b].invoice
           /\ \A b \in Attempts : attempts'[b].payer = attempts[b].payer
           /\ \A b \in Attempts : attempts'[b].stage # "idle" => attempts[b].stage # "idle"
BY DEF Stage, TypeOK, Attempt, Over

\* After a restart a try is where it was, or its payment comes again, or is lost; what
\* it is for, who pays and when it made its reservation stay.
LEMMA AfterRestartOK ==
    ASSUME TypeOK, NEW a \in Attempts, NEW b, b = AfterRestart(a)
    PROVE  /\ b \in Attempt /\ b.invoice = attempts[a].invoice
           /\ b.payer = attempts[a].payer /\ b.since = attempts[a].since
           /\ attempts[a].again => b.again
           /\ \/ b.stage = attempts[a].stage /\ b.stage # "found"
              \/ /\ b.stage \in {"charged", "lost"}
                 /\ attempts[a].stage \in {"charged", "found", "paid", "lost"}
           /\ attempts[a].stage = "paid" => b.stage = "paid" \/ b.again
<1> DEFINE known == payments[a] = "fetched"
           again == attempts[a].again \/ (attempts[a].stage = "paid" /\ known)
           stage == IF attempts[a].stage \in {"found", "paid", "lost"} /\ known THEN "charged"
                    ELSE IF attempts[a].stage = "found"
                            \/ (attempts[a].stage = "charged" /\ payments[a] = "gone")
                         THEN "lost"
                    ELSE attempts[a].stage
<1>1. attempts[a] \in Attempt
  BY DEF TypeOK
<1>2. b = [attempts[a] EXCEPT !.row = 0, !.again = again, !.stage = stage]
  BY DEF AfterRestart
<1>3. again \in BOOLEAN
  OBVIOUS
<1>4. stage \in Stages
  BY <1>1 DEF Attempt, Stages
<1>5. \/ stage = attempts[a].stage /\ stage # "found"
      \/ stage \in {"charged", "lost"}
         /\ attempts[a].stage \in {"charged", "found", "paid", "lost"}
  OBVIOUS
<1>6. (attempts[a].again => again) /\ (attempts[a].stage = "paid" => stage = "paid" \/ again)
  OBVIOUS
<1> HIDE DEF again, stage, known
<1>7. PICK g \in BOOLEAN : g = again
  BY <1>3
<1>8. b = [stage |-> stage, invoice |-> attempts[a].invoice, payer |-> attempts[a].payer,
           row |-> 0, since |-> attempts[a].since, again |-> g]
  BY <1>1, <1>2, <1>7 DEF Attempt
<1>9. b \in Attempt
  BY <1>1, <1>4, <1>8 DEF Attempt
<1>10. /\ b.again = g /\ b.stage = stage
       /\ b.invoice = attempts[a].invoice /\ b.payer = attempts[a].payer
       /\ b.since = attempts[a].since
  BY <1>8
<1> QED BY <1>5, <1>6, <1>7, <1>9, <1>10

EventOK == event \in [live : BOOLEAN, open : BOOLEAN, max : Limits]
InvoicesOK == DOMAIN invoices \subseteq Invoices /\ invoices \in [DOMAIN invoices -> Invoice]
AttemptsOK ==
    /\ attempts \in [Attempts -> Attempt]
    /\ \A a \in Attempts : attempts[a].stage # "idle" => attempts[a].invoice \in DOMAIN invoices
PaymentsOK == payments \in [Attempts -> Delivery]

\* TypeOK by variable.
LEMMA TypeParts ==
    TypeOK <=> now \in Nat /\ EventOK /\ RowsOK /\ InvoicesOK /\ AttemptsOK /\ PaymentsOK
BY DEF TypeOK, EventOK, RowsOK, InvoicesOK, AttemptsOK, PaymentsOK

\* Every variable keeps its type, and no two reservations have one id, although
\* ids of deleted ones are given again.
THEOREM PaymentsTypeCorrect == Spec => []TypeOK
<1> USE NumbersAssumption, InvoicesAssumption, UsersAssumption
<1>1. Init => TypeOK
  <2> SUFFICES ASSUME Init PROVE TypeOK
    OBVIOUS
  <2>1. RowsOK
    BY FS_EmptySet DEF Init, RowsOK
  <2>2. AttemptsOK
    BY DEF Init, AttemptsOK, Attempt, Stages
  <2>3. InvoicesOK
    BY DEF Init, InvoicesOK
  <2>4. EventOK
    BY DEF Init, EventOK
  <2>5. PaymentsOK
    BY DEF Init, PaymentsOK, Delivery
  <2> QED BY <2>1, <2>2, <2>3, <2>4, <2>5, TypeParts DEF Init
<1>2. TypeOK /\ [Next]_vars => TypeOK'
  <2> SUFFICES ASSUME TypeOK, [Next]_vars PROVE TypeOK'
    OBVIOUS
  <2>0. now \in Nat /\ EventOK /\ RowsOK /\ InvoicesOK /\ AttemptsOK /\ PaymentsOK
    BY TypeParts
  <2>a. now' \in Nat /\ EventOK' /\ RowsOK' /\ InvoicesOK' /\ AttemptsOK' /\ PaymentsOK'
        => TypeOK'
    BY DEF TypeOK, EventOK, RowsOK, InvoicesOK, AttemptsOK, PaymentsOK
  <2>b. UNCHANGED rows => RowsOK'
    BY <2>0 DEF RowsOK
  <2>c. UNCHANGED invoices => InvoicesOK'
    BY <2>0 DEF InvoicesOK
  <2>d. UNCHANGED <<invoices, attempts>> => AttemptsOK'
    BY <2>0 DEF AttemptsOK
  <2>e. UNCHANGED event => EventOK'
    BY <2>0 DEF EventOK
  <2>g. UNCHANGED payments => PaymentsOK'
    BY <2>0 DEF PaymentsOK
  <2>f. ASSUME NEW a \in Attempts, attempts[a].stage # "idle", UNCHANGED invoices,
               NEW stage \in Stages \ {"idle"}, Stage(a, stage)
        PROVE  AttemptsOK'
    BY <2>0, <2>f, StageOK DEF AttemptsOK
  <2>1. ASSUME NEW i \in Invoices, NEW u \in Users, NEW n \in SeatNumbers, PrepareInvoice(i, u, n)
        PROVE  TypeOK'
    <3>1. InvoicesOK' /\ DOMAIN invoices \subseteq DOMAIN invoices'
      BY <2>0, <2>1 DEF PrepareInvoice, InvoicesOK, Invoice
    <3>2. AttemptsOK'
      BY <2>0, <2>1, <3>1 DEF PrepareInvoice, AttemptsOK
    <3> QED BY <2>0, <2>a, <2>g, <2>b, <2>e, <2>1, <3>1, <3>2 DEF PrepareInvoice
  <2>2. ASSUME NEW a \in Attempts, NEW i \in Invoices, NEW p \in Users, Ask(a, i, p) PROVE TypeOK'
    <3>1. AttemptsOK'
      BY <2>0, <2>2 DEF Ask, AttemptsOK, Attempt, Stages
    <3> QED BY <2>0, <2>a, <2>g, <2>b, <2>c, <2>e, <2>2, <3>1 DEF Ask
  <2>3. ASSUME NEW a \in Attempts, PreCheckout(a) PROVE TypeOK'
    <3>1. /\ attempts[a].stage = "asked" /\ Reserve(a)
          /\ UNCHANGED <<now, event, invoices, payments>>
          /\ attempts[a].payer \in Users /\ InvoiceOf(a).seats \in SeatNumbers
      BY <2>0, <2>3 DEF PreCheckout, InvoiceOf, AttemptsOK, InvoicesOK, Attempt, Invoice
    <3> DEFINE new == [id |-> NewId, user |-> attempts[a].payer, seats |-> InvoiceOf(a).seats,
                       ts |-> now, payment |-> Unpaid]
    <3>2. new \in Row /\ new.id = NewId
      BY <2>0, <3>1, NewIdIsNew DEF Row
    <3>3. rows' = rows \cup {new} \/ UNCHANGED rows
      BY <3>1 DEF Reserve
    <3> HIDE DEF new
    <3>4. RowsOK'
      BY <3>2, <3>3, RowAdded, <2>b
    <3>5. \/ Stage(a, "refused") \/ Stage(a, "approved")
          \/ attempts' = [attempts EXCEPT ![a].stage = "approved", ![a].since = now]
      BY <3>1 DEF Reserve
    <3>6. AttemptsOK'
      <4>1. CASE Stage(a, "refused") \/ Stage(a, "approved")
        BY <2>f, <3>1, <4>1 DEF Stages
      <4>2. CASE attempts' = [attempts EXCEPT ![a].stage = "approved", ![a].since = now]
        <5>1. [attempts[a] EXCEPT !.stage = "approved", !.since = now] \in Attempt
          BY <2>0 DEF AttemptsOK, Attempt, Stages
        <5> QED BY <2>0, <3>1, <4>2, <5>1 DEF AttemptsOK, Attempt
      <4> QED BY <3>5, <4>1, <4>2
    <3> QED BY <2>0, <2>a, <2>g, <2>c, <2>e, <3>1, <3>4, <3>6
  <2>4. ASSUME NEW a \in Attempts, Refuse(a) \/ Charge(a) PROVE TypeOK'
    <3>1. AttemptsOK'
      BY <2>f, <2>4 DEF Refuse, Charge, Stages
    <3>2. PaymentsOK'
      BY <2>0, <2>4 DEF Refuse, Charge, PaymentsOK, Delivery
    <3> QED BY <2>0, <2>a, <2>b, <2>c, <2>e, <2>4, <3>1, <3>2 DEF Refuse, Charge
  <2>5. ASSUME NEW a \in Attempts, CheckoutFind(a) PROVE TypeOK'
    <3>1. CASE Stage(a, "lost")
      <4>1. AttemptsOK'
        BY <2>f, <2>5, <3>1 DEF CheckoutFind, StartCheckout, Stages
      <4> QED BY <2>0, <2>a, <2>g, <2>b, <2>c, <2>e, <2>5, <4>1 DEF CheckoutFind
    <3>2. CASE \E r \in Pending(a) :
                  attempts' = [attempts EXCEPT ![a].stage = "found", ![a].row = r.id]
      <4>1. \A r \in rows : r.id \in Nat
        BY <2>0 DEF RowsOK, Row
      <4>2. AttemptsOK'
        <5>1. PICK r \in rows :
                attempts' = [attempts EXCEPT ![a].stage = "found", ![a].row = r.id]
          BY <3>2 DEF Pending
        <5>2. attempts[a].stage = "charged"
          BY <2>5 DEF CheckoutFind, StartCheckout
        <5>3. UNCHANGED invoices
          BY <2>5 DEF CheckoutFind
        <5>4. [attempts[a] EXCEPT !.stage = "found", !.row = r.id] \in Attempt
          BY <2>0, <4>1 DEF AttemptsOK, Attempt, Stages
        <5> QED BY <2>0, <4>1, <5>1, <5>2, <5>3, <5>4 DEF AttemptsOK, Attempt
      <4> QED BY <2>0, <2>a, <2>g, <2>b, <2>c, <2>e, <2>5, <4>2 DEF CheckoutFind
    <3> QED BY <2>5, <3>1, <3>2 DEF CheckoutFind
  <2>6. ASSUME NEW a \in Attempts, CheckoutUpdate(a) PROVE TypeOK'
    <3>1. RowsOK'
      BY <2>6, RowsPaid DEF CheckoutUpdate, RowsOK
    <3>2. AttemptsOK'
      <4>1. /\ attempts' = [attempts EXCEPT ![a].stage = "paid", ![a].row = 0, ![a].since = -1]
            /\ attempts[a].stage = "found" /\ UNCHANGED invoices
        BY <2>6 DEF CheckoutUpdate
      <4>2. [attempts[a] EXCEPT !.stage = "paid", !.row = 0, !.since = -1] \in Attempt
        BY <2>0 DEF AttemptsOK, Attempt, Stages
      <4> QED BY <2>0, <4>1, <4>2 DEF AttemptsOK, Attempt
    <3> QED BY <2>0, <2>a, <2>g, <2>c, <2>e, <2>6, <3>1, <3>2 DEF CheckoutUpdate
  <2>7. CASE ClearFailedPayments
    <3>1. RowsOK'
      BY <2>7, RowsTaken DEF ClearFailedPayments
    <3> QED BY <2>0, <2>a, <2>g, <2>c, <2>d, <2>e, <2>7, <3>1 DEF ClearFailedPayments
  <2>8. CASE Restart
    <3>1. /\ attempts' \in [Attempts -> Attempt]
          /\ \A a \in Attempts :
                /\ attempts'[a].invoice = attempts[a].invoice
                /\ attempts'[a].stage # "idle" => attempts[a].stage # "idle"
      <4>1. attempts' = [a \in Attempts |-> AfterRestart(a)]
        BY <2>8 DEF Restart
      <4>2. \A a \in Attempts :
              /\ AfterRestart(a) \in Attempt /\ AfterRestart(a).invoice = attempts[a].invoice
              /\ AfterRestart(a).stage # "idle" => attempts[a].stage # "idle"
        <5> SUFFICES ASSUME NEW a \in Attempts
                     PROVE  LET b == AfterRestart(a)
                            IN  /\ b \in Attempt /\ b.invoice = attempts[a].invoice
                                /\ b.stage # "idle" => attempts[a].stage # "idle"
          OBVIOUS
        <5> DEFINE b == AfterRestart(a)
        <5> HIDE DEF b
        <5>1. b = AfterRestart(a)
          BY DEF b
        <5> QED BY <5>1, AfterRestartOK
      <4> QED BY <4>1, <4>2
    <3>2. AttemptsOK'
      BY <2>0, <2>8, <3>1 DEF Restart, AttemptsOK
    <3>3. PaymentsOK'
      BY <2>0, <2>8 DEF Restart, PaymentsOK, Delivery
    <3> QED BY <2>0, <2>a, <2>b, <2>c, <2>e, <2>8, <3>2, <3>3 DEF Restart
  <2>9. CASE DeleteEvent
    <3>1. RowsOK'
      BY <2>9, RowsTaken DEF DeleteEvent
    <3>2. EventOK'
      BY <2>0, <2>9 DEF DeleteEvent, EventOK
    <3> QED BY <2>0, <2>a, <2>g, <2>c, <2>d, <2>9, <3>1, <3>2 DEF DeleteEvent
  <2>10. CASE ChangeEvent
    <3>1. EventOK'
      BY <2>0, <2>10 DEF ChangeEvent, EventOK
    <3> QED BY <2>0, <2>a, <2>g, <2>b, <2>c, <2>d, <2>10, <3>1 DEF ChangeEvent
  <2>11. ASSUME NEW u \in Users, TakeAway(u) \/ Cancel(u, 0) \/ Cancel(u, 1) PROVE TypeOK'
    <3>1. RowsOK'
      BY <2>11, RowsTaken DEF TakeAway, Cancel
    <3>2. AttemptsOK'
      BY <2>0, <2>11 DEF TakeAway, Cancel, Forget, AttemptsOK, Attempt
    <3> QED BY <2>0, <2>a, <2>g, <2>c, <2>e, <2>11, <3>1, <3>2 DEF TakeAway, Cancel
  <2>12. ASSUME NEW u \in Users, SignUpChild(u) PROVE TypeOK'
    <3> DEFINE new == [id |-> NewId, user |-> u, seats |-> 0, ts |-> now, payment |-> Unpaid]
    <3>1. new \in Row /\ new.id = NewId
      BY <2>0, NewIdIsNew DEF Row
    <3>2. rows' = rows \cup {new}
      BY <2>12 DEF SignUpChild
    <3> HIDE DEF new
    <3>3. RowsOK'
      BY <3>1, <3>2, RowAdded
    <3> QED BY <2>0, <2>a, <2>g, <2>c, <2>d, <2>e, <2>12, <3>3 DEF SignUpChild
  <2>13. CASE Tick
    BY <2>0, <2>a, <2>g, <2>b, <2>c, <2>d, <2>e, <2>13 DEF Tick
  <2>14. ASSUME NEW a \in Attempts, CheckoutFails(a) PROVE TypeOK'
    <3>1. /\ attempts' = [attempts EXCEPT ![a].stage = "lost", ![a].row = 0]
          /\ attempts[a].stage \in {"charged", "found"} /\ UNCHANGED invoices
      BY <2>14 DEF CheckoutFails, StartCheckout
    <3>2. [attempts[a] EXCEPT !.stage = "lost", !.row = 0] \in Attempt
      BY <2>0 DEF AttemptsOK, Attempt, Stages
    <3>3. AttemptsOK'
      BY <2>0, <3>1, <3>2 DEF AttemptsOK, Attempt
    <3> QED BY <2>0, <2>a, <2>g, <2>b, <2>c, <2>e, <2>14, <3>3 DEF CheckoutFails
  <2>15. CASE GetUpdates
    <3>1. PaymentsOK'
      BY <2>0, <2>15 DEF GetUpdates, PaymentsOK, Delivery
    <3> QED BY <2>0, <2>a, <2>b, <2>c, <2>d, <2>e, <2>15, <3>1 DEF GetUpdates
  <2>16. CASE UNCHANGED vars
    BY <2>0, <2>a, <2>g, <2>b, <2>c, <2>d, <2>e, <2>16 DEF vars
  <2> QED BY <2>1, <2>2, <2>3, <2>4, <2>5, <2>6, <2>7, <2>8, <2>9, <2>10, <2>11, <2>12,
             <2>13, <2>14, <2>15, <2>16 DEF Next
<1> QED BY <1>1, <1>2, PTL DEF Spec

-----------------------------------------------------------------------------
(* Paid reservations *)

\* What is paid for stays: the expiry of unpaid reservations never takes a paid
\* one, however it falls between the two statements of checkout.
THEOREM PaidStay == Spec => PaidRowsStay
<1>1. TypeOK /\ [Next]_vars =>
        [\A r \in rows : Paid(r) =>
            \/ \E s \in rows' : s.id = r.id /\ s.user = r.user /\ Paid(s)
            \/ DeleteEvent
            \/ TakeAway(r.user)
            \/ r.seats \in {0, 1} /\ Cancel(r.user, r.seats)]_vars
  <2> DEFINE Kept(r) == \E s \in rows' : s.id = r.id /\ s.user = r.user /\ Paid(s)
  <2> SUFFICES ASSUME TypeOK, [Next]_vars, NEW r \in rows, Paid(r)
               PROVE  \/ Kept(r) \/ DeleteEvent \/ TakeAway(r.user)
                      \/ r.seats \in {0, 1} /\ Cancel(r.user, r.seats)
    OBVIOUS
  <2>0. ASSUME r \in rows' PROVE Kept(r)
    BY <2>0
  <2> HIDE DEF Kept
  <2>1. ASSUME NEW a \in Attempts, PreCheckout(a) PROVE r \in rows'
    BY <2>1 DEF PreCheckout, Reserve
  <2>2. ASSUME NEW a \in Attempts, CheckoutUpdate(a) PROVE Kept(r)
    <3>1. rows' = RowsAfterPayment(a)
      BY <2>2 DEF CheckoutUpdate
    <3>2. CASE r.id = attempts[a].row
      <4>1. [r EXCEPT !.payment = a] \in rows'
        BY <3>1, <3>2 DEF RowsAfterPayment
      <4>2. LET s == [r EXCEPT !.payment = a] IN s.id = r.id /\ s.user = r.user /\ Paid(s)
        BY InvoicesAssumption DEF TypeOK, Row, Paid
      <4> QED BY <4>1, <4>2 DEF Kept
    <3>3. CASE r.id # attempts[a].row
      BY <2>0, <3>1, <3>3 DEF RowsAfterPayment
    <3> QED BY <3>2, <3>3
  <2>3. CASE ClearFailedPayments
    BY <2>0, <2>3 DEF ClearFailedPayments, Overdue
  <2>4. ASSUME NEW u \in Users, TakeAway(u) PROVE r \in rows' \/ TakeAway(r.user)
    BY <2>4 DEF TakeAway
  <2>5. ASSUME NEW u \in Users, NEW seats \in {0, 1}, Cancel(u, seats)
        PROVE  r \in rows' \/ (r.seats \in {0, 1} /\ Cancel(r.user, r.seats))
    BY <2>5 DEF Cancel, Of
  <2>6. ASSUME NEW u \in Users, SignUpChild(u) PROVE r \in rows'
    BY <2>6 DEF SignUpChild
  <2>7. ASSUME NEW i \in Invoices, NEW u \in Users, NEW n \in SeatNumbers, PrepareInvoice(i, u, n)
        PROVE  rows' = rows
    BY <2>7 DEF PrepareInvoice
  <2>8. ASSUME NEW a \in Attempts, NEW i \in Invoices, NEW p \in Users, Ask(a, i, p)
        PROVE  rows' = rows
    BY <2>8 DEF Ask
  <2>9. ASSUME NEW a \in Attempts,
               Refuse(a) \/ Charge(a) \/ CheckoutFind(a) \/ CheckoutFails(a)
        PROVE  rows' = rows
    BY <2>9 DEF Refuse, Charge, CheckoutFind, CheckoutFails
  <2>10. GetUpdates \/ Restart \/ ChangeEvent \/ Tick \/ UNCHANGED vars => rows' = rows
    BY DEF GetUpdates, Restart, ChangeEvent, Tick, vars
  <2> QED BY <2>0, <2>1, <2>2, <2>3, <2>4, <2>5, <2>6, <2>7, <2>8, <2>9, <2>10 DEF Next
<1> QED BY <1>1, PaymentsTypeCorrect, PTL DEF Spec, PaidRowsStay

\* What was stored, now or in an earlier delivery, was delivered.
Settled(a) == attempts[a].stage = "paid" \/ attempts[a].again
PaidOnce == \A r \in rows : Paid(r) => Settled(r.payment)

\* Steps other than the second half of checkout pay for no row, and what is settled
\* stays so.
LEMMA OthersPayNone ==
    ASSUME TypeOK, [Next]_vars, \A a \in Attempts : ~CheckoutUpdate(a)
    PROVE  /\ \A r \in rows' : Paid(r) => r \in rows
           /\ \A a \in Attempts : /\ attempts[a].again => attempts'[a].again
                                  /\ Settled(a) => Settled(a)'
<1> DEFINE Old == \A r \in rows' : Paid(r) => r \in rows
           Kept(a) == /\ attempts[a].again => attempts'[a].again
                      /\ Settled(a) => attempts'[a].stage = "paid" \/ attempts'[a].again
           Same == \A a \in Attempts : Kept(a)
<1>0. attempts \in [Attempts -> Attempt]
  BY DEF TypeOK
<1>a. rows' \subseteq rows => Old
  OBVIOUS
<1>b. ASSUME NEW a \in Attempts, attempts'[a].again = attempts[a].again,
             attempts[a].stage = "paid" => attempts'[a].stage = "paid"
      PROVE  Kept(a)
  BY <1>b DEF Settled
<1>c. ASSUME NEW r \in rows', ~Paid(r), rows' \subseteq rows \cup {r} PROVE Old
  BY <1>c
<1> HIDE DEF Old, Kept
<1>d. UNCHANGED attempts => Same
  BY <1>b
<1>e. ASSUME NEW a \in Attempts, NEW stage, Stage(a, stage), attempts[a].stage # "paid" PROVE Same
  <2> TAKE b \in Attempts
  <2>1. /\ attempts'[b].again = attempts[b].again
        /\ b # a => attempts'[b].stage = attempts[b].stage
    BY <1>0, <1>e DEF Stage, Attempt
  <2> QED BY <1>b, <1>e, <2>1
<1>1. ASSUME NEW a \in Attempts, PreCheckout(a) PROVE Old /\ Same
  <2> DEFINE new == [id |-> NewId, user |-> attempts[a].payer, seats |-> InvoiceOf(a).seats,
                     ts |-> now, payment |-> Unpaid]
  <2>1. attempts[a].stage = "asked" /\ Reserve(a)
    BY <1>1 DEF PreCheckout
  <2>2. ~Paid(new)
    BY DEF Paid
  <2>3. rows' = rows \cup {new} \/ UNCHANGED rows
    BY <2>1 DEF Reserve
  <2> HIDE DEF new
  <2>4. Old
    BY <1>a, <1>c, <2>2, <2>3
  <2>5. \/ Stage(a, "refused") \/ Stage(a, "approved")
        \/ attempts' = [attempts EXCEPT ![a].stage = "approved", ![a].since = now]
    BY <2>1 DEF Reserve
  <2>6. ASSUME attempts' = [attempts EXCEPT ![a].stage = "approved", ![a].since = now] PROVE Same
    <3> TAKE b \in Attempts
    <3>1. /\ attempts'[b].again = attempts[b].again
          /\ b # a => attempts'[b].stage = attempts[b].stage
      BY <1>0, <2>6 DEF Attempt
    <3> QED BY <1>b, <2>1, <3>1
  <2> QED BY <1>e, <2>1, <2>4, <2>5, <2>6
<1>2. ASSUME NEW i \in Invoices, NEW u \in Users, NEW n \in SeatNumbers, PrepareInvoice(i, u, n)
      PROVE  Old /\ Same
  BY <1>2, <1>a, <1>d DEF PrepareInvoice
<1>3. ASSUME NEW a \in Attempts, NEW i \in Invoices, NEW p \in Users, Ask(a, i, p)
      PROVE  Old /\ Same
  <2>1. Same
    <3> TAKE b \in Attempts
    <3>1. /\ attempts'[b].again = attempts[b].again
          /\ b # a => attempts'[b].stage = attempts[b].stage
      BY <1>0, <1>3 DEF Ask, Attempt
    <3> QED BY <1>b, <1>3, <3>1 DEF Ask
  <2> QED BY <1>3, <1>a, <2>1 DEF Ask
<1>4. ASSUME NEW a \in Attempts, Refuse(a) \/ Charge(a) PROVE Old /\ Same
  BY <1>4, <1>a, <1>e DEF Refuse, Charge
<1>5. ASSUME NEW a \in Attempts, CheckoutFind(a) PROVE Old /\ Same
  <2>1. attempts[a].stage = "charged" /\ rows' = rows
    BY <1>5 DEF CheckoutFind, StartCheckout
  <2>2. ASSUME NEW r \in Pending(a),
               attempts' = [attempts EXCEPT ![a].stage = "found", ![a].row = r.id]
        PROVE  Same
    <3> TAKE b \in Attempts
    <3>1. /\ attempts'[b].again = attempts[b].again
          /\ b # a => attempts'[b].stage = attempts[b].stage
      BY <1>0, <2>2 DEF Attempt
    <3> QED BY <1>b, <2>1, <3>1
  <2> QED BY <1>5, <1>a, <1>e, <2>1, <2>2 DEF CheckoutFind
<1>6. ASSUME NEW a \in Attempts, CheckoutFails(a) PROVE Old /\ Same
  <2>1. /\ attempts[a].stage \in {"charged", "found"} /\ rows' = rows
        /\ attempts' = [attempts EXCEPT ![a].stage = "lost", ![a].row = 0]
    BY <1>6 DEF CheckoutFails, StartCheckout
  <2>2. Same
    <3> TAKE b \in Attempts
    <3>1. /\ attempts'[b].again = attempts[b].again
          /\ b # a => attempts'[b].stage = attempts[b].stage
      BY <1>0, <2>1 DEF Attempt
    <3> QED BY <1>b, <2>1, <3>1
  <2> QED BY <1>a, <2>1, <2>2
<1>7. ASSUME Restart PROVE Old /\ Same
  <2>1. rows' = rows /\ attempts' = [a \in Attempts |-> AfterRestart(a)]
    BY <1>7 DEF Restart
  <2>2. Same
    <3> TAKE a \in Attempts
    <3>1. attempts'[a] = AfterRestart(a)
      BY <2>1
    <3>2. /\ attempts[a].again => attempts'[a].again
          /\ attempts[a].stage = "paid" => attempts'[a].stage = "paid" \/ attempts'[a].again
      BY <3>1, AfterRestartOK
    <3> QED BY <3>2 DEF Kept, Settled
  <2> QED BY <1>a, <2>1, <2>2
<1>8. ASSUME ClearFailedPayments \/ DeleteEvent PROVE Old /\ Same
  BY <1>8, <1>a, <1>d DEF ClearFailedPayments, DeleteEvent
<1>9. ASSUME NEW u \in Users, TakeAway(u) \/ Cancel(u, 0) \/ Cancel(u, 1) PROVE Old /\ Same
  <2>1. rows' \subseteq rows /\ Forget(u)
    BY <1>9 DEF TakeAway, Cancel
  <2>2. Same
    <3> TAKE a \in Attempts
    <3>1. attempts'[a].again = attempts[a].again /\ attempts'[a].stage = attempts[a].stage
      BY <1>0, <2>1 DEF Forget, Attempt
    <3> QED BY <1>b, <3>1
  <2> QED BY <1>a, <2>1, <2>2
<1>10. ASSUME NEW u \in Users, SignUpChild(u) PROVE Old /\ Same
  <2> DEFINE new == [id |-> NewId, user |-> u, seats |-> 0, ts |-> now, payment |-> Unpaid]
  <2>1. ~Paid(new)
    BY DEF Paid
  <2>2. rows' = rows \cup {new} /\ UNCHANGED attempts
    BY <1>10 DEF SignUpChild
  <2> HIDE DEF new
  <2> QED BY <1>c, <1>d, <2>1, <2>2
<1>11. ASSUME GetUpdates \/ ChangeEvent \/ Tick \/ UNCHANGED vars PROVE Old /\ Same
  BY <1>11, <1>a, <1>d DEF GetUpdates, ChangeEvent, Tick, vars
<1>12. Old /\ Same
  BY <1>1, <1>2, <1>3, <1>4, <1>5, <1>6, <1>7, <1>8, <1>9, <1>10, <1>11 DEF Next
<1> QED BY <1>12 DEF Old, Kept, Settled

\* A payment that has made one ticket is settled, and only one that is not settled is
\* looked at; so it makes a second one only when it comes again after a restart.  The
\* row is marked by its id, and no two rows have one id.
THEOREM TicketsWerePaid == Spec => []OneTicketPerCharge
<1>1. Init => PaidOnce /\ OneTicketPerCharge
  BY DEF Init, PaidOnce, OneTicketPerCharge
<1>2. TypeOK /\ TypeOK' /\ PaidOnce /\ OneTicketPerCharge /\ [Next]_vars
      => PaidOnce' /\ OneTicketPerCharge'
  <2> SUFFICES ASSUME TypeOK, TypeOK', PaidOnce, OneTicketPerCharge, [Next]_vars
               PROVE  PaidOnce' /\ OneTicketPerCharge'
    OBVIOUS
  <2>0. \A r \in rows : Paid(r) => r.payment \in Attempts
    BY DEF TypeOK, Row, Paid
  <2>1. CASE \A a \in Attempts : ~CheckoutUpdate(a)
    <3>1. \A r \in rows' : Paid(r) => r \in rows
      BY <2>1, OthersPayNone
    <3>2. \A r \in rows' : Paid(r) => r.payment \in Attempts
      BY <2>0, <3>1
    <3>3. \A a \in Attempts : /\ attempts[a].again => attempts'[a].again
                              /\ Settled(a) => Settled(a)'
      BY <2>1, OthersPayNone
    <3>4. PaidOnce'
      <4> SUFFICES ASSUME NEW r \in rows', Paid(r) PROVE Settled(r.payment)'
        BY DEF PaidOnce
      <4>1. Settled(r.payment)
        BY <3>1 DEF PaidOnce
      <4> QED BY <3>2, <3>3, <4>1
    <3>5. OneTicketPerCharge'
      <4> SUFFICES ASSUME NEW r \in rows', NEW s \in rows', Paid(r), r.payment = s.payment, r # s
                   PROVE  attempts'[r.payment].again
        BY DEF OneTicketPerCharge
      <4>1. Paid(s)
        BY DEF Paid
      <4>2. attempts[r.payment].again
        BY <3>1, <4>1 DEF OneTicketPerCharge
      <4> QED BY <3>2, <3>3, <4>2
    <3> QED BY <3>4, <3>5
  <2>2. ASSUME NEW a \in Attempts, CheckoutUpdate(a) PROVE PaidOnce' /\ OneTicketPerCharge'
    <3>1. /\ attempts[a].stage = "found" /\ rows' = RowsAfterPayment(a)
          /\ attempts' = [attempts EXCEPT ![a].stage = "paid", ![a].row = 0, ![a].since = -1]
      BY <2>2 DEF CheckoutUpdate
    <3>2. /\ \A b \in Attempts : attempts'[b].again = attempts[b].again
          /\ \A b \in Attempts : b # a => attempts'[b].stage = attempts[b].stage
          /\ attempts'[a].stage = "paid"
      BY <3>1 DEF TypeOK, Attempt
    <3>3. ASSUME NEW r \in rows', r.payment # a PROVE r \in rows
      <4>1. PICK s \in rows : r = IF s.id = attempts[a].row THEN [s EXCEPT !.payment = a] ELSE s
        BY <3>1 DEF RowsAfterPayment
      <4>2. [s EXCEPT !.payment = a].payment = a
        BY DEF TypeOK, Row
      <4> QED BY <3>3, <4>1, <4>2
    <3>4. ASSUME NEW r \in rows', r.payment = a, r.id # attempts[a].row PROVE r \in rows
      <4>1. PICK s \in rows : r = IF s.id = attempts[a].row THEN [s EXCEPT !.payment = a] ELSE s
        BY <3>1 DEF RowsAfterPayment
      <4>2. [s EXCEPT !.payment = a].id = s.id
        BY DEF TypeOK, Row
      <4> QED BY <3>4, <4>1, <4>2
    <3>5. PaidOnce'
      <4> SUFFICES ASSUME NEW r \in rows', Paid(r) PROVE Settled(r.payment)'
        BY DEF PaidOnce
      <4>1. CASE r.payment = a
        BY <3>2, <4>1 DEF Settled
      <4>2. CASE r.payment # a
        <5>1. r \in rows /\ Settled(r.payment)
          BY <3>3, <4>2 DEF PaidOnce
        <5> QED BY <2>0, <3>2, <4>2, <5>1 DEF Settled
      <4> QED BY <4>1, <4>2
    <3>6. OneTicketPerCharge'
      <4> SUFFICES ASSUME NEW r \in rows', NEW s \in rows', Paid(r), r.payment = s.payment, r # s
                   PROVE  attempts'[r.payment].again
        BY DEF OneTicketPerCharge
      <4>0. Paid(s)
        BY DEF Paid
      <4>1. CASE r.payment # a
        <5>1. r \in rows /\ s \in rows
          BY <3>3, <4>1
        <5>2. attempts[r.payment].again
          BY <5>1 DEF OneTicketPerCharge
        <5> QED BY <2>0, <3>2, <5>1, <5>2
      <4>2. CASE r.payment = a
        <5>1. r.id # s.id
          BY DEF TypeOK
        <5>2. PICK x \in {r, s} : x.id # attempts[a].row
          BY <5>1
        <5>3. x \in rows /\ Paid(x) /\ x.payment = a
          BY <3>4, <4>0, <4>2, <5>2
        <5>4. attempts[a].again
          BY <3>1, <5>3 DEF PaidOnce, Settled
        <5> QED BY <3>2, <4>2, <5>4
      <4> QED BY <4>1, <4>2
    <3> QED BY <3>5, <3>6
  <2> QED BY <2>1, <2>2
<1> QED BY <1>1, <1>2, PaymentsTypeCorrect, PTL DEF Spec

-----------------------------------------------------------------------------
(* Counting tickets *)

\* A row has a number of seats.
LEMMA RowSeats ==
    ASSUME NEW r \in Row
    PROVE  r.seats \in Nat
<1>1. CASE r.seats = 0
  BY <1>1
<1>2. CASE r.seats # 0
  <2>1. r.seats \in SeatNumbers
    BY <1>2 DEF Row
  <2>2. \A n \in SeatNumbers : n \in Nat
    BY NumbersAssumption
  <2> QED BY <2>1, <2>2
<1> QED BY <1>1, <1>2

\* The seats of finitely many rows can be counted.
LEMMA SeatsFinite ==
    ASSUME NEW R \in SUBSET Row, IsFiniteSet(R)
    PROVE  IsFiniteSet(SeatsIn(R))
<1> DEFINE T == {{r.id} \X (1..r.seats) : r \in R}
           f == [r \in R |-> {r.id} \X (1..r.seats)]
<1>1. f \in Surjection(R, T)
  BY DEF Surjection
<1>2. IsFiniteSet(T)
  BY <1>1, FS_Surjection
<1>3. ASSUME NEW X \in T PROVE IsFiniteSet(X)
  <2>1. PICK r \in R : X = {r.id} \X (1..r.seats)
    OBVIOUS
  <2>2. r.seats \in Int
    BY RowSeats
  <2>3. IsFiniteSet(1..r.seats)
    BY <2>2, FS_Interval
  <2>4. IsFiniteSet({r.id})
    BY FS_Singleton
  <2> HIDE DEF T
  <2>5. IsFiniteSet({r.id} \X (1..r.seats))
    BY <2>3, <2>4, FS_Product
  <2> QED BY <2>1, <2>5
<1>4. IsFiniteSet(UNION T)
  BY <1>2, <1>3, FS_UNION
<1> QED BY <1>4 DEF SeatsIn

\* Rows that are gone hold no seats.
LEMMA SeatsMonotone ==
    ASSUME TypeOK, rows' \subseteq rows
    PROVE  SeatCount(rows') <= SeatCount(rows) /\ SeatCount(rows') \in Nat /\ SeatCount(rows) \in Nat
<1>1. IsFiniteSet(SeatsIn(rows))
  BY SeatsFinite DEF TypeOK
<1>2. SeatsIn(rows') \subseteq SeatsIn(rows)
  BY DEF SeatsIn
<1> HIDE DEF TypeOK
<1> QED BY <1>1, <1>2, FS_Subset, FS_CardinalityType DEF SeatCount

\* One more row holds at most its own seats more.
LEMMA SeatsAdded ==
    ASSUME TypeOK, NEW r \in Row, rows' = rows \cup {r}
    PROVE  /\ SeatCount(rows) \in Nat /\ SeatCount(rows') \in Nat
           /\ SeatCount(rows') <= SeatCount(rows) + r.seats
<1> DEFINE X == SeatsIn(rows)
           Y == {r.id} \X (1..r.seats)
<1>1. SeatsIn(rows') = X \cup Y
  BY DEF SeatsIn
<1>2. IsFiniteSet(X)
  BY SeatsFinite DEF TypeOK
<1>3. r.seats \in Nat
  BY RowSeats
<1>4. IsFiniteSet(1..r.seats) /\ Cardinality(1..r.seats) = r.seats
  <2>1. 1 \in Int /\ r.seats \in Int
    BY <1>3
  <2>2. IsFiniteSet(1..r.seats)
    BY <2>1, FS_Interval
  <2>3. Cardinality(1..r.seats) = IF 1 > r.seats THEN 0 ELSE r.seats - 1 + 1
    BY <2>1, FS_Interval
  <2> QED BY <1>3, <2>2, <2>3
<1>5. IsFiniteSet({r.id}) /\ Cardinality({r.id}) = 1
  BY FS_Singleton
<1>6. IsFiniteSet(Y) /\ Cardinality(Y) = 1 * r.seats
  BY <1>4, <1>5, FS_Product
<1>7. Cardinality(Y) = r.seats
  BY <1>3, <1>6
<1> HIDE DEF X, Y
<1>8. /\ IsFiniteSet(X \cup Y)
      /\ Cardinality(X \cup Y) = Cardinality(X) + Cardinality(Y) - Cardinality(X \cap Y)
  BY <1>2, <1>6, FS_Union
<1>9. Cardinality(X \cap Y) \in Nat /\ Cardinality(X) \in Nat /\ Cardinality(X \cup Y) \in Nat
  BY <1>2, <1>8, FS_Intersection, FS_CardinalityType
<1>10. SeatCount(rows) = Cardinality(X) /\ SeatCount(rows') = Cardinality(X \cup Y)
  BY <1>1 DEF SeatCount, X
<1> QED BY <1>3, <1>7, <1>8, <1>9, <1>10

\* A payment changes nobody's seats.
LEMMA SeatsPaid ==
    ASSUME TypeOK, NEW a \in Attempts
    PROVE  SeatsIn(RowsAfterPayment(a)) = SeatsIn(rows)
<1> DEFINE f(r) == IF r.id = attempts[a].row THEN [r EXCEPT !.payment = a] ELSE r
<1>1. \A r \in rows : f(r).id = r.id /\ f(r).seats = r.seats
  BY DEF TypeOK, Row
<1>2. RowsAfterPayment(a) = {f(r) : r \in rows}
  BY DEF RowsAfterPayment
<1> HIDE DEF f
<1>3. \A x : x \in SeatsIn(RowsAfterPayment(a)) <=> \E r \in rows : x \in {f(r).id} \X (1..f(r).seats)
  BY <1>2 DEF SeatsIn
<1>4. \A x : x \in SeatsIn(rows) <=> \E r \in rows : x \in {r.id} \X (1..r.seats)
  BY DEF SeatsIn
<1> QED BY <1>1, <1>3, <1>4

\* Tickets are sold within the capacity: a step after which more seats are held
\* than before is a pre-checkout, which has looked at what all rows hold, those
\* that wait for a payment included.
THEOREM TicketsFit == Spec => NeverOversold
<1> USE NumbersAssumption
<1> DEFINE Fits == SeatCount(rows') > SeatCount(rows) => SeatCount(rows') <= event'.max
<1>1. TypeOK /\ [Next]_vars => [Fits]_vars
  <2> SUFFICES ASSUME TypeOK, [Next]_vars PROVE Fits
    OBVIOUS
  <2>0. rows' \subseteq rows => Fits
    BY SeatsMonotone
  <2>a. SeatCount(rows') = SeatCount(rows) /\ SeatCount(rows) \in Nat => Fits
    OBVIOUS
  <2>1. ASSUME NEW a \in Attempts, PreCheckout(a) PROVE Fits
    <3> DEFINE new == [id |-> NewId, user |-> attempts[a].payer, seats |-> InvoiceOf(a).seats,
                       ts |-> now, payment |-> Unpaid]
    <3>1. /\ attempts[a].stage = "asked" /\ Reserve(a) /\ UNCHANGED event
          /\ attempts[a].payer \in Users /\ InvoiceOf(a).seats \in SeatNumbers
      BY <2>1 DEF PreCheckout, InvoiceOf, TypeOK, Attempt, Invoice
    <3>2. UNCHANGED rows \/ (rows' = rows \cup {new} /\ Room(InvoiceOf(a).seats))
      BY <3>1 DEF Reserve
    <3>3. new \in Row /\ new.seats = InvoiceOf(a).seats
      BY <3>1, NewIdIsNew DEF Row, TypeOK
    <3>4. event.max \in Nat /\ InvoiceOf(a).seats \in Nat
      BY <3>1 DEF TypeOK
    <3> HIDE DEF new, Fits
    <3>5. ASSUME rows' = rows \cup {new}, Room(InvoiceOf(a).seats) PROVE Fits
      <4>1. /\ SeatCount(rows) \in Nat /\ SeatCount(rows') \in Nat
            /\ SeatCount(rows') <= SeatCount(rows) + InvoiceOf(a).seats
        BY <3>3, <3>5, SeatsAdded
      <4>2. InvoiceOf(a).seats <= event.max - SeatCount(rows)
        BY <3>5 DEF Room
      <4>3. event'.max = event.max
        BY <3>1
      <4> QED BY <3>4, <4>1, <4>2, <4>3 DEF Fits
    <3> QED BY <2>0, <3>2, <3>5
  <2>2. ASSUME NEW a \in Attempts, CheckoutUpdate(a) PROVE Fits
    <3>1. SeatsIn(rows') = SeatsIn(rows)
      BY <2>2, SeatsPaid DEF CheckoutUpdate
    <3>2. SeatCount(rows) \in Nat
      BY SeatsFinite, FS_CardinalityType DEF TypeOK, SeatCount
    <3> QED BY <2>a, <3>1, <3>2 DEF SeatCount
  <2>3. ASSUME NEW u \in Users, SignUpChild(u) PROVE Fits
    <3> DEFINE new == [id |-> NewId, user |-> u, seats |-> 0, ts |-> now, payment |-> Unpaid]
    <3>1. new \in Row /\ new.seats = 0 /\ rows' = rows \cup {new}
      BY <2>3, NewIdIsNew DEF Row, SignUpChild, TypeOK
    <3> HIDE DEF new
    <3>2. /\ SeatCount(rows) \in Nat /\ SeatCount(rows') \in Nat
          /\ SeatCount(rows') <= SeatCount(rows) + 0
      BY <3>1, SeatsAdded
    <3> QED BY <3>2
  <2>4. ClearFailedPayments \/ DeleteEvent => rows' \subseteq rows
    BY DEF ClearFailedPayments, DeleteEvent
  <2>5. ASSUME NEW u \in Users, TakeAway(u) \/ Cancel(u, 0) \/ Cancel(u, 1) PROVE rows' \subseteq rows
    BY <2>5 DEF TakeAway, Cancel
  <2>6. ASSUME NEW i \in Invoices, NEW u \in Users, NEW n \in SeatNumbers, PrepareInvoice(i, u, n)
        PROVE  rows' = rows
    BY <2>6 DEF PrepareInvoice
  <2>7. ASSUME NEW a \in Attempts, NEW i \in Invoices, NEW p \in Users, Ask(a, i, p)
        PROVE  rows' = rows
    BY <2>7 DEF Ask
  <2>8. ASSUME NEW a \in Attempts,
               Refuse(a) \/ Charge(a) \/ CheckoutFind(a) \/ CheckoutFails(a)
        PROVE  rows' = rows
    BY <2>8 DEF Refuse, Charge, CheckoutFind, CheckoutFails
  <2>9. GetUpdates \/ Restart \/ ChangeEvent \/ Tick \/ UNCHANGED vars => rows' = rows
    BY DEF GetUpdates, Restart, ChangeEvent, Tick, vars
  <2> HIDE DEF Fits
  <2> QED BY <2>0, <2>1, <2>2, <2>3, <2>4, <2>5, <2>6, <2>7, <2>8, <2>9 DEF Next
<1> QED BY <1>1, PaymentsTypeCorrect, PTL DEF Spec, NeverOversold

-----------------------------------------------------------------------------
(* A prompt payment is served *)

\* No other try for as many tickets has been made.
Sole(a) == \A b \in Attempts \ {a} :
    attempts[b].stage = "idle" \/ InvoiceOf(b).seats # InvoiceOf(a).seats

\* A query that is not decided has made no reservation.
Early == \A a \in Attempts : attempts[a].stage \in {"idle", "asked"} => attempts[a].since = -1

\* Tickets are only reserved by queries that were decided.
Made == \A r \in rows : r.seats # 0 =>
    \E b \in Attempts : /\ attempts[b].stage \notin {"idle", "asked"}
                        /\ InvoiceOf(b).seats = r.seats

\* So the reservation of the only try for that many tickets is the only one.
Single == \A a \in Attempts : attempts[a].stage # "idle" /\ Sole(a) =>
    \A r, s \in rows : r.seats = InvoiceOf(a).seats /\ s.seats = InvoiceOf(a).seats => r = s

\* It stands for as long as a payment counts as prompt, and is the one that
\* checkout finds.
Fresh(a) ==
    /\ Sole(a) /\ event.live
    /\ attempts[a].since >= 0 /\ now <= attempts[a].since + Expiry
    /\ InvoiceOf(a).user = attempts[a].payer
Its(a, r) ==
    /\ r.user = attempts[a].payer /\ r.seats = InvoiceOf(a).seats /\ r.ts = attempts[a].since
    /\ attempts[a].stage = "found" => r.id = attempts[a].row
Stands == \A a \in Attempts : Fresh(a) => \E r \in rows : Its(a, r)

Served == Early /\ Made /\ Single /\ Stands

\* A try keeps its invoice and payer, and does not go back to where it was
\* undecided.
LEMMA TriesGoOn ==
    ASSUME TypeOK, [Next]_vars, NEW b \in Attempts, attempts[b].stage # "idle"
    PROVE  /\ InvoiceOf(b)' = InvoiceOf(b) /\ attempts'[b].payer = attempts[b].payer
           /\ attempts'[b].stage # "idle"
           /\ attempts'[b].stage = "asked" => attempts[b].stage = "asked"
<1> DEFINE Goes == /\ invoices'[attempts'[b].invoice] = invoices[attempts[b].invoice]
                   /\ attempts'[b].payer = attempts[b].payer
                   /\ attempts'[b].stage # "idle"
                   /\ attempts'[b].stage = "asked" => attempts[b].stage = "asked"
<1> USE DEF TypeOK
<1>0. attempts[b].invoice \in DOMAIN invoices /\ attempts \in [Attempts -> Attempt]
  OBVIOUS
<1>1. UNCHANGED <<invoices, attempts>> => Goes
  OBVIOUS
<1>2. ASSUME NEW i \in Invoices, NEW u \in Users, NEW n \in SeatNumbers, PrepareInvoice(i, u, n)
      PROVE  Goes
  BY <1>0, <1>2 DEF PrepareInvoice
<1>3. ASSUME NEW a \in Attempts, NEW i \in Invoices, NEW p \in Users, Ask(a, i, p) PROVE Goes
  BY <1>0, <1>3 DEF Ask
<1>4. ASSUME NEW a \in Attempts, UNCHANGED invoices, NEW stage \in Stages \ {"idle", "asked"},
             Stage(a, stage)
      PROVE  Goes
  BY <1>0, <1>4 DEF Stage, Attempt
<1>5. ASSUME NEW a \in Attempts, PreCheckout(a) PROVE Goes
  <2>1. UNCHANGED invoices /\ Reserve(a)
    BY <1>5 DEF PreCheckout
  <2>2. \/ Stage(a, "refused") \/ Stage(a, "approved")
        \/ attempts' = [attempts EXCEPT ![a].stage = "approved", ![a].since = now]
    BY <2>1 DEF Reserve
  <2>3. CASE attempts' = [attempts EXCEPT ![a].stage = "approved", ![a].since = now]
    BY <1>0, <2>1, <2>3 DEF Attempt
  <2>4. "refused" \in Stages \ {"idle", "asked"} /\ "approved" \in Stages \ {"idle", "asked"}
    BY DEF Stages
  <2> QED BY <1>4, <2>1, <2>2, <2>3, <2>4
<1>6. ASSUME NEW a \in Attempts, Refuse(a) \/ Charge(a) PROVE Goes
  <2>1. UNCHANGED invoices /\ \E stage \in {"refused", "charged"} : Stage(a, stage)
    BY <1>6 DEF Refuse, Charge
  <2>2. {"refused", "charged"} \subseteq Stages \ {"idle", "asked"}
    BY DEF Stages
  <2> QED BY <1>4, <2>1, <2>2
<1>7. ASSUME NEW a \in Attempts, CheckoutFind(a) PROVE Goes
  <2>1. CASE Stage(a, "lost")
    <3>1. UNCHANGED invoices /\ "lost" \in Stages \ {"idle", "asked"}
      BY <1>7 DEF CheckoutFind, Stages
    <3> QED BY <1>4, <2>1, <3>1
  <2>2. ASSUME NEW r \in Pending(a),
               attempts' = [attempts EXCEPT ![a].stage = "found", ![a].row = r.id]
        PROVE  Goes
    <3>1. UNCHANGED invoices
      BY <1>7 DEF CheckoutFind
    <3>2. CASE b = a
      <4> DEFINE n == r.id
      <4>1. attempts' = [attempts EXCEPT ![a].stage = "found", ![a].row = n]
        BY <2>2
      <4> HIDE DEF n
      <4> QED BY <1>0, <3>1, <3>2, <4>1 DEF Attempt
    <3> QED BY <1>0, <2>2, <3>1, <3>2
  <2> QED BY <1>7, <2>1, <2>2 DEF CheckoutFind
<1>8. ASSUME NEW a \in Attempts, CheckoutUpdate(a) \/ CheckoutFails(a) PROVE Goes
  BY <1>0, <1>8 DEF CheckoutUpdate, CheckoutFails, Attempt
<1>9. ASSUME Restart PROVE Goes
  <2>1. UNCHANGED invoices /\ attempts' = [a \in Attempts |-> AfterRestart(a)]
    BY <1>9 DEF Restart
  <2>2. attempts'[b] = AfterRestart(b)
    BY <2>1
  <2> HIDE DEF TypeOK, Goes
  <2>3. /\ attempts'[b].invoice = attempts[b].invoice /\ attempts'[b].payer = attempts[b].payer
        /\ attempts'[b].stage = attempts[b].stage \/ attempts'[b].stage \in {"charged", "lost"}
    BY <2>2, AfterRestartOK
  <2> QED BY <2>1, <2>3 DEF Goes
<1>10. ASSUME NEW u \in Users, TakeAway(u) \/ Cancel(u, 0) \/ Cancel(u, 1) PROVE Goes
  BY <1>0, <1>10 DEF TakeAway, Cancel, Forget, Attempt
<1>11. ASSUME NEW u \in Users, SignUpChild(u) PROVE Goes
  BY <1>1, <1>11 DEF SignUpChild
<1>12. \/ ClearFailedPayments \/ DeleteEvent \/ ChangeEvent \/ Tick \/ GetUpdates
       \/ UNCHANGED vars
       => Goes
  BY <1>1 DEF ClearFailedPayments, DeleteEvent, ChangeEvent, Tick, GetUpdates, vars
<1> HIDE DEF TypeOK, Goes
<1>13. Goes
  BY <1>2, <1>3, <1>5, <1>6, <1>7, <1>8, <1>9, <1>10, <1>11, <1>12 DEF Next
<1> QED BY <1>13 DEF Goes, InvoiceOf

\* A try that starts waits for the answer to its query first.
LEMMA FromIdle ==
    ASSUME TypeOK, [Next]_vars, NEW a \in Attempts, attempts[a].stage = "idle"
    PROVE  attempts'[a].stage \in {"idle", "asked"}
<1> DEFINE Stays == attempts'[a].stage \in {"idle", "asked"}
<1>0. attempts \in [Attempts -> Attempt]
  BY DEF TypeOK
<1>1. attempts'[a] = attempts[a] => Stays
  OBVIOUS
<1>2. ASSUME NEW b \in Attempts, NEW i \in Invoices, NEW p \in Users, Ask(b, i, p) PROVE Stays
  BY <1>0, <1>2 DEF Ask, Attempt
<1>3. ASSUME NEW b \in Attempts, NEW stage, attempts[b].stage # "idle", Stage(b, stage) PROVE Stays
  BY <1>0, <1>3 DEF Stage
<1>4. ASSUME NEW b \in Attempts, PreCheckout(b) PROVE Stays
  <2>1. attempts[b].stage = "asked" /\ Reserve(b)
    BY <1>4 DEF PreCheckout
  <2>2. \/ Stage(b, "refused") \/ Stage(b, "approved")
        \/ attempts' = [attempts EXCEPT ![b].stage = "approved", ![b].since = now]
    BY <2>1 DEF Reserve
  <2> QED BY <1>0, <1>3, <2>1, <2>2
<1>5. ASSUME NEW b \in Attempts, Refuse(b) \/ Charge(b) PROVE Stays
  BY <1>3, <1>5 DEF Refuse, Charge
<1>6. ASSUME NEW b \in Attempts, CheckoutFind(b) PROVE Stays
  BY <1>0, <1>3, <1>6 DEF CheckoutFind, StartCheckout
<1>7. ASSUME NEW b \in Attempts, CheckoutUpdate(b) \/ CheckoutFails(b) PROVE Stays
  BY <1>0, <1>7 DEF CheckoutUpdate, CheckoutFails, StartCheckout
<1>8. ASSUME Restart PROVE Stays
  <2>1. attempts'[a] = AfterRestart(a)
    BY <1>8 DEF Restart
  <2>2. attempts'[a].stage = attempts[a].stage
    BY <2>1, AfterRestartOK
  <2> QED BY <2>2
<1>9. ASSUME NEW u \in Users, Forget(u) PROVE Stays
  BY <1>0, <1>9 DEF Forget, Attempt
<1>10. ASSUME NEW u \in Users, TakeAway(u) \/ Cancel(u, 0) \/ Cancel(u, 1) PROVE Stays
  BY <1>9, <1>10 DEF TakeAway, Cancel
<1>11. ASSUME NEW u \in Users, SignUpChild(u) PROVE Stays
  BY <1>1, <1>11 DEF SignUpChild
<1>12. ASSUME NEW i \in Invoices, NEW u \in Users, NEW n \in SeatNumbers, PrepareInvoice(i, u, n)
       PROVE  Stays
  BY <1>1, <1>12 DEF PrepareInvoice
<1>13. \/ ClearFailedPayments \/ DeleteEvent \/ ChangeEvent \/ Tick \/ GetUpdates
       \/ UNCHANGED vars
       => Stays
  BY <1>1 DEF ClearFailedPayments, DeleteEvent, ChangeEvent, Tick, GetUpdates, vars
<1> HIDE DEF Stays
<1>14. Stays
  BY <1>2, <1>4, <1>5, <1>6, <1>7, <1>8, <1>10, <1>11, <1>12, <1>13 DEF Next
<1> QED BY <1>14 DEF Stays

\* Who is alone was alone before.
LEMMA SoleBefore ==
    ASSUME TypeOK, [Next]_vars, NEW a \in Attempts, attempts[a].stage # "idle", Sole(a)'
    PROVE  Sole(a)
<1> SUFFICES ASSUME NEW b \in Attempts \ {a}, attempts[b].stage # "idle"
             PROVE  InvoiceOf(b).seats # InvoiceOf(a).seats
  BY DEF Sole
<1>1. InvoiceOf(a)' = InvoiceOf(a) /\ InvoiceOf(b)' = InvoiceOf(b) /\ attempts'[b].stage # "idle"
  BY TriesGoOn
<1>2. InvoiceOf(b)'.seats # InvoiceOf(a)'.seats
  BY <1>1 DEF Sole
<1> QED BY <1>1, <1>2

\* A row is an old one, perhaps paid by now, that of a child, or the new one of
\* a pre-checkout.
Same(r, s) == s.id = r.id /\ s.user = r.user /\ s.seats = r.seats /\ s.ts = r.ts
New(r, c) ==
    /\ PreCheckout(c) /\ attempts'[c].stage \notin {"idle", "asked"}
    /\ rows' = rows \cup {r} /\ r \notin rows
    /\ r.user = attempts[c].payer /\ r.seats = InvoiceOf(c).seats /\ r.ts = now

\* A pre-checkout that changes the rows has made a row of its own.
LEMMA NewRow ==
    ASSUME TypeOK, NEW c \in Attempts, PreCheckout(c), rows' # rows
    PROVE  \E r : New(r, c)
<1> DEFINE new == [id |-> NewId, user |-> attempts[c].payer, seats |-> InvoiceOf(c).seats,
                   ts |-> now, payment |-> Unpaid]
<1>1. Reserve(c)
  BY DEF PreCheckout
<1>2. rows' = rows \cup {new}
  BY <1>1 DEF Reserve
<1>3. new.user = attempts[c].payer /\ new.seats = InvoiceOf(c).seats /\ new.ts = now
  OBVIOUS
<1>4. attempts'[c].stage \in {"approved", "refused"}
  <2>1. \/ Stage(c, "refused") \/ Stage(c, "approved")
        \/ attempts' = [attempts EXCEPT ![c].stage = "approved", ![c].since = now]
    BY <1>1 DEF Reserve
  <2>2. attempts \in [Attempts -> Attempt]
    BY DEF TypeOK
  <2> QED BY <2>1, <2>2 DEF Stage, Attempt
<1> HIDE DEF new
<1>5. new \notin rows
  BY <1>2
<1> QED BY <1>2, <1>3, <1>4, <1>5 DEF New

\* A row was there before, or is a child's, or comes from a pre-checkout.
LEMMA RowsFrom ==
    ASSUME TypeOK, [Next]_vars, NEW r \in rows'
    PROVE  \/ \E s \in rows : Same(s, r)
           \/ r.seats = 0
           \/ \E c \in Attempts : New(r, c)
<1> DEFINE From == (\E s \in rows : Same(s, r)) \/ r.seats = 0 \/ \E c \in Attempts : New(r, c)
<1>0. r \in rows => From
  BY DEF Same
<1>1. ASSUME NEW c \in Attempts, PreCheckout(c) PROVE From
  <2>1. CASE rows' = rows
    BY <1>0, <2>1
  <2>2. CASE rows' # rows
    <3>1. PICK s : New(s, c)
      BY <1>1, <2>2, NewRow
    <3>2. r \in rows \/ r = s
      BY <3>1 DEF New
    <3> QED BY <1>0, <3>1, <3>2
  <2> QED BY <2>1, <2>2
<1>2. ASSUME NEW a \in Attempts, CheckoutUpdate(a) PROVE From
  <2>1. PICK s \in rows : r = IF s.id = attempts[a].row THEN [s EXCEPT !.payment = a] ELSE s
    BY <1>2 DEF CheckoutUpdate, RowsAfterPayment
  <2>2. s \in Row
    BY DEF TypeOK
  <2>3. Same(s, r)
    BY <2>1, <2>2 DEF Same, Row
  <2> QED BY <2>3
<1>3. ASSUME NEW u \in Users, SignUpChild(u) PROVE From
  <2>1. r \in rows \/ r = [id |-> NewId, user |-> u, seats |-> 0, ts |-> now, payment |-> Unpaid]
    BY <1>3 DEF SignUpChild
  <2>2. CASE r = [id |-> NewId, user |-> u, seats |-> 0, ts |-> now, payment |-> Unpaid]
    BY <2>2
  <2> QED BY <1>0, <2>1, <2>2
<1> HIDE DEF From
<1>4. ClearFailedPayments \/ DeleteEvent => From
  BY <1>0 DEF ClearFailedPayments, DeleteEvent
<1>5. ASSUME NEW u \in Users, TakeAway(u) \/ Cancel(u, 0) \/ Cancel(u, 1) PROVE From
  BY <1>0, <1>5 DEF TakeAway, Cancel
<1>6. ASSUME NEW i \in Invoices, NEW u \in Users, NEW n \in SeatNumbers, PrepareInvoice(i, u, n)
      PROVE  From
  BY <1>0, <1>6 DEF PrepareInvoice
<1>7. ASSUME NEW a \in Attempts, NEW i \in Invoices, NEW p \in Users, Ask(a, i, p) PROVE From
  BY <1>0, <1>7 DEF Ask
<1>8. ASSUME NEW a \in Attempts,
             Refuse(a) \/ Charge(a) \/ CheckoutFind(a) \/ CheckoutFails(a)
      PROVE  From
  BY <1>0, <1>8 DEF Refuse, Charge, CheckoutFind, CheckoutFails
<1>9. GetUpdates \/ Restart \/ ChangeEvent \/ Tick \/ UNCHANGED vars => From
  BY <1>0 DEF GetUpdates, Restart, ChangeEvent, Tick, vars
<1>10. From
  BY <1>1, <1>2, <1>3, <1>4, <1>5, <1>6, <1>7, <1>8, <1>9 DEF Next
<1> QED BY <1>10 DEF From

\* Every step keeps that a reservation of tickets stems from a decided query.
LEMMA MadeKept ==
    ASSUME TypeOK, Made, [Next]_vars
    PROVE  Made'
<1> SUFFICES ASSUME NEW r \in rows', r.seats # 0
             PROVE  \E b \in Attempts : /\ attempts'[b].stage \notin {"idle", "asked"}
                                        /\ InvoiceOf(b)'.seats = r.seats
  BY DEF Made
<1>1. ASSUME NEW s \in rows, Same(s, r)
      PROVE  \E b \in Attempts : /\ attempts'[b].stage \notin {"idle", "asked"}
                                 /\ InvoiceOf(b)'.seats = r.seats
  <2>1. s.seats = r.seats
    BY <1>1 DEF Same
  <2>2. PICK b \in Attempts : /\ attempts[b].stage \notin {"idle", "asked"}
                              /\ InvoiceOf(b).seats = s.seats
    BY <2>1 DEF Made
  <2>3. attempts'[b].stage \notin {"idle", "asked"} /\ InvoiceOf(b)' = InvoiceOf(b)
    BY <2>2, TriesGoOn
  <2> QED BY <2>1, <2>2, <2>3
<1>2. ASSUME NEW c \in Attempts, New(r, c)
      PROVE  \E b \in Attempts : /\ attempts'[b].stage \notin {"idle", "asked"}
                                 /\ InvoiceOf(b)'.seats = r.seats
  <2>1. attempts[c].stage = "asked" /\ attempts'[c].stage \notin {"idle", "asked"}
    BY <1>2 DEF New, PreCheckout
  <2>2. InvoiceOf(c)' = InvoiceOf(c)
    BY <2>1, TriesGoOn
  <2> QED BY <1>2, <2>1, <2>2 DEF New
<1> QED BY <1>1, <1>2, RowsFrom

\* Every step keeps the only reservation of its size single.
LEMMA SingleKept ==
    ASSUME TypeOK, TypeOK', Made, Single, [Next]_vars
    PROVE  Single'
<1> SUFFICES ASSUME NEW a \in Attempts, attempts'[a].stage # "idle", Sole(a)',
                    NEW r \in rows', NEW s \in rows',
                    r.seats = InvoiceOf(a)'.seats, s.seats = InvoiceOf(a)'.seats
             PROVE  r = s
  BY DEF Single
<1>1. r.seats # 0 /\ s.seats # 0
  <2>1. (InvoiceOf(a) \in Invoice)'
    BY DEF TypeOK, InvoiceOf
  <2>2. InvoiceOf(a)'.seats \in SeatNumbers
    BY <2>1 DEF Invoice
  <2>3. 0 \notin SeatNumbers
    BY NumbersAssumption
  <2> QED BY <2>2, <2>3
<1>2. attempts'[a].stage \notin {"idle", "asked"}
  <2>1. PICK b \in Attempts : /\ attempts'[b].stage \notin {"idle", "asked"}
                              /\ InvoiceOf(b)'.seats = r.seats
    BY <1>1, MadeKept DEF Made
  <2>2. b = a
    BY <2>1 DEF Sole
  <2> QED BY <2>1, <2>2
<1>3. attempts[a].stage # "idle"
  BY <1>2, FromIdle
<1>4. Sole(a) /\ InvoiceOf(a)' = InvoiceOf(a)
  BY <1>3, SoleBefore, TriesGoOn
<1>5. ASSUME NEW c \in Attempts, NEW x, New(x, c), x.seats = InvoiceOf(a).seats
      PROVE  \A y \in rows : y.seats # InvoiceOf(a).seats
  <2>1. attempts[c].stage = "asked" /\ InvoiceOf(c).seats = InvoiceOf(a).seats
    BY <1>5 DEF New, PreCheckout
  <2>2. c = a
    BY <1>4, <2>1 DEF Sole
  <2>3. SUFFICES ASSUME NEW y \in rows, y.seats = InvoiceOf(a).seats PROVE FALSE
    OBVIOUS
  <2>4. y.seats # 0
    BY <1>1, <1>4, <2>3
  <2>5. PICK b \in Attempts : /\ attempts[b].stage \notin {"idle", "asked"}
                              /\ InvoiceOf(b).seats = y.seats
    BY <2>4 DEF Made
  <2>6. b = a
    BY <1>4, <2>3, <2>5 DEF Sole
  <2> QED BY <2>1, <2>2, <2>5, <2>6
<1>6. CASE \E x \in rows, y \in rows : Same(x, r) /\ Same(y, s)
  <2>1. PICK x \in rows, y \in rows : Same(x, r) /\ Same(y, s)
    BY <1>6
  <2>2. x = y
    BY <1>3, <1>4, <2>1 DEF Same, Single
  <2>3. r.id = s.id
    BY <2>1, <2>2 DEF Same
  <2> QED BY <2>3 DEF TypeOK
<1>7. ASSUME NEW c \in Attempts, New(r, c) PROVE r = s
  <2>1. s \notin rows
    BY <1>4, <1>5, <1>7
  <2>2. rows' = rows \cup {r}
    BY <1>7 DEF New
  <2> QED BY <2>1, <2>2
<1>8. ASSUME NEW c \in Attempts, New(s, c) PROVE r = s
  <2>1. r \notin rows
    BY <1>4, <1>5, <1>8
  <2>2. rows' = rows \cup {s}
    BY <1>8 DEF New
  <2> QED BY <2>1, <2>2
<1> QED BY <1>1, <1>6, <1>7, <1>8, RowsFrom
\* The time of a reservation is only kept, forgotten, or set when it is made.
Booked(a) ==
    /\ attempts'[a].since = now /\ attempts'[a].stage = "approved"
    /\ attempts[a].stage = "asked" /\ now' = now
    /\ \E r \in rows' : /\ r.user = attempts[a].payer /\ r.seats = InvoiceOf(a).seats
                        /\ r.ts = now

\* The time of a reservation is only set when it is made, or cleared.
LEMMA SinceFrom ==
    ASSUME TypeOK, [Next]_vars, NEW a \in Attempts
    PROVE  attempts'[a].since \in {attempts[a].since, -1} \/ Booked(a)
<1> DEFINE From == attempts'[a].since \in {attempts[a].since, -1} \/ Booked(a)
<1>0. attempts \in [Attempts -> Attempt]
  BY DEF TypeOK
<1>1. attempts'[a] = attempts[a] => From
  OBVIOUS
<1>2. ASSUME NEW b \in Attempts, NEW i \in Invoices, NEW p \in Users, Ask(b, i, p) PROVE From
  <2>1. attempts'[a].since = attempts[a].since
    BY <1>0, <1>2 DEF Ask, Attempt
  <2> QED BY <2>1
<1>3. ASSUME NEW b \in Attempts, NEW stage, Stage(b, stage) PROVE From
  <2>1. attempts'[a].since \in {attempts[a].since, -1}
    BY <1>0, <1>3 DEF Stage, Attempt
  <2> QED BY <2>1
<1>4. ASSUME NEW b \in Attempts, PreCheckout(b) PROVE From
  <2>1. attempts[b].stage = "asked" /\ Reserve(b) /\ now' = now
    BY <1>4 DEF PreCheckout
  <2>2. CASE Stage(b, "refused") \/ Stage(b, "approved")
    BY <1>3, <2>2
  <2>3. ASSUME attempts' = [attempts EXCEPT ![b].stage = "approved", ![b].since = now],
               rows' = rows \cup {[id |-> NewId, user |-> attempts[b].payer,
                            seats |-> InvoiceOf(b).seats, ts |-> now, payment |-> Unpaid]}
        PROVE  From
    <3>1. CASE a # b
      BY <1>0, <1>1, <2>3, <3>1
    <3>2. CASE a = b
      <4> DEFINE new == [id |-> NewId, user |-> attempts[b].payer,
                            seats |-> InvoiceOf(b).seats, ts |-> now, payment |-> Unpaid]
      <4>1. attempts'[a].since = now /\ attempts'[a].stage = "approved"
        BY <1>0, <2>3, <3>2 DEF Attempt
      <4>2. /\ new \in rows' /\ new.user = attempts[a].payer
            /\ new.seats = InvoiceOf(a).seats /\ new.ts = now
        BY <2>3, <3>2
      <4> HIDE DEF new
      <4> QED BY <2>1, <3>2, <4>1, <4>2 DEF Booked
    <3> QED BY <3>1, <3>2
  <2> QED BY <2>1, <2>2, <2>3 DEF Reserve
<1>5. ASSUME NEW b \in Attempts, Refuse(b) \/ Charge(b) PROVE From
  BY <1>3, <1>5 DEF Refuse, Charge
<1>6. ASSUME NEW b \in Attempts, CheckoutFind(b) PROVE From
  <2>1. ASSUME NEW r \in Pending(b),
               attempts' = [attempts EXCEPT ![b].stage = "found", ![b].row = r.id]
        PROVE  attempts'[a].since = attempts[a].since
    BY <1>0, <2>1 DEF Attempt
  <2> QED BY <1>3, <1>6, <2>1 DEF CheckoutFind
<1>7. ASSUME NEW b \in Attempts, CheckoutUpdate(b) \/ CheckoutFails(b) PROVE From
  <2>1. attempts'[a].since \in {attempts[a].since, -1}
    BY <1>0, <1>7 DEF CheckoutUpdate, CheckoutFails, Attempt
  <2> QED BY <2>1
<1>8. ASSUME Restart PROVE From
  <2>1. attempts'[a] = AfterRestart(a)
    BY <1>8 DEF Restart
  <2>2. attempts'[a].since = attempts[a].since
    BY <2>1, AfterRestartOK
  <2> QED BY <2>2
<1>9. ASSUME NEW u \in Users, Forget(u) PROVE From
  <2>1. attempts'[a].since \in {attempts[a].since, -1}
    BY <1>0, <1>9 DEF Forget, Attempt
  <2> QED BY <2>1
<1>10. ASSUME NEW u \in Users, TakeAway(u) \/ Cancel(u, 0) \/ Cancel(u, 1) PROVE From
  BY <1>9, <1>10 DEF TakeAway, Cancel
<1> HIDE DEF From
<1>11. ASSUME NEW u \in Users, SignUpChild(u) PROVE From
  BY <1>1, <1>11 DEF SignUpChild
<1>12. ASSUME NEW i \in Invoices, NEW u \in Users, NEW n \in SeatNumbers, PrepareInvoice(i, u, n)
       PROVE  From
  BY <1>1, <1>12 DEF PrepareInvoice
<1>13. \/ ClearFailedPayments \/ DeleteEvent \/ ChangeEvent \/ Tick \/ GetUpdates
       \/ UNCHANGED vars
       => From
  BY <1>1 DEF ClearFailedPayments, DeleteEvent, ChangeEvent, Tick, GetUpdates, vars
<1>14. From
  BY <1>2, <1>4, <1>5, <1>6, <1>7, <1>8, <1>10, <1>11, <1>12, <1>13 DEF Next
<1> QED BY <1>14 DEF From

\* Every step keeps that a query not yet decided has made nothing.
LEMMA EarlyKept ==
    ASSUME TypeOK, Early, [Next]_vars
    PROVE  Early'
<1> SUFFICES ASSUME NEW a \in Attempts, attempts'[a].stage \in {"idle", "asked"}
             PROVE  attempts'[a].since = -1
  BY DEF Early
<1>1. attempts[a].stage \in {"idle", "asked"}
  BY TriesGoOn
<1>2. attempts[a].since = -1
  BY <1>1 DEF Early
<1>3. ~ Booked(a)
  BY DEF Booked
<1> QED BY <1>2, <1>3, SinceFrom

\* checkout works with the row it has found.
LEMMA FoundFrom ==
    ASSUME TypeOK, [Next]_vars, NEW a \in Attempts, attempts'[a].stage = "found"
    PROVE  \/ attempts[a].stage = "found" /\ attempts'[a].row = attempts[a].row
           \/ \E r \in Pending(a) : attempts'[a].row = r.id /\ UNCHANGED rows
<1> DEFINE From == attempts'[a].stage = "found" =>
        \/ attempts[a].stage = "found" /\ attempts'[a].row = attempts[a].row
        \/ \E r \in Pending(a) : attempts'[a].row = r.id /\ UNCHANGED rows
<1>0. attempts \in [Attempts -> Attempt]
  BY DEF TypeOK
<1>1. attempts'[a] = attempts[a] => From
  OBVIOUS
<1>2. ASSUME NEW b \in Attempts, NEW i \in Invoices, NEW p \in Users, Ask(b, i, p) PROVE From
  BY <1>0, <1>1, <1>2 DEF Ask, Attempt
<1>3. ASSUME NEW b \in Attempts, NEW stage, Stage(b, stage), stage # "found" PROVE From
  BY <1>0, <1>1, <1>3 DEF Stage, Attempt
<1>4. ASSUME NEW b \in Attempts, PreCheckout(b) PROVE From
  <2>1. Reserve(b)
    BY <1>4 DEF PreCheckout
  <2>2. \/ Stage(b, "refused") \/ Stage(b, "approved")
        \/ attempts' = [attempts EXCEPT ![b].stage = "approved", ![b].since = now]
    BY <2>1 DEF Reserve
  <2>3. CASE attempts' = [attempts EXCEPT ![b].stage = "approved", ![b].since = now]
    BY <1>0, <1>1, <2>3 DEF Attempt
  <2> QED BY <1>3, <2>2, <2>3
<1>5. ASSUME NEW b \in Attempts, Refuse(b) \/ Charge(b) PROVE From
  BY <1>3, <1>5 DEF Refuse, Charge
<1>6. ASSUME NEW b \in Attempts, CheckoutFind(b) PROVE From
  <2>1. ASSUME NEW r \in Pending(b), UNCHANGED rows,
               attempts' = [attempts EXCEPT ![b].stage = "found", ![b].row = r.id]
        PROVE  From
    <3>1. CASE a # b
      BY <1>0, <1>1, <2>1, <3>1
    <3>2. CASE a = b
      <4>1. attempts'[a].row = r.id
        BY <1>0, <2>1, <3>2 DEF Attempt
      <4> QED BY <2>1, <3>2, <4>1
    <3> QED BY <3>1, <3>2
  <2> QED BY <1>3, <1>6, <2>1 DEF CheckoutFind
<1>7. ASSUME NEW b \in Attempts, CheckoutUpdate(b) \/ CheckoutFails(b) PROVE From
  <2>1. attempts'[a] = attempts[a] \/ attempts'[a].stage \in {"paid", "lost"}
    BY <1>0, <1>7 DEF CheckoutUpdate, CheckoutFails, Attempt
  <2> QED BY <1>1, <2>1
<1>8. ASSUME Restart PROVE From
  <2>1. attempts'[a] = AfterRestart(a)
    BY <1>8 DEF Restart
  <2>2. attempts'[a].stage # "found"
    BY <2>1, AfterRestartOK
  <2> QED BY <2>2
<1>9. ASSUME NEW u \in Users, Forget(u) PROVE From
  <2>1. attempts'[a].stage = attempts[a].stage /\ attempts'[a].row = attempts[a].row
    BY <1>0, <1>9 DEF Forget, Attempt
  <2> QED BY <2>1
<1> HIDE DEF From
<1>10. ASSUME NEW u \in Users, TakeAway(u) \/ Cancel(u, 0) \/ Cancel(u, 1) PROVE From
  BY <1>9, <1>10 DEF TakeAway, Cancel
<1>11. ASSUME NEW u \in Users, SignUpChild(u) PROVE From
  BY <1>1, <1>11 DEF SignUpChild
<1>12. ASSUME NEW i \in Invoices, NEW u \in Users, NEW n \in SeatNumbers, PrepareInvoice(i, u, n)
       PROVE  From
  BY <1>1, <1>12 DEF PrepareInvoice
<1>13. \/ ClearFailedPayments \/ DeleteEvent \/ ChangeEvent \/ Tick \/ GetUpdates
       \/ UNCHANGED vars
       => From
  BY <1>1 DEF ClearFailedPayments, DeleteEvent, ChangeEvent, Tick, GetUpdates, vars
<1>14. From
  BY <1>2, <1>4, <1>5, <1>6, <1>7, <1>8, <1>10, <1>11, <1>12, <1>13 DEF Next
<1> QED BY <1>14 DEF From
\* A reservation stays while its payment counts as prompt.
LEMMA RowStays ==
    ASSUME TypeOK, [Next]_vars, NEW a \in Attempts, NEW r \in rows,
           r.user = attempts[a].payer, now <= r.ts + Expiry,
           event'.live, attempts'[a].since >= 0
    PROVE  \E s \in rows' : Same(r, s)
<1> DEFINE Remains == \E s \in rows' : Same(r, s)
<1>0. r \in rows' => Remains
  BY DEF Same
<1>1. rows \subseteq rows' => Remains
  BY <1>0
<1>2. ASSUME NEW c \in Attempts, PreCheckout(c) PROVE rows \subseteq rows'
  BY <1>2 DEF PreCheckout, Reserve
<1>3. ASSUME NEW c \in Attempts, CheckoutUpdate(c) PROVE Remains
  <2> DEFINE s == IF r.id = attempts[c].row THEN [r EXCEPT !.payment = c] ELSE r
  <2>1. s \in rows'
    BY <1>3 DEF CheckoutUpdate, RowsAfterPayment
  <2>2. r \in Row
    BY DEF TypeOK
  <2>3. Same(r, s)
    BY <2>2 DEF Same, Row
  <2> QED BY <2>1, <2>3
<1>4. ASSUME NEW u \in Users, SignUpChild(u) PROVE rows \subseteq rows'
  BY <1>4 DEF SignUpChild
<1>5. ASSUME ClearFailedPayments PROVE r \in rows'
  <2>1. ~ Overdue(r)
    <3>1. r.ts \in Nat /\ now \in Nat /\ Expiry \in Nat
      BY NumbersAssumption DEF TypeOK, Row
    <3> QED BY <3>1 DEF Overdue
  <2> QED BY <1>5, <2>1 DEF ClearFailedPayments
<1>6. ~ DeleteEvent
  BY DEF DeleteEvent, TypeOK
<1>7. ASSUME NEW u \in Users, Forget(u) PROVE r.user # u
  <2>1. SUFFICES ASSUME r.user = u PROVE FALSE
    OBVIOUS
  <2>2. attempts'[a].since = -1
    BY <1>7, <2>1 DEF Forget, TypeOK, Attempt
  <2> QED BY <2>2
<1>8. ASSUME NEW u \in Users, TakeAway(u) \/ Cancel(u, 0) \/ Cancel(u, 1) PROVE r \in rows'
  <2>1. r.user # u
    BY <1>7, <1>8 DEF TakeAway, Cancel
  <2>2. \A x \in Of(u) : x.user = u
    BY DEF Of
  <2> QED BY <1>8, <2>1, <2>2 DEF TakeAway, Cancel
<1>9. ASSUME NEW i \in Invoices, NEW u \in Users, NEW n \in SeatNumbers, PrepareInvoice(i, u, n)
      PROVE  rows' = rows
  BY <1>9 DEF PrepareInvoice
<1>10. ASSUME NEW b \in Attempts, NEW i \in Invoices, NEW p \in Users, Ask(b, i, p)
       PROVE  rows' = rows
  BY <1>10 DEF Ask
<1>11. ASSUME NEW b \in Attempts,
              Refuse(b) \/ Charge(b) \/ CheckoutFind(b) \/ CheckoutFails(b)
       PROVE  rows' = rows
  BY <1>11 DEF Refuse, Charge, CheckoutFind, CheckoutFails
<1>12. GetUpdates \/ Restart \/ ChangeEvent \/ Tick \/ UNCHANGED vars => rows' = rows
  BY DEF GetUpdates, Restart, ChangeEvent, Tick, vars
<1> HIDE DEF Remains
<1>13. Remains
  BY <1>0, <1>1, <1>2, <1>3, <1>4, <1>5, <1>6, <1>8, <1>9, <1>10, <1>11, <1>12 DEF Next
<1> QED BY <1>13 DEF Remains

\* The clock goes on, and a deleted event does not come back.
LEMMA OnlyOn ==
    ASSUME TypeOK, [Next]_vars
    PROVE  now <= now' /\ (event'.live => event.live)
<1> DEFINE On == now <= now' /\ (event'.live => event.live)
<1>1. UNCHANGED <<now, event>> => On
  BY DEF TypeOK
<1>2. Tick \/ DeleteEvent \/ ChangeEvent => On
  BY DEF Tick, DeleteEvent, ChangeEvent, TypeOK
<1> HIDE DEF On
<1>3. ASSUME NEW i \in Invoices, NEW u \in Users, NEW n \in SeatNumbers, PrepareInvoice(i, u, n)
      PROVE  On
  BY <1>1, <1>3 DEF PrepareInvoice
<1>4. ASSUME NEW b \in Attempts, NEW i \in Invoices, NEW p \in Users, Ask(b, i, p) PROVE On
  BY <1>1, <1>4 DEF Ask
<1>5. ASSUME NEW b \in Attempts, PreCheckout(b) \/ Refuse(b) \/ Charge(b) PROVE On
  BY <1>1, <1>5 DEF PreCheckout, Refuse, Charge
<1>6. ASSUME NEW b \in Attempts, CheckoutFind(b) \/ CheckoutUpdate(b) \/ CheckoutFails(b)
      PROVE  On
  BY <1>1, <1>6 DEF CheckoutFind, CheckoutUpdate, CheckoutFails
<1>7. ASSUME NEW u \in Users, TakeAway(u) \/ Cancel(u, 0) \/ Cancel(u, 1) \/ SignUpChild(u)
      PROVE  On
  BY <1>1, <1>7 DEF TakeAway, Cancel, SignUpChild
<1>8. ClearFailedPayments \/ GetUpdates \/ Restart \/ UNCHANGED vars => On
  BY <1>1 DEF ClearFailedPayments, GetUpdates, Restart, vars
<1>9. On
  BY <1>2, <1>3, <1>4, <1>5, <1>6, <1>7, <1>8 DEF Next
<1> QED BY <1>9 DEF On

\* Every step keeps the reservation of a prompt payment.
LEMMA StandsKept ==
    ASSUME TypeOK, TypeOK', Early, Single, Stands, [Next]_vars
    PROVE  Stands'
<1> SUFFICES ASSUME NEW a \in Attempts, Fresh(a)'
             PROVE  \E r \in rows' : Its(a, r)'
  BY DEF Stands
<1>1. /\ Sole(a)' /\ event'.live
      /\ attempts'[a].since >= 0 /\ now' <= attempts'[a].since + Expiry
      /\ InvoiceOf(a)'.user = attempts'[a].payer
  BY DEF Fresh
<1>2. attempts[a].stage # "idle"
  <2>1. SUFFICES ASSUME attempts[a].stage = "idle" PROVE FALSE
    OBVIOUS
  <2>2. attempts[a].since = -1 /\ ~ Booked(a)
    BY <2>1 DEF Early, Booked
  <2> QED BY <1>1, <2>2, SinceFrom
<1>3. /\ Sole(a) /\ InvoiceOf(a)' = InvoiceOf(a)
      /\ attempts'[a].payer = attempts[a].payer
  BY <1>1, <1>2, SoleBefore, TriesGoOn
<1>4. CASE Booked(a)
  <2>1. PICK r \in rows' : /\ r.user = attempts[a].payer /\ r.seats = InvoiceOf(a).seats
                           /\ r.ts = now
    BY <1>4 DEF Booked
  <2>2. attempts'[a].since = now /\ attempts'[a].stage # "found"
    BY <1>4 DEF Booked
  <2> QED BY <1>3, <2>1, <2>2 DEF Its
<1>5. CASE ~ Booked(a)
  <2>1. attempts'[a].since = attempts[a].since /\ attempts[a].since >= 0
    BY <1>1, <1>5, SinceFrom
  <2>3. now <= attempts[a].since + Expiry /\ event.live
    <3>1. now \in Nat /\ now' \in Nat /\ attempts[a].since \in Int /\ Expiry \in Nat
      BY NumbersAssumption DEF TypeOK, Attempt
    <3> QED BY <1>1, <2>1, <3>1, OnlyOn
  <2>4. Fresh(a)
    BY <1>1, <1>3, <2>1, <2>3 DEF Fresh
  <2>5. PICK r \in rows : Its(a, r)
    BY <2>4 DEF Stands
  <2>6. PICK s \in rows' : Same(r, s)
    BY <1>1, <2>3, <2>5, RowStays DEF Its
  <2>7. ASSUME attempts'[a].stage = "found" PROVE s.id = attempts'[a].row
    <3>1. ASSUME attempts[a].stage = "found", attempts'[a].row = attempts[a].row
          PROVE  s.id = attempts'[a].row
      BY <2>5, <2>6, <3>1 DEF Its, Same
    <3>2. ASSUME NEW x \in Pending(a), attempts'[a].row = x.id
          PROVE  s.id = attempts'[a].row
      <4>1. x \in rows /\ x.seats = InvoiceOf(a).seats
        BY DEF Pending
      <4>2. x = r
        BY <1>2, <1>3, <2>5, <4>1 DEF Single, Its
      <4> QED BY <2>6, <3>2, <4>2 DEF Same
    <3> QED BY <2>7, <3>1, <3>2, FoundFrom
  <2> QED BY <1>3, <2>1, <2>5, <2>6, <2>7 DEF Its, Same
<1> QED BY <1>4, <1>5

\* Serving: the reservation of a sole try is the only one of its kind and stands
\* while the payment is prompt.
LEMMA ServedAlways == Spec => []Served
<1>1. Init => Served
  BY DEF Init, Served, Early, Made, Single, Stands, Fresh
<1>2. TypeOK /\ TypeOK' /\ Served /\ [Next]_vars => Served'
  BY EarlyKept, MadeKept, SingleKept, StandsKept DEF Served
<1> QED BY <1>1, <1>2, PaymentsTypeCorrect, PTL DEF Spec

\* The bot is through with a payment in one of four ways.
LEMMA ProcessedBy ==
    ASSUME TypeOK, [Next]_vars, NEW a \in Attempts, Processed(a)
    PROVE  CheckoutFind(a) \/ CheckoutUpdate(a) \/ CheckoutFails(a) \/ Restart
<1> DEFINE Through == attempts[a].stage \in {"charged", "found"} /\ attempts'[a].stage \in {"paid", "lost"}
           Ways == CheckoutFind(a) \/ CheckoutUpdate(a) \/ CheckoutFails(a) \/ Restart
<1>0. attempts \in [Attempts -> Attempt]
  BY DEF TypeOK
<1>1. attempts'[a] = attempts[a] => ~Through
  OBVIOUS
<1>2. ASSUME NEW b \in Attempts, NEW i \in Invoices, NEW p \in Users, Ask(b, i, p) PROVE ~Through
  BY <1>0, <1>1, <1>2 DEF Ask
<1>3. ASSUME NEW b \in Attempts, NEW stage, Stage(b, stage),
             attempts[b].stage \notin {"charged", "found"}
      PROVE  ~Through
  BY <1>0, <1>1, <1>3 DEF Stage
<1>4. ASSUME NEW b \in Attempts, PreCheckout(b) PROVE ~Through
  <2>1. attempts[b].stage = "asked" /\ Reserve(b)
    BY <1>4 DEF PreCheckout
  <2>2. \/ Stage(b, "refused") \/ Stage(b, "approved")
        \/ attempts' = [attempts EXCEPT ![b].stage = "approved", ![b].since = now]
    BY <2>1 DEF Reserve
  <2> QED BY <1>0, <1>1, <1>3, <2>1, <2>2
<1>5. ASSUME NEW b \in Attempts, Refuse(b) \/ Charge(b) PROVE ~Through
  BY <1>3, <1>5 DEF Refuse, Charge
<1>6. ASSUME NEW b \in Attempts, b # a, CheckoutFind(b) \/ CheckoutUpdate(b) \/ CheckoutFails(b)
      PROVE  ~Through
  BY <1>0, <1>1, <1>6 DEF CheckoutFind, CheckoutUpdate, CheckoutFails, Stage
<1>7. ASSUME NEW u \in Users, Forget(u) PROVE ~Through
  <2>1. attempts'[a].stage = attempts[a].stage
    BY <1>0, <1>7 DEF Forget, Attempt
  <2> QED BY <2>1
<1>8. ASSUME NEW u \in Users, TakeAway(u) \/ Cancel(u, 0) \/ Cancel(u, 1) PROVE ~Through
  BY <1>7, <1>8 DEF TakeAway, Cancel
<1> HIDE DEF Through
<1>9. ASSUME NEW u \in Users, SignUpChild(u) PROVE ~Through
  BY <1>1, <1>9 DEF SignUpChild
<1>10. ASSUME NEW i \in Invoices, NEW u \in Users, NEW n \in SeatNumbers, PrepareInvoice(i, u, n)
       PROVE  ~Through
  BY <1>1, <1>10 DEF PrepareInvoice
<1>11. \/ ClearFailedPayments \/ DeleteEvent \/ ChangeEvent \/ Tick \/ GetUpdates
       \/ UNCHANGED vars
       => ~Through
  BY <1>1 DEF ClearFailedPayments, DeleteEvent, ChangeEvent, Tick, GetUpdates, vars
<1>12. Through
  BY DEF Processed, Through
<1>13. ASSUME NEW b \in Attempts, CheckoutFind(b) \/ CheckoutUpdate(b) \/ CheckoutFails(b) PROVE Ways
  <2>1. b = a
    BY <1>6, <1>12, <1>13
  <2> QED BY <1>13, <2>1
<1> HIDE DEF Ways
<1>14. Restart => Ways
  BY DEF Ways
<1>15. Ways
  BY <1>2, <1>4, <1>5, <1>8, <1>9, <1>10, <1>11, <1>12, <1>13, <1>14 DEF Next
<1> QED BY <1>15 DEF Ways

\* Whoever pays promptly, under their own name and as the only one who buys that
\* many tickets, gets the ticket, unless a statement of checkout fails or the bot is
\* stopped: whatever rows have expired, been cancelled or been given an old id in
\* between checkout's SELECT and its UPDATE, and however often the payment comes.
THEOREM PromptServed == Spec => PromptPaymentServed
<1> DEFINE Due(a) ==
        /\ Processed(a)
        /\ attempts[a].since >= 0 /\ now <= attempts[a].since + Expiry
        /\ InvoiceOf(a).user = attempts[a].payer
        /\ \A b \in Attempts \ {a} :
              attempts[b].stage = "idle" \/ InvoiceOf(b).seats # InvoiceOf(a).seats
        /\ event.live
           Answer(a) == HasTicket(rows', a) \/ CheckoutFails(a) \/ Restart
<1>1. TypeOK /\ Served /\ [Next]_vars => [\A a \in Attempts : Due(a) => Answer(a)]_vars
  <2> SUFFICES ASSUME TypeOK, Served, [Next]_vars, NEW a \in Attempts, Due(a),
                      ~CheckoutFails(a), ~Restart
               PROVE  HasTicket(rows', a)
    OBVIOUS
  <2>1. CheckoutFind(a) \/ CheckoutUpdate(a)
    BY ProcessedBy
  <2>2. Fresh(a)
    BY DEF Fresh, Sole
  <2>3. PICK r \in rows : Its(a, r)
    BY <2>2 DEF Served, Stands
  <2>4. r.user = InvoiceOf(a).user /\ r.seats = InvoiceOf(a).seats
    BY <2>3 DEF Its
  <2>5. CASE CheckoutFind(a)
    <3>1. ASSUME NEW x, attempts' = [attempts EXCEPT ![a].stage = "found", ![a].row = x]
          PROVE  FALSE
      BY <3>1 DEF TypeOK, Attempt, Processed
    <3>2. Pending(a) = {} /\ rows' = rows
      BY <2>5, <3>1 DEF CheckoutFind
    <3>3. Paid(r)
      BY <2>4, <3>2 DEF Pending
    <3> QED BY <2>4, <3>2, <3>3 DEF HasTicket
  <2>6. CASE CheckoutUpdate(a)
    <3>1. r.id = attempts[a].row
      BY <2>3, <2>6 DEF Its, CheckoutUpdate
    <3> DEFINE paid == [r EXCEPT !.payment = a]
    <3>2. paid \in rows'
      BY <2>6, <3>1 DEF CheckoutUpdate, RowsAfterPayment
    <3>3. Paid(paid) /\ paid.user = r.user /\ paid.seats = r.seats
      BY InvoicesAssumption DEF TypeOK, Row, Paid
    <3> HIDE DEF paid
    <3> QED BY <2>4, <3>2, <3>3 DEF HasTicket
  <2> QED BY <2>1, <2>5, <2>6
<1>2. [\A a \in Attempts : Due(a) => Answer(a)]_vars
      => [\A a \in Attempts :
            LET u == attempts[a].payer
                sole == \A b \in Attempts \ {a} :
                    attempts[b].stage = "idle" \/ InvoiceOf(b).seats # InvoiceOf(a).seats
            IN  /\ Processed(a)
                /\ attempts[a].since >= 0 /\ now <= attempts[a].since + Expiry
                /\ InvoiceOf(a).user = u /\ sole /\ event.live
                => HasTicket(rows', a) \/ CheckoutFails(a) \/ Restart]_vars
  OBVIOUS
<1> QED BY <1>1, <1>2, PaymentsTypeCorrect, ServedAlways, PTL DEF Spec, PromptPaymentServed
=============================================================================
