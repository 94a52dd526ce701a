------------------------ MODULE BookingRefundsProofs ------------------------
(***************************************************************************)
(* Theorems about BookingRefunds, for any captures of a booking, any       *)
(* number of refunds, calls, events and retrievals in flight. And about    *)
(* LegalDocuments, which MCBookingRefunds runs with them, for any number   *)
(* of payments, amendments, documents and prices: the documents of an      *)
(* invoice end at zero and its chain of notes verifies whatever becomes of *)
(* the payments behind it.                                                 *)
(***************************************************************************)
EXTENDS MCBookingRefunds, SumProofs

Final == {"failed", "canceled"}

(* Row k takes a status and a reference and keeps its source and amount. *)
RowSet(k, status, ref) ==
    /\ refunds' \in [Keys -> RefundRows]
    /\ refunds'[k].status = status /\ refunds'[k].ref = ref
    /\ refunds'[k].source = refunds[k].source /\ refunds'[k].amount = refunds[k].amount
    /\ \A j \in Keys \ {k} : refunds'[j] = refunds[j]

RowStates == {"PENDING", "SUCCEEDED", "FAILED"}

LEMMA RowIsSet ==
    ASSUME TypeOK, NEW k \in Keys, NEW status \in RowStates, NEW ref \in Keys \cup {ClaimReference},
           \/ refunds' = [refunds EXCEPT ![k].ref = ref, ![k].status = status]
           \/ ref = refunds[k].ref /\ refunds' = [refunds EXCEPT ![k].status = status]
    PROVE  RowSet(k, status, ref)
  <1>1. refunds \in [Keys -> RefundRows] /\ refunds[k] \in RefundRows
    BY DEF TypeOK
  <1>2. CASE refunds' = [refunds EXCEPT ![k].ref = ref, ![k].status = status]
    <2>1. refunds' = [refunds EXCEPT ![k] = [refunds[k] EXCEPT !.ref = ref, !.status = status]]
      BY <1>1, <1>2
    <2>2. refunds'[k] = [refunds[k] EXCEPT !.ref = ref, !.status = status]
          /\ \A j \in Keys \ {k} : refunds'[j] = refunds[j]
      BY <1>1, <2>1
    <2>3. [refunds[k] EXCEPT !.ref = ref, !.status = status] \in RefundRows
      BY <1>1 DEF RefundRows, RowStates
    <2>4. refunds' \in [Keys -> RefundRows]
      BY <1>1, <2>1, <2>3
    <2>5. QED  BY <1>1, <2>2, <2>4 DEF RowSet, RefundRows
  <1>3. CASE ref = refunds[k].ref /\ refunds' = [refunds EXCEPT ![k].status = status]
    <2>1. refunds' = [refunds EXCEPT ![k] = [refunds[k] EXCEPT !.status = status]]
      BY <1>1, <1>3
    <2>2. refunds'[k] = [refunds[k] EXCEPT !.status = status]
          /\ \A j \in Keys \ {k} : refunds'[j] = refunds[j]
      BY <1>1, <2>1
    <2>3. [refunds[k] EXCEPT !.status = status] \in RefundRows
      BY <1>1 DEF RefundRows, RowStates
    <2>4. refunds' \in [Keys -> RefundRows]
      BY <1>1, <2>1, <2>3
    <2>5. QED  BY <1>1, <1>3, <2>2, <2>4 DEF RowSet, RefundRows
  <1>4. QED  BY <1>2, <1>3

LEMMA RowStatusType == \A status \in ProviderStatus :
    /\ RowStatus(status) \in RowStates
    /\ RowStatus(status) = "FAILED" <=> status \in Final
  BY DEF RowStatus, RowStates, ProviderStatus, Final

----------------------------------------------------------------------------
\* Sums of the ledger.

LEMMA TotalIsNat ==
    Total \in Nat /\ \A s \in Sources : Captured[s] \in Nat /\ Captured[s] <= Total
  <1>1. IsFiniteSet(Sources) /\ \A s \in Sources : Captured[s] \in Nat
    BY RefundsAssumption DEF RefundsAssumption, Sources
  <1>2. Total \in Nat
    BY <1>1, SumNat DEF Total
  <1>3. ASSUME NEW s \in Sources PROVE Captured[s] <= Total
    <2>1. SumFunctionOnSet(Captured, {s}) = Captured[s]
      <3>1. SumFunctionOnSet(Captured, {} \cup {s}) = SumFunctionOnSet(Captured, {}) + Captured[s]
        <4>1. IsFiniteSet({}) /\ s \notin {} /\ Captured[s] \in Int
          BY <1>1, FS_EmptySet
        <4>2. QED  BY <4>1, SumAdd
      <3>2. SumFunctionOnSet(Captured, {}) = 0
        BY SumEmpty
      <3>3. {} \cup {s} = {s}
        OBVIOUS
      <3>4. QED  BY <1>1, <3>1, <3>2, <3>3
    <2>2. {s} \in SUBSET Sources
      OBVIOUS
    <2>3. SumFunctionOnSet(Captured, {s}) <= SumFunctionOnSet(Captured, Sources)
      BY <1>1, <2>2, SumPart
    <2>4. QED  BY <2>1, <2>3 DEF Total
  <1>4. QED  BY <1>1, <1>2, <1>3

(* A set of rows has the same sum in a step that leaves their amounts alone. *)
LEMMA AmountKept ==
    ASSUME NEW S \in SUBSET Keys, \A k \in S : refunds'[k].amount = refunds[k].amount
    PROVE  AmountOfRefunds(S)' = AmountOfRefunds(S)
  <1> DEFINE f == [k \in Keys |-> refunds[k].amount]
             g == [k \in Keys |-> refunds'[k].amount]
  <1>1. IsFiniteSet(S)
    BY FS_Subset, RefundsAssumption DEF RefundsAssumption
  <1>2. \A k \in S : g[k] = f[k]
    OBVIOUS
  <1>3. SumFunctionOnSet(g, S) = SumFunctionOnSet(f, S)
    <2> HIDE DEF f, g
    <2>1. QED  BY <1>1, <1>2, SumAgrees
  <1>4. QED  BY <1>3 DEF AmountOfRefunds

LEMMA AmountNat ==
    TypeOK => \A S \in SUBSET Keys :
        /\ AmountOfRefunds(S) \in Nat
        /\ \A T \in SUBSET S : AmountOfRefunds(T) <= AmountOfRefunds(S)
        /\ \A k \in Keys : AmountOfRefunds(S) = AmountOfRefunds(S \ {k})
                               + (IF k \in S THEN refunds[k].amount ELSE 0)
  <1> SUFFICES ASSUME TypeOK, NEW S \in SUBSET Keys
               PROVE  /\ AmountOfRefunds(S) \in Nat
                      /\ \A T \in SUBSET S : AmountOfRefunds(T) <= AmountOfRefunds(S)
                      /\ \A k \in Keys : AmountOfRefunds(S) = AmountOfRefunds(S \ {k})
                                             + (IF k \in S THEN refunds[k].amount ELSE 0)
    OBVIOUS
  <1> DEFINE f == [k \in Keys |-> refunds[k].amount]
  <1>1. IsFiniteSet(S)
    BY FS_Subset, RefundsAssumption DEF RefundsAssumption
  <1>2. \A k \in Keys : f[k] \in Nat /\ f[k] = refunds[k].amount
    BY TotalIsNat DEF TypeOK, RefundRows
  <1>3. \A R : AmountOfRefunds(R) = SumFunctionOnSet(f, R)
    BY DEF AmountOfRefunds
  <1> HIDE DEF f
  <1>4. AmountOfRefunds(S) \in Nat
    BY <1>1, <1>2, <1>3, SumNat
  <1>5. ASSUME NEW T \in SUBSET S PROVE AmountOfRefunds(T) <= AmountOfRefunds(S)
    BY <1>1, <1>2, <1>3, SumPart
  <1>6. ASSUME NEW k \in Keys
        PROVE AmountOfRefunds(S) = AmountOfRefunds(S \ {k})
                  + (IF k \in S THEN refunds[k].amount ELSE 0)
    <2>1. CASE k \notin S
      <3>1. S \ {k} = S
        BY <2>1
      <3>2. QED  BY <1>4, <2>1, <3>1
    <2>2. CASE k \in S
      <3>1. SumFunctionOnSet(f, S) = f[k] + SumFunctionOnSet(f, S \ {k})
        BY <1>1, <1>2, <2>2, SumRemove
      <3>2. SumFunctionOnSet(f, S \ {k}) \in Nat
        <4>1. IsFiniteSet(S \ {k})
          BY <1>1, FS_Subset
        <4>2. QED  BY <1>2, <4>1, SumNat
      <3>3. QED  BY <1>2, <1>3, <2>2, <3>1, <3>2
    <2>3. QED  BY <2>1, <2>2
  <1>7. QED  BY <1>4, <1>5, <1>6

LEMMA AmountNatNext ==
    (TypeOK => \A S \in SUBSET Keys :
        /\ AmountOfRefunds(S) \in Nat
        /\ \A T \in SUBSET S : AmountOfRefunds(T) <= AmountOfRefunds(S)
        /\ \A k \in Keys : AmountOfRefunds(S) = AmountOfRefunds(S \ {k})
                               + (IF k \in S THEN refunds[k].amount ELSE 0))'
  BY AmountNat, PTL

----------------------------------------------------------------------------
\* The booking and its ledger.

Share(k) == IF refunds[k].status = "SUCCEEDED" THEN refunds[k].amount ELSE 0

LEMMA NetSplits == TypeOK => \A k \in Keys : Net({}) = Net({k}) - Share(k) /\ Net({k}) \in Int
  <1> SUFFICES ASSUME TypeOK, NEW k \in Keys
               PROVE  Net({}) = Net({k}) - Share(k) /\ Net({k}) \in Int
    OBVIOUS
  <1>1. PICK S : S = Counted("SUCCEEDED", {}) /\ S \in SUBSET Keys
    BY DEF Counted
  <1>2. S \ {k} = Counted("SUCCEEDED", {k})
    BY <1>1 DEF Counted
  <1>3. k \in S <=> refunds[k].status = "SUCCEEDED"
    BY <1>1 DEF Counted
  <1>4. AmountOfRefunds(S) = AmountOfRefunds(S \ {k}) + Share(k)
    BY <1>1, <1>3, AmountNat DEF Share
  <1>5. AmountOfRefunds(S \ {k}) \in Nat
    BY <1>1, AmountNat
  <1>6. Share(k) \in Nat
    BY TotalIsNat DEF Share, TypeOK, RefundRows
  <1>7. Net({}) = Total - AmountOfRefunds(S)
    BY <1>1 DEF Net
  <1>8. Net({k}) = Total - AmountOfRefunds(S \ {k})
    BY <1>2 DEF Net
  <1>9. AmountOfRefunds(S) \in Nat
    BY <1>1, AmountNat
  <1>10. QED  BY <1>4, <1>5, <1>6, <1>7, <1>8, <1>9, TotalIsNat

LEMMA NetSplitsNext ==
    (TypeOK => \A k \in Keys : Net({}) = Net({k}) - Share(k) /\ Net({k}) \in Int)'
  BY NetSplits, PTL

(* What the ledger is worth without a row does not depend on that row. *)
LEMMA NetElsewhere ==
    ASSUME NEW k \in Keys, \A j \in Keys \ {k} : refunds'[j] = refunds[j]
    PROVE  Net({k})' = Net({k})
  <1>1. PICK S : S = Counted("SUCCEEDED", {k}) /\ S = Counted("SUCCEEDED", {k})' /\ S \in SUBSET Keys
    BY DEF Counted
  <1>2. \A j \in S : refunds'[j].amount = refunds[j].amount
    BY <1>1 DEF Counted
  <1>3. AmountOfRefunds(S)' = AmountOfRefunds(S)
    BY <1>1, <1>2, AmountKept
  <1>4. Net({k}) = Total - AmountOfRefunds(S)
    BY <1>1 DEF Net
  <1>5. Net({k})' = Total - AmountOfRefunds(S)'
    BY <1>1 DEF Net, Total, Sources
  <1>6. QED  BY <1>3, <1>4, <1>5

LEMMA NetFollows ==
    ASSUME TypeOK, TypeOK', NEW k \in Keys, \A j \in Keys \ {k} : refunds'[j] = refunds[j]
    PROVE  Net({})' = Net({k}) - Share(k)'
  BY NetSplitsNext, NetElsewhere

----------------------------------------------------------------------------
\* What the steps that write a refund row do to it.

LEMMA NetStatusType == \A net : StatusOfNet(net) \in SettledStatus
  BY DEF StatusOfNet, SettledStatus

LEMMA ClaimEffect ==
    ASSUME TypeOK, NEW k \in Keys, NEW s \in Sources, NEW amount \in 1..Captured[s],
           ClaimRefund(k, s, amount)
    PROVE  /\ refunds' \in [Keys -> RefundRows]
           /\ \A j \in Keys \ {k} : refunds'[j] = refunds[j]
           /\ refunds'[k].status = "PENDING" /\ refunds'[k].ref = ClaimReference
           /\ refunds'[k].source = s /\ refunds'[k].amount = amount
           /\ refunds[k].status = "NONE" \/ IsClaim(k)
  <1>1. refunds \in [Keys -> RefundRows]
    BY DEF TypeOK
  <1>2. amount \in 0..Total
    BY TotalIsNat
  <1> DEFINE row == [status |-> "PENDING", ref |-> ClaimReference, source |-> s, amount |-> amount]
  <1>3. CASE refunds' = [refunds EXCEPT ![k] = row]
    <2>1. row \in RefundRows
      BY <1>2 DEF RefundRows
    <2>2. refunds'[k] = row /\ \A j \in Keys \ {k} : refunds'[j] = refunds[j]
      BY <1>1, <1>3
    <2>3. refunds' \in [Keys -> RefundRows]
      BY <1>1, <1>3, <2>1
    <2>4. refunds[k].status = "NONE" \/ IsClaim(k)
      BY DEF ClaimRefund
    <2>5. QED  BY <2>2, <2>3, <2>4
  <1>4. CASE /\ UNCHANGED refunds /\ IsClaim(k)
             /\ s = refunds[k].source /\ amount = refunds[k].amount
    BY <1>1, <1>4 DEF IsClaim
  <1>5. QED  BY <1>3, <1>4 DEF ClaimRefund

LEMMA RecordEffect ==
    ASSUME TypeOK, NEW k \in Keys, NEW ref \in Keys, NEW status \in RowStates,
           Record(k, ref, status)
    PROVE  /\ RowSet(k, status, ref)
           /\ booking' \in [status : {booking.status}, paymentStatus : SettledStatus]
           /\ booking'.paymentStatus =
                IF status = "SUCCEEDED" THEN StatusOfNet(Net({k}) - refunds[k].amount)
                                        ELSE booking.paymentStatus
  <1>1. RowSet(k, status, ref)
    BY RowIsSet DEF Record
  <1>2. QED  BY <1>1, NetStatusType DEF Record, TypeOK

(* The answer of a call names its claim, or finds the row named. *)
LEMMA PersistEffect ==
    ASSUME TypeOK, NEW c \in calls, PersistRefund(c), provider[c.key].answered # "none"
    PROVE  \/ UNCHANGED <<refunds, booking>>
           \/ /\ refunds[c.key].ref = ClaimReference
              /\ \A j \in Keys : refunds[j].ref # c.key
              /\ booking.status = "CONFIRMED"
              /\ Record(c.key, c.key, RowStatus(provider[c.key].answered))
              /\ RowStatus(provider[c.key].answered) \in RowStates
              /\ c.key \in Keys
  <1>1. c.key \in Keys /\ provider[c.key].answered \in ProviderStatus
    BY DEF TypeOK, Calls, ProviderRows
  <1>2. QED  BY <1>1, RowStatusType DEF PersistRefund

LEMMA FailEffect ==
    ASSUME TypeOK, NEW c \in calls, FailInternalClaim(c)
    PROVE  /\ UNCHANGED booking
           /\ \/ UNCHANGED refunds
              \/ c.key \in Keys /\ IsClaim(c.key) /\ RowSet(c.key, "FAILED", ClaimReference)
  <1>1. c.key \in Keys
    BY DEF TypeOK, Calls
  <1>2. CASE IsClaim(c.key)
    BY <1>1, <1>2, RowIsSet DEF FailInternalClaim, IsClaim, RowStates
  <1>3. CASE ~IsClaim(c.key)
    BY <1>3 DEF FailInternalClaim
  <1>4. QED  BY <1>2, <1>3

(* An event binds its refund to a row, or finds nothing that it may bind. *)
LEMMA IngestEffect ==
    ASSUME TypeOK, NEW e \in undelivered, IngestRefund(e[2], e[1])
    PROVE  /\ e[2] \in Keys /\ e[1] \in ProviderStatus
           /\ \/ /\ booking.status = "CONFIRMED"
                 /\ Cardinality(Candidates(e[2])) = 1
                 /\ \E j \in Candidates(e[2]) :
                       /\ j \in Keys
                       /\ UnclaimedReference(e[2], j)
                       /\ Plans(refunds[j].source, refunds[j].amount, booking.paymentStatus, {j})
                       /\ RowStatus(e[1]) \in RowStates
                       /\ refunds[j].status = "PENDING"
                       /\ Record(j, e[2], RowStatus(e[1]))
              \/ /\ booking.status # "CONFIRMED" \/ Candidates(e[2]) = {}
                 /\ UNCHANGED <<booking, refunds>>
  <1>1. e[2] \in Keys /\ e[1] \in ProviderStatus
    BY DEF TypeOK, Events
  <1>2. \A j \in Candidates(e[2]) : j \in Keys /\ refunds[j].status = "PENDING"
    BY DEF Candidates, Matching, IsClaim
  <1>3. QED  BY <1>1, <1>2, RowStatusType DEF IngestRefund

(* What was retrieved is applied to a row that carries the refund. *)
LEMMA ApplyEffect ==
    ASSUME TypeOK, NEW n \in snapshots, ApplySnapshot(n)
    PROVE  \E k \in Keys :
              /\ refunds[k].ref = n.key /\ n.key \in Keys
              /\ Reconcilable(k)
              /\ n.status \in ProviderStatus
              /\ RowStatus(n.status) \in RowStates
              /\ RowSet(k, RowStatus(n.status), n.key)
              /\ booking' \in [status : {booking.status}, paymentStatus : SettledStatus]
              /\ booking'.paymentStatus = StatusWith(k, RowStatus(n.status))
  <1>1. PICK k \in Keys :
           /\ refunds[k].ref = n.key
           /\ Reconcilable(k)
           /\ refunds' = [refunds EXCEPT ![k].status = RowStatus(n.status)]
           /\ booking' = [booking EXCEPT !.paymentStatus = StatusWith(k, RowStatus(n.status))]
    BY DEF ApplySnapshot
  <1>2. n.key \in Keys /\ n.status \in ProviderStatus
    BY DEF TypeOK, Snapshots
  <1>3. RowStatus(n.status) \in RowStates
    BY <1>2, RowStatusType
  <1>4. RowSet(k, RowStatus(n.status), n.key)
    BY <1>1, <1>2, <1>3, RowIsSet
  <1>5. StatusWith(k, RowStatus(n.status)) \in SettledStatus
    BY NetStatusType DEF StatusWith
  <1>6. QED  BY <1>1, <1>2, <1>3, <1>4, <1>5 DEF TypeOK

----------------------------------------------------------------------------
\* Types, and what is known of a refund.

RowInv(k) ==
    /\ refunds[k].status = "NONE" =>
           /\ refunds[k].ref = ClaimReference
           /\ provider[k].status = "none"
           /\ \A c \in calls : c.key # k
    /\ refunds[k].status = "SUCCEEDED" => refunds[k].ref # ClaimReference

(* Whatever was told of a refund, by an answer, an event or a retrieval, it exists, and a refund *)
(* that was told to have failed has.                                                             *)
ToldInv(k) ==
    /\ provider[k].answered = "none" <=> provider[k].status \in {"none", "refused"}
    /\ provider[k].answered \in Final => provider[k].status \in Final
    /\ \A e \in undelivered : e[2] = k =>
           provider[k].answered # "none" /\ (e[1] \in Final => provider[k].status \in Final)
    /\ \A n \in snapshots : n.key = k =>
           provider[k].answered # "none" /\ (n.status \in Final => provider[k].status \in Final)
    /\ \A c \in calls : c.key = k /\ c.phase = "ANSWERED" => provider[k].answered # "none"

(* A row that carries the refund of another request leaves that one no claim to bind. *)
NamedInv(k) ==
    \A j \in Keys : refunds[j].ref = k =>
        /\ provider[k].answered # "none"
        /\ j # k => ~IsClaim(k)

KnownInv == TypeOK /\ \A k \in Keys : RowInv(k) /\ ToldInv(k) /\ NamedInv(k)

(* What a step must do for what is known of a refund to stay true. *)
LEMMA TypeStep ==
    ASSUME KnownInv, Next
    PROVE  TypeOK'
  <1>0. /\ booking \in [status : {"CONFIRMED", "CANCELLED"}, paymentStatus : SettledStatus]
        /\ refunds \in [Keys -> RefundRows]
        /\ calls \subseteq Calls
        /\ snapshots \subseteq Snapshots
        /\ provider \in [Keys -> ProviderRows]
        /\ undelivered \subseteq Events
        /\ ingested \subseteq undelivered
        /\ credentials \in BOOLEAN
    BY DEF KnownInv, TypeOK
  <1>a. ASSUME NEW c \in calls, NEW phase \in {"CALLING", "ANSWERED", "REFUSED"}, Answer(c, phase)
        PROVE  calls' \subseteq Calls
    <2>1. [c EXCEPT !.phase = phase] \in Calls
      BY <1>0 DEF Calls
    <2>2. QED  BY <1>0, <1>a, <2>1 DEF Answer
  <1>b. ASSUME NEW k \in Keys, NEW status \in ProviderStatus, Emit(status, k)
        PROVE  undelivered' \subseteq Events /\ ingested' \subseteq undelivered'
    BY <1>0, <1>b DEF Emit, Events
  <1>c. \A e \in undelivered : e[1] \in ProviderStatus /\ e[2] \in Keys
    BY <1>0 DEF Events
  <1>1. ASSUME NEW k \in Keys, NEW s \in Sources, NEW amount \in 1..Captured[s],
               ClaimRefund(k, s, amount)
        PROVE  TypeOK'
    <2>1. refunds' \in [Keys -> RefundRows]
      BY <1>1, ClaimEffect DEF KnownInv
    <2>2. Call(k, StatusOfNet(Net({k}) - amount)) \in Calls
      BY NetStatusType DEF Call, Calls
    <2>3. QED  BY <1>0, <1>1, <2>1, <2>2 DEF ClaimRefund, TypeOK
  <1>2. ASSUME NEW c \in calls, PersistRefund(c)
        PROVE  TypeOK'
    <2>1. provider[c.key].answered # "none"
      BY <1>0, <1>2 DEF KnownInv, ToldInv, PersistRefund, Calls
    <2>2. CASE UNCHANGED <<refunds, booking>>
      BY <1>0, <1>2, <2>2 DEF PersistRefund, EndCall, TypeOK
    <2>3. CASE Record(c.key, c.key, RowStatus(provider[c.key].answered))
               /\ RowStatus(provider[c.key].answered) \in RowStates /\ c.key \in Keys
      <3>1. /\ refunds' \in [Keys -> RefundRows]
            /\ booking' \in [status : {booking.status}, paymentStatus : SettledStatus]
        BY <2>3, RecordEffect DEF RowSet, KnownInv
      <3>2. QED  BY <1>0, <1>2, <3>1 DEF PersistRefund, EndCall, TypeOK
    <2>4. QED  BY <1>2, <2>1, <2>2, <2>3, PersistEffect DEF KnownInv
  <1>3. ASSUME NEW c \in calls, FailInternalClaim(c)
        PROVE  TypeOK'
    <2>1. refunds' \in [Keys -> RefundRows] /\ UNCHANGED booking
      BY <1>0, <1>3, FailEffect DEF RowSet, KnownInv
    <2>2. QED  BY <1>0, <1>3, <2>1 DEF FailInternalClaim, EndCall, TypeOK
  <1>4. ASSUME NEW c \in calls, AbandonCall(c)
        PROVE  TypeOK'
    BY <1>0, <1>4 DEF AbandonCall, EndCall, TypeOK
  <1>5. ASSUME NEW c \in calls, NEW status \in FirstStatuses, ProviderRefunds(c, status)
        PROVE  TypeOK'
    <2>1. status \in ProviderStatus /\ c.key \in Keys
      BY <1>0, RefundsAssumption DEF RefundsAssumption, Calls
    <2>2. provider' \in [Keys -> ProviderRows]
      BY <1>0, <1>5, <2>1 DEF ProviderRefunds, ProviderRows
    <2>3. calls' \subseteq Calls
      BY <1>a, <1>5 DEF ProviderRefunds
    <2>4. undelivered' \subseteq Events /\ ingested' \subseteq undelivered'
      BY <1>b, <1>5, <2>1 DEF ProviderRefunds
    <2>5. QED  BY <1>0, <1>5, <2>2, <2>3, <2>4 DEF ProviderRefunds, TypeOK
  <1>6. ASSUME NEW c \in calls, ProviderRepeats(c)
        PROVE  TypeOK'
    <2>1. calls' \subseteq Calls
      BY <1>a, <1>6 DEF ProviderRepeats
    <2>2. QED  BY <1>0, <1>6, <2>1 DEF ProviderRepeats, TypeOK
  <1>7. ASSUME NEW c \in calls, ProviderRefuses(c)
        PROVE  TypeOK'
    <2>1. calls' \subseteq Calls
      BY <1>a, <1>7 DEF ProviderRefuses
    <2>2. c.key \in Keys
      BY <1>0 DEF Calls
    <2>3. provider' \in [Keys -> ProviderRows]
      BY <1>0, <1>7, <2>2 DEF ProviderRefuses, ProviderRows
    <2>4. QED  BY <1>0, <1>7, <2>1, <2>3 DEF ProviderRefuses, TypeOK
  <1>8. ASSUME NEW c \in calls, RefuseCredentials(c)
        PROVE  TypeOK'
    <2>1. calls' \subseteq Calls
      BY <1>a, <1>8 DEF RefuseCredentials
    <2>2. QED  BY <1>0, <1>8, <2>1 DEF RefuseCredentials, TypeOK
  <1>9. ASSUME NEW k \in Keys, NEW move \in Moves, ProviderMoves(k, move[2])
        PROVE  TypeOK'
    <2>1. move[2] \in ProviderStatus
      BY RefundsAssumption DEF RefundsAssumption
    <2>2. provider' \in [Keys -> ProviderRows]
      BY <1>0, <1>9, <2>1 DEF ProviderMoves, ProviderRows
    <2>3. undelivered' \subseteq Events /\ ingested' \subseteq undelivered'
      BY <1>b, <1>9, <2>1 DEF ProviderMoves
    <2>4. QED  BY <1>0, <1>9, <2>2, <2>3 DEF ProviderMoves, TypeOK
  <1>10. CASE RevokeCredentials
    BY <1>0, <1>10 DEF RevokeCredentials, TypeOK
  <1>11. ASSUME NEW e \in undelivered, IngestRefund(e[2], e[1])
         PROVE  TypeOK'
    <2>1. /\ refunds' \in [Keys -> RefundRows]
          /\ booking' \in [status : {booking.status}, paymentStatus : SettledStatus]
      <3>1. CASE UNCHANGED <<booking, refunds>>
        BY <1>0, <3>1
      <3>2. ASSUME NEW j \in Keys, Record(j, e[2], RowStatus(e[1])), RowStatus(e[1]) \in RowStates
            PROVE  /\ refunds' \in [Keys -> RefundRows]
                   /\ booking' \in [status : {booking.status}, paymentStatus : SettledStatus]
        BY <1>c, <3>2, RecordEffect DEF RowSet, KnownInv
      <3>3. QED  BY <1>11, <3>1, <3>2, IngestEffect DEF KnownInv
    <2>2. QED  BY <1>0, <1>11, <2>1 DEF IngestRefund, TypeOK
  <1>12. ASSUME NEW k \in Keys, NEW cause \in ProviderStatus \cup {"staff"},
                snapshots' = snapshots \cup {Snapshot(k, cause)},
                provider[k].answered # "none"
         PROVE  snapshots' \subseteq Snapshots
    <2>1. provider[k].status \in ProviderStatus
      BY <1>0, <1>12 DEF KnownInv, ToldInv, ProviderRows
    <2>2. Snapshot(k, cause) \in Snapshots
      BY <2>1 DEF Snapshot, Snapshots
    <2>3. QED  BY <1>0, <1>12, <2>2
  <1>13. ASSUME NEW e \in undelivered, RetrieveForEvent(e[2], e[1])
         PROVE  TypeOK'
    <2>1. provider[e[2]].answered # "none"
      BY <1>c DEF KnownInv, ToldInv
    <2>2. snapshots' \subseteq Snapshots
      BY <1>c, <1>12, <1>13, <2>1 DEF RetrieveForEvent
    <2>3. QED  BY <1>0, <1>13, <2>2 DEF RetrieveForEvent, TypeOK
  <1>14. ASSUME NEW e \in undelivered, DismissEvent(e[2], e[1])
         PROVE  TypeOK'
    BY <1>0, <1>14 DEF DismissEvent, Acknowledge, TypeOK
  <1>15. ASSUME NEW n \in snapshots, ApplySnapshot(n)
         PROVE  TypeOK'
    <2>1. /\ refunds' \in [Keys -> RefundRows]
          /\ booking' \in [status : {booking.status}, paymentStatus : SettledStatus]
      BY <1>15, ApplyEffect DEF RowSet, KnownInv
    <2>2. QED  BY <1>0, <1>15, <2>1 DEF ApplySnapshot, Acknowledge, TypeOK
  <1>16. ASSUME NEW n \in snapshots, AbandonSnapshot(n)
         PROVE  TypeOK'
    BY <1>0, <1>16 DEF AbandonSnapshot, TypeOK
  <1>17. ASSUME NEW k \in Keys, RetrieveForStaff(k)
         PROVE  TypeOK'
    <2>1. refunds[k].ref \in Keys /\ provider[refunds[k].ref].answered # "none"
      BY <1>0, <1>17 DEF RetrieveForStaff, RefundRows, KnownInv, NamedInv
    <2>2. snapshots' \subseteq Snapshots
      BY <1>12, <1>17, <2>1 DEF RetrieveForStaff
    <2>3. QED  BY <1>0, <1>17, <2>2 DEF RetrieveForStaff, TypeOK
  <1>18. CASE CancelBooking
    BY <1>0, <1>18 DEF CancelBooking, TypeOK
  <1>19. QED
    BY <1>1, <1>2, <1>3, <1>4, <1>5, <1>6, <1>7, <1>8, <1>9, <1>10, <1>11, <1>13, <1>14, <1>15,
       <1>16, <1>17, <1>18 DEF Next, RequestNext, ProviderNext, EventNext, StaffNext

(* Nothing is told, and no call is answered, without the provider. *)
LEMMA ToldKept ==
    ASSUME KnownInv, UNCHANGED provider, undelivered' \subseteq undelivered,
           snapshots' \subseteq snapshots,
           \A c \in calls' : c.phase = "ANSWERED" => provider[c.key].answered # "none"
    PROVE  \A k \in Keys : ToldInv(k)'
  BY DEF KnownInv, ToldInv

(* Rows stay as they are known while the provider only names more refunds. *)
LEMMA RowsKept ==
    ASSUME KnownInv, UNCHANGED refunds,
           \A c \in calls' : \E d \in calls : d.key = c.key,
           \A k \in Keys : provider[k].answered # "none" => provider'[k].answered # "none",
           \A k \in Keys : provider'[k] # provider[k] =>
               provider[k].status # "none" \/ \E c \in calls : c.key = k
    PROVE  \A k \in Keys : RowInv(k)' /\ NamedInv(k)'
  <1>1. ASSUME NEW k \in Keys PROVE RowInv(k)'
    BY DEF KnownInv, RowInv
  <1>2. ASSUME NEW k \in Keys PROVE NamedInv(k)'
    BY DEF KnownInv, NamedInv, IsClaim
  <1>3. QED  BY <1>1, <1>2

(* A row that is named stays known. *)
LEMMA RowNamed ==
    ASSUME KnownInv, NEW k \in Keys, NEW ref \in Keys, NEW status \in RowStates,
           RowSet(k, status, ref), UNCHANGED provider, calls' \subseteq calls,
           provider[ref].answered # "none", k # ref => ~IsClaim(ref)
    PROVE  \A i \in Keys : RowInv(i)' /\ NamedInv(i)'
  <1>1. ref # ClaimReference /\ ClaimReference \notin Keys
    BY RefundsAssumption DEF RefundsAssumption
  <1>2. ASSUME NEW i \in Keys PROVE RowInv(i)'
    BY <1>1 DEF KnownInv, RowInv, RowSet, RowStates
  <1>3. ASSUME NEW i \in Keys, NEW j \in Keys, refunds'[j].ref = i
        PROVE provider'[i].answered # "none" /\ (j # i => ~IsClaim(i)')
    <2>1. ~IsClaim(k)' /\ \A m \in Keys \ {k} : IsClaim(m)' <=> IsClaim(m)
      BY <1>1 DEF IsClaim, RowSet
    <2>2. CASE j = k
      BY <1>3, <2>1, <2>2 DEF RowSet
    <2>3. CASE j # k
      BY <1>3, <2>1, <2>3 DEF RowSet, KnownInv, NamedInv
    <2>4. QED  BY <2>2, <2>3
  <1>4. QED  BY <1>2, <1>3 DEF NamedInv

LEMMA KnownStep ==
    ASSUME KnownInv, Next
    PROVE  KnownInv'
  <1>t. TypeOK'
    BY TypeStep
  <1> SUFFICES \A k \in Keys : RowInv(k)' /\ ToldInv(k)' /\ NamedInv(k)'
    BY <1>t DEF KnownInv
  <1>0. /\ refunds \in [Keys -> RefundRows]
        /\ calls \subseteq Calls
        /\ snapshots \subseteq Snapshots
        /\ provider \in [Keys -> ProviderRows]
        /\ undelivered \subseteq Events
        /\ \A c \in calls : c.key \in Keys
        /\ \A c \in calls : c.phase = "ANSWERED" => provider[c.key].answered # "none"
        /\ \A e \in undelivered : e[1] \in ProviderStatus /\ e[2] \in Keys
        /\ \A e \in undelivered : provider[e[2]].answered # "none"
        /\ ClaimReference \notin Keys
    BY RefundsAssumption DEF RefundsAssumption, KnownInv, TypeOK, Calls, Events, ToldInv
  <1>a. ASSUME NEW c \in calls, NEW phase \in {"CALLING", "ANSWERED", "REFUSED"}, Answer(c, phase)
        PROVE  /\ \A d \in calls' : \E e \in calls : e.key = d.key
               /\ \A d \in calls' : d \in calls \/ (d.key = c.key /\ d.phase = phase)
    <2>1. [c EXCEPT !.phase = phase].key = c.key /\ [c EXCEPT !.phase = phase].phase = phase
      BY <1>0 DEF Calls
    <2>2. QED  BY <1>a, <2>1 DEF Answer
  <1>1. ASSUME NEW k \in Keys, NEW s \in Sources, NEW amount \in 1..Captured[s],
               ClaimRefund(k, s, amount)
        PROVE  \A i \in Keys : RowInv(i)' /\ ToldInv(i)' /\ NamedInv(i)'
    <2>1. /\ \A j \in Keys \ {k} : refunds'[j] = refunds[j]
          /\ refunds'[k].status = "PENDING" /\ refunds'[k].ref = ClaimReference
          /\ refunds[k].status = "NONE" \/ IsClaim(k)
      BY <1>1, ClaimEffect DEF KnownInv
    <2>2. PICK new : calls' = calls \cup {new} /\ new.key = k /\ new.phase = "CALLING"
      <3>1. \A next : Call(k, next).key = k /\ Call(k, next).phase = "CALLING"
        BY DEF Call
      <3>2. QED  BY <1>1, <3>1 DEF ClaimRefund
    <2>3. UNCHANGED <<snapshots, provider, undelivered>>
      BY <1>1 DEF ClaimRefund
    <2>4. \A i \in Keys : ToldInv(i)'
      BY <1>0, <2>2, <2>3, ToldKept
    <2>5. ASSUME NEW i \in Keys PROVE RowInv(i)'
      BY <2>1, <2>2, <2>3 DEF KnownInv, RowInv
    <2>6. ASSUME NEW i \in Keys PROVE NamedInv(i)'
      <3>1. ASSUME NEW j \in Keys, refunds'[j].ref = i
            PROVE  provider'[i].answered # "none" /\ (j # i => ~IsClaim(i)')
        <4>1. j # k /\ refunds[j].ref = i
          BY <1>0, <2>1, <3>1
        <4>2. provider[i].answered # "none" /\ (j # i => ~IsClaim(i))
          BY <4>1 DEF KnownInv, NamedInv
        <4>3. i = k => j # i /\ refunds[k].status = "NONE"
          BY <2>1, <4>1, <4>2
        <4>4. i # k
          BY <4>2, <4>3 DEF KnownInv, RowInv, ToldInv
        <4>5. QED  BY <2>1, <2>3, <4>2, <4>4 DEF IsClaim
      <3>2. QED  BY <3>1 DEF NamedInv
    <2>7. QED  BY <2>4, <2>5, <2>6
  <1>2. ASSUME NEW c \in calls, PersistRefund(c)
        PROVE  \A i \in Keys : RowInv(i)' /\ ToldInv(i)' /\ NamedInv(i)'
    <2>1. provider[c.key].answered # "none"
      BY <1>0, <1>2 DEF PersistRefund
    <2>2. UNCHANGED <<snapshots, provider, undelivered>> /\ calls' \subseteq calls
      BY <1>2 DEF PersistRefund, EndCall
    <2>3. \A i \in Keys : ToldInv(i)'
      BY <1>0, <2>2, ToldKept
    <2>4. CASE UNCHANGED refunds
      BY <2>2, <2>3, <2>4, RowsKept
    <2>5. CASE Record(c.key, c.key, RowStatus(provider[c.key].answered))
               /\ RowStatus(provider[c.key].answered) \in RowStates /\ c.key \in Keys
      <3>1. RowSet(c.key, RowStatus(provider[c.key].answered), c.key)
        BY <2>5, RecordEffect DEF KnownInv
      <3>2. QED  BY <2>1, <2>2, <2>3, <2>5, <3>1, RowNamed
    <2>6. QED  BY <1>2, <2>1, <2>4, <2>5, PersistEffect DEF KnownInv
  <1>3. ASSUME NEW c \in calls, FailInternalClaim(c)
        PROVE  \A i \in Keys : RowInv(i)' /\ ToldInv(i)' /\ NamedInv(i)'
    <2>1. UNCHANGED <<snapshots, provider, undelivered>> /\ calls' \subseteq calls
      BY <1>3 DEF FailInternalClaim, EndCall
    <2>2. \A i \in Keys : ToldInv(i)'
      BY <1>0, <2>1, ToldKept
    <2>3. CASE UNCHANGED refunds
      BY <2>1, <2>2, <2>3, RowsKept
    <2>4. CASE c.key \in Keys /\ IsClaim(c.key) /\ RowSet(c.key, "FAILED", ClaimReference)
      <3>1. ASSUME NEW i \in Keys PROVE RowInv(i)'
        BY <2>1, <2>4 DEF KnownInv, RowInv, RowSet
      <3>2. ASSUME NEW i \in Keys PROVE NamedInv(i)'
        BY <1>0, <2>1, <2>4 DEF KnownInv, NamedInv, RowSet, IsClaim
      <3>3. QED  BY <2>2, <3>1, <3>2
    <2>5. QED  BY <1>3, <2>3, <2>4, FailEffect DEF KnownInv
  <1>4. ASSUME NEW c \in calls, AbandonCall(c)
        PROVE  \A i \in Keys : RowInv(i)' /\ ToldInv(i)' /\ NamedInv(i)'
    <2>1. UNCHANGED <<refunds, snapshots, provider, undelivered>> /\ calls' \subseteq calls
      BY <1>4 DEF AbandonCall, EndCall
    <2>2. QED  BY <1>0, <2>1, ToldKept, RowsKept
  <1>5. ASSUME NEW c \in calls, NEW status \in FirstStatuses, ProviderRefunds(c, status)
        PROVE  \A i \in Keys : RowInv(i)' /\ ToldInv(i)' /\ NamedInv(i)'
    <2> DEFINE k == c.key
    <2>1. /\ status \in ProviderStatus /\ k \in Keys
          /\ "none" \notin ProviderStatus /\ "refused" \notin ProviderStatus
      BY <1>0, RefundsAssumption DEF RefundsAssumption, ProviderStatus
    <2>2. /\ provider'[k].status = status /\ provider'[k].answered = status
          /\ \A i \in Keys \ {k} : provider'[i] = provider[i]
          /\ provider[k].status = "none"
      BY <1>0, <1>5, <2>1 DEF ProviderRefunds
    <2>3. /\ UNCHANGED <<refunds, snapshots>> /\ Answer(c, "ANSWERED")
          /\ undelivered' = undelivered \cup {<<status, k>>}
      BY <1>5 DEF ProviderRefunds, Emit
    <2>4. provider[k].answered = "none"
      BY <2>1, <2>2 DEF KnownInv, ToldInv
    <2>5. /\ \A d \in calls' : \E e \in calls : e.key = d.key
          /\ \A d \in calls' : d \in calls \/ d.key = k
      BY <1>a, <2>3
    <2>6. \A i \in Keys : RowInv(i)' /\ NamedInv(i)'
      BY <2>1, <2>2, <2>3, <2>4, <2>5, RowsKept
    <2>7. ToldInv(k)'
      <3>1. /\ \A n \in snapshots : n.key # k
            /\ \A e \in undelivered : e[2] # k
        BY <2>1, <2>4 DEF KnownInv, ToldInv
      <3>2. QED  BY <2>1, <2>2, <2>3, <3>1 DEF ToldInv
    <2>8. ASSUME NEW i \in Keys \ {k} PROVE ToldInv(i)'
      BY <2>2, <2>3, <2>5 DEF KnownInv, ToldInv
    <2>9. QED  BY <2>6, <2>7, <2>8
  <1>6. ASSUME NEW c \in calls, ProviderRepeats(c)
        PROVE  \A i \in Keys : RowInv(i)' /\ ToldInv(i)' /\ NamedInv(i)'
    <2>1. UNCHANGED <<refunds, snapshots, provider, undelivered>>
      BY <1>6 DEF ProviderRepeats
    <2>2. PICK phase \in {"CALLING", "ANSWERED", "REFUSED"} :
             /\ Answer(c, phase)
             /\ phase = "ANSWERED" => provider[c.key].answered # "none"
      BY <1>0, <1>6 DEF ProviderRepeats, KnownInv, ToldInv
    <2>3. /\ \A d \in calls' : \E e \in calls : e.key = d.key
          /\ \A d \in calls' : d \in calls \/ (d.key = c.key /\ d.phase = phase)
      BY <1>a, <2>2
    <2>4. \A d \in calls' : d.phase = "ANSWERED" => provider[d.key].answered # "none"
      BY <1>0, <2>2, <2>3
    <2>5. QED  BY <2>1, <2>3, <2>4, ToldKept, RowsKept
  <1>7. ASSUME NEW c \in calls, ProviderRefuses(c)
        PROVE  \A i \in Keys : RowInv(i)' /\ ToldInv(i)' /\ NamedInv(i)'
    <2> DEFINE k == c.key
    <2>1. /\ provider'[k].status = "refused" /\ provider'[k].answered = provider[k].answered
          /\ \A i \in Keys \ {k} : provider'[i] = provider[i]
          /\ provider[k].status = "none" /\ k \in Keys
      BY <1>0, <1>7 DEF ProviderRefuses, ProviderRows
    <2>2. UNCHANGED <<refunds, snapshots, undelivered>> /\ Answer(c, "REFUSED")
      BY <1>7 DEF ProviderRefuses
    <2>3. /\ \A d \in calls' : \E e \in calls : e.key = d.key
          /\ \A d \in calls' : d \in calls \/ d.phase = "REFUSED"
      BY <1>a, <2>2
    <2>4. \A i \in Keys : RowInv(i)' /\ NamedInv(i)'
      BY <2>1, <2>2, <2>3, RowsKept
    <2>5. provider[k].answered = "none"
      BY <2>1 DEF KnownInv, ToldInv
    <2>6. ToldInv(k)'
      BY <2>1, <2>2, <2>3, <2>5 DEF KnownInv, ToldInv, Final
    <2>7. ASSUME NEW i \in Keys \ {k} PROVE ToldInv(i)'
      BY <2>1, <2>2, <2>3 DEF KnownInv, ToldInv
    <2>8. QED  BY <2>4, <2>6, <2>7
  <1>8. ASSUME NEW c \in calls, RefuseCredentials(c)
        PROVE  \A i \in Keys : RowInv(i)' /\ ToldInv(i)' /\ NamedInv(i)'
    <2>1. UNCHANGED <<refunds, snapshots, provider, undelivered>> /\ Answer(c, "REFUSED")
      BY <1>8 DEF RefuseCredentials
    <2>2. /\ \A d \in calls' : \E e \in calls : e.key = d.key
          /\ \A d \in calls' : d \in calls \/ d.phase = "REFUSED"
      BY <1>a, <2>1
    <2>3. QED  BY <1>0, <2>1, <2>2, ToldKept, RowsKept
  <1>9. ASSUME NEW k \in Keys, NEW move \in Moves, ProviderMoves(k, move[2])
        PROVE  \A i \in Keys : RowInv(i)' /\ ToldInv(i)' /\ NamedInv(i)'
    <2>1. /\ provider'[k].status = move[2] /\ provider'[k].answered = provider[k].answered
          /\ \A i \in Keys \ {k} : provider'[i] = provider[i]
      BY <1>0, <1>9 DEF ProviderMoves, ProviderRows
    <2>2. /\ move[2] \in ProviderStatus /\ provider[k].status \in ProviderStatus \ Final
          /\ "none" \notin ProviderStatus /\ "refused" \notin ProviderStatus
      BY <1>9, RefundsAssumption DEF RefundsAssumption, ProviderMoves, Final, ProviderStatus
    <2>3. /\ UNCHANGED <<refunds, snapshots, calls>>
          /\ undelivered' = undelivered \cup {<<move[2], k>>}
      BY <1>9 DEF ProviderMoves, Emit
    <2>4. \A i \in Keys : RowInv(i)' /\ NamedInv(i)'
      BY <2>1, <2>2, <2>3, RowsKept
    <2>5. ToldInv(k)'
      BY <2>1, <2>2, <2>3 DEF KnownInv, ToldInv
    <2>6. ASSUME NEW i \in Keys \ {k} PROVE ToldInv(i)'
      BY <2>1, <2>3 DEF KnownInv, ToldInv
    <2>7. QED  BY <2>4, <2>5, <2>6
  <1>10. CASE RevokeCredentials
    BY <1>0, <1>10, ToldKept, RowsKept DEF RevokeCredentials
  <1>11. ASSUME NEW e \in undelivered, IngestRefund(e[2], e[1])
         PROVE  \A i \in Keys : RowInv(i)' /\ ToldInv(i)' /\ NamedInv(i)'
    <2>1. UNCHANGED <<calls, snapshots, provider, undelivered>>
      BY <1>11 DEF IngestRefund
    <2>2. \A i \in Keys : ToldInv(i)'
      BY <1>0, <2>1, ToldKept
    <2>3. CASE UNCHANGED refunds
      BY <2>1, <2>2, <2>3, RowsKept
    <2>4. ASSUME NEW j \in Candidates(e[2]), j \in Keys, Cardinality(Candidates(e[2])) = 1,
                 RowStatus(e[1]) \in RowStates, Record(j, e[2], RowStatus(e[1]))
          PROVE  \A i \in Keys : RowInv(i)' /\ ToldInv(i)' /\ NamedInv(i)'
      <3>1. RowSet(j, RowStatus(e[1]), e[2])
        BY <1>0, <2>4, RecordEffect DEF KnownInv
      <3>2. j # e[2] => ~IsClaim(e[2])
        <4>1. SUFFICES ASSUME j # e[2], IsClaim(e[2]) PROVE FALSE
          OBVIOUS
        <4>2. CASE refunds[j].ref = e[2]
          BY <1>0, <4>1, <4>2, <2>4 DEF KnownInv, NamedInv
        <4>3. CASE refunds[j].ref # e[2]
          <5>1. e[2] \in Candidates(e[2])
            BY <1>0, <2>4, <4>1, <4>3 DEF Candidates, Matching, IsClaim
          <5>2. PICK x : Candidates(e[2]) = {x}
            BY <2>4, FS_Singleton, FS_Subset, RefundsAssumption
               DEF RefundsAssumption, Candidates, Matching
          <5>3. QED  BY <2>4, <4>1, <5>1, <5>2
        <4>4. QED  BY <4>2, <4>3
      <3>3. QED  BY <1>0, <2>1, <2>2, <2>4, <3>1, <3>2, RowNamed
    <2>5. QED  BY <1>11, <2>3, <2>4, IngestEffect DEF KnownInv
  <1>12. ASSUME NEW k \in Keys, NEW cause,
                snapshots' = snapshots \cup {Snapshot(k, cause)}, provider[k].answered # "none",
                UNCHANGED <<refunds, calls, provider, undelivered>>
         PROVE  \A i \in Keys : RowInv(i)' /\ ToldInv(i)' /\ NamedInv(i)'
    <2>1. \A i \in Keys : RowInv(i)' /\ NamedInv(i)'
      BY <1>12, RowsKept
    <2>2. Snapshot(k, cause).key = k /\ Snapshot(k, cause).status = provider[k].status
      BY DEF Snapshot
    <2>3. \A i \in Keys : ToldInv(i)'
      BY <1>12, <2>2 DEF KnownInv, ToldInv
    <2>4. QED  BY <2>1, <2>3
  <1>13. ASSUME NEW e \in undelivered, RetrieveForEvent(e[2], e[1])
         PROVE  \A i \in Keys : RowInv(i)' /\ ToldInv(i)' /\ NamedInv(i)'
    BY <1>0, <1>12, <1>13 DEF RetrieveForEvent
  <1>14. ASSUME NEW e \in undelivered, DismissEvent(e[2], e[1])
         PROVE  \A i \in Keys : RowInv(i)' /\ ToldInv(i)' /\ NamedInv(i)'
    <2>1. UNCHANGED <<refunds, snapshots, calls, provider>> /\ undelivered' \subseteq undelivered
      BY <1>14 DEF DismissEvent, Acknowledge
    <2>2. QED  BY <1>0, <2>1, ToldKept, RowsKept
  <1>15. ASSUME NEW n \in snapshots, ApplySnapshot(n)
         PROVE  \A i \in Keys : RowInv(i)' /\ ToldInv(i)' /\ NamedInv(i)'
    <2>1. /\ UNCHANGED <<calls, provider>> /\ undelivered' \subseteq undelivered
          /\ snapshots' \subseteq snapshots
      BY <1>15 DEF ApplySnapshot, Acknowledge
    <2>2. \A i \in Keys : ToldInv(i)'
      BY <1>0, <2>1, ToldKept
    <2>3. PICK k \in Keys :
             /\ refunds[k].ref = n.key /\ n.key \in Keys
             /\ RowStatus(n.status) \in RowStates
             /\ RowSet(k, RowStatus(n.status), n.key)
      BY <1>15, ApplyEffect DEF KnownInv
    <2>4. provider[n.key].answered # "none" /\ (k # n.key => ~IsClaim(n.key))
      BY <2>3 DEF KnownInv, NamedInv
    <2>5. QED  BY <2>1, <2>2, <2>3, <2>4, RowNamed
  <1>16. ASSUME NEW n \in snapshots, AbandonSnapshot(n)
         PROVE  \A i \in Keys : RowInv(i)' /\ ToldInv(i)' /\ NamedInv(i)'
    <2>1. UNCHANGED <<refunds, calls, provider, undelivered>> /\ snapshots' \subseteq snapshots
      BY <1>16 DEF AbandonSnapshot
    <2>2. QED  BY <1>0, <2>1, ToldKept, RowsKept
  <1>17. ASSUME NEW k \in Keys, RetrieveForStaff(k)
         PROVE  \A i \in Keys : RowInv(i)' /\ ToldInv(i)' /\ NamedInv(i)'
    <2>1. refunds[k].ref \in Keys /\ provider[refunds[k].ref].answered # "none"
      BY <1>0, <1>17 DEF RetrieveForStaff, RefundRows, KnownInv, NamedInv
    <2>2. QED  BY <1>12, <1>17, <2>1 DEF RetrieveForStaff
  <1>18. CASE CancelBooking
    BY <1>0, <1>18, ToldKept, RowsKept DEF CancelBooking
  <1>19. QED
    BY <1>1, <1>2, <1>3, <1>4, <1>5, <1>6, <1>7, <1>8, <1>9, <1>10, <1>11, <1>13, <1>14, <1>15,
       <1>16, <1>17, <1>18 DEF Next, RequestNext, ProviderNext, EventNext, StaffNext

----------------------------------------------------------------------------
\* The ledger, and claims whose refund exists.

LedgerInv ==
    /\ StatusMatchesLedger
    /\ booking.status = "CANCELLED" => Counted("PENDING", {}) = {}
    /\ LostRefundsAreFound

(* The booking follows the one row a step writes. *)
LEMMA LedgerFollows ==
    ASSUME KnownInv, TypeOK', StatusMatchesLedger,
           NEW k \in Keys, \A j \in Keys \ {k} : refunds'[j] = refunds[j],
           IF refunds'[k].status = "SUCCEEDED"
              THEN booking'.paymentStatus = StatusOfNet(Net({k}) - refunds'[k].amount)
              ELSE \/ booking'.paymentStatus = StatusOfNet(Net({k}))
                   \/ refunds[k].status # "SUCCEEDED"
                      /\ booking'.paymentStatus = booking.paymentStatus
    PROVE  StatusMatchesLedger'
  <1>1. Net({})' = Net({k}) - Share(k)' /\ Net({}) = Net({k}) - Share(k) /\ Net({k}) \in Int
    BY NetFollows, NetSplits DEF KnownInv
  <1>2. CASE refunds'[k].status = "SUCCEEDED"
    BY <1>1, <1>2 DEF StatusMatchesLedger, Share, StatusOfNet, Total, Sources
  <1>3. CASE refunds'[k].status # "SUCCEEDED"
    BY <1>1, <1>3 DEF StatusMatchesLedger, Share, StatusOfNet, Total, Sources
  <1>4. QED  BY <1>2, <1>3

(* A step that leaves the rows and the booking alone. *)
LEMMA LedgerKept ==
    ASSUME StatusMatchesLedger, booking.status = "CANCELLED" => Counted("PENDING", {}) = {},
           UNCHANGED <<refunds, booking>>
    PROVE  StatusMatchesLedger' /\ (booking'.status = "CANCELLED" => Counted("PENDING", {})' = {})
  BY DEF StatusMatchesLedger, StatusOfNet, Net, Counted, AmountOfRefunds, Total, Sources

(* A step after which every old claim's refund has the news to come that it had. *)
LEMMA LostKept ==
    ASSUME LostRefundsAreFound,
           \A k \in Keys : IsClaim(k)' => IsClaim(k) \/ provider'[k].answered = "none",
           \A k \in Keys : provider'[k].answered = provider[k].answered,
           undelivered \ ingested \subseteq undelivered' \ ingested'
    PROVE  LostRefundsAreFound'
  BY DEF LostRefundsAreFound

LEMMA SettledStep ==
    ASSUME KnownInv, LedgerInv, Next
    PROVE  StatusMatchesLedger' /\ (booking'.status = "CANCELLED" => Counted("PENDING", {})' = {})
  <1>t. TypeOK'
    BY TypeStep
  <1>0. /\ StatusMatchesLedger /\ (booking.status = "CANCELLED" => Counted("PENDING", {}) = {})
        /\ refunds \in [Keys -> RefundRows]
        /\ booking.status = "CONFIRMED" => booking.status # "CANCELLED"
        /\ ClaimReference \notin Keys
    BY RefundsAssumption DEF RefundsAssumption, LedgerInv, KnownInv, TypeOK
  <1>a. ASSUME NEW k \in Keys, NEW ref \in Keys, NEW status \in RowStates,
               Record(k, ref, status), refunds[k].status # "SUCCEEDED",
               booking.status = "CONFIRMED"
        PROVE  StatusMatchesLedger' /\ (booking'.status = "CANCELLED" => Counted("PENDING", {})' = {})
    <2>1. /\ RowSet(k, status, ref)
          /\ booking' \in [status : {booking.status}, paymentStatus : SettledStatus]
          /\ booking'.paymentStatus =
               IF status = "SUCCEEDED" THEN StatusOfNet(Net({k}) - refunds[k].amount)
                                       ELSE booking.paymentStatus
      BY <1>a, RecordEffect DEF KnownInv
    <2>2. StatusMatchesLedger'
      BY <1>0, <1>a, <1>t, <2>1, LedgerFollows DEF RowSet
    <2>3. QED  BY <1>a, <2>1, <2>2
  <1>1. ASSUME NEW k \in Keys, NEW s \in Sources, NEW amount \in 1..Captured[s],
               ClaimRefund(k, s, amount)
        PROVE  StatusMatchesLedger' /\ (booking'.status = "CANCELLED" => Counted("PENDING", {})' = {})
    <2>1. /\ \A j \in Keys \ {k} : refunds'[j] = refunds[j]
          /\ refunds'[k].status = "PENDING" /\ refunds[k].status # "SUCCEEDED"
      BY <1>1, ClaimEffect DEF KnownInv, IsClaim
    <2>2. UNCHANGED booking /\ booking.status = "CONFIRMED"
      BY <1>1 DEF ClaimRefund
    <2>3. QED  BY <1>0, <1>t, <2>1, <2>2, LedgerFollows
  <1>2. ASSUME NEW c \in calls, PersistRefund(c)
        PROVE  StatusMatchesLedger' /\ (booking'.status = "CANCELLED" => Counted("PENDING", {})' = {})
    <2>1. provider[c.key].answered # "none"
      BY <1>2 DEF PersistRefund, KnownInv, ToldInv, TypeOK, Calls
    <2>2. CASE UNCHANGED <<refunds, booking>>
      BY <1>0, <2>2, LedgerKept
    <2>3. CASE /\ refunds[c.key].ref = ClaimReference /\ booking.status = "CONFIRMED"
               /\ Record(c.key, c.key, RowStatus(provider[c.key].answered))
               /\ RowStatus(provider[c.key].answered) \in RowStates /\ c.key \in Keys
      <3>1. refunds[c.key].status # "SUCCEEDED"
        BY <2>3 DEF KnownInv, RowInv
      <3>2. QED  BY <1>a, <2>3, <3>1
    <2>4. QED  BY <1>2, <2>1, <2>2, <2>3, PersistEffect DEF KnownInv
  <1>3. ASSUME NEW c \in calls, FailInternalClaim(c)
        PROVE  StatusMatchesLedger' /\ (booking'.status = "CANCELLED" => Counted("PENDING", {})' = {})
    <2>1. CASE UNCHANGED <<refunds, booking>>
      BY <1>0, <2>1, LedgerKept
    <2>2. CASE /\ UNCHANGED booking /\ c.key \in Keys /\ IsClaim(c.key)
               /\ RowSet(c.key, "FAILED", ClaimReference)
      <3>1. StatusMatchesLedger'
        BY <1>0, <1>t, <2>2, LedgerFollows DEF RowSet, IsClaim
      <3>2. Counted("PENDING", {})' \subseteq Counted("PENDING", {})
        BY <2>2 DEF Counted, RowSet
      <3>3. QED  BY <1>0, <2>2, <3>1, <3>2
    <2>3. QED  BY <1>3, <2>1, <2>2, FailEffect DEF KnownInv
  <1>4. ASSUME NEW e \in undelivered, IngestRefund(e[2], e[1])
        PROVE  StatusMatchesLedger' /\ (booking'.status = "CANCELLED" => Counted("PENDING", {})' = {})
    <2>1. CASE UNCHANGED <<booking, refunds>>
      BY <1>0, <2>1, LedgerKept
    <2>2. ASSUME NEW j \in Keys, booking.status = "CONFIRMED", e[2] \in Keys,
                 RowStatus(e[1]) \in RowStates, refunds[j].status = "PENDING",
                 Record(j, e[2], RowStatus(e[1]))
          PROVE  StatusMatchesLedger'
                 /\ (booking'.status = "CANCELLED" => Counted("PENDING", {})' = {})
      BY <1>a, <2>2
    <2>3. QED  BY <1>4, <2>1, <2>2, IngestEffect DEF KnownInv
  <1>5. ASSUME NEW n \in snapshots, ApplySnapshot(n)
        PROVE  StatusMatchesLedger' /\ (booking'.status = "CANCELLED" => Counted("PENDING", {})' = {})
    <2>1. PICK k \in Keys :
             /\ refunds[k].ref = n.key /\ Reconcilable(k)
             /\ RowSet(k, RowStatus(n.status), n.key)
             /\ booking' \in [status : {booking.status}, paymentStatus : SettledStatus]
             /\ booking'.paymentStatus = StatusWith(k, RowStatus(n.status))
      BY <1>5, ApplyEffect DEF KnownInv
    <2>2. Net({k}) \in Int
      BY NetSplits DEF KnownInv
    <2>3. IF RowStatus(n.status) = "SUCCEEDED"
             THEN booking'.paymentStatus = StatusOfNet(Net({k}) - refunds[k].amount)
             ELSE booking'.paymentStatus = StatusOfNet(Net({k}))
      BY <2>1, <2>2 DEF StatusWith
    <2>4. StatusMatchesLedger'
      BY <1>0, <1>t, <2>1, <2>3, LedgerFollows DEF RowSet
    <2>5. booking'.status # "CANCELLED"
      BY <1>0, <2>1 DEF Reconcilable
    <2>6. QED  BY <2>4, <2>5
  <1>6. CASE CancelBooking
    <2>1. /\ UNCHANGED refunds /\ Counted("PENDING", {}) = {}
          /\ booking'.paymentStatus = booking.paymentStatus
      BY <1>6 DEF CancelBooking, KnownInv, TypeOK
    <2>2. StatusMatchesLedger'
      BY <1>0, <2>1
         DEF StatusMatchesLedger, StatusOfNet, Net, Counted, AmountOfRefunds, Total, Sources
    <2>3. QED  BY <2>1, <2>2 DEF Counted
  <1>7. ASSUME NEW c \in calls,
               \/ AbandonCall(c) \/ \E status \in FirstStatuses : ProviderRefunds(c, status)
               \/ ProviderRepeats(c) \/ ProviderRefuses(c) \/ RefuseCredentials(c)
        PROVE  UNCHANGED <<refunds, booking>>
    BY <1>7 DEF AbandonCall, ProviderRefunds, ProviderRepeats, ProviderRefuses, RefuseCredentials
  <1>8. ASSUME \/ \E k \in Keys, move \in Moves : ProviderMoves(k, move[2])
               \/ RevokeCredentials
               \/ \E e \in undelivered : RetrieveForEvent(e[2], e[1]) \/ DismissEvent(e[2], e[1])
               \/ \E n \in snapshots : AbandonSnapshot(n)
               \/ \E k \in Keys : RetrieveForStaff(k)
        PROVE  UNCHANGED <<refunds, booking>>
    BY <1>8 DEF ProviderMoves, RevokeCredentials, RetrieveForEvent, DismissEvent, AbandonSnapshot,
                RetrieveForStaff
  <1>9. QED
    BY <1>0, <1>1, <1>2, <1>3, <1>4, <1>5, <1>6, <1>7, <1>8, LedgerKept
       DEF Next, RequestNext, ProviderNext, EventNext, StaffNext

LEMMA LostStep ==
    ASSUME KnownInv, LedgerInv, Next
    PROVE  LostRefundsAreFound'
  <1>0. /\ refunds \in [Keys -> RefundRows] /\ provider \in [Keys -> ProviderRows]
        /\ LostRefundsAreFound
        /\ booking.status = "CANCELLED" => Counted("PENDING", {}) = {}
        /\ booking.status \in {"CONFIRMED", "CANCELLED"}
        /\ \A c \in calls : c.key \in Keys
        /\ \A e \in undelivered : e[1] \in ProviderStatus /\ e[2] \in Keys /\ e = <<e[1], e[2]>>
        /\ ClaimReference \notin Keys
    BY RefundsAssumption
       DEF RefundsAssumption, LedgerInv, KnownInv, TypeOK, Calls, Events
  <1>a. ASSUME UNCHANGED <<refunds, provider>>, undelivered \ ingested \subseteq undelivered' \ ingested'
        PROVE  LostRefundsAreFound'
    BY <1>0, <1>a, LostKept DEF IsClaim
  <1>1. ASSUME NEW k \in Keys, NEW s \in Sources, NEW amount \in 1..Captured[s],
               ClaimRefund(k, s, amount)
        PROVE  LostRefundsAreFound'
    <2>1. /\ \A j \in Keys \ {k} : refunds'[j] = refunds[j]
          /\ refunds[k].status = "NONE" \/ IsClaim(k)
      BY <1>1, ClaimEffect DEF KnownInv
    <2>2. refunds[k].status = "NONE" => provider[k].answered = "none"
      BY DEF KnownInv, RowInv, ToldInv
    <2>3. UNCHANGED <<provider, undelivered, ingested>>
      BY <1>1 DEF ClaimRefund
    <2>4. \A j \in Keys : IsClaim(j)' => IsClaim(j) \/ provider'[j].answered = "none"
      BY <2>1, <2>2, <2>3 DEF IsClaim
    <2>5. QED  BY <1>0, <2>3, <2>4, LostKept
  <1>b. ASSUME NEW k \in Keys, NEW ref, NEW status, RowSet(k, status, ref),
               ref # ClaimReference \/ status # "PENDING"
        PROVE  \A j \in Keys : IsClaim(j)' => IsClaim(j) /\ j # k
    BY <1>b DEF IsClaim, RowSet
  <1>2. ASSUME NEW c \in calls, PersistRefund(c)
        PROVE  LostRefundsAreFound'
    <2>1. provider[c.key].answered # "none"
      BY <1>0, <1>2 DEF PersistRefund, KnownInv, ToldInv
    <2>2. UNCHANGED <<provider, undelivered, ingested>>
      BY <1>2 DEF PersistRefund
    <2>3. CASE UNCHANGED refunds
      BY <1>a, <2>2, <2>3
    <2>4. CASE Record(c.key, c.key, RowStatus(provider[c.key].answered))
               /\ RowStatus(provider[c.key].answered) \in RowStates /\ c.key \in Keys
      <3>1. \A j \in Keys : IsClaim(j)' => IsClaim(j)
        <4>1. RowSet(c.key, RowStatus(provider[c.key].answered), c.key)
          BY <2>4, RecordEffect DEF KnownInv
        <4>2. QED  BY <1>0, <1>b, <2>4, <4>1
      <3>2. QED  BY <1>0, <2>2, <3>1, LostKept
    <2>5. QED  BY <1>2, <2>1, <2>3, <2>4, PersistEffect DEF KnownInv
  <1>3. ASSUME NEW c \in calls, FailInternalClaim(c)
        PROVE  LostRefundsAreFound'
    <2>1. UNCHANGED <<provider, undelivered, ingested>>
      BY <1>3 DEF FailInternalClaim
    <2>2. CASE UNCHANGED refunds
      BY <1>a, <2>1, <2>2
    <2>3. CASE c.key \in Keys /\ IsClaim(c.key) /\ RowSet(c.key, "FAILED", ClaimReference)
      BY <1>0, <1>b, <2>1, <2>3, LostKept
    <2>4. QED  BY <1>3, <2>2, <2>3, FailEffect DEF KnownInv
  <1>4. ASSUME NEW c \in calls, AbandonCall(c) \/ ProviderRepeats(c) \/ RefuseCredentials(c)
        PROVE  LostRefundsAreFound'
    BY <1>4, <1>a DEF AbandonCall, ProviderRepeats, RefuseCredentials
  <1>c. ASSUME NEW k \in Keys, NEW status \in ProviderStatus, Emit(status, k), UNCHANGED refunds,
               \A j \in Keys \ {k} : provider'[j] = provider[j]
        PROVE  LostRefundsAreFound'
    <2>1. <<status, k>> \in undelivered' \ ingested'
          /\ undelivered \ ingested \subseteq undelivered' \ ingested'
      BY <1>c DEF Emit
    <2>2. QED  BY <1>0, <1>c, <2>1 DEF LostRefundsAreFound, IsClaim
  <1>5. ASSUME NEW c \in calls, NEW status \in FirstStatuses, ProviderRefunds(c, status)
        PROVE  LostRefundsAreFound'
    <2>1. status \in ProviderStatus
      BY RefundsAssumption DEF RefundsAssumption
    <2>2. QED  BY <1>0, <1>5, <1>c, <2>1 DEF ProviderRefunds
  <1>6. ASSUME NEW c \in calls, ProviderRefuses(c)
        PROVE  LostRefundsAreFound'
    <2>1. \A j \in Keys : provider'[j].answered = provider[j].answered
      BY <1>0, <1>6 DEF ProviderRefuses, ProviderRows
    <2>2. QED  BY <1>0, <1>6, <2>1, LostKept DEF ProviderRefuses, IsClaim
  <1>7. ASSUME NEW k \in Keys, NEW move \in Moves, ProviderMoves(k, move[2])
        PROVE  LostRefundsAreFound'
    <2>1. move[2] \in ProviderStatus
      BY RefundsAssumption DEF RefundsAssumption
    <2>2. QED  BY <1>0, <1>7, <1>c, <2>1 DEF ProviderMoves
  <1>8. CASE RevokeCredentials \/ CancelBooking \/ \E k \in Keys : RetrieveForStaff(k)
    BY <1>8, <1>a DEF RevokeCredentials, CancelBooking, RetrieveForStaff
  <1>9. ASSUME NEW e \in undelivered, RetrieveForEvent(e[2], e[1]) \/ DismissEvent(e[2], e[1])
        PROVE  LostRefundsAreFound'
    BY <1>9, <1>a DEF RetrieveForEvent, DismissEvent, Acknowledge
  <1>10. ASSUME NEW n \in snapshots, AbandonSnapshot(n)
         PROVE  LostRefundsAreFound'
    BY <1>10, <1>a DEF AbandonSnapshot
  <1>11. ASSUME NEW n \in snapshots, ApplySnapshot(n)
         PROVE  LostRefundsAreFound'
    <2>1. PICK k \in Keys :
             /\ refunds[k].ref = n.key /\ n.key \in Keys
             /\ RowSet(k, RowStatus(n.status), n.key)
      BY <1>11, ApplyEffect DEF KnownInv
    <2>2. \A j \in Keys : IsClaim(j)' => IsClaim(j) /\ j # k
      BY <1>0, <1>b, <2>1
    <2>3. k # n.key => ~IsClaim(n.key)
      BY <2>1 DEF KnownInv, NamedInv
    <2>4. /\ UNCHANGED provider
          /\ \A j \in Keys \ {n.key} : \A status \in ProviderStatus :
                 <<status, j>> \in undelivered \ ingested => <<status, j>> \in undelivered' \ ingested'
      BY <1>11 DEF ApplySnapshot, Acknowledge
    <2>5. QED  BY <1>0, <2>2, <2>3, <2>4 DEF LostRefundsAreFound
  <1>12. ASSUME NEW e \in undelivered, IngestRefund(e[2], e[1])
         PROVE  LostRefundsAreFound'
    <2> DEFINE k == e[2]
    <2>0. /\ k \in Keys /\ UNCHANGED <<provider, undelivered>>
          /\ ingested' = ingested \cup {<<e[1], k>>}
      BY <1>0, <1>12 DEF IngestRefund
    <2>1. ~IsClaim(k)' /\ \A j \in Keys : IsClaim(j)' => IsClaim(j)
      <3>1. ASSUME IsClaim(k) PROVE k \in Candidates(k) /\ Counted("PENDING", {}) # {}
        <4>1. \A j \in Keys : refunds[j].ref = k => j = k
          BY <2>0, <3>1 DEF KnownInv, NamedInv
        <4>2. refunds[k].ref # k
          BY <1>0, <2>0, <3>1 DEF IsClaim
        <4>3. k \in Candidates(k)
          BY <2>0, <3>1, <4>1, <4>2 DEF Candidates, Matching
        <4>4. QED  BY <2>0, <3>1, <4>3 DEF IsClaim, Counted
      <3>2. CASE /\ booking.status # "CONFIRMED" \/ Candidates(k) = {}
                 /\ UNCHANGED refunds
        BY <1>0, <3>1, <3>2 DEF IsClaim
      <3>3. ASSUME Cardinality(Candidates(k)) = 1, NEW j \in Candidates(k), j \in Keys,
                   RowStatus(e[1]) \in RowStates, Record(j, k, RowStatus(e[1]))
            PROVE  ~IsClaim(k)' /\ \A i \in Keys : IsClaim(i)' => IsClaim(i)
        <4>1. RowSet(j, RowStatus(e[1]), k)
          BY <2>0, <3>3, RecordEffect DEF KnownInv
        <4>2. \A i \in Keys : IsClaim(i)' => IsClaim(i) /\ i # j
          BY <1>0, <1>b, <2>0, <3>3, <4>1
        <4>3. IsClaim(k) => j = k
          <5>1. PICK x : Candidates(k) = {x}
            BY <3>3, FS_Singleton, FS_Subset, RefundsAssumption
               DEF RefundsAssumption, Candidates, Matching
          <5>2. QED  BY <3>1, <3>3, <5>1
        <4>4. QED  BY <2>0, <4>2, <4>3
      <3>4. QED  BY <1>12, <3>2, <3>3, IngestEffect DEF KnownInv
    <2>2. \A j \in Keys \ {k} : \A status \in ProviderStatus :
              <<status, j>> \in undelivered \ ingested => <<status, j>> \in undelivered' \ ingested'
      BY <2>0
    <2>3. QED  BY <1>0, <2>0, <2>1, <2>2 DEF LostRefundsAreFound
  <1>13. QED
    BY <1>1, <1>2, <1>3, <1>4, <1>5, <1>6, <1>7, <1>8, <1>9, <1>10, <1>11, <1>12
       DEF Next, RequestNext, ProviderNext, EventNext, StaffNext

RefundsInv == KnownInv /\ LedgerInv

LEMMA RefundsStart == Init => RefundsInv
  <1> SUFFICES ASSUME Init PROVE RefundsInv
    OBVIOUS
  <1>1. TypeOK
    <2>1. 1 \in Sources
      BY RefundsAssumption DEF RefundsAssumption, Sources
    <2>2. QED  BY <2>1, TotalIsNat DEF Init, TypeOK, RefundRows, ProviderRows, SettledStatus
  <1>2. KnownInv
    BY <1>1, RefundsAssumption
       DEF Init, KnownInv, RowInv, ToldInv, NamedInv, Final, RefundsAssumption
  <1>3. StatusMatchesLedger
    <2>1. Counted("SUCCEEDED", {}) = {}
      BY DEF Init, Counted
    <2>2. AmountOfRefunds({}) = 0
      BY SumEmpty DEF AmountOfRefunds
    <2>3. Net({}) = Total
      <3>1. Net({}) = Total - AmountOfRefunds({})
        BY <2>1 DEF Net
      <3>2. QED  BY <2>2, <3>1, TotalIsNat
    <2>4. Total # 0
      <3>1. 1 \in Sources /\ Captured[1] \in Nat \ {0}
        BY RefundsAssumption DEF RefundsAssumption, Sources
      <3>2. QED  BY <3>1, TotalIsNat
    <2>5. QED  BY <2>3, <2>4 DEF Init, StatusMatchesLedger, StatusOfNet
  <1>4. LedgerInv
    BY <1>3 DEF Init, LedgerInv, Counted, LostRefundsAreFound, IsClaim
  <1>5. QED  BY <1>2, <1>4 DEF RefundsInv

LEMMA RefundsStep == RefundsInv /\ [Next]_vars => RefundsInv'
  <1> SUFFICES ASSUME RefundsInv, [Next]_vars PROVE RefundsInv'
    OBVIOUS
  <1>1. CASE Next
    BY <1>1, KnownStep, SettledStep, LostStep DEF RefundsInv, LedgerInv
  <1>2. CASE UNCHANGED vars
    <2>1. KnownInv'
      BY <1>2 DEF vars, RefundsInv, KnownInv, TypeOK, RowInv, ToldInv, NamedInv, IsClaim
    <2>2. LedgerInv'
      BY <1>2 DEF vars, RefundsInv, LedgerInv, StatusMatchesLedger, StatusOfNet, Net, Counted,
                  AmountOfRefunds, Total, Sources, LostRefundsAreFound, IsClaim
    <2>3. QED  BY <2>1, <2>2 DEF RefundsInv
  <1>3. QED  BY <1>1, <1>2

----------------------------------------------------------------------------
\* While the credentials are accepted.

(* A refusal is the provider's, and so is a failure: the row that carries no refund was refused, *)
(* any other carries its own, which has failed.                                                  *)
RefusalsInv ==
    /\ \A c \in calls : c.phase = "REFUSED" => provider[c.key].status = "refused"
    /\ \A k \in Keys :
           /\ refunds[k].ref \in {ClaimReference, k}
           /\ refunds[k].status = "FAILED" =>
                  IF refunds[k].ref = ClaimReference THEN provider[k].status = "refused"
                                                     ELSE provider[k].status \in Final

HeldOf(s) == {k \in Keys : refunds[k].status \in {"PENDING", "SUCCEEDED"} /\ refunds[k].source = s}
CoverInv == \A s \in Sources : AmountOfRefunds(HeldOf(s)) <= Captured[s]

AcceptedInv == credentials => RefusalsInv /\ CoverInv

(* What a row leaves of its source, when it is the only one that may be unresolved. *)
LEMMA PlanCovers ==
    ASSUME TypeOK, TypeOK', NEW k \in Keys, NEW s0 \in Sources, NEW amount \in Nat, NEW status,
           Plans(s0, amount, status, {k}),
           \A j \in Keys \ {k} : refunds'[j] = refunds[j],
           refunds'[k].source = s0, refunds'[k].amount = amount
    PROVE  CoverInv'
  <1>1. SUFFICES ASSUME NEW s \in Sources PROVE AmountOfRefunds(HeldOf(s))' <= Captured[s]
    BY DEF CoverInv, Sources
  <1>2. PICK S : S = HeldOf(s)' /\ S \in SUBSET Keys
    BY DEF HeldOf
  <1>3. PICK R : R = S \ {k} /\ R \in SUBSET Keys
    BY <1>2
  <1>4. R \subseteq {j \in Counted("SUCCEEDED", {k}) : refunds[j].source = s}
    BY <1>2, <1>3 DEF HeldOf, Plans, Counted
  <1>5. PICK T : T = {j \in Counted("SUCCEEDED", {k}) : refunds[j].source = s} /\ T \in SUBSET Keys
    BY DEF Counted
  <1>6. AmountOfRefunds(R) <= AmountOfRefunds(T) /\ AmountOfRefunds(R) \in Nat
        /\ AmountOfRefunds(T) \in Nat
    BY <1>3, <1>4, <1>5, AmountNat
  <1>7. AmountOfRefunds(R)' = AmountOfRefunds(R)
    BY <1>3, AmountKept
  <1>8. AmountOfRefunds(S)' = AmountOfRefunds(R)' + (IF k \in S THEN refunds'[k].amount ELSE 0)
    BY <1>2, <1>3, AmountNatNext
  <1>9. /\ AmountOfRefunds(T) <= Captured[s]
        /\ s = s0 => AmountOfRefunds(T) + amount <= Captured[s]
    <2>1. Remaining(s, {k}) = Captured[s] - AmountOfRefunds(T)
      BY <1>5 DEF Remaining, RefundedOf
    <2>2. Remaining(s, {k}) >= 0 /\ (s = s0 => amount <= Remaining(s, {k}))
      BY DEF Plans
    <2>3. QED  BY <1>6, <2>1, <2>2, TotalIsNat
  <1>10. k \in S => s = s0
    BY <1>2 DEF HeldOf
  <1>11. AmountOfRefunds(S)' <= Captured[s]
    BY <1>6, <1>7, <1>8, <1>9, <1>10, TotalIsNat
  <1>12. QED  BY <1>2, <1>11

(* A row that stops being held, or stays as it was. *)
LEMMA CoverKept ==
    ASSUME TypeOK, TypeOK', CoverInv,
           \A k \in Keys :
               /\ refunds'[k].amount = refunds[k].amount /\ refunds'[k].source = refunds[k].source
               /\ refunds'[k].status \in {"PENDING", "SUCCEEDED"} =>
                      refunds[k].status \in {"PENDING", "SUCCEEDED"}
    PROVE  CoverInv'
  <1>1. SUFFICES ASSUME NEW s \in Sources PROVE AmountOfRefunds(HeldOf(s))' <= Captured[s]
    BY DEF CoverInv, Sources
  <1>2. PICK S : S = HeldOf(s) /\ S \in SUBSET Keys
    BY DEF HeldOf
  <1>3. PICK T : T = HeldOf(s)' /\ T \in SUBSET Keys
    BY DEF HeldOf
  <1>4. T \subseteq S
    BY <1>2, <1>3 DEF HeldOf
  <1>5. AmountOfRefunds(T)' = AmountOfRefunds(T)
    BY <1>3, AmountKept
  <1>6. AmountOfRefunds(T) <= AmountOfRefunds(S) /\ AmountOfRefunds(T) \in Nat
        /\ AmountOfRefunds(S) \in Nat
    BY <1>2, <1>3, <1>4, AmountNat
  <1>7. AmountOfRefunds(S) <= Captured[s]
    BY <1>2 DEF CoverInv
  <1>8. AmountOfRefunds(T)' <= Captured[s]
    BY <1>5, <1>6, <1>7, TotalIsNat
  <1>9. QED  BY <1>3, <1>8

LEMMA AcceptedStep ==
    ASSUME RefundsInv, AcceptedInv, Next, credentials'
    PROVE  RefusalsInv' /\ CoverInv'
  <1>t. TypeOK /\ TypeOK' /\ KnownInv
    BY TypeStep DEF RefundsInv, KnownInv
  <1>0. /\ credentials /\ RefusalsInv /\ CoverInv
        /\ refunds \in [Keys -> RefundRows] /\ provider \in [Keys -> ProviderRows]
        /\ \A c \in calls : c.key \in Keys
        /\ ClaimReference \notin Keys
    <2>1. credentials
      BY <1>t DEF Next, RequestNext, ProviderNext, EventNext, StaffNext, ClaimRefund, PersistRefund,
                  FailInternalClaim, AbandonCall, ProviderRefunds, ProviderRepeats, ProviderRefuses,
                  RefuseCredentials, ProviderMoves, RevokeCredentials, IngestRefund,
                  RetrieveForEvent, DismissEvent, ApplySnapshot, AbandonSnapshot, RetrieveForStaff,
                  CancelBooking
    <2>2. QED  BY <1>t, <2>1, RefundsAssumption
               DEF RefundsAssumption, AcceptedInv, TypeOK, Calls
  <1>a. ASSUME UNCHANGED refunds,
               \A c \in calls' : c.phase = "REFUSED" => provider'[c.key].status = "refused",
               \A k \in Keys : provider[k].status \in Final \cup {"refused"} =>
                                   provider'[k].status = provider[k].status
        PROVE  RefusalsInv' /\ CoverInv'
    <2>1. RefusalsInv'
      BY <1>0, <1>a DEF RefusalsInv
    <2>2. CoverInv'
      BY <1>0, <1>t, <1>a, CoverKept
    <2>3. QED  BY <2>1, <2>2
  <1>b. ASSUME UNCHANGED refunds, UNCHANGED provider, calls' \subseteq calls
        PROVE  RefusalsInv' /\ CoverInv'
    BY <1>0, <1>a, <1>b DEF RefusalsInv
  <1>c. ASSUME NEW k \in Keys, NEW ref \in {k, ClaimReference}, NEW status \in RowStates,
               RowSet(k, status, ref), UNCHANGED provider, calls' \subseteq calls,
               status = "FAILED" => IF ref = k THEN provider[k].status \in Final
                                               ELSE provider[k].status = "refused"
        PROVE  RefusalsInv'
    BY <1>0, <1>c DEF RefusalsInv, RowSet
  <1>d. ASSUME NEW k \in Keys, NEW ref, NEW status, RowSet(k, status, ref),
               refunds[k].status \in {"PENDING", "SUCCEEDED"}
        PROVE  CoverInv'
    BY <1>0, <1>t, <1>d, CoverKept DEF RowSet
  <1>1. ASSUME NEW k \in Keys, NEW s \in Sources, NEW amount \in 1..Captured[s],
               ClaimRefund(k, s, amount)
        PROVE  RefusalsInv' /\ CoverInv'
    <2>1. /\ \A j \in Keys \ {k} : refunds'[j] = refunds[j]
          /\ refunds'[k].status = "PENDING" /\ refunds'[k].ref = ClaimReference
          /\ refunds'[k].source = s /\ refunds'[k].amount = amount
      BY <1>1, <1>t, ClaimEffect
    <2>2. UNCHANGED provider
          /\ \A c \in calls' : c \in calls \/ c.phase = "CALLING"
      <3>1. \A next : Call(k, next).phase = "CALLING"
        BY DEF Call
      <3>2. QED  BY <1>1, <3>1 DEF ClaimRefund
    <2>3. RefusalsInv'
      BY <1>0, <2>1, <2>2 DEF RefusalsInv
    <2>4. Plans(s, amount, booking.paymentStatus, {k})
      <3>1. CASE refunds[k].status = "NONE" /\ Plans(s, amount, booking.paymentStatus, {})
        <4>1. \A X \in {"PENDING", "SUCCEEDED"} : Counted(X, {}) = Counted(X, {k})
          BY <3>1 DEF Counted
        <4>2. QED  BY <3>1, <4>1 DEF Plans, Remaining, RefundedOf, Net, IsNextSource
      <3>2. QED  BY <1>1, <3>1 DEF ClaimRefund
    <2>5. CoverInv'
      BY <1>t, <2>1, <2>4, TotalIsNat, PlanCovers
    <2>6. QED  BY <2>3, <2>5
  <1>2. ASSUME NEW c \in calls, PersistRefund(c)
        PROVE  RefusalsInv' /\ CoverInv'
    <2>1. provider[c.key].answered # "none" /\ provider[c.key].answered \in ProviderStatus
      BY <1>0, <1>t, <1>2 DEF PersistRefund, KnownInv, ToldInv, ProviderRows
    <2>2. UNCHANGED provider /\ calls' \subseteq calls
      BY <1>2 DEF PersistRefund, EndCall
    <2>3. CASE UNCHANGED refunds
      BY <1>b, <2>2, <2>3
    <2>4. CASE /\ refunds[c.key].ref = ClaimReference
               /\ Record(c.key, c.key, RowStatus(provider[c.key].answered))
               /\ RowStatus(provider[c.key].answered) \in RowStates /\ c.key \in Keys
      <3>1. RowSet(c.key, RowStatus(provider[c.key].answered), c.key)
        BY <1>t, <2>4, RecordEffect
      <3>2. RowStatus(provider[c.key].answered) = "FAILED" => provider[c.key].status \in Final
        BY <1>0, <1>t, <2>1, RowStatusType DEF KnownInv, ToldInv
      <3>3. refunds[c.key].status \in {"PENDING", "SUCCEEDED"}
        <4>1. refunds[c.key].status # "NONE"
          BY <1>t, <2>4 DEF KnownInv, RowInv
        <4>2. refunds[c.key].status # "FAILED"
          BY <1>0, <1>t, <2>1, <2>4 DEF RefusalsInv, KnownInv, ToldInv
        <4>3. QED  BY <1>0, <2>4, <4>1, <4>2 DEF RefundRows
      <3>4. RefusalsInv'
        BY <1>0, <1>c, <2>2, <2>4, <3>1, <3>2
      <3>5. QED  BY <1>d, <2>4, <3>1, <3>3, <3>4
    <2>5. QED  BY <1>2, <1>t, <2>1, <2>3, <2>4, PersistEffect
  <1>3. ASSUME NEW c \in calls, FailInternalClaim(c)
        PROVE  RefusalsInv' /\ CoverInv'
    <2>1. UNCHANGED provider /\ calls' \subseteq calls /\ c.phase = "REFUSED"
      BY <1>3 DEF FailInternalClaim, EndCall
    <2>2. CASE UNCHANGED refunds
      BY <1>b, <2>1, <2>2
    <2>3. CASE c.key \in Keys /\ IsClaim(c.key) /\ RowSet(c.key, "FAILED", ClaimReference)
      <3>1. provider[c.key].status = "refused"
        BY <1>0, <2>1 DEF RefusalsInv
      <3>2. RefusalsInv'
        BY <1>0, <1>c, <2>1, <2>3, <3>1 DEF RowStates
      <3>3. QED  BY <1>d, <2>3, <3>2 DEF IsClaim
    <2>4. QED  BY <1>3, <1>t, <2>2, <2>3, FailEffect
  <1>4. ASSUME NEW c \in calls, AbandonCall(c)
        PROVE  RefusalsInv' /\ CoverInv'
    BY <1>4, <1>b DEF AbandonCall, EndCall
  <1>e. ASSUME NEW c \in calls, NEW phase, Answer(c, phase)
        PROVE  \A d \in calls' : d \in calls \/ (d.key = c.key /\ d.phase = phase)
    <2>1. c \in Calls
      BY <1>t DEF TypeOK
    <2>2. [c EXCEPT !.phase = phase].key = c.key /\ [c EXCEPT !.phase = phase].phase = phase
      BY <2>1 DEF Calls
    <2>3. QED  BY <1>e, <2>2 DEF Answer
  <1>5. ASSUME NEW c \in calls, NEW status \in FirstStatuses, ProviderRefunds(c, status)
        PROVE  RefusalsInv' /\ CoverInv'
    <2>1. UNCHANGED refunds /\ Answer(c, "ANSWERED") /\ provider[c.key].status = "none"
          /\ \A k \in Keys \ {c.key} : provider'[k] = provider[k]
      BY <1>0, <1>5 DEF ProviderRefunds
    <2>2. \A d \in calls' : d.phase = "REFUSED" => d \in calls
      BY <1>e, <2>1
    <2>3. \A d \in calls' : d.phase = "REFUSED" => provider'[d.key].status = "refused"
      BY <1>0, <2>1, <2>2 DEF RefusalsInv
    <2>4. \A k \in Keys : provider[k].status \in Final \cup {"refused"} => k # c.key
      BY <2>1 DEF Final
    <2>5. QED  BY <1>a, <2>1, <2>3, <2>4
  <1>6. ASSUME NEW c \in calls, ProviderRepeats(c)
        PROVE  RefusalsInv' /\ CoverInv'
    <2>1. PICK phase : Answer(c, phase) /\ (phase = "REFUSED" => provider[c.key].status = "refused")
      BY <1>6 DEF ProviderRepeats
    <2>2. UNCHANGED <<refunds, provider>>
      BY <1>6 DEF ProviderRepeats
    <2>3. \A d \in calls' : d.phase = "REFUSED" => provider'[d.key].status = "refused"
      BY <1>0, <1>e, <2>1, <2>2 DEF RefusalsInv
    <2>4. QED  BY <1>a, <2>2, <2>3
  <1>7. ASSUME NEW c \in calls, ProviderRefuses(c)
        PROVE  RefusalsInv' /\ CoverInv'
    <2>1. /\ provider'[c.key].status = "refused" /\ provider[c.key].status = "none"
          /\ \A k \in Keys \ {c.key} : provider'[k] = provider[k]
          /\ UNCHANGED refunds /\ Answer(c, "REFUSED")
      BY <1>0, <1>7 DEF ProviderRefuses, ProviderRows
    <2>2. \A d \in calls' : d.phase = "REFUSED" => provider'[d.key].status = "refused"
      BY <1>0, <1>e, <2>1 DEF RefusalsInv
    <2>3. \A k \in Keys : provider[k].status \in Final \cup {"refused"} => k # c.key
      BY <2>1 DEF Final
    <2>4. QED  BY <1>a, <2>1, <2>2, <2>3
  <1>8. ASSUME NEW c \in calls, RefuseCredentials(c)
        PROVE  RefusalsInv' /\ CoverInv'
    BY <1>0, <1>8 DEF RefuseCredentials
  <1>9. ASSUME NEW k \in Keys, NEW move \in Moves, ProviderMoves(k, move[2])
        PROVE  RefusalsInv' /\ CoverInv'
    <2>1. /\ \A i \in Keys \ {k} : provider'[i] = provider[i]
          /\ UNCHANGED <<refunds, calls>>
      BY <1>0, <1>9 DEF ProviderMoves
    <2>2. provider[k].status \notin Final \cup {"refused"}
      BY <1>9, RefundsAssumption DEF RefundsAssumption, ProviderMoves, Final, ProviderStatus
    <2>3. \A d \in calls' : d.phase = "REFUSED" => provider'[d.key].status = "refused"
      BY <1>0, <2>1, <2>2 DEF RefusalsInv
    <2>4. \A i \in Keys : provider[i].status \in Final \cup {"refused"} => i # k
      BY <2>2
    <2>5. QED  BY <1>a, <2>1, <2>3, <2>4
  <1>10. CASE RevokeCredentials
    BY <1>10 DEF RevokeCredentials
  <1>f. ASSUME NEW status \in ProviderStatus, NEW k \in Keys,
               status \in Final => provider[k].status \in Final
        PROVE  RowStatus(status) = "FAILED" => provider[k].status \in Final
    BY <1>f, RowStatusType
  <1>11. ASSUME NEW e \in undelivered, IngestRefund(e[2], e[1])
         PROVE  RefusalsInv' /\ CoverInv'
    <2> DEFINE k == e[2]
    <2>1. /\ k \in Keys /\ e[1] \in ProviderStatus /\ UNCHANGED <<provider, calls>>
          /\ provider[k].answered # "none"
          /\ e[1] \in Final => provider[k].status \in Final
      BY <1>t, <1>11, IngestEffect DEF IngestRefund, KnownInv, ToldInv
    <2>2. CASE UNCHANGED refunds
      BY <1>b, <2>1, <2>2
    <2>3. ASSUME Cardinality(Candidates(k)) = 1, NEW j \in Candidates(k), j \in Keys,
                 UnclaimedReference(k, j), RowStatus(e[1]) \in RowStates,
                 refunds[j].status = "PENDING", Record(j, k, RowStatus(e[1]))
          PROVE  RefusalsInv' /\ CoverInv'
      <3>1. RowSet(j, RowStatus(e[1]), k)
        BY <1>t, <2>1, <2>3, RecordEffect
      <3>2. j = k
        <4>1. SUFFICES ASSUME j # k PROVE FALSE
          OBVIOUS
        <4>2. refunds[k].ref = ClaimReference /\ refunds[j].ref # k
          BY <1>0, <2>1, <2>3, <4>1 DEF RefusalsInv, UnclaimedReference
        <4>3. refunds[k].status = "PENDING"
          <5>1. refunds[k].status # "NONE" /\ refunds[k].status # "SUCCEEDED"
            BY <1>t, <2>1, <4>2 DEF KnownInv, RowInv, ToldInv
          <5>2. refunds[k].status # "FAILED"
            BY <1>0, <1>t, <2>1, <4>2 DEF RefusalsInv, KnownInv, ToldInv
          <5>3. QED  BY <1>0, <2>1, <5>1, <5>2 DEF RefundRows
        <4>4. k \in Candidates(k)
          BY <2>1, <2>3, <4>2, <4>3 DEF Candidates, Matching, IsClaim
        <4>5. PICK x : Candidates(k) = {x}
          BY <2>3, FS_Singleton, FS_Subset, RefundsAssumption
             DEF RefundsAssumption, Candidates, Matching
        <4>6. QED  BY <2>3, <4>1, <4>4, <4>5
      <3>3. RowStatus(e[1]) = "FAILED" => provider[k].status \in Final
        BY <1>f, <2>1
      <3>4. RefusalsInv'
        BY <1>0, <1>c, <2>1, <2>3, <3>1, <3>2, <3>3
      <3>5. QED  BY <1>d, <2>3, <3>1, <3>4
    <2>4. QED  BY <1>11, <1>t, <2>2, <2>3, IngestEffect
  <1>12. ASSUME NEW e \in undelivered, RetrieveForEvent(e[2], e[1]) \/ DismissEvent(e[2], e[1])
         PROVE  RefusalsInv' /\ CoverInv'
    BY <1>12, <1>b DEF RetrieveForEvent, DismissEvent
  <1>13. ASSUME NEW n \in snapshots, ApplySnapshot(n)
         PROVE  RefusalsInv' /\ CoverInv'
    <2>1. UNCHANGED <<calls, provider>>
      BY <1>13 DEF ApplySnapshot
    <2>2. PICK k \in Keys :
             /\ refunds[k].ref = n.key /\ n.key \in Keys /\ Reconcilable(k)
             /\ n.status \in ProviderStatus
             /\ RowStatus(n.status) \in RowStates
             /\ RowSet(k, RowStatus(n.status), n.key)
      BY <1>13, <1>t, ApplyEffect
    <2>3. n.key = k
      BY <1>0, <2>2 DEF RefusalsInv
    <2>4. n.status \in Final => provider[k].status \in Final
      BY <1>t, <2>3 DEF KnownInv, ToldInv
    <2>5. RefusalsInv'
      BY <1>0, <1>c, <1>f, <2>1, <2>2, <2>3, <2>4
    <2>6. CoverInv'
      <3>1. /\ refunds[k].source \in Sources /\ refunds[k].amount \in Nat
            /\ Plans(refunds[k].source, refunds[k].amount, StatusOfNet(Net({k})), {k})
        BY <1>0, <2>2, TotalIsNat DEF Reconcilable, RefundRows
      <3>2. /\ refunds'[k].source = refunds[k].source /\ refunds'[k].amount = refunds[k].amount
            /\ \A j \in Keys \ {k} : refunds'[j] = refunds[j]
        BY <2>2 DEF RowSet
      <3>3. QED  BY <1>t, <3>1, <3>2, PlanCovers
    <2>7. QED  BY <2>5, <2>6
  <1>14. ASSUME NEW n \in snapshots, AbandonSnapshot(n)
         PROVE  RefusalsInv' /\ CoverInv'
    BY <1>14, <1>b DEF AbandonSnapshot
  <1>15. CASE CancelBooking \/ \E k \in Keys : RetrieveForStaff(k)
    BY <1>15, <1>b DEF CancelBooking, RetrieveForStaff
  <1>16. QED
    BY <1>1, <1>2, <1>3, <1>4, <1>5, <1>6, <1>7, <1>8, <1>9, <1>10, <1>11, <1>12, <1>13, <1>14,
       <1>15 DEF Next, RequestNext, ProviderNext, EventNext, StaffNext

LEMMA AcceptedInit == Init => AcceptedInv
  <1> SUFFICES ASSUME Init PROVE AcceptedInv
    OBVIOUS
  <1>1. RefusalsInv
    BY DEF Init, RefusalsInv
  <1>2. ASSUME NEW s \in Sources PROVE AmountOfRefunds(HeldOf(s)) <= Captured[s]
    <2>1. HeldOf(s) = {}
      BY DEF Init, HeldOf
    <2>2. AmountOfRefunds({}) = 0
      BY SumEmpty DEF AmountOfRefunds
    <2>3. QED  BY <2>1, <2>2, TotalIsNat
  <1>3. QED  BY <1>1, <1>2 DEF AcceptedInv, CoverInv

LEMMA AcceptedKept == RefundsInv /\ AcceptedInv /\ [Next]_vars => AcceptedInv'
  <1> SUFFICES ASSUME RefundsInv, AcceptedInv, [Next]_vars PROVE AcceptedInv'
    OBVIOUS
  <1>1. CASE Next
    BY <1>1, AcceptedStep DEF AcceptedInv
  <1>2. CASE UNCHANGED vars
    BY <1>2 DEF vars, AcceptedInv, RefusalsInv, CoverInv, HeldOf, AmountOfRefunds, Sources
  <1>3. QED  BY <1>1, <1>2

(* The invariant says what the run checks. *)
LEMMA AcceptedSuffices ==
    RefundsInv /\ AcceptedInv => SourcesCoverRefunds /\ RefundsKeepTheirRequest /\ MoneyIsAccounted
  <1> SUFFICES ASSUME RefundsInv, AcceptedInv, credentials
               PROVE SourcesCoverRefunds /\ RefundsKeepTheirRequest /\ MoneyIsAccounted
    BY DEF SourcesCoverRefunds, RefundsKeepTheirRequest, MoneyIsAccounted
  <1>0. TypeOK /\ RefusalsInv /\ CoverInv /\ KnownInv
    BY DEF RefundsInv, KnownInv, AcceptedInv
  <1>1. SourcesCoverRefunds
    <2>1. SUFFICES ASSUME NEW s \in Sources
                   PROVE  RefundedOf(s, {}) + AmountOfRefunds({k \in Counted("PENDING", {}) :
                                                 refunds[k].source = s}) <= Captured[s]
      BY DEF SourcesCoverRefunds
    <2>2. PICK S : S = {k \in Counted("SUCCEEDED", {}) : refunds[k].source = s}
                   /\ S \in SUBSET Keys
      BY DEF Counted
    <2>3. PICK P : P = {k \in Counted("PENDING", {}) : refunds[k].source = s}
                   /\ P \in SUBSET Keys
      BY DEF Counted
    <2>4. HeldOf(s) = S \cup P /\ S \cap P = {}
      BY <2>2, <2>3 DEF HeldOf, Counted
    <2>5. AmountOfRefunds(S \cup P) = AmountOfRefunds(S) + AmountOfRefunds(P)
      <3> DEFINE f == [k \in Keys |-> refunds[k].amount]
      <3>1. \A k \in S \cup P : f[k] \in Int
        BY <1>0, <2>2, <2>3, TotalIsNat DEF TypeOK, RefundRows
      <3>2. IsFiniteSet(S) /\ IsFiniteSet(P)
        BY <2>2, <2>3, FS_Subset, RefundsAssumption DEF RefundsAssumption
      <3>3. \A R : AmountOfRefunds(R) = SumFunctionOnSet(f, R)
        BY DEF AmountOfRefunds
      <3> HIDE DEF f
      <3>4. QED  BY <2>4, <3>1, <3>2, <3>3, SumUnion
    <2>6. QED  BY <1>0, <2>2, <2>3, <2>4, <2>5 DEF CoverInv, RefundedOf
  <1>2. RefundsKeepTheirRequest
    BY <1>0 DEF RefusalsInv, RefundsKeepTheirRequest
  <1>3. MoneyIsAccounted
    BY <1>0 DEF MoneyIsAccounted, Outstanding, RefusalsInv, KnownInv, RowInv, TypeOK, RefundRows,
                Final
  <1>4. QED  BY <1>1, <1>2, <1>3

----------------------------------------------------------------------------
\* The payment contract.

(* What a step may do to the booking: cancel it, or move the payment of a confirmed one. *)
LEMMA BookingSteps ==
    ASSUME RefundsInv, Next
    PROVE  \/ UNCHANGED booking
           \/ booking.status = "CONFIRMED" /\ booking'.status = "CONFIRMED"
           \/ CancelBooking
  <1>0. TypeOK
    BY DEF RefundsInv, KnownInv
  <1>a. ASSUME NEW k, NEW ref, NEW status, Record(k, ref, status), booking.status = "CONFIRMED"
        PROVE  booking'.status = "CONFIRMED"
    BY <1>0, <1>a DEF Record, TypeOK
  <1>1. ASSUME NEW c \in calls, PersistRefund(c)
        PROVE  UNCHANGED booking \/ (booking.status = "CONFIRMED" /\ booking'.status = "CONFIRMED")
    BY <1>1, <1>a DEF PersistRefund
  <1>2. ASSUME NEW e \in undelivered, IngestRefund(e[2], e[1])
        PROVE  UNCHANGED booking \/ (booking.status = "CONFIRMED" /\ booking'.status = "CONFIRMED")
    BY <1>2, <1>a DEF IngestRefund
  <1>3. ASSUME NEW n \in snapshots, ApplySnapshot(n)
        PROVE  booking.status = "CONFIRMED" /\ booking'.status = "CONFIRMED"
    BY <1>0, <1>3 DEF ApplySnapshot, Reconcilable, TypeOK
  <1>4. QED
    BY <1>1, <1>2, <1>3
       DEF Next, RequestNext, ProviderNext, EventNext, StaffNext, ClaimRefund, FailInternalClaim,
           AbandonCall, ProviderRefunds, ProviderRepeats, ProviderRefuses, RefuseCredentials,
           ProviderMoves, RevokeCredentials, RetrieveForEvent, DismissEvent, AbandonSnapshot,
           RetrieveForStaff

LEMMA RefundStepKeepsContract == RefundsInv /\ [Next]_vars => [Contract!Next]_(Contract!vars)
  <1> SUFFICES ASSUME RefundsInv, [Next]_vars PROVE [Contract!Next]_(Contract!vars)
    OBVIOUS
  <1> USE DEF Contract!vars
  <1>1. CASE UNCHANGED booking
    BY <1>1
  <1>2. CASE booking.status = "CONFIRMED" /\ booking'.status = "CONFIRMED"
    BY <1>2 DEF Contract!Next, Contract!RefundAll, Contract!ReturnRefund
  <1>3. CASE CancelBooking
    BY <1>3 DEF CancelBooking, RefundsInv, KnownInv, TypeOK,
                Contract!Next, Contract!Cancel, Contract!Live
  <1>4. CASE UNCHANGED vars
    BY <1>1, <1>4 DEF vars
  <1>5. QED  BY <1>1, <1>2, <1>3, <1>4, BookingSteps

----------------------------------------------------------------------------

LEMMA RefundsInvariant == Spec => []RefundsInv
<1>. QED BY RefundsStart, RefundsStep, PTL DEF Spec

LEMMA AcceptedInvariant == Spec => []AcceptedInv
<1>. QED BY RefundsInvariant, AcceptedInit, AcceptedKept, PTL DEF Spec

\* The variables of the refund services keep their types
\* (stripe-refund-service.ts, stripe-refund-reconciliation-service.ts).
THEOREM RefundsTypeCorrect == Spec => []TypeOK
<1>1. RefundsInv => TypeOK
  BY DEF RefundsInv, KnownInv
<1>. QED BY <1>1, RefundsInvariant, PTL

\* The payment status of the booking is what its ledger says, after every answer, event and
\* retrieval in every order (refundStripeBookingPayment, ingestStripePaymentWebhook,
\* reconcileVerifiedStripeRefundWebhook).
THEOREM BookingFollowsLedger == Spec => []StatusMatchesLedger
<1>1. RefundsInv => StatusMatchesLedger
  BY DEF RefundsInv, LedgerInv
<1>. QED BY <1>1, RefundsInvariant, PTL

\* An open claim whose refund exists at the provider has an event still to come that was not
\* recorded, whatever became of its calls (refundStripeBookingPayment, ingestStripePaymentWebhook).
THEOREM LostAreFound == Spec => []LostRefundsAreFound
<1>1. RefundsInv => LostRefundsAreFound
  BY DEF RefundsInv, LedgerInv
<1>. QED BY <1>1, RefundsInvariant, PTL

\* The refunds of a source, settled and pending, never exceed what it captured, as long as the
\* tenant's credentials are accepted (deriveBookingRefundExecutionPlan in payment-refund-execution-domain.ts).
THEOREM RefundsFitSources == Spec => []SourcesCoverRefunds
<1>. QED BY AcceptedSuffices, RefundsInvariant, AcceptedInvariant, PTL

\* A row is named by the provider's refund of its own request, never by that of another
\* (selectStripeWebhookRefundCandidate in stripe-webhook-domain.ts).
THEOREM RefundsAreTheirOwn == Spec => []RefundsKeepTheirRequest
<1>. QED BY AcceptedSuffices, RefundsInvariant, AcceptedInvariant, PTL

\* Money the provider gave back or may still give back is settled or pending in the ledger,
\* whatever was lost, as long as the tenant's credentials are accepted (failInternalClaim in stripe-refund-service.ts).
THEOREM MoneyStaysAccounted == Spec => []MoneyIsAccounted
<1>. QED BY AcceptedSuffices, RefundsInvariant, AcceptedInvariant, PTL

\* The refund services take steps of the payment contract only: they touch the payment of a
\* confirmed booking, and a cancelled one never changes (stripe-refund-service.ts,
\* stripe-refund-lifecycle-service.ts, hospitality-booking-cancellation-service.ts).
THEOREM RefundsKeepContract == Spec => KeepsPaymentContract
<1>. QED BY RefundStepKeepsContract, RefundsInvariant, PTL DEF Spec, KeepsPaymentContract

-----------------------------------------------------------------------------
(* Documents *)

(* s is a sequence of n rows, whatever they are. *)
IsTuple(s, n) == n \in Nat /\ s = [k \in 1..n |-> s[k]]

(* What Append does to the rows of any sequence. *)
LEMMA AppendTuple ==
    ASSUME NEW s, NEW n, IsTuple(s, n), NEW e
    PROVE /\ Len(s) = n /\ DOMAIN s = 1..n
          /\ IsTuple(Append(s, e), n + 1)
          /\ \A k \in 1..n : Append(s, e)[k] = s[k]
          /\ Append(s, e)[n + 1] = e
  <1> DEFINE S == {s[k] : k \in 1..n} \cup {e}
  <1>1. s \in Seq(S) /\ e \in S /\ Len(s) = n /\ n \in Nat
    <2>1. s \in [1..n -> S] /\ n \in Nat  BY DEF IsTuple
    <2>2. QED  BY <2>1
  <1> HIDE DEF S
  <1>2. Append(s, e) \in Seq(S) /\ Len(Append(s, e)) = n + 1
    BY <1>1
  <1>3. \A k \in 1..n : Append(s, e)[k] = s[k]
    BY <1>1
  <1>4. Append(s, e)[n + 1] = e
    BY <1>1
  <1>5. IsTuple(Append(s, e), n + 1)
    BY <1>1, <1>2 DEF IsTuple
  <1>6. QED  BY <1>1, <1>3, <1>4, <1>5 DEF IsTuple

(* A document belongs to an invoice before it, an invoice to itself.            *)
Placed ==
    \A d \in DOMAIN documents :
        /\ documents[d].kind \in {"INVOICE", "COMMERCIAL_AMENDMENT", "BOOKING_CANCELLATION"}
        /\ IF documents[d].kind = "INVOICE" THEN documents[d].invoice = d
                                            ELSE documents[d].invoice \in 1..(d - 1)

(* Nothing of its invoice follows a cancellation.                               *)
CancellationsLast ==
    \A d \in DOMAIN documents : documents[d].kind = "BOOKING_CANCELLATION" =>
        /\ documents[d].total = 0
        /\ \A e \in DOMAIN documents : documents[e].invoice = documents[d].invoice => e <= d

DocumentedOnce ==
    \A d, e \in DOMAIN documents : d # e =>
        /\ documents[d].change # 0 => documents[e].change # documents[d].change
        /\ documents[d].refund # 0 => documents[e].refund # documents[d].refund

DocumentsInv ==
    /\ \E n \in Nat : IsTuple(documents, n)
    /\ Placed /\ CancellationsLast /\ DocumentedOnce
    /\ \A q \in noteRequests : q.invoice \in Invoices

(* What a writer must have found for a document to be the next of its invoice. *)
MayFollow(kind, i, change, refund, total) ==
    /\ kind \in {"INVOICE", "COMMERCIAL_AMENDMENT", "BOOKING_CANCELLATION"}
    /\ IF kind = "INVOICE" THEN i = Len(documents) + 1 ELSE i \in Invoices /\ ~CancelledOn(i)
    /\ kind = "BOOKING_CANCELLATION" => total = 0
    /\ change # 0 => change \notin Documented
    /\ refund # 0 => \A d \in DOMAIN documents : documents[d].refund # refund

(* A document that may follow leaves the documents in order. *)
LEMMA IssueKeepsDocuments ==
    ASSUME DocumentsInv,
           NEW kind, NEW i, NEW change, NEW refund, NEW total, NEW frozen,
           MayFollow(kind, i, change, refund, total),
           Issue(kind, i, change, refund, total, frozen),
           noteRequests' \subseteq noteRequests
    PROVE DocumentsInv'
  <1> DEFINE row == [kind |-> kind, invoice |-> i, change |-> change, refund |-> refund,
                     total |-> total, rows |-> Len(legalMoney), frozen |-> frozen]
  <1>1. PICK n \in Nat : IsTuple(documents, n)
    BY DEF DocumentsInv
  <1>2. documents' = Append(documents, row)
    BY DEF Issue
  <1>3. /\ DOMAIN documents = 1..n /\ DOMAIN documents' = 1..(n + 1) /\ Len(documents) = n
        /\ IsTuple(documents', n + 1)
        /\ \A d \in 1..n : documents'[d] = documents[d]
        /\ documents'[n + 1] = row
    <2> HIDE DEF row
    <2>1. /\ Len(documents) = n /\ DOMAIN documents = 1..n
          /\ IsTuple(documents', n + 1)
          /\ \A k \in 1..n : documents'[k] = documents[k]
          /\ documents'[n + 1] = row
      BY <1>1, <1>2, AppendTuple
    <2>2. QED  BY <2>1 DEF IsTuple
  <1>4. /\ documents'[n + 1].kind = kind /\ documents'[n + 1].invoice = i
        /\ documents'[n + 1].change = change /\ documents'[n + 1].refund = refund
        /\ documents'[n + 1].total = total
    BY <1>3
  <1> HIDE DEF row
  <1>5. \A d \in 1..(n + 1) : d \in 1..n \/ d = n + 1
    OBVIOUS
  <1>6. kind # "INVOICE" => i \in 1..n
    BY <1>3 DEF MayFollow, Invoices
  <1>7. Placed'
    BY <1>3, <1>4, <1>5, <1>6 DEF Placed, MayFollow, DocumentsInv
  <1>8. CancellationsLast'
    <2>1. \A d \in 1..n : documents[d].kind = "BOOKING_CANCELLATION" => documents[d].invoice # i
      <3> SUFFICES ASSUME NEW d \in 1..n, documents[d].kind = "BOOKING_CANCELLATION",
                          documents[d].invoice = i
                   PROVE FALSE
        OBVIOUS
      <3>1. i \in 1..(d - 1)
        BY <1>3 DEF DocumentsInv, Placed
      <3>2. kind # "INVOICE"
        BY <3>1, <1>3 DEF MayFollow
      <3>3. d \in NotesOn(i) /\ d \notin ChainOn(i)
        BY <3>1, <1>3 DEF NotesOn, ChainOn
      <3>4. QED  BY <3>2, <3>3 DEF MayFollow, CancelledOn
    <2>2. QED  BY <2>1, <1>3, <1>4, <1>5 DEF CancellationsLast, DocumentsInv, MayFollow
  <1>9. DocumentedOnce'
    BY <1>3, <1>4, <1>5 DEF DocumentedOnce, DocumentsInv, MayFollow, Documented
  <1>10. Invoices \subseteq Invoices'
    BY <1>3 DEF Invoices
  <1>11. QED
    BY <1>3, <1>7, <1>8, <1>9, <1>10 DEF DocumentsInv

(* Only four steps issue a document, and each finds that it may follow. *)
LEMMA DocumentsStep == DocumentsInv /\ [LegalNext]_legalVars => DocumentsInv'
  <1> SUFFICES ASSUME DocumentsInv, [LegalNext]_legalVars PROVE DocumentsInv'
    OBVIOUS
  <1>1. CASE MoneyNext
    <2>1. UNCHANGED <<documents, noteRequests>>
      BY <1>1 DEF MoneyNext, SettleChange, ApplyChange, RefundBooking, ReturnRefund,
                  CancelLegalBooking
    <2>2. QED  BY <2>1 DEF DocumentsInv, Placed, CancellationsLast, DocumentedOnce, Invoices
  <1>2. CASE IssueInvoice
    <2>1. MayFollow("INVOICE", Len(documents) + 1, 0, 0, legalBooking.total)
      BY DEF MayFollow
    <2>2. QED  BY <2>1, <1>2, IssueKeepsDocuments DEF IssueInvoice
  <1>3. ASSUME NEW i \in Invoices,
               \/ \E c \in DOMAIN changes : RequestNote(i, c)
               \/ \E r \in DOMAIN legalMoney : RequestCancellationNote(i, r)
        PROVE DocumentsInv'
    <2>1. documents' = documents /\ \A q \in noteRequests' : q \in noteRequests \/ q.invoice = i
      BY <1>3 DEF RequestNote, RequestCancellationNote, Request
    <2>2. QED  BY <2>1 DEF DocumentsInv, Placed, CancellationsLast, DocumentedOnce, Invoices
  <1>4. ASSUME NEW i \in Invoices, IssueTerminalNote(i) PROVE DocumentsInv'
    <2>1. /\ MayFollow("BOOKING_CANCELLATION", i, 0, 0, 0)
          /\ Issue("BOOKING_CANCELLATION", i, 0, 0, 0, {})
          /\ noteRequests' \subseteq noteRequests
      BY <1>4 DEF IssueTerminalNote, MayFollow
    <2>2. QED  BY <2>1, IssueKeepsDocuments
  <1>5. ASSUME NEW q \in noteRequests, IssueNote(q) PROVE DocumentsInv'
    <2>1. q.invoice \in Invoices
      BY DEF DocumentsInv
    <2>2. ~CancelledOn(q.invoice)
      BY <1>5 DEF IssueNote, CancelledOn, ChainOn
    <2>3. /\ MayFollow("COMMERCIAL_AMENDMENT", q.invoice, q.change, 0, changes[q.change].after)
          /\ Issue("COMMERCIAL_AMENDMENT", q.invoice, q.change, 0, changes[q.change].after,
                   Frozen(q.invoice, q.change))
          /\ noteRequests' \subseteq noteRequests
      BY <1>5, <2>1, <2>2 DEF IssueNote, MayFollow, StillUndocumented, EndRequest
    <2>4. QED  BY <2>3, IssueKeepsDocuments
  <1>6. ASSUME NEW q \in noteRequests, IssueCancellationNote(q) PROVE DocumentsInv'
    <2>1. q.invoice \in Invoices
      BY DEF DocumentsInv
    <2>2. ~CancelledOn(q.invoice)
      BY <1>6 DEF IssueCancellationNote, CancelledOn, ChainOn
    <2>3. /\ MayFollow("BOOKING_CANCELLATION", q.invoice, 0, q.refund, 0)
          /\ Issue("BOOKING_CANCELLATION", q.invoice, 0, q.refund, 0, {})
          /\ noteRequests' \subseteq noteRequests
      BY <1>6, <2>1, <2>2 DEF IssueCancellationNote, MayFollow, EndRequest
    <2>4. QED  BY <2>3, IssueKeepsDocuments
  <1>7. ASSUME NEW q \in noteRequests, NoteRequestFails(q) PROVE DocumentsInv'
    <2>1. documents' = documents /\ noteRequests' \subseteq noteRequests
      BY <1>7 DEF NoteRequestFails, EndRequest
    <2>2. QED  BY <2>1 DEF DocumentsInv, Placed, CancellationsLast, DocumentedOnce, Invoices
  <1>8. CASE UNCHANGED legalVars
    BY <1>8 DEF legalVars, DocumentsInv, Placed, CancellationsLast, DocumentedOnce, Invoices
  <1>9. QED
    BY <1>1, <1>2, <1>3, <1>4, <1>5, <1>6, <1>7, <1>8 DEF LegalNext, DocumentsNext

(* The last document of an invoice is the only cancellation it can have. *)
LEMMA DocumentsInvSuffices == DocumentsInv => DocumentsEndAtZero
  <1> SUFFICES ASSUME DocumentsInv PROVE DocumentsEndAtZero
    OBVIOUS
  <1>1. PICK n \in Nat : DOMAIN documents = 1..n
    BY DEF DocumentsInv, IsTuple
  <1>2. ASSUME NEW i \in Invoices, NEW d \in NotesOn(i) \ ChainOn(i)
        PROVE documents[d].total = 0 /\ d = Max(NotesOn(i)) /\ NotesOn(i) \ ChainOn(i) = {d}
    <2>1. \A e \in NotesOn(i) \ ChainOn(i) :
              /\ e \in DOMAIN documents /\ documents[e].invoice = i
              /\ documents[e].kind = "BOOKING_CANCELLATION"
      BY DEF NotesOn, ChainOn, DocumentsInv, Placed
    <2>2. \A e \in NotesOn(i) \ ChainOn(i) : documents[e].total = 0 /\ \A f \in NotesOn(i) : f <= e
      BY <2>1 DEF DocumentsInv, CancellationsLast, NotesOn
    <2>3. NotesOn(i) \subseteq Int
      BY <1>1 DEF NotesOn
    <2>4. \A e \in NotesOn(i) : (\A f \in NotesOn(i) : f <= e) => e = d
      BY <2>2, <2>3
    <2>5. d = Max(NotesOn(i))
      BY <2>2, <2>3, <2>4 DEF Max
    <2>6. QED  BY <2>2, <2>4, <2>5
  <1>3. QED  BY <1>2 DEF DocumentsInv, DocumentedOnce, DocumentsEndAtZero

(* A cancellation note is the last document of its invoice and brings it to     *)
(* zero; an amendment, or the refund behind a cancellation, is documented once, *)
(* however requests interleave                                                  *)
(* (hospitality-commercial-amendment-adjustment-product-service.ts,             *)
(* hospitality-adjustment-note-service.ts).                                     *)
THEOREM DocumentsEnd == LegalSpec => []DocumentsEndAtZero
<1>1. LegalInit => DocumentsInv
  <2> SUFFICES ASSUME LegalInit PROVE DocumentsInv
    OBVIOUS
  <2>1. documents = <<>> /\ DOMAIN documents = {} /\ noteRequests = {}
    BY DEF LegalInit
  <2>2. IsTuple(documents, 0)
    BY <2>1 DEF IsTuple
  <2>3. QED  BY <2>1, <2>2 DEF DocumentsInv, Placed, CancellationsLast, DocumentedOnce
<1>2. LegalSpec => []DocumentsInv
  BY <1>1, DocumentsStep, PTL DEF LegalSpec
<1>3. QED
  BY <1>2, DocumentsInvSuffices, PTL

-----------------------------------------------------------------------------
(* Verification *)

(* What a step may do to the payment rows and to the amendments behind a note:  *)
(* a row keeps its money, an amendment its prices, and once it was applied also *)
(* the time of that.                                                            *)
MoneyKept ==
    /\ DOMAIN legalMoney \subseteq DOMAIN legalMoney'
    /\ \A r \in DOMAIN legalMoney :
           /\ legalMoney'[r].amount = legalMoney[r].amount
           /\ legalMoney'[r].source = legalMoney[r].source
           /\ legalMoney'[r].change = legalMoney[r].change

ChangesKept ==
    /\ DOMAIN changes \subseteq DOMAIN changes'
    /\ \A c \in DOMAIN changes :
           /\ changes'[c].before = changes[c].before /\ changes'[c].after = changes[c].after
           /\ changes[c].issued # NotApplied => changes'[c].issued = changes[c].issued

DocumentsKept ==
    /\ DOMAIN documents \subseteq DOMAIN documents'
    /\ \A d \in DOMAIN documents : documents'[d] = documents[d]

(* A note names an amendment and rows there are. *)
Named ==
    /\ \E n \in Nat : IsTuple(legalMoney, n)
    /\ \E n \in Nat : IsTuple(changes, n)
    /\ \A r \in DOMAIN legalMoney : DOMAIN legalMoney[r] = {"amount", "change", "source", "status"}
    /\ \A c \in DOMAIN changes : DOMAIN changes[c] = {"before", "after", "issued"}
    /\ \A d \in DOMAIN documents : documents[d].kind = "COMMERCIAL_AMENDMENT" =>
           /\ documents[d].change \in DOMAIN changes
           /\ documents[d].frozen \subseteq DOMAIN legalMoney
           /\ documents[d].rows \in Nat /\ 1..documents[d].rows \subseteq DOMAIN legalMoney
    /\ \A q \in noteRequests : q.change # 0 => q.change \in DOMAIN changes

(* The rows of a set add up to the same as long as they keep their money. *)
LEMMA AmountStays ==
    ASSUME MoneyKept, \E n \in Nat : IsTuple(legalMoney, n), NEW S, S \subseteq DOMAIN legalMoney
    PROVE  AmountOf(S)' = AmountOf(S)
  <1> DEFINE f == [r \in DOMAIN legalMoney |-> legalMoney[r].amount]
             g == [r \in DOMAIN legalMoney' |-> legalMoney'[r].amount]
  <1>1. IsFiniteSet(S)
    <2>1. PICK n \in Nat : DOMAIN legalMoney = 1..n
      BY DEF IsTuple
    <2>2. IsFiniteSet(1..n)
      BY FS_Interval
    <2>3. QED  BY <2>1, <2>2, FS_Subset
  <1>2. \A r \in S : g[r] = f[r]
    BY DEF MoneyKept
  <1>3. SumFunctionOnSet(g, S) = SumFunctionOnSet(f, S)
    <2> HIDE DEF f, g
    <2>1. QED  BY <1>1, <1>2, SumAgrees
  <1>4. QED  BY <1>3 DEF AmountOf

(* What was ready to apply by some rows is ready by them for good. *)
LEMMA SettledStays ==
    ASSUME MoneyKept, ChangesKept, \E n \in Nat : IsTuple(legalMoney, n),
           NEW S, S \subseteq DOMAIN legalMoney, NEW c, c \in DOMAIN changes, SettledBy(c, S)
    PROVE  SettledBy(c, S)'
  <1>1. \A r \in S : /\ legalMoney'[r].amount = legalMoney[r].amount
                     /\ legalMoney'[r].source = legalMoney[r].source
                     /\ legalMoney'[r].change = legalMoney[r].change
    BY DEF MoneyKept
  <1>2. ASSUME NEW T, T \subseteq S
        PROVE  /\ Captures(T)' = Captures(T) /\ RefundsIn(T)' = RefundsIn(T)
               /\ Captures(T) \subseteq S /\ RefundsIn(T) \subseteq S
               /\ \A s : RefundsOf(s, T)' = RefundsOf(s, T) /\ RefundsOf(s, T) \subseteq S
    BY <1>1, <1>2 DEF Captures, RefundsIn, RefundsOf
  <1>3. ASSUME NEW T, T \subseteq S PROVE AmountOf(T)' = AmountOf(T)
    BY <1>3, AmountStays
  <1>4. ASSUME NEW T, T \subseteq S PROVE NetOf(T)' = NetOf(T)
    <2>1. PICK C : C = Captures(T) /\ C = Captures(T)' /\ C \subseteq S
      BY <1>2, <1>4
    <2>2. PICK R : R = RefundsIn(T) /\ R = RefundsIn(T)' /\ R \subseteq S
      BY <1>2, <1>4
    <2>3. AmountOf(C)' = AmountOf(C) /\ AmountOf(R)' = AmountOf(R)
      BY <1>3, <2>1, <2>2
    <2>4. NetOf(T) = AmountOf(C) - AmountOf(R)
      BY <2>1, <2>2 DEF NetOf
    <2>5. NetOf(T)' = AmountOf(C)' - AmountOf(R)'
      BY <2>1, <2>2 DEF NetOf
    <2>6. QED  BY <2>3, <2>4, <2>5
  <1>5. NetOf(LinkedTo(c, S))' = NetOf(LinkedTo(c, S))
    <2>1. PICK T : T = LinkedTo(c, S) /\ T = LinkedTo(c, S)' /\ T \subseteq S
      BY <1>1 DEF LinkedTo
    <2>2. QED  BY <1>4, <2>1
  <1>6. NetOf(S)' = NetOf(S)
    BY <1>4
  <1>7. SourcesCover(S)'
    <2>1. Captures(S)' = Captures(S) /\ RefundsIn(S)' = RefundsIn(S)
      BY <1>2
    <2>2. ASSUME NEW r \in RefundsIn(S) PROVE legalMoney'[r].source \in S
      BY <1>1 DEF SettledBy, SourcesCover, RefundsIn
    <2>3. ASSUME NEW s \in Captures(S) PROVE AmountOf(RefundsOf(s, S))' <= legalMoney'[s].amount
      <3>1. PICK R : R = RefundsOf(s, S) /\ R = RefundsOf(s, S)' /\ R \subseteq S
        BY <1>1 DEF RefundsOf
      <3>2. AmountOf(R)' = AmountOf(R)
        BY <1>3, <3>1
      <3>3. AmountOf(R) <= legalMoney[s].amount
        BY <3>1 DEF SettledBy, SourcesCover
      <3>4. legalMoney'[s].amount = legalMoney[s].amount
        BY <1>1 DEF Captures
      <3>5. QED  BY <3>1, <3>2, <3>3, <3>4
    <2>4. QED  BY <2>1, <2>2, <2>3 DEF SourcesCover
  <1>9. changes'[c].before = changes[c].before /\ changes'[c].after = changes[c].after
    BY DEF ChangesKept
  <1>10. QED  BY <1>5, <1>6, <1>7, <1>9 DEF SettledBy

LEMMA MaxIsIn ==
    ASSUME NEW n \in Nat, NEW S, S \subseteq 1..n, S # {}
    PROVE  Max(S) \in S
  <1> DEFINE G == {m \in Nat : \A T \in SUBSET (1..m) :
                                   T # {} => \E x \in T : \A y \in T : x >= y}
  <1>1. 0 \in G
    <2>1. 1..0 = {}
      OBVIOUS
    <2>2. QED  BY <2>1
  <1>2. ASSUME NEW m \in Nat, m \in G PROVE m + 1 \in G
    <2>1. SUFFICES ASSUME NEW T \in SUBSET (1..(m + 1)), T # {}
                   PROVE \E x \in T : \A y \in T : x >= y
      OBVIOUS
    <2>2. CASE m + 1 \in T
      <3>1. \A y \in T : m + 1 >= y
        OBVIOUS
      <3>2. QED  BY <2>2, <3>1
    <2>3. CASE m + 1 \notin T
      <3>1. T \in SUBSET (1..m)
        BY <2>3
      <3>2. QED  BY <1>2, <2>1, <3>1
    <2>4. QED  BY <2>2, <2>3
  <1>3. Nat \subseteq G
    <2> HIDE DEF G
    <2>1. QED  BY <1>1, <1>2, NatSetInduction
  <1>4. \E x \in S : \A y \in S : x >= y
    BY <1>3
  <1>5. QED  BY <1>4 DEF Max

(* An invoice whose chain verifies, or is the one that never did. *)
Verified(i) ==
    \/ ChainVerifies(i)
    \/ \E d \in ChainOn(i) :
          /\ ChainOn(i) = {d}
          /\ \E r \in 1..documents[d].rows :
                legalMoney[r].change \notin {0, documents[d].change}

VerifyInv == DocumentsInv /\ Named /\ NotesStayVerifiable

(* The document a note of a chain follows is one. *)
LEMMA PredecessorIsThere ==
    ASSUME DocumentsInv, NEW i \in Invoices, NEW d \in ChainOn(i)
    PROVE  Predecessor(i, d) \in DOMAIN documents /\ Predecessor(i, d) >= 1
  <1>1. PICK n \in Nat : DOMAIN documents = 1..n
    BY DEF DocumentsInv, IsTuple
  <1> DEFINE S == {e \in ChainOn(i) \cup {i} : e < d}
  <1>2. S \subseteq 1..n
    BY <1>1 DEF ChainOn, NotesOn, Invoices
  <1>3. i \in S
    BY <1>1 DEF ChainOn, NotesOn, Invoices, DocumentsInv, Placed
  <1>4. Max(S) \in S
    <2> HIDE DEF S
    <2>1. QED  BY <1>2, <1>3, MaxIsIn
  <1>5. QED  BY <1>1, <1>2, <1>4 DEF Predecessor

(* A chain to which nothing is added verifies as long as what it read is kept. *)
LEMMA ChainStays ==
    ASSUME DocumentsInv, Named, MoneyKept, ChangesKept, DocumentsKept,
           NEW i \in Invoices, ChainOn(i)' = ChainOn(i), ChainVerifies(i)
    PROVE  ChainVerifies(i)'
  <1>1. SUFFICES ASSUME NEW d \in ChainOn(i)
                 PROVE /\ Continues(documents[d].change, Predecessor(i, d))'
                       /\ SettledBy(documents[d].change, documents[d].frozen)'
    BY DEF ChainVerifies
  <1>2. d \in DOMAIN documents /\ documents[d].kind = "COMMERCIAL_AMENDMENT"
    BY DEF ChainOn, NotesOn
  <1>3. PICK c : c = documents[d].change /\ c = documents'[d].change /\ c \in DOMAIN changes
    BY <1>2 DEF Named, DocumentsKept
  <1>4. PICK S : S = documents[d].frozen /\ S = documents'[d].frozen /\ S \subseteq DOMAIN legalMoney
    BY <1>2 DEF Named, DocumentsKept
  <1>5. PICK p : /\ p = Predecessor(i, d) /\ p = Predecessor(i, d)'
                 /\ p \in DOMAIN documents /\ p \in Nat /\ p >= 1
    <2>1. Predecessor(i, d)' = Predecessor(i, d)
      BY DEF Predecessor
    <2>2. Predecessor(i, d) \in Nat
      BY PredecessorIsThere DEF DocumentsInv, IsTuple
    <2>3. QED  BY <2>1, <2>2, PredecessorIsThere
  <1>6. Continues(c, p) /\ SettledBy(c, S)
    BY <1>3, <1>4, <1>5 DEF ChainVerifies
  <1>7. Continues(c, p)'
    <2>1. changes[c].issued # NotApplied
      BY <1>5, <1>6 DEF Continues, NotApplied
    <2>2. documents'[p] = documents[p] /\ changes'[c].before = changes[c].before
          /\ changes'[c].issued = changes[c].issued
      BY <1>3, <1>5, <2>1 DEF DocumentsKept, ChangesKept
    <2>3. QED  BY <1>6, <2>2 DEF Continues
  <1>8. SettledBy(c, S)'
    BY <1>3, <1>4, <1>6, SettledStays DEF Named
  <1>9. QED  BY <1>3, <1>4, <1>5, <1>7, <1>8

LEMMA VerifiedStays ==
    ASSUME DocumentsInv, Named, MoneyKept, ChangesKept, DocumentsKept,
           NEW i \in Invoices, ChainOn(i)' = ChainOn(i), Verified(i)
    PROVE  Verified(i)'
  <1>1. CASE ChainVerifies(i)
    BY <1>1, ChainStays DEF Verified
  <1>2. ASSUME NEW d \in ChainOn(i), ChainOn(i) = {d},
               NEW r \in 1..documents[d].rows,
               legalMoney[r].change \notin {0, documents[d].change}
        PROVE Verified(i)'
    <2>1. /\ d \in DOMAIN documents /\ documents'[d] = documents[d]
          /\ r \in DOMAIN legalMoney /\ legalMoney'[r].change = legalMoney[r].change
      BY DEF ChainOn, NotesOn, DocumentsKept, MoneyKept, Named
    <2>2. QED  BY <1>2, <2>1 DEF Verified
  <1>3. QED  BY <1>1, <1>2 DEF Verified

(* A step on the money keeps it; only an amendment's application changes one. *)
LEMMA MoneyStepKeeps ==
    ASSUME Named, MoneyNext
    PROVE  MoneyKept /\ ChangesKept /\ UNCHANGED <<documents, noteRequests>> /\ Named'
  <1>1. PICK m \in Nat : IsTuple(legalMoney, m)
    BY DEF Named
  <1>2. PICK k \in Nat : IsTuple(changes, k)
    BY DEF Named
  <1>3. DOMAIN legalMoney = 1..m /\ DOMAIN changes = 1..k /\ Len(legalMoney) = m /\ Len(changes) = k
    BY <1>1, <1>2, AppendTuple
  <1>4. ASSUME NEW amount, NEW change, NEW source, Paid(amount, change, source)
        PROVE  /\ MoneyKept /\ IsTuple(legalMoney', m + 1) /\ DOMAIN legalMoney' = 1..(m + 1)
               /\ \A r \in DOMAIN legalMoney' :
                      DOMAIN legalMoney'[r] = {"amount", "change", "source", "status"}
    <2> DEFINE row == [amount |-> amount, change |-> change, source |-> source,
                       status |-> "SUCCEEDED"]
    <2>1. /\ IsTuple(legalMoney', m + 1)
          /\ \A r \in 1..m : legalMoney'[r] = legalMoney[r]
          /\ legalMoney'[m + 1] = row
      BY <1>1, <1>4, AppendTuple DEF Paid
    <2>2. DOMAIN legalMoney' = 1..(m + 1)
      BY <2>1 DEF IsTuple
    <2>3. \A r \in 1..(m + 1) : r \in 1..m \/ r = m + 1
      OBVIOUS
    <2>4. DOMAIN row = {"amount", "change", "source", "status"}
      OBVIOUS
    <2>5. \A r \in 1..(m + 1) : DOMAIN legalMoney'[r] = {"amount", "change", "source", "status"}
      <3> HIDE DEF row
      <3>1. QED  BY <1>3, <2>1, <2>3, <2>4 DEF Named
    <2>6. MoneyKept
      BY <1>3, <2>1, <2>2 DEF MoneyKept
    <2>7. QED  BY <2>1, <2>2, <2>5, <2>6
  <1>5. ASSUME UNCHANGED changes PROVE ChangesKept
    BY <1>5 DEF ChangesKept
  <1>6. ASSUME UNCHANGED legalMoney PROVE MoneyKept
    BY <1>6 DEF MoneyKept
  <1>7. ASSUME UNCHANGED <<documents, noteRequests>>, MoneyKept, ChangesKept,
               \E n \in Nat : IsTuple(legalMoney', n),
               \E n \in Nat : IsTuple(changes', n),
               \A r \in DOMAIN legalMoney' :
                   DOMAIN legalMoney'[r] = {"amount", "change", "source", "status"},
               \A c \in DOMAIN changes' : DOMAIN changes'[c] = {"before", "after", "issued"}
        PROVE  Named'
    BY <1>7 DEF Named, MoneyKept, ChangesKept
  <1>8. ASSUME NEW delta \in PriceChanges, NEW s \in {0} \cup DOMAIN legalMoney,
               SettleChange(delta, s)
        PROVE  MoneyKept /\ ChangesKept /\ UNCHANGED <<documents, noteRequests>> /\ Named'
    <2> DEFINE row == [before |-> legalBooking.total, after |-> legalBooking.total + delta,
                       issued |-> NotApplied]
    <2>1. /\ MoneyKept /\ \E n \in Nat : IsTuple(legalMoney', n)
          /\ \A r \in DOMAIN legalMoney' :
                 DOMAIN legalMoney'[r] = {"amount", "change", "source", "status"}
      BY <1>4, <1>8 DEF SettleChange
    <2>2. changes' = Append(changes, row)
      BY <1>8 DEF SettleChange
    <2>3. DOMAIN row = {"before", "after", "issued"}
      OBVIOUS
    <2> HIDE DEF row
    <2>4. /\ IsTuple(changes', k + 1)
          /\ \A c \in 1..k : changes'[c] = changes[c]
          /\ changes'[k + 1] = row
      BY <1>2, <2>2, AppendTuple
    <2>5. DOMAIN changes' = 1..(k + 1) /\ \A c \in 1..(k + 1) : c \in 1..k \/ c = k + 1
      BY <2>4 DEF IsTuple
    <2>6. ChangesKept
      BY <1>3, <2>4, <2>5 DEF ChangesKept
    <2>7. \A c \in DOMAIN changes' : DOMAIN changes'[c] = {"before", "after", "issued"}
      BY <1>3, <2>3, <2>4, <2>5 DEF Named
    <2>8. UNCHANGED <<documents, noteRequests>>
      BY <1>8 DEF SettleChange
    <2>9. QED  BY <1>7, <2>1, <2>4, <2>6, <2>7, <2>8
  <1>9. ASSUME NEW c \in DOMAIN changes, ApplyChange(c)
        PROVE  MoneyKept /\ ChangesKept /\ UNCHANGED <<documents, noteRequests>> /\ Named'
    <2>1. /\ DOMAIN changes' = DOMAIN changes
          /\ \A d \in DOMAIN changes \ {c} : changes'[d] = changes[d]
          /\ changes'[c] = [changes[c] EXCEPT !.issued = Len(documents)]
          /\ UNCHANGED legalMoney
      BY <1>9 DEF ApplyChange
    <2>2. DOMAIN changes[c] = {"before", "after", "issued"}
      BY DEF Named
    <2>3. /\ changes'[c].before = changes[c].before /\ changes'[c].after = changes[c].after
          /\ DOMAIN changes'[c] = {"before", "after", "issued"}
      BY <2>1, <2>2
    <2>4. ChangesKept
      BY <1>9, <2>1, <2>3 DEF ChangesKept, ApplyChange
    <2>5. IsTuple(changes', k)
      <3>1. changes' = [d \in 1..k |-> changes'[d]]
        BY <1>3, <1>9 DEF ApplyChange
      <3>2. QED  BY <3>1 DEF IsTuple
    <2>6. QED  BY <1>1, <1>6, <1>7, <1>9, <2>1, <2>3, <2>4, <2>5 DEF ApplyChange, Named
  <1>10. ASSUME NEW amount \in 1..legalBooking.total, NEW s \in DOMAIN legalMoney,
                RefundBooking(amount, s)
         PROVE  MoneyKept /\ ChangesKept /\ UNCHANGED <<documents, noteRequests>> /\ Named'
    <2>1. /\ MoneyKept /\ \E n \in Nat : IsTuple(legalMoney', n)
          /\ \A r \in DOMAIN legalMoney' :
                 DOMAIN legalMoney'[r] = {"amount", "change", "source", "status"}
      BY <1>4, <1>10 DEF RefundBooking
    <2>2. UNCHANGED <<changes, documents, noteRequests>>
      BY <1>10 DEF RefundBooking
    <2>3. QED  BY <1>2, <1>5, <1>7, <2>1, <2>2 DEF Named
  <1>11. ASSUME NEW r \in DOMAIN legalMoney, ReturnRefund(r)
         PROVE  MoneyKept /\ ChangesKept /\ UNCHANGED <<documents, noteRequests>> /\ Named'
    <2>1. /\ DOMAIN legalMoney' = DOMAIN legalMoney
          /\ \A s \in DOMAIN legalMoney \ {r} : legalMoney'[s] = legalMoney[s]
          /\ legalMoney'[r] = [legalMoney[r] EXCEPT !.status = "FAILED"]
      BY <1>11 DEF ReturnRefund
    <2>2. DOMAIN legalMoney[r] = {"amount", "change", "source", "status"}
      BY DEF Named
    <2>3. /\ legalMoney'[r].amount = legalMoney[r].amount
          /\ legalMoney'[r].source = legalMoney[r].source
          /\ legalMoney'[r].change = legalMoney[r].change
          /\ DOMAIN legalMoney'[r] = {"amount", "change", "source", "status"}
      BY <2>1, <2>2
    <2>4. MoneyKept
      BY <2>1, <2>3 DEF MoneyKept
    <2>5. IsTuple(legalMoney', m)
      <3>1. legalMoney' = [s \in 1..m |-> legalMoney'[s]]
        BY <1>3, <1>11 DEF ReturnRefund
      <3>2. QED  BY <3>1 DEF IsTuple
    <2>6. UNCHANGED <<changes, documents, noteRequests>>
      BY <1>11 DEF ReturnRefund
    <2>7. QED  BY <1>2, <1>5, <1>7, <2>1, <2>3, <2>4, <2>5, <2>6 DEF Named
  <1>12. CASE CancelLegalBooking
    BY <1>5, <1>6, <1>7, <1>12 DEF CancelLegalBooking, Named
  <1>13. QED  BY <1>8, <1>9, <1>10, <1>11, <1>12 DEF MoneyNext

(* What an issued document leaves alone: all others, and the chains it does not *)
(* belong to.                                                                   *)
LEMMA IssueKeepsChains ==
    ASSUME DocumentsInv,
           NEW kind, NEW i, NEW change, NEW refund, NEW total, NEW frozen,
           Issue(kind, i, change, refund, total, frozen)
    PROVE  /\ DocumentsKept
           /\ \E n \in Nat :
                 /\ DOMAIN documents = 1..n /\ DOMAIN documents' = 1..(n + 1)
                 /\ Len(documents) = n
                 /\ \A d \in 1..(n + 1) : d \in 1..n \/ d = n + 1
                 /\ documents'[n + 1] =
                      [kind |-> kind, invoice |-> i, change |-> change, refund |-> refund,
                       total |-> total, rows |-> Len(legalMoney), frozen |-> frozen]
                 /\ \A j \in Invoices :
                        ChainOn(j)' = IF kind = "COMMERCIAL_AMENDMENT" /\ j = i
                                         THEN ChainOn(j) \cup {n + 1} ELSE ChainOn(j)
  <1> DEFINE row == [kind |-> kind, invoice |-> i, change |-> change, refund |-> refund,
                     total |-> total, rows |-> Len(legalMoney), frozen |-> frozen]
  <1>1. PICK n \in Nat : IsTuple(documents, n)
    BY DEF DocumentsInv
  <1>2. documents' = Append(documents, row)
    BY DEF Issue
  <1>3. row.kind = kind /\ row.invoice = i
    OBVIOUS
  <1> HIDE DEF row
  <1>4. /\ DOMAIN documents = 1..n /\ Len(documents) = n
        /\ IsTuple(documents', n + 1)
        /\ \A d \in 1..n : documents'[d] = documents[d]
        /\ documents'[n + 1] = row
    BY <1>1, <1>2, AppendTuple
  <1>5. DOMAIN documents' = 1..(n + 1)
    BY <1>4 DEF IsTuple
  <1>6. \A d \in 1..(n + 1) : d \in 1..n \/ d = n + 1
    OBVIOUS
  <1>7. DocumentsKept
    BY <1>4, <1>5 DEF DocumentsKept
  <1>8. ASSUME NEW j \in Invoices
        PROVE ChainOn(j)' = IF kind = "COMMERCIAL_AMENDMENT" /\ j = i
                               THEN ChainOn(j) \cup {n + 1} ELSE ChainOn(j)
    <2>1. j \in 1..n /\ n + 1 \notin 1..n
      BY <1>4 DEF Invoices
    <2>2. ChainOn(j) = {d \in 1..n : /\ d # j /\ documents[d].invoice = j
                                     /\ documents[d].kind = "COMMERCIAL_AMENDMENT"}
      BY <1>4 DEF ChainOn, NotesOn
    <2>3. ChainOn(j)' = {d \in 1..(n + 1) : /\ d # j /\ documents'[d].invoice = j
                                            /\ documents'[d].kind = "COMMERCIAL_AMENDMENT"}
      BY <1>5 DEF ChainOn, NotesOn
    <2>4. QED  BY <1>3, <1>4, <1>6, <2>1, <2>2, <2>3
  <1>9. QED  BY <1>4, <1>5, <1>6, <1>7, <1>8 DEF row

(* What the next state needs for its notes, whichever document was issued. *)
LEMMA IssueKeepsNames ==
    ASSUME DocumentsInv, Named,
           NEW kind, NEW i, NEW change, NEW refund, NEW total, NEW frozen,
           Issue(kind, i, change, refund, total, frozen),
           kind = "COMMERCIAL_AMENDMENT" =>
               change \in DOMAIN changes /\ frozen \subseteq DOMAIN legalMoney,
           UNCHANGED <<legalMoney, changes>>, noteRequests' \subseteq noteRequests
    PROVE  Named' /\ MoneyKept /\ ChangesKept
  <1>1. MoneyKept /\ ChangesKept
    BY DEF MoneyKept, ChangesKept
  <1>2. PICK n \in Nat :
           /\ DOMAIN documents = 1..n /\ DOMAIN documents' = 1..(n + 1)
           /\ \A d \in 1..(n + 1) : d \in 1..n \/ d = n + 1
           /\ documents'[n + 1] =
                [kind |-> kind, invoice |-> i, change |-> change, refund |-> refund,
                 total |-> total, rows |-> Len(legalMoney), frozen |-> frozen]
    BY IssueKeepsChains
  <1>3. \A d \in 1..n : documents'[d] = documents[d]
    BY <1>2, IssueKeepsChains DEF DocumentsKept
  <1>4. Len(legalMoney) \in Nat /\ DOMAIN legalMoney = 1..Len(legalMoney)
    BY AppendTuple DEF Named
  <1>5. documents'[n + 1].kind = "COMMERCIAL_AMENDMENT" =>
           /\ documents'[n + 1].change \in DOMAIN changes
           /\ documents'[n + 1].frozen \subseteq DOMAIN legalMoney
           /\ documents'[n + 1].rows \in Nat /\ 1..documents'[n + 1].rows \subseteq DOMAIN legalMoney
    BY <1>2, <1>4
  <1>6. QED  BY <1>1, <1>2, <1>3, <1>5 DEF Named

(* Invoices and cancellations, new or not, leave every chain as it was. *)
LEMMA OtherDocumentKeepsChains ==
    ASSUME VerifyInv,
           NEW kind, NEW i, NEW refund, NEW total,
           Issue(kind, i, 0, refund, total, {}),
           kind \in {"INVOICE", "BOOKING_CANCELLATION"},
           kind = "INVOICE" => i = Len(documents) + 1,
           UNCHANGED <<legalMoney, changes>>, noteRequests' \subseteq noteRequests
    PROVE  Named' /\ NotesStayVerifiable'
  <1>1. Named' /\ MoneyKept /\ ChangesKept
    BY IssueKeepsNames DEF VerifyInv
  <1>a. DocumentsInv /\ kind # "COMMERCIAL_AMENDMENT"
    BY DEF VerifyInv
  <1>3. /\ DocumentsKept
        /\ \E n \in Nat :
              /\ DOMAIN documents = 1..n /\ DOMAIN documents' = 1..(n + 1)
              /\ Len(documents) = n
              /\ \A d \in 1..(n + 1) : d \in 1..n \/ d = n + 1
              /\ documents'[n + 1] =
                   [kind |-> kind, invoice |-> i, change |-> 0, refund |-> refund,
                    total |-> total, rows |-> Len(legalMoney), frozen |-> {}]
              /\ \A j \in Invoices :
                     ChainOn(j)' = IF kind = "COMMERCIAL_AMENDMENT" /\ j = i
                                      THEN ChainOn(j) \cup {n + 1} ELSE ChainOn(j)
    BY <1>a, IssueKeepsChains, ZenonT(30)
  <1>2. PICK n \in Nat :
           /\ DOMAIN documents = 1..n /\ DOMAIN documents' = 1..(n + 1) /\ Len(documents) = n
           /\ \A d \in 1..(n + 1) : d \in 1..n \/ d = n + 1
           /\ documents'[n + 1] =
                [kind |-> kind, invoice |-> i, change |-> 0, refund |-> refund,
                 total |-> total, rows |-> Len(legalMoney), frozen |-> {}]
           /\ \A j \in Invoices :
                  ChainOn(j)' = IF kind = "COMMERCIAL_AMENDMENT" /\ j = i
                                   THEN ChainOn(j) \cup {n + 1} ELSE ChainOn(j)
    BY <1>3
  <1>b. \A j \in Invoices : ChainOn(j)' = ChainOn(j)
    BY <1>a, <1>2
  <1>4. \A j \in Invoices' : j \in Invoices \/ (j = n + 1 /\ kind = "INVOICE" /\ i = n + 1)
    BY <1>2, <1>3 DEF Invoices, DocumentsKept
  <1>5. ASSUME NEW j \in Invoices PROVE Verified(j)'
    BY <1>1, <1>b, <1>3, VerifiedStays DEF VerifyInv, NotesStayVerifiable, Verified
  <1>6. ASSUME kind = "INVOICE", i = n + 1 PROVE ChainVerifies(n + 1)'
    <2>1. ASSUME NEW d \in 1..n PROVE documents'[d].invoice # n + 1
      BY <1>2, <1>3 DEF DocumentsKept, VerifyInv, DocumentsInv, Placed
    <2>2. ChainOn(n + 1)' = {}
      BY <1>2, <2>1 DEF ChainOn, NotesOn
    <2>3. QED  BY <2>2 DEF ChainVerifies
  <1>7. QED  BY <1>1, <1>4, <1>5, <1>6 DEF NotesStayVerifiable, Verified

(* A first note alone: its chain verifies unless money outside it had moved. *)
LEMMA FirstNoteVerifies ==
    ASSUME VerifyInv, NEW i \in Invoices, NEW c \in DOMAIN changes,
           NotesOn(i) = {}, Ready(i, c),
           Issue("COMMERCIAL_AMENDMENT", i, c, 0, changes[c].after, Frozen(i, c)),
           UNCHANGED <<legalMoney, changes>>
    PROVE  Verified(i)'
  <1>1. PICK n \in Nat :
           /\ DOMAIN documents = 1..n /\ DOMAIN documents' = 1..(n + 1)
           /\ documents'[n + 1] =
                [kind |-> "COMMERCIAL_AMENDMENT", invoice |-> i, change |-> c, refund |-> 0,
                 total |-> changes[c].after, rows |-> Len(legalMoney), frozen |-> Frozen(i, c)]
           /\ ChainOn(i)' = ChainOn(i) \cup {n + 1}
    BY IssueKeepsChains DEF VerifyInv
  <1>2. documents'[i] = documents[i] /\ i \in 1..n
    BY <1>1, IssueKeepsChains DEF VerifyInv, DocumentsKept, Invoices
  <1>3. ChainOn(i) = {} /\ ChainOn(i)' = {n + 1}
    BY <1>1 DEF ChainOn
  <1>4. /\ documents'[n + 1].change = c /\ documents'[n + 1].frozen = Frozen(i, c)
        /\ documents'[n + 1].rows = Len(legalMoney)
    BY <1>1
  <1>5. Len(legalMoney) \in Nat /\ DOMAIN legalMoney = 1..Len(legalMoney)
    BY AppendTuple DEF VerifyInv, Named
  <1>6. CASE \E r \in DOMAIN legalMoney : legalMoney[r].change \notin {0, c}
    BY <1>3, <1>4, <1>5, <1>6 DEF Verified
  <1>7. CASE \A r \in DOMAIN legalMoney : legalMoney[r].change \in {0, c}
    <2>1. Frozen(i, c) = Succeeded
      BY <1>3, <1>7 DEF Frozen, Succeeded
    <2>2. SettledBy(c, Succeeded) /\ Continues(c, i)
      <3>1. \A S : S = {i} => Max(S) = i
        BY <1>2 DEF Max
      <3>2. Baseline(i) = i
        BY <1>3, <3>1 DEF Baseline
      <3>3. QED  BY <3>2 DEF Ready
    <2>3. PICK S : S = Succeeded /\ S \subseteq DOMAIN legalMoney
      BY DEF Succeeded
    <2>4. SettledBy(c, S)'
      <3>1. MoneyKept /\ ChangesKept
        BY DEF MoneyKept, ChangesKept
      <3>2. QED  BY <2>2, <2>3, <3>1, SettledStays DEF VerifyInv, Named
    <2>5. Predecessor(i, n + 1)' = i
      <3>1. {e \in {n + 1} \cup {i} : e < n + 1} = {i}
        BY <1>2
      <3>2. \A T : T = {i} => Max(T) = i
        BY <1>2 DEF Max
      <3>3. Predecessor(i, n + 1)' = Max({e \in ChainOn(i)' \cup {i} : e < n + 1})
        BY DEF Predecessor
      <3>4. QED  BY <1>3, <3>1, <3>2, <3>3
    <2>6. Continues(c, i)'
      BY <1>2, <2>2 DEF Continues
    <2>7. ChainVerifies(i)'
      <3>1. documents'[n + 1].change = c /\ documents'[n + 1].frozen = S
        BY <1>4, <2>1, <2>3
      <3>2. QED  BY <1>3, <2>4, <2>5, <2>6, <3>1 DEF ChainVerifies
    <2>8. QED  BY <2>7 DEF Verified
  <1>8. QED  BY <1>6, <1>7

LEMMA NoteVerifies ==
    ASSUME VerifyInv, NEW q \in noteRequests, IssueNote(q)
    PROVE  Named' /\ NotesStayVerifiable'
  <1> DEFINE i == q.invoice
             c == q.change
  <1>1. i \in Invoices /\ c \in DOMAIN changes
    BY DEF VerifyInv, DocumentsInv, Named, IssueNote
  <1>2. Issue("COMMERCIAL_AMENDMENT", i, c, 0, changes[c].after, Frozen(i, c))
    BY DEF IssueNote
  <1>3. UNCHANGED <<legalMoney, changes>> /\ noteRequests' \subseteq noteRequests
    BY DEF IssueNote, EndRequest
  <1>4. Frozen(i, c) \subseteq DOMAIN legalMoney
    BY DEF Frozen, Succeeded
  <1>5. Named' /\ MoneyKept /\ ChangesKept
    <2> HIDE DEF i, c
    <2>1. QED  BY <1>1, <1>2, <1>3, <1>4, IssueKeepsNames DEF VerifyInv
  <1>6. DocumentsKept /\ Invoices' = Invoices
    <2> HIDE DEF i, c
    <2>1. PICK n \in Nat :
           /\ DOMAIN documents = 1..n /\ DOMAIN documents' = 1..(n + 1)
           /\ \A d \in 1..(n + 1) : d \in 1..n \/ d = n + 1
           /\ documents'[n + 1] =
                [kind |-> "COMMERCIAL_AMENDMENT", invoice |-> i, change |-> c, refund |-> 0,
                 total |-> changes[c].after, rows |-> Len(legalMoney), frozen |-> Frozen(i, c)]
      BY <1>2, IssueKeepsChains DEF VerifyInv
    <2>2. documents'[n + 1].kind # "INVOICE"
      BY <2>1
    <2>3. DocumentsKept
      BY <1>2, IssueKeepsChains DEF VerifyInv
    <2>4. QED  BY <2>1, <2>2, <2>3 DEF DocumentsKept, Invoices
  <1>7. ASSUME NEW j \in Invoices, j # i PROVE Verified(j)'
    <2>1. ChainOn(j)' = ChainOn(j)
      <3> HIDE DEF i, c
      <3>1. QED  BY <1>2, <1>7, IssueKeepsChains DEF VerifyInv
    <2>2. QED  BY <1>5, <1>6, <2>1, VerifiedStays DEF VerifyInv, NotesStayVerifiable, Verified
  <1>8. Verified(i)'
    <2>1. CASE q.repeated
      BY <2>1 DEF IssueNote, Verified
    <2>2. CASE ~q.repeated
      <3>1. NotesOn(i) = {} /\ Ready(i, c)
        BY <2>2 DEF IssueNote
      <3> HIDE DEF i, c
      <3>2. QED  BY <1>1, <1>2, <1>3, <3>1, FirstNoteVerifies
    <2>3. QED  BY <2>1, <2>2
  <1>9. QED  BY <1>5, <1>6, <1>7, <1>8 DEF NotesStayVerifiable, Verified

LEMMA VerifyStep == VerifyInv /\ [LegalNext]_legalVars => VerifyInv'
  <1> SUFFICES ASSUME VerifyInv, [LegalNext]_legalVars PROVE VerifyInv'
    OBVIOUS
  <1>1. DocumentsInv'
    BY DocumentsStep DEF VerifyInv
  <1> SUFFICES Named' /\ NotesStayVerifiable'
    BY <1>1 DEF VerifyInv
  <1>2. ASSUME MoneyKept, ChangesKept, Named', UNCHANGED documents
        PROVE  NotesStayVerifiable'
    <2>1. Invoices' = Invoices /\ DocumentsKept
      BY <1>2 DEF Invoices, DocumentsKept
    <2>2. ASSUME NEW i \in Invoices PROVE Verified(i)'
      <3>1. ChainOn(i)' = ChainOn(i)
        BY <1>2 DEF ChainOn, NotesOn
      <3>2. QED  BY <1>2, <2>1, <3>1, VerifiedStays
                 DEF VerifyInv, NotesStayVerifiable, Verified
    <2>3. QED  BY <2>1, <2>2 DEF NotesStayVerifiable, Verified
  <1>3. CASE MoneyNext
    BY <1>2, <1>3, MoneyStepKeeps DEF VerifyInv
  <1>4. ASSUME UNCHANGED <<legalMoney, changes, documents>>,
               \A q \in noteRequests' : q.change # 0 => q.change \in DOMAIN changes
        PROVE  Named' /\ NotesStayVerifiable'
    <2>1. MoneyKept /\ ChangesKept /\ Named'
      BY <1>4 DEF MoneyKept, ChangesKept, Named, VerifyInv
    <2>2. QED  BY <1>2, <1>4, <2>1
  <1>5. CASE IssueInvoice
    BY <1>5, OtherDocumentKeepsChains DEF IssueInvoice
  <1>6. ASSUME NEW i \in Invoices, NEW c \in DOMAIN changes, RequestNote(i, c)
        PROVE  Named' /\ NotesStayVerifiable'
    <2>1. noteRequests' =
             noteRequests \cup
                 {[invoice |-> i, change |-> c, refund |-> 0, repeated |-> ChainOn(i) # {}]}
          /\ UNCHANGED <<legalMoney, changes, documents>>
      BY <1>6 DEF RequestNote, Request
    <2>2. QED  BY <1>4, <2>1 DEF VerifyInv, Named
  <1>7. ASSUME NEW i \in Invoices, NEW r \in DOMAIN legalMoney, RequestCancellationNote(i, r)
        PROVE  Named' /\ NotesStayVerifiable'
    <2>1. noteRequests' =
             noteRequests \cup {[invoice |-> i, change |-> 0, refund |-> r, repeated |-> FALSE]}
          /\ UNCHANGED <<legalMoney, changes, documents>>
      BY <1>7 DEF RequestCancellationNote, Request
    <2>2. QED  BY <1>4, <2>1 DEF VerifyInv, Named
  <1>8. ASSUME NEW i \in Invoices, IssueTerminalNote(i)
        PROVE  Named' /\ NotesStayVerifiable'
    <2>1. Issue("BOOKING_CANCELLATION", i, 0, 0, 0, {})
          /\ UNCHANGED <<legalMoney, changes, noteRequests>>
      BY <1>8 DEF IssueTerminalNote
    <2>2. QED  BY <2>1, OtherDocumentKeepsChains
  <1>9. ASSUME NEW q \in noteRequests, IssueNote(q)
        PROVE  Named' /\ NotesStayVerifiable'
    BY <1>9, NoteVerifies
  <1>10. ASSUME NEW q \in noteRequests, IssueCancellationNote(q)
         PROVE  Named' /\ NotesStayVerifiable'
    <2>1. Issue("BOOKING_CANCELLATION", q.invoice, 0, q.refund, 0, {})
          /\ UNCHANGED <<legalMoney, changes>> /\ noteRequests' \subseteq noteRequests
      BY <1>10 DEF IssueCancellationNote, EndRequest
    <2>2. QED  BY <2>1, OtherDocumentKeepsChains
  <1>11. ASSUME NEW q \in noteRequests, NoteRequestFails(q)
         PROVE  Named' /\ NotesStayVerifiable'
    BY <1>4, <1>11 DEF NoteRequestFails, EndRequest, VerifyInv, Named
  <1>12. CASE UNCHANGED legalVars
    BY <1>4, <1>12 DEF legalVars, VerifyInv, Named
  <1>13. QED
    BY <1>3, <1>5, <1>6, <1>7, <1>8, <1>9, <1>10, <1>11, <1>12 DEF LegalNext, DocumentsNext

LEMMA VerifyInit == LegalInit => VerifyInv
  <1> SUFFICES ASSUME LegalInit PROVE VerifyInv
    OBVIOUS
  <1>1. documents = <<>> /\ changes = <<>> /\ noteRequests = {}
        /\ legalMoney = <<[amount |-> BookedPrice, change |-> 0, source |-> 0,
                           status |-> "SUCCEEDED"]>>
    BY DEF LegalInit
  <1>2. IsTuple(documents, 0) /\ IsTuple(changes, 0) /\ IsTuple(legalMoney, 1)
    BY <1>1 DEF IsTuple
  <1>3. DOMAIN documents = {} /\ DOMAIN changes = {} /\ DOMAIN legalMoney = {1}
    BY <1>1
  <1>4. DocumentsInv
    BY <1>1, <1>2, <1>3 DEF DocumentsInv, Placed, CancellationsLast, DocumentedOnce
  <1>5. Named
    BY <1>1, <1>2, <1>3 DEF Named
  <1>6. NotesStayVerifiable
    BY <1>3 DEF NotesStayVerifiable, Invoices
  <1>7. QED  BY <1>4, <1>5, <1>6 DEF VerifyInv

(* A chain of adjustment notes verifies for good, whatever becomes of the       *)
(* payments behind it, save a first note alone that was issued after money      *)
(* outside it had moved                                                        *)
(* (hospitality-commercial-amendment-adjustment-product-service.ts).            *)
THEOREM ChainsVerify == LegalSpec => []NotesStayVerifiable
<1>1. VerifyInv => NotesStayVerifiable
  BY DEF VerifyInv
<1>2. QED  BY <1>1, VerifyInit, VerifyStep, PTL DEF LegalSpec

-----------------------------------------------------------------------------
(* Types of the documents' rows *)

(* A sequence of rows, and one more row of their set, in the terms the steps    *)
(* below need.                                                                  *)
LEMMA AppendIn ==
    ASSUME NEW S, NEW s \in Seq(S), NEW e \in S
    PROVE  /\ Append(s, e) \in Seq(S)
           /\ Len(s) \in Nat /\ DOMAIN s = 1..Len(s)
           /\ DOMAIN Append(s, e) = DOMAIN s \cup {Len(s) + 1}
           /\ \A k \in DOMAIN s : Append(s, e)[k] = s[k] /\ s[k] \in S
           /\ Append(s, e)[Len(s) + 1] = e
  <1>1. /\ Append(s, e) \in Seq(S) /\ Len(s) \in Nat /\ DOMAIN s = 1..Len(s)
        /\ Len(Append(s, e)) = Len(s) + 1
    OBVIOUS
  <1>2. DOMAIN Append(s, e) = 1..(Len(s) + 1)
    BY <1>1
  <1>3. QED  BY <1>1, <1>2

LEMMA SeqGrows ==
    ASSUME NEW S, NEW T, S \subseteq T, NEW s \in Seq(S)
    PROVE  s \in Seq(T)
  OBVIOUS

(* A refund names a capture there is and a request an amendment there is; the   *)
(* requests are finitely many.                                                  *)
LegalRefer ==
    /\ \A r \in DOMAIN legalMoney : legalMoney[r].source \in {0} \cup DOMAIN legalMoney
    /\ \A q \in noteRequests : q.change \in {0} \cup DOMAIN changes
    /\ IsFiniteSet(noteRequests)

LegalInv == LegalTypeOK /\ LegalRefer

LEMMA LegalStarts == LegalInit => LegalInv
  <1> SUFFICES ASSUME LegalInit PROVE LegalInv
    OBVIOUS
  <1> DEFINE first == [amount |-> BookedPrice, change |-> 0, source |-> 0, status |-> "SUCCEEDED"]
  <1>1. first \in MoneyRows /\ first.change = 0 /\ first.source = 0
    BY LegalAssumption DEF LegalAssumption, MoneyRows
  <1> HIDE DEF first
  <1>2. legalMoney = <<first>> /\ changes = <<>> /\ documents = <<>> /\ noteRequests = {}
    BY DEF LegalInit, first
  <1>3. legalMoney \in Seq(MoneyRows) /\ DOMAIN legalMoney = {1} /\ legalMoney[1] = first
    BY <1>1, <1>2
  <1>4. changes \in Seq(ChangeRows) /\ documents \in Seq(DocumentRows)
    BY <1>2
  <1>5. IsFiniteSet(noteRequests) /\ Cardinality(noteRequests) = 0
    BY <1>2, FS_EmptySet
  <1>6. MaxNoteRequests \in Nat /\ BookedPrice \in Nat \ {0}
    BY LegalAssumption DEF LegalAssumption
  <1>7. Cardinality(noteRequests) <= MaxNoteRequests
    BY <1>5, <1>6
  <1>8. legalBooking \in [status : {"CONFIRMED", "CANCELLED"},
                          paymentStatus : {"PAID", "PARTIALLY_REFUNDED", "REFUNDED"},
                          total : Nat \ {0}]
    BY <1>6 DEF LegalInit
  <1>9. LegalTypeOK
    BY <1>1, <1>2, <1>3, <1>4, <1>7, <1>8 DEF LegalTypeOK
  <1>10. QED  BY <1>1, <1>2, <1>3, <1>5, <1>9 DEF LegalInv, LegalRefer

(* What a payment row keeps, among the amendments n.                            *)
MoneyFits(n) ==
    /\ legalMoney \in Seq(MoneyRows)
    /\ \A r \in DOMAIN legalMoney :
           /\ legalMoney[r].change \in {0} \cup n
           /\ legalMoney[r].source \in {0} \cup DOMAIN legalMoney
           /\ legalMoney[r].source # 0 => legalMoney[legalMoney[r].source].source = 0

(* A payment, or a refund of a capture, is appended.                            *)
LEMMA PaidFits ==
    ASSUME LegalInv, NEW amount \in Nat \ {0}, NEW n, DOMAIN changes \subseteq n,
           NEW change \in Nat, change \in {0} \cup n,
           NEW source \in {0} \cup DOMAIN legalMoney,
           source # 0 => legalMoney[source].source = 0,
           Paid(amount, change, source)
    PROVE  MoneyFits(n)'
  <1> DEFINE row == [amount |-> amount, change |-> change, source |-> source, status |-> "SUCCEEDED"]
  <1>1. legalMoney \in Seq(MoneyRows) /\ source \in Nat
    BY DEF LegalInv, LegalTypeOK
  <1>2. row \in MoneyRows /\ row.change = change /\ row.source = source
    BY <1>1 DEF MoneyRows
  <1> HIDE DEF row
  <1>3. legalMoney' = Append(legalMoney, row)
    BY DEF Paid, row
  <1>4. PICK x : x = Len(legalMoney) + 1
    OBVIOUS
  <1>5. /\ legalMoney' \in Seq(MoneyRows) /\ DOMAIN legalMoney' = DOMAIN legalMoney \cup {x}
        /\ x \notin DOMAIN legalMoney /\ 0 \notin DOMAIN legalMoney /\ legalMoney'[x] = row
        /\ \A r \in DOMAIN legalMoney : legalMoney'[r] = legalMoney[r]
    BY <1>1, <1>2, <1>3, <1>4, AppendIn
  <1>6. ASSUME NEW r \in DOMAIN legalMoney
        PROVE  /\ legalMoney[r].change \in {0} \cup n
               /\ legalMoney[r].source \in {0} \cup DOMAIN legalMoney
               /\ legalMoney[r].source # 0 => legalMoney[legalMoney[r].source].source = 0
    BY DEF LegalInv, LegalTypeOK, LegalRefer
  <1>7. ASSUME NEW r \in DOMAIN legalMoney'
        PROVE  /\ legalMoney'[r].change \in {0} \cup n
               /\ legalMoney'[r].source \in {0} \cup DOMAIN legalMoney'
               /\ legalMoney'[r].source # 0 => legalMoney'[legalMoney'[r].source].source = 0
    <2>1. CASE r = x
      BY <1>2, <1>5, <2>1
    <2>2. CASE r \in DOMAIN legalMoney
      BY <1>5, <1>6, <2>2
    <2>3. QED  BY <1>5, <2>1, <2>2
  <1>8. QED  BY <1>5, <1>7 DEF MoneyFits

(* What the documents of other rows ask of their types.                         *)
LEMMA OthersGrow ==
    ASSUME LegalInv, DOMAIN legalMoney \subseteq DOMAIN legalMoney',
           DOMAIN changes \subseteq DOMAIN changes', UNCHANGED <<documents, noteRequests>>
    PROVE  /\ documents' \in Seq(DocumentRows')
           /\ noteRequests' \subseteq NoteRequests'
           /\ Cardinality(noteRequests') <= MaxNoteRequests
           /\ \A q \in noteRequests' : q.change \in {0} \cup DOMAIN changes'
           /\ IsFiniteSet(noteRequests')
  <1>1. documents \in Seq(DocumentRows) /\ noteRequests \subseteq NoteRequests
    BY DEF LegalInv, LegalTypeOK
  <1>2. DocumentRows \subseteq DocumentRows'
    BY DEF DocumentRows
  <1>3. documents \in Seq(DocumentRows')
    BY <1>1, <1>2, SeqGrows
  <1>4. NoteRequests' = NoteRequests
    BY DEF NoteRequests
  <1>5. QED  BY <1>1, <1>3, <1>4 DEF LegalInv, LegalTypeOK, LegalRefer

LEMMA BookingRow ==
    ASSUME LegalInv
    PROVE  /\ legalBooking \in [status : {"CONFIRMED", "CANCELLED"},
                                paymentStatus : {"PAID", "PARTIALLY_REFUNDED", "REFUNDED"},
                                total : Nat \ {0}]
           /\ \A net : StatusByNet(net) \in {"PAID", "PARTIALLY_REFUNDED", "REFUNDED"}
  BY DEF LegalInv, LegalTypeOK, StatusByNet

(* The steps on the money.                                                      *)
LEMMA MoneyStepFits == LegalInv /\ MoneyNext => LegalInv'
  <1> SUFFICES ASSUME LegalInv, MoneyNext PROVE LegalInv'
    OBVIOUS
  <1>1. /\ legalMoney \in Seq(MoneyRows) /\ changes \in Seq(ChangeRows)
        /\ legalBooking.total \in Nat \ {0}
        /\ PriceChanges \subseteq Int \ {0}
    BY LegalAssumption, BookingRow DEF LegalInv, LegalTypeOK, LegalAssumption
  <1>2. ASSUME changes' \in Seq(ChangeRows), DOMAIN changes \subseteq DOMAIN changes',
               DOMAIN legalMoney \subseteq DOMAIN legalMoney',
               NEW n, n = DOMAIN changes', MoneyFits(n)',
               UNCHANGED <<documents, noteRequests>>,
               legalBooking' \in [status : {"CONFIRMED", "CANCELLED"},
                                  paymentStatus : {"PAID", "PARTIALLY_REFUNDED", "REFUNDED"},
                                  total : Nat \ {0}]
        PROVE  LegalInv'
    BY <1>2, OthersGrow DEF LegalInv, LegalTypeOK, LegalRefer, MoneyFits
  <1>3. ASSUME UNCHANGED <<changes, legalMoney>> PROVE \E n : n = DOMAIN changes' /\ MoneyFits(n)'
    BY <1>3 DEF MoneyFits, LegalInv, LegalTypeOK, LegalRefer
  <1>4. DOMAIN legalMoney = 1..Len(legalMoney) /\ Len(legalMoney) \in Nat
    BY <1>1
  <1>5. ASSUME NEW delta \in PriceChanges, NEW s \in {0} \cup DOMAIN legalMoney, SettleChange(delta, s)
        PROVE  LegalInv'
    <2> DEFINE total == legalBooking.total
               row == [before |-> total, after |-> total + delta, issued |-> NotApplied]
    <2>1. row \in ChangeRows
      <3>1. total + delta \in Nat \ {0}
        BY <1>1, <1>5 DEF SettleChange
      <3>2. QED  BY <1>1, <3>1 DEF ChangeRows
    <2>2. changes' = Append(changes, row) /\ UNCHANGED <<legalBooking, documents, noteRequests>>
      BY <1>5 DEF SettleChange
    <2> HIDE DEF row
    <2>3. /\ changes' \in Seq(ChangeRows) /\ Len(changes) \in Nat
          /\ DOMAIN changes' = DOMAIN changes \cup {Len(changes) + 1}
      BY <1>1, <2>1, <2>2, AppendIn
    <2>4. PICK n : n = DOMAIN changes'
      OBVIOUS
    <2>5. DOMAIN changes \subseteq n /\ Len(changes) + 1 \in n /\ Len(changes) + 1 \in Nat
      BY <2>3, <2>4
    <2>6. CASE delta > 0
      <3>1. Paid(delta, Len(changes) + 1, 0)
        BY <1>5, <2>6 DEF SettleChange
      <3>2. delta \in Nat \ {0}
        BY <1>1, <2>6
      <3>3. MoneyFits(n)'
        BY <2>5, <3>1, <3>2, PaidFits
      <3>4. DOMAIN legalMoney \subseteq DOMAIN legalMoney'
        BY <1>1, <3>1, <3>2 DEF Paid
      <3>5. QED  BY <1>2, <2>2, <2>3, <2>4, <3>3, <3>4, BookingRow
    <2>7. CASE ~(delta > 0)
      <3>1. NextSource(s) /\ Paid(-delta, Len(changes) + 1, s)
        BY <1>5, <2>7 DEF SettleChange
      <3>2. -delta \in Nat \ {0}
        BY <1>1, <2>7
      <3>3. s \in DOMAIN legalMoney /\ legalMoney[s].source = 0
        BY <3>1 DEF NextSource, Captures
      <3>4. MoneyFits(n)'
        BY <2>5, <3>1, <3>2, <3>3, PaidFits
      <3>5. DOMAIN legalMoney \subseteq DOMAIN legalMoney'
        BY <1>1, <3>1, <3>2 DEF Paid
      <3>6. QED  BY <1>2, <2>2, <2>3, <2>4, <3>4, <3>5, BookingRow
    <2>8. QED  BY <2>6, <2>7
  <1>6. ASSUME NEW c \in DOMAIN changes, ApplyChange(c)
        PROVE  LegalInv'
    <2>0. changes[c] \in ChangeRows
      BY <1>1, <1>6
    <2>1. changes[c] \in ChangeRows /\ changes[c].after \in Nat \ {0}
      BY <2>0 DEF ChangeRows
    <2>2. Len(documents) \in Nat
      BY DEF LegalInv, LegalTypeOK
    <2>3. changes' = [changes EXCEPT ![c] = [changes[c] EXCEPT !.issued = Len(documents)]]
      BY <1>6 DEF ApplyChange
    <2>4. [changes[c] EXCEPT !.issued = Len(documents)] \in ChangeRows
      BY <2>1, <2>2 DEF ChangeRows
    <2>5. changes' \in Seq(ChangeRows) /\ DOMAIN changes' = DOMAIN changes
      BY <1>1, <2>3, <2>4
    <2>6. legalBooking' = [legalBooking EXCEPT !.total = changes[c].after]
          /\ UNCHANGED <<legalMoney, documents, noteRequests>>
      BY <1>6 DEF ApplyChange
    <2>7. legalBooking' \in [status : {"CONFIRMED", "CANCELLED"},
                             paymentStatus : {"PAID", "PARTIALLY_REFUNDED", "REFUNDED"},
                             total : Nat \ {0}]
      BY <2>1, <2>6, BookingRow
    <2>8. PICK n : n = DOMAIN changes'
      OBVIOUS
    <2>9. MoneyFits(n)'
      BY <2>5, <2>6, <2>8 DEF MoneyFits, LegalInv, LegalTypeOK, LegalRefer
    <2>10. QED  BY <1>2, <2>5, <2>6, <2>7, <2>8, <2>9
  <1>7. ASSUME NEW amount \in 1..legalBooking.total, NEW s \in DOMAIN legalMoney,
               RefundBooking(amount, s)
        PROVE  LegalInv'
    <2>1. /\ NextSource(s) /\ Paid(amount, 0, s) /\ UNCHANGED <<changes, documents, noteRequests>>
          /\ legalBooking' =
                 [legalBooking EXCEPT !.paymentStatus = StatusByNet(NetOf(Succeeded) - amount)]
      BY <1>7 DEF RefundBooking
    <2>2. amount \in Nat \ {0} /\ 0 \in Nat
      BY <1>1
    <2>3. legalMoney[s].source = 0
      BY <2>1 DEF NextSource, Captures
    <2>4. PICK n : n = DOMAIN changes'
      OBVIOUS
    <2>5. MoneyFits(n)'
      BY <2>1, <2>2, <2>3, <2>4, PaidFits
    <2>6. DOMAIN legalMoney \subseteq DOMAIN legalMoney'
      BY <1>1, <2>1 DEF Paid
    <2>7. legalBooking' \in [status : {"CONFIRMED", "CANCELLED"},
                             paymentStatus : {"PAID", "PARTIALLY_REFUNDED", "REFUNDED"},
                             total : Nat \ {0}]
      BY <2>1, BookingRow
    <2>8. QED  BY <1>1, <1>2, <2>1, <2>4, <2>5, <2>6, <2>7
  <1>8. ASSUME NEW r \in DOMAIN legalMoney, ReturnRefund(r)
        PROVE  LegalInv'
    <2>1. /\ legalMoney' = [legalMoney EXCEPT ![r] = [legalMoney[r] EXCEPT !.status = "FAILED"]]
          /\ UNCHANGED <<changes, documents, noteRequests>>
          /\ \/ UNCHANGED legalBooking
             \/ legalBooking' = [legalBooking EXCEPT !.paymentStatus = StatusByNet(NetOf(Succeeded \ {r}))]
      BY <1>8 DEF ReturnRefund
    <2>2. legalMoney[r] \in MoneyRows
      BY <1>1
    <2>3. PICK row : row = [legalMoney[r] EXCEPT !.status = "FAILED"]
      OBVIOUS
    <2>4. row \in MoneyRows /\ row.change = legalMoney[r].change /\ row.source = legalMoney[r].source
      BY <2>2, <2>3 DEF MoneyRows
    <2>5. legalMoney' = [legalMoney EXCEPT ![r] = row]
      BY <2>1, <2>3
    <2>6. /\ legalMoney' \in Seq(MoneyRows) /\ DOMAIN legalMoney' = DOMAIN legalMoney
          /\ \A t \in DOMAIN legalMoney : /\ legalMoney'[t].change = legalMoney[t].change
                                          /\ legalMoney'[t].source = legalMoney[t].source
      BY <1>1, <2>4, <2>5
    <2>7. PICK n : n = DOMAIN changes'
      OBVIOUS
    <2>8. MoneyFits(n)'
      BY <2>1, <2>6, <2>7 DEF MoneyFits, LegalInv, LegalTypeOK, LegalRefer
    <2>9. legalBooking' \in [status : {"CONFIRMED", "CANCELLED"},
                             paymentStatus : {"PAID", "PARTIALLY_REFUNDED", "REFUNDED"},
                             total : Nat \ {0}]
      BY <2>1, BookingRow
    <2>10. QED  BY <1>1, <1>2, <2>1, <2>6, <2>7, <2>8, <2>9
  <1>9. CASE CancelLegalBooking
    <2>1. /\ UNCHANGED <<legalMoney, changes, documents, noteRequests>>
          /\ legalBooking' = [legalBooking EXCEPT !.status = "CANCELLED"]
      BY <1>9 DEF CancelLegalBooking
    <2>2. legalBooking' \in [status : {"CONFIRMED", "CANCELLED"},
                             paymentStatus : {"PAID", "PARTIALLY_REFUNDED", "REFUNDED"},
                             total : Nat \ {0}]
      BY <2>1, BookingRow
    <2>3. PICK n : n = DOMAIN changes' /\ MoneyFits(n)'
      BY <1>3, <2>1
    <2>4. QED  BY <1>1, <1>2, <2>1, <2>2, <2>3
  <1>10. QED  BY <1>5, <1>6, <1>7, <1>8, <1>9 DEF MoneyNext

(* A document of a known kind is appended, of an invoice there is.              *)
LEMMA IssueFits ==
    ASSUME LegalInv, NEW kind \in {"INVOICE", "COMMERCIAL_AMENDMENT", "BOOKING_CANCELLATION"},
           NEW i \in Nat, NEW change \in Nat, NEW refund \in Nat, NEW total \in Nat,
           NEW frozen \in SUBSET (DOMAIN legalMoney),
           Issue(kind, i, change, refund, total, frozen),
           UNCHANGED <<legalBooking, legalMoney, changes>>, noteRequests' \subseteq noteRequests
    PROVE  LegalInv'
  <1> DEFINE row == [kind |-> kind, invoice |-> i, change |-> change, refund |-> refund,
                     total |-> total, rows |-> Len(legalMoney), frozen |-> frozen]
  <1>1. /\ legalMoney \in Seq(MoneyRows) /\ documents \in Seq(DocumentRows)
        /\ noteRequests \subseteq NoteRequests /\ Cardinality(noteRequests) <= MaxNoteRequests
        /\ IsFiniteSet(noteRequests) /\ MaxNoteRequests \in Nat
    BY LegalAssumption DEF LegalInv, LegalTypeOK, LegalRefer, LegalAssumption
  <1>2. row \in DocumentRows
    <2>1. Len(legalMoney) \in Nat
      BY <1>1
    <2>2. QED  BY <2>1 DEF DocumentRows
  <1>3. documents' = Append(documents, row)
    BY DEF Issue
  <1> HIDE DEF row
  <1>4. documents' \in Seq(DocumentRows) /\ DOMAIN documents \subseteq DOMAIN documents'
    BY <1>1, <1>2, <1>3, AppendIn
  <1>5. DocumentRows' = DocumentRows
    BY DEF DocumentRows
  <1>6. NoteRequests \subseteq NoteRequests'
    BY <1>4 DEF NoteRequests
  <1>7. /\ IsFiniteSet(noteRequests')
        /\ Cardinality(noteRequests') \in Nat /\ Cardinality(noteRequests) \in Nat
        /\ Cardinality(noteRequests') <= Cardinality(noteRequests)
    <2>1. IsFiniteSet(noteRequests') /\ Cardinality(noteRequests') <= Cardinality(noteRequests)
      BY <1>1, FS_Subset
    <2>2. QED  BY <1>1, <2>1, FS_CardinalityType
  <1>8. Cardinality(noteRequests') <= MaxNoteRequests
    BY <1>1, <1>7
  <1>9. documents' \in Seq(DocumentRows')
    BY <1>4, <1>5
  <1>10. noteRequests' \subseteq NoteRequests'
    BY <1>1, <1>6
  <1>11. QED  BY <1>7, <1>8, <1>9, <1>10 DEF LegalInv, LegalTypeOK, LegalRefer

(* A request is opened while there are fewer than the bound, or one ends.       *)
LEMMA RequestsFit ==
    ASSUME LegalInv, UNCHANGED <<legalBooking, legalMoney, changes, documents>>,
           \/ noteRequests' \subseteq noteRequests
           \/ \E q \in NoteRequests :
                 /\ q.change \in {0} \cup DOMAIN changes
                 /\ Cardinality(noteRequests) < MaxNoteRequests
                 /\ noteRequests' = noteRequests \cup {q}
    PROVE  LegalInv'
  <1>1. /\ noteRequests \subseteq NoteRequests /\ Cardinality(noteRequests) <= MaxNoteRequests
        /\ IsFiniteSet(noteRequests) /\ Cardinality(noteRequests) \in Nat
        /\ MaxNoteRequests \in Nat
        /\ \A q \in noteRequests : q.change \in {0} \cup DOMAIN changes
    BY LegalAssumption, FS_CardinalityType DEF LegalInv, LegalTypeOK, LegalRefer, LegalAssumption
  <1>2. NoteRequests' = NoteRequests /\ DocumentRows' = DocumentRows
    BY DEF NoteRequests, DocumentRows
  <1>3. ASSUME noteRequests' \subseteq noteRequests
        PROVE  /\ noteRequests' \subseteq NoteRequests /\ IsFiniteSet(noteRequests')
               /\ Cardinality(noteRequests') <= MaxNoteRequests
               /\ \A q \in noteRequests' : q.change \in {0} \cup DOMAIN changes
    <2>1. IsFiniteSet(noteRequests') /\ Cardinality(noteRequests') <= Cardinality(noteRequests)
      BY <1>1, <1>3, FS_Subset
    <2>2. Cardinality(noteRequests') \in Nat
      BY <2>1, FS_CardinalityType
    <2>3. Cardinality(noteRequests') <= MaxNoteRequests
      BY <1>1, <2>1, <2>2
    <2>4. QED  BY <1>1, <1>3, <2>1, <2>3
  <1>4. ASSUME NEW q \in NoteRequests, q.change \in {0} \cup DOMAIN changes,
               Cardinality(noteRequests) < MaxNoteRequests,
               noteRequests' = noteRequests \cup {q}
        PROVE  /\ noteRequests' \subseteq NoteRequests /\ IsFiniteSet(noteRequests')
               /\ Cardinality(noteRequests') <= MaxNoteRequests
               /\ \A p \in noteRequests' : p.change \in {0} \cup DOMAIN changes
    <2>1. IsFiniteSet(noteRequests')
      BY <1>1, <1>4, FS_AddElement
    <2>2. Cardinality(noteRequests') = Cardinality(noteRequests)
            \/ Cardinality(noteRequests') = Cardinality(noteRequests) + 1
      BY <1>1, <1>4, FS_AddElement
    <2>3. Cardinality(noteRequests') <= MaxNoteRequests
      BY <1>1, <1>4, <2>2
    <2>4. QED  BY <1>1, <1>4, <2>1, <2>3
  <1>5. /\ noteRequests' \subseteq NoteRequests /\ IsFiniteSet(noteRequests')
        /\ Cardinality(noteRequests') <= MaxNoteRequests
        /\ \A q \in noteRequests' : q.change \in {0} \cup DOMAIN changes
    BY <1>3, <1>4
  <1>6. QED  BY <1>2, <1>5 DEF LegalInv, LegalTypeOK, LegalRefer

(* The steps on documents and requests.                                         *)
LEMMA DocumentsStepFits == LegalInv /\ DocumentsNext => LegalInv'
  <1> SUFFICES ASSUME LegalInv, DocumentsNext PROVE LegalInv'
    OBVIOUS
  <1>1. /\ legalMoney \in Seq(MoneyRows) /\ changes \in Seq(ChangeRows)
        /\ documents \in Seq(DocumentRows) /\ noteRequests \subseteq NoteRequests
        /\ \A q \in noteRequests : q.change \in {0} \cup DOMAIN changes
    BY DEF LegalInv, LegalTypeOK, LegalRefer
  <1>2. /\ DOMAIN legalMoney \subseteq Nat /\ DOMAIN changes \subseteq Nat
        /\ DOMAIN documents \subseteq Nat /\ Len(documents) + 1 \in Nat
        /\ legalBooking.total \in Nat
    BY <1>1, BookingRow
  <1>3. Invoices \subseteq DOMAIN documents
    BY DEF Invoices
  <1>4. \A q \in noteRequests : /\ q.invoice \in DOMAIN documents
                                /\ q.change \in Nat /\ q.refund \in Nat
    BY <1>1 DEF NoteRequests
  <1>5. {} \in SUBSET (DOMAIN legalMoney)
    OBVIOUS
  <1>6. CASE IssueInvoice
    <2>1. /\ Issue("INVOICE", Len(documents) + 1, 0, 0, legalBooking.total, {})
          /\ UNCHANGED <<legalBooking, legalMoney, changes>> /\ noteRequests' \subseteq noteRequests
      BY <1>6 DEF IssueInvoice
    <2>2. QED  BY <1>2, <1>5, <2>1, IssueFits
  <1>7. ASSUME NEW i \in Invoices, NEW c \in DOMAIN changes, RequestNote(i, c)
        PROVE  LegalInv'
    <2> DEFINE q == [invoice |-> i, change |-> c, refund |-> 0, repeated |-> ChainOn(i) # {}]
    <2>1. /\ Cardinality(noteRequests) < MaxNoteRequests
          /\ noteRequests' = noteRequests \cup {q}
          /\ UNCHANGED <<legalBooking, legalMoney, changes, documents>>
      BY <1>7 DEF RequestNote, Request
    <2>2. q \in NoteRequests /\ q.change \in {0} \cup DOMAIN changes
      BY <1>2, <1>3 DEF NoteRequests
    <2> HIDE DEF q
    <2>3. QED  BY <2>1, <2>2, RequestsFit
  <1>8. ASSUME NEW i \in Invoices, NEW r \in DOMAIN legalMoney, RequestCancellationNote(i, r)
        PROVE  LegalInv'
    <2> DEFINE q == [invoice |-> i, change |-> 0, refund |-> r, repeated |-> FALSE]
    <2>1. /\ Cardinality(noteRequests) < MaxNoteRequests
          /\ noteRequests' = noteRequests \cup {q}
          /\ UNCHANGED <<legalBooking, legalMoney, changes, documents>>
      BY <1>8 DEF RequestCancellationNote, Request
    <2>2. q \in NoteRequests /\ q.change \in {0} \cup DOMAIN changes
      BY <1>2, <1>3 DEF NoteRequests
    <2> HIDE DEF q
    <2>3. QED  BY <2>1, <2>2, RequestsFit
  <1>9. ASSUME NEW i \in Invoices, IssueTerminalNote(i)
        PROVE  LegalInv'
    <2>1. /\ Issue("BOOKING_CANCELLATION", i, 0, 0, 0, {})
          /\ UNCHANGED <<legalBooking, legalMoney, changes>> /\ noteRequests' \subseteq noteRequests
      BY <1>9 DEF IssueTerminalNote
    <2>2. i \in Nat
      BY <1>2, <1>3
    <2>3. QED  BY <1>5, <2>1, <2>2, IssueFits
  <1>10. ASSUME NEW q \in noteRequests, IssueNote(q)
         PROVE  LegalInv'
    <2>1. /\ q.change # 0
          /\ Issue("COMMERCIAL_AMENDMENT", q.invoice, q.change, 0, changes[q.change].after,
                   Frozen(q.invoice, q.change))
          /\ UNCHANGED <<legalBooking, legalMoney, changes>> /\ noteRequests' \subseteq noteRequests
      BY <1>10 DEF IssueNote, EndRequest
    <2>2. q.change \in DOMAIN changes /\ q.invoice \in Nat /\ q.change \in Nat
      BY <1>1, <1>2, <1>4, <2>1
    <2>3. changes[q.change] \in ChangeRows
      BY <1>1, <2>2
    <2>4. changes[q.change].after \in Nat
      BY <2>3 DEF ChangeRows
    <2>5. Frozen(q.invoice, q.change) \in SUBSET (DOMAIN legalMoney)
      BY DEF Frozen, Succeeded
    <2>6. QED  BY <2>1, <2>2, <2>4, <2>5, IssueFits
  <1>11. ASSUME NEW q \in noteRequests, IssueCancellationNote(q)
         PROVE  LegalInv'
    <2>1. /\ Issue("BOOKING_CANCELLATION", q.invoice, 0, q.refund, 0, {})
          /\ UNCHANGED <<legalBooking, legalMoney, changes>> /\ noteRequests' \subseteq noteRequests
      BY <1>11 DEF IssueCancellationNote, EndRequest
    <2>2. q.invoice \in Nat /\ q.refund \in Nat
      BY <1>2, <1>4
    <2>3. QED  BY <1>5, <2>1, <2>2, IssueFits
  <1>12. ASSUME NEW q \in noteRequests, NoteRequestFails(q)
         PROVE  LegalInv'
    BY <1>12, RequestsFit DEF NoteRequestFails, EndRequest
  <1>13. QED  BY <1>6, <1>7, <1>8, <1>9, <1>10, <1>11, <1>12 DEF DocumentsNext

LEMMA LegalStep == LegalInv /\ [LegalNext]_legalVars => LegalInv'
  <1>1. ASSUME LegalInv, UNCHANGED legalVars PROVE LegalInv'
    BY <1>1 DEF legalVars, LegalInv, LegalTypeOK, LegalRefer, DocumentRows, NoteRequests
  <1>2. QED  BY <1>1, MoneyStepFits, DocumentsStepFits DEF LegalNext

(* The rows behind the documents keep their columns: a payment is positive and  *)
(* names an amendment there is, a refund the capture it returns; prices are     *)
(* positive, and a document freezes rows there are                              *)
(* (hospitality-commercial-amendment-adjustment-product-service.ts).            *)
THEOREM LegalTypeCorrect == LegalSpec => []LegalTypeOK
<1>1. LegalInv => LegalTypeOK
  BY DEF LegalInv
<1>2. QED  BY <1>1, LegalStarts, LegalStep, PTL DEF LegalSpec

-----------------------------------------------------------------------------
(* Refunds and documents together *)

(* A behaviour of the run that checks both is a behaviour of each, in which the *)
(* side that was not chosen stutters: what is proved of one holds of the run.   *)
LEMMA EachSideIsOne == RefundsSpec => Spec /\ LegalSpec
<1>1. RefundsInit => Init /\ LegalInit
  BY DEF RefundsInit
<1>2. [RefundsNext]_<<side, vars, legalVars>> => [Next]_vars /\ [LegalNext]_legalVars
  BY DEF RefundsNext
<1>3. QED  BY <1>1, <1>2, PTL DEF RefundsSpec, Spec, LegalSpec

(* The rows of a booking's refunds and of another's documents keep their        *)
(* columns, whichever of the two moves.                                         *)
THEOREM RefundRowsTypeCorrect == RefundsSpec => []RefundsTypeOK
<1>1. TypeOK /\ LegalTypeOK => RefundsTypeOK
  BY DEF RefundsTypeOK
<1>2. QED  BY <1>1, EachSideIsOne, RefundsTypeCorrect, LegalTypeCorrect, PTL

=============================================================================
