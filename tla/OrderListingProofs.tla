------------------------- MODULE OrderListingProofs -------------------------
(***************************************************************************)
(* Theorems about OrderListing, for any number of orders, any limits and   *)
(* routes: what GetList joins from two SELECTs that see different moments, *)
(* its types, and what a client misses that reads page after page.         *)
(***************************************************************************)
EXTENDS OrderListing, SequenceTheorems, FiniteSetTheorems, TLAPS

(* The records of an order tell of every status it has come through.       *)
TableInv ==
  \A i \in OrderId :
    /\ status[i] \in Statuses \cup {"none", "gone"}
    /\ audit[i] \in Seq(Statuses)
    /\ status[i] \in Statuses => Past(status[i]) \subseteq Range(audit[i])

(* An order that was read with a status has been told of it: records are   *)
(* only added, and stay after the row has left.                            *)
PageInv ==
  \A i \in DOMAIN page :
    /\ i \in OrderId /\ page[i] \in Statuses
    /\ Past(page[i]) \subseteq Range(audit[i])
    /\ status[i] \in Statuses \cup {"gone"}

(* The records are read after the page, so that only an order that has     *)
(* left in between is without.                                             *)
RecordsInv ==
  pc = "running" /\ todo = <<>> =>
    \A i \in DOMAIN page :
      \/ i \in DOMAIN records /\ Past(page[i]) \subseteq Range(records[i])
      \/ i \notin DOMAIN records /\ status[i] = "gone"

ListingInv ==
  /\ status \in [OrderId -> Statuses \cup {"none", "gone"}]
  /\ audit \in [OrderId -> Seq(Statuses)]
  /\ todo \in {<<>>, <<"records">>, <<"orders", "records">>}
  /\ TableInv /\ PageInv /\ RecordsInv
  /\ DOMAIN reply \subseteq OrderId
  /\ HistoryNeverLags

-----------------------------------------------------------------------------
(* Records.                                                                *)

LEMMA AppendRange ==
  ASSUME NEW h \in Seq(Statuses), NEW e \in Statuses
  PROVE  /\ Append(h, e) \in Seq(Statuses)
         /\ Range(Append(h, e)) = Range(h) \cup {e}
<1> DEFINE new == Append(h, e)
<1>1. /\ new \in Seq(Statuses) /\ Len(new) = Len(h) + 1 /\ Len(h) \in Nat
      /\ \A k \in 1 .. Len(h) : new[k] = h[k]
      /\ new[Len(h) + 1] = e
      /\ DOMAIN h = 1 .. Len(h) /\ DOMAIN new = 1 .. Len(new)
  BY AppendProperties, LenProperties
<1> HIDE DEF new
<1>2. ASSUME NEW x \in Range(new) PROVE x \in Range(h) \cup {e}
  <2>1. PICK k \in 1 .. Len(h) + 1 : x = new[k]
    BY <1>1, <1>2 DEF Range
  <2>2. k \in 1 .. Len(h) \/ k = Len(h) + 1
    BY <1>1, <2>1
  <2>3. QED
    BY <1>1, <2>1, <2>2 DEF Range
<1>3. ASSUME NEW x \in Range(h) PROVE x \in Range(new)
  <2>1. PICK k \in 1 .. Len(h) : x = h[k]
    BY <1>1, <1>3 DEF Range
  <2>2. k \in 1 .. Len(h) + 1 /\ x = new[k]
    BY <1>1, <2>1
  <2>3. QED
    BY <1>1, <2>2 DEF Range
<1>4. e \in Range(new)
  <2>1. Len(h) + 1 \in 1 .. Len(h) + 1
    BY <1>1
  <2>2. QED
    BY <1>1, <2>1 DEF Range
<1>5. Append(h, e) = new
  BY DEF new
<1>6. QED
  BY <1>1, <1>2, <1>3, <1>4, <1>5

(* A record of the next status completes what is told of the order.        *)
LEMMA NextPast ==
  ASSUME NEW s, NEW e,
         \/ s = "none" /\ e = "received"
         \/ <<s, e>> \in Writers!Forward
  PROVE  s \in Statuses => Past(e) = Past(s) \cup {e}
<1>1. CASE s = "none"
  BY <1>1 DEF Statuses
<1>2. CASE s = "received" /\ e = "delivered"
  BY <1>2 DEF Past
<1>3. CASE s = "received" /\ e = "storage_ended"
  BY <1>3 DEF Past
<1>4. CASE s = "delivered" /\ e = "refunded"
  BY <1>4 DEF Past
<1>5. QED
  BY <1>1, <1>2, <1>3, <1>4 DEF Writers!Forward

-----------------------------------------------------------------------------
(* The steps.                                                              *)

LEMMA NothingRead == DOMAIN Nothing = {}
BY DEF Nothing

LEMMA AnnounceKeeps ==
  ASSUME ListingInv, NEW i \in OrderId, NEW e \in Statuses, Writers!Announce(i, e),
         UNCHANGED reader,
         \/ status[i] = "none" /\ e = "received"
         \/ <<status[i], e>> \in Writers!Forward
  PROVE  ListingInv'
<1> USE DEF ListingInv
<1>1. /\ status' = [status EXCEPT ![i] = e]
      /\ audit' = [audit EXCEPT ![i] = Append(audit[i], e)]
      /\ UNCHANGED <<pc, todo, page, records, reply>>
  BY DEF Writers!Announce, reader
<1>2. audit[i] \in Seq(Statuses) /\ Append(audit[i], e) \in Seq(Statuses)
      /\ Range(Append(audit[i], e)) = Range(audit[i]) \cup {e}
  BY AppendRange DEF TableInv
<1>3. /\ status[i] = "none" \/ status[i] \in Statuses
      /\ status[i] # "gone"
  BY DEF Writers!Forward, Statuses
<1>4. Past(e) \subseteq Range(audit'[i])
  <2>1. CASE status[i] = "none"
    BY <1>1, <1>2, <2>1 DEF Past, Writers!Forward
  <2>2. CASE status[i] \in Statuses
    BY <1>1, <1>2, <2>2, NextPast DEF TableInv
  <2>3. QED
    BY <1>3, <2>1, <2>2
<1>5. TableInv'
  BY <1>1, <1>2, <1>4 DEF TableInv
<1>6. PageInv'
  <2>1. SUFFICES ASSUME NEW j \in DOMAIN page
                 PROVE  /\ j \in OrderId /\ page[j] \in Statuses
                        /\ Past(page[j]) \subseteq Range(audit'[j])
                        /\ status'[j] \in Statuses \cup {"gone"}
    BY <1>1 DEF PageInv
  <2>2. /\ j \in OrderId /\ page[j] \in Statuses
        /\ Past(page[j]) \subseteq Range(audit[j])
        /\ status[j] \in Statuses \cup {"gone"}
    BY DEF PageInv
  <2>3. QED
    BY <1>1, <1>2, <2>2
<1>7. \A j \in OrderId : status[j] = "gone" => status'[j] = "gone"
  BY <1>1, <1>3
<1>8. RecordsInv'
  BY <1>1, <1>7 DEF RecordsInv, PageInv
<1>9. HistoryNeverLags'
  BY <1>1, <1>7 DEF HistoryNeverLags
<1>10. QED
  BY <1>1, <1>2, <1>5, <1>6, <1>8, <1>9

LEMMA ChangeKeeps ==
  ASSUME ListingInv, Change
  PROVE  ListingInv'
<1>1. UNCHANGED reader /\ Writers!Next
  BY DEF Change
<1>2. ASSUME NEW i \in OrderId, Writers!Enter(i)
      PROVE  ListingInv'
  BY <1>1, <1>2, AnnounceKeeps DEF Writers!Enter, Statuses
<1>3. ASSUME NEW i \in OrderId, Writers!Move(i)
      PROVE  ListingInv'
  BY <1>1, <1>3, AnnounceKeeps DEF Writers!Move, Statuses
<1>4. ASSUME NEW i \in OrderId, Writers!Leave(i)
      PROVE  ListingInv'
  <2>1. /\ status' = [status EXCEPT ![i] = "gone"]
        /\ UNCHANGED <<audit, pc, todo, page, records, reply>>
    BY <1>1, <1>4 DEF Writers!Leave, reader
  <2>2. \A j : status[j] = "gone" => status'[j] = "gone"
    BY <2>1 DEF ListingInv
  <2>3. TableInv'
    BY <2>1 DEF ListingInv, TableInv, Statuses
  <2>4. PageInv' /\ RecordsInv' /\ HistoryNeverLags'
    BY <2>1, <2>2 DEF ListingInv, PageInv, RecordsInv, HistoryNeverLags
  <2>5. QED
    BY <2>1, <2>3, <2>4 DEF ListingInv
<1>5. QED
  BY <1>1, <1>2, <1>3, <1>4 DEF Writers!Next

(* A step that reads nothing, or drops what was read.                      *)
LEMMA QuietKeeps ==
  ASSUME ListingInv, UNCHANGED tables,
         todo' \in {<<>>, <<"orders", "records">>},
         UNCHANGED <<page, records, reply>> \/ page' = Nothing,
         reply' = reply \/ reply' = Nothing,
         pc' = "running" => todo' # <<>>
  PROVE  ListingInv'
<1>1. UNCHANGED <<status, audit>>
  BY DEF tables
<1>2. TableInv' /\ RecordsInv'
  BY <1>1 DEF ListingInv, TableInv, RecordsInv
<1>3. PageInv'
  BY <1>1, NothingRead DEF ListingInv, PageInv
<1>4. HistoryNeverLags'
  BY <1>1, NothingRead DEF ListingInv, HistoryNeverLags
<1>5. QED
  BY <1>1, <1>2, <1>3, <1>4, NothingRead DEF ListingInv

LEMMA SelectOrdersKeeps ==
  ASSUME ListingInv, SelectOrders
  PROVE  ListingInv'
<1> USE DEF ListingInv
<1>1. /\ page' = [i \in {j \in Rows : InPage(j)} |-> status[i]]
      /\ todo # <<>> /\ Head(todo) = "orders" /\ todo' = Tail(todo)
      /\ UNCHANGED <<status, audit, pc, records, reply>>
  BY DEF SelectOrders, tables
<1>2. todo' = <<"records">>
  <2>1. Head(<<"records">>) = "records" /\ Tail(<<"orders", "records">>) = <<"records">>
    OBVIOUS
  <2>2. QED
    BY <1>1, <2>1
<1>3. PageInv'
  <2>1. ASSUME NEW i \in DOMAIN page'
        PROVE  /\ i \in OrderId /\ page'[i] \in Statuses
               /\ Past(page'[i]) \subseteq Range(audit'[i])
               /\ status'[i] \in Statuses \cup {"gone"}
    BY <1>1, <2>1 DEF Rows, TableInv
  <2>2. QED
    BY <2>1 DEF PageInv
<1>4. TableInv' /\ HistoryNeverLags'
  BY <1>1 DEF TableInv, HistoryNeverLags
<1>5. RecordsInv'
  <2>1. <<"records">> # <<>>
    OBVIOUS
  <2>2. QED
    BY <1>2, <2>1 DEF RecordsInv
<1>6. QED
  BY <1>1, <1>2, <1>3, <1>4, <1>5

LEMMA SelectRecordsKeeps ==
  ASSUME ListingInv, SelectRecords
  PROVE  ListingInv'
<1> USE DEF ListingInv
<1>1. /\ DOMAIN records' = Rows
      /\ \A i \in Rows : records'[i] \in Arrangements(audit[i])
      /\ todo # <<>> /\ Head(todo) = "records" /\ todo' = Tail(todo)
      /\ UNCHANGED <<status, audit, pc, page, reply>>
  BY DEF SelectRecords, tables
<1>2. todo' = <<>>
  <2>1. Head(<<"orders", "records">>) = "orders" /\ Tail(<<"records">>) = <<>>
    OBVIOUS
  <2>2. QED
    BY <1>1, <2>1
<1>3. ASSUME NEW i \in DOMAIN page
      PROVE  \/ i \in DOMAIN records' /\ Past(page[i]) \subseteq Range(records'[i])
             \/ i \notin DOMAIN records' /\ status[i] = "gone"
  <2>1. CASE i \in Rows
    <3>1. Range(records'[i]) = Range(audit[i])
      BY <1>1, <2>1 DEF Arrangements
    <3>2. QED
      BY <1>1, <2>1, <3>1 DEF PageInv
  <2>2. CASE i \notin Rows
    BY <1>1, <2>2 DEF PageInv, Rows, Statuses
  <2>3. QED
    BY <2>1, <2>2
<1>4. RecordsInv'
  BY <1>1, <1>3 DEF RecordsInv
<1>5. TableInv' /\ PageInv' /\ HistoryNeverLags'
  BY <1>1 DEF TableInv, PageInv, HistoryNeverLags
<1>6. QED
  BY <1>1, <1>2, <1>4, <1>5

LEMMA AnswerKeeps ==
  ASSUME ListingInv, Answer
  PROVE  ListingInv'
<1> USE DEF ListingInv
<1>1. /\ pc = "running" /\ todo = <<>> /\ pc' = "done"
      /\ reply' = [i \in {j \in DOMAIN page : Listed(j)} |->
                      [status |-> page[i], history |-> HistoryOf(i)]]
      /\ todo' = <<>> /\ page' = Nothing /\ UNCHANGED <<status, audit>>
  BY DEF Answer, Finish, tables
<1>2. ASSUME NEW i \in DOMAIN reply'
      PROVE  \/ Past(reply'[i].status) \subseteq Range(reply'[i].history)
             \/ reply'[i].history = <<>> /\ status'[i] = "gone"
  <2>1. /\ i \in DOMAIN page /\ reply'[i].status = page[i]
        /\ reply'[i].history = HistoryOf(i)
    BY <1>1, <1>2
  <2>2. CASE i \in DOMAIN records
    BY <1>1, <2>1, <2>2 DEF HistoryOf, RecordsInv
  <2>3. CASE i \notin DOMAIN records
    BY <1>1, <2>1, <2>3 DEF HistoryOf, RecordsInv
  <2>4. QED
    BY <2>2, <2>3
<1>3. HistoryNeverLags'
  BY <1>2 DEF HistoryNeverLags
<1>4. TableInv' /\ PageInv' /\ RecordsInv'
  BY <1>1, NothingRead DEF TableInv, PageInv, RecordsInv
<1>5. DOMAIN reply' \subseteq OrderId
  BY <1>1 DEF PageInv
<1>6. QED
  BY <1>1, <1>3, <1>4, <1>5

LEMMA ListingStep ==
  ASSUME ListingInv, [Next]_vars
  PROVE  ListingInv'
<1>1. CASE AskOrders \/ AskNextPage \/ ListUnpaginated \/ GetOrders
  <2>1. /\ UNCHANGED <<tables, page, records, reply>>
        /\ todo' = <<"orders", "records">>
    BY <1>1 DEF AskOrders, AskNextPage, ListOrders, ListUnpaginated, GetOrders, Call,
               Statements
  <2>2. <<"orders", "records">> # <<>>
    OBVIOUS
  <2>3. QED
    BY <2>1, <2>2, QuietKeeps
<1>2. CASE FailSelect \/ Receive
  <2>1. pc' = "idle" /\ Finish(Nothing)
    BY <1>2 DEF FailSelect, Receive
  <2>2. QED
    BY <2>1, QuietKeeps DEF Finish
<1>3. CASE StartWalk \/ UNCHANGED vars
  <2>1. UNCHANGED <<status, audit, pc, todo, page, records, reply>>
    BY <1>3 DEF StartWalk, vars, tables, reader
  <2>2. QED
    BY <2>1
    DEF ListingInv, TableInv, PageInv, RecordsInv, HistoryNeverLags
<1>4. QED
  BY <1>1, <1>2, <1>3, ChangeKeeps, SelectOrdersKeeps, SelectRecordsKeeps,
     AnswerKeeps DEF Next

LEMMA ListingInit == Init => ListingInv
<1>1. SUFFICES ASSUME Init PROVE ListingInv
  OBVIOUS
<1>2. <<>> \in Seq(Statuses)
  OBVIOUS
<1>3. QED
  BY <1>1, <1>2, NothingRead
  DEF Init, Writers!Init, ListingInv, TableInv, PageInv, RecordsInv,
      HistoryNeverLags, Statuses

(* GetList reads the orders before their records, without a transaction: a *)
(* listed history may be ahead of the listed status, or missing when the   *)
(* order has left, but it never lags behind, whatever commits between the  *)
(* two SELECTs and whatever clocks the servers have.                       *)
THEOREM ListedHistoryNeverLags == Spec => []HistoryNeverLags
<1>1. ListingInv => HistoryNeverLags
  BY DEF ListingInv
<1>2. QED
  BY <1>1, ListingInit, ListingStep, PTL DEF Spec

-----------------------------------------------------------------------------
(* The place of a row among the rows of a table, as OFFSET counts it.      *)

Rank(S, i) == Cardinality({j \in S : j < i})

LEMMA BeforeIsRank == \A i : Before(i) = Rank(Rows, i)
BY DEF Before, Rank

LEMMA OrdersFinite ==
  ASSUME NEW S \in SUBSET OrderId
  PROVE  IsFiniteSet(S) /\ Cardinality(S) \in Nat
<1>1. IsFiniteSet(OrderId)
  BY FS_Interval, ListingAssumption DEF OrderId, ListingAssumption
<1>2. IsFiniteSet(S)
  BY <1>1, FS_Subset
<1>3. QED
  BY <1>2, FS_CardinalityType

LEMMA RankType ==
  ASSUME NEW S \in SUBSET OrderId, NEW i
  PROVE  Rank(S, i) \in Nat
BY OrdersFinite, {j \in S : j < i} \in SUBSET OrderId DEF Rank

(* Rows that are added only move others back.                              *)
LEMMA RankGrows ==
  ASSUME NEW S, NEW T \in SUBSET OrderId, S \subseteq T, NEW i
  PROVE  Rank(S, i) <= Rank(T, i)
<1> DEFINE A == {j \in S : j < i}
           B == {j \in T : j < i}
<1>1. A \in SUBSET B /\ B \in SUBSET OrderId
  OBVIOUS
<1>2. IsFiniteSet(B)
  BY <1>1, OrdersFinite
<1> HIDE DEF A, B
<1>3. Cardinality(A) <= Cardinality(B)
  BY <1>1, <1>2, FS_Subset
<1>4. QED
  BY <1>3 DEF Rank, A, B

LEMMA RankIncreases ==
  ASSUME NEW S \in SUBSET OrderId, NEW i \in S, NEW j \in S, i < j
  PROVE  Rank(S, i) < Rank(S, j)
<1> DEFINE A == {k \in S : k < i}
           B == {k \in S : k < j}
<1>1. i \in Int /\ j \in Int /\ \A k \in S : k \in Int
  BY DEF OrderId
<1>2. A \in SUBSET OrderId /\ B \in SUBSET OrderId /\ i \notin A
  <2>1. i \notin A
    BY <1>1
  <2>2. QED
    BY <2>1
<1>3. A \cup {i} \in SUBSET B
  <2>1. \A k \in A : k \in B
    BY <1>1
  <2>2. i \in B
    OBVIOUS
  <2>3. QED
    BY <2>1, <2>2
<1>4. IsFiniteSet(A) /\ IsFiniteSet(B) /\ Cardinality(A) \in Nat /\ Cardinality(B) \in Nat
  BY <1>2, OrdersFinite
<1> HIDE DEF A, B
<1>5. Cardinality(A \cup {i}) = Cardinality(A) + 1
  BY <1>2, <1>4, FS_AddElement
<1>6. Cardinality(A \cup {i}) <= Cardinality(B)
  BY <1>3, <1>4, FS_Subset
<1>7. Cardinality(A) < Cardinality(B)
  BY <1>4, <1>5, <1>6
<1>8. QED
  BY <1>7 DEF Rank, A, B

LEMMA RankApart ==
  ASSUME NEW S \in SUBSET OrderId, NEW i \in S, NEW j \in S, Rank(S, i) = Rank(S, j)
  PROVE  i = j
<1>1. i \in Int /\ j \in Int
  BY DEF OrderId
<1>2. ~(i < j) /\ ~(j < i)
  BY RankIncreases, RankType
<1>3. QED
  BY <1>1, <1>2

(* A page holds no more rows than LIMIT.                                   *)
LEMMA PageFits ==
  ASSUME NEW S \in SUBSET OrderId, NEW P \in SUBSET S, NEW a \in Nat, NEW n \in Nat,
         \A i \in P : a <= Rank(S, i) /\ Rank(S, i) < a + n
  PROVE  Cardinality(P) <= n
<1> DEFINE T == a .. a + n - 1
           f == [i \in P |-> Rank(S, i)]
<1>1. \A i \in P : Rank(S, i) \in T
  BY RankType
<1>2. IsFiniteSet(T) /\ Cardinality(T) = n
  BY FS_Interval
<1> HIDE DEF T
<1>3. f \in [P -> T]
  BY <1>1
<1>4. \A i, j \in P : f[i] = f[j] => i = j
  BY RankApart
<1>5. f \in Injection(P, T)
  BY <1>3, <1>4 DEF Injection, IsInjective
<1> HIDE DEF f
<1>6. Cardinality(P) <= Cardinality(T)
  BY <1>2, <1>5, FS_Injection
<1>7. QED
  BY <1>2, <1>6

(* Every place up to that of a row is taken.                               *)
LEMMA RankReached ==
  ASSUME NEW S \in SUBSET OrderId, NEW i \in S, NEW a \in Nat, a <= Rank(S, i)
  PROVE  \E j \in S : Rank(S, j) = a
<1> DEFINE n == Cardinality(S)
           T == 0 .. n - 1
           f == [j \in S |-> Rank(S, j)]
<1>1. IsFiniteSet(S) /\ n \in Nat
  BY OrdersFinite
<1>2. \A j \in S : Rank(S, j) \in Nat /\ Rank(S, j) < n
  <2>1. SUFFICES ASSUME NEW j \in S
                 PROVE  Rank(S, j) \in Nat /\ Rank(S, j) < n
    OBVIOUS
  <2> DEFINE A == {k \in S : k < j}
  <2>2. A \in SUBSET S /\ A # S
    BY DEF OrderId
  <2> HIDE DEF A
  <2>3. Cardinality(A) <= n /\ Cardinality(A) # n
    BY <1>1, <2>2, FS_Subset
  <2>4. Cardinality(A) \in Nat
    BY <2>2, OrdersFinite
  <2>5. QED
    BY <1>1, <2>3, <2>4 DEF Rank, A
<1> HIDE DEF n
<1>3. IsFiniteSet(T) /\ Cardinality(T) = n
  BY <1>1, FS_Interval
<1>4. f \in [S -> T] /\ a \in T
  BY <1>1, <1>2
<1>5. \A j, k \in S : f[j] = f[k] => j = k
  BY RankApart
<1> HIDE DEF T
<1>6. f \in Injection(S, T)
  BY <1>4, <1>5 DEF Injection, IsInjective
<1>7. f \in Surjection(S, T)
  <2> HIDE DEF f
  <2>1. Cardinality(S) = Cardinality(T)
    BY <1>3 DEF n
  <2>2. QED
    BY <1>3, <1>6, <2>1, FS_Injection
<1>8. PICK j \in S : f[j] = a
  BY <1>4, <1>7 DEF Surjection
<1>9. QED
  BY <1>8

(* A row that leaves moves those after it forward by one place.            *)
LEMMA RankShrinks ==
  ASSUME NEW S \in SUBSET OrderId, NEW k, NEW i
  PROVE  Rank(S, i) <= Rank(S \ {k}, i) + 1
<1> DEFINE A == {j \in S : j < i}
           B == {j \in S \ {k} : j < i}
<1>1. A \in SUBSET OrderId /\ B \in SUBSET OrderId /\ A \in SUBSET (B \cup {k})
  OBVIOUS
<1> HIDE DEF A, B
<1>2. /\ IsFiniteSet(B) /\ Cardinality(B) \in Nat /\ Cardinality(A) \in Nat
  BY <1>1, OrdersFinite
<1>3. /\ IsFiniteSet(B \cup {k})
      /\ Cardinality(B \cup {k}) \in {Cardinality(B), Cardinality(B) + 1}
  BY <1>2, FS_AddElement
<1>4. Cardinality(A) <= Cardinality(B \cup {k})
  BY <1>1, <1>3, FS_Subset
<1>5. Cardinality(A) <= Cardinality(B) + 1
  BY <1>2, <1>3, <1>4
<1>6. QED
  BY <1>5 DEF Rank, A, B

(* The rows of D before the place n.                                       *)
Front(R, D, n) == {j \in D \cap R : Rank(R, j) < n}

LEMMA FrontType ==
  ASSUME NEW R \in SUBSET OrderId, NEW D, NEW n
  PROVE  /\ Front(R, D, n) \in SUBSET OrderId
         /\ IsFiniteSet(Front(R, D, n)) /\ Cardinality(Front(R, D, n)) \in Nat
<1>1. Front(R, D, n) \in SUBSET OrderId
  BY DEF Front
<1>2. QED
  BY <1>1, OrdersFinite

(* Rows that come in bring none of D to the front.                         *)
LEMMA EnterHidesNone ==
  ASSUME NEW R \in SUBSET OrderId, NEW T \in SUBSET OrderId, R \subseteq T,
         NEW D, D \cap T \subseteq R, NEW n \in Nat
  PROVE  Cardinality(Front(T, D, n)) <= Cardinality(Front(R, D, n))
<1>1. ASSUME NEW j \in Front(T, D, n) PROVE j \in Front(R, D, n)
  <2>1. Rank(R, j) <= Rank(T, j) /\ Rank(R, j) \in Nat /\ Rank(T, j) \in Nat
    BY RankGrows, RankType
  <2>2. j \in D \cap R /\ Rank(T, j) < n
    BY <1>1 DEF Front
  <2>3. QED
    BY <2>1, <2>2 DEF Front
<1>2. QED
  BY <1>1, FrontType, FS_Subset

(* A row that leaves brings one of D to the front at the most.             *)
LEMMA LeaveHidesOne ==
  ASSUME NEW R \in SUBSET OrderId, NEW k, NEW D, NEW n \in Nat
  PROVE  Cardinality(Front(R \ {k}, D, n)) <= Cardinality(Front(R, D, n)) + 1
<1> DEFINE O == Front(R, D, n)
           F == Front(R \ {k}, D, n)
<1>1. /\ IsFiniteSet(O) /\ Cardinality(O) \in Nat
      /\ IsFiniteSet(F) /\ Cardinality(F) \in Nat
  BY FrontType, R \ {k} \in SUBSET OrderId
<1>2. ASSUME NEW j \in F PROVE j \in O \/ (j \in R /\ Rank(R, j) = n)
  <2>1. /\ j \in D \cap R /\ Rank(R \ {k}, j) < n
        /\ Rank(R, j) <= Rank(R \ {k}, j) + 1
    BY <1>2, RankShrinks DEF Front
  <2>2. Rank(R, j) \in Nat /\ Rank(R \ {k}, j) \in Nat
    BY RankType, R \ {k} \in SUBSET OrderId
  <2>3. Rank(R, j) < n \/ Rank(R, j) = n
    BY <2>1, <2>2
  <2>4. QED
    BY <2>1, <2>3 DEF Front
<1> HIDE DEF O, F
<1>3. CASE \A j \in R : Rank(R, j) # n
  <2>1. F \in SUBSET O
    BY <1>2, <1>3
  <2>2. Cardinality(F) <= Cardinality(O)
    BY <1>1, <2>1, FS_Subset
  <2>3. QED
    BY <1>1, <2>2 DEF O, F
<1>4. CASE \E j \in R : Rank(R, j) = n
  <2>1. PICK j \in R : Rank(R, j) = n
    BY <1>4
  <2>2. F \in SUBSET (O \cup {j})
    BY <1>2, <2>1, RankApart
  <2>3. /\ IsFiniteSet(O \cup {j})
        /\ Cardinality(O \cup {j}) \in {Cardinality(O), Cardinality(O) + 1}
    BY <1>1, FS_AddElement
  <2>4. Cardinality(F) <= Cardinality(O \cup {j})
    BY <2>2, <2>3, FS_Subset
  <2>5. QED
    BY <1>1, <2>3, <2>4 DEF O, F
<1>5. QED
  BY <1>3, <1>4

-----------------------------------------------------------------------------
(* The reader and the walk.                                                *)

PageRead == pc = "done" \/ (pc = "running" /\ todo # <<"orders", "records">>)

(* The rows the call has read and not handed over yet.                     *)
InHand == IF pc = "done" THEN DOMAIN reply ELSE DOMAIN page

WalkType ==
  /\ DOMAIN walk = {"from", "due", "lost", "over"}
  /\ walk.from \in Nat /\ walk.due \in SUBSET OrderId /\ walk.lost \in Nat

Calls == [client : {"walk", "any"}, route : AllRoutes, offset : Int, limit : Int]

(* What a call holds follows from how far it is.                           *)
ReaderInv ==
  /\ pc \in {"idle", "running", "done"}
  /\ call \in Calls
  /\ WalkType
  /\ DOMAIN page \in SUBSET OrderId
  /\ DOMAIN records \in SUBSET OrderId
  /\ DOMAIN reply \in SUBSET OrderId
  /\ pc # "running" => page = Nothing
  /\ pc # "done" => reply = Nothing
  /\ ~PageRead => page = Nothing
  /\ PageRead => Cardinality(InHand) <= call.limit

(* A walk goes on where it ended.                                          *)
AskedNext ==
  pc # "idle" /\ call.client = "walk"
    => call.route = "orders" /\ call.offset = walk.from /\ call.limit >= 1

(* The rows of D that the offset n has passed.                             *)
Passed(D, n) == {i \in D \cap Rows : Before(i) < n}

(* The orders that are due and still there are ahead of the offset, and    *)
(* ahead of the page in hand unless they are on it, but for as many as     *)
(* have left; a page is empty only when no more than these are due.        *)
DueAhead ==
  /\ walk.due \subseteq Rows \cup Gone
  /\ Cardinality(Passed(walk.due, walk.from)) <= walk.lost
  /\ PageRead /\ call.client = "walk" =>
       /\ Cardinality(Passed(walk.due \ InHand, walk.from + Cardinality(InHand)))
            <= walk.lost
       /\ InHand = {} => Cardinality(walk.due \cap Rows) <= walk.lost

WalkInv == AskedNext /\ DueAhead /\ WalkComplete

LEMMA NoCallType == NoCall \in Calls
BY DEF NoCall, AllRoutes, Calls

(* paginate: whatever the client sends, the limit is positive and the      *)
(* offset a number; an offset it can use is left as it is.                 *)
LEMMA PaginateType ==
  ASSUME NEW number \in Int \cup {NotANumber}
  PROVE  /\ PaginateLimit(number) \in Int /\ PaginateLimit(number) >= 1
         /\ PaginateOffset(number) \in Int
         /\ number \in Nat => PaginateOffset(number) = number
BY ListingAssumption DEF ListingAssumption, PaginateLimit, PaginateOffset, Least

LEMMA NewCall ==
  ASSUME ReaderInv, NEW client \in {"walk", "any"}, NEW route \in AllRoutes,
         NEW offset \in Int, NEW limit \in Int,
         Call(client, route, offset, limit), UNCHANGED walk
  PROVE  ReaderInv'
<1>1. /\ call' = [client |-> client, route |-> route,
                  offset |-> offset, limit |-> limit]
      /\ pc = "idle" /\ pc' = "running" /\ todo' = <<"orders", "records">>
      /\ UNCHANGED <<page, records, reply>>
  BY DEF Call, Statements
<1>2. call' \in Calls
  BY <1>1 DEF Calls
<1>3. QED
  BY <1>1, <1>2 DEF ReaderInv, WalkType, PageRead

LEMMA ReaderBegins ==
  ASSUME ReaderInv, AskOrders \/ AskNextPage \/ ListUnpaginated \/ GetOrders
  PROVE  ReaderInv'
<1>1. ASSUME NEW client \in {"walk", "any"}, NEW offset \in Int \cup {NotANumber},
             ListOrders(client, offset), UNCHANGED walk
      PROVE  ReaderInv'
  <2>1. PICK limit \in Numbers \cup {NotANumber} :
          Call(client, "orders", PaginateOffset(offset), PaginateLimit(limit))
    BY <1>1 DEF ListOrders
  <2>2. PaginateOffset(offset) \in Int /\ PaginateLimit(limit) \in Int
    BY PaginateType, ListingAssumption DEF ListingAssumption
  <2>3. QED
    BY <1>1, <2>1, <2>2, NewCall DEF AllRoutes
<1>2. CASE AskOrders
  BY <1>1, <1>2, ListingAssumption DEF AskOrders, ListingAssumption
<1>3. CASE AskNextPage
  BY <1>1, <1>3 DEF AskNextPage, ReaderInv, WalkType
<1>4. CASE ListUnpaginated
  BY <1>4, NewCall DEF ListUnpaginated, AllRoutes
<1>5. CASE GetOrders
  BY <1>5, NewCall, ListingAssumption DEF GetOrders, AllRoutes, ListingAssumption
<1>6. QED
  BY <1>2, <1>3, <1>4, <1>5

LEMMA ReaderSelects ==
  ASSUME ListingInv, ReaderInv, SelectOrders
  PROVE  ReaderInv'
<1> DEFINE P == {j \in Rows : InPage(j)}
<1>1. /\ page' = [i \in P |-> status[i]]
      /\ pc = "running" /\ todo' # <<"orders", "records">>
      /\ todo # <<>> /\ Head(todo) = "orders"
      /\ call.offset \in Nat /\ call.limit \in Nat
      /\ UNCHANGED <<pc, call, records, reply, walk>>
  <2>1. Tail(<<"orders", "records">>) = <<"records">> /\ Head(<<"records">>) = "records"
    OBVIOUS
  <2>2. <<"records">> # <<"orders", "records">>
    OBVIOUS
  <2>3. todo = <<"orders", "records">> /\ todo' = <<"records">>
    BY <2>1 DEF SelectOrders, ListingInv
  <2>4. call.offset \in Nat /\ call.limit \in Nat
    BY DEF SelectOrders, ReaderInv, Calls
  <2>5. QED
    BY <2>2, <2>3, <2>4 DEF SelectOrders
<1>2. Rows \in SUBSET OrderId /\ P \in SUBSET Rows
  BY DEF Rows
<1>3. \A i \in P : /\ call.offset <= Rank(Rows, i)
                   /\ Rank(Rows, i) < call.offset + call.limit
  BY BeforeIsRank DEF InPage
<1>4. Cardinality(P) <= call.limit
  BY <1>1, <1>2, <1>3, PageFits
<1>5. DOMAIN page' = P
  BY <1>1
<1> HIDE DEF P
<1>6. InHand' = P
  BY <1>1, <1>5 DEF InHand
<1>7. PageRead'
  BY <1>1 DEF PageRead
<1>8. QED
  BY <1>1, <1>2, <1>4, <1>5, <1>6, <1>7 DEF ReaderInv, WalkType

LEMMA ReaderSelectsRecords ==
  ASSUME ListingInv, ReaderInv, SelectRecords
  PROVE  ReaderInv' /\ PageRead /\ PageRead' /\ InHand' = InHand
<1>1. /\ DOMAIN records' = Rows
      /\ pc = "running" /\ todo = <<"records">> /\ todo' = <<>>
      /\ UNCHANGED <<pc, call, page, reply, walk>>
  <2>1. Head(<<"orders", "records">>) = "orders" /\ Tail(<<"records">>) = <<>>
    OBVIOUS
  <2>2. QED
    BY <2>1 DEF SelectRecords, ListingInv
<1>2. <<"records">> # <<"orders", "records">> /\ <<>> # <<"orders", "records">>
  OBVIOUS
<1>3. PageRead /\ PageRead' /\ InHand' = InHand
  BY <1>1, <1>2 DEF PageRead, InHand
<1>4. DOMAIN records' \in SUBSET OrderId
  BY <1>1 DEF Rows
<1>5. QED
  BY <1>1, <1>3, <1>4 DEF ReaderInv, WalkType

LEMMA ReaderAnswers ==
  ASSUME ReaderInv, Answer
  PROVE  /\ ReaderInv' /\ PageRead /\ PageRead' /\ InHand' \in SUBSET InHand
         /\ call.route # "refunds" => InHand' = InHand
<1> DEFINE L == {j \in DOMAIN page : Listed(j)}
<1>1. /\ reply' = [i \in L |-> [status |-> page[i], history |-> HistoryOf(i)]]
      /\ pc = "running" /\ pc' = "done" /\ todo = <<>> /\ todo' = <<>>
      /\ page' = Nothing /\ records' = Nothing
      /\ UNCHANGED <<call, walk>>
  BY DEF Answer, Finish
<1>2. <<>> # <<"orders", "records">>
  OBVIOUS
<1>3. L \in SUBSET DOMAIN page /\ DOMAIN reply' = L
      /\ (call.route # "refunds" => L = DOMAIN page)
  BY <1>1 DEF Listed
<1> HIDE DEF L
<1>4. PageRead /\ PageRead' /\ InHand = DOMAIN page /\ InHand' = L
  BY <1>1, <1>2, <1>3 DEF PageRead, InHand
<1>5. Cardinality(InHand') <= call.limit
  <2>1. Cardinality(DOMAIN page) <= call.limit /\ DOMAIN page \in SUBSET OrderId
    BY <1>4 DEF ReaderInv
  <2>2. /\ Cardinality(L) <= Cardinality(DOMAIN page) /\ Cardinality(L) \in Nat
        /\ Cardinality(DOMAIN page) \in Nat
    BY <1>3, <2>1, OrdersFinite, FS_Subset
  <2>3. call.limit \in Int
    BY DEF ReaderInv, Calls
  <2>4. QED
    BY <1>4, <2>1, <2>2, <2>3
<1>6. DOMAIN reply' \in SUBSET OrderId /\ DOMAIN page' \in SUBSET OrderId
      /\ DOMAIN records' \in SUBSET OrderId
  BY <1>1, <1>3, NothingRead DEF ReaderInv
<1>7. QED
  BY <1>1, <1>3, <1>4, <1>5, <1>6 DEF ReaderInv, WalkType

LEMMA ReaderEnds ==
  ASSUME ReaderInv, FailSelect \/ Receive
  PROVE  ReaderInv'
<1>1. /\ pc' = "idle" /\ call' = NoCall
      /\ page' = Nothing /\ records' = Nothing /\ reply' = Nothing
  BY DEF FailSelect, Receive, Finish, Forget
<1>2. WalkType'
  <2>1. CASE walk' = walk
    BY <2>1 DEF ReaderInv, WalkType
  <2>2. CASE walk' = [walk EXCEPT !.from = @ + Cardinality(DOMAIN reply),
                                  !.due = @ \ DOMAIN reply,
                                  !.over = DOMAIN reply = {}]
    <3>1. Cardinality(DOMAIN reply) \in Nat
      BY OrdersFinite DEF ReaderInv
    <3>2. QED
      BY <2>2, <3>1 DEF ReaderInv, WalkType
  <2>3. QED
    BY <2>1, <2>2 DEF FailSelect, Receive
<1>3. QED
  BY <1>1, <1>2, NoCallType, NothingRead DEF ReaderInv, PageRead

LEMMA ReaderStep ==
  ASSUME ListingInv, ReaderInv, [Next]_vars
  PROVE  ReaderInv'
<1>1. CASE Change
  <2>1. /\ UNCHANGED <<pc, todo, call, page, records, reply>>
        /\ walk' = [walk EXCEPT !.lost = IF Gone' = Gone THEN @ ELSE @ + 1]
    BY <1>1 DEF Change, reader
  <2>2. WalkType'
    BY <2>1 DEF ReaderInv, WalkType
  <2>3. QED
    BY <2>1, <2>2 DEF ReaderInv, PageRead, InHand
<1>2. CASE StartWalk \/ UNCHANGED vars
  <2>1. UNCHANGED <<pc, todo, call, page, records, reply>>
    BY <1>2 DEF StartWalk, reader, vars
  <2>2. WalkType'
    BY <1>2 DEF StartWalk, vars, NewWalk, Rows, ReaderInv, WalkType
  <2>3. QED
    BY <2>1, <2>2 DEF ReaderInv, PageRead, InHand
<1>3. QED
  BY <1>1, <1>2, ReaderBegins, ReaderSelects, ReaderSelectsRecords, ReaderAnswers,
     ReaderEnds DEF Next

LEMMA ReaderInit == Init => ReaderInv
BY NoCallType, NothingRead
  DEF Init, ReaderInv, WalkType, PageRead, NewWalk, Rows

(* The variables hold what the code can hold: paginate and Postgres let no *)
(* page through that is longer than the limit.                             *)
THEOREM ListingTypeCorrect == Spec => []TypeOK
<1>1. ListingInv /\ ReaderInv => TypeOK
  <2>1. SUFFICES ASSUME ListingInv, ReaderInv PROVE TypeOK
    OBVIOUS
  <2>2. page # Nothing => Cardinality(DOMAIN page) <= call.limit
    BY <2>1 DEF ReaderInv, InHand
  <2>3. reply # Nothing => Cardinality(DOMAIN reply) <= call.limit
    BY <2>1 DEF ReaderInv, InHand, PageRead
  <2>4. QED
    BY <2>1, <2>2, <2>3
    DEF ListingInv, ReaderInv, WalkType, TypeOK, Statements, Calls
<1>2. QED
  BY <1>1, ListingInit, ListingStep, ReaderInit, ReaderStep, PTL DEF Spec

-----------------------------------------------------------------------------
LEMMA RowsType == Rows \in SUBSET OrderId
BY DEF Rows

LEMMA PassedIsFront == \A D, n : Passed(D, n) = Front(Rows, D, n)
BY BeforeIsRank DEF Passed, Front

(* Rows only come in, or one of them leaves.                               *)
LEMMA RowsChange ==
  ASSUME status \in [OrderId -> Statuses \cup {"none", "gone"}], Writers!Next
  PROVE  \/ /\ Gone' = Gone /\ Rows \subseteq Rows'
            /\ \A i \in Gone : i \notin Rows'
         \/ \E i \in Rows : Rows' = Rows \ {i} /\ Gone' = Gone \cup {i}
<1>1. ASSUME NEW i \in OrderId, NEW e \in Statuses, Writers!Announce(i, e),
             status[i] # "gone"
      PROVE  /\ Gone' = Gone /\ Rows \subseteq Rows'
             /\ \A j \in Gone : j \notin Rows'
  BY <1>1 DEF Writers!Announce, Rows, Gone, Statuses
<1>2. ASSUME NEW i \in OrderId, Writers!Enter(i) \/ Writers!Move(i)
      PROVE  /\ Gone' = Gone /\ Rows \subseteq Rows'
             /\ \A j \in Gone : j \notin Rows'
  BY <1>1, <1>2 DEF Writers!Enter, Writers!Move, Writers!Forward, Statuses
<1>3. ASSUME NEW i \in OrderId, Writers!Leave(i)
      PROVE  i \in Rows /\ Rows' = Rows \ {i} /\ Gone' = Gone \cup {i}
  BY <1>3 DEF Writers!Leave, Rows, Gone
<1>4. QED
  BY <1>2, <1>3 DEF Writers!Next

LEMMA SameRows ==
  ASSUME UNCHANGED tables
  PROVE  /\ Rows' = Rows /\ Gone' = Gone /\ \A i : Before(i)' = Before(i)
BY DEF tables, Rows, Gone, Before

(* Rows that come in hide no row that is due, and a row that leaves hides  *)
(* one at the most.                                                        *)
LEMMA PassedChanges ==
  ASSUME status \in [OrderId -> Statuses \cup {"none", "gone"}], Writers!Next,
         NEW D \in SUBSET (Rows \cup Gone), NEW n \in Nat
  PROVE  /\ Gone' = Gone =>
              /\ Cardinality(Front(Rows', D, n)) <= Cardinality(Front(Rows, D, n))
              /\ D \cap Rows' \subseteq D \cap Rows
         /\ Gone' # Gone =>
              /\ Cardinality(Front(Rows', D, n)) <= Cardinality(Front(Rows, D, n)) + 1
              /\ D \cap Rows' \subseteq D \cap Rows
         /\ D \subseteq Rows' \cup Gone' /\ Gone \subseteq Gone'
<1>1. Rows \in SUBSET OrderId /\ Rows' \in SUBSET OrderId
  BY DEF Rows
<1>2. CASE /\ Gone' = Gone /\ Rows \subseteq Rows'
           /\ \A i \in Gone : i \notin Rows'
  <2>1. D \cap Rows' \subseteq Rows
    BY <1>2
  <2>2. QED
    BY <1>1, <1>2, <2>1, EnterHidesNone
<1>3. ASSUME NEW i \in Rows, Rows' = Rows \ {i}, Gone' = Gone \cup {i}
      PROVE  /\ Gone' # Gone
             /\ Cardinality(Front(Rows', D, n)) <= Cardinality(Front(Rows, D, n)) + 1
             /\ D \cap Rows' \subseteq D \cap Rows
             /\ D \subseteq Rows' \cup Gone' /\ Gone \subseteq Gone'
  <2>1. i \notin Gone
    BY DEF Rows, Gone
  <2>2. QED
    BY <1>1, <1>3, <2>1, LeaveHidesOne
<1>4. QED
  BY <1>2, <1>3, RowsChange

LEMMA WalkWhileChanging ==
  ASSUME ListingInv, ReaderInv, WalkInv, Change
  PROVE  WalkInv'
<1> DEFINE lost2 == IF Gone' = Gone THEN walk.lost ELSE walk.lost + 1
           n == walk.from + Cardinality(InHand)
<1>1. /\ UNCHANGED <<pc, todo, call, page, reply>>
      /\ walk' = [walk EXCEPT !.lost = lost2]
  BY DEF Change, reader
<1>2. /\ walk'.from = walk.from /\ walk'.due = walk.due /\ walk'.over = walk.over
      /\ walk'.lost = lost2 /\ walk.lost \in Nat /\ walk.from \in Nat
      /\ walk.due \in SUBSET OrderId
  BY <1>1 DEF ReaderInv, WalkType
<1> HIDE DEF lost2
<1>3. InHand' = InHand /\ PageRead' = PageRead
  BY <1>1 DEF InHand, PageRead
<1>4. Cardinality(InHand) \in Nat /\ n \in Nat
  BY <1>2, OrdersFinite DEF ReaderInv, InHand
<1>5. /\ status \in [OrderId -> Statuses \cup {"none", "gone"}] /\ Writers!Next
      /\ walk.due \subseteq Rows \cup Gone
  BY DEF ListingInv, Change, WalkInv, DueAhead
<1>6. Rows \in SUBSET OrderId /\ Rows' \in SUBSET OrderId
  BY DEF Rows
<1>7. /\ walk.due \subseteq Rows' \cup Gone' /\ Gone \subseteq Gone'
      /\ walk.due \cap Rows' \subseteq walk.due \cap Rows
  BY <1>2, <1>5, PassedChanges
<1>8. ASSUME NEW D \in SUBSET walk.due, NEW m \in Nat,
             Cardinality(Front(Rows, D, m)) <= walk.lost
      PROVE  Cardinality(Front(Rows', D, m)) <= lost2
  <2>1. /\ Cardinality(Front(Rows, D, m)) \in Nat
        /\ Cardinality(Front(Rows', D, m)) \in Nat
    BY <1>6, FrontType
  <2>2. D \in SUBSET (Rows \cup Gone)
    BY <1>5
  <2>3. /\ Gone' = Gone =>
              Cardinality(Front(Rows', D, m)) <= Cardinality(Front(Rows, D, m))
        /\ Gone' # Gone =>
              Cardinality(Front(Rows', D, m)) <= Cardinality(Front(Rows, D, m)) + 1
    BY <1>5, <2>2, PassedChanges
  <2>4. QED
    BY <1>2, <1>8, <2>1, <2>3 DEF lost2
<1>9. lost2 \in Nat /\ walk.lost <= lost2
  BY <1>2 DEF lost2
<1>10. \A D, m : Passed(D, m)' = Front(Rows', D, m)
  BY DEF Passed, Front, Before, Rank
<1>11. ASSUME NEW S \in SUBSET OrderId, NEW T \in SUBSET S,
              Cardinality(S) <= walk.lost
       PROVE  Cardinality(T) <= lost2
  <2>1. Cardinality(T) <= Cardinality(S) /\ Cardinality(T) \in Nat
        /\ Cardinality(S) \in Nat
    BY OrdersFinite, FS_Subset
  <2>2. QED
    BY <1>2, <1>9, <1>11, <2>1
<1>12. DueAhead'
  <2>1. Cardinality(Front(Rows', walk.due, walk.from)) <= lost2
    BY <1>2, <1>8, PassedIsFront DEF WalkInv, DueAhead
  <2>2. ASSUME PageRead, call.client = "walk"
        PROVE  /\ Cardinality(Front(Rows', walk.due \ InHand, n)) <= lost2
               /\ InHand = {} => Cardinality(walk.due \cap Rows') <= lost2
    <3>1. /\ Cardinality(Front(Rows, walk.due \ InHand, n)) <= walk.lost
          /\ InHand = {} => Cardinality(walk.due \cap Rows) <= walk.lost
      BY <2>2, PassedIsFront DEF WalkInv, DueAhead
    <3>2. walk.due \ InHand \in SUBSET walk.due /\ walk.due \cap Rows \in SUBSET OrderId
      BY <1>2
    <3>3. QED
      BY <1>4, <1>7, <1>8, <1>11, <3>1, <3>2
  <2>3. QED
    BY <1>1, <1>2, <1>3, <1>7, <1>10, <2>1, <2>2 DEF DueAhead
<1>13. WalkComplete'
  BY <1>2, <1>7, <1>11 DEF WalkInv, WalkComplete
<1>14. AskedNext'
  <2>1. UNCHANGED call
    BY DEF Change, reader
  <2>2. QED
    BY <1>1, <1>2, <2>1 DEF WalkInv, AskedNext
<1>15. QED
  BY <1>12, <1>13, <1>14 DEF WalkInv

(* Steps that leave the tables and the walk alone and read no page.        *)
LEMMA WalkStays ==
  ASSUME WalkInv, UNCHANGED <<tables, walk>>, AskedNext',
         PageRead' /\ call'.client = "walk"
           => PageRead /\ call.client = "walk" /\ InHand' = InHand
  PROVE  WalkInv'
<1>1. UNCHANGED walk /\ Rows' = Rows /\ Gone' = Gone
  BY SameRows
<1>2. Passed(walk.due, walk.from)' = Passed(walk.due, walk.from)
  BY <1>1, SameRows DEF Passed
<1>3. ASSUME PageRead', call'.client = "walk"
      PROVE  Passed(walk.due \ InHand, walk.from + Cardinality(InHand))'
               = Passed(walk.due \ InHand, walk.from + Cardinality(InHand))
  BY <1>1, <1>3, SameRows DEF Passed
<1>4. DueAhead'
  BY <1>1, <1>2, <1>3 DEF WalkInv, DueAhead
<1>5. WalkComplete'
  BY <1>1 DEF WalkInv, WalkComplete
<1>6. QED
  BY <1>4, <1>5 DEF WalkInv

LEMMA WalkAsks ==
  ASSUME ReaderInv, WalkInv, AskOrders \/ AskNextPage \/ ListUnpaginated \/ GetOrders
  PROVE  WalkInv'
<1>1. /\ pc' = "running" /\ todo' = <<"orders", "records">>
      /\ UNCHANGED <<tables, walk>>
  BY DEF AskOrders, AskNextPage, ListOrders, ListUnpaginated, GetOrders, Call,
         Statements
<1>2. AskedNext'
  <2>1. CASE AskNextPage
    <3>1. PICK limit \in Numbers \cup {NotANumber} :
            Call("walk", "orders", PaginateOffset(walk.from), PaginateLimit(limit))
      BY <2>1 DEF AskNextPage, ListOrders
    <3>2. limit \in Int \cup {NotANumber} /\ walk.from \in Nat
      BY ListingAssumption DEF ListingAssumption, ReaderInv, WalkType
    <3>3. PaginateLimit(limit) >= 1 /\ PaginateOffset(walk.from) = walk.from
      BY <3>2, PaginateType
    <3>4. call'.route = "orders" /\ call'.offset = walk.from /\ call'.limit >= 1
      BY <3>1, <3>3 DEF Call
    <3>5. QED
      BY <1>1, <3>4 DEF AskedNext
  <2>2. CASE AskOrders \/ ListUnpaginated \/ GetOrders
    <3>1. call'.client = "any"
      BY <2>2 DEF AskOrders, ListOrders, ListUnpaginated, GetOrders, Call
    <3>2. QED
      BY <3>1 DEF AskedNext
  <2>3. QED
    BY <2>1, <2>2
<1>3. QED
  BY <1>1, <1>2, WalkStays DEF PageRead

(* The page holds the rows from the offset on: what is due and neither on  *)
(* it nor passed comes after it, and if a row is at the offset or after it *)
(* the page is not empty.                                                  *)
LEMMA WalkReadsPage ==
  ASSUME ListingInv, ReaderInv, WalkInv, SelectOrders
  PROVE  WalkInv'
<1> DEFINE P == {j \in Rows : InPage(j)}
<1>1. /\ page' = [i \in P |-> status[i]] /\ pc = "running"
      /\ UNCHANGED <<tables, pc, call, walk>>
      /\ call.offset \in Nat /\ call.limit \in Nat
  BY DEF SelectOrders, ReaderInv, Calls
<1>2. AskedNext'
  BY <1>1 DEF WalkInv, AskedNext
<1>3. ASSUME call.client = "walk"
      PROVE  /\ Cardinality(Passed(walk.due \ P, walk.from + Cardinality(P)))
                  <= walk.lost
             /\ P = {} => Cardinality(walk.due \cap Rows) <= walk.lost
  <2>1. /\ call.offset = walk.from /\ call.limit >= 1
        /\ Cardinality(Passed(walk.due, walk.from)) <= walk.lost
        /\ walk.lost \in Nat
    BY <1>1, <1>3 DEF WalkInv, AskedNext, DueAhead, ReaderInv, WalkType
  <2>2. P \in SUBSET Rows /\ Rows \in SUBSET OrderId
    BY RowsType
  <2>3. \A i : Before(i) \in Nat
    BY BeforeIsRank, RowsType, RankType
  <2>4. Cardinality(P) <= call.limit
    <3>1. \A i \in P : /\ call.offset <= Rank(Rows, i)
                       /\ Rank(Rows, i) < call.offset + call.limit
      BY BeforeIsRank DEF InPage
    <3> HIDE DEF P
    <3>2. QED
      BY <1>1, <2>2, <3>1, PageFits
  <2>5. Cardinality(P) \in Nat
    BY <2>2, OrdersFinite
  <2>6. ASSUME NEW S \in SUBSET Passed(walk.due, walk.from)
        PROVE  Cardinality(S) <= walk.lost
    <3>1. Passed(walk.due, walk.from) \in SUBSET OrderId
      BY <2>2 DEF Passed
    <3>2. /\ Cardinality(S) <= Cardinality(Passed(walk.due, walk.from))
          /\ Cardinality(S) \in Nat
          /\ Cardinality(Passed(walk.due, walk.from)) \in Nat
      BY <3>1, OrdersFinite, FS_Subset
    <3>3. QED
      BY <2>1, <3>2
  <2>7. ASSUME NEW i \in Passed(walk.due \ P, walk.from + Cardinality(P))
        PROVE  i \in Passed(walk.due, walk.from)
    <3>1. i \in walk.due \cap Rows /\ ~InPage(i)
          /\ Before(i) < walk.from + Cardinality(P)
      BY <2>7 DEF Passed
    <3> HIDE DEF P
    <3>2. Before(i) < call.offset + call.limit
      BY <1>1, <2>1, <2>3, <2>4, <2>5, <3>1
    <3>3. Before(i) < walk.from
      BY <1>1, <2>1, <2>3, <3>1, <3>2 DEF InPage
    <3>4. QED
      BY <3>1, <3>3 DEF Passed
  <2>8. ASSUME P = {}, NEW i \in walk.due \cap Rows
        PROVE  i \in Passed(walk.due, walk.from)
    <3>1. CASE Before(i) < walk.from
      BY <3>1, <2>8 DEF Passed
    <3>2. CASE call.offset <= Rank(Rows, i)
      <4>1. PICK j \in Rows : Rank(Rows, j) = call.offset
        BY <1>1, <2>2, <2>8, <3>2, RankReached
      <4>2. Before(j) = call.offset
        BY <4>1, BeforeIsRank
      <4>3. j \in P
        BY <1>1, <2>1, <4>2 DEF InPage
      <4>4. QED
        BY <2>8, <4>3
    <3>3. QED
      BY <1>1, <2>1, <2>3, <3>1, <3>2, BeforeIsRank
  <2>9. QED
    BY <2>6, <2>7, <2>8
<1>4. DOMAIN page' = P
  BY <1>1
<1> HIDE DEF P
<1>5. InHand' = P
  BY <1>1, <1>4 DEF InHand
<1>6. QED
  BY <1>1, <1>2, <1>3, <1>5, SameRows DEF WalkInv, DueAhead, Passed, WalkComplete

LEMMA WalkHandsOver ==
  ASSUME ReaderInv, WalkInv, Receive
  PROVE  WalkInv'
<1>1. /\ pc = "done" /\ pc' = "idle" /\ UNCHANGED tables
  BY DEF Receive, Finish
<1>2. ~PageRead' /\ AskedNext' /\ PageRead /\ InHand = DOMAIN reply
  BY <1>1 DEF PageRead, AskedNext, InHand
<1>3. CASE walk' = walk
  BY <1>1, <1>2, <1>3, WalkStays
<1>4. CASE /\ call.client = "walk"
           /\ walk' = [walk EXCEPT !.from = @ + Cardinality(DOMAIN reply),
                                   !.due = @ \ DOMAIN reply,
                                   !.over = DOMAIN reply = {}]
  <2>1. /\ walk'.from = walk.from + Cardinality(InHand)
        /\ walk'.due = walk.due \ InHand
        /\ walk'.lost = walk.lost
        /\ walk'.over => InHand = {}
    BY <1>2, <1>4 DEF ReaderInv, WalkType
  <2>2. /\ walk.due \subseteq Rows \cup Gone
        /\ Cardinality(Passed(walk.due \ InHand, walk.from + Cardinality(InHand)))
             <= walk.lost
        /\ InHand = {} => Cardinality(walk.due \cap Rows) <= walk.lost
    BY <1>2, <1>4 DEF WalkInv, DueAhead
  <2>3. DueAhead'
    <3>1. Passed(walk.due, walk.from)'
            = Passed(walk.due \ InHand, walk.from + Cardinality(InHand))
      BY <1>1, <2>1, SameRows DEF Passed
    <3>2. QED
      BY <1>1, <1>2, <2>1, <2>2, <3>1, SameRows DEF DueAhead
  <2>4. ASSUME InHand = {}
        PROVE  (walk.due \ InHand) \ Gone = walk.due \cap Rows
    BY <2>2, <2>4 DEF Rows, Gone
  <2>5. WalkComplete'
    BY <1>1, <2>1, <2>2, <2>4, SameRows DEF WalkComplete
  <2>6. QED
    BY <1>2, <2>3, <2>5 DEF WalkInv
<1>5. QED
  BY <1>3, <1>4 DEF Receive

(* All that is there is due, and nothing has been received.                *)
LEMMA WalkStarts == walk = NewWalk /\ pc = "idle" => WalkInv
<1> SUFFICES ASSUME walk = NewWalk, pc = "idle"
             PROVE  WalkInv
  OBVIOUS
<1>1. /\ walk.from = 0 /\ walk.due = Rows /\ walk.lost = 0 /\ ~walk.over
  BY DEF NewWalk
<1>2. \A i : Before(i) \in Nat
  BY BeforeIsRank, RowsType, RankType
<1>3. Passed(walk.due, walk.from) = {}
  BY <1>1, <1>2 DEF Passed
<1>4. Cardinality(Passed(walk.due, walk.from)) = 0
  BY <1>3, FS_EmptySet
<1>5. QED
  BY <1>1, <1>4 DEF WalkInv, AskedNext, DueAhead, WalkComplete, PageRead

LEMMA WalkStep ==
  ASSUME ListingInv, ReaderInv, WalkInv, [Next]_vars
  PROVE  WalkInv'
<1>1. CASE StartWalk
  <2>1. (walk = NewWalk /\ pc = "idle")'
    BY <1>1, SameRows DEF StartWalk, reader, NewWalk
  <2>2. QED
    BY <2>1, WalkStarts, PTL
<1>2. CASE SelectRecords
  <2>1. pc = "running" /\ UNCHANGED <<tables, pc, call, walk>>
    BY <1>2 DEF SelectRecords
  <2>2. QED
    BY <1>2, <2>1, ReaderSelectsRecords, WalkStays DEF WalkInv, AskedNext
<1>3. CASE Answer
  <2>1. pc = "running" /\ UNCHANGED <<tables, call, walk>>
    BY <1>3 DEF Answer, Finish
  <2>2. QED
    BY <1>3, <2>1, ReaderAnswers, WalkStays DEF WalkInv, AskedNext
<1>4. CASE FailSelect
  <2>1. pc' = "idle" /\ UNCHANGED <<tables, walk>>
    BY <1>4 DEF FailSelect, Finish
  <2>2. QED
    BY <2>1, WalkStays DEF AskedNext, PageRead
<1>5. CASE UNCHANGED vars
  <2>1. UNCHANGED <<tables, pc, todo, call, page, reply, walk>>
    BY <1>5 DEF vars, reader
  <2>2. QED
    BY <2>1, WalkStays DEF WalkInv, AskedNext, PageRead, InHand
<1>6. QED
  BY <1>1, <1>2, <1>3, <1>4, <1>5, WalkWhileChanging, WalkAsks, WalkReadsPage,
     WalkHandsOver DEF Next

(* OFFSET counts rows that come and go.  A client that reads GET /orders   *)
(* page after page until one is empty has received every order that was    *)
(* there when it began and still is, but for one per order returned to the *)
(* courier meanwhile.                                                      *)
THEOREM WalkMissesFew == Spec => []WalkComplete
<1>1. Init => WalkInv
  BY WalkStarts DEF Init
<1>2. WalkInv => WalkComplete
  BY DEF WalkInv
<1>3. QED
  BY <1>1, <1>2, ListingInit, ListingStep, ReaderInit, ReaderStep, WalkStep, PTL
  DEF Spec
=============================================================================
