---------------------------- MODULE DaSourceProofs ----------------------------
(***************************************************************************)
(* For any L1 chain, any set of preimages and either kind of commitment,   *)
(* the pipeline is fed each block's items once, in order and completely.   *)
(***************************************************************************)
EXTENDS DaSource, TLAPS

\* Whether a transaction counts depends on the chain and the oracle only.
LEMMA CarriesUnchanged ==
  ASSUME UNCHANGED <<chain, preimages>>
  PROVE  /\ \A b, k : Carries(b, k)' <=> Carries(b, k)
         /\ \A b, k : ItemOf(b, k)' = ItemOf(b, k)
         /\ \A b, s : InOrder(b, s)' <=> InOrder(b, s)
BY DEF Carries, Yields, ItemOf, InOrder, FromBatcher, IsCommitment

LEMMA EmptyIsItems == <<>> \in Seq(Item)
OBVIOUS

LEMMA ItemType ==
  ASSUME TypeOK, NEW b \in Blocks, NEW k \in 1 .. Len(chain[b].txs)
  PROVE  ItemOf(b, k) \in Item
<1>1. chain[b] \in L1Block
  BY DEF TypeOK
<1>2. chain[b].txs[k] \in Tx
  BY <1>1 DEF L1Block
<1> QED
  BY <1>2 DEF ItemOf, Item, Tx, IsCommitment

\* The source as init leaves it satisfies the inductive invariant.
LEMMA InitInv == Init => IInv
<1> SUFFICES ASSUME Init PROVE IInv
  OBVIOUS
<1>1. TypeOK
  <2>1. cursor \in Blocks /\ i \in Nat \ {0}
    BY NumBlocksAssumption DEF Init, Blocks
  <2>2. fed \in [Blocks -> Seq(Item)] /\ batch_data \in Seq(Item)
    BY EmptyIsItems DEF Init
  <2>3. chain \in [Blocks -> L1Block]
    BY ChainsAssumption DEF Init
  <2> QED
    BY <2>1, <2>2, <2>3 DEF Init, TypeOK
<1>2. \A b \in Blocks : fed[b] = <<>> /\ InOrder(b, <<>>)
  BY DEF Init, InOrder
<1>3. cursor = 1 /\ \A b \in Blocks : ~ (b < cursor)
  BY NumBlocksAssumption DEF Init, Blocks
<1>4. FedInOrder
  BY <1>2 DEF FedInOrder
<1>5. EofIsComplete
  BY <1>3 DEF Init, EofIsComplete
<1>6. cursor \in Blocks
  BY <1>1 DEF TypeOK
<1>7. QueueContinues
  BY <1>2, <1>6 DEF Init, QueueContinues
<1>8. LoadIsFresh
  BY <1>2, <1>6 DEF Init, LoadIsFresh
<1> QED
  BY <1>1, <1>4, <1>5, <1>7, <1>8 DEF IInv

\* Starting over at a block with an empty queue and nothing fed keeps the
\* invariant: the common part of Advance and Reset.
LEMMA ClearedInv ==
  ASSUME TypeOK', FedInOrder', EofIsComplete',
         fed'[cursor'] = <<>>, batch_data' = <<>>, open' = FALSE,
         pc' = "idle", result' = "none"
  PROVE  IInv'
<1>1. QueueContinues'
  BY DEF QueueContinues, InOrder
<1>2. LoadIsFresh'
  BY DEF LoadIsFresh
<1> QED
  BY <1>1, <1>2 DEF IInv

\* No step of next(), no clear and no reset disturbs the inductive invariant.
LEMMA StepInv == IInv /\ [Next]_vars => IInv'
<1> SUFFICES ASSUME IInv, [Next]_vars PROVE IInv'
  OBVIOUS
<1> USE DEF IInv
<1>c. cursor \in Blocks /\ cursor \in Nat /\ i \in Nat /\ Blocks \subseteq Nat
  BY DEF TypeOK, Blocks
<1>1. CASE NextLoaded
  <2> USE <1>1 DEF NextLoaded, source
  <2>0. UNCHANGED <<chain, preimages>> OBVIOUS
  <2>1. TypeOK' BY DEF TypeOK
  <2>2. FedInOrder' BY <2>0, CarriesUnchanged DEF FedInOrder
  <2>3. EofIsComplete' BY <2>0, CarriesUnchanged DEF EofIsComplete, Has
  <2>4. QueueContinues' BY <2>0, CarriesUnchanged DEF QueueContinues, Has
  <2>5. LoadIsFresh' BY <2>0, CarriesUnchanged DEF LoadIsFresh, Has
  <2> QED BY <2>1, <2>2, <2>3, <2>4, <2>5
<1>2. CASE FetchBlock
  <2> USE <1>2 DEF FetchBlock, source
  <2>0. UNCHANGED <<chain, preimages>> OBVIOUS
  <2>1. TypeOK' BY DEF TypeOK
  <2>2. FedInOrder' BY <2>0, CarriesUnchanged DEF FedInOrder
  <2>3. EofIsComplete' BY <2>0, CarriesUnchanged DEF EofIsComplete, Has
  <2>4. QueueContinues' BY <2>0, CarriesUnchanged DEF QueueContinues, Has
  <2>5. LoadIsFresh'
    <3>1. batch_data = <<>> /\ fed[cursor] = <<>> BY DEF LoadIsFresh
    <3> QED BY <3>1 DEF LoadIsFresh
  <2> QED BY <2>1, <2>2, <2>3, <2>4, <2>5
<1>3. CASE FetchFails
  <2> USE <1>3 DEF FetchFails, source
  <2>0. UNCHANGED <<chain, preimages>> OBVIOUS
  <2>1. TypeOK' BY DEF TypeOK
  <2>2. FedInOrder' BY <2>0, CarriesUnchanged DEF FedInOrder
  <2>3. EofIsComplete' BY <2>0, CarriesUnchanged DEF EofIsComplete, Has
  <2>4. QueueContinues' BY <2>0, CarriesUnchanged DEF QueueContinues, Has
  <2>5. LoadIsFresh' BY DEF LoadIsFresh
  <2> QED BY <2>1, <2>2, <2>3, <2>4, <2>5
<1>4. CASE LoadTx
  <2> USE <1>4 DEF LoadTx
  <2>0. UNCHANGED <<chain, preimages>> OBVIOUS
  <2>1. ItemOf(cursor, i) \in Item /\ ItemOf(cursor, i).index = i
    <3>1. i \in 1 .. Len(chain[cursor].txs) BY <1>c DEF TypeOK, L1Block
    <3> QED BY <3>1, <1>c, ItemType DEF ItemOf
  <2>2. TypeOK' BY <2>1 DEF TypeOK
  <2>3. FedInOrder' BY <2>0, CarriesUnchanged DEF FedInOrder
  <2>4. EofIsComplete' BY <2>0, CarriesUnchanged DEF EofIsComplete, Has
  <2>5. fed[cursor] = <<>> /\ ~open BY DEF LoadIsFresh
  <2>6. InOrder(cursor, batch_data')
    <3>1. CASE ~ Carries(cursor, i) BY <3>1 DEF QueueContinues
    <3>2. CASE Carries(cursor, i)
      <4>1. batch_data' = Append(batch_data, ItemOf(cursor, i)) BY <3>2
      <4>2. /\ Len(batch_data') = Len(batch_data) + 1 /\ Len(batch_data) \in Nat
            /\ \A k \in 1 .. Len(batch_data) : batch_data'[k] = batch_data[k]
            /\ batch_data'[Len(batch_data) + 1] = ItemOf(cursor, i)
        BY <4>1, <2>1 DEF TypeOK
      <4>3. \A k \in 1 .. Len(batch_data) : batch_data[k].index < i BY DEF LoadIsFresh
      <4>4. i \in 1 .. Len(chain[cursor].txs) BY <1>c DEF TypeOK, L1Block
      <4>5. InOrder(cursor, batch_data) BY DEF QueueContinues
      <4>6. \A k \in 1 .. Len(batch_data') :
              k \in 1 .. Len(batch_data) \/ k = Len(batch_data) + 1
        BY <4>2
      <4> QED BY <4>2, <4>3, <4>4, <4>5, <4>6, <3>2, <2>1 DEF InOrder
    <3> QED BY <3>1, <3>2
  <2>7. QueueContinues' BY <2>0, <2>5, <2>6, CarriesUnchanged DEF QueueContinues
  <2>8. \A k \in 1 .. Len(batch_data') : batch_data'[k].index < i + 1
    <3>1. \A k \in 1 .. Len(batch_data) :
            batch_data[k].index < i /\ batch_data[k].index \in Nat
      <4>1. \A k \in 1 .. Len(batch_data) : batch_data[k] \in Item BY DEF TypeOK
      <4>2. \A k \in 1 .. Len(batch_data) : batch_data[k].index \in Nat BY <4>1 DEF Item
      <4> QED BY <4>2 DEF LoadIsFresh
    <3> QED BY <3>1, <2>1, <1>c DEF TypeOK
  <2>9. \A k \in 1 .. Len(chain[cursor].txs) :
          k < i + 1 /\ Carries(cursor, k) => Has(batch_data', k)
    <3> SUFFICES ASSUME NEW k \in 1 .. Len(chain[cursor].txs),
                        k < i + 1, Carries(cursor, k)
                 PROVE  Has(batch_data', k)
      OBVIOUS
    <3>1. CASE k = i
      <4>1. batch_data' = Append(batch_data, ItemOf(cursor, i)) BY <3>1
      <4>2. Len(batch_data) + 1 \in 1 .. Len(batch_data')
            /\ batch_data'[Len(batch_data) + 1] = ItemOf(cursor, i)
        BY <4>1, <2>1 DEF TypeOK
      <4> QED BY <4>2, <2>1, <3>1 DEF Has
    <3>2. CASE k # i
      <4>1. k < i BY <3>2, <1>c DEF TypeOK, L1Block
      <4>2. PICK l \in 1 .. Len(batch_data) : batch_data[l].index = k
        BY <4>1 DEF LoadIsFresh, Has
      <4>3. l \in 1 .. Len(batch_data') /\ batch_data'[l] = batch_data[l]
        BY <4>2, <2>1 DEF TypeOK
      <4> QED BY <4>2, <4>3 DEF Has
    <3> QED BY <3>1, <3>2
  <2>10. LoadIsFresh' BY <2>0, <2>5, <2>8, <2>9, CarriesUnchanged DEF LoadIsFresh, Has
  <2> QED BY <2>2, <2>3, <2>4, <2>7, <2>10
<1>5. CASE LoadDone
  <2> USE <1>5 DEF LoadDone
  <2>0. UNCHANGED <<chain, preimages>> OBVIOUS
  <2>1. TypeOK' BY DEF TypeOK
  <2>2. FedInOrder' BY <2>0, CarriesUnchanged DEF FedInOrder
  <2>3. EofIsComplete' BY <2>0, CarriesUnchanged DEF EofIsComplete, Has
  <2>4. \A k \in 1 .. Len(chain[cursor].txs) : Carries(cursor, k) => Has(batch_data, k)
    <3>1. \A k \in 1 .. Len(chain[cursor].txs) : k < i
      BY <1>c DEF TypeOK, L1Block
    <3> QED BY <3>1 DEF LoadIsFresh
  <2>5. QueueContinues' BY <2>0, <2>4, CarriesUnchanged DEF QueueContinues, Has
  <2>6. LoadIsFresh' BY DEF LoadIsFresh
  <2> QED BY <2>1, <2>2, <2>3, <2>5, <2>6
<1>6. CASE Pop
  <2> USE <1>6 DEF Pop
  <2>0. UNCHANGED <<chain, preimages>> OBVIOUS
  <2> DEFINE f == fed[cursor]
  <2>1. /\ f \in Seq(Item) /\ batch_data \in Seq(Item) /\ Len(f) \in Nat
        /\ Len(batch_data) \in Nat \ {0} /\ Head(batch_data) \in Item
        /\ Tail(batch_data) \in Seq(Item) /\ Head(batch_data) = batch_data[1]
    BY <1>c DEF TypeOK
  <2>2. TypeOK' BY <2>1 DEF TypeOK
  <2>3. /\ fed'[cursor] = Append(f, batch_data[1])
        /\ \A b \in Blocks : b # cursor => fed'[b] = fed[b]
    BY <2>1, <1>c DEF TypeOK
  <2>4. /\ Len(fed'[cursor]) = Len(f) + 1
        /\ \A k \in 1 .. Len(f) : fed'[cursor][k] = f[k]
        /\ fed'[cursor][Len(f) + 1] = batch_data[1]
        /\ \A k \in 1 .. Len(fed'[cursor]) : k \in 1 .. Len(f) \/ k = Len(f) + 1
    BY <2>1, <2>3
  <2>5. /\ Len(batch_data') = Len(batch_data) - 1
        /\ \A l \in 1 .. Len(batch_data') :
             l + 1 \in 1 .. Len(batch_data) /\ batch_data'[l] = batch_data[l + 1]
    BY <2>1
  <2>6. InOrder(cursor, f) /\ InOrder(cursor, batch_data) /\ 1 \in 1 .. Len(batch_data)
    BY <1>c, <2>1 DEF FedInOrder, QueueContinues
  <2>7. \A k \in 1 .. Len(f), l \in 1 .. Len(batch_data) : f[k].index < batch_data[l].index
    BY DEF QueueContinues
  <2>8. InOrder(cursor, fed'[cursor])
    BY <2>1, <2>4, <2>6, <2>7 DEF InOrder
  <2>9. FedInOrder'
    <3> SUFFICES ASSUME NEW b \in Blocks
                 PROVE  InOrder(b, fed'[b]) /\ (b > cursor => fed'[b] = <<>>)
      BY <2>0, CarriesUnchanged DEF FedInOrder
    <3>1. CASE b = cursor BY <3>1, <2>8, <1>c
    <3>2. CASE b # cursor BY <3>2, <2>3 DEF FedInOrder
    <3> QED BY <3>1, <3>2
  <2>10. EofIsComplete'
    <3> SUFFICES ASSUME NEW b \in Blocks, b < cursor
                 PROVE  \A k \in 1 .. Len(chain[b].txs) : Carries(b, k) => Has(fed'[b], k)
      <4>1. result' # "eof" /\ cursor' = cursor OBVIOUS
      <4>2. \A c \in Blocks : \A k : Has(fed[c], k)' <=> Has(fed'[c], k) BY DEF Has
      <4> QED BY <2>0, <4>1, <4>2, CarriesUnchanged DEF EofIsComplete
    <3>1. fed'[b] = fed[b] BY <2>3, <1>c
    <3> QED BY <3>1 DEF EofIsComplete
  <2>11. open BY DEF LoadIsFresh
  <2>12. InOrder(cursor, batch_data')
    <3>1. \A k, l \in 1 .. Len(batch_data') : k < l =>
            k + 1 \in 1 .. Len(batch_data) /\ l + 1 \in 1 .. Len(batch_data) /\ k + 1 < l + 1
      BY <2>5
    <3> QED BY <3>1, <2>5, <2>6 DEF InOrder
  <2>13. \A k \in 1 .. Len(fed'[cursor]), l \in 1 .. Len(batch_data') :
           fed'[cursor][k].index < batch_data'[l].index
    <3> SUFFICES ASSUME NEW k \in 1 .. Len(fed'[cursor]), NEW l \in 1 .. Len(batch_data')
                 PROVE  fed'[cursor][k].index < batch_data'[l].index
      OBVIOUS
    <3>1. l + 1 \in 1 .. Len(batch_data) /\ batch_data'[l] = batch_data[l + 1] /\ 1 < l + 1
      BY <2>5
    <3>2. CASE k \in 1 .. Len(f) BY <3>1, <3>2, <2>4, <2>7
    <3>3. CASE k = Len(f) + 1 BY <3>1, <3>3, <2>4, <2>6 DEF InOrder
    <3> QED BY <3>2, <3>3, <2>4
  <2>14. \A k \in 1 .. Len(chain[cursor].txs) :
           Carries(cursor, k) => Has(fed'[cursor], k) \/ Has(batch_data', k)
    <3> SUFFICES ASSUME NEW k \in 1 .. Len(chain[cursor].txs), Carries(cursor, k)
                 PROVE  Has(fed'[cursor], k) \/ Has(batch_data', k)
      OBVIOUS
    <3>1. Has(f, k) \/ Has(batch_data, k) BY <2>11 DEF QueueContinues
    <3>2. CASE Has(f, k)
      <4>1. PICK l \in 1 .. Len(f) : f[l].index = k BY <3>2 DEF Has
      <4>2. l \in 1 .. Len(fed'[cursor]) BY <2>4, <2>1
      <4> QED BY <4>1, <4>2, <2>4 DEF Has
    <3>3. CASE Has(batch_data, k)
      <4>1. PICK l \in 1 .. Len(batch_data) : batch_data[l].index = k BY <3>3 DEF Has
      <4>2. CASE l = 1
        <5>1. Len(f) + 1 \in 1 .. Len(fed'[cursor]) BY <2>4, <2>1
        <5> QED BY <4>1, <4>2, <5>1, <2>4 DEF Has
      <4>3. CASE l # 1
        <5>1. l - 1 \in 1 .. Len(batch_data') /\ batch_data'[l - 1] = batch_data[l]
          BY <4>3, <2>5, <2>1
        <5> QED BY <4>1, <5>1 DEF Has
      <4> QED BY <4>2, <4>3
    <3> QED BY <3>1, <3>2, <3>3
  <2>15. QueueContinues'
    <3>1. cursor' = cursor OBVIOUS
    <3>2. InOrder(cursor, batch_data)'
      BY <2>0, <2>12, <3>1, CarriesUnchanged DEF InOrder
    <3>3. /\ \A k : Has(fed[cursor], k)' <=> Has(fed'[cursor], k)
          /\ \A k : Has(batch_data, k)' <=> Has(batch_data', k)
      BY <3>1 DEF Has
    <3> QED BY <2>0, <2>13, <2>14, <3>1, <3>2, <3>3, CarriesUnchanged DEF QueueContinues
  <2>16. LoadIsFresh' BY <2>11 DEF LoadIsFresh
  <2> QED BY <2>2, <2>9, <2>10, <2>15, <2>16
<1>7. CASE PopEof
  <2> USE <1>7 DEF PopEof, source
  <2>0. UNCHANGED <<chain, preimages>> OBVIOUS
  <2>1. TypeOK' BY DEF TypeOK
  <2>2. FedInOrder' BY <2>0, CarriesUnchanged DEF FedInOrder
  <2>3. open BY DEF LoadIsFresh
  <2>4. \A k \in 1 .. Len(chain[cursor].txs) : Carries(cursor, k) => Has(fed[cursor], k)
    BY <2>3 DEF QueueContinues, Has
  <2>5. EofIsComplete' BY <2>0, <2>4, CarriesUnchanged DEF EofIsComplete, Has
  <2>6. QueueContinues' BY <2>0, CarriesUnchanged DEF QueueContinues, Has
  <2>7. LoadIsFresh' BY <2>3 DEF LoadIsFresh
  <2> QED BY <2>1, <2>2, <2>5, <2>6, <2>7
<1>8. CASE Advance
  <2> USE <1>8 DEF Advance, clear
  <2>0. UNCHANGED <<chain, preimages>> OBVIOUS
  <2>1. cursor + 1 \in Blocks BY <1>c, NumBlocksAssumption DEF Blocks
  <2>2. TypeOK' BY <2>1, EmptyIsItems DEF TypeOK
  <2>3. \A b \in Blocks : b > cursor + 1 => b > cursor BY <1>c
  <2>4. FedInOrder' BY <2>0, <2>3, CarriesUnchanged DEF FedInOrder
  <2>5. \A b \in Blocks : b < cursor + 1 => b < cursor \/ b = cursor BY <1>c
  <2>6. EofIsComplete' BY <2>0, <2>5, CarriesUnchanged DEF EofIsComplete, Has
  <2>7. fed[cursor + 1] = <<>> BY <2>1, <1>c DEF FedInOrder
  <2> QED BY <2>2, <2>4, <2>6, <2>7, ClearedInv DEF LoadIsFresh
<1>9. CASE \E b \in Blocks : Reset(b)
  <2>1. PICK b \in Blocks : Reset(b) BY <1>9
  <2> USE <2>1 DEF Reset, clear
  <2>0. UNCHANGED <<chain, preimages>> OBVIOUS
  <2>2. TypeOK'
    <3>1. fed' \in [Blocks -> Seq(Item)] BY EmptyIsItems DEF TypeOK
    <3> QED BY <3>1, EmptyIsItems DEF TypeOK
  <2>3. \A c \in Blocks : (c < b => fed'[c] = fed[c]) /\ (~ (c < b) => fed'[c] = <<>>)
    OBVIOUS
  <2>4. \A c \in Blocks : InOrder(c, <<>>) BY DEF InOrder
  <2>5. \A c \in Blocks : c > b => ~ (c < b) BY <1>c
  <2>6. FedInOrder' BY <2>0, <2>3, <2>4, <2>5, CarriesUnchanged DEF FedInOrder
  <2>7. \A c \in Blocks : c < b => c < cursor BY <1>c
  <2>8. EofIsComplete' BY <2>0, <2>3, <2>7, CarriesUnchanged DEF EofIsComplete, Has
  <2>9. fed'[cursor'] = <<>> BY <2>3, <1>c
  <2> QED BY <2>2, <2>6, <2>8, <2>9, ClearedInv
<1>10. CASE UNCHANGED vars
  <2> USE <1>10 DEF vars
  <2>1. TypeOK' BY DEF TypeOK
  <2>2. FedInOrder' BY CarriesUnchanged DEF FedInOrder
  <2>3. EofIsComplete' BY CarriesUnchanged DEF EofIsComplete, Has
  <2>4. QueueContinues' BY CarriesUnchanged DEF QueueContinues, Has
  <2>5. LoadIsFresh' BY CarriesUnchanged DEF LoadIsFresh, Has
  <2> QED BY <2>1, <2>2, <2>3, <2>4, <2>5
<1> QED
  BY <1>1, <1>2, <1>3, <1>4, <1>5, <1>6, <1>7, <1>8, <1>9, <1>10 DEF Next

\* The inductive invariant of next() and clear().
THEOREM Inductive == Spec => []IInv
<1> QED BY InitInv, StepInv, PTL DEF Spec

\* Each block's own items reach the pipeline, at most once and in order,
\* however the calls of next() fail and wherever the pipeline is reset.
THEOREM FeedsInOrder == Spec => []FedInOrder
<1>1. IInv => FedInOrder BY DEF IInv
<1> QED BY <1>1, Inductive, PTL

\* When next() has answered Eof for a block, nothing of it is left to feed.
THEOREM EofComplete == Spec => []EofIsComplete
<1>1. IInv => EofIsComplete BY DEF IInv
<1> QED BY <1>1, Inductive, PTL

-----------------------------------------------------------------------------
(* The source implements a feed of each block's items.                      *)

\* A sequence that is in order holds an item of the block exactly where it holds its
\* transaction's number.
LEMMA HasItem ==
  ASSUME TypeOK, NEW b \in Blocks, NEW s, InOrder(b, s), NEW k, Has(s, k)
  PROVE  \E l \in 1 .. Len(s) : s[l] = ItemOf(b, k)
BY DEF Has, InOrder

LEMMA HeldIsWanted ==
  ASSUME TypeOK, NEW b \in Blocks, NEW s, InOrder(b, s), NEW l \in 1 .. Len(s)
  PROVE  s[l] \in ItemsOf(b)
BY DEF InOrder, ItemsOf

\* What is still missing of a block that is loaded is in the queue.
LEMMA MissingIsQueued ==
  ASSUME IInv, open, NEW x \in Feed!Missing
  PROVE  \E l \in 1 .. Len(batch_data) : batch_data[l] = x
<1>1. cursor \in Blocks
  BY DEF IInv, TypeOK
<1>2. x \in ItemsOf(cursor) /\ \A k \in 1 .. Len(fed[cursor]) : fed[cursor][k] # x
  BY <1>1 DEF Feed!Missing
<1>3. PICK k \in 1 .. Len(chain[cursor].txs) : Carries(cursor, k) /\ x = ItemOf(cursor, k)
  BY <1>2 DEF ItemsOf
<1>4. InOrder(cursor, fed[cursor]) /\ InOrder(cursor, batch_data)
  BY <1>1 DEF IInv, FedInOrder, QueueContinues
<1>5. ~ Has(fed[cursor], k)
  BY <1>1, <1>2, <1>3, <1>4, HasItem DEF IInv
<1>6. Has(batch_data, k)
  BY <1>3, <1>5 DEF IInv, QueueContinues
<1> QED
  BY <1>1, <1>3, <1>4, <1>6, HasItem DEF IInv

\* pop_front hands over the first of what is missing.
LEMMA PopGives ==
  ASSUME IInv, Pop
  PROVE  Feed!Give(Head(batch_data)) /\ Head(batch_data) \in ItemsOf(cursor)
<1> DEFINE x == batch_data[1]
<1>1. /\ cursor \in Blocks /\ open /\ result # "eof" /\ result' # "eof"
      /\ batch_data \in Seq(Item) /\ Len(batch_data) \in Nat /\ 1 \in 1 .. Len(batch_data)
      /\ Head(batch_data) = x
  BY DEF IInv, TypeOK, LoadIsFresh, Pop
<1>2. InOrder(cursor, fed[cursor]) /\ InOrder(cursor, batch_data)
  BY <1>1 DEF IInv, FedInOrder, QueueContinues
<1>3. x \in ItemsOf(cursor)
  BY <1>1, <1>2, HeldIsWanted DEF IInv
<1>4. \A k \in 1 .. Len(fed[cursor]) : fed[cursor][k] # x
  <2> SUFFICES ASSUME NEW k \in 1 .. Len(fed[cursor]), fed[cursor][k] = x PROVE FALSE
    OBVIOUS
  <2>1. fed[cursor][k].index < x.index
    BY <1>1 DEF IInv, QueueContinues
  <2>2. x.index \in Nat
    <3>1. x \in Item
      BY <1>1
    <3> QED
      BY <3>1 DEF Item
  <2> QED
    BY <2>1, <2>2
<1>5. x \in Feed!Missing
  BY <1>1, <1>3, <1>4 DEF Feed!Missing
<1>6. ASSUME NEW y \in Feed!Missing PROVE x.index <= y.index
  <2>1. PICK l \in 1 .. Len(batch_data) : batch_data[l] = y
    BY <1>1, MissingIsQueued
  <2>2. x.index \in Nat /\ batch_data[l].index \in Nat
    <3>1. x \in Item /\ batch_data[l] \in Item
      BY <1>1
    <3> QED
      BY <3>1 DEF Item
  <2>3. CASE l = 1
    BY <2>1, <2>2, <2>3
  <2>4. CASE l # 1
    BY <1>1, <1>2, <2>1, <2>2, <2>4 DEF InOrder
  <2> QED
    BY <2>3, <2>4
<1>7. /\ fed' = [fed EXCEPT ![cursor] = Append(@, x)] /\ cursor' = cursor
      /\ UNCHANGED <<chain, preimages>>
  BY <1>1 DEF Pop
<1>8. \A b \in Blocks : ItemsOf(b)' = ItemsOf(b)
  BY <1>7, CarriesUnchanged DEF ItemsOf
<1> HIDE DEF x
<1>9. Feed!Give(x)
  BY <1>1, <1>5, <1>6, <1>7, <1>8 DEF Feed!Give
<1> QED
  BY <1>1, <1>3, <1>9

\* Eof is answered when nothing is missing.
LEMMA EofExhausts ==
  ASSUME IInv, PopEof
  PROVE  Feed!Exhaust
<1>1. /\ open /\ result # "eof" /\ result' = "eof" /\ batch_data = <<>>
      /\ UNCHANGED <<chain, preimages, cursor, fed>>
  BY DEF IInv, LoadIsFresh, PopEof
<1>2. Feed!Missing = {}
  BY <1>1, MissingIsQueued
<1>3. \A b \in Blocks : ItemsOf(b)' = ItemsOf(b)
  BY <1>1, CarriesUnchanged DEF ItemsOf
<1> QED
  BY <1>1, <1>2, <1>3 DEF Feed!Exhaust

LEMMA StepFeeds ==
  ASSUME IInv, [Next]_vars
  PROVE  [Feed!FeedNext]_Feed!feedVars
<1>1. UNCHANGED <<chain, preimages>>
  BY DEF Next, NextLoaded, FetchBlock, FetchFails, LoadTx, LoadDone, Pop, PopEof, Advance,
     Reset, vars
<1>2. \A b \in Blocks : ItemsOf(b)' = ItemsOf(b)
  BY <1>1, CarriesUnchanged DEF ItemsOf
<1>3. cursor \in Blocks
  BY DEF IInv, TypeOK
<1>4. ASSUME UNCHANGED <<cursor, fed>>, result = "eof" <=> result' = "eof"
      PROVE  UNCHANGED Feed!feedVars
  BY <1>2, <1>4 DEF Feed!feedVars
<1>5. CASE NextLoaded \/ FetchBlock \/ FetchFails \/ LoadTx \/ LoadDone \/ UNCHANGED vars
  BY <1>4, <1>5 DEF NextLoaded, FetchBlock, FetchFails, LoadTx, LoadDone, vars
<1>6. CASE Pop
  <2>1. Feed!Give(Head(batch_data)) /\ Head(batch_data) \in [b \in Blocks |-> ItemsOf(b)][cursor]
    BY <1>3, <1>6, PopGives
  <2> QED
    BY <2>1 DEF Feed!FeedNext
<1>7. CASE PopEof
  BY <1>7, EofExhausts DEF Feed!FeedNext
<1>8. CASE Advance
  <2>1. Feed!GoOn
    BY <1>2, <1>8 DEF Advance, Feed!GoOn
  <2> QED
    BY <2>1 DEF Feed!FeedNext
<1>9. ASSUME NEW b \in Blocks, Reset(b)
      PROVE  Feed!FeedNext
  <2>1. Feed!StartOver(b)
    BY <1>2, <1>9 DEF Reset, Feed!StartOver, Feed!FeedBlocks, Blocks
  <2> QED
    BY <2>1 DEF Feed!FeedNext, Feed!FeedBlocks, Blocks
<1> QED
  BY <1>5, <1>6, <1>7, <1>8, <1>9 DEF Next

LEMMA InitFeeds ==
  ASSUME Init
  PROVE  Feed!FeedInit
<1>1. IInv
  BY InitInv
<1>2. \A b \in Blocks : ItemsOf(b) \in SUBSET Item
  BY <1>1, ItemType DEF ItemsOf, IInv
<1>3. Feed!FeedBlocks = Blocks
  BY DEF Feed!FeedBlocks, Blocks
<1> QED
  BY <1>2, <1>3 DEF Init, Feed!FeedInit

\* For every chain, every set of preimages and every sequence of failures, retries,
\* clears and resets, what next() answers is what a feed of the blocks' own items
\* answers: the next item in order, or Eof when there is none.
THEOREM FeedRefinement == Spec => ImplementsFeed
<1>1. Init => Feed!FeedInit
  BY InitFeeds
<1>2. IInv /\ [Next]_vars => [Feed!FeedNext]_Feed!feedVars
  BY StepFeeds
<1> QED
  BY <1>1, <1>2, Inductive, PTL DEF Spec, ImplementsFeed, Feed!FeedSpec

=============================================================================
