---------------------------- MODULE Networks_proofs ----------------------------
(***************************************************************************)
(* Proofs about what goes over the networks. Frames signed at layer 2, for *)
(* any ring of keys: a change of keys loses no frame. Sampled values, for  *)
(* any samples in a second and in a frame: what is lost is told. One       *)
(* direction of a connection, for any number of writing tasks, any TSDUs   *)
(* and any sizes: what is received are the ends of TSDUs that were sent,   *)
(* in order; and a reader with a task of its own delivers what             *)
(* TsduDelivery promises.                                                  *)
(***************************************************************************)
EXTENDS TsduTransport, SignedFrames, SampledValues, SequenceTheorems,
        FiniteSetTheorems, WellFoundedInduction, TLAPS

-----------------------------------------------------------------------------
(* Signed frames.                                                          *)

USE SignedAssumption

(* A set of numbers that is not empty has a least one.                     *)
LEMMA LeastNumber ==
  ASSUME NEW S \in SUBSET Nat, S # {}
  PROVE  \E x \in S : \A y \in S : x <= y
<1> DEFINE LessThan == {pair \in Nat \X Nat : pair[1] < pair[2]}
<1>1. LessThan = OpToRel(<, Nat)
  BY Zenon DEF OpToRel
<1>2. IsWellFoundedOn(LessThan, Nat)
  BY <1>1, NatLessThanWellFounded, Zenon
<1>3. \E x \in S : \A y \in S : ~(<<y, x>> \in LessThan)
  <2> HIDE DEF LessThan
  <2> QED BY <1>2, WFMin
<1>4. PICK x \in S : \A y \in S : ~(<<y, x>> \in LessThan)
  BY <1>3
<1>5. ASSUME NEW y \in S PROVE x <= y
  <2>1. x \in Nat /\ y \in Nat /\ <<y, x>> \in Nat \X Nat
    OBVIOUS
  <2>2. ~(<<y, x>>[1] < <<y, x>>[2])
    BY <1>4, <2>1
  <2> QED BY <2>1, <2>2
<1> QED BY <1>5

(* Of finitely many things, one has the highest number: a set without one  *)
(* would have a smaller subset without one.                                *)
LEMMA Highest ==
  ASSUME NEW P, IsFiniteSet(P), P # {}, NEW rank \in [P -> Int]
  PROVE  \E x \in P : \A y \in P : rank[y] <= rank[x]
<1> DEFINE Ranked(S) == \E x \in S : \A y \in S : rank[y] <= rank[x]
           Sizes == {n \in Nat : \E S \in SUBSET P : S # {} /\ ~Ranked(S) /\ Cardinality(S) = n}
<1>1. ASSUME Sizes # {} PROVE FALSE
  <2>1. PICK n \in Sizes : \A k \in Sizes : n <= k
    BY <1>1, LeastNumber
  <2>2. PICK S \in SUBSET P : S # {} /\ ~Ranked(S) /\ Cardinality(S) = n
    BY <2>1
  <2>3. PICK x \in S : TRUE
    BY <2>2
  <2>4. IsFiniteSet(S)
    BY FS_Subset
  <2>5. Cardinality(S \ {x}) = n - 1 /\ Cardinality(S \ {x}) \in Nat
    <3>1. IsFiniteSet(S \ {x}) /\ Cardinality(S \ {x}) = Cardinality(S) - 1
      BY <2>3, <2>4, FS_RemoveElement
    <3>2. Cardinality(S \ {x}) \in Nat
      BY <3>1, FS_CardinalityType
    <3>3. Cardinality(S) = n
      BY <2>2
    <3>4. QED
      BY <3>1, <3>2, <3>3
  <2>6. Ranked(S \ {x}) \/ S \ {x} = {}
    <3>0. n \in Nat
      OBVIOUS
    <3>1. n - 1 \notin Sizes
      <4> HIDE DEF Sizes
      <4>1. QED
        BY <2>1, <3>0
    <3>2. S \ {x} \in SUBSET P
      OBVIOUS
    <3>3. QED
      BY <2>5, <3>1, <3>2
  <2>7. rank[x] \in Int
    BY <2>3
  <2>8. CASE S \ {x} = {}
    <3>1. \A y \in S : rank[y] <= rank[x]
      BY <2>7, <2>8
    <3>2. QED
      BY <2>2, <2>3, <3>1
  <2>9. CASE Ranked(S \ {x})
    <3>1. PICK z \in S \ {x} : \A y \in S \ {x} : rank[y] <= rank[z]
      BY <2>9
    <3>2. rank[z] \in Int /\ \A y \in S : rank[y] \in Int
      OBVIOUS
    <3>3. CASE rank[x] <= rank[z]
      <4>1. \A y \in S : rank[y] <= rank[z]
        BY <3>1, <3>3
      <4>2. QED
        BY <2>2, <4>1
    <3>4. CASE rank[z] <= rank[x]
      <4>1. \A y \in S : rank[y] <= rank[x]
        BY <2>7, <3>1, <3>2, <3>4
      <4>2. QED
        BY <2>2, <2>3, <4>1
    <3>5. QED
      BY <2>7, <3>2, <3>3, <3>4
  <2>10. QED
    BY <2>6, <2>8, <2>9
<1>2. Cardinality(P) \in Nat
  BY FS_CardinalityType
<1>3. Ranked(P)
  BY <1>1, <1>2
<1>4. QED
  BY <1>3

LEMMA MaxIsIn ==
  ASSUME NEW S \in SUBSET Int, IsFiniteSet(S), S # {}
  PROVE  Max(S) \in S
<1>1. [x \in S |-> x] \in [S -> Int]
  OBVIOUS
<1>2. \E x \in S : \A y \in S : [z \in S |-> z][y] <= [z \in S |-> z][x]
  BY <1>1, Highest
<1>3. \E x \in S : \A y \in S : x >= y
  BY <1>2
<1>4. QED
  BY <1>3 DEF Max

(* The key that a publisher signs with is valid, and none that is valid is  *)
(* newer; it has none only if none is valid.                               *)
LEMMA ActiveKeyIsNewest ==
  ASSUME NEW ring \in Seq(KeyEntry), NEW now \in Int
  PROVE  LET k == ActiveKey(ring, now) IN
         \/ ValidKeys(ring, now) = {} /\ k = NoKey
         \/ /\ k \in ValidKeys(ring, now) /\ k \in KeyEntry
            /\ \A n \in ValidKeys(ring, now) : n.id <= k.id
<1> SUFFICES ASSUME ValidKeys(ring, now) # {}
             PROVE  /\ ActiveKey(ring, now) \in ValidKeys(ring, now)
                    /\ ActiveKey(ring, now) \in KeyEntry
                    /\ \A n \in ValidKeys(ring, now) : n.id <= ActiveKey(ring, now).id
  BY DEF ActiveKey
<1> DEFINE valid == {i \in DOMAIN ring : ValidAt(ring[i], now)}
           newest == {i \in DOMAIN ring : /\ ValidAt(ring[i], now)
                                          /\ \A k \in ValidKeys(ring, now) : k.id <= ring[i].id}
<1>1. /\ DOMAIN ring = 1..Len(ring) /\ Len(ring) \in Nat
      /\ \A i \in DOMAIN ring : ring[i] \in KeyEntry
  OBVIOUS
<1>2. IsFiniteSet(DOMAIN ring)
  BY <1>1, FS_Interval
<1>3. IsFiniteSet(valid) /\ IsFiniteSet(newest)
  BY <1>2, FS_Subset
<1>4. valid # {}
  BY DEF ValidKeys, Range
<1>5. [i \in valid |-> ring[i].id] \in [valid -> Int]
  BY <1>1 DEF KeyEntry
<1>6. PICK i \in valid : \A j \in valid : ring[j].id <= ring[i].id
  <2> HIDE DEF valid
  <2>1. \E x \in valid : \A y \in valid :
          [i \in valid |-> ring[i].id][y] <= [i \in valid |-> ring[i].id][x]
    BY <1>3, <1>4, <1>5, Highest
  <2>2. QED
    BY <2>1
<1>7. i \in newest
  BY <1>6 DEF ValidKeys, Range
<1>8. newest \in SUBSET Int
  BY <1>1
<1>9. Max(newest) \in newest
  <2> HIDE DEF newest
  <2>1. QED
    BY <1>3, <1>7, <1>8, MaxIsIn
<1>10. ActiveKey(ring, now) = ring[Max(newest)]
  BY DEF ActiveKey, ActiveIndex
<1> DEFINE j == Max(newest)
<1> HIDE DEF newest
<1>11. j \in newest
  BY <1>9
<1> HIDE DEF j
<1> USE DEF newest
<1>12. QED
  BY <1>1, <1>10, <1>11 DEF j, ValidKeys, Range

-----------------------------------------------------------------------------
SignedFrame ==
  [apdu : Nat, header : {14, 18}, reserved2 : Nat, length : Nat, key : KeyEntry \cup {NoKey},
   begun : Nat, sent : Nat, size : Nat]
FrameInHand == [apdu : Nat, header : {14, 18}, reserved2 : Nat, length : Nat, begun : Nat]

(* A frame in hand has the header for the key that was the newest when it   *)
(* was begun.                                                              *)
BegunWell(b) ==
  /\ b \in FrameInHand /\ b.begun <= clock
  /\ b.reserved2 = TagLength(ActiveKey(signRing, b.begun))
  /\ b.length = 8 + b.apdu + b.reserved2

(* A frame on the wire has the tag of the key that was the newest when it   *)
(* was sent, and room for it if that is the key it was begun for.          *)
SentWell(f) ==
  /\ f \in SignedFrame /\ f.sent <= clock
  /\ f.key = ActiveKey(signRing, f.sent)
  /\ f.begun = f.sent =>
       f.reserved2 = TagLength(f.key) /\ f.length = 8 + f.apdu + f.reserved2
  /\ f.size = Padded(f.header + 8 + f.apdu + TagLength(f.key))

SignedIInv ==
  /\ clock \in 0..Horizon /\ lag \in Lags
  /\ signRing \in KeySets
  /\ building = NoFrame \/ BegunWell(building)
  /\ onWire \in Seq(SignedFrame) /\ \A i \in DOMAIN onWire : SentWell(onWire[i])
  /\ signed \in 0..MaxSigned
  /\ Len(onWire) + (IF building = NoFrame THEN 0 ELSE 1) <= signed
  /\ RotationLosesNothing

(* The newest key, or none.                                                *)
LEMMA ActiveKeyType ==
  ASSUME NEW ring \in KeySets, NEW now \in Int
  PROVE  ActiveKey(ring, now) \in KeyEntry \cup {NoKey} /\ TagLength(ActiveKey(ring, now)) \in Nat
<1>1. ring \in Seq(KeyEntry)
  OBVIOUS
<1>2. ActiveKey(ring, now) \in KeyEntry \cup {NoKey}
  BY <1>1, ActiveKeyIsNewest
<1>3. QED
  BY <1>2 DEF TagLength, KeyEntry, NoKey

(* A frame whose header fits its tag is parsed as it was built, whatever it *)
(* was padded with.                                                        *)
LEMMA ParsedAsBuilt ==
  ASSUME NEW f, SentWell(f), f.begun = f.sent
  PROVE  ~Malformed(f) /\ ApduOf(f) = f.apdu
<1> PICK n : n = TagLength(f.key)
  OBVIOUS
<1>1. f \in SignedFrame
  BY DEF SentWell
<1>2. n \in Nat
  BY <1>1 DEF SignedFrame, TagLength, KeyEntry, NoKey
<1>3. f.apdu \in Nat /\ f.header \in Nat /\ f.size \in Nat
  BY <1>1 DEF SignedFrame
<1>4. f.reserved2 = n /\ f.length = 8 + f.apdu + n /\ f.size = Padded(f.header + 8 + f.apdu + n)
  BY DEF SentWell
<1>5. f.size >= f.header + 8 + f.apdu + n
  BY <1>2, <1>3, <1>4 DEF Padded, MinEthFrame
<1>6. QED
  BY <1>2, <1>3, <1>4, <1>5 DEF Malformed, ApduOf

(* The frame's key has not run out when it arrives: if it had, its          *)
(* successor would have been valid when it was signed, and newer.          *)
LEMMA KeyStillValid ==
  ASSUME NEW ring \in KeySets, ring = signRing, NEW f, NEW o,
         f.sent \in Nat, f.key = ActiveKey(ring, f.sent), f.key # NoKey,
         o.sent = f.sent, o.at \in Int, o.sent <= o.at, HandedOver(o)
  PROVE  /\ f.key \in KeyEntry /\ f.key \in Range(ring)
         /\ ValidAt(f.key, o.at)
<1>1. /\ f.key \in KeyEntry /\ f.key \in ValidKeys(ring, f.sent)
      /\ \A n \in ValidKeys(ring, f.sent) : n.id <= f.key.id
  <2>1. ring \in Seq(KeyEntry) /\ f.sent \in Int
    OBVIOUS
  <2>2. QED
    BY <2>1, ActiveKeyIsNewest
<1>2. f.key \in Range(ring) /\ f.key.from <= f.sent /\ f.sent < f.key.to
  BY <1>1 DEF ValidKeys, ValidAt
<1>3. \A n \in Range(ring) : n \in KeyEntry
  BY DEF Range
<1>4. o.at < f.key.to
  <2>1. SUFFICES ASSUME f.key.to <= o.at PROVE FALSE
    BY <1>1 DEF KeyEntry
  <2>2. PICK n \in Range(ring) : /\ n.id > f.key.id /\ n.to > o.at
                                /\ n.from + (o.at - o.sent) <= f.key.to
    BY <1>2, <2>1 DEF HandedOver
  <2>3. n \in KeyEntry
    BY <1>3
  <2>4. ValidAt(n, f.sent)
    BY <1>1, <2>1, <2>2, <2>3 DEF ValidAt, KeyEntry
  <2>5. n.id <= f.key.id
    BY <1>1, <2>4 DEF ValidKeys
  <2>6. QED
    BY <1>1, <2>2, <2>3, <2>5 DEF KeyEntry
<1>5. QED
  BY <1>1, <1>2, <1>4 DEF ValidAt, KeyEntry

(* What was purged had run out.                                            *)
LEMMA PurgedIsOver ==
  ASSUME NEW ring \in KeySets, NEW k \in Range(ring), NEW then \in Int, NEW now \in Int,
         then <= now, ValidAt(k, now)
  PROVE  k \in Range(Unexpired(ring, then))
<1>1. k \in KeyEntry
  BY DEF Range
<1>2. PICK i \in DOMAIN ring : ring[i] = k
  BY DEF Range
<1>3. k.to > then
  BY <1>1 DEF ValidAt, KeyEntry
<1>4. i \in DOMAIN Unexpired(ring, then) /\ Unexpired(ring, then)[i] = k
  BY <1>2, <1>3 DEF Unexpired, RestrictValues, Restrict
<1>5. QED
  BY <1>4 DEF Range

(* What becomes of a frame at a subscriber whose keys are those of the      *)
(* publisher.                                                              *)
LEMMA OutcomeIsGood ==
  ASSUME SignedIInv, NEW f, SentWell(f), NEW o,
         o = Outcome(f, IF Malformed(f) THEN "Dropped"
                        ELSE IF plainSub THEN "Taken" ELSE StatusOf(f, clock + lag)),
         o.begun = o.sent
  PROVE  /\ o.parsed = o.apdu
         /\ /\ o.status # "Taken" /\ o.key # NoKey
            /\ verifyRing \in {signRing, Unexpired(signRing, lag)}
            /\ o.sent <= o.at /\ HandedOver(o)
            => o.status = "Valid"
<1>1. /\ o.begun = f.begun /\ o.sent = f.sent /\ o.key = f.key /\ o.at = clock + lag
      /\ o.apdu = f.apdu
  BY DEF Outcome
<1>2. ~Malformed(f) /\ ApduOf(f) = f.apdu
  BY <1>1, ParsedAsBuilt
<1>3. o.parsed = o.apdu /\ o.status = IF plainSub THEN "Taken" ELSE StatusOf(f, clock + lag)
  BY <1>2 DEF Outcome
<1>4. ASSUME o.status # "Taken", o.key # NoKey,
             verifyRing \in {signRing, Unexpired(signRing, lag)},
             o.sent <= o.at, HandedOver(o)
      PROVE  o.status = "Valid"
  <2>1. /\ signRing \in KeySets /\ f.sent \in Nat /\ f.key = ActiveKey(signRing, f.sent)
        /\ clock \in Nat /\ lag \in Int /\ o.at \in Int
    BY <1>1 DEF SignedIInv, SentWell, SignedFrame
  <2>2. f.key \in KeyEntry /\ f.key \in Range(signRing) /\ ValidAt(f.key, o.at)
    BY <1>1, <1>4, <2>1, KeyStillValid
  <2>3. lag <= o.at
    BY <1>1, <2>1
  <2>4. f.key \in Range(verifyRing)
    BY <1>4, <2>1, <2>2, <2>3, PurgedIsOver
  <2>5. f.key \in ValidKeys(verifyRing, clock + lag)
    BY <1>1, <2>2, <2>4 DEF ValidKeys
  <2>6. f.reserved2 = TagLength(f.key) /\ TagLength(f.key) # 0
    BY <1>1, <2>2 DEF SentWell, TagLength, KeyEntry
  <2>7. StatusOf(f, clock + lag) = "Valid"
    BY <2>5, <2>6 DEF StatusOf, Verifies, VerifiesWith
  <2>8. QED
    BY <1>3, <1>4, <2>7
<1>5. QED
  BY <1>3, <1>4

-----------------------------------------------------------------------------
LEMMA SignedInitially == SignedInit => SignedIInv
BY DEF SignedInit, SignedIInv, RotationLosesNothing

(* Time goes on: what was in order stays so.                               *)
LEMMA TickKeeps ==
  ASSUME SignedIInv, SignedTick
  PROVE  SignedIInv'
<1>1. clock' \in 0..Horizon /\ clock <= clock' /\ clock \in Nat /\ clock' \in Nat
  BY DEF SignedIInv, SignedTick
<1>2. building' = NoFrame \/ BegunWell(building)'
  BY <1>1 DEF SignedIInv, SignedTick, BegunWell, FrameInHand
<1>3. ASSUME NEW i \in DOMAIN onWire PROVE SentWell(onWire[i])'
  BY <1>1 DEF SignedIInv, SignedTick, SentWell, SignedFrame
<1>4. RotationLosesNothing'
  BY DEF SignedIInv, SignedTick, RotationLosesNothing, HandedOver
<1>5. QED
  BY <1>1, <1>2, <1>3, <1>4 DEF SignedIInv, SignedTick

LEMMA WriteHeaderKeeps ==
  ASSUME SignedIInv, NEW apdu \in Apdus, NEW vlan \in BOOLEAN, WriteHeader(apdu, vlan)
  PROVE  SignedIInv'
<1> PICK k : k = ActiveKey(signRing, clock)
  OBVIOUS
<1>1. clock \in Nat /\ TagLength(k) \in Nat /\ apdu \in Nat
  BY ActiveKeyType DEF SignedIInv
<1>2. building' = [apdu |-> apdu, header |-> HeaderOf(vlan), reserved2 |-> TagLength(k),
                   length |-> 8 + apdu + TagLength(k), begun |-> clock]
  BY DEF WriteHeader
<1>3. building' \in FrameInHand
  BY <1>1, <1>2 DEF FrameInHand, HeaderOf
<1>4. BegunWell(building)'
  BY <1>1, <1>2, <1>3 DEF BegunWell, WriteHeader
<1>5. \A i \in DOMAIN onWire : SentWell(onWire[i])'
  BY DEF SignedIInv, WriteHeader, SentWell
<1>6. RotationLosesNothing'
  BY DEF SignedIInv, WriteHeader, RotationLosesNothing, HandedOver
<1>7. signed' \in 0..MaxSigned /\ Len(onWire) + 1 <= signed' /\ Len(onWire) \in Nat
  BY DEF SignedIInv, WriteHeader
<1>8. QED
  BY <1>4, <1>5, <1>6, <1>7 DEF SignedIInv, WriteHeader

LEMMA SignFrameKeeps ==
  ASSUME SignedIInv, SignFrame
  PROVE  SignedIInv'
<1> PICK k : k = ActiveKey(signRing, clock)
  OBVIOUS
<1> DEFINE f == [apdu |-> building.apdu, header |-> building.header,
                 reserved2 |-> building.reserved2, length |-> building.length,
                 key |-> k, begun |-> building.begun, sent |-> clock,
                 size |-> Padded(building.header + 8 + building.apdu + TagLength(k))]
<1>1. /\ clock \in Nat /\ k \in KeyEntry \cup {NoKey} /\ TagLength(k) \in Nat
      /\ building \in FrameInHand /\ BegunWell(building)
  BY ActiveKeyType DEF SignedIInv, SignFrame, BegunWell
<1>2. f \in SignedFrame
  BY <1>1 DEF FrameInHand, SignedFrame, Padded, MinEthFrame
<1>3. SentWell(f)
  BY <1>1, <1>2 DEF SentWell, BegunWell
<1>4. onWire' = Append(onWire, f)
  BY DEF SignFrame
<1> HIDE DEF f
<1>5. /\ onWire' \in Seq(SignedFrame) /\ Len(onWire') = Len(onWire) + 1 /\ Len(onWire) \in Nat
      /\ \A i \in DOMAIN onWire' : SentWell(onWire'[i])
  BY <1>2, <1>3, <1>4 DEF SignedIInv
<1>6. \A i \in DOMAIN onWire' : SentWell(onWire[i])'
  BY <1>5 DEF SentWell, SignFrame
<1>7. RotationLosesNothing'
  BY DEF SignedIInv, SignFrame, RotationLosesNothing, HandedOver
<1>8. QED
  BY <1>5, <1>6, <1>7 DEF SignedIInv, SignFrame

LEMMA ReceiveKeeps ==
  ASSUME SignedIInv, ReceiveSigned \/ ReceivePlain
  PROVE  SignedIInv'
<1> PICK f : f = Head(onWire)
  OBVIOUS
<1> PICK o : o = Outcome(f, IF Malformed(f) THEN "Dropped"
                            ELSE IF plainSub THEN "Taken" ELSE StatusOf(f, clock + lag))
  OBVIOUS
<1>1. /\ onWire # <<>> /\ onWire' = Tail(onWire) /\ outcomes' = outcomes \cup {o}
      /\ UNCHANGED <<clock, lag, signRing, verifyRing, plainSub, building, signed>>
  BY DEF ReceiveSigned, ReceivePlain
<1>2. SentWell(f)
  BY <1>1 DEF SignedIInv
<1>3. /\ onWire' \in Seq(SignedFrame) /\ Len(onWire') <= Len(onWire)
      /\ Len(onWire) \in Nat /\ Len(onWire') \in Nat
      /\ \A i \in DOMAIN onWire' : i + 1 \in DOMAIN onWire /\ onWire'[i] = onWire[i + 1]
  BY <1>1 DEF SignedIInv
<1>4. \A i \in DOMAIN onWire' : SentWell(onWire[i])'
  BY <1>1, <1>3 DEF SignedIInv, SentWell
<1>5. RotationLosesNothing'
  <2>1. ASSUME NEW q \in outcomes', q.begun = q.sent
        PROVE  /\ q.parsed = q.apdu
               /\ /\ q.status # "Taken" /\ q.key # NoKey
                  /\ verifyRing \in {signRing, Unexpired(signRing, lag)}
                  /\ q.sent <= q.at /\ HandedOver(q)
                  => q.status = "Valid"
    <3>1. CASE q = o
      BY <1>2, <2>1, <3>1, OutcomeIsGood
    <3>2. CASE q \in outcomes
      BY <2>1, <3>2 DEF SignedIInv, RotationLosesNothing
    <3>3. QED
      BY <1>1, <3>1, <3>2
  <2>2. QED
    BY <1>1, <2>1 DEF RotationLosesNothing, HandedOver
<1>6. QED
  BY <1>1, <1>3, <1>4, <1>5 DEF SignedIInv, BegunWell

LEMMA SignedStep == SignedIInv /\ [SignedNext]_signedVars => SignedIInv'
<1> SUFFICES ASSUME SignedIInv, [SignedNext]_signedVars PROVE SignedIInv'
  OBVIOUS
<1>1. CASE UNCHANGED signedVars
  BY <1>1 DEF signedVars, SignedIInv, BegunWell, SentWell, RotationLosesNothing, HandedOver
<1>2. QED
  BY <1>1, TickKeeps, WriteHeaderKeeps, SignFrameKeeps, ReceiveKeeps DEF SignedNext

(* The invariant holds of every behaviour.                                 *)
THEOREM SignedInvariance == SignedSpec => []SignedIInv
BY SignedInitially, SignedStep, PTL DEF SignedSpec

(* The clock, the frames and their sizes keep their types. (finish_l2_frame)*)
THEOREM SignedTypeCorrect == SignedSpec => []SignedTypeOK
<1>1. SignedIInv => SignedTypeOK
  <2> SUFFICES ASSUME SignedIInv PROVE SignedTypeOK
    OBVIOUS
  <2>1. Len(onWire) <= signed
    BY DEF SignedIInv
  <2>2. ASSUME NEW f \in Range(onWire) PROVE f.size >= MinEthFrame
    <3>1. SentWell(f)
      BY DEF Range, SignedIInv
    <3>2. f \in SignedFrame /\ TagLength(f.key) \in Nat
      BY <3>1 DEF SentWell, SignedFrame, TagLength, KeyEntry, NoKey
    <3>3. f.header + 8 + f.apdu + TagLength(f.key) \in Nat
      BY <3>2 DEF SignedFrame
    <3>4. QED
      BY <3>1, <3>3 DEF SentWell, Padded, MinEthFrame
  <2>3. QED
    BY <2>1, <2>2 DEF SignedIInv, SignedTypeOK
<1>2. QED
  BY <1>1, SignedInvariance, PTL

(* While keys are changed no frame is lost that was built within one        *)
(* reading of the clock, to a subscriber with the same keys and a clock     *)
(* that is not behind; and whoever takes a frame finds the APDU that was    *)
(* put in. (KeyRing::active, KeyRing::valid, purge_expired,                 *)
(* parse_eth_appid_auth)                                                   *)
THEOREM NothingLostInRotation == SignedSpec => []RotationLosesNothing
<1>1. SignedIInv => RotationLosesNothing
  BY DEF SignedIInv
<1>2. QED
  BY <1>1, SignedInvariance, PTL

-----------------------------------------------------------------------------
(* Sampled values.                                                         *)

HIDE SignedAssumption

(* Division with remainder.                                                *)
LEMMA Division ==
  ASSUME NEW x \in Int, NEW w \in Nat \ {0}
  PROVE  x % w \in 0..w - 1 /\ x \div w \in Int /\ x = (w * (x \div w)) + (x % w)
OBVIOUS

LEMMA RemainderIsUnique ==
  ASSUME NEW q \in Int, NEW w \in Nat \ {0}, NEW r \in 0..w - 1
  PROVE  ((w * q) + r) % w = r
OBVIOUS

LEMMA RemainderOfSum ==
  ASSUME NEW x \in Int, NEW n \in Int, NEW w \in Nat \ {0}
  PROVE  ((x % w) + n) % w = (x + n) % w
<1>1. PICK r \in 0..w - 1, q \in Int : r = x % w /\ x = (w * q) + r
  BY Division
<1>2. r + n \in Int
  OBVIOUS
<1>3. PICK s \in 0..w - 1, t \in Int : s = (r + n) % w /\ r + n = (w * t) + s
  BY <1>2, Division
<1>4. PICK u \in Int : u = q + t
  OBVIOUS
<1>5. PICK a \in Int, b \in Int : a = w * q /\ b = w * t
  OBVIOUS
<1>6. w * u = a + b
  BY <1>4, <1>5
<1>7. x + n = (w * u) + s
  <2>1. x = a + r /\ r + n = b + s
    BY <1>1, <1>3, <1>5
  <2> QED BY <1>6, <2>1
<1>8. ((w * u) + s) % w = s
  BY RemainderIsUnique
<1> QED BY <1>1, <1>3, <1>7, <1>8

(* Two numbers less than one round apart differ by whole rounds from the   *)
(* distance of what they number.                                           *)
LEMMA WholeRounds ==
  ASSUME NEW w \in Nat \ {0}, NEW x \in Int, NEW y \in Int, x > y
  PROVE  /\ x % w \in 0..w - 1 /\ y % w \in 0..w - 1
         /\ ((x - y) - ((x % w) - (y % w))) % w = 0
         /\ (x % w) - (y % w) <= x - y
<1>1. PICK r \in 0..w - 1, q \in Int : r = x % w /\ x = (w * q) + r
  BY Division
<1>2. PICK s \in 0..w - 1, t \in Int : s = y % w /\ y = (w * t) + s
  BY Division
<1>3. PICK u \in Int : u = q - t
  OBVIOUS
<1>4. PICK a \in Int, b \in Int : a = w * q /\ b = w * t
  OBVIOUS
<1>5. PICK c \in Int : c = w * u
  OBVIOUS
<1>9. c = a - b
  BY <1>3, <1>4, <1>5
<1>6. (x - y) - (r - s) = c
  <2>1. x = a + r /\ y = b + s
    BY <1>1, <1>2, <1>4
  <2> QED BY <1>9, <2>1
<1>7. c % w = 0
  <2>1. ((w * u) + 0) % w = 0
    BY RemainderIsUnique
  <2> QED BY <1>5, <2>1
<1>8. c >= 0
  <2>1. c > 0 - w
    BY <1>6
  <2>2. ASSUME u <= -1 PROVE c <= 0 - w
    <3>1. PICK v \in Nat : v = -1 - u
      BY <2>2
    <3>2. w * v \in Nat
      BY <3>1
    <3>3. w * u = (0 - w) - (w * v)
      BY <3>1
    <3> QED BY <1>5, <3>2, <3>3
  <2>3. u >= 0
    BY <2>1, <2>2
  <2>4. w * u \in Nat
    BY <2>3
  <2> QED BY <1>5, <2>4
<1>10. r = x % w /\ s = y % w
  BY <1>1, <1>2
<1>11. r - s <= x - y
  BY <1>6, <1>8
<1> QED BY <1>6, <1>7, <1>10, <1>11

SvSample == [src : SvPublishers, run : Nat, nth : Nat, count : 0..SvWrap - 1]
SvTracked == [src : SvPublishers, run : Nat, nth : Nat, count : 0..SvWrap - 1, kind : {"Sample"}]
SvFrames == {frame \in Seq(SvSample) : Len(frame) <= Packed}
SvEventRecord ==
  [src : SvPublishers, run : Nat, nth : Nat, count : 0..SvWrap - 1,
   kind : {"Sample", "Wrap", "SampleLoss", "AuthFailed"}, lost : Int,
   before : SvTracked \cup {NothingBefore}]

SvTyped ==
  /\ svPub \in [SvPublishers -> [count : 0..SvWrap - 1, run : Nat, nth : Nat]]
  /\ svWire \in Seq(SvFrames)
  /\ svHand \in [sim : BOOLEAN, asdus : SvFrames]
  /\ \/ svBefore = NothingBefore /\ svLast = NoSample
     \/ svBefore \in SvTracked /\ svLast = svBefore.count
  /\ svMode \in BOOLEAN /\ svLatched \in BOOLEAN
  /\ svEvents \in Seq(SvEventRecord) /\ Len(svEvents) <= SvEventCapacity + 1

(* Of every run of a publisher there is a place in its samples from which  *)
(* its smpCnt is counted, whatever becomes of the frames.                  *)
Runs == SvPublishers \X Nat
Counted(origin, s) ==
  s.run <= svPub[s.src].run /\ s.count = (s.nth - origin[<<s.src, s.run>>]) % SvWrap
Coming(p) == [src |-> p, run |-> svPub[p].run, nth |-> svPub[p].nth, count |-> svPub[p].count]
CountedFrom(origin) ==
  /\ \A p \in SvPublishers : Counted(origin, Coming(p))
  /\ \A k \in DOMAIN svWire : \A i \in DOMAIN svWire[k] : Counted(origin, svWire[k][i])
  /\ \A i \in DOMAIN svHand.asdus : Counted(origin, svHand.asdus[i])
  /\ svBefore # NothingBefore => Counted(origin, svBefore)

(* An event tells of the samples before its own.                           *)
TellsLoss(e) ==
  e.kind # "AuthFailed" /\ e.src = e.before.src /\ e.run = e.before.run /\ e.nth > e.before.nth =>
    LET missing == e.nth - e.before.nth - 1
    IN  /\ SameSecond(e) => e.kind # "Wrap" /\ e.lost = missing
        /\ e.kind = "Wrap" => e.count = 0
        /\ e.kind = "SampleLoss" => missing > 0 /\ e.lost <= missing
                                    /\ (missing - e.lost) % SvWrap = 0

SvIInv ==
  /\ SvTyped
  /\ \E origin \in [Runs -> Int] : CountedFrom(origin)
  /\ \A k \in DOMAIN svEvents : TellsLoss(svEvents[k])

(* The event on a sample that is delivered.                                *)
LEMMA DeliveredTells ==
  ASSUME NEW a \in SvSample, NEW origin \in [Runs -> Int], SvTyped, CountedFrom(origin),
         Counted(origin, a)
  PROVE  TellsLoss(SvEvent(a, SvKind(svLast, a.count)))
<1> DEFINE kind == SvKind(svLast, a.count)
<1>1. PICK e : e = SvEvent(a, SvKind(svLast, a.count))
  OBVIOUS
<1>2. /\ e.src = a.src /\ e.run = a.run /\ e.nth = a.nth /\ e.count = a.count
      /\ e.before = svBefore /\ e.kind = kind
      /\ e.lost = IF kind = "SampleLoss" THEN a.count - (svLast + 1) ELSE 0
  BY <1>1 DEF SvEvent
<1>3. CASE svBefore = NothingBefore
  <2>1. e.before.src = "nobody" /\ e.src \in SvPublishers
    BY <1>2, <1>3, SvAssumption DEF NothingBefore, SvSample
  <2>3. e.src # e.before.src
    BY <2>1, SvAssumption
  <2>2. TellsLoss(e)
    BY <2>3 DEF TellsLoss
  <2> QED BY <1>1, <2>2
<1>4. CASE svBefore # NothingBefore
  <2>1. PICK b \in SvTracked : b = svBefore /\ svLast = b.count /\ Counted(origin, b)
    <3>1. svBefore \in SvTracked /\ svLast = svBefore.count
      BY <1>4 DEF SvTyped
    <3>2. Counted(origin, svBefore)
      BY <1>4 DEF CountedFrom
    <3> QED BY <3>1, <3>2
  <2>2. SUFFICES ASSUME a.src = b.src, a.run = b.run, a.nth > b.nth
                 PROVE  /\ SameSecond(e) => kind # "Wrap" /\ e.lost = a.nth - b.nth - 1
                        /\ kind = "Wrap" => a.count = 0
                        /\ kind = "SampleLoss" =>
                             /\ a.nth - b.nth - 1 > 0 /\ e.lost <= a.nth - b.nth - 1
                             /\ ((a.nth - b.nth - 1) - e.lost) % SvWrap = 0
    BY <1>1, <1>2, <2>1 DEF TellsLoss
  <2>3. PICK c \in 0..SvWrap - 1, n \in Nat : c = a.count /\ n = a.nth
    BY DEF SvSample
  <2>4. PICK prev \in 0..SvWrap - 1, m \in Nat : prev = b.count /\ m = b.nth
    BY DEF SvTracked
  <2>5. PICK o \in Int : o = origin[<<a.src, a.run>>]
    <3>1. <<a.src, a.run>> \in Runs
      BY DEF Runs, SvSample
    <3> QED BY <3>1
  <2>6. c = (n - o) % SvWrap /\ prev = (m - o) % SvWrap
    BY <2>1, <2>2, <2>3, <2>4, <2>5 DEF Counted
  <2>7. n > m /\ SvWrap \in Nat \ {0}
    <3>1. n > m
      BY <2>2, <2>3, <2>4
    <3> QED BY <3>1, SvAssumption
  <2>15. PICK x \in Int, y \in Int : x = n - o /\ y = m - o
    OBVIOUS
  <2>16. x > y
    BY <2>7, <2>15
  <2>8. ((x - y) - (c - prev)) % SvWrap = 0 /\ c - prev <= x - y
    <3>1. c = x % SvWrap /\ prev = y % SvWrap
      BY <2>6, <2>15
    <3> QED BY <2>7, <2>16, <3>1, WholeRounds
  <2>9. x - y = n - m
    BY <2>15
  <2>10. ((n - m) - (c - prev)) % SvWrap = 0 /\ c - prev <= n - m
    BY <2>8, <2>9
  <2>11. kind = SvKind(prev, c) /\ prev # NoSample
    BY <2>1, <2>3, <2>4 DEF NoSample
  <2>12. ASSUME SameSecond(e) PROVE kind # "Wrap" /\ e.lost = n - m - 1
    <3>1. n - c = m - prev
      BY <1>2, <2>1, <2>3, <2>4, <2>12 DEF SameSecond
    <3>2. c = prev + (n - m) /\ c > prev /\ c # 0
      BY <2>7, <3>1
    <3>3. CASE c = prev + 1
      BY <1>2, <2>11, <3>2, <3>3 DEF SvKind
    <3>4. CASE c # prev + 1
      <4>1. c > prev + 1
        BY <3>2, <3>4
      <4>2. kind = "SampleLoss"
        BY <2>11, <3>2, <3>4, <4>1 DEF SvKind
      <4>3. e.lost = c - (prev + 1)
        BY <1>2, <2>1, <2>3, <2>4, <4>2
      <4> QED BY <3>2, <4>2, <4>3
    <3> QED BY <3>3, <3>4
  <2>13. kind = "Wrap" => c = 0
    BY <2>11 DEF SvKind
  <2>14. ASSUME kind = "SampleLoss"
         PROVE  /\ n - m - 1 > 0 /\ e.lost <= n - m - 1
                /\ ((n - m - 1) - e.lost) % SvWrap = 0
    <3>1. c > prev + 1
      BY <2>11, <2>14 DEF SvKind
    <3>2. e.lost = c - (prev + 1)
      BY <1>2, <2>1, <2>3, <2>4, <2>14
    <3>3. (n - m - 1) - (c - (prev + 1)) = (n - m) - (c - prev)
      OBVIOUS
    <3> QED BY <2>10, <3>1, <3>2, <3>3
  <2> QED BY <2>3, <2>4, <2>12, <2>13, <2>14
<1> QED BY <1>3, <1>4

LEMMA EventIsTyped ==
  ASSUME NEW a \in SvSample, SvTyped, NEW kind \in {"Sample", "Wrap", "SampleLoss", "AuthFailed"}
  PROVE  SvEvent(a, kind) \in SvEventRecord
<1>1. svLast \in Int /\ svBefore \in SvTracked \cup {NothingBefore}
  BY DEF SvTyped, SvTracked, NoSample
<1>2. a.src \in SvPublishers /\ a.run \in Nat /\ a.nth \in Nat /\ a.count \in 0..SvWrap - 1
  BY DEF SvSample
<1>3. PICK lost \in Int : lost = IF kind = "SampleLoss" THEN a.count - (svLast + 1) ELSE 0
  BY <1>1, <1>2
<1> QED BY <1>1, <1>2, <1>3 DEF SvEvent, SvEventRecord

LEMMA KindIsTyped ==
  ASSUME NEW prev, NEW c PROVE SvKind(prev, c) \in {"Sample", "Wrap", "SampleLoss"}
BY DEF SvKind

(* One event more, or the first of them taken.                             *)
LEMMA EventSent ==
  ASSUME SvTyped, ~SvBlocked, \A k \in DOMAIN svEvents : TellsLoss(svEvents[k]),
         NEW e \in SvEventRecord, TellsLoss(e), svEvents' = Append(svEvents, e)
  PROVE  /\ svEvents' \in Seq(SvEventRecord) /\ Len(svEvents') <= SvEventCapacity + 1
         /\ \A k \in DOMAIN svEvents' : TellsLoss(svEvents'[k])
<1>1. svEvents \in Seq(SvEventRecord) /\ Len(svEvents) <= SvEventCapacity
  BY SvAssumption DEF SvTyped, SvBlocked
<1>2. /\ svEvents' \in Seq(SvEventRecord) /\ Len(svEvents') = Len(svEvents) + 1
      /\ \A k \in 1..Len(svEvents) : svEvents'[k] = svEvents[k]
      /\ svEvents'[Len(svEvents) + 1] = e
  BY <1>1, AppendProperties
<1>3. ASSUME NEW k \in DOMAIN svEvents' PROVE TellsLoss(svEvents'[k])
  <2>1. k \in 1..Len(svEvents) + 1 /\ Len(svEvents) \in Nat
    BY <1>1, <1>2
  <2>2. CASE k <= Len(svEvents)
    <3>1. k \in DOMAIN svEvents /\ svEvents'[k] = svEvents[k]
      BY <1>1, <1>2, <2>1, <2>2
    <3> QED BY <3>1
  <2>3. CASE ~(k <= Len(svEvents))
    <3>1. k = Len(svEvents) + 1
      BY <2>1, <2>3
    <3> QED BY <1>2, <3>1
  <2> QED BY <2>2, <2>3
<1>4. Len(svEvents') <= SvEventCapacity + 1
  <2>1. Len(svEvents) \in Nat
    BY <1>1
  <2> QED BY <1>1, <1>2, <2>1, SvAssumption
<1> QED BY <1>2, <1>3, <1>4

LEMMA EventTaken ==
  ASSUME SvTyped, \A k \in DOMAIN svEvents : TellsLoss(svEvents[k]),
         svEvents # <<>>, svEvents' = Tail(svEvents)
  PROVE  /\ svEvents' \in Seq(SvEventRecord) /\ Len(svEvents') <= SvEventCapacity + 1
         /\ \A k \in DOMAIN svEvents' : TellsLoss(svEvents'[k])
<1>1. svEvents \in Seq(SvEventRecord) /\ Len(svEvents) <= SvEventCapacity + 1
  BY SvAssumption DEF SvTyped
<1>2. /\ svEvents' \in Seq(SvEventRecord) /\ Len(svEvents') = Len(svEvents) - 1
      /\ \A k \in DOMAIN svEvents' : k + 1 \in DOMAIN svEvents /\ svEvents'[k] = svEvents[k + 1]
  BY <1>1
<1>3. Len(svEvents') <= SvEventCapacity + 1
  <2>1. Len(svEvents) \in Nat
    BY <1>1
  <2> QED BY <1>1, <1>2, <2>1, SvAssumption
<1>4. ASSUME NEW k \in DOMAIN svEvents' PROVE TellsLoss(svEvents'[k])
  <2>1. k + 1 \in DOMAIN svEvents /\ svEvents'[k] = svEvents[k + 1]
    BY <1>2
  <2> QED BY <2>1
<1> QED BY <1>2, <1>3, <1>4

(* The number n samples on is what the publisher's loop counts up to, one  *)
(* sample at a time.                                                       *)
LEMMA CountedOneByOne ==
  ASSUME NEW c \in 0..SvWrap - 1, NEW n \in Nat
  PROVE  /\ CountAfter(0, c) = c
         /\ CountAfter(1, c) = IF c + 1 >= SvWrap THEN 0 ELSE c + 1
         /\ CountAfter(n + 1, c) = CountAfter(1, CountAfter(n, c))
<1>1. SvWrap \in Nat \ {0} /\ c \in Nat
  BY SvAssumption
<1>2. \A r \in 0..SvWrap - 1 : r % SvWrap = r
  <2>1. ASSUME NEW r \in 0..SvWrap - 1 PROVE r % SvWrap = r
    <3>1. ((SvWrap * 0) + r) % SvWrap = r
      BY <1>1, RemainderIsUnique
    <3>2. (SvWrap * 0) + r = r
      BY <1>1
    <3> QED BY <3>1, <3>2
  <2> QED BY <2>1
<1>3. CountAfter(0, c) = c
  <2>1. c + 0 = c
    BY <1>1
  <2> QED BY <1>2, <2>1 DEF CountAfter
<1>4. CountAfter(1, c) = IF c + 1 >= SvWrap THEN 0 ELSE c + 1
  <2>1. CASE c + 1 >= SvWrap
    <3>1. 0 \in 0..SvWrap - 1 /\ c + 1 = (SvWrap * 1) + 0
      BY <1>1, <2>1
    <3>2. ((SvWrap * 1) + 0) % SvWrap = 0
      BY <1>1, <3>1, RemainderIsUnique
    <3> QED BY <2>1, <3>1, <3>2 DEF CountAfter
  <2>2. CASE ~(c + 1 >= SvWrap)
    <3>1. c + 1 \in 0..SvWrap - 1
      BY <1>1, <2>2
    <3> QED BY <1>2, <2>2, <3>1 DEF CountAfter
  <2> QED BY <2>1, <2>2
<1>5. (((c + n) % SvWrap) + 1) % SvWrap = ((c + n) + 1) % SvWrap
  <2>1. c + n \in Int /\ 1 \in Int
    BY <1>1
  <2> QED BY <1>1, <2>1, RemainderOfSum
<1>6. c + (n + 1) = (c + n) + 1
  BY <1>1
<1> QED BY <1>3, <1>4, <1>5, <1>6 DEF CountAfter

(* Samples on their way and in hand are those there were.                  *)
LEMMA SamplesStay ==
  ASSUME NEW origin \in [Runs -> Int], CountedFrom(origin), UNCHANGED svPub,
         \A k \in DOMAIN svWire' : \E j \in DOMAIN svWire : svWire'[k] = svWire[j],
         \A i \in DOMAIN svHand'.asdus :
           \/ \E j \in DOMAIN svHand.asdus : svHand'.asdus[i] = svHand.asdus[j]
           \/ \E j \in DOMAIN svWire : i \in DOMAIN svWire[j] /\ svHand'.asdus[i] = svWire[j][i],
         svBefore' # svBefore => Counted(origin, svBefore')
  PROVE  CountedFrom(origin)'
<1>1. ASSUME NEW p \in SvPublishers PROVE Counted(origin, Coming(p))'
  <2>1. Counted(origin, Coming(p))
    BY DEF CountedFrom
  <2> QED BY <2>1 DEF Counted, Coming
<1>2. ASSUME NEW k \in DOMAIN svWire', NEW i \in DOMAIN svWire'[k]
      PROVE  Counted(origin, svWire[k][i])'
  <2>1. PICK j \in DOMAIN svWire : svWire'[k] = svWire[j]
    OBVIOUS
  <2>2. Counted(origin, svWire[j][i])
    BY <1>2, <2>1 DEF CountedFrom
  <2> QED BY <2>1, <2>2 DEF Counted
<1>3. ASSUME NEW i \in DOMAIN svHand'.asdus PROVE Counted(origin, svHand.asdus[i])'
  <2>1. PICK s : s = svHand'.asdus[i] /\ Counted(origin, s)
    <3>1. CASE \E j \in DOMAIN svHand.asdus : svHand'.asdus[i] = svHand.asdus[j]
      BY <3>1 DEF CountedFrom
    <3>2. CASE \E j \in DOMAIN svWire : i \in DOMAIN svWire[j] /\ svHand'.asdus[i] = svWire[j][i]
      BY <3>2 DEF CountedFrom
    <3> QED BY <3>1, <3>2
  <2> QED BY <2>1 DEF Counted
<1>4. ASSUME svBefore' # NothingBefore PROVE Counted(origin, svBefore)'
  <2>1. PICK s : s = svBefore' /\ Counted(origin, s)
    BY <1>4 DEF CountedFrom
  <2> QED BY <2>1 DEF Counted
<1> QED BY <1>1, <1>2, <1>3, <1>4 DEF CountedFrom

LEMMA SampleIsTyped ==
  ASSUME SvTyped, NEW p \in SvPublishers, NEW i \in Nat
  PROVE  Asdu(p, i) \in SvSample
<1>1. svPub[p].count \in Nat /\ svPub[p].run \in Nat /\ svPub[p].nth \in Nat
  BY SvAssumption DEF SvTyped
<1>2. SvWrap \in Nat \ {0}
  BY SvAssumption
<1>3. CountAfter(i, svPub[p].count) \in 0..SvWrap - 1
  <2>1. svPub[p].count + i \in Int
    BY <1>1
  <2>2. (svPub[p].count + i) % SvWrap \in 0..SvWrap - 1
    BY <1>2, <2>1, Division
  <2> QED BY <2>2 DEF CountAfter
<1>4. svPub[p].nth + i \in Nat
  BY <1>1
<1> QED BY <1>1, <1>3, <1>4 DEF Asdu, SvSample

LEMMA CountGoesOn ==
  ASSUME SvTyped, NEW origin \in [Runs -> Int], CountedFrom(origin), NEW p \in SvPublishers, NEW i \in Nat
  PROVE  CountAfter(i, svPub[p].count) = ((svPub[p].nth + i) - origin[<<p, svPub[p].run>>]) % SvWrap
<1>1. svPub[p].count \in Nat /\ svPub[p].run \in Nat /\ svPub[p].nth \in Nat
  BY SvAssumption DEF SvTyped
<1>2. SvWrap \in Nat \ {0}
  BY SvAssumption
<1>3. PICK o \in Int : o = origin[<<p, svPub[p].run>>]
  <2>1. <<p, svPub[p].run>> \in Runs
    BY <1>1 DEF Runs
  <2> QED BY <2>1
<1>4. PICK n \in Nat, c \in Nat : n = svPub[p].nth /\ c = svPub[p].count
  BY <1>1
<1>5. c = (n - o) % SvWrap
  <2>1. Counted(origin, Coming(p))
    BY DEF CountedFrom
  <2> QED BY <1>3, <1>4, <2>1 DEF Counted, Coming
<1>6. PICK x \in Int : x = n - o
  OBVIOUS
<1>7. ((x % SvWrap) + i) % SvWrap = (x + i) % SvWrap
  <2>1. i \in Int
    OBVIOUS
  <2> QED BY <1>2, <2>1, RemainderOfSum
<1>8. x + i = (n + i) - o
  BY <1>6
<1>9. CountAfter(i, c) = ((n + i) - o) % SvWrap
  BY <1>5, <1>6, <1>7, <1>8 DEF CountAfter
<1> QED BY <1>3, <1>4, <1>9

LEMMA PublishKeeps ==
  ASSUME SvIInv, NEW p \in SvPublishers, PublishSample(p)
  PROVE  SvIInv'
<1>1. SvTyped /\ svPub \in [SvPublishers -> [count : 0..SvWrap - 1, run : Nat, nth : Nat]]
  BY DEF SvIInv, SvTyped
<1>2. /\ svPub' = [svPub EXCEPT ![p] = [count |-> CountAfter(Packed, svPub[p].count),
                                    run |-> svPub[p].run, nth |-> svPub[p].nth + Packed]]
      /\ svWire' = IF Len(svWire) < SvWireSize THEN Append(svWire, SvFrame(p)) ELSE svWire
      /\ UNCHANGED <<svHand, svLast, svMode, svLatched, svEvents, svBefore, svFaults>>
  BY DEF PublishSample
<1>3. PICK origin \in [Runs -> Int] : CountedFrom(origin)
  BY DEF SvIInv
<1>4. Packed \in Nat \ {0}
  BY SvAssumption
<1>5. PICK n \in Nat, c \in 0..SvWrap - 1 :
        /\ n = svPub[p].nth + Packed /\ c = CountAfter(Packed, svPub[p].count)
        /\ c = (n - origin[<<p, svPub[p].run>>]) % SvWrap
  <2>1. svPub[p].nth + Packed \in Nat
    BY <1>1, <1>4
  <2>2. CountAfter(Packed, svPub[p].count) \in 0..SvWrap - 1
    BY <1>1, <1>4, SampleIsTyped DEF Asdu, SvSample
  <2>3. CountAfter(Packed, svPub[p].count) = ((svPub[p].nth + Packed) - origin[<<p, svPub[p].run>>]) % SvWrap
    BY <1>1, <1>3, <1>4, CountGoesOn
  <2> QED BY <2>1, <2>2, <2>3
<1>6. /\ svPub' \in [SvPublishers -> [count : 0..SvWrap - 1, run : Nat, nth : Nat]]
      /\ svPub'[p].count = c /\ svPub'[p].nth = n
      /\ \A q \in SvPublishers : svPub'[q].run = svPub[q].run
      /\ \A q \in SvPublishers : q # p => svPub'[q] = svPub[q]
  <2>1. svPub' = [svPub EXCEPT ![p] = [count |-> c, run |-> svPub[p].run, nth |-> n]]
    BY <1>2, <1>5
  <2> QED BY <1>1, <2>1
<1>7. SvFrame(p) \in SvFrames
  <2>1. \A i \in 1..Packed : Asdu(p, i - 1) \in SvSample
    BY <1>1, <1>4, SampleIsTyped
  <2>2. SvFrame(p) \in Seq(SvSample) /\ Len(SvFrame(p)) = Packed
    BY <1>4, <2>1 DEF SvFrame
  <2> QED BY <1>4, <2>2 DEF SvFrames
<1>8. PICK written \in SvFrames : written = SvFrame(p)
  BY <1>7
<1>9. \A i \in DOMAIN written : written[i] \in SvSample /\ Counted(origin, written[i])
  <2>1. ASSUME NEW i \in DOMAIN written PROVE written[i] \in SvSample /\ Counted(origin, written[i])
    <3>1. PICK j \in Nat : j = i - 1 /\ written[i] = Asdu(p, j)
      BY <1>4, <1>8, <2>1 DEF SvFrame
    <3>2. Asdu(p, j) \in SvSample
      BY <1>1, SampleIsTyped
    <3>3. CountAfter(j, svPub[p].count) = ((svPub[p].nth + j) - origin[<<p, svPub[p].run>>]) % SvWrap
      BY <1>1, <1>3, CountGoesOn
    <3>4. svPub[p].run <= svPub[p].run
      BY <1>1
    <3>5. Counted(origin, Asdu(p, j))
      BY <3>3, <3>4 DEF Counted, Asdu
    <3> QED BY <3>1, <3>2, <3>5
  <2> QED BY <2>1
<1>10. /\ svWire' \in Seq(SvFrames)
       /\ \A k \in DOMAIN svWire' : (k \in DOMAIN svWire /\ svWire'[k] = svWire[k]) \/ svWire'[k] = written
  <2>1. svWire \in Seq(SvFrames)
    BY <1>1 DEF SvTyped
  <2>2. CASE svWire' = svWire
    BY <2>1, <2>2
  <2>3. CASE svWire' = Append(svWire, written)
    BY <2>1, <2>3
  <2> QED BY <1>2, <1>8, <2>2, <2>3
<1>11. SvTyped'
  BY <1>1, <1>2, <1>6, <1>10 DEF SvTyped
<1>12. ASSUME NEW s, s.src \in SvPublishers, Counted(origin, s) PROVE Counted(origin, s)'
  BY <1>6, <1>12 DEF Counted
<1>13. CountedFrom(origin)'
  <2>1. ASSUME NEW q \in SvPublishers PROVE Counted(origin, Coming(q))'
    <3>1. CASE q = p
      <4>1. svPub'[p].run = svPub[p].run /\ svPub'[p].run <= svPub'[p].run
        BY <1>1, <1>6
      <4> QED BY <1>5, <1>6, <3>1, <4>1 DEF Counted, Coming
    <3>2. CASE q # p
      <4>1. Counted(origin, Coming(q))
        BY <1>3 DEF CountedFrom
      <4> QED BY <1>6, <3>2, <4>1 DEF Counted, Coming
    <3> QED BY <3>1, <3>2
  <2>2. ASSUME NEW k \in DOMAIN svWire', NEW i \in DOMAIN svWire'[k]
        PROVE  Counted(origin, svWire[k][i])'
    <3>1. PICK s \in SvSample : s = svWire'[k][i] /\ Counted(origin, s)
      <4>1. CASE svWire'[k] = written
        BY <1>9, <2>2, <4>1
      <4>2. CASE k \in DOMAIN svWire /\ svWire'[k] = svWire[k]
        <5>1. svWire[k] \in SvFrames /\ i \in DOMAIN svWire[k]
          BY <1>1, <2>2, <4>2 DEF SvTyped
        <5>2. svWire[k][i] \in SvSample
          BY <5>1 DEF SvFrames
        <5> QED BY <1>3, <4>2, <5>1, <5>2 DEF CountedFrom
      <4> QED BY <1>10, <2>2, <4>1, <4>2
    <3>2. Counted(origin, s)'
      BY <1>12, <3>1 DEF SvSample
    <3> QED BY <3>1, <3>2 DEF Counted
  <2>3. ASSUME NEW i \in DOMAIN svHand'.asdus PROVE Counted(origin, svHand.asdus[i])'
    <3>1. svHand.asdus \in SvFrames /\ i \in DOMAIN svHand.asdus
      BY <1>1, <1>2, <2>3 DEF SvTyped
    <3>2. PICK s \in SvSample : s = svHand.asdus[i]
      BY <3>1 DEF SvFrames
    <3>3. Counted(origin, s)
      BY <1>3, <3>1, <3>2 DEF CountedFrom
    <3>4. Counted(origin, s)'
      BY <1>12, <3>3 DEF SvSample
    <3> QED BY <1>2, <3>2, <3>4 DEF Counted
  <2>4. ASSUME svBefore' # NothingBefore PROVE Counted(origin, svBefore)'
    <3>1. PICK s \in SvTracked : s = svBefore
      BY <1>1, <1>2, <2>4 DEF SvTyped
    <3>2. Counted(origin, s)
      BY <1>2, <1>3, <2>4, <3>1 DEF CountedFrom
    <3>3. Counted(origin, s)'
      BY <1>12, <3>2 DEF SvTracked
    <3> QED BY <1>2, <3>1, <3>3 DEF Counted
  <2> QED BY <2>1, <2>2, <2>3, <2>4 DEF CountedFrom
<1> QED BY <1>2, <1>11, <1>13 DEF SvIInv, TellsLoss, SameSecond

LEMMA RestartKeeps ==
  ASSUME SvIInv, NEW p \in SvPublishers, RestartSv(p)
  PROVE  SvIInv'
<1>1. SvTyped /\ svPub \in [SvPublishers -> [count : 0..SvWrap - 1, run : Nat, nth : Nat]]
  BY DEF SvIInv, SvTyped
<1>2. /\ svPub' = [svPub EXCEPT ![p] = [count |-> 0, run |-> svPub[p].run + 1, nth |-> svPub[p].nth]]
      /\ UNCHANGED <<svWire, svHand, svLast, svMode, svLatched, svEvents, svBefore, svFaults>>
  BY DEF RestartSv
<1>3. PICK old \in [Runs -> Int] : CountedFrom(old)
  BY DEF SvIInv
<1>4. PICK n \in Nat, r \in Nat : n = svPub[p].nth /\ r = svPub[p].run
  BY <1>1
<1>5. SvWrap \in Nat \ {0}
  BY SvAssumption
<1>6. /\ svPub' \in [SvPublishers -> [count : 0..SvWrap - 1, run : Nat, nth : Nat]]
      /\ svPub'[p] = [count |-> 0, run |-> r + 1, nth |-> n]
      /\ \A q \in SvPublishers : q # p => svPub'[q] = svPub[q]
  <2>2. svPub' = [svPub EXCEPT ![p] = [count |-> 0, run |-> r + 1, nth |-> n]]
    BY <1>2, <1>4
  <2>3. [count |-> 0, run |-> r + 1, nth |-> n] \in [count : 0..SvWrap - 1, run : Nat, nth : Nat]
    BY <1>5
  <2> QED BY <1>1, <2>2, <2>3
<1>7. PICK origin \in [Runs -> Int] :
        /\ origin[<<p, r + 1>>] = n
        /\ \A run \in Runs : run # <<p, r + 1>> => origin[run] = old[run]
  <2>1. <<p, r + 1>> \in Runs
    BY DEF Runs
  <2>2. [old EXCEPT ![<<p, r + 1>>] = n] \in [Runs -> Int]
    <3>1. n \in Int
      OBVIOUS
    <3> QED BY <3>1
  <2> QED BY <2>1, <2>2
<1>8. ASSUME NEW s, s.src \in SvPublishers, s.run \in Nat, Counted(old, s)
      PROVE  s.run <= svPub'[s.src].run /\ s.count = (s.nth - origin[<<s.src, s.run>>]) % SvWrap
  <2>1. s.run <= svPub[s.src].run /\ s.count = (s.nth - old[<<s.src, s.run>>]) % SvWrap
    BY <1>8 DEF Counted
  <2>2. <<s.src, s.run>> \in Runs /\ <<s.src, s.run>> # <<p, r + 1>>
    <3>1. s.src = p => s.run <= r
      BY <1>4, <2>1
    <3> QED BY <1>8, <3>1 DEF Runs
  <2>3. s.run <= svPub'[s.src].run
    <3>1. CASE s.src = p
      <4>1. svPub'[s.src].run = r + 1 /\ svPub[s.src].run = r
        BY <1>4, <1>6, <3>1
      <4> QED BY <1>8, <2>1, <4>1
    <3>2. CASE s.src # p
      BY <1>6, <1>8, <2>1, <3>2
    <3> QED BY <3>1, <3>2
  <2>4. origin[<<s.src, s.run>>] = old[<<s.src, s.run>>]
    BY <1>7, <2>2
  <2> QED BY <2>1, <2>3, <2>4
<1>9. CountedFrom(origin)'
  <2>1. ASSUME NEW q \in SvPublishers PROVE Counted(origin, Coming(q))'
    <3>1. CASE q = p
      <4>1. (n - origin[<<p, r + 1>>]) % SvWrap = 0
        <5>1. n - origin[<<p, r + 1>>] = 0
          BY <1>7
        <5>2. 0 % SvWrap = 0
          <6>1. ((SvWrap * 0) + 0) % SvWrap = 0
            BY <1>5, RemainderIsUnique
          <6>2. (SvWrap * 0) + 0 = 0
            BY <1>5
          <6> QED BY <6>1, <6>2
        <5> QED BY <5>1, <5>2
      <4>2. r + 1 <= r + 1
        OBVIOUS
      <4> QED BY <1>6, <3>1, <4>1, <4>2 DEF Counted, Coming
    <3>2. CASE q # p
      <4>1. Counted(old, Coming(q)) /\ Coming(q).src = q /\ Coming(q).run \in Nat
        BY <1>1, <1>3 DEF CountedFrom, Coming
      <4>2. PICK s : s = Coming(q)
        OBVIOUS
      <4>3. s.run <= svPub'[s.src].run /\ s.count = (s.nth - origin[<<s.src, s.run>>]) % SvWrap
        BY <1>8, <4>1, <4>2
      <4>4. Coming(q)' = s
        BY <1>6, <3>2, <4>2 DEF Coming
      <4> QED BY <4>3, <4>4 DEF Counted
    <3> QED BY <3>1, <3>2
  <2>2. ASSUME NEW k \in DOMAIN svWire', NEW i \in DOMAIN svWire'[k]
        PROVE  Counted(origin, svWire[k][i])'
    <3>1. svWire[k] \in SvFrames /\ k \in DOMAIN svWire /\ i \in DOMAIN svWire[k] /\ svWire' = svWire
      BY <1>1, <1>2, <2>2 DEF SvTyped
    <3>2. PICK s \in SvSample : s = svWire[k][i]
      BY <3>1 DEF SvFrames
    <3>3. Counted(old, s)
      BY <1>3, <3>1, <3>2 DEF CountedFrom
    <3>4. s.run <= svPub'[s.src].run /\ s.count = (s.nth - origin[<<s.src, s.run>>]) % SvWrap
      BY <1>8, <3>3 DEF SvSample
    <3> QED BY <3>1, <3>2, <3>4 DEF Counted
  <2>3. ASSUME NEW i \in DOMAIN svHand'.asdus PROVE Counted(origin, svHand.asdus[i])'
    <3>1. svHand.asdus \in SvFrames /\ i \in DOMAIN svHand.asdus
      BY <1>1, <1>2, <2>3 DEF SvTyped
    <3>2. PICK s \in SvSample : s = svHand.asdus[i]
      BY <3>1 DEF SvFrames
    <3>3. Counted(old, s)
      BY <1>3, <3>1, <3>2 DEF CountedFrom
    <3>4. s.run <= svPub'[s.src].run /\ s.count = (s.nth - origin[<<s.src, s.run>>]) % SvWrap
      BY <1>8, <3>3 DEF SvSample
    <3> QED BY <1>2, <3>2, <3>4 DEF Counted
  <2>4. ASSUME svBefore' # NothingBefore PROVE Counted(origin, svBefore)'
    <3>1. PICK s \in SvTracked : s = svBefore
      BY <1>1, <1>2, <2>4 DEF SvTyped
    <3>2. Counted(old, s)
      BY <1>2, <1>3, <2>4, <3>1 DEF CountedFrom
    <3>3. s.run <= svPub'[s.src].run /\ s.count = (s.nth - origin[<<s.src, s.run>>]) % SvWrap
      BY <1>8, <3>2 DEF SvTracked
    <3> QED BY <1>2, <3>1, <3>3 DEF Counted
  <2> QED BY <2>1, <2>2, <2>3, <2>4 DEF CountedFrom
<1>10. SvTyped'
  BY <1>1, <1>2, <1>6 DEF SvTyped
<1> QED BY <1>2, <1>9, <1>10 DEF SvIInv, TellsLoss, SameSecond

(* Frames are lost, doubled and received.                                  *)
LEMMA WireKeeps ==
  ASSUME SvIInv, UNCHANGED <<svPub, svLast, svMode, svLatched, svEvents, svBefore>>,
         \/ LoseFrame \/ DoubleFrame \/ TakeSvFrame
  PROVE  SvIInv'
<1>1. /\ SvTyped /\ svWire \in Seq(SvFrames) /\ svHand \in [sim : BOOLEAN, asdus : SvFrames]
      /\ svMode \in BOOLEAN
  BY DEF SvIInv, SvTyped
<1>2. PICK origin \in [Runs -> Int] : CountedFrom(origin)
  BY DEF SvIInv
<1>3. svWire # <<>> /\ 1 \in DOMAIN svWire /\ Head(svWire) = svWire[1] /\ Head(svWire) \in SvFrames
  <2>1. svWire # <<>>
    BY DEF LoseFrame, DoubleFrame, TakeSvFrame
  <2> QED BY <1>1, <2>1
<1>4. /\ svWire' \in Seq(SvFrames)
      /\ \A k \in DOMAIN svWire' : \E j \in DOMAIN svWire : svWire'[k] = svWire[j]
  <2>1. CASE svWire' = Tail(svWire)
    <3>1. /\ Tail(svWire) \in Seq(SvFrames)
          /\ \A k \in DOMAIN Tail(svWire) : k + 1 \in DOMAIN svWire /\ Tail(svWire)[k] = svWire[k + 1]
      BY <1>1, <1>3
    <3> QED BY <2>1, <3>1
  <2>2. CASE svWire' = <<Head(svWire)>> \o svWire
    <3>1. PICK frame \in SvFrames : frame = Head(svWire) /\ frame = svWire[1]
      BY <1>3
    <3>2. /\ <<frame>> \o svWire \in Seq(SvFrames)
          /\ \A k \in DOMAIN (<<frame>> \o svWire) :
               \/ (<<frame>> \o svWire)[k] = frame
               \/ k - 1 \in DOMAIN svWire /\ (<<frame>> \o svWire)[k] = svWire[k - 1]
      BY <1>1
    <3> QED BY <1>3, <2>2, <3>1, <3>2
  <2> QED BY <2>1, <2>2 DEF LoseFrame, DoubleFrame, TakeSvFrame
<1>5. svHand' = svHand \/ svHand' = [sim |-> svMode, asdus |-> svWire[1]]
  BY <1>3 DEF LoseFrame, DoubleFrame, TakeSvFrame
<1>6. SvTyped'
  <2>1. svHand' \in [sim : BOOLEAN, asdus : SvFrames]
    BY <1>1, <1>3, <1>5
  <2> QED BY <1>1, <1>4, <2>1 DEF SvTyped
<1>7. \A i \in DOMAIN svHand'.asdus :
        \/ \E j \in DOMAIN svHand.asdus : svHand'.asdus[i] = svHand.asdus[j]
        \/ \E j \in DOMAIN svWire : i \in DOMAIN svWire[j] /\ svHand'.asdus[i] = svWire[j][i]
  <2>1. CASE svHand' = svHand
    BY <2>1
  <2>2. CASE svHand' = [sim |-> svMode, asdus |-> svWire[1]]
    <3>1. svHand'.asdus = svWire[1]
      BY <2>2
    <3> QED BY <1>3, <3>1
  <2> QED BY <1>5, <2>1, <2>2
<1>8. CountedFrom(origin)'
  BY <1>2, <1>4, <1>7, SamplesStay
<1> QED BY <1>6, <1>8 DEF SvIInv, TellsLoss, SameSecond

(* A sample in hand is looked at.                                          *)
LEMMA SampleDone ==
  ASSUME SvTyped, svHand.asdus # <<>>, AsduDone
  PROVE  /\ svHand' \in [sim : BOOLEAN, asdus : SvFrames]
         /\ 1 \in DOMAIN svHand.asdus /\ NextAsdu = svHand.asdus[1] /\ NextAsdu \in SvSample
         /\ \A i \in DOMAIN svHand'.asdus :
              \E j \in DOMAIN svHand.asdus : svHand'.asdus[i] = svHand.asdus[j]
<1>1. PICK sim \in BOOLEAN, asdus \in SvFrames : svHand = [sim |-> sim, asdus |-> asdus]
  BY DEF SvTyped
<1>2. asdus \in Seq(SvSample) /\ asdus # <<>> /\ Len(asdus) <= Packed
  BY <1>1 DEF SvFrames
<1>3. svHand' = [sim |-> sim, asdus |-> Tail(asdus)]
  BY <1>1 DEF AsduDone
<1>4. /\ Tail(asdus) \in Seq(SvSample) /\ Len(Tail(asdus)) = Len(asdus) - 1
      /\ 1 \in DOMAIN asdus /\ Head(asdus) = asdus[1] /\ Head(asdus) \in SvSample
      /\ \A i \in DOMAIN Tail(asdus) : i + 1 \in DOMAIN asdus /\ Tail(asdus)[i] = asdus[i + 1]
  BY <1>2
<1>5. Len(Tail(asdus)) <= Packed
  <2>1. Len(asdus) \in Nat /\ Packed \in Nat
    BY <1>2, SvAssumption
  <2> QED BY <1>2, <1>4, <2>1
<1>6. Tail(asdus) \in SvFrames
  BY <1>4, <1>5 DEF SvFrames
<1> QED BY <1>1, <1>3, <1>4, <1>6 DEF NextAsdu

(* A sample is delivered, passed over by the gate, or not to be trusted.   *)
LEMMA DeliverKeeps ==
  ASSUME SvIInv, DeliverSample
  PROVE  SvIInv'
<1>1. SvTyped /\ (\A k \in DOMAIN svEvents : TellsLoss(svEvents[k]))
  BY DEF SvIInv
<1>2. PICK origin \in [Runs -> Int] : CountedFrom(origin)
  BY DEF SvIInv
<1>3. /\ svHand.asdus # <<>> /\ AsduDone /\ ~SvBlocked
      /\ svLatched' = GateLatched(NextAsdu)
      /\ svEvents' = Append(svEvents, SvEvent(NextAsdu, SvKind(svLast, NextAsdu.count)))
      /\ svLast' = NextAsdu.count
      /\ svBefore' = [src |-> NextAsdu.src, run |-> NextAsdu.run, nth |-> NextAsdu.nth,
                      count |-> NextAsdu.count, kind |-> "Sample"]
      /\ UNCHANGED <<svPub, svWire, svMode, svFaults>>
  BY DEF DeliverSample
<1>4. /\ svHand' \in [sim : BOOLEAN, asdus : SvFrames]
      /\ 1 \in DOMAIN svHand.asdus /\ NextAsdu = svHand.asdus[1] /\ NextAsdu \in SvSample
      /\ \A i \in DOMAIN svHand'.asdus :
           \E j \in DOMAIN svHand.asdus : svHand'.asdus[i] = svHand.asdus[j]
  BY <1>1, <1>3, SampleDone
<1>5. PICK a \in SvSample : a = NextAsdu
  BY <1>4
<1>6. Counted(origin, a)
  BY <1>2, <1>4, <1>5 DEF CountedFrom
<1>7. PICK e \in SvEventRecord : e = SvEvent(a, SvKind(svLast, a.count)) /\ TellsLoss(e)
  <2>1. SvKind(svLast, a.count) \in {"Sample", "Wrap", "SampleLoss", "AuthFailed"}
    BY KindIsTyped
  <2>2. SvEvent(a, SvKind(svLast, a.count)) \in SvEventRecord
    BY <1>1, <2>1, EventIsTyped
  <2>3. TellsLoss(SvEvent(a, SvKind(svLast, a.count)))
    BY <1>1, <1>2, <1>6, DeliveredTells
  <2> QED BY <2>2, <2>3
<1>8. /\ svEvents' \in Seq(SvEventRecord) /\ Len(svEvents') <= SvEventCapacity + 1
      /\ \A k \in DOMAIN svEvents' : TellsLoss(svEvents'[k])
  <2>1. svEvents' = Append(svEvents, e)
    BY <1>3, <1>5, <1>7
  <2> QED BY <1>1, <1>3, <1>7, <2>1, EventSent
<1>9. svBefore' \in SvTracked /\ svLast' = svBefore'.count
  BY <1>3, <1>4 DEF SvSample, SvTracked
<1>10. svLatched' \in BOOLEAN
  <2>1. svHand.sim \in BOOLEAN /\ svLatched \in BOOLEAN
    BY <1>1 DEF SvTyped
  <2> QED BY <1>3, <2>1 DEF GateLatched
<1>11. SvTyped'
  BY <1>1, <1>3, <1>4, <1>8, <1>9, <1>10 DEF SvTyped
<1>12. CountedFrom(origin)'
  <2>1. Counted(origin, svBefore')
    <3>1. /\ svBefore'.src = a.src /\ svBefore'.run = a.run
          /\ svBefore'.nth = a.nth /\ svBefore'.count = a.count
      BY <1>3, <1>5
    <3> QED BY <1>6, <3>1 DEF Counted
  <2>2. UNCHANGED svPub /\ \A k \in DOMAIN svWire' : \E j \in DOMAIN svWire : svWire'[k] = svWire[j]
    BY <1>3
  <2> QED BY <1>2, <1>4, <2>1, <2>2, SamplesStay
<1>13. \A k \in DOMAIN svEvents' : TellsLoss(svEvents[k])'
  BY <1>8 DEF TellsLoss, SameSecond
<1> QED BY <1>11, <1>12, <1>13 DEF SvIInv

LEMMA PassOverKeeps ==
  ASSUME SvIInv, PassOverSample
  PROVE  SvIInv'
<1>1. SvTyped /\ (\A k \in DOMAIN svEvents : TellsLoss(svEvents[k]))
  BY DEF SvIInv
<1>2. PICK origin \in [Runs -> Int] : CountedFrom(origin)
  BY DEF SvIInv
<1>3. /\ svHand.asdus # <<>> /\ AsduDone /\ svLatched' = GateLatched(NextAsdu)
      /\ UNCHANGED <<svPub, svWire, svLast, svMode, svEvents, svBefore, svFaults>>
  BY DEF PassOverSample
<1>4. /\ svHand' \in [sim : BOOLEAN, asdus : SvFrames]
      /\ \A i \in DOMAIN svHand'.asdus :
           \E j \in DOMAIN svHand.asdus : svHand'.asdus[i] = svHand.asdus[j]
  BY <1>1, <1>3, SampleDone
<1>5. svLatched' \in BOOLEAN
  <2>1. svHand.sim \in BOOLEAN /\ svLatched \in BOOLEAN
    BY <1>1 DEF SvTyped
  <2> QED BY <1>3, <2>1 DEF GateLatched
<1>6. SvTyped'
  BY <1>1, <1>3, <1>4, <1>5 DEF SvTyped
<1>7. CountedFrom(origin)'
  <2>1. UNCHANGED svPub /\ \A k \in DOMAIN svWire' : \E j \in DOMAIN svWire : svWire'[k] = svWire[j]
    BY <1>3
  <2> QED BY <1>2, <1>3, <1>4, <2>1, SamplesStay
<1> QED BY <1>3, <1>6, <1>7 DEF SvIInv, TellsLoss, SameSecond

LEMMA RejectKeeps ==
  ASSUME SvIInv, RejectSample
  PROVE  SvIInv'
<1>1. SvTyped /\ (\A k \in DOMAIN svEvents : TellsLoss(svEvents[k]))
  BY DEF SvIInv
<1>2. PICK origin \in [Runs -> Int] : CountedFrom(origin)
  BY DEF SvIInv
<1>3. /\ svHand.asdus # <<>> /\ AsduDone /\ ~SvBlocked
      /\ svEvents' = Append(svEvents, SvEvent(NextAsdu, "AuthFailed"))
      /\ UNCHANGED <<svPub, svWire, svLast, svMode, svLatched, svBefore, svFaults>>
  BY DEF RejectSample
<1>4. /\ svHand' \in [sim : BOOLEAN, asdus : SvFrames] /\ NextAsdu \in SvSample
      /\ \A i \in DOMAIN svHand'.asdus :
           \E j \in DOMAIN svHand.asdus : svHand'.asdus[i] = svHand.asdus[j]
  BY <1>1, <1>3, SampleDone
<1>5. PICK a \in SvSample : a = NextAsdu
  BY <1>4
<1>6. PICK e \in SvEventRecord : e = SvEvent(a, "AuthFailed") /\ TellsLoss(e)
  <2>1. SvEvent(a, "AuthFailed") \in SvEventRecord
    BY <1>1, EventIsTyped
  <2>2. SvEvent(a, "AuthFailed").kind = "AuthFailed"
    BY DEF SvEvent
  <2>3. TellsLoss(SvEvent(a, "AuthFailed"))
    BY <2>2 DEF TellsLoss
  <2> QED BY <2>1, <2>3
<1>7. /\ svEvents' \in Seq(SvEventRecord) /\ Len(svEvents') <= SvEventCapacity + 1
      /\ \A k \in DOMAIN svEvents' : TellsLoss(svEvents'[k])
  <2>1. svEvents' = Append(svEvents, e)
    BY <1>3, <1>5, <1>6
  <2> QED BY <1>1, <1>3, <1>6, <2>1, EventSent
<1>8. SvTyped'
  BY <1>1, <1>3, <1>4, <1>7 DEF SvTyped
<1>9. CountedFrom(origin)'
  <2>1. UNCHANGED svPub /\ \A k \in DOMAIN svWire' : \E j \in DOMAIN svWire : svWire'[k] = svWire[j]
    BY <1>3
  <2> QED BY <1>2, <1>3, <1>4, <2>1, SamplesStay
<1>10. \A k \in DOMAIN svEvents' : TellsLoss(svEvents[k])'
  BY <1>7 DEF TellsLoss, SameSecond
<1> QED BY <1>8, <1>9, <1>10 DEF SvIInv

(* The application takes an event or sets the mode.                        *)
LEMMA ApplicationKeeps ==
  ASSUME SvIInv, UNCHANGED <<svPub, svWire, svHand, svLast, svLatched, svBefore>>,
         \/ RecvSample
         \/ \E on \in BOOLEAN : SetSvMode(on)
         \/ UNCHANGED svVars
  PROVE  SvIInv'
<1>1. SvTyped /\ (\A k \in DOMAIN svEvents : TellsLoss(svEvents[k]))
  BY DEF SvIInv
<1>2. PICK origin \in [Runs -> Int] : CountedFrom(origin)
  BY DEF SvIInv
<1>3. CountedFrom(origin)'
  BY <1>2, SamplesStay
<1>4. /\ svEvents' \in Seq(SvEventRecord) /\ Len(svEvents') <= SvEventCapacity + 1
      /\ \A k \in DOMAIN svEvents' : TellsLoss(svEvents'[k])
  <2>1. CASE RecvSample
    <3>1. svEvents # <<>> /\ svEvents' = Tail(svEvents)
      BY <2>1 DEF RecvSample
    <3> QED BY <1>1, <3>1, EventTaken
  <2>2. CASE svEvents' = svEvents
    BY <1>1, <2>2 DEF SvTyped
  <2> QED BY <2>1, <2>2 DEF SetSvMode, svVars
<1>5. svMode' \in BOOLEAN
  BY <1>1 DEF RecvSample, SetSvMode, svVars, SvTyped
<1>6. SvTyped'
  BY <1>1, <1>4, <1>5 DEF SvTyped
<1>7. \A k \in DOMAIN svEvents' : TellsLoss(svEvents[k])'
  BY <1>4 DEF TellsLoss, SameSecond
<1> QED BY <1>3, <1>6, <1>7 DEF SvIInv

LEMMA SvInitially == ASSUME SvInit PROVE SvIInv
<1>1. SvWrap \in Nat \ {0} /\ 0 \in 0..SvWrap - 1 /\ SvEventCapacity \in Nat
  BY SvAssumption
<1>2. 0 % SvWrap = 0
  <2>1. ((SvWrap * 0) + 0) % SvWrap = 0
    BY <1>1, RemainderIsUnique
  <2>2. (SvWrap * 0) + 0 = 0
    BY <1>1
  <2> QED BY <2>1, <2>2
<1>3. SvTyped
  <2>1. EmptyHand \in [sim : BOOLEAN, asdus : SvFrames]
    <3>1. <<>> \in SvFrames
      BY SvAssumption DEF SvFrames
    <3> QED BY <3>1 DEF EmptyHand
  <2>2. svPub \in [SvPublishers -> [count : 0..SvWrap - 1, run : Nat, nth : Nat]]
    BY <1>1 DEF SvInit
  <2>3. svEvents \in Seq(SvEventRecord) /\ Len(svEvents) <= SvEventCapacity + 1
    BY <1>1 DEF SvInit
  <2>4. svWire \in Seq(SvFrames)
    BY DEF SvInit
  <2>5. svHand \in [sim : BOOLEAN, asdus : SvFrames]
    BY <2>1 DEF SvInit
  <2>6. /\ svBefore = NothingBefore /\ svLast = NoSample
        /\ svMode \in BOOLEAN /\ svLatched \in BOOLEAN
    BY DEF SvInit
  <2> QED BY <2>2, <2>3, <2>4, <2>5, <2>6 DEF SvTyped
<1>4. PICK origin \in [Runs -> Int] : \A run \in Runs : origin[run] = 0
  <2>1. [run \in Runs |-> 0] \in [Runs -> Int]
    OBVIOUS
  <2> QED BY <2>1
<1>5. CountedFrom(origin)
  <2>1. ASSUME NEW p \in SvPublishers PROVE Counted(origin, Coming(p))
    <3>1. Coming(p) = [src |-> p, run |-> 0, nth |-> 0, count |-> 0] /\ svPub[p].run = 0
      BY DEF SvInit, Coming
    <3>2. origin[<<p, 0>>] = 0
      BY <1>4 DEF Runs
    <3>3. 0 - origin[<<p, 0>>] = 0
      BY <3>2
    <3> QED BY <1>2, <3>1, <3>3 DEF Counted
  <2>2. svWire = <<>> /\ svHand.asdus = <<>> /\ svBefore = NothingBefore
    BY DEF SvInit, EmptyHand
  <2> QED BY <2>1, <2>2 DEF CountedFrom
<1>6. \A k \in DOMAIN svEvents : TellsLoss(svEvents[k])
  BY DEF SvInit
<1> QED BY <1>3, <1>5, <1>6 DEF SvIInv

LEMMA SvStep == ASSUME SvIInv, [SvNext]_svVars PROVE SvIInv'
<1>1. CASE \E p \in SvPublishers : PublishSample(p)
  BY <1>1, PublishKeeps
<1>2. CASE \E p \in SvPublishers : RestartSv(p)
  BY <1>2, RestartKeeps
<1>3. CASE LoseFrame \/ DoubleFrame \/ TakeSvFrame
  <2>1. UNCHANGED <<svPub, svLast, svMode, svLatched, svEvents, svBefore>>
    BY <1>3 DEF LoseFrame, DoubleFrame, TakeSvFrame
  <2> QED BY <1>3, <2>1, WireKeeps
<1>4. CASE DeliverSample
  BY <1>4, DeliverKeeps
<1>5. CASE PassOverSample
  BY <1>5, PassOverKeeps
<1>6. CASE RejectSample
  BY <1>6, RejectKeeps
<1>7. CASE RecvSample \/ (\E on \in BOOLEAN : SetSvMode(on)) \/ UNCHANGED svVars
  <2>1. UNCHANGED <<svPub, svWire, svHand, svLast, svLatched, svBefore>>
    BY <1>7 DEF RecvSample, SetSvMode, svVars
  <2> QED BY <1>7, <2>1, ApplicationKeeps
<1> QED BY <1>1, <1>2, <1>3, <1>4, <1>5, <1>6, <1>7 DEF SvNext

(* Whatever frames are lost, doubled or dropped, and however often a       *)
(* publisher restarts, all samples of a run are counted from one place,    *)
(* the last smpCnt kept is that of the sample last delivered, and every    *)
(* event was told from them. (publisher.rs run; subscriber.rs run, kind)   *)
THEOREM SvInvariance == SvSpec => []SvIInv
<1>1. SvInit => SvIInv
  BY SvInitially
<1>2. SvIInv /\ [SvNext]_svVars => SvIInv'
  BY SvStep
<1> QED BY <1>1, <1>2, PTL DEF SvSpec

(* For every number of samples in a second and in a frame: what is lost    *)
(* within a second is told to the sample, no loss is told that was not,    *)
(* and what is told is short of what was lost by whole seconds only.       *)
THEOREM LossIsTold == SvSpec => []SampleLossIsTold
<1>1. ASSUME SvIInv PROVE SampleLossIsTold
  <2>1. SUFFICES ASSUME NEW e \in Progress
                 PROVE  LET missing == e.nth - e.before.nth - 1
                        IN  /\ SameSecond(e) => e.kind # "Wrap" /\ e.lost = missing
                            /\ e.kind = "Wrap" => e.count = 0
                            /\ e.kind = "SampleLoss" => missing > 0 /\ e.lost <= missing
                                                        /\ (missing - e.lost) % SvWrap = 0
    BY DEF SampleLossIsTold
  <2>2. e \in Range(svEvents) /\ e.kind # "AuthFailed" /\ e.src = e.before.src
        /\ e.run = e.before.run /\ e.nth > e.before.nth
    BY DEF Progress
  <2>3. TellsLoss(e)
    BY <1>1, <2>2 DEF SvIInv, Range
  <2> QED BY <2>2, <2>3 DEF TellsLoss
<1> QED BY <1>1, SvInvariance, PTL

(* smpCnt, the last one kept and the queues stay within their bounds.      *)
THEOREM SvTypeCorrect == SvSpec => []SvTypeOK
<1>1. ASSUME SvIInv PROVE SvTypeOK
  <2>1. SvTyped
    BY <1>1 DEF SvIInv
  <2>2. svLast \in {NoSample} \cup 0..SvWrap - 1
    BY <2>1 DEF SvTyped, SvTracked
  <2>3. Len(svHand.asdus) <= Packed
    BY <2>1 DEF SvTyped, SvFrames
  <2> QED BY <2>1, <2>2, <2>3 DEF SvTyped, SvTypeOK
<1> QED BY <1>1, SvInvariance, PTL

-----------------------------------------------------------------------------
(* TSDUs over TPKT and COTP.                                               *)

(* A TPDU of one of the TSDUs that were sent.                              *)
Genuine(f, tsdus) ==
  /\ f.tsdu \in DOMAIN tsdus
  /\ LET whole == DataTpdus(f.tsdu, Length[tsdus[f.tsdu]])
     IN  f.part \in DOMAIN whole /\ f = whole[f.part]

(* g is the TPDU that is written after f.                                  *)
Follows(f, g) ==
  IF f.eot THEN g.tsdu = f.tsdu + 1 /\ g.part = 1
  ELSE g.tsdu = f.tsdu /\ g.part = f.part + 1

(* One task at a time has the rest of the TSDU that was sent last to write. *)
WritersTakeTurns ==
  /\ \A j, k \in Tasks : writing[j] # <<>> /\ writing[k] # <<>> => j = k
  /\ \A k \in Tasks : \A i \in DOMAIN writing[k] :
       LET f == writing[k][i]
       IN  /\ Genuine(f, sent) /\ f.tsdu = Len(sent)
           /\ IF i = Len(writing[k]) THEN f.eot
              ELSE ~f.eot /\ writing[k][i + 1].part = f.part + 1

(* Packets lie on the stream one behind the other, whole but for the first. *)
PacketsInOrder ==
  /\ \A i \in DOMAIN stream : Genuine(stream[i].tpdu, sent)
  /\ \A i \in DOMAIN stream : i > 1 => stream[i].unit # "tail"
  /\ stream # <<>> => stream[Len(stream)].unit # "header"
  /\ \A i \in 1..Len(stream) - 1 :
       /\ stream[i].unit = "header" =>
            stream[i + 1].unit = "tpdu" /\ stream[i + 1].tpdu = stream[i].tpdu
       /\ stream[i].unit = "tpdu" =>
            stream[i + 1].unit = "header" /\ Follows(stream[i].tpdu, stream[i + 1].tpdu)

(* What is written next continues what is on the stream.                   *)
WrittenFollows ==
  open /\ stream # <<>> =>
    LET f == stream[Len(stream)].tpdu
    IN  /\ \A k \in Tasks : writing[k] # <<>> => Follows(f, writing[k][1])
        /\ (\A k \in Tasks : writing[k] = <<>>) => f.eot /\ f.tsdu = Len(sent)

(* The reader stands where it will read no header that it accepts.         *)
OutOfStep == ~inPacket /\ stream # <<>> /\ stream[1].unit # "header"
InStep == open /\ ~OutOfStep

(* The TPDU that it is going to read next, if it was made already.         *)
Ahead ==
  IF stream # <<>> THEN {stream[1].tpdu}
  ELSE {writing[k][1] : k \in {j \in Tasks : writing[j] # <<>>}}

ReaderInPacket == inPacket => stream # <<>> /\ stream[1].unit = "tpdu"

(* What was put together are the TPDUs of one TSDU, without its last.      *)
PartsContinue ==
  \A i \in DOMAIN parts :
    /\ Genuine(parts[i], sent) /\ ~parts[i].eot
    /\ parts[i].tsdu = parts[1].tsdu
    /\ parts[i].part = parts[1].part + i - 1

(* ... and the next TPDU continues it, and comes after what was received.  *)
AheadContinues ==
  InStep =>
    /\ \A f \in Ahead :
         /\ parts # <<>> => Follows(parts[Len(parts)], f)
         /\ \A i \in DOMAIN received : received[i][1].tsdu < f.tsdu
    /\ Ahead = {} => parts = <<>>

ReceivedAreEnds ==
  \A i \in DOMAIN received :
    /\ received[i] # <<>>
    /\ received[i][1].tsdu \in DOMAIN sent
    /\ IsEndOf(received[i], received[i][1].tsdu)

ReceivedAscends ==
  \A i, j \in DOMAIN received : i < j => received[i][1].tsdu < received[j][1].tsdu

(* A reader that is not dropped is in step and misses nothing.             *)
NothingMissed ==
  ~SelectLoop =>
    /\ ReceivedAsSent
    /\ ~OutOfStep
    /\ parts # <<>> => parts[1].tsdu = Len(received) + 1 /\ parts[1].part = 1
    /\ open /\ parts = <<>> => \A f \in Ahead : f.tsdu = Len(received) + 1 /\ f.part = 1
    /\ open /\ Ahead = {} => Len(received) = Len(sent)

LinkIInv ==
  /\ LinkTypeOK
  /\ WritersTakeTurns
  /\ PacketsInOrder
  /\ WrittenFollows
  /\ ReaderInPacket
  /\ PartsContinue
  /\ AheadContinues
  /\ ReceivedAreEnds
  /\ ReceivedAscends
  /\ NothingMissed

-----------------------------------------------------------------------------
USE LengthAssumption, TransportSizesAssumption

LEMMA ChunkIsPositive == Chunk \in Nat \ {0}
  BY DEF Chunk, HeaderLen

(* data_tpdus: the TPDUs of a TSDU are numbered from one, the last has EOT. *)
LEMMA CutIntoTpdus ==
  ASSUME NEW n \in Nat, NEW len \in Nat
  PROVE  /\ NumTpdus(len) \in Nat \ {0}
         /\ DataTpdus(n, len) \in Seq(Tpdu)
         /\ Len(DataTpdus(n, len)) = NumTpdus(len)
         /\ DOMAIN DataTpdus(n, len) = 1..NumTpdus(len)
         /\ \A j \in 1..NumTpdus(len) :
              /\ DataTpdus(n, len)[j] \in Tpdu
              /\ DataTpdus(n, len)[j].tsdu = n
              /\ DataTpdus(n, len)[j].part = j
              /\ DataTpdus(n, len)[j].eot = (j = NumTpdus(len))
<1> DEFINE num == NumTpdus(len)
<1>1. num \in Nat \ {0} /\ (num > 1 => Chunk * (num - 1) <= len)
  <2>1. CASE len <= Chunk
    BY <2>1 DEF NumTpdus
  <2>2. CASE len > Chunk
    <3> DEFINE q == (len + Chunk - 1) \div Chunk
    <3>1. num = q
      BY <2>2, ChunkIsPositive DEF NumTpdus
    <3>2. q \in Int /\ Chunk * q <= len + Chunk - 1 /\ q >= 1
      BY <2>2, ChunkIsPositive
    <3>3. Chunk * (q - 1) = Chunk * q - Chunk
      BY <3>2, ChunkIsPositive
    <3> HIDE DEF q
    <3> QED BY <3>1, <3>2, <3>3, ChunkIsPositive
  <2> QED BY <2>1, <2>2, ChunkIsPositive
<1> HIDE DEF num
<1>2. ASSUME NEW j \in 1..num
      PROVE  (IF j < num THEN Chunk ELSE len - Chunk * (j - 1)) \in Nat
  <2>1. CASE j < num
    BY <2>1, ChunkIsPositive
  <2>2. CASE j = num /\ num > 1
    <3>1. Chunk * (num - 1) \in Int
      BY <1>1, ChunkIsPositive
    <3> QED BY <1>1, <2>2, <3>1
  <2>3. CASE j = num /\ num = 1
    <3>1. Chunk * (1 - 1) = 0
      BY ChunkIsPositive
    <3> QED BY <2>3, <3>1
  <2> QED BY <1>1, <2>1, <2>2, <2>3
<1>3. \A j \in 1..num : DataTpdus(n, len)[j] \in Tpdu
  BY <1>1, <1>2 DEF DataTpdus, Tpdu, num
<1>4. DataTpdus(n, len) \in Seq(Tpdu) /\ Len(DataTpdus(n, len)) = num /\ DOMAIN DataTpdus(n, len) = 1..num
  <2>1. DataTpdus(n, len) \in [1..num -> Tpdu]
    BY <1>3 DEF DataTpdus, num
  <2> QED BY <1>1, <2>1
<1>5. \A j \in 1..num : /\ DataTpdus(n, len)[j].tsdu = n
                        /\ DataTpdus(n, len)[j].part = j
                        /\ DataTpdus(n, len)[j].eot = (j = num)
  BY DEF DataTpdus, num
<1> QED BY <1>1, <1>3, <1>4, <1>5 DEF num

LEMMA TpdusAreNumbered ==
  ASSUME NEW n \in Nat, NEW len \in Nat, NEW j \in 1..NumTpdus(len)
  PROVE  /\ DataTpdus(n, len)[j] \in Tpdu
         /\ DataTpdus(n, len)[j].tsdu = n
         /\ DataTpdus(n, len)[j].part = j
         /\ DataTpdus(n, len)[j].eot = (j = NumTpdus(len))
<1>1. \A i \in 1..NumTpdus(len) :
        /\ DataTpdus(n, len)[i] \in Tpdu
        /\ DataTpdus(n, len)[i].tsdu = n
        /\ DataTpdus(n, len)[i].part = i
        /\ DataTpdus(n, len)[i].eot = (i = NumTpdus(len))
  BY CutIntoTpdus
<1> QED BY <1>1

LEMMA GenuineTpdus ==
  ASSUME NEW tsdus \in Seq(Tsdus), NEW f, Genuine(f, tsdus)
  PROVE  /\ f \in Tpdu
         /\ f.tsdu \in 1..Len(tsdus)
         /\ f.part \in 1..NumTpdus(Length[tsdus[f.tsdu]])
         /\ f.eot = (f.part = NumTpdus(Length[tsdus[f.tsdu]]))
<1>1. f.tsdu \in 1..Len(tsdus) /\ Length[tsdus[f.tsdu]] \in Nat
  BY DEF Genuine
<1> DEFINE whole == DataTpdus(f.tsdu, Length[tsdus[f.tsdu]])
           num == NumTpdus(Length[tsdus[f.tsdu]])
<1>2. f.part \in DOMAIN whole /\ f = whole[f.part]
  BY DEF Genuine
<1>3. /\ whole \in Seq(Tpdu) /\ DOMAIN whole = 1..num
      /\ \A j \in 1..num : whole[j] \in Tpdu /\ whole[j].part = j /\ whole[j].eot = (j = num)
  <2>1. f.tsdu \in Nat
    BY <1>1
  <2>2. whole \in Seq(Tpdu) /\ DOMAIN whole = 1..num
    <3>1. \A n, len \in Nat : DataTpdus(n, len) \in Seq(Tpdu) /\ DOMAIN DataTpdus(n, len) = 1..NumTpdus(len)
      BY CutIntoTpdus
    <3> QED BY <1>1, <2>1, <3>1
  <2>3. ASSUME NEW j \in 1..num
        PROVE  whole[j] \in Tpdu /\ whole[j].part = j /\ whole[j].eot = (j = num)
    BY <1>1, <2>1, TpdusAreNumbered
  <2> QED BY <2>2, <2>3
<1> HIDE DEF whole, num
<1>4. whole[f.part] \in Tpdu
  BY <1>2, <1>3
<1>5. whole[f.part].eot = (f.part = num)
  BY <1>2, <1>3
<1> QED BY <1>1, <1>2, <1>3, <1>4, <1>5 DEF num

(* What was sent is not sent otherwise when more is sent.                  *)
LEMMA SendingKeepsTpdus ==
  ASSUME NEW tsdus \in Seq(Tsdus), NEW t \in Tsdus
  PROVE  /\ \A f : Genuine(f, tsdus) => Genuine(f, Append(tsdus, t))
         /\ \A j \in 1..NumTpdus(Length[t]) :
              Genuine(DataTpdus(Len(tsdus) + 1, Length[t])[j], Append(tsdus, t))
<1>1. /\ \A n \in DOMAIN tsdus : Append(tsdus, t)[n] = tsdus[n] /\ n \in DOMAIN Append(tsdus, t)
      /\ Append(tsdus, t)[Len(tsdus) + 1] = t /\ Len(tsdus) + 1 \in DOMAIN Append(tsdus, t)
      /\ Len(tsdus) \in Nat
  OBVIOUS
<1>2. \A f : Genuine(f, tsdus) => Genuine(f, Append(tsdus, t))
  BY <1>1 DEF Genuine
<1>3. ASSUME NEW j \in 1..NumTpdus(Length[t])
      PROVE  Genuine(DataTpdus(Len(tsdus) + 1, Length[t])[j], Append(tsdus, t))
  <2> DEFINE f == DataTpdus(Len(tsdus) + 1, Length[t])[j]
  <2>1. Length[t] \in Nat /\ Len(tsdus) + 1 \in Nat
    BY <1>1
  <2>2. DOMAIN DataTpdus(Len(tsdus) + 1, Length[t]) = 1..NumTpdus(Length[t])
    BY <2>1, CutIntoTpdus, Zenon
  <2>3. f.tsdu = Len(tsdus) + 1 /\ f.part = j
    BY <2>1, TpdusAreNumbered
  <2> HIDE DEF f
  <2> QED BY <1>1, <2>2, <2>3 DEF Genuine, f
<1> QED BY <1>2, <1>3

-----------------------------------------------------------------------------
LEMMA LinkInitIInv == LinkInit => LinkIInv
<1> SUFFICES ASSUME LinkInit PROVE LinkIInv
  OBVIOUS
<1> USE DEF LinkInit
<1>1. LinkTypeOK
  <2>1. sent \in Seq(Tsdus) /\ Len(sent) <= MaxSends /\ parts \in Seq(Tpdu) /\ received \in Seq(Seq(Tpdu))
    OBVIOUS
  <2>2. stream \in Seq([unit : {"header", "tpdu", "tail"}, tpdu : Tpdu])
    OBVIOUS
  <2>3. writing \in [Tasks -> Seq(Tpdu)]
    OBVIOUS
  <2>4. gathered \in 0..MaxTsduLen
    OBVIOUS
  <2>5. inPacket \in BOOLEAN /\ open \in BOOLEAN
    OBVIOUS
  <2> HIDE DEF LinkInit
  <2> QED BY <2>1, <2>2, <2>3, <2>4, <2>5 DEF LinkTypeOK
<1>2. WritersTakeTurns
  BY DEF WritersTakeTurns
<1>3. PacketsInOrder /\ WrittenFollows /\ ReaderInPacket /\ PartsContinue
  BY DEF PacketsInOrder, WrittenFollows, ReaderInPacket, PartsContinue
<1>4. Ahead = {}
  BY DEF Ahead
<1>5. AheadContinues /\ ReceivedAreEnds /\ ReceivedAscends
  BY <1>4 DEF AheadContinues, ReceivedAreEnds, ReceivedAscends
<1>6. NothingMissed
  BY <1>4 DEF NothingMissed, ReceivedAsSent, OutOfStep
<1> QED BY <1>1, <1>2, <1>3, <1>5, <1>6 DEF LinkIInv

(* The connection closes: nothing is read or written any more.             *)
LEMMA CloseIInv ==
  ASSUME LinkIInv, open' = FALSE, UNCHANGED <<sent, writing, stream, readerVars>>
  PROVE  LinkIInv'
<1> USE DEF LinkIInv, readerVars
<1>1. LinkTypeOK'
  BY DEF LinkTypeOK
<1>2. WritersTakeTurns'
  BY DEF WritersTakeTurns
<1>3. PacketsInOrder' /\ WrittenFollows' /\ ReaderInPacket' /\ PartsContinue'
  BY DEF PacketsInOrder, WrittenFollows, ReaderInPacket, PartsContinue
<1>4. AheadContinues'
  BY DEF AheadContinues, InStep
<1>5. ReceivedAreEnds' /\ ReceivedAscends'
  BY DEF ReceivedAreEnds, ReceivedAscends, IsEndOf, Whole
<1>6. NothingMissed'
  BY DEF NothingMissed, ReceivedAsSent, OutOfStep, Whole
<1> QED BY <1>1, <1>2, <1>3, <1>4, <1>5, <1>6

(* A write to a broken connection fails: nothing is ahead of the reader.   *)
LEMMA WriteFailsIInv ==
  ASSUME LinkIInv, NEW k \in Tasks, WriteFails(k)
  PROVE  LinkIInv'
<1> USE DEF LinkIInv, readerVars
<1>1. ~open' /\ UNCHANGED <<sent, stream, inPacket, parts, gathered, received, open>>
  BY DEF WriteFails
<1>2. writing' \in [Tasks -> Seq(Tpdu)] /\ writing'[k] = <<>>
      /\ \A j \in Tasks : j # k => writing'[j] = writing[j]
  BY DEF WriteFails, LinkTypeOK
<1>3. LinkTypeOK'
  BY <1>1, <1>2 DEF LinkTypeOK
<1>4. WritersTakeTurns'
  <2>1. \A i, j \in Tasks : writing'[i] # <<>> /\ writing'[j] # <<>> => i = j
    BY <1>2 DEF WritersTakeTurns
  <2>2. ASSUME NEW j \in Tasks, NEW i \in DOMAIN writing'[j]
        PROVE  writing'[j] = writing[j] /\ i \in DOMAIN writing[j]
    BY <1>2
  <2> QED BY <1>1, <2>1, <2>2 DEF WritersTakeTurns
<1>5. PacketsInOrder' /\ WrittenFollows' /\ ReaderInPacket' /\ PartsContinue'
  BY <1>1 DEF PacketsInOrder, WrittenFollows, ReaderInPacket, PartsContinue
<1>6. AheadContinues'
  BY <1>1 DEF AheadContinues, InStep
<1>7. ReceivedAreEnds' /\ ReceivedAscends'
  BY <1>1 DEF ReceivedAreEnds, ReceivedAscends, IsEndOf, Whole
<1>8. NothingMissed'
  BY <1>1 DEF NothingMissed, ReceivedAsSent, OutOfStep, Whole
<1> QED BY <1>3, <1>4, <1>5, <1>6, <1>7, <1>8

-----------------------------------------------------------------------------
Unit == [unit : {"header", "tpdu", "tail"}, tpdu : Tpdu]

LEMMA TailOf ==
  ASSUME NEW S, NEW q \in Seq(S), q # <<>>
  PROVE  /\ Len(q) \in Nat \ {0} /\ Len(Tail(q)) = Len(q) - 1 /\ Tail(q) \in Seq(S)
         /\ DOMAIN Tail(q) = 1..Len(q) - 1 /\ DOMAIN q = 1..Len(q)
         /\ \A i \in 1..Len(q) - 1 : Tail(q)[i] = q[i + 1]
  OBVIOUS

(* Taking the first unit off the stream leaves the others in order.        *)
LEMMA TakingKeepsPackets ==
  ASSUME LinkIInv, stream # <<>>, stream' = Tail(stream), UNCHANGED <<sent, writing, open>>
  PROVE  /\ PacketsInOrder' /\ WrittenFollows'
         /\ stream' \in Seq(Unit) /\ Len(stream') = Len(stream) - 1
         /\ \A i \in 1..Len(stream) - 1 : stream'[i] = stream[i + 1]
<1> USE DEF LinkIInv
<1>0. stream \in Seq(Unit)
  BY DEF LinkTypeOK, Unit
<1>1. /\ Len(stream) \in Nat \ {0} /\ Len(stream') = Len(stream) - 1 /\ stream' \in Seq(Unit)
      /\ DOMAIN stream' = 1..Len(stream) - 1 /\ DOMAIN stream = 1..Len(stream)
      /\ \A i \in 1..Len(stream) - 1 : stream'[i] = stream[i + 1]
  BY <1>0, TailOf
<1>2. stream' # <<>> => Len(stream) > 1 /\ stream'[Len(stream')] = stream[Len(stream)]
  BY <1>1
<1>3. PacketsInOrder'
  <2>1. \A i \in DOMAIN stream' : i + 1 \in DOMAIN stream /\ stream'[i] = stream[i + 1]
    BY <1>1
  <2>2. \A i \in DOMAIN stream' : Genuine(stream'[i].tpdu, sent') /\ stream'[i].unit # "tail"
    BY <1>1, <2>1 DEF PacketsInOrder
  <2>3. stream' # <<>> => stream'[Len(stream')].unit # "header"
    BY <1>2 DEF PacketsInOrder
  <2>4. ASSUME NEW i \in 1..Len(stream') - 1
        PROVE  /\ stream'[i].unit = "header" =>
                    stream'[i + 1].unit = "tpdu" /\ stream'[i + 1].tpdu = stream'[i].tpdu
               /\ stream'[i].unit = "tpdu" =>
                    stream'[i + 1].unit = "header" /\ Follows(stream'[i].tpdu, stream'[i + 1].tpdu)
    <3>1. i + 1 \in 1..Len(stream) - 1 /\ stream'[i] = stream[i + 1] /\ stream'[i + 1] = stream[(i + 1) + 1]
      BY <1>1
    <3> QED BY <3>1 DEF PacketsInOrder
  <2> QED BY <2>2, <2>3, <2>4 DEF PacketsInOrder
<1>4. WrittenFollows'
  BY <1>2 DEF WrittenFollows
<1> QED BY <1>1, <1>3, <1>4

LEMMA ReadHeaderIInv ==
  ASSUME LinkIInv, ReadHeader
  PROVE  LinkIInv'
<1> USE DEF LinkIInv, readerVars
<1>1. /\ ~inPacket /\ inPacket' /\ open /\ stream # <<>> /\ stream[1].unit = "header"
      /\ stream' = Tail(stream)
      /\ UNCHANGED <<sent, writing, parts, gathered, received, open>>
  BY DEF ReadHeader, UnitReady
<1>2. /\ PacketsInOrder' /\ WrittenFollows'
      /\ stream' \in Seq(Unit) /\ Len(stream') = Len(stream) - 1
      /\ \A i \in 1..Len(stream) - 1 : stream'[i] = stream[i + 1]
  BY <1>1, TakingKeepsPackets
<1>3. Len(stream) \in Nat /\ Len(stream) > 1
  BY <1>1 DEF PacketsInOrder, LinkTypeOK
<1>4. stream' # <<>> /\ stream'[1].unit = "tpdu" /\ stream'[1].tpdu = stream[1].tpdu
  BY <1>1, <1>2, <1>3 DEF PacketsInOrder
<1>5. LinkTypeOK'
  BY <1>1, <1>2 DEF LinkTypeOK, ReadHeader, Unit
<1>6. WritersTakeTurns' /\ ReaderInPacket' /\ PartsContinue'
  BY <1>1, <1>4 DEF WritersTakeTurns, ReaderInPacket, PartsContinue
<1>7. Ahead' = Ahead /\ InStep /\ ~OutOfStep'
  BY <1>1, <1>4 DEF Ahead, InStep, OutOfStep
<1>8. AheadContinues'
  BY <1>1, <1>7 DEF AheadContinues
<1>9. ReceivedAreEnds' /\ ReceivedAscends'
  BY <1>1 DEF ReceivedAreEnds, ReceivedAscends, IsEndOf, Whole
<1>10. NothingMissed'
  BY <1>1, <1>7 DEF NothingMissed, ReceivedAsSent, Whole
<1> QED BY <1>2, <1>5, <1>6, <1>8, <1>9, <1>10

(* The read is dropped: it goes on at the next packet, or never again.     *)
LEMMA DropReadIInv ==
  ASSUME LinkIInv, DropRead
  PROVE  LinkIInv'
<1> USE DEF LinkIInv
<1>1. /\ SelectLoop /\ open /\ ~inPacket' /\ parts' = <<>> /\ gathered' = 0
      /\ UNCHANGED <<sent, writing, received, open>>
  BY DEF DropRead
<1>2. WritersTakeTurns' /\ ReaderInPacket'
  BY <1>1 DEF WritersTakeTurns, ReaderInPacket
<1>3. PartsContinue' /\ ReceivedAreEnds' /\ ReceivedAscends' /\ NothingMissed'
  BY <1>1 DEF PartsContinue, ReceivedAreEnds, ReceivedAscends, IsEndOf, Whole, NothingMissed
<1>4. parts' \in Seq(Tpdu) /\ gathered' \in 0..MaxTsduLen /\ inPacket' \in BOOLEAN
  <2>1. parts' \in Seq(Tpdu)
    BY <1>1
  <2>2. gathered' \in 0..MaxTsduLen
    BY <1>1
  <2>3. inPacket' = FALSE
    BY DEF DropRead
  <2> QED BY <2>1, <2>2, <2>3
<1>5. CASE UNCHANGED stream
  <2>1. LinkTypeOK'
    BY <1>1, <1>4, <1>5 DEF LinkTypeOK
  <2>2. PacketsInOrder' /\ WrittenFollows'
    BY <1>1, <1>5 DEF PacketsInOrder, WrittenFollows
  <2>3. InStep' => InStep /\ Ahead' = Ahead
    BY <1>1, <1>5 DEF InStep, OutOfStep, Ahead, ReaderInPacket
  <2>4. AheadContinues'
    BY <1>1, <2>3 DEF AheadContinues
  <2> QED BY <1>2, <1>3, <2>1, <2>2, <2>4
<1>6. CASE stream # <<>> /\ stream' = [stream EXCEPT ![1].unit = "tail"]
  <2>1. stream \in Seq(Unit)
    BY DEF LinkTypeOK, Unit
  <2>2. /\ stream' \in Seq(Unit) /\ Len(stream') = Len(stream) /\ Len(stream) \in Nat \ {0}
        /\ stream'[1].unit = "tail" /\ stream'[1].tpdu = stream[1].tpdu
        /\ \A i \in DOMAIN stream : i # 1 => stream'[i] = stream[i]
        /\ DOMAIN stream' = DOMAIN stream /\ DOMAIN stream = 1..Len(stream)
    <3> DEFINE u == [stream[1] EXCEPT !.unit = "tail"]
    <3>1. Len(stream) \in Nat \ {0} /\ stream[1] \in Unit /\ DOMAIN stream = 1..Len(stream)
      BY <1>6, <2>1
    <3>2. u \in Unit /\ u.unit = "tail" /\ u.tpdu = stream[1].tpdu
      BY <3>1 DEF Unit
    <3>3. stream' = [stream EXCEPT ![1] = u]
      BY <1>6, <3>1
    <3> HIDE DEF u
    <3> QED BY <2>1, <3>1, <3>2, <3>3
  <2>3. LinkTypeOK'
    <3>1. stream' \in Seq(Unit)
      BY <2>2
    <3>2. /\ sent' \in Seq(Tsdus) /\ Len(sent') <= MaxSends /\ writing' \in [Tasks -> Seq(Tpdu)]
          /\ received' \in Seq(Seq(Tpdu)) /\ open' \in BOOLEAN
      BY <1>1 DEF LinkTypeOK
    <3> QED BY <1>4, <3>1, <3>2 DEF LinkTypeOK, Unit
  <2>4. ASSUME NEW i \in DOMAIN stream PROVE stream'[i].tpdu = stream[i].tpdu
    <3>1. CASE i = 1
      BY <2>2, <3>1
    <3>2. CASE i # 1
      BY <2>2, <3>2
    <3> QED BY <3>1, <3>2
  <2>5. PacketsInOrder'
    <3> DEFINE n == Len(stream)
    <3>1. /\ DOMAIN stream' = 1..n /\ DOMAIN stream = 1..n /\ Len(stream') = n /\ n \in Nat \ {0}
          /\ sent' = sent
      BY <1>1, <2>2
    <3>2. ASSUME NEW i \in 1..n PROVE Genuine(stream'[i].tpdu, sent')
      BY <2>4, <3>1, <3>2 DEF PacketsInOrder
    <3>3. ASSUME NEW i \in 1..n, i > 1 PROVE stream'[i].unit # "tail" /\ stream'[i] = stream[i]
      BY <2>2, <3>1, <3>3 DEF PacketsInOrder
    <3>4. stream'[n].unit # "header"
      <4>1. CASE n = 1
        BY <2>2, <4>1
      <4>2. CASE n > 1
        <5>1. stream'[n] = stream[n] /\ stream # <<>>
          BY <1>6, <3>1, <3>3, <4>2
        <5> QED BY <5>1 DEF PacketsInOrder
      <4> QED BY <3>1, <4>1, <4>2
    <3>5. ASSUME NEW i \in 1..n - 1
          PROVE  /\ stream'[i].unit = "header" =>
                      stream'[i + 1].unit = "tpdu" /\ stream'[i + 1].tpdu = stream'[i].tpdu
                 /\ stream'[i].unit = "tpdu" =>
                      /\ stream'[i + 1].unit = "header"
                      /\ Follows(stream'[i].tpdu, stream'[i + 1].tpdu)
      <4>1. CASE i = 1
        BY <2>2, <4>1
      <4>2. CASE i > 1
        <5>1. stream'[i] = stream[i] /\ stream'[i + 1] = stream[i + 1]
          BY <3>1, <3>3, <4>2
        <5> QED BY <5>1 DEF PacketsInOrder
      <4> QED BY <3>1, <4>1, <4>2
    <3> QED BY <3>1, <3>2, <3>3, <3>4, <3>5 DEF PacketsInOrder
  <2>6. WrittenFollows'
    BY <1>1, <1>6, <2>2, <2>4 DEF WrittenFollows
  <2>7. OutOfStep'
    BY <1>1, <1>6, <2>2 DEF OutOfStep
  <2>8. AheadContinues'
    BY <2>7 DEF AheadContinues, InStep
  <2> QED BY <1>2, <1>3, <2>3, <2>5, <2>6, <2>8
<1> QED BY <1>5, <1>6 DEF DropRead

-----------------------------------------------------------------------------
(* A TSDU more is sent: what was sent before, and received, stays.         *)
LEMMA StartSendIInv ==
  ASSUME LinkIInv, NEW k \in Tasks, NEW t \in Tsdus, StartSend(k, t)
  PROVE  LinkIInv'
<1> USE DEF LinkIInv
<1> DEFINE n == Len(sent) + 1
           cut == DataTpdus(n, Length[t])
           num == NumTpdus(Length[t])
<1>1. /\ \A j \in Tasks : writing[j] = <<>>
      /\ sent' = Append(sent, t) /\ Len(sent) < MaxSends /\ writing' = [writing EXCEPT ![k] = cut]
      /\ UNCHANGED <<stream, inPacket, parts, gathered, received, open>>
  BY DEF StartSend, readerVars
<1>2. /\ sent' \in Seq(Tsdus) /\ Len(sent') = n /\ n \in Nat \ {0} /\ n <= MaxSends
      /\ DOMAIN sent = 1..n - 1 /\ DOMAIN sent' = 1..n
      /\ \A i \in 1..n - 1 : sent'[i] = sent[i]
  BY <1>1 DEF LinkTypeOK
<1>3. /\ \A f : Genuine(f, sent) => Genuine(f, sent')
      /\ \A j \in 1..num : Genuine(cut[j], sent')
  BY <1>1, SendingKeepsTpdus DEF LinkTypeOK
<1>4. /\ cut \in Seq(Tpdu) /\ Len(cut) = num /\ num \in Nat \ {0} /\ DOMAIN cut = 1..num
      /\ \A j \in 1..num : cut[j].tsdu = n /\ cut[j].part = j /\ cut[j].eot = (j = num)
  <2>1. Length[t] \in Nat
    OBVIOUS
  <2> HIDE DEF n
  <2>2. cut \in Seq(Tpdu) /\ Len(cut) = num /\ num \in Nat \ {0} /\ DOMAIN cut = 1..num
    BY <1>2, <2>1, CutIntoTpdus
  <2>3. \A j \in 1..num : cut[j].tsdu = n /\ cut[j].part = j /\ cut[j].eot = (j = num)
    BY <1>2, <2>1, TpdusAreNumbered
  <2> QED BY <2>2, <2>3
<1> HIDE DEF n, cut, num
<1>5. writing' \in [Tasks -> Seq(Tpdu)] /\ writing'[k] = cut /\ \A j \in Tasks : j # k => writing'[j] = <<>>
  BY <1>1, <1>4 DEF LinkTypeOK
<1>6. LinkTypeOK'
  BY <1>1, <1>2, <1>5 DEF LinkTypeOK
<1>7. WritersTakeTurns'
  <2>1. \A i, j \in Tasks : writing'[i] # <<>> /\ writing'[j] # <<>> => i = j
    BY <1>5
  <2>2. ASSUME NEW j \in Tasks, NEW i \in DOMAIN writing'[j]
        PROVE  /\ Genuine(writing'[j][i], sent') /\ writing'[j][i].tsdu = Len(sent')
               /\ IF i = Len(writing'[j]) THEN writing'[j][i].eot
                  ELSE ~writing'[j][i].eot /\ writing'[j][i + 1].part = writing'[j][i].part + 1
    <3>1. j = k /\ writing'[j] = cut /\ i \in 1..num
      BY <1>4, <1>5
    <3>2. i # num => i + 1 \in 1..num
      BY <1>4, <3>1
    <3>3. Genuine(cut[i], sent') /\ cut[i].tsdu = Len(sent')
      BY <1>2, <1>3, <1>4, <3>1
    <3>4. CASE i = num
      BY <1>4, <3>1, <3>3, <3>4
    <3>5. CASE i # num
      <4>1. cut[i].part = i /\ cut[i + 1].part = i + 1 /\ ~cut[i].eot
        BY <1>4, <3>1, <3>2, <3>5
      <4> QED BY <1>4, <3>1, <3>3, <3>5, <4>1
    <3> QED BY <3>4, <3>5
  <2> QED BY <2>1, <2>2 DEF WritersTakeTurns
<1>8. PacketsInOrder'
  BY <1>1, <1>3 DEF PacketsInOrder
<1>9. cut # <<>> /\ cut[1].tsdu = n /\ cut[1].part = 1
  BY <1>4
<1>10. WrittenFollows'
  BY <1>1, <1>2, <1>5, <1>9 DEF WrittenFollows, Follows, n
<1>11. ReaderInPacket' /\ PartsContinue'
  BY <1>1, <1>3 DEF ReaderInPacket, PartsContinue
<1>12. stream = <<>> => Ahead = {} /\ Ahead' = {cut[1]}
  BY <1>1, <1>5, <1>9 DEF Ahead
<1>13. stream # <<>> => Ahead' = Ahead /\ Ahead # {}
  BY <1>1 DEF Ahead
<1>14. (InStep' <=> InStep) /\ (OutOfStep' <=> OutOfStep)
  BY <1>1 DEF InStep, OutOfStep
<1>15. AheadContinues'
  <2>1. \A i \in DOMAIN received : received[i][1].tsdu < n
    BY <1>2 DEF ReceivedAreEnds
  <2>2. CASE stream = <<>>
    BY <1>1, <1>9, <1>12, <1>14, <2>1, <2>2 DEF AheadContinues
  <2>3. CASE stream # <<>>
    BY <1>1, <1>13, <1>14, <2>3 DEF AheadContinues
  <2> QED BY <2>2, <2>3
<1>16. \A i \in DOMAIN sent : Whole(i)' = Whole(i)
  BY <1>2 DEF Whole
<1>17. ReceivedAreEnds' /\ ReceivedAscends'
  <2>1. ASSUME NEW i \in DOMAIN received
        PROVE  /\ received[i] # <<>> /\ received[i][1].tsdu \in DOMAIN sent'
               /\ IsEndOf(received[i], received[i][1].tsdu)'
    <3>1. /\ received[i] # <<>> /\ received[i][1].tsdu \in DOMAIN sent
          /\ IsEndOf(received[i], received[i][1].tsdu)
      BY DEF ReceivedAreEnds
    <3>2. received[i][1].tsdu \in DOMAIN sent'
      BY <1>2, <3>1
    <3>3. Whole(received[i][1].tsdu)' = Whole(received[i][1].tsdu)
      BY <1>1, <1>2, <3>1 DEF Whole
    <3> QED BY <1>1, <3>1, <3>2, <3>3 DEF IsEndOf
  <2>2. ReceivedAreEnds'
    BY <1>1, <2>1 DEF ReceivedAreEnds
  <2>3. ReceivedAscends'
    BY <1>1 DEF ReceivedAscends
  <2> QED BY <2>2, <2>3
<1>18. NothingMissed'
  <2> SUFFICES ASSUME ~SelectLoop
               PROVE /\ ReceivedAsSent'
                     /\ ~OutOfStep'
                     /\ parts' # <<>> => parts'[1].tsdu = Len(received') + 1 /\ parts'[1].part = 1
                     /\ open' /\ parts' = <<>> => \A f \in Ahead' : f.tsdu = Len(received') + 1 /\ f.part = 1
                     /\ open' /\ Ahead' = {} => Len(received') = Len(sent')
    BY DEF NothingMissed
  <2>1. ReceivedAsSent'
    <3>1. ReceivedAsSent /\ DOMAIN received = 1..Len(received) /\ Len(received) \in Nat
      BY DEF NothingMissed, LinkTypeOK
    <3>2. \A i \in DOMAIN received : i \in DOMAIN sent
      BY <1>2, <3>1 DEF ReceivedAsSent, LinkTypeOK
    <3>3. \A i \in DOMAIN received : received[i] = Whole(i)'
      BY <1>16, <3>1, <3>2 DEF ReceivedAsSent
    <3>4. Len(received) <= Len(sent')
      BY <1>2, <3>1 DEF ReceivedAsSent, n, LinkTypeOK
    <3> QED BY <1>1, <3>3, <3>4 DEF ReceivedAsSent
  <2>2. CASE stream = <<>>
    BY <1>1, <1>9, <1>12, <1>14, <2>1, <2>2 DEF NothingMissed, n
  <2>3. CASE stream # <<>>
    BY <1>1, <1>13, <1>14, <2>1, <2>3 DEF NothingMissed
  <2> QED BY <2>2, <2>3
<1> QED BY <1>6, <1>7, <1>8, <1>10, <1>11, <1>15, <1>17, <1>18

(* The next TPDU of the writer goes behind what is on the stream.          *)
LEMMA WriteTpduIInv ==
  ASSUME LinkIInv, NEW k \in Tasks, WriteTpdu(k)
  PROVE  LinkIInv'
<1> USE DEF LinkIInv
<1> DEFINE f == writing[k][1]
           len == Len(stream)
           left == Len(writing[k])
<1>1. /\ open /\ writing[k] # <<>> /\ stream' = stream \o Packet(Head(writing[k]))
      /\ writing' = [writing EXCEPT ![k] = Tail(@)]
      /\ UNCHANGED <<sent, inPacket, parts, gathered, received, open>>
  BY DEF WriteTpdu, readerVars
<1>2. /\ writing[k] \in Seq(Tpdu) /\ left \in Nat \ {0} /\ f \in Tpdu /\ Head(writing[k]) = f
      /\ DOMAIN writing[k] = 1..left /\ stream \in Seq(Unit) /\ len \in Nat /\ DOMAIN stream = 1..len
  BY <1>1 DEF LinkTypeOK, Unit
<1>3. /\ writing' \in [Tasks -> Seq(Tpdu)] /\ writing'[k] = Tail(writing[k])
      /\ \A j \in Tasks : j # k => writing'[j] = <<>> /\ writing[j] = <<>>
      /\ Len(writing'[k]) = left - 1 /\ DOMAIN writing'[k] = 1..left - 1
      /\ \A i \in 1..left - 1 : writing'[k][i] = writing[k][i + 1]
  <2>1. Tail(writing[k]) \in Seq(Tpdu)
    BY <1>1, <1>2
  <2>2. \A j \in Tasks : j # k => writing[j] = <<>>
    BY <1>1 DEF WritersTakeTurns
  <2>3. writing' \in [Tasks -> Seq(Tpdu)] /\ writing'[k] = Tail(writing[k])
        /\ \A j \in Tasks : j # k => writing'[j] = writing[j]
    BY <1>1, <2>1 DEF LinkTypeOK
  <2>4. /\ Len(Tail(writing[k])) = left - 1 /\ DOMAIN Tail(writing[k]) = 1..left - 1
        /\ \A i \in 1..left - 1 : Tail(writing[k])[i] = writing[k][i + 1]
    BY <1>1, <1>2, TailOf
  <2> HIDE DEF left
  <2>5. \A j \in Tasks : j # k => writing'[j] = <<>> /\ writing[j] = <<>>
    BY <2>2, <2>3
  <2> QED BY <2>3, <2>4, <2>5, Zenon
<1>4. Genuine(f, sent) /\ f.tsdu = Len(sent)
      /\ IF left = 1 THEN f.eot ELSE ~f.eot /\ writing[k][2].part = f.part + 1 /\ writing[k][2].tsdu = Len(sent)
  <2>1. 1 \in DOMAIN writing[k] /\ (left # 1 => 2 \in DOMAIN writing[k])
    <3> HIDE DEF f, len, left
    <3> QED BY <1>2
  <2>2. Genuine(f, sent) /\ f.tsdu = Len(sent)
    BY <2>1 DEF WritersTakeTurns
  <2>3. CASE left = 1
    BY <2>1, <2>2, <2>3 DEF WritersTakeTurns
  <2>4. CASE left # 1
    <3>1. ~f.eot /\ writing[k][1 + 1].part = f.part + 1
      BY <2>1, <2>4 DEF WritersTakeTurns
    <3>2. writing[k][2].tsdu = Len(sent)
      BY <2>1, <2>4 DEF WritersTakeTurns
    <3> QED BY <2>2, <2>4, <3>1, <3>2
  <2> QED BY <2>3, <2>4
<1>5. /\ stream' \in Seq(Unit) /\ Len(stream') = len + 2 /\ DOMAIN stream' = 1..len + 2
      /\ \A i \in 1..len : stream'[i] = stream[i]
      /\ stream'[len + 1] = [unit |-> "header", tpdu |-> f]
      /\ stream'[len + 2] = [unit |-> "tpdu", tpdu |-> f]
  <2> DEFINE h == [unit |-> "header", tpdu |-> f]
             u == [unit |-> "tpdu", tpdu |-> f]
  <2>1. h \in Unit /\ u \in Unit
    BY <1>2 DEF Unit
  <2>2. stream' = stream \o <<h, u>>
    BY <1>1, <1>2 DEF Packet
  <2> HIDE DEF h, u
  <2>3. <<h, u>> \in Seq(Unit) /\ Len(<<h, u>>) = 2 /\ <<h, u>>[1] = h /\ <<h, u>>[2] = u
    BY <2>1
  <2>4. /\ stream' \in Seq(Unit) /\ Len(stream') = len + 2
        /\ \A i \in 1..len + 2 : stream'[i] = IF i <= len THEN stream[i] ELSE <<h, u>>[i - len]
    BY <1>2, <2>2, <2>3, ConcatProperties
  <2>5. stream'[len + 1] = h /\ stream'[len + 2] = u
    <3>1. (len + 1) - len = 1 /\ (len + 2) - len = 2 /\ len + 1 \in 1..len + 2 /\ len + 2 \in 1..len + 2
          /\ ~(len + 1 <= len) /\ ~(len + 2 <= len)
      BY <1>2
    <3> QED BY <2>3, <2>4, <3>1
  <2>6. \A i \in 1..len : stream'[i] = stream[i]
    BY <1>2, <2>4
  <2>7. DOMAIN stream' = 1..len + 2
    BY <2>4
  <2> QED BY <2>4, <2>5, <2>6, <2>7 DEF h, u
<1> HIDE DEF f, len, left
<1>6. LinkTypeOK'
  BY <1>1, <1>3, <1>5 DEF LinkTypeOK, Unit
<1>7. WritersTakeTurns'
  <2>1. \A i, j \in Tasks : writing'[i] # <<>> /\ writing'[j] # <<>> => i = j
    BY <1>3
  <2>2. ASSUME NEW j \in Tasks, NEW i \in DOMAIN writing'[j]
        PROVE  /\ Genuine(writing'[j][i], sent') /\ writing'[j][i].tsdu = Len(sent')
               /\ IF i = Len(writing'[j]) THEN writing'[j][i].eot
                  ELSE ~writing'[j][i].eot /\ writing'[j][i + 1].part = writing'[j][i].part + 1
    <3>1. j = k /\ i \in 1..left - 1 /\ i + 1 \in DOMAIN writing[k] /\ (i = left - 1 <=> i + 1 = left)
      BY <1>2, <1>3
    <3>2. writing'[k][i] = writing[k][i + 1] /\ (i # left - 1 => writing'[k][i + 1] = writing[k][(i + 1) + 1])
      BY <1>2, <1>3, <3>1
    <3>3. /\ Genuine(writing[k][i + 1], sent) /\ writing[k][i + 1].tsdu = Len(sent)
          /\ IF i + 1 = left THEN writing[k][i + 1].eot
             ELSE ~writing[k][i + 1].eot /\ writing[k][(i + 1) + 1].part = writing[k][i + 1].part + 1
      BY <3>1 DEF WritersTakeTurns, left
    <3> QED BY <1>1, <1>3, <3>1, <3>2, <3>3
  <2> QED BY <2>1, <2>2 DEF WritersTakeTurns
<1>8. PacketsInOrder'
  <2>1. ASSUME NEW i \in DOMAIN stream'
        PROVE  Genuine(stream'[i].tpdu, sent') /\ (i > 1 => stream'[i].unit # "tail")
    <3>1. CASE i \in 1..len
      BY <1>1, <1>2, <1>5, <3>1 DEF PacketsInOrder
    <3>2. CASE i = len + 1 \/ i = len + 2
      BY <1>1, <1>4, <1>5, <3>2
    <3> QED BY <1>2, <1>5, <3>1, <3>2
  <2>2. stream'[Len(stream')].unit # "header"
    BY <1>5
  <2>3. ASSUME NEW i \in 1..Len(stream') - 1
        PROVE  /\ stream'[i].unit = "header" =>
                    stream'[i + 1].unit = "tpdu" /\ stream'[i + 1].tpdu = stream'[i].tpdu
               /\ stream'[i].unit = "tpdu" =>
                    stream'[i + 1].unit = "header" /\ Follows(stream'[i].tpdu, stream'[i + 1].tpdu)
    <3>1. CASE i \in 1..len - 1
      <4>1. i \in 1..len /\ i + 1 \in 1..len
        BY <1>2, <3>1
      <4>2. stream'[i] = stream[i] /\ stream'[i + 1] = stream[i + 1]
        BY <1>5, <4>1
      <4> QED BY <3>1, <4>2 DEF PacketsInOrder, len
    <3>2. CASE i = len
      <4>1. len \in 1..len /\ stream # <<>> /\ stream'[i] = stream[len] /\ stream'[i + 1] = [unit |-> "header", tpdu |-> f]
        BY <1>2, <1>5, <3>2 DEF len
      <4>2. stream[len].unit # "header" /\ Follows(stream[len].tpdu, f)
        BY <1>1, <4>1 DEF PacketsInOrder, WrittenFollows, len, f
      <4> QED BY <4>1, <4>2
    <3>3. CASE i = len + 1
      <4>1. i + 1 = len + 2
        BY <1>2, <3>3
      <4> QED BY <1>5, <3>3, <4>1
    <3> QED BY <1>2, <1>5, <3>1, <3>2, <3>3
  <2> QED BY <2>1, <2>2, <2>3 DEF PacketsInOrder
<1>9. WrittenFollows'
  <2>1. stream'[Len(stream')].tpdu = f
    BY <1>2, <1>5
  <2>2. CASE left = 1
    <3>1. \A j \in Tasks : writing'[j] = <<>>
      <4>1. writing'[k] \in Seq(Tpdu)
        BY <1>3
      <4>2. Len(writing'[k]) = 0
        BY <1>3, <2>2
      <4> QED BY <1>3, <4>1, <4>2
    <3> QED BY <1>1, <1>4, <2>1, <2>2, <3>1 DEF WrittenFollows
  <2>3. CASE left # 1
    <3>1. writing'[k] # <<>> /\ writing'[k][1] = writing[k][2]
      <4>1. 1 \in 1..left - 1
        BY <1>2, <2>3
      <4>2. writing'[k][1] = writing[k][1 + 1]
        BY <1>3, <4>1
      <4> QED BY <1>3, <4>1, <4>2
    <3>2. Follows(f, writing'[k][1])
      BY <1>4, <2>3, <3>1 DEF Follows
    <3> QED BY <1>3, <2>1, <3>1, <3>2 DEF WrittenFollows
  <2> QED BY <2>2, <2>3
<1>10. /\ stream' # <<>>
       /\ stream # <<>> => stream'[1] = stream[1]
       /\ stream = <<>> => stream'[1] = [unit |-> "header", tpdu |-> f] /\ ~inPacket
  <2>0. stream' # <<>>
    BY <1>2, <1>5
  <2>1. CASE stream = <<>>
    <3>1. len = 0 /\ len + 1 = 1 /\ ~inPacket
      BY <2>1 DEF len, ReaderInPacket
    <3> QED BY <1>5, <2>0, <2>1, <3>1
  <2>2. CASE stream # <<>>
    <3>1. 1 \in 1..len
      BY <1>2, <2>2 DEF len
    <3> QED BY <1>5, <2>0, <2>2, <3>1
  <2> QED BY <2>1, <2>2
<1>11. Ahead' = Ahead /\ Ahead # {}
  <2>1. CASE stream = <<>>
    <3>1. {j \in Tasks : writing[j] # <<>>} = {k}
      BY <1>1, <1>3
    <3>2. Ahead = {f}
      BY <2>1, <3>1 DEF Ahead, f
    <3>3. Ahead' = {f}
      BY <1>10, <2>1 DEF Ahead
    <3> QED BY <3>2, <3>3
  <2>2. CASE stream # <<>>
    BY <1>10, <2>2 DEF Ahead
  <2> QED BY <2>1, <2>2
<1>12. (InStep' <=> InStep) /\ (OutOfStep' <=> OutOfStep)
  BY <1>1, <1>10 DEF InStep, OutOfStep
<1>13. ReaderInPacket' /\ PartsContinue'
  BY <1>1, <1>10 DEF ReaderInPacket, PartsContinue
<1>14. AheadContinues'
  BY <1>1, <1>11, <1>12 DEF AheadContinues
<1>15. ReceivedAreEnds' /\ ReceivedAscends'
  BY <1>1 DEF ReceivedAreEnds, ReceivedAscends, IsEndOf, Whole
<1>16. NothingMissed'
  BY <1>1, <1>11, <1>12 DEF NothingMissed, ReceivedAsSent, Whole
<1> QED BY <1>6, <1>7, <1>8, <1>9, <1>13, <1>14, <1>15, <1>16

-----------------------------------------------------------------------------
(* What the reader has with the TPDU that it reads are TPDUs of one TSDU,  *)
(* one behind the other.                                                   *)
OneTsdu(ps, f) ==
  /\ ps \in Seq(Tpdu) /\ Len(ps) \in Nat \ {0} /\ ps[Len(ps)] = f
  /\ \A i \in 1..Len(ps) :
       /\ Genuine(ps[i], sent) /\ ps[i].tsdu = f.tsdu
       /\ ps[i].part = ps[1].part + i - 1
       /\ i # Len(ps) => ~ps[i].eot

LEMMA PutTogether ==
  ASSUME LinkIInv, InStep, NEW f \in Ahead, Genuine(f, sent)
  PROVE  /\ OneTsdu(Append(parts, f), f)
         /\ Append(parts, f)[1] = IF parts = <<>> THEN f ELSE parts[1]
<1> USE DEF LinkIInv
<1> DEFINE ps == Append(parts, f)
           len == Len(parts)
<1>1. /\ parts \in Seq(Tpdu) /\ len \in Nat /\ DOMAIN parts = 1..len
      /\ sent \in Seq(Tsdus) /\ (parts = <<>> <=> len = 0)
  BY DEF LinkTypeOK
<1>2. f \in Tpdu /\ f.tsdu \in Nat /\ f.part \in Nat
  <2>1. f \in Tpdu
    BY <1>1, GenuineTpdus
  <2> QED BY <2>1 DEF Tpdu
<1>3. ps \in Seq(Tpdu) /\ Len(ps) = len + 1 /\ ps[len + 1] = f /\ \A i \in 1..len : ps[i] = parts[i]
  BY <1>1, <1>2
<1>4. ASSUME NEW i \in 1..len
      PROVE  /\ Genuine(parts[i], sent) /\ ~parts[i].eot
             /\ parts[i].tsdu = parts[1].tsdu /\ parts[i].part = parts[1].part + i - 1
  BY <1>1 DEF PartsContinue
<1>5. len # 0 => /\ f.tsdu = parts[1].tsdu /\ f.part = parts[1].part + len
                 /\ parts[1].part \in Nat
  <2> SUFFICES ASSUME len # 0
               PROVE  /\ f.tsdu = parts[1].tsdu /\ f.part = parts[1].part + len
                      /\ parts[1].part \in Nat
    OBVIOUS
  <2>1. Follows(parts[len], f)
    BY <1>1 DEF AheadContinues
  <2>2. len \in 1..len /\ 1 \in 1..len
    BY <1>1
  <2>3. parts[1].part \in Nat
    <3>1. parts[1] \in Tpdu
      BY <1>1, <2>2
    <3> QED BY <3>1 DEF Tpdu
  <2>4. /\ ~parts[len].eot
        /\ parts[len].tsdu = parts[1].tsdu /\ parts[len].part = parts[1].part + len - 1
    BY <1>4, <2>2
  <2> HIDE DEF len
  <2> QED BY <1>1, <2>1, <2>3, <2>4 DEF Follows
<1> HIDE DEF ps, len
<1>6. ps[1] = IF parts = <<>> THEN f ELSE parts[1]
  <2>1. CASE len = 0
    BY <1>1, <1>3, <2>1
  <2>2. CASE len # 0
    BY <1>1, <1>3, <2>2
  <2> QED BY <2>1, <2>2
<1>7. ASSUME NEW i \in 1..Len(ps)
      PROVE  /\ Genuine(ps[i], sent) /\ ps[i].tsdu = f.tsdu
             /\ ps[i].part = ps[1].part + i - 1
             /\ i # Len(ps) => ~ps[i].eot
  <2>1. CASE i \in 1..len
    <3>1. len # 0 /\ parts # <<>> /\ i # Len(ps) /\ ps[i] = parts[i]
      BY <1>1, <1>3, <2>1
    <3> QED BY <1>4, <1>5, <1>6, <2>1, <3>1
  <2>2. CASE i = len + 1 /\ len = 0
    BY <1>1, <1>2, <1>3, <1>6, <2>2
  <2>3. CASE i = len + 1 /\ len # 0
    <3>1. ps[i] = f /\ i = Len(ps) /\ ps[1] = parts[1]
      BY <1>1, <1>3, <1>6, <2>3
    <3>2. parts[1].part + len = parts[1].part + (len + 1) - 1
      BY <1>1, <1>5, <2>3
    <3> QED BY <1>5, <2>3, <3>1, <3>2
  <2> QED BY <1>1, <1>3, <2>1, <2>2, <2>3
<1>8. Len(ps) \in Nat \ {0} /\ ps[Len(ps)] = f
  BY <1>1, <1>3
<1> QED BY <1>3, <1>6, <1>7, <1>8 DEF OneTsdu, ps

(* With the last TPDU of the TSDU, it is an end of that.                   *)
LEMMA TogetherAreAnEnd ==
  ASSUME sent \in Seq(Tsdus), NEW f, Genuine(f, sent), f.eot, NEW ps, OneTsdu(ps, f)
  PROVE  /\ ps[1].part \in DOMAIN Whole(f.tsdu)
         /\ ps = SubSeq(Whole(f.tsdu), ps[1].part, Len(Whole(f.tsdu)))
         /\ ps[1].part = 1 => ps = Whole(f.tsdu)
<1> DEFINE n == f.tsdu
           whole == DataTpdus(n, Length[sent[n]])
           num == NumTpdus(Length[sent[n]])
           from == ps[1].part
<1>1. n \in 1..Len(sent) /\ n \in Nat /\ Length[sent[n]] \in Nat
  <2>1. n \in 1..Len(sent)
    BY GenuineTpdus
  <2> QED BY <2>1
<1>2. whole \in Seq(Tpdu) /\ Len(whole) = num /\ DOMAIN whole = 1..num /\ num \in Nat \ {0}
  <2>1. \A m, len \in Nat :
          /\ DataTpdus(m, len) \in Seq(Tpdu) /\ Len(DataTpdus(m, len)) = NumTpdus(len)
          /\ DOMAIN DataTpdus(m, len) = 1..NumTpdus(len) /\ NumTpdus(len) \in Nat \ {0}
    BY CutIntoTpdus
  <2> QED BY <1>1, <2>1
<1>3. f.part = num
  BY GenuineTpdus
<1>4. 1 \in 1..Len(ps) /\ Len(ps) \in 1..Len(ps) /\ ps \in Seq(Tpdu) /\ Len(ps) \in Nat \ {0}
  BY DEF OneTsdu
<1>5. from \in 1..num /\ from + Len(ps) - 1 = num
  <2>1. ps[1] \in Tpdu /\ Genuine(ps[1], sent) /\ ps[1].tsdu = n
    BY <1>4 DEF OneTsdu
  <2>2. from \in 1..num
    BY <2>1, GenuineTpdus
  <2>3. ps[Len(ps)].part = from + Len(ps) - 1 /\ ps[Len(ps)] = f
    BY <1>4 DEF OneTsdu
  <2> QED BY <1>3, <2>2, <2>3
<1>6. ASSUME NEW i \in 1..Len(ps)
      PROVE  ps[i] = whole[from + i - 1] /\ from + i - 1 \in 1..num
  <2>1. Genuine(ps[i], sent) /\ ps[i].tsdu = n /\ ps[i].part = from + i - 1
    BY DEF OneTsdu
  <2>2. ps[i] = whole[from + i - 1]
    BY <2>1 DEF Genuine
  <2> HIDE DEF n, num, from
  <2>3. from + i - 1 \in 1..num
    BY <1>2, <1>4, <1>5
  <2> QED BY <2>2, <2>3
<1> HIDE DEF n, num, whole, from
<1>7. ps = SubSeq(whole, from, num)
  <2>1. \A i \in from..num : whole[i] \in Tpdu
    BY <1>2, <1>5
  <2>2. /\ SubSeq(whole, from, num) \in Seq(Tpdu)
        /\ Len(SubSeq(whole, from, num)) = num - from + 1
        /\ \A i \in 1..num - from + 1 : SubSeq(whole, from, num)[i] = whole[from + i - 1]
    BY <1>2, <1>5, <2>1, SubSeqProperties
  <2>3. num - from + 1 = Len(ps)
    BY <1>2, <1>4, <1>5
  <2> QED BY <1>4, <1>6, <2>2, <2>3, SeqEqual
<1>8. from = 1 => ps = whole
  <2> SUFFICES ASSUME from = 1 PROVE ps = whole
    OBVIOUS
  <2>1. Len(ps) = num
    BY <1>2, <1>4, <1>5
  <2>2. \A i \in 1..Len(ps) : ps[i] = whole[i]
    BY <1>4, <1>6
  <2> QED BY <1>2, <1>4, <2>1, <2>2, SeqEqual
<1> QED BY <1>2, <1>5, <1>7, <1>8 DEF whole, n, from, Whole

LEMMA ReadTpduIInv ==
  ASSUME LinkIInv, ReadTpdu
  PROVE  LinkIInv'
<1> USE DEF LinkIInv
<1>0. PICK f, ps : f = stream[1].tpdu /\ ps = Append(parts, f)
  OBVIOUS
<1>1. /\ inPacket /\ ~inPacket' /\ open /\ stream # <<>> /\ stream[1].unit = "tpdu"
      /\ gathered + f.size <= MaxTsduLen /\ stream' = Tail(stream)
      /\ parts' = (IF f.eot THEN <<>> ELSE ps)
      /\ gathered' = (IF f.eot THEN 0 ELSE gathered + f.size)
      /\ received' = (IF f.eot THEN Append(received, ps) ELSE received)
      /\ UNCHANGED <<sent, writing, open>>
  BY <1>0 DEF ReadTpdu, UnitReady
<1>2. /\ PacketsInOrder' /\ WrittenFollows'
      /\ stream' \in Seq(Unit) /\ Len(stream') = Len(stream) - 1
      /\ \A i \in 1..Len(stream) - 1 : stream'[i] = stream[i + 1]
  BY <1>1, TakingKeepsPackets
<1>3. Len(stream) \in Nat \ {0} /\ 1 \in DOMAIN stream /\ sent \in Seq(Tsdus)
  BY <1>1 DEF LinkTypeOK
<1>4. /\ Genuine(f, sent) /\ f \in Tpdu /\ f.tsdu \in Nat /\ f.size \in Nat /\ f.tsdu \in DOMAIN sent
      /\ f.tsdu <= Len(sent)
  <2>1. Genuine(f, sent)
    BY <1>0, <1>3 DEF PacketsInOrder
  <2>2. f \in Tpdu /\ f.tsdu \in 1..Len(sent)
    BY <1>3, <2>1, GenuineTpdus
  <2> QED BY <1>3, <2>1, <2>2 DEF Tpdu
<1>5. InStep /\ f \in Ahead /\ Ahead = {f}
  BY <1>0, <1>1 DEF InStep, OutOfStep, Ahead
<1>6. OneTsdu(ps, f) /\ ps[1] = IF parts = <<>> THEN f ELSE parts[1]
  BY <1>0, <1>4, <1>5, PutTogether
<1>7. /\ ps \in Seq(Tpdu) /\ ps # <<>> /\ Len(ps) \in Nat \ {0} /\ 1 \in 1..Len(ps)
      /\ DOMAIN ps = 1..Len(ps) /\ ps[Len(ps)] = f /\ ps[1].tsdu = f.tsdu
  BY <1>6 DEF OneTsdu
<1>8. \A i \in DOMAIN received : received[i][1].tsdu < f.tsdu
  BY <1>5 DEF AheadContinues
<1>9. /\ ~OutOfStep' /\ InStep'
      /\ \A g \in Ahead' : Follows(f, g)
      /\ Ahead' = {} => f.eot /\ f.tsdu = Len(sent)
  <2>1. CASE Len(stream) = 1
    <3>1. stream' = <<>>
      BY <1>2, <2>1
    <3>2. /\ \A k \in Tasks : writing[k] # <<>> => Follows(f, writing[k][1])
          /\ (\A k \in Tasks : writing[k] = <<>>) => f.eot /\ f.tsdu = Len(sent)
      BY <1>0, <1>1, <2>1 DEF WrittenFollows
    <3>3. Ahead' = {writing[k][1] : k \in {j \in Tasks : writing[j] # <<>>}}
      BY <1>1, <3>1 DEF Ahead
    <3>4. \A g \in Ahead' : Follows(f, g)
      BY <3>2, <3>3
    <3>5. Ahead' = {} => f.eot /\ f.tsdu = Len(sent)
      BY <3>2, <3>3
    <3> QED BY <1>1, <3>1, <3>4, <3>5 DEF OutOfStep, InStep
  <2>2. CASE Len(stream) # 1
    <3>1. stream' # <<>> /\ stream'[1] = stream[2] /\ 1 \in 1..Len(stream) - 1
      <4>1. 1 \in 1..Len(stream) - 1
        <5>1. \A len \in Nat \ {0} : len # 1 => 1 \in 1..len - 1
          OBVIOUS
        <5> QED BY <1>3, <2>2, <5>1, Zenon
      <4>2. stream'[1] = stream[1 + 1]
        BY <1>2, <4>1
      <4> QED BY <1>2, <1>3, <2>2, <4>1, <4>2
    <3>2. stream[1 + 1].unit = "header" /\ Follows(f, stream[1 + 1].tpdu)
      BY <1>0, <1>1, <3>1 DEF PacketsInOrder
    <3>3. Ahead' = {stream[2].tpdu}
      BY <3>1 DEF Ahead
    <3>4. 1 + 1 = 2
      OBVIOUS
    <3>5. ~OutOfStep'
      BY <3>1, <3>2, <3>4 DEF OutOfStep
    <3>6. \A g \in Ahead' : Follows(f, g)
      BY <3>2, <3>3, <3>4
    <3>7. Ahead' # {}
      BY <3>3
    <3> QED BY <1>1, <3>5, <3>6, <3>7 DEF InStep
  <2> QED BY <2>1, <2>2
<1>10. WritersTakeTurns' /\ ReaderInPacket'
  BY <1>1 DEF WritersTakeTurns, ReaderInPacket
<1>11. parts' \in Seq(Tpdu) /\ gathered' \in 0..MaxTsduLen /\ received' \in Seq(Seq(Tpdu))
  <2>1. parts' \in Seq(Tpdu)
    BY <1>1, <1>7
  <2>2. gathered \in Nat
    BY DEF LinkTypeOK
  <2>3. gathered' \in 0..MaxTsduLen
    BY <1>1, <1>4, <2>2
  <2>4. received' \in Seq(Seq(Tpdu))
    BY <1>1, <1>7, AppendProperties DEF LinkTypeOK
  <2> QED BY <2>1, <2>3, <2>4
<1>12. LinkTypeOK'
  <2>1. inPacket' = FALSE
    BY DEF ReadTpdu
  <2> QED BY <1>1, <1>2, <1>11, <2>1 DEF LinkTypeOK, Unit
<1>13. CASE ~f.eot
  <2>1. parts' = ps /\ received' = received
    BY <1>1, <1>13
  <2>2. \A g \in Ahead' : g.tsdu = f.tsdu
    BY <1>9, <1>13 DEF Follows
  <2>3. PartsContinue'
    <3>1. ASSUME NEW i \in 1..Len(ps)
          PROVE  /\ Genuine(ps[i], sent) /\ ps[i].tsdu = f.tsdu
                 /\ ps[i].part = ps[1].part + i - 1 /\ ~ps[i].eot
      <4>1. i # Len(ps) => ~ps[i].eot
        BY <1>6 DEF OneTsdu
      <4>2. i = Len(ps) => ~ps[i].eot
        BY <1>7, <1>13
      <4> QED BY <1>6, <4>1, <4>2 DEF OneTsdu
    <3>2. parts' = ps /\ sent' = sent /\ DOMAIN ps = 1..Len(ps) /\ ps[1].tsdu = f.tsdu
      BY <1>1, <1>7, <2>1
    <3> QED BY <3>1, <3>2 DEF PartsContinue
  <2>4. AheadContinues'
    BY <1>7, <1>8, <1>9, <1>13, <2>1, <2>2 DEF AheadContinues
  <2>5. ReceivedAreEnds' /\ ReceivedAscends'
    BY <1>1, <2>1 DEF ReceivedAreEnds, ReceivedAscends, IsEndOf, Whole
  <2>6. ASSUME ~SelectLoop PROVE ps[1].tsdu = Len(received) + 1 /\ ps[1].part = 1
    BY <1>1, <1>5, <1>6, <2>6 DEF NothingMissed
  <2>7. NothingMissed'
    BY <1>1, <1>7, <1>9, <1>13, <2>1, <2>6 DEF NothingMissed, ReceivedAsSent, Whole
  <2> QED BY <1>2, <1>10, <1>12, <2>3, <2>4, <2>5, <2>7
<1>14. CASE f.eot
  <2>0. PICK n : n = Len(received) + 1
    OBVIOUS
  <2>1. parts' = <<>> /\ received' = Append(received, ps) /\ PartsContinue'
    BY <1>1, <1>14 DEF PartsContinue
  <2>2. /\ DOMAIN received = 1..n - 1 /\ DOMAIN received' = 1..n /\ n \in Nat /\ Len(received') = n
        /\ received'[n] = ps /\ \A i \in 1..n - 1 : received'[i] = received[i]
    BY <1>7, <2>0, <2>1 DEF LinkTypeOK
  <2>3. /\ ps[1].part \in DOMAIN Whole(f.tsdu)
        /\ ps = SubSeq(Whole(f.tsdu), ps[1].part, Len(Whole(f.tsdu)))
        /\ ps[1].part = 1 => ps = Whole(f.tsdu)
    BY <1>3, <1>4, <1>6, <1>14, TogetherAreAnEnd
  <2>4. \A g \in Ahead' : g.tsdu = f.tsdu + 1 /\ g.part = 1
    BY <1>9, <1>14 DEF Follows
  <2>5. \A i \in 1..n : received'[i][1].tsdu <= f.tsdu /\ received'[i][1].tsdu \in Nat
    <3>1. \A i \in 1..n - 1 : received[i][1].tsdu \in Nat
      <4>1. DOMAIN sent \subseteq Nat
        BY <1>3
      <4> QED BY <2>2, <4>1 DEF ReceivedAreEnds
    <3> SUFFICES ASSUME NEW i \in 1..n
                 PROVE  received'[i][1].tsdu <= f.tsdu /\ received'[i][1].tsdu \in Nat
      OBVIOUS
    <3>2. CASE i = n
      BY <1>4, <1>7, <2>2, <3>2
    <3>3. CASE i \in 1..n - 1
      BY <1>4, <1>8, <2>2, <3>1, <3>3
    <3> QED BY <2>2, <3>2, <3>3
  <2>6. AheadContinues'
    BY <1>4, <2>1, <2>2, <2>4, <2>5 DEF AheadContinues
  <2>7. ReceivedAreEnds'
    <3>1. IsEndOf(ps, f.tsdu)
      BY <2>3 DEF IsEndOf
    <3>2. ASSUME NEW i \in 1..n
          PROVE  /\ received'[i] # <<>> /\ received'[i][1].tsdu \in DOMAIN sent
                 /\ IsEndOf(received[i], received[i][1].tsdu)'
      <4>1. CASE i = n
        <5>1. received'[i] = ps /\ received'[i] # <<>> /\ received'[i][1].tsdu = f.tsdu
          BY <1>7, <2>2, <4>1
        <5>2. IsEndOf(received[i], received[i][1].tsdu)'
          BY <1>1, <3>1, <5>1 DEF IsEndOf, Whole
        <5> QED BY <1>4, <5>1, <5>2
      <4>2. CASE i \in 1..n - 1
        <5>1. i \in DOMAIN received /\ received'[i] = received[i]
          BY <2>2, <4>2
        <5> QED BY <1>1, <5>1 DEF ReceivedAreEnds, IsEndOf, Whole
      <4> QED BY <2>2, <4>1, <4>2
    <3> QED BY <1>1, <2>2, <3>2 DEF ReceivedAreEnds
  <2>8. ReceivedAscends'
    <3>1. ASSUME NEW i \in 1..n, NEW j \in 1..n, i < j
          PROVE  received'[i][1].tsdu < received'[j][1].tsdu
      <4>1. i \in 1..n - 1
        BY <2>2, <3>1
      <4>2. CASE j = n
        BY <1>7, <1>8, <2>2, <4>1, <4>2
      <4>3. CASE j \in 1..n - 1
        BY <2>2, <3>1, <4>1, <4>3 DEF ReceivedAscends
      <4> QED BY <2>2, <4>2, <4>3
    <3> QED BY <2>2, <3>1 DEF ReceivedAscends
  <2>9. ASSUME ~SelectLoop PROVE f.tsdu = n /\ ps[1].part = 1 /\ ps = Whole(n)
    <3>1. f.tsdu = n /\ ps[1].part = 1
      BY <1>1, <1>5, <1>6, <1>7, <2>0, <2>9 DEF NothingMissed
    <3> QED BY <2>3, <3>1
  <2>10. NothingMissed'
    <3> SUFFICES ASSUME ~SelectLoop PROVE NothingMissed'
      BY DEF NothingMissed
    <3>1. ASSUME NEW i \in 1..n PROVE received'[i] = Whole(i)
      <4>1. CASE i = n
        BY <2>2, <2>9, <4>1
      <4>2. CASE i \in 1..n - 1
        BY <2>2, <4>2 DEF NothingMissed, ReceivedAsSent
      <4> QED BY <2>2, <4>1, <4>2
    <3>2. n <= Len(sent)
      BY <1>4, <2>9
    <3>3. ReceivedAsSent'
      BY <1>1, <2>2, <3>1, <3>2 DEF ReceivedAsSent, Whole
    <3> QED BY <1>1, <1>9, <2>1, <2>2, <2>4, <2>9, <3>3 DEF NothingMissed
  <2> QED BY <1>2, <1>10, <1>12, <2>1, <2>6, <2>7, <2>8, <2>10
<1> QED BY <1>13, <1>14

-----------------------------------------------------------------------------
LEMMA LinkStepIInv == LinkIInv /\ [LinkNext]_linkVars => LinkIInv'
<1> SUFFICES ASSUME LinkIInv, [LinkNext]_linkVars PROVE LinkIInv'
  OBVIOUS
<1>1. CASE ReadBadHeader \/ RefuseTpdu \/ Break
  BY <1>1, CloseIInv DEF ReadBadHeader, RefuseTpdu, Break
<1>2. CASE UNCHANGED linkVars
  <2>1. LinkTypeOK' /\ WritersTakeTurns' /\ PacketsInOrder' /\ WrittenFollows'
    BY <1>2 DEF LinkIInv, linkVars, readerVars, LinkTypeOK, WritersTakeTurns, PacketsInOrder, WrittenFollows
  <2>2. Ahead' = Ahead /\ (InStep' <=> InStep) /\ (OutOfStep' <=> OutOfStep)
    BY <1>2 DEF linkVars, readerVars, Ahead, InStep, OutOfStep
  <2>3. ReaderInPacket' /\ PartsContinue' /\ AheadContinues'
    BY <1>2, <2>2 DEF LinkIInv, linkVars, readerVars, ReaderInPacket, PartsContinue, AheadContinues
  <2>4. ReceivedAreEnds' /\ ReceivedAscends' /\ NothingMissed'
    BY <1>2, <2>2 DEF LinkIInv, linkVars, readerVars, ReceivedAreEnds, ReceivedAscends, NothingMissed,
                      ReceivedAsSent, IsEndOf, Whole
  <2> QED BY <2>1, <2>3, <2>4 DEF LinkIInv
<1> QED
  BY <1>1, <1>2, StartSendIInv, WriteTpduIInv, WriteFailsIInv, ReadHeaderIInv, ReadTpduIInv,
     DropReadIInv DEF LinkNext, Read

(* The inductive invariant holds of every behaviour of the link.           *)
THEOREM LinkInvariance == LinkSpec => []LinkIInv
  BY LinkInitIInv, LinkStepIInv, PTL DEF LinkSpec

-----------------------------------------------------------------------------
(* Whatever is sent and however reads are dropped, a reader never puts     *)
(* more together than MAX_TSDU_LEN. (connection.rs, recv_data)             *)
THEOREM LinkTypeCorrect == LinkSpec => []LinkTypeOK
<1>1. LinkIInv => LinkTypeOK
  BY DEF LinkIInv
<1> QED BY <1>1, LinkInvariance, PTL

(* Nothing that is received is received twice, out of order or mixed from  *)
(* two TSDUs, even by a reader whose reads are dropped.                    *)
THEOREM EndsInOrder == LinkSpec => []ReceivedEndsInOrder
<1>1. LinkIInv => ReceivedEndsInOrder
  BY DEF LinkIInv, ReceivedAreEnds, ReceivedAscends, ReceivedEndsInOrder
<1> QED BY <1>1, LinkInvariance, PTL

(* A reader with a task of its own receives every TSDU as it was sent.     *)
(* (client.rs, reader_loop)                                                *)
THEOREM TaskReceivesAsSent ==
  ASSUME SelectLoop = FALSE
  PROVE  LinkSpec => []ReceivedAsSent
<1>1. LinkIInv => ReceivedAsSent
  BY DEF LinkIInv, NothingMissed
<1> QED BY <1>1, LinkInvariance, PTL

-----------------------------------------------------------------------------
Delivered == [i \in DOMAIN received |-> Content(received[i])]

LEMMA WholeIsItself ==
  ASSUME LinkIInv, NEW m \in DOMAIN sent, NEW n \in DOMAIN sent, Whole(m) = Whole(n)
  PROVE  m = n
<1>1. /\ m \in Nat /\ n \in Nat /\ Length[sent[m]] \in Nat /\ Length[sent[n]] \in Nat
  BY DEF LinkIInv, LinkTypeOK
<1>2. \A len \in Nat : 1 \in 1..NumTpdus(len)
  BY CutIntoTpdus
<1>3. DataTpdus(m, Length[sent[m]])[1].tsdu = m /\ DataTpdus(n, Length[sent[n]])[1].tsdu = n
  BY <1>1, <1>2, TpdusAreNumbered
<1> QED BY <1>3 DEF Whole

(* What the layers above are handed is the prefix of what was sent.        *)
Prefix == [i \in 1..Len(received) |-> sent[i]]

DeliveredFits ==
  /\ Len(received) \in Nat /\ Len(received) <= Len(sent) /\ sent \in Seq(Tsdus)
  /\ Delivered = Prefix
  /\ Delivered \in Seq(Tsdus) /\ Len(Delivered) = Len(received)

LEMMA DeliveredIsPrefix ==
  ASSUME SelectLoop = FALSE
  PROVE  LinkIInv => DeliveredFits
<1> SUFFICES ASSUME LinkIInv PROVE DeliveredFits
  OBVIOUS
<1>1. /\ Len(received) \in Nat /\ DOMAIN received = 1..Len(received) /\ sent \in Seq(Tsdus)
      /\ ReceivedAsSent
  BY DEF LinkIInv, LinkTypeOK, NothingMissed
<1>2. Len(received) <= Len(sent) /\ \A i \in 1..Len(received) : i \in DOMAIN sent
  BY <1>1 DEF ReceivedAsSent
<1>3. ASSUME NEW i \in 1..Len(received) PROVE Content(received[i]) = sent[i]
  <2>1. received[i] = Whole(i) /\ i \in DOMAIN sent
    BY <1>1, <1>2 DEF ReceivedAsSent
  <2>2. \A n \in DOMAIN sent : received[i] = Whole(n) => n = i
    BY <2>1, WholeIsItself
  <2>3. (CHOOSE n \in DOMAIN sent : received[i] = Whole(n)) = i
    BY <2>1, <2>2
  <2> QED BY <2>1, <2>3 DEF Content
<1>4. Delivered = Prefix
  BY <1>1, <1>3 DEF Delivered, Prefix
<1>5. Delivered \in [1..Len(received) -> Tsdus]
  BY <1>1, <1>2, <1>4 DEF Prefix
<1>6. Delivered \in Seq(Tsdus) /\ Len(Delivered) = Len(received)
  BY <1>1, <1>5
<1> QED BY <1>1, <1>2, <1>4, <1>6 DEF DeliveredFits

LEMMA DeliveredStaysPrefix ==
  ASSUME SelectLoop = FALSE
  PROVE  LinkIInv' => DeliveredFits'
  BY DeliveredIsPrefix, PTL

(* Every step of the two ends is a step of the ideal connection, or none.  *)
LEMMA StepDelivers ==
  ASSUME SelectLoop = FALSE, LinkIInv, LinkIInv', [LinkNext]_linkVars
  PROVE  [Delivery!DeliveryNext]_(Delivery!deliveryVars)
<1> USE DEF Delivery!deliveryVars, Delivery!DeliveryNext
<1>0. DeliveredFits /\ DeliveredFits'
  BY DeliveredIsPrefix, DeliveredStaysPrefix
<1>1. UNCHANGED <<sent, received>> => Delivered' = Delivered
  BY <1>0 DEF DeliveredFits, Prefix
<1>2. ASSUME NEW k \in Tasks, NEW t \in Tsdus, StartSend(k, t)
      PROVE  Delivery!Send
  <2>1. sent' = Append(sent, t) /\ UNCHANGED <<received, open>>
    BY <1>2 DEF StartSend, readerVars
  <2>2. \A i \in 1..Len(received) : sent'[i] = sent[i]
    BY <1>0, <2>1 DEF DeliveredFits, Prefix
  <2>3. Delivered' = Delivered
    BY <1>0, <2>1, <2>2 DEF DeliveredFits, Prefix
  <2> QED BY <2>1, <2>3 DEF Delivery!Send, Delivered
<1>3. ASSUME ReadTpdu
      PROVE  Delivery!Deliver \/ UNCHANGED Delivery!deliveryVars
  <2> DEFINE f == stream[1].tpdu
             ps == Append(parts, f)
  <2>1. /\ UNCHANGED <<sent, open>> /\ open
        /\ received' = IF f.eot THEN Append(received, ps) ELSE received
    BY <1>3 DEF ReadTpdu, UnitReady
  <2>2. CASE received' = received
    BY <1>1, <2>1, <2>2 DEF Delivered
  <2>3. CASE received' = Append(received, ps)
    <3> DEFINE n == Len(received)
    <3>1. Len(received') = n + 1
      BY <2>3 DEF LinkIInv, LinkTypeOK
    <3>2. n + 1 \in 1..Len(sent) /\ n \in Nat /\ n < Len(sent)
      BY <1>0, <2>1, <3>1 DEF DeliveredFits, Prefix
    <3>3. Delivered' = [i \in 1..n + 1 |-> sent[i]]
      BY <1>0, <2>1, <3>1 DEF DeliveredFits, Prefix
    <3>4. Append(Delivered, sent[n + 1]) = [i \in 1..n + 1 |-> sent[i]]
      BY <1>0, <3>2 DEF DeliveredFits, Prefix
    <3>5. Delivered' = Append(Delivered, sent[Len(Delivered) + 1]) /\ Len(Delivered) < Len(sent)
      BY <1>0, <3>2, <3>3, <3>4 DEF DeliveredFits, Prefix
    <3> QED BY <2>1, <3>5 DEF Delivery!Deliver, Delivered
  <2> QED BY <2>1, <2>2, <2>3
<1>4. ASSUME ReadBadHeader \/ RefuseTpdu \/ Break
      PROVE  Delivery!CloseDown
  <2>1. open' = FALSE /\ UNCHANGED <<sent, received>>
    BY <1>4 DEF ReadBadHeader, RefuseTpdu, Break, readerVars
  <2> QED BY <1>1, <2>1 DEF Delivery!CloseDown, Delivered
<1>5. ASSUME \/ \E k \in Tasks : WriteTpdu(k) \/ WriteFails(k)
             \/ ReadHeader
             \/ DropRead
             \/ UNCHANGED linkVars
      PROVE  UNCHANGED Delivery!deliveryVars
  <2>1. UNCHANGED <<sent, received, open>>
    BY <1>5 DEF WriteTpdu, WriteFails, ReadHeader, DropRead, linkVars, readerVars
  <2> QED BY <1>1, <2>1 DEF Delivered
<1> QED
  BY <1>2, <1>3, <1>4, <1>5 DEF LinkNext, Read

(* The two ends together are the connection that TsduDelivery promises to  *)
(* the layers above, if the reader has a task of its own.                  *)
THEOREM LinkImplementsDelivery ==
  ASSUME SelectLoop = FALSE
  PROVE  LinkSpec => ImplementsDelivery
<1>1. LinkInit => Delivery!DeliveryInit
  <2> SUFFICES ASSUME LinkInit PROVE Delivery!DeliveryInit
    OBVIOUS
  <2>1. sent = <<>> /\ open = TRUE /\ received = <<>>
    BY DEF LinkInit
  <2>2. [i \in DOMAIN received |-> Content(received[i])] = <<>>
    BY <2>1
  <2> QED BY <2>1, <2>2 DEF Delivery!DeliveryInit
<1>2. LinkIInv /\ LinkIInv' /\ [LinkNext]_linkVars => [Delivery!DeliveryNext]_(Delivery!deliveryVars)
  BY StepDelivers
<1> QED BY <1>1, <1>2, LinkInvariance, PTL DEF LinkSpec, ImplementsDelivery, Delivery!DeliverySpec
================================================================================
