----------------------------- MODULE SignedFrames -----------------------------
(***************************************************************************)
(* The frames of GOOSE and of sampled values on the wire and the tags that *)
(* authenticate them (iec61850-l2: eth.rs, auth.rs, keystore.rs; frame.rs  *)
(* of both).  A frame is told by the lengths that its header gives and the *)
(* octets that it has; octets by their number.  A ring holds the keys of   *)
(* a group, each for a time: a publisher signs with the newest that is     *)
(* valid, a subscriber takes any that is.  Rings are filled before they    *)
(* are used.  Each host goes by its own clock.                             *)
(***************************************************************************)
EXTENDS Integers, Sequences, FiniteSetsExt, Functions

CONSTANTS
  KeySets,     \* what the rings of a group may be filled with: sequences of
               \* keys [id, from, to, tag], tag the length of its tags
  Lags,        \* by how much the subscriber's clock is ahead of the publisher's
  Apdus,       \* lengths of APDUs
  Horizon,     \* bound on the time
  MaxSigned    \* bound on the frames

KeyEntry == [id : Nat, from : Nat, to : Nat, tag : Nat \ {0}]

ASSUME SignedAssumption ==
  /\ KeySets \subseteq Seq(KeyEntry)
  /\ Lags \subseteq Int /\ Apdus \subseteq Nat
  /\ Horizon \in Nat /\ MaxSigned \in Nat

VARIABLES
  clock,      \* the publisher's clock
  lag,        \* the subscriber's clock is at clock + lag
  signRing,   \* the rings: keys by their places
  verifyRing,
  plainSub,   \* whether the subscriber asks for no authentication
  building,   \* the frame that the publisher is building, or NoFrame
  onWire,     \* frames sent and not received
  outcomes,   \* history: what became of the frames received
  signed      \* history: frames built

signedVars ==
  <<clock, lag, signRing, verifyRing, plainSub, building, onWire, outcomes, signed>>

NoFrame == [apdu |-> -1]

-----------------------------------------------------------------------------
(* KeyEntry::valid_at                                                       *)
ValidAt(k, now) == k.from <= now /\ now < k.to

ValidKeys(ring, now) == {k \in Range(ring) : ValidAt(k, now)}

(* Slip: the oldest of the valid keys.                                      *)
OldestIndex(ring, now) ==
  Min({i \in DOMAIN ring : /\ ValidAt(ring[i], now)
                           /\ \A k \in ValidKeys(ring, now) : k.id >= ring[i].id})

(* The valid key with the highest id, of two of one id the later one.       *)
ActiveIndex(ring, now) ==
  Max({i \in DOMAIN ring : /\ ValidAt(ring[i], now)
                           /\ \A k \in ValidKeys(ring, now) : k.id <= ring[i].id})

NoKey == [id |-> 0, from |-> 0, to |-> 0, tag |-> 0]

ActiveKey(ring, now) ==
  IF ValidKeys(ring, now) = {} THEN NoKey ELSE ring[ActiveIndex(ring, now)]

(* purge_expired: the others keep their order, which is that of their       *)
(* places.                                                                  *)
Unexpired(ring, now) == RestrictValues(ring, LAMBDA k : k.to > now)

SignedInit ==
  /\ clock = 0
  /\ lag \in Lags
  /\ \E keys \in KeySets :
       /\ signRing = keys
       /\ verifyRing \in {keys} \cup {Unexpired(keys, lag)} \cup {<<keys[i]>> : i \in DOMAIN keys}
  /\ plainSub \in BOOLEAN
  /\ building = NoFrame
  /\ onWire = <<>>
  /\ outcomes = {}
  /\ signed = 0

SignedTick ==
  /\ clock < Horizon
  /\ clock' = clock + 1
  /\ UNCHANGED <<lag, signRing, verifyRing, plainSub, building, onWire, outcomes, signed>>

-----------------------------------------------------------------------------
(* HMAC-SHA256 and ECDSA P-256 have tags of one length each.                *)
TagLength(k) == k.tag

MinEthFrame == 60
HeaderOf(vlan) == IF vlan THEN 18 ELSE 14

(* finish_l2_frame_signed, until the length of the tag is known: it goes    *)
(* into Reserved2 and Length. An empty ring gives none.                     *)
WriteHeader(apdu, vlan) ==
  /\ building = NoFrame
  /\ signed < MaxSigned
  /\ building' =
       LET k == ActiveKey(signRing, clock)
       IN  [apdu |-> apdu, header |-> HeaderOf(vlan), reserved2 |-> TagLength(k),
            length |-> 8 + apdu + TagLength(k), begun |-> clock]
  /\ signed' = signed + 1
  /\ UNCHANGED <<clock, lag, signRing, verifyRing, plainSub, onWire, outcomes>>

Padded(n) == IF n < MinEthFrame THEN MinEthFrame ELSE n

(* The tag itself, for which the clock is read once more; the frame goes    *)
(* out. (In a debug build a tag of another length ends the publisher.)      *)
SignFrame ==
  /\ building # NoFrame
  /\ onWire' =
       LET k == ActiveKey(signRing, clock)
       IN  Append(onWire, [apdu |-> building.apdu, header |-> building.header,
                           reserved2 |-> building.reserved2, length |-> building.length,
                           key |-> k, begun |-> building.begun, sent |-> clock,
                           size |-> Padded(building.header + 8 + building.apdu + TagLength(k))])
  /\ building' = NoFrame
  /\ UNCHANGED <<clock, lag, signRing, verifyRing, plainSub, outcomes, signed>>

(* parse_eth_appid_auth: where the APDU ends, or that it does not fit.      *)
Malformed(f) == f.length < 8 + f.reserved2 \/ f.header + f.length > f.size
ApduOf(f) == f.length - 8 - f.reserved2

(* The tag found verifies with the key it was made with, if all of it and   *)
(* no more is found.                                                        *)
VerifiesWith(k, f) == k = f.key /\ f.reserved2 = TagLength(k)
Verifies(f, now) == \E k \in ValidKeys(verifyRing, now) : VerifiesWith(k, f)

(* decode_verified                                                          *)
StatusOf(f, now) ==
  IF f.reserved2 = 0 THEN "Unsigned" ELSE IF Verifies(f, now) THEN "Valid" ELSE "Invalid"

Outcome(f, status) ==
  [status |-> status, key |-> f.key, begun |-> f.begun, sent |-> f.sent, at |-> clock + lag,
   apdu |-> f.apdu, parsed |-> IF Malformed(f) THEN -1 ELSE ApduOf(f)]

ReceiveSigned ==
  /\ onWire # <<>>
  /\ ~plainSub
  /\ LET f == Head(onWire)
     IN  outcomes' = outcomes \cup
           {Outcome(f, IF Malformed(f) THEN "Dropped" ELSE StatusOf(f, clock + lag))}
  /\ onWire' = Tail(onWire)
  /\ UNCHANGED <<clock, lag, signRing, verifyRing, plainSub, building, signed>>

(* decode, of a subscriber that does not ask for tags: they are left out.   *)
ReceivePlain ==
  /\ onWire # <<>>
  /\ plainSub
  /\ LET f == Head(onWire)
     IN  outcomes' = outcomes \cup {Outcome(f, IF Malformed(f) THEN "Dropped" ELSE "Taken")}
  /\ onWire' = Tail(onWire)
  /\ UNCHANGED <<clock, lag, signRing, verifyRing, plainSub, building, signed>>

SignedNext ==
  \/ SignedTick
  \/ \E apdu \in Apdus, vlan \in BOOLEAN : WriteHeader(apdu, vlan)
  \/ SignFrame \/ ReceiveSigned \/ ReceivePlain

SignedSpec == SignedInit /\ [][SignedNext]_signedVars

-----------------------------------------------------------------------------
SignedTypeOK ==
  /\ clock \in 0..Horizon /\ lag \in Lags
  /\ signed \in 0..MaxSigned /\ Len(onWire) <= signed
  /\ \A f \in Range(onWire) : f.size >= MinEthFrame

(* The keys were handed over in time for a frame on its way from o.sent to  *)
(* o.at: each that has run out by then has a newer one, which had begun     *)
(* before by at least as long.                                              *)
HandedOver(o) ==
  \A k \in Range(signRing) : k.to <= o.at =>
    \E n \in Range(signRing) : /\ n.id > k.id /\ n.to > o.at
                              /\ n.from + (o.at - o.sent) <= k.to

(* While keys are changed nothing is lost: a frame built at one time of the *)
(* publisher's clock is valid to a subscriber with the same keys, and a     *)
(* clock that is not behind, if the keys were handed over in time; and      *)
(* whoever takes it finds the APDU that was put in, whatever the frame was  *)
(* filled up with. (KeyRing::active, KeyRing::valid, parse_eth_appid_auth)  *)
RotationLosesNothing ==
  \A o \in outcomes : o.begun = o.sent =>
    /\ o.parsed = o.apdu
    /\ /\ o.status # "Taken" /\ o.key # NoKey
       /\ verifyRing \in {signRing, Unexpired(signRing, lag)}
       /\ o.sent <= o.at /\ HandedOver(o)
       => o.status = "Valid"
=============================================================================
