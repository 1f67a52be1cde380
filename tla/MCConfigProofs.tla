--------------------------- MODULE MCConfigProofs ---------------------------
(***************************************************************************)
(* Proofs about switching off, for any thresholds, delay and length of the *)
(* queue, and what they and those of the other parts give for the whole.   *)
(***************************************************************************)
EXTENDS MCConfig, CfgBackupWriteProofs, Counts, TLAPS

(* The requests the scan, the service and others make                       *)
Requests == {"EMPTY", "END", "PRE", "OFF", "CHARGING"}

(* The variables of the power scan have their types.                        *)
PowerTyped ==
  /\ mode \in {"button", "switch"} /\ high \in BOOLEAN
  /\ cnt \in Nat /\ enabled \in BOOLEAN /\ odd \in BOOLEAN
  /\ level \in PW!Levels /\ listens \in BOOLEAN
  /\ requests \in Seq(Requests)
  /\ inPd \in BOOLEAN /\ off \in BOOLEAN /\ missed \in BOOLEAN /\ short \in BOOLEAN
  /\ PW!TypeOK

(* A request to go off comes after one to get ready ...                     *)
OffOrder ==
  \A i \in 1..Len(requests) : requests[i] = "OFF" =>
    inPd \/ missed \/ \E j \in 1..(i - 1) : requests[j] = "PRE"

(* The button has been down for as long as it takes to go off.              *)
HeldDown == mode = "button" /\ enabled /\ cnt >= Hold

(* ... and so does one that the button is about to make.                    *)
OffAfterReady ==
  /\ off => inPd \/ missed
  /\ OffOrder
  /\ HeldDown => inPd \/ missed \/ PW!Asked("PRE")

(* Whoever is to get ready will be asked to go off.                         *)
ReadyThenOff ==
  inPd \/ PW!Asked("PRE") => \/ off \/ PW!Asked("OFF") \/ missed \/ HeldDown
                             \/ mode = "button" /\ short

PowerInv == PowerTyped /\ OffAfterReady /\ ReadyThenOff

-----------------------------------------------------------------------------

(* The first n elements of ms behind those of q                              *)
LEMMA ConcatPrefix ==
  ASSUME NEW S, NEW q \in Seq(S), NEW ms \in Seq(S), NEW n \in 0..Len(ms)
  PROVE  LET r == q \o SubSeq(ms, 1, n)
         IN /\ r \in Seq(S)
            /\ Len(q) \in Nat /\ Len(ms) \in Nat /\ Len(r) = Len(q) + n
            /\ \A i \in 1..Len(q) : r[i] = q[i]
            /\ \A i \in (Len(q) + 1)..Len(r) : /\ i - Len(q) \in 1..Len(ms)
                                              /\ r[i] = ms[i - Len(q)]
<1>1. PICK t : t = SubSeq(ms, 1, n)
  BY Zenon
<1>2. Len(q) \in Nat /\ Len(ms) \in Nat
  OBVIOUS
<1>3. t \in Seq(S) /\ Len(t) = n /\ \A i \in 1..n : t[i] = ms[i]
  BY <1>1, <1>2
<1>4. /\ q \o t \in Seq(S) /\ Len(q \o t) = Len(q) + n
      /\ \A i \in 1..(Len(q) + n) : (q \o t)[i] = IF i <= Len(q) THEN q[i] ELSE t[i - Len(q)]
  BY <1>3
<1>5. QED
  BY <1>1, <1>2, <1>3, <1>4

(* What hs_cfg_systemReq leaves: the requests that were there, then those    *)
(* made, all of them unless one was dropped.                                 *)
LEMMA RequestFacts ==
  ASSUME requests \in Seq(Requests), Len(requests) <= MaxRequests, missed \in BOOLEAN,
         NEW ms \in Seq(Requests), PW!Request(ms)
  PROVE  /\ requests' \in Seq(Requests)
         /\ Len(requests) \in Nat /\ Len(requests') \in Nat
         /\ Len(requests) <= Len(requests') /\ Len(requests') <= MaxRequests
         /\ \A i \in 1..Len(requests) : requests'[i] = requests[i]
         /\ \A i \in (Len(requests) + 1)..Len(requests') :
               /\ i - Len(requests) \in 1..Len(ms)
               /\ requests'[i] = ms[i - Len(requests)]
         /\ missed' \in BOOLEAN /\ (missed => missed')
         /\ ~missed' => Len(requests') = Len(requests) + Len(ms)
<1>1. PICK n : /\ n = IF Len(ms) < MaxRequests - Len(requests) THEN Len(ms)
                       ELSE MaxRequests - Len(requests)
               /\ requests' = requests \o SubSeq(ms, 1, n)
               /\ missed' = (missed \/ n < Len(ms))
  BY Zenon DEF PW!Request
<1>2. n \in 0..Len(ms) /\ n <= MaxRequests - Len(requests)
  BY <1>1, PowerConstants
<1>3. /\ requests' \in Seq(Requests)
      /\ Len(requests) \in Nat /\ Len(ms) \in Nat /\ Len(requests') = Len(requests) + n
      /\ \A i \in 1..Len(requests) : requests'[i] = requests[i]
      /\ \A i \in (Len(requests) + 1)..Len(requests') :
            /\ i - Len(requests) \in 1..Len(ms)
            /\ requests'[i] = ms[i - Len(requests)]
  BY <1>1, <1>2, ConcatPrefix, SMTT(20)
<1>4. missed' \in BOOLEAN /\ (missed => missed') /\ (~missed' => ~(n < Len(ms)))
  BY <1>1, Zenon
<1>5. ~missed' => n = Len(ms)
  BY <1>2, <1>3, <1>4
<1>6. Len(requests') \in Nat /\ Len(requests) <= Len(requests') /\ Len(requests') <= MaxRequests
  BY <1>2, <1>3, PowerConstants
<1>7. QED
  BY <1>3, <1>4, <1>5, <1>6

(* Requests that the scan makes: the order is kept, and nothing that was     *)
(* asked for is forgotten.                                                   *)
LEMMA RequestOrder ==
  ASSUME PowerTyped, OffOrder, NEW ms \in Seq(Requests), PW!Request(ms), inPd' = inPd,
         \A k \in 1..Len(ms) : ms[k] = "OFF" =>
            inPd \/ missed \/ PW!Asked("PRE") \/ \E j \in 1..(k - 1) : ms[j] = "PRE"
  PROVE  /\ OffOrder'
         /\ \A m \in Requests : PW!Asked(m) => PW!Asked(m)'
         /\ ~missed' => \A k \in 1..Len(ms) : PW!Asked(ms[k])'
         /\ \A m \in Requests : PW!Asked(m)' => PW!Asked(m) \/ \E k \in 1..Len(ms) : ms[k] = m
         /\ requests' \in Seq(Requests) /\ Len(requests') <= MaxRequests
         /\ missed' \in BOOLEAN /\ (missed => missed')
<1>a. /\ requests \in Seq(Requests) /\ Len(requests) <= MaxRequests
      /\ missed \in BOOLEAN /\ inPd \in BOOLEAN /\ Len(ms) \in Nat
  BY DEF PowerTyped, PW!TypeOK
<1>b. /\ requests' \in Seq(Requests)
      /\ Len(requests) \in Nat /\ Len(requests') \in Nat
      /\ Len(requests) <= Len(requests') /\ Len(requests') <= MaxRequests
      /\ \A i \in 1..Len(requests) : requests'[i] = requests[i]
      /\ \A i \in (Len(requests) + 1)..Len(requests') :
            /\ i - Len(requests) \in 1..Len(ms)
            /\ requests'[i] = ms[i - Len(requests)]
      /\ missed' \in BOOLEAN /\ (missed => missed')
      /\ ~missed' => Len(requests') = Len(requests) + Len(ms)
  BY <1>a, RequestFacts
<1>1. \A m \in Requests : PW!Asked(m) => PW!Asked(m)'
  BY <1>b DEF PW!Asked
<1>2. ~missed' => \A k \in 1..Len(ms) : PW!Asked(ms[k])'
  <2> SUFFICES ASSUME ~missed', NEW k \in 1..Len(ms)
               PROVE  requests'[Len(requests) + k] = ms[k]
                      /\ Len(requests) + k \in 1..Len(requests')
    BY DEF PW!Asked
  <2>1. k \in Nat /\ Len(requests) + k \in (Len(requests) + 1)..Len(requests')
    BY <1>a, <1>b
  <2>2. (Len(requests) + k) - Len(requests) = k
    BY <2>1, <1>b
  <2>3. QED
    BY <2>1, <2>2, <1>b
<1>3. \A m \in Requests : PW!Asked(m)' => PW!Asked(m) \/ \E k \in 1..Len(ms) : ms[k] = m
  <2> SUFFICES ASSUME NEW m \in Requests, NEW i \in 1..Len(requests'), requests'[i] = m
               PROVE  (\E j \in 1..Len(requests) : requests[j] = m) \/ \E k \in 1..Len(ms) : ms[k] = m
    BY DEF PW!Asked
  <2>1. CASE i \in 1..Len(requests)
    BY <2>1, <1>b
  <2>2. CASE i \in (Len(requests) + 1)..Len(requests')
    BY <2>2, <1>b, SMTT(20)
  <2>3. QED
    BY <2>1, <2>2, <1>b
<1>4. OffOrder'
  <2> SUFFICES ASSUME NEW i \in 1..Len(requests'), requests'[i] = "OFF", ~inPd, ~missed'
               PROVE  \E j \in 1..(i - 1) : requests'[j] = "PRE"
    BY DEF OffOrder
  <2>0. ~missed
    BY <1>b
  <2>1. CASE i <= Len(requests)
    <3>1. i \in 1..Len(requests) /\ requests[i] = "OFF"
      BY <2>1, <1>b
    <3>2. PICK j \in 1..(i - 1) : requests[j] = "PRE"
      BY <3>1, <2>0 DEF OffOrder
    <3>3. j \in 1..Len(requests)
      BY <3>1, <1>b
    <3>4. QED
      BY <3>2, <3>3, <1>b
  <2>2. CASE i > Len(requests)
    <3>1. PICK k \in 1..Len(ms) : k = i - Len(requests) /\ ms[k] = "OFF"
      BY <2>2, <1>b
    <3>2. CASE PW!Asked("PRE")
      <4>1. PICK j \in 1..Len(requests) : requests[j] = "PRE"
        BY <3>2 DEF PW!Asked
      <4>2. j \in 1..(i - 1) /\ requests'[j] = "PRE"
        BY <4>1, <2>2, <1>b
      <4>3. QED
        BY <4>2
    <3>3. CASE \E j \in 1..(k - 1) : ms[j] = "PRE"
      <4>1. PICK j \in 1..(k - 1) : ms[j] = "PRE"
        BY <3>3
      <4>2. j \in Nat /\ k \in Nat /\ i \in Nat
        BY <4>1, <1>a, <1>b
      <4>3. Len(requests) + j \in 1..(i - 1)
        BY <4>1, <4>2, <3>1, <1>b
      <4>4. Len(requests) + j \in (Len(requests) + 1)..Len(requests')
        BY <4>2, <4>3, <1>b
      <4>5. requests'[Len(requests) + j] = ms[j]
        BY <4>2, <4>4, <1>b, SMTT(20)
      <4>6. QED
        BY <4>1, <4>3, <4>5
    <3>4. QED
      BY <3>1, <3>2, <3>3, <2>0, SMTT(20)
  <2>3. QED
    BY <2>1, <2>2, <1>b
<1>5. QED
  BY <1>b, <1>1, <1>2, <1>3, <1>4

(* One request                                                               *)
LEMMA OneRequest ==
  ASSUME PowerTyped, OffOrder, NEW m \in Requests, PW!Request(<<m>>), inPd' = inPd,
         m = "OFF" => inPd \/ missed \/ PW!Asked("PRE")
  PROVE  /\ OffOrder'
         /\ \A x \in Requests : PW!Asked(x) => PW!Asked(x)'
         /\ missed' \/ PW!Asked(m)'
         /\ \A x \in Requests : PW!Asked(x)' => PW!Asked(x) \/ x = m
         /\ requests' \in Seq(Requests) /\ Len(requests') <= MaxRequests
         /\ missed' \in BOOLEAN /\ (missed => missed')
<1> DEFINE ms == <<m>>
<1>1. ms \in Seq(Requests) /\ Len(ms) = 1 /\ ms[1] = m
  OBVIOUS
<1>2. \A k \in 1..Len(ms) : k = 1
  BY <1>1
<1>3. PW!Request(ms)
  OBVIOUS
<1> HIDE DEF ms
<1>4. /\ OffOrder'
      /\ \A x \in Requests : PW!Asked(x) => PW!Asked(x)'
      /\ ~missed' => \A k \in 1..Len(ms) : PW!Asked(ms[k])'
      /\ \A x \in Requests : PW!Asked(x)' => PW!Asked(x) \/ \E k \in 1..Len(ms) : ms[k] = x
      /\ requests' \in Seq(Requests) /\ Len(requests') <= MaxRequests
      /\ missed' \in BOOLEAN /\ (missed => missed')
  BY <1>1, <1>2, <1>3, RequestOrder, Zenon
<1>5. 1 \in 1..Len(ms)
  BY <1>1
<1>6. ~missed' => PW!Asked(m)'
  BY <1>1, <1>4, <1>5 DEF PW!Asked
<1>7. QED
  BY <1>1, <1>2, <1>4, <1>6

(* The requests of the switch and of the end of the countdown                *)
LEMMA ShutdownRequest ==
  ASSUME PowerTyped, OffOrder, PW!Request(<<"END", "PRE", "OFF">>), inPd' = inPd
  PROVE  /\ OffOrder'
         /\ PW!Asked("PRE") => PW!Asked("PRE")'
         /\ missed' \/ PW!Asked("OFF")'
         /\ requests' \in Seq(Requests) /\ Len(requests') <= MaxRequests
         /\ missed' \in BOOLEAN /\ (missed => missed')
<1> DEFINE ms == <<"END", "PRE", "OFF">>
<1>1. /\ ms \in Seq(Requests) /\ Len(ms) = 3
      /\ ms[1] = "END" /\ ms[2] = "PRE" /\ ms[3] = "OFF"
  BY DEF Requests
<1>2. \A k \in 1..3 : ms[k] = "OFF" => \E j \in 1..(k - 1) : ms[j] = "PRE"
  <2>1. \A k \in 1..3 : k = 1 \/ k = 2 \/ k = 3
    OBVIOUS
  <2>2. 2 \in 1..(3 - 1)
    OBVIOUS
  <2>3. QED
    BY <1>1, <2>1, <2>2
<1>3. "PRE" \in Requests /\ "OFF" \in Requests
  BY DEF Requests
<1> HIDE DEF ms
<1>4. /\ OffOrder'
      /\ \A m \in Requests : PW!Asked(m) => PW!Asked(m)'
      /\ ~missed' => \A k \in 1..Len(ms) : PW!Asked(ms[k])'
      /\ requests' \in Seq(Requests) /\ Len(requests') <= MaxRequests
      /\ missed' \in BOOLEAN /\ (missed => missed')
  <2>1. PW!Request(ms)
    BY DEF ms
  <2>2. QED
    BY <1>1, <1>2, <2>1, RequestOrder, SMTT(20)
<1>5. ~missed' => PW!Asked("OFF")'
  BY <1>1, <1>4 DEF PW!Asked
<1>6. QED
  BY <1>3, <1>4, <1>5

-----------------------------------------------------------------------------

(* Nothing requested                                                         *)
LEMMA NoRequest ==
  ASSUME PowerTyped, OffOrder, UNCHANGED <<requests, missed, inPd>>
  PROVE  /\ OffOrder'
         /\ \A x \in Requests : PW!Asked(x)' <=> PW!Asked(x)
         /\ requests' \in Seq(Requests) /\ Len(requests') <= MaxRequests
         /\ missed' \in BOOLEAN /\ (missed => missed')
BY DEF PowerTyped, PW!TypeOK, OffOrder, PW!Asked

(* A step that leaves the key alone and requests nothing of going off        *)
LEMMA KeyAlone ==
  ASSUME OffAfterReady, ReadyThenOff, UNCHANGED <<mode, cnt, enabled, short, inPd, off>>,
         OffOrder', PW!Asked("PRE")' <=> PW!Asked("PRE"), PW!Asked("OFF") => PW!Asked("OFF")',
         missed => missed'
  PROVE  OffAfterReady' /\ ReadyThenOff'
BY DEF OffAfterReady, ReadyThenOff, HeldDown

(* The types after the scan of the power pin                                 *)
LEMMA PinTyped ==
  ASSUME PowerTyped,
         UNCHANGED <<mode, high, level, left, listens, inPd, off, odd, batStatus, batCnt>>,
         cnt' \in 0..(Byte - 1), enabled' \in BOOLEAN, short' \in BOOLEAN,
         ~enabled' /\ mode = "button" => cnt' <= Arm,
         requests' \in Seq(Requests), Len(requests') <= MaxRequests, missed' \in BOOLEAN
  PROVE  PowerTyped'
<1>1. cnt' \in Nat
  BY PowerConstants
<1>2. QED
  BY <1>1 DEF PowerTyped, PW!TypeOK

(* The chip is on at first, and nothing is requested.                        *)
LEMMA PowerInit == PW!Init => PowerInv
<1> SUFFICES ASSUME PW!Init PROVE PowerInv
  OBVIOUS
<1>1. PowerTyped
  <2>1. /\ high \in BOOLEAN /\ enabled \in BOOLEAN /\ odd \in BOOLEAN /\ listens \in BOOLEAN
        /\ inPd \in BOOLEAN /\ off \in BOOLEAN /\ missed \in BOOLEAN /\ short \in BOOLEAN
    BY Zenon DEF PW!Init
  <2>2. PW!TypeOK /\ cnt \in Nat
    BY PowerConstants DEF PW!Init, PW!TypeOK, PW!Levels
  <2>3. QED
    BY <2>1, <2>2 DEF PW!Init, PowerTyped, PW!Levels
<1>2. Len(requests) = 0
  BY DEF PW!Init
<1>3. OffAfterReady /\ ReadyThenOff
  BY <1>2, PowerConstants DEF PW!Init, OffAfterReady, OffOrder, ReadyThenOff, PW!Asked, HeldDown
<1>4. QED
  BY <1>1, <1>3 DEF PowerInv

(* hs_adc_scan keeps the invariant.                                          *)
LEMMA AdcStep == PowerInv /\ PW!AdcScan => PowerInv'
<1> SUFFICES ASSUME PowerInv, PW!AdcScan PROVE PowerInv'
  OBVIOUS
<1>0. PowerTyped /\ OffAfterReady /\ ReadyThenOff /\ OffOrder
  BY DEF PowerInv, OffAfterReady
<1>1. UNCHANGED <<mode, high, level, left, listens, inPd, off, cnt, enabled, short>>
  BY DEF PW!AdcScan, PW!key
<1>2. "EMPTY" \in Requests /\ "PRE" \in Requests /\ "OFF" \in Requests
  BY DEF Requests
<1>3. /\ OffOrder'
      /\ (PW!Asked("PRE")' <=> PW!Asked("PRE")) /\ (PW!Asked("OFF") => PW!Asked("OFF")')
      /\ requests' \in Seq(Requests) /\ Len(requests') <= MaxRequests
      /\ missed' \in BOOLEAN /\ (missed => missed')
  <2>1. CASE UNCHANGED <<requests, missed>>
    BY <1>0, <1>1, <1>2, <2>1, NoRequest
  <2>2. CASE PW!Request(<<"EMPTY">>)
    BY <1>0, <1>1, <1>2, <2>2, OneRequest
  <2>3. level = "0" \/ level = "EMPTY"
    BY <1>0 DEF PowerTyped, PW!Levels
  <2>4. QED
    BY <2>1, <2>2, <2>3 DEF PW!AdcScan
<1>4. batCnt' \in 0..(Filter + 1) /\ batStatus' \in PW!Levels /\ odd' \in BOOLEAN
  BY <1>0, PowerConstants DEF PowerTyped, PW!TypeOK, PW!AdcScan, PW!Believed
<1>5. PowerTyped'
  BY <1>0, <1>1, <1>3, <1>4 DEF PowerTyped, PW!TypeOK
<1>6. OffAfterReady' /\ ReadyThenOff'
  BY <1>0, <1>1, <1>3, KeyAlone
<1>7. QED
  BY <1>5, <1>6 DEF PowerInv

(* The end of _drvhal_scan keeps it.                                         *)
LEMMA PointStep == PowerInv /\ PW!PointScan => PowerInv'
<1> SUFFICES ASSUME PowerInv, PW!PointScan PROVE PowerInv'
  OBVIOUS
<1>0. PowerTyped /\ OffAfterReady /\ ReadyThenOff /\ OffOrder
  BY DEF PowerInv, OffAfterReady
<1>1. UNCHANGED <<mode, high, level, listens, inPd, off, odd, batStatus, batCnt, cnt, enabled, short>>
  BY DEF PW!PointScan, PW!key, PW!battery
<1>2. left' \in 0..Delay \cup {None}
  BY <1>0, PowerConstants DEF PowerTyped, PW!TypeOK, PW!PointScan
<1>3. "PRE" \in Requests /\ "OFF" \in Requests
  BY DEF Requests
<1>4. CASE UNCHANGED <<requests, missed>>
  <2>1. /\ OffOrder' /\ \A x \in Requests : PW!Asked(x)' <=> PW!Asked(x)
        /\ requests' \in Seq(Requests) /\ Len(requests') <= MaxRequests
        /\ missed' \in BOOLEAN /\ (missed => missed')
    BY <1>0, <1>1, <1>4, NoRequest
  <2>2. PowerTyped'
    BY <1>0, <1>1, <1>2, <2>1 DEF PowerTyped, PW!TypeOK
  <2>3. OffAfterReady' /\ ReadyThenOff'
    BY <1>0, <1>1, <1>3, <2>1, KeyAlone
  <2>4. QED
    BY <2>2, <2>3 DEF PowerInv
<1>5. CASE PW!Request(<<"END", "PRE", "OFF">>)
  <2>1. /\ OffOrder' /\ (PW!Asked("PRE") => PW!Asked("PRE")') /\ (missed' \/ PW!Asked("OFF")')
        /\ requests' \in Seq(Requests) /\ Len(requests') <= MaxRequests
        /\ missed' \in BOOLEAN /\ (missed => missed')
    BY <1>0, <1>1, <1>5, ShutdownRequest
  <2>2. PowerTyped'
    BY <1>0, <1>1, <1>2, <2>1 DEF PowerTyped, PW!TypeOK
  <2>3. HeldDown' <=> HeldDown
    BY <1>1 DEF HeldDown
  <2>4. OffAfterReady' /\ ReadyThenOff'
    BY <1>0, <1>1, <2>1, <2>3 DEF OffAfterReady, ReadyThenOff
  <2>5. QED
    BY <2>2, <2>4 DEF PowerInv
<1>6. QED
  BY <1>4, <1>5 DEF PW!PointScan

(* The switch keeps it.                                                      *)
LEMMA SwitchStep == PowerInv /\ PW!PinScan /\ mode = "switch" => PowerInv'
<1> SUFFICES ASSUME PowerInv, PW!PinScan, mode = "switch" PROVE PowerInv'
  OBVIOUS
<1>0. PowerTyped /\ OffAfterReady /\ ReadyThenOff /\ OffOrder
  BY DEF PowerInv, OffAfterReady
<1>1. PW!Switch /\ UNCHANGED <<mode, high, level, left, listens, inPd, off, odd, batStatus, batCnt>>
  BY DEF PW!PinScan, PW!battery
<1>2. cnt' \in 0..(Byte - 1) /\ UNCHANGED <<enabled, short>>
  BY <1>0, <1>1, PowerConstants DEF PowerTyped, PW!TypeOK, PW!Switch
<1>3. /\ OffOrder' /\ (PW!Asked("PRE")' => PW!Asked("PRE") \/ missed' \/ PW!Asked("OFF")')
      /\ (PW!Asked("OFF") => missed' \/ PW!Asked("OFF")')
      /\ requests' \in Seq(Requests) /\ Len(requests') <= MaxRequests
      /\ missed' \in BOOLEAN /\ (missed => missed')
  <2>1. "PRE" \in Requests /\ "OFF" \in Requests
    BY DEF Requests
  <2>2. CASE UNCHANGED <<requests, missed>>
    BY <1>0, <1>1, <2>1, <2>2, NoRequest
  <2>3. CASE PW!Request(<<"END", "PRE", "OFF">>)
    BY <1>0, <1>1, <2>3, ShutdownRequest
  <2>4. QED
    BY <1>1, <2>2, <2>3 DEF PW!Switch
<1>4. enabled' \in BOOLEAN /\ short' \in BOOLEAN
  BY <1>0, <1>2 DEF PowerTyped
<1>5. PowerTyped'
  BY <1>0, <1>1, <1>2, <1>3, <1>4, PinTyped
<1>6. ~HeldDown /\ ~HeldDown'
  BY <1>1 DEF HeldDown
<1>7. OffAfterReady' /\ ReadyThenOff'
  BY <1>0, <1>1, <1>3, <1>6 DEF OffAfterReady, ReadyThenOff
<1>8. QED
  BY <1>5, <1>7 DEF PowerInv

(* What the steps of the button have in common                               *)
LEMMA ButtonFacts ==
  ASSUME PowerInv, PW!PinScan
  PROVE  /\ PowerTyped /\ OffAfterReady /\ ReadyThenOff /\ OffOrder
         /\ UNCHANGED <<mode, high, level, left, listens, inPd, off, odd, batStatus, batCnt>>
         /\ UNCHANGED <<mode, inPd, off>>
         /\ cnt \in 0..(Byte - 1) /\ enabled \in BOOLEAN /\ short \in BOOLEAN
         /\ ~enabled /\ mode = "button" => cnt <= Arm
         /\ "PRE" \in Requests /\ "OFF" \in Requests
<1>1. PowerTyped /\ OffAfterReady /\ ReadyThenOff /\ OffOrder
  BY DEF PowerInv, OffAfterReady
<1>2. UNCHANGED <<mode, high, level, left, listens, inPd, off, odd, batStatus, batCnt>>
  BY DEF PW!PinScan, PW!battery
<1>3. /\ cnt \in 0..(Byte - 1) /\ enabled \in BOOLEAN /\ short \in BOOLEAN
      /\ ~enabled /\ mode = "button" => cnt <= Arm
  BY <1>1 DEF PowerTyped, PW!TypeOK
<1>4. "PRE" \in Requests /\ "OFF" \in Requests
  BY DEF Requests
<1>5. QED
  BY <1>1, <1>2, <1>3, <1>4

(* The button keeps it: a key that is up arms it, ...                        *)
LEMMA KeyArmsStep == PowerInv /\ PW!PinScan /\ mode = "button" /\ PW!KeyArms => PowerInv'
<1> SUFFICES ASSUME PowerInv, PW!PinScan, mode = "button", PW!KeyArms PROVE PowerInv'
  OBVIOUS
<1>0. /\ PowerTyped /\ OffAfterReady /\ ReadyThenOff /\ OffOrder
      /\ UNCHANGED <<mode, high, level, left, listens, inPd, off, odd, batStatus, batCnt>>
  BY ButtonFacts
<1>1. /\ cnt \in 0..(Byte - 1) /\ short \in BOOLEAN
      /\ ~enabled => cnt <= Arm
      /\ "PRE" \in Requests /\ "OFF" \in Requests
  BY ButtonFacts
<1>2. /\ ~enabled
      /\ UNCHANGED <<requests, missed, short>> /\ cnt' \in 0..(Byte - 1)
      /\ enabled' \in BOOLEAN /\ (~enabled' => cnt' <= Arm) /\ (enabled' => cnt' = 0)
  <2>1. PICK n : n = IF high THEN cnt + 1 ELSE 0
    OBVIOUS
  <2>2. /\ ~enabled /\ UNCHANGED <<requests, missed, short>>
        /\ cnt' = (IF n > Arm THEN 0 ELSE n) /\ enabled' = (n > Arm)
    BY <2>1 DEF PW!KeyArms
  <2>3. n \in 0..(Arm + 1)
    BY <1>1, <2>1, <2>2, PowerConstants
  <2>4. (n > Arm) \in BOOLEAN
    BY <2>3, PowerConstants
  <2>5. enabled' \in BOOLEAN /\ (enabled' <=> n > Arm)
    BY <2>2, <2>4, Zenon
  <2>6. QED
    BY <2>2, <2>3, <2>5, PowerConstants
<1>3. /\ OffOrder' /\ (PW!Asked("PRE")' <=> PW!Asked("PRE")) /\ (PW!Asked("OFF")' <=> PW!Asked("OFF"))
      /\ requests' \in Seq(Requests) /\ Len(requests') <= MaxRequests /\ missed' \in BOOLEAN
  BY <1>0, <1>1, <1>2, NoRequest
<1>4. PowerTyped'
  BY <1>0, <1>1, <1>2, <1>3, PinTyped
<1>5. ~HeldDown /\ ~HeldDown'
  BY <1>2, PowerConstants DEF HeldDown
<1>6. OffAfterReady' /\ ReadyThenOff'
  BY <1>0, <1>2, <1>3, <1>5 DEF OffAfterReady, ReadyThenOff
<1>7. QED
  BY <1>4, <1>6 DEF PowerInv

(* ... one that comes up asks to go off only behind Hold, where it has asked *)
(* to get ready, ...                                                         *)
LEMMA KeyUpStep == PowerInv /\ PW!PinScan /\ mode = "button" /\ PW!KeyUp => PowerInv'
<1> SUFFICES ASSUME PowerInv, PW!PinScan, mode = "button", PW!KeyUp PROVE PowerInv'
  OBVIOUS
<1>0. /\ PowerTyped /\ OffAfterReady /\ ReadyThenOff /\ OffOrder
      /\ UNCHANGED <<mode, high, level, left, listens, inPd, off, odd, batStatus, batCnt>>
  BY ButtonFacts
<1>1. /\ cnt \in 0..(Byte - 1) /\ short \in BOOLEAN /\ Hold \in Nat \ {0} /\ Byte \in Nat
      /\ "PRE" \in Requests /\ "OFF" \in Requests
  BY ButtonFacts, PowerConstants
<1>2. /\ enabled /\ cnt' = 0
      /\ enabled' = (cnt <= Hold)
      /\ short' = (short \/ (cnt <= Hold /\ (inPd \/ PW!Asked("PRE"))))
      /\ IF cnt > Hold THEN PW!Request(<<"OFF">>) ELSE UNCHANGED <<requests, missed>>
  BY DEF PW!KeyUp
<1>3. enabled' \in BOOLEAN /\ (enabled' <=> cnt <= Hold) /\ short' \in BOOLEAN /\ (short => short')
  <2>0. (cnt <= Hold) \in BOOLEAN
    BY <1>1
  <2>1. enabled' \in BOOLEAN /\ (enabled' <=> cnt <= Hold)
    BY <1>2, <2>0, Zenon
  <2>2. short' \in BOOLEAN
    BY <1>2, Zenon
  <2>3. short => short'
    BY <1>2, Zenon
  <2>4. QED
    BY <2>1, <2>2, <2>3
<1>4. cnt' \in 0..(Byte - 1) /\ cnt' <= Arm /\ ~HeldDown'
  BY <1>1, <1>2, PowerConstants DEF HeldDown
<1>5. CASE cnt > Hold
  <2>1. PW!Request(<<"OFF">>) /\ HeldDown
    BY <1>1, <1>2, <1>5 DEF HeldDown
  <2>2. inPd \/ missed \/ PW!Asked("PRE")
    BY <1>0, <2>1 DEF OffAfterReady
  <2>3. /\ OffOrder' /\ (missed' \/ PW!Asked("OFF")')
        /\ requests' \in Seq(Requests) /\ Len(requests') <= MaxRequests
        /\ missed' \in BOOLEAN /\ (missed => missed')
    BY <1>0, <1>1, <2>1, <2>2, OneRequest, SMTT(20)
  <2>4. PowerTyped'
    BY <1>0, <1>3, <1>4, <2>3, PinTyped, SMTT(20)
  <2>5. OffAfterReady' /\ ReadyThenOff'
    BY <1>0, <1>4, <2>3 DEF OffAfterReady, ReadyThenOff
  <2>6. QED
    BY <2>4, <2>5 DEF PowerInv
<1>6. CASE ~(cnt > Hold)
  <2>1. UNCHANGED <<requests, missed>>
    BY <1>2, <1>6
  <2>2. cnt <= Hold
    BY <1>1, <1>6
  <2>3. inPd \/ PW!Asked("PRE") => short'
    BY <1>2, <2>2, Zenon
  <2>4. /\ OffOrder' /\ (PW!Asked("PRE")' <=> PW!Asked("PRE")) /\ (PW!Asked("OFF")' <=> PW!Asked("OFF"))
        /\ requests' \in Seq(Requests) /\ Len(requests') <= MaxRequests /\ missed' \in BOOLEAN
    BY <1>0, <1>1, <2>1, NoRequest, SMTT(20)
  <2>5. PowerTyped'
    BY <1>0, <1>3, <1>4, <2>4, PinTyped, SMTT(20)
  <2>6. OffAfterReady' /\ ReadyThenOff'
    BY <1>0, <1>3, <1>4, <2>1, <2>3, <2>4 DEF OffAfterReady, ReadyThenOff
  <2>7. QED
    BY <2>5, <2>6 DEF PowerInv
<1>7. QED
  BY <1>5, <1>6

(* ... and one that is down asks at Hold, and is counted as too short when   *)
(* its count wraps around.                                                   *)
LEMMA KeyDownStep == PowerInv /\ PW!PinScan /\ mode = "button" /\ PW!KeyDown => PowerInv'
<1> SUFFICES ASSUME PowerInv, PW!PinScan, mode = "button", PW!KeyDown PROVE PowerInv'
  OBVIOUS
<1>0. /\ PowerTyped /\ OffAfterReady /\ ReadyThenOff /\ OffOrder
      /\ UNCHANGED <<mode, high, level, left, listens, inPd, off, odd, batStatus, batCnt>>
  BY ButtonFacts
<1>1. /\ cnt \in 0..(Byte - 1) /\ short \in BOOLEAN /\ enabled \in BOOLEAN
      /\ Hold \in Nat \ {0} /\ Byte \in Nat
      /\ "PRE" \in Requests /\ "OFF" \in Requests
  BY ButtonFacts, PowerConstants
<1>2. /\ enabled /\ enabled' = enabled
      /\ cnt' = (cnt + 1) % Byte
      /\ short' = (short \/ cnt' = 0)
      /\ IF cnt' = Hold THEN PW!Request(<<"PRE">>) ELSE UNCHANGED <<requests, missed>>
  BY DEF PW!KeyDown
<1>3. short' \in BOOLEAN /\ (short => short') /\ (cnt' = 0 => short')
  BY <1>1, <1>2, Zenon
<1>4. enabled' \in BOOLEAN /\ enabled'
  BY <1>1, <1>2, Zenon
<1>5. cnt' \in 0..(Byte - 1) /\ (cnt' = cnt + 1 \/ cnt' = 0)
  BY <1>1, <1>2
<1>6. CASE cnt' = Hold
  <2>1. PW!Request(<<"PRE">>)
    BY <1>2, <1>6
  <2>2. /\ OffOrder' /\ (missed' \/ PW!Asked("PRE")')
        /\ requests' \in Seq(Requests) /\ Len(requests') <= MaxRequests
        /\ missed' \in BOOLEAN /\ (missed => missed')
    BY <1>0, <1>1, <2>1, OneRequest
  <2>3. PowerTyped'
    BY <1>0, <1>3, <1>4, <1>5, <2>2, PinTyped, SMTT(20)
  <2>4. HeldDown'
    BY <1>0, <1>1, <1>4, <1>6 DEF HeldDown
  <2>5. OffAfterReady' /\ ReadyThenOff'
    BY <1>0, <2>2, <2>4 DEF OffAfterReady, ReadyThenOff
  <2>6. QED
    BY <2>3, <2>5 DEF PowerInv
<1>7. CASE cnt' # Hold
  <2>1. UNCHANGED <<requests, missed>>
    BY <1>2, <1>7
  <2>2. /\ OffOrder' /\ (PW!Asked("PRE")' <=> PW!Asked("PRE")) /\ (PW!Asked("OFF")' <=> PW!Asked("OFF"))
        /\ requests' \in Seq(Requests) /\ Len(requests') <= MaxRequests /\ missed' \in BOOLEAN
    BY <1>0, <1>1, <2>1, NoRequest, SMTT(20)
  <2>3. PowerTyped'
    BY <1>0, <1>3, <1>4, <1>5, <2>2, PinTyped, SMTT(20)
  <2>4. (HeldDown' => HeldDown) /\ (HeldDown => HeldDown' \/ cnt' = 0)
    BY <1>0, <1>1, <1>2, <1>5, <1>7, SMTT(20) DEF HeldDown
  <2>5. OffAfterReady' /\ ReadyThenOff'
    BY <1>0, <1>3, <2>1, <2>2, <2>4 DEF OffAfterReady, ReadyThenOff
  <2>6. QED
    BY <2>3, <2>5 DEF PowerInv
<1>8. QED
  BY <1>6, <1>7

(* So does the system service when it handles a request.                     *)
LEMMA ServeStep == PowerInv /\ PW!Serve => PowerInv'
<1> SUFFICES ASSUME PowerInv, PW!Serve PROVE PowerInv'
  OBVIOUS
<1>0. PowerTyped /\ OffAfterReady /\ ReadyThenOff /\ OffOrder
  BY DEF PowerInv, OffAfterReady
<1>1. UNCHANGED <<mode, high, level, missed, odd, batStatus, batCnt, cnt, enabled, short>>
  BY DEF PW!Serve, PW!key, PW!battery
<1>2. PICK m : m = Head(requests)
  OBVIOUS
<1>3. /\ ~off /\ requests # <<>>
      /\ requests' = IF m = "PRE" THEN Append(Tail(requests), "END") ELSE Tail(requests)
      /\ inPd' = (inPd \/ m = "PRE") /\ off' = (m = "OFF")
      /\ listens' = (m = "EMPTY" \/ (listens /\ m # "CHARGING"))
  BY <1>2 DEF PW!Serve
<1>4. /\ requests \in Seq(Requests) /\ Tail(requests) \in Seq(Requests)
      /\ Len(requests) \in Nat \ {0} /\ Len(Tail(requests)) = Len(requests) - 1
      /\ \A i \in 1..Len(Tail(requests)) : Tail(requests)[i] = requests[i + 1]
      /\ m = requests[1]
  BY <1>0, <1>2, <1>3 DEF PowerTyped
<1>5. "END" \in Requests /\ "PRE" \in Requests /\ "OFF" \in Requests
  BY DEF Requests
<1>6. /\ requests' \in Seq(Requests) /\ Len(requests') \in Nat /\ Len(requests') <= Len(requests)
      /\ Len(requests') >= Len(requests) - 1
      /\ \A i \in 1..(Len(requests) - 1) : requests'[i] = requests[i + 1]
      /\ \A i \in 1..Len(requests') : i > Len(requests) - 1 => requests'[i] = "END"
  <2>1. CASE m = "PRE"
    <3>1. requests' = Append(Tail(requests), "END")
      BY <1>3, <2>1
    <3>2. /\ requests' \in Seq(Requests) /\ Len(requests') = Len(Tail(requests)) + 1
          /\ \A i \in 1..Len(Tail(requests)) : requests'[i] = Tail(requests)[i]
          /\ requests'[Len(Tail(requests)) + 1] = "END"
      BY <1>4, <1>5, <3>1
    <3>3. Len(Tail(requests)) + 1 = Len(requests)
      BY <1>4
    <3>4. QED
      BY <1>4, <3>2, <3>3
  <2>2. CASE m # "PRE"
    <3>1. requests' = Tail(requests)
      BY <1>3, <2>2
    <3>2. QED
      BY <1>4, <3>1
  <2>3. QED
    BY <2>1, <2>2
<1>7. /\ inPd' \in BOOLEAN /\ (inPd' <=> inPd \/ m = "PRE")
      /\ off' \in BOOLEAN /\ (off' <=> m = "OFF") /\ listens' \in BOOLEAN
  BY <1>0, <1>3, Zenon DEF PowerTyped
<1>8. left' \in 0..Delay \cup {None}
  <2>1. left' = CASE m = "EMPTY" -> Delay
                  [] m = "CHARGING" /\ listens -> None
                  [] OTHER -> left
    BY <1>2 DEF PW!Serve
  <2>2. left \in 0..Delay \cup {None}
    BY <1>0, SMTT(20) DEF PowerTyped, PW!TypeOK
  <2>3. QED
    BY <2>1, <2>2, PowerConstants
<1>9. PowerTyped'
  <2>1. Len(requests') <= MaxRequests
    BY <1>0, <1>4, <1>6, PowerConstants DEF PowerTyped, PW!TypeOK
  <2>2. QED
    BY <1>0, <1>1, <1>6, <1>7, <1>8, <2>1, SMTT(20) DEF PowerTyped, PW!TypeOK
<1>10. \A x \in Requests \ {"END"} :
         (PW!Asked(x) => m = x \/ PW!Asked(x)') /\ (PW!Asked(x)' => PW!Asked(x))
  <2> TAKE x \in Requests \ {"END"}
  <2>1. ASSUME PW!Asked(x), m # x PROVE PW!Asked(x)'
    <3>1. PICK i \in 1..Len(requests) : requests[i] = x
      BY <2>1 DEF PW!Asked
    <3>2. i # 1
      BY <1>4, <2>1, <3>1
    <3>3. i - 1 \in 1..(Len(requests) - 1) /\ requests'[i - 1] = x /\ i - 1 \in 1..Len(requests')
      BY <1>4, <1>6, <3>1, <3>2
    <3>4. QED
      BY <3>3 DEF PW!Asked
  <2>2. ASSUME PW!Asked(x)' PROVE PW!Asked(x)
    <3>1. PICK i \in 1..Len(requests') : requests'[i] = x
      BY <2>2 DEF PW!Asked
    <3>2. i + 1 \in 1..Len(requests) /\ requests[i + 1] = x
      BY <1>4, <1>6, <3>1
    <3>3. QED
      BY <3>2 DEF PW!Asked
  <2>3. QED
    BY <2>1, <2>2
<1>11. OffOrder'
  <2> SUFFICES ASSUME NEW i \in 1..Len(requests'), requests'[i] = "OFF", ~inPd', ~missed
               PROVE  \E j \in 1..(i - 1) : requests'[j] = "PRE"
    BY <1>1 DEF OffOrder
  <2>1. i \in 1..(Len(requests) - 1) /\ i + 1 \in 1..Len(requests) /\ requests[i + 1] = "OFF"
    BY <1>4, <1>6
  <2>2. PICK j \in 1..((i + 1) - 1) : requests[j] = "PRE"
    BY <1>0, <1>7, <2>1 DEF OffOrder
  <2>3. j # 1
    BY <1>4, <1>7, <2>2
  <2>4. j - 1 \in 1..(i - 1) /\ j - 1 \in 1..(Len(requests) - 1) /\ (j - 1) + 1 = j
    BY <1>4, <2>1, <2>2, <2>3
  <2>5. QED
    BY <1>6, <2>2, <2>4, Zenon
<1>12. off' => inPd' \/ missed
  <2> SUFFICES ASSUME m = "OFF", ~inPd, ~missed PROVE FALSE
    BY <1>7
  <2>1. 1 \in 1..Len(requests) /\ requests[1] = "OFF"
    BY <1>4
  <2>2. PICK j \in 1..(1 - 1) : requests[j] = "PRE"
    BY <1>0, <2>1 DEF OffOrder
  <2>3. QED
    BY <2>2
<1>13. HeldDown' <=> HeldDown
  BY <1>1 DEF HeldDown
<1>14. OffAfterReady'
  BY <1>0, <1>1, <1>5, <1>7, <1>10, <1>11, <1>12, <1>13, SMTT(20) DEF OffAfterReady
<1>15. ReadyThenOff'
  <2>1. PW!Asked("PRE") \/ m # "PRE"
    BY <1>4 DEF PW!Asked
  <2>2. QED
    BY <1>0, <1>1, <1>3, <1>5, <1>7, <1>10, <1>13, <2>1, SMTT(20) DEF ReadyThenOff
<1>16. QED
  BY <1>9, <1>14, <1>15 DEF PowerInv

(* And so does what the world does.                                          *)
LEMMA WorldStep ==
  ASSUME PowerInv,
         \/ PW!Key
         \/ \E l \in PW!Levels : PW!Voltage(l)
         \/ \E m \in {"END", "CHARGING"} : PW!Others(m)
  PROVE  PowerInv'
<1>0. PowerTyped /\ OffAfterReady /\ ReadyThenOff /\ OffOrder
  BY DEF PowerInv, OffAfterReady
<1>1. "PRE" \in Requests /\ "OFF" \in Requests
  BY DEF Requests
<1>2. ASSUME PW!Key \/ \E l \in PW!Levels : PW!Voltage(l) PROVE PowerInv'
  <2>1. /\ UNCHANGED <<mode, cnt, enabled, short, inPd, off>>
        /\ UNCHANGED <<left, listens, requests, missed, odd, batStatus, batCnt>>
    BY <1>2 DEF PW!Key, PW!Voltage, PW!key, PW!battery
  <2>2. high' \in BOOLEAN /\ level' \in PW!Levels
    BY <1>0, <1>2, Zenon DEF PW!Key, PW!Voltage, PowerTyped
  <2>3. PowerTyped'
    BY <1>0, <2>1, <2>2 DEF PowerTyped, PW!TypeOK
  <2>4. OffOrder' /\ \A x \in Requests : PW!Asked(x)' <=> PW!Asked(x)
    BY <1>0, <2>1, NoRequest
  <2>5. OffAfterReady' /\ ReadyThenOff'
    BY <1>0, <1>1, <2>1, <2>4, KeyAlone
  <2>6. QED
    BY <2>3, <2>5, SMTT(20) DEF PowerInv
<1>3. ASSUME NEW m \in {"END", "CHARGING"}, PW!Others(m) PROVE PowerInv'
  <2>1. /\ UNCHANGED <<mode, cnt, enabled, short, inPd, off>>
        /\ UNCHANGED <<high, level, left, listens, missed, odd, batStatus, batCnt>>
        /\ Len(requests) < MaxRequests /\ requests' = Append(requests, m)
    BY <1>3 DEF PW!Others, PW!key, PW!battery
  <2>2. m \in Requests /\ m # "PRE" /\ m # "OFF"
    BY DEF Requests
  <2>3. requests \in Seq(Requests) /\ Len(requests) \in Nat
    BY <1>0 DEF PowerTyped
  <2>4. /\ requests' \in Seq(Requests) /\ Len(requests') = Len(requests) + 1
        /\ \A i \in 1..Len(requests) : requests'[i] = requests[i]
        /\ requests'[Len(requests) + 1] = m
    BY <2>1, <2>2, <2>3, SMTT(20)
  <2>5. PowerTyped'
    <3>1. Len(requests') <= MaxRequests
      BY <2>1, <2>3, <2>4, PowerConstants
    <3>2. QED
      BY <1>0, <2>1, <2>4, <3>1, SMTT(20) DEF PowerTyped, PW!TypeOK
  <2>6. \A x \in Requests \ {m} : PW!Asked(x)' <=> PW!Asked(x)
    BY <2>3, <2>4, SMTT(20) DEF PW!Asked
  <2>7. OffOrder'
    BY <1>0, <2>1, <2>2, <2>3, <2>4, SMTT(20) DEF OffOrder
  <2>8. OffAfterReady' /\ ReadyThenOff'
    BY <1>0, <1>1, <2>1, <2>2, <2>6, <2>7, KeyAlone, SMTT(20)
  <2>9. QED
    BY <2>5, <2>8, SMTT(20) DEF PowerInv
<1>4. QED
  BY <1>2, <1>3

(* Every step of Power keeps it.                                             *)
LEMMA PowerStep == PowerInv /\ PW!Next => PowerInv'
<1> SUFFICES ASSUME PowerInv, PW!Next PROVE PowerInv'
  OBVIOUS
<1>1. CASE PW!Scan
  <2>1. CASE PW!PinScan
    <3>1. mode \in {"button", "switch"}
      BY DEF PowerInv, PowerTyped
    <3>2. mode = "button" => PW!KeyArms \/ PW!KeyUp \/ PW!KeyDown
      BY <2>1 DEF PW!PinScan, PW!Button
    <3>3. QED
      BY <2>1, <3>1, <3>2, SwitchStep, KeyArmsStep, KeyUpStep, KeyDownStep, SMTT(20)
  <2>2. QED
    BY <1>1, <2>1, AdcStep, PointStep DEF PW!Scan
<1>2. CASE PW!Serve
  BY <1>2, ServeStep
<1>3. CASE PW!Key \/ \E l \in PW!Levels : PW!Voltage(l)
  BY <1>3, WorldStep
<1>4. ASSUME NEW m \in {"END"} \cup (IF listens THEN {"CHARGING"} ELSE {}), PW!Others(m)
      PROVE  PowerInv'
  <2>1. m \in {"END", "CHARGING"}
    OBVIOUS
  <2>2. QED
    BY <1>4, <2>1, WorldStep
<1>5. QED
  BY <1>1, <1>2, <1>3, <1>4 DEF PW!Next

PowerPart == part = "power" => PowerInv

(* The invariant of the power scan holds while it runs.                      *)
LEMMA PowerHolds ==
  /\ ConfigInit => PowerPart
  /\ PowerPart /\ [ConfigNext]_<<part, vars, sysVars, pwVars>> => PowerPart'
<1>1. ConfigInit => PowerPart
  BY PowerInit DEF ConfigInit, PowerPart
<1>2. ASSUME PowerPart, [ConfigNext]_<<part, vars, sysVars, pwVars>>, part' = "power" PROVE PowerInv'
  <2>1. PowerInv
    BY <1>2 DEF ConfigNext, PowerPart
  <2>2. CASE PW!Next
    BY <2>1, <2>2, PowerStep
  <2>3. CASE pwVars' = pwVars
    <3>1. /\ UNCHANGED <<mode, cnt, enabled, short, inPd, off>>
          /\ UNCHANGED <<high, level, left, listens, requests, missed, odd, batStatus, batCnt>>
      BY <2>3, SMTT(20) DEF pwVars
    <3>2. PowerTyped'
      BY <2>1, <3>1, SMTT(20) DEF PowerInv, PowerTyped, PW!TypeOK
    <3>3. OffOrder' /\ \A x \in Requests : PW!Asked(x)' <=> PW!Asked(x)
      BY <2>1, <3>1, NoRequest, SMTT(20) DEF PowerInv, OffAfterReady
    <3>4. OffAfterReady' /\ ReadyThenOff'
      BY <2>1, <3>1, <3>3, KeyAlone DEF PowerInv, Requests
    <3>5. QED
      BY <3>2, <3>4 DEF PowerInv
  <2>4. QED
    BY <1>2, <2>2, <2>3 DEF ConfigNext
<1>3. QED
  BY <1>1, <1>2 DEF PowerPart

(* The chip never goes off before hs_pmu_chipPrePowerOff has flushed the     *)
(* configuration, and a chip made ready goes off or waits for its button,    *)
(* but for a request dropped and for the moments the code misses: whatever   *)
(* the thresholds, the delay and the length of the queue.                    *)
THEOREM SwitchesOff == ConfigSpec => []GoesOff
<1>1. PowerPart => GoesOff
  BY DEF PowerPart, PowerInv, OffAfterReady, ReadyThenOff, HeldDown,
         GoesOff, PW!OrderlyOff, PW!ReadyGoesOff
<1>2. QED
  BY <1>1, PowerHolds, PTL DEF ConfigSpec

-----------------------------------------------------------------------------

LOCAL SP == INSTANCE CfgSysProofs

(* What CfgSysProofs shows is about these definitions of CfgSys.             *)
LEMMA SameSys ==
  /\ SY!Init <=> SP!Init
  /\ SY!Next <=> SP!Next
  /\ SY!vars = SP!vars
  /\ SY!TypeOK <=> SP!TypeOK
  /\ SY!FastUnmasked <=> SP!FastUnmasked
  /\ SY!HeapBalanced <=> SP!HeapBalanced
  /\ SY!Underway = SP!Underway
<1>1. SY!Init <=> SP!Init
  BY DEF SY!Init, SP!Init, SY!Sender, SP!Sender, SY!Service, SP!Service, SY!NoMsg,
         SP!NoMsg, SY!Msg, SP!Msg
<1>2. SY!Next <=> SP!Next
  BY DEF SY!Next, SP!Next, SY!Serve, SP!Serve, SY!Send, SP!Send, SY!Get, SP!Get,
         SY!DoFree, SP!DoFree, SY!DoStrip, SP!DoStrip, SY!DoReturn, SP!DoReturn,
         SY!ButtonRelease, SP!ButtonRelease, SY!ClearMsg, SP!ClearMsg, SY!SendAlloc,
         SP!SendAlloc, SY!SendCount, SP!SendCount, SY!SendPut, SP!SendPut, SY!Idle,
         SP!Idle, SY!Sender, SP!Sender, SY!Service, SP!Service, SY!NoMsg, SP!NoMsg
<1>3. SY!vars = SP!vars
  BY SMTT(20) DEF SY!vars, SP!vars
<1>4. SY!TypeOK <=> SP!TypeOK
  BY DEF SY!TypeOK, SP!TypeOK, SY!Sender, SP!Sender, SY!Service, SP!Service, SY!NoMsg,
         SP!NoMsg, SY!Msg, SP!Msg
<1>5. SY!FastUnmasked <=> SP!FastUnmasked
  BY SMTT(20) DEF SY!FastUnmasked, SP!FastUnmasked, SY!EventUnmasked, SP!EventUnmasked
<1>6. SY!HeapBalanced <=> SP!HeapBalanced
  BY SMTT(20) DEF SY!HeapBalanced, SP!HeapBalanced, SY!Sender, SP!Sender, SY!Service, SP!Service
<1>7. SY!Underway = SP!Underway
  BY DEF SY!Underway, SP!Underway, SY!Sender, SP!Sender, SY!Service, SP!Service,
         SY!Cardinality, SP!Cardinality
<1>8. QED
  BY <1>1, <1>2, <1>3, <1>4, <1>5, <1>6, <1>7, SMTT(20)

(* What CfgSysProofs assumes                                                 *)
LEMMA SysGiven == FiniteSetFacts => SP!Given
<1>1. SP!SysConstants
  BY SysConstants DEF SP!SysConstants, SP!IsFiniteSet, IsFiniteSet
<1>2. FiniteSetFacts = SP!FiniteSetFacts
  BY Zenon
     DEF FiniteSetFacts, SP!FiniteSetFacts, IsFiniteSet, SP!IsFiniteSet,
         Cardinality, SP!Cardinality
<1>3. QED
  BY <1>1, <1>2, SMTT(20) DEF SP!Given

SysPart == part = "sys" => SP!SysInv

(* The invariant of the system messages holds while they run, and gives what *)
(* CfgSys promises.                                                          *)
LEMMA SysHolds ==
  ASSUME FiniteSetFacts
  PROVE  /\ ConfigInit => SysPart
         /\ SysPart /\ [ConfigNext]_<<part, vars, sysVars, pwVars>> => SysPart'
         /\ SysPart => MessagesSound
         /\ SysPart => (part = "sys" => SY!TypeOK)
<1>0. SP!Given
  BY SysGiven
<1>1. ConfigInit => SysPart
  BY <1>0, SP!SysInductive, SameSys, SMTT(20) DEF ConfigInit, SysPart
<1>2. ASSUME SysPart, [ConfigNext]_<<part, vars, sysVars, pwVars>>, part' = "sys"
      PROVE  SP!SysInv'
  <2>1. SP!SysInv
    BY <1>2, SMTT(20) DEF ConfigNext, SysPart
  <2>2. SY!Next \/ UNCHANGED SP!vars
    BY <1>2 DEF ConfigNext, sysVars, SP!vars
  <2>3. QED
    BY <1>0, <2>1, <2>2, SP!SysInductive, SameSys, SMTT(20)
<1>3. SysPart => MessagesSound
  BY <1>0, SP!SysInductive, SameSys, SMTT(20) DEF SysPart, MessagesSound
<1>4. SysPart => (part = "sys" => SY!TypeOK)
  BY <1>0, SP!SysInductive, SameSys, SMTT(20) DEF SysPart
<1>5. QED
  BY <1>1, <1>2, <1>3, <1>4, SMTT(20) DEF SysPart

(* What a step does to the count of fast events                              *)
CountKept ==
  LET more == (fast - SY!Underway)' - (fast - SY!Underway)
  IN world \cap {"preempt", "button"} = {} =>
       \/ more = 0
       \/ more > 0 /\ svc' = svc /\ (Len(queue) = QueueSize \/ queue' = <<>>)

(* Every step does that.                                                     *)
LEMMA CountStep ==
  ASSUME FiniteSetFacts
  PROVE  SysPart /\ [ConfigNext]_<<part, vars, sysVars, pwVars>> => [CountKept]_(SY!vars)
<1> SUFFICES ASSUME SysPart, [ConfigNext]_<<part, vars, sysVars, pwVars>>, SY!vars' # SY!vars
             PROVE  CountKept
  OBVIOUS
<1>1. part = "sys" /\ SY!Next
  BY DEF ConfigNext, sysVars, SY!vars
<1>2. SP!SysInv /\ SP!Next
  BY <1>1, SameSys, SMTT(20) DEF SysPart
<1>3. SY!Underway = SP!Underway
  BY SameSys
<1>4. (SY!Underway = SP!Underway)'
  BY <1>3, SameSys, PTL
<1>5. QED
  BY <1>2, <1>3, <1>4, SysGiven, SP!SysCounts, SMTT(20) DEF CountKept

(* The data of the backup write keep their types, whatever part runs.        *)
LEMMA BackupTyped ==
  /\ ConfigInit => TypeOK
  /\ TypeOK /\ [ConfigNext]_<<part, vars, sysVars, pwVars>> => TypeOK'
<1>1. ConfigInit => TypeOK
  BY InitTypeOK DEF ConfigInit
<1>2. [ConfigNext]_<<part, vars, sysVars, pwVars>> => [Next]_vars
  BY DEF ConfigNext
<1>3. QED
  BY <1>1, <1>2, NextTypeOK, SMTT(20)

-----------------------------------------------------------------------------

LOCAL CO == INSTANCE Counting

(* What the lemmas assume of finite sets                                     *)
LEMMA Facts == FiniteSetFacts
<1>1. CO!FiniteSetFacts
  BY CO!FiniteSetFactsHold, SMTT(20)
<1>2. QED
  BY <1>1, Zenon
     DEF FiniteSetFacts, CO!FiniteSetFacts, IsFiniteSet, CO!IsFiniteSet,
         Cardinality, CO!Cardinality

(* Handlers and listeners see no event with FAST_EVENT_MASK while no button  *)
(* is released and no change of the count is interrupted, and no message is  *)
(* leaked or freed twice, but by hs_cfg_sysClearMsg: whatever the threads    *)
(* that send and the length of the queue.                                    *)
THEOREM MessagesAreSound == ConfigSpec => []MessagesSound
<1>1. FiniteSetFacts
  BY Facts
<1>2. QED
  BY <1>1, SysHolds, PTL DEF ConfigSpec

(* A step changes the count of fast events and the fast messages under way   *)
(* alike, unless it loses messages to a full queue or to hs_cfg_sysClearMsg. *)
THEOREM CountIsExact == ConfigSpec => CountExact
<1>1. FiniteSetFacts
  BY Facts
<1>2. QED
  BY <1>1, SysHolds, CountStep, PTL DEF ConfigSpec, CountExact, SY!CountExact, CountKept

(* The types of all three parts: the data of the backup write, the messages  *)
(* and the counters of the scan.                                             *)
THEOREM ConfigTypes == ConfigSpec => []ConfigTypeOK
<1>1. FiniteSetFacts
  BY Facts
<1>2. PowerPart => (part = "power" => PW!TypeOK)
  BY DEF PowerPart, PowerInv, PowerTyped
<1>3. QED
  BY <1>1, <1>2, SysHolds, PowerHolds, BackupTyped, PTL DEF ConfigSpec, ConfigTypeOK

=============================================================================
