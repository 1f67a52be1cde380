------------------------------- MODULE Power --------------------------------
(***************************************************************************)
(* Switching the chip off: the scan that the timer service runs every      *)
(* 100 ms (lib/drvhal/drvhal.c), with the power key (lib/drvhal/pmu/pmu.c) *)
(* and the filter of the battery's status (lib/drvhal/adc/lib_adc.c), and  *)
(* the handlers that the system service runs for what the scan requests.   *)
(*                                                                         *)
(* u32NextPoint is kept as its distance from u32Cnt: the scans left until  *)
(* the chip goes off.  A request that finds the queue full is dropped.     *)
(***************************************************************************)
EXTENDS Integers, Sequences

CONSTANTS Arm,       \* scans with the key up until it counts: 10
          Hold,      \* scans with the key down to go off: 30
          Byte,      \* modulus of u8Cnt: 256
          Filter,    \* readings until a status is believed: 50
          Delay,     \* u16PdDelay * 10, at least 1
          QueueSize, \* MESSAGE_QUEUE_CNT
          None

VARIABLES mode,    \* u8PowerOnMode: "button" or "switch"; never changes
          high,    \* the level of the power pin: a button is up, a switch is off
          cnt, enabled,           \* u8Cnt and u8ScanEnable
          odd,                    \* the battery is read in every second scan
          level,                  \* the status the voltage gives now
          batStatus, batCnt,      \* batStatus and batStatusCnt
          left,                   \* u32NextPoint, or None when it is 0
          listens,                \* is _drvhal_autoPowerCharging registered?
          queue,                  \* the requests to the system service
          pc,                     \* where the scan is
          inPd, off,              \* made ready to go off; off
          lost, short             \* history: was a request dropped?  has a button made
                                  \* the chip ready and come up too early or late?

vars == <<mode, high, cnt, enabled, odd, level, batStatus, batCnt, left, listens, queue, pc,
          inPd, off, lost, short>>
key == <<cnt, enabled, short>>
battery == <<odd, batStatus, batCnt>>

(* HS_CFG_EVENT_BATTERY_NEAREMPTY and no event; the others change nothing.   *)
Levels == {"0", "EMPTY"}

Init == /\ mode \in {"button", "switch"}
        /\ high = (mode = "button")
        /\ cnt = 0 /\ enabled = FALSE /\ odd = FALSE
        /\ level = "0" /\ batStatus = "0" /\ batCnt = 0
        /\ left = None /\ listens = FALSE
        /\ queue = <<>> /\ pc = "wait"
        /\ inPd = FALSE /\ off = FALSE /\ lost = FALSE /\ short = FALSE

-----------------------------------------------------------------------------

(* Is request m in the queue?                                                *)
Asked(m) == \E i \in 1..Len(queue) : queue[i] = m

(* hs_cfg_systemReq of the messages ms, in this order                        *)
Request(ms) ==
  LET room == QueueSize - Len(queue)
      n == IF Len(ms) < room THEN Len(ms) ELSE room
  IN /\ queue' = queue \o SubSeq(ms, 1, n)
     /\ lost' = (lost \/ n < Len(ms))

(* Mutant: one reading too many. *)
BelievedLate == level # batStatus /\ batCnt > Filter + 1

(* The filter of hs_adc_scan: batStatusCnt ++ > 50 *)
Believed == level # batStatus /\ batCnt > Filter

(* hs_adc_scan                                                               *)
AdcScan ==
  /\ ~off /\ pc = "wait"
  /\ pc' = "pin"
  /\ odd' = ~odd
  /\ IF odd \/ level = batStatus
       THEN /\ batCnt' = IF odd THEN batCnt ELSE 0
            /\ UNCHANGED <<batStatus, queue, lost>>
       ELSE /\ batStatus' = IF Believed THEN level ELSE batStatus
            /\ batCnt' = IF Believed THEN 0 ELSE batCnt + 1
            /\ IF Believed /\ level # "0" THEN Request(<<level>>) ELSE UNCHANGED <<queue, lost>>
  /\ UNCHANGED <<mode, high, level, left, listens, inPd, off, key>>

(* Mutant: the requests are in the wrong order. *)
SwitchOffFirst ==
  /\ cnt' = IF high THEN (cnt + 1) % Byte ELSE 0
  /\ IF cnt' = Arm THEN Request(<<"OFF", "PRE">>) ELSE UNCHANGED <<queue, lost>>
  /\ UNCHANGED <<enabled, short>>

(* hs_pmu_scanPowerPin without a button                                      *)
Switch ==
  /\ cnt' = IF high THEN (cnt + 1) % Byte ELSE 0
  /\ IF cnt' = Arm THEN Request(<<"END", "PRE", "OFF">>) ELSE UNCHANGED <<queue, lost>>
  /\ UNCHANGED <<enabled, short>>

(* _pmu_powerByButton waits until the key has been up for a while.           *)
KeyArms ==
  LET n == IF high THEN cnt + 1 ELSE 0
  IN /\ ~enabled
     /\ cnt' = IF n > Arm THEN 0 ELSE n
     /\ enabled' = (n > Arm)
     /\ UNCHANGED <<queue, lost, short>>

(* Mutant: the button that comes up requests nothing. *)
KeyUpQuiet ==
  /\ enabled /\ high
  /\ cnt' = 0
  /\ enabled' = (cnt <= Hold)
  /\ UNCHANGED <<queue, lost, short>>

(* The key is up: the chip goes off if it was down for long enough.          *)
KeyUp ==
  /\ enabled /\ high
  /\ cnt' = 0
  /\ enabled' = (cnt <= Hold)
  /\ IF cnt > Hold THEN Request(<<"OFF">>) ELSE UNCHANGED <<queue, lost>>
  /\ short' = (short \/ (cnt <= Hold /\ (inPd \/ Asked("PRE"))))

(* The key is down.                                                          *)
KeyDown ==
  /\ enabled /\ ~high
  /\ cnt' = (cnt + 1) % Byte
  /\ IF cnt' = Hold THEN Request(<<"PRE">>) ELSE UNCHANGED <<queue, lost>>
  /\ short' = (short \/ cnt' = 0)
  /\ UNCHANGED enabled

Button == KeyArms \/ KeyUp \/ KeyDown

(* hs_pmu_scanPowerPin                                                       *)
PinScan ==
  /\ ~off /\ pc = "pin"
  /\ pc' = "point"
  /\ IF mode = "button" THEN Button ELSE Switch
  /\ UNCHANGED <<mode, high, level, left, listens, inPd, off, battery>>

(* Mutant: the point is passed by. *)
PointScanLate ==
  /\ ~off /\ pc = "point"
  /\ pc' = "wait"
  /\ left' = IF left = None \/ left = 0 THEN left ELSE left - 1
  /\ UNCHANGED <<queue, lost, mode, high, level, listens, inPd, off, battery, key>>

(* The end of _drvhal_scan                                                   *)
PointScan ==
  /\ ~off /\ pc = "point"
  /\ pc' = "wait"
  /\ left' = IF left = None \/ left = 0 THEN left ELSE left - 1
  /\ IF left = 1 THEN Request(<<"END", "PRE", "OFF">>) ELSE UNCHANGED <<queue, lost>>
  /\ UNCHANGED <<mode, high, level, listens, inPd, off, battery, key>>

-----------------------------------------------------------------------------

(* The system service handles a message: hs_pmu_chipPrePowerOff,             *)
(* hs_pmu_chipPowerOff, _drvhal_autoPowerOff, _drvhal_autoPowerCharging.     *)
Serve ==
  /\ ~off /\ queue # <<>>
  /\ LET m == Head(queue)
     IN /\ queue' = IF m = "PRE" THEN Append(Tail(queue), "END") ELSE Tail(queue)
        /\ inPd' = (inPd \/ m = "PRE")
        /\ off' = (m = "OFF")
        /\ left' = CASE m = "EMPTY" -> Delay
                     [] m = "CHARGING" /\ listens -> None
                     [] OTHER -> left
        /\ listens' = (m = "EMPTY" \/ (listens /\ m # "CHARGING"))
  /\ UNCHANGED <<mode, high, level, pc, lost, battery, key>>

(* The world: the key, the battery, the charger and other requests.  Bound:  *)
(* with a button the battery does not change.  The key and the battery       *)
(* change when no scan runs: each is read once in a scan.                    *)
Key == ~off /\ pc = "wait" /\ high' = ~high
       /\ UNCHANGED <<mode, level, left, listens, queue, pc, inPd, off, lost, battery, key>>
Voltage(l) == /\ ~off /\ mode = "switch" /\ pc = "wait" /\ ~odd /\ l # level /\ level' = l
              /\ UNCHANGED <<mode, high, left, listens, queue, pc, inPd, off, lost, battery, key>>
Others(m) == /\ ~off /\ Len(queue) < QueueSize
             /\ queue' = Append(queue, m)
             /\ UNCHANGED <<mode, high, level, left, listens, pc, inPd, off, lost, battery, key>>

Scan == AdcScan \/ PinScan \/ PointScan

Next == \/ Scan \/ Serve \/ Key
        \/ \E l \in Levels : Voltage(l)
        \/ \E m \in {"END"} \cup (IF listens THEN {"CHARGING"} ELSE {}) : Others(m)

Fairness == WF_vars(Scan) /\ WF_vars(Serve)

Spec == Init /\ [][Next]_vars /\ Fairness

-----------------------------------------------------------------------------

(* The counters keep to the range the thresholds leave them.                 *)
TypeOK == /\ cnt \in 0 .. Byte - 1 /\ (~enabled /\ mode = "button" => cnt <= Arm)
          /\ batCnt \in 0 .. Filter + 1 /\ batStatus \in Levels
          /\ left \in 0 .. Delay \cup {None}
          /\ Len(queue) <= QueueSize

(* The chip never goes off before the configuration has been flushed and the *)
(* player ended (hs_pmu_chipPrePowerOff), unless that request was dropped.   *)
OrderlyOff == off => inPd \/ lost

(* A chip made ready to go off goes off, or waits for its button to come up: *)
(* it is not left with its player ended and its display dark, unless the     *)
(* request was dropped or the button came up just when it made the chip      *)
(* ready, or when the count of one byte had wrapped.                         *)
ReadyGoesOff == inPd => \/ off \/ Asked("OFF") \/ lost
                        \/ mode = "button" /\ (short \/ (enabled /\ cnt >= Hold))

(* Once the battery has started it, the countdown ends with the chip off,    *)
(* unless a charger cancels it or a request is dropped: the scan does not    *)
(* miss the one moment at which u32NextPoint equals u32Cnt.  Only a battery  *)
(* that hovers at the threshold keeps it from ending: it is reported empty   *)
(* again and again, and each report starts the countdown over.               *)
CountdownEnds == []<>(left # None => off \/ lost \/ Asked("EMPTY"))

=============================================================================
