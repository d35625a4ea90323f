-------------------------- MODULE ShipAlertsProofs --------------------------
(***************************************************************************)
(* What the commander is told of the ship, for any flights and any number  *)
(* of events in flight: no threshold alert without ground, and no heat     *)
(* that rises unannounced.                                                 *)
(*                                                                         *)
(* The closures of the handlers and the session state each have a memory   *)
(* of a quantity.  The proofs rest on how these memories agree.            *)
(***************************************************************************)
EXTENDS ShipAlerts, TLAPS

Field == {"hull", "fuel", "heat", "shield", "heatState", "capacity"}

\* The known values of a field.
Known == [hull |-> Hull, fuel |-> Fuel, heat |-> Heat, shield |-> BOOLEAN,
          heatState |-> {"warning", "damage"}, capacity |-> {"known"}]

\* A session state.
Sound(s) ==
  /\ DOMAIN s.value = Field /\ DOMAIN s.source = Field
  /\ \A f \in Field : s.value[f] \in Known[f] \cup {Missing} /\ s.source[f] \in Unset .. Inferred

\* An event that waits for its handlers is of a Status.json that was read.
Reading == todo # <<>> => polled \in StatusFile

\* Only Status.json sets the heat, and the handler remembers what it has set.
HeatShown ==
  /\ prevHeat = st.value["heat"]
  /\ st.source["heat"] \in {Unset, StatusJson}

\* An alert is armed if the reading its handler compares with is beyond the threshold.
Grounded ==
  /\ prevHull \in {2} \ {Missing} => "HULL_CRITICAL_25" \in armed
  /\ prevHull \in {1, 2} \ {Missing} => "HULL_CRITICAL_10" \in armed
  /\ st.value["fuel"] \in {3} \ {Missing} => "FUEL_LOW" \in armed
  /\ st.value["fuel"] \in {2, 3} \ {Missing} => "FUEL_CRITICAL" \in armed

IInv == TypeOK /\ Sound(st) /\ Reading /\ HeatShown /\ Grounded

-----------------------------------------------------------------------------
(* The session state.                                                      *)

\* update_field sets one field, if at all, and the journal always does.
LEMMA SessionUpdated ==
  ASSUME NEW s, Sound(s), NEW f \in Field, NEW v \in Known[f] \cup {Missing},
         NEW r \in {Journal, StatusJson}
  PROVE  /\ Sound(Put(s, f, v, r))
         /\ \A g \in Field : g # f => /\ Put(s, f, v, r).value[g] = s.value[g]
                                      /\ Put(s, f, v, r).source[g] = s.source[g]
         /\ r = Journal => Put(s, f, v, r).value[f] = v
         /\ (r = StatusJson /\ f = "heat" /\ s.source[f] \in {Unset, StatusJson}) =>
              /\ Put(s, f, v, r).value[f] = v
              /\ Put(s, f, v, r).source[f] = StatusJson
<1>1. r \in Unset .. Inferred
  BY DEF Unset, Inferred, Journal, StatusJson
<1>2. CASE Accepts(s, f, v, r)
  <2>1. Put(s, f, v, r) = [value |-> [s.value EXCEPT ![f] = v],
                           source |-> [s.source EXCEPT ![f] = r]]
    BY <1>2 DEF Put
  <2>2. /\ DOMAIN Put(s, f, v, r).value = Field
        /\ DOMAIN Put(s, f, v, r).source = Field
        /\ \A g \in Field : Put(s, f, v, r).value[g] = IF g = f THEN v ELSE s.value[g]
        /\ \A g \in Field : Put(s, f, v, r).source[g] = IF g = f THEN r ELSE s.source[g]
    BY <2>1 DEF Sound
  <2> QED
    BY <1>1, <2>2 DEF Sound
<1>3. CASE ~Accepts(s, f, v, r)
  <2>1. Put(s, f, v, r) = s
    BY <1>3 DEF Put
  <2>2. s.source[f] \in Unset .. Inferred
    BY DEF Sound
  <2>3. r # Journal
    BY <1>3, <2>2 DEF Accepts, Exempt, Outranks, Journal, StatusJson, Unset
  <2>4. ~(r = StatusJson /\ f = "heat" /\ s.source[f] \in {Unset, StatusJson})
    BY <1>3, <2>2 DEF Accepts, Exempt, Outranks
  <2> QED
    BY <2>1, <2>3, <2>4
<1> QED
  BY <1>2, <1>3

\* What a handler leaves armed.
LEMMA HandledAlerts ==
  ASSUME armed \subseteq Alert, NEW s, NEW p \in Seq(Alert), Handle(s, p)
  PROVE  /\ st' = s /\ alerts' = p /\ armed' \subseteq Alert
         /\ \A a \in armed : a \in ToSet(p) \/ a \in armed'
         /\ s.value["hull"] \in {2} => "HULL_CRITICAL_25" \in armed'
         /\ s.value["hull"] \in {1, 2} => "HULL_CRITICAL_10" \in armed'
         /\ s.value["fuel"] \in {3} => "FUEL_LOW" \in armed'
         /\ s.value["fuel"] \in {2, 3} => "FUEL_CRITICAL" \in armed'
<1>1. /\ st' = s /\ alerts' = p
      /\ armed' = (armed \ ToSet(p)) \cup {a \in Alert : Recovered(s, a)}
  BY DEF Handle
<1>2. {"HULL_CRITICAL_25", "HULL_CRITICAL_10", "FUEL_LOW", "FUEL_CRITICAL"} \subseteq Alert
  BY DEF Alert
<1>3. /\ s.value["hull"] \in {2} => Recovered(s, "HULL_CRITICAL_25")
      /\ s.value["hull"] \in {1, 2} => Recovered(s, "HULL_CRITICAL_10")
      /\ s.value["fuel"] \in {3} => Recovered(s, "FUEL_LOW")
      /\ s.value["fuel"] \in {2, 3} => Recovered(s, "FUEL_CRITICAL")
  BY DEF Recovered
<1> QED
  BY <1>1, <1>2, <1>3

\* No alert, or one.
LEMMA Publishing ==
  ASSUME NEW c \in BOOLEAN, NEW a \in Alert
  PROVE  /\ When(c, a) \in Seq(Alert)
         /\ \A b \in ToSet(When(c, a)) : c /\ b = a
<1>1. CASE c
  BY <1>1 DEF When, ToSet
<1>2. CASE ~c
  BY <1>2 DEF When, ToSet
<1> QED
  BY <1>1, <1>2

\* The elements of two sequences.
LEMMA Joined ==
  ASSUME NEW S, NEW p \in Seq(S), NEW q \in Seq(S)
  PROVE  p \o q \in Seq(S) /\ ToSet(p \o q) \subseteq ToSet(p) \cup ToSet(q)
<1>1. /\ p \o q \in Seq(S) /\ DOMAIN (p \o q) = 1 .. Len(p) + Len(q)
      /\ \A i \in 1 .. Len(p) + Len(q) :
           (p \o q)[i] = IF i <= Len(p) THEN p[i] ELSE q[i - Len(p)]
  OBVIOUS
<1>2. ASSUME NEW i \in 1 .. Len(p) + Len(q) PROVE (p \o q)[i] \in ToSet(p) \cup ToSet(q)
  <2>1. CASE i <= Len(p)
    BY <2>1 DEF ToSet
  <2>2. CASE ~(i <= Len(p))
    <3>1. i - Len(p) \in DOMAIN q
      BY <2>2
    <3> QED
      BY <3>1 DEF ToSet
  <2> QED
    BY <2>1, <2>2
<1> QED
  BY <1>2 DEF ToSet

\* The alerts of the handlers, which compare a reading with the one before.
LEMMA Crossing ==
  ASSUME NEW prev, NEW level \in Nat
  PROVE  /\ prev \in Hull \cup {Missing} =>
              /\ HullAlerts(prev, level) \in Seq(Alert)
              /\ \A a \in ToSet(HullAlerts(prev, level)) :
                   \/ a = "HULL_CRITICAL_25" /\ prev \in {2} \ {Missing}
                   \/ a = "HULL_CRITICAL_10" /\ prev \in {1, 2} \ {Missing}
         /\ prev \in Fuel \cup {Missing} =>
              /\ FuelAlerts(prev, level) \in Seq(Alert)
              /\ \A a \in ToSet(FuelAlerts(prev, level)) :
                   \/ a = "FUEL_LOW" /\ prev \in {3} \ {Missing}
                   \/ a = "FUEL_CRITICAL" /\ prev \in {2, 3} \ {Missing}
         /\ prev \in Heat \cup {Missing} =>
              /\ HeatAlerts(prev, level) \in Seq(Alert)
              /\ ToSet(HeatAlerts(prev, level)) \subseteq {"HEAT_WARNING"}
              /\ (level = 2 /\ prev # 2) => "HEAT_WARNING" \in ToSet(HeatAlerts(prev, level))
<1>1. {"HULL_CRITICAL_25", "HULL_CRITICAL_10", "FUEL_LOW", "FUEL_CRITICAL", "HEAT_WARNING"}
        \subseteq Alert
  BY DEF Alert
<1>2. ASSUME prev \in Hull \cup {Missing}
      PROVE  /\ HullAlerts(prev, level) \in Seq(Alert)
             /\ \A a \in ToSet(HullAlerts(prev, level)) :
                  \/ a = "HULL_CRITICAL_25" /\ prev \in {2} \ {Missing}
                  \/ a = "HULL_CRITICAL_10" /\ prev \in {1, 2} \ {Missing}
  <2> DEFINE p == When(Falls(prev, level, 2), "HULL_CRITICAL_25")
             q == When(Falls(prev, level, 1), "HULL_CRITICAL_10")
  <2>1. /\ Falls(prev, level, 2) \in BOOLEAN /\ Falls(prev, level, 1) \in BOOLEAN
        /\ Falls(prev, level, 2) => prev \in {2} \ {Missing}
        /\ Falls(prev, level, 1) => prev \in {1, 2} \ {Missing}
    BY <1>2 DEF Falls, Hull
  <2>2. /\ p \in Seq(Alert) /\ \A a \in ToSet(p) : Falls(prev, level, 2) /\ a = "HULL_CRITICAL_25"
        /\ q \in Seq(Alert) /\ \A a \in ToSet(q) : Falls(prev, level, 1) /\ a = "HULL_CRITICAL_10"
    BY <1>1, <2>1, Publishing
  <2>3. HullAlerts(prev, level) = p \o q
    BY DEF HullAlerts
  <2> HIDE DEF p, q
  <2>4. p \o q \in Seq(Alert) /\ ToSet(p \o q) \subseteq ToSet(p) \cup ToSet(q)
    BY <2>2, Joined
  <2> QED
    BY <2>1, <2>2, <2>3, <2>4
<1>3. ASSUME prev \in Fuel \cup {Missing}
      PROVE  /\ FuelAlerts(prev, level) \in Seq(Alert)
             /\ \A a \in ToSet(FuelAlerts(prev, level)) :
                  \/ a = "FUEL_LOW" /\ prev \in {3} \ {Missing}
                  \/ a = "FUEL_CRITICAL" /\ prev \in {2, 3} \ {Missing}
  <2>1. /\ Falls(prev, level, 3) \in BOOLEAN
        /\ Falls(prev, level, 2) => prev \in {2, 3} \ {Missing}
        /\ Falls(prev, level, 3) => prev \in {3} \ {Missing}
    BY <1>3 DEF Falls, Fuel
  <2>2. /\ When(Falls(prev, level, 3), "FUEL_LOW") \in Seq(Alert)
        /\ \A a \in ToSet(When(Falls(prev, level, 3), "FUEL_LOW")) :
             Falls(prev, level, 3) /\ a = "FUEL_LOW"
    BY <1>1, <2>1, Publishing
  <2>3. /\ <<"FUEL_CRITICAL">> \in Seq(Alert) /\ ToSet(<<"FUEL_CRITICAL">>) = {"FUEL_CRITICAL"}
        /\ <<>> \in Seq(Alert) /\ ToSet(<<>>) = {}
    BY <1>1 DEF ToSet
  <2>4. \/ FuelAlerts(prev, level) = <<>>
        \/ Falls(prev, level, 2) /\ FuelAlerts(prev, level) = <<"FUEL_CRITICAL">>
        \/ FuelAlerts(prev, level) = When(Falls(prev, level, 3), "FUEL_LOW")
    BY DEF FuelAlerts
  <2> QED
    BY <2>1, <2>2, <2>3, <2>4
<1>4. ASSUME prev \in Heat \cup {Missing}
      PROVE  /\ HeatAlerts(prev, level) \in Seq(Alert)
             /\ ToSet(HeatAlerts(prev, level)) \subseteq {"HEAT_WARNING"}
             /\ (level = 2 /\ prev # 2) => "HEAT_WARNING" \in ToSet(HeatAlerts(prev, level))
  <2> DEFINE due == (prev = Missing \/ prev < 2) /\ level = 2
  <2>1. due \in BOOLEAN /\ ((level = 2 /\ prev # 2) => due)
    BY <1>4 DEF Heat
  <2>2. HeatAlerts(prev, level) = When(due, "HEAT_WARNING")
    BY DEF HeatAlerts
  <2> HIDE DEF due
  <2>3. due => "HEAT_WARNING" \in ToSet(When(due, "HEAT_WARNING"))
    BY DEF When, ToSet
  <2> QED
    BY <1>1, <2>1, <2>2, <2>3, Publishing
<1> QED
  BY <1>2, <1>3, <1>4

-----------------------------------------------------------------------------
(* The handlers.                                                           *)

\* What every step of a handler leaves, and publishes.
Outcome ==
  /\ Sound(st') /\ alerts' \in Seq(Alert) /\ armed' \subseteq Alert
  /\ prevHull' \in Hull \cup {Missing}
  /\ Grounded'
  /\ ToSet(alerts') \cap Threshold \subseteq armed

SameHeat ==
  /\ st'.value["heat"] = st.value["heat"]
  /\ st'.source["heat"] = st.source["heat"]

\* A handler that publishes nothing of the hull.
LEMMA OtherHandled ==
  ASSUME IInv, NEW s, Sound(s), NEW p \in Seq(Alert), Handle(s, p), prevHull' = prevHull,
         ToSet(p) \cap {"HULL_CRITICAL_25", "HULL_CRITICAL_10"} = {},
         ToSet(p) \cap Threshold \subseteq armed
  PROVE  Outcome
<1>1. /\ st' = s /\ alerts' = p /\ armed' \subseteq Alert
      /\ \A a \in armed : a \in ToSet(p) \/ a \in armed'
      /\ s.value["fuel"] \in {3} => "FUEL_LOW" \in armed'
      /\ s.value["fuel"] \in {2, 3} => "FUEL_CRITICAL" \in armed'
  BY HandledAlerts DEF IInv, TypeOK
<1>2. Grounded'
  BY <1>1 DEF IInv, Grounded
<1> QED
  BY <1>1, <1>2 DEF IInv, TypeOK, Outcome

\* Single alerts that are not about a threshold.
LEMMA Single ==
  ASSUME NEW a \in Alert \ Threshold
  PROVE  /\ <<a>> \in Seq(Alert) /\ <<>> \in Seq(Alert)
         /\ ToSet(<<a>>) \cap Threshold = {} /\ ToSet(<<>>) \cap Threshold = {}
<1>1. ToSet(<<a>>) = {a} /\ ToSet(<<>>) = {}
  BY DEF ToSet
<1> QED
  BY <1>1

\* The hull: HullDamage compares with the one before and arms what is beyond.
LEMMA HullHandled ==
  ASSUME IInv, NEW e \in JournalEvent, HandleHull(e)
  PROVE  Outcome /\ SameHeat
<1>0. Sound(st) /\ {"hull", "fuel", "heat", "shield", "capacity"} \subseteq Field
  BY DEF IInv, Field
<1>1. /\ Known["hull"] = Hull /\ Known["shield"] = BOOLEAN /\ Known["capacity"] = {"known"}
      /\ Journal \in {Journal, StatusJson}
  BY DEF Known
<1>2. CASE HandleHullDamage(e)
  <2>1. e.level \in Hull
    BY <1>2 DEF HandleHullDamage, JournalEvent
  <2> DEFINE s == Put(st, "hull", e.level, Journal)
             p == HullAlerts(prevHull, e.level)
  <2>2. /\ Sound(s) /\ s.value["hull"] = e.level
        /\ s.value["heat"] = st.value["heat"] /\ s.source["heat"] = st.source["heat"]
    BY <1>0, <1>1, <2>1, SessionUpdated
  <2>3. /\ p \in Seq(Alert)
        /\ \A a \in ToSet(p) : \/ a = "HULL_CRITICAL_25" /\ prevHull \in {2} \ {Missing}
                               \/ a = "HULL_CRITICAL_10" /\ prevHull \in {1, 2} \ {Missing}
    <3>1. prevHull \in Hull \cup {Missing} /\ e.level \in Nat
      BY <2>1 DEF IInv, TypeOK, Hull
    <3> QED
      BY <3>1, Crossing
  <2>4. Handle(s, p) /\ prevHull' = e.level
    BY <1>2 DEF HandleHullDamage
  <2> HIDE DEF s, p
  <2>5. /\ st' = s /\ alerts' = p /\ armed' \subseteq Alert
        /\ s.value["hull"] \in {2} => "HULL_CRITICAL_25" \in armed'
        /\ s.value["hull"] \in {1, 2} => "HULL_CRITICAL_10" \in armed'
        /\ s.value["fuel"] \in {3} => "FUEL_LOW" \in armed'
        /\ s.value["fuel"] \in {2, 3} => "FUEL_CRITICAL" \in armed'
    BY <2>3, <2>4, HandledAlerts DEF IInv, TypeOK
  <2>6. Grounded'
    BY <2>2, <2>4, <2>5 DEF Grounded
  <2>7. ToSet(p) \cap Threshold \subseteq armed
    BY <2>3 DEF IInv, Grounded
  <2> QED
    BY <2>1, <2>2, <2>4, <2>3, <2>5, <2>6, <2>7 DEF Outcome, SameHeat
<1>3. <<>> \in Seq(Alert) /\ ToSet(<<>>) = {}
  BY DEF ToSet
<1>4. CASE HandleLoadout(e)
  <2>1. e.level \in Hull
    BY <1>4 DEF HandleLoadout, JournalEvent
  <2> DEFINE r == Put(st, "hull", e.level, Journal)
             s == Put(r, "capacity", "known", Journal)
  <2>2. /\ Sound(r)
        /\ r.value["heat"] = st.value["heat"] /\ r.source["heat"] = st.source["heat"]
    BY <1>0, <1>1, <2>1, SessionUpdated
  <2>3. Handle(s, <<>>) /\ prevHull' = prevHull
    BY <1>4 DEF HandleLoadout
  <2> HIDE DEF r
  <2>4. /\ Sound(s)
        /\ s.value["heat"] = st.value["heat"] /\ s.source["heat"] = st.source["heat"]
    BY <1>0, <1>1, <2>2, SessionUpdated
  <2> HIDE DEF s
  <2>5. st' = s
    BY <2>3 DEF Handle
  <2> QED
    BY <1>3, <2>3, <2>4, <2>5, OtherHandled DEF SameHeat
<1>5. CASE HandleShipyardSwap(e)
  <2> DEFINE s == Put(st, "hull", Missing, Journal)
  <2>1. /\ Sound(s)
        /\ s.value["heat"] = st.value["heat"] /\ s.source["heat"] = st.source["heat"]
    BY <1>0, <1>1, SessionUpdated
  <2>2. Handle(s, <<>>) /\ prevHull' = prevHull
    BY <1>5 DEF HandleShipyardSwap
  <2> HIDE DEF s
  <2>3. st' = s
    BY <2>2 DEF Handle
  <2> QED
    BY <1>3, <2>1, <2>2, <2>3, OtherHandled DEF SameHeat
<1>6. CASE HandleShipDestroyed(e)
  <2> DEFINE r == Put(st, "hull", Missing, Journal)
             s == Put(r, "shield", Missing, Journal)
  <2>1. /\ Sound(r)
        /\ r.value["heat"] = st.value["heat"] /\ r.source["heat"] = st.source["heat"]
    BY <1>0, <1>1, SessionUpdated
  <2>2. Handle(s, <<>>) /\ prevHull' = prevHull
    BY <1>6 DEF HandleShipDestroyed
  <2> HIDE DEF r
  <2>3. /\ Sound(s)
        /\ s.value["heat"] = st.value["heat"] /\ s.source["heat"] = st.source["heat"]
    BY <1>0, <1>1, <2>1, SessionUpdated
  <2> HIDE DEF s
  <2>4. st' = s
    BY <2>2 DEF Handle
  <2> QED
    BY <1>3, <2>2, <2>3, <2>4, OtherHandled DEF SameHeat
<1> QED
  BY <1>2, <1>4, <1>5, <1>6 DEF HandleHull

\* The fuel: the level before is the one shown.
LEMMA FuelHandled ==
  ASSUME IInv, NEW e \in JournalEvent, HandleFuel(e)
  PROVE  Outcome /\ SameHeat
<1>1. Sound(st) /\ "fuel" \in Field /\ "heat" \in Field /\ Known["fuel"] = Fuel
  BY DEF IInv, Field, Known
<1>2. st.value["fuel"] \in Fuel \cup {Missing}
  BY DEF IInv, TypeOK
<1>3. PICK f \in IF e.type \in {"FSDJump", "FuelScoop"} THEN {e.level} ELSE RefuelledTo(e.type) :
        /\ Handle(Put(st, "fuel", f, Journal), FuelAlerts(st.value["fuel"], f))
        /\ prevHull' = prevHull
  BY DEF HandleFuel
<1>4. f \in Fuel
  <2>1. e.type \in {"FSDJump", "FuelScoop"} => e.level \in Fuel
    BY DEF JournalEvent
  <2>2. RefuelledTo(e.type) \subseteq Fuel
    BY <1>2 DEF RefuelledTo, Fuel
  <2> QED
    BY <1>3, <2>1, <2>2
<1> DEFINE s == Put(st, "fuel", f, Journal)
           p == FuelAlerts(st.value["fuel"], f)
<1>5. /\ Sound(s)
      /\ s.value["heat"] = st.value["heat"] /\ s.source["heat"] = st.source["heat"]
  BY <1>1, <1>4, SessionUpdated
<1>6. /\ p \in Seq(Alert)
      /\ \A a \in ToSet(p) : \/ a = "FUEL_LOW" /\ st.value["fuel"] \in {3} \ {Missing}
                             \/ a = "FUEL_CRITICAL" /\ st.value["fuel"] \in {2, 3} \ {Missing}
  <2>1. f \in Nat
    BY <1>4 DEF Fuel
  <2> QED
    BY <1>2, <2>1, Crossing
<1>7. Handle(s, p)
  BY <1>3
<1> HIDE DEF s, p
<1>8. ToSet(p) \cap Threshold \subseteq armed
  BY <1>6 DEF IInv, Grounded
<1>9. ToSet(p) \cap {"HULL_CRITICAL_25", "HULL_CRITICAL_10"} = {}
  BY <1>6
<1>10. st' = s
  BY <1>7 DEF Handle
<1> QED
  BY <1>3, <1>5, <1>6, <1>7, <1>8, <1>10, OtherHandled DEF SameHeat

\* The shields and the heat of the journal: one alert that has no threshold.
LEMMA ReportHandled ==
  ASSUME IInv, NEW e \in JournalEvent, HandleShields(e) \/ HandleHeat(e)
  PROVE  Outcome /\ SameHeat
<1>1. /\ Sound(st) /\ {"shield", "heat", "heatState"} \subseteq Field
      /\ Known["shield"] = BOOLEAN /\ Known["heatState"] = {"warning", "damage"}
  BY DEF IInv, Field, Known
<1>0. PICK f \in {"shield", "heatState"},
           a \in {"SHIELDS_DOWN", "SHIELDS_UP", "HEAT_WARNING", "HEAT_DAMAGE"} :
        \E v \in Known[f] : Handle(Put(st, f, v, Journal), <<a>>) /\ prevHull' = prevHull
  <2>1. CASE HandleShields(e)
    BY <1>1, <2>1 DEF HandleShields
  <2>2. CASE HandleHeat(e)
    BY <1>1, <2>2 DEF HandleHeat
  <2> QED
    BY <2>1, <2>2
<1>2. PICK v \in Known[f] : Handle(Put(st, f, v, Journal), <<a>>) /\ prevHull' = prevHull
  BY <1>0
<1>3. a \in Alert \ Threshold
  BY <1>2 DEF Alert, Threshold
<1> DEFINE s == Put(st, f, v, Journal)
<1>4. /\ Sound(s)
      /\ s.value["heat"] = st.value["heat"] /\ s.source["heat"] = st.source["heat"]
  BY <1>1, SessionUpdated
<1>5. Handle(s, <<a>>)
  BY <1>2
<1> HIDE DEF s
<1>6. st' = s
  BY <1>5 DEF Handle
<1>7. {"HULL_CRITICAL_25", "HULL_CRITICAL_10"} \subseteq Threshold
  BY DEF Threshold
<1>8. /\ <<a>> \in Seq(Alert) /\ ToSet(<<a>>) \cap Threshold = {}
  BY <1>3, Single
<1>9. Outcome
  BY <1>2, <1>4, <1>5, <1>7, <1>8, OtherHandled
<1> QED
  BY <1>4, <1>6, <1>9 DEF SameHeat

\* A reading of Status.json: what it leaves out stays.
LEMMA Read ==
  ASSUME NEW s, Sound(s), NEW f \in Field, NEW v \in Known[f] \cup {Missing},
         s.source["heat"] \in {Unset, StatusJson}
  PROVE  /\ Sound(PutReading(s, f, v))
         /\ PutReading(s, f, v).source["heat"] \in {Unset, StatusJson}
         /\ PutReading(s, f, v).value["heat"] =
              IF f = "heat" /\ v # Missing THEN v ELSE s.value["heat"]
<1>1. CASE v = Missing
  BY <1>1 DEF PutReading
<1>2. CASE v # Missing
  <2>1. PutReading(s, f, v) = Put(s, f, v, StatusJson)
    BY <1>2 DEF PutReading
  <2>2. CASE f = "heat"
    BY <1>2, <2>1, <2>2, SessionUpdated
  <2>3. CASE f # "heat"
    <3>1. "heat" \in Field
      BY DEF Field
    <3> QED
      BY <2>1, <2>3, <3>1, SessionUpdated
  <2> QED
    BY <2>2, <2>3
<1> QED
  BY <1>1, <1>2

\* The Status event sets the heat and remembers it; its rise is announced.
LEMMA StatusHandled ==
  ASSUME IInv, HandleStatus
  PROVE  /\ Outcome /\ HeatShown' /\ prevHeat' \in Heat \cup {Missing}
         /\ (st.value["heat"] # 2 /\ st'.value["heat"] = 2) => "HEAT_WARNING" \in ToSet(alerts')
<1>1. /\ Sound(st) /\ {"fuel", "heat", "shield"} \subseteq Field /\ "shield" # "heat"
      /\ "fuel" # "heat"
      /\ Known["fuel"] = Fuel /\ Known["heat"] = Heat /\ Known["shield"] = BOOLEAN
  BY DEF IInv, Field, Known
<1>2. /\ polled.fuel \in Fuel \cup {Missing} /\ polled.heat \in Heat \cup {Missing}
      /\ polled.shield \in BOOLEAN
  BY DEF IInv, Reading, HandleStatus, StatusFile
<1>3. /\ prevHeat = st.value["heat"] /\ prevHeat \in Heat \cup {Missing}
      /\ st.source["heat"] \in {Unset, StatusJson}
  BY DEF IInv, HeatShown, TypeOK
<1> DEFINE q == PutReading(st, "fuel", polled.fuel)
           r == PutReading(q, "heat", polled.heat)
           s == Put(r, "shield", polled.shield, StatusJson)
           p == IF polled.heat = Missing THEN <<>> ELSE HeatAlerts(prevHeat, polled.heat)
<1>4. /\ Handle(s, p) /\ prevHull' = prevHull
      /\ prevHeat' = IF polled.heat = Missing THEN prevHeat ELSE polled.heat
  BY DEF HandleStatus
<1>5. /\ Sound(q) /\ q.source["heat"] \in {Unset, StatusJson}
      /\ q.value["heat"] = st.value["heat"]
  BY <1>1, <1>2, <1>3, Read
<1> HIDE DEF q
<1>6. /\ Sound(r) /\ r.source["heat"] \in {Unset, StatusJson}
      /\ r.value["heat"] = IF polled.heat # Missing THEN polled.heat ELSE st.value["heat"]
  BY <1>1, <1>2, <1>5, Read
<1> HIDE DEF r
<1>7. /\ Sound(s) /\ s.source["heat"] = r.source["heat"] /\ s.value["heat"] = r.value["heat"]
  <2>1. polled.shield \in Known["shield"] \cup {Missing}
    BY <1>1, <1>2
  <2>2. Sound(r) /\ "shield" \in Field /\ "heat" \in Field /\ StatusJson \in {Journal, StatusJson}
    BY <1>1, <1>6
  <2> QED
    BY <1>1, <2>1, <2>2, SessionUpdated
<1> HIDE DEF s
<1>8. /\ p \in Seq(Alert) /\ ToSet(p) \subseteq {"HEAT_WARNING"}
      /\ (polled.heat # Missing /\ polled.heat = 2 /\ prevHeat # 2) => "HEAT_WARNING" \in ToSet(p)
  <2>1. CASE polled.heat = Missing
    BY <2>1 DEF ToSet
  <2>2. CASE polled.heat # Missing
    <3>1. polled.heat \in Nat
      BY <1>2, <2>2 DEF Heat
    <3> QED
      BY <1>3, <2>2, <3>1, Crossing
  <2> QED
    BY <2>1, <2>2
<1> HIDE DEF p
<1>9. st' = s /\ alerts' = p
  BY <1>4 DEF Handle
<1>10. Outcome
  <2>1. "HEAT_WARNING" \notin Threshold \cup {"HULL_CRITICAL_25", "HULL_CRITICAL_10"}
    BY DEF Threshold
  <2> QED
    BY <1>4, <1>7, <1>8, <2>1, OtherHandled
<1>11. HeatShown' /\ prevHeat' \in Heat \cup {Missing}
  BY <1>2, <1>3, <1>4, <1>6, <1>7, <1>9 DEF HeatShown
<1>12. (st.value["heat"] # 2 /\ st'.value["heat"] = 2) => "HEAT_WARNING" \in ToSet(alerts')
  BY <1>3, <1>6, <1>7, <1>8, <1>9
<1> QED
  BY <1>10, <1>11, <1>12

\* The sub-events.
LEMMA SubEventHandled ==
  ASSUME IInv, HandleSubEvent
  PROVE  Outcome /\ SameHeat
<1>1. /\ Sound(st) /\ {"shield", "heat", "heatState"} \subseteq Field
      /\ Known["shield"] = BOOLEAN /\ Known["heatState"] = {"warning", "damage"}
  BY DEF IInv, Field, Known
<1>2. {"HEAT_WARNING", "SHIELDS_DOWN"} \subseteq Alert \ Threshold
  BY DEF Alert, Threshold
<1>3. {"HULL_CRITICAL_25", "HULL_CRITICAL_10"} \subseteq Threshold
  BY DEF Threshold
<1>4. prevHull' = prevHull
  BY DEF HandleSubEvent
<1>5. CASE Handle(st, <<>>)
  <2>1. <<>> \in Seq(Alert) /\ ToSet(<<>>) = {}
    BY DEF ToSet
  <2>2. st' = st
    BY <1>5 DEF Handle
  <2> QED
    BY <1>1, <1>4, <1>5, <2>1, <2>2, OtherHandled DEF SameHeat
<1>6. CASE Handle(Put(st, "heatState", "warning", Journal), <<"HEAT_WARNING">>)
  <2> DEFINE s == Put(st, "heatState", "warning", Journal)
  <2>1. /\ Sound(s)
        /\ s.value["heat"] = st.value["heat"] /\ s.source["heat"] = st.source["heat"]
    BY <1>1, SessionUpdated
  <2>2. Handle(s, <<"HEAT_WARNING">>)
    BY <1>6
  <2> HIDE DEF s
  <2>3. <<"HEAT_WARNING">> \in Seq(Alert) /\ ToSet(<<"HEAT_WARNING">>) \cap Threshold = {}
    BY <1>2, Single
  <2>4. st' = s
    BY <2>2 DEF Handle
  <2> QED
    BY <1>3, <1>4, <2>1, <2>2, <2>3, <2>4, OtherHandled DEF SameHeat
<1>7. CASE Handle(Put(st, "shield", FALSE, StatusJson), <<"SHIELDS_DOWN">>)
  <2>0. PICK b \in Known["shield"] : Handle(Put(st, "shield", b, StatusJson), <<"SHIELDS_DOWN">>)
    BY <1>1, <1>7
  <2> DEFINE s == Put(st, "shield", b, StatusJson)
  <2>1. /\ Sound(s)
        /\ s.value["heat"] = st.value["heat"] /\ s.source["heat"] = st.source["heat"]
    BY <1>1, SessionUpdated
  <2>2. Handle(s, <<"SHIELDS_DOWN">>)
    BY <2>0
  <2> HIDE DEF s
  <2>3. <<"SHIELDS_DOWN">> \in Seq(Alert) /\ ToSet(<<"SHIELDS_DOWN">>) \cap Threshold = {}
    BY <1>2, Single
  <2>4. st' = s
    BY <2>2 DEF Handle
  <2> QED
    BY <1>3, <1>4, <2>1, <2>2, <2>3, <2>4, OtherHandled DEF SameHeat
<1> QED
  BY <1>5, <1>6, <1>7 DEF HandleSubEvent

\* A step that runs no handler.
LEMMA SilentStep ==
  ASSUME IInv, Silent
  PROVE  Outcome /\ SameHeat /\ prevHeat' = prevHeat
<1>1. alerts' = <<>> /\ st' = st /\ prevHull' = prevHull /\ prevHeat' = prevHeat /\ armed' = armed
  BY DEF Silent, app
<1>2. <<>> \in Seq(Alert) /\ ToSet(<<>>) = {}
  BY DEF ToSet
<1> QED
  BY <1>1, <1>2 DEF IInv, TypeOK, Outcome, SameHeat, Grounded

-----------------------------------------------------------------------------
(* The steps.                                                              *)

\* The values that handlers do not touch.
World ==
  /\ flight \in Flights
  /\ ship \in Ship
  /\ file \in StatusFile
  /\ unread \in BOOLEAN
  /\ lastState \in StatusFile \cup {Missing}
  /\ polled \in StatusFile \cup {Missing}
  /\ todo \in Seq(StatusEvent) /\ Len(todo) <= 4
  /\ tasks \in Seq(JournalEvent) /\ Len(tasks) <= MaxInFlight
  /\ Reading

\* The game writes to the end of the journal, as much as may be in flight.
LEMMA Written ==
  ASSUME IInv, NEW events \in Seq(JournalEvent), Write(events), ship' \in Ship
  PROVE  World' /\ Silent
<1>1. flight \in Flight /\ MaxInFlight \in Nat
  BY FlightsAssumption, MaxInFlightAssumption DEF IInv, TypeOK
<1>2. /\ Len(tasks) + Len(events) <= flight.inFlight /\ tasks' = tasks \o events
      /\ UNCHANGED <<flight, file, unread, reader>> /\ Silent
  BY DEF Write
<1>3. tasks' \in Seq(JournalEvent) /\ Len(tasks') <= MaxInFlight
  <2>1. tasks \in Seq(JournalEvent) /\ flight.inFlight \in 0 .. MaxInFlight
    BY <1>1 DEF IInv, TypeOK, Flight
  <2>2. tasks' \in Seq(JournalEvent) /\ Len(tasks') = Len(tasks) + Len(events)
    BY <1>2, <2>1
  <2>3. Len(tasks) \in Nat /\ Len(events) \in Nat
    BY <2>1
  <2> QED
    BY <1>1, <1>2, <2>1, <2>2, <2>3
<1> QED
  BY <1>2, <1>3 DEF IInv, TypeOK, World, Reading, reader

\* The game.
LEMMA GamePlayed ==
  ASSUME IInv, GameStep
  PROVE  World' /\ Silent
<1>0. /\ flight.hull \subseteq Hull /\ flight.fuel \subseteq Fuel /\ flight.heat \subseteq Heat
      /\ ship \in Ship
  BY FlightsAssumption DEF IInv, TypeOK, Flight
<1>1. ASSUME NEW h \in flight.hull,
             \/ HullHit(h) \/ Refit(h)
             \/ \E type \in {"ShipyardSwap", "ShipDestroyed"} : ChangeShip(type, h)
      PROVE  World' /\ Silent
  <2>1. ship' = [ship EXCEPT !.hull = h] /\ h \in Hull
    BY <1>0, <1>1 DEF HullHit, Refit, ChangeShip
  <2>2. ship' \in Ship
    BY <1>0, <2>1 DEF Ship
  <2>3. \E events \in Seq(JournalEvent) : Write(events)
    <3>1. /\ Event("HullDamage", h) \in JournalEvent /\ Event("Loadout", h) \in JournalEvent
          /\ Event("ShipyardSwap", 0) \in JournalEvent /\ Event("ShipDestroyed", 0) \in JournalEvent
      BY <2>1 DEF Event, JournalEvent
    <3>2. \/ Write(<<Event("HullDamage", h)>>) \/ Write(<<Event("Loadout", h)>>)
          \/ Write(<<Event("ShipyardSwap", 0), Event("Loadout", h)>>)
          \/ Write(<<Event("ShipDestroyed", 0), Event("Loadout", h)>>)
      BY <1>1 DEF HullHit, Refit, ChangeShip
    <3>3. \A a, b \in JournalEvent : <<a>> \in Seq(JournalEvent) /\ <<a, b>> \in Seq(JournalEvent)
      OBVIOUS
    <3> QED
      BY <3>1, <3>2, <3>3
  <2> QED
    BY <2>2, <2>3, Written
<1>2. ASSUME NEW f \in flight.fuel,
             \/ \E type \in {"FSDJump", "FuelScoop"} : MoveFuel(type, f)
             \/ \E type \in {"RefuelAll", "RefuelPartial"} : Refuel(type, f)
      PROVE  World' /\ Silent
  <2>1. ship' = [ship EXCEPT !.fuel = f] /\ f \in Fuel
    BY <1>0, <1>2 DEF MoveFuel, Refuel
  <2>2. ship' \in Ship
    BY <1>0, <2>1 DEF Ship
  <2>3. \E events \in Seq(JournalEvent) : Write(events)
    <3>1. /\ Event("FSDJump", f) \in JournalEvent /\ Event("FuelScoop", f) \in JournalEvent
          /\ Event("RefuelAll", 0) \in JournalEvent /\ Event("RefuelPartial", 0) \in JournalEvent
      BY <2>1 DEF Event, JournalEvent
    <3>2. \/ Write(<<Event("FSDJump", f)>>) \/ Write(<<Event("FuelScoop", f)>>)
          \/ Write(<<Event("RefuelAll", 0)>>) \/ Write(<<Event("RefuelPartial", 0)>>)
      BY <1>2 DEF MoveFuel, Refuel
    <3>3. \A a \in JournalEvent : <<a>> \in Seq(JournalEvent)
      OBVIOUS
    <3> QED
      BY <3>1, <3>2, <3>3
  <2> QED
    BY <2>2, <2>3, Written
<1>3. ASSUME \/ \E type \in {"HeatWarning", "HeatDamage"} : ReportHeat(type)
             \/ ToggleShield
      PROVE  World' /\ Silent
  <2>1. ship' \in Ship
    BY <1>0, <1>3 DEF ReportHeat, ToggleShield, Ship
  <2>2. \E events \in Seq(JournalEvent) : Write(events)
    <3>1. /\ Event("HeatWarning", 0) \in JournalEvent /\ Event("HeatDamage", 0) \in JournalEvent
          /\ Event("ShieldsDown", 0) \in JournalEvent /\ Event("ShieldsUp", 0) \in JournalEvent
      BY DEF Event, JournalEvent
    <3>2. \/ Write(<<Event("HeatWarning", 0)>>) \/ Write(<<Event("HeatDamage", 0)>>)
          \/ Write(<<Event("ShieldsDown", 0)>>) \/ Write(<<Event("ShieldsUp", 0)>>)
      BY <1>3 DEF ReportHeat, ToggleShield
    <3>3. \A a \in JournalEvent : <<a>> \in Seq(JournalEvent)
      OBVIOUS
    <3> QED
      BY <3>1, <3>2, <3>3
  <2> QED
    BY <2>1, <2>2, Written
<1>4. ASSUME \/ \E f \in flight.fuel : BurnFuel(f)
             \/ \E h \in flight.heat : ChangeHeat(h)
      PROVE  World' /\ Silent
  <2>1. ship' \in Ship
    BY <1>0, <1>4 DEF BurnFuel, ChangeHeat, Ship
  <2>2. UNCHANGED <<flight, file, unread, reader, tasks>> /\ Silent
    BY <1>4 DEF BurnFuel, ChangeHeat
  <2> QED
    BY <2>1, <2>2 DEF IInv, TypeOK, World, Reading, reader
<1>5. ASSUME NEW newSecond \in BOOLEAN, NEW omit \in BOOLEAN, WriteStatus(newSecond, omit)
      PROVE  World' /\ Silent
  <2>1. file' \in StatusFile /\ unread' \in BOOLEAN
    BY <1>0, <1>5 DEF WriteStatus, Ship, StatusFile
  <2>2. UNCHANGED <<flight, ship, reader, tasks>> /\ Silent
    BY <1>5 DEF WriteStatus
  <2> QED
    BY <2>1, <2>2 DEF IInv, TypeOK, World, Reading, reader
<1> QED
  BY <1>1, <1>2, <1>3, <1>4, <1>5 DEF GameStep

\* The events a poll has found.
LEMMA FoundHolds ==
  ASSUME NEW old, NEW new
  PROVE  SubEvents(old, new) \in Seq(StatusEvent) /\ Len(SubEvents(old, new)) <= 3
<1> DEFINE a == IF ~ScarceFuel(old) /\ ScarceFuel(new) THEN <<"FuelLow">> ELSE <<>>
           b == IF ~Hot(old) /\ Hot(new) THEN <<"HeatWarning">> ELSE <<>>
           c == IF old.shield /\ ~new.shield THEN <<"ShieldDown">> ELSE <<>>
<1>1. /\ a \in Seq(StatusEvent) /\ Len(a) <= 1
      /\ b \in Seq(StatusEvent) /\ Len(b) <= 1
      /\ c \in Seq(StatusEvent) /\ Len(c) <= 1
  <2> DEFINE Short == {s \in Seq(StatusEvent) : Len(s) <= 1}
  <2>1. \A e \in StatusEvent : <<e>> \in Short
    OBVIOUS
  <2>2. <<>> \in Short
    OBVIOUS
  <2>3. {"FuelLow", "HeatWarning", "ShieldDown"} \subseteq StatusEvent
    BY DEF StatusEvent
  <2>4. /\ a = <<"FuelLow">> \/ a = <<>>
        /\ b = <<"HeatWarning">> \/ b = <<>>
        /\ c = <<"ShieldDown">> \/ c = <<>>
    OBVIOUS
  <2> HIDE DEF a, b, c
  <2>5. a \in Short /\ b \in Short /\ c \in Short
    <3> HIDE DEF Short
    <3>1. /\ <<"FuelLow">> \in Short /\ <<"HeatWarning">> \in Short
          /\ <<"ShieldDown">> \in Short
      BY <2>1, <2>3
    <3> QED
      BY <2>2, <2>4, <3>1
  <2> QED
    BY <2>5
<1>2. SubEvents(old, new) = IF old = Missing THEN <<>> ELSE (a \o b) \o c
  BY DEF SubEvents
<1> HIDE DEF a, b, c
<1>3. a \o b \in Seq(StatusEvent) /\ Len(a \o b) = Len(a) + Len(b)
  BY <1>1
<1>4. (a \o b) \o c \in Seq(StatusEvent) /\ Len((a \o b) \o c) = Len(a) + Len(b) + Len(c)
  BY <1>1, <1>3
<1>5. Len(a) \in Nat /\ Len(b) \in Nat /\ Len(c) \in Nat
  BY <1>1
<1>6. <<>> \in Seq(StatusEvent) /\ Len(<<>>) = 0
  OBVIOUS
<1> QED
  BY <1>1, <1>2, <1>4, <1>5, <1>6

\* The application.
LEMMA WorldKept ==
  ASSUME IInv, AppStep
  PROVE  World'
<1>0. World
  BY DEF IInv, TypeOK, World
<1>1. ASSUME Poll PROVE World'
  <2>1. todo' = <<"Status">> \o SubEvents(lastState, file)
    BY <1>1 DEF Poll
  <2>2. <<"Status">> \in Seq(StatusEvent) /\ Len(<<"Status">>) = 1
    BY DEF StatusEvent
  <2>3. todo' \in Seq(StatusEvent) /\ Len(todo') <= 4
    BY <2>1, <2>2, FoundHolds
  <2>4. polled' = file /\ unread' = FALSE /\ UNCHANGED <<flight, ship, file, lastState, tasks>>
    BY <1>1 DEF Poll
  <2> QED
    BY <1>0, <2>3, <2>4 DEF World, Reading
<1>2. ASSUME HandleStatus \/ HandleSubEvent PROVE World'
  <2>1. todo # <<>> /\ todo' = Tail(todo) /\ UNCHANGED <<game, lastState, polled, tasks>>
    BY <1>2 DEF HandleStatus, HandleSubEvent
  <2>2. todo' \in Seq(StatusEvent) /\ Len(todo') <= 4
    BY <1>0, <2>1 DEF World
  <2> QED
    BY <1>0, <2>1 DEF World, Reading, game
<1>3. ASSUME PollDone PROVE World'
  BY <1>0, <1>3 DEF PollDone, World, Reading, game
<1>4. ASSUME NEW n \in 1 .. MaxInFlight, n <= Len(tasks), HandleTask(n) PROVE World'
  <2>1. tasks' = RemoveAt(tasks, n) /\ UNCHANGED <<game, reader>>
    BY <1>4 DEF HandleTask
  <2>2. tasks \in Seq(JournalEvent) /\ n \in 1 .. Len(tasks) /\ Len(tasks) <= MaxInFlight
    BY <1>0, <1>4 DEF World
  <2> DEFINE p == SubSeq(tasks, 1, n - 1)
             q == SubSeq(tasks, n + 1, Len(tasks))
  <2>3. /\ p \in Seq(JournalEvent) /\ Len(p) = n - 1
        /\ q \in Seq(JournalEvent) /\ Len(q) = Len(tasks) - n
    BY <2>2
  <2>4. RemoveAt(tasks, n) = p \o q
    BY DEF RemoveAt
  <2> HIDE DEF p, q
  <2>5. p \o q \in Seq(JournalEvent) /\ Len(p \o q) = Len(p) + Len(q)
    BY <2>3
  <2>6. tasks' \in Seq(JournalEvent) /\ Len(tasks') <= MaxInFlight
    BY <2>1, <2>2, <2>3, <2>4, <2>5, MaxInFlightAssumption
  <2> QED
    BY <1>0, <2>1, <2>6 DEF World, Reading, game, reader
<1> QED
  BY <1>1, <1>2, <1>3, <1>4 DEF AppStep

\* The task of a journal event.
LEMMA TaskHandled ==
  ASSUME IInv, NEW n \in 1 .. MaxInFlight, n <= Len(tasks), HandleTask(n)
  PROVE  Outcome /\ SameHeat /\ prevHeat' = prevHeat
<1>1. tasks[n] \in JournalEvent
  BY MaxInFlightAssumption DEF IInv, TypeOK
<1> QED
  BY <1>1, HullHandled, FuelHandled, ReportHandled DEF HandleTask

\* Every step keeps the invariant, and keeps the promises.
LEMMA AlertStep ==
  ASSUME IInv, [Next]_vars
  PROVE  /\ IInv'
         /\ vars' # vars => ToSet(alerts') \cap Threshold \subseteq armed
         /\ (vars' # vars /\ st.value["heat"] # 2 /\ st'.value["heat"] = 2) =>
              "HEAT_WARNING" \in ToSet(alerts')
<1> DEFINE Announced == (st.value["heat"] # 2 /\ st'.value["heat"] = 2) =>
                          "HEAT_WARNING" \in ToSet(alerts')
<1>1. ASSUME Next PROVE World'
  BY <1>1, GamePlayed, WorldKept DEF Next
<1>2. ASSUME Next
      PROVE  Outcome /\ Announced /\ HeatShown' /\ prevHeat' \in Heat \cup {Missing}
  <2>1. CASE Silent
    BY <2>1, SilentStep DEF SameHeat, IInv, HeatShown, TypeOK
  <2>2. CASE HandleStatus
    BY <2>2, StatusHandled
  <2>3. CASE HandleSubEvent
    <3>1. prevHeat' = prevHeat
      BY <2>3 DEF HandleSubEvent
    <3> QED
      BY <2>3, <3>1, SubEventHandled DEF SameHeat, IInv, HeatShown, TypeOK
  <2>4. CASE \E n \in 1 .. MaxInFlight : n <= Len(tasks) /\ HandleTask(n)
    BY <2>4, TaskHandled DEF SameHeat, IInv, HeatShown, TypeOK
  <2>5. CASE GameStep
    BY <2>1, <2>5, GamePlayed
  <2>6. CASE Poll \/ PollDone
    BY <2>1, <2>6 DEF Poll, PollDone
  <2> QED
    BY <1>2, <2>2, <2>3, <2>4, <2>5, <2>6 DEF Next, AppStep
<1>3. ASSUME Next PROVE IInv'
  <2>1. /\ Sound(st') /\ alerts' \in Seq(Alert) /\ armed' \subseteq Alert
        /\ prevHull' \in Hull \cup {Missing} /\ Grounded'
    BY <1>2, <1>3 DEF Outcome
  <2>2. /\ st'.value["hull"] \in Hull \cup {Missing}
        /\ st'.value["fuel"] \in Fuel \cup {Missing}
        /\ st'.value["heat"] \in Heat \cup {Missing}
        /\ st'.value["shield"] \in BOOLEAN \cup {Missing}
        /\ st'.value["heatState"] \in {"warning", "damage", Missing}
        /\ st'.value["capacity"] \in {"known", Missing}
    BY <2>1 DEF Sound, Field, Known
  <2> QED
    BY <1>1, <1>2, <1>3, <2>1, <2>2 DEF World, IInv, TypeOK
<1>4. ASSUME UNCHANGED vars PROVE IInv'
  BY <1>4 DEF vars, game, reader, app, IInv, TypeOK, Reading, HeatShown, Grounded
<1> QED
  BY <1>2, <1>3, <1>4 DEF Outcome

-----------------------------------------------------------------------------

LEMMA InitIInv == Init => IInv
<1> SUFFICES ASSUME Init PROVE IInv
  OBVIOUS
<1>1. Sound(st) /\ st.value["fuel"] = Missing /\ st.value["heat"] = Missing
      /\ st.source["heat"] = Unset
  BY DEF Init, Fresh, Sound, Field, Unset, Inferred
<1>2. TypeOK
  <2>1. flight \in Flights /\ flight \in Flight
    BY FlightsAssumption DEF Init
  <2>2. ship \in Ship
    BY <2>1 DEF Init, Ship, Flight
  <2>3. file \in StatusFile
    BY <2>2 DEF Init, Ship, StatusFile
  <2>4. /\ st.value["hull"] = Missing /\ st.value["fuel"] = Missing
        /\ st.value["heat"] = Missing /\ st.value["shield"] = Missing
        /\ st.value["heatState"] = Missing /\ st.value["capacity"] = Missing
    BY DEF Init, Fresh
  <2>5. /\ todo \in Seq(StatusEvent) /\ Len(todo) <= 4
        /\ tasks \in Seq(JournalEvent) /\ Len(tasks) <= MaxInFlight
        /\ alerts \in Seq(Alert)
    BY MaxInFlightAssumption DEF Init
  <2> QED
    BY <2>2, <2>3, <2>4, <2>5 DEF Init, TypeOK
<1>3. Reading /\ HeatShown /\ Grounded
  BY <1>1 DEF Init, Reading, HeatShown, Grounded
<1> QED
  BY <1>1, <1>2, <1>3 DEF IInv

\* How the memories of a quantity agree.
THEOREM Inductive == Spec => []IInv
BY InitIInv, AlertStep, PTL DEF Spec

\* Type correctness: what is shown of the ship are levels, and alerts are those that
\* event_types.py knows.
THEOREM TypeCorrect == Spec => []TypeOK
<1>1. IInv => TypeOK
  BY DEF IInv
<1> QED
  BY Inductive, <1>1, PTL

\* hull_triggers.py, fuel.py: no threshold alert of hull or fuel is repeated, or raised on a
\* first reading, in whatever order the events are handled.
THEOREM OnlyFounded == Spec => NoUnfoundedAlert
<1>1. IInv /\ [Next]_vars => [ToSet(alerts') \cap Threshold \subseteq armed]_vars
  BY AlertStep
<1> QED
  BY Inductive, <1>1, PTL DEF Spec, NoUnfoundedAlert

\* heat_management.py: the heat is never shown to rise to the warning level unannounced.
THEOREM RiseAnnounced == Spec => HeatAnnounced
<1>1. IInv /\ [Next]_vars =>
        [(st.value["heat"] # 2 /\ st'.value["heat"] = 2) => "HEAT_WARNING" \in ToSet(alerts')]_vars
  BY AlertStep
<1> QED
  BY Inductive, <1>1, PTL DEF Spec, HeatAnnounced
=============================================================================
