------------------------- MODULE StateManagerProofs -------------------------
(***************************************************************************)
(* Proofs about StateManager, for every set of fields and values.          *)
(*                                                                         *)
(* BestReportShown is not inductive: the code compares a report with the   *)
(* source that set the field, so the invariant has to say that this source *)
(* has the best rank that reported, and that nothing was reported on a     *)
(* field without a source (Owned).                                         *)
(***************************************************************************)
EXTENDS StateManager, TLAPS

\* The recorded source of f has the best rank with a report, and its report is
\* the value; without a source nothing was reported.
Owned(f) ==
  /\ state.source[f] = Unset =>
       state.value[f] = Missing /\ \A r \in Source : latest[f][r] = {}
  /\ state.source[f] # Unset =>
       /\ latest[f][Rank(f, state.source[f])] = {state.value[f]}
       /\ \A q \in Source : latest[f][q] # {} => Rank(f, state.source[f]) <= q

IInv == TypeOK /\ \A f \in Fields : Owned(f)

\* Ranks are sources.
LEMMA RankType == \A f \in Fields, s \in Source : Rank(f, s) \in Source
BY DEF Rank, Source, Journal, Inferred, Exempt, StatusJson

\* The type invariant holds initially.
LEMMA TypeInit == Init => TypeOK
BY DEF Init, TypeOK, Fresh, SessionState, Source, Unset

\* update_field keeps the shape of the session state.
LEMMA PutType ==
  ASSUME TypeOK, NEW f \in Fields, NEW v \in Values \cup {Missing}, NEW s \in Source
  PROVE  Put(state, f, v, s) \in SessionState
BY DEF TypeOK, SessionState, Put, Source, Unset

\* The type invariant is preserved by every step.
LEMMA TypeStep == TypeOK /\ [Next]_vars => TypeOK'
<1> SUFFICES ASSUME TypeOK, [Next]_vars PROVE TypeOK'
  OBVIOUS
<1>1. ASSUME NEW f \in Fields, NEW v \in Values \cup {Missing}, NEW s \in Source,
             UpdateField(f, v, s)
      PROVE  TypeOK'
  <2>1. state' \in SessionState
    BY <1>1, PutType DEF UpdateField
  <2>2. latest' \in [Fields -> [Source -> SUBSET (Values \cup {Missing})]]
    BY <1>1, RankType DEF UpdateField, TypeOK
  <2> QED
    BY <2>1, <2>2 DEF TypeOK
<1>2. CASE Reset
  BY <1>2 DEF Reset, TypeOK, Fresh, SessionState, Source, Unset
<1>3. CASE UNCHANGED vars
  BY <1>3 DEF vars, TypeOK
<1> QED
  BY <1>1, <1>2, <1>3 DEF Next

\* A report on f leaves every other field alone.
LEMMA OthersKept ==
  ASSUME TypeOK, NEW f \in Fields, NEW v \in Values \cup {Missing}, NEW s \in Source,
         UpdateField(f, v, s), NEW g \in Fields, g # f
  PROVE  /\ state'.value[g] = state.value[g]
         /\ state'.source[g] = state.source[g]
         /\ latest'[g] = latest[g]
<1>1. /\ state'.value[g] = state.value[g]
      /\ state'.source[g] = state.source[g]
  BY DEF UpdateField, Put, TypeOK, SessionState
<1>2. latest'[g] = latest[g]
  BY DEF UpdateField, TypeOK
<1> QED
  BY <1>1, <1>2

\* An accepted report sets the value, the source and the register of its rank.
LEMMA AcceptedReport ==
  ASSUME TypeOK, NEW f \in Fields, NEW v \in Values \cup {Missing}, NEW s \in Source,
         UpdateField(f, v, s), Accepts(state, f, v, s)
  PROVE  /\ state'.value[f] = v /\ state'.source[f] = s
         /\ latest'[f][Rank(f, s)] = {v}
         /\ \A q \in Source : q # Rank(f, s) => latest'[f][q] = latest[f][q]
<1>1. state'.value[f] = v /\ state'.source[f] = s
  BY DEF UpdateField, Put, TypeOK, SessionState
<1>2. ~Silence(f, v, s)
  BY DEF Silence, Accepts
<1>3. latest' = [latest EXCEPT ![f][Rank(f, s)] = {v}]
  BY <1>2 DEF UpdateField
<1>4. Rank(f, s) \in Source
  BY RankType
<1> QED
  BY <1>1, <1>3, <1>4 DEF TypeOK

\* A rejected report changes no value and no source; unless it says nothing it
\* is kept in the register of its rank, which is worse than the source's.
LEMMA RejectedReport ==
  ASSUME TypeOK, NEW f \in Fields, NEW v \in Values \cup {Missing}, NEW s \in Source,
         UpdateField(f, v, s), ~Accepts(state, f, v, s)
  PROVE  /\ state' = state
         /\ \/ latest' = latest
            \/ /\ state.source[f] # Unset
               /\ Rank(f, state.source[f]) < Rank(f, s)
               /\ \A q \in Source : q # Rank(f, s) => latest'[f][q] = latest[f][q]
<1>1. state' = state
  BY DEF UpdateField, Put
<1>2. CASE Exempt(f, s)
  BY <1>1, <1>2 DEF UpdateField, Accepts, Silence
<1>3. CASE ~Exempt(f, s)
  <2>1. state.source[f] # Unset /\ state.source[f] < s
    BY <1>3 DEF Accepts, Outranks
  <2>2. Rank(f, s) = s
    BY <1>3 DEF Rank
  <2>3. Rank(f, state.source[f]) <= state.source[f]
    BY <2>1 DEF Rank, Exempt, Journal, StatusJson, Source, Inferred, TypeOK,
                SessionState, Unset
  <2>4. latest' = [latest EXCEPT ![f][s] = {v}]
    BY <1>3, <2>2 DEF UpdateField, Silence
  <2>5. \A q \in Source : q # s => latest'[f][q] = latest[f][q]
    BY <2>4 DEF TypeOK
  <2>6. Rank(f, state.source[f]) < s
    BY <2>1, <2>3 DEF Rank, Exempt, Journal, StatusJson, Source, Inferred, TypeOK,
                      SessionState, Unset
  <2> QED
    BY <1>1, <2>1, <2>2, <2>5, <2>6
<1> QED
  BY <1>2, <1>3

\* Every step leaves each field owned by the best rank that reported on it.
LEMMA OwnedStep ==
  ASSUME IInv, [Next]_vars, NEW g \in Fields
  PROVE  Owned(g)'
<1>1. TypeOK'
  BY TypeStep DEF IInv
<1>2. ASSUME NEW f \in Fields, NEW v \in Values \cup {Missing}, NEW s \in Source,
             UpdateField(f, v, s)
      PROVE  Owned(g)'
  <2>1. CASE g # f
    BY <1>2, <2>1, OthersKept DEF IInv, Owned, Rank, Exempt
  <2>2. CASE g = f /\ Accepts(state, f, v, s)
    <3>1. /\ state'.value[f] = v /\ state'.source[f] = s
          /\ latest'[f][Rank(f, s)] = {v}
          /\ \A q \in Source : q # Rank(f, s) => latest'[f][q] = latest[f][q]
      BY <1>2, <2>2, AcceptedReport DEF IInv
    <3>2. state'.source[f] # Unset
      BY <3>1 DEF Source, Unset, Journal, Inferred
    <3>3. ASSUME NEW q \in Source, latest[f][q] # {} PROVE Rank(f, s) <= q
      <4>1. state.source[f] # Unset /\ Rank(f, state.source[f]) <= q
        BY <3>3 DEF IInv, Owned
      <4>2. Rank(f, s) <= Rank(f, state.source[f])
        BY <2>2, <4>1 DEF Accepts, Outranks, Exempt, Rank, Source, Journal, Inferred,
                          StatusJson, Unset, IInv, TypeOK, SessionState
      <4> QED
        BY <4>1, <4>2, RankType DEF Source, Journal, Inferred, Unset, IInv, TypeOK,
                                    SessionState
    <3>4. \A q \in Source : latest'[f][q] # {} => Rank(f, s) <= q
      BY <3>1, <3>3, RankType DEF Source, Journal, Inferred
    <3> QED
      BY <2>2, <3>1, <3>2, <3>4 DEF Owned, Rank, Exempt
  <2>3. CASE g = f /\ ~Accepts(state, f, v, s)
    <3>1. /\ state' = state
          /\ \/ latest' = latest
             \/ /\ state.source[f] # Unset
                /\ Rank(f, state.source[f]) < Rank(f, s)
                /\ \A q \in Source : q # Rank(f, s) => latest'[f][q] = latest[f][q]
      BY <1>2, <2>3, RejectedReport DEF IInv
    <3>2. CASE latest' = latest
      BY <2>3, <3>1, <3>2 DEF IInv, Owned, Rank, Exempt
    <3>3. CASE latest' # latest
      <4>1. /\ state.source[f] # Unset
            /\ Rank(f, state.source[f]) < Rank(f, s)
            /\ \A q \in Source : q # Rank(f, s) => latest'[f][q] = latest[f][q]
        BY <3>1, <3>3
      <4>2. state.source[f] \in Source
        BY <4>1 DEF IInv, TypeOK, SessionState
      <4>3. Rank(f, state.source[f]) \in Source /\ Rank(f, s) \in Source
        BY <4>2, RankType
      <4>4. latest'[f][Rank(f, state.source[f])] = {state.value[f]}
        BY <4>1, <4>3 DEF IInv, Owned, Source, Journal, Inferred
      <4>5. \A q \in Source : latest'[f][q] # {} => Rank(f, state.source[f]) <= q
        BY <4>1, <4>3 DEF IInv, Owned, Source, Journal, Inferred
      <4> QED
        BY <2>3, <3>1, <4>1, <4>4, <4>5 DEF Owned, Rank, Exempt
    <3> QED
      BY <3>2, <3>3
  <2> QED
    BY <2>1, <2>2, <2>3
<1>3. CASE Reset
  BY <1>3 DEF Reset, Owned, Fresh
<1>4. CASE UNCHANGED vars
  BY <1>4 DEF vars, IInv, Owned, Rank, Exempt
<1> QED
  BY <1>2, <1>3, <1>4 DEF Next

\* The inductive invariant: the recorded source has the best rank that reported.
THEOREM Inductive == Spec => []IInv
<1>1. Init => IInv
  BY TypeInit DEF Init, IInv, Owned, Fresh
<1>2. IInv /\ [Next]_vars => IInv'
  BY TypeStep, OwnedStep DEF IInv
<1> QED
  BY <1>1, <1>2, PTL DEF Spec

\* The state manager keeps its types for every set of fields and values.
THEOREM TypeCorrect == Spec => []TypeOK
BY Inductive, PTL DEF IInv

\* Law 7 for every set of fields and values: readers see the last report of the
\* best rank that reported since the last reset.
THEOREM PriorityEnforced == Spec => []BestReportShown
<1>1. IInv => BestReportShown
  <2> SUFFICES ASSUME IInv, NEW f \in Fields, NEW r \in Source, latest[f][r] # {},
                      \A q \in Source : latest[f][q] # {} => r <= q
               PROVE  latest[f][r] = {state.value[f]}
    BY DEF BestReportShown
  <2>1. state.source[f] # Unset /\ state.source[f] \in Source
    BY DEF IInv, Owned, TypeOK, SessionState
  <2>2. Rank(f, state.source[f]) \in Source
    BY <2>1, RankType
  <2>3. /\ latest[f][Rank(f, state.source[f])] = {state.value[f]}
        /\ Rank(f, state.source[f]) <= r
    BY <2>1 DEF IInv, Owned
  <2>4. r <= Rank(f, state.source[f])
    BY <2>2, <2>3
  <2> QED
    BY <2>2, <2>3, <2>4 DEF Source, Journal, Inferred
<1> QED
  BY <1>1, Inductive, PTL

\* Law 5 for every set of fields and values: Status.json never erases a known
\* live field.
THEOREM NothingErased == Spec => LiveFieldsKept
<1>1. TypeOK /\ [Next]_vars =>
        [\A f \in LiveFields :
           state.value[f] # Missing /\ state.source[f] \in {Journal, StatusJson} /\
           state'.value[f] = Missing => state'.source[f] \in {Journal, Unset}]_vars
  <2> SUFFICES ASSUME TypeOK, Next, NEW f \in LiveFields, state.value[f] # Missing,
                      state.source[f] \in {Journal, StatusJson},
                      state'.value[f] = Missing
               PROVE  state'.source[f] \in {Journal, Unset}
    OBVIOUS
  <2>1. f \in Fields
    BY FieldsAssumption
  <2>2. ASSUME NEW g \in Fields, NEW v \in Values \cup {Missing}, NEW s \in Source,
               UpdateField(g, v, s)
        PROVE  state'.source[f] \in {Journal, Unset}
    <3>1. g = f
      BY <2>1, <2>2, OthersKept
    <3>2. CASE Accepts(state, f, v, s)
      <4>1. v = Missing /\ state'.source[f] = s
        BY <2>1, <2>2, <3>1, <3>2, AcceptedReport
      <4>2. ~Exempt(f, s) /\ ~Outranks(state, f, s)
        BY <3>2, <4>1 DEF Accepts
      <4> QED
        BY <4>1, <4>2 DEF Exempt, Outranks, Journal, StatusJson, Source, Unset, Inferred
    <3>3. CASE ~Accepts(state, f, v, s)
      BY <2>1, <2>2, <3>1, <3>3, RejectedReport
    <3> QED
      BY <3>2, <3>3
  <2>3. CASE Reset
    BY <2>1, <2>3 DEF Reset, Fresh
  <2> QED
    BY <2>2, <2>3 DEF Next
<1> QED
  BY <1>1, TypeCorrect, PTL DEF Spec, LiveFieldsKept

\* Every step of the state manager is a step of the registers, or changes nothing.
LEMMA RegistersStep ==
  ASSUME IInv, IInv', [Next]_vars
  PROVE  [Registers!RegistersNext]_(Registers!registers)
<1>1. \A f \in Fields : Registers!Shows(latest', f, state'.value[f])
  <2> SUFFICES ASSUME NEW f \in Fields
               PROVE  Registers!Shows(latest', f, state'.value[f])
    OBVIOUS
  <2>1. CASE state'.source[f] = Unset
    BY <2>1 DEF IInv, Owned, Registers!Shows
  <2>2. CASE state'.source[f] # Unset
    <3>1. state'.source[f] \in Source
      BY <2>2 DEF IInv, TypeOK, SessionState
    <3>2. Rank(f, state'.source[f]) \in Source
      BY <3>1, RankType
    <3> QED
      BY <2>2, <3>2 DEF IInv, Owned, Registers!Shows, Registers!Best, Rank, Exempt
  <2> QED
    BY <2>1, <2>2
<1>2. state'.value \in [Fields -> Values \cup {Missing}]
  BY DEF IInv, TypeOK, SessionState
<1>3. ASSUME NEW f \in Fields, NEW v \in Values \cup {Missing}, NEW s \in Source,
             UpdateField(f, v, s)
      PROVE  Registers!RegistersNext \/ UNCHANGED Registers!registers
  <2>1. CASE Silence(f, v, s)
    <3>1. latest' = latest /\ state' = state
      BY <1>3, <2>1 DEF UpdateField, Put, Accepts, Silence
    <3> QED
      BY <3>1 DEF Registers!registers
  <2>2. CASE ~Silence(f, v, s)
    <3>1. Registers!Report(f, Rank(f, s), v)
      BY <1>3, <2>2 DEF UpdateField, Registers!Report
    <3>2. Rank(f, s) \in Source
      BY RankType
    <3> QED
      BY <1>1, <1>2, <3>1, <3>2 DEF Registers!RegistersNext
  <2> QED
    BY <2>1, <2>2
<1>4. CASE Reset
  BY <1>1, <1>2, <1>4 DEF Reset, Registers!RegistersNext, Registers!Forget,
                          Registers!Unreported
<1>5. CASE UNCHANGED vars
  BY <1>5 DEF vars, Registers!registers
<1> QED
  BY <1>3, <1>4, <1>5 DEF Next

\* The state manager, with one value and one source per field, implements a
\* register per rank.
THEOREM Refinement == Spec => ImplementsRegisters
<1>1. Init => Registers!RegistersInit
  BY DEF Init, Registers!RegistersInit, Registers!Unreported, Registers!Shows, Fresh
<1>2. IInv /\ IInv' /\ [Next]_vars => [Registers!RegistersNext]_(Registers!registers)
  BY RegistersStep
<1> QED
  BY <1>1, <1>2, Inductive, PTL DEF Spec, ImplementsRegisters, Registers!RegistersSpec
=============================================================================
