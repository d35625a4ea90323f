----------------------------- MODULE MCRecords -----------------------------
(***************************************************************************)
(* The records of the commander on small instances: two or three calls on  *)
(* one part of the session database, among rows of earlier sessions.  The  *)
(* parts have no table in common, and one behaviour is about one of them.  *)
(***************************************************************************)
EXTENDS Records, TLC

CONSTANTS c1, c2, c3,   \* calls
          o1, o2        \* keys of earlier rows

VARIABLE part           \* the part a behaviour is about

AllCalls == {c1, c2, c3}

\* Keys that imports and new bookmarks and routes may get.
FurtherKeys == AllCalls \X {"coriolis", "edsy"} \cup {"bookmark", "route"} \X (1 .. 4)

AnOutput == [shape |-> "object", fact |-> FALSE, cites |-> {}, kb |-> {}, claim |-> "none"]

\* Plain text, and drafts with a claim, a fact or a citation of their own.
SomeOutputs ==
  {[AnOutput EXCEPT !.shape = "text"], [AnOutput EXCEPT !.shape = "other"],
   [AnOutput EXCEPT !.cites = {"f1"}, !.kb = {"powerplay"}, !.claim = "merit"],
   [AnOutput EXCEPT !.cites = {"f1"}, !.kb = {"bgs"}],
   [AnOutput EXCEPT !.fact = TRUE], [AnOutput EXCEPT !.claim = "tick"]}

SomeFiles == {<<>>, <<"sol", Absent>>, <<"sol", Absent, "achenar">>}

EarlierRows ==
  [engineering |->
     {o1 :> [table |-> "plan", state |-> "active", notes |-> "old", handoffs |-> {},
             task |-> Absent]
        @@ o2 :> [table |-> row, state |-> "active", notes |-> "old"] :
        row \in {"goal", "build"}}
     \cup {o1 :> [table |-> "material", required |-> "more", current |-> "some"]},
   campaigns |->
     {o1 :> [Campaign(workflow, "active") EXCEPT !.facts = {"f1"}] : workflow \in Workflows},
   circuits |-> {o1 :> Circuit("bgs") @@ o2 :> Stop(o1)},
   squadrons |-> {o1 :> Note(Absent)},
   library |-> {<<"bookmark", 1>> :> Bookmark(o1, {}) @@ <<"route", 1>> :> SavedRoute(o2)}]

Parts == DOMAIN EarlierRows

AllEarlier == UNION {EarlierRows[p] : p \in Parts}

\* Calls are alike.
Alike == Permutations(AllCalls)

Init ==
  /\ part \in Parts
  /\ RecordsInit
  /\ \E some \in EarlierRows[part] :
       \A k \in Keys : rows[k] = IF k \in DOMAIN some THEN some[k] ELSE Absent

\* Two calls are enough where a call has much to choose from.
Bound == [engineering |-> 2, campaigns |-> 2, circuits |-> 3, squadrons |-> 3, library |-> 3]

Next ==
  /\ UNCHANGED part
  /\ \/ Database /\ UNCHANGED squad
     \/ \E c \in Calls :
          \/ part = "engineering" /\ OnPlans(c) /\ UNCHANGED squad
          \/ part = "campaigns" /\ OnCampaigns(c) /\ UNCHANGED squad
          \/ part = "circuits" /\ OnCircuits(c) /\ UNCHANGED squad
          \/ part = "library" /\ OnLibrary(c) /\ UNCHANGED squad
          \/ part = "squadrons" /\ Notes(c) /\ UNCHANGED squad
          \/ part = "squadrons" /\ OnSquad(c)
  /\ Cardinality({c \in Calls : call'[c] # Idle}) <= Bound[part]

Spec == Init /\ [][Next]_<<part, recordsVars>>
=============================================================================
