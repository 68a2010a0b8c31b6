------------------------- MODULE CreateRequestProofs -------------------------
(***************************************************************************)
(* A form of any length, over any texts: what is built field by field is   *)
(* at every moment what the fields read so far mean.                       *)
(***************************************************************************)
EXTENDS CreateRequest, SequenceTheorems, WellFoundedInduction, TLAPS

\* Max is the number of a set that no other of its numbers exceeds.
LEMMA MaxIs ==
  ASSUME NEW S \in SUBSET Int, NEW m \in S, \A k \in S : m >= k
  PROVE  Max(S) = m
<1>1. Max(S) \in S /\ \A k \in S : Max(S) >= k
  BY DEF Max
<1>2. m \in Int /\ Max(S) \in Int
  BY <1>1
<1>3. m >= Max(S) /\ Max(S) >= m
  BY <1>1
<1> QED BY <1>2, <1>3

\* A set of positions that is not empty has a last one.
LEMMA LastPosition ==
  ASSUME NEW n \in Nat, NEW S \in SUBSET (1..n), S # {}
  PROVE  Max(S) \in S /\ \A k \in S : Max(S) >= k
<1> DEFINE left == {n - k : k \in S}
           less == OpToRel(<, Nat)
<1>1. left \subseteq Nat /\ left # {}
  <2>1. \A k \in S : n - k \in Nat
    OBVIOUS
  <2> QED BY <2>1
<1>2. IsWellFoundedOn(less, Nat)
  BY NatLessThanWellFounded
<1> HIDE DEF less
<1>3. PICK x \in left : \A y \in left : ~(<<y, x>> \in less)
  BY <1>1, <1>2, WFMin
<1>4. \A y \in left : ~(y < x)
  BY <1>1, <1>3 DEF less, OpToRel
<1>5. PICK m \in S : x = n - m
  OBVIOUS
<1>6. \A k \in S : m >= k
  <2> SUFFICES ASSUME NEW k \in S PROVE m >= k
    OBVIOUS
  <2>1. n - k \in left
    OBVIOUS
  <2>2. ~(n - k < n - m)
    BY <1>4, <1>5, <2>1
  <2> QED BY <2>2
<1>7. S \in SUBSET Int
  OBVIOUS
<1> QED BY <1>6, <1>7, MaxIs

\* What was last sent under a name is its default or the value of a field of the
\* form with that name.
LEMMA SentByAField ==
  ASSUME seen \in Seq(Fields), NEW name
  PROVE  \/ \A default : LastSent(name, default) = default
         \/ \E k \in DOMAIN seen : /\ seen[k].name = name
                                   /\ \A default : LastSent(name, default) = seen[k].value
<1>1. Len(seen) \in Nat /\ DOMAIN seen = 1..Len(seen)
  BY LenProperties
<1>2. CASE Sent(name) = {}
  BY <1>2 DEF LastSent
<1>3. CASE Sent(name) # {}
  <2>1. Max(Sent(name)) \in Sent(name)
    BY <1>1, <1>3, LastPosition DEF Sent
  <2> QED BY <1>3, <2>1 DEF LastSent, Sent
<1> QED BY <1>2, <1>3

\* One more field is what was last sent under its name, and changes nothing else.
LEMMA OneMoreField ==
  ASSUME seen \in Seq(Fields), NEW f \in Fields, seen' = Append(seen, f),
         NEW name, NEW default
  PROVE  LastSent(name, default)' = IF f.name = name THEN f.value ELSE LastSent(name, default)
<1>1. Len(seen) \in Nat /\ DOMAIN seen = 1..Len(seen)
  BY LenProperties
<1>2. /\ seen' \in Seq(Fields) /\ Len(seen') = Len(seen) + 1
      /\ \A k \in 1..Len(seen) : seen'[k] = seen[k]
      /\ seen'[Len(seen) + 1] = f
  BY AppendProperties
<1>3. DOMAIN seen' = 1..(Len(seen) + 1)
  BY <1>2, LenProperties
<1>4. CASE f.name = name
  <2>1. Len(seen) + 1 \in Sent(name)' /\ Sent(name)' \in SUBSET Int
    BY <1>1, <1>2, <1>3, <1>4 DEF Sent
  <2>2. \A k \in Sent(name)' : Len(seen) + 1 >= k
    BY <1>1, <1>3 DEF Sent
  <2>3. Max(Sent(name)') = Len(seen) + 1
    BY <2>1, <2>2, MaxIs
  <2> QED BY <1>2, <1>4, <2>1, <2>3 DEF LastSent
<1>5. CASE f.name # name
  <2>1. Sent(name)' = Sent(name)
    BY <1>1, <1>2, <1>3, <1>5 DEF Sent
  <2>2. CASE Sent(name) = {}
    BY <1>5, <2>1, <2>2 DEF LastSent
  <2>3. CASE Sent(name) # {}
    <3>1. Max(Sent(name)) \in 1..Len(seen)
      BY <1>1, <2>3, LastPosition DEF Sent
    <3> QED BY <1>2, <1>5, <2>1, <2>3, <3>1 DEF LastSent
  <2> QED BY <2>2, <2>3
<1> QED BY <1>4, <1>5

-----------------------------------------------------------------------------
(* The invariant.                                                          *)

\* The request that the fields read so far ask for.
Meant == [target_url     |-> LastSent("target_url", None),
          table_name     |-> LastSent("table_name", None),
          indexer_id     |-> LastSent("indexer_id", None),
          starting_block |-> LastSent("starting_block", None),
          indexer_type   |-> LastSent("indexer_type", "Webhook"),
          script         |-> LastSent("script.js", "")]

Clean == \A k \in DOMAIN seen : Refusal(seen[k]) = None

Reading == outcome = None => Clean /\ request = Meant

Built ==
  outcome \in {"accepted", "incomplete"} =>
    /\ Clean /\ request = Named(Meant)
    /\ outcome = "accepted" <=> IsReady(request)

Started ==
  /\ sink # None => outcome = "accepted"
  /\ sink \in Sinks \cup {None}

FormInv ==
  /\ seen \in Seq(Fields) /\ outcome \in Errors \cup {"accepted", None}
  /\ request \in Request
  /\ Reading /\ Built /\ Started /\ StartsWhatWasAsked

-----------------------------------------------------------------------------
(* One field, and all of them.                                             *)

\* A field that is not refused has a known name and a value that its slot takes.
LEMMA GoodField ==
  ASSUME NEW f \in Fields, Refusal(f) = None
  PROVE  /\ f.name \in Options \cup {"script.js", "indexer_type", "starting_block"}
         /\ f.name \in Options => f.value \in Texts
         /\ f.name = "script.js" => f.value \in {"", Script}
         /\ f.name = "indexer_type" => f.value \in {"Webhook", "Postgres"}
         /\ f.name = "starting_block" => f.value = Block
<1>1. f.name # None /\ f.name # "other" /\ f.value # Malformed
  BY FormConstantsOK DEF Refusal, Errors
<1>2. CASE f \in [name : Options, value : Texts \cup {Malformed}]
  BY <1>1, <1>2 DEF Options
<1>3. CASE f \in [name : {"script.js"}, value : {"", Script, Malformed}]
  BY <1>1, <1>3 DEF Options
<1>4. CASE f \in [name : {"indexer_type"}, value : {"Webhook", "Postgres", Malformed}]
  BY <1>1, <1>4 DEF Options
<1>5. CASE f \in [name : {"starting_block"}, value : {Block, Malformed}]
  BY <1>1, <1>5 DEF Options
<1>6. CASE f \in [name : {"other", None}, value : Texts]
  BY <1>1, <1>6
<1> QED BY <1>2, <1>3, <1>4, <1>5, <1>6 DEF Fields

\* What a form without a bad field says of one name is of the type of its slot, and
\* its default matters only if it is what the form says.
LEMMA MeantTypes ==
  ASSUME seen \in Seq(Fields), Clean
  PROVE  /\ Meant \in Request
         /\ \A name \in Options : \A d :
              LastSent(name, d) = IF LastSent(name, None) = None THEN d ELSE LastSent(name, None)
         /\ \A d : LastSent("starting_block", d) =
                     IF LastSent("starting_block", None) = None THEN d ELSE Block
<1>1. \A k \in DOMAIN seen : seen[k] \in Fields /\ Refusal(seen[k]) = None
  BY LenProperties, ElementOfSeq DEF Clean
<1>2. ASSUME NEW name \in Options
      PROVE  /\ LastSent(name, None) \in Texts \cup {None}
             /\ \A d : LastSent(name, d) =
                         IF LastSent(name, None) = None THEN d ELSE LastSent(name, None)
  <2>1. CASE \A d : LastSent(name, d) = d
    BY <2>1
  <2>2. ASSUME NEW k \in DOMAIN seen, seen[k].name = name,
               \A d : LastSent(name, d) = seen[k].value
        PROVE  /\ LastSent(name, None) \in Texts \cup {None}
               /\ \A d : LastSent(name, d) =
                           IF LastSent(name, None) = None THEN d ELSE LastSent(name, None)
    <3>1. seen[k].value \in Texts /\ seen[k].value # None
      BY <1>1, <2>2, GoodField, FormConstantsOK
    <3> QED BY <2>2, <3>1
  <2> QED BY <2>1, <2>2, SentByAField
<1>3. /\ LastSent("starting_block", None) \in {Block, None}
      /\ \A d : LastSent("starting_block", d) =
                  IF LastSent("starting_block", None) = None THEN d ELSE Block
  <2>1. CASE \A d : LastSent("starting_block", d) = d
    BY <2>1
  <2>2. ASSUME NEW k \in DOMAIN seen, seen[k].name = "starting_block",
               \A d : LastSent("starting_block", d) = seen[k].value
        PROVE  /\ LastSent("starting_block", None) \in {Block, None}
               /\ \A d : LastSent("starting_block", d) =
                           IF LastSent("starting_block", None) = None THEN d ELSE Block
    <3>1. seen[k].value = Block /\ Block # None
      BY <1>1, <2>2, GoodField, FormConstantsOK
    <3> QED BY <2>2, <3>1
  <2> QED BY <2>1, <2>2, SentByAField
<1>4. LastSent("indexer_type", "Webhook") \in {"Webhook", "Postgres"}
  <2>1. CASE \A d : LastSent("indexer_type", d) = d
    BY <2>1
  <2>2. ASSUME NEW k \in DOMAIN seen, seen[k].name = "indexer_type",
               \A d : LastSent("indexer_type", d) = seen[k].value
        PROVE  LastSent("indexer_type", "Webhook") \in {"Webhook", "Postgres"}
    BY <1>1, <2>2, GoodField
  <2> QED BY <2>1, <2>2, SentByAField
<1>5. LastSent("script.js", "") \in {"", Script}
  <2>1. CASE \A d : LastSent("script.js", d) = d
    BY <2>1
  <2>2. ASSUME NEW k \in DOMAIN seen, seen[k].name = "script.js",
               \A d : LastSent("script.js", d) = seen[k].value
        PROVE  LastSent("script.js", "") \in {"", Script}
    BY <1>1, <2>2, GoodField
  <2> QED BY <2>1, <2>2, SentByAField
<1>6. Meant \in Request
  BY <1>2, <1>3, <1>4, <1>5 DEF Meant, Request, Options
<1> QED BY <1>2, <1>3, <1>6

\* The field that was read last goes where the form means it to go.
LEMMA AssignMeans ==
  ASSUME seen \in Seq(Fields), Clean, NEW f \in Fields, Refusal(f) = None,
         seen' = Append(seen, f)
  PROVE  Assign(Meant, f) = Meant' /\ Clean'
<1>1. f.name \in Options \cup {"script.js", "indexer_type", "starting_block"}
  BY GoodField
<1>2. /\ LastSent("target_url", None)' =
           IF f.name = "target_url" THEN f.value ELSE LastSent("target_url", None)
      /\ LastSent("table_name", None)' =
           IF f.name = "table_name" THEN f.value ELSE LastSent("table_name", None)
      /\ LastSent("indexer_id", None)' =
           IF f.name = "indexer_id" THEN f.value ELSE LastSent("indexer_id", None)
      /\ LastSent("starting_block", None)' =
           IF f.name = "starting_block" THEN f.value ELSE LastSent("starting_block", None)
      /\ LastSent("indexer_type", "Webhook")' =
           IF f.name = "indexer_type" THEN f.value ELSE LastSent("indexer_type", "Webhook")
      /\ LastSent("script.js", "")' =
           IF f.name = "script.js" THEN f.value ELSE LastSent("script.js", "")
  BY OneMoreField
<1>3. Assign(Meant, f) = Meant'
  <2>1. CASE f.name = "target_url"
    <3>1. Assign(Meant, f) = [Meant EXCEPT !.target_url = f.value]
      BY <2>1 DEF Assign, Slot
    <3> QED BY <1>2, <2>1, <3>1 DEF Meant
  <2>2. CASE f.name = "table_name"
    <3>1. Assign(Meant, f) = [Meant EXCEPT !.table_name = f.value]
      BY <2>2 DEF Assign, Slot
    <3> QED BY <1>2, <2>2, <3>1 DEF Meant
  <2>3. CASE f.name = "indexer_id"
    <3>1. Assign(Meant, f) = [Meant EXCEPT !.indexer_id = f.value]
      BY <2>3 DEF Assign, Slot
    <3> QED BY <1>2, <2>3, <3>1 DEF Meant
  <2>4. CASE f.name = "starting_block"
    <3>1. Assign(Meant, f) = [Meant EXCEPT !.starting_block = f.value]
      BY <2>4 DEF Assign, Slot
    <3> QED BY <1>2, <2>4, <3>1 DEF Meant
  <2>5. CASE f.name = "indexer_type"
    <3>1. Assign(Meant, f) = [Meant EXCEPT !.indexer_type = f.value]
      BY <2>5 DEF Assign, Slot
    <3> QED BY <1>2, <2>5, <3>1 DEF Meant
  <2>6. CASE f.name = "script.js"
    <3>1. Assign(Meant, f) = [Meant EXCEPT !.script = f.value]
      BY <2>6 DEF Assign, Slot
    <3> QED BY <1>2, <2>6, <3>1 DEF Meant
  <2> QED BY <1>1, <2>1, <2>2, <2>3, <2>4, <2>5, <2>6 DEF Options
<1>4. Clean'
  <2>1. /\ seen' \in Seq(Fields) /\ Len(seen') = Len(seen) + 1 /\ Len(seen) \in Nat
        /\ \A k \in 1..Len(seen) : seen'[k] = seen[k]
        /\ seen'[Len(seen) + 1] = f
    BY AppendProperties, LenProperties
  <2>2. DOMAIN seen = 1..Len(seen) /\ DOMAIN seen' = 1..(Len(seen) + 1)
    BY <2>1, LenProperties
  <2> QED BY <2>1, <2>2 DEF Clean, Refusal
<1> QED BY <1>3, <1>4

-----------------------------------------------------------------------------
(* The steps.                                                              *)

\* Giving a Postgres indexer the name of its table changes its id only.
LEMMA NamedTypes ==
  ASSUME NEW r \in Request
  PROVE  /\ Named(r) \in Request
         /\ Named(r).target_url = r.target_url /\ Named(r).table_name = r.table_name
         /\ Named(r).starting_block = r.starting_block
         /\ Named(r).indexer_type = r.indexer_type /\ Named(r).script = r.script
         /\ Named(r).indexer_id = IF r.indexer_type = "Postgres" /\ r.indexer_id = None
                                  THEN r.table_name ELSE r.indexer_id
BY DEF Named, Request

\* Every step reads a field as it is meant, ends the form or starts what it says.
LEMMA FormStep == FormInv /\ [Next]_vars => FormInv'
<1> SUFFICES ASSUME FormInv, [Next]_vars PROVE FormInv'
  OBVIOUS
<1>1. ASSUME NEW f \in Fields, NextField(f) PROVE FormInv'
  <2>1. /\ outcome = None /\ Clean /\ request = Meant /\ sink = None
        /\ seen \in Seq(Fields) /\ seen' = Append(seen, f) /\ sink' = sink
        /\ outcome' = Refusal(f)
    BY <1>1, FormConstantsOK DEF NextField, FormInv, Reading, Started, Errors
  <2>2. seen' \in Seq(Fields)
    BY <2>1, AppendProperties
  <2>3. outcome' \in Errors \cup {None} /\ outcome' \notin {"accepted", "incomplete"}
    BY <2>1, FormConstantsOK DEF Refusal, Errors
  <2>4. Built' /\ Started' /\ StartsWhatWasAsked'
    BY <2>1, <2>3 DEF Built, Started, StartsWhatWasAsked
  <2>5. CASE Refusal(f) = None
    <3>1. request' = Assign(Meant, f)
      BY <1>1, <2>1, <2>5 DEF NextField
    <3>2. request' = Meant' /\ Clean'
      BY <2>1, <2>5, <3>1, AssignMeans
    <3>3. request' \in Request
      BY <2>1, <2>5, <3>1, GoodField DEF FormInv, Assign, Slot, Request, Options
    <3> QED BY <2>2, <2>3, <2>4, <3>2, <3>3 DEF FormInv, Reading
  <2>6. CASE Refusal(f) # None
    BY <1>1, <2>1, <2>2, <2>3, <2>4, <2>6 DEF NextField, FormInv, Reading
  <2> QED BY <2>5, <2>6
<1>2. CASE Build
  <2>1. /\ outcome = None /\ Clean /\ request = Meant /\ sink = None
        /\ UNCHANGED <<seen, sink>>
        /\ request' = Named(Meant)
        /\ outcome' = IF IsReady(request') THEN "accepted" ELSE "incomplete"
    BY <1>2, FormConstantsOK DEF Build, FormInv, Reading, Started
  <2>2. Meant' = Meant /\ Clean'
    BY <2>1 DEF Meant, LastSent, Sent, Clean
  <2>3. request' \in Request
    BY <2>1, NamedTypes DEF FormInv
  <2>4. Built'
    BY <2>1, <2>2 DEF Built, IsReady
  <2>5. Reading' /\ Started' /\ StartsWhatWasAsked'
    BY <2>1, FormConstantsOK DEF Reading, Started, StartsWhatWasAsked, Errors
  <2> QED BY <2>1, <2>3, <2>4, <2>5 DEF FormInv, Errors
<1>3. CASE Start
  <2>1. /\ outcome = "accepted" /\ sink = None /\ UNCHANGED <<seen, request, outcome>>
        /\ seen \in Seq(Fields) /\ Clean /\ request = Named(Meant) /\ IsReady(request)
    BY <1>3 DEF Start, FormInv, Built
  <2>2. /\ Meant \in Request
        /\ \A d : LastSent("indexer_id", d) =
                    IF Meant.indexer_id = None THEN d ELSE Meant.indexer_id
        /\ \A d : LastSent("starting_block", d) =
                    IF Meant.starting_block = None THEN d ELSE Meant.starting_block
    BY <2>1, MeantTypes DEF Meant, Options
  <2> DEFINE asked ==
        [binary |-> IF Wanted = "Postgres" THEN "sink-postgres" ELSE "sink-webhook",
         target |-> Destination,
         id     |-> LastSent("indexer_id", IF Wanted = "Postgres" THEN Destination ELSE Uuid),
         from   |-> LastSent("starting_block", DEFAULT_STARTING_BLOCK)]
  <2>3. /\ Wanted = Meant.indexer_type
        /\ Destination = IF Meant.indexer_type = "Postgres" THEN Meant.table_name
                         ELSE Meant.target_url
    BY DEF Wanted, Destination, Meant
  <2>4. Destination # None /\ Destination \in Texts
    BY <2>1, <2>2, <2>3, NamedTypes DEF IsReady, Request
  <2>5. sink' = asked
    BY <1>3, <2>1, <2>2, <2>3, <2>4, NamedTypes DEF Start, PostgresSink, WebhookSink, Request
  <2>6. asked \in Sinks
    BY <2>2, <2>3, <2>4 DEF Sinks, Request
  <2>7. StartsWhatWasAsked'
    BY <2>1, <2>5 DEF StartsWhatWasAsked, Wanted, Destination, LastSent, Sent
  <2>8. Meant' = Meant /\ Clean' = Clean
    BY <2>1 DEF Meant, LastSent, Sent, Clean
  <2>9. Reading' /\ Built'
    BY <2>1, <2>8, FormConstantsOK DEF Reading, Built, IsReady
  <2> QED BY <2>1, <2>5, <2>6, <2>7, <2>9 DEF FormInv, Started
<1>4. CASE UNCHANGED vars
  <2>1. UNCHANGED <<seen, request, outcome, sink>>
    BY <1>4 DEF vars
  <2>2. Meant' = Meant /\ Clean' = Clean /\ Wanted' = Wanted /\ Destination' = Destination
    BY <2>1 DEF Meant, Clean, Wanted, Destination, LastSent, Sent
  <2>3. Reading' /\ Built' /\ Started'
    BY <2>1, <2>2 DEF FormInv, Reading, Built, Started, IsReady
  <2>4. StartsWhatWasAsked'
    BY <2>1, <2>2 DEF FormInv, StartsWhatWasAsked, LastSent, Sent
  <2> QED BY <2>1, <2>3, <2>4 DEF FormInv
<1> QED BY <1>1, <1>2, <1>3, <1>4 DEF Next

\* The invariant, of every form.
LEMMA FormInductive == Spec => []FormInv
<1>1. Init => FormInv
  <2> SUFFICES ASSUME Init PROVE FormInv
    OBVIOUS
  <2>1. seen \in Seq(Fields) /\ DOMAIN seen = {}
    BY EmptySeq, LenProperties DEF Init
  <2>2. \A name : \A d : LastSent(name, d) = d
    BY <2>1 DEF LastSent, Sent
  <2>3. request = Meant /\ Clean /\ request \in Request
    BY <2>1, <2>2 DEF Init, Meant, Clean, Default, Request
  <2> QED BY <2>1, <2>3, FormConstantsOK
      DEF Init, FormInv, Reading, Built, Started, StartsWhatWasAsked, Errors
<1> QED BY <1>1, FormStep, PTL DEF Spec

\* The fields, the request under construction, the outcome and the sink have their
\* types, whatever a client sends.
THEOREM FormTypeCorrect == Spec => []TypeOK
<1>1. FormInv => TypeOK
  BY DEF FormInv, Started, TypeOK
<1> QED BY <1>1, FormInductive, PTL

\* is_ready accepts a form if and only if no field was refused, the last script is not
\* empty and the destination that the last type asks for was sent.
THEOREM CompleteIsAccepted == Spec => []AcceptsWhatIsComplete
<1>1. FormInv => AcceptsWhatIsComplete
  <2> SUFFICES ASSUME FormInv, outcome \in {"accepted", "incomplete"}
               PROVE  /\ \A k \in DOMAIN seen : Refusal(seen[k]) = None
                      /\ outcome = "accepted"
                           <=> LastSent("script.js", "") # "" /\ Destination # None
    BY DEF AcceptsWhatIsComplete
  <2>1. /\ Clean /\ seen \in Seq(Fields) /\ request = Named(Meant)
        /\ outcome = "accepted" <=> IsReady(request)
    BY DEF FormInv, Built
  <2>2. Meant \in Request
    BY <2>1, MeantTypes
  <2>3. IsReady(request) <=> LastSent("script.js", "") # "" /\ Destination # None
    BY <2>1, <2>2, NamedTypes DEF IsReady, Destination, Wanted, Meant, Request
  <2> QED BY <2>1, <2>3 DEF Clean
<1> QED BY <1>1, FormInductive, PTL

\* start passes to the sink the binary, destination, id and block that the form asked
\* for last.
THEOREM AskedIsStarted == Spec => []StartsWhatWasAsked
<1>1. FormInv => StartsWhatWasAsked
  BY DEF FormInv
<1> QED BY <1>1, FormInductive, PTL

\* start never finds the destination of an accepted form unset.
THEOREM NoPanic == Spec => []StartsWithoutPanic
<1>1. FormInv => StartsWithoutPanic
  BY FormConstantsOK DEF FormInv, Started, StartsWithoutPanic
<1> QED BY <1>1, FormInductive, PTL
=============================================================================
