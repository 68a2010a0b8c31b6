---------------------------- MODULE CreateRequest ----------------------------
(***************************************************************************)
(* From the multipart form of POST /v1/indexers to the sink it starts: the *)
(* loop of build_create_indexer_request over the fields in the order they  *)
(* come, the readiness check, and what start unwraps of the row.           *)
(***************************************************************************)
EXTENDS FiniteSetsExt, Naturals, Sequences

CONSTANTS
  Texts,      \* texts a client may send
  Script,     \* a script that is not empty
  Block,      \* a number that parses as a starting block
  Malformed,  \* a value that does not parse, or a field that cannot be read
  Uuid,       \* the identifier minted for the request
  Panic,      \* the outcome of an expect() on a value that is not set
  None,
  MaxFields   \* bounds the form

DEFAULT_STARTING_BLOCK == 1

\* What start makes of an indexer.
Sinks == [binary : {"sink-postgres", "sink-webhook"}, target : Texts,
          id : Texts \cup {Uuid}, from : {Block, DEFAULT_STARTING_BLOCK}]

Errors == {"unreadable", "nameless", "unexpected", "incomplete"}

ASSUME FormConstantsOK ==
  /\ None \notin Texts \cup {Script, Block, Malformed, Uuid, Panic} \cup Sinks
  /\ None \notin Errors \cup {"accepted", "Webhook", "Postgres"}
  /\ Panic \notin Sinks
  /\ Malformed \notin Texts \cup {"", "Webhook", "Postgres", Script, Block}
  /\ Script # ""
  /\ MaxFields \in Nat

Options == {"target_url", "table_name", "indexer_id"}

\* A field as it arrives; "other" is any name the loop does not know, and the
\* custom_connection_string of the request is one of them.
Fields ==
  [name : Options, value : Texts \cup {Malformed}]
    \cup [name : {"script.js"}, value : {"", Script, Malformed}]
    \cup [name : {"indexer_type"}, value : {"Webhook", "Postgres", Malformed}]
    \cup [name : {"starting_block"}, value : {Block, Malformed}]
    \cup [name : {"other", None}, value : Texts]

Request == [target_url : Texts \cup {None}, table_name : Texts \cup {None},
            indexer_id : Texts \cup {None}, starting_block : {Block, None},
            indexer_type : {"Webhook", "Postgres"}, script : {"", Script}]

\* CreateIndexerRequest::default()
Default == [target_url |-> None, table_name |-> None, indexer_id |-> None,
            starting_block |-> None, indexer_type |-> "Webhook", script |-> ""]

VARIABLES
  seen,     \* the fields read so far, in order
  request,  \* the request being built
  outcome,  \* None while it is built, then "accepted" or the error
  sink      \* the sink that was started, Panic, or None

vars == <<seen, request, outcome, sink>>

TypeOK ==
  /\ seen \in Seq(Fields)
  /\ request \in Request
  /\ outcome \in Errors \cup {"accepted", None}
  /\ sink \in Sinks \cup {Panic, None}

Init ==
  /\ seen = <<>>
  /\ request = Default
  /\ outcome = None
  /\ sink = None

-----------------------------------------------------------------------------
\* A field that cannot be read is taken as it is.
RefusalByName(f) ==
  IF f.name = None THEN "nameless" ELSE IF f.name = "other" THEN "unexpected" ELSE None

\* What is wrong with a field, or None.
Refusal(f) ==
  IF f.name = None THEN "nameless"
  ELSE IF f.name = "other" THEN "unexpected"
  ELSE IF f.value = Malformed THEN "unreadable"
  ELSE None

Slot(f) == IF f.name = "script.js" THEN "script" ELSE f.name

\* The first value of a field stays.
AssignOnce(req, f) ==
  IF req[Slot(f)] = Default[Slot(f)] THEN [req EXCEPT ![Slot(f)] = f.value] ELSE req

\* A field overwrites what an earlier one of its name said.
Assign(req, f) == [req EXCEPT ![Slot(f)] = f.value]

NextField(f) ==
  /\ outcome = None /\ Len(seen) < MaxFields
  /\ seen' = Append(seen, f)
  /\ outcome' = Refusal(f)
  /\ request' = IF Refusal(f) = None THEN Assign(request, f) ELSE request
  /\ UNCHANGED sink

\* A Postgres indexer without an id of its own goes by its table.
Named(req) ==
  IF req.indexer_type = "Postgres" /\ req.indexer_id = None
  THEN [req EXCEPT !.indexer_id = req.table_name] ELSE req

\* Either destination will do.
IsReadyEither(req) ==
  /\ req.script # ""
  /\ req.table_name # None \/ req.target_url # None

IsReady(req) ==
  /\ req.script # ""
  /\ req.indexer_type = "Postgres" => req.table_name # None
  /\ req.indexer_type = "Webhook" => req.target_url # None

\* The form is over.
Build ==
  /\ outcome = None
  /\ request' = Named(request)
  /\ outcome' = IF IsReady(Named(request)) THEN "accepted" ELSE "incomplete"
  /\ UNCHANGED <<seen, sink>>

\* What PostgresIndexer and WebhookIndexer add to start_common: the binary, and the
\* destination, which each of them expects to be set.
PostgresSink(req) == [binary |-> "sink-postgres", target |-> req.table_name]
WebhookSink(req)  == [binary |-> "sink-webhook", target |-> req.target_url]

\* start: the sink of its type, and what start_common passes on.
Start ==
  /\ outcome = "accepted" /\ sink = None
  /\ LET of == IF request.indexer_type = "Postgres" THEN PostgresSink(request)
               ELSE WebhookSink(request) IN
     sink' = IF of.target = None THEN Panic
             ELSE [binary |-> of.binary, target |-> of.target,
                   id     |-> IF request.indexer_id = None THEN Uuid
                              ELSE request.indexer_id,
                   from   |-> IF request.starting_block = None
                              THEN DEFAULT_STARTING_BLOCK ELSE request.starting_block]
  /\ UNCHANGED <<seen, request, outcome>>

Next == (\E f \in Fields : NextField(f)) \/ Build \/ Start

Spec == Init /\ [][Next]_vars

-----------------------------------------------------------------------------
(* The reference: what a form means, whatever the order of its fields.     *)

Sent(name) == {k \in DOMAIN seen : seen[k].name = name}
LastSent(name, default) ==
  IF Sent(name) = {} THEN default ELSE seen[Max(Sent(name))].value

Wanted == LastSent("indexer_type", "Webhook")
Destination == IF Wanted = "Postgres" THEN LastSent("table_name", None)
               ELSE LastSent("target_url", None)

\* A form without a bad field, with a script and with the destination that its last
\* type asks for, is accepted, and only such a form.
AcceptsWhatIsComplete ==
  outcome \in {"accepted", "incomplete"} =>
    /\ \A k \in DOMAIN seen : Refusal(seen[k]) = None
    /\ outcome = "accepted" <=> LastSent("script.js", "") # "" /\ Destination # None

\* The sink that an accepted form starts is the one asked for last, under the id
\* asked for, else the table of a Postgres indexer, else the indexer's own id, and
\* from the block asked for.
StartsWhatWasAsked ==
  sink # None =>
    sink = [binary |-> IF Wanted = "Postgres" THEN "sink-postgres" ELSE "sink-webhook",
            target |-> Destination,
            id     |-> LastSent("indexer_id",
                          IF Wanted = "Postgres" THEN Destination ELSE Uuid),
            from   |-> LastSent("starting_block", DEFAULT_STARTING_BLOCK)]

\* Starting what was accepted does not run into a destination that is not set.
StartsWithoutPanic == sink # Panic
=============================================================================
