----------------------------- MODULE RunStream -----------------------------
(***************************************************************************)
(* A thesis run: the page's EventSource (app/components/useRun.ts), the    *)
(* route that streams the pipeline (app/api/run/route.ts), and the gate in *)
(* front of it.  The connection may break, the page may stop or start      *)
(* again, and neither tells the pipeline, which holds its slot until its   *)
(* next event.                                                             *)
(***************************************************************************)
EXTENDS Gate, Sequences

CONSTANT Stages   \* bound: events of a pipeline

ASSUME StagesAssumption == Stages \in Nat

VARIABLES
  presses,   \* how often Run was pressed
  open,      \* the runs whose EventSource is open
  running,   \* the console says a run is under way
  server,    \* per run: where the route's handler is
  wire       \* per run: events sent and not delivered

streamVars == <<now, buckets, inFlight, passes, window, presses, open, running, server, wire>>

Asked == {r \in Request : server[r].pc # "none"}
Idle == [pc |-> "none", at |-> 0]
Browser == <<presses, open, running>>
GateStays == UNCHANGED gateVars

---------------------------------------------------------------------------
(* The page.                                                               *)

\* An EventSource opens: the request goes to the server.
Opens(r) == r = Cardinality(Asked) + 1 /\ server' = [server EXCEPT ![r].pc = "asked"]

Start(r) ==
  /\ ~running /\ Opens(r)
  /\ presses' = presses + 1
  /\ open' = {r} /\ running' = TRUE
  /\ UNCHANGED wire /\ GateStays

Stop ==
  /\ open # {} /\ open' = {} /\ running' = FALSE
  /\ UNCHANGED <<presses, server, wire>> /\ GateStays

\* onmessage: a stage is shown, done and error close the source.
Deliver(r) ==
  /\ r \in open /\ wire[r] # <<>>
  /\ wire' = [wire EXCEPT ![r] = Tail(@)]
  /\ IF Head(wire[r]) = "stage" THEN UNCHANGED <<open, running>>
     ELSE open' = open \ {r} /\ running' = FALSE
  /\ UNCHANGED <<presses, server>> /\ GateStays

\* onerror, for a broken connection, a refusal and the end of the stream alike: closed, so
\* that the browser does not reconnect and run the pipeline once more.
Lost(r) ==
  /\ r \in open /\ open' = open \ {r} /\ running' = FALSE
  /\ UNCHANGED <<presses, server, wire>> /\ GateStays

---------------------------------------------------------------------------
(* The route.                                                              *)

\* gate.enter: 429, or a pass and the stream begins.
Serve(r) ==
  /\ server[r].pc = "asked"
  /\ \E c \in Caller :
       \/ Passes(c, r) /\ server' = [server EXCEPT ![r].pc = "running"]
       \/ (RefusedForRate(c) \/ RefusedAsBusy(c)) /\ server' = [server EXCEPT ![r].pc = "over"]
  /\ UNCHANGED <<Browser, wire>>

Gone(r) == r \notin open

\* The pipeline yields: sent, unless the client has gone, which ends the loop.
Yield(r) ==
  /\ server[r].pc = "running" /\ server[r].at < Stages
  /\ IF Gone(r)
     THEN server' = [server EXCEPT ![r].pc = "last"] /\ UNCHANGED wire
     ELSE /\ server' = [server EXCEPT ![r].at = @ + 1]
          /\ wire' = [wire EXCEPT ![r] = Append(@, "stage")]
  /\ UNCHANGED Browser /\ GateStays

\* It is through, or it throws: done or the error is to be sent.
Ends(r) ==
  /\ server[r].pc = "running"
  /\ server' = [server EXCEPT ![r].pc = "last"]
  /\ UNCHANGED <<Browser, wire>> /\ GateStays

LastSent(r) == wire' = IF Gone(r) THEN wire ELSE [wire EXCEPT ![r] = Append(@, "done")]

\* Defect for the checks: a stream nobody reads throws past the release.
LastUnguarded(r) ==
  /\ server[r].pc = "last" /\ server' = [server EXCEPT ![r].pc = "over"]
  /\ LastSent(r)
  /\ IF Gone(r) THEN GateStays ELSE Release(r)
  /\ UNCHANGED Browser

\* Sending to a client that has gone throws, in the handler of that error too; the slot is
\* released in any case, before the stream is closed.
Last(r) ==
  /\ server[r].pc = "last" /\ server' = [server EXCEPT ![r].pc = "over"]
  /\ LastSent(r) /\ Release(r)
  /\ UNCHANGED Browser

---------------------------------------------------------------------------
StreamInit ==
  /\ GateInit
  /\ presses = 0 /\ open = {} /\ running = FALSE
  /\ server = [r \in Request |-> Idle] /\ wire = [r \in Request |-> <<>>]

Tick == Passing /\ UNCHANGED <<presses, open, running, server, wire>>

StreamNext ==
  \/ \E r \in Request : Start(r) \/ Deliver(r) \/ Lost(r) \/ Serve(r) \/ Yield(r) \/ Ends(r) \/ Last(r)
  \/ Stop \/ Tick

\* A request is served and a pipeline goes on to its end: every await of it has a timeout.
StreamFairness == \A r \in Request : WF_streamVars(Serve(r) \/ Ends(r) \/ Last(r))

StreamSpec == StreamInit /\ [][StreamNext]_streamVars /\ StreamFairness

---------------------------------------------------------------------------
(* Properties.                                                             *)

\* Whoever goes away, in the middle of a stream too, leaves no slot taken; and however often
\* a pass is given back, it frees the one slot it took.
SlotsComeBack ==
  /\ []SlotsAreOfPasses
  /\ \A r \in Request : server[r].pc = "running" ~> passes[r] = "released"
=============================================================================
