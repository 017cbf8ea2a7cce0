------------------------------- MODULE Tracing -------------------------------
(***************************************************************************)
(* platform-common: the trace context of a unit of work, and how it gets   *)
(* into the messages the work writes and the requests it forwards.  A unit *)
(* is a request, an attempt of a consumer to handle a message, the         *)
(* publication of a dead letter, or a replay; each opens a span under the  *)
(* context of what caused it, which came in a traceparent header or in the *)
(* metadata of a message.                                                  *)
(*                                                                         *)
(* A task has one unit at a time and a ContextVar of its own (handlers on  *)
(* other threads run in a copy).  Ids are numbers drawn in order instead   *)
(* of at random: nothing compares them but for equality.  Whether they are *)
(* drawn here or by the OpenTelemetry SDK makes no difference, so the      *)
(* exporter is left out, as are logs and metrics.                          *)
(***************************************************************************)
EXTENDS Integers, Sequences

CONSTANTS
    Tasks,        \* tasks of all services
    NoContext,    \* no trace context, and no header or metadata for one
    NoWork,       \* the task is idle
    MaxDrawn,     \* bound: no unit begins when as many ids are drawn
    MaxRequests,  \* bound: requests, forwarded ones included
    MaxTopic      \* bound: messages in the topics, dead letters included

VARIABLES
    drawn,     \* how many ids were drawn
    context,   \* [Tasks -> TraceContext \cup {NoContext}]: _CURRENT_TRACE_CONTEXT
    work,      \* [Tasks -> Work \cup {NoWork}]: the unit of each task
    requests,  \* Seq(Request): history, all requests so far
    topic,     \* Seq(Message): what was published, in all topics
    failed     \* SUBSET Nat: the offsets in topic that an attempt failed on

traceVars == <<drawn, context, work, requests, topic, failed>>

TraceContext == [trace_id : Nat, span_id : Nat, parent_span_id : Nat \cup {NoContext}]

\* header is the context in the traceparent header; from is the request whose
\* handler forwarded this one, 0 for one from outside; trace_id is returned in
\* x-trace-id.
Request == [header : TraceContext \cup {NoContext}, from : Nat, trace_id : Nat]

\* trace is metadata.trace.  History: cause is the message that was handled,
\* dead-lettered or replayed, 0 for none, and request is what began it all.
Message == [kind : {"event", "dead_letter"}, trace : TraceContext \cup {NoContext},
            original : Nat, cause : Nat, request : Nat]

\* rows are the unit's outbox rows, not yet committed: at most one here.
Work == [cause : Nat, request : Nat, rows : Seq(Message)]

ASSUME TracingAssumption ==
    /\ NoContext \notin TraceContext
    /\ NoWork \notin Work
    /\ MaxDrawn \in Nat
    /\ MaxRequests \in Nat
    /\ MaxTopic \in Nat

\* A client outside has drawn ids too.
ClientContext == [trace_id |-> 1, span_id |-> 2, parent_span_id |-> NoContext]

TracingInit ==
    /\ drawn = 2
    /\ context = [t \in Tasks |-> NoContext]
    /\ work = [t \in Tasks |-> NoWork]
    /\ requests = <<>>
    /\ topic = <<>>
    /\ failed = {}

-----------------------------------------------------------------------------
(* platform_common/tracing.py                                              *)

\* A new span, under the parent if there is one and in a trace of its own else.
NewContext(parent) ==
    IF parent = NoContext
    THEN [trace_id |-> drawn + 2, span_id |-> drawn + 1, parent_span_id |-> NoContext]
    ELSE [trace_id |-> parent.trace_id, span_id |-> drawn + 1,
          parent_span_id |-> parent.span_id]

draw == drawn < MaxDrawn /\ drawn' = drawn + 2

\* The task enters the with block, to do w,
start_trace(t, parent, w) ==
    /\ work[t] = NoWork
    /\ draw
    /\ context' = [context EXCEPT ![t] = NewContext(parent)]
    /\ work' = [work EXCEPT ![t] = w]

\* and leaves it, by its end or by an exception: the token resets the variable.
end_trace(t) ==
    /\ context' = [context EXCEPT ![t] = NoContext]
    /\ work' = [work EXCEPT ![t] = NoWork]

\* A message keeps the trace it has.
inject_trace_metadata(trace, current) == IF trace = NoContext THEN current ELSE trace

traceparent_from_event(i) == topic[i].trace

-----------------------------------------------------------------------------
(* Units of work.                                                          *)

\* request_observability_middleware.
handle_request(t, header, from) ==
    /\ Len(requests) < MaxRequests
    /\ requests' = Append(requests, [header |-> header, from |-> from,
                                     trace_id |-> NewContext(header).trace_id])
    /\ start_trace(t, header, [cause |-> 0, request |-> Len(requests) + 1, rows |-> <<>>])
    /\ UNCHANGED <<topic, failed>>

\* From outside, with or without a valid traceparent.
receive_request(t) ==
    \E header \in {NoContext, ClientContext} : handle_request(t, header, 0)

\* The handler of task t sends the request on: the gateway, which may do so
\* again when it failed, or the admin service, which asks every service.
forward_request(t, s) ==
    /\ work[t] # NoWork
    /\ work[t].cause = 0
    /\ handle_request(s, context[t], work[t].request)

\* A consumer hands a message to its handler; each attempt is a unit.  There may
\* be several services that do, and each may do so again.
handle_event(t, i) ==
    /\ topic[i].kind = "event"
    /\ start_trace(t, traceparent_from_event(i),
                   [cause |-> i, request |-> topic[i].request, rows |-> <<>>])
    /\ UNCHANGED <<requests, topic, failed>>

\* The handler inserts an outbox row.
add_outbox_event(t) ==
    /\ work[t] # NoWork
    /\ work[t].rows = <<>>
    /\ work' = [work EXCEPT ![t].rows =
                  <<[kind |-> "event",
                     trace |-> inject_trace_metadata(NoContext, context[t]),
                     original |-> 0,
                     cause |-> work[t].cause, request |-> work[t].request]>>]
    /\ UNCHANGED <<drawn, context, requests, topic, failed>>

\* It ends, and the outbox publishes what it committed.
end_work(t) ==
    /\ work[t] # NoWork
    /\ Len(topic) + Len(work[t].rows) <= MaxTopic
    /\ topic' = topic \o work[t].rows
    /\ end_trace(t)
    /\ UNCHANGED <<drawn, requests, failed>>

\* Or it raises, and its rows are rolled back.
raise(t) ==
    /\ work[t] # NoWork
    /\ failed' = IF work[t].cause = 0 THEN failed ELSE failed \cup {work[t].cause}
    /\ end_trace(t)
    /\ UNCHANGED <<drawn, requests, topic>>

\* The outbox did not get to mark the row, and publishes it again.
publish_again(i) ==
    /\ Len(topic) < MaxTopic
    /\ topic' = Append(topic, topic[i])
    /\ UNCHANGED <<drawn, context, work, requests, failed>>

\* A unit that publishes one message, caused by message i, in a span of its own.
PublishInSpan(i, kind, original, trace) ==
    /\ Len(topic) < MaxTopic
    /\ draw
    /\ topic' = Append(topic, [kind |-> kind,
                    trace |-> inject_trace_metadata(trace,
                                 NewContext(traceparent_from_event(i))),
                    original |-> original, cause |-> i, request |-> topic[i].request])
    /\ UNCHANGED <<context, work, requests, failed>>

\* All attempts on message i failed.  The dead letter has metadata of its own
\* and carries the message.
publish_dead_letter(i) == i \in failed /\ PublishInSpan(i, "dead_letter", i, NoContext)

run_replay_KeepsTrace(d) ==
    /\ topic[d].kind = "dead_letter"
    /\ PublishInSpan(d, "event", 0, topic[topic[d].original].trace)

\* An operator replays dead letter d: build_replay_message copies the message
\* and takes its trace out.
run_replay(d) == topic[d].kind = "dead_letter" /\ PublishInSpan(d, "event", 0, NoContext)

TracingNext ==
    \/ \E t \in Tasks :
        \/ receive_request(t)
        \/ \E s \in Tasks : forward_request(t, s)
        \/ \E i \in 1 .. Len(topic) : handle_event(t, i)
        \/ add_outbox_event(t)
        \/ end_work(t)
        \/ raise(t)
    \/ \E i \in 1 .. Len(topic) : publish_again(i) \/ publish_dead_letter(i) \/ run_replay(i)

TracingSpec == TracingInit /\ [][TracingNext]_traceVars

-----------------------------------------------------------------------------
(* Properties.                                                             *)

\* Every variable stays within its type.
TracingTypeOK ==
    /\ drawn \in Nat
    /\ context \in [Tasks -> TraceContext \cup {NoContext}]
    /\ work \in [Tasks -> Work \cup {NoWork}]
    /\ requests \in Seq(Request)
    /\ topic \in Seq(Message)
    /\ failed \in SUBSET Nat

\* A trace is the tree of what caused what.  Forwarded requests, the messages
\* they lead to in whatever service, retries, dead letters and replays all have
\* the trace id that was returned for the first request; and the span of each
\* message is a child of the span of the message that caused it.
TraceFollowsCause ==
    /\ \A k \in 1 .. Len(requests) :
          LET r == requests[k] IN
          /\ r.header # NoContext => r.trace_id = r.header.trace_id
          /\ r.from # 0 => r.trace_id = requests[r.from].trace_id
    /\ \A i \in 1 .. Len(topic) :
          LET m == topic[i] IN
          /\ m.trace # NoContext
          /\ m.trace.trace_id = requests[m.request].trace_id
          /\ m.cause # 0 => m.trace.parent_span_id = topic[m.cause].trace.span_id
=============================================================================
