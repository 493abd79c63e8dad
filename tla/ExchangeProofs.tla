--------------------------- MODULE ExchangeProofs ---------------------------
(***************************************************************************)
(* Theorems about what the platform exchanges with others, for every value *)
(* of the constants: callbacks taken in and webhooks sent out, netting     *)
(* windows, and the reconciliation queue.                                  *)
(***************************************************************************)
EXTENDS Webhooks, Reconciliation, Netting, FiniteSetTheorems, TLAPS

(* A step that names no prover is tried with each of these in turn.         *)
USE ZenonT(2), SMT, Zenon, SMTT(30)
-----------------------------------------------------------------------------
(* Webhooks, in and out.                                                     *)
Stages == {"none", "insert", "verify", "check", "parse", "parsed", "handoff", "record", "handed",
           "acked", "refused", "dead"}
Statuses == {"none", "RECEIVED", "VERIFIED", "PARSED", "REJECTED", "HANDED_OFF", "PROCESSED"}
SinkRows == [content : Contents, status : {"RECEIVED", "DISPATCHED", "SKIPPED"}]

HooksType ==
    /\ inbound \in [Contents -> Statuses] /\ results \in [Contents -> Nat]
    /\ sink \in Seq(SinkRows)
    /\ dlv \in [Deliveries -> [content : Contents \cup {NoContent}, ok : BOOLEAN, at : Stages]]

(* The delivery that inserted the row of its content and is still at it.     *)
Busy(d) == dlv[d].at \in {"check", "parse", "parsed", "handoff", "record", "handed"}

(* What the stage of a delivery says of the row of its content.              *)
StageOK(d) ==
    LET c == dlv[d].content
        at == dlv[d].at
    IN  /\ at # "none" => c \in Contents
        /\ at \in {"parse", "parsed", "handoff", "record", "handed"} => dlv[d].ok
        /\ at = "check" => inbound[c] = "RECEIVED" /\ results[c] = 0
        /\ at = "parse" => inbound[c] = "VERIFIED" /\ results[c] = 0
        /\ at \in {"parsed", "handoff", "record"} => inbound[c] = "PARSED" /\ results[c] = 0
        /\ at = "handed" => inbound[c] \in {"PARSED", "HANDED_OFF"} /\ results[c] = 1
        /\ at \in {"record", "handed"} => InSink(c)

ContentOK(c) ==
    /\ results[c] \in {0, 1}
    /\ inbound[c] = "none" => results[c] = 0
    /\ inbound[c] = "PROCESSED" => InSink(c) /\ results[c] = 1

SinkOK ==
    /\ \A j, k \in 1 .. Len(sink) : sink[j].content = sink[k].content => j = k
    /\ \A k \in 1 .. Len(sink) : \E d \in Deliveries :
          dlv[d].at # "none" /\ dlv[d].ok /\ dlv[d].content = sink[k].content

(* That a content is counted once depends on who works on it: one delivery   *)
(* at a time, whose stage agrees with the row.                               *)
HooksInv ==
    /\ HooksType
    /\ \A d \in Deliveries : StageOK(d)
    /\ \A d, e \in Deliveries : Busy(d) /\ Busy(e) /\ dlv[d].content = dlv[e].content => d = e
    /\ \A c \in Contents : ContentOK(c)
    /\ SinkOK

LEMMA InSinkIs == ASSUME HooksType, NEW c
                  PROVE  InSink(c) <=> \E k \in 1 .. Len(sink) : sink[k].content = c
  <1>1. DOMAIN sink = 1 .. Len(sink)
    BY DEF HooksType
  <1> QED
    BY <1>1, Zenon DEF InSink

LEMMA HooksInitially == HInit => HooksInv
  <1> SUFFICES ASSUME HInit PROVE HooksInv
    OBVIOUS
  <1>1. HooksType
    BY DEF HInit, HooksType, Statuses, Stages
  <1>2. \A d \in Deliveries : dlv[d].at = "none"
    BY DEF HInit
  <1>3. SinkOK
    BY DEF HInit, SinkOK
  <1>4. \A c \in Contents : ContentOK(c)
    BY DEF HInit, ContentOK
  <1> QED
    BY <1>1, <1>2, <1>3, <1>4 DEF HooksInv, StageOK, Busy

(* A delivery of a content adds at most a row of it, and then it is there.   *)
LEMMA DeliverAdds ==
    ASSUME HooksInv, NEW d \in Deliveries, dlv[d].at # "none", dlv[d].ok,
           Deliver(dlv[d].content),
           \A e \in Deliveries : dlv[e].at # "none" =>
              dlv'[e].at # "none" /\ dlv'[e].ok = dlv[e].ok /\ dlv'[e].content = dlv[e].content
    PROVE  /\ sink' \in Seq(SinkRows) /\ SinkOK'
           /\ \A c : InSink(c)' <=> InSink(c) \/ c = dlv[d].content
  <1> DEFINE c == dlv[d].content
             new == [content |-> c, status |-> "RECEIVED"]
  <1>1. c \in Contents /\ new \in SinkRows
    BY DEF HooksInv, StageOK, SinkRows
  <1>2. HooksType /\ SinkOK
    BY DEF HooksInv
  <1>3. CASE InSink(c)
    <2>1. sink' = sink
      BY <1>3 DEF Deliver
    <2>2. SinkOK'
      BY <1>2, <2>1 DEF SinkOK
    <2> QED
      BY <1>2, <1>3, <2>1, <2>2 DEF HooksType, InSink
  <1>4. CASE ~InSink(c)
    <2>1. sink' = Append(sink, new)
      BY <1>4 DEF Deliver
    <2>2. /\ sink' \in Seq(SinkRows) /\ Len(sink') = Len(sink) + 1 /\ sink'[Len(sink) + 1] = new
          /\ \A k \in 1 .. Len(sink) : sink'[k] = sink[k]
      BY <1>1, <1>2, <2>1 DEF HooksType
    <2>3. \A k \in 1 .. Len(sink) : sink[k].content # c
      BY <1>2, <1>4, InSinkIs
    <2>4. Len(sink) \in Nat /\ new.content = c
      BY <1>2 DEF HooksType
    <2> HIDE DEF new
    <2>5. SinkOK'
      BY <1>2, <2>2, <2>3, <2>4 DEF SinkOK
    <2>6. \A x : InSink(x)' <=> InSink(x) \/ x = c
      <3> SUFFICES ASSUME NEW x PROVE InSink(x)' <=> InSink(x) \/ x = c
        OBVIOUS
      <3>1. InSink(x)' <=> \E k \in 1 .. Len(sink) + 1 : sink'[k].content = x
        BY <2>2 DEF InSink
      <3>2. InSink(x) <=> \E k \in 1 .. Len(sink) : sink[k].content = x
        BY <1>2, InSinkIs
      <3> QED
        BY <2>2, <2>4, <3>1, <3>2
    <2> QED
      BY <2>2, <2>5, <2>6
  <1> QED
    BY <1>3, <1>4

(* A step of a delivery's own, which leaves the sink alone.                  *)
LEMMA SinkKept ==
    ASSUME HooksInv, sink' = sink,
           \A e \in Deliveries : dlv[e].at # "none" =>
              dlv'[e].at # "none" /\ dlv'[e].ok = dlv[e].ok /\ dlv'[e].content = dlv[e].content
    PROVE  SinkOK' /\ \A c : InSink(c)' <=> InSink(c)
  BY DEF HooksInv, SinkOK, InSink

LEMMA MovesOne ==
    ASSUME HooksInv, NEW d \in Deliveries, NEW at \in Stages \ {"none"}, dlv[d].at # "none",
           MovesTo(d, at)
    PROVE  /\ dlv' \in [Deliveries -> [content : Contents \cup {NoContent}, ok : BOOLEAN, at : Stages]]
           /\ dlv'[d].at = at /\ dlv'[d].ok = dlv[d].ok /\ dlv'[d].content = dlv[d].content
           /\ \A e \in Deliveries \ {d} : dlv'[e] = dlv[e]
           /\ \A e \in Deliveries : dlv[e].at # "none" =>
                 dlv'[e].at # "none" /\ dlv'[e].ok = dlv[e].ok /\ dlv'[e].content = dlv[e].content
  BY DEF HooksInv, HooksType, MovesTo

(* One delivery moves to another stage, changing only the row of its         *)
(* content: what is left to show is about that delivery and that content.    *)
LEMMA OneMoves ==
    ASSUME HooksInv, NEW d \in Deliveries, NEW at \in Stages \ {"none"}, dlv[d].at # "none",
           MovesTo(d, at), Busy(d) \/ inbound[dlv[d].content] = "none" \/ ~Busy(d)',
           inbound' \in [Contents -> Statuses], results' \in [Contents -> Nat], sink' \in Seq(SinkRows),
           \A c \in Contents \ {dlv[d].content} : inbound'[c] = inbound[c] /\ results'[c] = results[c],
           Busy(d) \/ inbound[dlv[d].content] = "none"
              \/ (inbound' = inbound /\ results' = results),
           \A c : InSink(c) => InSink(c)',
           SinkOK', StageOK(d)', ContentOK(dlv[d].content)'
    PROVE  HooksInv'
  <1> DEFINE c == dlv[d].content
  <1>1. /\ dlv' \in [Deliveries -> [content : Contents \cup {NoContent}, ok : BOOLEAN, at : Stages]]
        /\ dlv'[d].at = at /\ dlv'[d].ok = dlv[d].ok /\ dlv'[d].content = c
        /\ \A e \in Deliveries \ {d} : dlv'[e] = dlv[e]
    BY MovesOne
  <1>2. HooksType'
    BY <1>1 DEF HooksType
  <1>3. ASSUME NEW e \in Deliveries, e # d, Busy(e), dlv[e].content = c
        PROVE  ~Busy(d) /\ inbound[c] # "none"
    BY <1>3 DEF HooksInv, StageOK, Busy
  <1>4. ASSUME NEW e \in Deliveries PROVE StageOK(e)'
    <2>1. CASE e = d
      BY <2>1
    <2>2. CASE e # d /\ ~Busy(e)
      <3>1. dlv'[e] = dlv[e] /\ StageOK(e) /\ dlv[e].at \in Stages
        BY <1>1, <2>2 DEF HooksInv, HooksType
      <3> QED
        BY <2>2, <3>1 DEF StageOK, Busy
    <2>3. CASE e # d /\ Busy(e)
      <3>1. dlv'[e] = dlv[e] /\ StageOK(e) /\ dlv[e].content \in Contents
        BY <1>1, <2>3 DEF HooksInv, StageOK, Busy
      <3>2. inbound'[dlv[e].content] = inbound[dlv[e].content] /\ results'[dlv[e].content] = results[dlv[e].content]
        BY <1>3, <2>3, <3>1
      <3> QED
        BY <3>1, <3>2 DEF StageOK
    <2> QED
      BY <2>1, <2>2, <2>3
  <1>5. ASSUME NEW e \in Deliveries, NEW f \in Deliveries, Busy(e)', Busy(f)',
               dlv'[e].content = dlv'[f].content
        PROVE  e = f
    <2>1. \A g \in Deliveries : g # d /\ Busy(g)' => Busy(g) /\ dlv[g].content = dlv'[g].content
      BY <1>1 DEF Busy
    <2> QED
      BY <1>1, <1>3, <1>5, <2>1 DEF HooksInv
  <1>6. ASSUME NEW x \in Contents PROVE ContentOK(x)'
    <2>1. CASE x = c
      BY <1>1, <2>1
    <2>2. CASE x # c
      <3>1. inbound'[x] = inbound[x] /\ results'[x] = results[x] /\ ContentOK(x)
        BY <2>2 DEF HooksInv
      <3> QED
        BY <3>1 DEF ContentOK
    <2> QED
      BY <2>1, <2>2
  <1> QED
    BY <1>2, <1>4, <1>5, <1>6 DEF HooksInv

(* A delivery ends where it is, and nothing else changes.                    *)
LEMMA OneLeaves ==
    ASSUME HooksInv, NEW d \in Deliveries, dlv[d].at # "none",
           NEW at \in {"acked", "refused", "dead"}, MovesTo(d, at), UNCHANGED <<inbound, results, sink>>
    PROVE  HooksInv'
  <1>0. at \in Stages \ {"none"}
    BY DEF Stages
  <1>1. dlv'[d].at = at /\ dlv'[d].content = dlv[d].content /\ dlv[d].content \in Contents
    BY <1>0, MovesOne DEF HooksInv, StageOK
  <1>2. SinkOK' /\ \A c : InSink(c)' <=> InSink(c)
    BY <1>0, MovesOne, SinkKept
  <1>3. StageOK(d)' /\ ~Busy(d)'
    BY <1>1 DEF StageOK, Busy
  <1>4. ContentOK(dlv[d].content)'
    BY <1>1, <1>2 DEF HooksInv, ContentOK
  <1>5. inbound' \in [Contents -> Statuses] /\ results' \in [Contents -> Nat] /\ sink' \in Seq(SinkRows)
    BY DEF HooksInv, HooksType
  <1> QED
    BY <1>0, <1>2, <1>3, <1>4, <1>5, OneMoves

(* A busy delivery moves the row of its content to the status that its next  *)
(* stage goes with.                                                          *)
LEMMA RowMoves ==
    ASSUME HooksInv, NEW d \in Deliveries, Busy(d), NEW to \in Statuses \ {"none"},
           NEW at \in {"parse", "parsed", "handoff", "handed", "acked"}, MovesTo(d, at),
           inbound' = [inbound EXCEPT ![dlv[d].content] = to], UNCHANGED <<results, sink>>,
           at # "acked" => dlv[d].ok,
           at = "parse" => to = "VERIFIED" /\ results[dlv[d].content] = 0,
           at \in {"parsed", "handoff"} => to = "PARSED" /\ results[dlv[d].content] = 0,
           at = "handed" => to \in {"PARSED", "HANDED_OFF"},
           at = "handed" \/ to = "PROCESSED" => InSink(dlv[d].content) /\ results[dlv[d].content] = 1
    PROVE  HooksInv'
  <1> DEFINE c == dlv[d].content
  <1>0. at \in Stages \ {"none"} /\ dlv[d].at # "none" /\ c \in Contents
    BY DEF Stages, Busy, HooksInv, StageOK
  <1>1. dlv'[d].at = at /\ dlv'[d].content = c /\ dlv'[d].ok = dlv[d].ok
    BY <1>0, MovesOne
  <1>2. SinkOK' /\ \A x : InSink(x)' <=> InSink(x)
    BY <1>0, MovesOne, SinkKept
  <1>3. /\ inbound' \in [Contents -> Statuses] /\ inbound'[c] = to
        /\ \A x \in Contents \ {c} : inbound'[x] = inbound[x]
    BY <1>0 DEF HooksInv, HooksType
  <1>4. StageOK(d)'
    BY <1>0, <1>1, <1>2, <1>3 DEF StageOK
  <1>5. ContentOK(dlv[d].content)'
    <2>1. ContentOK(c)
      BY <1>0 DEF HooksInv
    <2> QED
      BY <1>1, <1>2, <1>3, <2>1 DEF ContentOK
  <1>6. results' \in [Contents -> Nat] /\ sink' \in Seq(SinkRows)
    BY DEF HooksInv, HooksType
  <1> QED
    BY <1>0, <1>2, <1>3, <1>4, <1>5, <1>6, OneMoves

LEMMA HooksStep == HooksInv /\ [HNext]_hooks => HooksInv'
  <1> SUFFICES ASSUME HooksInv, [HNext]_hooks PROVE HooksInv'
    OBVIOUS
  <1>0. HooksType /\ SinkOK /\ \A d \in Deliveries : StageOK(d)
    BY DEF HooksInv
  <1>1. ASSUME NEW d \in Deliveries, NEW c \in Contents, NEW ok \in BOOLEAN, Arrives(d, c, ok)
        PROVE  HooksInv'
    <2>1. /\ dlv[d].at = "none" /\ UNCHANGED <<inbound, results, sink>>
          /\ dlv' \in [Deliveries -> [content : Contents \cup {NoContent}, ok : BOOLEAN, at : Stages]]
          /\ dlv'[d].content = c /\ dlv'[d].at \in {"insert", "verify"}
          /\ \A e \in Deliveries \ {d} : dlv'[e] = dlv[e]
      BY <1>0, <1>1 DEF Arrives, HooksType, Stages
    <2>2. \A e \in Deliveries : StageOK(e)'
      BY <1>0, <2>1 DEF StageOK, InSink
    <2>3. SinkOK'
      BY <1>0, <2>1 DEF SinkOK
    <2>4. \A e \in Deliveries : Busy(e)' => Busy(e) /\ dlv'[e] = dlv[e]
      BY <2>1 DEF Busy
    <2>5. \A e, f \in Deliveries : Busy(e)' /\ Busy(f)' /\ dlv'[e].content = dlv'[f].content => e = f
      BY <2>4 DEF HooksInv
    <2>6. \A x \in Contents : ContentOK(x)'
      BY <2>1 DEF HooksInv, ContentOK, InSink
    <2>7. HooksType'
      BY <1>0, <2>1 DEF HooksType
    <2> QED
      BY <2>2, <2>3, <2>5, <2>6, <2>7 DEF HooksInv
  <1>2. ASSUME NEW d \in Deliveries, NEW parses \in BOOLEAN, RouteDelivers(d, parses)
        PROVE  HooksInv'
    <2>1. dlv[d].at = "verify" /\ inbound' = inbound /\ results' = results
      BY <1>2 DEF RouteDelivers
    <2>2. PICK at \in {"acked", "refused"} : MovesTo(d, at)
      BY <1>2 DEF RouteDelivers
    <2>3. at \in Stages \ {"none"} /\ dlv[d].at # "none"
      BY <2>1 DEF Stages
    <2>4. sink' \in Seq(SinkRows) /\ SinkOK' /\ \A c : InSink(c) => InSink(c)'
      <3>1. CASE dlv[d].ok /\ parses
        BY <1>2, <2>2, <2>3, <3>1, MovesOne, DeliverAdds DEF RouteDelivers
      <3>2. CASE ~(dlv[d].ok /\ parses)
        BY <1>0, <1>2, <2>2, <2>3, <3>2, MovesOne, SinkKept DEF RouteDelivers, HooksType
      <3> QED
        BY <3>1, <3>2
    <2>5. dlv'[d].at = at /\ dlv'[d].content = dlv[d].content /\ dlv[d].content \in Contents
      BY <1>0, <2>2, <2>3, MovesOne DEF StageOK
    <2>6. StageOK(d)' /\ ~Busy(d)'
      BY <2>5 DEF StageOK, Busy
    <2>7. ContentOK(dlv[d].content)'
      BY <2>1, <2>4, <2>5 DEF HooksInv, ContentOK
    <2> QED
      BY <1>0, <2>1, <2>2, <2>3, <2>4, <2>6, <2>7, OneMoves DEF HooksType
  <1>3. ASSUME NEW d \in Deliveries, IngestInsert(d) PROVE HooksInv'
    <2> DEFINE c == dlv[d].content
    <2>1. /\ dlv[d].at = "insert" /\ results' = results /\ sink' = sink /\ c \in Contents
          /\ results[c] \in {0, 1} /\ (inbound[c] = "none" => results[c] = 0) /\ ContentOK(c)
      BY <1>0, <1>3 DEF IngestInsert, StageOK, HooksInv, ContentOK
    <2>2. CASE inbound[c] = "none"
      <3>1. MovesTo(d, "check") /\ inbound' = [inbound EXCEPT ![c] = "RECEIVED"]
        BY <1>3, <2>2 DEF IngestInsert
      <3>2. "check" \in Stages \ {"none"} /\ dlv[d].at # "none"
        BY <2>1 DEF Stages
      <3>3. /\ inbound' \in [Contents -> Statuses] /\ inbound'[c] = "RECEIVED"
            /\ \A x \in Contents \ {c} : inbound'[x] = inbound[x]
        BY <1>0, <2>1, <3>1 DEF HooksType, Statuses
      <3>4. dlv'[d].at = "check" /\ dlv'[d].content = c
        BY <3>1, <3>2, MovesOne
      <3>5. SinkOK' /\ \A x : InSink(x)' <=> InSink(x)
        BY <2>1, <3>1, <3>2, MovesOne, SinkKept
      <3>6. StageOK(d)' /\ ContentOK(dlv[d].content)'
        BY <2>1, <2>2, <3>3, <3>4 DEF StageOK, ContentOK
      <3> HIDE DEF c
      <3>7. results' \in [Contents -> Nat] /\ sink' \in Seq(SinkRows)
        BY <1>0, <2>1 DEF HooksType
      <3> QED
        BY <2>1, <2>2, <3>1, <3>2, <3>3, <3>5, <3>6, <3>7, OneMoves DEF c
    <2>3. CASE inbound[c] # "none"
      BY <1>3, <2>1, <2>3, OneLeaves DEF IngestInsert
    <2> QED
      BY <2>2, <2>3
  <1>4. ASSUME NEW d \in Deliveries, IngestVerify(d) PROVE HooksInv'
    <2>1. dlv[d].at = "check" /\ Busy(d) /\ UNCHANGED <<results, sink>> /\ results[dlv[d].content] = 0
      BY <1>0, <1>4 DEF IngestVerify, Busy, StageOK
    <2>2. CASE dlv[d].ok
      BY <1>4, <2>1, <2>2, RowMoves DEF IngestVerify, Advance, Statuses
    <2>3. CASE ~dlv[d].ok
      BY <1>4, <2>1, <2>3, RowMoves DEF IngestVerify, Advance, Statuses
    <2> QED
      BY <2>2, <2>3
  <1>5. ASSUME NEW d \in Deliveries, IngestParse(d) PROVE HooksInv'
    <2>1. dlv[d].at = "parse" /\ Busy(d) /\ dlv[d].ok /\ results[dlv[d].content] = 0
      BY <1>0, <1>5 DEF IngestParse, Busy, StageOK
    <2> QED
      BY <1>5, <2>1, RowMoves DEF IngestParse, Advance, Statuses
  <1>6. ASSUME NEW d \in Deliveries, NEW parses \in BOOLEAN, IngestParsed(d, parses)
        PROVE  HooksInv'
    <2> DEFINE c == dlv[d].content
    <2>1. /\ dlv[d].at = "parsed" /\ Busy(d) /\ dlv[d].ok /\ results[c] = 0 /\ inbound[c] = "PARSED"
          /\ c \in Contents
      BY <1>0, <1>6 DEF IngestParsed, Busy, StageOK
    <2>2. CASE parses
      <3>1. inbound' = [inbound EXCEPT ![c] = "PARSED"]
        BY <1>0, <1>6, <2>1, <2>2 DEF IngestParsed, HooksType
      <3> QED
        BY <1>6, <2>1, <2>2, <3>1, RowMoves DEF IngestParsed, Statuses
    <2>3. CASE ~parses
      BY <1>6, <2>1, <2>3, RowMoves DEF IngestParsed, Advance, Statuses
    <2> QED
      BY <2>2, <2>3
  <1>7. ASSUME NEW d \in Deliveries, Handoff(d) PROVE HooksInv'
    <2> DEFINE c == dlv[d].content
    <2>1. /\ dlv[d].at = "handoff" /\ Busy(d) /\ dlv[d].ok /\ results[c] = 0 /\ inbound[c] = "PARSED"
          /\ c \in Contents /\ UNCHANGED <<inbound, results>> /\ MovesTo(d, "record") /\ Deliver(c)
      BY <1>0, <1>7 DEF Handoff, Busy, StageOK
    <2>2. "record" \in Stages \ {"none"} /\ dlv[d].at # "none"
      BY <2>1 DEF Stages
    <2>3. dlv'[d].at = "record" /\ dlv'[d].content = c /\ dlv'[d].ok
      BY <2>1, <2>2, MovesOne
    <2>4. sink' \in Seq(SinkRows) /\ SinkOK' /\ \A x : InSink(x)' <=> InSink(x) \/ x = c
      BY <2>1, <2>2, MovesOne, DeliverAdds
    <2>5. StageOK(d)'
      BY <2>1, <2>3, <2>4 DEF StageOK
    <2>6. ContentOK(dlv[d].content)'
      BY <2>1, <2>3 DEF ContentOK
    <2> QED
      BY <1>0, <2>1, <2>2, <2>4, <2>5, <2>6, OneMoves DEF HooksType
  <1>8. ASSUME NEW d \in Deliveries, HandoffRecord(d) PROVE HooksInv'
    <2> DEFINE c == dlv[d].content
    <2>1. /\ dlv[d].at = "record" /\ Busy(d) /\ dlv[d].ok /\ results[c] = 0 /\ inbound[c] = "PARSED"
          /\ c \in Contents /\ InSink(c) /\ inbound' = inbound /\ sink' = sink /\ MovesTo(d, "handed")
          /\ results' = [results EXCEPT ![c] = @ + 1]
      BY <1>0, <1>8 DEF HandoffRecord, Busy, StageOK
    <2>2. "handed" \in Stages \ {"none"} /\ dlv[d].at # "none"
      BY <2>1 DEF Stages
    <2>3. dlv'[d].at = "handed" /\ dlv'[d].content = c /\ dlv'[d].ok
      BY <2>1, <2>2, MovesOne
    <2>4. SinkOK' /\ \A x : InSink(x)' <=> InSink(x)
      BY <2>1, <2>2, MovesOne, SinkKept
    <2>5. /\ results' \in [Contents -> Nat] /\ results'[c] = 1
          /\ \A x \in Contents \ {c} : results'[x] = results[x]
      BY <1>0, <2>1 DEF HooksType
    <2>6. StageOK(d)'
      BY <2>1, <2>3, <2>4, <2>5 DEF StageOK
    <2>7. ContentOK(dlv[d].content)'
      BY <2>1, <2>3, <2>5 DEF ContentOK
    <2>8. inbound' \in [Contents -> Statuses] /\ sink' \in Seq(SinkRows)
      BY <1>0, <2>1 DEF HooksType
    <2> QED
      BY <2>1, <2>2, <2>4, <2>5, <2>6, <2>7, <2>8, OneMoves
  <1>9. ASSUME NEW d \in Deliveries, HandedOff(d) PROVE HooksInv'
    <2> DEFINE c == dlv[d].content
    <2>1. /\ dlv[d].at = "handed" /\ Busy(d) /\ dlv[d].ok /\ results[c] = 1 /\ InSink(c)
          /\ UNCHANGED <<results, sink>>
      BY <1>0, <1>9 DEF HandedOff, Busy, StageOK
    <2>2. CASE inbound[c] = "PARSED"
      <3>1. inbound' = [inbound EXCEPT ![c] = "HANDED_OFF"] /\ dlv' = dlv
        BY <1>9, <2>2 DEF HandedOff, Advance
      <3>2. MovesTo(d, "handed")
        BY <1>0, <2>1, <3>1 DEF MovesTo, HooksType
      <3> QED
        BY <2>1, <3>1, <3>2, RowMoves DEF Statuses
    <2>3. CASE inbound[c] # "PARSED"
      BY <1>9, <2>1, <2>3, RowMoves DEF HandedOff, Advance, Statuses
    <2> QED
      BY <2>2, <2>3
  <1>10. ASSUME NEW d \in Deliveries, DeliveryDies(d) PROVE HooksInv'
    BY <1>10, OneLeaves DEF DeliveryDies
  <1>11. CASE Drain
    <2>1. PICK outcome \in [Claimed -> {"DISPATCHED", "SKIPPED"}] : DrainOnce(outcome)
      BY <1>11 DEF Drain
    <2>2. UNCHANGED <<inbound, results, dlv>>
      BY <2>1 DEF DrainOnce
    <2>3. DOMAIN sink = 1 .. Len(sink) /\ Len(sink) \in Nat /\ \A k \in 1 .. Len(sink) : sink[k] \in SinkRows
      BY <1>0 DEF HooksType
    <2> DEFINE new(k) == IF k \in Claimed THEN [sink[k] EXCEPT !.status = outcome[k]] ELSE sink[k]
    <2>4. ASSUME NEW k \in 1 .. Len(sink)
          PROVE  new(k) \in SinkRows /\ new(k).content = sink[k].content
      BY <2>1, <2>3, <2>4 DEF SinkRows
    <2>5. sink' = [k \in 1 .. Len(sink) |-> new(k)]
      BY <2>1, <2>3 DEF DrainOnce
    <2> HIDE DEF new
    <2>6. sink' \in Seq(SinkRows) /\ Len(sink') = Len(sink)
      BY <2>3, <2>4, <2>5
    <2>7. \A k \in 1 .. Len(sink) : sink'[k].content = sink[k].content
      BY <2>4, <2>5
    <2>8. \A x : InSink(x)' <=> InSink(x)
      BY <1>0, <2>3, <2>5, <2>7 DEF InSink
    <2>9. SinkOK'
      BY <1>0, <2>2, <2>6, <2>7 DEF SinkOK
    <2>10. HooksType'
      BY <1>0, <2>2, <2>6 DEF HooksType
    <2>11. \A d \in Deliveries : StageOK(d)'
      BY <1>0, <2>2, <2>8 DEF StageOK
    <2>12. \A x \in Contents : ContentOK(x)'
      BY <2>2, <2>8 DEF ContentOK, HooksInv
    <2>13. \A d \in Deliveries : Busy(d)' <=> Busy(d)
      BY <2>2 DEF Busy
    <2> QED
      BY <2>2, <2>9, <2>10, <2>11, <2>12, <2>13 DEF HooksInv
  <1>12. CASE UNCHANGED hooks
    BY <1>12 DEF hooks, HooksInv, HooksType, StageOK, Busy, ContentOK, SinkOK, InSink
  <1> QED
    BY <1>1, <1>2, <1>3, <1>4, <1>5, <1>6, <1>7, <1>8, <1>9, <1>10, <1>11, <1>12 DEF HNext

LEMMA HooksImplies == HooksInv => CallbackCountsOnce
  <1> SUFFICES ASSUME HooksInv, NEW c \in Contents
               PROVE  /\ \A k, l \in DOMAIN sink : sink[k].content = c /\ sink[l].content = c => k = l
                      /\ results[c] <= 1
                      /\ InSink(c) => \E d \in Deliveries : dlv[d].content = c /\ dlv[d].ok
                      /\ inbound[c] = "PROCESSED" => InSink(c) /\ results[c] = 1
    BY DEF CallbackCountsOnce
  <1>1. HooksType /\ SinkOK /\ ContentOK(c) /\ DOMAIN sink = 1 .. Len(sink)
    BY DEF HooksInv, HooksType
  <1>2. \A k, l \in DOMAIN sink : sink[k].content = c /\ sink[l].content = c => k = l
    BY <1>1 DEF SinkOK
  <1>3. InSink(c) => \E d \in Deliveries : dlv[d].content = c /\ dlv[d].ok
    BY <1>1 DEF InSink, SinkOK
  <1>4. results[c] <= 1 /\ (inbound[c] = "PROCESSED" => InSink(c) /\ results[c] = 1)
    BY <1>1 DEF ContentOK
  <1> QED
    BY <1>2, <1>3, <1>4, Zenon

(* For every set of callbacks, any number of deliveries of each in any       *)
(* number of processes, any deaths between two stored steps, every batch     *)
(* size, and with the pipeline switched on or off: a callback enters the     *)
(* sink once, verified, is recorded once, and PROCESSED says both.           *)
THEOREM CallbacksCountOnce == HSpec => []CallbackCountsOnce
  <1>1. HooksInv /\ [HNext]_hooks => HooksInv'
    BY HooksStep
  <1> QED
    BY HooksInitially, HooksImplies, <1>1, PTL DEF HSpec
-----------------------------------------------------------------------------
(* Webhooks out.                                                             *)

EndpointRows == [active : BOOLEAN, secret : Nat, prev : Nat, grace : BOOLEAN]
DeliveryRows == [status : {"none", "PENDING", "RETRYING", "DELIVERED", "EXHAUSTED"},
                 posts : Nat, due : BOOLEAN]
Waiting(k) == delivery[k].status \in {"PENDING", "RETRYING"}

(* A receiver can verify what is signed now; an endpoint id that is not      *)
(* active was never used.                                                    *)
EndpointOK(h) ==
    /\ held[h] \in SigningSecrets(h)
    /\ ~endpoint[h].active => endpoint[h] = NoEndpoint

(* What the row of a delivery says of its posts and of the receiver.         *)
DeliveryOK(k) ==
    /\ delivery[k].status \in {"none", "PENDING"} => delivery[k].posts = 0
    /\ delivery[k].status = "RETRYING" => delivery[k].posts < MaxPosts
    /\ delivery[k].status = "DELIVERED" => accepted[k] > 0 /\ accepted[k] <= 1 + mishaps
    /\ delivery[k].status # "DELIVERED" => accepted[k] <= mishaps
    /\ delivery[k].status = "EXHAUSTED" =>
          delivery[k].posts = MaxPosts /\ (k \in exhausted \/ mishaps > 0)

(* The batch and the row being posted are still waiting: nothing else moves  *)
(* a row that waits.                                                         *)
DrainOK ==
    /\ hookDrain.todo \in SUBSET DeliveryKeys /\ \A k \in hookDrain.todo : Waiting(k)
    /\ hookDrain.at # None => /\ hookDrain.at \in DeliveryKeys /\ Waiting(hookDrain.at)
                              /\ hookDrain.at \notin hookDrain.todo

WiresType ==
    /\ endpoint \in [Hooks -> EndpointRows] /\ held \in [Hooks -> Nat]
    /\ delivery \in [DeliveryKeys -> DeliveryRows]
    /\ accepted \in [DeliveryKeys -> Nat] /\ mishaps \in Nat
    /\ hookDrain = [todo |-> hookDrain.todo, at |-> hookDrain.at, sig |-> hookDrain.sig]

WiresInv ==
    /\ WiresType /\ DrainOK
    /\ \A h \in Hooks : EndpointOK(h)
    /\ \A k \in DeliveryKeys : DeliveryOK(k)

LEMMA WiresInitially == OInit => WiresInv
  <1> SUFFICES ASSUME OInit PROVE WiresInv
    OBVIOUS
  <1>1. WiresType
    BY DEF OInit, WiresType, EndpointRows, DeliveryRows, NoEndpoint, NoDelivery
  <1>2. DrainOK
    BY DEF OInit, DrainOK
  <1>3. \A h \in Hooks : EndpointOK(h)
    BY DEF OInit, EndpointOK, SigningSecrets, NoEndpoint
  <1>4. \A k \in DeliveryKeys : DeliveryOK(k)
    BY DEF OInit, DeliveryOK, NoDelivery
  <1> QED
    BY <1>1, <1>2, <1>3, <1>4 DEF WiresInv

(* One half of the state stays: the endpoints, or the deliveries.            *)
LEMMA EndpointsStay ==
    ASSUME WiresInv, UNCHANGED <<endpoint, held>>
    PROVE  \A h \in Hooks : EndpointOK(h)'
  BY DEF WiresInv, EndpointOK, SigningSecrets

LEMMA DeliveriesStay ==
    ASSUME WiresInv, UNCHANGED <<delivery, accepted, mishaps, exhausted>>
    PROVE  \A k \in DeliveryKeys : DeliveryOK(k)'
  BY DEF WiresInv, DeliveryOK

(* An endpoint changes, its receiver or its row.                             *)
LEMMA EndpointMoves ==
    ASSUME WiresInv, NEW h \in Hooks, NEW record \in EndpointRows, NEW secret \in Nat,
           endpoint' = [endpoint EXCEPT ![h] = record], held' = [held EXCEPT ![h] = secret],
           secret = record.secret \/ (record.grace /\ secret = record.prev), record.active,
           UNCHANGED <<delivery, accepted, mishaps, exhausted, hookDrain>>
    PROVE  WiresInv'
  <1>1. /\ endpoint'[h] = record /\ held'[h] = secret
        /\ \A g \in Hooks \ {h} : endpoint'[g] = endpoint[g] /\ held'[g] = held[g]
    BY DEF WiresInv, WiresType
  <1>2. \A g \in Hooks : EndpointOK(g)'
    BY <1>1 DEF WiresInv, EndpointOK, SigningSecrets
  <1>3. WiresType'
    BY DEF WiresInv, WiresType
  <1>4. DrainOK'
    BY DEF WiresInv, DrainOK, Waiting
  <1> QED
    BY <1>2, <1>3, <1>4, DeliveriesStay DEF WiresInv

(* A fan-out inserts the deliveries that are not there and leaves the rest.  *)
LEMMA FanOutInserts ==
    ASSUME WiresInv, NEW new, InsertDeliveries(new), UNCHANGED <<accepted, exhausted>>,
           mishaps' \in Nat, mishaps' >= mishaps
    PROVE  /\ delivery' \in [DeliveryKeys -> DeliveryRows]
           /\ \A k \in DeliveryKeys : DeliveryOK(k)' /\ (Waiting(k) => Waiting(k)')
  <1>1. \A k \in DeliveryKeys : \/ delivery'[k] = delivery[k]
                                \/ delivery[k].status = "none" /\ delivery'[k] = InsertDelivery
    BY DEF InsertDeliveries
  <1>2. delivery' \in [DeliveryKeys -> DeliveryRows]
    BY DEF InsertDeliveries, InsertDelivery, DeliveryRows, WiresInv, WiresType
  <1>3. ASSUME NEW k \in DeliveryKeys PROVE DeliveryOK(k)' /\ (Waiting(k) => Waiting(k)')
    <2>0. DeliveryOK(k) /\ accepted[k] \in Nat /\ mishaps \in Nat
      BY DEF WiresInv, WiresType
    <2>1. CASE delivery'[k] = delivery[k]
      BY <2>0, <2>1 DEF DeliveryOK, Waiting
    <2>2. CASE delivery[k].status = "none" /\ delivery'[k] = InsertDelivery
      BY <2>0, <2>2 DEF DeliveryOK, Waiting, InsertDelivery
    <2> QED
      BY <1>1, <2>1, <2>2
  <1> QED
    BY <1>2, <1>3

(* One delivery changes.                                                     *)
LEMMA DeliveryMoves ==
    ASSUME WiresInv, NEW k \in DeliveryKeys, NEW record \in DeliveryRows, NEW n \in Nat,
           delivery' = [delivery EXCEPT ![k] = record], accepted' = [accepted EXCEPT ![k] = n],
           mishaps' \in Nat, mishaps' >= mishaps, exhausted \subseteq exhausted'
    PROVE  /\ delivery' \in [DeliveryKeys -> DeliveryRows] /\ accepted' \in [DeliveryKeys -> Nat]
           /\ delivery'[k] = record /\ accepted'[k] = n
           /\ \A j \in DeliveryKeys \ {k} : DeliveryOK(j)' /\ delivery'[j] = delivery[j]
  <1>1. /\ delivery' \in [DeliveryKeys -> DeliveryRows] /\ accepted' \in [DeliveryKeys -> Nat]
        /\ delivery'[k] = record /\ accepted'[k] = n
        /\ \A j \in DeliveryKeys \ {k} : delivery'[j] = delivery[j] /\ accepted'[j] = accepted[j]
    BY DEF WiresInv, WiresType
  <1>2. ASSUME NEW j \in DeliveryKeys \ {k} PROVE DeliveryOK(j)'
    <2>1. DeliveryOK(j) /\ accepted[j] \in Nat /\ mishaps \in Nat
      BY DEF WiresInv, WiresType
    <2> QED
      BY <1>1, <2>1 DEF DeliveryOK
  <1> QED
    BY <1>1, <1>2

LEMMA WiresStep == WiresInv /\ [ONext]_wires => WiresInv'
  <1> SUFFICES ASSUME WiresInv, [ONext]_wires PROVE WiresInv'
    OBVIOUS
  <1>0. /\ WiresType /\ DrainOK /\ \A h \in Hooks : endpoint[h] \in EndpointRows /\ EndpointOK(h)
        /\ \A k \in DeliveryKeys : delivery[k] \in DeliveryRows /\ accepted[k] \in Nat /\ DeliveryOK(k)
    BY DEF WiresInv, WiresType
  <1>1. ASSUME NEW h \in Hooks, RegisterEndpoint(h) PROVE WiresInv'
    <2> DEFINE record == [NoEndpoint EXCEPT !.active = TRUE]
    <2>1. endpoint[h] = NoEndpoint /\ held[h] = 0 /\ held[h] \in Nat
      BY <1>0, <1>1 DEF RegisterEndpoint, InsertEndpoint, EndpointOK, SigningSecrets, NoEndpoint
    <2>2. record \in EndpointRows /\ record.active /\ held[h] = record.secret
      BY <2>1 DEF EndpointRows, NoEndpoint
    <2>3. /\ endpoint' = [endpoint EXCEPT ![h] = record] /\ held' = [held EXCEPT ![h] = held[h]]
          /\ UNCHANGED <<delivery, accepted, mishaps, exhausted, hookDrain>>
      BY <1>0, <1>1 DEF RegisterEndpoint, InsertEndpoint, WiresType
    <2> HIDE DEF record
    <2> QED
      BY <2>1, <2>2, <2>3, EndpointMoves
  <1>2. ASSUME NEW h \in Hooks, RotateSecret(h) PROVE WiresInv'
    <2> DEFINE next == endpoint[h].secret + 1
               record == [endpoint[h] EXCEPT !.secret = next, !.prev = endpoint[h].secret,
                                             !.grace = TRUE]
    <2>0. endpoint[h] \in EndpointRows /\ endpoint[h].secret \in Nat /\ endpoint[h].active
      BY <1>0, <1>2 DEF RotateSecret, EndpointRows
    <2>1. record \in EndpointRows /\ record.active /\ record.grace /\ record.prev = endpoint[h].secret
      <3>1. next \in Nat
        BY <2>0
      <3> HIDE DEF next
      <3> QED
        BY <2>0, <3>1 DEF EndpointRows
    <2>2. held[h] = endpoint[h].secret /\ held[h] \in Nat
      BY <1>0, <1>2 DEF RotateSecret, EndpointOK, SigningSecrets, WiresType
    <2>3. /\ endpoint' = [endpoint EXCEPT ![h] = record] /\ held' = [held EXCEPT ![h] = held[h]]
          /\ UNCHANGED <<delivery, accepted, mishaps, exhausted, hookDrain>>
      BY <1>0, <1>2 DEF RotateSecret, SaveEndpoint, WiresType
    <2> HIDE DEF record
    <2> QED
      BY <2>1, <2>2, <2>3, EndpointMoves
  <1>3. ASSUME NEW h \in Hooks, Install(h) PROVE WiresInv'
    <2>1. endpoint[h].active /\ endpoint[h].secret \in Nat
      BY <1>0, <1>3 DEF Install, EndpointOK, SigningSecrets, NoEndpoint, EndpointRows
    <2>2. /\ endpoint' = [endpoint EXCEPT ![h] = endpoint[h]]
          /\ held' = [held EXCEPT ![h] = endpoint[h].secret]
          /\ UNCHANGED <<delivery, accepted, mishaps, exhausted, hookDrain>>
      BY <1>0, <1>3 DEF Install, WiresType
    <2> QED
      BY <1>0, <2>1, <2>2, EndpointMoves
  <1>4. ASSUME NEW h \in Hooks, GraceEnds(h) PROVE WiresInv'
    <2> DEFINE record == [endpoint[h] EXCEPT !.grace = FALSE]
    <2>1. endpoint[h].active
      BY <1>0, <1>4 DEF GraceEnds, EndpointOK, NoEndpoint
    <2>2. record \in EndpointRows /\ record.active /\ record.secret = endpoint[h].secret
      BY <1>0, <2>1 DEF EndpointRows
    <2>3. /\ endpoint' = [endpoint EXCEPT ![h] = record] /\ held' = [held EXCEPT ![h] = held[h]]
          /\ held[h] = endpoint[h].secret /\ held[h] \in Nat
          /\ UNCHANGED <<delivery, accepted, mishaps, exhausted, hookDrain>>
      BY <1>0, <1>4 DEF GraceEnds, WiresType
    <2> HIDE DEF record
    <2> QED
      BY <2>2, <2>3, EndpointMoves
  <1>5. ASSUME NEW e \in OutEvents, FanOut(e) PROVE WiresInv'
    <2>1. /\ InsertDeliveries(HookWrites(e)) /\ mishaps \in Nat
          /\ UNCHANGED <<endpoint, held, hookDrain, exhausted, accepted, mishaps>>
      BY <1>0, <1>5 DEF FanOut, WiresType
    <2>2. /\ delivery' \in [DeliveryKeys -> DeliveryRows]
          /\ \A k \in DeliveryKeys : DeliveryOK(k)' /\ (Waiting(k) => Waiting(k)')
      BY <2>1, FanOutInserts
    <2>3. DrainOK'
      BY <1>0, <2>1, <2>2 DEF DrainOK
    <2>4. WiresType'
      BY <1>0, <2>1, <2>2 DEF WiresType
    <2> QED
      BY <2>1, <2>2, <2>3, <2>4, EndpointsStay DEF WiresInv
  <1>6. ASSUME NEW e \in OutEvents, FanOutCrashes(e) PROVE WiresInv'
    <2>1. /\ \E new : InsertDeliveries(new)
          /\ mishaps' = mishaps + 1 /\ mishaps \in Nat
          /\ hookDrain' = [todo |-> {}, at |-> None, sig |-> {}]
          /\ UNCHANGED <<endpoint, held, exhausted, accepted>>
      BY <1>0, <1>6 DEF FanOutCrashes, WiresType
    <2>2. /\ delivery' \in [DeliveryKeys -> DeliveryRows]
          /\ \A k \in DeliveryKeys : DeliveryOK(k)'
      BY <2>1, FanOutInserts
    <2>3. DrainOK'
      BY <2>1 DEF DrainOK
    <2>4. WiresType'
      BY <1>0, <2>1, <2>2 DEF WiresType
    <2> QED
      BY <2>1, <2>2, <2>3, <2>4, EndpointsStay DEF WiresInv
  <1>7. ASSUME UNCHANGED <<endpoint, held, delivery, accepted, mishaps, exhausted>>,
               \/ UNCHANGED hookDrain
               \/ ProcessDueHooks
               \/ \E k \in DeliveryKeys : Post(k)
        PROVE  WiresInv'
    <2>1. /\ hookDrain' = [todo |-> hookDrain'.todo, at |-> hookDrain'.at, sig |-> hookDrain'.sig]
          /\ hookDrain'.todo \subseteq hookDrain.todo \cup DueDeliveries
          /\ hookDrain'.at # None => /\ hookDrain'.at \notin hookDrain'.todo
                                     /\ hookDrain'.at \in hookDrain.todo \cup {hookDrain.at}
                                     /\ hookDrain'.at = hookDrain.at => hookDrain.at # None
      <3>1. CASE UNCHANGED hookDrain
        BY <1>0, <3>1 DEF WiresType, DrainOK
      <3>2. CASE ProcessDueHooks
        BY <1>0, <3>2 DEF WiresType, ProcessDueHooks
      <3>3. ASSUME NEW k \in DeliveryKeys, Post(k)
            PROVE  /\ hookDrain'.todo = hookDrain.todo \ {k} /\ hookDrain'.at = k
                   /\ k \in hookDrain.todo /\ hookDrain.at = None
                   /\ hookDrain' = [todo |-> hookDrain'.todo, at |-> hookDrain'.at,
                                    sig |-> hookDrain'.sig]
        BY <3>3 DEF Post
      <3> QED
        BY <1>7, <3>1, <3>2, <3>3
    <2>2. DrainOK'
      BY <1>0, <1>7, <2>1 DEF DrainOK, Waiting, DueDeliveries
    <2>3. WiresType'
      BY <1>0, <1>7, <2>1 DEF WiresType
    <2> QED
      BY <1>7, <2>2, <2>3, EndpointsStay, DeliveriesStay DEF WiresInv
  <1>8. ASSUME NEW k \in DeliveryKeys, RetryFallsDue(k) PROVE WiresInv'
    <2> DEFINE record == [delivery[k] EXCEPT !.due = TRUE]
    <2>1. /\ record \in DeliveryRows /\ record.status = delivery[k].status
          /\ record.posts = delivery[k].posts
      BY <1>0 DEF DeliveryRows
    <2>2. /\ delivery' = [delivery EXCEPT ![k] = record]
          /\ accepted' = [accepted EXCEPT ![k] = accepted[k]] /\ accepted[k] \in Nat
          /\ mishaps' \in Nat /\ mishaps' >= mishaps /\ exhausted \subseteq exhausted'
          /\ UNCHANGED <<endpoint, held, hookDrain, exhausted, accepted, mishaps>>
      BY <1>0, <1>8 DEF RetryFallsDue, WiresType
    <2> HIDE DEF record
    <2>3. /\ delivery' \in [DeliveryKeys -> DeliveryRows] /\ delivery'[k] = record
          /\ \A j \in DeliveryKeys \ {k} : DeliveryOK(j)' /\ delivery'[j] = delivery[j]
      BY <2>1, <2>2, DeliveryMoves
    <2>4. DeliveryOK(k)'
      BY <1>0, <2>1, <2>2, <2>3 DEF DeliveryOK
    <2>5. DrainOK'
      BY <1>0, <2>1, <2>2, <2>3 DEF DrainOK, Waiting
    <2>6. WiresType'
      BY <1>0, <2>2, <2>3 DEF WiresType
    <2> QED
      BY <2>2, <2>3, <2>4, <2>5, <2>6, EndpointsStay DEF WiresInv
  <1>9. ASSUME NEW ok \in BOOLEAN, Posted(ok) PROVE WiresInv'
    <2>1. PICK k \in DeliveryKeys : k = hookDrain.at /\ Waiting(k) /\ k \notin hookDrain.todo
      BY <1>0, <1>9 DEF Posted, DrainOK
    <2> DEFINE outcome == IF ok THEN "DELIVERED"
                         ELSE IF delivery[k].posts + 1 >= MaxPosts THEN "EXHAUSTED" ELSE "RETRYING"
               record == [status |-> outcome, posts |-> delivery[k].posts + 1, due |-> FALSE]
               n == IF ok THEN accepted[k] + 1 ELSE accepted[k]
    <2>0. MaxPosts \in Nat /\ MaxPosts > 0
      BY PostsAssumption
    <2>2. delivery[k].posts \in Nat /\ delivery[k].posts < MaxPosts /\ accepted[k] \in Nat
          /\ mishaps \in Nat /\ accepted[k] <= mishaps
      BY <1>0, <2>0, <2>1 DEF Waiting, DeliveryOK, DeliveryRows, WiresType
    <2>3. record \in DeliveryRows /\ n \in Nat
      BY <2>2 DEF DeliveryRows
    <2>4. /\ delivery' = [delivery EXCEPT ![k] = record] /\ accepted' = [accepted EXCEPT ![k] = n]
          /\ hookDrain' = [hookDrain EXCEPT !.at = None, !.sig = {}]
          /\ exhausted' = (IF outcome = "EXHAUSTED" THEN exhausted \cup {k} ELSE exhausted)
          /\ mishaps' >= mishaps /\ UNCHANGED <<endpoint, held, mishaps>>
      BY <1>0, <1>9, <2>1, <2>2 DEF Posted, Exhaust, SaveDelivery, WiresType
    <2>5. /\ delivery' \in [DeliveryKeys -> DeliveryRows] /\ accepted' \in [DeliveryKeys -> Nat]
          /\ delivery'[k] = record /\ accepted'[k] = n
          /\ \A j \in DeliveryKeys \ {k} : DeliveryOK(j)' /\ delivery'[j] = delivery[j]
      <3>1. exhausted \subseteq exhausted' /\ mishaps' \in Nat
        BY <2>2, <2>4
      <3> HIDE DEF record, n, outcome
      <3> QED
        BY <2>3, <2>4, <3>1, DeliveryMoves
    <2>6. DeliveryOK(k)'
      <3>1. /\ delivery'[k].status = outcome /\ delivery'[k].posts = delivery[k].posts + 1
            /\ accepted'[k] = n /\ mishaps' = mishaps /\ (outcome = "EXHAUSTED" => k \in exhausted')
        BY <2>4, <2>5
      <3>2. \/ ok /\ outcome = "DELIVERED" /\ n = accepted[k] + 1
            \/ ~ok /\ delivery[k].posts + 1 >= MaxPosts /\ outcome = "EXHAUSTED" /\ n = accepted[k]
            \/ ~ok /\ delivery[k].posts + 1 < MaxPosts /\ outcome = "RETRYING" /\ n = accepted[k]
        BY <2>0, <2>2
      <3> HIDE DEF outcome, n, record
      <3> QED
        BY <2>0, <2>2, <3>1, <3>2 DEF DeliveryOK
    <2>7. hookDrain'.at = None /\ hookDrain'.todo = hookDrain.todo
          /\ hookDrain' = [todo |-> hookDrain'.todo, at |-> hookDrain'.at, sig |-> hookDrain'.sig]
      BY <1>0, <2>4 DEF WiresType
    <2>8. DrainOK'
      BY <1>0, <2>1, <2>5, <2>7 DEF DrainOK, Waiting
    <2>9. WiresType'
      BY <1>0, <2>4, <2>5, <2>7 DEF WiresType
    <2> QED
      BY <2>4, <2>5, <2>6, <2>8, <2>9, EndpointsStay DEF WiresInv
  <1>10. ASSUME NEW took \in BOOLEAN, NEW saved \in BOOLEAN, DrainCrashes(took, saved)
         PROVE  WiresInv'
    <2>1. PICK k \in DeliveryKeys : k = hookDrain.at /\ Waiting(k)
      BY <1>0, <1>10 DEF DrainCrashes, DrainOK
    <2> DEFINE record == IF saved THEN [status |-> "EXHAUSTED", posts |-> delivery[k].posts + 1,
                                        due |-> FALSE] ELSE delivery[k]
               n == IF took THEN accepted[k] + 1 ELSE accepted[k]
    <2>0. MaxPosts \in Nat /\ MaxPosts > 0
      BY PostsAssumption
    <2>2. delivery[k].posts \in Nat /\ delivery[k].posts < MaxPosts /\ accepted[k] \in Nat
          /\ mishaps \in Nat /\ accepted[k] <= mishaps
      BY <1>0, <2>0, <2>1 DEF Waiting, DeliveryOK, DeliveryRows, WiresType
    <2>3. record \in DeliveryRows /\ n \in Nat
      BY <1>0, <2>1, <2>2 DEF DeliveryRows
    <2>a. /\ delivery' = [delivery EXCEPT ![k] = record]
          /\ saved => ~took /\ delivery[k].posts + 1 >= MaxPosts
      BY <1>0, <1>10, <2>1 DEF DrainCrashes, SaveDelivery, WiresType
    <2>4. /\ accepted' = [accepted EXCEPT ![k] = n]
          /\ hookDrain' = [todo |-> {}, at |-> None, sig |-> {}] /\ mishaps' = mishaps + 1
          /\ mishaps' \in Nat /\ mishaps' >= mishaps /\ exhausted \subseteq exhausted'
          /\ UNCHANGED <<endpoint, held, exhausted>>
      <3>1. /\ accepted' = [accepted EXCEPT ![hookDrain.at] = IF took THEN accepted[hookDrain.at] + 1
                                                             ELSE accepted[hookDrain.at]]
            /\ hookDrain' = [todo |-> {}, at |-> None, sig |-> {}] /\ mishaps' = mishaps + 1
            /\ endpoint' = endpoint /\ held' = held /\ exhausted' = exhausted
        BY <1>10, Zenon DEF DrainCrashes
      <3>2. mishaps' \in Nat /\ mishaps' >= mishaps
        BY <2>2, <3>1
      <3> QED
        BY <2>1, <3>1, <3>2
    <2>5. /\ delivery' \in [DeliveryKeys -> DeliveryRows] /\ accepted' \in [DeliveryKeys -> Nat]
          /\ delivery'[k] = record /\ accepted'[k] = n
          /\ \A j \in DeliveryKeys \ {k} : DeliveryOK(j)' /\ delivery'[j] = delivery[j]
      <3> HIDE DEF record, n
      <3> QED
        BY <2>a, <2>3, <2>4, DeliveryMoves
    <2>6. DeliveryOK(k)'
      <3>1. /\ accepted'[k] <= mishaps + 1 /\ mishaps' = mishaps + 1
            /\ \/ delivery'[k] = delivery[k]
               \/ delivery'[k].status = "EXHAUSTED" /\ delivery'[k].posts = MaxPosts
        BY <2>0, <2>2, <2>a, <2>4, <2>5
      <3> QED
        BY <1>0, <2>0, <2>1, <2>2, <3>1 DEF DeliveryOK, Waiting
    <2>7. DrainOK'
      BY <2>4 DEF DrainOK
    <2>8. WiresType'
      BY <1>0, <2>2, <2>4, <2>5 DEF WiresType
    <2> QED
      BY <2>4, <2>5, <2>6, <2>7, <2>8, EndpointsStay DEF WiresInv
  <1>11. ASSUME \/ ProcessDueHooks \/ ProcessDueNotes
                \/ \E k \in DeliveryKeys : Post(k) \/ EmailExhausted(k)
                \/ \E k \in Dispatches : Send(k) \/ SendFallsDue(k)
                \/ \E ok \in BOOLEAN : Sent(ok)
                \/ UNCHANGED wires
         PROVE  WiresInv'
    BY <1>7, <1>11 DEF ProcessDueHooks, ProcessDueNotes, Post, EmailExhausted, Send, SendFallsDue,
                       Sent, wires
  <1> QED
    BY <1>1, <1>2, <1>3, <1>4, <1>5, <1>6, <1>8, <1>9, <1>10, <1>11 DEF ONext

(* For every set of endpoints and events, every number of posts a delivery   *)
(* is given and any number of rotations and crashes: a receiver that         *)
(* installs new secrets within the grace window verifies what is signed,     *)
(* takes an event twice only over a crash, and the delivery rows tell it.    *)
THEOREM ReceiversAreServed == OSpec => []ReceiverIsServed
  <1>1. WiresInv => ReceiverIsServed
    <2> SUFFICES ASSUME WiresInv PROVE ReceiverIsServed
      OBVIOUS
    <2>1. \A h \in Hooks : held[h] \in SigningSecrets(h)
      BY DEF WiresInv, EndpointOK
    <2>2. ASSUME NEW k \in DeliveryKeys
          PROVE  /\ accepted[k] <= 1 + mishaps
                 /\ delivery[k].status = "DELIVERED" => accepted[k] > 0
                 /\ delivery[k].status = "EXHAUSTED" =>
                       /\ delivery[k].posts = MaxPosts /\ accepted[k] <= mishaps
                       /\ k \in exhausted \/ mishaps > 0
      <3>1. DeliveryOK(k) /\ accepted[k] \in Nat /\ mishaps \in Nat
        BY DEF WiresInv, WiresType
      <3> QED
        BY <3>1 DEF DeliveryOK
    <2> QED
      BY <2>1, <2>2 DEF ReceiverIsServed
  <1> QED
    BY WiresInitially, WiresStep, <1>1, PTL DEF OSpec
-----------------------------------------------------------------------------
(***************************************************************************)
(* A confirmed window pays out what its entries net to, for any number of  *)
(* participants, transfers and attempts.                                   *)
(***************************************************************************)

EntryUnits(es) == UNION {{e} \X (1 .. e[1].amt) : e \in es}
Entries == Transfers \X (Participants \cup {"none"})

(* A window has finitely many entries, each of finitely many units.          *)
LEMMA UnitsAreFinite ==
    ASSUME NEW es, IsFiniteSet(es), es \subseteq Entries
    PROVE  IsFiniteSet(EntryUnits(es)) /\ Units(es) \in Nat
  <1> DEFINE f == [e \in es |-> {e} \X (1 .. e[1].amt)]
  <1> DEFINE T == {{e} \X (1 .. e[1].amt) : e \in es}
  <1>1. f \in Surjection(es, T)
    BY DEF Surjection
  <1>2. IsFiniteSet(T)
    <2> HIDE DEF f, T
    <2> QED
      BY <1>1, FS_Surjection
  <1>3. ASSUME NEW e \in es PROVE IsFiniteSet({e} \X (1 .. e[1].amt))
    <2>1. e[1].amt \in Int
      BY NettingAssumption DEF Entries
    <2>2. IsFiniteSet(1 .. e[1].amt)
      BY <2>1, 1 \in Int, FS_Interval, Zenon
    <2>3. IsFiniteSet({e})
      BY FS_Singleton, Zenon
    <2> QED
      BY <2>2, <2>3, FS_Product
  <1>4. \A X \in T : IsFiniteSet(X)
    BY <1>3
  <1> HIDE DEF T
  <1>5. IsFiniteSet(UNION T)
    BY <1>2, <1>4, FS_UNION
  <1>6. IsFiniteSet(EntryUnits(es))
    BY <1>5 DEF EntryUnits, T
  <1> QED
    BY <1>6, FS_CardinalityType DEF Units, EntryUnits

(* Reversing every entry that touches p takes p out: what p was credited it  *)
(* is debited, unit by unit.                                                 *)
LEMMA ReversedIsOut ==
    ASSUME NEW p \in Participants, NEW es, IsFiniteSet(es), es \subseteq Entries,
           \A e \in es : e[2] = "none"
    PROVE  LET rs == {<<e[1], p>> : e \in {f \in es : f[2] = "none" /\ p \in {f[1].from, f[1].to}}}
           IN  Movement(es \cup rs, p) = 0
  <1> DEFINE rs == {<<e[1], p>> : e \in {f \in es : f[2] = "none" /\ p \in {f[1].from, f[1].to}}}
             all == es \cup rs
             C == Credits(all, p)
             D == Debits(all, p)
             flip(e) == <<e[1], IF e[2] = "none" THEN p ELSE "none">>
             g == [u \in EntryUnits(C) |-> <<flip(u[1]), u[2]>>]
  <1>1. p # "none"
    BY NettingAssumption
  <1>2. ASSUME NEW t PROVE <<t, p>> \in rs <=> <<t, "none">> \in es /\ p \in {t.from, t.to}
    <2>1. \A e \in es : e = <<e[1], "none">>
      BY DEF Entries
    <2> QED
      BY <2>1
  <1>3. \A e \in all : e = <<e[1], e[2]>> /\ e[2] \in {"none", p}
    BY DEF Entries
  <1>4. \A t : /\ <<t, "none">> \in C <=> <<t, "none">> \in es /\ p = t.to
               /\ <<t, p>> \in C <=> <<t, "none">> \in es /\ p = t.from
               /\ <<t, "none">> \in D <=> <<t, "none">> \in es /\ p = t.from
               /\ <<t, p>> \in D <=> <<t, "none">> \in es /\ p = t.to
    <2> SUFFICES ASSUME NEW t
                 PROVE  /\ <<t, "none">> \in C <=> <<t, "none">> \in es /\ p = t.to
                        /\ <<t, p>> \in C <=> <<t, "none">> \in es /\ p = t.from
                        /\ <<t, "none">> \in D <=> <<t, "none">> \in es /\ p = t.from
                        /\ <<t, p>> \in D <=> <<t, "none">> \in es /\ p = t.to
      OBVIOUS
    <2>1. <<t, "none">> \in all <=> <<t, "none">> \in es
      BY <1>1
    <2>2. <<t, p>> \in all <=> <<t, p>> \in rs
      BY <1>1
    <2>3. (<<t, "none">> \in C <=> <<t, "none">> \in all /\ p = t.to)
          /\ (<<t, "none">> \in D <=> <<t, "none">> \in all /\ p = t.from)
      BY DEF Credits, Debits
    <2>4. (<<t, p>> \in C <=> <<t, p>> \in all /\ p = t.from)
          /\ (<<t, p>> \in D <=> <<t, p>> \in all /\ p = t.to)
      BY <1>1 DEF Credits, Debits
    <2> HIDE DEF all, C, D, rs
    <2> QED
      BY <1>2, <2>1, <2>2, <2>3, <2>4
  <1>5. C \subseteq all /\ D \subseteq all
    BY DEF Credits, Debits
  <1> HIDE DEF all, C, D, rs
  <1>6. \A e \in C : flip(e) \in D /\ flip(flip(e)) = e /\ flip(e)[1] = e[1]
    BY <1>1, <1>3, <1>4, <1>5
  <1>7. \A e \in D : flip(e) \in C /\ flip(flip(e)) = e /\ flip(e)[1] = e[1]
    BY <1>1, <1>3, <1>4, <1>5
  <1> HIDE DEF flip
  <1>8. g \in Bijection(EntryUnits(C), EntryUnits(D))
    <2>1. ASSUME NEW X, NEW u PROVE u \in EntryUnits(X) <=> \E e \in X : \E k \in 1 .. e[1].amt : u = <<e, k>>
      BY DEF EntryUnits
    <2>2. ASSUME NEW u \in EntryUnits(C) PROVE g[u] \in EntryUnits(D)
      <3>1. PICK e \in C : \E k \in 1 .. e[1].amt : u = <<e, k>>
        BY <2>1
      <3>10. PICK k \in 1 .. e[1].amt : u = <<e, k>>
        BY <3>1
      <3>2. flip(e) \in D /\ k \in 1 .. flip(e)[1].amt /\ g[u] = <<flip(e), k>>
        BY <1>6, <3>10
      <3> QED
        BY <2>1, <3>2
    <2>3. ASSUME NEW u \in EntryUnits(C), NEW v \in EntryUnits(C), g[u] = g[v] PROVE u = v
      <3>1. PICK e \in C : \E k \in 1 .. e[1].amt : u = <<e, k>>
        BY <2>1
      <3>10. PICK k \in 1 .. e[1].amt : u = <<e, k>>
        BY <3>1
      <3>2. PICK f \in C : \E m \in 1 .. f[1].amt : v = <<f, m>>
        BY <2>1
      <3>20. PICK m \in 1 .. f[1].amt : v = <<f, m>>
        BY <3>2
      <3>3. flip(e) = flip(f) /\ k = m
        BY <2>3, <3>10, <3>20
      <3> QED
        BY <1>6, <3>10, <3>20, <3>3
    <2>4. ASSUME NEW v \in EntryUnits(D) PROVE \E u \in EntryUnits(C) : g[u] = v
      <3>1. PICK e \in D : \E k \in 1 .. e[1].amt : v = <<e, k>>
        BY <2>1
      <3>10. PICK k \in 1 .. e[1].amt : v = <<e, k>>
        BY <3>1
      <3>2. flip(e) \in C /\ k \in 1 .. flip(e)[1].amt /\ flip(flip(e)) = e
        BY <1>7, <3>10
      <3>3. <<flip(e), k>> \in EntryUnits(C)
        BY <2>1, <3>2
      <3> QED
        BY <3>10, <3>2, <3>3
    <2>5. g \in [EntryUnits(C) -> EntryUnits(D)]
      BY <2>2
    <2> HIDE DEF g
    <2>6. g \in Injection(EntryUnits(C), EntryUnits(D))
      BY <2>3, <2>5 DEF Injection, IsInjective
    <2>7. g \in Surjection(EntryUnits(C), EntryUnits(D))
      BY <2>4, <2>5 DEF Surjection
    <2> QED
      BY <2>6, <2>7 DEF Bijection
  <1>9. IsFiniteSet(C) /\ C \subseteq Entries
    <2>1. IsFiniteSet(rs)
      <3> DEFINE touch == {f \in es : f[2] = "none" /\ p \in {f[1].from, f[1].to}}
                 h == [e \in touch |-> <<e[1], p>>]
      <3>1. h \in Surjection(touch, rs)
        BY DEF Surjection, rs
      <3>2. IsFiniteSet(touch)
        BY FS_Subset
      <3> HIDE DEF h, touch
      <3> QED
        BY <3>1, <3>2, FS_Surjection
    <2>2. IsFiniteSet(all)
      BY <2>1, FS_Union DEF all
    <2>3. rs \subseteq Entries
      BY DEF rs, Entries
    <2> QED
      BY <1>5, <2>2, <2>3, FS_Subset DEF all
  <1>10. IsFiniteSet(EntryUnits(C)) /\ Units(C) \in Nat
    BY <1>9, UnitsAreFinite
  <1>11. Cardinality(EntryUnits(D)) = Cardinality(EntryUnits(C))
    <2> HIDE DEF g
    <2> QED
      BY <1>8, <1>10, FS_Bijection DEF ExistsBijection
  <1>12. Units(C) = Units(D)
    BY <1>11 DEF Units, EntryUnits
  <1>13. Movement(all, p) = 0
    BY <1>10, <1>12 DEF Movement, C, D
  <1> QED
    BY <1>13 DEF all, rs
-----------------------------------------------------------------------------
LegStates == {"NONE", "QUEUED", "SUBMITTED", "SETTLED", "FAILED", "CANCELLED"}
PosFns == UNION {[S -> Int] : S \in SUBSET Participants}
LegFns == UNION {[S -> LegStates] : S \in SUBSET Participants}
RunRecs == [pos : PosFns, status : {"PASSED", "FAILED_INTEGRITY", "COMPUTING", "SUPERSEDED"},
            excluded : Participants \cup {"none"}, legs : LegFns]

Unsealed == {"WINDOW_OPEN", "ACCUMULATING_POSITIONS", "CUTOFF_REACHED"}

NTypes ==
    /\ window \in WINDOW_STATES
    /\ facts \subseteq Entries /\ IsFiniteSet(facts)
    /\ runs \in Seq(RunRecs)

(* What a live run was sealed with, and what is still so.                    *)
LiveOK(n) ==
    /\ SumOf(runs[n].pos) = 0 /\ runs[n].pos = Derived(facts) /\ runs[n].pos = mirror
    /\ DOMAIN runs[n].legs = DOMAIN runs[n].pos
    /\ \A p \in DOMAIN runs[n].pos :
          /\ runs[n].legs[p] = "NONE" <=> runs[n].pos[p] = 0
          /\ window \in Settled => runs[n].legs[p] \in {"NONE", "SETTLED"}

Sealed ==
    /\ window \in {"WINDOW_OPEN", "ACCUMULATING_POSITIONS"} => runs = <<>>
    /\ IF window \in Unsealed THEN LiveRuns = {} ELSE \E n \in DOMAIN runs : LiveRuns = {n}

NInv ==
    /\ NTypes
    /\ Sealed
    /\ \A n \in LiveRuns : LiveOK(n)

(* Reversals come with the run of their unwind, or with no run at all.       *)
FactsOK ==
    \/ \A e \in facts : e[2] = "none"
    \/ \E n \in DOMAIN runs : runs[n].excluded # "none"
    \/ window = "CUTOFF_REACHED" /\ \E n \in DOMAIN runs : runs[n].pos = Derived(facts)

(* One round of unwinding, PSO_MAX_UNWIND_ROUNDS as it ships: a second one   *)
(* would reverse an entry between the two excluded participants twice.       *)
UInv == MaxUnwindRounds = 1 => FactsOK /\ ExcludedIsOut

(* derive_window gives every participant of the entries an amount.           *)
LEMMA DerivedType ==
    ASSUME NEW es, IsFiniteSet(es), es \subseteq Entries
    PROVE  Derived(es) \in PosFns
  <1> DEFINE S == UNION {{e[1].from, e[1].to} : e \in es}
  <1>1. S \in SUBSET Participants
    BY NettingAssumption DEF Entries
  <1>2. ASSUME NEW p \in S PROVE Movement(es, p) \in Int
    <2>1. Credits(es, p) \subseteq es /\ Debits(es, p) \subseteq es
      BY DEF Credits, Debits
    <2>2. IsFiniteSet(Credits(es, p)) /\ IsFiniteSet(Debits(es, p))
      BY <2>1, FS_Subset
    <2>3. Units(Credits(es, p)) \in Nat /\ Units(Debits(es, p)) \in Nat
      BY <2>1, <2>2, UnitsAreFinite
    <2> QED
      BY <2>3 DEF Movement
  <1>3. Derived(es) \in [S -> Int]
    BY <1>2 DEF Derived
  <1> QED
    BY <1>1, <1>3 DEF PosFns

(* A new run, and the legs it is sealed with.                                *)
LEMMA NewRunIs ==
    ASSUME NEW pos \in PosFns, NEW st \in {"PASSED", "FAILED_INTEGRITY", "COMPUTING"},
           NEW ex \in Participants \cup {"none"}
    PROVE  LET r == NewRun(pos, st, ex)
           IN  /\ r \in RunRecs /\ r.pos = pos /\ r.status = st /\ r.excluded = ex
               /\ st = "PASSED" => /\ DOMAIN r.legs = DOMAIN pos
                                   /\ \A p \in DOMAIN pos : /\ r.legs[p] = "NONE" <=> pos[p] = 0
                                                            /\ r.legs[p] \in {"NONE", "QUEUED"}
  <1> DEFINE r == NewRun(pos, st, ex)
  <1>1. PICK S \in SUBSET Participants : pos \in [S -> Int]
    BY DEF PosFns
  <1>2. LegsOf(pos) \in [S -> LegStates]
    BY <1>1 DEF LegsOf, LegStates
  <1>3. LegsOf(pos) \in LegFns
    BY <1>2 DEF LegFns
  <1>4. [p \in {} |-> "NONE"] \in LegFns
    <2>1. [p \in {} |-> "NONE"] \in [{} -> LegStates]
      OBVIOUS
    <2> QED
      BY <2>1 DEF LegFns
  <1>5. r.legs \in LegFns /\ r.pos = pos /\ r.status = st /\ r.excluded = ex
        /\ (st = "PASSED" => r.legs = LegsOf(pos))
    BY <1>3, <1>4 DEF NewRun
  <1>6. r \in RunRecs
    BY <1>3, <1>4 DEF RunRecs, NewRun
  <1>7. \A p \in DOMAIN pos : /\ LegsOf(pos)[p] = "NONE" <=> pos[p] = 0
                              /\ LegsOf(pos)[p] \in {"NONE", "QUEUED"}
    BY DEF LegsOf
  <1>8. DOMAIN LegsOf(pos) = DOMAIN pos
    BY DEF LegsOf
  <1> QED
    BY <1>5, <1>6, <1>7, <1>8

(* compute, on runs of which none is live: it seals one live run on exactly  *)
(* the positions of the entries, or leaves the window without one.           *)
SealedOn(es, m, ex, n) ==
    /\ LiveRuns' = {n} /\ runs'[n].excluded = ex
    /\ runs'[n].pos = Derived(es) /\ Derived(es) = m /\ SumOf(Derived(es)) = 0
    /\ DOMAIN runs'[n].legs = DOMAIN runs'[n].pos
    /\ \A p \in DOMAIN runs'[n].pos : runs'[n].legs[p] = "NONE" <=> runs'[n].pos[p] = 0

ComputesTo(es, m, rs, ex) ==
    /\ runs' \in Seq(RunRecs)
    /\ \A n \in DOMAIN rs : n \in DOMAIN runs' /\ runs'[n] = rs[n]
    /\ \/ /\ window' = "CUTOFF_REACHED" /\ LiveRuns' = {}
          /\ \/ runs' = rs /\ \E n \in DOMAIN rs : rs[n].pos = Derived(es)
             \/ \E n \in DOMAIN runs' : runs'[n].excluded = ex
       \/ window' = "NETTING_CALCULATED" /\ \E n \in DOMAIN runs' : SealedOn(es, m, ex, n)

LEMMA Computing ==
    ASSUME NEW es, IsFiniteSet(es), es \subseteq Entries, NEW m,
           NEW rs \in Seq(RunRecs), \A n \in DOMAIN rs : rs[n].status # "PASSED",
           NEW ex \in Participants \cup {"none"}, Compute(es, m, rs, ex)
    PROVE  ComputesTo(es, m, rs, ex)
  <1> DEFINE pos == Derived(es)
  <1>1. pos \in PosFns
    BY DerivedType
  <1>2. CASE runs' = rs /\ window' = "CUTOFF_REACHED" /\ \E n \in DOMAIN rs : rs[n].pos = pos
    BY <1>2 DEF LiveRuns, ComputesTo
  <1>3. ASSUME NEW st \in {"PASSED", "FAILED_INTEGRITY", "COMPUTING"},
               runs' = Append(rs, NewRun(pos, st, ex)),
               IF st = "PASSED" THEN window' = "NETTING_CALCULATED" /\ IntegrityHolds(pos, m)
                                ELSE window' = "CUTOFF_REACHED"
        PROVE  ComputesTo(es, m, rs, ex)
    <2> DEFINE r == NewRun(pos, st, ex)
               k == Len(rs) + 1
    <2>1. /\ r \in RunRecs /\ r.pos = pos /\ r.status = st /\ r.excluded = ex
          /\ st = "PASSED" => /\ DOMAIN r.legs = DOMAIN pos
                              /\ \A p \in DOMAIN pos : r.legs[p] = "NONE" <=> pos[p] = 0
      BY <1>1, NewRunIs
    <2> HIDE DEF pos, r
    <2>2. /\ runs' \in Seq(RunRecs) /\ DOMAIN runs' = DOMAIN rs \cup {k} /\ k \notin DOMAIN rs
          /\ \A n \in DOMAIN rs : runs'[n] = rs[n]
          /\ runs'[k] = r
      BY <1>3, <2>1 DEF r
    <2>3. LiveRuns' = IF st = "PASSED" THEN {k} ELSE {}
      BY <2>1, <2>2 DEF LiveRuns
    <2>4. CASE st = "PASSED"
      <3>1. pos = m /\ SumOf(pos) = 0 /\ window' = "NETTING_CALCULATED"
        BY <1>3, <2>4 DEF IntegrityHolds
      <3> HIDE DEF k
      <3> QED
        BY <2>1, <2>2, <2>3, <2>4, <3>1 DEF ComputesTo, SealedOn, pos
    <2>5. CASE st # "PASSED"
      <3> HIDE DEF k
      <3> QED
        BY <1>3, <2>1, <2>2, <2>3, <2>5 DEF ComputesTo, pos
    <2> QED
      BY <2>4, <2>5
  <1>4. \/ runs' = rs /\ window' = "CUTOFF_REACHED" /\ \E n \in DOMAIN rs : rs[n].pos = pos
        \/ runs' = Append(rs, NewRun(pos, "FAILED_INTEGRITY", ex)) /\ window' = "CUTOFF_REACHED"
        \/ runs' = Append(rs, NewRun(pos, "COMPUTING", ex)) /\ window' = "CUTOFF_REACHED"
        \/ /\ runs' = Append(rs, NewRun(pos, "PASSED", ex)) /\ window' = "NETTING_CALCULATED"
           /\ IntegrityHolds(pos, m)
    BY DEF Compute
  <1> QED
    BY <1>2, <1>3, <1>4

(* Before the first transfer nothing is netted.                              *)
LEMMA NInitially == NInit => NInv /\ UInv
  <1> SUFFICES ASSUME NInit PROVE NInv /\ UInv
    OBVIOUS
  <1>1. runs = <<>> /\ facts = {} /\ window = "WINDOW_OPEN" /\ DOMAIN runs = {}
    BY DEF NInit
  <1>2. LiveRuns = {} /\ IsFiniteSet(facts)
    BY <1>1, FS_EmptySet DEF LiveRuns
  <1>3. runs \in Seq(RunRecs)
    BY <1>1
  <1> QED
    BY <1>1, <1>2, <1>3 DEF NInv, NTypes, Sealed, UInv, FactsOK, ExcludedIsOut, Unsealed, WINDOW_STATES

(* A step that leaves the runs, the entries and the mirror alone.            *)
LEMMA WindowMoves ==
    ASSUME NInv, UInv, UNCHANGED <<facts, mirror, runs>>, window' \in WINDOW_STATES,
           \/ window \in {"WINDOW_OPEN", "ACCUMULATING_POSITIONS"} /\ window' \in Unsealed
           \/ window \notin Unsealed /\ window' \notin Unsealed,
           window' = window \/ window # "CUTOFF_REACHED",
           window' \in {"WINDOW_OPEN", "ACCUMULATING_POSITIONS"} =>
              window \in {"WINDOW_OPEN", "ACCUMULATING_POSITIONS"},
           window' \in Settled =>
              \/ window \in Settled
              \/ \A n \in LiveRuns : \A p \in DOMAIN runs[n].legs : runs[n].legs[p] \in {"NONE", "SETTLED"}
    PROVE  NInv' /\ UInv'
  <1>1. LiveRuns' = LiveRuns
    BY DEF LiveRuns
  <1>2. NTypes'
    BY DEF NInv, NTypes
  <1>3. Sealed'
    BY <1>1 DEF NInv, Sealed, Unsealed
  <1>4. \A n \in LiveRuns' : LiveOK(n)'
    BY <1>1 DEF NInv, LiveOK
  <1>5. UInv'
    BY <1>1 DEF UInv, FactsOK, ExcludedIsOut
  <1> QED
    BY <1>2, <1>3, <1>4, <1>5 DEF NInv

(* One leg of one run is written.                                            *)
LEMMA LegWritten ==
    ASSUME NTypes, NEW n \in DOMAIN runs, NEW p \in DOMAIN runs[n].legs,
           NEW st \in LegStates, SetLeg(n, p, st)
    PROVE  /\ runs' \in Seq(RunRecs) /\ DOMAIN runs' = DOMAIN runs
           /\ \A k \in DOMAIN runs : /\ runs'[k].pos = runs[k].pos /\ runs'[k].status = runs[k].status
                                     /\ runs'[k].excluded = runs[k].excluded
                                     /\ k # n => runs'[k].legs = runs[k].legs
           /\ DOMAIN runs'[n].legs = DOMAIN runs[n].legs /\ runs'[n].legs[p] = st
           /\ \A q \in DOMAIN runs[n].legs \ {p} : runs'[n].legs[q] = runs[n].legs[q]
  <1> DEFINE row == [runs[n] EXCEPT !.legs = [runs[n].legs EXCEPT ![p] = st]]
  <1>1. runs[n] \in RunRecs
    BY DEF NTypes
  <1>2. [runs[n].legs EXCEPT ![p] = st] \in LegFns
    <2>1. PICK S \in SUBSET Participants : runs[n].legs \in [S -> LegStates]
      BY <1>1 DEF RunRecs, LegFns
    <2>2. [runs[n].legs EXCEPT ![p] = st] \in [S -> LegStates]
      BY <2>1
    <2> QED
      BY <2>2 DEF LegFns
  <1>3. /\ row \in RunRecs /\ row.pos = runs[n].pos /\ row.status = runs[n].status
        /\ row.excluded = runs[n].excluded /\ row.legs = [runs[n].legs EXCEPT ![p] = st]
    BY <1>1, <1>2 DEF RunRecs
  <1>4. runs' = [runs EXCEPT ![n] = row]
    BY DEF SetLeg
  <1> HIDE DEF row
  <1>5. /\ runs' \in Seq(RunRecs) /\ DOMAIN runs' = DOMAIN runs /\ runs'[n] = row
        /\ \A k \in DOMAIN runs : k # n => runs'[k] = runs[k]
    BY <1>3, <1>4 DEF NTypes
  <1>6. /\ DOMAIN runs'[n].legs = DOMAIN runs[n].legs /\ runs'[n].legs[p] = st
        /\ \A q \in DOMAIN runs[n].legs \ {p} : runs'[n].legs[q] = runs[n].legs[q]
    BY <1>3, <1>5
  <1> QED
    BY <1>3, <1>5, <1>6

(* The rail's word on a leg, or its submission.                              *)
LEMMA LegMoves ==
    ASSUME NInv, UInv, NEW n \in DOMAIN runs, NEW p \in DOMAIN runs[n].legs,
           NEW st \in {"SUBMITTED", "SETTLED", "FAILED"}, SetLeg(n, p, st),
           runs[n].legs[p] \in {"QUEUED", "SUBMITTED"}, UNCHANGED <<facts, mirror>>,
           \/ window' = window
           \/ window = "SETTLEMENT_INSTRUCTED" /\ window' = "SETTLEMENT_FAILED"
    PROVE  NInv' /\ UInv'
  <1>1. /\ runs' \in Seq(RunRecs) /\ DOMAIN runs' = DOMAIN runs
        /\ \A k \in DOMAIN runs : /\ runs'[k].pos = runs[k].pos /\ runs'[k].status = runs[k].status
                                  /\ runs'[k].excluded = runs[k].excluded
                                  /\ k # n => runs'[k].legs = runs[k].legs
        /\ DOMAIN runs'[n].legs = DOMAIN runs[n].legs /\ runs'[n].legs[p] = st
        /\ \A q \in DOMAIN runs[n].legs \ {p} : runs'[n].legs[q] = runs[n].legs[q]
    BY LegWritten DEF NInv, LegStates
  <1>2. LiveRuns' = LiveRuns /\ LiveRuns \subseteq DOMAIN runs
    BY <1>1 DEF LiveRuns
  <1>3. NTypes'
    BY <1>1 DEF NInv, NTypes, WINDOW_STATES
  <1>4. Sealed'
    <2>1. runs # <<>>
      OBVIOUS
    <2> QED
      BY <1>1, <1>2, <2>1 DEF NInv, Sealed, Unsealed
  <1>5. ASSUME NEW k \in LiveRuns PROVE LiveOK(k)'
    <2>1. LiveOK(k)
      BY DEF NInv
    <2>2. CASE k # n
      BY <1>1, <1>2, <2>1, <2>2 DEF LiveOK, Settled
    <2>3. CASE k = n
      <3>1. window \notin Settled /\ window' \notin Settled
        BY <2>1, <2>3 DEF LiveOK, Settled
      <3>2. runs[n].pos[p] # 0
        BY <2>1, <2>3 DEF LiveOK
      <3> QED
        BY <1>1, <1>2, <2>1, <2>3, <3>1, <3>2 DEF LiveOK
    <2> QED
      BY <2>2, <2>3
  <1>6. UInv'
    BY <1>1, <1>2 DEF UInv, FactsOK, ExcludedIsOut
  <1> QED
    BY <1>2, <1>3, <1>4, <1>5, <1>6 DEF NInv

(* What compute leaves behind satisfies the invariant.                       *)
LEMMA ComputedIsSealed ==
    ASSUME NEW es, es \subseteq Entries, IsFiniteSet(es), NEW m, facts' = es, mirror' = m,
           NEW ex \in Participants \cup {"none"},
           NEW rs \in Seq(RunRecs), \A n \in DOMAIN rs : rs[n].status # "PASSED",
           Compute(es, m, rs, ex),
           ex = "none" => FactsOK /\ rs = runs /\ facts' = facts /\ window = "CUTOFF_REACHED",
           ex # "none" => ex \in DOMAIN Derived(es) /\ Movement(es, ex) = 0
    PROVE  NInv' /\ FactsOK' /\ ExcludedIsOut'
  <1>1. ComputesTo(es, m, rs, ex)
    BY Computing
  <1>2. FactsOK'
    <2>1. CASE ex # "none"
      BY <1>1, <2>1 DEF FactsOK, ComputesTo, SealedOn
    <2>2. CASE ex = "none"
      <3>1. (\E n \in DOMAIN rs : rs[n].pos = Derived(es))
               => runs' = rs /\ window' = "CUTOFF_REACHED"
        BY DEF Compute
      <3>2. CASE \E n \in DOMAIN rs : rs[n].pos = Derived(es)
        BY <3>1, <3>2 DEF FactsOK, ComputesTo, SealedOn
      <3>3. CASE ~\E n \in DOMAIN rs : rs[n].pos = Derived(es)
        BY <1>1, <2>2, <3>3 DEF FactsOK, ComputesTo, SealedOn
      <3> QED
        BY <3>2, <3>3
    <2> QED
      BY <2>1, <2>2
  <1>3. CASE window' = "CUTOFF_REACHED" /\ LiveRuns' = {}
    BY <1>1, <1>2, <1>3 DEF ComputesTo, NInv, NTypes, Sealed, Unsealed, WINDOW_STATES, ExcludedIsOut
  <1>4. CASE window' = "NETTING_CALCULATED"
    <2>1. PICK n \in DOMAIN runs' : SealedOn(es, m, ex, n)
      BY <1>1, <1>4 DEF ComputesTo
    <2>2. NTypes' /\ Sealed'
      BY <1>1, <1>4, <2>1 DEF ComputesTo, SealedOn, NTypes, Sealed, Unsealed, WINDOW_STATES
    <2>3. LiveOK(n)'
      BY <1>4, <2>1 DEF LiveOK, Settled, SealedOn
    <2>4. ExcludedIsOut'
      <3>1. ex # "none" => Derived(es)[ex] = 0
        BY DEF Derived
      <3> QED
        BY <2>1, <3>1 DEF ExcludedIsOut, SealedOn
    <2> QED
      BY <1>2, <2>1, <2>2, <2>3, <2>4 DEF NInv, SealedOn
  <1> QED
    BY <1>1, <1>3, <1>4 DEF ComputesTo

(* The reversals of an unwind are entries of the window, finitely many.      *)
LEMMA ReversalsAreEntries ==
    ASSUME NTypes, NEW p \in Participants
    PROVE  Reversals(p) \subseteq Entries /\ IsFiniteSet(Reversals(p))
  <1> DEFINE touch == {f \in facts : f[2] = "none" /\ p \in {f[1].from, f[1].to}}
             h == [e \in touch |-> <<e[1], p>>]
  <1>1. h \in Surjection(touch, Reversals(p))
    BY DEF Surjection, Reversals
  <1>2. IsFiniteSet(touch)
    BY FS_Subset DEF NTypes
  <1>3. IsFiniteSet(Reversals(p))
    <2> HIDE DEF h, touch
    <2> QED
      BY <1>1, <1>2, FS_Surjection
  <1> QED
    BY <1>3 DEF NTypes, Entries, Reversals

(* A superseded run is no longer live, and excludes whom it excluded.        *)
LEMMA SupersededIs ==
    ASSUME NTypes, NEW n \in DOMAIN runs
    PROVE  /\ Superseded(n) \in Seq(RunRecs) /\ DOMAIN Superseded(n) = DOMAIN runs
           /\ Superseded(n)[n].status = "SUPERSEDED"
           /\ \A k \in DOMAIN runs : k # n => Superseded(n)[k] = runs[k]
  <1> DEFINE legs == [p \in DOMAIN runs[n].legs |->
                         IF runs[n].legs[p] \in {"QUEUED", "SUBMITTED"} THEN "CANCELLED"
                                                                        ELSE runs[n].legs[p]]
             row == [runs[n] EXCEPT !.status = "SUPERSEDED", !.legs = legs]
  <1>1. runs[n] \in RunRecs
    BY DEF NTypes
  <1>2. legs \in LegFns
    <2>1. PICK S \in SUBSET Participants : runs[n].legs \in [S -> LegStates]
      BY <1>1 DEF RunRecs, LegFns
    <2>2. legs \in [S -> LegStates]
      BY <2>1 DEF LegStates
    <2> HIDE DEF legs
    <2> QED
      BY <2>2 DEF LegFns
  <1>3. Superseded(n) = [runs EXCEPT ![n] = row]
    BY DEF Superseded
  <1> HIDE DEF legs
  <1>4. row \in RunRecs /\ row.status = "SUPERSEDED"
    BY <1>1, <1>2 DEF RunRecs
  <1> HIDE DEF row
  <1> QED
    BY <1>3, <1>4 DEF NTypes

(* The unwind of a failed net debtor.                                        *)
LEMMA Unwinding ==
    ASSUME NInv, UInv, NEW p \in Participants, Unwind(p)
    PROVE  NInv' /\ UInv'
  <1>1. window = "SETTLEMENT_FAILED" /\ Rounds < MaxUnwindRounds
    BY DEF Unwind
  <1>2. PICK n \in LiveRuns :
           /\ p \in DOMAIN runs[n].pos /\ facts' = facts \cup Reversals(p)
           /\ Compute(facts', mirror', Superseded(n), p)
    BY DEF Unwind
  <1>3. LiveRuns = {n} /\ n \in DOMAIN runs /\ NTypes /\ LiveOK(n)
    BY <1>1, <1>2 DEF NInv, Sealed, Unsealed, LiveRuns
  <1>4. /\ Superseded(n) \in Seq(RunRecs) /\ DOMAIN Superseded(n) = DOMAIN runs
        /\ \A k \in DOMAIN Superseded(n) : Superseded(n)[k].status # "PASSED"
    <2>1. /\ Superseded(n) \in Seq(RunRecs) /\ DOMAIN Superseded(n) = DOMAIN runs
          /\ Superseded(n)[n].status = "SUPERSEDED"
          /\ \A k \in DOMAIN runs : k # n => Superseded(n)[k] = runs[k]
      BY <1>3, SupersededIs
    <2>2. \A k \in DOMAIN runs : k # n => runs[k].status # "PASSED"
      BY <1>3 DEF LiveRuns
    <2> QED
      BY <2>1, <2>2
  <1>5. PICK es, m : es = facts' /\ m = mirror'
    OBVIOUS
  <1>6. es \subseteq Entries /\ IsFiniteSet(es) /\ Compute(es, m, Superseded(n), p)
        /\ facts \subseteq es
    <2>1. Reversals(p) \subseteq Entries /\ IsFiniteSet(Reversals(p))
      BY <1>3, ReversalsAreEntries
    <2>2. IsFiniteSet(facts \cup Reversals(p))
      BY <1>3, <2>1, FS_Union DEF NTypes
    <2> QED
      BY <1>2, <1>3, <1>5, <2>1, <2>2 DEF NTypes
  <1>7. p # "none"
    BY NettingAssumption
  <1>8. ComputesTo(es, m, Superseded(n), p)
    BY <1>4, <1>6, Computing
  <1>9. NInv'
    BY <1>5, <1>6, <1>8 DEF ComputesTo, SealedOn, NInv, NTypes, Sealed, Unsealed, WINDOW_STATES,
                            LiveOK, Settled
  <1>10. ASSUME MaxUnwindRounds = 1 PROVE FactsOK' /\ ExcludedIsOut'
    <2>1. \A k \in DOMAIN runs : runs[k].excluded = "none"
      <3> DEFINE X == {k \in DOMAIN runs : runs[k].excluded # "none"}
      <3>1. IsFiniteSet(X)
        <4>1. IsFiniteSet(DOMAIN runs)
          <5>1. DOMAIN runs = 1 .. Len(runs) /\ Len(runs) \in Int /\ 1 \in Int
            BY <1>3 DEF NTypes
          <5> QED
            BY <5>1, FS_Interval
        <4> QED
          BY <4>1, FS_Subset
      <3>2. Cardinality(X) \in Nat /\ Cardinality(X) < 1
        BY <1>1, <1>10, <3>1, FS_CardinalityType DEF Rounds
      <3>3. Cardinality(X) = 0
        BY <3>2
      <3>4. X = {}
        BY <3>1, <3>3, FS_EmptySet, Zenon
      <3> QED
        BY <3>4
    <2>2. \A e \in facts : e[2] = "none"
      BY <1>1, <1>10, <2>1 DEF UInv, FactsOK
    <2>3. Movement(es, p) = 0
      BY <1>2, <1>3, <1>5, <2>2, ReversedIsOut DEF NTypes, Reversals
    <2>4. p \in DOMAIN Derived(es)
      BY <1>2, <1>3, <1>6 DEF LiveOK, Derived
    <2> QED
      BY <1>4, <1>5, <1>6, <1>7, <2>3, <2>4, ComputedIsSealed
  <1> QED
    BY <1>9, <1>10 DEF UInv

(* Every operation of the window keeps the invariant.                        *)
LEMMA NStep == NInv /\ UInv /\ [NNext]_nvars => NInv' /\ UInv'
  <1> SUFFICES ASSUME NInv, UInv, [NNext]_nvars PROVE NInv' /\ UInv'
    OBVIOUS
  <1>0. NTypes /\ Sealed
    BY DEF NInv
  <1>1. CASE TransitionWindow
    <2>1. PICK t \in FreeTransitions : window = t[1] /\ window' = t[2]
      BY <1>1 DEF TransitionWindow
    <2>2. UNCHANGED <<facts, mirror, runs>>
      BY <1>1 DEF TransitionWindow
    <2> QED
      BY <2>1, <2>2, WindowMoves DEF FreeTransitions, Unsealed, WINDOW_STATES, Settled
  <1>2. CASE UNCHANGED <<window, facts, mirror, runs>>
    <2>1. LiveRuns' = LiveRuns
      BY <1>2 DEF LiveRuns
    <2> QED
      BY <1>2, <2>1 DEF NInv, NTypes, Sealed, LiveOK, UInv, FactsOK, ExcludedIsOut
  <1>3. ASSUME NEW t \in Transfers, PostTransfer(t) PROVE NInv' /\ UInv'
    <2>1. window = "ACCUMULATING_POSITIONS" /\ UNCHANGED <<window, runs>> /\ runs = <<>>
      BY <1>0, <1>3 DEF PostTransfer, Sealed
    <2>2. facts' = facts \/ facts' = facts \cup {<<t, "none">>}
      BY <1>3 DEF PostTransfer
    <2>3. facts' \subseteq Entries /\ IsFiniteSet(facts')
      <3>1. IsFiniteSet(facts) /\ facts \subseteq Entries /\ <<t, "none">> \in Entries
        BY <1>0 DEF NTypes, Entries
      <3>2. IsFiniteSet(facts \cup {<<t, "none">>})
        BY <3>1, FS_AddElement
      <3> QED
        BY <2>2, <3>1, <3>2
    <2>4. LiveRuns' = {} /\ LiveRuns = {}
      BY <2>1 DEF LiveRuns
    <2>5. FactsOK => FactsOK'
      BY <2>1, <2>2 DEF FactsOK
    <2> QED
      BY <1>0, <2>1, <2>3, <2>4, <2>5 DEF NInv, NTypes, Sealed, UInv, ExcludedIsOut, Unsealed
  <1>4. CASE ComputeWindow
    <2>1. /\ window = "CUTOFF_REACHED" /\ LiveRuns = {} /\ UNCHANGED <<facts, mirror>>
          /\ Compute(facts, mirror, runs, "none")
      BY <1>4 DEF ComputeWindow
    <2>2. PICK es, m : es = facts /\ m = mirror
      OBVIOUS
    <2>3. /\ es \subseteq Entries /\ IsFiniteSet(es) /\ Compute(es, m, runs, "none")
          /\ es = facts' /\ m = mirror'
      BY <1>0, <2>1, <2>2 DEF NTypes
    <2>4. \A n \in DOMAIN runs : runs[n].status # "PASSED"
      BY <2>1 DEF LiveRuns
    <2>5. ComputesTo(es, m, runs, "none")
      BY <1>0, <2>3, <2>4, Computing DEF NTypes
    <2>6. NInv'
      BY <2>3, <2>5 DEF ComputesTo, SealedOn, NInv, NTypes, Sealed, Unsealed, WINDOW_STATES,
                              LiveOK, Settled
    <2>7. FactsOK => FactsOK' /\ ExcludedIsOut'
      BY <1>0, <2>1, <2>2, <2>3, <2>4, ComputedIsSealed DEF NTypes
    <2> QED
      BY <2>6, <2>7 DEF UInv
  <1>5. ASSUME NEW n \in DOMAIN runs, NEW p \in DOMAIN runs[n].legs,
               MarkLegSubmitted(n, p) \/ RecordLegSettled(n, p) \/ RecordLegRejected(n, p)
        PROVE  NInv' /\ UInv'
    <2>1. PICK st \in {"SUBMITTED", "SETTLED", "FAILED"} : SetLeg(n, p, st)
      BY <1>5 DEF MarkLegSubmitted, RecordLegSettled, RecordLegRejected
    <2>2. /\ runs[n].legs[p] \in {"QUEUED", "SUBMITTED"} /\ UNCHANGED <<facts, mirror>>
          /\ \/ window' = window
             \/ window = "SETTLEMENT_INSTRUCTED" /\ window' = "SETTLEMENT_FAILED"
      BY <1>5 DEF MarkLegSubmitted, RecordLegSettled, RecordLegRejected
    <2> QED
      BY <2>1, <2>2, LegMoves
  <1>6. CASE ConfirmSettlement
    <2>1. /\ window = "SETTLEMENT_INSTRUCTED" /\ window' = "SETTLEMENT_CONFIRMED"
          /\ UNCHANGED <<facts, mirror, runs>>
          /\ \A n \in LiveRuns : \A p \in DOMAIN runs[n].legs : runs[n].legs[p] \in {"NONE", "SETTLED"}
      BY <1>6 DEF ConfirmSettlement
    <2> QED
      BY <2>1, WindowMoves DEF Unsealed, WINDOW_STATES
  <1>7. ASSUME NEW p \in Participants, Unwind(p) PROVE NInv' /\ UInv'
    BY <1>7, Unwinding
  <1> QED
    BY <1>1, <1>2, <1>3, <1>4, <1>5, <1>6, <1>7
       DEF NNext, nvars, MarkParticipantSuspended, SetNetDebitCap

(* The invariant gives the two properties of the window.                     *)
LEMMA NInvImplies == NInv /\ UInv => ConfirmedIsNetted /\ (MaxUnwindRounds = 1 => ExcludedIsOut)
  <1> SUFFICES ASSUME NInv, UInv PROVE ConfirmedIsNetted
    BY DEF UInv
  <1> SUFFICES ASSUME window \in Settled
               PROVE  /\ Cardinality(LiveRuns) = 1
                      /\ \A n \in LiveRuns :
                            /\ SumOf(runs[n].pos) = 0 /\ runs[n].pos = Derived(facts)
                            /\ runs[n].pos = mirror
                            /\ \A p \in DOMAIN runs[n].pos :
                                  runs[n].legs[p] = IF runs[n].pos[p] = 0 THEN "NONE" ELSE "SETTLED"
    BY DEF ConfirmedIsNetted
  <1>1. PICK n \in DOMAIN runs : LiveRuns = {n}
    BY DEF NInv, Sealed, Settled, Unsealed
  <1>2. Cardinality(LiveRuns) = 1
    BY <1>1, FS_Singleton
  <1>3. LiveOK(n)
    BY <1>1 DEF NInv
  <1> QED
    BY <1>1, <1>2, <1>3 DEF LiveOK

(* A settlement window, for any participants, transfers, caps and attempts   *)
(* and with the one round of unwinding that the configuration ships with: it *)
(* is confirmed only on the one live run that the ledger's entries net to,   *)
(* every leg settled, and the participant an unwind excluded is out of it.   *)
THEOREM WindowsNetOut ==
    ASSUME MaxUnwindRounds = 1
    PROVE  NSpec => []NettingHolds
  <1>1. NInit => NInv /\ UInv
    BY NInitially
  <1>2. NInv /\ UInv /\ [NNext]_nvars => (NInv /\ UInv)'
    BY NStep
  <1>3. NInv /\ UInv => NettingHolds
    BY NInvImplies DEF NettingHolds
  <1> QED
    BY <1>1, <1>2, <1>3, PTL DEF NSpec

(* confirm_settlement alone, whatever the number of rounds allowed.          *)
THEOREM ConfirmedNetsOut == NSpec => []ConfirmedIsNetted
  <1>1. NInit => NInv /\ UInv
    BY NInitially
  <1>2. NInv /\ UInv /\ [NNext]_nvars => (NInv /\ UInv)'
    BY NStep
  <1>3. NInv /\ UInv => ConfirmedIsNetted
    BY NInvImplies
  <1> QED
    BY <1>1, <1>2, <1>3, PTL DEF NSpec
-----------------------------------------------------------------------------
(* The operation under way, by its kind.                                     *)
WorkOK ==
    /\ rwork.op \in {"idle", "classify", "raise", "escalate", "close", "upgrade", "settle record",
                      "resolved"}
    /\ rwork.op # "idle" => rwork.line \in Lines
    /\ rwork.op = "classify" => rwork.to \in {"MATCHED", "TIMING_GAP", "UNMATCHED", "AMOUNT_MISMATCH"}
    /\ rwork.op = "settle record" => rwork.to \in Outcomes
    /\ rwork.op \in {"settle record", "resolved"} => rwork.action \in Actions

(* ResolutionIsBacked is not inductive: an operation writes the exception    *)
(* last, so what it wrote before must still be there when it gets to it.     *)
QueueInv ==
    /\ rec \in [Lines -> RECORD_STATES \cup {"none"}]
    /\ exc \in [Lines -> [status : LIVE \cup {"none", "RESOLVED", "CLOSED"},
                          tier : {"none", "DEAD_LETTER", "AUTO_TIMING_GAP", "FINANCE_QUEUE"},
                          action : Actions \cup {"none"}]]
    /\ posted \in [Lines -> SUBSET LedgerActions]
    /\ WorkOK
    /\ ResolutionIsBacked
    /\ \A l \in Lines : exc[l].tier = "FINANCE_QUEUE"
                           => rec[l] \in RECORD_TERMINAL \cup {"UNMATCHED", "AMOUNT_MISMATCH"}
    /\ rwork.op = "classify" => rec[rwork.line] = "INGESTED"
    /\ rwork.op = "raise"
          => rec[rwork.line] \in {"DEAD_LETTER", "TIMING_GAP", "UNMATCHED", "AMOUNT_MISMATCH"}
    /\ rwork.op = "close" => rec[rwork.line] = "MATCHED"
    /\ rwork.op = "upgrade" => rec[rwork.line] = "UNMATCHED" /\ exc[rwork.line].status \in LIVE
    /\ rwork.op \in {"settle record", "resolved"} /\ rwork.action \in LedgerActions
          => rwork.action \in posted[rwork.line]
    /\ rwork.op = "resolved" /\ exc[rwork.line].tier = "FINANCE_QUEUE"
          => rec[rwork.line] \in RECORD_TERMINAL

LEMMA QueueInitially == RInit => QueueInv
  BY DEF RInit, QueueInv, WorkOK, ResolutionIsBacked, NoException, Idle, LIVE, LedgerActions

(* A record that nobody resolved or closed may move.                         *)
LEMMA RecordMoves ==
    ASSUME QueueInv, NEW l \in Lines, NEW s \in RECORD_STATES,
           rec[l] \in {"none", "INGESTED", "TIMING_GAP"},
           rec' = [rec EXCEPT ![l] = s], UNCHANGED <<exc, posted>>
    PROVE  /\ rec' \in [Lines -> RECORD_STATES \cup {"none"}]
           /\ rec'[l] = s /\ \A k \in Lines \ {l} : rec'[k] = rec[k]
           /\ exc[l].tier # "FINANCE_QUEUE"
           /\ ResolutionIsBacked'
           /\ \A k \in Lines : exc'[k].tier = "FINANCE_QUEUE"
                 => rec'[k] \in RECORD_TERMINAL \cup {"UNMATCHED", "AMOUNT_MISMATCH"}
  <1>1. /\ rec' \in [Lines -> RECORD_STATES \cup {"none"}]
        /\ rec'[l] = s /\ \A k \in Lines \ {l} : rec'[k] = rec[k]
    BY DEF QueueInv
  <1>2. exc[l].tier # "FINANCE_QUEUE" /\ exc[l].status # "CLOSED"
    BY DEF QueueInv, ResolutionIsBacked, RECORD_TERMINAL
  <1>3. ResolutionIsBacked'
    <2> SUFFICES ASSUME NEW k \in Lines
                 PROVE  /\ exc[k].status = "RESOLVED" /\ exc[k].action \in LedgerActions
                             => exc[k].action \in posted[k]
                        /\ exc[k].status = "CLOSED" => rec'[k] = "MATCHED"
                        /\ exc[k].status = "RESOLVED" /\ exc[k].tier = "FINANCE_QUEUE"
                             => rec'[k] \in RECORD_TERMINAL
      BY DEF ResolutionIsBacked
    <2> QED
      BY <1>1, <1>2 DEF QueueInv, ResolutionIsBacked
  <1> QED
    BY <1>1, <1>2, <1>3 DEF QueueInv

(* The record of a resolved exception is settled before the exception.       *)
LEMMA SettleRecordStep ==
    ASSUME QueueInv, SettleRecord
    PROVE  QueueInv'
  <1> DEFINE l == rwork.line
  <1>1. /\ rwork.op = "settle record" /\ exc' = exc /\ posted' = posted /\ l \in Lines
        /\ rwork.action \in LedgerActions => rwork.action \in posted[l]
        /\ rwork.action \in Actions
    BY DEF SettleRecord, QueueInv, WorkOK
  <1>2. \/ /\ rec[l] \in {"UNMATCHED", "AMOUNT_MISMATCH"}
           /\ rwork.to \in RECORD_TERMINAL /\ rec' = [rec EXCEPT ![l] = rwork.to]
        \/ rec' = rec
    BY DEF SettleRecord, QueueInv, WorkOK, RECORD_TERMINAL
  <1>t. rec \in [Lines -> RECORD_STATES \cup {"none"}]
    BY DEF QueueInv
  <1>3. \/ rwork'.op = "idle"
        \/ /\ rwork'.op = "resolved" /\ rwork'.line = l /\ rwork'.action = rwork.action
           /\ rec[l] \notin {"UNMATCHED", "AMOUNT_MISMATCH"} \/ rec'[l] \in RECORD_TERMINAL
    BY <1>1, <1>t DEF SettleRecord, Idle, QueueInv, WorkOK, RECORD_TERMINAL
  <1>q. /\ ResolutionIsBacked
        /\ \A k \in Lines : exc[k].tier = "FINANCE_QUEUE"
              => rec[k] \in RECORD_TERMINAL \cup {"UNMATCHED", "AMOUNT_MISMATCH"}
    BY DEF QueueInv
  <1>x. RECORD_TERMINAL \subseteq RECORD_STATES /\ "MATCHED" \notin {"UNMATCHED", "AMOUNT_MISMATCH"}
        /\ RECORD_TERMINAL \cap {"UNMATCHED", "AMOUNT_MISMATCH"} = {}
    BY DEF RECORD_TERMINAL, RECORD_STATES
  <1> HIDE DEF l
  <1>4. /\ rec' \in [Lines -> RECORD_STATES \cup {"none"}]
        /\ \A k \in Lines : \/ rec'[k] = rec[k]
                            \/ rec[k] \in {"UNMATCHED", "AMOUNT_MISMATCH"} /\ rec'[k] \in RECORD_TERMINAL
    <2>1. CASE rec' = rec
      BY <1>t, <2>1
    <2>2. CASE /\ rec[l] \in {"UNMATCHED", "AMOUNT_MISMATCH"}
               /\ rwork.to \in RECORD_TERMINAL /\ rec' = [rec EXCEPT ![l] = rwork.to]
      BY <1>1, <1>t, <1>x, <2>2
    <2> QED  BY <1>2, <2>1, <2>2
  <1>5. WorkOK'
    BY <1>1, <1>3 DEF WorkOK
  <1>6. ResolutionIsBacked'
    BY <1>1, <1>4, <1>q, <1>x DEF ResolutionIsBacked
  <1>7. \A k \in Lines : exc'[k].tier = "FINANCE_QUEUE"
              => rec'[k] \in RECORD_TERMINAL \cup {"UNMATCHED", "AMOUNT_MISMATCH"}
    BY <1>1, <1>4, <1>q
  <1>8. rwork'.op = "resolved" /\ exc'[rwork'.line].tier = "FINANCE_QUEUE"
           => rec'[rwork'.line] \in RECORD_TERMINAL
    <2> SUFFICES ASSUME rwork'.op = "resolved", exc'[rwork'.line].tier = "FINANCE_QUEUE"
                 PROVE  rec'[rwork'.line] \in RECORD_TERMINAL
      OBVIOUS
    <2>1. rwork'.line = l /\ (rec[l] \notin {"UNMATCHED", "AMOUNT_MISMATCH"} \/ rec'[l] \in RECORD_TERMINAL)
      BY <1>3
    <2>2. exc[l].tier = "FINANCE_QUEUE"
      BY <1>1, <2>1
    <2> QED  BY <1>1, <1>4, <1>q, <2>1, <2>2
  <1>9. rwork'.op = "idle" \/ (rwork'.op = "resolved" /\ rwork'.line = l /\ rwork'.action = rwork.action)
    BY <1>3
  <1> HIDE DEF ResolutionIsBacked, WorkOK
  <1> QED
    BY <1>1, <1>4, <1>5, <1>6, <1>7, <1>8, <1>9 DEF QueueInv

LEMMA QueueStep == QueueInv /\ [RNext]_rvars => QueueInv'
  <1> SUFFICES ASSUME QueueInv, [RNext]_rvars PROVE QueueInv'
    OBVIOUS
  <1> USE DEF QueueInv, WorkOK, ResolutionIsBacked, Idle, Quiet, LIVE, LedgerActions, Actions,
              RECORD_TERMINAL, RECORD_STATES
  <1>1. CASE ClassifyLine
    BY <1>1 DEF ClassifyLine
  <1>2. CASE RaiseException
    BY <1>2 DEF RaiseException, TierOf
  <1>3. CASE Escalate
    BY <1>3 DEF Escalate
  <1>4. CASE CloseException
    BY <1>4 DEF CloseException
  <1>5. CASE UpgradeTier
    BY <1>5 DEF UpgradeTier
  <1>6. CASE SettleRecord
    BY <1>6, SettleRecordStep
  <1>7. CASE Resolved
    BY <1>7 DEF Resolved
  <1>8. CASE Die
    BY <1>8 DEF Die
  <1>9. ASSUME NEW l \in Lines, TimePasses(l) PROVE QueueInv'
    BY <1>9 DEF TimePasses
  <1>10. ASSUME NEW l \in Lines, IngestLine(l) PROVE QueueInv'
    <2>1. Verdict(l) \in {"MATCHED", "TIMING_GAP", "UNMATCHED", "AMOUNT_MISMATCH"}
      BY DEF Verdict
    <2>2. CASE NormalizeRawLine(l).parse_failed
      <3>1. /\ rec[l] = "none" /\ rec' = [rec EXCEPT ![l] = "DEAD_LETTER"]
            /\ rwork'.op = "raise" /\ rwork'.line = l /\ UNCHANGED <<exc, posted>>
        BY <1>10, <2>2 DEF IngestLine
      <3>2. "DEAD_LETTER" \in RECORD_STATES
        OBVIOUS
      <3>3. WorkOK'
        BY <3>1
      <3>4. /\ rec' \in [Lines -> RECORD_STATES \cup {"none"}]
            /\ rec'[l] = "DEAD_LETTER"
            /\ ResolutionIsBacked'
            /\ \A k \in Lines : exc'[k].tier = "FINANCE_QUEUE"
                  => rec'[k] \in RECORD_TERMINAL \cup {"UNMATCHED", "AMOUNT_MISMATCH"}
        BY <3>1, <3>2, RecordMoves
      <3> HIDE DEF ResolutionIsBacked, WorkOK
      <3> QED
        BY <3>1, <3>3, <3>4
    <2>3. CASE ~NormalizeRawLine(l).parse_failed
      <3>1. /\ rec[l] = "none" /\ rec' = [rec EXCEPT ![l] = "INGESTED"]
            /\ rwork'.op = "classify" /\ rwork'.line = l /\ rwork'.to = Verdict(l)
            /\ UNCHANGED <<exc, posted>>
        BY <1>10, <2>3 DEF IngestLine
      <3>2. "INGESTED" \in RECORD_STATES
        OBVIOUS
      <3>3. WorkOK'
        BY <2>1, <3>1
      <3> QED
        BY <3>1, <3>2, <3>3, RecordMoves
    <2> QED
      BY <2>2, <2>3
  <1>11. ASSUME NEW l \in Lines, Assign(l) PROVE QueueInv'
    BY <1>11 DEF Assign
  <1>12. ASSUME NEW l \in Lines, RetryTimingGap(l) PROVE QueueInv'
    <2>1. CASE Verdict(l) = "MATCHED"
      <3>1. /\ rec[l] = "TIMING_GAP" /\ rec' = [rec EXCEPT ![l] = "MATCHED"]
            /\ rwork'.op = "idle" \/ (rwork'.op = "close" /\ rwork'.line = l)
            /\ UNCHANGED <<exc, posted>>
        BY <1>12, <2>1 DEF RetryTimingGap
      <3>2. "MATCHED" \in RECORD_STATES
        OBVIOUS
      <3>3. WorkOK'
        BY <3>1
      <3>4. /\ rec' \in [Lines -> RECORD_STATES \cup {"none"}]
            /\ rec'[l] = "MATCHED"
            /\ ResolutionIsBacked'
            /\ \A k \in Lines : exc'[k].tier = "FINANCE_QUEUE"
                  => rec'[k] \in RECORD_TERMINAL \cup {"UNMATCHED", "AMOUNT_MISMATCH"}
        BY <3>1, <3>2, RecordMoves
      <3> HIDE DEF ResolutionIsBacked, WorkOK
      <3> QED
        BY <3>1, <3>3, <3>4
    <2>2. CASE Verdict(l) # "MATCHED"
      <3>1. /\ rec[l] = "TIMING_GAP" /\ rec' = [rec EXCEPT ![l] = "UNMATCHED"]
            /\ \/ rwork'.op = "idle"
               \/ rwork'.op = "upgrade" /\ rwork'.line = l /\ exc[l].status \in LIVE
            /\ UNCHANGED <<exc, posted>>
        BY <1>12, <2>2 DEF RetryTimingGap
      <3>2. "UNMATCHED" \in RECORD_STATES
        OBVIOUS
      <3>3. WorkOK'
        BY <3>1
      <3>4. /\ rec' \in [Lines -> RECORD_STATES \cup {"none"}]
            /\ rec'[l] = "UNMATCHED"
            /\ ResolutionIsBacked'
            /\ \A k \in Lines : exc'[k].tier = "FINANCE_QUEUE"
                  => rec'[k] \in RECORD_TERMINAL \cup {"UNMATCHED", "AMOUNT_MISMATCH"}
        BY <3>1, <3>2, RecordMoves
      <3> HIDE DEF ResolutionIsBacked, WorkOK
      <3> QED
        BY <3>1, <3>3, <3>4
    <2> QED
      BY <2>1, <2>2
  <1>13. ASSUME NEW l \in Lines, NEW fit, InstructionSettles(l, fit) PROVE QueueInv'
    BY <1>13 DEF InstructionSettles
  <1>14. ASSUME NEW l \in Lines, NEW a \in Actions, NEW o \in Outcomes, Resolve(l, a, o)
         PROVE  QueueInv'
    <2>1. CASE a \in LedgerActions
      <3>1. /\ rwork'.op = "settle record" /\ rwork'.line = l /\ rwork'.action = a /\ rwork'.to = o
            /\ posted' = [posted EXCEPT ![l] = @ \cup {a}] /\ UNCHANGED <<rec, exc>>
        BY <1>14, <2>1 DEF Resolve, PostResolutionEntry
      <3>2. /\ posted' \in [Lines -> SUBSET LedgerActions] /\ a \in posted'[l]
            /\ \A k \in Lines : \A b \in posted[k] : b \in posted'[k]
        BY <2>1, <3>1
      <3>3. ASSUME NEW k \in Lines, exc[k].action \in posted[k] PROVE exc'[k].action \in posted'[k]
        BY <3>1, <3>2, <3>3
      <3>5. ResolutionIsBacked'
        BY <3>1, <3>3
      <3>4. WorkOK'
        BY <3>1
      <3> HIDE DEF ResolutionIsBacked, WorkOK
      <3> QED
        BY <3>1, <3>2, <3>4, <3>5
    <2>2. CASE a \notin LedgerActions
      <3>1. /\ rwork'.op = "settle record" /\ rwork'.line = l /\ rwork'.action = a /\ rwork'.to = o
            /\ UNCHANGED <<rec, exc, posted>>
        BY <1>14, <2>2 DEF Resolve
      <3> QED
        BY <2>2, <3>1
    <2> QED
      BY <2>1, <2>2
  <1>15. CASE UNCHANGED rvars
    BY <1>15 DEF rvars
  <1> QED
    BY <1>1, <1>2, <1>3, <1>4, <1>5, <1>6, <1>7, <1>8, <1>9, <1>10, <1>11, <1>12, <1>13, <1>14,
       <1>15 DEF RNext, RSteps

(* What the reconciliation queue says was done was done: for any set of      *)
(* lines and any number of deaths between the writes of resolve and of the   *)
(* retry sweep, a resolution has its ledger entry and its record.            *)
THEOREM ResolutionsAreBacked == RSpec => []ResolutionIsBacked
  BY QueueInitially, QueueStep, PTL DEF RSpec, QueueInv
=============================================================================
