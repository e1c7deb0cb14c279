----------------------------- MODULE FlowPreview -----------------------------
(***************************************************************************)
(* uhumarketing-frontend: the numbers of the simulation of a flow          *)
(* (lib/simulate.ts), shown beside the canvas and before publishing.  The  *)
(* blocks are visited in breadth from the trigger and each is applied to   *)
(* two counts: people who came in and have not met a filter, and people    *)
(* who have.                                                               *)
(***************************************************************************)
EXTENDS FlowEditor, Integers, Sequences, FiniteSetsExt

CONSTANTS
  SegmentSize,  \* contacts of the chosen audience
  CrmSize,      \* contacts of the CRM: 500 in the code
  Limit         \* the cap of a limit block: 100 by default

\* Math.round(n / d) of a number that is not negative.
Round(n, d) == (2 * n + d) \div (2 * d)
Smaller(a, b) == IF a < b THEN a ELSE b
Larger(a, b) == IF a > b THEN a ELSE b
OrElse(a, b) == IF a = 0 THEN b ELSE a      \* JavaScript's a || b

-------------------------------------------------------------------------------
(* The order of the visit.                                                 *)

\* The numbers of S, the smallest first.
InOrder(S) ==
  [i \in 1..Cardinality(S) |-> CHOOSE n \in S : Cardinality({m \in S : m < n}) = i - 1]

Targets(f, b) ==
  LET ids == InOrder({e.id : e \in {x \in f.edges : x.from = b}})
  IN [i \in DOMAIN ids |-> (CHOOSE e \in f.edges : e.id = ids[i]).to]

\* One turn of the loop over the queue.
Turn(f, at) ==
  LET b == Head(at.queue)
      rest == [at EXCEPT !.queue = Tail(@), !.visited = @ \cup {b}]
  IN IF b \in at.visited \/ b \notin Enabled(f) THEN rest
     ELSE [rest EXCEPT !.queue = @ \o Targets(f, b), !.out = Append(@, b)]

\* Fault variant: the visit starts at the first block, trigger or not.
Order_FromFirst(f) ==
  IF NoTrigger(f) THEN InOrder(Enabled(f))
  ELSE LET start == [queue |-> <<First(Enabled(f))>>, visited |-> {}, out |-> <<>>]
           turns == 1 + Cardinality(f.edges)
           walk[n \in 0..turns] ==
             IF n = 0 THEN start
             ELSE LET at == walk[n - 1] IN IF at.queue = <<>> THEN at ELSE Turn(f, at)
       IN walk[turns].out

\* The blocks visited: from the first trigger, not through those that are off;
\* all of them when there is no trigger.  A connection is pushed at most once.
Order(f) ==
  IF NoTrigger(f) THEN InOrder(Enabled(f))
  ELSE LET start == [queue |-> <<First(Of(f, "trigger"))>>, visited |-> {}, out |-> <<>>]
           turns == 1 + Cardinality(f.edges)
           walk[n \in 0..turns] ==
             IF n = 0 THEN start
             ELSE LET at == walk[n - 1] IN IF at.queue = <<>> THEN at ELSE Turn(f, at)
       IN walk[turns].out

\* "nao esta conectado ao gatilho e nao vai rodar".
Visited(f) == LET order == Order(f) IN {order[i] : i \in DOMAIN order}
NotRun(f) == Enabled(f) \ Visited(f)

-------------------------------------------------------------------------------
(* applyNode.                                                              *)

\* The contacts a source brings in.
People(f, b) ==
  IF f.kind[b] = "contacts" THEN CrmSize
  ELSE IF f.config[b] = "set" THEN SegmentSize ELSE 0

\* Fault variant: those who came in are counted on after the filter.
Apply_FilterKeepsAudience(f, b, at) ==
  LET all == at.audience + at.filtered IN
  CASE b \in Sources(f)       -> [at EXCEPT !.audience = @ + People(f, b)]
    [] f.kind[b] = "filter"  -> [at EXCEPT !.filtered =
                                   IF f.config[b] = "set" THEN Round(all * 92, 100) ELSE all]
    [] f.kind[b] = "dedupe"  -> [at EXCEPT !.audience = 0, !.filtered = Round(@ * 96, 100)]
    [] f.kind[b] = "limit"   -> [at EXCEPT !.audience = 0,
                                   !.filtered = Smaller(OrElse(@, at.audience), Limit)]
    [] f.kind[b] = "branch"  -> [at EXCEPT !.filtered = Round(@ * 60, 100)]
    [] f.kind[b] = "channel" -> [at EXCEPT !.audience = 0, !.skips = TRUE,
                                   !.filtered = OrElse(@, at.audience)]
    [] OTHER                 -> at

\* A filter, here with no rule or with one, takes all in; a deduplication only
\* counts those who met a filter, and drops the others.
Apply(f, b, at) ==
  LET all == at.audience + at.filtered IN
  CASE b \in Sources(f)       -> [at EXCEPT !.audience = @ + People(f, b)]
    [] f.kind[b] = "filter"  -> [at EXCEPT !.audience = 0, !.filtered =
                                   IF f.config[b] = "set" THEN Round(all * 92, 100) ELSE all]
    [] f.kind[b] = "dedupe"  -> [at EXCEPT !.audience = 0, !.filtered = Round(@ * 96, 100)]
    [] f.kind[b] = "limit"   -> [at EXCEPT !.audience = 0,
                                   !.filtered = Smaller(OrElse(@, at.audience), Limit)]
    [] f.kind[b] = "branch"  -> [at EXCEPT !.filtered = Round(@ * 60, 100)]
    [] f.kind[b] = "channel" -> [at EXCEPT !.audience = 0, !.skips = TRUE,
                                   !.filtered = OrElse(@, at.audience)]
    [] OTHER                 -> at

\* universe is the largest audience between two blocks.
Visit(f, b, at) ==
  LET after == Apply(f, b, at) IN [after EXCEPT !.universe = Larger(@, after.audience)]

Simulate(f) ==
  LET order == Order(f)
      nobody == [audience |-> 0, filtered |-> 0, universe |-> 0, skips |-> FALSE]
      run[i \in 0..Len(order)] == IF i = 0 THEN nobody ELSE Visit(f, order[i], run[i - 1])
      end == run[Len(order)]
      skipped == IF end.skips THEN Round(end.filtered * 12, 1000) ELSE 0
      sent == end.filtered - skipped
      delivered == Round(sent * 972, 1000)
      read == Round(delivered * 79, 100)
  IN [universe |-> OrElse(end.universe, end.audience + end.filtered),
      reached |-> end.filtered, skipped |-> skipped, sent |-> sent,
      delivered |-> delivered, failed |-> sent - delivered, read |-> read,
      replied |-> Round(read * 14, 100), converted |-> Round(read * 85, 1000)]

-------------------------------------------------------------------------------
(* Properties.                                                             *)

\* Those the visited sources bring in, each source once.
Supplied(f) == FoldSet(LAMBDA b, n : n + People(f, b), 0,
                       Visited(f) \cap Sources(f))

\* The preview invents nobody: however sources, filters, limits, branches and
\* channels follow each other, it announces no more messages than people its
\* sources bring in, each of them counted once, and every stage of the funnel is
\* within the one before it.
NobodyIsInvented ==
  LET s == Simulate(flow) IN
  /\ s.reached <= Supplied(flow)
  /\ s.skipped + s.sent = s.reached /\ s.delivered + s.failed = s.sent
  /\ s.delivered \in 0..s.sent /\ s.read \in 0..s.delivered
  /\ s.replied \in 0..s.read /\ s.converted \in 0..s.read

\* With one trigger and no block switched off, the blocks the editor calls loose
\* are those the simulation says will not run: two walks written apart, in
\* validate.ts and simulate.ts, agree.
WalksAgree ==
  (Cardinality(Of(flow, "trigger")) = 1 /\ flow.off = {}) => Loose(flow) = NotRun(flow)
=============================================================================
